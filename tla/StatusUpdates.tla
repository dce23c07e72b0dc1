----------------------------- MODULE StatusUpdates -----------------------------
(***************************************************************************)
(* The exterior and the climate of the snapshot, as the parsed statuses of *)
(* streams and fetches are merged into it and time passes, and what the    *)
(* entities show of them.  How a message is parsed is StatusServices'      *)
(* concern; here any status of the right shape may arrive.  told is what   *)
(* the backend last said of each fact.                                     *)
(***************************************************************************)
EXTENDS ExteriorStatus, ClimateStatus

CONSTANT MaxClock   \* bound: the half minutes that pass

ASSUME UpdatesAssumption == MaxClock \in Nat /\ NoTime \notin Int

VARIABLES exterior, told, climate, clock

updateVars == <<exterior, told, climate, clock>>

(***************************************************************************)
(* The exterior: GetExterior's stream, or the answer to a fetch.           *)
(***************************************************************************)
TakesStatus(status) ==
  exterior' = IF HasData(status) THEN Merge(status, exterior) ELSE exterior

Heard(facts) ==
  [path \in FactPaths |->
     IF path \in DOMAIN facts
     THEN IF facts[path] # Unspecified THEN facts[path] ELSE told[path]
     ELSE told[path]]

FactsOf(status) == [path \in FactPaths |-> Says(status, path[1], path[2], path[3])]

StatusArrives(status) ==
  /\ TakesStatus(status)
  /\ told' = Heard(FactsOf(status))
  /\ UNCHANGED <<climate, clock>>

(***************************************************************************)
(* The climate.                                                            *)
(***************************************************************************)
\* A report that is older than the snapshot's changes nothing (_merge_partial_update).
NewerClimate(current, previous) ==
  IF previous # None /\ NoTime \notin {current.reportedAt, previous.reportedAt}
  THEN IF current.reportedAt < previous.reportedAt THEN previous ELSE current
  ELSE current

ClimateReported(report) ==
  climate' = NewerClimate(report, climate) /\ UNCHANGED <<exterior, told, clock>>

Tick == clock < MaxClock /\ clock' = clock + 1 /\ UNCHANGED <<exterior, told, climate>>

UpdatesInit ==
  /\ exterior = None /\ climate = None
  /\ told = [path \in FactPaths |-> Unspecified]
  /\ clock = 0

Times == Int \cup {NoTime}

TwinReports ==
  [running : Int, requestType : Int, endTime : Times, reportedAt : Times,
   ventilating : BOOLEAN, current : Times, requested : Times]

LegacyReports == [running : 0..9, requestType : 0..7, timeRemaining : Nat, action : 0..5]

UpdatesNext ==
  \/ \E status \in Status : StatusArrives(status)
  \/ \E report \in TwinReports : ClimateReported(ParseClimateTwin(report))
  \/ \E r \in LegacyReports :
       ClimateReported(ClimateLegacy(r.running, r.requestType, r.timeRemaining, r.action))
  \/ Tick

UpdatesSpec == UpdatesInit /\ [][UpdatesNext]_updateVars

(***************************************************************************)
(* Properties.                                                             *)
(***************************************************************************)
\* The lock, the door sensors and the any-door sensor: unknown until something was said,
\* open for a door that is ajar.
EntitiesTell ==
  /\ \A path \in FactPaths :
       /\ path[3] = "open_status" =>
            IsOpen(Says(exterior, path[1], path[2], path[3]))
              = IF told[path] = Unspecified THEN None ELSE told[path] \in {OPEN, AJAR}
       /\ path[1] = "central_lock" =>
            IsLocked(exterior) = IF told[path] = Unspecified THEN None ELSE told[path] = LOCKED
  /\ AnyDoorOpen(exterior) <=>
       \E path \in FactPaths :
         path[1] = "doors" /\ path[3] = "open_status" /\ told[path] \in {OPEN, AJAR}

\* For every fact the snapshot says what the backend last said of it, and so do the
\* entities: a partial update of either format erases nothing and hides nothing (merge,
\* _merge_partial_update, binary_sensor.py).
LastWordStands ==
  /\ \A path \in FactPaths : Says(exterior, path[1], path[2], path[3]) = told[path]
  /\ EntitiesTell

\* The countdown of a session is never negative, never more than the report's own end
\* allows, and 0 once the session has ended or is no longer active.
CountdownIsSane ==
  climate # None =>
    LET shown == ClimateTimeRemaining(climate, clock)
    IN  /\ shown >= 0
        /\ climate.endTime # NoTime =>
             /\ clock >= climate.endTime \/ ~IsActive(climate) => shown = 0
             /\ clock <= climate.endTime => 2 * shown <= climate.endTime - clock + 1

\* The countdown is sane at any time, and between two reports it only falls
\* (ClimateStatus.time_remaining and the sensor's tick).
CountdownRunsDown ==
  [][/\ CountdownIsSane'
     /\ climate' = climate /\ climate # None
          => ClimateTimeRemaining(climate, clock') <= ClimateTimeRemaining(climate, clock)]_<<climate, clock>>
===============================================================================
