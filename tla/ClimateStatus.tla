----------------------------- MODULE ClimateStatus -----------------------------
(***************************************************************************)
(* The climatization status (services/climate.py, models/climate.py) and   *)
(* the countdown of a session (sensor.py).                                 *)
(*                                                                         *)
(* Times are half minutes, so that a countdown in whole minutes has to     *)
(* round.  Timestamps that cannot be read are None, which is what the      *)
(* parser makes of them.  Temperatures are numbers, seats and the other    *)
(* readings of a message that are passed on unchanged are left out.        *)
(***************************************************************************)
EXTENDS Integers, Sequences

CONSTANT NoTime

Undefined == "UNDEFINED"

\* The enumerations of the older format, from 1; 0 is UNDEFINED.
RunningStatuses ==
  <<"IDLE", "START_ATTEMPT", "START_AFTER_DELAY", "EXTERNAL_POWER_ONLY", "ACTIVE",
    "ACTIVE_WITH_PRECLEANING", "PRECLEANING_ONLY", "HEATER_ACTIVE", "DELETE_TIMER">>

RequestTypes ==
  <<"NO_REQUEST", "TIMER", "NOW_FROM_HMI", "NOW_FROM_REMOTE", "PRECLEANING_FROM_HMI",
    "PRECLEANING_FROM_REMOTE", "HEATER_FROM_HMI">>

Actions == <<"NOT_REQUIRED", "HEATING", "COOLING", "COOLING_FAST", "VENTILATION_ONLY">>

\* _map_running_status, _map_request_type: the twin's numbers; the others are UNDEFINED.
MapRunningStatus(value) ==
  CASE value = 1 -> "ACTIVE" [] value = 2 -> "IDLE" [] value = 3 -> "START_ATTEMPT"
    [] OTHER -> Undefined

MapRequestType(value) ==
  CASE value = 1 -> "NOW_FROM_HMI" [] value = 2 -> "NOW_FROM_REMOTE" [] value = 3 -> "TIMER"
    [] value = 4 -> "NO_REQUEST" [] OTHER -> Undefined

ActiveRunningStatuses == {"ACTIVE", "ACTIVE_WITH_PRECLEANING", "EXTERNAL_POWER_ONLY", "HEATER_ACTIVE"}

\* _infer_heat_or_cool_action
InferHeatOrCoolAction(ventilating, current, requested) ==
  CASE ventilating -> "VENTILATION_ONLY"
    [] ~ventilating /\ NoTime \in {current, requested} -> Undefined
    [] OTHER -> IF requested > current THEN "HEATING"
                ELSE IF requested < current THEN "COOLING" ELSE "NOT_REQUIRED"

AtLeastZero(n) == IF n < 0 THEN 0 ELSE n

\* Python's round: a half goes to the even neighbour.
RoundedMinutes(halves) ==
  LET down == halves \div 2
  IN  IF halves % 2 = 0 \/ down % 2 = 0 THEN down ELSE down + 1

\* _remaining_at_report: minutes left when the car wrote the report.
RemainingAtReport(running, endTime, reportedAt) ==
  IF NoTime \in {endTime, reportedAt} \/ running \notin ActiveRunningStatuses
  THEN 0
  ELSE AtLeastZero(RoundedMinutes(endTime - reportedAt))

\* _parse_digital_twin, of a message given by the fields it carries.
ParseClimateTwin(report) ==
  LET running == MapRunningStatus(report.running)
  IN  [running |-> running, endTime |-> report.endTime, reportedAt |-> report.reportedAt,
       timeRemaining |-> RemainingAtReport(running, report.endTime, report.reportedAt),
       requestType |-> MapRequestType(report.requestType),
       action |-> InferHeatOrCoolAction(report.ventilating, report.current, report.requested)]

\* The older format carries a count and no times.
Named(names, number) == IF number = 0 THEN Undefined ELSE names[number]

ClimateLegacy(running, requestType, timeRemaining, action) ==
  [running |-> Named(RunningStatuses, running), endTime |-> NoTime, reportedAt |-> NoTime,
   timeRemaining |-> timeRemaining, requestType |-> Named(RequestTypes, requestType),
   action |-> Named(Actions, action)]

IsActive(climate) == climate.running \in ActiveRunningStatuses

\* The mutated form: a session that was stopped early goes on counting down.
RemainingMinutesOfAnySession(climate, now) ==
  IF climate.endTime = NoTime THEN NoTime
  ELSE AtLeastZero(RoundedMinutes(climate.endTime - now))

\* remaining_minutes
RemainingMinutes(climate, now) ==
  IF climate.endTime = NoTime THEN NoTime
  ELSE IF ~IsActive(climate) THEN 0
  ELSE AtLeastZero(RoundedMinutes(climate.endTime - now))

\* sensor._climate_time_remaining: the report's own count when it names no end.
ClimateTimeRemaining(climate, now) ==
  LET remaining == RemainingMinutes(climate, now)
  IN  IF remaining = NoTime THEN climate.timeRemaining ELSE remaining
===============================================================================
