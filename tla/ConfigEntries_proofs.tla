------------------------ MODULE ConfigEntries_proofs ------------------------
(***************************************************************************)
(* Proofs about ConfigEntries, for any cars, dialogues and bounds.         *)
(***************************************************************************)
EXTENDS ConfigEntries, TLAPS

\* Entries are stored under a neat VIN, whatever runs has an entry, and an entry that
\* runs has the car of its VIN or the demo's.
IsEntry(e) ==
  \E d, p : \E i \in Intervals : e = [demo |-> d, password |-> p, interval |-> i]

IsRunning(r) == \E c, p, i : r = [car |-> c, password |-> p, interval |-> i]

EntryOK(v) ==
  /\ Exists(v) => v.neat /\ IsEntry(entry[v])
  /\ state[v] # "not_loaded" => Exists(v)
  /\ v \in open => state[v] \in {"refreshing", "loaded", "failed_unload"}

CarOK(v) ==
  /\ IsRunning(running[v])
  /\ state[v] \in {"authenticating", "listing"} => ~entry[v].demo
  /\ state[v] \in {"refreshing", "loaded"} =>
       running[v].car = IF entry[v].demo THEN DemoCar ELSE v.car

FunctionsOK ==
  /\ entry = [v \in Vin |-> entry[v]]
  /\ state = [v \in Vin |-> state[v]]
  /\ running = [v \in Vin |-> running[v]]
  /\ open \subseteq Vin

EntriesInv == FunctionsOK /\ \A v \in Vin : EntryOK(v) /\ CarOK(v)

\* A dialogue that asks for an entry's password ends with the entry.
IsFlow(r) ==
  \E s, d, p, c, o : r = [step |-> s, demo |-> d, password |-> p, cars |-> c, of |-> o]

FlowOK(f) == IsFlow(flow[f]) /\ \A v \in flow[f].of : v \in Vin /\ Exists(v)

FlowsOK == flow = [f \in Flows |-> flow[f]] /\ \A f \in Flows : FlowOK(f)

-----------------------------------------------------------------------------
(* How a step changes an entry.                                            *)

\* Everything the invariant speaks of stays.
EntriesStay == UNCHANGED <<entry, state, running, open>>

LEMMA StayingKeeps == EntriesInv /\ EntriesStay => EntriesInv'
BY DEF EntriesInv, EntriesStay, FunctionsOK, EntryOK, CarOK, Exists, IsEntry, IsRunning

LEMMA UntouchedKeeps ==
  ASSUME NEW w \in Vin, EntryOK(w), CarOK(w),
         entry'[w] = entry[w], state'[w] = state[w], running'[w] = running[w],
         w \in open' => w \in open
  PROVE  EntryOK(w)' /\ CarOK(w)'
<1>1. EntryOK(w)'
  BY DEF EntryOK, Exists, IsEntry
<1>2. CarOK(w)'
  BY DEF CarOK, IsRunning
<1> QED BY <1>1, <1>2

\* A step that touches one entry has to be looked at there only.
LEMMA OneEntryChanges ==
  ASSUME EntriesInv, NEW v \in Vin, NEW e, NEW s, NEW r,
         entry' = [entry EXCEPT ![v] = e], state' = [state EXCEPT ![v] = s],
         running' = [running EXCEPT ![v] = r],
         open' \subseteq Vin, open' \ {v} \subseteq open,
         (e # Nothing => v.neat /\ IsEntry(e)),
         (s # "not_loaded" => e # Nothing),
         (v \in open' => s \in {"refreshing", "loaded", "failed_unload"}),
         IsRunning(r),
         (s \in {"authenticating", "listing"} => ~e.demo),
         (s \in {"refreshing", "loaded"} => r.car = IF e.demo THEN DemoCar ELSE v.car)
  PROVE  EntriesInv'
<1>1. FunctionsOK'
  BY DEF EntriesInv, FunctionsOK
<1>2. entry'[v] = e /\ state'[v] = s /\ running'[v] = r
  BY DEF EntriesInv, FunctionsOK
<1>3. EntryOK(v)' /\ CarOK(v)'
  BY <1>2 DEF EntryOK, CarOK, Exists, IsEntry, IsRunning
<1>4. ASSUME NEW w \in Vin, w # v PROVE EntryOK(w)' /\ CarOK(w)'
  <2>1. entry'[w] = entry[w] /\ state'[w] = state[w] /\ running'[w] = running[w]
        /\ (w \in open' => w \in open)
    BY <1>4 DEF EntriesInv, FunctionsOK
  <2>2. EntryOK(w) /\ CarOK(w)
    BY DEF EntriesInv
  <2> QED BY <2>1, <2>2, UntouchedKeeps
<1> QED BY <1>1, <1>3, <1>4 DEF EntriesInv

LEMMA SameEntry ==
  ASSUME EntriesInv, NEW v \in Vin
  PROVE  /\ entry = [entry EXCEPT ![v] = entry[v]]
         /\ state = [state EXCEPT ![v] = state[v]]
         /\ running = [running EXCEPT ![v] = running[v]]
         /\ open \subseteq Vin
         /\ EntryOK(v) /\ CarOK(v)
BY DEF EntriesInv, FunctionsOK

\* The set-up of an entry that is there begins.
LEMMA SettingUpKeeps ==
  ASSUME EntriesInv, NEW v \in Vin, NEW e, NEW replaced, IsEntry(e), v.neat,
         entry' = [entry EXCEPT ![v] = e], SetsUp(v, e, replaced)
  PROVE  EntriesInv'
<1> DEFINE s == IF e.demo THEN "refreshing" ELSE "authenticating"
           r == IF e.demo THEN [car |-> DemoCar, password |-> e.password, interval |-> e.interval]
                ELSE [car |-> Failed, password |-> e.password, interval |-> 0]
<1>1. e # Nothing
  BY DEF IsEntry, Nothing, Intervals
<1>2. state' = [state EXCEPT ![v] = s] /\ running' = [running EXCEPT ![v] = r]
  BY DEF SetsUp
<1>3. open' = open \ {v}
  BY DEF SetsUp
<1>4. IsRunning(r)
  BY DEF IsRunning
<1>5. e.demo => r.car = DemoCar
  OBVIOUS
<1>6. s = "refreshing" => e.demo
  OBVIOUS
<1>7. s = "authenticating" => ~e.demo
  OBVIOUS
<1>8. s \in {"refreshing", "authenticating"}
  OBVIOUS
<1> HIDE DEF s, r
<1> QED BY <1>1, <1>2, <1>3, <1>4, <1>5, <1>6, <1>7, <1>8, SameEntry, OneEntryChanges

\* A field of an entry changes.
LEMMA AnEntryChanged ==
  ASSUME NEW r, NEW q, NEW i \in Intervals, IsEntry(r)
  PROVE  /\ IsEntry([r EXCEPT !.password = q]) /\ [r EXCEPT !.password = q].demo = r.demo
         /\ [r EXCEPT !.password = q].interval = r.interval
         /\ IsEntry([r EXCEPT !.interval = i]) /\ [r EXCEPT !.interval = i].demo = r.demo
         /\ [r EXCEPT !.interval = i].password = r.password
<1>1. PICK d, p : \E j \in Intervals : r = [demo |-> d, password |-> p, interval |-> j]
  BY DEF IsEntry
<1>2. PICK j \in Intervals : r = [demo |-> d, password |-> p, interval |-> j]
  BY <1>1
<1>3. [r EXCEPT !.password = q] = [demo |-> d, password |-> q, interval |-> j]
  BY <1>2
<1>4. [r EXCEPT !.interval = i] = [demo |-> d, password |-> p, interval |-> i]
  BY <1>2
<1> QED BY <1>2, <1>3, <1>4 DEF IsEntry

LEMMA AnEntryIsThere ==
  ASSUME NEW r, IsEntry(r)
  PROVE  r # Nothing
BY DEF IsEntry, Nothing, Intervals

\* An entry is changed while its set-up goes on.
LEMMA ChangingKeeps ==
  ASSUME EntriesInv, NEW v \in Vin, NEW e, Exists(v), IsEntry(e), e.demo = entry[v].demo,
         entry' = [entry EXCEPT ![v] = e], UNCHANGED <<state, running, open>>
  PROVE  EntriesInv'
BY SameEntry, AnEntryIsThere, OneEntryChanges DEF EntryOK, CarOK

\* A dialogue's VIN is neat; a step of a dialogue adds an entry or leaves them alone.
LEMMA FinishKeeps ==
  ASSUME EntriesInv, NEW f, NEW v, NEW i \in Intervals, v.neat, FinishWith(f, v, i)
  PROVE  EntriesInv'
<1>1. CASE UNCHANGED <<entryVars, channelVars>>
  BY <1>1, StayingKeeps DEF entryVars, channelVars, EntriesStay
<1>2. CASE CreateEntry(f, v, i)
  <2> DEFINE e == [demo |-> flow[f].demo, password |-> flow[f].password, interval |-> i]
  <2>1. entry' = [entry EXCEPT ![v] = e] /\ SetsUp(v, e, TRUE)
    BY <1>2 DEF CreateEntry
  <2>2. IsEntry(e)
    BY DEF IsEntry
  <2> HIDE DEF e
  <2>3. CASE v \in Vin
    BY <2>1, <2>2, <2>3, SettingUpKeeps
  <2>4. CASE v \notin Vin
    <3>1. entry' = entry /\ state' = state /\ running' = running /\ open' = open
      BY <2>1, <2>4 DEF SetsUp, EntriesInv, FunctionsOK
    <3> QED BY <3>1, StayingKeeps DEF EntriesStay
  <2> QED BY <2>3, <2>4
<1> QED BY <1>1, <1>2 DEF FinishWith

LEMMA FlowKeeps ==
  ASSUME EntriesInv, FlowsOK, NEW f \in Flows, FlowStep(f)
  PROVE  EntriesInv'
<1>1. CASE OpenForm(f) \/ SubmitCredentials(f) \/ CredentialsChecked(f) \/ NotListed(f)
             \/ SubmitPassword(f) \/ \E v \in Vin : StartReauth(f, v)
  <2>1. UNCHANGED entryVars /\ UNCHANGED channelVars
    BY <1>1 DEF OpenForm, SubmitCredentials, CredentialsChecked, NotListed, SubmitPassword,
                StartReauth
  <2> QED BY <2>1, StayingKeeps DEF entryVars, channelVars, EntriesStay
<1>2. CASE ChooseVehicle(f)
  <2>1. PICK c \in flow[f].cars, i \in Intervals : FinishWith(f, [car |-> c, neat |-> TRUE], i)
    BY <1>2 DEF ChooseVehicle
  <2>2. [car |-> c, neat |-> TRUE].neat
    OBVIOUS
  <2> QED BY <2>1, <2>2, FinishKeeps
<1>3. CASE EnterVin(f)
  <2>1. PICK typed \in Vin, i \in Intervals : FinishWith(f, TypedVin(typed), i)
    BY <1>3 DEF EnterVin, Intervals
  <2>2. TypedVin(typed).neat
    BY DEF TypedVin, Vin
  <2> QED BY <2>1, <2>2, FinishKeeps
<1>4. CASE PasswordChecked(f)
  <2>1. UNCHANGED <<state, running, open>>
    BY <1>4 DEF PasswordChecked, channelVars
  <2>2. CASE entry' = entry
    BY <2>1, <2>2, StayingKeeps DEF EntriesStay
  <2>3. ASSUME NEW v \in flow[f].of, ReauthSavesAndReloads(v, flow[f].password)
        PROVE  EntriesInv'
    <3>1. v \in Vin /\ Exists(v) /\ IsEntry(entry[v])
      BY DEF FlowsOK, FlowOK, EntriesInv, EntryOK
    <3>2. entry' = [entry EXCEPT ![v] = [entry[v] EXCEPT !.password = flow[f].password]]
      BY <2>3 DEF ReauthSavesAndReloads, KeepWhatElse
    <3> QED BY <2>1, <3>1, <3>2, AnEntryChanged, ChangingKeeps DEF Intervals
  <2> QED BY <1>4, <2>2, <2>3 DEF PasswordChecked
<1> QED BY <1>1, <1>2, <1>3, <1>4 DEF FlowStep

LEMMA EntryKeeps ==
  ASSUME EntriesInv, NEW v \in Vin, EntryStep(v)
  PROVE  EntriesInv'
<1> EntryOK(v) /\ CarOK(v)
  BY DEF EntriesInv
<1>1. CASE SubmitOptions(v)
  <2>1. PICK i \in Intervals : entry' = [entry EXCEPT ![v] = [entry[v] EXCEPT !.interval = i]]
    BY <1>1 DEF SubmitOptions
  <2>2. Exists(v) /\ UNCHANGED <<state, running, open>>
    BY <1>1 DEF SubmitOptions, channelVars
  <2>3. IsEntry(entry[v])
    BY <2>2 DEF EntryOK
  <2> QED BY <2>1, <2>2, <2>3, AnEntryChanged, ChangingKeeps
<1>2. ASSUME NEW s \in States, state' = [state EXCEPT ![v] = s], UNCHANGED <<entry, running>>,
             open' \subseteq Vin, open' \ {v} \subseteq open,
             s # "not_loaded" => Exists(v),
             v \in open' => s \in {"refreshing", "loaded", "failed_unload"},
             s \in {"authenticating", "listing"} => ~entry[v].demo,
             s \in {"refreshing", "loaded"} =>
               running[v].car = IF entry[v].demo THEN DemoCar ELSE v.car
      PROVE  EntriesInv'
  <2>1. /\ entry' = [entry EXCEPT ![v] = entry[v]]
        /\ running' = [running EXCEPT ![v] = running[v]]
    BY <1>2, SameEntry
  <2> QED BY <1>2, <2>1, OneEntryChanges DEF EntryOK, CarOK, Exists
<1>3. CASE Authenticated(v)
  BY <1>2, <1>3, SameEntry DEF Authenticated, EntryOK, CarOK, States, SettingUp
<1>4. CASE AuthFails(v) \/ NotReady(v)
  BY <1>2, <1>4, SameEntry DEF AuthFails, NotReady, SetUpEnds, channelVars, EntryOK, States
<1>5. CASE Listed(v)
  <2> DEFINE r == [running[v] EXCEPT !.car = v.car, !.interval = entry[v].interval]
  <2>1. /\ state' = [state EXCEPT ![v] = "refreshing"]
        /\ running' = [running EXCEPT ![v] = r]
        /\ open' = open \cup {v} /\ entry' = entry /\ state[v] = "listing"
    BY <1>5, Zenon DEF Listed
  <2>2. IsRunning(r) /\ r.car = v.car
    <3>1. PICK c, p, i : running[v] = [car |-> c, password |-> p, interval |-> i]
      BY DEF CarOK, IsRunning
    <3>2. r = [[running[v] EXCEPT !.car = v.car] EXCEPT !.interval = entry[v].interval]
      BY Zenon
    <3> HIDE DEF r
    <3>3. [running[v] EXCEPT !.car = v.car] = [car |-> v.car, password |-> p, interval |-> i]
      BY <3>1
    <3>4. r = [car |-> v.car, password |-> p, interval |-> entry[v].interval]
      BY <3>2, <3>3
    <3> QED BY <3>4 DEF IsRunning
  <2> HIDE DEF r
  <2>3. Exists(v) /\ ~entry[v].demo
    BY <2>1 DEF EntryOK, CarOK
  <2> QED BY <2>1, <2>2, <2>3, SameEntry, OneEntryChanges DEF EntryOK, Exists
<1>6. CASE FirstRefreshFails(v)
  BY <1>2, <1>6, SameEntry DEF FirstRefreshFails, SetUpEnds, EntryOK, States
<1>7. CASE Loaded(v)
  BY <1>2, <1>7, SameEntry DEF Loaded, channelVars, EntryOK, CarOK, States
<1>8. CASE UserUnloads(v)
  BY <1>2, <1>8, SameEntry DEF UserUnloads, Unload, CloseClient, States
<1>9. CASE UnloadFails(v)
  BY <1>2, <1>9, SameEntry DEF UnloadFails, channelVars, EntryOK, States
<1>10. CASE SetUpAgain(v)
  BY <1>10, SameEntry, SettingUpKeeps DEF SetUpAgain, EntryOK
<1>11. CASE RemoveEntry(v)
  <2>1. /\ entry' = [entry EXCEPT ![v] = Nothing]
        /\ state' = [state EXCEPT ![v] = "not_loaded"]
        /\ running' = [running EXCEPT ![v] = NotRunning]
        /\ open' = open \ {v}
    BY <1>11 DEF RemoveEntry, Unload, LeftRunning, CloseClient
  <2>2. IsRunning(NotRunning)
    BY DEF IsRunning, NotRunning
  <2> QED BY <2>1, <2>2, SameEntry, OneEntryChanges
<1>12. CASE CallService(v) \/ CallGoesOut(v) \/ StreamReopens(v)
  <2>1. UNCHANGED entryVars /\ UNCHANGED open
    BY <1>12 DEF CallService, CallGoesOut, StreamReopens, channelVars
  <2> QED BY <2>1, StayingKeeps DEF entryVars, EntriesStay
<1> QED
  BY <1>1, <1>3, <1>4, <1>5, <1>6, <1>7, <1>8, <1>9, <1>10, <1>11, <1>12 DEF EntryStep

LEMMA RestartKeeps == EntriesInv /\ Restart => EntriesInv'
<1> SUFFICES ASSUME EntriesInv, Restart PROVE EntriesInv'
  OBVIOUS
<1>1. FunctionsOK'
  BY DEF EntriesInv, FunctionsOK, Restart
<1>2. ASSUME NEW v \in Vin PROVE EntryOK(v)'
  BY <1>2 DEF EntriesInv, EntryOK, Restart, Exists, IsEntry
<1>3. ASSUME NEW v \in Vin PROVE CarOK(v)'
  BY <1>3 DEF CarOK, Restart, IsRunning, NotRunning
<1> QED BY <1>1, <1>2, <1>3 DEF EntriesInv

LEMMA StepKeeps == EntriesInv /\ FlowsOK /\ [Next]_vars => EntriesInv'
<1> SUFFICES ASSUME EntriesInv, FlowsOK, [Next]_vars PROVE EntriesInv'
  OBVIOUS
<1>1. CASE ChangePassword \/ UNCHANGED vars
  BY <1>1, StayingKeeps DEF ChangePassword, vars, entryVars, channelVars, EntriesStay
<1> QED BY <1>1, FlowKeeps, EntryKeeps, RestartKeeps DEF Next

-----------------------------------------------------------------------------
(* Dialogues about a password.                                             *)

\* A step that no entry is lost in, and that lets a dialogue be of an entry only if it
\* is there.
LEMMA DialogueChanges ==
  ASSUME FlowsOK, NEW f \in Flows, NEW r, flow' = [flow EXCEPT ![f] = r], IsFlow(r),
         \A v \in r.of : v \in Vin /\ Exists(v),
         \A v \in Vin : Exists(v) => Exists(v)'
  PROVE  FlowsOK'
<1>1. flow' = [g \in Flows |-> flow'[g]]
  BY DEF FlowsOK
<1>2. ASSUME NEW g \in Flows PROVE FlowOK(g)'
  <2>1. flow'[g] = flow[g] \/ flow'[g] = r
    BY <1>2 DEF FlowsOK
  <2>2. IsFlow(flow'[g]) /\ \A v \in flow'[g].of : v \in Vin /\ Exists(v)
    BY <2>1, <1>2 DEF FlowsOK, FlowOK
  <2> QED BY <2>2 DEF FlowOK, IsFlow
<1> QED BY <1>1, <1>2 DEF FlowsOK

LEMMA DialoguesStay ==
  ASSUME FlowsOK, flow' = flow, \A v \in Vin : Exists(v) => Exists(v)'
  PROVE  FlowsOK'
BY DEF FlowsOK, FlowOK, IsFlow

\* What the steps of a dialogue make of it.
LEMMA ADialogueChanged ==
  ASSUME NEW r, NEW s, NEW p, NEW c, IsFlow(r)
  PROVE  /\ IsFlow([r EXCEPT !.step = s]) /\ [r EXCEPT !.step = s].of = r.of
         /\ IsFlow([r EXCEPT !.step = s, !.password = p])
         /\ [r EXCEPT !.step = s, !.password = p].of = r.of
         /\ IsFlow([r EXCEPT !.step = s, !.cars = c])
         /\ [r EXCEPT !.step = s, !.cars = c].of = r.of
<1>1. PICK t, e, q, k, o :
        r = [step |-> t, demo |-> e, password |-> q, cars |-> k, of |-> o]
  BY DEF IsFlow
<1> DEFINE r2 == [r EXCEPT !.step = s]
<1>2. r2 = [step |-> s, demo |-> e, password |-> q, cars |-> k, of |-> o]
  BY <1>1
<1>3. /\ [r EXCEPT !.step = s, !.password = p] = [r2 EXCEPT !.password = p]
      /\ [r EXCEPT !.step = s, !.cars = c] = [r2 EXCEPT !.cars = c]
  BY Zenon
<1> HIDE DEF r2
<1>4. [r2 EXCEPT !.password = p]
        = [step |-> s, demo |-> e, password |-> p, cars |-> k, of |-> o]
  BY <1>2
<1>5. [r2 EXCEPT !.cars = c] = [step |-> s, demo |-> e, password |-> q, cars |-> c, of |-> o]
  BY <1>2
<1> DEFINE Same(x) == IsFlow(x) /\ x.of = r.of
<1>6. ASSUME NEW x, NEW q2, NEW k2,
             x = [step |-> s, demo |-> e, password |-> q2, cars |-> k2, of |-> o]
      PROVE  Same(x)
  BY <1>1, <1>6 DEF IsFlow
<1> HIDE DEF Same
<1>7. Same(r2) /\ Same([r2 EXCEPT !.password = p]) /\ Same([r2 EXCEPT !.cars = c])
  BY <1>2, <1>4, <1>5, <1>6
<1> USE DEF Same
<1>8. Same([r EXCEPT !.step = s])
  BY <1>7 DEF r2
<1> QED BY <1>3, <1>7, <1>8, Zenon

LEMMA ClosedIsADialogue == IsFlow(Closed) /\ Closed.of = {}
BY DEF IsFlow, Closed

LEMMA FlowStepDialogues ==
  ASSUME EntriesInv, FlowsOK, NEW f \in Flows, FlowStep(f)
  PROVE  FlowsOK'
<1> IsFlow(flow[f]) /\ \A v \in flow[f].of : v \in Vin /\ Exists(v)
  BY DEF FlowsOK, FlowOK
<1>1. ASSUME NEW s, Goes(f, s), \A v \in Vin : Exists(v) => Exists(v)' PROVE FlowsOK'
  <2>1. flow' = [flow EXCEPT ![f] = [flow[f] EXCEPT !.step = s]]
    BY <1>1 DEF Goes
  <2> QED BY <1>1, <2>1, ADialogueChanged, DialogueChanges
<1>2. ASSUME Closes(f), \A v \in Vin : Exists(v) => Exists(v)' PROVE FlowsOK'
  BY <1>2, ClosedIsADialogue, DialogueChanges DEF Closes
<1>3. entry' = entry => \A v \in Vin : Exists(v) => Exists(v)'
  BY DEF Exists
<1>4. CASE OpenForm(f) \/ NotListed(f)
  BY <1>1, <1>3, <1>4 DEF OpenForm, NotListed, entryVars
<1>5. CASE SubmitCredentials(f)
  <2>1. PICK p \in 1..password, demo \in BOOLEAN :
          flow' = [flow EXCEPT
            ![f] = [step |-> IF demo THEN "demo_vin" ELSE "checking",
                    demo |-> demo, password |-> p, cars |-> {}, of |-> {}]]
    BY <1>5 DEF SubmitCredentials
  <2>2. entry' = entry
    BY <1>5 DEF SubmitCredentials, entryVars
  <2>3. PICK r : /\ flow' = [flow EXCEPT ![f] = r]
                 /\ r = [step |-> IF demo THEN "demo_vin" ELSE "checking",
                         demo |-> demo, password |-> p, cars |-> {}, of |-> {}]
    BY <2>1
  <2>4. IsFlow(r) /\ r.of = {}
    BY <2>3 DEF IsFlow
  <2> QED BY <1>3, <2>2, <2>3, <2>4, DialogueChanges
<1>6. CASE CredentialsChecked(f)
  <2>1. entry' = entry
    BY <1>6 DEF CredentialsChecked, entryVars
  <2>2. CASE Goes(f, "user")
    BY <1>1, <1>3, <2>1, <2>2
  <2>3. ASSUME NEW cars,
               flow' = [flow EXCEPT
                 ![f].step = IF cars = {} THEN "guest_vin" ELSE "vehicle", ![f].cars = cars]
        PROVE  FlowsOK'
    <3>1. flow' = [flow EXCEPT ![f] = [flow[f] EXCEPT
                     !.step = IF cars = {} THEN "guest_vin" ELSE "vehicle", !.cars = cars]]
      BY <2>3, Zenon
    <3> QED BY <1>3, <2>1, <3>1, ADialogueChanged, DialogueChanges
  <2> QED BY <1>6, <2>2, <2>3 DEF CredentialsChecked
<1>7. CASE SubmitPassword(f)
  <2>1. PICK p \in 1..password :
          flow' = [flow EXCEPT ![f] = [flow[f] EXCEPT
                     !.step = "reauth_checking", !.password = p]]
    BY <1>7, Zenon DEF SubmitPassword
  <2>2. entry' = entry
    BY <1>7 DEF SubmitPassword, entryVars
  <2> QED BY <1>3, <2>1, <2>2, ADialogueChanged, DialogueChanges
<1>8. ASSUME NEW v \in Vin, StartReauth(f, v) PROVE FlowsOK'
  <2> DEFINE r == [Closed EXCEPT !.step = "reauth_confirm", !.of = {v}]
  <2>1. flow' = [flow EXCEPT ![f] = r] /\ Exists(v) /\ entry' = entry
    BY <1>8 DEF StartReauth, entryVars
  <2>2. IsFlow(r) /\ r.of = {v}
    <3>1. r = [[Closed EXCEPT !.step = "reauth_confirm"] EXCEPT !.of = {v}]
      BY Zenon
    <3> HIDE DEF r
    <3>2. r = [step |-> "reauth_confirm", demo |-> FALSE, password |-> 0, cars |-> {}, of |-> {v}]
      BY <3>1 DEF Closed
    <3> QED BY <3>2 DEF IsFlow
  <2> HIDE DEF r
  <2> QED BY <1>3, <2>1, <2>2, DialogueChanges
<1>9. ASSUME NEW v, NEW i \in Intervals, FinishWith(f, v, i) PROVE FlowsOK'
  <2>1. Closes(f)
    BY <1>9 DEF FinishWith, CreateEntry
  <2>2. CASE entry' = entry
    BY <1>2, <1>3, <2>1, <2>2
  <2>3. CASE CreateEntry(f, v, i)
    <3>1. PICK e : entry' = [entry EXCEPT ![v] = e] /\ e = [demo |-> flow[f].demo,
                       password |-> flow[f].password, interval |-> i]
      BY <2>3 DEF CreateEntry
    <3>2. IsEntry(e)
      BY <3>1 DEF IsEntry
    <3>3. \A w \in Vin : Exists(w) => Exists(w)'
      BY <3>1, <3>2, AnEntryIsThere DEF Exists, EntriesInv, FunctionsOK
    <3> QED BY <1>2, <2>1, <3>3
  <2> QED BY <1>9, <2>2, <2>3 DEF FinishWith, entryVars
<1>10. CASE ChooseVehicle(f) \/ EnterVin(f)
  BY <1>9, <1>10 DEF ChooseVehicle, EnterVin, Intervals
<1>11. CASE PasswordChecked(f)
  <2>1. CASE Goes(f, "reauth_confirm") /\ entry' = entry
    BY <1>1, <1>3, <2>1
  <2>2. ASSUME NEW v \in flow[f].of, Closes(f),
               ReauthSavesAndReloads(v, flow[f].password)
        PROVE  FlowsOK'
    <3>1. entry' = [entry EXCEPT ![v] = [entry[v] EXCEPT !.password = flow[f].password]]
      BY <2>2 DEF ReauthSavesAndReloads, KeepWhatElse
    <3>2. IsEntry(entry[v]) /\ v \in Vin
      BY DEF EntriesInv, EntryOK
    <3>3. [entry[v] EXCEPT !.password = flow[f].password] # Nothing
      BY <3>2, AnEntryChanged, AnEntryIsThere DEF Intervals
    <3>4. \A w \in Vin : Exists(w) => Exists(w)'
      BY <3>1, <3>3 DEF Exists, EntriesInv, FunctionsOK
    <3> QED BY <1>2, <2>2, <3>4
  <2> QED BY <1>11, <2>1, <2>2 DEF PasswordChecked
<1> QED
  BY <1>4, <1>5, <1>6, <1>7, <1>8, <1>10, <1>11 DEF FlowStep

LEMMA EntryStepDialogues ==
  ASSUME EntriesInv, FlowsOK, NEW v \in Vin, EntryStep(v)
  PROVE  FlowsOK'
<1>1. CASE SubmitOptions(v)
  <2>1. PICK i \in Intervals : entry' = [entry EXCEPT ![v] = [entry[v] EXCEPT !.interval = i]]
    BY <1>1 DEF SubmitOptions
  <2>2. flow' = flow /\ IsEntry(entry[v])
    BY <1>1 DEF SubmitOptions, EntriesInv, EntryOK
  <2>3. [entry[v] EXCEPT !.interval = i] # Nothing
    BY <2>2, AnEntryChanged, AnEntryIsThere
  <2>4. \A w \in Vin : Exists(w) => Exists(w)'
    BY <2>1, <2>3 DEF Exists, EntriesInv, FunctionsOK
  <2> QED BY <2>2, <2>4, DialoguesStay
<1>2. CASE RemoveEntry(v)
  <2>1. /\ entry' = [entry EXCEPT ![v] = Nothing]
        /\ flow' = [f \in Flows |-> IF v \in flow[f].of THEN Closed ELSE flow[f]]
    BY <1>2 DEF RemoveEntry
  <2>2. \A w \in Vin : w # v /\ Exists(w) => Exists(w)'
    BY <2>1 DEF Exists, EntriesInv, FunctionsOK
  <2>3. ASSUME NEW f \in Flows PROVE FlowOK(f)'
    <3>1. flow'[f] = IF v \in flow[f].of THEN Closed ELSE flow[f]
      BY <2>1
    <3>2. IsFlow(flow'[f])
      BY <3>1, ClosedIsADialogue DEF FlowsOK, FlowOK
    <3>3. \A w \in flow'[f].of : w \in Vin /\ Exists(w)'
      BY <2>2, <3>1, ClosedIsADialogue DEF FlowsOK, FlowOK
    <3> QED BY <3>2, <3>3 DEF FlowOK, IsFlow
  <2>4. flow' = [f \in Flows |-> flow'[f]]
    BY <2>1
  <2> QED BY <2>3, <2>4 DEF FlowsOK
<1>3. CASE entry' = entry /\ flow' = flow
  BY <1>3, DialoguesStay DEF Exists
<1>4. CASE Authenticated(v) \/ AuthFails(v) \/ NotReady(v) \/ Listed(v) \/ FirstRefreshFails(v)
           \/ Loaded(v) \/ UserUnloads(v) \/ UnloadFails(v) \/ SetUpAgain(v) \/ CallService(v)
           \/ CallGoesOut(v) \/ StreamReopens(v)
  BY <1>3, <1>4 DEF Authenticated, AuthFails, NotReady, Listed, FirstRefreshFails, Loaded,
       UserUnloads, UnloadFails, SetUpAgain, CallService, CallGoesOut, StreamReopens,
       SetUpEnds, entryVars
<1> QED BY <1>1, <1>2, <1>4 DEF EntryStep

LEMMA StepDialogues == EntriesInv /\ FlowsOK /\ [Next]_vars => FlowsOK'
<1> SUFFICES ASSUME EntriesInv, FlowsOK, [Next]_vars PROVE FlowsOK'
  OBVIOUS
<1>1. CASE ChangePassword \/ UNCHANGED vars
  BY <1>1, DialoguesStay DEF ChangePassword, vars, entryVars, Exists
<1>2. CASE Restart
  BY <1>2, ClosedIsADialogue DEF Restart, FlowsOK, FlowOK, IsFlow
<1> QED BY <1>1, <1>2, FlowStepDialogues, EntryStepDialogues DEF Next

-----------------------------------------------------------------------------
(* What follows.                                                           *)

LEMMA EntriesInvariant == Spec => [](EntriesInv /\ FlowsOK)
<1>1. Init => EntriesInv /\ FlowsOK
  <2> SUFFICES ASSUME Init PROVE EntriesInv /\ FlowsOK
    OBVIOUS
  <2>1. FunctionsOK
    BY DEF Init, FunctionsOK
  <2>2. \A v \in Vin : EntryOK(v)
    BY DEF Init, EntryOK, Exists
  <2>3. \A v \in Vin : CarOK(v)
    BY DEF Init, CarOK, IsRunning, NotRunning
  <2>4. FlowsOK
    BY ClosedIsADialogue DEF Init, FlowsOK, FlowOK
  <2> QED BY <2>1, <2>2, <2>3, <2>4 DEF EntriesInv
<1> QED BY <1>1, StepKeeps, StepDialogues, PTL DEF Spec

\* However a car was typed or found, it has one entry.
THEOREM CarsHaveOneEntry == Spec => []OneEntryPerCar
<1>1. EntriesInv => OneEntryPerCar
  BY DEF EntriesInv, EntryOK, OneEntryPerCar, Vin
<1> QED BY <1>1, EntriesInvariant, PTL

\* No channel is held for an entry that is not there or does not run.
THEOREM ChannelsAreOwned == Spec => []ChannelsHaveAnEntry
<1>1. EntriesInv => ChannelsHaveAnEntry
  <2> SUFFICES ASSUME EntriesInv, NEW v \in open
               PROVE  Exists(v) /\ state[v] \in {"refreshing", "loaded", "failed_unload"}
    BY DEF ChannelsHaveAnEntry
  <2>1. EntryOK(v)
    BY DEF EntriesInv, FunctionsOK
  <2> QED BY <2>1 DEF EntryOK
<1> QED BY <1>1, EntriesInvariant, PTL

\* A service finds the coordinator of the car it names, or none.
THEOREM ServicesFindCoordinators == Spec => []ServicesFindTheirCar
<1>1. EntriesInv => ServicesFindTheirCar
  <2> SUFFICES ASSUME EntriesInv, NEW v \in Vin, Exists(v), ~entry[v].demo
               PROVE  Resolve([vin |-> v.car, entity |-> NoTarget])
                        = IF state[v] = "loaded" THEN {v} ELSE {}
    BY DEF ServicesFindTheirCar
  <2>1. v.car \in Cars /\ v.car # NoTarget /\ v.car # DemoCar
    BY EntriesAssumption DEF Vin, EntriesAssumption
  <2>2. Resolve([vin |-> v.car, entity |-> NoTarget])
          = {w \in LoadedEntries : running[w].car = v.car}
    BY <2>1 DEF Resolve
  <2>3. ASSUME NEW w \in LoadedEntries, running[w].car = v.car PROVE w = v
    <3>1. w \in Vin /\ Exists(w) /\ state[w] = "loaded" /\ CarOK(w) /\ EntryOK(w) /\ EntryOK(v)
      BY DEF LoadedEntries, EntriesInv
    <3>2. w.car = v.car
      BY <2>1, <2>3, <3>1 DEF CarOK
    <3> QED BY <3>1, <3>2 DEF EntryOK, Vin
  <2>4. state[v] = "loaded" => v \in LoadedEntries /\ running[v].car = v.car
    BY DEF LoadedEntries, EntriesInv, CarOK
  <2>5. state[v] # "loaded" => v \notin LoadedEntries
    BY DEF LoadedEntries
  <2> QED BY <2>2, <2>3, <2>4, <2>5
<1> QED BY <1>1, EntriesInvariant, PTL

\* An entry that stays keeps what it is, and either its password or its options.
EntryKept(v) ==
  Exists(v) /\ entry'[v] # Nothing =>
    /\ entry'[v].demo = entry[v].demo
    /\ entry'[v].password = entry[v].password \/ entry'[v].interval = entry[v].interval

LEMMA OthersAreKept ==
  ASSUME EntriesInv, NEW v \in Vin, NEW e, entry' = [entry EXCEPT ![v] = e],
         Exists(v) /\ e # Nothing =>
           /\ e.demo = entry[v].demo
           /\ e.password = entry[v].password \/ e.interval = entry[v].interval
  PROVE  \A w \in Vin : EntryKept(w)
<1>1. entry'[v] = e
  BY DEF EntriesInv, FunctionsOK
<1>2. \A w \in Vin : w # v => entry'[w] = entry[w]
  BY DEF EntriesInv, FunctionsOK
<1> QED BY <1>1, <1>2 DEF EntryKept

LEMMA StepKeepsEntries ==
  EntriesInv /\ FlowsOK /\ [Next]_vars => \A v \in Vin : EntryKept(v)
<1> SUFFICES ASSUME EntriesInv, FlowsOK, [Next]_vars PROVE \A v \in Vin : EntryKept(v)
  OBVIOUS
<1>1. CASE entry' = entry
  BY <1>1 DEF EntryKept
<1>2. ASSUME NEW f \in Flows, NEW v, NEW i \in Intervals, FinishWith(f, v, i)
      PROVE  \A w \in Vin : EntryKept(w)
  <2>1. CASE CreateEntry(f, v, i) /\ ~Exists(v)
    <3>1. PICK e : entry' = [entry EXCEPT ![v] = e]
      BY <2>1 DEF CreateEntry
    <3>2. CASE v \in Vin
      BY <2>1, <3>1, <3>2, OthersAreKept
    <3>3. CASE v \notin Vin
      BY <1>1, <3>1, <3>3 DEF EntriesInv, FunctionsOK
    <3> QED BY <3>2, <3>3
  <2> QED BY <1>1, <1>2, <2>1 DEF FinishWith, Configured, entryVars
<1>3. ASSUME NEW f \in Flows, PasswordChecked(f) PROVE \A w \in Vin : EntryKept(w)
  <2>1. ASSUME NEW v \in flow[f].of, ReauthSavesAndReloads(v, flow[f].password)
        PROVE  \A w \in Vin : EntryKept(w)
    <3>1. entry' = [entry EXCEPT ![v] = [entry[v] EXCEPT !.password = flow[f].password]]
      BY <2>1 DEF ReauthSavesAndReloads, KeepWhatElse
    <3>2. v \in Vin /\ Exists(v) /\ IsEntry(entry[v])
      BY <1>3 DEF FlowsOK, FlowOK, EntriesInv, EntryOK
    <3> QED BY <3>1, <3>2, AnEntryChanged, OthersAreKept DEF Intervals
  <2> QED BY <1>1, <1>3, <2>1 DEF PasswordChecked
<1>4. ASSUME NEW f \in Flows, FlowStep(f) PROVE \A w \in Vin : EntryKept(w)
  <2>1. CASE ChooseVehicle(f) \/ EnterVin(f)
    BY <1>2, <2>1 DEF ChooseVehicle, EnterVin, Intervals
  <2>2. CASE OpenForm(f) \/ SubmitCredentials(f) \/ CredentialsChecked(f) \/ NotListed(f)
             \/ SubmitPassword(f) \/ \E v \in Vin : StartReauth(f, v)
    BY <1>1, <2>2 DEF OpenForm, SubmitCredentials, CredentialsChecked, NotListed,
                      SubmitPassword, StartReauth, entryVars
  <2> QED BY <1>3, <1>4, <2>1, <2>2 DEF FlowStep
<1>5. ASSUME NEW v \in Vin, EntryStep(v) PROVE \A w \in Vin : EntryKept(w)
  <2>1. CASE SubmitOptions(v)
    <3>1. PICK i \in Intervals : entry' = [entry EXCEPT ![v] = [entry[v] EXCEPT !.interval = i]]
      BY <2>1 DEF SubmitOptions
    <3>2. IsEntry(entry[v])
      BY <2>1 DEF SubmitOptions, EntriesInv, EntryOK
    <3> QED BY <3>1, <3>2, AnEntryChanged, OthersAreKept
  <2>2. CASE RemoveEntry(v)
    BY <2>2, OthersAreKept DEF RemoveEntry
  <2>3. CASE Authenticated(v) \/ AuthFails(v) \/ NotReady(v) \/ Listed(v)
             \/ FirstRefreshFails(v) \/ Loaded(v) \/ UserUnloads(v) \/ UnloadFails(v)
             \/ SetUpAgain(v) \/ CallService(v) \/ CallGoesOut(v) \/ StreamReopens(v)
    BY <1>1, <2>3 DEF Authenticated, AuthFails, NotReady, Listed, FirstRefreshFails, Loaded,
         UserUnloads, UnloadFails, SetUpAgain, CallService, CallGoesOut, StreamReopens,
         SetUpEnds, entryVars
  <2> QED BY <1>5, <2>1, <2>2, <2>3 DEF EntryStep
<1>6. CASE Restart \/ ChangePassword \/ UNCHANGED vars
  BY <1>1, <1>6 DEF Restart, ChangePassword, vars, entryVars
<1> QED BY <1>4, <1>5, <1>6 DEF Next

\* No dialogue turns an entry into another one.
THEOREM EntriesStayTheirs == Spec => EntriesAreKept
<1>1. EntriesInv /\ FlowsOK /\ [Next]_vars =>
        [\A v \in Vin : Exists(v) /\ entry'[v] # Nothing =>
           /\ entry'[v].demo = entry[v].demo
           /\ \/ entry'[v].password = entry[v].password
              \/ entry'[v].interval = entry[v].interval]_vars
  BY StepKeepsEntries DEF EntryKept
<1> QED BY <1>1, EntriesInvariant, PTL DEF Spec, EntriesAreKept

-----------------------------------------------------------------------------
(* What an entry runs on.                                                  *)

\* The password is read when a set-up begins and the options when the coordinator is
\* built; what changes after that is due, or was not heard.
RunsOK(v) ==
  v \notin due =>
    /\ state[v] \notin {"not_loaded", "failed_unload"} =>
         running[v].password = entry[v].password
    /\ state[v] \in {"refreshing", "loaded"} /\ v \notin unheard =>
         running[v].interval = entry[v].interval

AllRun == \A v \in Vin : RunsOK(v)

\* An entry that a step leaves alone.
Untouched(w) ==
  /\ entry'[w] = entry[w] /\ state'[w] = state[w] /\ running'[w] = running[w]
  /\ w \in due <=> w \in due'
  /\ w \in unheard <=> w \in unheard'

LEMMA UntouchedRuns == ASSUME NEW w, RunsOK(w), Untouched(w) PROVE RunsOK(w)'
BY DEF RunsOK, Untouched

LEMMA SettingUpRuns ==
  ASSUME EntriesInv, AllRun, NEW v, NEW e, NEW replaced,
         entry' = [entry EXCEPT ![v] = e], SetsUp(v, e, replaced)
  PROVE  AllRun'
<1>1. ASSUME NEW w \in Vin, w # v PROVE RunsOK(w)'
  BY <1>1, UntouchedRuns DEF Untouched, AllRun, SetsUp, EntriesInv, FunctionsOK
<1>2. CASE v \in Vin
  <2> DEFINE r == IF e.demo
                  THEN [car |-> DemoCar, password |-> e.password, interval |-> e.interval]
                  ELSE [car |-> Failed, password |-> e.password, interval |-> 0]
             s == IF e.demo THEN "refreshing" ELSE "authenticating"
  <2>1. entry'[v] = e /\ state'[v] = s /\ running'[v] = r
    BY <1>2 DEF SetsUp, EntriesInv, FunctionsOK
  <2>2. r.password = e.password
    OBVIOUS
  <2>3. s \in {"refreshing", "loaded"} => r.interval = e.interval
    OBVIOUS
  <2> HIDE DEF r, s
  <2>4. RunsOK(v)'
    BY <2>1, <2>2, <2>3 DEF RunsOK
  <2> QED BY <1>1, <2>4 DEF AllRun
<1> QED BY <1>1, <1>2 DEF AllRun

LEMMA FlowRuns ==
  ASSUME EntriesInv, FlowsOK, AllRun, NEW f \in Flows, FlowStep(f)
  PROVE  AllRun'
<1>1. CASE UNCHANGED entryVars
  BY <1>1 DEF entryVars, AllRun, RunsOK
<1>2. ASSUME NEW v, NEW i \in Intervals, FinishWith(f, v, i) PROVE AllRun'
  <2>1. CASE CreateEntry(f, v, i)
    BY <2>1, SettingUpRuns DEF CreateEntry
  <2> QED BY <1>1, <1>2, <2>1 DEF FinishWith
<1>3. CASE ChooseVehicle(f) \/ EnterVin(f)
  BY <1>2, <1>3 DEF ChooseVehicle, EnterVin, Intervals
<1>4. CASE PasswordChecked(f)
  <2>1. UNCHANGED <<state, running, unheard>>
    BY <1>4 DEF PasswordChecked
  <2>2. CASE UNCHANGED <<entry, due>>
    BY <2>1, <2>2 DEF AllRun, RunsOK
  <2>3. ASSUME NEW v \in flow[f].of, ReauthSavesAndReloads(v, flow[f].password)
        PROVE  AllRun'
    <3>1. entry' = [entry EXCEPT ![v] = KeepWhatElse(entry[v], flow[f].password)]
          /\ due' = due \cup {v}
      BY <2>3 DEF ReauthSavesAndReloads
    <3>2. ASSUME NEW w \in Vin, w # v PROVE RunsOK(w)'
      BY <2>1, <3>1, <3>2, UntouchedRuns DEF Untouched, AllRun, EntriesInv, FunctionsOK
    <3>3. RunsOK(v)'
      BY <3>1 DEF RunsOK
    <3> QED BY <3>2, <3>3 DEF AllRun
  <2> QED BY <1>4, <2>2, <2>3 DEF PasswordChecked
<1>5. CASE OpenForm(f) \/ SubmitCredentials(f) \/ CredentialsChecked(f) \/ NotListed(f)
             \/ SubmitPassword(f) \/ \E v \in Vin : StartReauth(f, v)
  BY <1>1, <1>5 DEF OpenForm, SubmitCredentials, CredentialsChecked, NotListed,
                    SubmitPassword, StartReauth
<1> QED BY <1>3, <1>4, <1>5 DEF FlowStep

LEMMA EntryRuns ==
  ASSUME EntriesInv, AllRun, NEW v \in Vin, EntryStep(v)
  PROVE  AllRun'
<1> RunsOK(v)
  BY DEF AllRun
<1>1. ASSUME \A w \in Vin : w # v => Untouched(w), RunsOK(v)' PROVE AllRun'
  BY <1>1, UntouchedRuns DEF AllRun
<1> USE DEF Untouched, EntriesInv, FunctionsOK
<1>2. CASE SubmitOptions(v)
  <2>1. PICK i \in Intervals : entry' = [entry EXCEPT ![v] = [entry[v] EXCEPT !.interval = i]]
    BY <1>2 DEF SubmitOptions
  <2>2. Exists(v) /\ IsEntry(entry[v]) /\ UNCHANGED <<state, running>> /\ Updated(v)
    BY <1>2 DEF SubmitOptions, EntryOK
  <2>3. entry'[v].password = entry[v].password
    BY <2>1, <2>2, AnEntryChanged
  <2>4. v \in due => v \in due'
    BY <2>2 DEF Updated
  <2>5. state[v] \in {"refreshing", "loaded"} => v \in due' \/ v \in unheard'
    BY <2>2 DEF Updated
  <2>6. RunsOK(v)'
    BY <2>2, <2>3, <2>4, <2>5 DEF RunsOK
  <2>7. \A w \in Vin : w # v => Untouched(w)
    BY <2>1, <2>2 DEF Updated
  <2> QED BY <1>1, <2>6, <2>7
<1>3. CASE Authenticated(v)
  BY <1>1, <1>3 DEF Authenticated, RunsOK
<1>4. CASE AuthFails(v) \/ NotReady(v) \/ FirstRefreshFails(v)
  BY <1>1, <1>4 DEF AuthFails, NotReady, FirstRefreshFails, SetUpEnds, RunsOK
<1>5. CASE Listed(v)
  <2>1. PICK r : r = [[running[v] EXCEPT !.car = v.car] EXCEPT !.interval = entry[v].interval]
    OBVIOUS
  <2>2. running' = [running EXCEPT ![v] = r]
    BY <1>5, <2>1, Zenon DEF Listed
  <2>3. r.password = running[v].password /\ r.interval = entry[v].interval
    <3>1. IsRunning(running[v])
      BY DEF CarOK
    <3>2. PICK c, p, i : running[v] = [car |-> c, password |-> p, interval |-> i]
      BY <3>1 DEF IsRunning
    <3>3. [running[v] EXCEPT !.car = v.car] = [car |-> v.car, password |-> p, interval |-> i]
      BY <3>2
    <3> QED BY <2>1, <3>2, <3>3
  <2> QED BY <1>1, <1>5, <2>2, <2>3 DEF Listed, RunsOK
<1>6. CASE Loaded(v)
  BY <1>1, <1>6 DEF Loaded, RunsOK
<1>7. CASE UserUnloads(v) \/ UnloadFails(v)
  BY <1>1, <1>7 DEF UserUnloads, UnloadFails, RunsOK
<1>8. CASE SetUpAgain(v)
  BY <1>8, SettingUpRuns DEF SetUpAgain
<1>9. CASE RemoveEntry(v)
  BY <1>1, <1>9 DEF RemoveEntry, RunsOK
<1>10. CASE CallService(v) \/ CallGoesOut(v) \/ StreamReopens(v)
  BY <1>1, <1>10 DEF CallService, CallGoesOut, StreamReopens, entryVars, RunsOK
<1> QED
  BY <1>2, <1>3, <1>4, <1>5, <1>6, <1>7, <1>8, <1>9, <1>10 DEF EntryStep

LEMMA StepRuns == EntriesInv /\ FlowsOK /\ AllRun /\ [Next]_vars => AllRun'
<1> SUFFICES ASSUME EntriesInv, FlowsOK, AllRun, [Next]_vars PROVE AllRun'
  OBVIOUS
<1>1. CASE ChangePassword \/ UNCHANGED vars
  BY <1>1 DEF ChangePassword, vars, entryVars, AllRun, RunsOK
<1>2. CASE Restart
  BY <1>2 DEF Restart, AllRun, RunsOK
<1> QED BY <1>1, <1>2, FlowRuns, EntryRuns DEF Next

\* What runs, runs on what its entry says, but for the changes that nobody heard of.
THEOREM EntriesRunOnWhatTheySay == Spec => []RunsOnWhatTheEntrySays
<1>1. Init => AllRun
  BY DEF Init, AllRun, RunsOK
<1>2. AllRun => RunsOnWhatTheEntrySays
  BY DEF AllRun, RunsOK, RunsOnWhatTheEntrySays
<1> QED BY <1>1, <1>2, StepRuns, EntriesInvariant, PTL DEF Spec

-----------------------------------------------------------------------------
(* Types.                                                                  *)

\* A dialogue has a password from when the user gave one until it is about another.
WithPassword == {"checking", "vehicle", "guest_vin", "demo_vin", "reauth_checking"}

DialogueTyped(r) ==
  /\ r.step \in WithPassword \cup {"closed", "user", "reauth_confirm"}
  /\ r.demo \in BOOLEAN /\ r.password \in Password \cup {0}
  /\ r.step \in WithPassword => r.password \in Password
  /\ r.cars \subseteq Cars /\ r.of \subseteq Vin

DialoguesTyped == \A f \in Flows : DialogueTyped(flow[f])

RunningTyped(r) ==
  /\ r.car \in Cars \cup {DemoCar, Failed}
  /\ r.password \in Password \cup {0} /\ r.interval \in Intervals \cup {0}

EntryTyped(v) ==
  entry[v] \in Entry \cup {Nothing} /\ state[v] \in States /\ RunningTyped(running[v])

EntriesTyped == \A v \in Vin : EntryTyped(v)

RestTyped ==
  /\ password \in Password /\ unloads \in 0..MaxUnloads
  /\ \A s \in {open, stray, forgotten, stored, due, unheard} : s \subseteq Vin
  /\ calling \in [Vin -> {"none", "live", "outlived"}]
  /\ entities \subseteq Cars \cup {DemoCar}

LEMMA PasswordsAreNumbers == password \in Password => 1..password \subseteq Password
BY EntriesAssumption DEF EntriesAssumption, Password

\* The cars an account lists are cars.
LEMMA ListedCarsAreCars ==
  ASSUME NEW response \in VehicleLists, Failed \notin GetVehicles(response)
  PROVE  GetVehicles(response) \subseteq Cars
<1>1. GetVehicles(response) = ToSet(response.cars) \ {NoVin, NotADict}
  BY DEF GetVehicles, BuildVehicleList
<1>2. PICK m \in 0..2 : response.cars \in [1..m -> Record]
  BY DEF VehicleLists, SeqOf
<1>3. ToSet(response.cars) \subseteq Record
  BY <1>2 DEF ToSet
<1> QED BY <1>1, <1>3 DEF Record

\* What the steps of a dialogue leave.
LEMMA DialogueFields ==
  ASSUME NEW r, NEW s, IsFlow(r)
  PROVE  [r EXCEPT !.step = s]
           = [step |-> s, demo |-> r.demo, password |-> r.password, cars |-> r.cars, of |-> r.of]
BY DEF IsFlow

LEMMA DialogueWithPassword ==
  ASSUME NEW r, NEW s, NEW p, IsFlow(r)
  PROVE  [r EXCEPT !.step = s, !.password = p]
           = [step |-> s, demo |-> r.demo, password |-> p, cars |-> r.cars, of |-> r.of]
<1> DEFINE r2 == [r EXCEPT !.step = s]
<1>1. r2 = [step |-> s, demo |-> r.demo, password |-> r.password, cars |-> r.cars, of |-> r.of]
  BY DialogueFields
<1>2. [r EXCEPT !.step = s, !.password = p] = [r2 EXCEPT !.password = p]
  BY Zenon
<1> HIDE DEF r2
<1>3. [r2 EXCEPT !.password = p]
        = [step |-> s, demo |-> r.demo, password |-> p, cars |-> r.cars, of |-> r.of]
  BY <1>1
<1> QED BY <1>2, <1>3, Zenon

LEMMA DialogueWithCars ==
  ASSUME NEW r, NEW s, NEW c, IsFlow(r)
  PROVE  [r EXCEPT !.step = s, !.cars = c]
           = [step |-> s, demo |-> r.demo, password |-> r.password, cars |-> c, of |-> r.of]
<1> DEFINE r2 == [r EXCEPT !.step = s]
<1>1. r2 = [step |-> s, demo |-> r.demo, password |-> r.password, cars |-> r.cars, of |-> r.of]
  BY DialogueFields
<1>2. [r EXCEPT !.step = s, !.cars = c] = [r2 EXCEPT !.cars = c]
  BY Zenon
<1> HIDE DEF r2
<1>3. [r2 EXCEPT !.cars = c]
        = [step |-> s, demo |-> r.demo, password |-> r.password, cars |-> c, of |-> r.of]
  BY <1>1
<1> QED BY <1>2, <1>3, Zenon

LEMMA ADialogueIsTyped ==
  ASSUME FlowsOK, DialoguesTyped, NEW f \in Flows, NEW r, flow' = [flow EXCEPT ![f] = r],
         DialogueTyped(r)
  PROVE  DialoguesTyped'
<1>1. ASSUME NEW g \in Flows PROVE DialogueTyped(flow'[g])
  BY <1>1 DEF DialoguesTyped, FlowsOK
<1> QED BY <1>1 DEF DialoguesTyped, DialogueTyped

LEMMA ClosedIsTyped == DialogueTyped(Closed)
BY DEF DialogueTyped, Closed, WithPassword

LEMMA FlowStepsTyped ==
  ASSUME FlowsOK, DialoguesTyped, password \in Password, NEW f \in Flows, FlowStep(f)
  PROVE  DialoguesTyped'
<1> IsFlow(flow[f]) /\ DialogueTyped(flow[f])
  BY DEF FlowsOK, FlowOK, DialoguesTyped
<1>1. ASSUME NEW s \in {"user", "guest_vin", "reauth_confirm"}, Goes(f, s),
             s = "guest_vin" => flow[f].password \in Password
      PROVE  DialoguesTyped'
  <2> DEFINE r == [step |-> s, demo |-> flow[f].demo, password |-> flow[f].password,
                   cars |-> flow[f].cars, of |-> flow[f].of]
  <2>1. flow' = [flow EXCEPT ![f] = r]
    BY <1>1, DialogueFields DEF Goes
  <2>2. DialogueTyped(r)
    BY <1>1 DEF DialogueTyped, WithPassword
  <2> HIDE DEF r
  <2> QED BY <2>1, <2>2, ADialogueIsTyped
<1>2. ASSUME Closes(f) PROVE DialoguesTyped'
  BY <1>2, ClosedIsTyped, ADialogueIsTyped DEF Closes
<1>3. CASE OpenForm(f)
  BY <1>1, <1>3 DEF OpenForm
<1>4. CASE NotListed(f)
  BY <1>1, <1>4 DEF NotListed, At, DialogueTyped, WithPassword
<1>5. CASE SubmitCredentials(f)
  <2>1. PICK p \in 1..password, demo \in BOOLEAN :
          flow' = [flow EXCEPT
            ![f] = [step |-> IF demo THEN "demo_vin" ELSE "checking",
                    demo |-> demo, password |-> p, cars |-> {}, of |-> {}]]
    BY <1>5 DEF SubmitCredentials
  <2>2. PICK r : /\ flow' = [flow EXCEPT ![f] = r]
                 /\ r = [step |-> IF demo THEN "demo_vin" ELSE "checking",
                         demo |-> demo, password |-> p, cars |-> {}, of |-> {}]
    BY <2>1
  <2>3. r.step \in {"demo_vin", "checking"} /\ r.demo \in BOOLEAN /\ r.password \in Password
        /\ r.cars = {} /\ r.of = {}
    BY <2>2, PasswordsAreNumbers
  <2>4. DialogueTyped(r)
    BY <2>3 DEF DialogueTyped, WithPassword
  <2> QED BY <2>2, <2>4, ADialogueIsTyped
<1>6. CASE CredentialsChecked(f)
  <2>1. CASE Goes(f, "user")
    BY <1>1, <2>1
  <2>2. ASSUME NEW cars \in SUBSET Cars,
               flow' = [flow EXCEPT
                 ![f].step = IF cars = {} THEN "guest_vin" ELSE "vehicle", ![f].cars = cars]
        PROVE  DialoguesTyped'
    <3>1. PICK s \in {"guest_vin", "vehicle"} : s = IF cars = {} THEN "guest_vin" ELSE "vehicle"
      OBVIOUS
    <3>2. flow' = [flow EXCEPT ![f] = [flow[f] EXCEPT !.step = s, !.cars = cars]]
      BY <2>2, <3>1, Zenon
    <3> DEFINE r == [step |-> s, demo |-> flow[f].demo, password |-> flow[f].password,
                     cars |-> cars, of |-> flow[f].of]
    <3>3. flow' = [flow EXCEPT ![f] = r]
      <4>1. [flow[f] EXCEPT !.step = s, !.cars = cars] = r
        BY DialogueWithCars, Zenon
      <4> HIDE DEF r
      <4> QED BY <3>2, <4>1, Zenon
    <3>4. DialogueTyped(r)
      BY <1>6 DEF CredentialsChecked, At, DialogueTyped, WithPassword
    <3> HIDE DEF r
    <3> QED BY <3>3, <3>4, ADialogueIsTyped
  <2>3. ASSUME NEW response \in VehicleLists, Failed \notin GetVehicles(response)
        PROVE  GetVehicles(response) \in SUBSET Cars
    BY <2>3, ListedCarsAreCars
  <2>4. CASE \E response \in VehicleLists :
               LET cars == GetVehicles(response)
               IN /\ Failed \notin cars
                  /\ flow' = [flow EXCEPT ![f].step = IF cars = {} THEN "guest_vin" ELSE "vehicle",
                                          ![f].cars = cars]
    <3>0. PICK response \in VehicleLists :
            LET cars == GetVehicles(response)
            IN /\ Failed \notin cars
               /\ flow' = [flow EXCEPT ![f].step = IF cars = {} THEN "guest_vin" ELSE "vehicle",
                                       ![f].cars = cars]
      BY <2>4
    <3>1. PICK cars :
            /\ cars = GetVehicles(response) /\ Failed \notin cars
            /\ flow' = [flow EXCEPT ![f].step = IF cars = {} THEN "guest_vin" ELSE "vehicle",
                                    ![f].cars = cars]
      BY <3>0
    <3> QED BY <2>2, <2>3, <3>1
  <2> QED BY <1>6, <2>1, <2>4 DEF CredentialsChecked
<1>7. CASE SubmitPassword(f)
  <2>1. PICK p \in 1..password :
          flow' = [flow EXCEPT ![f] = [flow[f] EXCEPT
                     !.step = "reauth_checking", !.password = p]]
    BY <1>7, Zenon DEF SubmitPassword
  <2> DEFINE r == [step |-> "reauth_checking", demo |-> flow[f].demo, password |-> p,
                   cars |-> flow[f].cars, of |-> flow[f].of]
  <2>2. flow' = [flow EXCEPT ![f] = r]
    <3>1. [flow[f] EXCEPT !.step = "reauth_checking", !.password = p] = r
      BY DialogueWithPassword, Zenon
    <3> HIDE DEF r
    <3> QED BY <2>1, <3>1, Zenon
  <2>3. DialogueTyped(r)
    BY PasswordsAreNumbers DEF DialogueTyped, WithPassword
  <2> HIDE DEF r
  <2> QED BY <2>2, <2>3, ADialogueIsTyped
<1>8. ASSUME NEW v \in Vin, StartReauth(f, v) PROVE DialoguesTyped'
  <2> DEFINE r == [Closed EXCEPT !.step = "reauth_confirm", !.of = {v}]
  <2>1. flow' = [flow EXCEPT ![f] = r]
    BY <1>8 DEF StartReauth
  <2>2. r = [[Closed EXCEPT !.step = "reauth_confirm"] EXCEPT !.of = {v}]
    BY Zenon
  <2> HIDE DEF r
  <2>3. r = [step |-> "reauth_confirm", demo |-> FALSE, password |-> 0, cars |-> {}, of |-> {v}]
    BY <2>2 DEF Closed
  <2>4. DialogueTyped(r)
    BY <2>3 DEF DialogueTyped, WithPassword
  <2> QED BY <2>1, <2>4, ADialogueIsTyped
<1>9. ASSUME NEW v, NEW i \in Intervals, FinishWith(f, v, i) PROVE DialoguesTyped'
  BY <1>2, <1>9 DEF FinishWith, CreateEntry
<1>10. CASE ChooseVehicle(f) \/ EnterVin(f)
  BY <1>9, <1>10 DEF ChooseVehicle, EnterVin, Intervals
<1>11. CASE PasswordChecked(f)
  BY <1>1, <1>2, <1>11 DEF PasswordChecked
<1> QED
  BY <1>3, <1>4, <1>5, <1>6, <1>7, <1>8, <1>10, <1>11 DEF FlowStep

LEMMA StepTypesDialogues ==
  FlowsOK /\ DialoguesTyped /\ password \in Password /\ [Next]_vars => DialoguesTyped'
<1> SUFFICES ASSUME FlowsOK, DialoguesTyped, password \in Password, [Next]_vars
             PROVE  DialoguesTyped'
  OBVIOUS
<1>1. CASE flow' = flow
  BY <1>1 DEF DialoguesTyped, DialogueTyped
<1>2. ASSUME NEW v \in Vin, RemoveEntry(v) PROVE DialoguesTyped'
  BY <1>2, ClosedIsTyped DEF RemoveEntry, DialoguesTyped, DialogueTyped
<1>3. CASE Restart
  BY <1>3, ClosedIsTyped DEF Restart, DialoguesTyped, DialogueTyped
<1>4. ASSUME NEW v \in Vin, EntryStep(v) PROVE DialoguesTyped'
  BY <1>1, <1>2, <1>4 DEF EntryStep, SubmitOptions, Authenticated, AuthFails, NotReady, Listed,
       FirstRefreshFails, Loaded, UserUnloads, UnloadFails, SetUpAgain, CallService, CallGoesOut,
       StreamReopens, SetUpEnds
<1>5. CASE ChangePassword \/ UNCHANGED vars
  BY <1>1, <1>5 DEF ChangePassword, vars
<1> QED BY <1>3, <1>4, <1>5, FlowStepsTyped DEF Next

LEMMA OneEntryTyped ==
  ASSUME EntriesInv, EntriesTyped, NEW v \in Vin, NEW e \in Entry \cup {Nothing},
         NEW s \in States, NEW r, RunningTyped(r),
         entry' = [entry EXCEPT ![v] = e], state' = [state EXCEPT ![v] = s],
         running' = [running EXCEPT ![v] = r]
  PROVE  EntriesTyped'
<1>1. ASSUME NEW w \in Vin
      PROVE  entry'[w] \in Entry \cup {Nothing} /\ state'[w] \in States /\ RunningTyped(running'[w])
  BY <1>1 DEF EntriesInv, FunctionsOK, EntriesTyped, EntryTyped
<1> QED BY <1>1 DEF EntriesTyped, EntryTyped, RunningTyped

LEMMA EntriesStayTyped ==
  EntriesTyped /\ UNCHANGED <<entry, state, running>> => EntriesTyped'
BY DEF EntriesTyped, EntryTyped, RunningTyped

LEMMA SettingUpTyped ==
  ASSUME EntriesInv, EntriesTyped, NEW v \in Vin, NEW e \in Entry, NEW replaced,
         entry' = [entry EXCEPT ![v] = e], SetsUp(v, e, replaced)
  PROVE  EntriesTyped'
<1> DEFINE s == IF e.demo THEN "refreshing" ELSE "authenticating"
           r == IF e.demo THEN [car |-> DemoCar, password |-> e.password, interval |-> e.interval]
                ELSE [car |-> Failed, password |-> e.password, interval |-> 0]
<1>1. state' = [state EXCEPT ![v] = s] /\ running' = [running EXCEPT ![v] = r]
  BY DEF SetsUp
<1>2. s \in States
  BY DEF States, SettingUp
<1>3. RunningTyped(r)
  BY DEF RunningTyped, Entry
<1> HIDE DEF s, r
<1> QED BY <1>1, <1>2, <1>3, OneEntryTyped

LEMMA FlowStepTypesEntries ==
  ASSUME EntriesInv, FlowsOK, DialoguesTyped, EntriesTyped, NEW f \in Flows, FlowStep(f)
  PROVE  EntriesTyped'
<1> DialogueTyped(flow[f])
  BY DEF DialoguesTyped
<1>1. CASE UNCHANGED entryVars
  BY <1>1, EntriesStayTyped DEF entryVars
<1>2. ASSUME NEW v \in Vin, NEW i \in Intervals, FinishWith(f, v, i),
             flow[f].step \in {"vehicle", "guest_vin", "demo_vin"}
      PROVE  EntriesTyped'
  <2> DEFINE e == [demo |-> flow[f].demo, password |-> flow[f].password, interval |-> i]
  <2>1. e \in Entry
    BY <1>2 DEF DialogueTyped, WithPassword, Entry
  <2>2. CASE CreateEntry(f, v, i)
    <3>1. entry' = [entry EXCEPT ![v] = e] /\ SetsUp(v, e, TRUE)
      BY <2>2 DEF CreateEntry
    <3> HIDE DEF e
    <3> QED BY <2>1, <3>1, SettingUpTyped
  <2> QED BY <1>1, <1>2, <2>2 DEF FinishWith
<1>3. CASE ChooseVehicle(f)
  <2>1. PICK c \in flow[f].cars, i \in Intervals : FinishWith(f, [car |-> c, neat |-> TRUE], i)
    BY <1>3 DEF ChooseVehicle
  <2>2. [car |-> c, neat |-> TRUE] \in Vin /\ flow[f].step = "vehicle"
    BY <1>3 DEF DialogueTyped, Vin, ChooseVehicle, At
  <2> QED BY <1>2, <2>1, <2>2
<1>4. CASE EnterVin(f)
  <2>1. PICK typed \in Vin, i \in Intervals :
          FinishWith(f, TypedVin(typed), i) /\ flow[f].step \in {"guest_vin", "demo_vin"}
    BY <1>4 DEF EnterVin, At, Intervals
  <2>2. TypedVin(typed) \in Vin
    BY DEF TypedVin, Vin
  <2> QED BY <1>2, <2>1, <2>2
<1>5. CASE PasswordChecked(f)
  <2>1. UNCHANGED <<state, running>>
    BY <1>5 DEF PasswordChecked
  <2>2. CASE entry' = entry
    BY <2>1, <2>2, EntriesStayTyped
  <2>3. ASSUME NEW v \in flow[f].of, ReauthSavesAndReloads(v, flow[f].password)
        PROVE  EntriesTyped'
    <3> DEFINE e == [entry[v] EXCEPT !.password = flow[f].password]
    <3>1. v \in Vin /\ Exists(v)
      BY DEF FlowsOK, FlowOK
    <3>2. entry[v] \in Entry /\ state[v] \in States /\ RunningTyped(running[v])
      BY <3>1 DEF EntriesTyped, EntryTyped, Exists
    <3>3. flow[f].password \in Password
      BY <1>5 DEF PasswordChecked, At, DialogueTyped, WithPassword
    <3>4. entry' = [entry EXCEPT ![v] = e]
      BY <2>3 DEF ReauthSavesAndReloads, KeepWhatElse
    <3>5. e \in Entry
      BY <3>2, <3>3 DEF Entry
    <3> HIDE DEF e
    <3>6. /\ state' = [state EXCEPT ![v] = state[v]]
          /\ running' = [running EXCEPT ![v] = running[v]]
      BY <2>1, <3>1, SameEntry
    <3> QED BY <3>1, <3>2, <3>4, <3>5, <3>6, OneEntryTyped
  <2> QED BY <1>5, <2>2, <2>3 DEF PasswordChecked
<1>6. CASE OpenForm(f) \/ SubmitCredentials(f) \/ CredentialsChecked(f) \/ NotListed(f)
             \/ SubmitPassword(f) \/ \E v \in Vin : StartReauth(f, v)
  BY <1>1, <1>6 DEF OpenForm, SubmitCredentials, CredentialsChecked, NotListed,
                    SubmitPassword, StartReauth
<1> QED BY <1>3, <1>4, <1>5, <1>6 DEF FlowStep

LEMMA EntryStepTypesEntries ==
  ASSUME EntriesInv, EntriesTyped, NEW v \in Vin, EntryStep(v)
  PROVE  EntriesTyped'
<1> EntryTyped(v)
  BY DEF EntriesTyped
<1>1. ASSUME NEW s \in States, state' = [state EXCEPT ![v] = s], UNCHANGED <<entry, running>>
      PROVE  EntriesTyped'
  <2>1. /\ entry' = [entry EXCEPT ![v] = entry[v]]
        /\ running' = [running EXCEPT ![v] = running[v]]
    BY <1>1, SameEntry
  <2> QED BY <1>1, <2>1, OneEntryTyped DEF EntryTyped
<1>2. CASE SubmitOptions(v)
  <2>1. PICK i \in Intervals : entry' = [entry EXCEPT ![v] = [entry[v] EXCEPT !.interval = i]]
    BY <1>2 DEF SubmitOptions
  <2> DEFINE e == [entry[v] EXCEPT !.interval = i]
  <2>2. e \in Entry
    BY <1>2 DEF EntryTyped, SubmitOptions, Exists, Entry
  <2>3. entry' = [entry EXCEPT ![v] = e]
    BY <2>1
  <2> HIDE DEF e
  <2>4. /\ state' = [state EXCEPT ![v] = state[v]]
        /\ running' = [running EXCEPT ![v] = running[v]]
    BY <1>2, SameEntry DEF SubmitOptions
  <2> QED BY <2>2, <2>3, <2>4, OneEntryTyped DEF EntryTyped
<1>3. CASE Authenticated(v) \/ AuthFails(v) \/ NotReady(v) \/ FirstRefreshFails(v) \/ Loaded(v)
             \/ UserUnloads(v) \/ UnloadFails(v)
  <2>1. UNCHANGED <<entry, running>>
    BY <1>3 DEF Authenticated, AuthFails, NotReady, FirstRefreshFails, Loaded, UserUnloads,
                UnloadFails, SetUpEnds
  <2>2. \E s \in States : state' = [state EXCEPT ![v] = s]
    BY <1>3 DEF Authenticated, AuthFails, NotReady, FirstRefreshFails, Loaded, UserUnloads,
                UnloadFails, SetUpEnds, States, SettingUp
  <2> QED BY <1>1, <2>1, <2>2
<1>4. CASE Listed(v)
  <2> DEFINE r == [running[v] EXCEPT !.car = v.car, !.interval = entry[v].interval]
  <2>1. /\ state' = [state EXCEPT ![v] = "refreshing"]
        /\ running' = [running EXCEPT ![v] = r]
        /\ entry' = entry /\ state[v] = "listing"
    BY <1>4, Zenon DEF Listed
  <2>2. RunningTyped(r)
    <3>1. PICK c, p, i : running[v] = [car |-> c, password |-> p, interval |-> i]
      BY DEF EntriesInv, CarOK, IsRunning
    <3>2. r = [[running[v] EXCEPT !.car = v.car] EXCEPT !.interval = entry[v].interval]
      BY Zenon
    <3> HIDE DEF r
    <3>3. [running[v] EXCEPT !.car = v.car] = [car |-> v.car, password |-> p, interval |-> i]
      BY <3>1
    <3>4. r = [car |-> v.car, password |-> p, interval |-> entry[v].interval]
      BY <3>2, <3>3
    <3>5. entry[v] \in Entry
      BY <2>1 DEF EntriesInv, EntryOK, Exists, EntryTyped
    <3> QED BY <3>1, <3>4, <3>5 DEF RunningTyped, EntryTyped, Entry, Vin
  <2> HIDE DEF r
  <2>3. entry' = [entry EXCEPT ![v] = entry[v]]
    BY <2>1, SameEntry
  <2> QED BY <2>1, <2>2, <2>3, OneEntryTyped DEF EntryTyped, States, SettingUp
<1>5. CASE SetUpAgain(v)
  <2>1. entry[v] \in Entry /\ entry' = [entry EXCEPT ![v] = entry[v]]
    BY <1>5, SameEntry DEF SetUpAgain, Exists, EntryTyped
  <2> QED BY <1>5, <2>1, SettingUpTyped DEF SetUpAgain
<1>6. CASE RemoveEntry(v)
  <2>1. RunningTyped(NotRunning)
    BY DEF RunningTyped, NotRunning
  <2> QED BY <1>6, <2>1, OneEntryTyped DEF RemoveEntry, States
<1>7. CASE CallService(v) \/ CallGoesOut(v) \/ StreamReopens(v)
  BY <1>7, EntriesStayTyped DEF CallService, CallGoesOut, StreamReopens, entryVars
<1> QED BY <1>2, <1>3, <1>4, <1>5, <1>6, <1>7 DEF EntryStep

LEMMA StepTypesEntries ==
  EntriesInv /\ FlowsOK /\ DialoguesTyped /\ EntriesTyped /\ [Next]_vars => EntriesTyped'
<1> SUFFICES ASSUME EntriesInv, FlowsOK, DialoguesTyped, EntriesTyped, [Next]_vars
             PROVE  EntriesTyped'
  OBVIOUS
<1>1. CASE Restart
  BY <1>1 DEF Restart, EntriesTyped, EntryTyped, RunningTyped, NotRunning, States
<1>2. CASE ChangePassword \/ UNCHANGED vars
  BY <1>2, EntriesStayTyped DEF ChangePassword, vars, entryVars
<1> QED BY <1>1, <1>2, FlowStepTypesEntries, EntryStepTypesEntries DEF Next

LEMMA SettingUpTypesRest ==
  ASSUME RestTyped, NEW v \in Vin, NEW e, NEW replaced, SetsUp(v, e, replaced),
         UNCHANGED <<password, stray, entities, unloads>>, forgotten' \subseteq Vin
  PROVE  RestTyped'
BY DEF RestTyped, SetsUp

LEMMA FlowStepTypesRest ==
  ASSUME FlowsOK, DialoguesTyped, RestTyped, NEW f \in Flows, FlowStep(f)
  PROVE  RestTyped'
<1>1. CASE UNCHANGED <<password, entryVars, channelVars, calling, unloads>>
  BY <1>1 DEF RestTyped, entryVars, channelVars
<1>2. ASSUME NEW v \in Vin, NEW i \in Intervals, FinishWith(f, v, i) PROVE RestTyped'
  <2>1. forgotten \subseteq Vin
    BY DEF RestTyped
  <2> QED BY <1>1, <1>2, <2>1, SettingUpTypesRest DEF FinishWith, CreateEntry
<1>3. CASE ChooseVehicle(f)
  <2>1. PICK c \in flow[f].cars, i \in Intervals : FinishWith(f, [car |-> c, neat |-> TRUE], i)
    BY <1>3 DEF ChooseVehicle
  <2>2. [car |-> c, neat |-> TRUE] \in Vin
    BY DEF DialoguesTyped, DialogueTyped, Vin
  <2> QED BY <1>2, <2>1, <2>2
<1>4. CASE EnterVin(f)
  <2>1. PICK typed \in Vin, i \in Intervals : FinishWith(f, TypedVin(typed), i)
    BY <1>4 DEF EnterVin, Intervals
  <2>2. TypedVin(typed) \in Vin
    BY DEF TypedVin, Vin
  <2> QED BY <1>2, <2>1, <2>2
<1>5. CASE PasswordChecked(f)
  <2>1. UNCHANGED <<password, unheard, entities, open, stray, forgotten, stored, calling, unloads>>
    BY <1>5 DEF PasswordChecked, channelVars
  <2>2. due' \subseteq Vin
    BY <1>5 DEF PasswordChecked, ReauthSavesAndReloads, RestTyped, FlowsOK, FlowOK
  <2> QED BY <2>1, <2>2 DEF RestTyped
<1>6. CASE OpenForm(f) \/ SubmitCredentials(f) \/ CredentialsChecked(f) \/ NotListed(f)
             \/ SubmitPassword(f) \/ \E v \in Vin : StartReauth(f, v)
  BY <1>1, <1>6 DEF OpenForm, SubmitCredentials, CredentialsChecked, NotListed,
                    SubmitPassword, StartReauth
<1> QED BY <1>3, <1>4, <1>5, <1>6 DEF FlowStep

LEMMA EntryStepTypesRest ==
  ASSUME EntriesInv, RestTyped, NEW v \in Vin, EntryStep(v)
  PROVE  RestTyped'
<1> USE DEF RestTyped
<1>1. CASE SubmitOptions(v)
  BY <1>1 DEF SubmitOptions, Updated, channelVars
<1>2. CASE Authenticated(v)
  BY <1>2 DEF Authenticated
<1>3. CASE AuthFails(v) \/ NotReady(v)
  BY <1>3 DEF AuthFails, NotReady, SetUpEnds, channelVars
<1>4. CASE Listed(v)
  BY <1>4 DEF Listed
<1>5. CASE FirstRefreshFails(v)
  BY <1>5 DEF FirstRefreshFails, SetUpEnds
<1>6. CASE Loaded(v)
  <2>1. running[v].car \in Cars \cup {DemoCar}
    BY <1>6 DEF Loaded, EntriesInv, CarOK, Vin
  <2> QED BY <1>6, <2>1 DEF Loaded, channelVars
<1>0. ShutdownForgets(v) => forgotten' \subseteq Vin
  BY DEF ShutdownForgets
<1>7. CASE UserUnloads(v)
  BY <1>0, <1>7, EntriesAssumption DEF UserUnloads, Unload, CloseClient, EntriesAssumption
<1>8. CASE UnloadFails(v)
  BY <1>8, EntriesAssumption DEF UnloadFails, channelVars, EntriesAssumption
<1>9. CASE SetUpAgain(v)
  BY <1>0, <1>9, SettingUpTypesRest DEF SetUpAgain
<1>10. CASE RemoveEntry(v)
  <2>1. /\ open' \subseteq Vin /\ stray' \subseteq Vin /\ forgotten' \subseteq Vin
        /\ calling' \in [Vin -> {"none", "live", "outlived"}]
    <3>1. CASE LeftRunning(v)
      BY <3>1 DEF LeftRunning
    <3>2. CASE Unload(v) /\ UNCHANGED stray
      BY <1>0, <3>2 DEF Unload, CloseClient
    <3> QED BY <1>10, <3>1, <3>2 DEF RemoveEntry
  <2> QED BY <1>10, <2>1, EntriesAssumption DEF RemoveEntry, EntriesAssumption
<1>11. CASE CallService(v)
  BY <1>11 DEF CallService, entryVars, channelVars
<1>12. CASE CallGoesOut(v)
  BY <1>12 DEF CallGoesOut, entryVars
<1>13. CASE StreamReopens(v)
  BY <1>13 DEF StreamReopens, entryVars
<1> QED
  BY <1>1, <1>2, <1>3, <1>4, <1>5, <1>6, <1>7, <1>8, <1>9, <1>10, <1>11, <1>12, <1>13
  DEF EntryStep

LEMMA StepTypesRest ==
  EntriesInv /\ FlowsOK /\ DialoguesTyped /\ RestTyped /\ [Next]_vars => RestTyped'
<1> SUFFICES ASSUME EntriesInv, FlowsOK, DialoguesTyped, RestTyped, [Next]_vars
             PROVE  RestTyped'
  OBVIOUS
<1>1. CASE Restart
  BY <1>1, EntriesAssumption DEF Restart, RestTyped, EntriesAssumption
<1>2. CASE ChangePassword
  BY <1>2, EntriesAssumption
     DEF ChangePassword, RestTyped, entryVars, channelVars, Password, EntriesAssumption
<1>3. CASE UNCHANGED vars
  BY <1>3 DEF vars, entryVars, channelVars, RestTyped
<1> QED BY <1>1, <1>2, <1>3, FlowStepTypesRest, EntryStepTypesRest DEF Next

TypesInv == DialoguesTyped /\ EntriesTyped /\ RestTyped

\* Entries, what runs of them and what the dialogues remember have the types they should
\* (config_flow.py, __init__.py).
THEOREM EntriesAreTyped == Spec => []TypeOK
<1>1. Init => TypesInv
  <2> SUFFICES ASSUME Init PROVE TypesInv
    OBVIOUS
  <2>1. DialoguesTyped
    BY ClosedIsTyped DEF Init, DialoguesTyped
  <2>2. EntriesTyped
    BY DEF Init, EntriesTyped, EntryTyped, RunningTyped, NotRunning, States
  <2>3. RestTyped
    BY EntriesAssumption DEF Init, RestTyped, Password, EntriesAssumption
  <2> QED BY <2>1, <2>2, <2>3 DEF TypesInv
<1>2. EntriesInv /\ FlowsOK /\ TypesInv /\ [Next]_vars => TypesInv'
  BY StepTypesDialogues, StepTypesEntries, StepTypesRest DEF TypesInv, RestTyped
<1>3. EntriesInv /\ FlowsOK /\ TypesInv => TypeOK
  <2> SUFFICES ASSUME EntriesInv, FlowsOK, TypesInv PROVE TypeOK
    OBVIOUS
  <2>1. entry \in [Vin -> Entry \cup {Nothing}] /\ state \in [Vin -> States]
    BY DEF EntriesInv, FunctionsOK, TypesInv, EntriesTyped, EntryTyped
  <2>2. \A v \in Vin : /\ running[v].car \in Cars \cup {DemoCar, Failed}
                       /\ running[v].password \in Password \cup {0}
                       /\ running[v].interval \in Intervals \cup {0}
    BY DEF TypesInv, EntriesTyped, EntryTyped, RunningTyped
  <2>3. \A f \in Flows :
          /\ flow[f].step \in {"closed", "user", "checking", "vehicle", "guest_vin", "demo_vin",
                               "reauth_confirm", "reauth_checking"}
          /\ flow[f].password \in Password \cup {0}
          /\ flow[f].cars \subseteq Cars /\ flow[f].of \subseteq Vin
    BY DEF TypesInv, DialoguesTyped, DialogueTyped, WithPassword
  <2> QED BY <2>1, <2>2, <2>3 DEF TypesInv, RestTyped, TypeOK
<1> QED BY <1>1, <1>2, <1>3, EntriesInvariant, PTL DEF Spec
=============================================================================
