------------------------ MODULE ClimateTimers_proofs ------------------------
(***************************************************************************)
(* Proofs about ClimateTimers, for any timers, slots and schedules.        *)
(***************************************************************************)
EXTENDS ClimateTimers, TLAPS

\* An edit of an event is a request for the timer of that event.
LEMMA StepHits ==
  [Next]_timerVars =>
    (request' # request /\ request' # Nothing /\ opened # Nothing /\ opened' = Nothing
       => request'.id = opened.uid)
<1> SUFFICES ASSUME [Next]_timerVars, request' # request, request' # Nothing,
                    opened # Nothing, opened' = Nothing
             PROVE  request'.id = opened.uid
  OBVIOUS
<1>1. ASSUME NEW plan \in Plans, UpdateEvent(plan) PROVE request'.id = opened.uid
  BY <1>1 DEF UpdateEvent, Send, IsOpened
<1>2. CASE DeleteEvent
  BY <1>2 DEF DeleteEvent, Send, IsOpened
<1>3. ASSUME NEW slot \in Slots, NEW plan \in Plans, CreateEvent(slot, plan) PROVE FALSE
  BY <1>3 DEF CreateEvent
<1>4. ASSUME NEW id \in Ids, BackendTakes(id) PROVE FALSE
  BY <1>4 DEF BackendTakes
<1>5. ASSUME NEW status \in Statuses, StatusArrives(status) PROVE FALSE
  BY <1>5 DEF StatusArrives, Finish
<1>6. CASE WriteEnds \/ WriteFails
  BY <1>6 DEF WriteEnds, WriteFails, Finish
<1>7. CASE StartRead \/ EventNotFound \/ CarSyncs
  BY <1>7 DEF StartRead, EventNotFound, CarSyncs
<1>8. ASSUME NEW answered \in BOOLEAN, ReadEnds(answered) PROVE FALSE
  BY <1>8 DEF ReadEnds
<1>9. ASSUME NEW slot \in Slots, OpenEvent(slot) PROVE FALSE
  BY <1>9 DEF OpenEvent
<1>10. ASSUME NEW id \in Ids, CarEdits(id) PROVE FALSE
  BY <1>10 DEF CarEdits
<1>11. CASE UNCHANGED timerVars
  BY <1>11 DEF timerVars
<1> QED
  BY <1>1, <1>2, <1>3, <1>4, <1>5, <1>6, <1>7, <1>8, <1>9, <1>10, <1>11 DEF Next

\* An update or a delete reaches the timer of the event it was made for, however the
\* list has changed since the event was opened.
THEOREM EditsHitTheirTimer == Spec => EditHitsItsTimer
BY StepHits, PTL DEF Spec, EditHitsItsTimer

-----------------------------------------------------------------------------
(* Reads.                                                                  *)

\* What a read shows is what the car has once it has taken over the changes: whichever
\* timers were changed, added or deleted (_merge_timers_response).
THEOREM ReadsShowTheFuture == Spec => MergedIsFuture
<1>1. CarSyncs => timers' = MergeTimers(timers, pending, deleting)
  <2> DEFINE ids == (DOMAIN timers \cup DOMAIN pending) \ deleting
             all == Overwritten(timers, pending)
  <2> SUFFICES ASSUME CarSyncs PROVE timers' = MergeTimers(timers, pending, deleting)
    OBVIOUS
  <2>1. timers' = [id \in ids |-> all[id]]
    BY DEF CarSyncs, Restrict
  <2>2. ASSUME NEW id \in ids
        PROVE  all[id] = IF id \in DOMAIN pending THEN pending[id] ELSE timers[id]
    BY DEF Overwritten
  <2> HIDE DEF all
  <2> QED BY <2>1, <2>2 DEF MergeTimers
<1> QED BY <1>1, PTL DEF Spec, MergedIsFuture

-----------------------------------------------------------------------------
(* Refusals.                                                               *)

\* While a set goes on listening it has heard no refusal, and once it is done
\* it will not have.
HeardInv ==
  /\ request # Nothing => result = "none"
  /\ request # Nothing /\ request.kind = "set" => heard \cap Refusals = {}
  /\ result = "set" => heard \cap Refusals = {}

LEMMA SuccessIsNoRefusal == \A status : SetSucceeds(status) => status \notin Refusals
BY DEF SetSucceeds, Refusals

LEMMA StepHears == HeardInv /\ [Next]_timerVars => HeardInv'
<1> SUFFICES ASSUME HeardInv, [Next]_timerVars PROVE HeardInv'
  OBVIOUS
<1> USE DEF HeardInv
<1>1. ASSUME NEW kind, NEW id, NEW timer, Send(kind, id, timer) PROVE HeardInv'
  BY <1>1 DEF Send
<1>2. ASSUME NEW plan \in Plans, UpdateEvent(plan) PROVE HeardInv'
  BY <1>1, <1>2 DEF UpdateEvent
<1>3. CASE DeleteEvent
  BY <1>1, <1>3 DEF DeleteEvent
<1>4. ASSUME NEW slot \in Slots, NEW plan \in Plans, CreateEvent(slot, plan) PROVE HeardInv'
  BY <1>1, <1>4 DEF CreateEvent
<1>5. ASSUME NEW id \in Ids, BackendTakes(id) PROVE HeardInv'
  <2>1. request'.kind = request.kind \/ request'.kind # "set"
    BY <1>5 DEF BackendTakes
  <2> QED BY <1>5, <2>1 DEF BackendTakes
<1>6. ASSUME NEW status \in Statuses, StatusArrives(status) PROVE HeardInv'
  BY <1>6, SuccessIsNoRefusal DEF StatusArrives, Finish
<1>7. CASE WriteEnds
  BY <1>7 DEF WriteEnds, Finish
<1>8. CASE WriteFails
  BY <1>8 DEF WriteFails, Finish
<1>9. UNCHANGED <<request, result, heard>> => HeardInv'
  OBVIOUS
<1>10. CASE StartRead \/ EventNotFound \/ CarSyncs
  BY <1>9, <1>10 DEF StartRead, EventNotFound, CarSyncs
<1>11. ASSUME NEW answered \in BOOLEAN, ReadEnds(answered) PROVE HeardInv'
  BY <1>9, <1>11 DEF ReadEnds
<1>12. ASSUME NEW slot \in Slots, OpenEvent(slot) PROVE HeardInv'
  BY <1>9, <1>12 DEF OpenEvent
<1>13. ASSUME NEW id \in Ids, CarEdits(id) PROVE HeardInv'
  BY <1>9, <1>13 DEF CarEdits
<1>14. CASE UNCHANGED timerVars
  BY <1>9, <1>14 DEF timerVars
<1> QED
  BY <1>2, <1>3, <1>4, <1>5, <1>6, <1>7, <1>8, <1>10, <1>11, <1>12, <1>13, <1>14 DEF Next

\* Whatever the order of the statuses, a refusal that was heard is reported.
THEOREM HeardRefusalsAreReported == Spec => []HeardRefusalFails
<1>1. Init => HeardInv
  BY DEF Init, HeardInv
<1>2. HeardInv => HeardRefusalFails
  BY DEF HeardInv, HeardRefusalFails
<1> QED BY <1>1, <1>2, StepHears, PTL DEF Spec
=============================================================================
