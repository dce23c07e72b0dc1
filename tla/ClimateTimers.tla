--------------------------- MODULE ClimateTimers ---------------------------
(***************************************************************************)
(* The parking climate timers: the backend's list with the changes that    *)
(* the car has not taken over yet, the list in the coordinator's data, and *)
(* one calendar entity per slot that creates, updates and deletes them.    *)
(* An edit refers to a timer by the uid of an event the user opened; the   *)
(* list may have changed since.  A write streams back its status.          *)
(***************************************************************************)
EXTENDS Recurrence, Functions, FiniteSets

CONSTANTS
  Ids,         \* timer ids, given by the backend
  Slots,       \* the calendars: _CALENDAR_SLOTS
  Plans,       \* schedules, a subset of TimerPlans
  Statuses,    \* of the delivery of a write, a subset of 0..8
  MaxEdits     \* bound: edits

ASSUME TimersAssumption ==
  Ids \subseteq Nat \ {0} /\ Slots \subseteq Nat /\ Plans \subseteq TimerPlans /\ Statuses \subseteq 0..8 /\ MaxEdits \in Nat

VARIABLES
  timers,      \* in the car: a function of ids to timers
  pending,     \* set in the backend, not in the car yet
  deleting,    \* ids deleted in the backend, not in the car yet
  listed,      \* the snapshot: a function of ids to timers
  reading,     \* the answer that a read will bring
  opened,      \* the event the user has open: its slot and uid
  request,     \* the write under way
  result,      \* of the last write: "none", "failed", or the kind that is done
  heard,       \* history: the statuses it heard
  edits        \* bounded counter

timerVars == <<timers, pending, deleting, listed, reading, opened, request, result, heard, edits>>

Timer == [index : Slots, plan : Plans]
Lists == UNION {[S -> Timer] : S \in SUBSET Ids}
NoId == 0      \* a timer without an id, or no timer
NoTimers == [id \in {} |-> {}]
Nothing == [kind |-> "none"]

-----------------------------------------------------------------------------
(* The list.                                                               *)

\* Mutant: a pending change does not hide what the car still has.
MergeTimersActive(active, changed, deleted) ==
  [id \in (DOMAIN active \cup DOMAIN changed) \ deleted |->
     IF id \in DOMAIN active THEN active[id] ELSE changed[id]]

\* _merge_timers_response.
MergeTimers(active, changed, deleted) ==
  [id \in (DOMAIN active \cup DOMAIN changed) \ deleted |->
     IF id \in DOMAIN changed THEN changed[id] ELSE active[id]]

\* PolestarParkingClimateTimerCalendar.timer: the first of a slot, in the order
\* of index and id; ids are compared by their position.
InSlot(list, slot) == {id \in DOMAIN list : list[id].index = slot}
SlotTimer(list, slot) ==
  IF InSlot(list, slot) = {} THEN NoId
  ELSE CHOOSE id \in InSlot(list, slot) : \A other \in InSlot(list, slot) : id <= other

Init ==
  /\ timers \in {l \in Lists : \A slot \in Slots : Cardinality(InSlot(l, slot)) <= 1}
  /\ pending = NoTimers /\ deleting = {}
  /\ listed = timers /\ reading = Nothing /\ opened = Nothing
  /\ request = Nothing /\ result = "none" /\ heard = {} /\ edits = 0

-----------------------------------------------------------------------------
(* Reads.                                                                  *)

StartRead ==
  /\ reading = Nothing
  /\ reading' = [kind |-> "list", list |-> MergeTimers(timers, pending, deleting)]
  /\ UNCHANGED <<timers, pending, deleting, listed, opened, request, result, heard, edits>>

\* An answer, or the end of the time for one: then the list is empty.
ReadEnds(answered) ==
  /\ reading # Nothing
  /\ listed' = IF answered THEN reading.list ELSE NoTimers
  /\ reading' = Nothing
  /\ UNCHANGED <<timers, pending, deleting, opened, request, result, heard, edits>>

-----------------------------------------------------------------------------
(* Calendar events.                                                        *)

\* Home Assistant shows the event of a calendar, and the user opens it.
OpenEvent(slot) ==
  /\ SlotTimer(listed, slot) # NoId
  /\ opened' = [kind |-> "event", slot |-> slot, uid |-> SlotTimer(listed, slot)]
  /\ UNCHANGED <<timers, pending, deleting, listed, reading, request, result, heard, edits>>

\* A write begins; its stream has the statuses it will send.
Send(kind, id, timer) ==
  /\ request' = [kind |-> kind, id |-> id, timer |-> timer, carried |-> FALSE]
  /\ result' = "none" /\ heard' = {} /\ edits' = edits + 1
  /\ UNCHANGED <<timers, pending, deleting, listed, reading>>

MayEdit == request = Nothing /\ edits < MaxEdits

\* _timer_from_event: the plan is the event's, the slot the current timer's.
TimerFromEvent(slot, id, plan) ==
  [index |-> IF id = NoId THEN slot ELSE listed[id].index, plan |-> plan]

\* async_create_event: a timer without an id, in a slot that looks empty.
CreateEvent(slot, plan) ==
  /\ MayEdit /\ SlotTimer(listed, slot) = NoId
  /\ Send("set", NoId, TimerFromEvent(slot, NoId, plan))
  /\ UNCHANGED opened

\* Mutant: the slot's timer is edited, whatever event the user had open.
IsOpenedAny(slot, uid) == SlotTimer(listed, slot) # NoId

\* "current_timer is None or current_timer.timer_id != uid".
IsOpened(slot, uid) == SlotTimer(listed, slot) = uid

\* async_update_event: the plan is new, the id and the slot are the timer's.
UpdateEvent(plan) ==
  /\ MayEdit /\ opened # Nothing /\ IsOpened(opened.slot, opened.uid)
  /\ LET id == SlotTimer(listed, opened.slot) IN
     Send("set", id, TimerFromEvent(opened.slot, id, plan))
  /\ opened' = Nothing

\* async_delete_event.
DeleteEvent ==
  /\ MayEdit /\ opened # Nothing /\ IsOpened(opened.slot, opened.uid)
  /\ Send("delete", SlotTimer(listed, opened.slot), [index |-> opened.slot])
  /\ opened' = Nothing

\* "Parking climate timer not found."
EventNotFound ==
  /\ opened # Nothing /\ ~IsOpened(opened.slot, opened.uid)
  /\ opened' = Nothing
  /\ UNCHANGED <<timers, pending, deleting, listed, reading, request, result, heard, edits>>

-----------------------------------------------------------------------------
(* The backend and the car.                                                *)

\* A list with the changes written over it.
Overwritten(list, changed) ==
  [id \in DOMAIN list \cup DOMAIN changed |->
     IF id \in DOMAIN changed THEN changed[id] ELSE list[id]]

\* The backend takes the request: a timer without an id gets one.
BackendTakes(id) ==
  /\ request # Nothing /\ ~request.carried
  /\ id \in IF request.id = NoId THEN Ids \ (DOMAIN timers \cup DOMAIN pending \cup deleting)
            ELSE {request.id}
  /\ IF request.kind = "set"
     THEN pending' = Overwritten(pending, [i \in {id} |-> request.timer]) /\ UNCHANGED deleting
     ELSE deleting' = deleting \cup {id} /\ UNCHANGED pending
  /\ request' = [request EXCEPT !.carried = TRUE]
  /\ UNCHANGED <<timers, listed, reading, opened, result, heard, edits>>

\* The car takes over what is pending.
CarSyncs ==
  /\ \/ DOMAIN pending # {}
     \/ deleting # {}
  /\ timers' = Restrict(Overwritten(timers, pending), (DOMAIN timers \cup DOMAIN pending) \ deleting)
  /\ pending' = NoTimers /\ deleting' = {}
  /\ UNCHANGED <<listed, reading, opened, request, result, heard, edits>>

\* A timer is deleted, or moved to another slot, in the car or its app.
CarEdits(id) ==
  /\ id \in DOMAIN timers /\ edits < MaxEdits
  /\ \/ timers' = Restrict(timers, DOMAIN timers \ {id})
     \/ \E slot \in Slots : /\ InSlot(timers, slot) = {}
                            /\ timers' = [timers EXCEPT ![id].index = slot]
  /\ edits' = edits + 1
  /\ UNCHANGED <<pending, deleting, listed, reading, opened, request, result, heard>>

-----------------------------------------------------------------------------
(* Statuses.                                                               *)

Refusals == {0, 5, 6, 7}     \* UNKNOWN_ERROR, CAR_OFFLINE, CAR_ERROR, ERROR

\* Mutant: every status of the delivery counts as a success.
SetSucceedsAlways(status) == status # 0

\* _decode_set_timer_status.
SetSucceeds(status) == status \in {1, 2, 3, 4, 8}

\* _decode_delete_status.
DeleteSucceeds(status) == status # 0

Finish(res) ==
  /\ request' = Nothing /\ result' = res
  /\ UNCHANGED <<timers, pending, deleting, listed, reading, opened, edits>>

\* A status arrives: a set goes on listening, a delete is done with the first.
StatusArrives(status) ==
  /\ request # Nothing /\ (request.carried \/ status \in Refusals)
  /\ heard' = heard \cup {status}
  /\ IF request.kind = "set" /\ SetSucceeds(status)
     THEN UNCHANGED <<timers, pending, deleting, listed, reading, opened, request, result, edits>>
     ELSE Finish(IF request.kind = "delete" /\ DeleteSucceeds(status) THEN "delete" ELSE "failed")

\* The stream closes, the connection breaks after a status, or the ten seconds
\* are over: what has been heard so far, be it nothing, is the outcome.
WriteEnds ==
  /\ request # Nothing
  /\ Finish(request.kind) /\ UNCHANGED heard

\* Every try of the call fails.
WriteFails ==
  /\ request # Nothing /\ heard = {}
  /\ Finish("failed") /\ UNCHANGED heard

Next ==
  \/ StartRead
  \/ \E answered \in BOOLEAN : ReadEnds(answered)
  \/ \E slot \in Slots : OpenEvent(slot)
  \/ \E slot \in Slots, plan \in Plans : CreateEvent(slot, plan)
  \/ \E plan \in Plans : UpdateEvent(plan)
  \/ DeleteEvent
  \/ EventNotFound
  \/ \E id \in Ids : BackendTakes(id) \/ CarEdits(id)
  \/ CarSyncs
  \/ \E status \in Statuses : StatusArrives(status)
  \/ WriteEnds
  \/ WriteFails

Spec == Init /\ [][Next]_timerVars

-----------------------------------------------------------------------------
(* Properties.                                                             *)

\* What a read shows is what the car will have once it has taken over the
\* changes: an edit is seen at once, and a deleted timer stays away.
MergedIsFuture ==
  [][CarSyncs => timers' = MergeTimers(timers, pending, deleting)]_timerVars

\* An update or a delete of an event reaches the timer of that event and no
\* other, though its slot may hold another timer by now (calendar.py:117, 131).
EditHitsItsTimer ==
  [][request' # request /\ request' # Nothing /\ opened # Nothing /\ opened' = Nothing
       => request'.id = opened.uid]_timerVars

\* A refusal that is heard among the statuses of a set is an error for whoever
\* edited the timer, also after the statuses of a delivery
\* (parking_climate_timer.py:130-145, 303-319).
HeardRefusalFails == result = "set" => heard \cap Refusals = {}
=============================================================================
