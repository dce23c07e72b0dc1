------------------------------- MODULE Streams -------------------------------
(***************************************************************************)
(* The activity of the car, the poll timer it drives and the live streams  *)
(* of PolestarCoordinator: which subscriptions are wanted, which tasks     *)
(* run, and what a task does when its subscription delivers, closes or     *)
(* fails.                                                                  *)
(*                                                                         *)
(* A task is "open" inside `async for`, "waiting" in one of its sleeps,    *)
(* "cancelling" once the shutdown cancelled it and it has not yet run, and *)
(* "done" when it returned; "none" means that _stream_tasks has no entry.  *)
(***************************************************************************)
EXTENDS Snapshot

CONSTANTS
  AlwaysOn,        \* ALWAYS_ON_STREAMS, empty when streams are disabled
  ActiveOnly,      \* ACTIVE_ONLY_STREAMS, empty when streams are disabled
  Busy,            \* the looks of an attribute that make the car active
  MaxRetries,      \* STREAM_MAX_RETRIES
  StreamTrouble    \* environment: how a subscription may end

Streamed == AlwaysOn \cup ActiveOnly

ASSUME StreamsAssumption ==
  /\ AlwaysOn \subseteq Attr
  /\ ActiveOnly \subseteq Attr \ AlwaysOn
  /\ Busy \in [Attr -> SUBSET Nat]
  /\ \A a \in Attr : Content[a][0] \notin Busy[a]
  /\ MaxRetries \in Nat \ {0}
  /\ StreamTrouble \subseteq {"closed", "auth", "unimplemented", "failed"}

VARIABLES
  active,       \* self._active
  recent,       \* a command was sent within COMMAND_ACTIVE_WINDOW
  timer,        \* the interval _unsub_refresh was armed with, or "none"
  stream,       \* the task of _stream_tasks, per attribute
  failures,     \* consecutive_failures of the task
  received,     \* received of the task's current subscription
  inTransit,    \* a revision the server sent that is not yet delivered, or 0
  noStream,     \* self._unsupported_streams
  orphans       \* running tasks that _stream_tasks no longer knows

streamVars == <<stream, failures, received, inTransit, noStream, orphans>>
activityVars == <<active, recent, timer>>

Running == {"open", "waiting", "cancelling"}
Interval(act) == IF act THEN "active" ELSE "idle"

StreamsTypeOK ==
  /\ active \in BOOLEAN
  /\ recent \in BOOLEAN
  /\ timer \in {"none", "idle", "active"}
  /\ stream \in [Streamed -> Running \cup {"none", "done"}]
  /\ failures \in [Streamed -> 0..MaxRetries]
  /\ received \in [Streamed -> BOOLEAN]
  /\ inTransit \in [Streamed -> Rev]
  /\ noStream \subseteq Streamed
  /\ orphans \subseteq Streamed

StreamsInit ==
  /\ active = FALSE
  /\ recent = FALSE
  /\ timer = "none"
  /\ stream = [a \in Streamed |-> "none"]
  /\ failures = [a \in Streamed |-> 0]
  /\ received = [a \in Streamed |-> FALSE]
  /\ inTransit = [a \in Streamed |-> 0]
  /\ noStream = {}
  /\ orphans = {}

-----------------------------------------------------------------------------
CarIsActive == recent \/ \E a \in Attr : Content[a][data[a]] \in Busy[a]

WantedStreams(act) == IF act THEN Streamed ELSE AlwaysOn

\* The tasks after async_restart_finished_streams: wanted ones that are not
\* running are started.
Restarted(tasks, act) ==
  [a \in Streamed |->
     IF a \in WantedStreams(act) \ noStream /\ tasks[a] \notin Running
     THEN "open"
     ELSE tasks[a]]

\* Mutant: nothing is stopped when the car goes idle.
AfterSwitchNoStop(tasks, act) == IF act THEN Restarted(tasks, act) ELSE tasks

\* The tasks after the car became active (act) or idle.
AfterSwitch(tasks, act) ==
  IF act
  THEN Restarted(tasks, act)
  ELSE [a \in Streamed |-> IF a \in ActiveOnly THEN "none" ELSE tasks[a]]

\* The tasks after _async_update_activity, given the activity it finds.
AfterUpdate(tasks, act) == IF act = active THEN tasks ELSE AfterSwitch(tasks, act)

\* Mutant: the pending timer is cancelled and no other one armed.
OnlyCancelled(act) == IF act /\ ~active THEN "none" ELSE timer

\* A pending idle timer is pulled in when the car becomes active.
PulledIn(act) == IF act /\ ~active /\ timer # "none" THEN "active" ELSE timer

\* tasks replaces the streams' tasks: a task that was started or dropped loses
\* the locals of its predecessor and what was on its way to it.  The tasks in
\* delivered have just received a value.
SetTasks(tasks, delivered) ==
  LET kept(a) == tasks[a] = stream[a] IN
  /\ stream' = tasks
  /\ failures' = [a \in Streamed |->
                    IF kept(a) /\ a \notin delivered THEN failures[a] ELSE 0]
  /\ received' = [a \in Streamed |-> kept(a) /\ (received[a] \/ a \in delivered)]
  /\ inTransit' = [a \in Streamed |->
                     IF kept(a) /\ a \notin delivered THEN inTransit[a] ELSE 0]

\* Mutant: the activity is evaluated before the values are written.
UpdateActivityFirst(fresh) ==
  active' = IF fresh THEN CarIsActive ELSE active

\* _async_update_activity as it runs inside _apply_values, which skips it when
\* no value was fresh; recent' and data' are the ones it looks at.
UpdateActivity(fresh) ==
  active' = IF fresh THEN CarIsActive' ELSE active

-----------------------------------------------------------------------------
(* A subscription's own steps, besides delivering a value.                 *)

\* The server sends the current value on a subscription.
StreamSends(a) ==
  /\ stream[a] = "open"
  /\ inTransit[a] = 0
  /\ inTransit' = [inTransit EXCEPT ![a] = rev[a]]
  /\ UNCHANGED <<stream, failures, received, noStream, orphans>>

\* The task sleeps before it subscribes again, with n failures on record.
SleepThenRetry(a, n) ==
  /\ stream' = [stream EXCEPT ![a] = "waiting"]
  /\ failures' = [failures EXCEPT ![a] = n]
  /\ inTransit' = [inTransit EXCEPT ![a] = 0]
  /\ UNCHANGED <<received, noStream, orphans>>

\* The task returns and does not subscribe again by itself.
GiveUp(a) ==
  /\ stream' = [stream EXCEPT ![a] = "done"]
  /\ failures' = [failures EXCEPT ![a] = 0]
  /\ received' = [received EXCEPT ![a] = FALSE]
  /\ inTransit' = [inTransit EXCEPT ![a] = 0]
  /\ UNCHANGED orphans

\* One more consecutive failure: back off, or give up at the limit.
StreamRetry(a) ==
  \/ /\ failures[a] + 1 < MaxRetries
     /\ SleepThenRetry(a, failures[a] + 1)
  \/ /\ failures[a] + 1 >= MaxRetries
     /\ GiveUp(a)
     /\ UNCHANGED noStream

\* The server closed the subscription: normal after data, a failure without.
StreamCloses(a) ==
  /\ "closed" \in StreamTrouble
  /\ stream[a] = "open"
  /\ \/ received[a] /\ SleepThenRetry(a, failures[a])
     \/ ~received[a] /\ StreamRetry(a)

\* A GRPCError other than UNIMPLEMENTED, or any other exception.
StreamFails(a) ==
  /\ "failed" \in StreamTrouble
  /\ stream[a] = "open"
  /\ StreamRetry(a)

\* AuthError and TokenExpiredError: sleep without counting a failure.
StreamAuthFails(a) ==
  /\ "auth" \in StreamTrouble
  /\ stream[a] = "open"
  /\ SleepThenRetry(a, failures[a])

StreamUnimplemented(a) ==
  /\ "unimplemented" \in StreamTrouble
  /\ stream[a] = "open"
  /\ GiveUp(a)
  /\ noStream' = noStream \cup {a}

\* The sleep is over: subscribe again.
Resubscribe(a) ==
  /\ stream[a] = "waiting"
  /\ stream' = [stream EXCEPT ![a] = "open"]
  /\ received' = [received EXCEPT ![a] = FALSE]
  /\ UNCHANGED <<failures, inTransit, noStream, orphans>>
=============================================================================
