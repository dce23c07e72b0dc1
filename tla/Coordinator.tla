----------------------------- MODULE Coordinator -----------------------------
(***************************************************************************)
(* PolestarCoordinator: the poll, the refreshes after a command, the live  *)
(* streams and the shutdown, all writing one snapshot.  Everything runs on *)
(* one event loop, so a handler is atomic between two awaits: every fetch  *)
(* has a step that issues it, a step per answer and a step that completes  *)
(* it, and anything may happen in between.                                 *)
(*                                                                         *)
(* The base class DataUpdateCoordinator of Home Assistant is external: it  *)
(* serialises polls, arms the poll timer when a poll ends and notifies the *)
(* entities when the returned snapshot differs from the one it started     *)
(* with.                                                                   *)
(***************************************************************************)
EXTENDS Streams

CONSTANTS
  Poll,            \* the fetch of _async_update_data
  Refresher,       \* background refreshes, one per command under way
  CommandAttrs,    \* the attribute sets the commands refresh
  Delays,          \* Len(_POST_COMMAND_REFRESH_DELAYS)
  StreamedDelays,  \* Len(_STREAMED_POST_COMMAND_REFRESH_DELAYS)
  Outcomes,        \* environment: the kinds of answers the backend gives
  MayUnload,       \* environment: whether the entry is unloaded
  MaxGen           \* bound: generations claimed

ASSUME CoordinatorAssumption ==
  /\ Poll \notin Refresher
  /\ CommandAttrs \subseteq SUBSET Attr
  /\ Delays \in Nat \ {0}
  /\ StreamedDelays \in Nat \ {0}
  /\ Outcomes \subseteq Kinds
  /\ MayUnload \in BOOLEAN
  /\ MaxGen \in Nat

Fetcher == Refresher \cup {Poll}

VARIABLES
  phase,      \* "setup", "failed", "running", "unloading", "closing", "closed"
  healthy,    \* last_update_success
  reauth,     \* ConfigEntryAuthFailed was raised to the base class
  probeDue,   \* _UNSUPPORTED_REPROBE_INTERVAL has passed since the last probe
  shown,      \* the snapshot the entities last rendered
  pollStart,  \* the snapshot when the poll in flight started
  stage,      \* per fetcher: "idle", "command", "asleep", "inflight"
  attrs,      \* the attributes a command's refresh is about
  triesLeft,  \* delays of the schedule that are left
  before,     \* the values of attrs when the refresh was scheduled
  answers,    \* the calls of the fetch in flight and what they answered
  claimed,    \* its generation
  issued      \* history: the backend's revisions when it was claimed

pollVars == <<healthy, reauth, probeDue, shown, pollStart>>
taskVars == <<attrs, triesLeft, before>>
fetchVars == <<answers, claimed, issued>>
vars == <<snapshotVars, activityVars, streamVars, phase, pollVars, stage, taskVars, fetchVars>>

Pending == [kind |-> "pending", rev |-> 0]
NoCalls == [a \in {} |-> Pending]
NothingHeld == [a \in Attr |-> 0]

\* The calls of a fetch: for some attributes, an answer or none yet.
AreCalls(calls) ==
  /\ DOMAIN calls \subseteq Attr
  /\ calls \in [DOMAIN calls -> Answer \cup {Pending}]

TypeOK ==
  /\ SnapshotTypeOK
  /\ StreamsTypeOK
  /\ phase \in {"setup", "failed", "running", "unloading", "closing", "closed"}
  /\ healthy \in BOOLEAN
  /\ reauth \in BOOLEAN
  /\ probeDue \in BOOLEAN
  /\ shown \in [Attr -> Rev]
  /\ pollStart \in [Attr -> Rev]
  /\ stage \in [Fetcher -> {"idle", "command", "asleep", "inflight"}]
  /\ attrs \in [Refresher -> SUBSET Attr]
  /\ triesLeft \in [Refresher -> Nat]
  /\ before \in [Refresher -> [Attr -> Rev]]
  /\ answers = [c \in Fetcher |-> answers[c]]
  /\ \A c \in Fetcher : AreCalls(answers[c])
  /\ claimed \in [Fetcher -> Nat]
  /\ issued \in [Fetcher -> [Attr -> Rev]]

Init ==
  /\ SnapshotInit
  /\ StreamsInit
  /\ phase = "setup"
  /\ healthy = TRUE
  /\ reauth = FALSE
  /\ probeDue = TRUE
  /\ shown = NothingHeld
  /\ pollStart = NothingHeld
  /\ stage = [c \in Fetcher |-> "idle"]
  /\ attrs = [c \in Refresher |-> {}]
  /\ triesLeft = [c \in Refresher |-> 0]
  /\ before = [c \in Refresher |-> NothingHeld]
  /\ answers = [c \in Fetcher |-> NoCalls]
  /\ claimed = [c \in Fetcher |-> 0]
  /\ issued = [c \in Fetcher |-> NothingHeld]

-----------------------------------------------------------------------------
(* Fetches.                                                                *)

Claim(c, asked) ==
  /\ generation < MaxGen
  /\ generation' = generation + 1
  /\ claimed' = [claimed EXCEPT ![c] = generation + 1]
  /\ issued' = [issued EXCEPT ![c] = rev]
  /\ answers' = [answers EXCEPT ![c] = [a \in asked |-> Pending]]

\* What the backend may report: the endpoints whose answers are known to come
\* out of order may be behind.
Reported(a) == IF a \in Readings \cup Stamped THEN 1..rev[a] ELSE {rev[a]}

AnswerArrives(c, a) ==
  /\ stage[c] = "inflight"
  /\ a \in DOMAIN answers[c]
  /\ answers[c][a] = Pending
  /\ \E answer \in [kind : Outcomes \ {"ok"}, rev : {0}]
                     \cup [kind : Outcomes \cap {"ok"}, rev : Reported(a)] :
       answers' = [answers EXCEPT ![c][a] = answer]
  /\ UNCHANGED <<snapshotVars, activityVars, streamVars, phase, pollVars, stage,
                 taskVars, claimed, issued>>

AllAnswered(c) ==
  /\ stage[c] = "inflight"
  /\ \A a \in DOMAIN answers[c] : answers[c][a] # Pending

\* Whether the caller gets to apply the values of its fetch.
Applies(c) == Successful(answers[c]) # {} /\ ~AuthRejected(answers[c])

ForgetFetch(c) ==
  /\ answers' = [answers EXCEPT ![c] = NoCalls]
  /\ claimed' = [claimed EXCEPT ![c] = 0]
  /\ issued' = [issued EXCEPT ![c] = NothingHeld]

\* Mutant: the entities are notified before the snapshot is replaced.
ShownBeforeWrite(changed) == IF phase = "running" /\ changed THEN data ELSE shown

\* The snapshot the entities render after a write that changed something.
ShownAfter(changed) == IF phase = "running" /\ changed THEN data' ELSE shown

-----------------------------------------------------------------------------
(* The poll.                                                               *)

\* The timer the base class arms when a poll ends, as long as anyone listens.
Rearmed(act) == IF phase = "running" THEN Interval(act) ELSE "none"

\* The first poll, the timer or the refresh button.
StartPoll ==
  /\ \/ phase = "running"
     \/ phase = "setup" /\ generation = 0
  /\ stage[Poll] = "idle"
  /\ Claim(Poll, IF probeDue THEN Attr ELSE Attr \ unsupported)
  /\ stage' = [stage EXCEPT ![Poll] = "inflight"]
  /\ probeDue' = FALSE
  /\ timer' = "none"
  /\ pollStart' = data
  /\ UNCHANGED <<rev, data, applied, unsupported, invalid, seen, active, recent,
                 streamVars, phase, healthy, reauth, shown, taskVars>>

EndPoll ==
  /\ AllAnswered(Poll)
  /\ NoteAnswers(answers[Poll])
  /\ ForgetFetch(Poll)
  /\ stage' = [stage EXCEPT ![Poll] = "idle"]
  /\ pollStart' = NothingHeld
  /\ UNCHANGED <<rev, generation, recent, noStream, orphans, probeDue, taskVars>>

PollSucceeds ==
  /\ EndPoll
  /\ Applies(Poll)
  /\ LET values == FetchedValues(answers[Poll]) IN
       /\ ApplyValues(values, claimed[Poll], issued[Poll])
       /\ UpdateActivity(Fresh(values, claimed[Poll]) # {})
  /\ SetTasks(Restarted(AfterUpdate(stream, active'), active'), {})
  /\ healthy' = TRUE
  /\ timer' = Rearmed(active')
  /\ shown' = ShownAfter(~healthy \/ SnapshotsDiffer(pollStart, data'))
  /\ reauth' = FALSE
  /\ UNCHANGED phase

\* UpdateFailed and ConfigEntryAuthFailed: entities turn unavailable, and the
\* timer is armed again unless the user has to sign in.
PollFails ==
  /\ EndPoll
  /\ ~Applies(Poll)
  /\ KeepValues
  /\ UNCHANGED <<active, stream, failures, received, inTransit>>
  /\ healthy' = FALSE
  /\ reauth' = AuthRejected(answers[Poll])
  /\ timer' = IF reauth' THEN "none" ELSE Rearmed(active)
  /\ shown' = ShownAfter(healthy)
  /\ phase' = IF phase = "setup" THEN "failed" ELSE phase

ReprobeDue ==
  /\ ~probeDue
  /\ probeDue' = TRUE
  /\ UNCHANGED <<snapshotVars, activityVars, streamVars, phase, healthy, reauth, shown,
                 pollStart, stage, taskVars, fetchVars>>

-----------------------------------------------------------------------------
(* Commands and the refreshes after them.                                  *)

Held(attrSet) == [a \in Attr |-> IF a \in attrSet THEN data[a] ELSE 0]

\* async_note_command: the command window opens and the activity follows.
NoteCommand ==
  /\ recent' = TRUE
  /\ UpdateActivity(TRUE)
  /\ timer' = PulledIn(active')
  /\ SetTasks(AfterUpdate(stream, active'), {})
  /\ UNCHANGED <<snapshotVars, noStream, orphans, phase, pollVars, fetchVars>>

\* The climate, timer, charge-location and OTA commands go to the vehicle
\* without async_run_command and are noted only once they were accepted.
NoteLater == UNCHANGED <<snapshotVars, activityVars, streamVars, phase, pollVars, fetchVars>>

IssueCommand(c, attrSet) ==
  /\ phase = "running"
  /\ stage[c] = "idle"
  /\ NoteCommand \/ NoteLater
  /\ stage' = [stage EXCEPT ![c] = "command"]
  /\ attrs' = [attrs EXCEPT ![c] = attrSet]
  /\ UNCHANGED <<triesLeft, before>>

ForgetCommand(c) ==
  /\ stage' = [stage EXCEPT ![c] = "idle"]
  /\ attrs' = [attrs EXCEPT ![c] = {}]
  /\ triesLeft' = [triesLeft EXCEPT ![c] = 0]
  /\ before' = [before EXCEPT ![c] = NothingHeld]

\* The command timed out, was refused or failed: nothing is scheduled.
CommandFails(c) ==
  /\ stage[c] = "command"
  /\ ForgetCommand(c)
  /\ UNCHANGED <<snapshotVars, activityVars, streamVars, phase, pollVars, fetchVars>>

\* Every attribute of a refresh has a running stream.
Covered(attrSet, tasks) == \A a \in attrSet : a \in Streamed /\ tasks[a] \in Running

\* _schedule_background_refresh, and the refresh task up to its first sleep.
CommandAccepted(c) ==
  /\ stage[c] = "command"
  /\ NoteCommand
  /\ stage' = [stage EXCEPT ![c] = "asleep"]
  /\ before' = [before EXCEPT ![c] = Held(attrs[c])]
  /\ triesLeft' = [triesLeft EXCEPT
       ![c] = IF Covered(attrs[c], stream') THEN StreamedDelays ELSE Delays]
  /\ UNCHANGED attrs

Confirmed(c, d) == \E a \in attrs[c] : Differ(a, d[a], before[c][a])

\* Awake after a delay with a change already reported.
RefreshNotNeeded(c) ==
  /\ stage[c] = "asleep"
  /\ Confirmed(c, data)
  /\ ForgetCommand(c)
  /\ UNCHANGED <<snapshotVars, activityVars, streamVars, phase, pollVars, fetchVars>>

StartRefresh(c) ==
  /\ stage[c] = "asleep"
  /\ ~Confirmed(c, data)
  /\ Claim(c, attrs[c] \ unsupported)
  /\ stage' = [stage EXCEPT ![c] = "inflight"]
  /\ triesLeft' = [triesLeft EXCEPT ![c] = @ - 1]
  /\ UNCHANGED <<rev, data, applied, unsupported, invalid, seen, activityVars,
                 streamVars, phase, pollVars, attrs, before>>

\* Mutant: the schedule goes on past its last delay.
ScheduleEndless(c) == FALSE

ScheduleOver(c) == triesLeft[c] = 0

\* The refresh applies what it fetched if any call succeeded; an exception is
\* swallowed.  Then the schedule ends or goes on to its next delay.
EndRefresh(c) ==
  LET values == IF Applies(c) THEN FetchedValues(answers[c]) ELSE NoCalls IN
  /\ AllAnswered(c)
  /\ NoteAnswers(answers[c])
  /\ ApplyValues(values, claimed[c], issued[c])
  /\ UNCHANGED recent
  /\ UpdateActivity(Fresh(values, claimed[c]) # {})
  /\ timer' = PulledIn(active')
  /\ SetTasks(AfterUpdate(stream, active'), {})
  /\ shown' = ShownAfter(SnapshotsDiffer(data, data'))
  /\ ForgetFetch(c)
  /\ IF Confirmed(c, data') \/ ScheduleOver(c)
     THEN ForgetCommand(c)
     ELSE stage' = [stage EXCEPT ![c] = "asleep"] /\ UNCHANGED taskVars
  /\ UNCHANGED <<rev, generation, noStream, orphans, phase, healthy, reauth,
                 probeDue, pollStart>>

\* COMMAND_ACTIVE_WINDOW is over; nothing re-evaluates the activity by itself.
CommandWindowEnds ==
  /\ recent
  /\ recent' = FALSE
  /\ UNCHANGED <<snapshotVars, active, timer, streamVars, phase, pollVars, stage,
                 taskVars, fetchVars>>

-----------------------------------------------------------------------------
(* Streams.                                                                *)

\* A subscription delivers: the value claims its generation on arrival.
StreamDelivers(a) ==
  LET values == [b \in {a} |-> MergePartialUpdate(b, data[b], inTransit[b])] IN
  /\ stream[a] = "open"
  /\ inTransit[a] # 0
  /\ generation < MaxGen
  /\ generation' = generation + 1
  /\ ApplyValues(values, generation + 1, rev)
  /\ UNCHANGED recent
  /\ UpdateActivity(TRUE)
  /\ timer' = PulledIn(active')
  /\ SetTasks(AfterUpdate(stream, active'), {a})
  /\ shown' = ShownAfter(SnapshotsDiffer(data, data'))
  /\ UNCHANGED <<rev, unsupported, invalid, noStream, orphans, phase,
                 healthy, reauth, probeDue, pollStart, stage, taskVars, fetchVars>>

StreamStep(a) ==
  /\ \/ StreamSends(a)
     \/ StreamCloses(a)
     \/ StreamFails(a)
     \/ StreamAuthFails(a)
     \/ StreamUnimplemented(a)
     \/ Resubscribe(a)
  /\ UNCHANGED <<snapshotVars, activityVars, phase, pollVars, stage, taskVars, fetchVars>>

-----------------------------------------------------------------------------
(* Setup and unload of the entry.                                          *)

restVars == <<snapshotVars, active, recent, pollVars, stage, taskVars, fetchVars>>

\* The first poll succeeded: streams and entities start, and the first entity
\* that listens arms the timer.
SetUpEntry ==
  /\ phase = "setup"
  /\ generation > 0
  /\ stage[Poll] = "idle"
  /\ phase' = "running"
  /\ timer' = Interval(active)
  /\ shown' = data
  /\ SetTasks(Restarted(stream, active), {})
  /\ UNCHANGED <<snapshotVars, active, recent, noStream, orphans, healthy, reauth, probeDue,
                 pollStart, stage, taskVars, fetchVars>>

\* async_unload_platforms: the entities are gone, and with the last listener
\* the timer.
UnloadPlatforms ==
  /\ MayUnload
  /\ phase = "running"
  /\ phase' = "unloading"
  /\ timer' = "none"
  /\ UNCHANGED <<restVars, streamVars>>

\* async_shutdown up to its await: every task of _stream_tasks is cancelled.
BeginShutdown ==
  LET tasks == [a \in Streamed |->
                  IF stream[a] \in Running THEN "cancelling" ELSE stream[a]] IN
  /\ phase = "unloading"
  /\ IF \A a \in Streamed : stream[a] = "none"
     THEN phase' = "closed" /\ noStream' = {}
     ELSE phase' = "closing" /\ UNCHANGED noStream
  /\ SetTasks(tasks, {})
  /\ UNCHANGED <<restVars, timer, orphans>>

CancelledTaskEnds(a) ==
  /\ stream[a] = "cancelling"
  /\ stream' = [stream EXCEPT ![a] = "done"]
  /\ UNCHANGED <<restVars, timer, phase, failures, received, inTransit, noStream, orphans>>

\* async_shutdown after its await: the table is emptied, whatever it holds.
\* "closed" lasts until api.close() returned and the entry is gone.
EndShutdown ==
  /\ phase = "closing"
  /\ \A a \in Streamed : stream[a] # "cancelling"
  /\ phase' = "closed"
  /\ orphans' = {a \in Streamed : stream[a] \in Running}
  /\ SetTasks([a \in Streamed |-> "none"], {})
  /\ noStream' = {}
  /\ UNCHANGED <<restVars, timer>>

-----------------------------------------------------------------------------
CarReports(a) ==
  /\ BackendChanges(a)
  /\ UNCHANGED <<data, generation, applied, unsupported, invalid, seen,
                 activityVars, streamVars, phase, pollVars, stage, taskVars, fetchVars>>

PollStep == StartPoll \/ PollSucceeds \/ PollFails \/ ReprobeDue

RefreshStep(c) ==
  \/ \E attrSet \in CommandAttrs : IssueCommand(c, attrSet)
  \/ CommandFails(c)
  \/ CommandAccepted(c)
  \/ RefreshNotNeeded(c)
  \/ StartRefresh(c)
  \/ EndRefresh(c)

EntryStep ==
  \/ SetUpEntry
  \/ UnloadPlatforms
  \/ BeginShutdown
  \/ \E a \in Streamed : CancelledTaskEnds(a)
  \/ EndShutdown

Next ==
  \/ \E a \in Attr : CarReports(a)
  \/ \E c \in Fetcher : \E a \in DOMAIN answers[c] : AnswerArrives(c, a)
  \/ PollStep
  \/ \E c \in Refresher : RefreshStep(c)
  \/ CommandWindowEnds
  \/ \E a \in Streamed : StreamDelivers(a) \/ StreamStep(a)
  \/ EntryStep

Spec == Init /\ [][Next]_vars

-----------------------------------------------------------------------------
(* Properties.                                                             *)

\* Attributes that only fetches write, and whose merge keeps no old value.
PolledOnly == Attr \ (Streamed \cup Readings \cup Stamped)

\* The value held is never older than what the backend had when any fetch that
\* has written the attribute was issued: a slow poll cannot resurrect the state
\* from before a command on top of a faster refresh (_apply_values).
NeverOlderThanAsked == \A a \in PolledOnly : data[a] # 0 => data[a] >= seen[a]

\* The odometer shown never goes down and the climate snapshot never goes back
\* in time, whatever order fetches and streams deliver in, except by way of the
\* default or of a snapshot without a timestamp (_merge_partial_update).
MergedNeverRewinds ==
  [][\A a \in Attr : data[a] # 0 /\ data'[a] # 0 =>
       /\ a \in Readings => Content[a][data'[a]] >= Content[a][data[a]]
       /\ a \in Stamped /\ {data[a], data'[a]} \subseteq Dated => data'[a] >= data[a]]_vars

\* While the entry is set up, a poll is in flight or one is on the timer, unless
\* the last poll found that the user has to sign in again.
PollingContinues ==
  phase = "running" /\ stage[Poll] = "idle" /\ ~reauth => timer # "none"

\* The activity never lags behind the snapshot: no write makes the car look
\* busy without switching to active, whichever path it came by, and a car that
\* became active is not left waiting out the idle interval
\* (_async_update_activity).
BusyCarIsWatched ==
  /\ CarIsActive => active
  /\ phase = "running" /\ active => timer # "idle"

\* The streams that are only worth their price while the car is active run at
\* no other time (_async_update_activity, async_restart_finished_streams).
ActiveOnlyStreamsStop ==
  \A a \in ActiveOnly : stream[a] \in {"open", "waiting"} => active

\* The entities have rendered the snapshot that is held: no write that changed
\* something goes by without a notification (async_apply_values and the base
\* class's comparison at the end of a poll).
EntitiesShowSnapshot == phase = "running" => ~SnapshotsDiffer(shown, data)

-----------------------------------------------------------------------------
(* A refresh that sleeps has a delay of its schedule left: without it the    *)
(* schedule could run past its end.                                          *)

TriesWhileAsleep == \A c \in Refresher : stage[c] = "asleep" => triesLeft[c] > 0

-----------------------------------------------------------------------------
(* The inductive invariant behind NeverOlderThanAsked: generations are       *)
(* claimed in the order of the backend's revisions they were issued at.      *)

\* Generations in flight have been claimed, at a state the backend has reached.
ClaimsAreBounded ==
  \A c \in Fetcher : /\ claimed[c] <= generation
                     /\ \A a \in Attr : issued[c][a] <= rev[a]

\* A later generation was issued at a later state of the backend.
ClaimsAreOrdered ==
  \A c, d \in Fetcher : claimed[c] > claimed[d] =>
    \A a \in Attr : issued[c][a] >= issued[d][a]

\* What came back is no older than what was there when it was asked for.
AnswersAreCurrent ==
  \A c \in Fetcher : \A a \in PolledOnly \cap DOMAIN answers[c] :
    answers[c][a].kind = "ok" => answers[c][a].rev >= issued[c][a]

\* A generation that may still write was issued after those that have written.
WritersAreOrdered ==
  \A c \in Fetcher : \A a \in PolledOnly :
    claimed[c] > applied[a] => issued[c][a] >= seen[a]

WritesAreBounded == \A a \in PolledOnly : seen[a] <= rev[a]

\* Values are written in the order in which they were asked for, although they
\* come back in any order (next_fetch_generation, _apply_values).
GenerationInv ==
  /\ ClaimsAreBounded
  /\ ClaimsAreOrdered
  /\ AnswersAreCurrent
  /\ WritersAreOrdered
  /\ WritesAreBounded
  /\ NeverOlderThanAsked

-----------------------------------------------------------------------------
(* Why EntitiesShowSnapshot holds as long as no refresh ends in mid-poll.    *)

\* A value the poll in flight may still replace looks like it did when the poll
\* started, so that the comparison at the end of the poll sees the difference.
PollSeesChanges ==
  stage[Poll] = "inflight" =>
    \A a \in Attr : applied[a] > claimed[Poll] \/ ~Differ(a, data[a], pollStart[a])

\* No refresh ends while a poll is in flight.
NoRefreshInMidPoll == \A c \in Refresher : EndRefresh(c) => stage[Poll] # "inflight"

PollsAreUndisturbed == [][NoRefreshInMidPoll]_vars

-----------------------------------------------------------------------------
(* What the documentation says and the code does not do.                   *)

\* After the shutdown no stream task is running.
StreamsAreCancelled ==
  phase = "closed" => /\ orphans = {}
                      /\ \A a \in Streamed : stream[a] \notin Running

\* Why it holds as long as nothing ends while the shutdown goes on: no poll or refresh
\* completes and no command is accepted.
NothingEndsInShutdown ==
  phase \in {"closing", "closed"} =>
    /\ ~PollSucceeds
    /\ \A c \in Refresher : ~EndRefresh(c) /\ ~CommandAccepted(c)

ShutdownsAreUndisturbed == [][NothingEndsInShutdown]_vars

=============================================================================
