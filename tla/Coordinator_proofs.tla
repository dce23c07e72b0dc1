------------------------- MODULE Coordinator_proofs -------------------------
(***************************************************************************)
(* Proofs about Coordinator, for every set of attributes, refreshes and    *)
(* environment: its types, and that values are written in the order they   *)
(* were asked for.                                                         *)
(***************************************************************************)
EXTENDS Coordinator, TLAPS

TaskStates == Running \cup {"none", "done"}

-----------------------------------------------------------------------------
(* What the operators return.                                              *)

LEMMA RestartedType ==
  ASSUME NEW tasks \in [Streamed -> TaskStates], NEW act
  PROVE  Restarted(tasks, act) \in [Streamed -> TaskStates]
BY DEF Restarted, TaskStates, Running

LEMMA AfterUpdateType ==
  ASSUME NEW tasks \in [Streamed -> TaskStates], NEW act
  PROVE  AfterUpdate(tasks, act) \in [Streamed -> TaskStates]
BY RestartedType DEF AfterUpdate, AfterSwitch, TaskStates

LEMMA SetTasksType ==
  ASSUME StreamsTypeOK, StreamsAssumption,
         NEW tasks \in [Streamed -> TaskStates], NEW delivered,
         SetTasks(tasks, delivered)
  PROVE  /\ stream' \in [Streamed -> TaskStates]
         /\ failures' \in [Streamed -> 0..MaxRetries]
         /\ received' \in [Streamed -> BOOLEAN]
         /\ inTransit' \in [Streamed -> Rev]
<1>1. stream' \in [Streamed -> TaskStates]
  BY DEF SetTasks
<1>2. failures' \in [Streamed -> 0..MaxRetries]
  BY DEF SetTasks, StreamsTypeOK, StreamsAssumption
<1>3. received' \in [Streamed -> BOOLEAN]
  BY DEF SetTasks, StreamsTypeOK
<1>4. inTransit' \in [Streamed -> Rev]
  BY SnapshotAssumption DEF SetTasks, StreamsTypeOK, Rev, SnapshotAssumption
<1> QED BY <1>1, <1>2, <1>3, <1>4

LEMMA MergeType ==
  ASSUME NEW a, NEW prev \in Rev, NEW r \in Rev
  PROVE  MergePartialUpdate(a, prev, r) \in Rev
BY DEF MergePartialUpdate

\* What a fetch hands back is a revision per attribute it asked for.
LEMMA FetchedValuesType ==
  ASSUME TypeOK, NEW c \in Fetcher, AllAnswered(c), SnapshotAssumption
  PROVE  /\ DOMAIN FetchedValues(answers[c]) \subseteq DOMAIN answers[c]
         /\ \A a \in DOMAIN FetchedValues(answers[c]) :
              FetchedValues(answers[c])[a] \in Rev
<1> DEFINE ans == answers[c]
<1>1. /\ DOMAIN ans \subseteq Attr
      /\ \A a \in DOMAIN ans : ans[a] \in Answer
  BY DEF TypeOK, AllAnswered, AreCalls
<1>2. Handled(ans) \subseteq DOMAIN ans
  BY DEF Handled
<1>3. data \in [Attr -> Rev]
  BY DEF TypeOK, SnapshotTypeOK
<1>4. 0 \in Rev
  BY DEF Rev, SnapshotAssumption
<1>5. ASSUME NEW a \in DOMAIN ans
      PROVE  MergePartialUpdate(a, data[a], ans[a].rev) \in Rev
  BY <1>1, <1>3, <1>5, MergeType DEF Answer
<1> QED
  BY <1>1, <1>2, <1>4, <1>5 DEF FetchedValues, Refused

LEMMA CountedType ==
  ASSUME SnapshotAssumption, NEW n \in 0..InvalidLimit
  PROVE  Counted(n) \in 0..InvalidLimit
BY DEF Counted, SnapshotAssumption

LEMMA NoteAnswersType ==
  ASSUME TypeOK, SnapshotAssumption, NEW c \in Fetcher, NoteAnswers(answers[c])
  PROVE  /\ unsupported' \subseteq Attr
         /\ invalid' \in [Attr -> 0..InvalidLimit]
<1> DEFINE ans == answers[c]
<1>1. Refused(ans) \subseteq Attr
  BY DEF Refused, Handled, TypeOK, AreCalls
<1>2. unsupported' \subseteq Attr
  BY <1>1 DEF NoteAnswers, TypeOK, SnapshotTypeOK
<1>3. ASSUME NEW a \in Attr
      PROVE  /\ Counted(invalid[a]) \in 0..InvalidLimit
             /\ invalid[a] \in 0..InvalidLimit
             /\ 0 \in 0..InvalidLimit
  BY CountedType DEF TypeOK, SnapshotTypeOK, SnapshotAssumption
<1>4. invalid' \in [Attr -> 0..InvalidLimit]
  BY <1>3, Zenon DEF NoteAnswers
<1> QED BY <1>2, <1>4

LEMMA ApplyValuesType ==
  ASSUME TypeOK, NEW values, NEW gen \in Nat, NEW base \in [Attr -> Rev],
         \A a \in DOMAIN values : values[a] \in Rev,
         ApplyValues(values, gen, base)
  PROVE  /\ applied' \in [Attr -> Nat]
         /\ data' \in [Attr -> Rev]
         /\ seen' \in [Attr -> Rev]
<1>1. Fresh(values, gen) \subseteq DOMAIN values
  BY DEF Fresh
<1> QED
  BY <1>1 DEF ApplyValues, Written, Larger, TypeOK, SnapshotTypeOK

-----------------------------------------------------------------------------
(* Type correctness, one lemma per group of actions.                       *)

LEMMA NoCallsAreCalls == AreCalls(NoCalls)
BY DEF NoCalls, AreCalls

LEMMA ZeroIsRev == 0 \in Rev
BY SnapshotAssumption DEF SnapshotAssumption, Rev

LEMMA InitType == Init => TypeOK
<1> SUFFICES ASSUME Init PROVE TypeOK
  OBVIOUS
<1>1. SnapshotTypeOK
  BY SnapshotAssumption DEF Init, SnapshotInit, SnapshotTypeOK, SnapshotAssumption, Rev
<1>2. StreamsTypeOK
  <2>1. MaxRetries \in Nat
    BY StreamsAssumption DEF StreamsAssumption
  <2>2. failures \in [Streamed -> 0..MaxRetries]
    BY <2>1 DEF Init, StreamsInit
  <2> QED
    BY <2>2, ZeroIsRev DEF Init, StreamsInit, StreamsTypeOK
<1>3. NothingHeld \in [Attr -> Rev]
  BY ZeroIsRev DEF NothingHeld
<1>4. answers = [c \in Fetcher |-> NoCalls]
  BY DEF Init
<1>5. /\ answers = [c \in Fetcher |-> answers[c]]
      /\ \A c \in Fetcher : AreCalls(answers[c])
  BY <1>4, NoCallsAreCalls
<1> QED
  BY <1>1, <1>2, <1>3, <1>5 DEF Init, TypeOK

LEMMA ClaimType ==
  ASSUME TypeOK, NEW c \in Fetcher, NEW calls \in SUBSET Attr, Claim(c, calls)
  PROVE  /\ generation' \in Nat
         /\ claimed' \in [Fetcher -> Nat]
         /\ issued' \in [Fetcher -> [Attr -> Rev]]
         /\ answers' = [d \in Fetcher |-> answers'[d]]
         /\ \A d \in Fetcher : AreCalls(answers'[d])
<1> DEFINE asked == [a \in calls |-> Pending]
<1>1. AreCalls(asked)
  BY DEF AreCalls
<1>2. answers' = [answers EXCEPT ![c] = asked]
  BY DEF Claim
<1>3. \A d \in Fetcher : AreCalls(answers'[d])
  BY <1>1, <1>2 DEF TypeOK
<1>4. answers' = [d \in Fetcher |-> answers'[d]]
  BY <1>2 DEF TypeOK
<1>5. /\ generation' \in Nat
      /\ claimed' \in [Fetcher -> Nat]
      /\ issued' \in [Fetcher -> [Attr -> Rev]]
  BY DEF Claim, TypeOK, SnapshotTypeOK
<1> QED BY <1>3, <1>4, <1>5

LEMMA ForgetFetchType ==
  ASSUME TypeOK, NEW c \in Fetcher, ForgetFetch(c)
  PROVE  /\ claimed' \in [Fetcher -> Nat]
         /\ issued' \in [Fetcher -> [Attr -> Rev]]
         /\ answers' = [d \in Fetcher |-> answers'[d]]
         /\ \A d \in Fetcher : AreCalls(answers'[d])
<1>1. NothingHeld \in [Attr -> Rev]
  BY ZeroIsRev DEF NothingHeld
<1>2. answers' = [answers EXCEPT ![c] = NoCalls]
  BY DEF ForgetFetch
<1>3. /\ answers' = [d \in Fetcher |-> answers'[d]]
      /\ \A d \in Fetcher : AreCalls(answers'[d])
  BY <1>2, NoCallsAreCalls DEF TypeOK
<1> QED
  BY <1>1, <1>3 DEF ForgetFetch, TypeOK

LEMMA ForgetCommandType ==
  ASSUME TypeOK, NEW c \in Refresher, ForgetCommand(c)
  PROVE  /\ stage' \in [Fetcher -> {"idle", "command", "asleep", "inflight"}]
         /\ attrs' \in [Refresher -> SUBSET Attr]
         /\ triesLeft' \in [Refresher -> Nat]
         /\ before' \in [Refresher -> [Attr -> Rev]]
<1>1. NothingHeld \in [Attr -> Rev]
  BY ZeroIsRev DEF NothingHeld
<1> QED
  BY <1>1 DEF ForgetCommand, TypeOK

LEMMA AnswerArrivesType ==
  ASSUME TypeOK, NEW c \in Fetcher, NEW a \in DOMAIN answers[c], AnswerArrives(c, a)
  PROVE  TypeOK'
<1>1. PICK answer \in [kind : Outcomes \ {"ok"}, rev : {0}]
                        \cup [kind : Outcomes \cap {"ok"}, rev : Reported(a)] :
        answers' = [answers EXCEPT ![c][a] = answer]
  BY DEF AnswerArrives
<1>2. Reported(a) \subseteq Rev /\ 0 \in Rev
  <2>1. rev[a] \in Rev
    BY DEF TypeOK, SnapshotTypeOK, AreCalls
  <2> QED
    BY <2>1, ZeroIsRev, SnapshotAssumption DEF Reported, Rev, SnapshotAssumption
<1>3. answer \in Answer
  BY <1>1, <1>2, CoordinatorAssumption DEF CoordinatorAssumption, Answer
<1>4. answers' = [d \in Fetcher |-> answers'[d]]
  BY <1>1 DEF TypeOK
<1>5. \A d \in Fetcher : AreCalls(answers'[d])
  <2>1. TAKE d \in Fetcher
  <2>2. CASE d # c
    BY <1>1, <2>2 DEF TypeOK
  <2>3. CASE d = c
    <3>1. answers'[c] = [answers[c] EXCEPT ![a] = answer]
      BY <1>1 DEF TypeOK
    <3> QED
      BY <1>3, <2>3, <3>1 DEF TypeOK, AreCalls
  <2> QED BY <2>2, <2>3
<1>6. /\ UNCHANGED <<snapshotVars, activityVars, streamVars, phase, pollVars, stage>>
      /\ UNCHANGED <<taskVars, claimed, issued>>
  BY DEF AnswerArrives
<1>7. SnapshotTypeOK' /\ StreamsTypeOK'
  BY <1>6 DEF TypeOK, SnapshotTypeOK, StreamsTypeOK, snapshotVars, activityVars, streamVars
<1> QED
  BY <1>4, <1>5, <1>6, <1>7 DEF TypeOK, pollVars, taskVars

LEMMA StartPollType == TypeOK /\ StartPoll => TypeOK'
<1> SUFFICES ASSUME TypeOK, StartPoll PROVE TypeOK'
  OBVIOUS
<1>1. /\ Poll \in Fetcher
      /\ (IF probeDue THEN Attr ELSE Attr \ unsupported) \in SUBSET Attr
  BY DEF Fetcher
<1>2. Claim(Poll, IF probeDue THEN Attr ELSE Attr \ unsupported)
  BY DEF StartPoll
<1>3. /\ generation' \in Nat
      /\ claimed' \in [Fetcher -> Nat]
      /\ issued' \in [Fetcher -> [Attr -> Rev]]
      /\ answers' = [d \in Fetcher |-> answers'[d]]
      /\ \A d \in Fetcher : AreCalls(answers'[d])
  BY <1>1, <1>2, ClaimType
<1>4. SnapshotTypeOK'
  BY <1>3 DEF StartPoll, TypeOK, SnapshotTypeOK
<1>5. StreamsTypeOK'
  BY DEF StartPoll, TypeOK, StreamsTypeOK, streamVars
<1> QED
  BY <1>3, <1>4, <1>5 DEF StartPoll, TypeOK, SnapshotTypeOK, taskVars

\* _async_update_activity and the timer it may pull in.
LEMMA ActivityType ==
  ASSUME TypeOK, NEW fresh, recent' \in BOOLEAN, UpdateActivity(fresh)
  PROVE  active' \in BOOLEAN /\ PulledIn(active') \in {"none", "idle", "active"}
<1>1. CarIsActive' \in BOOLEAN
  BY DEF CarIsActive
<1>2. active' \in BOOLEAN
  BY <1>1 DEF UpdateActivity, TypeOK, StreamsTypeOK
<1>3. PulledIn(active') \in {"none", "idle", "active"}
  BY DEF PulledIn, TypeOK, StreamsTypeOK
<1> QED BY <1>2, <1>3

LEMMA StreamIsTyped == TypeOK => stream \in [Streamed -> TaskStates]
BY DEF TypeOK, StreamsTypeOK, TaskStates

LEMMA ShownType ==
  ASSUME TypeOK, NEW changed, data' \in [Attr -> Rev]
  PROVE  ShownAfter(changed) \in [Attr -> Rev]
BY DEF ShownAfter, TypeOK

LEMMA HeldType ==
  ASSUME TypeOK, NEW attrSet
  PROVE  Held(attrSet) \in [Attr -> Rev]
BY ZeroIsRev DEF Held, TypeOK, SnapshotTypeOK

\* What both ends of a poll have in common.
LEMMA EndPollType ==
  ASSUME TypeOK, EndPoll
  PROVE  /\ unsupported' \subseteq Attr
         /\ invalid' \in [Attr -> 0..InvalidLimit]
         /\ claimed' \in [Fetcher -> Nat]
         /\ issued' \in [Fetcher -> [Attr -> Rev]]
         /\ answers' = [d \in Fetcher |-> answers'[d]]
         /\ \A d \in Fetcher : AreCalls(answers'[d])
         /\ stage' \in [Fetcher -> {"idle", "command", "asleep", "inflight"}]
         /\ pollStart' \in [Attr -> Rev]
         /\ UNCHANGED <<rev, generation, recent, noStream, orphans, probeDue, attrs,
                        triesLeft, before>>
<1>1. Poll \in Fetcher
  BY DEF Fetcher
<1>2. NoteAnswers(answers[Poll]) /\ ForgetFetch(Poll)
  BY DEF EndPoll
<1>3. stage' \in [Fetcher -> {"idle", "command", "asleep", "inflight"}]
  BY DEF EndPoll, TypeOK
<1>4. pollStart' \in [Attr -> Rev]
  BY ZeroIsRev DEF EndPoll, NothingHeld
<1>5. UNCHANGED <<rev, generation, recent, noStream, orphans, probeDue, attrs,
                  triesLeft, before>>
  BY DEF EndPoll, taskVars
<1> QED
  BY <1>1, <1>2, <1>3, <1>4, <1>5, NoteAnswersType, ForgetFetchType, SnapshotAssumption

LEMMA PollSucceedsType == TypeOK /\ PollSucceeds => TypeOK'
<1> SUFFICES ASSUME TypeOK, PollSucceeds PROVE TypeOK'
  OBVIOUS
<1> DEFINE values == FetchedValues(answers[Poll])
           tasks == Restarted(AfterUpdate(stream, active'), active')
<1>1. EndPoll
  BY DEF PollSucceeds
<1>2. AllAnswered(Poll) /\ Poll \in Fetcher
  BY <1>1 DEF EndPoll, Fetcher
<1>3. \A a \in DOMAIN values : values[a] \in Rev
  BY <1>2, FetchedValuesType, SnapshotAssumption
<1>4. /\ applied' \in [Attr -> Nat]
      /\ data' \in [Attr -> Rev]
      /\ seen' \in [Attr -> Rev]
  <2>1. ApplyValues(values, claimed[Poll], issued[Poll])
    BY DEF PollSucceeds
  <2>2. claimed[Poll] \in Nat /\ issued[Poll] \in [Attr -> Rev]
    BY <1>2 DEF TypeOK
  <2> QED
    BY <1>3, <2>1, <2>2, ApplyValuesType
<1>5. active' \in BOOLEAN
  <2>1. UpdateActivity(Fresh(values, claimed[Poll]) # {})
    BY DEF PollSucceeds
  <2>2. recent' \in BOOLEAN
    BY <1>1, EndPollType DEF TypeOK, StreamsTypeOK
  <2> QED
    BY <2>1, <2>2, ActivityType
<1>6. timer' \in {"none", "idle", "active"}
  BY <1>5 DEF PollSucceeds, Rearmed, Interval
<1>7. /\ stream' \in [Streamed -> TaskStates]
      /\ failures' \in [Streamed -> 0..MaxRetries]
      /\ received' \in [Streamed -> BOOLEAN]
      /\ inTransit' \in [Streamed -> Rev]
  <2>1. tasks \in [Streamed -> TaskStates]
    BY StreamIsTyped, AfterUpdateType, RestartedType
  <2>2. SetTasks(tasks, {}) /\ StreamsTypeOK
    BY DEF PollSucceeds, TypeOK
  <2> QED
    BY <2>1, <2>2, SetTasksType, StreamsAssumption
<1>8. shown' \in [Attr -> Rev]
  BY <1>4, ShownType DEF PollSucceeds
<1>9. SnapshotTypeOK' /\ StreamsTypeOK'
  BY <1>1, <1>4, <1>5, <1>6, <1>7, EndPollType
     DEF TypeOK, SnapshotTypeOK, StreamsTypeOK, TaskStates
<1> QED
  BY <1>1, <1>8, <1>9, EndPollType DEF PollSucceeds, TypeOK

LEMMA PollFailsType == TypeOK /\ PollFails => TypeOK'
<1> SUFFICES ASSUME TypeOK, PollFails PROVE TypeOK'
  OBVIOUS
<1>1. EndPoll
  BY DEF PollFails
<1>2. UNCHANGED <<applied, data, seen, active, stream, failures, received, inTransit>>
  BY DEF PollFails, KeepValues
<1>3. timer' \in {"none", "idle", "active"}
  BY DEF PollFails, Rearmed, Interval
<1>4. shown' \in [Attr -> Rev]
  BY <1>2, ShownType DEF PollFails, TypeOK, SnapshotTypeOK
<1>5. reauth' \in BOOLEAN
  BY DEF PollFails, AuthRejected
<1>6. SnapshotTypeOK' /\ StreamsTypeOK'
  BY <1>1, <1>2, <1>3, EndPollType DEF TypeOK, SnapshotTypeOK, StreamsTypeOK
<1> QED
  BY <1>1, <1>4, <1>5, <1>6, EndPollType DEF PollFails, TypeOK

LEMMA ReprobeDueType == TypeOK /\ ReprobeDue => TypeOK'
BY DEF ReprobeDue, TypeOK, SnapshotTypeOK, StreamsTypeOK, snapshotVars, activityVars,
       streamVars, taskVars, fetchVars

LEMMA NoteCommandType ==
  ASSUME TypeOK, NoteCommand
  PROVE  /\ SnapshotTypeOK'
         /\ StreamsTypeOK'
         /\ UNCHANGED <<phase, healthy, reauth, probeDue, shown, pollStart>>
         /\ UNCHANGED <<answers, claimed, issued>>
<1>1. UNCHANGED <<snapshotVars, noStream, orphans, phase, pollVars, fetchVars>>
  BY DEF NoteCommand
<1>2. active' \in BOOLEAN /\ timer' \in {"none", "idle", "active"}
  BY ActivityType DEF NoteCommand
<1>3. /\ stream' \in [Streamed -> TaskStates]
      /\ failures' \in [Streamed -> 0..MaxRetries]
      /\ received' \in [Streamed -> BOOLEAN]
      /\ inTransit' \in [Streamed -> Rev]
  <2>1. AfterUpdate(stream, active') \in [Streamed -> TaskStates]
    BY StreamIsTyped, AfterUpdateType
  <2> QED
    BY <2>1, SetTasksType, StreamsAssumption DEF NoteCommand, TypeOK
<1>4. SnapshotTypeOK'
  BY <1>1 DEF TypeOK, SnapshotTypeOK, snapshotVars
<1>5. StreamsTypeOK'
  BY <1>1, <1>2, <1>3 DEF NoteCommand, TypeOK, StreamsTypeOK, TaskStates
<1> QED
  BY <1>1, <1>4, <1>5 DEF pollVars, fetchVars

LEMMA NoteLaterType ==
  ASSUME TypeOK, NoteLater
  PROVE  /\ SnapshotTypeOK'
         /\ StreamsTypeOK'
         /\ UNCHANGED <<phase, healthy, reauth, probeDue, shown, pollStart>>
         /\ UNCHANGED <<answers, claimed, issued>>
BY DEF NoteLater, TypeOK, SnapshotTypeOK, StreamsTypeOK, snapshotVars, activityVars,
       streamVars, pollVars, fetchVars

LEMMA IssueCommandType ==
  ASSUME TypeOK, NEW c \in Refresher, NEW attrSet \in CommandAttrs, IssueCommand(c, attrSet)
  PROVE  TypeOK'
<1>1. NoteCommand \/ NoteLater
  BY DEF IssueCommand
<1>2. attrSet \in SUBSET Attr
  BY CoordinatorAssumption DEF CoordinatorAssumption
<1>3. /\ stage' \in [Fetcher -> {"idle", "command", "asleep", "inflight"}]
      /\ attrs' \in [Refresher -> SUBSET Attr]
      /\ UNCHANGED <<triesLeft, before>>
  BY <1>2 DEF IssueCommand, TypeOK
<1>4. /\ SnapshotTypeOK'
      /\ StreamsTypeOK'
      /\ UNCHANGED <<phase, healthy, reauth, probeDue, shown, pollStart>>
      /\ UNCHANGED <<answers, claimed, issued>>
  BY <1>1, NoteCommandType, NoteLaterType
<1> QED
  BY <1>3, <1>4 DEF TypeOK

LEMMA CommandAcceptedType ==
  ASSUME TypeOK, NEW c \in Refresher, CommandAccepted(c)
  PROVE  TypeOK'
<1>1. NoteCommand /\ UNCHANGED attrs
  BY DEF CommandAccepted
<1>2. before' \in [Refresher -> [Attr -> Rev]]
  BY HeldType DEF CommandAccepted, TypeOK
<1>3. /\ stage' \in [Fetcher -> {"idle", "command", "asleep", "inflight"}]
      /\ triesLeft' \in [Refresher -> Nat]
  BY CoordinatorAssumption DEF CoordinatorAssumption, CommandAccepted, TypeOK
<1> QED
  BY <1>1, <1>2, <1>3, NoteCommandType DEF TypeOK

\* CommandFails and RefreshNotNeeded.
LEMMA CommandOverType ==
  ASSUME TypeOK, NEW c \in Refresher, ForgetCommand(c),
         UNCHANGED <<snapshotVars, activityVars, streamVars, phase, pollVars, fetchVars>>
  PROVE  TypeOK'
<1>1. SnapshotTypeOK' /\ StreamsTypeOK'
  BY DEF TypeOK, SnapshotTypeOK, StreamsTypeOK, snapshotVars, activityVars, streamVars
<1> QED
  BY <1>1, ForgetCommandType DEF TypeOK, pollVars, fetchVars

LEMMA StartRefreshType ==
  ASSUME TypeOK, NEW c \in Refresher, StartRefresh(c), TriesWhileAsleep
  PROVE  TypeOK' /\ TriesWhileAsleep'
<1>1. c \in Fetcher /\ attrs[c] \ unsupported \in SUBSET Attr
  BY DEF Fetcher, TypeOK
<1>2. Claim(c, attrs[c] \ unsupported)
  BY DEF StartRefresh
<1>3. /\ generation' \in Nat
      /\ claimed' \in [Fetcher -> Nat]
      /\ issued' \in [Fetcher -> [Attr -> Rev]]
      /\ answers' = [d \in Fetcher |-> answers'[d]]
      /\ \A d \in Fetcher : AreCalls(answers'[d])
  BY <1>1, <1>2, ClaimType
<1>4. SnapshotTypeOK'
  BY <1>3 DEF StartRefresh, TypeOK, SnapshotTypeOK
<1>5. StreamsTypeOK'
  BY DEF StartRefresh, TypeOK, StreamsTypeOK, streamVars, activityVars
<1>6. stage' \in [Fetcher -> {"idle", "command", "asleep", "inflight"}]
  BY DEF StartRefresh, TypeOK
<1>7. triesLeft' \in [Refresher -> Nat]
  BY DEF StartRefresh, TypeOK, TriesWhileAsleep
<1>8. TypeOK'
  BY <1>3, <1>4, <1>5, <1>6, <1>7 DEF StartRefresh, TypeOK, pollVars
<1>9. TriesWhileAsleep'
  BY DEF StartRefresh, TypeOK, TriesWhileAsleep, Fetcher
<1> QED BY <1>8, <1>9

\* The writers that go through _apply_values in a step of their own: a refresh
\* and a stream.
LEMMA WriteType ==
  ASSUME TypeOK, NEW values, NEW gen \in Nat, NEW base \in [Attr -> Rev],
         NEW fresh, NEW delivered, NEW changed,
         \A a \in DOMAIN values : values[a] \in Rev,
         ApplyValues(values, gen, base),
         UNCHANGED <<recent, noStream, orphans>>,
         UpdateActivity(fresh),
         timer' = PulledIn(active'),
         SetTasks(AfterUpdate(stream, active'), delivered),
         shown' = ShownAfter(changed)
  PROVE  /\ StreamsTypeOK'
         /\ applied' \in [Attr -> Nat]
         /\ data' \in [Attr -> Rev]
         /\ seen' \in [Attr -> Rev]
         /\ shown' \in [Attr -> Rev]
<1>1. /\ applied' \in [Attr -> Nat]
      /\ data' \in [Attr -> Rev]
      /\ seen' \in [Attr -> Rev]
  BY ApplyValuesType
<1>2. active' \in BOOLEAN /\ timer' \in {"none", "idle", "active"}
  BY ActivityType DEF TypeOK, StreamsTypeOK
<1>3. /\ stream' \in [Streamed -> TaskStates]
      /\ failures' \in [Streamed -> 0..MaxRetries]
      /\ received' \in [Streamed -> BOOLEAN]
      /\ inTransit' \in [Streamed -> Rev]
  <2>1. AfterUpdate(stream, active') \in [Streamed -> TaskStates]
    BY StreamIsTyped, AfterUpdateType
  <2> QED
    BY <2>1, SetTasksType, StreamsAssumption DEF TypeOK
<1>4. StreamsTypeOK'
  BY <1>2, <1>3 DEF TypeOK, StreamsTypeOK, TaskStates
<1>5. shown' \in [Attr -> Rev]
  BY <1>1, ShownType
<1> QED BY <1>1, <1>4, <1>5

LEMMA EndRefreshType ==
  ASSUME TypeOK, NEW c \in Refresher, EndRefresh(c)
  PROVE  TypeOK'
<1> DEFINE values == IF Applies(c) THEN FetchedValues(answers[c]) ELSE NoCalls
           changed == SnapshotsDiffer(data, data')
           fresh == Fresh(values, claimed[c]) # {}
<1>1. AllAnswered(c) /\ c \in Fetcher
  BY DEF EndRefresh, Fetcher
<1>2. \A a \in DOMAIN values : values[a] \in Rev
  <2>1. CASE Applies(c)
    BY <1>1, <2>1, FetchedValuesType, SnapshotAssumption
  <2>2. CASE ~Applies(c)
    BY <2>2 DEF NoCalls
  <2> QED BY <2>1, <2>2
<1>3. claimed[c] \in Nat /\ issued[c] \in [Attr -> Rev]
  BY <1>1 DEF TypeOK
<1>4. /\ ApplyValues(values, claimed[c], issued[c])
      /\ UNCHANGED <<recent, noStream, orphans>>
      /\ UpdateActivity(fresh)
      /\ timer' = PulledIn(active')
      /\ SetTasks(AfterUpdate(stream, active'), {})
      /\ shown' = ShownAfter(changed)
  BY DEF EndRefresh
<1>5. /\ StreamsTypeOK'
      /\ applied' \in [Attr -> Nat]
      /\ data' \in [Attr -> Rev]
      /\ seen' \in [Attr -> Rev]
      /\ shown' \in [Attr -> Rev]
  <2> HIDE DEF values, changed, fresh
  <2> QED BY <1>2, <1>3, <1>4, WriteType
<1>6. /\ unsupported' \subseteq Attr
      /\ invalid' \in [Attr -> 0..InvalidLimit]
  BY <1>1, NoteAnswersType, SnapshotAssumption DEF EndRefresh
<1>7. SnapshotTypeOK'
  BY <1>5, <1>6 DEF EndRefresh, TypeOK, SnapshotTypeOK
<1>8. /\ claimed' \in [Fetcher -> Nat]
      /\ issued' \in [Fetcher -> [Attr -> Rev]]
      /\ answers' = [d \in Fetcher |-> answers'[d]]
      /\ \A d \in Fetcher : AreCalls(answers'[d])
  BY <1>1, ForgetFetchType DEF EndRefresh
<1>9. /\ stage' \in [Fetcher -> {"idle", "command", "asleep", "inflight"}]
      /\ attrs' \in [Refresher -> SUBSET Attr]
      /\ triesLeft' \in [Refresher -> Nat]
      /\ before' \in [Refresher -> [Attr -> Rev]]
  <2>1. CASE ForgetCommand(c)
    BY <2>1, ForgetCommandType
  <2>2. CASE stage' = [stage EXCEPT ![c] = "asleep"] /\ UNCHANGED taskVars
    BY <2>2 DEF TypeOK, taskVars
  <2> QED BY <2>1, <2>2 DEF EndRefresh
<1>10. UNCHANGED <<phase, healthy, reauth, probeDue, pollStart>>
  BY DEF EndRefresh
<1> QED
  BY <1>5, <1>7, <1>8, <1>9, <1>10 DEF TypeOK

LEMMA CommandWindowEndsType == TypeOK /\ CommandWindowEnds => TypeOK'
BY DEF CommandWindowEnds, TypeOK, SnapshotTypeOK, StreamsTypeOK, snapshotVars, streamVars,
       pollVars, taskVars, fetchVars

LEMMA StreamDeliversType ==
  ASSUME TypeOK, NEW a \in Streamed, StreamDelivers(a)
  PROVE  TypeOK'
<1> DEFINE values == [b \in {a} |-> MergePartialUpdate(b, data[b], inTransit[b])]
           changed == SnapshotsDiffer(data, data')
<1>1. \A b \in DOMAIN values : values[b] \in Rev
  <2>1. a \in Attr
    BY StreamsAssumption DEF StreamsAssumption, Streamed
  <2> QED
    BY <2>1, MergeType DEF TypeOK, SnapshotTypeOK, StreamsTypeOK
<1>2. generation + 1 \in Nat /\ rev \in [Attr -> Rev]
  BY DEF TypeOK, SnapshotTypeOK
<1>3. /\ ApplyValues(values, generation + 1, rev)
      /\ UNCHANGED <<recent, noStream, orphans>>
      /\ UpdateActivity(TRUE)
      /\ timer' = PulledIn(active')
      /\ SetTasks(AfterUpdate(stream, active'), {a})
      /\ shown' = ShownAfter(changed)
  BY DEF StreamDelivers
<1>4. /\ StreamsTypeOK'
      /\ applied' \in [Attr -> Nat]
      /\ data' \in [Attr -> Rev]
      /\ seen' \in [Attr -> Rev]
      /\ shown' \in [Attr -> Rev]
  <2> HIDE DEF values, changed
  <2> QED BY <1>1, <1>2, <1>3, WriteType
<1>5. SnapshotTypeOK'
  BY <1>2, <1>4 DEF StreamDelivers, TypeOK, SnapshotTypeOK
<1> QED
  BY <1>4, <1>5 DEF StreamDelivers, TypeOK, taskVars, fetchVars

LEMMA StreamRetryType ==
  ASSUME TypeOK, NEW a \in Streamed,
         \/ StreamRetry(a)
         \/ SleepThenRetry(a, failures[a])
         \/ GiveUp(a) /\ noStream' = noStream \cup {a},
         UNCHANGED <<activityVars>>
  PROVE  StreamsTypeOK'
<1>1. MaxRetries \in Nat
  BY StreamsAssumption DEF StreamsAssumption
<1>2. /\ failures[a] \in 0..MaxRetries
      /\ 0 \in 0..MaxRetries
  BY <1>1 DEF TypeOK, StreamsTypeOK
<1>3. ASSUME NEW n \in 0..MaxRetries, SleepThenRetry(a, n)
      PROVE  StreamsTypeOK'
  BY <1>3, ZeroIsRev DEF SleepThenRetry, TypeOK, StreamsTypeOK, activityVars, Running
<1>4. ASSUME GiveUp(a), noStream' \subseteq Streamed
      PROVE  StreamsTypeOK'
  BY <1>2, <1>4, ZeroIsRev DEF GiveUp, TypeOK, StreamsTypeOK, activityVars, Running
<1>5. CASE StreamRetry(a)
  <2>1. CASE failures[a] + 1 < MaxRetries /\ SleepThenRetry(a, failures[a] + 1)
    <3>1. failures[a] + 1 \in 0..MaxRetries
      BY <1>1, <1>2, <2>1
    <3> QED BY <1>3, <2>1, <3>1
  <2>2. CASE GiveUp(a) /\ UNCHANGED noStream
    BY <1>4, <2>2 DEF TypeOK, StreamsTypeOK
  <2> QED BY <1>5, <2>1, <2>2 DEF StreamRetry
<1>6. CASE SleepThenRetry(a, failures[a])
  BY <1>2, <1>3, <1>6
<1>7. CASE GiveUp(a) /\ noStream' = noStream \cup {a}
  BY <1>4, <1>7 DEF TypeOK, StreamsTypeOK
<1> QED BY <1>5, <1>6, <1>7

LEMMA StreamStepType ==
  ASSUME TypeOK, NEW a \in Streamed, StreamStep(a)
  PROVE  TypeOK'
<1>1. UNCHANGED <<snapshotVars, activityVars, phase, pollVars, stage, taskVars, fetchVars>>
  BY DEF StreamStep
<1>2. StreamsTypeOK'
  <2>1. CASE StreamSends(a)
    <3>1. rev[a] \in Rev
      BY StreamsAssumption DEF StreamsAssumption, Streamed, TypeOK, SnapshotTypeOK
    <3> QED
      BY <1>1, <2>1, <3>1 DEF StreamSends, TypeOK, StreamsTypeOK, activityVars
  <2>2. CASE StreamCloses(a)
    BY <1>1, <2>2, StreamRetryType DEF StreamCloses
  <2>3. CASE StreamFails(a)
    BY <1>1, <2>3, StreamRetryType DEF StreamFails
  <2>4. CASE StreamAuthFails(a)
    BY <1>1, <2>4, StreamRetryType DEF StreamAuthFails
  <2>5. CASE StreamUnimplemented(a)
    BY <1>1, <2>5, StreamRetryType DEF StreamUnimplemented
  <2>6. CASE Resubscribe(a)
    BY <1>1, <2>6 DEF Resubscribe, TypeOK, StreamsTypeOK, activityVars, Running
  <2> QED
    BY <2>1, <2>2, <2>3, <2>4, <2>5, <2>6 DEF StreamStep
<1>3. SnapshotTypeOK'
  BY <1>1 DEF TypeOK, SnapshotTypeOK, snapshotVars
<1> QED
  BY <1>1, <1>2, <1>3 DEF TypeOK, pollVars, taskVars, fetchVars

LEMMA EntryStepType == TypeOK /\ EntryStep => TypeOK'
<1> SUFFICES ASSUME TypeOK, EntryStep PROVE TypeOK'
  OBVIOUS
<1>1. ASSUME UNCHANGED <<snapshotVars, active, recent, healthy, reauth, probeDue, pollStart,
                         stage, taskVars, fetchVars>>,
             phase' \in {"setup", "failed", "running", "unloading", "closing", "closed"},
             shown' \in [Attr -> Rev],
             timer' \in {"none", "idle", "active"},
             noStream' \subseteq Streamed, orphans' \subseteq Streamed,
             stream' \in [Streamed -> TaskStates],
             failures' \in [Streamed -> 0..MaxRetries],
             received' \in [Streamed -> BOOLEAN],
             inTransit' \in [Streamed -> Rev]
      PROVE  TypeOK'
  <2>1. SnapshotTypeOK' /\ StreamsTypeOK'
    BY <1>1 DEF TypeOK, SnapshotTypeOK, StreamsTypeOK, snapshotVars, TaskStates
  <2> QED
    BY <1>1, <2>1 DEF TypeOK, taskVars, fetchVars
<1>2. ASSUME NEW tasks \in [Streamed -> TaskStates], SetTasks(tasks, {})
      PROVE  /\ stream' \in [Streamed -> TaskStates]
             /\ failures' \in [Streamed -> 0..MaxRetries]
             /\ received' \in [Streamed -> BOOLEAN]
             /\ inTransit' \in [Streamed -> Rev]
  BY <1>2, SetTasksType, StreamsAssumption DEF TypeOK
<1>3. stream \in [Streamed -> TaskStates]
  BY StreamIsTyped
<1>4. CASE SetUpEntry
  <2>1. Restarted(stream, active) \in [Streamed -> TaskStates]
    BY <1>3, RestartedType
  <2> QED
    BY <1>1, <1>2, <1>4, <2>1 DEF SetUpEntry, Interval, TypeOK, SnapshotTypeOK, StreamsTypeOK
<1>5. CASE UnloadPlatforms
  <2>1. /\ UNCHANGED <<restVars, streamVars>>
        /\ phase' = "unloading"
        /\ timer' = "none"
    BY <1>5 DEF UnloadPlatforms
  <2> QED
    BY <1>1, <1>3, <2>1 DEF restVars, streamVars, pollVars, TypeOK, StreamsTypeOK
<1>6. CASE BeginShutdown
  <2> DEFINE tasks == [a \in Streamed |->
                         IF stream[a] \in Running THEN "cancelling" ELSE stream[a]]
  <2>1. tasks \in [Streamed -> TaskStates]
    BY <1>3 DEF TaskStates, Running
  <2>2. SetTasks(tasks, {})
    BY <1>6 DEF BeginShutdown
  <2>3. /\ noStream' \subseteq Streamed
        /\ phase' \in {"setup", "failed", "running", "unloading", "closing", "closed"}
    BY <1>6 DEF BeginShutdown, TypeOK, StreamsTypeOK
  <2>4. UNCHANGED <<restVars, timer, orphans>>
    BY <1>6 DEF BeginShutdown
  <2> HIDE DEF tasks
  <2> QED
    BY <1>1, <1>2, <2>1, <2>2, <2>3, <2>4 DEF restVars, pollVars, TypeOK, StreamsTypeOK
<1>7. ASSUME NEW a \in Streamed, CancelledTaskEnds(a)
      PROVE  TypeOK'
  <2>1. stream' \in [Streamed -> TaskStates]
    BY <1>3, <1>7 DEF CancelledTaskEnds, TaskStates
  <2> QED
    BY <1>1, <1>7, <2>1 DEF CancelledTaskEnds, restVars, pollVars, TypeOK, StreamsTypeOK
<1>8. CASE EndShutdown
  <2> DEFINE tasks == [a \in Streamed |-> "none"]
  <2>1. tasks \in [Streamed -> TaskStates] /\ SetTasks(tasks, {})
    BY <1>8 DEF EndShutdown, TaskStates
  <2>2. /\ noStream' \subseteq Streamed
        /\ orphans' \subseteq Streamed
        /\ phase' = "closed"
        /\ UNCHANGED <<restVars, timer>>
    BY <1>8 DEF EndShutdown
  <2> HIDE DEF tasks
  <2> QED
    BY <1>1, <1>2, <2>1, <2>2 DEF restVars, pollVars, TypeOK, StreamsTypeOK
<1> QED
  BY <1>4, <1>5, <1>6, <1>7, <1>8 DEF EntryStep

LEMMA CarReportsType ==
  ASSUME TypeOK, NEW a \in Attr, CarReports(a)
  PROVE  TypeOK'
<1>1. rev' \in [Attr -> Rev]
  <2>1. rev[a] \in 0..MaxRev /\ LastRev[a] \in 0..MaxRev /\ MaxRev \in Nat
    BY SnapshotAssumption DEF TypeOK, SnapshotTypeOK, SnapshotAssumption, Rev
  <2>2. rev[a] < LastRev[a]
    BY DEF CarReports, BackendChanges
  <2>3. rev[a] + 1 \in Rev
    BY <2>1, <2>2 DEF Rev
  <2> QED
    BY <2>3 DEF CarReports, BackendChanges, TypeOK, SnapshotTypeOK
<1>2. SnapshotTypeOK' /\ StreamsTypeOK'
  BY <1>1 DEF CarReports, TypeOK, SnapshotTypeOK, StreamsTypeOK, activityVars, streamVars
<1> QED
  BY <1>2 DEF CarReports, TypeOK, pollVars, taskVars, fetchVars

-----------------------------------------------------------------------------
(* The schedule of a refresh is never overrun.                             *)

\* Only CommandAccepted and EndRefresh put a refresh to sleep, and neither does
\* without a delay left.
LEMMA TriesKept ==
  ASSUME TypeOK, TriesWhileAsleep, Next
  PROVE  TriesWhileAsleep'
<1>1. ASSUME UNCHANGED <<stage, triesLeft>>
      PROVE  TriesWhileAsleep'
  BY <1>1 DEF TriesWhileAsleep
<1>2. ASSUME NEW c \in Fetcher, NEW to \in {"idle", "command", "inflight"},
             stage' = [stage EXCEPT ![c] = to], UNCHANGED triesLeft
      PROVE  TriesWhileAsleep'
  BY <1>2 DEF TriesWhileAsleep, TypeOK, Fetcher
<1>3. ASSUME NEW c \in Refresher, ForgetCommand(c)
      PROVE  TriesWhileAsleep'
  BY <1>3 DEF ForgetCommand, TriesWhileAsleep, TypeOK, Fetcher
<1>4. CASE \E a \in Attr : CarReports(a)
  BY <1>1, <1>4 DEF CarReports, taskVars
<1>5. CASE \E c \in Fetcher : \E a \in DOMAIN answers[c] : AnswerArrives(c, a)
  BY <1>1, <1>5 DEF AnswerArrives, taskVars
<1>6. CASE PollStep
  <2>1. CASE StartPoll
    BY <1>2, <2>1 DEF StartPoll, taskVars, Fetcher
  <2>2. CASE PollSucceeds \/ PollFails
    BY <1>2, <2>2 DEF PollSucceeds, PollFails, EndPoll, taskVars, Fetcher
  <2>3. CASE ReprobeDue
    BY <1>1, <2>3 DEF ReprobeDue, taskVars
  <2> QED BY <1>6, <2>1, <2>2, <2>3 DEF PollStep
<1>7. ASSUME NEW c \in Refresher, RefreshStep(c)
      PROVE  TriesWhileAsleep'
  <2>1. CASE \E attrSet \in CommandAttrs : IssueCommand(c, attrSet)
    BY <1>2, <2>1 DEF IssueCommand, Fetcher
  <2>2. CASE CommandFails(c) \/ RefreshNotNeeded(c)
    BY <1>3, <2>2 DEF CommandFails, RefreshNotNeeded
  <2>3. CASE CommandAccepted(c)
    BY <2>3, CoordinatorAssumption
       DEF CoordinatorAssumption, CommandAccepted, TriesWhileAsleep, TypeOK, Fetcher
  <2>4. CASE StartRefresh(c)
    BY <2>4, StartRefreshType
  <2>5. CASE EndRefresh(c)
    <3>1. CASE ForgetCommand(c)
      BY <1>3, <3>1
    <3>2. CASE /\ ~ScheduleOver(c)
               /\ stage' = [stage EXCEPT ![c] = "asleep"]
               /\ UNCHANGED taskVars
      BY <3>2 DEF ScheduleOver, TriesWhileAsleep, TypeOK, taskVars, Fetcher
    <3> QED BY <2>5, <3>1, <3>2 DEF EndRefresh
  <2> QED BY <1>7, <2>1, <2>2, <2>3, <2>4, <2>5 DEF RefreshStep
<1>8. CASE CommandWindowEnds
  BY <1>1, <1>8 DEF CommandWindowEnds, taskVars
<1>9. CASE \E a \in Streamed : StreamDelivers(a) \/ StreamStep(a)
  BY <1>1, <1>9 DEF StreamDelivers, StreamStep, taskVars
<1>10. CASE EntryStep
  BY <1>1, <1>10 DEF EntryStep, SetUpEntry, UnloadPlatforms, BeginShutdown,
                     CancelledTaskEnds, EndShutdown, restVars, taskVars
<1> QED
  BY <1>4, <1>5, <1>6, <1>7, <1>8, <1>9, <1>10 DEF Next

-----------------------------------------------------------------------------
LEMMA NextType ==
  ASSUME TypeOK, TriesWhileAsleep, Next
  PROVE  TypeOK'
<1>1. CASE \E a \in Attr : CarReports(a)
  BY <1>1, CarReportsType
<1>2. CASE \E c \in Fetcher : \E a \in DOMAIN answers[c] : AnswerArrives(c, a)
  BY <1>2, AnswerArrivesType
<1>3. CASE PollStep
  BY <1>3, StartPollType, PollSucceedsType, PollFailsType, ReprobeDueType DEF PollStep
<1>4. ASSUME NEW c \in Refresher, RefreshStep(c)
      PROVE  TypeOK'
  <2>1. CASE CommandFails(c) \/ RefreshNotNeeded(c)
    BY <2>1, CommandOverType DEF CommandFails, RefreshNotNeeded
  <2> QED
    BY <1>4, <2>1, IssueCommandType, CommandAcceptedType, StartRefreshType, EndRefreshType
       DEF RefreshStep
<1>5. CASE CommandWindowEnds
  BY <1>5, CommandWindowEndsType
<1>6. CASE \E a \in Streamed : StreamDelivers(a) \/ StreamStep(a)
  BY <1>6, StreamDeliversType, StreamStepType
<1>7. CASE EntryStep
  BY <1>7, EntryStepType
<1> QED
  BY <1>1, <1>2, <1>3, <1>4, <1>5, <1>6, <1>7 DEF Next

LEMMA StutterType == TypeOK /\ UNCHANGED vars => TypeOK'
<1> SUFFICES ASSUME TypeOK, UNCHANGED vars PROVE TypeOK'
  OBVIOUS
<1>1. SnapshotTypeOK' /\ StreamsTypeOK'
  BY DEF vars, TypeOK, SnapshotTypeOK, StreamsTypeOK, snapshotVars, activityVars, streamVars
<1> QED
  BY <1>1 DEF vars, TypeOK, pollVars, taskVars, fetchVars

\* Every variable keeps its type, and a post-command refresh never runs past
\* the last delay of its schedule (async_refresh_after_command).
THEOREM TypeCorrect == Spec => [](TypeOK /\ TriesWhileAsleep)
<1>1. Init => TypeOK /\ TriesWhileAsleep
  BY InitType DEF Init, TriesWhileAsleep, Fetcher
<1>2. TypeOK /\ TriesWhileAsleep /\ [Next]_vars => (TypeOK /\ TriesWhileAsleep)'
  <2>1. CASE Next
    BY <2>1, NextType, TriesKept
  <2>2. CASE UNCHANGED vars
    BY <2>2, StutterType DEF vars, taskVars, TriesWhileAsleep
  <2> QED BY <2>1, <2>2
<1> QED BY <1>1, <1>2, PTL DEF Spec

-----------------------------------------------------------------------------
(* Values are written in the order in which they were asked for.           *)

generationVars == <<rev, data, generation, applied, seen, answers, claimed, issued>>

LEMMA RevIsNat == Rev \subseteq Nat
BY SnapshotAssumption DEF SnapshotAssumption, Rev

LEMMA PolledIsAttr == PolledOnly \subseteq Attr
BY DEF PolledOnly

\* The types of what GenerationInv compares.
LEMMA GenerationTypes ==
  ASSUME TypeOK
  PROVE  /\ rev \in [Attr -> Nat]
         /\ data \in [Attr -> Nat]
         /\ generation \in Nat
         /\ applied \in [Attr -> Nat]
         /\ seen \in [Attr -> Nat]
         /\ claimed \in [Fetcher -> Nat]
         /\ issued \in [Fetcher -> [Attr -> Nat]]
BY RevIsNat DEF TypeOK, SnapshotTypeOK

LEMMA GenerationInit == Init => GenerationInv
<1> SUFFICES ASSUME Init PROVE GenerationInv
  OBVIOUS
<1>1. /\ rev = [a \in Attr |-> 1]
      /\ data = [a \in Attr |-> 0]
      /\ generation = 0
      /\ seen = [a \in Attr |-> 0]
      /\ claimed = [c \in Fetcher |-> 0]
      /\ issued = [c \in Fetcher |-> NothingHeld]
      /\ answers = [c \in Fetcher |-> NoCalls]
  BY DEF Init, SnapshotInit
<1>2. \A c \in Fetcher, a \in Attr : issued[c][a] = 0 /\ claimed[c] = 0
  BY <1>1 DEF NothingHeld
<1>3. AnswersAreCurrent
  BY <1>1 DEF AnswersAreCurrent, NoCalls
<1>4. ClaimsAreBounded /\ ClaimsAreOrdered
  BY <1>1, <1>2 DEF ClaimsAreBounded, ClaimsAreOrdered
<1>5. WritersAreOrdered /\ WritesAreBounded /\ NeverOlderThanAsked
  BY <1>1, <1>2, PolledIsAttr DEF WritersAreOrdered, WritesAreBounded, NeverOlderThanAsked
<1> QED
  BY <1>3, <1>4, <1>5 DEF GenerationInv

LEMMA GenerationStutter ==
  ASSUME GenerationInv, UNCHANGED generationVars
  PROVE  GenerationInv'
BY DEF GenerationInv, generationVars, ClaimsAreBounded, ClaimsAreOrdered, AnswersAreCurrent,
       WritersAreOrdered, WritesAreBounded, NeverOlderThanAsked

\* A fetch that is issued gets the largest generation and the newest state.
LEMMA GenerationClaim ==
  ASSUME TypeOK, GenerationInv, NEW c \in Fetcher, NEW asked \in SUBSET Attr,
         Claim(c, asked), UNCHANGED <<rev, data, applied, seen>>
  PROVE  GenerationInv'
<1>1. /\ generation' = generation + 1
      /\ claimed' = [claimed EXCEPT ![c] = generation + 1]
      /\ issued' = [issued EXCEPT ![c] = rev]
      /\ answers' = [answers EXCEPT ![c] = [a \in asked |-> Pending]]
  BY DEF Claim
<1>2. ClaimsAreBounded'
  BY <1>1, GenerationTypes DEF GenerationInv, ClaimsAreBounded
<1>3. ClaimsAreOrdered'
  BY <1>1, GenerationTypes DEF GenerationInv, ClaimsAreBounded, ClaimsAreOrdered
<1>4. AnswersAreCurrent'
  <2> SUFFICES ASSUME NEW d \in Fetcher, NEW a \in PolledOnly \cap DOMAIN answers'[d],
                      answers'[d][a].kind = "ok"
               PROVE  answers'[d][a].rev >= issued'[d][a]
    BY DEF AnswersAreCurrent
  <2>1. CASE d = c
    BY <1>1, <2>1 DEF TypeOK, Pending
  <2>2. CASE d # c
    BY <1>1, <2>2, GenerationTypes DEF GenerationInv, AnswersAreCurrent, TypeOK
  <2> QED BY <2>1, <2>2
<1>5. WritersAreOrdered'
  BY <1>1, GenerationTypes, PolledIsAttr DEF GenerationInv, WritesAreBounded, WritersAreOrdered
<1>6. WritesAreBounded' /\ NeverOlderThanAsked'
  BY DEF GenerationInv, WritesAreBounded, NeverOlderThanAsked
<1> QED
  BY <1>2, <1>3, <1>4, <1>5, <1>6 DEF GenerationInv

LEMMA GenerationAnswer ==
  ASSUME TypeOK, GenerationInv, NEW c \in Fetcher, NEW a \in DOMAIN answers[c],
         AnswerArrives(c, a)
  PROVE  GenerationInv'
<1>1. PICK answer \in [kind : Outcomes \ {"ok"}, rev : {0}]
                        \cup [kind : Outcomes \cap {"ok"}, rev : Reported(a)] :
        answers' = [answers EXCEPT ![c][a] = answer]
  BY DEF AnswerArrives
<1>2. UNCHANGED <<rev, data, generation, applied, seen, claimed, issued>>
  BY DEF AnswerArrives, snapshotVars
<1>3. AnswersAreCurrent'
  <2> SUFFICES ASSUME NEW d \in Fetcher, NEW b \in PolledOnly \cap DOMAIN answers'[d],
                      answers'[d][b].kind = "ok"
               PROVE  answers'[d][b].rev >= issued'[d][b]
    BY DEF AnswersAreCurrent
  <2>1. CASE d = c /\ b = a
    <3>1. answers'[d][b] = answer
      BY <1>1, <2>1 DEF TypeOK
    <3>2. answer.rev \in Reported(a)
      BY <3>1
    <3>3. answer.rev = rev[a]
      BY <2>1, <3>2 DEF Reported, PolledOnly
    <3>4. a \in Attr
      BY <2>1, PolledIsAttr
    <3> QED
      BY <1>2, <2>1, <3>1, <3>3, <3>4, GenerationTypes DEF GenerationInv, ClaimsAreBounded
  <2>2. CASE ~(d = c /\ b = a)
    <3>1. DOMAIN answers'[d] = DOMAIN answers[d] /\ answers'[d][b] = answers[d][b]
      BY <1>1, <2>2 DEF TypeOK
    <3> QED
      BY <1>2, <3>1 DEF GenerationInv, AnswersAreCurrent
  <2> QED BY <2>1, <2>2
<1> QED
  BY <1>2, <1>3 DEF GenerationInv, ClaimsAreBounded, ClaimsAreOrdered, WritersAreOrdered,
                    WritesAreBounded, NeverOlderThanAsked

\* What a fetch hands back for a plain attribute is a default or its answer.
LEMMA FetchedIsCurrent ==
  ASSUME TypeOK, GenerationInv, NEW c \in Fetcher, AllAnswered(c),
         NEW a \in PolledOnly \cap DOMAIN FetchedValues(answers[c])
  PROVE  \/ FetchedValues(answers[c])[a] = 0
         \/ FetchedValues(answers[c])[a] >= issued[c][a]
<1> DEFINE ans == answers[c]
<1>1. a \in Refused(ans) \cup {b \in Handled(ans) : ans[b].kind = "ok"}
  BY DEF FetchedValues
<1>2. CASE a \in Refused(ans)
  BY <1>2 DEF FetchedValues
<1>3. CASE a \notin Refused(ans)
  <2>1. a \in DOMAIN ans /\ ans[a].kind = "ok"
    BY <1>1, <1>3 DEF Handled
  <2>2. FetchedValues(ans)[a] = ans[a].rev
    BY <1>1, <1>3 DEF FetchedValues, MergePartialUpdate, PolledOnly
  <2>3. ans[a].rev >= issued[c][a]
    BY <2>1 DEF GenerationInv, AnswersAreCurrent
  <2> QED BY <2>2, <2>3
<1> QED BY <1>2, <1>3

\* A fetch that ends: what it writes was asked for after everything written
\* before, and before everything still in flight with a larger generation.
LEMMA GenerationWrite ==
  ASSUME TypeOK, GenerationInv, NEW c \in Fetcher, AllAnswered(c), ForgetFetch(c),
         NEW values, values = FetchedValues(answers[c]) \/ values = NoCalls,
         ApplyValues(values, claimed[c], issued[c]),
         UNCHANGED <<rev, generation>>
  PROVE  GenerationInv'
<1> DEFINE fresh == Fresh(values, claimed[c])
<1>1. /\ claimed' = [claimed EXCEPT ![c] = 0]
      /\ issued' = [issued EXCEPT ![c] = NothingHeld]
      /\ answers' = [answers EXCEPT ![c] = NoCalls]
  BY DEF ForgetFetch
<1>2. \A a \in Attr : NothingHeld[a] = 0
  BY DEF NothingHeld
<1>3. ASSUME NEW a \in PolledOnly, a \notin fresh
      PROVE  UNCHANGED <<applied[a], data[a], seen[a]>>
  BY <1>3, PolledIsAttr DEF ApplyValues, Written, TypeOK, SnapshotTypeOK
<1>4. ASSUME NEW a \in PolledOnly, a \in fresh
      PROVE  /\ applied'[a] = claimed[c]
             /\ seen'[a] = issued[c][a]
             /\ data'[a] = 0 \/ data'[a] >= issued[c][a]
             /\ claimed[c] > applied[a]
  <2>1. a \in Attr /\ a \in DOMAIN values /\ claimed[c] > applied[a]
    BY <1>4, PolledIsAttr DEF Fresh
  <2>2. applied'[a] = claimed[c] /\ data'[a] = values[a]
    BY <1>4, <2>1 DEF ApplyValues, Written
  <2>3. issued[c][a] >= seen[a]
    BY <2>1 DEF GenerationInv, WritersAreOrdered
  <2>4. seen'[a] = issued[c][a]
    <3>1. seen'[a] = Larger(seen[a], issued[c][a])
      BY <1>4, <2>1 DEF ApplyValues
    <3>2. seen[a] \in Nat /\ issued[c][a] \in Nat
      BY <2>1, GenerationTypes
    <3> QED
      BY <2>3, <3>1, <3>2 DEF Larger
  <2>5. values[a] = 0 \/ values[a] >= issued[c][a]
    <3>1. values = FetchedValues(answers[c])
      BY <2>1 DEF NoCalls
    <3> QED
      BY <2>1, <3>1, FetchedIsCurrent
  <2> QED BY <2>1, <2>2, <2>4, <2>5
<1> HIDE DEF fresh
<1>5. ClaimsAreBounded'
  BY <1>1, <1>2, GenerationTypes DEF GenerationInv, ClaimsAreBounded
<1>6. ClaimsAreOrdered'
  BY <1>1, <1>2, GenerationTypes DEF GenerationInv, ClaimsAreOrdered
<1>7. AnswersAreCurrent'
  <2> SUFFICES ASSUME NEW d \in Fetcher, NEW a \in PolledOnly \cap DOMAIN answers'[d],
                      answers'[d][a].kind = "ok"
               PROVE  answers'[d][a].rev >= issued'[d][a]
    BY DEF AnswersAreCurrent
  <2>1. d # c
    BY <1>1 DEF TypeOK, NoCalls
  <2> QED
    BY <1>1, <2>1, GenerationTypes DEF GenerationInv, AnswersAreCurrent, TypeOK
<1>8. WritersAreOrdered'
  <2> SUFFICES ASSUME NEW d \in Fetcher, NEW a \in PolledOnly, claimed'[d] > applied'[a]
               PROVE  issued'[d][a] >= seen'[a]
    BY DEF WritersAreOrdered
  <2>1. a \in Attr
    BY PolledIsAttr
  <2>2. d # c
    <3>1. applied'[a] \in Nat
      BY <1>3, <1>4, <2>1, GenerationTypes
    <3> QED
      BY <1>1, <3>1, GenerationTypes
  <2>3. claimed'[d] = claimed[d] /\ issued'[d] = issued[d]
    BY <1>1, <2>2
  <2>4. CASE a \in fresh
    <3>1. claimed[d] > claimed[c] /\ seen'[a] = issued[c][a]
      BY <1>4, <2>3, <2>4
    <3> QED
      BY <2>1, <2>3, <3>1 DEF GenerationInv, ClaimsAreOrdered
  <2>5. CASE a \notin fresh
    BY <1>3, <2>3, <2>5 DEF GenerationInv, WritersAreOrdered
  <2> QED BY <2>4, <2>5
<1>9. WritesAreBounded'
  <2> SUFFICES ASSUME NEW a \in PolledOnly PROVE seen'[a] <= rev'[a]
    BY DEF WritesAreBounded
  <2>1. CASE a \in fresh
    BY <1>4, <2>1, PolledIsAttr DEF GenerationInv, ClaimsAreBounded
  <2>2. CASE a \notin fresh
    BY <1>3, <2>2 DEF GenerationInv, WritesAreBounded
  <2> QED BY <2>1, <2>2
<1>10. NeverOlderThanAsked'
  <2> SUFFICES ASSUME NEW a \in PolledOnly, data'[a] # 0 PROVE data'[a] >= seen'[a]
    BY DEF NeverOlderThanAsked
  <2>1. CASE a \in fresh
    BY <1>4, <2>1
  <2>2. CASE a \notin fresh
    BY <1>3, <2>2 DEF GenerationInv, NeverOlderThanAsked
  <2> QED BY <2>1, <2>2
<1> QED
  BY <1>5, <1>6, <1>7, <1>8, <1>9, <1>10 DEF GenerationInv

\* A stream claims a generation of its own and writes no polled attribute.
LEMMA GenerationStream ==
  ASSUME TypeOK, GenerationInv, NEW a \in Streamed, StreamDelivers(a)
  PROVE  GenerationInv'
<1>1. /\ generation' = generation + 1
      /\ UNCHANGED <<rev, answers, claimed, issued>>
  BY DEF StreamDelivers, fetchVars
<1>2. ASSUME NEW b \in PolledOnly
      PROVE  UNCHANGED <<applied[b], data[b], seen[b]>>
  <2>1. b \in Attr /\ b # a
    BY DEF PolledOnly
  <2> QED
    BY <2>1 DEF StreamDelivers, ApplyValues, Written, Fresh, TypeOK, SnapshotTypeOK
<1>3. ClaimsAreBounded'
  BY <1>1, GenerationTypes DEF GenerationInv, ClaimsAreBounded
<1>4. ClaimsAreOrdered' /\ AnswersAreCurrent'
  BY <1>1 DEF GenerationInv, ClaimsAreOrdered, AnswersAreCurrent
<1>5. WritersAreOrdered' /\ WritesAreBounded' /\ NeverOlderThanAsked'
  BY <1>1, <1>2 DEF GenerationInv, WritersAreOrdered, WritesAreBounded, NeverOlderThanAsked
<1> QED
  BY <1>3, <1>4, <1>5 DEF GenerationInv

LEMMA GenerationCar ==
  ASSUME TypeOK, GenerationInv, NEW a \in Attr, CarReports(a)
  PROVE  GenerationInv'
<1>1. /\ UNCHANGED <<data, generation, applied, seen, answers, claimed, issued>>
      /\ rev' = [rev EXCEPT ![a] = @ + 1]
  BY DEF CarReports, BackendChanges, fetchVars
<1>2. \A b \in Attr : rev'[b] >= rev[b] /\ rev'[b] \in Nat
  BY <1>1, GenerationTypes
<1>3. ClaimsAreBounded'
  BY <1>1, <1>2, GenerationTypes DEF GenerationInv, ClaimsAreBounded
<1>4. WritesAreBounded'
  BY <1>1, <1>2, GenerationTypes, PolledIsAttr DEF GenerationInv, WritesAreBounded
<1>5. ClaimsAreOrdered' /\ AnswersAreCurrent' /\ WritersAreOrdered' /\ NeverOlderThanAsked'
  BY <1>1 DEF GenerationInv, ClaimsAreOrdered, AnswersAreCurrent, WritersAreOrdered,
              NeverOlderThanAsked
<1> QED
  BY <1>3, <1>4, <1>5 DEF GenerationInv

LEMMA GenerationNext ==
  ASSUME TypeOK, GenerationInv, Next
  PROVE  GenerationInv'
<1>1. CASE \E a \in Attr : CarReports(a)
  BY <1>1, GenerationCar
<1>2. CASE \E c \in Fetcher : \E a \in DOMAIN answers[c] : AnswerArrives(c, a)
  BY <1>2, GenerationAnswer
<1>3. CASE PollStep
  <2>1. Poll \in Fetcher
    BY DEF Fetcher
  <2>2. CASE StartPoll
    <3> DEFINE asked == IF probeDue THEN Attr ELSE Attr \ unsupported
    <3>1. asked \in SUBSET Attr /\ Claim(Poll, asked) /\ UNCHANGED <<rev, data, applied, seen>>
      BY <2>2 DEF StartPoll
    <3> HIDE DEF asked
    <3> QED BY <2>1, <3>1, GenerationClaim
  <2>3. CASE PollSucceeds
    <3>1. /\ AllAnswered(Poll) /\ ForgetFetch(Poll) /\ UNCHANGED <<rev, generation>>
          /\ ApplyValues(FetchedValues(answers[Poll]), claimed[Poll], issued[Poll])
      BY <2>3 DEF PollSucceeds, EndPoll
    <3> QED BY <2>1, <3>1, GenerationWrite
  <2>4. CASE PollFails
    <3>1. /\ AllAnswered(Poll) /\ ForgetFetch(Poll) /\ UNCHANGED <<rev, generation>>
          /\ UNCHANGED <<applied, data, seen>>
      BY <2>4 DEF PollFails, EndPoll, KeepValues
    <3>2. ApplyValues(NoCalls, claimed[Poll], issued[Poll])
      BY <3>1 DEF ApplyValues, Written, Fresh, NoCalls, TypeOK, SnapshotTypeOK
    <3> QED BY <2>1, <3>1, <3>2, GenerationWrite
  <2>5. CASE ReprobeDue
    BY <2>5, GenerationStutter DEF ReprobeDue, generationVars, snapshotVars, fetchVars
  <2> QED BY <1>3, <2>2, <2>3, <2>4, <2>5 DEF PollStep
<1>4. ASSUME NEW c \in Refresher, RefreshStep(c)
      PROVE  GenerationInv'
  <2>1. c \in Fetcher
    BY DEF Fetcher
  <2>2. CASE \/ \E attrSet \in CommandAttrs : IssueCommand(c, attrSet)
             \/ CommandFails(c)
             \/ CommandAccepted(c)
             \/ RefreshNotNeeded(c)
    <3>1. UNCHANGED <<snapshotVars, fetchVars>>
      BY <2>2 DEF IssueCommand, CommandFails, CommandAccepted, RefreshNotNeeded, NoteCommand,
                    NoteLater
    <3> QED BY <3>1, GenerationStutter DEF generationVars, snapshotVars, fetchVars
  <2>3. CASE StartRefresh(c)
    <3>1. /\ attrs[c] \ unsupported \in SUBSET Attr
          /\ Claim(c, attrs[c] \ unsupported)
          /\ UNCHANGED <<rev, data, applied, seen>>
      BY <2>3 DEF StartRefresh, TypeOK
    <3> QED BY <2>1, <3>1, GenerationClaim
  <2>4. CASE EndRefresh(c)
    <3> DEFINE values == IF Applies(c) THEN FetchedValues(answers[c]) ELSE NoCalls
    <3>1. /\ AllAnswered(c) /\ ForgetFetch(c) /\ UNCHANGED <<rev, generation>>
          /\ ApplyValues(values, claimed[c], issued[c])
      BY <2>4 DEF EndRefresh
    <3>2. values = FetchedValues(answers[c]) \/ values = NoCalls
      OBVIOUS
    <3> HIDE DEF values
    <3> QED BY <2>1, <3>1, <3>2, GenerationWrite
  <2> QED BY <1>4, <2>2, <2>3, <2>4 DEF RefreshStep
<1>5. CASE CommandWindowEnds
  BY <1>5, GenerationStutter DEF CommandWindowEnds, generationVars, snapshotVars, fetchVars
<1>6. CASE \E a \in Streamed : StreamDelivers(a) \/ StreamStep(a)
  BY <1>6, GenerationStream, GenerationStutter
     DEF StreamStep, generationVars, snapshotVars, fetchVars
<1>7. CASE EntryStep
  <2>1. UNCHANGED <<snapshotVars, fetchVars>>
    BY <1>7 DEF EntryStep, SetUpEntry, UnloadPlatforms, BeginShutdown, CancelledTaskEnds,
                EndShutdown, restVars
  <2> QED BY <2>1, GenerationStutter DEF generationVars, snapshotVars, fetchVars
<1> QED
  BY <1>1, <1>2, <1>3, <1>4, <1>5, <1>6, <1>7 DEF Next

\* Whatever is in flight and however late it comes back, values are written in
\* the order in which they were asked for (next_fetch_generation,
\* _apply_values).
THEOREM GenerationsOrder == Spec => []GenerationInv
<1>1. Init => GenerationInv
  BY GenerationInit
<1>2. TypeOK /\ GenerationInv /\ [Next]_vars => GenerationInv'
  <2>1. CASE Next
    BY <2>1, GenerationNext
  <2>2. CASE UNCHANGED vars
    BY <2>2, GenerationStutter DEF vars, generationVars, snapshotVars, fetchVars
  <2> QED BY <2>1, <2>2
<1>3. Spec => []TypeOK
  BY TypeCorrect, PTL
<1> QED BY <1>1, <1>2, <1>3, PTL DEF Spec

\* A slow poll cannot put back what was there before a command on top of what a
\* faster refresh already wrote (_apply_values).
THEOREM SlowAnswersLose == Spec => []NeverOlderThanAsked
<1>1. GenerationInv => NeverOlderThanAsked
  BY DEF GenerationInv
<1> QED BY <1>1, GenerationsOrder, PTL

-----------------------------------------------------------------------------
(* The activity, the timer it drives and the streams it allows.            *)

\* What the three properties below look at.
watchVars == <<recent, data, active, timer, phase, stream, reauth>>

\* The handlers that leave it alone: the call that answers, the probe, a
\* command that is over or not noted, a refresh that starts.
LEMMA WatchersIdle ==
  ASSUME TypeOK, Next
  PROVE  \/ UNCHANGED watchVars /\ stage'[Poll] = stage[Poll]
         \/ PollStep
         \/ \E c \in Refresher : EndRefresh(c)
         \/ NoteCommand /\ stage'[Poll] = stage[Poll]
         \/ CommandWindowEnds
         \/ \E a \in Streamed : StreamDelivers(a) \/ StreamStep(a)
         \/ EntryStep
<1>1. CASE \E a \in Attr : CarReports(a)
  BY <1>1 DEF CarReports, watchVars, activityVars, streamVars, pollVars
<1>2. CASE \E c \in Fetcher : \E a \in DOMAIN answers[c] : AnswerArrives(c, a)
  BY <1>2 DEF AnswerArrives, watchVars, snapshotVars, activityVars, streamVars, pollVars
<1>3. ASSUME NEW c \in Refresher, RefreshStep(c), ~EndRefresh(c)
      PROVE  \/ UNCHANGED watchVars /\ stage'[Poll] = stage[Poll]
             \/ NoteCommand /\ stage'[Poll] = stage[Poll]
  <2>1. c # Poll
    BY CoordinatorAssumption DEF CoordinatorAssumption
  <2>2. stage'[Poll] = stage[Poll]
    <3>1. PICK to : stage' = [stage EXCEPT ![c] = to]
      BY <1>3 DEF RefreshStep, IssueCommand, CommandFails, CommandAccepted,
                  RefreshNotNeeded, StartRefresh, ForgetCommand
    <3> QED BY <2>1, <3>1 DEF TypeOK, Fetcher
  <2>3. NoteCommand \/ UNCHANGED watchVars
    BY <1>3 DEF RefreshStep, IssueCommand, CommandFails, CommandAccepted, RefreshNotNeeded,
                StartRefresh, NoteLater, watchVars, snapshotVars, activityVars, streamVars,
                pollVars
  <2> QED BY <2>2, <2>3
<1> QED BY <1>1, <1>2, <1>3 DEF Next

\* _async_update_activity leaves the activity in step with the snapshot.
LEMMA ActivityFollows ==
  ASSUME TypeOK, CarIsActive => active, NEW fresh \in BOOLEAN, UpdateActivity(fresh),
         ~fresh => UNCHANGED <<data, recent>>
  PROVE  CarIsActive' => active'
BY DEF UpdateActivity, CarIsActive

\* And the pending timer in step with the activity.
LEMMA TimerFollows ==
  ASSUME TypeOK, phase = "running" /\ active => timer # "idle",
         active' \in BOOLEAN, timer' = PulledIn(active'), UNCHANGED phase
  PROVE  phase' = "running" /\ active' => timer' # "idle"
BY DEF PulledIn, TypeOK, StreamsTypeOK

\* Nothing fresh, nothing written.
LEMMA NothingFresh ==
  ASSUME TypeOK, NEW values, NEW gen, NEW base, ApplyValues(values, gen, base),
         Fresh(values, gen) = {}
  PROVE  data' = data
BY DEF ApplyValues, Written, TypeOK, SnapshotTypeOK

LEMMA WatchedNext ==
  ASSUME TypeOK, TypeOK', BusyCarIsWatched, Next
  PROVE  BusyCarIsWatched'
<1>1. /\ active \in BOOLEAN /\ active' \in BOOLEAN
      /\ CarIsActive => active
      /\ phase = "running" /\ active => timer # "idle"
  BY DEF TypeOK, StreamsTypeOK, BusyCarIsWatched
<1>2. CASE UNCHANGED watchVars
  BY <1>2 DEF watchVars, BusyCarIsWatched, CarIsActive
<1>3. CASE PollStep
  <2>1. CASE StartPoll \/ ReprobeDue
    BY <2>1 DEF StartPoll, ReprobeDue, snapshotVars, activityVars, BusyCarIsWatched, CarIsActive
  <2>2. CASE PollSucceeds
    <3> DEFINE values == FetchedValues(answers[Poll])
               fresh == Fresh(values, claimed[Poll]) # {}
    <3>1. /\ ApplyValues(values, claimed[Poll], issued[Poll])
          /\ UpdateActivity(fresh)
          /\ timer' = Rearmed(active')
          /\ UNCHANGED <<phase, recent>>
      BY <2>2 DEF PollSucceeds, EndPoll
    <3>2. ~fresh => data' = data
      BY <3>1, NothingFresh
    <3>3. CarIsActive' => active'
      <4>1. fresh \in BOOLEAN
        OBVIOUS
      <4> HIDE DEF fresh
      <4> QED BY <1>1, <3>1, <3>2, <4>1, ActivityFollows
    <3> QED BY <3>1, <3>3 DEF Rearmed, Interval, BusyCarIsWatched
  <2>3. CASE PollFails
    <3>1. /\ UNCHANGED <<active, recent, data>>
          /\ timer' = "none" \/ timer' = Rearmed(active)
          /\ phase' = "running" => phase = "running"
      BY <2>3 DEF PollFails, EndPoll, KeepValues
    <3> QED BY <1>1, <3>1 DEF Rearmed, Interval, BusyCarIsWatched, CarIsActive
  <2> QED BY <1>3, <2>1, <2>2, <2>3 DEF PollStep
<1>4. ASSUME NEW c \in Refresher, EndRefresh(c)
      PROVE  BusyCarIsWatched'
  <2> DEFINE values == IF Applies(c) THEN FetchedValues(answers[c]) ELSE NoCalls
             fresh == Fresh(values, claimed[c]) # {}
  <2>1. /\ ApplyValues(values, claimed[c], issued[c])
        /\ UpdateActivity(fresh)
        /\ timer' = PulledIn(active')
        /\ UNCHANGED <<phase, recent>>
    BY <1>4 DEF EndRefresh
  <2>2. ~fresh => data' = data
    <3> HIDE DEF values
    <3> QED BY <2>1, NothingFresh
  <2>3. fresh \in BOOLEAN
    OBVIOUS
  <2> HIDE DEF fresh
  <2> QED BY <1>1, <2>1, <2>2, <2>3, ActivityFollows, TimerFollows DEF BusyCarIsWatched
<1>5. CASE NoteCommand
  <2>1. UpdateActivity(TRUE) /\ timer' = PulledIn(active') /\ UNCHANGED phase
    BY <1>5 DEF NoteCommand
  <2> QED BY <1>1, <2>1, ActivityFollows, TimerFollows DEF BusyCarIsWatched
<1>6. CASE CommandWindowEnds
  BY <1>6 DEF CommandWindowEnds, snapshotVars, BusyCarIsWatched, CarIsActive
<1>7. ASSUME NEW a \in Streamed, StreamDelivers(a)
      PROVE  BusyCarIsWatched'
  <2>1. UpdateActivity(TRUE) /\ timer' = PulledIn(active') /\ UNCHANGED phase
    BY <1>7 DEF StreamDelivers
  <2> QED BY <1>1, <2>1, ActivityFollows, TimerFollows DEF BusyCarIsWatched
<1>8. ASSUME NEW a \in Streamed, StreamStep(a)
      PROVE  BusyCarIsWatched'
  BY <1>8 DEF StreamStep, snapshotVars, activityVars, BusyCarIsWatched, CarIsActive
<1>9. CASE EntryStep
  <2>1. /\ UNCHANGED <<active, recent, data>>
        /\ phase' = "running" => timer' = Interval(active) \/ (UNCHANGED <<phase, timer>>)
    BY <1>9 DEF EntryStep, SetUpEntry, UnloadPlatforms, BeginShutdown, CancelledTaskEnds,
                EndShutdown, restVars, snapshotVars
  <2> QED BY <1>1, <2>1 DEF Interval, BusyCarIsWatched, CarIsActive
<1> QED
  BY <1>2, <1>3, <1>4, <1>5, <1>6, <1>7, <1>8, <1>9, WatchersIdle

\* A car that looks busy is active and is not left waiting out the idle
\* interval, whichever of the poll, a refresh, a stream or a command made it so
\* (_async_update_activity).
THEOREM BusyCarsAreWatched == Spec => []BusyCarIsWatched
<1>1. Init => BusyCarIsWatched
  BY StreamsAssumption DEF StreamsAssumption, Init, SnapshotInit, StreamsInit,
                           BusyCarIsWatched, CarIsActive
<1>2. TypeOK /\ TypeOK' /\ BusyCarIsWatched /\ [Next]_vars => BusyCarIsWatched'
  <2>1. CASE Next
    BY <2>1, WatchedNext
  <2>2. CASE UNCHANGED vars
    BY <2>2 DEF vars, snapshotVars, activityVars, BusyCarIsWatched, CarIsActive
  <2> QED BY <2>1, <2>2
<1>3. Spec => []TypeOK
  BY TypeCorrect, PTL
<1> QED BY <1>1, <1>2, <1>3, PTL DEF Spec

\* The handlers that end a poll or set the entry up arm the timer, and no other
\* one cancels it while the entry is set up.
LEMMA PollingNext ==
  ASSUME TypeOK, PollingContinues, Next
  PROVE  PollingContinues'
<1>1. ASSUME phase' = "running" => phase = "running" /\ timer' = PulledIn(active'),
             stage'[Poll] = "idle" => stage[Poll] = "idle", UNCHANGED reauth
      PROVE  PollingContinues'
  BY <1>1 DEF PulledIn, PollingContinues
<1>2. ASSUME UNCHANGED <<phase, timer, reauth>>, stage'[Poll] = stage[Poll]
      PROVE  PollingContinues'
  BY <1>2 DEF PollingContinues
<1>3. CASE UNCHANGED watchVars /\ stage'[Poll] = stage[Poll]
  BY <1>2, <1>3 DEF watchVars
<1>4. CASE PollStep
  <2>1. CASE StartPoll
    <3>1. stage'[Poll] = "inflight"
      BY <2>1 DEF StartPoll, TypeOK, Fetcher
    <3> QED BY <3>1 DEF PollingContinues
  <2>2. CASE PollSucceeds
    <3>1. timer' = Rearmed(active') /\ UNCHANGED phase
      BY <2>2 DEF PollSucceeds
    <3> QED BY <3>1 DEF Rearmed, Interval, PollingContinues
  <2>3. CASE PollFails
    <3>1. /\ timer' = IF reauth' THEN "none" ELSE Rearmed(active)
          /\ phase' = "running" => phase = "running"
      BY <2>3 DEF PollFails
    <3> QED BY <3>1 DEF Rearmed, Interval, PollingContinues
  <2>4. CASE ReprobeDue
    BY <1>2, <2>4 DEF ReprobeDue, activityVars
  <2> QED BY <1>4, <2>1, <2>2, <2>3, <2>4 DEF PollStep
<1>5. ASSUME NEW c \in Refresher, EndRefresh(c)
      PROVE  PollingContinues'
  <2>1. PICK to : stage' = [stage EXCEPT ![c] = to]
    BY <1>5 DEF EndRefresh, ForgetCommand
  <2>2. stage'[Poll] = stage[Poll]
    BY <2>1, CoordinatorAssumption DEF CoordinatorAssumption, TypeOK, Fetcher
  <2> QED BY <1>1, <1>5, <2>2 DEF EndRefresh
<1>6. CASE NoteCommand /\ stage'[Poll] = stage[Poll]
  BY <1>1, <1>6 DEF NoteCommand, pollVars
<1>7. CASE CommandWindowEnds
  BY <1>2, <1>7 DEF CommandWindowEnds, pollVars
<1>8. ASSUME NEW a \in Streamed, StreamDelivers(a)
      PROVE  PollingContinues'
  BY <1>1, <1>8 DEF StreamDelivers
<1>9. ASSUME NEW a \in Streamed, StreamStep(a)
      PROVE  PollingContinues'
  BY <1>2, <1>9 DEF StreamStep, activityVars, pollVars
<1>10. CASE EntryStep
  <2>1. phase' = "running" => timer' = Interval(active) \/ UNCHANGED <<phase, timer>>
    BY <1>10 DEF EntryStep, SetUpEntry, UnloadPlatforms, BeginShutdown, CancelledTaskEnds,
                 EndShutdown
  <2>2. UNCHANGED <<stage, reauth>>
    BY <1>10 DEF EntryStep, SetUpEntry, UnloadPlatforms, BeginShutdown, CancelledTaskEnds,
                 EndShutdown, restVars, pollVars
  <2> QED BY <2>1, <2>2 DEF Interval, PollingContinues
<1> QED
  BY <1>3, <1>4, <1>5, <1>6, <1>7, <1>8, <1>9, <1>10, WatchersIdle

\* While the entry is set up there is always a next poll, in flight or on the
\* timer, unless the user has to sign in again (DataUpdateCoordinator,
\* _async_update_activity).
THEOREM PollingGoesOn == Spec => []PollingContinues
<1>1. Init => PollingContinues
  BY DEF Init, PollingContinues
<1>2. TypeOK /\ PollingContinues /\ [Next]_vars => PollingContinues'
  <2>1. CASE Next
    BY <2>1, PollingNext
  <2>2. CASE UNCHANGED vars
    BY <2>2 DEF vars, activityVars, pollVars, PollingContinues
  <2> QED BY <2>1, <2>2
<1>3. Spec => []TypeOK
  BY TypeCorrect, PTL
<1> QED BY <1>1, <1>2, <1>3, PTL DEF Spec

\* Tasks that are allowed at activity act.
Allowed(tasks, act) == \A a \in ActiveOnly : tasks[a] \in {"open", "waiting"} => act

LEMMA RestartedAllowed ==
  ASSUME NEW tasks, NEW act, Allowed(tasks, act)
  PROVE  Allowed(Restarted(tasks, act), act)
BY StreamsAssumption DEF StreamsAssumption, Allowed, Restarted, WantedStreams, Streamed

LEMMA AfterUpdateAllowed ==
  ASSUME NEW tasks, Allowed(tasks, active), NEW act
  PROVE  Allowed(AfterUpdate(tasks, act), act)
<1>1. CASE act = active
  BY <1>1 DEF AfterUpdate
<1>2. CASE act # active /\ act
  BY <1>2, RestartedAllowed DEF AfterUpdate, AfterSwitch, Allowed
<1>3. CASE act # active /\ ~act
  BY <1>3 DEF AfterUpdate, AfterSwitch, Allowed, Streamed
<1> QED BY <1>1, <1>2, <1>3

LEMMA ActiveOnlyNext ==
  ASSUME TypeOK, ActiveOnlyStreamsStop, Next
  PROVE  ActiveOnlyStreamsStop'
<1>1. Allowed(stream, active)
  BY DEF Allowed, ActiveOnlyStreamsStop
<1>2. Allowed(stream', active') => ActiveOnlyStreamsStop'
  BY DEF Allowed, ActiveOnlyStreamsStop
<1>3. ASSUME stream' = AfterUpdate(stream, active')
      PROVE  ActiveOnlyStreamsStop'
  BY <1>1, <1>2, <1>3, AfterUpdateAllowed
<1>4. ASSUME UNCHANGED <<stream, active>>
      PROVE  ActiveOnlyStreamsStop'
  BY <1>4 DEF ActiveOnlyStreamsStop
<1>5. CASE PollStep
  <2>1. CASE StartPoll \/ PollFails \/ ReprobeDue
    BY <1>4, <2>1 DEF StartPoll, PollFails, ReprobeDue, streamVars, activityVars
  <2>2. CASE PollSucceeds
    <3>1. stream' = Restarted(AfterUpdate(stream, active'), active')
      BY <2>2 DEF PollSucceeds, SetTasks
    <3> QED BY <1>1, <1>2, <3>1, AfterUpdateAllowed, RestartedAllowed
  <2> QED BY <1>5, <2>1, <2>2 DEF PollStep
<1>6. ASSUME NEW a \in Streamed, StreamStep(a)
      PROVE  ActiveOnlyStreamsStop'
  <2>1. \A b \in Streamed : b # a => stream'[b] = stream[b]
    BY <1>6 DEF StreamStep, StreamSends, StreamCloses, StreamFails, StreamAuthFails,
                StreamUnimplemented, Resubscribe, StreamRetry, SleepThenRetry, GiveUp,
                TypeOK, StreamsTypeOK
  <2>2. stream[a] \in {"open", "waiting"} /\ UNCHANGED active
    BY <1>6 DEF StreamStep, StreamSends, StreamCloses, StreamFails, StreamAuthFails,
                StreamUnimplemented, Resubscribe, activityVars
  <2> QED BY <2>1, <2>2 DEF ActiveOnlyStreamsStop, Streamed
<1>7. CASE EntryStep
  <2>1. UNCHANGED active
    BY <1>7 DEF EntryStep, SetUpEntry, UnloadPlatforms, BeginShutdown, CancelledTaskEnds,
                EndShutdown, restVars
  <2>2. CASE SetUpEntry
    BY <1>1, <1>2, <2>1, <2>2, RestartedAllowed DEF SetUpEntry, SetTasks
  <2>3. CASE UnloadPlatforms
    BY <1>4, <2>1, <2>3 DEF UnloadPlatforms, streamVars
  <2>4. CASE BeginShutdown \/ EndShutdown \/ \E a \in Streamed : CancelledTaskEnds(a)
    BY <2>1, <2>4 DEF BeginShutdown, EndShutdown, CancelledTaskEnds, SetTasks, Streamed,
                      TypeOK, StreamsTypeOK, ActiveOnlyStreamsStop
  <2> QED BY <1>7, <2>2, <2>3, <2>4 DEF EntryStep
<1>8. CASE UNCHANGED watchVars
  BY <1>4, <1>8 DEF watchVars
<1>9. CASE NoteCommand \/ CommandWindowEnds
  BY <1>3, <1>4, <1>9 DEF NoteCommand, CommandWindowEnds, SetTasks, streamVars
<1>10. CASE \E c \in Refresher : EndRefresh(c)
  BY <1>3, <1>10 DEF EndRefresh, SetTasks
<1>11. CASE \E a \in Streamed : StreamDelivers(a)
  BY <1>3, <1>11 DEF StreamDelivers, SetTasks
<1> QED
  BY <1>5, <1>6, <1>7, <1>8, <1>9, <1>10, <1>11, WatchersIdle

\* The streams that are only worth their price while the car is active are
\* closed when it goes idle and are not reopened by a retry, a poll or the
\* set-up (_async_update_activity, async_restart_finished_streams).
THEOREM IdleCarsAreNotStreamed == Spec => []ActiveOnlyStreamsStop
<1>1. Init => ActiveOnlyStreamsStop
  BY DEF Init, StreamsInit, Streamed, ActiveOnlyStreamsStop
<1>2. TypeOK /\ ActiveOnlyStreamsStop /\ [Next]_vars => ActiveOnlyStreamsStop'
  <2>1. CASE Next
    BY <2>1, ActiveOnlyNext
  <2>2. CASE UNCHANGED vars
    BY <2>2 DEF vars, activityVars, streamVars, ActiveOnlyStreamsStop
  <2> QED BY <2>1, <2>2
<1>3. Spec => []TypeOK
  BY TypeCorrect, PTL
<1> QED BY <1>1, <1>2, <1>3, PTL DEF Spec

-----------------------------------------------------------------------------
(* What is merged goes one way.                                            *)

\* A later reading, or a later moment, or one of the two is the default.
MovesForward(a, from, to) ==
  from # 0 /\ to # 0 =>
    /\ a \in Readings => Content[a][to] >= Content[a][from]
    /\ a \in Stamped /\ {from, to} \subseteq Dated => to >= from

\* The merge refuses the steps back, even of an attribute that has both.
LEMMA MergeMovesForward ==
  ASSUME NEW a \in Attr, NEW prev \in Rev, NEW r \in Rev
  PROVE  MovesForward(a, prev, MergePartialUpdate(a, prev, r))
<1>1. prev \in Nat /\ r \in Nat
  BY SnapshotAssumption DEF SnapshotAssumption, Rev
<1>2. Content[a][prev] \in Nat /\ Content[a][r] \in Nat
  BY SnapshotAssumption DEF SnapshotAssumption
<1> QED BY <1>1, <1>2 DEF MovesForward, MergePartialUpdate

LEMMA StandingStill ==
  ASSUME NEW a \in Attr, NEW r \in Rev
  PROVE  MovesForward(a, r, r)
<1>1. r \in Nat
  BY SnapshotAssumption DEF SnapshotAssumption, Rev
<1>2. Content[a][r] \in Nat
  BY SnapshotAssumption DEF SnapshotAssumption
<1> QED BY <1>1, <1>2 DEF MovesForward

\* Every value that is written was merged with the one it replaces, in the same
\* step, or is the default.
LEMMA WritesMoveForward ==
  ASSUME TypeOK, NEW values, NEW gen, NEW base, ApplyValues(values, gen, base),
         \A a \in DOMAIN values :
           a \in Attr => MovesForward(a, data[a], values[a])
  PROVE  \A a \in Attr : MovesForward(a, data[a], data'[a])
<1> SUFFICES ASSUME NEW a \in Attr
             PROVE  MovesForward(a, data[a], data'[a])
  OBVIOUS
<1>1. CASE a \in Fresh(values, gen)
  BY <1>1 DEF ApplyValues, Written, Fresh
<1>2. CASE a \notin Fresh(values, gen)
  BY <1>2, StandingStill DEF ApplyValues, Written, TypeOK, SnapshotTypeOK
<1> QED BY <1>1, <1>2

LEMMA FetchesMoveForward ==
  ASSUME TypeOK, NEW c \in Fetcher, AllAnswered(c),
         NEW a \in DOMAIN FetchedValues(answers[c])
  PROVE  MovesForward(a, data[a], FetchedValues(answers[c])[a])
<1> DEFINE ans == answers[c]
<1>1. a \in Refused(ans) \cup {b \in Handled(ans) : ans[b].kind = "ok"}
  BY DEF FetchedValues
<1>2. a \in DOMAIN ans
  BY <1>1 DEF Refused, Handled
<1>3. a \in Attr /\ ans[a] \in Answer /\ data[a] \in Rev
  BY <1>2 DEF TypeOK, SnapshotTypeOK, AllAnswered, AreCalls
<1>4. CASE a \in Refused(ans)
  BY <1>1, <1>4 DEF FetchedValues, MovesForward
<1>5. CASE a \notin Refused(ans)
  <2>1. FetchedValues(ans)[a] = MergePartialUpdate(a, data[a], ans[a].rev)
    BY <1>1, <1>5 DEF FetchedValues
  <2>2. ans[a].rev \in Rev
    BY <1>3 DEF Answer
  <2> QED BY <1>3, <2>1, <2>2, MergeMovesForward
<1> QED BY <1>4, <1>5

LEMMA NextMovesForward ==
  ASSUME TypeOK, Next
  PROVE  \A a \in Attr : MovesForward(a, data[a], data'[a])
<1>1. ASSUME UNCHANGED data
      PROVE  \A a \in Attr : MovesForward(a, data[a], data'[a])
  BY <1>1, StandingStill DEF TypeOK, SnapshotTypeOK
<1>2. CASE PollStep
  <2>1. CASE PollSucceeds
    <3>1. /\ Poll \in Fetcher /\ AllAnswered(Poll)
          /\ ApplyValues(FetchedValues(answers[Poll]), claimed[Poll], issued[Poll])
      BY <2>1 DEF PollSucceeds, EndPoll, Fetcher
    <3> QED BY <3>1, FetchesMoveForward, WritesMoveForward
  <2>2. CASE StartPoll \/ PollFails \/ ReprobeDue
    BY <1>1, <2>2 DEF StartPoll, PollFails, KeepValues, ReprobeDue, snapshotVars
  <2> QED BY <1>2, <2>1, <2>2 DEF PollStep
<1>3. ASSUME NEW c \in Refresher, EndRefresh(c)
      PROVE  \A a \in Attr : MovesForward(a, data[a], data'[a])
  <2> DEFINE values == IF Applies(c) THEN FetchedValues(answers[c]) ELSE NoCalls
  <2>1. c \in Fetcher /\ AllAnswered(c) /\ ApplyValues(values, claimed[c], issued[c])
    BY <1>3 DEF EndRefresh, Fetcher
  <2>2. \A a \in DOMAIN values : a \in Attr => MovesForward(a, data[a], values[a])
    BY <2>1, FetchesMoveForward DEF NoCalls
  <2> HIDE DEF values
  <2> QED BY <2>1, <2>2, WritesMoveForward
<1>4. ASSUME NEW a \in Streamed, StreamDelivers(a)
      PROVE  \A b \in Attr : MovesForward(b, data[b], data'[b])
  <2> DEFINE values == [b \in {a} |-> MergePartialUpdate(b, data[b], inTransit[b])]
  <2>1. ApplyValues(values, generation + 1, rev)
    BY <1>4 DEF StreamDelivers
  <2>2. a \in Attr /\ data[a] \in Rev /\ inTransit[a] \in Rev
    BY StreamsAssumption DEF StreamsAssumption, Streamed, TypeOK, SnapshotTypeOK, StreamsTypeOK
  <2>3. \A b \in DOMAIN values : b \in Attr => MovesForward(b, data[b], values[b])
    BY <2>2, MergeMovesForward
  <2> HIDE DEF values
  <2> QED BY <2>1, <2>3, WritesMoveForward
<1>5. CASE UNCHANGED watchVars \/ NoteCommand \/ CommandWindowEnds
           \/ (\E a \in Streamed : StreamStep(a)) \/ EntryStep
  BY <1>1, <1>5 DEF watchVars, NoteCommand, CommandWindowEnds, StreamStep, EntryStep,
                    SetUpEntry, UnloadPlatforms, BeginShutdown, CancelledTaskEnds,
                    EndShutdown, restVars, snapshotVars
<1> QED BY <1>2, <1>3, <1>4, <1>5, WatchersIdle

\* No fetch, refresh or stream, in whatever order they end, takes the odometer
\* down or the climate snapshot back in time, except by way of the default
\* (_merge_partial_update).
THEOREM ReadingsGoForward == Spec => MergedNeverRewinds
<1>1. TypeOK /\ [Next]_vars =>
        [\A a \in Attr : data[a] # 0 /\ data'[a] # 0 =>
           /\ a \in Readings => Content[a][data'[a]] >= Content[a][data[a]]
           /\ a \in Stamped /\ {data[a], data'[a]} \subseteq Dated => data'[a] >= data[a]]_vars
  BY NextMovesForward DEF MovesForward
<1>2. Spec => []TypeOK
  BY TypeCorrect, PTL
<1> QED BY <1>1, <1>2, PTL DEF Spec, MergedNeverRewinds

-----------------------------------------------------------------------------
(* Every write that changes something is shown.                            *)

ShownInv == EntitiesShowSnapshot /\ PollSeesChanges

LEMMA ShownStays ==
  ASSUME ShownInv, UNCHANGED <<data, shown, applied, claimed, pollStart>>,
         stage'[Poll] = stage[Poll], phase' = "running" => phase = "running"
  PROVE  ShownInv'
BY DEF ShownInv, EntitiesShowSnapshot, PollSeesChanges, SnapshotsDiffer, Differ

\* A writer that compares the snapshot before with the snapshot after.
LEMMA WriterNotifies ==
  ASSUME EntitiesShowSnapshot, UNCHANGED phase,
         shown' = ShownAfter(SnapshotsDiffer(data, data'))
  PROVE  EntitiesShowSnapshot'
BY DEF EntitiesShowSnapshot, ShownAfter, SnapshotsDiffer, Differ

\* The poll compares with the snapshot it started from instead.
LEMMA PollNotifies ==
  ASSUME TypeOK, ShownInv, PollSucceeds
  PROVE  ShownInv'
<1> DEFINE values == FetchedValues(answers[Poll])
<1>1. /\ AllAnswered(Poll)
      /\ ApplyValues(values, claimed[Poll], issued[Poll])
      /\ shown' = ShownAfter(~healthy \/ SnapshotsDiffer(pollStart, data'))
      /\ stage' = [stage EXCEPT ![Poll] = "idle"]
      /\ UNCHANGED phase
  BY DEF PollSucceeds, EndPoll
<1>2. stage[Poll] = "inflight" /\ stage'[Poll] = "idle"
  BY <1>1 DEF AllAnswered, TypeOK, Fetcher
<1>3. ASSUME NEW a \in Attr, ~Differ(a, pollStart[a], data'[a])
      PROVE  ~Differ(a, data[a], data'[a])
  <2>1. CASE a \in Fresh(values, claimed[Poll])
    <3>1. applied[a] \in Nat /\ claimed[Poll] \in Nat /\ claimed[Poll] > applied[a]
      BY <2>1, GenerationTypes DEF Fresh, Fetcher
    <3> QED BY <1>2, <1>3, <3>1 DEF ShownInv, PollSeesChanges, Differ
  <2>2. CASE a \notin Fresh(values, claimed[Poll])
    BY <1>1, <2>2 DEF ApplyValues, Written, Differ
  <2> QED BY <2>1, <2>2
<1>4. EntitiesShowSnapshot'
  BY <1>1, <1>3 DEF ShownInv, EntitiesShowSnapshot, ShownAfter, SnapshotsDiffer, Differ
<1> QED BY <1>2, <1>4 DEF ShownInv, PollSeesChanges

\* A stream claims a generation that the poll in flight cannot have.
LEMMA StreamNotifies ==
  ASSUME TypeOK, ClaimsAreBounded, ShownInv, NEW a \in Streamed, StreamDelivers(a)
  PROVE  ShownInv'
<1> DEFINE values == [b \in {a} |-> MergePartialUpdate(b, data[b], inTransit[b])]
<1>1. /\ ApplyValues(values, generation + 1, rev)
      /\ shown' = ShownAfter(SnapshotsDiffer(data, data'))
      /\ UNCHANGED <<phase, pollStart, stage, claimed>>
  BY DEF StreamDelivers, fetchVars
<1>2. EntitiesShowSnapshot'
  BY <1>1, WriterNotifies DEF ShownInv
<1>3. ASSUME NEW b \in Attr, stage[Poll] = "inflight"
      PROVE  applied'[b] > claimed[Poll] \/ ~Differ(b, data'[b], pollStart[b])
  <2>1. CASE b \in Fresh(values, generation + 1)
    <3>1. applied'[b] = generation + 1
      BY <1>1, <2>1 DEF ApplyValues
    <3>2. claimed[Poll] <= generation /\ claimed[Poll] \in Nat /\ generation \in Nat
      BY GenerationTypes DEF ClaimsAreBounded, Fetcher
    <3> QED BY <3>1, <3>2
  <2>2. CASE b \notin Fresh(values, generation + 1)
    <3>1. applied'[b] = applied[b] /\ data'[b] = data[b]
      BY <1>1, <2>2 DEF ApplyValues, Written
    <3> QED BY <1>3, <3>1 DEF ShownInv, PollSeesChanges
  <2> QED BY <2>1, <2>2
<1>4. PollSeesChanges'
  BY <1>1, <1>3 DEF PollSeesChanges
<1> QED BY <1>2, <1>4 DEF ShownInv

LEMMA ShownNext ==
  ASSUME TypeOK, ClaimsAreBounded, ShownInv, Next, NoRefreshInMidPoll
  PROVE  ShownInv'
<1>1. CASE \E a \in Attr : CarReports(a)
  BY <1>1, ShownStays DEF CarReports, pollVars, fetchVars
<1>2. CASE \E c \in Fetcher : \E a \in DOMAIN answers[c] : AnswerArrives(c, a)
  BY <1>2, ShownStays DEF AnswerArrives, snapshotVars, pollVars
<1>3. CASE StartPoll
  <2>1. pollStart' = data /\ UNCHANGED <<data, shown, phase>>
    BY <1>3 DEF StartPoll
  <2> QED BY <2>1 DEF ShownInv, EntitiesShowSnapshot, PollSeesChanges, SnapshotsDiffer, Differ
<1>4. CASE PollFails
  <2>1. stage'[Poll] = "idle"
    BY <1>4 DEF PollFails, EndPoll, TypeOK, Fetcher
  <2>2. UNCHANGED data /\ shown' \in {shown, data} /\ (phase' = "running" => phase = "running")
    BY <1>4 DEF PollFails, KeepValues, ShownAfter
  <2> QED BY <2>1, <2>2 DEF ShownInv, EntitiesShowSnapshot, PollSeesChanges, SnapshotsDiffer, Differ
<1>5. CASE PollSucceeds
  BY <1>5, PollNotifies
<1>6. CASE ReprobeDue
  BY <1>6, ShownStays DEF ReprobeDue, snapshotVars, fetchVars
<1>7. ASSUME NEW c \in Refresher, RefreshStep(c)
      PROVE  ShownInv'
  <2>1. c # Poll /\ c \in Fetcher /\ Poll \in Fetcher
    BY CoordinatorAssumption DEF CoordinatorAssumption, Fetcher
  <2>2. PICK to : stage' = [stage EXCEPT ![c] = to]
    BY <1>7 DEF RefreshStep, IssueCommand, CommandFails, CommandAccepted, RefreshNotNeeded,
                StartRefresh, EndRefresh, ForgetCommand
  <2>3. stage'[Poll] = stage[Poll]
    BY <2>1, <2>2 DEF TypeOK
  <2>4. CASE ~StartRefresh(c) /\ ~EndRefresh(c)
    <3>1. UNCHANGED <<snapshotVars, phase, pollVars, fetchVars>>
      BY <1>7, <2>4 DEF RefreshStep, IssueCommand, CommandFails, CommandAccepted,
                        RefreshNotNeeded, NoteCommand, NoteLater
    <3> QED BY <2>3, <3>1, ShownStays DEF snapshotVars, pollVars, fetchVars
  <2>5. CASE StartRefresh(c)
    <3>1. claimed'[Poll] = claimed[Poll]
      BY <2>1, <2>5 DEF StartRefresh, Claim, TypeOK
    <3>2. UNCHANGED <<data, applied, phase, shown, pollStart>>
      BY <2>5 DEF StartRefresh, pollVars
    <3> QED BY <2>3, <3>1, <3>2
            DEF ShownInv, EntitiesShowSnapshot, PollSeesChanges, SnapshotsDiffer, Differ
  <2>6. CASE EndRefresh(c)
    <3>1. stage'[Poll] # "inflight"
      BY <2>3, <2>6 DEF NoRefreshInMidPoll
    <3>2. shown' = ShownAfter(SnapshotsDiffer(data, data')) /\ UNCHANGED phase
      BY <2>6 DEF EndRefresh
    <3> QED BY <3>1, <3>2, WriterNotifies DEF ShownInv, PollSeesChanges
  <2> QED BY <2>4, <2>5, <2>6
<1>8. CASE CommandWindowEnds
  BY <1>8, ShownStays DEF CommandWindowEnds, snapshotVars, pollVars, fetchVars
<1>9. CASE \E a \in Streamed : StreamDelivers(a)
  BY <1>9, StreamNotifies
<1>10. CASE \E a \in Streamed : StreamStep(a)
  BY <1>10, ShownStays DEF StreamStep, snapshotVars, pollVars, fetchVars
<1>11. CASE SetUpEntry
  BY <1>11 DEF SetUpEntry, snapshotVars, ShownInv, EntitiesShowSnapshot, PollSeesChanges,
               SnapshotsDiffer, Differ
<1>12. CASE EntryStep /\ ~SetUpEntry
  BY <1>12, ShownStays DEF EntryStep, UnloadPlatforms, BeginShutdown, CancelledTaskEnds,
                           EndShutdown, restVars, snapshotVars, pollVars, fetchVars
<1> QED
  BY <1>1, <1>2, <1>3, <1>4, <1>5, <1>6, <1>7, <1>8, <1>9, <1>10, <1>11, <1>12
     DEF Next, PollStep

\* The entities miss no write of the poll and of the streams, nor of a refresh
\* that ends between two polls; the hypothesis excludes the one order of events
\* in which they do, and every behaviour without commands satisfies it
\* (async_apply_values and the base class's comparison at the end of a poll).
THEOREM WritesAreShown ==
  Spec /\ PollsAreUndisturbed => []EntitiesShowSnapshot
<1>1. Init => ShownInv
  BY DEF Init, SnapshotInit, Fetcher, ShownInv, EntitiesShowSnapshot, PollSeesChanges
<1>2. /\ TypeOK /\ ClaimsAreBounded /\ ShownInv
      /\ [Next]_vars /\ [NoRefreshInMidPoll]_vars
      => ShownInv'
  <2>1. CASE Next /\ NoRefreshInMidPoll
    BY <2>1, ShownNext
  <2>2. CASE UNCHANGED vars
    BY <2>2, ShownStays DEF vars, snapshotVars, pollVars, fetchVars
  <2> QED BY <2>1, <2>2
<1>3. GenerationInv => ClaimsAreBounded
  BY DEF GenerationInv
<1>4. ShownInv => EntitiesShowSnapshot
  BY DEF ShownInv
<1> QED
  BY <1>1, <1>2, <1>3, <1>4, TypeCorrect, GenerationsOrder, PTL DEF Spec, PollsAreUndisturbed

\* Without commands the hypothesis is met: polls and streams alone miss no write.
COROLLARY PollsAndStreamsAreShown ==
  ASSUME Refresher = {}
  PROVE  Spec => []EntitiesShowSnapshot
<1>1. [Next]_vars => [NoRefreshInMidPoll]_vars
  BY DEF NoRefreshInMidPoll
<1> QED BY <1>1, WritesAreShown, PTL DEF Spec, PollsAreUndisturbed

-----------------------------------------------------------------------------
(* Streams after the shutdown.                                             *)

\* Once the tasks are being cancelled none subscribes any more.
ShutInv ==
  /\ orphans = {}
  /\ phase \in {"closing", "closed"} => \A a \in Streamed : stream[a] \notin {"open", "waiting"}
  /\ phase = "closed" => \A a \in Streamed : stream[a] # "cancelling"

LEMMA ShutStays ==
  ASSUME ShutInv, UNCHANGED <<phase, stream, orphans>>
  PROVE  ShutInv'
BY DEF ShutInv

\* Before the shutdown no task matters.
LEMMA NotYetShut ==
  ASSUME ShutInv, phase' \notin {"closing", "closed"}, UNCHANGED orphans
  PROVE  ShutInv'
BY DEF ShutInv

LEMMA ShutNext ==
  ASSUME TypeOK, ShutInv, Next, NothingEndsInShutdown
  PROVE  ShutInv'
<1>1. ASSUME NEW c \in Refresher, RefreshStep(c) PROVE ShutInv'
  <2>1. CASE CommandAccepted(c) \/ EndRefresh(c)
    <3>1. phase' \notin {"closing", "closed"} /\ UNCHANGED orphans
      BY <2>1 DEF NothingEndsInShutdown, CommandAccepted, EndRefresh, NoteCommand
    <3> QED BY <3>1, NotYetShut
  <2>2. CASE \E attrSet \in CommandAttrs : IssueCommand(c, attrSet)
    <3>1. phase' = "running" /\ UNCHANGED orphans
      BY <2>2 DEF IssueCommand, NoteCommand, NoteLater, streamVars
    <3> QED BY <3>1, NotYetShut
  <2>3. CASE CommandFails(c) \/ RefreshNotNeeded(c) \/ StartRefresh(c)
    BY <2>3, ShutStays DEF CommandFails, RefreshNotNeeded, StartRefresh, streamVars
  <2> QED BY <1>1, <2>1, <2>2, <2>3 DEF RefreshStep
<1>2. CASE PollStep
  <2>1. CASE PollSucceeds
    <3>1. phase' \notin {"closing", "closed"} /\ UNCHANGED orphans
      BY <2>1 DEF NothingEndsInShutdown, PollSucceeds, EndPoll
    <3> QED BY <3>1, NotYetShut
  <2>2. CASE PollFails
    <3>1. /\ UNCHANGED <<stream, orphans>>
          /\ phase' = IF phase = "setup" THEN "failed" ELSE phase
      BY <2>2 DEF PollFails, EndPoll
    <3> QED BY <3>1 DEF ShutInv
  <2>3. CASE StartPoll \/ ReprobeDue
    BY <2>3, ShutStays DEF StartPoll, ReprobeDue, streamVars
  <2> QED BY <1>2, <2>1, <2>2, <2>3 DEF PollStep
<1>3. ASSUME NEW a \in Streamed, StreamDelivers(a) PROVE ShutInv'
  <2>1. stream[a] = "open" /\ UNCHANGED <<phase, orphans>>
    BY <1>3 DEF StreamDelivers
  <2>2. phase \notin {"closing", "closed"}
    BY <2>1 DEF ShutInv
  <2> QED BY <2>1, <2>2, NotYetShut
<1>4. ASSUME NEW a \in Streamed, StreamStep(a) PROVE ShutInv'
  <2>1. stream[a] \in {"open", "waiting"} /\ UNCHANGED <<phase, orphans>>
    BY <1>4 DEF StreamStep, StreamSends, StreamCloses, StreamFails, StreamAuthFails,
                StreamUnimplemented, Resubscribe, StreamRetry, SleepThenRetry, GiveUp
  <2>2. phase \notin {"closing", "closed"}
    BY <2>1 DEF ShutInv
  <2> QED BY <2>1, <2>2, NotYetShut
<1>5. CASE SetUpEntry \/ UnloadPlatforms
  BY <1>5, NotYetShut DEF SetUpEntry, UnloadPlatforms, streamVars
<1>6. CASE BeginShutdown
  <2>1. /\ stream' = [a \in Streamed |->
                        IF stream[a] \in Running THEN "cancelling" ELSE stream[a]]
        /\ UNCHANGED orphans
        /\ phase' = "closed" => \A a \in Streamed : stream[a] = "none"
    BY <1>6 DEF BeginShutdown, SetTasks
  <2> QED BY <2>1 DEF ShutInv, Running
<1>7. ASSUME NEW a \in Streamed, CancelledTaskEnds(a) PROVE ShutInv'
  <2>1. stream[a] = "cancelling" /\ UNCHANGED <<phase, orphans>>
    BY <1>7 DEF CancelledTaskEnds
  <2>2. \A b \in Streamed : stream'[b] \in {stream[b], "done"}
    BY <1>7 DEF CancelledTaskEnds, TypeOK, StreamsTypeOK
  <2> QED BY <2>1, <2>2 DEF ShutInv
<1>8. CASE EndShutdown
  <2>1. phase = "closing" /\ \A a \in Streamed : stream[a] # "cancelling"
    BY <1>8 DEF EndShutdown
  <2>2. orphans' = {} /\ \A a \in Streamed : stream'[a] = "none"
    BY <1>8, <2>1 DEF EndShutdown, SetTasks, ShutInv, Running
  <2> QED BY <2>2 DEF ShutInv
<1>9. CASE \/ \E a \in Attr : CarReports(a)
           \/ \E c \in Fetcher : \E a \in DOMAIN answers[c] : AnswerArrives(c, a)
           \/ CommandWindowEnds
  BY <1>9, ShutStays DEF CarReports, AnswerArrives, CommandWindowEnds, streamVars
<1> QED
  BY <1>1, <1>2, <1>3, <1>4, <1>5, <1>6, <1>7, <1>8, <1>9 DEF Next, EntryStep

\* A shutdown leaves no stream task running, unless a poll or a refresh completes or a
\* command is accepted while it waits for the cancelled tasks or for the connection to
\* close: these are the steps that may start a stream again (async_shutdown,
\* async_restart_finished_streams).
THEOREM UndisturbedShutdownsCancel ==
  Spec /\ ShutdownsAreUndisturbed => []StreamsAreCancelled
<1>1. Init => ShutInv
  BY DEF Init, StreamsInit, ShutInv
<1>2. TypeOK /\ ShutInv /\ [Next]_vars /\ [NothingEndsInShutdown]_vars => ShutInv'
  <2>1. CASE Next /\ NothingEndsInShutdown
    BY <2>1, ShutNext
  <2>2. CASE UNCHANGED vars
    BY <2>2, ShutStays DEF vars, streamVars
  <2> QED BY <2>1, <2>2
<1>3. ShutInv => StreamsAreCancelled
  BY DEF ShutInv, StreamsAreCancelled, Running
<1>4. Spec => []TypeOK
  BY TypeCorrect, PTL
<1> QED BY <1>1, <1>2, <1>3, <1>4, PTL DEF Spec, ShutdownsAreUndisturbed

=============================================================================
