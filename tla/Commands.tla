------------------------------ MODULE Commands ------------------------------
(***************************************************************************)
(* An entity with a value of its own, the command it issues, the gRPC call *)
(* behind the command and the car at the other end.  Home Assistant runs   *)
(* the commands of a platform one at a time (PARALLEL_UPDATES = 1).        *)
(***************************************************************************)
EXTENDS OptimisticState, GrpcCall, CommandTable

CONSTANTS
  Entities,     \* the entities of EntityOf that may be chosen
  MaxChanges,   \* bound: changes that the car makes on its own
  MaxTrouble    \* bound: polls that fail

ASSUME CommandsAssumption ==
  /\ Entities \subseteq DOMAIN EntityOf
  /\ MaxChanges \in Nat /\ MaxTrouble \in Nat

VARIABLES
  entity,       \* the entity
  command,      \* the command it issued last
  asked,        \* the value it asked for
  running,      \* the command has not returned
  outcome,      \* of the last command: "none", "succeeded" or "failed"
  refused,      \* history: the answer to the last command was a refusal
  car,          \* the car's own state
  reachable,    \* the last poll succeeded
  supported,    \* the capability is not among _unsupported_commands
  settable,     \* the target's mode is CUSTOM, or not known
  changes,      \* changes the car has made on its own
  trouble       \* polls that have failed

commandVars == <<entity, command, asked, running, outcome, refused, supported>>
carVars == <<car, changes, settable, reachable, trouble>>
vars == <<optimisticVars, grpcVars, commandVars, carVars>>

Self == EntityOf[entity]
Issued == CommandOf[command]

Init ==
  \E e \in Entities :
    /\ entity = e /\ command \in EntityOf[e].issues
    /\ asked \in Values /\ car \in Values
    /\ running = FALSE /\ outcome = "none" /\ refused = FALSE
    /\ reachable = TRUE /\ supported = TRUE /\ settable = TRUE /\ changes = 0 /\ trouble = 0
    /\ OptimisticInit(EntityOf[e].blank, EntityOf[e].blank # "unavailable") /\ GrpcInit

\* `available`: a switch or a button hides with the capability of its command,
\* the charge target unless the car is in the mode that has one, a setting of
\* the timers without the attribute that holds it, and all while the polls fail.
Available(reached, able, set, r) ==
  /\ reached
  /\ able \/ Self.hides = "none"
  /\ set
  /\ r # "unavailable"

-----------------------------------------------------------------------------
(* Answers, by the names of their enumerations.                            *)

InvocationStatus ==
  {"UNKNOWN_ERROR", "SENT", "CAR_OFFLINE", "DELIVERED", "DELIVERY_TIMEOUT", "SUCCESS",
   "RESPONSE_TIMEOUT", "UNKNOWN_CAR_ERROR", "NOT_ALLOWED_PRIVACY_ENABLED",
   "NOT_ALLOWED_WRONG_USAGE_MODE", "INVOCATION_SPECIFIC_ERROR",
   "NOT_ALLOWED_CONFLICTING_INVOCATION"}

ChronosStatus ==
  {"UNKNOWN_ERROR", "SENT", "DELIVERED", "SUCCESS", "SYNCED", "CAR_OFFLINE", "CAR_ERROR",
   "ERROR", "REPLACED"}

ChronosSuccessStates == {"SENT", "DELIVERED", "SUCCESS", "SYNCED", "REPLACED"}

ResponseStatusCode == {"UNDEFINED", "SUCCESS", "WARNING", "ERROR"}

\* What the backend may answer.  An empty message has none of the fields; an
\* "opaque" one (raw bytes, or a message without a status) says nothing of it.
Replies(answer) ==
  CASE answer = "lock" -> [status : InvocationStatus, lock_error : BOOLEAN]
    [] answer = "invocation" -> [status : InvocationStatus, lock_error : {FALSE}]
    [] answer = "chronos" -> [status : ChronosStatus, lock_error : {FALSE}]
    [] answer = "code" -> [status : ResponseStatusCode, lock_error : {FALSE}]
    [] answer = "opaque" -> [status : {"SUCCESS", "ERROR"}, lock_error : {FALSE}]

\* The backend or the car turns the command down.
Refuses(reply) ==
  \/ reply.lock_error
  \/ reply.status \in
       {"UNDEFINED", "UNKNOWN_ERROR", "CAR_OFFLINE", "DELIVERY_TIMEOUT", "RESPONSE_TIMEOUT",
        "UNKNOWN_CAR_ERROR", "NOT_ALLOWED_PRIVACY_ENABLED", "NOT_ALLOWED_WRONG_USAGE_MODE",
        "INVOCATION_SPECIFIC_ERROR", "NOT_ALLOWED_CONFLICTING_INVOCATION", "CAR_ERROR", "ERROR"}

\* _parse_set and TargetSocServiceClient.set reduce the delivery state.
Reduced(answer, status) ==
  IF answer # "chronos" THEN status
  ELSE IF status \in ChronosSuccessStates THEN "SUCCESS" ELSE "ERROR"

\* Mutant: the lock's own error code is not looked at.
CommandSucceededByStatus(answer, reply) ==
  CASE answer \in {"lock", "invocation"} -> reply.status \in {"SENT", "DELIVERED", "SUCCESS"}
    [] answer \in {"chronos", "code"} -> Reduced(answer, reply.status) \in {"SUCCESS", "WARNING"}
    [] answer = "opaque" -> TRUE

\* _command_succeeded.
CommandSucceeded(answer, reply) ==
  /\ ~reply.lock_error
  /\ CASE answer \in {"lock", "invocation"} -> reply.status \in {"SENT", "DELIVERED", "SUCCESS"}
       [] answer \in {"chronos", "code"} -> Reduced(answer, reply.status) \in {"SUCCESS", "WARNING"}
       [] answer = "opaque" -> TRUE

-----------------------------------------------------------------------------
(* The command.                                                            *)

\* async_turn_on, async_lock, async_select_option and their like.  Home
\* Assistant does not call an unavailable entity.
IssueCommand(c, v) ==
  /\ added /\ available /\ ~running
  /\ c \in Self.issues
  /\ command' = c /\ asked' = v /\ running' = TRUE /\ outcome' = "none" /\ refused' = FALSE
  /\ StartCall(CommandOf[c].rpc)
  /\ IF Self.when = "before" THEN SetOptimistic(v, available) ELSE StartMoving(available)
  /\ UNCHANGED <<entity, supported, carVars>>

\* Mutant: the time of the retries' sleeps does not count.
CommandTimesOutTrying ==
  /\ running /\ Issued.how = "run" /\ phase = "trying"
  /\ CancelCall
  /\ UNCHANGED <<optimisticVars, commandVars, carVars>>

\* async_run_command gives the command 30 seconds; a command that is awaited
\* directly has no limit.
CommandTimesOut ==
  /\ running /\ Issued.how = "run"
  /\ CancelCall
  /\ UNCHANGED <<optimisticVars, commandVars, carVars>>

\* The entity's handler goes on after the command.
Succeeds ==
  /\ outcome' = "succeeded" /\ supported' = supported
  /\ IF Self.when = "after" THEN SetOptimistic(asked, available) ELSE UNCHANGED optimisticVars

\* Mutant: the lock's `finally` is missing.
FailsWhileMoving(able) ==
  /\ outcome' = "failed" /\ supported' = able
  /\ LET av == Available(reachable, able, settable, real) IN
     IF Self.when = "before" THEN ClearOptimistic(av) ELSE KeepOptimistic(av)

Fails(able) ==
  /\ outcome' = "failed" /\ supported' = able
  /\ LET av == Available(reachable, able, settable, real) IN
     IF Self.when = "before" THEN ClearOptimistic(av) ELSE StopMoving(av)

Answered == phase = "answered" /\ (method = "unary" \/ yielded > 0)

CommandAnswered(reply) ==
  /\ running /\ Answered
  /\ running' = FALSE /\ refused' = Refuses(reply)
  /\ IF Issued.how = "trusted" \/ CommandSucceeded(Issued.answer, reply)
     THEN Succeeds ELSE Fails(supported)
  /\ UNCHANGED <<entity, command, asked, grpcVars, carVars>>

\* An exception: the stream ended without a message, the call failed or was
\* cancelled.  A status UNIMPLEMENTED or FAILED_PRECONDITION, which is never
\* retried, marks the capability of a run.
CommandRaises(unsupported) ==
  /\ running /\ phase \in Ended /\ ~Answered
  /\ unsupported => phase = "raised" /\ Issued.how = "run" /\ Issued.marks # "none"
  /\ running' = FALSE /\ refused' = FALSE
  /\ Fails(supported /\ ~unsupported)
  /\ UNCHANGED <<entity, command, asked, grpcVars, carVars>>

\* The call goes on by itself; carried out, the request may change the car,
\* also after the command has failed for the entity.
CallGoesOn ==
  /\ running
  /\ GrpcGoesOn \/ (Issued.rpc = "stream" /\ LeaveStream)
  /\ UNCHANGED <<optimisticVars, commandVars, carVars>>

RequestIsCarriedOut(n) ==
  /\ CarryOut(n)
  /\ car' \in {car, asked}
  /\ UNCHANGED <<optimisticVars, commandVars, changes, settable, reachable, trouble>>

RequestIsLost(n) ==
  /\ LoseRequest(n)
  /\ UNCHANGED <<optimisticVars, commandVars, carVars>>

-----------------------------------------------------------------------------
(* The car and the coordinator.                                            *)

\* The car's own key, app or timers; a command accepted or sent earlier too.
CarChanges ==
  /\ changes < MaxChanges
  /\ car' \in Values \ {car} /\ changes' = changes + 1
  /\ UNCHANGED <<optimisticVars, grpcVars, commandVars, settable, reachable, trouble>>

\* The mode may come with anything the car reports; only the target looks at it.
ModeReported == settable' \in (IF Self.hides = "mode" THEN BOOLEAN ELSE {TRUE})

\* A poll, a refresh after a command or a stream brings the car's state; the
\* entity is told only if the snapshot changed or the polls had failed.
CarReports ==
  /\ real # car \/ ~reachable
  /\ reachable' = TRUE /\ ModeReported
  /\ WriteState(override, left, armed, car, Available(TRUE, supported, settable', car), moving)
  /\ UNCHANGED <<grpcVars, commandVars, car, changes, trouble>>

PollFails ==
  /\ reachable /\ trouble < MaxTrouble
  /\ reachable' = FALSE /\ trouble' = trouble + 1
  /\ KeepOptimistic(FALSE)
  /\ UNCHANGED <<grpcVars, commandVars, car, changes, settable>>

\* Something else in the snapshot changed: the entity renders anew.
OtherChange ==
  /\ ModeReported
  /\ KeepOptimistic(Available(reachable, supported, settable', real))
  /\ UNCHANGED <<grpcVars, commandVars, car, changes, reachable, trouble>>

EntityStep == (Tick \/ Expire \/ RemoveEntity) /\ UNCHANGED <<grpcVars, commandVars, carVars>>

Next ==
  \/ \E c \in DOMAIN CommandOf, v \in Values : IssueCommand(c, v)
  \/ CommandTimesOut
  \/ \E reply \in Replies(Issued.answer) : CommandAnswered(reply)
  \/ \E unsupported \in BOOLEAN : CommandRaises(unsupported)
  \/ CallGoesOn
  \/ \E n \in travelling : RequestIsCarriedOut(n) \/ RequestIsLost(n)
  \/ CarChanges
  \/ CarReports
  \/ PollFails
  \/ OtherChange
  \/ EntityStep

\* The timers of the event loop fire, a finished call resumes its handler, and
\* polls go on (Coordinator, PollingContinues).  Nothing is assumed of the
\* backend's answers or of the network.
Fairness ==
  /\ WF_vars(CommandTimesOut)
  /\ WF_vars(\/ \E reply \in Replies(Issued.answer) : CommandAnswered(reply)
             \/ \E unsupported \in BOOLEAN : CommandRaises(unsupported))
  /\ WF_vars(CarReports)
  /\ WF_vars(Tick /\ UNCHANGED <<grpcVars, commandVars, carVars>>)
  /\ WF_vars(Expire /\ UNCHANGED <<grpcVars, commandVars, carVars>>)

Spec == Init /\ [][Next]_vars
LiveSpec == Spec /\ Fairness

-----------------------------------------------------------------------------
(* Properties.                                                             *)

TypeOK ==
  /\ OptimisticTypeOK /\ GrpcTypeOK
  /\ entity \in Entities /\ command \in Self.issues /\ asked \in Values
  /\ outcome \in {"none", "succeeded", "failed"}
  /\ running \in BOOLEAN /\ refused \in BOOLEAN
  /\ reachable \in BOOLEAN /\ supported \in BOOLEAN /\ settable \in BOOLEAN
  /\ car \in Values /\ changes \in 0..MaxChanges /\ trouble \in 0..MaxTrouble

\* What is shown is accounted for, and a lock is not left locking or unlocking
\* by a command that failed, was cancelled or timed out (lock.py:51-83).
ShownIsAccounted == Accounted /\ (moving <=> running /\ Self.when = "after")

\* A command of an entity that the car turned down ends in an error: "Run a remote
\* command and validate its response." (coordinator.py:735).  The answers of pre-cleaning
\* and of the amp limit are not looked into: there a refusal goes unnoticed.
RefusalFails == refused /\ Issued.answer # "opaque" => outcome = "failed"

\* The value asked for stays on show until the car reports it, its time is up
\* or a command starts or ends: no report from before the command undoes it.
OverrideHolds == [][GivenUpForGood(running' # running)]_vars

\* A failed command leaves no value of its own on show (switch.py:114-131).
FailedIsNotShown ==
  outcome = "failed" /\ Self.when = "before" => override = "none"

\* After a command that succeeded the attribute its entity reads is refreshed: nothing
\* else would confirm the value on a car whose attribute is not streamed
\* (coordinator.py:756-766).
RefreshReachesEntity == outcome = "succeeded" => Self.reads \in Issued.refresh

\* Whatever was asked for and whatever the backend answers, the entity comes
\* to show what the car is really in, or runs another command.
Settles ==
  LET inUse == added /\ supported /\ settable IN
  (inUse /\ shown # car) ~> (shown = car \/ running \/ ~inUse)

\* async_run_command returns, though the backend never answers.
CommandEnds == (running /\ Issued.how = "run") ~> ~running
=============================================================================
