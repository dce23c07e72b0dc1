------------------------------ MODULE GrpcCall ------------------------------
(***************************************************************************)
(* One gRPC call at a time: unary_unary and unary_stream, with their       *)
(* retries, against a backend that may carry a request out and lose the    *)
(* answer, or carry it out after the caller gave up.                       *)
(*                                                                         *)
(* A request is the number of the attempt that sent it.  What the channel  *)
(* does to an attempt is a step of the network: it answers, fails with a   *)
(* status, or the connection breaks.  Whoever awaits the call may cancel   *)
(* it (asyncio.wait_for, asyncio.timeout) or leave the loop over a stream. *)
(***************************************************************************)
EXTENDS Naturals, FiniteSets

CONSTANTS
  Retries,       \* the retries argument
  MaxMessages    \* bound: the messages a stream carries

ASSUME GrpcAssumption == Retries \in Nat /\ MaxMessages \in Nat \ {0}

VARIABLES
  method,      \* "unary" or "stream"
  phase,       \* where the call is: "idle", "waiting" to try again, "trying",
               \* or how it ended: "answered", "raised", "exhausted", "cancelled"
  attempt,     \* the attempt under way
  yielded,     \* messages the attempt has yielded
  travelling,  \* the requests on their way to the backend
  carried      \* the requests that the backend carried out

grpcVars == <<method, phase, attempt, yielded, travelling, carried>>

Pending == {"trying", "waiting"}
Ended == {"idle", "answered", "raised", "exhausted", "cancelled"}

GrpcTypeOK ==
  /\ method \in {"unary", "stream"}
  /\ phase \in Ended \cup Pending
  /\ attempt \in 0..Retries
  /\ yielded \in 0..MaxMessages
  /\ travelling \subseteq 0..attempt
  /\ carried \subseteq 0..attempt

GrpcInit ==
  /\ method = "unary" /\ phase = "idle" /\ attempt = 0 /\ yielded = 0
  /\ travelling = {} /\ carried = {}

-----------------------------------------------------------------------------
(* The caller.                                                             *)

\* A new call; what an earlier one left on the wire is its own affair.
StartCall(m) ==
  /\ phase \in Ended
  /\ method' = m /\ phase' = "trying" /\ attempt' = 0 /\ yielded' = 0
  /\ travelling' = {0} /\ carried' = {}

\* The sleep of _retry_delay is over: channel.request and send_message.
TryAgain ==
  /\ phase = "waiting"
  /\ phase' = "trying" /\ attempt' = attempt + 1 /\ yielded' = 0
  /\ travelling' = travelling \cup {attempt + 1}
  /\ UNCHANGED <<method, carried>>

\* The awaiting coroutine is cancelled, in the middle of an attempt or a delay.
CancelCall ==
  /\ phase \in Pending
  /\ phase' = "cancelled"
  /\ UNCHANGED <<method, attempt, yielded, travelling, carried>>

\* "async for response in ...: return response" and the "break" of every
\* one-shot read: the caller leaves the stream it has a message of.
LeaveStream ==
  /\ phase = "trying" /\ yielded > 0
  /\ phase' = "answered"
  /\ UNCHANGED <<method, attempt, yielded, travelling, carried>>

-----------------------------------------------------------------------------
(* The backend and the network.                                            *)

CarryOut(n) ==
  /\ n \in travelling
  /\ travelling' = travelling \ {n} /\ carried' = carried \cup {n}
  /\ UNCHANGED <<method, phase, attempt, yielded>>

LoseRequest(n) ==
  /\ n \in travelling
  /\ travelling' = travelling \ {n}
  /\ UNCHANGED <<method, phase, attempt, yielded, carried>>

\* recv_message returns, or the stream yields its next message: only for a
\* request that was carried out.
AnswerArrives ==
  /\ phase = "trying" /\ attempt \in carried
  /\ IF method = "unary"
     THEN phase' = "answered" /\ UNCHANGED yielded
     ELSE /\ yielded < MaxMessages
          /\ yielded' = yielded + 1 /\ UNCHANGED phase
  /\ UNCHANGED <<method, attempt, travelling, carried>>

\* The backend closes the stream; with no message the call just ends.
StreamCloses ==
  /\ phase = "trying" /\ method = "stream" /\ attempt \in carried
  /\ phase' = "answered"
  /\ UNCHANGED <<method, attempt, yielded, travelling, carried>>

\* Mutant: a stream is tried again whatever it has yielded.
AfterFailureAlways(retriable, seen, n) ==
  IF ~retriable THEN "raised" ELSE IF n < Retries THEN "waiting" ELSE "exhausted"

\* Mutant: one try more than the retries allow.
AfterFailureOneMore(retriable, seen, n) ==
  CASE seen > 0 -> "answered"
    [] seen = 0 /\ ~retriable -> "raised"
    [] seen = 0 /\ retriable -> IF n <= Retries THEN "waiting" ELSE "exhausted"

\* What an attempt that failed leads to: the end of a stream that has yielded,
\* an exception when the status is not retriable or the tries are used up,
\* and a delay before the next try otherwise.
AfterFailure(retriable, seen, n) ==
  CASE seen > 0 -> "answered"
    [] seen = 0 /\ ~retriable -> "raised"
    [] seen = 0 /\ retriable -> IF n < Retries THEN "waiting" ELSE "exhausted"

\* A GRPCError, or a connection that breaks (always retriable).  The request
\* of the attempt may be on its way all the same.
AttemptFails(retriable) ==
  /\ phase = "trying"
  /\ phase' = AfterFailure(retriable, yielded, attempt)
  /\ UNCHANGED <<method, attempt, yielded, travelling, carried>>

\* What goes on without the caller, but for the backend's work.
GrpcGoesOn ==
  \/ TryAgain
  \/ AnswerArrives
  \/ StreamCloses
  \/ \E retriable \in BOOLEAN : AttemptFails(retriable)

GrpcNext ==
  \/ \E m \in {"unary", "stream"} : StartCall(m)
  \/ CancelCall
  \/ LeaveStream
  \/ \E n \in travelling : CarryOut(n) \/ LoseRequest(n)
  \/ GrpcGoesOn

GrpcSpec == GrpcInit /\ [][GrpcNext]_grpcVars

-----------------------------------------------------------------------------
(* Properties.                                                             *)

\* The outcome of the call as its caller sees it.
Result ==
  CASE phase = "idle" -> "none"
    [] phase \in Pending -> "pending"
    [] phase = "answered" -> "answered"
    [] OTHER -> "failed"

\* A call is tried Retries + 1 times at most, an answer means that the backend
\* has carried the request out, and a subscription that has delivered data is
\* never started again inside the call: its messages would be handed out twice
\* (grpc.py:59-82, 106-137).
Abstract == INSTANCE RemoteCall
  WITH MaxTimes <- Retries + 1, times <- Cardinality(carried), handed <- yielded,
       result <- Result
CallIsRemoteCall == Abstract!Spec
=============================================================================
