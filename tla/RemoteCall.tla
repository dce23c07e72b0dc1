----------------------------- MODULE RemoteCall -----------------------------
(***************************************************************************)
(* What a caller of grpc.unary_unary and grpc.unary_stream may rely on.    *)
(* The backend carries the request out some number of times, never more    *)
(* often than the call is tried; an answered call was carried out at least *)
(* once; a call that failed may have been carried out all the same, and    *)
(* may still be.  The messages of a stream are handed out once: no try     *)
(* starts over when the caller has seen some.                              *)
(***************************************************************************)
EXTENDS Naturals

CONSTANT MaxTimes      \* how often a call is tried at most

VARIABLES
  times,    \* how often the backend carried the request out
  handed,   \* the messages of a stream that were handed to the caller
  result    \* of the last call: "none", "pending", "answered" or "failed"

Init == times = 0 /\ handed = 0 /\ result = "none"

Start == result # "pending" /\ result' = "pending" /\ times' = 0 /\ handed' = 0

CarryOut == times < MaxTimes /\ times' = times + 1 /\ UNCHANGED <<handed, result>>

HandOut == result = "pending" /\ times > 0 /\ handed' = handed + 1 /\ UNCHANGED <<times, result>>

Answered == times > 0 /\ result = "pending" /\ result' = "answered" /\ UNCHANGED <<times, handed>>

Failed == result = "pending" /\ result' = "failed" /\ UNCHANGED <<times, handed>>

Next == Start \/ CarryOut \/ HandOut \/ Answered \/ Failed

Spec == Init /\ [][Next]_<<times, handed, result>>
=============================================================================
