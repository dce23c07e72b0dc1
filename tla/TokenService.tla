---------------------------- MODULE TokenService ----------------------------
(***************************************************************************)
(* What AuthManager promises its callers, without saying how: a token is   *)
(* replaced only when it has expired, and a call ends with the token that  *)
(* is current at that moment or with an error.                             *)
(***************************************************************************)
EXTENDS Naturals

CONSTANTS
  Caller,          \* concurrent users of the token
  MaxGrants        \* bound: access tokens the server grants

Access == 0..MaxGrants

VARIABLES
  token,           \* the current access token, 0 before the first
  expired,         \* the access tokens that have expired, 0 among them
  pending,         \* the callers that wait for a token
  given            \* per caller: the token its last call returned, or 0

vars == <<token, expired, pending, given>>

Init ==
  /\ token = 0
  /\ expired = {0}
  /\ pending = {}
  /\ given = [c \in Caller |-> 0]

Ask(c) ==
  /\ c \notin pending
  /\ token \in expired
  /\ pending' = pending \cup {c}
  /\ UNCHANGED <<token, expired, given>>

\* A good token is never replaced.
Renew ==
  /\ token \in expired
  /\ token' \in Access \ {0, token}
  /\ UNCHANGED <<expired, pending, given>>

\* The current token, at once when it is good and else after a renewal.
Return(c) ==
  /\ c \in pending \/ token \notin expired
  /\ given' = [given EXCEPT ![c] = token]
  /\ pending' = pending \ {c}
  /\ UNCHANGED <<token, expired>>

Fail(c) ==
  /\ c \in pending \/ token \in expired
  /\ given' = [given EXCEPT ![c] = 0]
  /\ pending' = pending \ {c}
  /\ UNCHANGED <<token, expired>>

Expire(n) ==
  /\ expired' = expired \cup {n}
  /\ UNCHANGED <<token, pending, given>>

\* The process restarts with a token it had stored earlier, if any.
Restart ==
  /\ token' \in Access
  /\ pending' = {}
  /\ given' = [c \in Caller |-> 0]
  /\ UNCHANGED expired

Next ==
  \/ \E c \in Caller : Ask(c) \/ Return(c) \/ Fail(c)
  \/ Renew
  \/ \E n \in Access : Expire(n)
  \/ Restart

Spec == Init /\ [][Next]_vars
=============================================================================
