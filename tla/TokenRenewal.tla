---------------------------- MODULE TokenRenewal ----------------------------
(***************************************************************************)
(* AuthManager: concurrent callers of ensure_valid_token renew one token   *)
(* under a lock, by its refresh token and else by a password login, while  *)
(* callers are cancelled by the 15 seconds a fetch may take, connections   *)
(* break and the process restarts.  The login of a restart, authenticate,  *)
(* runs before there are callers and takes no lock: the caller Setup.      *)
(*                                                                         *)
(* A token is named by the number of the grant that issued it.  The server *)
(* is external: it may rotate a refresh token when it is used, and then no *)
(* longer accepts the old one.                                             *)
(***************************************************************************)
EXTENDS Naturals, Sequences

CONSTANTS
  Caller,          \* concurrent callers of ensure_valid_token
  Hasty,           \* the ones that are cancelled when they take too long
  Setup,           \* authenticate
  Nobody,
  MayReject,       \* environment: the server may turn down a password login
  MaxGrants,       \* bound: grants of the server
  MaxLost          \* bound: renewals that are interrupted

ASSUME TokenAssumption ==
  /\ Hasty \subseteq Caller
  /\ Setup \notin Caller
  /\ Nobody \notin Caller \cup {Setup}
  /\ MayReject \in BOOLEAN
  /\ MaxGrants \in Nat
  /\ MaxLost \in Nat

Client == Caller \cup {Setup}
Grant == 0..MaxGrants
Tokens == [access : Grant, refresh : Grant]
NoTokens == [access |-> 0, refresh |-> 0]

VARIABLES
  tokens,      \* self._tokens
  stored,      \* what the token store holds
  stale,       \* the access tokens that is_expired, 0 for "no token" among them
  cooling,     \* less than REAUTH_COOLDOWN since _last_reauth
  up,          \* authenticate has returned
  pc,          \* where a client is
  answer,      \* the server's answer to its request: a grant, or a word
  lock,        \* the holder of _refresh_lock
  queue,       \* those waiting for it
  given,       \* per caller: the token its last call returned, or 0
  grants,      \* server: grants so far
  valid,       \* server: the refresh tokens it accepts
  lost         \* history: renewals interrupted

serverVars == <<grants, valid>>
vars == <<tokens, stored, stale, cooling, up, pc, answer, lock, queue, given,
          serverVars, lost>>

Requesting == {"discovering", "refreshing", "login"}
Busy == Requesting \cup {"saving"}
NoAnswer == [word |-> "none", grant |-> NoTokens]
Refused == [word |-> "refused", grant |-> NoTokens]
Granted(t) == [word |-> "granted", grant |-> t]
Answers == {NoAnswer, Refused} \cup {Granted(t) : t \in Tokens}

StateOK ==
  /\ tokens \in Tokens
  /\ stored \in Tokens
  /\ stale \subseteq Grant
  /\ cooling \in BOOLEAN
  /\ up \in BOOLEAN
  /\ pc \in [Client -> Busy \cup {"idle", "waiting"}]
  /\ answer \in [Client -> Answers]
  /\ lock \in Caller \cup {Nobody}
  /\ given \in [Caller -> Grant]
  /\ grants \in Grant
  /\ valid \subseteq Grant
  /\ lost \in 0..MaxLost

TypeOK == StateOK /\ queue \in Seq(Caller)

Init ==
  /\ tokens = NoTokens
  /\ stored = NoTokens
  /\ stale = {0}
  /\ cooling = FALSE
  /\ up = FALSE
  /\ pc = [c \in Client |-> "idle"]
  /\ answer = [c \in Client |-> NoAnswer]
  /\ lock = Nobody
  /\ queue = << >>
  /\ given = [c \in Caller |-> 0]
  /\ grants = 0
  /\ valid = {}
  /\ lost = 0

-----------------------------------------------------------------------------
\* is_expired, for the token held.
Expired == tokens.access \in stale

Goto(c, where) ==
  /\ pc' = [pc EXCEPT ![c] = where]
  /\ answer' = [answer EXCEPT ![c] = NoAnswer]

\* Mutant: a caller that ends badly keeps the lock.
ReleaseOnReturn(c, t) == IF lock = c /\ t # 0 THEN Nobody ELSE lock

\* Leaving `async with`.
Released(c, t) == IF lock = c THEN Nobody ELSE lock

\* The call of c ends with token t, or with an error when t is 0; authenticate
\* that ends with a token opens the client for callers.
End(c, t) ==
  /\ Goto(c, "idle")
  /\ lock' = Released(c, t)
  /\ given' = IF c = Setup THEN given ELSE [given EXCEPT ![c] = t]
  /\ up' = (up \/ (c = Setup /\ t # 0))

\* Mutant: there is no lock.
NeverLocked(c) == lock

\* The lock while c renews: authenticate takes none.
Locked(c) == IF c = Setup THEN lock ELSE c

\* From a refusal of the refresh token, or without one, to the password login
\* with the credentials given to authenticate: only ensure_valid_token records
\* its time.
StartLogin(c) ==
  /\ Goto(c, "login")
  /\ cooling' = (cooling \/ c # Setup)
  /\ lock' = Locked(c)
  /\ UNCHANGED <<up, given>>

\* With the tokens t, that have expired.
StartRenewal(c, t) ==
  \/ /\ t.refresh # 0
     /\ Goto(c, "refreshing")
     /\ lock' = Locked(c)
     /\ UNCHANGED <<cooling, up, given>>
  \/ t.refresh = 0 /\ StartLogin(c)

\* Mutant: the token is not looked at again under the lock.
StillExpiredAlways == TRUE

\* Another caller may have renewed the token while this one waited.
StillExpired == Expired

\* The body of `async with self._refresh_lock` up to its first await.
LockTaken(c) ==
  \/ ~StillExpired /\ End(c, tokens.access) /\ UNCHANGED cooling
  \/ StillExpired /\ cooling /\ End(c, 0) /\ UNCHANGED cooling
  \/ StillExpired /\ ~cooling /\ StartRenewal(c, tokens)

-----------------------------------------------------------------------------
(* The callers.                                                            *)

\* ensure_valid_token: a good token is returned at once.
CallReturns(c) ==
  /\ up
  /\ pc[c] = "idle"
  /\ ~Expired
  /\ given' = [given EXCEPT ![c] = tokens.access]
  /\ UNCHANGED <<tokens, stored, stale, cooling, up, pc, answer, lock, queue, serverVars, lost>>

\* asyncio.Lock is fair: it is taken at once only when nobody waits.
LockIsFree == lock = Nobody /\ queue = << >>

CallRenews(c) ==
  /\ up
  /\ pc[c] = "idle"
  /\ Expired
  /\ LockIsFree
  /\ LockTaken(c)
  /\ UNCHANGED <<tokens, stored, stale, queue, serverVars, lost>>

CallWaits(c) ==
  /\ up
  /\ pc[c] = "idle"
  /\ Expired
  /\ ~LockIsFree
  /\ Goto(c, "waiting")
  /\ queue' = Append(queue, c)
  /\ UNCHANGED <<tokens, stored, stale, cooling, up, lock, given, serverVars, lost>>

\* The first waiter is woken when the lock is released.
WaiterWakes(c) ==
  /\ lock = Nobody
  /\ queue # << >>
  /\ c = Head(queue)
  /\ queue' = Tail(queue)
  /\ LockTaken(c)
  /\ UNCHANGED <<tokens, stored, stale, serverVars, lost>>

-----------------------------------------------------------------------------
(* authenticate.                                                           *)

\* The stored token is loaded and the endpoints are asked for.
Boot ==
  /\ ~up
  /\ pc[Setup] = "idle"
  /\ tokens' = stored
  /\ Goto(Setup, "discovering")
  /\ UNCHANGED <<stored, stale, cooling, up, lock, queue, given, serverVars, lost>>

\* A good token needs no further request.
Discovered ==
  /\ pc[Setup] = "discovering"
  /\ \/ ~Expired /\ End(Setup, tokens.access) /\ UNCHANGED cooling
     \/ Expired /\ StartRenewal(Setup, tokens)
  /\ UNCHANGED <<tokens, stored, stale, queue, serverVars, lost>>

-----------------------------------------------------------------------------
(* A renewal, by a caller that holds the lock or by authenticate.          *)

\* The server grants a new token for one that it accepts, rotating it or not.
ServerRefreshes(c) ==
  /\ pc[c] = "refreshing"
  /\ answer[c] = NoAnswer
  /\ tokens.refresh \in valid
  /\ grants < MaxGrants
  /\ grants' = grants + 1
  /\ \E r \in {tokens.refresh, grants + 1} :
       /\ valid' = (valid \ {tokens.refresh}) \cup {r}
       /\ answer' = [answer EXCEPT ![c] = Granted([access |-> grants + 1, refresh |-> r])]
  /\ UNCHANGED <<tokens, stored, stale, cooling, up, pc, lock, queue, given, lost>>

\* A login need not come with a refresh token.
ServerLogsIn(c) ==
  /\ pc[c] = "login"
  /\ answer[c] = NoAnswer
  /\ grants < MaxGrants
  /\ grants' = grants + 1
  /\ \E r \in {0, grants + 1} :
       /\ valid' = valid \cup ({r} \ {0})
       /\ answer' = [answer EXCEPT ![c] = Granted([access |-> grants + 1, refresh |-> r])]
  /\ UNCHANGED <<tokens, stored, stale, cooling, up, pc, lock, queue, given, lost>>

\* A status of 400 or more, for any reason, or a login that is turned down.
ServerRefuses(c) ==
  /\ \/ pc[c] = "refreshing"
     \/ pc[c] = "login" /\ MayReject
  /\ answer[c] = NoAnswer
  /\ answer' = [answer EXCEPT ![c] = Refused]
  /\ UNCHANGED <<tokens, stored, stale, cooling, up, pc, lock, queue, given, serverVars, lost>>

\* Mutant: a rotated refresh token is not taken over.
KeepRefreshToken(t) == [t EXCEPT !.refresh = IF tokens.refresh = 0 THEN @ ELSE tokens.refresh]

\* The TokenData made of the server's answer.
NewTokens(t) == t

\* _refresh and _exchange_token: the token is replaced in memory, then saved.
AnswerGranted(c) ==
  /\ pc[c] \in {"refreshing", "login"}
  /\ answer[c].word = "granted"
  /\ tokens' = NewTokens(answer[c].grant)
  /\ Goto(c, "saving")
  /\ UNCHANGED <<stored, stale, cooling, up, lock, queue, given, serverVars, lost>>

RefreshRefused(c) ==
  /\ pc[c] = "refreshing"
  /\ answer[c].word = "refused"
  /\ StartLogin(c)
  /\ UNCHANGED <<tokens, stored, stale, queue, serverVars, lost>>

\* AuthError.
LoginRefused(c) ==
  /\ pc[c] = "login"
  /\ answer[c].word = "refused"
  /\ End(c, 0)
  /\ UNCHANGED <<tokens, stored, stale, cooling, queue, serverVars, lost>>

Saved(c) ==
  /\ pc[c] = "saving"
  /\ stored' = tokens
  /\ End(c, tokens.access)
  /\ UNCHANGED <<tokens, stale, cooling, queue, serverVars, lost>>

-----------------------------------------------------------------------------
(* What goes wrong.                                                        *)

\* A connection breaks or times out: the exception leaves ensure_valid_token,
\* whether or not the server has granted something.
RequestBreaks(c) ==
  /\ pc[c] \in Requesting
  /\ lost < MaxLost
  /\ lost' = lost + 1
  /\ End(c, 0)
  /\ UNCHANGED <<tokens, stored, stale, cooling, queue, serverVars>>

\* A save that is interrupted has written the file or not.
SaveInterrupted(c) == stored' \in {stored} \cup (IF pc[c] = "saving" THEN {tokens} ELSE {})

\* The fetch that c renews for takes too long (wait_for): c is cancelled.
RenewerCancelled(c) ==
  /\ pc[c] \in Busy
  /\ lost < MaxLost
  /\ lost' = lost + 1
  /\ SaveInterrupted(c)
  /\ End(c, 0)
  /\ UNCHANGED <<tokens, stale, cooling, queue, serverVars>>

\* A waiter that is cancelled leaves the queue to the others.
WaiterCancelled(c) ==
  /\ pc[c] = "waiting"
  /\ \E i \in 1..Len(queue) :
       /\ queue[i] = c
       /\ queue' = SubSeq(queue, 1, i - 1) \o SubSeq(queue, i + 1, Len(queue))
  /\ End(c, 0)
  /\ UNCHANGED <<tokens, stored, stale, cooling, serverVars, lost>>

\* Home Assistant restarts or the entry is reloaded.
Restart ==
  /\ up \/ pc[Setup] # "idle"
  /\ \/ (\A c \in Client : pc[c] \notin Busy) /\ UNCHANGED <<stored, lost>>
     \/ \E c \in Client : /\ pc[c] \in Busy
                          /\ SaveInterrupted(c)
                          /\ lost < MaxLost
                          /\ lost' = lost + 1
  /\ tokens' = NoTokens
  /\ cooling' = FALSE
  /\ up' = FALSE
  /\ pc' = [c \in Client |-> "idle"]
  /\ answer' = [c \in Client |-> NoAnswer]
  /\ lock' = Nobody
  /\ queue' = << >>
  /\ given' = [c \in Caller |-> 0]
  /\ UNCHANGED <<stale, serverVars>>

-----------------------------------------------------------------------------
(* Time.                                                                   *)

\* A token runs out, 60 seconds early; bounded so that the server never has to
\* grant more than MaxGrants tokens.
TokenExpires ==
  /\ tokens.access \notin stale
  /\ grants + (MaxLost - lost) < MaxGrants
  /\ stale' = stale \cup {tokens.access}
  /\ UNCHANGED <<tokens, stored, cooling, up, pc, answer, lock, queue, given, serverVars, lost>>

CooldownEnds ==
  /\ cooling
  /\ cooling' = FALSE
  /\ UNCHANGED <<tokens, stored, stale, up, pc, answer, lock, queue, given, serverVars, lost>>

-----------------------------------------------------------------------------
Call(c) == CallReturns(c) \/ CallRenews(c) \/ CallWaits(c)

ServerStep(c) == ServerRefreshes(c) \/ ServerLogsIn(c) \/ ServerRefuses(c)

ClientStep(c) == AnswerGranted(c) \/ RefreshRefused(c) \/ LoginRefused(c) \/ Saved(c)

Next ==
  \/ \E c \in Caller : Call(c) \/ WaiterWakes(c)
  \/ Boot \/ Discovered
  \/ \E c \in Client : ServerStep(c) \/ ClientStep(c) \/ RequestBreaks(c)
  \/ \E c \in Hasty : RenewerCancelled(c) \/ WaiterCancelled(c)
  \/ Restart
  \/ TokenExpires
  \/ CooldownEnds

Spec == Init /\ [][Next]_vars

\* Requests have timeouts (httpx), so each is answered or breaks, and the event
\* loop runs whatever is ready.
Progress ==
  /\ \A c \in Client : WF_vars(ServerStep(c) \/ RequestBreaks(c)) /\ WF_vars(ClientStep(c))
  /\ \A c \in Caller : WF_vars(WaiterWakes(c))
  /\ WF_vars(Discovered)

\* Polls keep asking for a token, setup is retried and time passes.
Persistence ==
  /\ \A c \in Caller : WF_vars(Call(c))
  /\ WF_vars(Boot)
  /\ WF_vars(CooldownEnds)

LiveSpec == Spec /\ Progress /\ Persistence

-----------------------------------------------------------------------------
(* Properties.                                                             *)

\* Concurrent callers share one renewal: no two of them talk to the server or
\* replace the token at the same time (ensure_valid_token).
OneRenewal ==
  \A c, d \in Client : pc[c] \in Busy /\ pc[d] \in Busy => c = d

\* The inductive invariant behind it, and behind the two properties below.

\* A caller at work holds the lock.
LockProtects == \A c \in Caller : pc[c] \in Busy => lock = c

\* authenticate works only while there are no callers yet.
SetupIsAlone ==
  /\ pc[Setup] \in Busy => ~up
  /\ ~up => /\ queue = << >>
            /\ \A c \in Caller : pc[c] = "idle" /\ given[c] = 0

\* A request for a token is made, and answered, while the one held is expired;
\* by a caller that refreshes, outside the cooldown.
RenewalIsDue ==
  /\ \A c \in Client : /\ pc[c] \in {"refreshing", "login"} => Expired
                       /\ pc[c] \notin {"refreshing", "login"} => answer[c] = NoAnswer
  /\ \A c \in Caller : pc[c] = "refreshing" => ~cooling

\* What the server grants has not been held before.
GrantsAreNew ==
  /\ tokens.access <= grants
  /\ stored.access <= grants
  /\ \A c \in Client : answer[c].word = "granted" =>
       answer[c].grant.access \in (tokens.access + 1)..grants

\* A renewal belongs to one client, which makes it for an expired token only and
\* ends it with a new one.
RenewalInv == LockProtects /\ SetupIsAlone /\ RenewalIsDue /\ GrantsAreNew

\* ensure_valid_token never starts a password login before the cooldown of the
\* last one is over, although the cooldown is checked before the refresh and
\* the login follows it.
LoginsAreSpaced ==
  [][\A c \in Caller : pc[c] # "login" /\ pc'[c] = "login" => ~cooling]_vars

\* As long as no renewal was interrupted, no refresh token is presented that
\* the server has already replaced, and the store is not left behind.
RefreshTokenIsCurrent ==
  lost = 0 =>
    /\ \A c \in Client : pc[c] = "refreshing" /\ answer[c] = NoAnswer =>
                           tokens.refresh \in valid
    /\ (up /\ \A c \in Caller : pc[c] \notin Busy) => stored = tokens

\* The inductive invariant behind it.

\* No granted token is on its way to memory or from there to the store.
Settled == \A c \in Client : pc[c] # "saving" /\ answer[c].word # "granted"

\* A refresh token that the server still accepts, or none.
IsAccepted(t) == t.refresh \in valid \cup {0}

\* The newest token, wherever it is on its way, comes with a refresh token that
\* the server accepts.
NewestIsAccepted ==
  /\ \A c \in Client : /\ answer[c].word = "granted" => IsAccepted(answer[c].grant)
                       /\ pc[c] = "saving" => IsAccepted(tokens)
  /\ Settled => /\ IsAccepted(stored)
                /\ up \/ pc[Setup] # "idle" => stored = tokens

RefreshesWithToken == \A c \in Client : pc[c] = "refreshing" => tokens.refresh # 0

TokenInv == RefreshesWithToken /\ (lost = 0 => NewestIsAccepted)

\* Nobody waits in vain: a caller that waits for the lock has a place in the queue, one,
\* and only a caller at work keeps the others waiting, however renewals and waits are
\* broken off (`async with self._refresh_lock`).
NobodyWaitsInVain ==
  /\ \A c \in Caller : (pc[c] = "waiting") <=> (\E i \in 1..Len(queue) : queue[i] = c)
  /\ \A i, j \in 1..Len(queue) : queue[i] = queue[j] => i = j
  /\ lock # Nobody => pc[lock] \in Busy

\* Every call ends, whatever breaks while it waits (ensure_valid_token).
EveryCallEnds == \A c \in Caller : (pc[c] # "idle") ~> (pc[c] = "idle")

\* Once interruptions stop and the password is right again, there is a good token
\* again and again: neither the cooldown nor a lost refresh token locks the
\* account out for good.
LoginRefusedNow == \E c \in Client : pc[c] = "login" /\ answer[c] = Refused

Recovers == <>[]~LoginRefusedNow => []<>(up /\ ~Expired)

\* The promise to the callers.
Service == INSTANCE TokenService
  WITH token <- tokens.access,
       expired <- stale,
       pending <- {c \in Caller : pc[c] # "idle"}

ServiceSpec == Service!Spec
=============================================================================
