------------------------- MODULE TokenRenewal_proofs -------------------------
(***************************************************************************)
(* Proofs about TokenRenewal, for every number of callers: that they share *)
(* one renewal and nobody waits for it in vain, that password logins keep  *)
(* their distance, and that the renewal implements TokenService.           *)
(***************************************************************************)
EXTENDS TokenRenewal, SequenceTheorems, TLAPS

-----------------------------------------------------------------------------
(* Types.                                                                  *)

LEMMA AnswersAre ==
  /\ NoAnswer \in Answers
  /\ Refused \in Answers
  /\ \A t \in Tokens : Granted(t) \in Answers
  /\ \A x \in Answers : x.word = "granted" => x.grant \in Tokens
  /\ NoAnswer.word = "none"
  /\ Refused.word = "refused"
  /\ \A t : Granted(t).word = "granted" /\ Granted(t).grant = t
<1>1. NoAnswer.word = "none" /\ Refused.word = "refused"
  BY DEF NoAnswer, Refused
<1>2. \A t : Granted(t).word = "granted" /\ Granted(t).grant = t
  BY DEF Granted
<1>3. ASSUME NEW x \in Answers, x.word = "granted"
      PROVE  x.grant \in Tokens
  <2>1. x # NoAnswer /\ x # Refused
    BY <1>1, <1>3
  <2>2. PICK t \in Tokens : x = Granted(t)
    BY <2>1 DEF Answers
  <2> QED BY <2>2, <1>2
<1>4. /\ NoAnswer \in Answers
      /\ Refused \in Answers
      /\ \A t \in Tokens : Granted(t) \in Answers
  BY DEF Answers
<1> QED BY <1>1, <1>2, <1>3, <1>4

LEMMA NoTokensType ==
  NoTokens \in Tokens /\ 0 \in Grant
BY TokenAssumption DEF NoTokens, Tokens, Grant, TokenAssumption

LEMMA TokensType ==
  ASSUME NEW t \in Tokens
  PROVE  t.access \in Grant /\ t.refresh \in Grant
BY DEF Tokens

LEMMA InitTypes == Init => StateOK
<1> SUFFICES ASSUME Init PROVE StateOK
  OBVIOUS
<1>1. answer \in [Client -> Answers]
  BY AnswersAre DEF Init
<1>2. /\ grants \in Grant
      /\ lost \in 0..MaxLost
      /\ given \in [Caller -> Grant]
      /\ stale \subseteq Grant
  BY NoTokensType, TokenAssumption DEF Init, TokenAssumption
<1> QED
  BY <1>1, <1>2, NoTokensType DEF Init, StateOK

LEMMA GotoType ==
  ASSUME StateOK, NEW c \in Client, NEW where \in Busy \cup {"idle", "waiting"},
         Goto(c, where)
  PROVE  /\ pc' \in [Client -> Busy \cup {"idle", "waiting"}]
         /\ answer' \in [Client -> Answers]
BY AnswersAre DEF StateOK, Goto

LEMMA EndType ==
  ASSUME StateOK, NEW c \in Client, NEW t \in Grant, End(c, t)
  PROVE  /\ pc' \in [Client -> Busy \cup {"idle", "waiting"}]
         /\ answer' \in [Client -> Answers]
         /\ lock' \in Caller \cup {Nobody}
         /\ given' \in [Caller -> Grant]
         /\ up' \in BOOLEAN
<1>1. Goto(c, "idle")
  BY DEF End
<1>2. lock' \in Caller \cup {Nobody}
  BY DEF End, Released, StateOK
<1>3. given' \in [Caller -> Grant]
  BY DEF End, StateOK
<1>4. up' \in BOOLEAN
  BY DEF End
<1> QED BY <1>1, <1>2, <1>3, <1>4, GotoType

LEMMA StartLoginType ==
  ASSUME StateOK, NEW c \in Client, StartLogin(c)
  PROVE  /\ pc' \in [Client -> Busy \cup {"idle", "waiting"}]
         /\ answer' \in [Client -> Answers]
         /\ lock' \in Caller \cup {Nobody}
         /\ given' \in [Caller -> Grant]
         /\ up' \in BOOLEAN
         /\ cooling' \in BOOLEAN
<1>1. Goto(c, "login") /\ "login" \in Busy
  BY DEF StartLogin, Busy, Requesting
<1>2. lock' \in Caller \cup {Nobody}
  BY DEF StartLogin, Locked, StateOK, Client
<1>3. cooling' \in BOOLEAN
  BY DEF StartLogin
<1> QED BY <1>1, <1>2, <1>3, GotoType DEF StartLogin, StateOK

LEMMA StartRenewalType ==
  ASSUME StateOK, NEW c \in Client, NEW t, StartRenewal(c, t)
  PROVE  /\ pc' \in [Client -> Busy \cup {"idle", "waiting"}]
         /\ answer' \in [Client -> Answers]
         /\ lock' \in Caller \cup {Nobody}
         /\ given' \in [Caller -> Grant]
         /\ up' \in BOOLEAN
         /\ cooling' \in BOOLEAN
<1>1. CASE StartLogin(c)
  BY <1>1, StartLoginType
<1>2. CASE ~StartLogin(c)
  <2>1. Goto(c, "refreshing") /\ "refreshing" \in Busy
    BY <1>2 DEF StartRenewal, Busy, Requesting
  <2>2. lock' \in Caller \cup {Nobody}
    BY <1>2 DEF StartRenewal, Locked, StateOK, Client
  <2> QED BY <1>2, <2>1, <2>2, GotoType DEF StartRenewal, StateOK
<1> QED BY <1>1, <1>2

LEMMA LockTakenType ==
  ASSUME StateOK, NEW c \in Caller, LockTaken(c)
  PROVE  /\ pc' \in [Client -> Busy \cup {"idle", "waiting"}]
         /\ answer' \in [Client -> Answers]
         /\ lock' \in Caller \cup {Nobody}
         /\ given' \in [Caller -> Grant]
         /\ up' \in BOOLEAN
         /\ cooling' \in BOOLEAN
<1>1. tokens.access \in Grant /\ 0 \in Grant /\ cooling \in BOOLEAN /\ c \in Client
  BY TokensType, NoTokensType DEF StateOK, Client
<1>2. CASE End(c, tokens.access) /\ UNCHANGED cooling
  BY <1>1, <1>2, EndType
<1>3. CASE End(c, 0) /\ UNCHANGED cooling
  BY <1>1, <1>3, EndType
<1>4. CASE StartRenewal(c, tokens)
  BY <1>1, <1>4, StartRenewalType
<1> QED BY <1>2, <1>3, <1>4 DEF LockTaken

LEMMA StepTypes == StateOK /\ [Next]_vars => StateOK'
<1> SUFFICES ASSUME StateOK, [Next]_vars PROVE StateOK'
  OBVIOUS
<1> USE DEF serverVars
<1>0. /\ tokens.access \in Grant /\ tokens.refresh \in Grant /\ 0 \in Grant
      /\ NoTokens \in Tokens
      /\ Caller \subseteq Client /\ Setup \in Client
  BY TokensType, NoTokensType DEF StateOK, Client
<1>1. ASSUME NEW c \in Caller, CallReturns(c) PROVE StateOK'
  BY <1>0, <1>1 DEF CallReturns, StateOK
<1>2. ASSUME NEW c \in Caller, CallRenews(c) PROVE StateOK'
  BY <1>2, LockTakenType DEF CallRenews, StateOK
<1>3. ASSUME NEW c \in Caller, CallWaits(c) PROVE StateOK'
  BY <1>0, <1>3, GotoType DEF CallWaits, StateOK
<1>4. ASSUME NEW c \in Caller, WaiterWakes(c) PROVE StateOK'
  BY <1>4, LockTakenType DEF WaiterWakes, StateOK
<1>5. CASE Boot
  <2>1. "discovering" \in Busy
    BY DEF Busy, Requesting
  <2> QED BY <1>0, <1>5, <2>1, GotoType DEF Boot, StateOK
<1>6. CASE Discovered
  <2>1. CASE End(Setup, tokens.access) /\ UNCHANGED cooling
    BY <1>0, <1>6, <2>1, EndType DEF Discovered, StateOK
  <2>2. CASE StartRenewal(Setup, tokens)
    BY <1>0, <1>6, <2>2, StartRenewalType DEF Discovered, StateOK
  <2> QED BY <1>6, <2>1, <2>2 DEF Discovered
<1>7. ASSUME NEW c \in Client, ServerRefreshes(c) PROVE StateOK'
  <2>1. grants' \in Grant /\ grants' = grants + 1
    BY <1>7, TokenAssumption DEF ServerRefreshes, StateOK, Grant, TokenAssumption
  <2>2. PICK r \in {tokens.refresh, grants + 1} :
          /\ valid' = (valid \ {tokens.refresh}) \cup {r}
          /\ answer' = [answer EXCEPT ![c] = Granted([access |-> grants + 1, refresh |-> r])]
    BY <1>7 DEF ServerRefreshes
  <2>3. r \in Grant /\ [access |-> grants + 1, refresh |-> r] \in Tokens
    BY <1>0, <2>1 DEF Tokens
  <2>4. valid' \subseteq Grant
    BY <2>2, <2>3 DEF StateOK
  <2>5. answer' \in [Client -> Answers]
    BY <2>2, <2>3, AnswersAre DEF StateOK
  <2> QED BY <1>7, <2>1, <2>4, <2>5 DEF ServerRefreshes, StateOK
<1>8. ASSUME NEW c \in Client, ServerLogsIn(c) PROVE StateOK'
  <2>1. grants' \in Grant /\ grants' = grants + 1
    BY <1>8, TokenAssumption DEF ServerLogsIn, StateOK, Grant, TokenAssumption
  <2>2. PICK r \in {0, grants + 1} :
          /\ valid' = valid \cup ({r} \ {0})
          /\ answer' = [answer EXCEPT ![c] = Granted([access |-> grants + 1, refresh |-> r])]
    BY <1>8 DEF ServerLogsIn
  <2>3. r \in Grant /\ [access |-> grants + 1, refresh |-> r] \in Tokens
    BY <1>0, <2>1 DEF Tokens
  <2>4. valid' \subseteq Grant
    BY <2>2, <2>3 DEF StateOK
  <2>5. answer' \in [Client -> Answers]
    BY <2>2, <2>3, AnswersAre DEF StateOK
  <2> QED BY <1>8, <2>1, <2>4, <2>5 DEF ServerLogsIn, StateOK
<1>9. ASSUME NEW c \in Client, ServerRefuses(c) PROVE StateOK'
  BY <1>9, AnswersAre DEF ServerRefuses, StateOK
<1>10. ASSUME NEW c \in Client, AnswerGranted(c) PROVE StateOK'
  <2>1. "saving" \in Busy /\ Goto(c, "saving")
    BY <1>10 DEF Busy, AnswerGranted
  <2>2. tokens' \in Tokens
    BY <1>10, AnswersAre DEF AnswerGranted, NewTokens, StateOK
  <2> QED BY <1>10, <2>1, <2>2, GotoType DEF AnswerGranted, StateOK
<1>11. ASSUME NEW c \in Client, RefreshRefused(c) PROVE StateOK'
  BY <1>11, StartLoginType DEF RefreshRefused, StateOK
<1>12. ASSUME NEW c \in Client, LoginRefused(c) PROVE StateOK'
  BY <1>0, <1>12, EndType DEF LoginRefused, StateOK
<1>13. ASSUME NEW c \in Client, Saved(c) PROVE StateOK'
  BY <1>0, <1>13, EndType DEF Saved, StateOK
<1>14. ASSUME NEW c \in Client, RequestBreaks(c) PROVE StateOK'
  BY <1>0, <1>14, EndType, TokenAssumption DEF RequestBreaks, StateOK, TokenAssumption
<1>15. ASSUME NEW c \in Caller, RenewerCancelled(c) PROVE StateOK'
  <2>1. stored' \in Tokens
    BY <1>15 DEF RenewerCancelled, SaveInterrupted, StateOK
  <2> QED BY <1>0, <1>15, <2>1, EndType, TokenAssumption
          DEF RenewerCancelled, StateOK, TokenAssumption
<1>16. ASSUME NEW c \in Caller, WaiterCancelled(c) PROVE StateOK'
  BY <1>0, <1>16, EndType DEF WaiterCancelled, StateOK
<1>17. CASE Restart
  <2>1. stored' \in Tokens /\ lost' \in 0..MaxLost
    BY <1>17, TokenAssumption DEF Restart, SaveInterrupted, StateOK, TokenAssumption
  <2>2. answer' \in [Client -> Answers]
    BY <1>17, AnswersAre DEF Restart
  <2> QED BY <1>0, <1>17, <2>1, <2>2 DEF Restart, StateOK
<1>18. CASE TokenExpires
  BY <1>0, <1>18 DEF TokenExpires, StateOK
<1>19. CASE CooldownEnds
  BY <1>19 DEF CooldownEnds, StateOK
<1>20. CASE UNCHANGED vars
  BY <1>20 DEF vars, StateOK
<1> QED
  BY <1>1, <1>2, <1>3, <1>4, <1>5, <1>6, <1>7, <1>8, <1>9, <1>10, <1>11, <1>12, <1>13,
     <1>14, <1>15, <1>16, <1>17, <1>18, <1>19, <1>20, TokenAssumption
  DEF Next, Call, ServerStep, ClientStep, TokenAssumption

-----------------------------------------------------------------------------
(* One renewal at a time.                                                  *)

\* Nothing but c is, or may come to be, at work on the token.
Alone(c) ==
  /\ c \in Caller => up /\ \A d \in Caller : pc[d] \in Busy => d = c
  /\ c = Setup => ~up

LEMMA NamesDiffer ==
  /\ "idle" \notin Busy
  /\ "waiting" \notin Busy
  /\ {"refreshing", "login", "saving", "discovering"} = Busy
  /\ Setup \notin Caller /\ Nobody \notin Caller /\ Nobody # Setup
  /\ Client = Caller \cup {Setup}
BY TokenAssumption DEF Busy, Requesting, TokenAssumption, Client

LEMMA GotoMovesOne ==
  ASSUME StateOK, NEW c \in Client, NEW where, Goto(c, where)
  PROVE  /\ pc'[c] = where
         /\ answer'[c] = NoAnswer
         /\ \A d \in Client \ {c} : pc'[d] = pc[d] /\ answer'[d] = answer[d]
BY DEF StateOK, Goto

\* A client at work is alone.
LEMMA BusyIsAlone ==
  ASSUME StateOK, RenewalInv, NEW c \in Client, pc[c] \in Busy
  PROVE  Alone(c)
BY NamesDiffer DEF RenewalInv, LockProtects, SetupIsAlone, Alone

\* And so is a caller that finds the lock free.
LEMMA FreeIsAlone ==
  ASSUME StateOK, RenewalInv, NEW c \in Caller, lock = Nobody, up
  PROVE  Alone(c)
BY NamesDiffer DEF RenewalInv, LockProtects, Alone

LEMMA OneRenewalFollows ==
  ASSUME StateOK, RenewalInv
  PROVE  OneRenewal
<1> SUFFICES ASSUME NEW c \in Client, NEW d \in Client, pc[c] \in Busy, pc[d] \in Busy
             PROVE  c = d
  BY DEF OneRenewal
<1>1. Alone(c) /\ Alone(d)
  BY BusyIsAlone
<1> QED BY <1>1, NamesDiffer DEF Alone

LEMMA InitInv == Init => RenewalInv
<1> SUFFICES ASSUME Init PROVE RenewalInv
  OBVIOUS
<1>1. LockProtects
  BY NamesDiffer DEF Init, LockProtects
<1>2. SetupIsAlone
  BY NamesDiffer DEF Init, SetupIsAlone
<1>3. RenewalIsDue
  BY NamesDiffer DEF Init, RenewalIsDue
<1>4. GrantsAreNew
  BY AnswersAre DEF Init, GrantsAreNew, NoTokens
<1> QED BY <1>1, <1>2, <1>3, <1>4 DEF RenewalInv

\* The token and its store are as they were, or the store has caught up.
TokenKept ==
  /\ UNCHANGED <<tokens, stale, grants>>
  /\ stored' = stored \/ stored' = tokens

LEMMA StoreStaysOld ==
  ASSUME GrantsAreNew, TokenKept,
         \A d \in Client : answer'[d] \in {answer[d], NoAnswer}
  PROVE  GrantsAreNew'
BY AnswersAre DEF GrantsAreNew, TokenKept

LEMMA EndKeepsInv ==
  ASSUME StateOK, RenewalInv, NEW c \in Client, NEW t \in Grant, End(c, t),
         c \in Caller => up, TokenKept, cooling' = cooling,
         queue' = queue \/ up'
  PROVE  RenewalInv'
<1>1. /\ pc'[c] = "idle"
      /\ answer'[c] = NoAnswer
      /\ \A d \in Client \ {c} : pc'[d] = pc[d] /\ answer'[d] = answer[d]
  BY GotoMovesOne DEF End
<1>2. LockProtects'
  BY <1>1, NamesDiffer DEF RenewalInv, LockProtects, End, Released
<1>3. SetupIsAlone'
  <2>1. CASE c = Setup
    BY <1>1, <2>1, NamesDiffer DEF RenewalInv, SetupIsAlone, End
  <2>2. CASE c \in Caller
    BY <1>1, <2>2, NamesDiffer DEF RenewalInv, SetupIsAlone, End
  <2> QED BY <2>1, <2>2, NamesDiffer
<1>4. RenewalIsDue'
  BY <1>1, NamesDiffer DEF RenewalInv, RenewalIsDue, TokenKept, Expired
<1>5. GrantsAreNew'
  BY <1>1, StoreStaysOld DEF RenewalInv
<1> QED BY <1>2, <1>3, <1>4, <1>5 DEF RenewalInv

LEMMA StartKeepsInv ==
  ASSUME StateOK, RenewalInv, NEW c \in Client, Alone(c), Expired,
         NEW where \in {"refreshing", "login"}, Goto(c, where),
         lock' = Locked(c), UNCHANGED <<up, given>>, TokenKept,
         where = "refreshing" => cooling' = cooling /\ (c \in Caller => ~cooling),
         c = Setup => cooling' = cooling,
         queue' = queue \/ up
  PROVE  RenewalInv'
<1>1. /\ pc'[c] = where
      /\ answer'[c] = NoAnswer
      /\ \A d \in Client \ {c} : pc'[d] = pc[d] /\ answer'[d] = answer[d]
  BY GotoMovesOne
<1>2. LockProtects'
  BY <1>1, NamesDiffer DEF RenewalInv, LockProtects, Locked, Alone
<1>3. SetupIsAlone'
  BY <1>1, NamesDiffer DEF RenewalInv, SetupIsAlone, Alone
<1>4. RenewalIsDue'
  <2>1. \A d \in Client : /\ pc'[d] \in {"refreshing", "login"} => Expired'
                          /\ pc'[d] \notin {"refreshing", "login"} => answer'[d] = NoAnswer
    BY <1>1 DEF RenewalInv, RenewalIsDue, TokenKept, Expired
  <2>2. ASSUME NEW d \in Caller, pc'[d] = "refreshing"
        PROVE  ~cooling'
    <3>1. CASE d = c
      BY <1>1, <2>2, <3>1
    <3>2. CASE d # c
      <4>1. pc[d] = "refreshing"
        BY <1>1, <2>2, <3>2, NamesDiffer
      <4>2. c = Setup
        BY <3>2, <4>1, NamesDiffer DEF Alone
      <4> QED BY <4>1, <4>2 DEF RenewalInv, RenewalIsDue
    <3> QED BY <3>1, <3>2
  <2>3. \A d \in Caller : pc'[d] = "refreshing" => ~cooling'
    BY <2>2
  <2> QED BY <2>1, <2>3, Zenon DEF RenewalIsDue
<1>5. GrantsAreNew'
  BY <1>1, StoreStaysOld DEF RenewalInv
<1> QED BY <1>2, <1>3, <1>4, <1>5 DEF RenewalInv

\* Whoever got the lock, with the queue of those behind.
LEMMA LockTakenKeepsInv ==
  ASSUME StateOK, RenewalInv, NEW c \in Caller, LockTaken(c), lock = Nobody, up,
         UNCHANGED <<tokens, stored, stale, grants>>
  PROVE  RenewalInv'
<1>1. Alone(c) /\ c \in Client /\ TokenKept /\ c # Setup
  BY FreeIsAlone, NamesDiffer DEF TokenKept
<1>2. tokens.access \in Grant /\ 0 \in Grant
  BY TokensType, NoTokensType DEF StateOK
<1>3. ASSUME NEW t \in Grant, End(c, t), UNCHANGED cooling
      PROVE  RenewalInv'
  <2>1. up'
    BY <1>3 DEF End
  <2> QED BY <1>1, <1>3, <2>1, EndKeepsInv
<1>4. ASSUME StillExpired, ~cooling, StartRenewal(c, tokens)
      PROVE  RenewalInv'
  <2>1. Expired
    BY <1>4 DEF StillExpired
  <2>2. CASE StartLogin(c)
    BY <1>1, <2>1, <2>2, StartKeepsInv DEF StartLogin
  <2>3. CASE ~StartLogin(c)
    BY <1>1, <1>4, <2>1, <2>3, StartKeepsInv DEF StartRenewal
  <2> QED BY <2>2, <2>3
<1> QED BY <1>2, <1>3, <1>4 DEF LockTaken

\* A step that leaves the clients where they are.
LEMMA QuietKeepsInv ==
  ASSUME StateOK, RenewalInv, UNCHANGED <<tokens, stored, grants, up, pc, answer, lock>>,
         stale \subseteq stale',
         cooling' => cooling,
         \A c \in Caller : given'[c] = given[c] \/ up,
         queue' = queue
  PROVE  RenewalInv'
<1>1. LockProtects'
  BY DEF RenewalInv, LockProtects
<1>2. SetupIsAlone'
  BY DEF RenewalInv, SetupIsAlone
<1>3. RenewalIsDue'
  BY DEF RenewalInv, RenewalIsDue, Expired
<1>4. GrantsAreNew'
  BY DEF RenewalInv, GrantsAreNew
<1> QED BY <1>1, <1>2, <1>3, <1>4 DEF RenewalInv

\* The server answers c, with a token or a refusal.
LEMMA ServerKeepsInv ==
  ASSUME StateOK, RenewalInv, NEW c \in Client, pc[c] \in {"refreshing", "login"},
         NEW x \in Answers, answer' = [answer EXCEPT ![c] = x],
         x.word = "granted" => x.grant.access = grants + 1 /\ grants' = grants + 1,
         grants' \in {grants, grants + 1},
         UNCHANGED <<tokens, stored, stale, cooling, up, pc, lock, queue, given>>
  PROVE  RenewalInv'
<1>0. /\ answer'[c] = x
      /\ \A d \in Client \ {c} : answer'[d] = answer[d]
  BY DEF StateOK
<1>1. LockProtects'
  BY DEF RenewalInv, LockProtects
<1>2. SetupIsAlone'
  BY DEF RenewalInv, SetupIsAlone
<1>3. RenewalIsDue'
  BY <1>0 DEF RenewalInv, RenewalIsDue, Expired
<1>4. GrantsAreNew'
  <2>1. /\ grants \in Nat /\ tokens.access \in Nat /\ stored.access \in Nat
        /\ tokens.access <= grants /\ stored.access <= grants
    BY TokensType, TokenAssumption
    DEF StateOK, RenewalInv, GrantsAreNew, Grant, TokenAssumption
  <2>2. tokens'.access <= grants' /\ stored'.access <= grants'
    BY <2>1
  <2>3. ASSUME NEW d \in Client, answer'[d].word = "granted"
        PROVE  answer'[d].grant.access \in (tokens'.access + 1)..grants'
    <3>1. CASE d = c
      BY <1>0, <2>1, <2>3, <3>1
    <3>2. CASE d # c
      BY <1>0, <2>1, <2>3, <3>2 DEF RenewalInv, GrantsAreNew
    <3> QED BY <3>1, <3>2
  <2> QED BY <2>2, <2>3 DEF GrantsAreNew
<1> QED BY <1>1, <1>2, <1>3, <1>4 DEF RenewalInv

LEMMA AnswerGrantedKeepsInv ==
  ASSUME StateOK, RenewalInv, NEW c \in Client, AnswerGranted(c)
  PROVE  RenewalInv'
<1>0. /\ pc'[c] = "saving"
      /\ answer'[c] = NoAnswer
      /\ \A d \in Client \ {c} : pc'[d] = pc[d] /\ answer'[d] = answer[d]
  BY GotoMovesOne DEF AnswerGranted
<1>1. pc[c] \in Busy /\ Alone(c) /\ "saving" \in Busy
  BY BusyIsAlone, NamesDiffer DEF AnswerGranted
<1>2. LockProtects'
  BY <1>0, <1>1, NamesDiffer DEF RenewalInv, LockProtects, AnswerGranted
<1>3. SetupIsAlone'
  BY <1>0, <1>1, NamesDiffer DEF RenewalInv, SetupIsAlone, Alone, AnswerGranted
<1>4. \A d \in Client \ {c} : pc[d] \notin Busy
  <2>1. OneRenewal
    BY OneRenewalFollows
  <2> QED BY <1>1, <2>1 DEF OneRenewal
<1>5. ASSUME NEW d \in Client
      PROVE  pc'[d] \notin {"refreshing", "login"} /\ answer'[d] = NoAnswer
  <2>1. CASE d = c
    BY <1>0, <2>1
  <2>2. CASE d # c
    <3>1. pc[d] \notin {"refreshing", "login"}
      BY <1>4, <2>2, NamesDiffer
    <3> QED BY <1>0, <2>2, <3>1 DEF RenewalInv, RenewalIsDue
  <2> QED BY <2>1, <2>2
<1>6. RenewalIsDue'
  BY <1>5, NamesDiffer DEF RenewalIsDue
<1>7. GrantsAreNew'
  <2>1. /\ tokens'.access \in (tokens.access + 1)..grants
        /\ grants' = grants /\ stored' = stored
    BY DEF RenewalInv, GrantsAreNew, AnswerGranted, NewTokens, serverVars
  <2>2. tokens.access \in Nat /\ grants \in Nat
    BY TokensType, TokenAssumption DEF StateOK, Grant, TokenAssumption
  <2>3. tokens'.access <= grants'
    BY <2>1, <2>2
  <2> QED BY <1>5, <2>1, <2>3, AnswersAre DEF RenewalInv, GrantsAreNew
<1> QED BY <1>2, <1>3, <1>6, <1>7 DEF RenewalInv

LEMMA RestartKeepsInv ==
  ASSUME StateOK, RenewalInv, Restart
  PROVE  RenewalInv'
<1>1. \A d \in Client : pc'[d] = "idle" /\ answer'[d] = NoAnswer
  BY DEF Restart
<1>2. LockProtects'
  BY <1>1, NamesDiffer DEF LockProtects
<1>3. SetupIsAlone'
  BY <1>1, NamesDiffer DEF SetupIsAlone, Restart
<1>4. RenewalIsDue'
  BY <1>1, NamesDiffer DEF RenewalIsDue
<1>5. GrantsAreNew'
  <2>1. tokens'.access = 0 /\ grants' = grants /\ grants \in Nat
    BY TokenAssumption DEF Restart, NoTokens, StateOK, Grant, TokenAssumption, serverVars
  <2>2. stored' \in {stored, tokens}
    BY DEF Restart, SaveInterrupted
  <2> QED BY <1>1, <2>1, <2>2, AnswersAre DEF RenewalInv, GrantsAreNew
<1> QED BY <1>2, <1>3, <1>4, <1>5 DEF RenewalInv

LEMMA BootKeepsInv ==
  ASSUME StateOK, RenewalInv, Boot
  PROVE  RenewalInv'
<1>0. /\ pc'[Setup] = "discovering"
      /\ answer'[Setup] = NoAnswer
      /\ \A d \in Client \ {Setup} : pc'[d] = pc[d] /\ answer'[d] = answer[d]
  BY GotoMovesOne, NamesDiffer DEF Boot
<1>1. \A d \in Caller : pc'[d] = "idle" /\ d # Setup
  BY <1>0, NamesDiffer DEF Boot, RenewalInv, SetupIsAlone
<1>2. LockProtects'
  BY <1>1, NamesDiffer DEF LockProtects
<1>3. SetupIsAlone'
  BY <1>1, NamesDiffer DEF Boot, RenewalInv, SetupIsAlone
<1>4. \A d \in Client : pc'[d] \notin {"refreshing", "login"} /\ answer'[d] = NoAnswer
  BY <1>0, <1>1, NamesDiffer DEF RenewalInv, RenewalIsDue
<1>5. RenewalIsDue'
  BY <1>4, NamesDiffer DEF RenewalIsDue
<1>6. GrantsAreNew'
  BY <1>4, AnswersAre DEF Boot, RenewalInv, GrantsAreNew, serverVars
<1> QED BY <1>2, <1>3, <1>5, <1>6 DEF RenewalInv

LEMMA StepInv ==
  ASSUME StateOK, RenewalInv, [Next]_vars
  PROVE  RenewalInv'
<1> USE DEF serverVars
<1>0. /\ tokens.access \in Grant /\ 0 \in Grant
      /\ Caller \subseteq Client /\ Setup \in Client
      /\ \A c \in Client : pc[c] # "idle" /\ c \in Caller => up
      /\ queue # << >> => up
  BY TokensType, NoTokensType, NamesDiffer DEF StateOK, RenewalInv, SetupIsAlone
<1>1. ASSUME NEW c \in Caller, CallReturns(c) PROVE RenewalInv'
  <2>1. \A d \in Caller : given'[d] = given[d] \/ up
    BY <1>1 DEF CallReturns
  <2> QED BY <1>1, <2>1, QuietKeepsInv DEF CallReturns
<1>2. ASSUME NEW c \in Caller, CallRenews(c) PROVE RenewalInv'
  BY <1>2, LockTakenKeepsInv DEF CallRenews, LockIsFree
<1>3. ASSUME NEW c \in Caller, CallWaits(c) PROVE RenewalInv'
  <2>1. /\ pc'[c] = "waiting"
        /\ answer'[c] = NoAnswer
        /\ \A d \in Client \ {c} : pc'[d] = pc[d] /\ answer'[d] = answer[d]
    BY <1>0, <1>3, GotoMovesOne DEF CallWaits
  <2>2. LockProtects'
    BY <1>0, <1>3, <2>1, NamesDiffer DEF RenewalInv, LockProtects, CallWaits
  <2>3. SetupIsAlone'
    BY <1>0, <1>3, <2>1, NamesDiffer DEF RenewalInv, SetupIsAlone, CallWaits
  <2>4. RenewalIsDue'
    BY <1>0, <1>3, <2>1 DEF RenewalInv, RenewalIsDue, Expired, CallWaits
  <2>5. TokenKept /\ \A d \in Client : answer'[d] \in {answer[d], NoAnswer}
    BY <1>3, <2>1 DEF CallWaits, TokenKept
  <2> QED BY <2>2, <2>3, <2>4, <2>5, StoreStaysOld DEF RenewalInv
<1>4. ASSUME NEW c \in Caller, WaiterWakes(c) PROVE RenewalInv'
  BY <1>0, <1>4, LockTakenKeepsInv DEF WaiterWakes
<1>5. CASE Boot
  BY <1>5, BootKeepsInv
<1>6. CASE Discovered
  <2>1. TokenKept /\ queue' = queue /\ Setup \notin Caller /\ pc[Setup] \in Busy
    BY <1>6, NamesDiffer DEF Discovered, TokenKept
  <2>2. CASE End(Setup, tokens.access) /\ UNCHANGED cooling
    BY <1>0, <2>1, <2>2, EndKeepsInv
  <2>3. CASE Expired /\ StartRenewal(Setup, tokens)
    <3>1. Alone(Setup)
      BY <1>0, <2>1, BusyIsAlone
    <3>2. CASE StartLogin(Setup)
      <4>1. cooling' = cooling
        BY <3>2 DEF StartLogin, StateOK
      <4> QED BY <1>0, <2>1, <2>3, <3>1, <3>2, <4>1, StartKeepsInv DEF StartLogin
    <3>3. CASE ~StartLogin(Setup)
      BY <1>0, <2>1, <2>3, <3>1, <3>3, StartKeepsInv DEF StartRenewal
    <3> QED BY <3>2, <3>3
  <2> QED BY <1>6, <2>2, <2>3 DEF Discovered
<1>7. ASSUME NEW c \in Client, ServerRefreshes(c) PROVE RenewalInv'
  <2>1. grants' = grants + 1 /\ grants' \in Grant
    BY <1>7, TokenAssumption DEF ServerRefreshes, StateOK, Grant, TokenAssumption
  <2>2. PICK r \in {tokens.refresh, grants + 1} :
          answer' = [answer EXCEPT ![c] = Granted([access |-> grants + 1, refresh |-> r])]
    BY <1>7 DEF ServerRefreshes
  <2>3. [access |-> grants + 1, refresh |-> r] \in Tokens
    BY <2>1, TokensType DEF Tokens, StateOK
  <2> DEFINE x == Granted([access |-> grants + 1, refresh |-> r])
  <2>4. /\ x \in Answers
        /\ x.grant.access = grants + 1
        /\ answer' = [answer EXCEPT ![c] = x]
    BY <2>2, <2>3, AnswersAre
  <2>5. /\ pc[c] \in {"refreshing", "login"}
        /\ UNCHANGED <<tokens, stored, stale, cooling, up, pc, lock, queue, given>>
    BY <1>7 DEF ServerRefreshes
  <2> HIDE DEF x
  <2> QED BY <2>1, <2>4, <2>5, ServerKeepsInv
<1>8. ASSUME NEW c \in Client, ServerLogsIn(c) PROVE RenewalInv'
  <2>1. grants' = grants + 1 /\ grants' \in Grant
    BY <1>8, TokenAssumption DEF ServerLogsIn, StateOK, Grant, TokenAssumption
  <2>2. PICK r \in {0, grants + 1} :
          answer' = [answer EXCEPT ![c] = Granted([access |-> grants + 1, refresh |-> r])]
    BY <1>8 DEF ServerLogsIn
  <2>3. [access |-> grants + 1, refresh |-> r] \in Tokens
    BY <1>0, <2>1 DEF Tokens
  <2> DEFINE x == Granted([access |-> grants + 1, refresh |-> r])
  <2>4. /\ x \in Answers
        /\ x.grant.access = grants + 1
        /\ answer' = [answer EXCEPT ![c] = x]
    BY <2>2, <2>3, AnswersAre
  <2>5. /\ pc[c] \in {"refreshing", "login"}
        /\ UNCHANGED <<tokens, stored, stale, cooling, up, pc, lock, queue, given>>
    BY <1>8 DEF ServerLogsIn
  <2> HIDE DEF x
  <2> QED BY <2>1, <2>4, <2>5, ServerKeepsInv
<1>9. ASSUME NEW c \in Client, ServerRefuses(c) PROVE RenewalInv'
  BY <1>9, AnswersAre, ServerKeepsInv DEF ServerRefuses
<1>10. ASSUME NEW c \in Client, AnswerGranted(c) PROVE RenewalInv'
  BY <1>10, AnswerGrantedKeepsInv
<1>11. ASSUME NEW c \in Client, RefreshRefused(c) PROVE RenewalInv'
  <2>1. Alone(c) /\ Expired /\ TokenKept
    BY <1>11, BusyIsAlone, NamesDiffer
    DEF RefreshRefused, RenewalInv, RenewalIsDue, TokenKept
  <2>2. c = Setup => cooling' = cooling
    BY <1>11 DEF RefreshRefused, StartLogin, StateOK
  <2> QED BY <1>11, <2>1, <2>2, StartKeepsInv DEF RefreshRefused, StartLogin
<1>12. ASSUME NEW c \in Client, LoginRefused(c) PROVE RenewalInv'
  BY <1>0, <1>12, EndKeepsInv DEF LoginRefused, TokenKept
<1>13. ASSUME NEW c \in Client, Saved(c) PROVE RenewalInv'
  BY <1>0, <1>13, EndKeepsInv DEF Saved, TokenKept
<1>14. ASSUME NEW c \in Client, RequestBreaks(c) PROVE RenewalInv'
  <2>1. pc[c] # "idle"
    BY <1>14 DEF RequestBreaks, Requesting
  <2> QED BY <1>0, <1>14, <2>1, EndKeepsInv DEF RequestBreaks, TokenKept
<1>15. ASSUME NEW c \in Caller, RenewerCancelled(c) PROVE RenewalInv'
  <2>1. up /\ TokenKept
    BY <1>0, <1>15, NamesDiffer DEF RenewerCancelled, SaveInterrupted, TokenKept
  <2> QED BY <1>0, <1>15, <2>1, EndKeepsInv DEF RenewerCancelled
<1>16. ASSUME NEW c \in Caller, WaiterCancelled(c) PROVE RenewalInv'
  <2>1. up /\ up' /\ TokenKept
    BY <1>0, <1>16 DEF WaiterCancelled, TokenKept, End
  <2> QED BY <1>0, <1>16, <2>1, EndKeepsInv DEF WaiterCancelled
<1>17. CASE Restart
  BY <1>17, RestartKeepsInv
<1>18. CASE TokenExpires
  BY <1>18, QuietKeepsInv DEF TokenExpires
<1>19. CASE CooldownEnds
  BY <1>19, QuietKeepsInv DEF CooldownEnds
<1>20. CASE UNCHANGED vars
  BY <1>20, QuietKeepsInv DEF vars
<1> QED
  BY <1>1, <1>2, <1>3, <1>4, <1>5, <1>6, <1>7, <1>8, <1>9, <1>10, <1>11, <1>12, <1>13,
     <1>14, <1>15, <1>16, <1>17, <1>18, <1>19, <1>20, TokenAssumption
  DEF Next, Call, ServerStep, ClientStep, TokenAssumption

LEMMA Invariant == Spec => [](StateOK /\ RenewalInv)
<1>1. Init => StateOK /\ RenewalInv
  BY InitTypes, InitInv
<1>2. StateOK /\ RenewalInv /\ [Next]_vars => (StateOK /\ RenewalInv)'
  BY StepTypes, StepInv
<1> QED BY <1>1, <1>2, PTL DEF Spec

\* A renewal belongs to one client, is made for an expired token and yields a new
\* one (ensure_valid_token, authenticate).
THEOREM RenewalIsOwned == Spec => []RenewalInv
BY Invariant, PTL

\* However many callers find the token expired, one of them renews it
\* (ensure_valid_token).
THEOREM CallersShareOneRenewal == Spec => []OneRenewal
<1>1. StateOK /\ RenewalInv => OneRenewal
  BY OneRenewalFollows
<1> QED BY <1>1, Invariant, PTL

-----------------------------------------------------------------------------
(* The queue in front of the lock.                                         *)

QueueInv == queue \in Seq(Caller) /\ NobodyWaitsInVain

\* Only those that wait are in the queue, so what others do does not disturb it.
LEMMA QueueStays ==
  ASSUME StateOK, QueueInv, UNCHANGED queue,
         \A d \in Caller : (pc'[d] = "waiting") <=> (pc[d] = "waiting"),
         lock' # Nobody => pc'[lock'] \in Busy
  PROVE  QueueInv'
BY DEF QueueInv, NobodyWaitsInVain

\* A call that ends frees the lock or does not hold it.
LEMMA EndFrees ==
  ASSUME StateOK, QueueInv, NEW c \in Client, NEW t, End(c, t)
  PROVE  /\ pc'[c] = "idle"
         /\ \A d \in Client \ {c} : pc'[d] = pc[d]
         /\ lock' # Nobody => pc'[lock'] \in Busy
<1>1. pc'[c] = "idle" /\ \A d \in Client \ {c} : pc'[d] = pc[d]
  BY GotoMovesOne DEF End
<1>2. ASSUME lock' # Nobody PROVE pc'[lock'] \in Busy
  <2>1. lock' = lock /\ lock # c /\ lock # Nobody
    BY <1>2 DEF End, Released
  <2>2. pc[lock] \in Busy /\ lock \in Client
    BY <2>1 DEF QueueInv, NobodyWaitsInVain, StateOK, Client
  <2> QED BY <1>1, <2>1, <2>2
<1> QED BY <1>1, <1>2

\* A client that starts to renew is at work, and is the one that holds the lock if the
\* lock was free.
LEMMA StartWorks ==
  ASSUME StateOK, QueueInv, NEW c \in Client, NEW t, StartRenewal(c, t) \/ StartLogin(c),
         c \in Caller => lock \in {Nobody, c}
  PROVE  /\ pc'[c] \in Busy
         /\ \A d \in Client \ {c} : pc'[d] = pc[d]
         /\ lock' # Nobody => pc'[lock'] \in Busy
<1>1. PICK where \in Busy : Goto(c, where)
  BY DEF StartRenewal, StartLogin, Busy, Requesting
<1>2. pc'[c] \in Busy /\ \A d \in Client \ {c} : pc'[d] = pc[d]
  BY <1>1, GotoMovesOne
<1>3. lock' = Locked(c)
  BY DEF StartRenewal, StartLogin
<1>4. ASSUME lock' # Nobody PROVE pc'[lock'] \in Busy
  <2>1. CASE c = Setup
    <3>1. lock \in Client /\ pc[lock] \in Busy /\ lock' = lock
      BY <1>3, <1>4, <2>1 DEF Locked, QueueInv, NobodyWaitsInVain, StateOK, Client
    <3> QED BY <1>2, <3>1
  <2>2. CASE c # Setup
    BY <1>2, <1>3, <2>2 DEF Locked
  <2> QED BY <2>1, <2>2
<1> QED BY <1>2, <1>4

\* Whoever took the lock works or has left it.
LEMMA LockTakenWorks ==
  ASSUME StateOK, QueueInv, NEW c \in Caller, lock = Nobody, LockTaken(c)
  PROVE  /\ pc'[c] \in Busy \cup {"idle"}
         /\ \A d \in Client \ {c} : pc'[d] = pc[d]
         /\ lock' # Nobody => pc'[lock'] \in Busy
<1>1. c \in Client
  BY DEF Client
<1>2. ASSUME NEW t, End(c, t)
      PROVE  /\ pc'[c] \in Busy \cup {"idle"}
             /\ \A d \in Client \ {c} : pc'[d] = pc[d]
             /\ lock' # Nobody => pc'[lock'] \in Busy
  BY <1>1, <1>2, EndFrees
<1>3. CASE StartRenewal(c, tokens)
  BY <1>1, <1>3, StartWorks
<1> QED BY <1>2, <1>3 DEF LockTaken

\* The last in the queue.
LEMMA AppendKeepsQueue ==
  ASSUME QueueInv, NEW c \in Caller, pc[c] # "waiting", queue' = Append(queue, c),
         UNCHANGED lock, pc'[c] = "waiting", pc[c] \notin Busy,
         \A d \in Client \ {c} : pc'[d] = pc[d], lock \in Caller \cup {Nobody}
  PROVE  QueueInv'
<1> DEFINE n == Len(queue)
<1>1. queue \in Seq(Caller) /\ n \in Nat
  BY DEF QueueInv
<1>2. queue' \in Seq(Caller) /\ Len(queue') = n + 1 /\ queue'[n + 1] = c
  BY <1>1
<1>3. \A i \in 1..n : queue'[i] = queue[i]
  BY <1>1
<1>4. \A i \in 1..n : queue[i] \in Caller /\ queue[i] # c
  BY <1>1 DEF QueueInv, NobodyWaitsInVain
<1>5. \A i, j \in 1..Len(queue') : queue'[i] = queue'[j] => i = j
  <2> SUFFICES ASSUME NEW i \in 1..(n + 1), NEW j \in 1..(n + 1), queue'[i] = queue'[j]
               PROVE  i = j
    BY <1>2
  <2>1. CASE i = n + 1 \/ j = n + 1
    BY <1>2, <1>3, <1>4, <2>1
  <2>2. CASE i # n + 1 /\ j # n + 1
    <3>1. i \in 1..n /\ j \in 1..n
      BY <1>1, <2>2
    <3> QED BY <1>3, <3>1 DEF QueueInv, NobodyWaitsInVain
  <2> QED BY <2>1, <2>2
<1>6. ASSUME NEW d \in Caller
      PROVE  (pc'[d] = "waiting") <=> (\E i \in 1..Len(queue') : queue'[i] = d)
  <2>1. CASE d = c
    <3>1. n + 1 \in 1..Len(queue')
      BY <1>1, <1>2
    <3> QED BY <1>2, <2>1, <3>1
  <2>2. CASE d # c
    <3>1. (pc'[d] = "waiting") <=> (\E i \in 1..n : queue[i] = d)
      BY <2>2 DEF QueueInv, NobodyWaitsInVain, Client
    <3>2. ASSUME NEW i \in 1..n, queue[i] = d PROVE \E j \in 1..Len(queue') : queue'[j] = d
      <4>1. i \in 1..Len(queue')
        BY <1>1, <1>2
      <4> QED BY <1>3, <3>2, <4>1
    <3>3. ASSUME NEW j \in 1..Len(queue'), queue'[j] = d PROVE \E i \in 1..n : queue[i] = d
      <4>1. j \in 1..n
        BY <1>1, <1>2, <2>2, <3>3
      <4> QED BY <1>3, <3>3, <4>1
    <3> QED BY <3>1, <3>2, <3>3
  <2> QED BY <2>1, <2>2
<1>7. lock' # Nobody => pc'[lock'] \in Busy
  BY DEF QueueInv, NobodyWaitsInVain, Client
<1> QED BY <1>2, <1>5, <1>6, <1>7 DEF QueueInv, NobodyWaitsInVain

\* Where those behind the k-th place of n stand when it is given up.
LEMMA PlacesShift ==
  ASSUME NEW n \in Nat, NEW k \in 1..n
  PROVE  /\ (k - 1) + (n - k) = n - 1
         /\ \A i \in 1..(n - 1) :
              /\ i <= k - 1 => i \in 1..(k - 1) /\ i \in 1..n /\ i # k
              /\ ~(i <= k - 1) => /\ i - (k - 1) \in 1..(n - k)
                                 /\ (i - (k - 1)) + k = i + 1
                                 /\ i + 1 \in 1..n
                                 /\ i + 1 # k
OBVIOUS

\* One leaves the queue, from wherever it stands.
LEMMA LeavingKeepsQueue ==
  ASSUME QueueInv, NEW k \in 1..Len(queue),
         queue' = SubSeq(queue, 1, k - 1) \o SubSeq(queue, k + 1, Len(queue)),
         pc'[queue[k]] # "waiting",
         \A d \in Caller \ {queue[k]} : pc'[d] = pc[d],
         lock' # Nobody => pc'[lock'] \in Busy
  PROVE  QueueInv'
<1> DEFINE n == Len(queue)
           front == SubSeq(queue, 1, k - 1)
           back == SubSeq(queue, k + 1, n)
           Old(i) == IF i <= k - 1 THEN i ELSE i + 1
<1>1. queue \in Seq(Caller) /\ n \in Nat
  BY DEF QueueInv
<1>2. front \in Seq(Caller) /\ Len(front) = k - 1
  BY <1>1
<1>3. back \in Seq(Caller) /\ Len(back) = n - k
  BY <1>1
<1>4. \A i \in 1..(k - 1) : front[i] = queue[i]
  BY <1>1
<1>5. \A i \in 1..(n - k) : back[i] = queue[i + k]
  BY <1>1
<1>6. /\ queue' \in Seq(Caller)
      /\ Len(queue') = (k - 1) + (n - k)
      /\ \A i \in 1..((k - 1) + (n - k)) :
           queue'[i] = IF i <= k - 1 THEN front[i] ELSE back[i - (k - 1)]
  <2> HIDE DEF front, back
  <2>1. queue' = front \o back
    BY DEF front, back
  <2>2. /\ front \o back \in Seq(Caller)
        /\ Len(front \o back) = Len(front) + Len(back)
        /\ \A i \in 1..(Len(front) + Len(back)) :
             (front \o back)[i] = IF i <= Len(front) THEN front[i] ELSE back[i - Len(front)]
    <3>1. front \in Seq(Caller) /\ back \in Seq(Caller)
      BY <1>2, <1>3
    <3> QED BY <3>1, ConcatProperties
  <2> QED BY <1>2, <1>3, <2>1, <2>2
<1> HIDE DEF front, back
<1>7. n \in Nat /\ k \in 1..n
  BY <1>1
<1>8. Len(queue') = n - 1
  BY <1>6, <1>7, PlacesShift
<1>9. ASSUME NEW i \in 1..(n - 1)
      PROVE  queue'[i] = queue[Old(i)] /\ Old(i) \in 1..n /\ Old(i) # k
  <2> HIDE DEF n
  <2>0. queue'[i] = IF i <= k - 1 THEN front[i] ELSE back[i - (k - 1)]
    BY <1>6, <1>7, PlacesShift
  <2>1. CASE i <= k - 1
    <3>1. i \in 1..(k - 1) /\ i \in 1..n /\ i # k
      BY <1>7, <2>1, PlacesShift
    <3> QED BY <1>4, <2>0, <2>1, <3>1
  <2>2. CASE ~(i <= k - 1)
    <3>1. /\ i - (k - 1) \in 1..(n - k)
          /\ (i - (k - 1)) + k = i + 1
          /\ i + 1 \in 1..n
          /\ i + 1 # k
      BY <1>7, <2>2, PlacesShift
    <3>2. back[i - (k - 1)] = queue[(i - (k - 1)) + k]
      BY <1>5, <3>1
    <3> QED BY <2>0, <2>2, <3>1, <3>2
  <2> QED BY <2>1, <2>2
<1>10. \A i, j \in 1..(n - 1) : Old(i) = Old(j) => i = j
  BY <1>1
<1>11. \A m \in 1..n : m # k => \E i \in 1..(n - 1) : Old(i) = m
  <2> SUFFICES ASSUME NEW m \in 1..n, m # k PROVE \E i \in 1..(n - 1) : Old(i) = m
    OBVIOUS
  <2>1. CASE m <= k - 1
    <3>1. m \in 1..(n - 1) /\ Old(m) = m
      BY <1>1, <2>1
    <3> QED BY <3>1
  <2>2. CASE ~(m <= k - 1)
    <3>1. m - 1 \in 1..(n - 1) /\ Old(m - 1) = m
      BY <1>1, <2>2
    <3> QED BY <3>1
  <2> QED BY <2>1, <2>2
<1> HIDE DEF Old
<1>12. \A i, j \in 1..n : (queue[i] = queue[j]) => (i = j)
  BY DEF QueueInv, NobodyWaitsInVain
<1>13. \A i, j \in 1..Len(queue') : queue'[i] = queue'[j] => i = j
  <2> SUFFICES ASSUME NEW i \in 1..(n - 1), NEW j \in 1..(n - 1), queue'[i] = queue'[j]
               PROVE  i = j
    BY <1>8
  <2>1. queue[Old(i)] = queue[Old(j)] /\ Old(i) \in 1..n /\ Old(j) \in 1..n
    BY <1>9
  <2>2. Old(i) = Old(j)
    BY <1>12, <2>1
  <2> QED BY <1>10, <2>2
<1>14. ASSUME NEW d \in Caller
       PROVE  (pc'[d] = "waiting") <=> (\E i \in 1..Len(queue') : queue'[i] = d)
  <2>1. (pc[d] = "waiting") <=> (\E m \in 1..n : queue[m] = d)
    BY DEF QueueInv, NobodyWaitsInVain
  <2>2. CASE d = queue[k]
    <3>1. ASSUME NEW i \in 1..(n - 1) PROVE queue'[i] # d
      <4>1. queue'[i] = queue[Old(i)] /\ Old(i) \in 1..n /\ Old(i) # k
        BY <1>9, <3>1
      <4> QED BY <1>7, <1>12, <2>2, <4>1
    <3> QED BY <1>8, <2>2, <3>1
  <2>3. CASE d # queue[k]
    <3>1. pc'[d] = pc[d]
      BY <2>3
    <3>2. ASSUME NEW m \in 1..n, queue[m] = d PROVE \E i \in 1..(n - 1) : queue'[i] = d
      <4>1. PICK i \in 1..(n - 1) : Old(i) = m
        BY <1>11, <2>3, <3>2
      <4> QED BY <1>9, <3>2, <4>1
    <3>3. ASSUME NEW i \in 1..(n - 1), queue'[i] = d PROVE \E m \in 1..n : queue[m] = d
      BY <1>9, <3>3
    <3> QED BY <1>8, <2>1, <3>1, <3>2, <3>3
  <2> QED BY <2>2, <2>3
<1> QED BY <1>6, <1>13, <1>14 DEF QueueInv, NobodyWaitsInVain

LEMMA InitQueue == Init => QueueInv
BY NamesDiffer DEF Init, QueueInv, NobodyWaitsInVain, Client

LEMMA StepKeepsQueue ==
  ASSUME StateOK, QueueInv, RenewalInv, [Next]_vars
  PROVE  QueueInv'
<1>0. /\ Caller \subseteq Client /\ Setup \in Client /\ Setup \notin Caller
      /\ "idle" \notin Busy /\ "waiting" \notin Busy
      /\ Requesting \subseteq Busy /\ "saving" \in Busy
      /\ lock \in Caller \cup {Nobody}
      /\ lock # Nobody => pc[lock] \in Busy
  BY NamesDiffer DEF StateOK, QueueInv, NobodyWaitsInVain, Busy
<1>1. ASSUME NEW c \in Client, NEW t, End(c, t), pc[c] # "waiting", UNCHANGED queue
      PROVE  QueueInv'
  <2>1. \A d \in Caller : (pc'[d] = "waiting") <=> (pc[d] = "waiting")
    BY <1>0, <1>1, EndFrees
  <2> QED BY <1>1, <2>1, EndFrees, QueueStays
<1>2. ASSUME NEW c \in Client, NEW t, StartRenewal(c, t) \/ StartLogin(c), pc[c] # "waiting",
             c \in Caller => lock \in {Nobody, c}, UNCHANGED queue
      PROVE  QueueInv'
  <2>1. \A d \in Caller : (pc'[d] = "waiting") <=> (pc[d] = "waiting")
    BY <1>0, <1>2, StartWorks
  <2> QED BY <1>2, <2>1, StartWorks, QueueStays
<1>3. ASSUME UNCHANGED <<pc, lock, queue>> PROVE QueueInv'
  BY <1>0, <1>3, QueueStays
<1>4. ASSUME NEW c \in Client, pc[c] \in Busy, c \in Caller PROVE lock = c
  BY <1>4 DEF RenewalInv, LockProtects
<1>5. ASSUME NEW c \in Caller, CallReturns(c) PROVE QueueInv'
  BY <1>3, <1>5 DEF CallReturns
<1>6. ASSUME NEW c \in Caller, CallRenews(c) PROVE QueueInv'
  <2>1. pc[c] = "idle" /\ lock = Nobody /\ LockTaken(c) /\ UNCHANGED queue
    BY <1>6 DEF CallRenews, LockIsFree
  <2>2. \A d \in Caller : (pc'[d] = "waiting") <=> (pc[d] = "waiting")
    BY <1>0, <2>1, LockTakenWorks
  <2> QED BY <2>1, <2>2, LockTakenWorks, QueueStays
<1>7. ASSUME NEW c \in Caller, CallWaits(c) PROVE QueueInv'
  <2>1. pc'[c] = "waiting" /\ \A d \in Client \ {c} : pc'[d] = pc[d]
    BY <1>0, <1>7, GotoMovesOne DEF CallWaits
  <2> QED BY <1>0, <1>7, <2>1, AppendKeepsQueue DEF CallWaits
<1>8. ASSUME NEW c \in Caller, WaiterWakes(c) PROVE QueueInv'
  <2>1. lock = Nobody /\ LockTaken(c) /\ queue # <<>> /\ queue \in Seq(Caller)
    BY <1>8 DEF WaiterWakes, QueueInv
  <2>2. 1 \in 1..Len(queue) /\ queue[1] = c
    BY <1>8, <2>1 DEF WaiterWakes
  <2>3. queue' = SubSeq(queue, 1, 1 - 1) \o SubSeq(queue, 1 + 1, Len(queue))
    <3>1. Tail(queue) = SubSeq(queue, 2, Len(queue))
      BY <2>1
    <3>2. SubSeq(queue, 1, 0) = <<>>
      BY <2>1
    <3>3. SubSeq(queue, 2, Len(queue)) \in Seq(Caller)
      BY <2>1
    <3>4. <<>> \o SubSeq(queue, 2, Len(queue)) = SubSeq(queue, 2, Len(queue))
      BY <3>3
    <3>5. queue' = Tail(queue) /\ 1 - 1 = 0 /\ 1 + 1 = 2
      BY <1>8 DEF WaiterWakes
    <3> QED BY <3>1, <3>2, <3>4, <3>5
  <2>4. pc'[queue[1]] # "waiting" /\ \A d \in Caller \ {queue[1]} : pc'[d] = pc[d]
    BY <1>0, <2>1, <2>2, LockTakenWorks
  <2>5. lock' # Nobody => pc'[lock'] \in Busy
    BY <2>1, LockTakenWorks
  <2> QED BY <2>2, <2>3, <2>4, <2>5, LeavingKeepsQueue
<1>9. CASE Boot
  <2>1. pc[Setup] = "idle" /\ UNCHANGED <<lock, queue>>
    BY <1>9 DEF Boot
  <2>2. \A d \in Client \ {Setup} : pc'[d] = pc[d]
    BY <1>0, <1>9, GotoMovesOne DEF Boot
  <2> QED BY <1>0, <2>1, <2>2, QueueStays
<1>10. CASE Discovered
  <2>1. pc[Setup] # "waiting" /\ UNCHANGED queue
    BY <1>10 DEF Discovered
  <2>2. CASE End(Setup, tokens.access)
    BY <1>0, <1>1, <2>1, <2>2
  <2>3. CASE StartRenewal(Setup, tokens)
    BY <1>0, <1>2, <2>1, <2>3
  <2> QED BY <1>10, <2>2, <2>3 DEF Discovered
<1>11. ASSUME NEW c \in Client, ServerStep(c) PROVE QueueInv'
  BY <1>3, <1>11 DEF ServerStep, ServerRefreshes, ServerLogsIn, ServerRefuses
<1>12. ASSUME NEW c \in Client, AnswerGranted(c) PROVE QueueInv'
  <2>1. pc[c] # "waiting" /\ UNCHANGED <<lock, queue>> /\ Goto(c, "saving")
    BY <1>12 DEF AnswerGranted
  <2>2. pc'[c] = "saving" /\ \A d \in Client \ {c} : pc'[d] = pc[d]
    BY <2>1, GotoMovesOne
  <2>3. lock' # Nobody => pc'[lock'] \in Busy
    BY <1>0, <2>1, <2>2
  <2>4. \A d \in Caller : (pc'[d] = "waiting") <=> (pc[d] = "waiting")
    BY <1>0, <2>1, <2>2
  <2> QED BY <2>1, <2>3, <2>4, QueueStays
<1>13. ASSUME NEW c \in Client, RefreshRefused(c) PROVE QueueInv'
  <2>1. pc[c] = "refreshing" /\ StartLogin(c) /\ UNCHANGED queue
    BY <1>13 DEF RefreshRefused
  <2>2. pc[c] \in Busy
    BY <2>1 DEF Busy, Requesting
  <2> QED BY <1>2, <1>4, <2>1, <2>2
<1>14. ASSUME NEW c \in Client, LoginRefused(c) \/ Saved(c) \/ RequestBreaks(c)
       PROVE  QueueInv'
  <2>1. PICK t : End(c, t)
    BY <1>14 DEF LoginRefused, Saved, RequestBreaks
  <2>2. pc[c] # "waiting" /\ UNCHANGED queue
    BY <1>14 DEF LoginRefused, Saved, RequestBreaks, Requesting
  <2> QED BY <1>1, <2>1, <2>2
<1>15. ASSUME NEW c \in Caller, RenewerCancelled(c) PROVE QueueInv'
  <2>1. End(c, 0) /\ pc[c] # "waiting" /\ UNCHANGED queue
    BY <1>0, <1>15 DEF RenewerCancelled
  <2> QED BY <1>0, <1>1, <2>1
<1>16. ASSUME NEW c \in Caller, WaiterCancelled(c) PROVE QueueInv'
  <2>1. PICK k \in 1..Len(queue) :
          /\ queue[k] = c
          /\ queue' = SubSeq(queue, 1, k - 1) \o SubSeq(queue, k + 1, Len(queue))
    BY <1>16 DEF WaiterCancelled
  <2>2. End(c, 0)
    BY <1>16 DEF WaiterCancelled
  <2>3. pc'[queue[k]] # "waiting" /\ \A d \in Caller \ {queue[k]} : pc'[d] = pc[d]
    BY <1>0, <2>1, <2>2, EndFrees
  <2>4. lock' # Nobody => pc'[lock'] \in Busy
    BY <1>0, <2>2, EndFrees
  <2> QED BY <2>1, <2>3, <2>4, LeavingKeepsQueue
<1>17. CASE Restart
  <2>1. queue' = <<>> /\ lock' = Nobody /\ \A d \in Caller : pc'[d] = "idle"
    BY <1>0, <1>17 DEF Restart
  <2> QED BY <2>1 DEF QueueInv, NobodyWaitsInVain
<1>18. CASE TokenExpires \/ CooldownEnds \/ UNCHANGED vars
  BY <1>3, <1>18 DEF TokenExpires, CooldownEnds, vars
<1>19. Hasty \subseteq Caller
  BY TokenAssumption DEF TokenAssumption
<1> QED
  BY <1>5, <1>6, <1>7, <1>8, <1>9, <1>10, <1>11, <1>12, <1>13, <1>14, <1>15, <1>16, <1>17,
     <1>18, <1>19
  DEF Next, Call, ClientStep

LEMMA QueueInvariant == Spec => [](StateOK /\ RenewalInv /\ QueueInv)
<1>1. Init => StateOK /\ RenewalInv /\ QueueInv
  BY InitTypes, InitInv, InitQueue
<1>2. StateOK /\ RenewalInv /\ QueueInv /\ [Next]_vars => (StateOK /\ RenewalInv /\ QueueInv)'
  BY StepTypes, StepInv, StepKeepsQueue
<1> QED BY <1>1, <1>2, PTL DEF Spec

\* Tokens, answers, the lock and its queue keep their types.
THEOREM TypesAreKept == Spec => []TypeOK
<1>1. StateOK /\ RenewalInv /\ QueueInv => TypeOK
  BY DEF TypeOK, QueueInv
<1> QED BY <1>1, QueueInvariant, PTL

\* A caller that waits for the lock is in the queue, once, and only a caller at work keeps
\* the others waiting: no exception, cancellation or restart leaves the lock held by
\* nobody or a place in the queue to somebody who left (`async with self._refresh_lock`).
THEOREM WaitersAreServed == Spec => []NobodyWaitsInVain
<1>1. StateOK /\ RenewalInv /\ QueueInv => NobodyWaitsInVain
  BY DEF QueueInv
<1> QED BY <1>1, QueueInvariant, PTL

-----------------------------------------------------------------------------
(* The refresh token that is presented is current.                         *)

\* A step that leaves the tokens, their store and the server alone.
LEMMA TokenStays ==
  ASSUME TokenInv, UNCHANGED <<tokens, stored, valid>>,
         lost' = 0 => lost = 0 /\ (Settled' => Settled),
         \A c \in Client :
           /\ pc'[c] = "saving" => pc[c] = "saving"
           /\ answer'[c].word = "granted" => answer'[c] = answer[c]
           /\ pc'[c] = "refreshing" => pc[c] = "refreshing" \/ tokens.refresh # 0,
         up' \/ pc'[Setup] # "idle" => up \/ pc[Setup] # "idle"
  PROVE  TokenInv'
<1>1. RefreshesWithToken'
  BY DEF TokenInv, RefreshesWithToken
<1>2. ASSUME lost' = 0
      PROVE  NewestIsAccepted'
  <2>1. NewestIsAccepted
    BY <1>2 DEF TokenInv
  <2> QED BY <1>2, <2>1 DEF NewestIsAccepted, IsAccepted
<1> QED BY <1>1, <1>2 DEF TokenInv

\* A client with nothing granted goes on, or its call ends.
LEMMA MovesKeepTokens ==
  ASSUME StateOK, TokenInv, NEW c \in Client,
         NEW where \in {"idle", "waiting", "discovering", "refreshing", "login"},
         Goto(c, where), UNCHANGED <<tokens, stored, valid, lost>>,
         pc[c] # "saving", answer[c].word # "granted",
         where = "refreshing" => tokens.refresh # 0,
         up' => up \/ c = Setup, c = Setup => up \/ pc[Setup] # "idle"
  PROVE  TokenInv'
<1>1. /\ pc'[c] = where
      /\ answer'[c] = NoAnswer
      /\ \A d \in Client \ {c} : pc'[d] = pc[d] /\ answer'[d] = answer[d]
  BY GotoMovesOne
<1>2. \A d \in Client :
        /\ pc'[d] = "saving" => pc[d] = "saving"
        /\ answer'[d].word = "granted" => answer'[d] = answer[d]
        /\ pc'[d] = "refreshing" => pc[d] = "refreshing" \/ tokens.refresh # 0
  BY <1>1, AnswersAre
<1>3. Settled' => Settled
  BY <1>1 DEF Settled
<1>4. up' \/ pc'[Setup] # "idle" => up \/ pc[Setup] # "idle"
  BY <1>1, NamesDiffer
<1> QED BY <1>2, <1>3, <1>4, TokenStays

\* Whoever takes the lock is not at work: a caller at work holds it.
LEMMA LockTakenKeepsTokens ==
  ASSUME StateOK, RenewalInv, TokenInv, NEW c \in Caller, LockTaken(c), lock = Nobody,
         UNCHANGED <<tokens, stored, valid, lost>>
  PROVE  TokenInv'
<1>0. pc[c] \notin Busy
  BY NamesDiffer DEF RenewalInv, LockProtects
<1>1. c \in Client /\ c # Setup /\ pc[c] # "saving" /\ answer[c].word # "granted"
  BY <1>0, NamesDiffer, AnswersAre DEF RenewalInv, RenewalIsDue
<1>2. PICK where \in {"idle", "refreshing", "login"} :
        Goto(c, where) /\ (where = "refreshing" => tokens.refresh # 0)
  BY DEF LockTaken, End, StartRenewal, StartLogin
<1>3. up' => up
  BY <1>1 DEF LockTaken, End, StartRenewal, StartLogin
<1> QED BY <1>1, <1>2, <1>3, MovesKeepTokens

\* An interrupted renewal: nothing is claimed of the tokens any more.
LEMMA InterruptionKeepsTokens ==
  ASSUME StateOK, TokenInv, lost' = lost + 1, RefreshesWithToken'
  PROVE  TokenInv'
<1>1. lost' # 0
  BY TokenAssumption DEF StateOK, TokenAssumption
<1> QED BY <1>1 DEF TokenInv

\* The server's answer is the newest token.
LEMMA GrantKeepsTokens ==
  ASSUME StateOK, RenewalInv, TokenInv, NEW c \in Client,
         ServerRefreshes(c) \/ ServerLogsIn(c)
  PROVE  TokenInv'
<1>1. /\ UNCHANGED <<tokens, stored, up, pc, lost>>
      /\ pc[c] \in {"refreshing", "login"}
  BY DEF ServerRefreshes, ServerLogsIn
<1>2. PICK t : /\ answer' = [answer EXCEPT ![c] = Granted(t)]
               /\ t.refresh \in valid' \cup {0}
  <2>1. CASE ServerRefreshes(c)
    <3>1. PICK r \in {tokens.refresh, grants + 1} :
            /\ valid' = (valid \ {tokens.refresh}) \cup {r}
            /\ answer' = [answer EXCEPT ![c] = Granted([access |-> grants + 1, refresh |-> r])]
      BY <2>1 DEF ServerRefreshes
    <3> DEFINE t == [access |-> grants + 1, refresh |-> r]
    <3>2. answer' = [answer EXCEPT ![c] = Granted(t)] /\ t.refresh \in valid' \cup {0}
      BY <3>1
    <3> HIDE DEF t
    <3> QED BY <3>2
  <2>2. CASE ServerLogsIn(c)
    <3>1. PICK r \in {0, grants + 1} :
            /\ valid' = valid \cup ({r} \ {0})
            /\ answer' = [answer EXCEPT ![c] = Granted([access |-> grants + 1, refresh |-> r])]
      BY <2>2 DEF ServerLogsIn
    <3> DEFINE t == [access |-> grants + 1, refresh |-> r]
    <3>2. answer' = [answer EXCEPT ![c] = Granted(t)] /\ t.refresh \in valid' \cup {0}
      BY <3>1
    <3> HIDE DEF t
    <3> QED BY <3>2
  <2> QED BY <2>1, <2>2
<1>3. answer'[c] = Granted(t) /\ \A d \in Client \ {c} : answer'[d] = answer[d]
  BY <1>2 DEF StateOK
<1>4. answer'[c].word = "granted" /\ answer'[c].grant = t
  BY <1>3, AnswersAre
<1>5. ASSUME NEW d \in Client, d # c
      PROVE  pc[d] # "saving" /\ answer[d].word # "granted"
  <2>1. pc[d] \notin Busy
    BY <1>1, <1>5, OneRenewalFollows, NamesDiffer DEF OneRenewal
  <2> QED BY <2>1, NamesDiffer, AnswersAre DEF RenewalInv, RenewalIsDue
<1>6. \A d \in Client : /\ answer'[d].word = "granted" =>
                             answer'[d].grant.refresh \in valid' \cup {0}
                        /\ pc'[d] # "saving"
  BY <1>1, <1>2, <1>3, <1>4, <1>5
<1>7. ~Settled'
  BY <1>4 DEF Settled
<1>8. NewestIsAccepted'
  BY <1>6, <1>7 DEF NewestIsAccepted, IsAccepted
<1>9. RefreshesWithToken'
  BY <1>1 DEF TokenInv, RefreshesWithToken
<1> QED BY <1>8, <1>9 DEF TokenInv

\* It is taken over, and then stored.
LEMMA TakeoverKeepsTokens ==
  ASSUME StateOK, RenewalInv, TokenInv, NEW c \in Client, AnswerGranted(c)
  PROVE  TokenInv'
<1>0. /\ pc'[c] = "saving"
      /\ answer'[c] = NoAnswer
      /\ \A d \in Client \ {c} : pc'[d] = pc[d] /\ answer'[d] = answer[d]
      /\ tokens' = answer[c].grant /\ UNCHANGED <<stored, valid, lost>>
  BY GotoMovesOne DEF AnswerGranted, NewTokens, serverVars
<1>1. \A d \in Client \ {c} : pc[d] \notin Busy
  BY OneRenewalFollows, NamesDiffer DEF AnswerGranted, OneRenewal
<1>2. RefreshesWithToken'
  BY <1>0, <1>1, NamesDiffer DEF RefreshesWithToken
<1>3. ASSUME lost' = 0
      PROVE  NewestIsAccepted'
  <2>1. NewestIsAccepted
    BY <1>0, <1>3 DEF TokenInv
  <2>2. tokens'.refresh \in valid' \cup {0}
    BY <1>0, <2>1 DEF NewestIsAccepted, IsAccepted, AnswerGranted
  <2>3. \A d \in Client : answer'[d].word = "granted" =>
                          answer'[d].grant.refresh \in valid' \cup {0}
    BY <1>0, <2>1, AnswersAre DEF NewestIsAccepted, IsAccepted
  <2>4. ~Settled'
    BY <1>0 DEF Settled
  <2> QED BY <2>2, <2>3, <2>4 DEF NewestIsAccepted, IsAccepted
<1> QED BY <1>2, <1>3 DEF TokenInv

LEMMA SaveKeepsTokens ==
  ASSUME StateOK, TokenInv, NEW c \in Client, Saved(c)
  PROVE  TokenInv'
<1>0. /\ pc'[c] = "idle"
      /\ answer'[c] = NoAnswer
      /\ \A d \in Client \ {c} : pc'[d] = pc[d] /\ answer'[d] = answer[d]
      /\ stored' = tokens /\ UNCHANGED <<tokens, valid, lost>>
  BY GotoMovesOne DEF Saved, End, serverVars
<1>1. RefreshesWithToken'
  BY <1>0 DEF TokenInv, RefreshesWithToken
<1>2. ASSUME lost' = 0
      PROVE  NewestIsAccepted'
  <2>1. NewestIsAccepted
    BY <1>0, <1>2 DEF TokenInv
  <2>2. stored'.refresh \in valid' \cup {0} /\ tokens'.refresh \in valid' \cup {0}
    BY <1>0, <2>1 DEF NewestIsAccepted, IsAccepted, Saved
  <2>3. \A d \in Client : answer'[d].word = "granted" =>
                          answer'[d].grant.refresh \in valid' \cup {0}
    BY <1>0, <2>1, AnswersAre DEF NewestIsAccepted, IsAccepted
  <2> QED BY <1>0, <2>2, <2>3 DEF NewestIsAccepted, IsAccepted
<1> QED BY <1>1, <1>2 DEF TokenInv

\* authenticate starts from the store, and a restart falls back on it.
LEMMA StoreKeepsTokens ==
  ASSUME StateOK, RenewalInv, TokenInv, Boot \/ Restart
  PROVE  TokenInv'
<1>1. CASE Boot
  <2>0. /\ pc'[Setup] = "discovering"
        /\ answer'[Setup] = NoAnswer
        /\ \A d \in Client \ {Setup} : pc'[d] = pc[d] /\ answer'[d] = answer[d]
    BY <1>1, GotoMovesOne, NamesDiffer DEF Boot
  <2>1. \A d \in Client : pc[d] = "idle" /\ answer[d] = NoAnswer
    BY <1>1, NamesDiffer DEF Boot, RenewalInv, SetupIsAlone, RenewalIsDue
  <2>2. \A d \in Client : /\ pc'[d] \in {"idle", "discovering"}
                          /\ answer'[d].word # "granted"
    BY <2>0, <2>1, AnswersAre
  <2>3. Settled
    BY <2>1, AnswersAre DEF Settled
  <2>4. tokens' = stored /\ UNCHANGED <<stored, valid, lost>>
    BY <1>1 DEF Boot, serverVars
  <2> QED BY <2>2, <2>3, <2>4
          DEF TokenInv, NewestIsAccepted, RefreshesWithToken, IsAccepted
<1>2. CASE Restart
  <2>1. /\ \A d \in Client : pc'[d] = "idle" /\ answer'[d].word # "granted"
        /\ up' = FALSE /\ valid' = valid
    BY <1>2, AnswersAre DEF Restart, serverVars
  <2>2. RefreshesWithToken'
    BY <2>1 DEF RefreshesWithToken
  <2>3. CASE (\A c \in Client : pc[c] \notin Busy) /\ UNCHANGED <<stored, lost>>
    <3>1. Settled
      BY <2>3, NamesDiffer, AnswersAre DEF Settled, RenewalInv, RenewalIsDue
    <3> QED BY <2>1, <2>2, <2>3, <3>1, NamesDiffer DEF TokenInv, NewestIsAccepted, IsAccepted
  <2>4. CASE lost' = lost + 1
    BY <2>2, <2>4, InterruptionKeepsTokens
  <2> QED BY <1>2, <2>3, <2>4 DEF Restart
<1> QED BY <1>1, <1>2

LEMMA StepKeepsTokens ==
  ASSUME StateOK, RenewalInv, TokenInv, [Next]_vars
  PROVE  TokenInv'
<1> USE DEF serverVars
<1>0. /\ Caller \subseteq Client /\ Setup \in Client /\ Setup \notin Caller
      /\ \A c \in Client : pc[c] \notin {"refreshing", "login"} =>
                             answer[c] = NoAnswer /\ answer[c].word # "granted"
  BY NamesDiffer, AnswersAre DEF RenewalInv, RenewalIsDue
<1>1. ASSUME UNCHANGED <<tokens, stored, valid, lost, pc, answer, up>>
      PROVE  TokenInv'
  BY <1>1, TokenStays DEF Settled
<1>2. ASSUME NEW c \in Caller, CallReturns(c) PROVE TokenInv'
  BY <1>1, <1>2 DEF CallReturns
<1>3. ASSUME NEW c \in Caller, CallRenews(c) PROVE TokenInv'
  BY <1>3, LockTakenKeepsTokens DEF CallRenews, LockIsFree
<1>4. ASSUME NEW c \in Caller, CallWaits(c) PROVE TokenInv'
  BY <1>0, <1>4, MovesKeepTokens DEF CallWaits
<1>5. ASSUME NEW c \in Caller, WaiterWakes(c) PROVE TokenInv'
  BY <1>5, LockTakenKeepsTokens DEF WaiterWakes
<1>6. CASE Boot \/ Restart
  BY <1>6, StoreKeepsTokens
<1>7. CASE Discovered
  <2>1. PICK where \in {"idle", "refreshing", "login"} :
          Goto(Setup, where) /\ (where = "refreshing" => tokens.refresh # 0)
    BY <1>7 DEF Discovered, End, StartRenewal, StartLogin
  <2> QED BY <1>0, <1>7, <2>1, MovesKeepTokens DEF Discovered
<1>8. ASSUME NEW c \in Client, ServerRefreshes(c) \/ ServerLogsIn(c) PROVE TokenInv'
  BY <1>8, GrantKeepsTokens
<1>9. ASSUME NEW c \in Client, ServerRefuses(c) PROVE TokenInv'
  <2>1. answer[c] = NoAnswer /\ answer'[c] = Refused
        /\ \A d \in Client \ {c} : answer'[d] = answer[d]
    BY <1>9 DEF ServerRefuses, StateOK
  <2>2. Settled' => Settled
    BY <1>9, <2>1, AnswersAre DEF ServerRefuses, Settled
  <2>3. \A d \in Client : answer'[d].word = "granted" => answer'[d] = answer[d]
    BY <2>1, AnswersAre
  <2> QED BY <1>9, <2>2, <2>3, TokenStays DEF ServerRefuses
<1>10. ASSUME NEW c \in Client, AnswerGranted(c) PROVE TokenInv'
  BY <1>10, TakeoverKeepsTokens
<1>11. ASSUME NEW c \in Client, RefreshRefused(c) \/ LoginRefused(c) PROVE TokenInv'
  <2>1. Goto(c, "login") \/ Goto(c, "idle")
    BY <1>11 DEF RefreshRefused, LoginRefused, StartLogin, End
  <2>2. /\ UNCHANGED <<tokens, stored, valid, lost>>
        /\ up' => up
        /\ pc[c] \in {"refreshing", "login"} /\ answer[c].word = "refused"
    <3>1. CASE RefreshRefused(c)
      BY <3>1 DEF RefreshRefused, StartLogin
    <3>2. CASE LoginRefused(c)
      BY <3>2 DEF LoginRefused, End
    <3> QED BY <1>11, <3>1, <3>2
  <2>3. pc[c] # "saving" /\ pc[c] # "idle" /\ answer[c].word # "granted"
    BY <2>2
  <2>4. CASE Goto(c, "login")
    BY <2>2, <2>3, <2>4, MovesKeepTokens
  <2>5. CASE Goto(c, "idle")
    BY <2>2, <2>3, <2>5, MovesKeepTokens
  <2> QED BY <2>1, <2>4, <2>5
<1>12. ASSUME NEW c \in Client, Saved(c) PROVE TokenInv'
  BY <1>12, SaveKeepsTokens
<1>13. ASSUME NEW c \in Client, RequestBreaks(c) \/ RenewerCancelled(c) PROVE TokenInv'
  <2>1. Goto(c, "idle") /\ lost' = lost + 1 /\ UNCHANGED tokens
    BY <1>13 DEF RequestBreaks, RenewerCancelled, End
  <2>2. /\ pc'[c] = "idle"
        /\ \A d \in Client \ {c} : pc'[d] = pc[d]
    BY <2>1, GotoMovesOne
  <2>3. RefreshesWithToken'
    BY <2>1, <2>2 DEF TokenInv, RefreshesWithToken
  <2> QED BY <2>1, <2>3, InterruptionKeepsTokens
<1>14. ASSUME NEW c \in Caller, WaiterCancelled(c) PROVE TokenInv'
  <2>1. Goto(c, "idle") /\ up' = up /\ UNCHANGED <<tokens, stored, valid, lost>>
    BY <1>0, <1>14 DEF WaiterCancelled, End, StateOK
  <2> QED BY <1>0, <1>14, <2>1, MovesKeepTokens DEF WaiterCancelled
<1>15. CASE TokenExpires \/ CooldownEnds \/ UNCHANGED vars
  BY <1>1, <1>15 DEF TokenExpires, CooldownEnds, vars
<1>16. ASSUME NEW c \in Caller, Call(c) \/ WaiterWakes(c) PROVE TokenInv'
  BY <1>2, <1>3, <1>4, <1>5, <1>16 DEF Call
<1>17. ASSUME NEW c \in Client, ServerStep(c) \/ ClientStep(c) \/ RequestBreaks(c)
       PROVE  TokenInv'
  BY <1>8, <1>9, <1>10, <1>11, <1>12, <1>13, <1>17 DEF ServerStep, ClientStep
<1>18. ASSUME NEW c \in Hasty, RenewerCancelled(c) \/ WaiterCancelled(c) PROVE TokenInv'
  BY <1>0, <1>13, <1>14, <1>18, TokenAssumption DEF TokenAssumption
<1> QED
  BY <1>6, <1>7, <1>15, <1>16, <1>17, <1>18 DEF Next

LEMMA TokenInvariant == Spec => [](StateOK /\ RenewalInv /\ TokenInv)
<1>1. Init => TokenInv
  <2> SUFFICES ASSUME Init PROVE TokenInv
    OBVIOUS
  <2>1. \A c \in Client : pc[c] = "idle" /\ answer[c].word # "granted"
    BY AnswersAre DEF Init
  <2>2. tokens = stored /\ stored.refresh = 0
    BY DEF Init, NoTokens
  <2> QED BY <2>1, <2>2 DEF TokenInv, RefreshesWithToken, NewestIsAccepted, IsAccepted
<1>2. StateOK /\ RenewalInv /\ TokenInv /\ [Next]_vars => TokenInv'
  BY StepKeepsTokens
<1> QED BY <1>1, <1>2, Invariant, PTL DEF Spec

\* While no renewal is interrupted, the newest token comes with a refresh token
\* that the server accepts, wherever it is on its way from the server over the
\* client's memory to the store (_refresh, _exchange_token, _save_tokens).
THEOREM NewestTokenIsAccepted == Spec => []TokenInv
BY TokenInvariant, PTL

\* Under the lock no refresh token is presented that a rotation has replaced, and
\* the store is left behind only by an interrupted renewal (ensure_valid_token).
THEOREM PresentedTokenIsCurrent == Spec => []RefreshTokenIsCurrent
<1>1. StateOK /\ RenewalInv /\ TokenInv => RefreshTokenIsCurrent
  <2> SUFFICES ASSUME StateOK, RenewalInv, TokenInv, lost = 0
               PROVE  RefreshTokenIsCurrent
    BY DEF RefreshTokenIsCurrent
  <2>0. NewestIsAccepted
    BY DEF TokenInv
  <2>1. ASSUME NEW c \in Client, pc[c] = "refreshing", answer[c] = NoAnswer
        PROVE  tokens.refresh \in valid
    <3>1. \A d \in Client \ {c} : pc[d] \notin Busy
      BY <2>1, OneRenewalFollows, NamesDiffer DEF OneRenewal
    <3>2. Settled
      BY <2>1, <3>1, NamesDiffer, AnswersAre DEF Settled, RenewalInv, RenewalIsDue
    <3>3. stored = tokens
      <4>1. CASE c = Setup
        BY <2>0, <2>1, <3>2, <4>1 DEF NewestIsAccepted
      <4>2. CASE c \in Caller
        <5>1. up
          BY <2>1, <4>2 DEF RenewalInv, SetupIsAlone
        <5> QED BY <2>0, <3>2, <5>1 DEF NewestIsAccepted
      <4> QED BY <4>1, <4>2, NamesDiffer
    <3>4. tokens.refresh # 0
      BY <2>1 DEF TokenInv, RefreshesWithToken
    <3> QED BY <2>0, <3>2, <3>3, <3>4 DEF NewestIsAccepted, IsAccepted
  <2>2. ASSUME up, \A c \in Caller : pc[c] \notin Busy
        PROVE  stored = tokens
    <3>1. \A c \in Client : pc[c] \notin Busy
      BY <2>2, NamesDiffer DEF RenewalInv, SetupIsAlone
    <3>2. Settled
      BY <3>1, NamesDiffer, AnswersAre DEF Settled, RenewalInv, RenewalIsDue
    <3> QED BY <2>0, <2>2, <3>2 DEF NewestIsAccepted
  <2> QED BY <2>1, <2>2 DEF RefreshTokenIsCurrent
<1> QED BY <1>1, TokenInvariant, PTL

-----------------------------------------------------------------------------
(* The distance between logins.                                            *)

LEMMA LoginOutsideCooldown ==
  ASSUME StateOK, RenewalInv, [Next]_vars,
         NEW d \in Caller, pc[d] # "login", pc'[d] = "login"
  PROVE  ~cooling
<1>0. d \in Client /\ d # Setup
  BY NamesDiffer
\* Only a client that goes to its login gets there.
<1>1. ASSUME NEW c \in Client, NEW where, Goto(c, where), where # "login"
      PROVE  FALSE
  BY <1>0, <1>1, GotoMovesOne
<1>2. ASSUME NEW c \in Client, NEW t, End(c, t)
      PROVE  FALSE
  BY <1>1, <1>2 DEF End
<1>3. ASSUME NEW c \in Client, NEW t, StartRenewal(c, t)
      PROVE  StartLogin(c) /\ c = d
  <2>1. StartLogin(c)
    BY <1>1, <1>3 DEF StartRenewal
  <2> QED BY <1>0, <2>1, GotoMovesOne DEF StartLogin
<1>4. ASSUME NEW c \in Caller, LockTaken(c)
      PROVE  ~cooling
  BY <1>2, <1>4, NamesDiffer DEF LockTaken
<1>5. ASSUME pc' = pc
      PROVE  FALSE
  BY <1>5
<1>6. ASSUME NEW c \in Caller, Call(c) \/ WaiterWakes(c)
      PROVE  ~cooling
  BY <1>1, <1>4, <1>5, <1>6, NamesDiffer
  DEF Call, CallReturns, CallRenews, CallWaits, WaiterWakes
<1>7. ASSUME Boot \/ Discovered
      PROVE  FALSE
  BY <1>0, <1>1, <1>2, <1>3, <1>7, NamesDiffer DEF Boot, Discovered
<1>8. ASSUME NEW c \in Client, ServerStep(c)
      PROVE  FALSE
  BY <1>5, <1>8 DEF ServerStep, ServerRefreshes, ServerLogsIn, ServerRefuses
<1>9. ASSUME NEW c \in Client, ClientStep(c)
      PROVE  ~cooling
  <2>1. CASE RefreshRefused(c)
    <3>1. c = d
      BY <1>0, <2>1, GotoMovesOne DEF RefreshRefused, StartLogin
    <3> QED BY <2>1, <3>1 DEF RefreshRefused, RenewalInv, RenewalIsDue
  <2>2. CASE AnswerGranted(c) \/ LoginRefused(c) \/ Saved(c)
    BY <1>1, <1>2, <2>2 DEF AnswerGranted, LoginRefused, Saved
  <2> QED BY <1>9, <2>1, <2>2 DEF ClientStep
<1>10. ASSUME NEW c \in Client, RequestBreaks(c) \/ RenewerCancelled(c) \/ WaiterCancelled(c)
       PROVE  FALSE
  BY <1>2, <1>10 DEF RequestBreaks, RenewerCancelled, WaiterCancelled
<1>11. ASSUME Restart
       PROVE  FALSE
  BY <1>0, <1>11 DEF Restart
<1>12. ASSUME TokenExpires \/ CooldownEnds \/ UNCHANGED vars
       PROVE  FALSE
  BY <1>5, <1>12 DEF TokenExpires, CooldownEnds, vars
<1> QED
  BY <1>6, <1>7, <1>8, <1>9, <1>10, <1>11, <1>12, NamesDiffer, TokenAssumption
  DEF Next, TokenAssumption

\* A password login is not attempted within the cooldown of the last one,
\* although the cooldown is checked before the refresh and the login follows it
\* (ensure_valid_token).
THEOREM LoginsKeepTheirDistance == Spec => LoginsAreSpaced
<1> DEFINE Spaced == \A c \in Caller : pc[c] # "login" /\ pc'[c] = "login" => ~cooling
<1>1. StateOK /\ RenewalInv /\ [Next]_vars => [Spaced]_vars
  BY LoginOutsideCooldown
<1> QED BY <1>1, Invariant, PTL DEF Spec, LoginsAreSpaced

-----------------------------------------------------------------------------
(* The renewal implements TokenService.                                    *)

Pending == {c \in Caller : pc[c] # "idle"}
ServiceVars == <<tokens.access, stale, Pending, given>>

LEMMA ServiceInit == Init => Service!Init
BY NamesDiffer DEF Init, Service!Init, NoTokens

\* A call that ends returns the token or fails.
LEMMA EndServes ==
  ASSUME StateOK, NEW c \in Caller, NEW t, End(c, t), UNCHANGED <<tokens, stale>>,
         \/ t = tokens.access /\ (c \in Pending \/ ~Expired)
         \/ t = 0 /\ (c \in Pending \/ Expired)
  PROVE  Service!Next
<1>1. Pending' = Pending \ {c}
  BY NamesDiffer, GotoMovesOne DEF End, Pending
<1>2. given' = [given EXCEPT ![c] = t]
  BY NamesDiffer DEF End
<1>3. CASE t = tokens.access /\ (c \in Pending \/ ~Expired)
  <2>1. Service!Return(c)
    BY <1>1, <1>2, <1>3 DEF Service!Return, Pending, Expired
  <2> QED BY <2>1 DEF Service!Next
<1>4. CASE t = 0 /\ (c \in Pending \/ Expired)
  <2>1. Service!Fail(c)
    BY <1>1, <1>2, <1>4 DEF Service!Fail, Pending, Expired
  <2> QED BY <2>1 DEF Service!Next
<1> QED BY <1>3, <1>4

\* A call that goes on is asked for, or has been.
LEMMA MoveServes ==
  ASSUME StateOK, NEW c \in Caller, NEW where, Goto(c, where), where # "idle",
         UNCHANGED <<tokens, stale, given>>, c \in Pending \/ Expired
  PROVE  Service!Next \/ UNCHANGED ServiceVars
<1>1. Pending' = Pending \cup {c}
  BY NamesDiffer, GotoMovesOne DEF Pending
<1>2. CASE c \in Pending
  BY <1>1, <1>2 DEF ServiceVars
<1>3. CASE c \notin Pending
  <2>1. Service!Ask(c)
    BY <1>1, <1>3 DEF Service!Ask, Pending, Expired
  <2> QED BY <2>1 DEF Service!Next
<1> QED BY <1>2, <1>3

LEMMA LockTakenServes ==
  ASSUME StateOK, NEW c \in Caller, LockTaken(c), UNCHANGED <<tokens, stale>>
  PROVE  Service!Next \/ UNCHANGED ServiceVars
<1>1. CASE ~StillExpired /\ End(c, tokens.access)
  BY <1>1, EndServes DEF StillExpired
<1>2. CASE StillExpired /\ End(c, 0)
  BY <1>2, EndServes DEF StillExpired
<1>3. CASE StillExpired /\ StartRenewal(c, tokens)
  <2>1. Expired /\ given' = given
    BY <1>3 DEF StillExpired, StartRenewal, StartLogin
  <2>2. Goto(c, "refreshing") \/ Goto(c, "login")
    BY <1>3 DEF StartRenewal, StartLogin
  <2> QED BY <2>1, <2>2, MoveServes
<1> QED BY <1>1, <1>2, <1>3 DEF LockTaken

\* What authenticate does is nobody's call.
LEMMA SetupServes ==
  ASSUME StateOK, NEW where, Goto(Setup, where), UNCHANGED <<tokens, stale, given>>
  PROVE  UNCHANGED ServiceVars
BY NamesDiffer, GotoMovesOne DEF ServiceVars, Pending

\* The end of a client that is at work or waits.
LEMMA ClientEndServes ==
  ASSUME StateOK, NEW c \in Client, pc[c] # "idle", NEW t \in {0, tokens.access},
         End(c, t), UNCHANGED <<tokens, stale>>
  PROVE  Service!Next \/ UNCHANGED ServiceVars
<1>1. CASE c = Setup
  BY <1>1, SetupServes DEF End
<1>2. CASE c \in Caller
  BY <1>2, EndServes DEF Pending
<1> QED BY <1>1, <1>2, NamesDiffer

LEMMA AnswerGrantedServes ==
  ASSUME StateOK, RenewalInv, NEW c \in Client, AnswerGranted(c)
  PROVE  Service!Next
<1>1. Pending' = Pending
  BY NamesDiffer, GotoMovesOne DEF AnswerGranted, Pending
<1>2. tokens.access \in stale
  BY DEF AnswerGranted, RenewalInv, RenewalIsDue, Expired
<1>3. tokens'.access \in Grant /\ tokens'.access # 0 /\ tokens'.access # tokens.access
  <2>1. tokens'.access \in (tokens.access + 1)..grants
    BY DEF AnswerGranted, NewTokens, RenewalInv, GrantsAreNew
  <2>2. tokens.access \in Nat /\ grants \in 0..MaxGrants
    BY TokensType, TokenAssumption DEF StateOK, Grant, TokenAssumption
  <2> QED BY <2>1, <2>2, TokenAssumption DEF Grant, TokenAssumption
<1>4. Service!Renew
  BY <1>1, <1>2, <1>3 DEF Service!Renew, Service!Access, Grant, AnswerGranted, Pending
<1> QED BY <1>4 DEF Service!Next

LEMMA StepServes ==
  ASSUME StateOK, RenewalInv, [Next]_vars
  PROVE  Service!Next \/ UNCHANGED ServiceVars
<1> DEFINE Served == Service!Next \/ UNCHANGED ServiceVars
<1> USE DEF serverVars
<1>1. ASSUME NEW c \in Caller, CallReturns(c) PROVE Served
  <2>1. Pending' = Pending /\ Pending = Pending \ {c}
    BY <1>1 DEF CallReturns, Pending
  <2>2. Service!Return(c)
    BY <1>1, <2>1 DEF CallReturns, Service!Return, Pending, Expired
  <2> QED BY <2>2 DEF Service!Next
<1>2. ASSUME NEW c \in Caller, CallRenews(c) \/ WaiterWakes(c) PROVE Served
  BY <1>2, LockTakenServes DEF CallRenews, WaiterWakes
<1>3. ASSUME NEW c \in Caller, CallWaits(c) PROVE Served
  BY <1>3, MoveServes DEF CallWaits
<1>4. CASE Boot
  <2>1. Pending = {} /\ given = [c \in Caller |-> 0]
    BY <1>4 DEF Boot, RenewalInv, SetupIsAlone, Pending, StateOK
  <2>2. Pending' = Pending
    BY <1>4, NamesDiffer, GotoMovesOne DEF Boot, Pending
  <2>3. tokens'.access \in Grant
    BY <1>4, TokensType DEF Boot, StateOK
  <2>4. Service!Restart
    BY <1>4, <2>1, <2>2, <2>3 DEF Boot, Service!Restart, Service!Access, Grant, Pending
  <2> QED BY <2>4 DEF Service!Next
<1>5. CASE Discovered
  <2>1. given' = given /\ UNCHANGED <<tokens, stale>>
    BY <1>5, NamesDiffer DEF Discovered, End, StartRenewal, StartLogin
  <2>2. PICK where \in {"idle", "refreshing", "login"} : Goto(Setup, where)
    BY <1>5 DEF Discovered, End, StartRenewal, StartLogin
  <2> QED BY <2>1, <2>2, SetupServes
<1>6. ASSUME NEW c \in Client, ServerStep(c) PROVE Served
  BY <1>6 DEF ServerStep, ServerRefreshes, ServerLogsIn, ServerRefuses, ServiceVars, Pending
<1>7. ASSUME NEW c \in Client, AnswerGranted(c) PROVE Served
  BY <1>7, AnswerGrantedServes
<1>8. ASSUME NEW c \in Client, RefreshRefused(c) PROVE Served
  <2>1. /\ Goto(c, "login") /\ UNCHANGED <<tokens, stale, given>>
        /\ c \in Caller => c \in Pending
    BY <1>8 DEF RefreshRefused, StartLogin, Pending
  <2> QED BY <2>1, MoveServes, SetupServes, NamesDiffer
<1>9. ASSUME NEW c \in Client,
             LoginRefused(c) \/ Saved(c) \/ RequestBreaks(c)
      PROVE  Served
  BY <1>9, ClientEndServes DEF LoginRefused, Saved, RequestBreaks, Requesting
<1>10. ASSUME NEW c \in Caller, RenewerCancelled(c) \/ WaiterCancelled(c) PROVE Served
  BY <1>10, ClientEndServes, NamesDiffer DEF RenewerCancelled, WaiterCancelled
<1>11. CASE Restart
  <2>1. Pending' = {} /\ tokens'.access \in Grant
    BY <1>11, NamesDiffer, NoTokensType, TokensType DEF Restart, Pending
  <2>2. Service!Restart
    BY <1>11, <2>1 DEF Restart, Service!Restart, Service!Access, Grant, Pending
  <2> QED BY <2>2 DEF Service!Next
<1>12. CASE TokenExpires
  <2>1. tokens.access \in Grant
    BY TokensType DEF StateOK
  <2>2. Service!Expire(tokens.access)
    BY <1>12 DEF TokenExpires, Service!Expire
  <2> QED BY <2>1, <2>2 DEF Service!Next, Service!Access, Grant
<1>13. CASE CooldownEnds
  BY <1>13 DEF CooldownEnds, ServiceVars, Pending
<1>14. CASE UNCHANGED vars
  BY <1>14 DEF vars, ServiceVars, Pending
<1> QED
  BY <1>1, <1>2, <1>3, <1>4, <1>5, <1>6, <1>7, <1>8, <1>9, <1>10, <1>11, <1>12, <1>13,
     <1>14, TokenAssumption
  DEF Next, Call, ClientStep, TokenAssumption

\* AuthManager keeps TokenService's promise: a good token is never replaced, and a
\* call ends with the token that is current at that moment or with an error
\* (ensure_valid_token, authenticate).
THEOREM RenewalImplementsService == Spec => ServiceSpec
<1>1. Init => Service!Init
  BY ServiceInit
<1>2. StateOK /\ RenewalInv /\ [Next]_vars => [Service!Next]_(Service!vars)
  BY StepServes DEF Service!vars, ServiceVars, Pending
<1> QED BY <1>1, <1>2, Invariant, PTL DEF Spec, ServiceSpec, Service!Spec

=============================================================================
