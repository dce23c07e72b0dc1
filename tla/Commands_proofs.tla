--------------------------- MODULE Commands_proofs ---------------------------
(***************************************************************************)
(* Proofs about Commands, for any entities, values, retries and bounds:    *)
(* what its tables say of every command and entity (CommandTable), that a  *)
(* call keeps what RemoteCall promises to whoever awaits it (GrpcCall),    *)
(* and what an entity shows whose command goes through such a call.        *)
(***************************************************************************)
EXTENDS Commands, FiniteSetTheorems, TLAPS

-----------------------------------------------------------------------------
(* The tables.                                                             *)

LEMMA Joined ==
  ASSUME NEW f, NEW g
  PROVE  /\ DOMAIN (f ++ g) = DOMAIN f \cup DOMAIN g
         /\ \A c \in DOMAIN (f ++ g) :
              \/ c \in DOMAIN f /\ (f ++ g)[c] = f[c]
              \/ c \in DOMAIN g /\ (f ++ g)[c] = g[c]
BY DEF ++

\* Every entry of f is an entry of one of the tables.
IsFrom(f, tables) ==
  \A c \in DOMAIN f : \E table \in tables : c \in DOMAIN table /\ f[c] = table[c]

LEMMA Joining ==
  ASSUME NEW S, NEW f, NEW g \in S, IsFrom(f, S)
  PROVE  IsFrom(f ++ g, S)
<1> DEFINE h == f ++ g
<1>1. \A c \in DOMAIN h :
        \/ c \in DOMAIN f /\ h[c] = f[c]
        \/ c \in DOMAIN g /\ h[c] = g[c]
  BY Joined
<1> HIDE DEF h
<1>2. IsFrom(h, S)
  BY <1>1 DEF IsFrom
<1> QED BY <1>2 DEF h

LEMMA JoinedDomain == \A f, g : DOMAIN (f ++ g) = DOMAIN f \cup DOMAIN g
BY Joined

Tables == {LockCommands, ButtonCommands, ClimateCommands, ChargingCommands,
           LocationCommands, BodyCommands, OtaCommands, TimerCommands}

LEMMA CommandsAre ==
  /\ IsFrom(CommandOf, Tables)
  /\ \A table \in Tables : DOMAIN table \subseteq DOMAIN CommandOf
<1> DEFINE c2 == LockCommands ++ ButtonCommands
           c3 == c2 ++ ClimateCommands
           c4 == c3 ++ ChargingCommands
           c5 == c4 ++ LocationCommands
           c6 == c5 ++ BodyCommands
           c7 == c6 ++ OtaCommands
<1>1. CommandOf = c7 ++ TimerCommands
  BY Zenon DEF CommandOf
<1>2. IsFrom(LockCommands, Tables)
  BY DEF IsFrom, Tables
<1>3. IsFrom(c2, Tables) BY <1>2, Joining DEF Tables
<1> HIDE DEF c2
<1>4. IsFrom(c3, Tables) BY <1>3, Joining DEF Tables
<1> HIDE DEF c3
<1>5. IsFrom(c4, Tables) BY <1>4, Joining DEF Tables
<1> HIDE DEF c4
<1>6. IsFrom(c5, Tables) BY <1>5, Joining DEF Tables
<1> HIDE DEF c5
<1>7. IsFrom(c6, Tables) BY <1>6, Joining DEF Tables
<1> HIDE DEF c6
<1>8. IsFrom(c7, Tables) BY <1>7, Joining DEF Tables
<1> HIDE DEF c7
<1>9. IsFrom(CommandOf, Tables) BY <1>8, <1>1, Joining DEF Tables
<1>10. \A table \in Tables : DOMAIN table \subseteq DOMAIN CommandOf
  <2>1. DOMAIN c2 = DOMAIN LockCommands \cup DOMAIN ButtonCommands
    BY JoinedDomain DEF c2
  <2>2. DOMAIN c3 = DOMAIN c2 \cup DOMAIN ClimateCommands
    BY JoinedDomain DEF c3
  <2>3. DOMAIN c4 = DOMAIN c3 \cup DOMAIN ChargingCommands
    BY JoinedDomain DEF c4
  <2>4. DOMAIN c5 = DOMAIN c4 \cup DOMAIN LocationCommands
    BY JoinedDomain DEF c5
  <2>5. DOMAIN c6 = DOMAIN c5 \cup DOMAIN BodyCommands
    BY JoinedDomain DEF c6
  <2>6. DOMAIN c7 = DOMAIN c6 \cup DOMAIN OtaCommands
    BY JoinedDomain DEF c7
  <2>7. DOMAIN CommandOf = DOMAIN c7 \cup DOMAIN TimerCommands
    BY <1>1, JoinedDomain
  <2> QED BY <2>1, <2>2, <2>3, <2>4, <2>5, <2>6, <2>7 DEF Tables
<1> QED BY <1>9, <1>10

LEMMA CommandFields ==
  \A rpc, answer, how, marks, refresh :
    /\ Command(rpc, answer, how, marks, refresh).rpc = rpc
    /\ Command(rpc, answer, how, marks, refresh).answer = answer
    /\ Command(rpc, answer, how, marks, refresh).how = how
    /\ Command(rpc, answer, how, marks, refresh).refresh = refresh
BY DEF Command

LEMMA EntityFields ==
  \A issues, reads, hides, when, blank :
    /\ Entity(issues, reads, hides, when, blank).issues = issues
    /\ Entity(issues, reads, hides, when, blank).reads = reads
    /\ Entity(issues, reads, hides, when, blank).when = when
    /\ Entity(issues, reads, hides, when, blank).blank = blank
BY DEF Entity

Call == {"unary", "stream"}
Answer == {"lock", "invocation", "chronos", "code", "opaque"}

LEMMA CommandCalls ==
  \A c \in DOMAIN CommandOf : CommandOf[c].rpc \in Call /\ CommandOf[c].answer \in Answer
<1> USE CommandFields DEF Call, Answer
<1>1. \A c \in DOMAIN LockCommands : LockCommands[c].rpc \in Call /\ LockCommands[c].answer \in Answer
  BY DEF LockCommands
<1>2. \A c \in DOMAIN ButtonCommands : ButtonCommands[c].rpc \in Call /\ ButtonCommands[c].answer \in Answer
  BY DEF ButtonCommands
<1>3. \A c \in DOMAIN ClimateCommands : ClimateCommands[c].rpc \in Call /\ ClimateCommands[c].answer \in Answer
  BY DEF ClimateCommands
<1>4. \A c \in DOMAIN ChargingCommands : ChargingCommands[c].rpc \in Call /\ ChargingCommands[c].answer \in Answer
  BY DEF ChargingCommands
<1>5. \A c \in DOMAIN LocationCommands : LocationCommands[c].rpc \in Call /\ LocationCommands[c].answer \in Answer
  BY DEF LocationCommands
<1>6. \A c \in DOMAIN BodyCommands : BodyCommands[c].rpc \in Call /\ BodyCommands[c].answer \in Answer
  BY DEF BodyCommands
<1>7. \A c \in DOMAIN OtaCommands : OtaCommands[c].rpc \in Call /\ OtaCommands[c].answer \in Answer
  BY DEF OtaCommands
<1>8. \A c \in DOMAIN TimerCommands : TimerCommands[c].rpc \in Call /\ TimerCommands[c].answer \in Answer
  BY DEF TimerCommands
<1> QED BY <1>1, <1>2, <1>3, <1>4, <1>5, <1>6, <1>7, <1>8, CommandsAre DEF IsFrom, Tables

\* Only the commands about places and updates are trusted without a look at the answer.
LEMMA TrustedCommands ==
  \A c \in DOMAIN CommandOf :
    CommandOf[c].how = "trusted" => c \in DOMAIN LocationCommands \cup DOMAIN OtaCommands
<1> USE CommandFields
<1>1. \A c \in DOMAIN LockCommands : LockCommands[c].how # "trusted"
  BY DEF LockCommands
<1>2. \A c \in DOMAIN ButtonCommands : ButtonCommands[c].how # "trusted"
  BY DEF ButtonCommands
<1>3. \A c \in DOMAIN ClimateCommands : ClimateCommands[c].how # "trusted"
  BY DEF ClimateCommands
<1>4. \A c \in DOMAIN ChargingCommands : ChargingCommands[c].how # "trusted"
  BY DEF ChargingCommands
<1>6. \A c \in DOMAIN BodyCommands : BodyCommands[c].how # "trusted"
  BY DEF BodyCommands
<1>8. \A c \in DOMAIN TimerCommands : TimerCommands[c].how # "trusted"
  BY DEF TimerCommands
<1> QED BY <1>1, <1>2, <1>3, <1>4, <1>6, <1>8, CommandsAre DEF IsFrom, Tables

EntityTables == {LockEntity, SwitchEntities, NumberEntities, SelectEntities, TimeEntities}

LEMMA EntityTablesAre == IsFrom(EntityOf, EntityTables)
<1> DEFINE e2 == LockEntity ++ SwitchEntities
           e3 == e2 ++ NumberEntities
           e4 == e3 ++ SelectEntities
<1>1. EntityOf = e4 ++ TimeEntities
  BY Zenon DEF EntityOf
<1>2. IsFrom(LockEntity, EntityTables)
  BY DEF IsFrom, EntityTables
<1>3. IsFrom(e2, EntityTables) BY <1>2, Joining DEF EntityTables
<1>4. IsFrom(e3, EntityTables) BY <1>3, Joining DEF EntityTables
<1>5. IsFrom(e4, EntityTables) BY <1>4, Joining DEF EntityTables
<1> HIDE DEF e4
<1> QED BY <1>1, <1>5, Joining DEF EntityTables

\* What the table says of every entity.
EntityIsWellFormed(e) ==
  /\ e.issues \subseteq DOMAIN CommandOf \ (DOMAIN LocationCommands \cup DOMAIN OtaCommands)
  /\ e.issues # {}
  /\ e.when \in {"before", "after"}
  /\ e.blank \in {"unknown", "missing", "unavailable"}

LEMMA EntitiesAre == \A e \in DOMAIN EntityOf : EntityIsWellFormed(EntityOf[e])
<1> DEFINE Apart == {"create_charge_location", "update_charge_location",
                     "delete_charge_location", "schedule_ota", "install_ota_now", "cancel_ota"}
<1>0. /\ DOMAIN LocationCommands \cup DOMAIN OtaCommands = Apart
      /\ {"lock", "unlock"} \subseteq DOMAIN CommandOf
      /\ {"start_climate", "stop_climate"} \subseteq DOMAIN CommandOf
      /\ {"set_target_soc", "set_target_soc_mode", "set_amp_limit", "start_charging",
          "stop_charging", "set_charge_timer"} \subseteq DOMAIN CommandOf
      /\ {"start_precleaning", "stop_precleaning"} \subseteq DOMAIN CommandOf
      /\ "set_climate_timer_settings" \in DOMAIN CommandOf
  <2>1. DOMAIN LocationCommands \cup DOMAIN OtaCommands = Apart
    BY DEF LocationCommands, OtaCommands
  <2>2. {"lock", "unlock"} \subseteq DOMAIN LockCommands
    BY DEF LockCommands
  <2>3. {"start_climate", "stop_climate"} \subseteq DOMAIN ClimateCommands
    BY DEF ClimateCommands
  <2>4. {"set_target_soc", "set_target_soc_mode", "set_amp_limit", "start_charging",
         "stop_charging", "set_charge_timer"} \subseteq DOMAIN ChargingCommands
    BY DEF ChargingCommands
  <2>5. {"start_precleaning", "stop_precleaning"} \subseteq DOMAIN BodyCommands
    BY DEF BodyCommands
  <2>6. "set_climate_timer_settings" \in DOMAIN TimerCommands
    BY DEF TimerCommands
  <2> QED BY <2>1, <2>2, <2>3, <2>4, <2>5, <2>6, CommandsAre DEF Tables
<1> USE EntityFields DEF EntityIsWellFormed
<1>1. \A e \in DOMAIN LockEntity : EntityIsWellFormed(LockEntity[e])
  BY <1>0 DEF LockEntity
<1>2. \A e \in DOMAIN SwitchEntities : EntityIsWellFormed(SwitchEntities[e])
  BY <1>0 DEF SwitchEntities
<1>3. \A e \in DOMAIN NumberEntities : EntityIsWellFormed(NumberEntities[e])
  BY <1>0 DEF NumberEntities
<1>4. \A e \in DOMAIN SelectEntities : EntityIsWellFormed(SelectEntities[e])
  BY <1>0 DEF SelectEntities
<1>5. \A e \in DOMAIN TimeEntities : EntityIsWellFormed(TimeEntities[e])
  BY <1>0 DEF TimeEntities
<1> QED BY <1>1, <1>2, <1>3, <1>4, <1>5, EntityTablesAre DEF IsFrom, EntityTables

\* The attribute that a command's entities read is among those it refreshes.
Confirms(c, refresh) ==
  /\ c \in {"lock", "unlock"} => "exterior" \in refresh
  /\ c \in {"start_climate", "stop_climate"} => "climate" \in refresh
  /\ c \in {"start_precleaning", "stop_precleaning"} => "precleaning" \in refresh
  /\ c \in {"start_charging", "stop_charging"} => "battery" \in refresh
  /\ c = "set_charge_timer" => "charge_timer" \in refresh
  /\ c \in {"set_target_soc", "set_target_soc_mode"} => "target_soc" \in refresh
  /\ c = "set_amp_limit" => "amp_limit" \in refresh
  /\ c = "set_climate_timer_settings" => "climate_timer_settings" \in refresh

LEMMA CommandsConfirm == \A c \in DOMAIN CommandOf : Confirms(c, CommandOf[c].refresh)
<1> USE CommandFields DEF Confirms
<1>1. \A c \in DOMAIN LockCommands : Confirms(c, LockCommands[c].refresh)
  BY DEF LockCommands
<1>2. \A c \in DOMAIN ButtonCommands : Confirms(c, ButtonCommands[c].refresh)
  BY DEF ButtonCommands
<1>3. \A c \in DOMAIN ClimateCommands : Confirms(c, ClimateCommands[c].refresh)
  BY DEF ClimateCommands
<1>4. \A c \in DOMAIN ChargingCommands : Confirms(c, ChargingCommands[c].refresh)
  BY DEF ChargingCommands
<1>5. \A c \in DOMAIN LocationCommands : Confirms(c, LocationCommands[c].refresh)
  BY DEF LocationCommands
<1>6. \A c \in DOMAIN BodyCommands : Confirms(c, BodyCommands[c].refresh)
  BY DEF BodyCommands
<1>7. \A c \in DOMAIN OtaCommands : Confirms(c, OtaCommands[c].refresh)
  BY DEF OtaCommands
<1>8. \A c \in DOMAIN TimerCommands : Confirms(c, TimerCommands[c].refresh)
  BY DEF TimerCommands
<1> HIDE CommandFields DEF Confirms
<1> QED BY <1>1, <1>2, <1>3, <1>4, <1>5, <1>6, <1>7, <1>8, CommandsAre DEF IsFrom, Tables

\* Each of an entity's commands refreshes the attribute the entity reads.
EntityIsRefreshed(e) == \A c \in e.issues : e.reads \in CommandOf[c].refresh

LEMMA EntitiesAreRefreshed == \A e \in DOMAIN EntityOf : EntityIsRefreshed(EntityOf[e])
<1> USE EntityFields DEF EntityIsRefreshed
<1>0. \A c \in {"lock", "unlock", "start_climate", "stop_climate", "start_precleaning",
               "stop_precleaning", "start_charging", "stop_charging", "set_charge_timer",
               "set_target_soc", "set_target_soc_mode", "set_amp_limit",
               "set_climate_timer_settings"} : Confirms(c, CommandOf[c].refresh)
  <2>1. "lock" \in DOMAIN LockCommands /\ "unlock" \in DOMAIN LockCommands
    BY DEF LockCommands
  <2>2. {"start_climate", "stop_climate"} \subseteq DOMAIN ClimateCommands
    BY DEF ClimateCommands
  <2>3. {"set_target_soc", "set_target_soc_mode", "set_amp_limit", "start_charging",
         "stop_charging", "set_charge_timer"} \subseteq DOMAIN ChargingCommands
    BY DEF ChargingCommands
  <2>4. {"start_precleaning", "stop_precleaning"} \subseteq DOMAIN BodyCommands
    BY DEF BodyCommands
  <2>5. "set_climate_timer_settings" \in DOMAIN TimerCommands
    BY DEF TimerCommands
  <2> QED BY <2>1, <2>2, <2>3, <2>4, <2>5, CommandsAre, CommandsConfirm DEF Tables
<1>1. \A e \in DOMAIN LockEntity : EntityIsRefreshed(LockEntity[e])
  BY <1>0 DEF LockEntity, Confirms
<1>2. \A e \in DOMAIN SwitchEntities : EntityIsRefreshed(SwitchEntities[e])
  BY <1>0 DEF SwitchEntities, Confirms
<1>3. \A e \in DOMAIN NumberEntities : EntityIsRefreshed(NumberEntities[e])
  BY <1>0 DEF NumberEntities, Confirms
<1>4. \A e \in DOMAIN SelectEntities : EntityIsRefreshed(SelectEntities[e])
  BY <1>0 DEF SelectEntities, Confirms
<1>5. \A e \in DOMAIN TimeEntities : EntityIsRefreshed(TimeEntities[e])
  BY <1>0 DEF TimeEntities, Confirms
<1> QED BY <1>1, <1>2, <1>3, <1>4, <1>5, EntityTablesAre DEF IsFrom, EntityTables

-----------------------------------------------------------------------------
(* The call.                                                               *)

\* What links the attempts to the requests they sent: a request is carried out
\* once, a message is one of the attempt under way, and a delay is followed by
\* a try that the retries allow.
CallInv ==
  /\ GrpcTypeOK
  /\ travelling \cap carried = {}
  /\ yielded > 0 => attempt \in carried
  /\ phase = "waiting" => attempt < Retries /\ yielded = 0

-----------------------------------------------------------------------------
(* The invariant.                                                          *)

LEMMA InitCall == GrpcInit => CallInv
BY GrpcAssumption DEF GrpcInit, CallInv, GrpcTypeOK, Ended, Pending, GrpcAssumption

LEMMA StartKeepsCall ==
  ASSUME CallInv, NEW m \in {"unary", "stream"}, StartCall(m)
  PROVE  CallInv'
BY GrpcAssumption DEF StartCall, CallInv, GrpcTypeOK, Ended, Pending, GrpcAssumption

LEMMA CarryOutKeepsCall ==
  ASSUME CallInv, NEW n \in travelling, CarryOut(n)
  PROVE  CallInv'
BY DEF CarryOut, CallInv, GrpcTypeOK

LEMMA LoseRequestKeepsCall ==
  ASSUME CallInv, NEW n \in travelling, LoseRequest(n)
  PROVE  CallInv'
BY DEF LoseRequest, CallInv, GrpcTypeOK

LEMMA GoesOnKeepsCall ==
  ASSUME CallInv, GrpcGoesOn
  PROVE  CallInv'
<1>1. CASE TryAgain
  BY <1>1, GrpcAssumption
  DEF TryAgain, CallInv, GrpcTypeOK, Ended, Pending, GrpcAssumption
<1>2. CASE AnswerArrives
  BY <1>2, GrpcAssumption
  DEF AnswerArrives, CallInv, GrpcTypeOK, Ended, Pending, GrpcAssumption
<1>3. CASE StreamCloses
  BY <1>3 DEF StreamCloses, CallInv, GrpcTypeOK, Ended, Pending
<1>4. ASSUME NEW retriable \in BOOLEAN, AttemptFails(retriable) PROVE CallInv'
  BY <1>4, GrpcAssumption
  DEF AttemptFails, AfterFailure, CallInv, GrpcTypeOK, Ended, Pending, GrpcAssumption
<1> QED BY <1>1, <1>2, <1>3, <1>4 DEF GrpcGoesOn

LEMMA StepCall == CallInv /\ [GrpcNext]_grpcVars => CallInv'
<1> SUFFICES ASSUME CallInv, [GrpcNext]_grpcVars PROVE CallInv'
  OBVIOUS
<1>1. CASE CancelCall
  BY <1>1 DEF CancelCall, CallInv, GrpcTypeOK, Ended, Pending
<1>2. CASE LeaveStream
  BY <1>2 DEF LeaveStream, CallInv, GrpcTypeOK, Ended, Pending
<1>3. CASE UNCHANGED grpcVars
  BY <1>3 DEF grpcVars, CallInv, GrpcTypeOK
<1> QED
  BY <1>1, <1>2, <1>3, StartKeepsCall, CarryOutKeepsCall, LoseRequestKeepsCall,
     GoesOnKeepsCall
  DEF GrpcNext

-----------------------------------------------------------------------------
(* The promise.                                                            *)

LEMMA CarriedIsCounted ==
  ASSUME CallInv
  PROVE  /\ IsFiniteSet(carried)
         /\ Cardinality(carried) \in Nat
         /\ Cardinality(carried) <= Retries + 1
         /\ carried # {} => Cardinality(carried) > 0
<1>1. carried \in SUBSET Nat /\ \A n \in carried : n <= Retries
  BY GrpcAssumption DEF CallInv, GrpcTypeOK, GrpcAssumption
<1>2. IsFiniteSet(carried) /\ Cardinality(carried) <= Retries + 1
  BY <1>1, FS_BoundedSetOfNaturals, GrpcAssumption DEF GrpcAssumption
<1> QED BY <1>2, FS_CardinalityType, FS_EmptySet

LEMMA CallInit == GrpcInit => Abstract!Init
<1> SUFFICES ASSUME GrpcInit PROVE Abstract!Init
  OBVIOUS
<1>1. Cardinality(carried) = 0
  BY FS_EmptySet DEF GrpcInit
<1>2. Result = "none"
  BY DEF GrpcInit, Result, Pending
<1> QED BY <1>1, <1>2 DEF GrpcInit, Abstract!Init

LEMMA CarryOutServes ==
  ASSUME CallInv, CallInv', NEW n \in travelling, CarryOut(n)
  PROVE  Abstract!CarryOut
<1>1. n \notin carried /\ carried' = carried \cup {n}
  BY DEF CarryOut, CallInv
<1>2. Cardinality(carried') = Cardinality(carried) + 1
  BY <1>1, CarriedIsCounted, FS_AddElement
<1>3. Cardinality(carried') \in Nat /\ Cardinality(carried') <= Retries + 1
  <2>1. carried' \in SUBSET Nat /\ \A k \in carried' : k <= Retries
    BY GrpcAssumption DEF CallInv, GrpcTypeOK, GrpcAssumption
  <2>2. IsFiniteSet(carried') /\ Cardinality(carried') <= Retries + 1
    BY <2>1, FS_BoundedSetOfNaturals, GrpcAssumption DEF GrpcAssumption
  <2> QED BY <2>2, FS_CardinalityType
<1>4. Cardinality(carried) < Retries + 1
  BY <1>2, <1>3, CarriedIsCounted, GrpcAssumption DEF GrpcAssumption
<1>5. UNCHANGED <<yielded, Result>>
  BY DEF CarryOut, Result
<1> QED BY <1>2, <1>4, <1>5 DEF Abstract!CarryOut

LEMMA StepServes ==
  ASSUME CallInv, CallInv', [GrpcNext]_grpcVars
  PROVE  [Abstract!Next]_<<Cardinality(carried), yielded, Result>>
<1> DEFINE Kept == UNCHANGED <<Cardinality(carried), yielded, Result>>
<1>1. ASSUME NEW m \in {"unary", "stream"}, StartCall(m) PROVE Abstract!Start
  BY <1>1, FS_EmptySet DEF StartCall, Abstract!Start, Result, Ended, Pending
<1>2. CASE CancelCall
  BY <1>2 DEF CancelCall, Abstract!Next, Abstract!Failed, Result, Pending
<1>3. CASE LeaveStream
  BY <1>3, CarriedIsCounted
  DEF LeaveStream, Abstract!Next, Abstract!Answered, Result, Pending, CallInv
<1>4. ASSUME NEW n \in travelling, LoseRequest(n) PROVE Kept
  BY <1>4 DEF LoseRequest, Result
<1>5. CASE TryAgain
  BY <1>5 DEF TryAgain, Result, Pending, CallInv
<1>6. CASE AnswerArrives
  BY <1>6, CarriedIsCounted
  DEF AnswerArrives, Abstract!Next, Abstract!Answered, Abstract!HandOut, Result, Pending
<1>7. CASE StreamCloses
  BY <1>7, CarriedIsCounted
  DEF StreamCloses, Abstract!Next, Abstract!Answered, Result, Pending
<1>8. ASSUME NEW retriable \in BOOLEAN, AttemptFails(retriable)
      PROVE  Abstract!Answered \/ Abstract!Failed \/ Kept
  <2>1. CASE yielded > 0
    BY <1>8, <2>1, CarriedIsCounted
    DEF AttemptFails, AfterFailure, Abstract!Answered, Result, Pending, CallInv, GrpcTypeOK
  <2>2. CASE yielded = 0
    BY <1>8, <2>2
    DEF AttemptFails, AfterFailure, Abstract!Failed, Result, Pending
  <2> QED BY <2>1, <2>2, GrpcAssumption DEF CallInv, GrpcTypeOK, GrpcAssumption
<1>9. CASE UNCHANGED grpcVars
  BY <1>9 DEF grpcVars, Result
<1> QED
  BY <1>1, <1>2, <1>3, <1>4, <1>5, <1>6, <1>7, <1>8, <1>9, CarryOutServes
  DEF GrpcNext, GrpcGoesOn, Abstract!Next

\* A call keeps its types, and its invariant.
THEOREM CallKeepsOrder == GrpcSpec => []CallInv
BY InitCall, StepCall, PTL DEF GrpcSpec

\* Retried, cut short or cancelled, a call is a RemoteCall.
THEOREM CallImplementsRemoteCall == GrpcSpec => CallIsRemoteCall
<1>1. CallInv /\ CallInv' /\ [GrpcNext]_grpcVars
        => [Abstract!Next]_<<Cardinality(carried), yielded, Result>>
  BY StepServes
<1> QED
  BY CallInit, CallKeepsOrder, <1>1, PTL DEF GrpcSpec, CallIsRemoteCall, Abstract!Spec

-----------------------------------------------------------------------------
(* The call behind a command.                                              *)

LEMMA SelfIs ==
  ASSUME entity \in Entities
  PROVE  EntityIsWellFormed(Self)
BY EntitiesAre, CommandsAssumption DEF Self, CommandsAssumption

\* Whatever the entity, the coordinator and the car do, the call does one of
\* its own steps or none.
LEMMA StepCalls == [Next]_vars => [GrpcNext]_grpcVars
<1> SUFFICES ASSUME [Next]_vars PROVE [GrpcNext]_grpcVars
  OBVIOUS
<1>1. ASSUME NEW c \in DOMAIN CommandOf, NEW v \in Values, IssueCommand(c, v)
      PROVE  GrpcNext
  BY <1>1, CommandCalls DEF IssueCommand, GrpcNext, Call
<1>2. CASE CommandTimesOut
  BY <1>2 DEF CommandTimesOut, GrpcNext
<1>3. ASSUME NEW reply \in Replies(Issued.answer), CommandAnswered(reply)
      PROVE  UNCHANGED grpcVars
  BY <1>3 DEF CommandAnswered
<1>4. ASSUME NEW unsupported \in BOOLEAN, CommandRaises(unsupported)
      PROVE  UNCHANGED grpcVars
  BY <1>4 DEF CommandRaises
<1>5. CASE CallGoesOn
  BY <1>5 DEF CallGoesOn, GrpcNext
<1>6. ASSUME NEW n \in travelling, RequestIsCarriedOut(n) \/ RequestIsLost(n)
      PROVE  GrpcNext
  BY <1>6 DEF RequestIsCarriedOut, RequestIsLost, GrpcNext
<1>7. CASE CarChanges \/ CarReports \/ PollFails \/ OtherChange \/ EntityStep
  BY <1>7 DEF CarChanges, CarReports, PollFails, OtherChange, EntityStep
<1>8. CASE UNCHANGED vars
  BY <1>8 DEF vars
<1> QED
  BY <1>1, <1>2, <1>3, <1>4, <1>5, <1>6, <1>7, <1>8 DEF Next

LEMMA CommandsCall == Spec => GrpcSpec
<1>1. Init => GrpcInit
  BY DEF Init
<1> QED BY <1>1, StepCalls, PTL DEF Spec, GrpcSpec

\* The call of a command is a RemoteCall: carried out once per try at most, and
\* once at least when it is answered; no message is handed out twice.
THEOREM CommandIsRemoteCall == Spec => CallIsRemoteCall
BY CommandsCall, CallImplementsRemoteCall, PTL

-----------------------------------------------------------------------------
(* Types.                                                                  *)

LEMMA InitTypes == Init => TypeOK
<1> SUFFICES ASSUME Init PROVE TypeOK
  OBVIOUS
<1>1. PICK e \in Entities :
        /\ entity = e /\ command \in EntityOf[e].issues
        /\ OptimisticInit(EntityOf[e].blank, EntityOf[e].blank # "unavailable")
  BY DEF Init
<1>2. EntityOf[e].blank \in {"unknown", "missing", "unavailable"}
  BY EntitiesAre, CommandsAssumption DEF EntityIsWellFormed, CommandsAssumption
<1>3. OptimisticTypeOK
  <2>1. /\ real = EntityOf[e].blank /\ override = "none" /\ left = 0
        /\ shown \in {"unknown", "unavailable"}
    BY <1>1 DEF OptimisticInit
  <2>2. 0 \in 0..TTL
    BY OptimisticAssumption DEF OptimisticAssumption
  <2>3. /\ available \in BOOLEAN /\ added \in BOOLEAN
        /\ armed \in BOOLEAN /\ moving \in BOOLEAN
    BY <1>1 DEF OptimisticInit
  <2> QED BY <1>2, <2>1, <2>2, <2>3 DEF OptimisticTypeOK
<1>4. GrpcTypeOK
  BY InitCall DEF Init, CallInv
<1>5. /\ running \in BOOLEAN /\ refused \in BOOLEAN
      /\ reachable \in BOOLEAN /\ supported \in BOOLEAN /\ settable \in BOOLEAN
      /\ outcome \in {"none", "succeeded", "failed"}
      /\ asked \in Values /\ car \in Values
  BY DEF Init
<1>6. changes \in 0..MaxChanges /\ trouble \in 0..MaxTrouble
  BY CommandsAssumption DEF Init, CommandsAssumption
<1> QED BY <1>1, <1>3, <1>4, <1>5, <1>6 DEF TypeOK, Self

LEMMA WriteStateTypes ==
  ASSUME OptimisticTypeOK,
         NEW o \in Values \cup {"none"}, NEW l \in 0..TTL, NEW a \in BOOLEAN,
         NEW r \in Values \cup {"unknown", "missing", "unavailable"},
         NEW av \in BOOLEAN, NEW mv \in BOOLEAN,
         WriteState(o, l, a, r, av, mv)
  PROVE  OptimisticTypeOK'
BY OptimisticAssumption DEF WriteState, Plain, OptimisticTypeOK, OptimisticAssumption

LEMMA AvailableTypes ==
  ASSUME NEW reached \in BOOLEAN, NEW able \in BOOLEAN, NEW set \in BOOLEAN, NEW r
  PROVE  Available(reached, able, set, r) \in BOOLEAN
BY DEF Available

LEMMA StepTypes == TypeOK /\ CallInv' /\ [Next]_vars => TypeOK'
<1> SUFFICES ASSUME TypeOK, CallInv', [Next]_vars PROVE TypeOK'
  OBVIOUS
<1>0. GrpcTypeOK' /\ OptimisticTypeOK
  BY DEF CallInv, TypeOK
<1>a. /\ real \in Values \cup {"unknown", "missing", "unavailable"}
      /\ override \in Values \cup {"none"} /\ left \in 0..TTL
      /\ available \in BOOLEAN /\ moving \in BOOLEAN /\ armed \in BOOLEAN
  BY <1>0 DEF OptimisticTypeOK
<1>b. 0 \in 0..TTL /\ TTL \in 0..TTL
  BY OptimisticAssumption DEF OptimisticAssumption
<1>c. ASSUME NEW av \in BOOLEAN,
             KeepOptimistic(av) \/ ClearOptimistic(av) \/ StartMoving(av) \/ StopMoving(av)
      PROVE  OptimisticTypeOK'
  BY <1>0, <1>a, <1>b, <1>c, WriteStateTypes
  DEF KeepOptimistic, ClearOptimistic, StartMoving, StopMoving
<1>d. ASSUME NEW av \in BOOLEAN, NEW v \in Values, SetOptimistic(v, av)
      PROVE  OptimisticTypeOK'
  BY <1>0, <1>a, <1>b, <1>d, WriteStateTypes DEF SetOptimistic
<1>e. UNCHANGED optimisticVars => OptimisticTypeOK'
  BY <1>0 DEF OptimisticTypeOK, optimisticVars
<1>1. ASSUME NEW c \in DOMAIN CommandOf, NEW v \in Values, IssueCommand(c, v)
      PROVE  TypeOK'
  <2>1. OptimisticTypeOK'
    BY <1>1, <1>a, <1>c, <1>d DEF IssueCommand
  <2> QED BY <1>0, <1>1, <2>1 DEF IssueCommand, TypeOK, Self, carVars
<1>2. CASE CommandTimesOut
  BY <1>0, <1>2, <1>e DEF CommandTimesOut, TypeOK, Self, commandVars, carVars
<1>3. ASSUME NEW reply \in Replies(Issued.answer), CommandAnswered(reply)
      PROVE  TypeOK'
  <2>1. Available(reachable, supported, settable, real) \in BOOLEAN
    BY AvailableTypes DEF TypeOK
  <2>2. Refuses(reply) \in BOOLEAN
    BY DEF Refuses, Replies
  <2>3. OptimisticTypeOK'
    BY <1>3, <1>a, <1>c, <1>d, <1>e, <2>1 DEF CommandAnswered, Succeeds, Fails, TypeOK
  <2> QED BY <1>0, <1>3, <2>2, <2>3 DEF CommandAnswered, Succeeds, Fails, TypeOK, Self, carVars
<1>4. ASSUME NEW unsupported \in BOOLEAN, CommandRaises(unsupported)
      PROVE  TypeOK'
  <2>1. (supported /\ ~unsupported) \in BOOLEAN
    BY DEF TypeOK
  <2>2. Available(reachable, supported /\ ~unsupported, settable, real) \in BOOLEAN
    BY <2>1, AvailableTypes DEF TypeOK
  <2>3. OptimisticTypeOK'
    BY <1>4, <1>c, <2>2 DEF CommandRaises, Fails
  <2> QED BY <1>0, <1>4, <2>1, <2>3 DEF CommandRaises, Fails, TypeOK, Self, carVars
<1>5. CASE CallGoesOn
  BY <1>0, <1>5, <1>e DEF CallGoesOn, TypeOK, Self, commandVars, carVars
<1>6. ASSUME NEW n \in travelling, RequestIsCarriedOut(n) \/ RequestIsLost(n)
      PROVE  TypeOK'
  BY <1>0, <1>6, <1>e
  DEF RequestIsCarriedOut, RequestIsLost, TypeOK, Self, commandVars, carVars
<1>7. CASE CarChanges
  BY <1>0, <1>7, <1>e, CommandsAssumption
  DEF CarChanges, TypeOK, Self, commandVars, CommandsAssumption
<1>8. CASE CarReports
  <2>1. settable' \in BOOLEAN
    BY <1>8 DEF CarReports, ModeReported
  <2>2. Available(TRUE, supported, settable', car) \in BOOLEAN
    BY <2>1, AvailableTypes DEF TypeOK
  <2>3. OptimisticTypeOK'
    BY <1>0, <1>8, <1>a, <2>2, WriteStateTypes DEF CarReports, TypeOK
  <2> QED BY <1>0, <1>8, <2>1, <2>3 DEF CarReports, TypeOK, Self, commandVars
<1>9. CASE PollFails
  <2>1. trouble' \in 0..MaxTrouble
    BY <1>9, CommandsAssumption DEF PollFails, TypeOK, CommandsAssumption
  <2>2. OptimisticTypeOK'
    BY <1>9, <1>c DEF PollFails
  <2>3. reachable' \in BOOLEAN
    BY <1>9 DEF PollFails
  <2> QED BY <1>0, <1>9, <2>1, <2>2, <2>3 DEF PollFails, TypeOK, Self, commandVars
<1>10. CASE OtherChange
  <2>1. settable' \in BOOLEAN
    BY <1>10 DEF OtherChange, ModeReported
  <2>2. Available(reachable, supported, settable', real) \in BOOLEAN
    BY <2>1, AvailableTypes DEF TypeOK
  <2>3. OptimisticTypeOK'
    BY <1>10, <1>c, <2>2 DEF OtherChange
  <2> QED BY <1>0, <1>10, <2>1, <2>3 DEF OtherChange, TypeOK, Self, commandVars
<1>11. CASE EntityStep
  <2>1. OptimisticTypeOK'
    <3>1. CASE Tick
      BY <1>0, <3>1, OptimisticAssumption DEF Tick, OptimisticTypeOK, OptimisticAssumption
    <3>2. CASE Expire
      BY <1>0, <1>a, <1>b, <3>2, WriteStateTypes DEF Expire
    <3>3. CASE RemoveEntity
      BY <1>0, <3>3 DEF RemoveEntity, OptimisticTypeOK
    <3> QED BY <1>11, <3>1, <3>2, <3>3 DEF EntityStep
  <2> QED BY <1>0, <1>11, <2>1 DEF EntityStep, TypeOK, Self, commandVars, carVars
<1>12. CASE UNCHANGED vars
  BY <1>0, <1>12, <1>e DEF vars, TypeOK, Self, commandVars, carVars
<1> QED
  BY <1>1, <1>2, <1>3, <1>4, <1>5, <1>6, <1>7, <1>8, <1>9, <1>10, <1>11, <1>12 DEF Next

\* Every step of the entity, the coordinator, the call and the car keeps the
\* types of the whole state.
THEOREM TypesAreKept == Spec => []TypeOK
BY InitTypes, StepTypes, CommandsCall, CallKeepsOrder, PTL DEF Spec

-----------------------------------------------------------------------------
(* What is shown.                                                          *)

\* Whatever is written, it accounts for what is then shown.
LEMMA WriteStateAccounts ==
  ASSUME OptimisticTypeOK,
         NEW o \in Values \cup {"none"}, NEW l, NEW a \in BOOLEAN,
         NEW r \in Values \cup {"unknown", "missing", "unavailable"},
         NEW av \in BOOLEAN, NEW mv \in BOOLEAN,
         o # "none" => a,
         WriteState(o, l, a, r, av, mv)
  PROVE  Accounted'
<1> SUFFICES ASSUME added' PROVE Accounted'
  BY DEF Accounted
<1> DEFINE dropped == added /\ av /\ ~mv /\ r # "missing" /\ o # "none" /\ Resolved(o, l, r)
<1>1. /\ override' = (IF dropped THEN "none" ELSE o)
      /\ armed' = (a /\ ~dropped)
      /\ real' = r /\ available' = av /\ moving' = mv /\ added
      /\ shown' = (CASE ~added -> shown
                     [] added /\ ~av -> "unavailable"
                     [] added /\ av /\ mv -> "changing"
                     [] added /\ av /\ ~mv -> IF r = "missing" \/ override' = "none"
                                              THEN Plain(r) ELSE override')
  BY DEF WriteState
<1>2. override' # "none" => armed'
  BY <1>1
<1>3. av /\ ~mv => override' # r
  BY <1>1, OptimisticAssumption DEF Resolved, OptimisticAssumption
<1>4. shown' = (CASE ~available' -> "unavailable"
                  [] available' /\ moving' -> "changing"
                  [] available' /\ ~moving' /\ (real' = "missing" \/ override' = "none")
                       -> Plain(real')
                  [] available' /\ ~moving' /\ real' # "missing" /\ override' # "none"
                       -> override')
  <2>1. CASE ~av
    BY <1>1, <2>1
  <2>2. CASE av /\ mv
    BY <1>1, <2>2
  <2>3. CASE av /\ ~mv
    BY <1>1, <2>3
  <2> QED BY <2>1, <2>2, <2>3
<1> QED BY <1>1, <1>2, <1>3, <1>4 DEF Accounted, Plain

LEMMA InitAccounts == Init => ShownIsAccounted
<1> SUFFICES ASSUME Init PROVE ShownIsAccounted
  OBVIOUS
<1>1. PICK e \in Entities : OptimisticInit(EntityOf[e].blank, EntityOf[e].blank # "unavailable")
  BY DEF Init
<1>2. EntityOf[e].blank \in {"unknown", "missing", "unavailable"}
  BY EntitiesAre, CommandsAssumption DEF EntityIsWellFormed, CommandsAssumption
<1>3. /\ real \in {"unknown", "missing", "unavailable"} /\ override = "none" /\ ~moving
      /\ available <=> real # "unavailable"
      /\ shown = IF available THEN "unknown" ELSE "unavailable"
  BY <1>1, <1>2 DEF OptimisticInit
<1>4. Accounted
  <2>1. CASE real = "unavailable"
    BY <1>3, <2>1 DEF Accounted, Plain
  <2>2. CASE real \in {"unknown", "missing"}
    BY <1>3, <2>2 DEF Accounted, Plain
  <2> QED BY <1>3, <2>1, <2>2
<1>5. ~running
  BY DEF Init
<1> QED BY <1>3, <1>4, <1>5 DEF ShownIsAccounted

\* What a step may do to the entity besides the passing of time.
Renders ==
  \/ \E av \in BOOLEAN :
       KeepOptimistic(av) \/ ClearOptimistic(av) \/ StartMoving(av) \/ StopMoving(av)
  \/ \E av \in BOOLEAN, v \in Values : SetOptimistic(v, av)
  \/ \E r \in Values, av \in BOOLEAN : WriteState(override, left, armed, r, av, moving)
  \/ UNCHANGED optimisticVars

\* A step that renders the state anew, or forgets the override altogether,
\* accounts for it; one that leaves the entity alone changes nothing of it.
LEMMA RenderAccounts ==
  ASSUME TypeOK, Accounted, Renders
  PROVE  Accounted'
<1>0. /\ OptimisticTypeOK
      /\ real \in Values \cup {"unknown", "missing", "unavailable"}
      /\ override \in Values \cup {"none"}
      /\ armed \in BOOLEAN /\ moving \in BOOLEAN
  BY DEF TypeOK, OptimisticTypeOK
<1>1. ASSUME NEW r \in Values \cup {"unknown", "missing", "unavailable"},
             NEW av \in BOOLEAN, NEW mv \in BOOLEAN,
             WriteState(override, left, armed, r, av, mv)
      PROVE  Accounted'
  <2>1. CASE added
    <3>1. override # "none" => armed
      BY <2>1 DEF Accounted
    <3> QED BY <1>0, <1>1, <3>1, WriteStateAccounts
  <2>2. CASE ~added
    BY <1>1, <2>2 DEF WriteState, Accounted
  <2> QED BY <2>1, <2>2
<1>2. ASSUME NEW av \in BOOLEAN, ClearOptimistic(av)
      PROVE  Accounted'
  BY <1>0, <1>2, WriteStateAccounts DEF ClearOptimistic
<1>3. ASSUME NEW av \in BOOLEAN, NEW v \in Values, SetOptimistic(v, av)
      PROVE  Accounted'
  BY <1>0, <1>3, WriteStateAccounts DEF SetOptimistic
<1>4. CASE UNCHANGED optimisticVars
  BY <1>4 DEF optimisticVars, Accounted, Plain
<1> QED BY <1>0, <1>1, <1>2, <1>3, <1>4 DEF Renders, KeepOptimistic, StartMoving, StopMoving

LEMMA StepRenders ==
  ASSUME TypeOK, [Next]_vars
  PROVE  Renders \/ Tick \/ Expire \/ RemoveEntity
<1>0. /\ available \in BOOLEAN /\ asked \in Values /\ car \in Values
      /\ Available(reachable, supported, settable, real) \in BOOLEAN
  BY AvailableTypes DEF TypeOK, OptimisticTypeOK
<1>1. ASSUME NEW c \in DOMAIN CommandOf, NEW v \in Values, IssueCommand(c, v)
      PROVE  SetOptimistic(v, available) \/ StartMoving(available)
  BY <1>1 DEF IssueCommand
<1>2. CASE CommandTimesOut \/ CallGoesOn \/ CarChanges
  BY <1>2 DEF CommandTimesOut, CallGoesOn, CarChanges, Renders
<1>3. ASSUME NEW reply \in Replies(Issued.answer), CommandAnswered(reply)
      PROVE  \/ SetOptimistic(asked, available) \/ UNCHANGED optimisticVars
             \/ ClearOptimistic(Available(reachable, supported, settable, real))
             \/ StopMoving(Available(reachable, supported, settable, real))
  BY <1>3 DEF CommandAnswered, Succeeds, Fails
<1>4. ASSUME NEW unsupported \in BOOLEAN, CommandRaises(unsupported)
      PROVE  \E av \in BOOLEAN : StopMoving(av) \/ ClearOptimistic(av)
  <2>1. Available(reachable, supported /\ ~unsupported, settable, real) \in BOOLEAN
    BY AvailableTypes DEF TypeOK
  <2> QED BY <1>4, <2>1 DEF CommandRaises, Fails
<1>5. ASSUME NEW n \in travelling, RequestIsCarriedOut(n) \/ RequestIsLost(n)
      PROVE  UNCHANGED optimisticVars
  BY <1>5 DEF RequestIsCarriedOut, RequestIsLost
<1>6. CASE CarReports
  <2>1. settable' \in BOOLEAN
    BY <1>6 DEF CarReports, ModeReported
  <2>2. Available(TRUE, supported, settable', car) \in BOOLEAN
    BY <2>1, AvailableTypes DEF TypeOK
  <2> QED BY <1>0, <1>6, <2>2 DEF CarReports, Renders
<1>7. CASE PollFails
  BY <1>7 DEF PollFails, Renders
<1>8. CASE OtherChange
  <2>1. settable' \in BOOLEAN
    BY <1>8 DEF OtherChange, ModeReported
  <2>2. Available(reachable, supported, settable', real) \in BOOLEAN
    BY <2>1, AvailableTypes DEF TypeOK
  <2> QED BY <1>8, <2>2 DEF OtherChange, Renders
<1>9. CASE EntityStep
  BY <1>9 DEF EntityStep
<1>10. CASE UNCHANGED vars
  BY <1>10 DEF vars, Renders
<1>11. ASSUME NEW c \in DOMAIN CommandOf, NEW v \in Values, IssueCommand(c, v)
       PROVE  Renders
  BY <1>0, <1>1, <1>11 DEF Renders
<1>12. ASSUME NEW reply \in Replies(Issued.answer), CommandAnswered(reply)
       PROVE  Renders
  BY <1>0, <1>3, <1>12 DEF Renders
<1>13. ASSUME NEW unsupported \in BOOLEAN, CommandRaises(unsupported)
       PROVE  Renders
  BY <1>4, <1>13 DEF Renders
<1>14. ASSUME NEW n \in travelling, RequestIsCarriedOut(n) \/ RequestIsLost(n)
       PROVE  Renders
  BY <1>5, <1>14 DEF Renders
<1> QED
  BY <1>2, <1>6, <1>7, <1>8, <1>9, <1>10, <1>11, <1>12, <1>13, <1>14 DEF Next

\* A lock moves exactly while its command runs.
LEMMA StepMoves ==
  ASSUME TypeOK, moving <=> running /\ Self.when = "after", [Next]_vars
  PROVE  (moving <=> running /\ Self.when = "after")'
<1>0. Self.when \in {"before", "after"} /\ moving \in BOOLEAN
  BY SelfIs DEF TypeOK, EntityIsWellFormed, OptimisticTypeOK
<1>1. ASSUME NEW c \in DOMAIN CommandOf, NEW v \in Values, IssueCommand(c, v)
      PROVE  (moving <=> running /\ Self.when = "after")'
  <2>1. running' /\ Self' = Self
    BY <1>1 DEF IssueCommand, Self
  <2>2. moving' = (Self.when = "after")
    BY <1>0, <1>1 DEF IssueCommand, SetOptimistic, StartMoving, WriteState
  <2> QED BY <2>1, <2>2
<1>2. CASE UNCHANGED <<moving, running, entity>>
  BY <1>2 DEF Self
<1>3. ASSUME NEW able, Fails(able) PROVE moving' = FALSE
  BY <1>3 DEF Fails, ClearOptimistic, StopMoving, WriteState
<1>4. ASSUME NEW reply \in Replies(Issued.answer), CommandAnswered(reply)
      PROVE  (moving <=> running /\ Self.when = "after")'
  <2>1. ~running' /\ running /\ Self' = Self
    BY <1>4 DEF CommandAnswered, Self
  <2>2. ASSUME Succeeds PROVE ~moving'
    <3>1. CASE Self.when = "after"
      BY <2>2, <3>1 DEF Succeeds, SetOptimistic, WriteState
    <3>2. CASE Self.when # "after"
      BY <2>2, <3>2 DEF Succeeds, optimisticVars
    <3> QED BY <3>1, <3>2
  <2>3. ~moving'
    BY <1>3, <1>4, <2>2 DEF CommandAnswered
  <2> QED BY <2>1, <2>3
<1>5. ASSUME NEW unsupported \in BOOLEAN, CommandRaises(unsupported)
      PROVE  (moving <=> running /\ Self.when = "after")'
  BY <1>3, <1>5 DEF CommandRaises
<1>6. CASE CommandTimesOut \/ CallGoesOn \/ CarChanges \/ UNCHANGED vars
  BY <1>2, <1>6 DEF CommandTimesOut, CallGoesOn, CarChanges, vars, optimisticVars, commandVars
<1>7. ASSUME NEW n \in travelling, RequestIsCarriedOut(n) \/ RequestIsLost(n)
      PROVE  (moving <=> running /\ Self.when = "after")'
  BY <1>2, <1>7 DEF RequestIsCarriedOut, RequestIsLost, optimisticVars, commandVars
<1>8. CASE CarReports \/ PollFails \/ OtherChange
  BY <1>2, <1>8 DEF CarReports, PollFails, OtherChange, KeepOptimistic, WriteState, commandVars
<1>9. CASE EntityStep
  BY <1>2, <1>9 DEF EntityStep, Tick, Expire, RemoveEntity, WriteState, commandVars
<1> QED BY <1>1, <1>4, <1>5, <1>6, <1>7, <1>8, <1>9 DEF Next

LEMMA StepAccounts == TypeOK /\ ShownIsAccounted /\ [Next]_vars => ShownIsAccounted'
<1> SUFFICES ASSUME TypeOK, ShownIsAccounted, [Next]_vars PROVE ShownIsAccounted'
  OBVIOUS
<1>0. Accounted /\ (moving <=> running /\ Self.when = "after")
  BY DEF ShownIsAccounted
<1>1. Accounted'
  <2>1. CASE Tick
    BY <1>0, <2>1 DEF Tick, Accounted, Plain
  <2>2. CASE Expire
    <3>1. /\ OptimisticTypeOK /\ "none" \in Values \cup {"none"} /\ FALSE \in BOOLEAN
          /\ real \in Values \cup {"unknown", "missing", "unavailable"}
          /\ available \in BOOLEAN /\ moving \in BOOLEAN
      BY DEF TypeOK, OptimisticTypeOK
    <3> QED BY <2>2, <3>1, WriteStateAccounts DEF Expire
  <2>3. CASE RemoveEntity
    BY <2>3 DEF RemoveEntity, Accounted
  <2> QED BY <1>0, <2>1, <2>2, <2>3, StepRenders, RenderAccounts
<1> QED BY <1>0, <1>1, StepMoves DEF ShownIsAccounted

\* The entity never shows a value that neither the car nor a command in force
\* stands for, and never waits for a confirmation that is already there; a lock
\* shows that it is changing while its command runs, and no longer.
THEOREM EveryStateIsAccounted == Spec => []ShownIsAccounted
BY InitAccounts, StepAccounts, TypesAreKept, PTL DEF Spec

\* The value a command asked for is given up when the snapshot agrees with it,
\* when its time is over or when a command starts or ends, and never else.
THEOREM OverridesHold == Spec => OverrideHolds
<1>1. ASSUME TypeOK, [Next]_vars
      PROVE  [GivenUpForGood(running' # running)]_vars
  <2> SUFFICES ASSUME Next, override # "none", override' # override, running' = running
               PROVE  override = real' \/ left = 0
    BY <1>1 DEF GivenUpForGood
  <2>1. ASSUME NEW l, NEW a, NEW r, NEW av, NEW mv,
               WriteState(override, l, a, r, av, mv), l = left
        PROVE  override = real' \/ left = 0
    BY <2>1 DEF WriteState, Resolved
  <2>2. ASSUME NEW c \in DOMAIN CommandOf, NEW v \in Values, IssueCommand(c, v)
        PROVE  FALSE
    BY <2>2 DEF IssueCommand
  <2>3. ASSUME NEW reply \in Replies(Issued.answer), CommandAnswered(reply)
        PROVE  FALSE
    BY <2>3 DEF CommandAnswered
  <2>4. ASSUME NEW unsupported \in BOOLEAN, CommandRaises(unsupported)
        PROVE  FALSE
    BY <2>4 DEF CommandRaises
  <2>5. CASE CommandTimesOut \/ CallGoesOn \/ CarChanges
    BY <2>5 DEF CommandTimesOut, CallGoesOn, CarChanges, optimisticVars
  <2>6. ASSUME NEW n \in travelling, RequestIsCarriedOut(n) \/ RequestIsLost(n)
        PROVE  FALSE
    BY <2>6 DEF RequestIsCarriedOut, RequestIsLost, optimisticVars
  <2>7. CASE CarReports \/ PollFails \/ OtherChange
    BY <2>1, <2>7 DEF CarReports, PollFails, OtherChange, KeepOptimistic
  <2>8. CASE EntityStep
    BY <2>8 DEF EntityStep, Tick, Expire, RemoveEntity
  <2> QED BY <2>2, <2>3, <2>4, <2>5, <2>6, <2>7, <2>8 DEF Next
<1> QED BY <1>1, TypesAreKept, PTL DEF Spec, OverrideHolds

-----------------------------------------------------------------------------
(* Failures.                                                               *)

LEMMA WriteStateNone ==
  ASSUME NEW l, NEW a, NEW r, NEW av, NEW mv,
         WriteState("none", l, a, r, av, mv)
  PROVE  override' = "none"
BY DEF WriteState

LEMMA StepWithdraws == FailedIsNotShown /\ [Next]_vars => FailedIsNotShown'
<1> SUFFICES ASSUME FailedIsNotShown, [Next]_vars,
                    outcome' = "failed", Self'.when = "before"
             PROVE  override' = "none"
  BY DEF FailedIsNotShown
<1>0. entity' = entity => override = "none" \/ outcome # "failed"
  BY DEF FailedIsNotShown, Self
<1>1. ASSUME NEW c \in DOMAIN CommandOf, NEW v \in Values, IssueCommand(c, v)
      PROVE  override' = "none"
  BY <1>1 DEF IssueCommand
<1>2. ASSUME NEW able, Fails(able), entity' = entity
      PROVE  override' = "none"
  BY <1>2, WriteStateNone DEF Fails, ClearOptimistic, Self
<1>3. ASSUME NEW reply \in Replies(Issued.answer), CommandAnswered(reply)
      PROVE  override' = "none"
  BY <1>2, <1>3 DEF CommandAnswered, Succeeds
<1>4. ASSUME NEW unsupported \in BOOLEAN, CommandRaises(unsupported)
      PROVE  override' = "none"
  BY <1>2, <1>4 DEF CommandRaises
<1>5. CASE CommandTimesOut \/ CallGoesOn \/ CarChanges
  BY <1>0, <1>5 DEF CommandTimesOut, CallGoesOn, CarChanges, optimisticVars, commandVars
<1>6. ASSUME NEW n \in travelling, RequestIsCarriedOut(n) \/ RequestIsLost(n)
      PROVE  override' = "none"
  BY <1>0, <1>6 DEF RequestIsCarriedOut, RequestIsLost, optimisticVars, commandVars
<1>7. CASE CarReports \/ PollFails \/ OtherChange
  BY <1>0, <1>7, WriteStateNone
  DEF CarReports, PollFails, OtherChange, KeepOptimistic, commandVars
<1>8. CASE EntityStep
  BY <1>0, <1>8, WriteStateNone DEF EntityStep, Tick, Expire, RemoveEntity, commandVars
<1>9. CASE UNCHANGED vars
  BY <1>0, <1>9 DEF vars, optimisticVars, commandVars
<1> QED BY <1>1, <1>3, <1>4, <1>5, <1>6, <1>7, <1>8, <1>9 DEF Next

\* A command that failed leaves nothing of itself on show.
THEOREM FailuresAreWithdrawn == Spec => []FailedIsNotShown
<1>1. Init => FailedIsNotShown
  BY DEF Init, FailedIsNotShown
<1> QED BY <1>1, StepWithdraws, PTL DEF Spec

\* Of the answers that are looked into, none that turns the command down counts
\* as a success.
LEMMA RefusalsAreRecognized ==
  ASSUME NEW answer \in {"lock", "invocation", "chronos", "code"}, NEW reply, Refuses(reply)
  PROVE  ~CommandSucceeded(answer, reply)
<1>1. CASE reply.lock_error
  BY <1>1 DEF CommandSucceeded
<1>2. CASE reply.status \in
             {"UNDEFINED", "UNKNOWN_ERROR", "CAR_OFFLINE", "DELIVERY_TIMEOUT", "RESPONSE_TIMEOUT",
              "UNKNOWN_CAR_ERROR", "NOT_ALLOWED_PRIVACY_ENABLED", "NOT_ALLOWED_WRONG_USAGE_MODE",
              "INVOCATION_SPECIFIC_ERROR", "NOT_ALLOWED_CONFLICTING_INVOCATION", "CAR_ERROR",
              "ERROR"}
  <2>1. reply.status \notin {"SENT", "DELIVERED", "SUCCESS", "WARNING"}
    BY <1>2
  <2>2. Reduced(answer, reply.status) \notin {"SUCCESS", "WARNING"}
    BY <1>2, <2>1 DEF Reduced, ChronosSuccessStates
  <2>3. CASE answer \in {"lock", "invocation"}
    BY <2>1, <2>3 DEF CommandSucceeded
  <2>4. CASE answer \in {"chronos", "code"}
    BY <2>2, <2>4 DEF CommandSucceeded
  <2> QED BY <2>3, <2>4
<1> QED BY <1>1, <1>2 DEF Refuses

LEMMA StepRefuses == TypeOK /\ RefusalFails /\ [Next]_vars => RefusalFails'
<1> SUFFICES ASSUME TypeOK, RefusalFails, [Next]_vars PROVE RefusalFails'
  OBVIOUS
<1>1. command \in DOMAIN CommandOf /\ Issued.answer \in Answer /\ Issued.how # "trusted"
  <2>1. EntityIsWellFormed(Self) /\ command \in Self.issues
    BY SelfIs DEF TypeOK
  <2>2. command \in DOMAIN CommandOf \ (DOMAIN LocationCommands \cup DOMAIN OtaCommands)
    BY <2>1 DEF EntityIsWellFormed
  <2> QED BY <2>2, CommandCalls, TrustedCommands DEF Issued
<1>2. ASSUME NEW c \in DOMAIN CommandOf, NEW v \in Values, IssueCommand(c, v)
      PROVE  RefusalFails'
  BY <1>2 DEF IssueCommand, RefusalFails
<1>3. ASSUME NEW reply \in Replies(Issued.answer), CommandAnswered(reply)
      PROVE  RefusalFails'
  <2> SUFFICES ASSUME refused', Issued'.answer # "opaque" PROVE outcome' = "failed"
    BY DEF RefusalFails
  <2>1. Issued' = Issued /\ Refuses(reply)
    BY <1>3 DEF CommandAnswered, Issued
  <2>2. ~CommandSucceeded(Issued.answer, reply)
    BY <1>1, <2>1, RefusalsAreRecognized DEF Answer
  <2> QED BY <1>1, <1>3, <2>2 DEF CommandAnswered, Fails
<1>4. ASSUME NEW unsupported \in BOOLEAN, CommandRaises(unsupported)
      PROVE  RefusalFails'
  BY <1>4 DEF CommandRaises, RefusalFails
<1>5. UNCHANGED commandVars => RefusalFails'
  BY DEF commandVars, RefusalFails, Issued
<1>6. CASE CommandTimesOut \/ CallGoesOn \/ CarChanges \/ CarReports \/ PollFails
             \/ OtherChange \/ EntityStep
  BY <1>5, <1>6 DEF CommandTimesOut, CallGoesOn, CarChanges, CarReports, PollFails,
                    OtherChange, EntityStep
<1>7. ASSUME NEW n \in travelling, RequestIsCarriedOut(n) \/ RequestIsLost(n)
      PROVE  RefusalFails'
  BY <1>5, <1>7 DEF RequestIsCarriedOut, RequestIsLost
<1>8. CASE UNCHANGED vars
  BY <1>5, <1>8 DEF vars
<1> QED BY <1>2, <1>3, <1>4, <1>6, <1>7, <1>8 DEF Next

\* A refusal among the answers that are looked into is an error for whoever
\* issued the command.
THEOREM RefusalsAreReported == Spec => []RefusalFails
<1>1. Init => RefusalFails
  BY DEF Init, RefusalFails
<1> QED BY <1>1, StepRefuses, TypesAreKept, PTL DEF Spec

-----------------------------------------------------------------------------
(* The confirmation.                                                       *)

\* Whatever the entity, the attribute it reads is refreshed after its command.
THEOREM EveryEntityIsRefreshed == Spec => []RefreshReachesEntity
<1>1. TypeOK => RefreshReachesEntity
  <2> SUFFICES ASSUME TypeOK PROVE Self.reads \in Issued.refresh
    BY DEF RefreshReachesEntity
  <2>1. EntityIsRefreshed(Self)
    BY EntitiesAreRefreshed, CommandsAssumption DEF TypeOK, Self, CommandsAssumption
  <2> QED BY <2>1 DEF TypeOK, EntityIsRefreshed, Issued
<1> QED BY <1>1, TypesAreKept, PTL
=============================================================================
