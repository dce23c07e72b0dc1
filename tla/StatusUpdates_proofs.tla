------------------------- MODULE StatusUpdates_proofs -------------------------
(***************************************************************************)
(* What the snapshot says of the exterior and how a climate session counts *)
(* down, for any parts of a car, any updates and any reports.              *)
(***************************************************************************)
EXTENDS StatusUpdates, TLAPS

-----------------------------------------------------------------------------
(* Facts.                                                                  *)

LEMMA PathsAre ==
  ASSUME NEW path \in FactPaths
  PROVE  /\ path = <<path[1], path[2], path[3]>>
         /\ path[1] \in Parts /\ path[2] \in Members(path[1]) /\ path[3] \in Facts(path[1])
<1>1. PICK part \in Parts : path \in {part} \X Members(part) \X Facts(part)
  BY DEF FactPaths
<1> QED BY <1>1

LEMMA IsPath ==
  ASSUME NEW part \in Parts, NEW member \in Members(part), NEW fact \in Facts(part)
  PROVE  <<part, member, fact>> \in FactPaths
<1>1. <<part, member, fact>> \in {part} \X Members(part) \X Facts(part)
  OBVIOUS
<1> QED BY <1>1 DEF FactPaths

\* What a part of a status, or a member of a part, says of a fact.
MemberSays(ms, fact) == IF ms = None THEN Unspecified ELSE ms[fact]

PartSays(ps, member, fact) ==
  IF ps = None THEN Unspecified ELSE MemberSays(ps[member], fact)

Newest(current, previous) == IF current # Unspecified THEN current ELSE previous

LEMMA SaysByParts ==
  ASSUME NEW status, NEW part, NEW member, NEW fact
  PROVE  Says(status, part, member, fact)
           = IF status = None THEN Unspecified ELSE PartSays(status[part], member, fact)
BY DEF Says, PartSays, MemberSays

LEMMA FactsAreNumbers ==
  /\ Unspecified \in 0..3
  /\ \A ms, part : \A fact \in Facts(part) :
       ms \in MemberStatus(part) \cup {None} => MemberSays(ms, fact) \in 0..3
BY DEF MemberSays, MemberStatus, Unspecified

-----------------------------------------------------------------------------
(* The merge.                                                              *)

LEMMA MembersMerge ==
  ASSUME NEW part \in Parts, NEW c \in MemberStatus(part) \cup {None},
         NEW p \in MemberStatus(part) \cup {None}
  PROVE  /\ MergeMember(c, p) \in MemberStatus(part) \cup {None}
         /\ \A fact \in Facts(part) :
              MemberSays(MergeMember(c, p), fact) = Newest(MemberSays(c, fact), MemberSays(p, fact))
<1>0. None \notin MemberStatus(part)
  BY ExteriorAssumption DEF ExteriorAssumption
<1>1. CASE c = None
  <2>1. MergeMember(c, p) = p
    BY <1>1 DEF MergeMember
  <2> QED BY <1>1, <2>1 DEF MemberSays, Newest
<1>2. CASE c # None /\ p = None
  <2>1. MergeMember(c, p) = c
    BY <1>2 DEF MergeMember
  <2> QED BY <1>2, <2>1 DEF MemberSays, Newest
<1>3. CASE c # None /\ p # None
  <2> DEFINE merged == [fact \in Facts(part) |-> MergeFact(c[fact], p[fact])]
  <2>1. MergeMember(c, p) = merged
    BY <1>3 DEF MergeMember, MemberStatus
  <2>2. \A fact \in Facts(part) : c[fact] \in 0..3 /\ p[fact] \in 0..3
    BY <1>3 DEF MemberStatus
  <2>3. merged \in MemberStatus(part)
    BY <2>2 DEF MemberStatus, MergeFact
  <2>4. \A fact \in Facts(part) : merged[fact] = Newest(c[fact], p[fact])
    BY DEF MergeFact, Newest
  <2> HIDE DEF merged
  <2> QED BY <1>0, <1>3, <2>1, <2>3, <2>4 DEF MemberSays
<1> QED BY <1>1, <1>2, <1>3

LEMMA PartsMerge ==
  ASSUME NEW part \in Parts, NEW c \in PartStatus(part) \cup {None},
         NEW p \in PartStatus(part) \cup {None}
  PROVE  /\ MergePart(c, p) \in PartStatus(part) \cup {None}
         /\ \A member \in Members(part), fact \in Facts(part) :
              PartSays(MergePart(c, p), member, fact)
                = Newest(PartSays(c, member, fact), PartSays(p, member, fact))
<1>0. None \notin PartStatus(part)
  BY ExteriorAssumption DEF ExteriorAssumption
<1>1. CASE c = None
  <2>1. MergePart(c, p) = p
    BY <1>1 DEF MergePart
  <2> QED BY <1>1, <2>1 DEF PartSays, Newest
<1>2. CASE c # None /\ p = None
  <2>1. MergePart(c, p) = c
    BY <1>2 DEF MergePart
  <2> QED BY <1>2, <2>1 DEF PartSays, Newest
<1>3. CASE c # None /\ p # None
  <2> DEFINE merged == [member \in Members(part) |-> MergeMember(c[member], p[member])]
  <2>1. MergePart(c, p) = merged
    BY <1>3 DEF MergePart, PartStatus
  <2>2. \A member \in Members(part) :
          c[member] \in MemberStatus(part) \cup {None} /\ p[member] \in MemberStatus(part) \cup {None}
    BY <1>3 DEF PartStatus
  <2>3. \A member \in Members(part) : MergeMember(c[member], p[member]) \in MemberStatus(part) \cup {None}
    BY <2>2, MembersMerge
  <2>4. merged \in PartStatus(part)
    BY <2>3 DEF PartStatus
  <2>5. ASSUME NEW member \in Members(part), NEW fact \in Facts(part)
        PROVE  MemberSays(merged[member], fact)
                 = Newest(MemberSays(c[member], fact), MemberSays(p[member], fact))
    <3>1. merged[member] = MergeMember(c[member], p[member])
      OBVIOUS
    <3> HIDE DEF merged
    <3> QED BY <2>2, <3>1, MembersMerge
  <2> HIDE DEF merged
  <2> QED BY <1>0, <1>3, <2>1, <2>4, <2>5 DEF PartSays
<1> QED BY <1>1, <1>2, <1>3

LEMMA StatusIs ==
  ASSUME NEW status
  PROVE  status \in Status
           <=> /\ status = [part \in Parts |-> status[part]]
               /\ \A part \in Parts : status[part] \in PartStatus(part) \cup {None}
BY DEF Status

LEMMA StatusesMerge ==
  ASSUME NEW c \in Status, NEW p \in Status \cup {None}
  PROVE  /\ Merge(c, p) \in Status
         /\ \A path \in FactPaths :
              Says(Merge(c, p), path[1], path[2], path[3])
                = Newest(Says(c, path[1], path[2], path[3]), Says(p, path[1], path[2], path[3]))
<1>0. None \notin Status
  BY ExteriorAssumption DEF ExteriorAssumption
<1>1. CASE p = None
  <2>1. Merge(c, p) = c
    BY <1>1 DEF Merge
  <2>2. \A part, member, fact : Says(p, part, member, fact) = Unspecified
    BY <1>1 DEF Says
  <2> QED BY <2>1, <2>2 DEF Newest
<1>2. CASE p # None
  <2> DEFINE merged == [part \in Parts |-> MergePart(c[part], p[part])]
  <2>1. DOMAIN c = Parts
    BY StatusIs
  <2>2. Merge(c, p) = merged
    BY <1>2, <2>1 DEF Merge
  <2>3. \A part \in Parts :
          c[part] \in PartStatus(part) \cup {None} /\ p[part] \in PartStatus(part) \cup {None}
    BY <1>2, StatusIs
  <2>4. \A part \in Parts : merged[part] = MergePart(c[part], p[part])
    OBVIOUS
  <2>5. merged = [part \in Parts |-> merged[part]]
    OBVIOUS
  <2> HIDE DEF merged
  <2>6. merged \in Status
    <3>1. \A part \in Parts : merged[part] \in PartStatus(part) \cup {None}
      BY <2>3, <2>4, PartsMerge
    <3> QED BY <2>5, <3>1, StatusIs
  <2>7. ASSUME NEW path \in FactPaths
        PROVE  Says(merged, path[1], path[2], path[3])
                 = Newest(Says(c, path[1], path[2], path[3]), Says(p, path[1], path[2], path[3]))
    <3> DEFINE part == path[1]
               member == path[2]
               fact == path[3]
    <3>1. part \in Parts /\ member \in Members(part) /\ fact \in Facts(part)
      BY PathsAre
    <3> HIDE DEF part, member, fact
    <3>2. PartSays(MergePart(c[part], p[part]), member, fact)
            = Newest(PartSays(c[part], member, fact), PartSays(p[part], member, fact))
      BY <2>3, <3>1, PartsMerge
    <3>3. Says(merged, part, member, fact)
            = Newest(Says(c, part, member, fact), Says(p, part, member, fact))
      BY <1>0, <1>2, <2>4, <2>6, <3>1, <3>2, SaysByParts
    <3> QED BY <3>3 DEF part, member, fact
  <2> QED BY <2>2, <2>6, <2>7
<1> QED BY <1>1, <1>2

-----------------------------------------------------------------------------
(* The exterior.                                                           *)

\* What the snapshot says is what was told, and it is of the right shape.
ExteriorInv ==
  /\ exterior \in Status \cup {None}
  /\ told \in [FactPaths -> 0..3]
  /\ \A path \in FactPaths : Says(exterior, path[1], path[2], path[3]) = told[path]

LEMMA SaysNumbers ==
  ASSUME NEW status \in Status, NEW path \in FactPaths
  PROVE  Says(status, path[1], path[2], path[3]) \in 0..3
<1> DEFINE part == path[1]
           member == path[2]
           fact == path[3]
<1>1. part \in Parts /\ member \in Members(part) /\ fact \in Facts(part)
  BY PathsAre
<1> HIDE DEF part, member, fact
<1>2. status[part] \in PartStatus(part) \cup {None}
  BY <1>1, StatusIs
<1>3. PartSays(status[part], member, fact) \in 0..3
  <2>1. CASE status[part] = None
    BY <2>1, FactsAreNumbers DEF PartSays
  <2>2. CASE status[part] # None
    <3>1. status[part][member] \in MemberStatus(part) \cup {None}
      BY <1>1, <1>2, <2>2 DEF PartStatus
    <3> QED BY <1>1, <2>2, <3>1, FactsAreNumbers DEF PartSays
  <2> QED BY <2>1, <2>2
<1>4. Says(status, part, member, fact) \in 0..3
  BY <1>3, SaysByParts, FactsAreNumbers
<1> QED BY <1>4 DEF part, member, fact

LEMMA HeardIs ==
  ASSUME NEW status, NEW path \in FactPaths
  PROVE  Heard(FactsOf(status))[path]
           = Newest(Says(status, path[1], path[2], path[3]), told[path])
BY DEF Heard, FactsOf, Newest

LEMMA StatusKeepsExterior ==
  ASSUME ExteriorInv, NEW status \in Status, StatusArrives(status)
  PROVE  ExteriorInv'
<1>1. /\ exterior' = IF HasData(status) THEN Merge(status, exterior) ELSE exterior
      /\ told' = Heard(FactsOf(status))
  BY DEF StatusArrives, TakesStatus
<1>2. told' \in [FactPaths -> 0..3]
  <2>1. told' = [path \in FactPaths |-> told'[path]]
    BY <1>1 DEF Heard
  <2>2. \A path \in FactPaths : told'[path] \in 0..3
    BY <1>1, HeardIs, SaysNumbers DEF Newest, ExteriorInv
  <2> QED BY <2>1, <2>2
<1>3. exterior' \in Status \cup {None}
  BY <1>1, StatusesMerge DEF ExteriorInv
<1>4. ASSUME NEW path \in FactPaths
      PROVE  Says(exterior', path[1], path[2], path[3]) = told'[path]
  <2>1. told'[path] = Newest(Says(status, path[1], path[2], path[3]), told[path])
    BY <1>1, HeardIs
  <2>2. Says(exterior, path[1], path[2], path[3]) = told[path]
    BY DEF ExteriorInv
  <2>3. CASE HasData(status)
    <3>1. exterior' = Merge(status, exterior)
      BY <1>1, <2>3
    <3> QED BY <2>1, <2>2, <3>1, StatusesMerge DEF ExteriorInv
  <2>4. CASE ~HasData(status)
    <3>1. path[1] \in Parts /\ DOMAIN status = Parts
      BY PathsAre, StatusIs
    <3>2. Says(status, path[1], path[2], path[3]) = Unspecified
      BY <2>4, <3>1 DEF HasData, Says
    <3> QED BY <1>1, <2>1, <2>2, <2>4, <3>2 DEF Newest
  <2> QED BY <2>3, <2>4
<1> QED BY <1>2, <1>3, <1>4 DEF ExteriorInv

LEMMA EntitiesTellIt == ExteriorInv => EntitiesTell
<1> SUFFICES ASSUME ExteriorInv PROVE EntitiesTell
  OBVIOUS
<1>1. ASSUME NEW path \in FactPaths
      PROVE  told[path] \in 0..3 /\ Says(exterior, path[1], path[2], path[3]) = told[path]
  BY DEF ExteriorInv
<1>2. ASSUME NEW path \in FactPaths, path[3] = "open_status"
      PROVE  IsOpen(Says(exterior, path[1], path[2], path[3]))
               = IF told[path] = Unspecified THEN None ELSE told[path] \in {OPEN, AJAR}
  <2>1. CASE told[path] = Unspecified
    BY <1>1, <2>1 DEF IsOpen
  <2>2. CASE told[path] # Unspecified
    <3>1. (told[path] # CLOSED) <=> (told[path] \in {OPEN, AJAR})
      BY <1>1, <2>2 DEF Unspecified, CLOSED, OPEN, AJAR
    <3> QED BY <1>1, <2>2, <3>1 DEF IsOpen
  <2> QED BY <2>1, <2>2
<1>3. ASSUME NEW path \in FactPaths, path[1] = "central_lock"
      PROVE  IsLocked(exterior) = IF told[path] = Unspecified THEN None ELSE told[path] = LOCKED
  <2>1. path[2] = "status" /\ path[3] = "lock_status"
    BY <1>3, PathsAre DEF Members, Facts
  <2>2. Says(exterior, "central_lock", "status", "lock_status") = told[path]
    BY <1>1, <1>3, <2>1
  <2> QED BY <2>2 DEF IsLocked
<1>4. AnyDoorOpen(exterior)
        <=> \E path \in FactPaths :
              path[1] = "doors" /\ path[3] = "open_status" /\ told[path] \in {OPEN, AJAR}
  <2>0. ASSUME NEW n \in 0..3 PROVE n \notin {Unspecified, CLOSED} <=> n \in {OPEN, AJAR}
    BY DEF Unspecified, CLOSED, OPEN, AJAR
  <2>1. ASSUME NEW corner \in Corners,
               Says(exterior, "doors", corner, "open_status") \notin {Unspecified, CLOSED}
        PROVE  \E path \in FactPaths :
                 path[1] = "doors" /\ path[3] = "open_status" /\ told[path] \in {OPEN, AJAR}
    <3> DEFINE path == <<"doors", corner, "open_status">>
    <3>1. path \in FactPaths
      BY IsPath, ExteriorAssumption DEF ExteriorAssumption, Members, Facts
    <3>2. path[1] = "doors" /\ path[2] = corner /\ path[3] = "open_status"
      OBVIOUS
    <3> HIDE DEF path
    <3> QED BY <1>1, <2>0, <2>1, <3>1, <3>2
  <2>2. ASSUME NEW path \in FactPaths, path[1] = "doors", path[3] = "open_status",
               told[path] \in {OPEN, AJAR}
        PROVE  AnyDoorOpen(exterior)
    <3>1. path[2] \in Corners
      BY <2>2, PathsAre DEF Members
    <3>2. Says(exterior, "doors", path[2], "open_status") \notin {Unspecified, CLOSED}
      BY <1>1, <2>0, <2>2
    <3> QED BY <3>1, <3>2 DEF AnyDoorOpen
  <2> QED BY <2>1, <2>2 DEF AnyDoorOpen
<1> QED BY <1>2, <1>3, <1>4 DEF EntitiesTell

\* Whatever partial updates arrive, and in whatever order, the snapshot says of every
\* fact what was said of it last, and the entities show that (ExteriorStatus.merge).
THEOREM TheLastWordStands == UpdatesSpec => []LastWordStands
<1>1. UpdatesInit => ExteriorInv
  BY DEF UpdatesInit, ExteriorInv, Says, Unspecified
<1>2. ExteriorInv /\ [UpdatesNext]_updateVars => ExteriorInv'
  <2> SUFFICES ASSUME ExteriorInv, [UpdatesNext]_updateVars PROVE ExteriorInv'
    OBVIOUS
  <2>1. ASSUME NEW status \in Status, StatusArrives(status) PROVE ExteriorInv'
    BY <2>1, StatusKeepsExterior
  <2>2. ASSUME UNCHANGED <<exterior, told>> PROVE ExteriorInv'
    BY <2>2 DEF ExteriorInv
  <2> QED BY <2>1, <2>2 DEF UpdatesNext, updateVars, ClimateReported, Tick
<1>3. ExteriorInv => LastWordStands
  BY EntitiesTellIt DEF ExteriorInv, LastWordStands
<1> QED BY <1>1, <1>2, <1>3, PTL DEF UpdatesSpec

-----------------------------------------------------------------------------
(* The countdown.                                                          *)

ClimateInv ==
  /\ clock \in Nat
  /\ climate # None => climate.endTime \in Times /\ climate.timeRemaining \in Nat

LEMMA RoundedIs ==
  ASSUME NEW n \in Int
  PROVE  /\ RoundedMinutes(n) \in Int
         /\ 2 * RoundedMinutes(n) <= n + 1 /\ n - 1 <= 2 * RoundedMinutes(n)
BY DEF RoundedMinutes

LEMMA RoundingIsMonotone ==
  ASSUME NEW m \in Int, NEW n \in Int, m <= n
  PROVE  RoundedMinutes(m) <= RoundedMinutes(n)
<1>1. CASE m = n
  BY <1>1, RoundedIs
<1>2. CASE n = m + 1
  BY <1>2 DEF RoundedMinutes
<1>3. CASE n > m + 1
  BY <1>3, RoundedIs
<1> QED BY <1>1, <1>2, <1>3

LEMMA RemainingIs ==
  ASSUME NEW c, NEW now \in Nat, c.endTime \in Times, c.timeRemaining \in Nat
  PROVE  /\ ClimateTimeRemaining(c, now) \in Nat
         /\ c.endTime = NoTime => ClimateTimeRemaining(c, now) = c.timeRemaining
         /\ c.endTime # NoTime =>
              ClimateTimeRemaining(c, now)
                = IF IsActive(c) THEN AtLeastZero(RoundedMinutes(c.endTime - now)) ELSE 0
<1>1. CASE c.endTime = NoTime
  BY <1>1 DEF ClimateTimeRemaining, RemainingMinutes
<1>2. CASE c.endTime # NoTime
  <2>1. c.endTime - now \in Int
    BY <1>2 DEF Times
  <2>2. AtLeastZero(RoundedMinutes(c.endTime - now)) \in Nat
    BY <2>1, RoundedIs DEF AtLeastZero
  <2>3. RemainingMinutes(c, now)
          = IF IsActive(c) THEN AtLeastZero(RoundedMinutes(c.endTime - now)) ELSE 0
    BY <1>2 DEF RemainingMinutes
  <2>4. RemainingMinutes(c, now) \in Nat /\ RemainingMinutes(c, now) # NoTime
    BY <2>2, <2>3, UpdatesAssumption DEF UpdatesAssumption
  <2> QED BY <1>2, <2>3, <2>4 DEF ClimateTimeRemaining
<1> QED BY <1>1, <1>2

LEMMA CountdownIs == ClimateInv => CountdownIsSane
<1> SUFFICES ASSUME ClimateInv, climate # None PROVE CountdownIsSane
  BY DEF CountdownIsSane
<1> DEFINE shown == ClimateTimeRemaining(climate, clock)
<1>0. clock \in Nat /\ climate.endTime \in Times /\ climate.timeRemaining \in Nat
  BY DEF ClimateInv
<1>1. shown \in Nat
  BY <1>0, RemainingIs
<1>2. ASSUME climate.endTime # NoTime
      PROVE  /\ clock >= climate.endTime \/ ~IsActive(climate) => shown = 0
             /\ clock <= climate.endTime => 2 * shown <= climate.endTime - clock + 1
  <2> DEFINE left == climate.endTime - clock
  <2>1. left \in Int /\ climate.endTime \in Int
    BY <1>0, <1>2 DEF Times
  <2>2. shown = IF IsActive(climate) THEN AtLeastZero(RoundedMinutes(left)) ELSE 0
    BY <1>0, <1>2, RemainingIs
  <2>3. RoundedMinutes(left) \in Int /\ 2 * RoundedMinutes(left) <= left + 1
    BY <2>1, RoundedIs
  <2>4. left <= 0 => RoundedMinutes(left) <= 0
    BY <2>1, RoundingIsMonotone, RoundedIs DEF RoundedMinutes
  <2>5. clock >= climate.endTime => left <= 0
    BY <1>0, <2>1
  <2>6. clock <= climate.endTime => left >= 0
    BY <1>0, <2>1
  <2> HIDE DEF left, shown
  <2>7. left >= 0 => 2 * shown <= left + 1
    BY <2>1, <2>2, <2>3 DEF AtLeastZero
  <2>8. left <= 0 \/ ~IsActive(climate) => shown = 0
    BY <2>1, <2>2, <2>3, <2>4 DEF AtLeastZero
  <2> QED BY <2>5, <2>6, <2>7, <2>8 DEF left
<1> QED BY <1>1, <1>2 DEF CountdownIsSane

LEMMA CountdownFalls ==
  ASSUME NEW c, NEW now \in Nat, NEW later \in Nat, now <= later,
         c.endTime \in Times, c.timeRemaining \in Nat
  PROVE  ClimateTimeRemaining(c, later) <= ClimateTimeRemaining(c, now)
<1>1. CASE c.endTime = NoTime
  BY <1>1, RemainingIs
<1>2. CASE c.endTime # NoTime
  <2>1. c.endTime - now \in Int /\ c.endTime - later \in Int /\ c.endTime - later <= c.endTime - now
    BY <1>2 DEF Times
  <2>2. RoundedMinutes(c.endTime - later) <= RoundedMinutes(c.endTime - now)
    BY <2>1, RoundingIsMonotone
  <2>3. RoundedMinutes(c.endTime - later) \in Int /\ RoundedMinutes(c.endTime - now) \in Int
    BY <2>1, RoundedIs
  <2>4. AtLeastZero(RoundedMinutes(c.endTime - later)) <= AtLeastZero(RoundedMinutes(c.endTime - now))
    BY <2>2, <2>3 DEF AtLeastZero
  <2> QED BY <1>2, <2>4, RemainingIs
<1> QED BY <1>1, <1>2

LEMMA ReportKeepsClimate ==
  ASSUME ClimateInv, NEW report, report.endTime \in Times, report.timeRemaining \in Nat,
         ClimateReported(report)
  PROVE  ClimateInv'
<1>1. climate' = report \/ (climate' = climate /\ climate # None)
  BY DEF ClimateReported, NewerClimate
<1> QED BY <1>1 DEF ClimateInv, ClimateReported

LEMMA TwinReportsAre ==
  ASSUME NEW report \in TwinReports
  PROVE  /\ ParseClimateTwin(report).endTime \in Times
         /\ ParseClimateTwin(report).timeRemaining \in Nat
<1>1. report.endTime \in Times /\ report.reportedAt \in Times
  BY DEF TwinReports
<1>2. ASSUME NEW running PROVE RemainingAtReport(running, report.endTime, report.reportedAt) \in Nat
  <2>1. CASE NoTime \in {report.endTime, report.reportedAt}
    BY <2>1 DEF RemainingAtReport
  <2>2. CASE NoTime \notin {report.endTime, report.reportedAt}
    <3>1. report.endTime - report.reportedAt \in Int
      BY <1>1, <2>2 DEF Times
    <3> QED BY <3>1, RoundedIs DEF RemainingAtReport, AtLeastZero
  <2> QED BY <2>1, <2>2
<1> QED BY <1>1, <1>2 DEF ParseClimateTwin

LEMMA StepKeepsClimate == ClimateInv /\ [UpdatesNext]_updateVars => ClimateInv'
<1> SUFFICES ASSUME ClimateInv, [UpdatesNext]_updateVars PROVE ClimateInv'
  OBVIOUS
<1>1. ASSUME NEW report \in TwinReports, ClimateReported(ParseClimateTwin(report))
      PROVE  ClimateInv'
  BY <1>1, TwinReportsAre, ReportKeepsClimate
<1>2. ASSUME NEW r \in LegacyReports,
             ClimateReported(ClimateLegacy(r.running, r.requestType, r.timeRemaining, r.action))
      PROVE  ClimateInv'
  <2> DEFINE report == ClimateLegacy(r.running, r.requestType, r.timeRemaining, r.action)
  <2>1. report.endTime \in Times /\ report.timeRemaining \in Nat
    BY DEF ClimateLegacy, LegacyReports, Times
  <2> HIDE DEF report
  <2> QED BY <1>2, <2>1, ReportKeepsClimate DEF report
<1>3. ASSUME UNCHANGED climate, clock' = clock \/ clock' = clock + 1 PROVE ClimateInv'
  BY <1>3 DEF ClimateInv
<1> QED BY <1>1, <1>2, <1>3 DEF UpdatesNext, updateVars, StatusArrives, Tick

\* However often a session is reported and whatever the reports say, its countdown stays
\* within the report's own end, and between two reports it only falls
\* (remaining_minutes, _climate_time_remaining).
THEOREM TheCountdownRunsDown == UpdatesSpec => CountdownRunsDown
<1> DEFINE Falls == climate' = climate /\ climate # None
                      => ClimateTimeRemaining(climate, clock') <= ClimateTimeRemaining(climate, clock)
<1>1. UpdatesInit => ClimateInv
  BY DEF UpdatesInit, ClimateInv
<1>2. ClimateInv /\ [UpdatesNext]_updateVars => CountdownIsSane'
  <2>1. ClimateInv' => CountdownIsSane'
    BY CountdownIs, PTL
  <2> QED BY <2>1, StepKeepsClimate
<1>3. ClimateInv /\ [UpdatesNext]_updateVars => Falls
  <2> SUFFICES ASSUME ClimateInv, [UpdatesNext]_updateVars, climate' = climate, climate # None
               PROVE  ClimateTimeRemaining(climate, clock') <= ClimateTimeRemaining(climate, clock)
    OBVIOUS
  <2>1. clock' = clock \/ clock' = clock + 1
    BY DEF UpdatesNext, updateVars, StatusArrives, ClimateReported, Tick
  <2>2. clock \in Nat /\ clock' \in Nat /\ clock <= clock'
    BY <2>1 DEF ClimateInv
  <2> QED BY <2>2, CountdownFalls DEF ClimateInv
<1>4. ClimateInv /\ [UpdatesNext]_updateVars => [CountdownIsSane' /\ Falls]_<<climate, clock>>
  BY <1>2, <1>3
<1> HIDE DEF Falls
<1>5. UpdatesSpec => [][CountdownIsSane' /\ Falls]_<<climate, clock>>
  BY <1>1, <1>4, StepKeepsClimate, PTL DEF UpdatesSpec
<1> QED BY <1>5, PTL DEF Falls, CountdownRunsDown
=============================================================================
