---------------------------- MODULE StatusServices ----------------------------
(***************************************************************************)
(* The exterior and the climate stream end to end: the backend encodes     *)
(* what it has to say in one of two formats, the service tells the formats *)
(* apart and parses the message (services/exterior.py,                     *)
(* services/climate.py), the unmapped fields are recorded, the status goes *)
(* into the snapshot, and the entities read it.                            *)
(*                                                                         *)
(* The digital twin of newer cars sends flat numbers, older cars nested    *)
(* messages.  A partial update may leave any field out.  What was told     *)
(* counts, whatever became of the message.                                 *)
(***************************************************************************)
EXTENDS UnknownFields, StatusUpdates

CONSTANTS
  Paths,       \* the facts the backend sends here
  MaxFacts,    \* the most facts in one message
  ReportTimes  \* the moments of climate reports and of the ends they name

ASSUME PathsAssumption == Paths \subseteq FactPaths

statusVars == <<updateVars, unknownFields>>

(***************************************************************************)
(* The two formats of the exterior.                                        *)
(***************************************************************************)
CornerNumbers == <<"front_left", "front_right", "rear_left", "rear_right">>

PartNumbers == <<"central_lock", "doors", "windows", "sunroof", "hood", "tailgate", "tank_lid">>

FactNumbers(part) ==
  CASE part = "central_lock" -> <<"lock_status">>
    [] part \in {"doors", "hood", "tailgate"} -> <<"lock_status", "open_status", "alarm_status">>
    [] OTHER -> <<"open_status">>

FactValues(fact) ==
  CASE fact = "lock_status" -> LockStatus [] fact = "open_status" -> OpenStatus
    [] OTHER -> AlarmStatus

MemberSchema(part) ==
  [n \in DOMAIN FactNumbers(part) |->
     [type |-> "enum", members |-> FactValues(FactNumbers(part)[n])]]

\* Doors and windows nest a message per corner, hood and tailgate one more message; the
\* other parts carry their fact themselves.
PartSchema(part) ==
  LET nested == [type |-> "message", schema |-> MemberSchema(part)]
  IN  CASE part \in {"doors", "windows"} -> [n \in 1..4 |-> nested]
        [] part \in {"hood", "tailgate"} -> [n \in 1..1 |-> nested]
        [] OTHER -> MemberSchema(part)

ExteriorSchema ==
  [n \in DOMAIN PartNumbers |-> [type |-> "message", schema |-> PartSchema(PartNumbers[n])]]

TwinField ==
  2 :> <<"central_lock", "status", "lock_status">>
    @@ [n \in 3..6 |-> <<"doors", CornerNumbers[n - 2], "open_status">>]
    @@ [n \in 7..10 |-> <<"windows", CornerNumbers[n - 6], "open_status">>]
    @@ 11 :> <<"hood", "status", "open_status">>
    @@ 12 :> <<"tailgate", "status", "open_status">>
    @@ 13 :> <<"tank_lid", "status", "open_status">>
    @@ 14 :> <<"sunroof", "status", "open_status">>
    @@ 16 :> <<"tailgate", "status", "lock_status">>

IsDigitalTwin(fields) ==
  \E num \in 2..16 : ValuesOf(fields, num) # <<>> /\ OnlyValue(ValuesOf(fields, num)).type = "int"

\* _lock, _open: a number the enumeration does not have is not known.
TwinFact(fields, num) ==
  LET values == ValuesOf(fields, num)
      value  == OnlyValue(values)
  IN  IF values # <<>> /\ value.type = "int"
      THEN IF value.int \in FactValues(TwinField[num][3]) THEN value.int ELSE Unspecified
      ELSE Unspecified

ParseTwin(fields) ==
  [part \in Parts |-> [member \in Members(part) |-> [fact \in Facts(part) |->
     LET nums == {num \in DOMAIN TwinField : TwinField[num] = <<part, member, fact>>}
     IN  IF nums = {} THEN Unspecified ELSE TwinFact(fields, Min(nums))]]]

\* The nested message as a status; an absent number is the enumeration's 0.
LegacyMember(part, fields) ==
  [fact \in Facts(part) |->
     LET n == CHOOSE n \in DOMAIN FactNumbers(part) : FactNumbers(part)[n] = fact
     IN  IF n \in DOMAIN fields THEN fields[n].int ELSE Unspecified]

LegacyPart(part, fields) ==
  CASE part \in {"doors", "windows"} ->
         [corner \in Corners |->
            LET n == CHOOSE n \in 1..4 : CornerNumbers[n] = corner
            IN  IF n \in DOMAIN fields THEN LegacyMember(part, fields[n].fields) ELSE None]
    [] part \in {"hood", "tailgate"} ->
         [member \in {"status"} |->
            IF 1 \in DOMAIN fields THEN LegacyMember(part, fields[1].fields) ELSE None]
    [] OTHER -> [member \in {"status"} |-> LegacyMember(part, fields)]

LegacyStatus(fields) ==
  [part \in Parts |->
     LET n == CHOOSE n \in DOMAIN PartNumbers : PartNumbers[n] = part
     IN  IF n \in DOMAIN fields THEN LegacyPart(part, fields[n].fields) ELSE None]

ParseExterior(bytes) ==
  Then(Decode(bytes), LAMBDA raw :
    IF IsDigitalTwin(raw.fields)
    THEN [error |-> "none", status |-> ParseTwin(raw.fields)]
    ELSE Then(FromBytes(ExteriorSchema, bytes), LAMBDA legacy :
           [error |-> "none", status |-> LegacyStatus(legacy.value.fields)]))

ExteriorUnknown(bytes) ==
  IF IsDigitalTwin(Decode(bytes).fields)
  THEN UnknownEntries(<<"exterior">>, bytes, (2..14) \cup {16}, FALSE)
  ELSE Walk(ExteriorSchema, bytes, <<"exterior_legacy">>)

(***************************************************************************)
(* What the backend writes.  facts maps paths to numbers; the twin has no  *)
(* field for some of them.                                                 *)
(***************************************************************************)
TwinBytes(facts) ==
  FoldLeft(LAMBDA acc, num : acc \o EncodeInt(num, facts[TwinField[num]]), <<>>,
           SetToSortSeq({num \in DOMAIN TwinField : TwinField[num] \in DOMAIN facts},
                        LAMBDA a, b : a < b))

NumberOf(names, name) == CHOOSE n \in DOMAIN names : names[n] = name

\* One nested message per fact: a part or a corner that is named twice is merged here,
\* as a real encoder would write it once.
LegacyFields(facts, part) ==
  LET mine == {path \in DOMAIN facts : path[1] = part}
      leaf(member) ==
        [n \in {NumberOf(FactNumbers(part), path[3]) : path \in {q \in mine : q[2] = member}} |->
           [type |-> "int", int |-> facts[<<part, member, FactNumbers(part)[n]>>]]]
      nested(member) == [type |-> "message", fields |-> leaf(member)]
  IN  CASE part \in {"doors", "windows"} ->
             [n \in {NumberOf(CornerNumbers, path[2]) : path \in mine} |-> nested(CornerNumbers[n])]
        [] part \in {"hood", "tailgate"} -> [n \in {1} |-> nested("status")]
        [] OTHER -> leaf("status")

LegacyBytes(facts) ==
  ToBytes(ExteriorSchema,
          [n \in {NumberOf(PartNumbers, path[1]) : path \in DOMAIN facts} |->
             [type |-> "message", fields |-> LegacyFields(facts, PartNumbers[n])]])

\* A number no release of this code knows; only the twin's readers expect it.
Newer == 9

TwinPaths == {TwinField[num] : num \in DOMAIN TwinField}

\* A field neither release maps.
Unmapped(format) == IF format = "twin" THEN EncodeInt(15, 1) ELSE EncodeInt(17, 1)

Encoded(format, facts) == IF format = "twin" THEN TwinBytes(facts) ELSE LegacyBytes(facts)

Sayable(format) ==
  LET values(path) == FactValues(path[3]) \cup IF format = "twin" THEN {Newer} ELSE {}
      paths        == IF format = "twin" THEN Paths \cap TwinPaths ELSE Paths
  IN  UNION {{facts \in [some -> UNION {values(path) : path \in some}] :
                \A path \in some : facts[path] \in values(path)} :
             some \in {s \in SUBSET paths : Cardinality(s) \in 1..MaxFacts}}

\* An update of the exterior that was parsed, or could not be.
ParsedExteriorArrives(parsed, bytes) ==
  IF parsed.error = "none"
  THEN TakesStatus(parsed.status) /\ RecordAll(ExteriorUnknown(bytes))
  ELSE UNCHANGED <<exterior, unknownFields>>

ExteriorArrives(format, facts, extra) ==
  /\ told' = Heard(Restrict(facts, {path \in DOMAIN facts : facts[path] \in FactValues(path[3])}))
  /\ \E bytes \in {Encoded(format, facts) \o extra} :
       ParsedExteriorArrives(ParseExterior(bytes), bytes)
  /\ UNCHANGED <<climate, clock>>

(***************************************************************************)
(* The climate stream.                                                     *)
(***************************************************************************)
ClimateSchema ==
  [n \in 1..4 |-> CASE n = 1 -> [type |-> "enum", members |-> 0..9]
                    [] n = 2 -> [type |-> "enum", members |-> 0..7]
                    [] n = 3 -> [type |-> "int"]
                    [] n = 4 -> [type |-> "enum", members |-> 0..5]]

\* _parse_timestamp
TimeIn(fields, num) ==
  LET value      == OnlyValue(ValuesOf(fields, num))
      seconds(s) == IF Len(s) = 1 THEN s[1].int ELSE NoTime
  IN  IF ValuesOf(fields, num) = <<>> THEN NoTime
      ELSE IF value.type # "bytes" THEN NoTime
      ELSE seconds(ValuesOf(Readable(Decode(value.bytes)), 1))

IntIn(fields, num, absent) ==
  IF ValuesOf(fields, num) = <<>> THEN absent ELSE ValuesOf(fields, num)[1].int

IsClimateTwin(fields) == ValuesOf(fields, 1) # <<>> /\ OnlyValue(ValuesOf(fields, 1)).type = "bytes"

ClimateUnknown(bytes) ==
  IF IsClimateTwin(Decode(bytes).fields)
  THEN UnknownEntries(<<"climate">>, bytes, (1..3) \cup (6..16), FALSE)
  ELSE Walk(ClimateSchema, bytes, <<"climate_legacy">>)

ClimateTwin(fields) ==
  ParseClimateTwin(
    [running |-> IntIn(fields, 2, 0), requestType |-> IntIn(fields, 15, 0),
     endTime |-> TimeIn(fields, 16), reportedAt |-> TimeIn(fields, 1),
     ventilating |-> IntIn(fields, 6, 0) # 0,
     current |-> IntIn(fields, 7, NoTime), requested |-> IntIn(fields, 8, NoTime)])

OldClimate(fields) ==
  LET number(n) == IF n \in DOMAIN fields THEN fields[n].int ELSE 0
  IN  ClimateLegacy(number(1), number(2), number(3), number(4))

ParseClimate(bytes) ==
  LET parsed(fields) == IF IsClimateTwin(fields)
                        THEN ClimateTwin(fields)
                        ELSE OldClimate(FromBytes(ClimateSchema, bytes).value.fields)
  IN  parsed(Decode(bytes).fields)

ClimateBytes(running, reportedAt, endTime) ==
  EncodeBytes(1, EncodeInt(1, reportedAt)) \o EncodeInt(2, running)
    \o EncodeInt(3, 30)
    \o IF endTime = NoTime THEN <<>> ELSE EncodeBytes(16, EncodeInt(1, endTime))

OldClimateBytes(running, timeRemaining) == EncodeInt(1, running) \o EncodeInt(3, timeRemaining)

ClimateArrives(bytes) ==
  ClimateReported(ParseClimate(bytes)) /\ RecordAll(ClimateUnknown(bytes))

StatusInit == UnknownInit /\ UpdatesInit

ExteriorNext ==
  \E format \in {"twin", "legacy"} :
    \E facts \in Sayable(format), extra \in {<<>>, Unmapped(format)} :
      ExteriorArrives(format, facts, extra)

ClimateNext ==
  \/ \E running \in 0..3, reportedAt \in ReportTimes, endTime \in ReportTimes \cup {NoTime} :
       reportedAt <= clock /\ ClimateArrives(ClimateBytes(running, reportedAt, endTime))
  \/ \E running \in 0..9 : ClimateArrives(OldClimateBytes(running, 7))
  \/ Tick /\ UNCHANGED unknownFields
===============================================================================
