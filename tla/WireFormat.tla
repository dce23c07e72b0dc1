------------------------------ MODULE WireFormat ------------------------------
(***************************************************************************)
(* The protobuf reader and writer of polestar_api (codec.py).              *)
(*                                                                         *)
(* A byte is a number below 256 and a message is a sequence of bytes.      *)
(* What a field carries is tagged with the Python type the reader gives    *)
(* it: a varint, the raw bytes of a fixed-width number or of a             *)
(* length-delimited field.  Floating-point numbers and text are opaque,    *)
(* so they are the bytes they travel as.  Modulus is 2^64 in the code; it  *)
(* is a constant because the interesting values sit just around the edges  *)
(* of the width, whatever it is.                                           *)
(*                                                                         *)
(* Loops are recursive functions of a number or a position, so that this   *)
(* module can be proved about.                                             *)
(***************************************************************************)
EXTENDS Integers, SequencesExt

CONSTANT Modulus

ASSUME ModulusAssumption == Modulus \in Nat /\ Modulus > 127

Byte == 0..255

(***************************************************************************)
(* Varints: seven bits a byte, the least significant first, the high bit   *)
(* set on all bytes but the last.                                          *)
(***************************************************************************)
\* The mutated form: a value that just needs another byte is cut to one fewer.
FitsTooLate(n) == n <= 128

Fits(n) == n < 128

Varint(n) ==
  LET septets[m \in 0..n] ==
        IF Fits(m) THEN <<m>> ELSE <<128 + (m % 128)>> \o septets[m \div 128]
  IN  septets[n]

\* Two's complement: value & 0xFFFFFFFFFFFFFFFF.
EncodeVarint(value) == Varint(IF value < 0 THEN value % Modulus ELSE value)

\* The number that the bytes of a varint stand for.
VarintValue(bytes) ==
  LET from[i \in 1..(Len(bytes) + 1)] ==
        IF i > Len(bytes) THEN 0 ELSE (bytes[i] % 128) + 128 * from[i + 1]
  IN  from[1]

DecodeVarint(data, pos) ==
  LET ends == {i \in pos..Len(data) : data[i] < 128}
  IN  IF ends = {}
      THEN [error |-> "IndexError"]
      ELSE [error |-> "none", next |-> Min(ends) + 1,
            value |-> VarintValue(SubSeq(data, pos, Min(ends)))]

Failure(error) == [error |-> error]

\* An exception ends the reading: nothing that was to follow is done.
Then(result, Continue(_)) == IF result.error # "none" THEN result ELSE Continue(result)

(***************************************************************************)
(* Fields.  A tag is the number of the field and its wire type.            *)
(***************************************************************************)
EncodeField(num, wire, bytes) == EncodeVarint(num * 8 + wire) \o bytes

EncodeInt(num, value) == EncodeField(num, 0, EncodeVarint(value))
EncodeFixed64(num, bytes) == EncodeField(num, 1, bytes)
EncodeBytes(num, bytes) == EncodeField(num, 2, EncodeVarint(Len(bytes)) \o bytes)
EncodeFixed32(num, bytes) == EncodeField(num, 5, bytes)

\* The encoded fields of a message, one after the other.
Concat(parts) ==
  LET upTo[n \in 0..Len(parts)] == IF n = 0 THEN <<>> ELSE upTo[n - 1] \o parts[n]
  IN  upTo[Len(parts)]

EncodeValue(num, value) ==
  CASE value.type = "bytes" -> EncodeBytes(num, value.bytes)
    [] value.type = "float" /\ Len(value.bytes) = 8 -> EncodeFixed64(num, value.bytes)
    [] value.type = "float" /\ Len(value.bytes) = 4 -> EncodeFixed32(num, value.bytes)
    [] OTHER -> EncodeInt(num, value.int)

\* encode: the values of the fields, in the order of their numbers given.
Encode(numbers, values) ==
  Concat([i \in DOMAIN numbers |-> EncodeValue(numbers[i], values[numbers[i]])])

Cut(data, from, length) == SubSeq(data, from, Min({from + length - 1, Len(data)}))

(***************************************************************************)
(* What decode finds at a position: the field, if there is one, and the    *)
(* position after it.  A fixed-width number that is cut short is an error, *)
(* a length-delimited field that is cut short is just shorter.             *)
(***************************************************************************)
Carries(tag, value, next) ==
  [error |-> "none", next |-> next, fields |-> <<[num |-> tag \div 8, value |-> value]>>]

Fixed(data, pos, size, tag) ==
  IF pos + size - 1 > Len(data)
  THEN Failure("struct.error")
  ELSE Carries(tag, [type |-> "float", bytes |-> Cut(data, pos, size)], pos + size)

FieldBody(data, tag, pos) ==
  CASE tag % 8 = 0 ->
         Then(DecodeVarint(data, pos), LAMBDA number :
           Carries(tag, [type |-> "int", int |-> number.value], number.next))
    [] tag % 8 = 1 -> Fixed(data, pos, 8, tag)
    [] tag % 8 = 5 -> Fixed(data, pos, 4, tag)
    [] tag % 8 = 2 ->
         Then(DecodeVarint(data, pos), LAMBDA length :
           Carries(tag, [type |-> "bytes", bytes |-> Cut(data, length.next, length.value)],
                   length.next + length.value))
    [] OTHER -> Failure("ValueError")

(***************************************************************************)
(* The position after a group: its fields are stepped over, nested groups  *)
(* with them, until the end tag that carries the group's own number.       *)
(* Nothing is looked at but tags and lengths, and a wire type nobody knows *)
(* takes only its tag.  A position of 0 stands for an IndexError.          *)
(***************************************************************************)
StepOver(number, wire) ==
  IF number.error # "none" THEN 0 ELSE number.next + (IF wire = 2 THEN number.value ELSE 0)

Step(data, pos, wire) ==
  CASE wire \in {0, 2} -> StepOver(DecodeVarint(data, pos), wire)
    [] wire = 1 -> pos + 8
    [] wire = 5 -> pos + 4
    [] OTHER -> pos

\* The mutated form: a group inside a group is not expected.
OpensNoGroup(tag) == tag % 8 = 9

OpensGroup(tag) == tag % 8 = 3

ClosesGroup(tag, num) == tag % 8 = 4 /\ tag \div 8 = num

\* A place is a position inside a group and the number of the group.
SkipGroup(data, pos, num) ==
  LET skip[place \in Nat \X Nat] ==
        IF place[1] = 0 \/ place[1] > Len(data)
        THEN place[1]
        ELSE LET tag == DecodeVarint(data, place[1])
                 inner == skip[<<tag.next, tag.value \div 8>>]
                 after == IF OpensGroup(tag.value) THEN inner
                          ELSE Step(data, tag.next, tag.value % 8)
             IN  IF tag.error # "none" THEN 0
                 ELSE IF ClosesGroup(tag.value, place[2]) THEN tag.next
                 ELSE skip[<<after, place[2]>>]
  IN  skip[<<pos, num>>]

Past(pos) ==
  IF pos = 0 THEN Failure("IndexError") ELSE [error |-> "none", next |-> pos, fields |-> <<>>]

FieldAt(data, pos) ==
  Then(DecodeVarint(data, pos), LAMBDA tag :
    CASE tag.value % 8 = 3 -> Past(SkipGroup(data, tag.next, tag.value \div 8))
      [] tag.value % 8 = 4 -> Past(tag.next)
      [] OTHER -> FieldBody(data, tag.value, tag.next))

(***************************************************************************)
(* decode without a schema: the values of each field in the order they     *)
(* came.  A field that came once is that value, a field that came more     *)
(* often is a list (OnlyValue).                                            *)
(***************************************************************************)
Before(field, rest) ==
  Then(rest, LAMBDA others : [error |-> "none", fields |-> field.fields \o others.fields])

Decode(data) ==
  LET from[pos \in Nat \ {0}] ==
        IF pos > Len(data)
        THEN [error |-> "none", fields |-> <<>>]
        ELSE Then(FieldAt(data, pos), LAMBDA field : Before(field, from[field.next]))
  IN  from[1]

ValuesOf(fields, num) ==
  Concat([n \in DOMAIN fields |->
            IF fields[n].num = num THEN <<fields[n].value>> ELSE <<>>])

\* The fields in the order of the dictionary: all values of a field at its first.
ByNumber(fields) ==
  LET came(n) == \E m \in 1..n - 1 : fields[m].num = fields[n].num
      all(num) == LET values == ValuesOf(fields, num)
                  IN  [k \in DOMAIN values |-> [num |-> num, value |-> values[k]]]
  IN  Concat([n \in DOMAIN fields |-> IF came(n) THEN <<>> ELSE all(fields[n].num)])

OnlyValue(values) == IF Len(values) = 1 THEN values[1] ELSE [type |-> "list", items |-> values]

\* What from_bytes takes out of a message: the fields that the schema has.
Taken(numbers, data) ==
  Then(Decode(data), LAMBDA raw :
    [error |-> "none",
     values |-> [num \in {n \in numbers : ValuesOf(raw.fields, n) # <<>>} |->
                   OnlyValue(ValuesOf(raw.fields, num))]])
===============================================================================
