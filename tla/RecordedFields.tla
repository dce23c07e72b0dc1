---------------------------- MODULE RecordedFields ----------------------------
(***************************************************************************)
(* What one message adds to the record of the fields the parsers do not    *)
(* map (unknown_fields.py).  It must not keep text, since text may         *)
(* identify the car or its owner.                                          *)
(*                                                                         *)
(* An entry is a key and a value; a key is the label of the message and a  *)
(* path of field numbers.  Text is printable ASCII here, and an integer    *)
(* counts as a timestamp when it lies in TimestampRange.                   *)
(***************************************************************************)
EXTENDS WireFormat

CONSTANT TimestampRange

MaxDepth == 4

IsText(data) == \A i \in DOMAIN data : data[i] \in 32..126

\* Well formed: tags with a number and a wire type that carries data, and fields
\* that end exactly where the message ends.
WellFormedTag(tag) == tag.error = "none" /\ tag.value \div 8 # 0 /\ tag.value % 8 \in {0, 1, 2, 5}

WellFormed(data) ==
  LET from[pos \in Nat] ==
        LET tag == DecodeVarint(data, pos)
        IN  IF pos = 0 \/ pos > Len(data)
            THEN pos = Len(data) + 1
            ELSE WellFormedTag(tag) /\ from[Step(data, tag.next, tag.value % 8)]
  IN  from[1]

ReadsAsMessage(data) == data # <<>> /\ ~IsText(data) /\ WellFormed(data)

IsTimestamp(fields) ==
  /\ \A i \in DOMAIN fields : fields[i].num \in {1, 2} /\ fields[i].value.type = "int"
  /\ Len(ValuesOf(fields, 1)) = 1 /\ Len(ValuesOf(fields, 2)) < 2
  /\ ValuesOf(fields, 1)[1].int \in TimestampRange

(***************************************************************************)
(* What one value adds to the record: numbers as they are, bytes as their  *)
(* length or, when they read as a message, what that message's fields add. *)
(* Location messages are recorded coarsely: floats are rounded to one      *)
(* decimal, nested messages lose their content.  Floats are opaque, so     *)
(* what rounding gives up is the first half of their bytes, which travel   *)
(* from the least significant to the most.                                 *)
(***************************************************************************)
Single(value) == <<[key |-> <<>>, value |-> value]>>

Length(data) == [type |-> "length", length |-> Len(data)]

\* round(value, 1).
Rounded(bytes) == [i \in DOMAIN bytes |-> IF i <= Len(bytes) \div 2 THEN 0 ELSE bytes[i]]

\* Entries at paths that start with a prefix.
Below(prefix, entries) ==
  [i \in DOMAIN entries |-> [key |-> prefix \o entries[i].key, value |-> entries[i].value]]

\* The fields that can be read: none of a message that ends in an exception.
Readable(raw) == IF raw.error = "none" THEN raw.fields ELSE <<>>

\* The items of the decoded dictionary, a list item by item.
Items(data) == ByNumber(Readable(Decode(data)))

\* The entries of the items, one after the other.
EntriesOfAll(items, EntriesOfItem(_)) ==
  LET upTo[n \in 0..Len(items)] ==
        IF n = 0 THEN <<>> ELSE upTo[n - 1] \o EntriesOfItem(items[n])
  IN  upTo[Len(items)]

\* A level is how deep messages may still be nested in the bytes.
EntriesOf(data) ==
  LET of[m \in (0..MaxDepth) \X Seq(Byte)] ==
        LET fields == Items(m[2])
            entries(value) == IF value.type = "bytes" THEN of[<<m[1] - 1, value.bytes>>]
                              ELSE Single(value)
        IN  IF m[1] = 0 \/ ~ReadsAsMessage(m[2])
            THEN Single(Length(m[2]))
            ELSE IF IsTimestamp(fields)
            THEN Single([type |-> "timestamp"])
            ELSE EntriesOfAll(fields, LAMBDA item : Below(<<item.num>>, entries(item.value)))
  IN  of[<<MaxDepth, data>>]

\* The mutated form: the content of nested messages is recorded of a location, too.
EntriesOfNested(value, coarse) ==
  CASE value.type = "bytes" -> EntriesOf(value.bytes)
    [] value.type = "float" /\ coarse -> Single([type |-> "float", bytes |-> Rounded(value.bytes)])
    [] OTHER -> Single(value)

Entries(value, coarse) ==
  CASE value.type = "bytes" -> IF coarse THEN Single(Length(value.bytes)) ELSE EntriesOf(value.bytes)
    [] value.type = "float" /\ coarse -> Single([type |-> "float", bytes |-> Rounded(value.bytes)])
    [] OTHER -> Single(value)

\* record_fields: the fields of a message whose numbers are not known.  A path starts
\* with the label.
UnknownEntries(path, data, known, coarse) ==
  EntriesOfAll(Items(data), LAMBDA item :
    IF item.num \in known THEN <<>>
    ELSE Below(Append(path, item.num), Entries(item.value, coarse)))
===============================================================================
