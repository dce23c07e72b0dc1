-------------------------------- MODULE MCWire --------------------------------
(***************************************************************************)
(* Messages for the reader and the writer.  A received message is made of  *)
(* pieces, some of which the schema knows; a sent one of attributes.  The  *)
(* pieces of every received message also pass the record of unknown        *)
(* fields, which outlives the messages.                                    *)
(***************************************************************************)
EXTENDS UnknownFields, WirePieces

CONSTANTS MaxPieces, Magnitudes

VARIABLE sent

Schema ==
  1 :> [type |-> "int"]
  @@ 2 :> [type |-> "enum", members |-> 0..2]
  @@ 3 :> [type |-> "message", schema |-> 1 :> [type |-> "enum", members |-> 0..1]]
  @@ 4 :> [type |-> "bool"]
  @@ 5 :> [type |-> "text"]

SchemaNumbers == DOMAIN Schema

Tag(num, wire) == EncodeVarint(num * 8 + wire)

\* Two texts of one length: the second would read as a message, too.
Texts == {<<65, 66>>, <<40, 53>>}

\* The last of them carries a message that cannot be decoded.
KnownPieces ==
  {EncodeInt(1, 300), EncodeInt(2, 1), EncodeInt(2, 9), EncodeBytes(3, EncodeInt(1, 1)),
   EncodeBytes(3, EncodeInt(9, 1)), EncodeInt(4, 2), EncodeBytes(5, <<65>>),
   EncodeBytes(3, <<128>>)}

PiecesWithText ==
  {EncodeBytes(9, text) : text \in Texts}
    \cup {EncodeBytes(9, EncodeInt(1, 7) \o EncodeBytes(2, text)) : text \in Texts}

UnknownPieces ==
  {EncodeInt(6, 130), EncodeInt(6, 5), EncodeFixed32(7, <<0, 0, 0, 8>>),
   EncodeFixed64(8, <<1, 1, 1, 1, 1, 1, 1, 1>>),
   EncodeBytes(9, EncodeInt(1, Max(TimestampRange))),
   Tag(10, 3) \o EncodeInt(1, 1) \o EncodeBytes(2, <<84>>) \o Tag(10, 4),
   Tag(10, 3) \o Tag(10, 3) \o Tag(10, 4) \o EncodeInt(1, 5) \o Tag(10, 4)}
  \cup PiecesWithText

Messages == BoundedSeq(KnownPieces \cup UnknownPieces, MaxPieces)

Numbers == Magnitudes \cup {-n : n \in Magnitudes}

AnInt(n) == [type |-> "int", int |-> n]

Sendable ==
  {(1 :> AnInt(n)) @@ (4 :> AnInt(b)) : n \in Numbers, b \in 0..1}
    \cup {(2 :> AnInt(2)) @@ (3 :> [type |-> "message", fields |-> 1 :> AnInt(e)]) : e \in 0..1}
    \cup {(1 :> AnInt(n)) @@ (5 :> [type |-> "bytes", bytes |-> text]) : n \in Numbers, text \in Texts}

Init == UnknownInit /\ pieces = <<>> /\ sent = (1 :> AnInt(0))

\* A message of several pieces comes first, so that the readers see all of them and the
\* record grows from short ones.
Receive(message) ==
  /\ sent = (1 :> AnInt(0))
  /\ DOMAIN unknownFields = {} \/ Len(message) = 1
  /\ pieces' = message
  /\ \E entries \in {Walk(Schema, Concat(message), <<"wire">>)} : RecordAll(entries)
  /\ UNCHANGED sent

Send(fields) == sent' = fields /\ UNCHANGED <<pieces, unknownFields>>

Next ==
  \/ \E message \in Messages : Receive(message)
  \/ pieces = <<>> /\ \E fields \in Sendable : Send(fields)

vars == <<unknownFields, pieces, sent>>

Spec == Init /\ [][Next]_vars

ReadBack(fields) == FromBytes(Schema, ToBytes(Schema, fields))

\* A message is read back as what was sent, a negative number as another representative
\* of the same int64; and what was read and is sent again unchanged is the same message:
\* a charge timer is edited by sending back the one that was read, with its UTC offset
\* (to_bytes, from_bytes).
SentIsReadBack ==
  LET same(read) ==
        /\ DOMAIN read = DOMAIN sent
        /\ \A num \in DOMAIN sent \ {1} : read[num] = sent[num]
        /\ 1 \in DOMAIN sent =>
             /\ (read[1].int - sent[1].int) % Modulus = 0
             /\ sent[1].int >= 0 => read[1] = sent[1]
        /\ ToBytes(Schema, read) = ToBytes(Schema, sent)
      faithful(result) == result.error = "none" /\ same(result.value.fields)
  IN  faithful(ReadBack(sent))

\* An int attribute is an int64, so a number reads as what was sent: a place below sea
\* level, a discharging battery, a timer west of Greenwich.
IntegersAreSigned ==
  1 \in DOMAIN sent => ReadBack(sent).value.fields[1] = sent[1]

\* Text leaves no trace but its length: the message would have been recorded the same
\* with any other text in its place.
TextLeavesNoTrace ==
  LET other(piece) ==
        CASE piece = EncodeBytes(9, <<65, 66>>) -> EncodeBytes(9, <<40, 53>>)
          [] piece = EncodeBytes(9, EncodeInt(1, 7) \o EncodeBytes(2, <<65, 66>>)) ->
               EncodeBytes(9, EncodeInt(1, 7) \o EncodeBytes(2, <<40, 53>>))
          [] OTHER -> piece
      swapped == [i \in DOMAIN pieces |-> other(pieces[i])]
  IN  Cardinality({Walk(Schema, Concat(message), <<"wire">>) : message \in {pieces, swapped}}) = 1
===============================================================================
