------------------------------ MODULE WirePieces ------------------------------
(***************************************************************************)
(* What the backend may send: a message is any sequence of fields, each    *)
(* written by the rules of the wire format.  A newer backend sends fields  *)
(* the schema does not have.                                               *)
(*                                                                         *)
(* The rules are those of the format and not of the reader: a field is     *)
(* what an encoder may write, be a varint longer than it needs to be or a  *)
(* group inside a group.                                                   *)
(***************************************************************************)
EXTENDS WireFormat

CONSTANT KnownNumbers \* the field numbers of the schema

VARIABLE pieces      \* the fields of the last message, each as its bytes

Varints ==
  {bytes \in Seq(Byte) :
     bytes # <<>> /\ \A i \in 1..Len(bytes) : (bytes[i] < 128) <=> (i = Len(bytes))}

Tags(num, wire) == {tag \in Varints : VarintValue(tag) = num * 8 + wire}

\* What follows the tag of a field that is no group.
Payloads(wire) ==
  {bytes \in Seq(Byte) :
     CASE wire = 0 -> bytes \in Varints
       [] wire = 1 -> Len(bytes) = 8
       [] wire = 5 -> Len(bytes) = 4
       [] wire = 2 -> \E length \in Varints, value \in Seq(Byte) :
                        bytes = length \o value /\ Len(value) = VarintValue(length)}

SimpleFields(num) ==
  {bytes \in Seq(Byte) :
     \E wire \in {0, 1, 2, 5} :
       \E tag \in Tags(num, wire), payload \in Payloads(wire) : bytes = tag \o payload}

(***************************************************************************)
(* The content of a group is a sequence of fields, which may be groups:    *)
(* the least set that holds the empty sequence and is closed under putting *)
(* a field in front.                                                       *)
(***************************************************************************)
Closed(S) ==
  /\ <<>> \in S
  /\ \A num \in Nat, rest \in S :
       /\ \A field \in SimpleFields(num) : field \o rest \in S
       /\ \A start \in Tags(num, 3), end \in Tags(num, 4), inside \in S :
            start \o (inside \o (end \o rest)) \in S

Contents == {bytes \in Seq(Byte) : \A S \in SUBSET Seq(Byte) : Closed(S) => bytes \in S}

Groups(num) ==
  {bytes \in Seq(Byte) :
     \E start \in Tags(num, 3), inside \in Contents, end \in Tags(num, 4) :
       bytes = start \o (inside \o end)}

Fields == UNION {SimpleFields(num) \cup Groups(num) : num \in Nat}

WireNext == \E message \in Seq(Fields) : pieces' = message

WireSpec == pieces = <<>> /\ [][WireNext]_pieces

FieldNumber(piece) == DecodeVarint(piece, 1).value \div 8

Known(message) ==
  [i \in DOMAIN message |-> IF FieldNumber(message[i]) \in KnownNumbers THEN message[i] ELSE <<>>]

\* Fields a newer backend adds are stepped over, whatever they hold and wherever they
\* stand: what is taken out of the message for the attributes is the same as if they
\* were not there (decode, _skip_group, from_bytes).
UnknownFieldsAreSkipped ==
  Taken(KnownNumbers, Concat(pieces)) = Taken(KnownNumbers, Concat(Known(pieces)))
===============================================================================
