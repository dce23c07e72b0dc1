---------------------------- MODULE TypedMessages ----------------------------
(***************************************************************************)
(* The typed messages of polestar_api on top of the wire format (wire.py). *)
(*                                                                         *)
(* A schema maps a field number to the type of the attribute: "int",       *)
(* "bool", "enum" with its members, "text", or "message" with the nested   *)
(* schema.  from_bytes keeps only the fields of the schema; an absent      *)
(* field keeps its default, which is the same for every reader and so is   *)
(* left out of the result.                                                 *)
(***************************************************************************)
EXTENDS WireFormat

RECURSIVE FromBytes(_, _)

Typed(attribute, value) ==
  CASE attribute.type = "message" ->
         IF value.type = "bytes"
         THEN FromBytes(attribute.schema, value.bytes)
         ELSE Failure("TypeError")
    [] attribute.type = "enum" ->
         IF value.type = "int" /\ value.int \in attribute.members
         THEN [error |-> "none", value |-> value]
         ELSE Failure("ValueError")
    [] attribute.type = "bool" /\ value.type = "int" ->
         [error |-> "none", value |-> [type |-> "int", int |-> IF value.int = 0 THEN 0 ELSE 1]]
    [] OTHER -> [error |-> "none", value |-> value]

AllTyped(typed) ==
  LET broken == {num \in DOMAIN typed : typed[num].error # "none"}
  IN  IF broken # {}
      THEN typed[Min(broken)]
      ELSE [error |-> "none",
            value |-> [type |-> "message", fields |-> [num \in DOMAIN typed |-> typed[num].value]]]

FromBytes(schema, data) ==
  Then(Taken(DOMAIN schema, data), LAMBDA raw :
    AllTyped([num \in DOMAIN raw.values |-> Typed(schema[num], raw.values[num])]))

\* to_bytes: the attributes that are not None, in the order of the schema.
RECURSIVE ToBytes(_, _)
ToBytes(schema, fields) ==
  LET raw(num) ==
        IF fields[num].type = "message"
        THEN [type |-> "bytes", bytes |-> ToBytes(schema[num].schema, fields[num].fields)]
        ELSE fields[num]
      numbers == DOMAIN fields \cap DOMAIN schema
  IN  Encode(SetToSortSeq(numbers, <), [num \in numbers |-> raw(num)])
===============================================================================
