----------------------------- MODULE UnknownFields -----------------------------
(***************************************************************************)
(* What a typed message adds to the record of unknown fields: the fields   *)
(* that neither its schema nor the schemas nested in it have               *)
(* (unknown_fields.py).  A message that cannot be decoded ends the         *)
(* recording, that of the messages around it included; what was recorded   *)
(* before stays.                                                           *)
(***************************************************************************)
EXTENDS TypedMessages, RecordedFields, UnknownRecord

\* An item that is walked in its turn: a known message, and the only one of its number,
\* since of several the dictionary has a list.
IsNested(schema, items, i) ==
  /\ items[i].num \in DOMAIN schema
  /\ schema[items[i].num].type = "message" /\ items[i].value.type = "bytes"
  /\ \A j \in DOMAIN items \ {i} : items[j].num # items[i].num

\* No exception ends the walk.
RECURSIVE Decodes(_, _)
ItemsDecode(schema, items) ==
  \A i \in DOMAIN items :
    IsNested(schema, items, i) => Decodes(schema[items[i].num].schema, items[i].value.bytes)
Decodes(schema, data) == Decode(data).error = "none" /\ ItemsDecode(schema, Items(data))

\* record_message: the items up to the one that ends the walk.
RECURSIVE Walk(_, _, _)
WalkItems(schema, items, path) ==
  LET ends(i) ==
        IsNested(schema, items, i) /\ ~Decodes(schema[items[i].num].schema, items[i].value.bytes)
      entries(i) ==
        IF items[i].num \notin DOMAIN schema
        THEN Below(Append(path, items[i].num), Entries(items[i].value, FALSE))
        ELSE IF IsNested(schema, items, i)
        THEN Walk(schema[items[i].num].schema, items[i].value.bytes, Append(path, items[i].num))
        ELSE <<>>
      from[i \in 1..(Len(items) + 1)] ==
        IF i > Len(items) THEN <<>>
        ELSE entries(i) \o (IF ends(i) THEN <<>> ELSE from[i + 1])
  IN  from[1]
Walk(schema, data, path) == WalkItems(schema, Items(data), path)
===============================================================================
