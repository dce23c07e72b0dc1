------------------------------ MODULE MCMessages ------------------------------
(***************************************************************************)
(* All readers of messages with small alphabets of messages.  The record   *)
(* of unknown fields is common to them; otherwise they share no state, so  *)
(* one of them works at a time, and of the readings one resource or the    *)
(* dashboard and the odometer, which share the trip meters.                *)
(***************************************************************************)
EXTENDS Readings, MCWire

MCPaths ==
  {<<"central_lock", "status", "lock_status">>, <<"doors", "front_left", "open_status">>,
   <<"doors", "rear_left", "open_status">>}

\* The field every message of a resource carries: when or of what it is.
Stamp(resource) ==
  CASE resource \in {"battery", "health", "availability", "odometer", "precleaning"} ->
         1 :> [type |-> "message", fields |-> 1 :> [type |-> "int", int |-> 5]]
    [] resource = "connectivity" ->
         2 :> [type |-> "message", fields |-> 1 :> [type |-> "int", int |-> 5]]
    [] resource = "weather" -> 1 :> [type |-> "int", int |-> 5]
    [] resource = "software" -> 1 :> [type |-> "bytes", bytes |-> <<65>>]
    [] resource = "dashboard" ->
         1 :> [type |-> "message", fields |-> 17 :> [type |-> "int", int |-> 5]]

IntsOf(type) ==
  CASE type.type = "enum" -> type.members \cup {Newer} [] type.type = "bool" -> {0, 1}
    [] type.type = "int" -> {0, 7} [] OTHER -> {}

DashboardMessages ==
  {1 :> [type |-> "message", fields |-> 17 :> AnInt(5) @@ num :> AnInt(7)] : num \in {18, 19}}
    \cup {Stamp("dashboard") @@ 2 :> [type |-> "message", fields |-> 10 :> AnInt(n)] : n \in {2, 4}}

MessagesOf(resource) ==
  {Stamp(resource)} \cup (IF resource = "dashboard" THEN DashboardMessages ELSE {}) \cup
  UNION {{Stamp(resource) @@ (num :> [type |-> "int", int |-> n]) :
            n \in IntsOf(Resources[resource].schema[num])} :
         num \in DOMAIN Resources[resource].attributes \ DOMAIN Stamp(resource)}

ExtrasOf(resource) == IF Resources[resource].recorded THEN {<<>>, EncodeInt(50, 1)} ELSE {<<>>}

Places == {[longitude |-> <<x, 0, 0, 0, 0, 0, 0, 64>>, latitude |-> <<y, 0, 0, 0, 0, 0, 0, 0>>] :
             x \in {0, 12}, y \in {0, 57}}

Kinds == {"nothing", "altitude", "message", "floats"}

ReadingsNext ==
  \/ \E resource \in DOMAIN Resources :
       /\ place = NoPlace
       /\ \A other \in DOMAIN Resources \ {resource} :
            said[other] = None \/ {resource, other} = {"dashboard", "odometer"}
       /\ \E fields \in MessagesOf(resource), extra \in ExtrasOf(resource) :
            ReadingArrives(resource, fields, extra)
  \/ /\ \A resource \in DOMAIN Resources : said[resource] = None
     /\ \E format \in {"nested5", "nested2", "flat"}, where \in Places, kind \in Kinds :
          LocationArrives(format, where, kind)

ExteriorIdle == exterior = None
ClimateIdle == climate = None /\ clock = 0
ReadingsIdle == place = NoPlace /\ \A resource \in DOMAIN Resources : said[resource] = None
WireIdle == pieces = <<>> /\ sent = (1 :> AnInt(0))

MessagesInit == StatusInit /\ ReadingsInit /\ Init

MessagesNext ==
  \/ ExteriorIdle /\ ClimateIdle /\ ReadingsIdle /\ Next
       /\ UNCHANGED <<exterior, told, climate, clock, readings, said, place, located>>
  \/ ClimateIdle /\ ReadingsIdle /\ WireIdle /\ ExteriorNext
       /\ UNCHANGED <<readings, said, place, located, pieces, sent>>
  \/ ExteriorIdle /\ ReadingsIdle /\ WireIdle /\ ClimateNext
       /\ UNCHANGED <<readings, said, place, located, pieces, sent>>
  \/ ExteriorIdle /\ ClimateIdle /\ WireIdle /\ ReadingsNext
       /\ UNCHANGED <<exterior, told, climate, clock, pieces, sent>>

messageVars == <<statusVars, readingVars, pieces, sent>>

MessagesSpec == MessagesInit /\ [][MessagesNext]_messageVars

\* The record of unknown fields, which diagnostics hand out, tells no text of the owner's,
\* and no place closer than one decimal (unknown_fields.py:89-111, 138-142).
RecordIsPrivate == TextLeavesNoTrace /\ LocationLeavesNoTrace
===============================================================================
