---------------------------- MODULE MCCoordinator ----------------------------
(***************************************************************************)
(* Small instances of Coordinator.  The attributes stand for the kinds the *)
(* code tells apart: "software" is plain and only polled, "availability"   *)
(* is plain and makes the car active, "odometer" is merged by its reading, *)
(* "climate" by its timestamp, "exterior" is always streamed and makes the *)
(* car active (its field-wise merge is not modelled here), "location" is   *)
(* streamed while the car is active.                                       *)
(***************************************************************************)
EXTENDS Coordinator

CONSTANTS
  Attributes, AlwaysStreamed, ActiveStreamed,
  Changing         \* the attributes the car reports changes of

MCLastRev == [a \in Attributes |-> IF a \in Changing THEN MaxRev ELSE 1]

MCRank ==
  [a \in Attributes |->
     CASE a = "exterior" -> 1 [] a = "location" -> 2 [] a = "odometer" -> 3
       [] a = "climate" -> 4 [] a = "availability" -> 5 [] OTHER -> 6]

\* Odometer readings may come back lower; a climate snapshot its time;
\* the other attributes alternate between two looks.
MCContent ==
  [a \in Attributes |-> [r \in 0..MaxRev |->
     CASE r = 0 -> 0
       [] a = "odometer" -> IF r = 2 THEN 5 ELSE r + 5
       [] a = "climate" -> r
       [] OTHER -> 1 + (r % 2)]]

\* An even revision of these looks like a car in use.
MCBusy ==
  [a \in Attributes |-> IF a \in {"availability", "exterior"} THEN {1} ELSE {}]

MCReadings == Attributes \cap {"odometer"}
MCStamped == Attributes \cap {"climate"}

\* The second climate snapshot comes without a timestamp.
MCDated == Rev \ {2}

MCCommandAttrs == {Attributes \cap {"exterior", "climate", "software", "availability"}}
=============================================================================
