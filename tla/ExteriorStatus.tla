---------------------------- MODULE ExteriorStatus ----------------------------
(***************************************************************************)
(* Locks, doors, windows and lids (models/exterior.py): the status a       *)
(* message is parsed to and the snapshot that grows out of partial         *)
(* updates.                                                                *)
(*                                                                         *)
(* A status is a tree: a part of the car (the doors), its members (front   *)
(* left) and the facts known of a member (its lock).  A part or a member   *)
(* that a message does not carry is None, a fact it does not carry is 0.   *)
(* A part with a single message is its own only member.  Facts have the    *)
(* numbers of the code's enumerations, and Parts picks the parts of a car. *)
(***************************************************************************)
EXTENDS Naturals

CONSTANTS Parts, None

Unspecified == 0

LockStatus == 0..2   \* UNSPECIFIED, UNLOCKED, LOCKED
OpenStatus == 0..3   \* UNSPECIFIED, OPEN, CLOSED, AJAR
AlarmStatus == 0..2  \* UNSPECIFIED, TRIGGERED, OFF

UNLOCKED == 1
LOCKED   == 2
OPEN     == 1
CLOSED   == 2
AJAR     == 3

Corners == {"front_left", "front_right", "rear_left", "rear_right"}

Members(part) == IF part \in {"doors", "windows"} THEN Corners ELSE {"status"}

Facts(part) ==
  CASE part = "central_lock" -> {"lock_status"}
    [] part \in {"doors", "hood", "tailgate"} -> {"lock_status", "open_status", "alarm_status"}
    [] OTHER -> {"open_status"}

MemberStatus(part) == [Facts(part) -> 0..3]

PartStatus(part) == [Members(part) -> MemberStatus(part) \cup {None}]

Status ==
  {status \in [Parts -> (UNION {PartStatus(part) : part \in Parts}) \cup {None}] :
     \A part \in Parts : status[part] \in PartStatus(part) \cup {None}}

ASSUME ExteriorAssumption ==
  /\ Parts \subseteq {"central_lock", "doors", "windows", "sunroof", "hood", "tailgate", "tank_lid"}
  /\ {"central_lock", "doors"} \subseteq Parts
  /\ None \notin Status
  /\ \A part \in Parts : None \notin PartStatus(part) \cup MemberStatus(part)

(***************************************************************************)
(* merge: what an update says replaces what was known, what it leaves out  *)
(* stays.                                                                  *)
(***************************************************************************)
MergeFact(current, previous) == IF current # Unspecified THEN current ELSE previous

MergeMember(current, previous) ==
  CASE current = None  -> previous
    [] current # None /\ previous = None -> current
    [] OTHER -> [fact \in DOMAIN current |-> MergeFact(current[fact], previous[fact])]

\* The mutated form: a part the update carries replaces the part that was known, so
\* that a message on one door forgets the other three.
MergePartWhole(current, previous) == IF current = None THEN previous ELSE current

MergePart(current, previous) ==
  CASE current = None  -> previous
    [] current # None /\ previous = None -> current
    [] OTHER -> [member \in DOMAIN current |-> MergeMember(current[member], previous[member])]

Merge(current, previous) ==
  IF previous = None
  THEN current
  ELSE [part \in DOMAIN current |-> MergePart(current[part], previous[part])]

HasData(status) == \E part \in DOMAIN status : status[part] # None

\* What a status says of one fact.
Says(status, part, member, fact) ==
  IF status = None THEN Unspecified
  ELSE IF status[part] = None THEN Unspecified
  ELSE IF status[part][member] = None THEN Unspecified
  ELSE status[part][member][fact]

FactPaths == UNION {{part} \X Members(part) \X Facts(part) : part \in Parts}

(***************************************************************************)
(* What the entities ask: the lock is None until its status is known, a    *)
(* door counts as open when it is known not to be closed.                  *)
(***************************************************************************)
IsLocked(status) ==
  LET lock == Says(status, "central_lock", "status", "lock_status")
  IN  IF lock = Unspecified THEN None ELSE lock = LOCKED

AnyDoorOpen(status) ==
  \E corner \in Corners : Says(status, "doors", corner, "open_status") \notin {Unspecified, CLOSED}

\* binary_sensor._is_open
IsOpen(fact) == IF fact = Unspecified THEN None ELSE fact # CLOSED
===============================================================================
