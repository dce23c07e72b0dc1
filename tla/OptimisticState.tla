-------------------------- MODULE OptimisticState --------------------------
(***************************************************************************)
(* OptimisticStateMixin: what an entity shows between a command and its    *)
(* confirmation.  The override is in force while its deadline is set; it   *)
(* is dropped when the state is rendered and the snapshot agrees with it   *)
(* or the deadline has passed, and by a timer at the deadline.             *)
(***************************************************************************)
EXTENDS Naturals

CONSTANTS
  Values,     \* what the car can report and a command can ask for
  TTL         \* ticks until the deadline

ASSUME OptimisticAssumption ==
  /\ TTL \in Nat \ {0}
  /\ Values \cap {"none", "unknown", "missing", "unavailable", "changing"} = {}

VARIABLES
  real,       \* what the snapshot holds: a value, or the entity's blank
  available,  \* what the entity says of itself; see Commands
  moving,     \* a lock is locking or unlocking
  override,   \* the value shown ahead of the car, or "none"
  left,       \* ticks until its deadline
  armed,      \* the expiry timer is scheduled
  shown,      \* the state as it was last written
  added       \* the entity is part of Home Assistant

optimisticVars == <<real, available, moving, override, left, armed, shown, added>>

OptimisticTypeOK ==
  /\ real \in Values \cup {"unknown", "missing", "unavailable"}
  /\ override \in Values \cup {"none"}
  /\ left \in 0..TTL
  /\ shown \in Values \cup {"unknown", "unavailable", "changing"}
  /\ available \in BOOLEAN /\ moving \in BOOLEAN /\ armed \in BOOLEAN /\ added \in BOOLEAN

OptimisticInit(blank, av) ==
  /\ real = blank /\ available = av /\ moving = FALSE /\ added = TRUE
  /\ override = "none" /\ left = 0 /\ armed = FALSE
  /\ shown = IF av THEN "unknown" ELSE "unavailable"

\* The snapshot's value as a state.
Plain(r) == IF r = "missing" THEN "unknown" ELSE r

\* Mutant: the deadline counts as passed once the clock has moved.
ResolvedEarly(o, l, r) == o = r \/ l < TTL

\* _resolve_optimistic gives up the override o with l ticks left.
Resolved(o, l, r) == o = r \/ l = 0

\* async_write_ha_state: an unavailable entity is not asked for its value, a
\* lock shows that it is locking or unlocking (mv) without being asked, and an
\* entity without an attribute answers before _resolve_optimistic; the others
\* may drop the override o.  A removed entity is not written.
WriteState(o, l, a, r, av, mv) ==
  LET dropped == added /\ av /\ ~mv /\ r # "missing" /\ o # "none" /\ Resolved(o, l, r) IN
  /\ override' = IF dropped THEN "none" ELSE o
  /\ left' = IF dropped \/ o = "none" THEN 0 ELSE l
  /\ armed' = (a /\ ~dropped)
  /\ real' = r /\ available' = av /\ moving' = mv
  /\ shown' = CASE ~added -> shown
                [] added /\ ~av -> "unavailable"
                [] added /\ av /\ mv -> "changing"
                [] added /\ av /\ ~mv -> IF r = "missing" \/ override' = "none"
                                         THEN Plain(r) ELSE override'
  /\ UNCHANGED added

\* Mutant: the expiry timer is cancelled and not scheduled anew.
SetOptimisticUntimed(v, av) == WriteState(v, TTL, FALSE, real, av, FALSE)

SetOptimistic(v, av) == WriteState(v, TTL, TRUE, real, av, FALSE)
\* Mutant: a failed command leaves its value on show.
ClearOptimisticNever(av) == WriteState(override, left, armed, real, av, FALSE)

ClearOptimistic(av) == WriteState("none", 0, FALSE, real, av, FALSE)
KeepOptimistic(av) == WriteState(override, left, armed, real, av, moving)

\* PolestarLock around its command: _attr_is_locking, _attr_is_unlocking.
StartMoving(av) == WriteState(override, left, armed, real, av, TRUE)
StopMoving(av) == WriteState(override, left, armed, real, av, FALSE)

-----------------------------------------------------------------------------
(* Time and Home Assistant.                                                *)

Tick ==
  /\ override # "none" /\ left > 0
  /\ left' = left - 1
  /\ UNCHANGED <<real, available, moving, override, armed, shown, added>>

\* _async_optimistic_expired.
Expire ==
  /\ armed /\ left = 0
  /\ WriteState("none", 0, FALSE, real, available, moving)

\* async_will_remove_from_hass.
RemoveEntity ==
  /\ added
  /\ added' = FALSE /\ armed' = FALSE
  /\ UNCHANGED <<real, available, moving, override, left, shown>>

-----------------------------------------------------------------------------
(* Properties.                                                             *)

\* What is shown is the override while it is in force and the snapshot
\* otherwise, never a value that neither of them holds, and an override that
\* the snapshot confirms is gone (entity.py:64-72), but for a lock that is
\* locking or unlocking, which is not asked.
Accounted ==
  added =>
    /\ override # "none" => armed
    /\ shown = (CASE ~available -> "unavailable"
                  [] available /\ moving -> "changing"
                  [] available /\ ~moving /\ (real = "missing" \/ override = "none") -> Plain(real)
                  [] available /\ ~moving /\ real # "missing" /\ override # "none" -> override)
    /\ available /\ ~moving => override # real

\* An override goes when the snapshot agrees with it or at its deadline; a
\* snapshot from before the command does not undo it (entity.py:30-35).
\* excused says that the step starts or ends a command.
GivenUpForGood(excused) ==
  override # "none" /\ override' # override => excused \/ override = real' \/ left = 0
=============================================================================
