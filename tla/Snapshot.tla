------------------------------ MODULE Snapshot ------------------------------
(***************************************************************************)
(* The vehicle snapshot of PolestarCoordinator: the value held for every   *)
(* attribute, the generation that wrote it, and the bookkeeping about      *)
(* endpoints the backend does not serve.                                   *)
(*                                                                         *)
(* What the backend reports for an attribute is abstracted to a revision   *)
(* number: revision r of attribute a looks like Content[a][r], and two     *)
(* revisions may look alike.  Revision 0 is the attribute's default, the   *)
(* value before anything was fetched.  data[a] is the revision that the    *)
(* latest write of a carried: a write that looks like the value held keeps *)
(* the old object in the code, which nothing can tell from the new one.    *)
(*                                                                         *)
(* The operators below are the parts the handlers of Coordinator are made  *)
(* of; this module has no next-state relation of its own.                  *)
(***************************************************************************)
EXTENDS Naturals

CONSTANTS
  Attr,            \* the attributes of PolestarVehicleData
  Rank,            \* their position in _FETCH_ATTRS
  Readings,        \* attributes merged like odometer: by the reading itself
  Stamped,         \* attributes merged like climate: by reported_at
  Dated,           \* the revisions that carry a reported_at
  MaxRev,          \* bound: the revisions there are
  LastRev,         \* bound: the last one the backend gets to, per attribute
  Content,         \* what a revision looks like
  InvalidLimit     \* _INVALID_ARGUMENT_UNSUPPORTED_AFTER

Rev == 0..MaxRev

ASSUME SnapshotAssumption ==
  /\ Rank \in [Attr -> Nat]
  /\ Readings \subseteq Attr
  /\ Stamped \subseteq Attr
  /\ Dated \subseteq Rev
  /\ MaxRev \in Nat \ {0}
  /\ LastRev \in [Attr -> Rev]
  /\ Content \in [Attr -> [Rev -> Nat]]
  /\ InvalidLimit \in Nat \ {0}

VARIABLES
  rev,          \* the backend's revision of every attribute
  data,         \* self.data
  generation,   \* self._generation
  applied,      \* self._applied_generations
  unsupported,  \* self._unsupported_fetches
  invalid,      \* self._invalid_argument_counts
  seen          \* history: the newest backend revision that a fetch which
                \* wrote the attribute was issued after

snapshotVars == <<rev, data, generation, applied, unsupported, invalid, seen>>

Kinds == {"ok", "none", "unimplemented", "invalid", "failed", "auth"}
Answer == [kind : Kinds, rev : Rev]

SnapshotTypeOK ==
  /\ rev \in [Attr -> Rev]
  /\ data \in [Attr -> Rev]
  /\ generation \in Nat
  /\ applied \in [Attr -> Nat]
  /\ unsupported \subseteq Attr
  /\ invalid \in [Attr -> 0..InvalidLimit]
  /\ seen \in [Attr -> Rev]

SnapshotInit ==
  /\ rev = [a \in Attr |-> 1]
  /\ data = [a \in Attr |-> 0]
  /\ generation = 0
  /\ applied = [a \in Attr |-> 0]
  /\ unsupported = {}
  /\ invalid = [a \in Attr |-> 0]
  /\ seen = [a \in Attr |-> 0]

-----------------------------------------------------------------------------
(* Values.                                                                 *)

\* The dataclasses compare by value.
Differ(a, r, s) == Content[a][r] # Content[a][s]

\* The snapshots d and e compare unequal.
SnapshotsDiffer(d, e) == \E a \in Attr : Differ(a, d[a], e[a])

\* Mutant: whatever arrives replaces what is held.
MergeLatest(a, prev, r) == r

\* The revision the snapshot ends up with when r arrives over prev: a lower
\* odometer reading and an older climate snapshot leave the previous one.  Without a
\* timestamp on both sides a climate snapshot cannot be told to be older.
MergePartialUpdate(a, prev, r) ==
  IF /\ prev # 0
     /\ \/ a \in Stamped /\ {prev, r} \subseteq Dated /\ r < prev
        \/ a \in Readings /\ Content[a][r] < Content[a][prev]
  THEN prev
  ELSE r

-----------------------------------------------------------------------------
(* Reading the answers of a fetch, a function from attributes to answers.  *)

\* The results are gone through in order up to the first AuthError.
Handled(ans) ==
  {a \in DOMAIN ans : \A b \in DOMAIN ans : ans[b].kind = "auth" => Rank[a] < Rank[b]}

AuthRejected(ans) == \E a \in DOMAIN ans : ans[a].kind = "auth"

Successful(ans) == {a \in Handled(ans) : ans[a].kind \in {"ok", "none"}}

\* Saturated at the limit: the code only asks whether it has been reached.
Counted(n) == IF n < InvalidLimit THEN n + 1 ELSE n

FetchIsUnsupported(a, answer) ==
  \/ answer.kind = "unimplemented"
  \/ /\ answer.kind = "invalid"
     /\ Counted(invalid[a]) = InvalidLimit \/ a \in unsupported

Refused(ans) == {a \in Handled(ans) : FetchIsUnsupported(a, ans[a])}

\* The values a fetch hands back: a default for a refused endpoint, the merged
\* result for an answered one, nothing for a call that failed.
FetchedValues(ans) ==
  [a \in Refused(ans) \cup {b \in Handled(ans) : ans[b].kind = "ok"} |->
     IF a \in Refused(ans) THEN 0 ELSE MergePartialUpdate(a, data[a], ans[a].rev)]

\* What reading the answers changes before any value is applied.
NoteAnswers(ans) ==
  /\ unsupported' = (unsupported \cup Refused(ans)) \ Successful(ans)
  /\ invalid' = [a \in Attr |->
       CASE a \in Successful(ans) -> 0
         [] a \in Handled(ans) /\ ans[a].kind = "invalid" -> Counted(invalid[a])
         [] OTHER -> invalid[a]]

-----------------------------------------------------------------------------
(* Writing values, a function from attributes to revisions.                *)

\* Mutant: values are applied in the order they come back.
FreshAlways(values, gen) == DOMAIN values

\* The values asked for later than those that last wrote their attribute.
Fresh(values, gen) == {a \in DOMAIN values : gen > applied[a]}

Written(values, gen) ==
  [a \in Attr |-> IF a \in Fresh(values, gen) THEN values[a] ELSE data[a]]

Larger(m, n) == IF m < n THEN n ELSE m

\* Merge values into the snapshot; issued is the backend's state when their
\* generation was claimed.
ApplyValues(values, gen, issued) ==
  /\ applied' = [a \in Attr |-> IF a \in Fresh(values, gen) THEN gen ELSE applied[a]]
  /\ data' = Written(values, gen)
  /\ seen' = [a \in Attr |->
       IF a \in Fresh(values, gen) THEN Larger(seen[a], issued[a]) ELSE seen[a]]

KeepValues == UNCHANGED <<applied, data, seen>>

\* The car reports something new to the backend.
BackendChanges(a) ==
  /\ rev[a] < LastRev[a]
  /\ rev' = [rev EXCEPT ![a] = @ + 1]
=============================================================================
