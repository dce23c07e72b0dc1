----------------------------- MODULE UnknownRecord -----------------------------
(***************************************************************************)
(* The record of the fields the parsers do not map (unknown_fields.py),    *)
(* which diagnostics hand out.  It lives as long as the module and is      *)
(* filled by every message that is parsed, so it must not grow without     *)
(* bound.  What the messages add is UnknownFields' concern: an entry is a  *)
(* key and a value.  How often a field was seen and when is left out.      *)
(***************************************************************************)
EXTENDS Naturals, Sequences, FiniteSets

CONSTANTS MaxKeys, MaxValues

ASSUME LimitsAssumption == MaxKeys \in Nat /\ MaxValues \in Nat \ {0}

VARIABLE unknownFields

UnknownInit == unknownFields = [key \in {} |-> <<>>]

(***************************************************************************)
(* _store: a new key only while there is room for one, a new value only    *)
(* while its key has room, and a note once a value was turned away.        *)
(***************************************************************************)
Seen(record, key) ==
  IF key \in DOMAIN record THEN record[key] ELSE [values |-> {}, more |-> FALSE]

Added(old, value) ==
  IF value \notin old.values /\ Cardinality(old.values) >= MaxValues
  THEN [values |-> old.values, more |-> TRUE]
  ELSE [values |-> old.values \cup {value}, more |-> old.more]

Noted(record, entry) ==
  [key \in DOMAIN record \cup {entry.key} |->
     IF key = entry.key THEN Added(Seen(record, key), entry.value) ELSE record[key]]

\* The mutated form: the limit is compared as if the new key were not one of them.
StoreOneMore(record, entry) ==
  IF entry.key \notin DOMAIN record /\ Cardinality(DOMAIN record) > MaxKeys
  THEN record
  ELSE Noted(record, entry)

Store(record, entry) ==
  IF entry.key \notin DOMAIN record /\ Cardinality(DOMAIN record) >= MaxKeys
  THEN record
  ELSE Noted(record, entry)

StoreAll(record, entries) ==
  LET stored[n \in 0..Len(entries)] ==
        IF n = 0 THEN record ELSE Store(stored[n - 1], entries[n])
  IN  stored[Len(entries)]

RecordAll(entries) == unknownFields' = StoreAll(unknownFields, entries)

\* Messages of any kind, whatever they hold.
RecordNext ==
  \E keys, values : \E entries \in Seq([key : keys, value : values]) : RecordAll(entries)

RecordSpec == UnknownInit /\ [][RecordNext]_unknownFields

\* The record stays within its limits, and says so when it turned a value away.
RecordIsBounded ==
  /\ Cardinality(DOMAIN unknownFields) <= MaxKeys
  /\ \A key \in DOMAIN unknownFields :
       /\ Cardinality(unknownFields[key].values) \in 1..MaxValues
       /\ unknownFields[key].more => Cardinality(unknownFields[key].values) = MaxValues
===============================================================================
