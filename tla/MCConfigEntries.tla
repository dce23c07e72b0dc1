--------------------------- MODULE MCConfigEntries ---------------------------
(* A small instance of ConfigEntries.                                      *)
EXTENDS ConfigEntries

\* Dialogues are interchangeable, and every property is a safety property.
Interchangeable == Permutations(Flows)
=============================================================================
