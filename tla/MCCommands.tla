----------------------------- MODULE MCCommands -----------------------------
(* Small instances of Commands.                                            *)
EXTENDS Commands
=============================================================================
