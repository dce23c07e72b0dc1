--------------------------- MODULE MCTokenRenewal ---------------------------
(* Small instances of TokenRenewal.                                        *)
EXTENDS TokenRenewal
=============================================================================
