--------------------------- MODULE MCBookingSources ---------------------------
(* Small instances of the front desk with its outside cancellers for TLC.   *)
EXTENDS BookingSources, TLC

Symmetry == Permutations(Requests)
=============================================================================
