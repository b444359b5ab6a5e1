-------------------------------- MODULE MCFolio --------------------------------
(* Small instances of the folios for TLC.                                   *)
EXTENDS Folio, TLC

\* Requests are only ever compared for equality; folio ids are ordered.
Symmetry == Permutations(Requests)
=============================================================================
