----------------------------- MODULE MCNightAudit -----------------------------
(* Small instances of the night audit for TLC.                              *)
EXTENDS NightAudit, TLC
=============================================================================
