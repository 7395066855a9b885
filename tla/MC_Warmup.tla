------------------------------ MODULE MC_Warmup ------------------------------
(* Model values for the Warmup runs: two persisted keys, one of them in   *)
(* the access log.                                                         *)
EXTENDS Warmup

CONSTANTS k1, k2

MCKeys == {k1, k2}
MCHotKeys == {k1}
=============================================================================
