---------------------------- MODULE MC_TapProducer ----------------------------
(* Model values and definitions that instantiate TapProducer for TLC.     *)
EXTENDS TapProducer

CONSTANTS k1, k2, v1, v2, NoValue

MCKeys == {k1}
MCTwoKeys == {k1, k2}
MCVals == {v1, v2}
=============================================================================
