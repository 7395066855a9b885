------------------------ MODULE MC_CheckpointManager ------------------------
(***************************************************************************)
(* Model-checking instance of CheckpointManager: two keys, one TAP cursor, *)
(* the persistence cursor, and checkpoint ids up to MaxChkId.              *)
(***************************************************************************)
EXTENDS CheckpointManager, TLC

CONSTANTS k1, k2, t1, pc

MCKeys == {k1, k2}
MCOneKey == {k1}
MCTapNames == {t1}
MCNoTaps == {}

MCSymmetry == Permutations(MCKeys)

=============================================================================
