----------------------------- MODULE MC_Flusher -----------------------------
(* Model values for the flusher: control threads as model values. *)
EXTENDS Flusher, TLC

CONSTANTS c1, c2

MCCtl == {c1, c2}
MCOneCtl == {c1}
MCSymmetry == Permutations(MCCtl)
=============================================================================
