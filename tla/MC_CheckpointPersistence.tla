--------------------- MODULE MC_CheckpointPersistence ----------------------
(* Model values for the CheckpointPersistence runs.                        *)
EXTENDS CheckpointPersistence

CONSTANTS c1, c2, vb0, vb1, vb2

MCCookies == {c1, c2}
MCVBuckets == {vb0, vb1}
MCDelVBuckets == {vb2}
=============================================================================
