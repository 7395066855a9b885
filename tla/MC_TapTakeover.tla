------------------------- MODULE MC_TapTakeover ----------------------------
(* Bounds for the TapTakeover runs: vbuckets 0 and 1.                      *)
EXTENDS TapTakeover

MCVBs == {0, 1}
MCFilters == {{0}, {1}, {0, 1}}
=============================================================================
