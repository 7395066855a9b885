\* An active vbucket: the manager creates checkpoints itself, never collapses.
CONSTANTS
  k1 = k1
  k2 = k2
  t1 = t1
  pc = pc
  Keys <- MCKeys
  TapNames <- MCTapNames
  Persistence = pc
  Ops = {"set"}
  VbState = "active"
  MaxCheckpoints = 2
  ChkMaxItems = 2
  KeepClosedChks = FALSE
  InconsistentSlaveChk = FALSE
  ClosedCheckpointOnly = FALSE
  RegisteredTAPClient = FALSE
  ItemNumBasedNewChk = TRUE
  InitChkId = 1
  MemLevels = {"below", "at", "above"}
  HtAllValues = {FALSE, TRUE}
  MaxChkId = 3
  MaxMutationId = 12

SPECIFICATION FairSpec

INVARIANTS
  CursorsValid
  NoLostMutation
  ItemCountConsistent
  OffsetMatchesPosition
  CheckpointListWellFormed
PROPERTIES
  PersistenceReadsAll
