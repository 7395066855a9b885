\* A replica vbucket: checkpoints come from the master and are collapsed;
\* nine mutations let three checkpoints stand when GC runs, so collapse happens.
CONSTANTS
  k1 = k1
  k2 = k2
  t1 = t1
  pc = pc
  Keys <- MCOneKey
  TapNames <- MCTapNames
  Persistence = pc
  Ops = {"set"}
  VbState = "replica"
  MaxCheckpoints = 2
  ChkMaxItems = 2
  KeepClosedChks = FALSE
  InconsistentSlaveChk = FALSE
  ClosedCheckpointOnly = FALSE
  RegisteredTAPClient = FALSE
  ItemNumBasedNewChk = TRUE
  InitChkId = 1
  MemLevels = {"above"}
  HtAllValues = {FALSE}
  MaxChkId = 3
  MaxMutationId = 9

SPECIFICATION Spec

INVARIANTS
  TypeOK
  CursorsValid
  NoLostMutation
  ItemCountConsistent
  CheckpointListWellFormed
