\* Every I/O outcome and NOMEM pattern, with client traffic during the
\* load and Warmup::stop racing the step thread; no expired items, so that
\* force-deletes do not hit client writes.  Warmup ends, so the system may
\* stop.
CONSTANTS
    k1 = k1
    k2 = k2
    Keys <- MCKeys
    HotKeys <- MCHotKeys
    Expired = {}
    Faults = TRUE
    Traffic = TRUE
    Shutdown = TRUE
    StoredChk = 1
    MaxChk = 3
CHECK_DEADLOCK FALSE
SPECIFICATION Spec
INVARIANTS
    KeysResident
    
PROPERTIES
    WarmupCompletes
