\* Two control threads racing pause/resume/stop against the flusher step.
CONSTANTS
    c1 = c1
    c2 = c2
    Ctl <- MCCtl
    CtlOps = {"pause", "resume", "stop", "forcestop"}
    MaxCtlOps = 3
    MaxWrites = 3
SPECIFICATION Spec
\* The dispatcher idles when no flusher task is queued (paused/stopped).
CHECK_DEADLOCK FALSE
INVARIANTS
    TypeOK
    TaskScheduledWhenActive
    StopPersistsAll
PROPERTIES
    FlushProgress
