\* All outputs of up to three rows, and more or less room than they need,
\* or none.
\* Blocks of two threads leave the last one partly idle.
SPECIFICATION Spec
CONSTANTS
    Rows <- Strips
    MaxRows = 3
    MaxObjects = 3
    BlockLimit = 2
    ObjThreshold = 50
    NmsThreshold = 60
INVARIANTS
    GpuTypeOK
    CountedAreWritten
    DecodesLikeCpu
    KeptDontOverlap
    NeverKeepsMore
    OutcomeIsFixed
PROPERTIES
    SlotsWrittenOnce
\* The host returns, or crashes.
CHECK_DEADLOCK FALSE
