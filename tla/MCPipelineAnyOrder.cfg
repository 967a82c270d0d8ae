\* A program that makes any call at any time, an engine that may not load, and
\* fair threads; one failing call.
SPECIFICATION FairSpec
CONSTANTS
    Length = 1
    MaxFrames = 3
    MaxFaults = 1
    MaxInits = 2
    EngineStates = {"live", "wild", "void"}
    Allowed <- AllowedAnyOrder
INVARIANTS
    ThreadsHaveHandles
    CrashOnlyByMisuse
PROPERTIES
    StopReturns
    ReleaseReturns
    FramesSettle
\* A crashed program takes no step.
CHECK_DEADLOCK FALSE
