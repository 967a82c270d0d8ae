\* One failing inference, fair threads.
SPECIFICATION FairSpec
CONSTANTS
    Length = 2
    MaxFrames = 2
    MaxFaults = 1
    MaxInits = 1
    EngineStates = {"live"}
    Allowed <- AllowedLifeCycle
PROPERTY
    StopAlwaysReturns
\* The program ends after its last Stop.
CHECK_DEADLOCK FALSE
