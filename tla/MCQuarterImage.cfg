\* One frame, nothing fails.
SPECIFICATION Spec
CONSTANTS
    Length = 2
    MaxFrames = 1
    MaxFaults = 0
    MaxInits = 1
    EngineStates = {"live"}
    Allowed <- AllowedLifeCycle
INVARIANT
    NetworkSeesWholeImage
\* The program ends after its last Stop.
CHECK_DEADLOCK FALSE
