\* Two frames, nothing fails.
SPECIFICATION Spec
CONSTANTS
    Length = 2
    MaxFrames = 2
    MaxFaults = 0
    MaxInits = 1
    EngineStates = {"live"}
    Allowed <- AllowedLifeCycle
INVARIANT
    ResultIsOfOneFrame
\* The program ends after its last Stop.
CHECK_DEADLOCK FALSE
