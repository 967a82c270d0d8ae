\* The model file is missing, or does not parse.
SPECIFICATION Spec
CONSTANTS
    Length = 2
    MaxFrames = 1
    MaxFaults = 0
    MaxInits = 1
    EngineStates = {"live", "wild", "void"}
    Allowed <- AllowedLifeCycle
INVARIANT
    InitMeansReady
\* The program ends after its last Stop.
CHECK_DEADLOCK FALSE
