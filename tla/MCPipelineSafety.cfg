\* The life cycle, twice over, with up to two failing CUDA or TensorRT calls.
\* Queues of two entries overflow before the fifth frame is handed in.
SPECIFICATION Spec
CONSTANTS
    Length = 2
    MaxFrames = 5
    MaxFaults = 2
    MaxInits = 2
    EngineStates = {"live"}
    Allowed <- AllowedLifeCycle
INVARIANTS
    TypeOK
    NoUseAfterFree
    NothingVanishes
    StopDrains
    FreshBoxes
    NoWaitInVain
PROPERTIES
    ImplementsFrameChannel
\* The program ends after its last Stop.
CHECK_DEADLOCK FALSE
