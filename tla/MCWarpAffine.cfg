\* Two pictures, one after the other, through buffers for a picture of four by
\* two and an input of two by three; blocks that do not divide it.
SPECIFICATION Spec
CONSTANTS
    Pictures <- Sizes
    SrcW = 4
    SrcH = 2
    DstW = 2
    DstH = 3
    MaxBatch = 2
    MaxPictures = 2
    Grey = Grey
    NaN = NaN
    Garbage = Garbage
    BlockSide = 2
    BlockDepth = 4
INVARIANTS
    ImageComplete
    CentresAgree
PROPERTIES
    OverrunExplained
\* The program runs out of pictures.
CHECK_DEADLOCK FALSE
