\* All vectors of up to three boxes, and all orders of equal confidences.
SPECIFICATION NmsSpec
CONSTANTS
    Boxes <- Strips
    MaxBoxes = 3
    NmsThreshold = 60
INVARIANTS
    EveryBoxAccounted
    ResultIsGreedy
\* The computation ends.
CHECK_DEADLOCK FALSE
