\* Four frames through queues of two entries, so that two may wait and evict the
\* first while it waits; two lines, so that every copy and every drawing can
\* be interrupted in the middle.
SPECIFICATION Spec
CONSTANTS
    Length = 2
    Height = 2
    MaxFrames = 4
INVARIANTS
    ResultsFitPictures
    OwnPicture
    CallersPictureKept
    FilesFitResults
\* The program hands in no more frames, and both workers find nothing to do.
CHECK_DEADLOCK FALSE
