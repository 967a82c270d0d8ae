\* Three threads share a queue of two entries and make five calls between
\* them: two of them can sleep in WaitPop, or hold the queue full, while the
\* third runs.
SPECIFICATION FairSpec
CONSTANTS
    Length = 2
    Threads = {t1, t2, t3}
    Messages = {m1, m2}
    NoThread = NoThread
    NoMessage = NoMessage
    MaxCalls = 5
INVARIANTS
    LockDiscipline
    NoLostWakeup
PROPERTIES
    ImplementsDropOldestQueue
    Quiescent
\* Threads sleep in WaitPop, or have used up their calls.
CHECK_DEADLOCK FALSE
