-------------------------- MODULE DropOldestQueue --------------------------
(***************************************************************************)
(* What a MsgQueue promises its callers: each call takes effect at one     *)
(* instant, on a FIFO queue that never holds more than length_ entries and *)
(* loses only its oldest entry, and only when a push finds it full.        *)
(* MsgQueue implements this module.                                        *)
(***************************************************************************)
EXTENDS BoundedBuffer

CONSTANTS
    Threads,        \* the threads that share the queue
    Messages,       \* the values that are pushed
    NoMessage       \* "Pop returned false"

VARIABLES
    items,          \* the entries, oldest first
    taken,          \* taken[t]: what t's last Pop or WaitPop returned
    seen            \* seen[t]: the size t's last Size or Empty saw

qvars == <<items, taken, seen>>

QInit ==
    /\ items = <<>>
    /\ taken = [t \in Threads |-> NoMessage]
    /\ seen = [t \in Threads |-> 0]

Push(m) ==
    /\ items' = Pushed(items, m)
    /\ UNCHANGED <<taken, seen>>

\* The success of Pop, and every return of WaitPop.
Take(t) ==
    /\ items # <<>>
    /\ items' = Tail(items)
    /\ taken' = [taken EXCEPT ![t] = Head(items)]
    /\ UNCHANGED seen

\* Pop may fail only at an instant at which the queue is empty.
Fail(t) ==
    /\ items = <<>>
    /\ taken' = [taken EXCEPT ![t] = NoMessage]
    /\ UNCHANGED <<items, seen>>

Observe(t) ==
    /\ seen' = [seen EXCEPT ![t] = Len(items)]
    /\ UNCHANGED <<items, taken>>

Clear ==
    /\ items' = <<>>
    /\ UNCHANGED <<taken, seen>>

QNext ==
    \/ \E m \in Messages : Push(m)
    \/ \E t \in Threads : Take(t) \/ Fail(t) \/ Observe(t)
    \/ Clear

QSpec == QInit /\ [][QNext]_qvars
=============================================================================
