--------------------------- MODULE BoundedBuffer ---------------------------
(***************************************************************************)
(* The data of a MsgQueue (common/utils/std_buffer.h): a FIFO sequence of  *)
(* at most length_ entries whose push evicts from the old end.  It is what *)
(* the specification of the queue (DropOldestQueue), the lock-level model  *)
(* (MsgQueue) and the pipeline that uses two queues have in common.        *)
(***************************************************************************)
EXTENDS Integers, Sequences

CONSTANT Length     \* the argument of the constructor; it may be 0 or negative

ASSUME LengthAssumption == Length \in Int

\* MsgQueue(int length): a queue always has room for one entry.
length_ == IF Length > 1 THEN Length ELSE 1

PushedUnbounded(q, m) ==        \* mutant: nothing is ever discarded
    Append(q, m)

\* Push on a queue that holds at most length_ entries: the loop of Push pops
\* the head once when the queue was full.
Pushed(q, m) == Append(IF Len(q) < length_ THEN q ELSE Tail(q), m)
=============================================================================
