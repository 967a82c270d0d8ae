------------------------------ MODULE MsgQueue ------------------------------
(***************************************************************************)
(* The class template MsgQueue<T> of common/utils/std_buffer.h, at the     *)
(* granularity of its mutex and condition variable.  Any thread may call   *)
(* any operation.  Between the acquisition and the release of mutex_ every *)
(* access to queue_ is a step of its own, and Push notifies after it has   *)
(* released the mutex, so that other threads run in between.               *)
(*                                                                         *)
(* pc[t] is where t is: "idle" outside every call; "x.lock" waiting for    *)
(* mutex_ at the head of call x; "wait.sleep" blocked in condition_.wait.  *)
(***************************************************************************)
EXTENDS BoundedBuffer, FiniteSets

CONSTANTS Threads, Messages,
          NoThread,     \* mutex_ is free
          NoMessage,    \* Pop returned false
          MaxCalls      \* bound: calls begun and spurious wake-ups

ASSUME ThreadsAssumption == IsFiniteSet(Threads) /\ NoThread \notin Threads
ASSUME MaxCallsAssumption == MaxCalls \in Nat

VARIABLES queue_, mutex_,
          pc,           \* pc[t]: where thread t is
          arg,          \* arg[t]: the message t pushes, or pushed last
          taken,        \* taken[t]: what t's last Pop or WaitPop returned
          seen,         \* seen[t]: the size t's last Size or Empty saw
          calls         \* calls begun and spurious wake-ups so far

data == <<queue_, arg, taken, seen>>
vars == <<queue_, mutex_, pc, arg, taken, seen, calls>>

\* Where a thread is inside a critical section.
Holding == {"push.append", "push.trim", "pop.take", "wait.check",
            "clear.pop", "read.return"}
Locations == Holding \cup
    {"idle", "push.lock", "push.notify", "pop.lock", "wait.lock",
     "wait.sleep", "clear.lock", "read.lock"}

Init ==
    /\ queue_ = <<>>
    /\ mutex_ = NoThread
    /\ pc = [t \in Threads |-> "idle"]
    /\ arg \in [Threads -> Messages]
    /\ taken = [t \in Threads |-> NoMessage]
    /\ seen = [t \in Threads |-> 0]
    /\ calls = 0

GoTo(t, from, to) == pc[t] = from /\ pc' = [pc EXCEPT ![t] = to]

\* std::unique_lock / std::lock_guard, and the end of its scope.
Lock(t, from, to) ==
    /\ GoTo(t, from, to)
    /\ mutex_ = NoThread
    /\ mutex_' = t
    /\ UNCHANGED <<data, calls>>

Unlock(t, from, to) == GoTo(t, from, to) /\ mutex_' = NoThread

-----------------------------------------------------------------------------
\* A thread begins one of the five calls.  Size and Empty differ only in
\* what they make of the size: both are "read".
Call(t) ==
    /\ calls < MaxCalls
    /\ calls' = calls + 1
    /\ \/ /\ \E m \in Messages : arg' = [arg EXCEPT ![t] = m]
          /\ GoTo(t, "idle", "push.lock")
       \/ /\ \E to \in {"pop.lock", "wait.lock", "clear.lock", "read.lock"} :
                GoTo(t, "idle", to)
          /\ UNCHANGED arg
    /\ UNCHANGED <<queue_, mutex_, taken, seen>>

\* Push: the entry goes in first, so that a full queue is over its limit
\* until the loop has run.
PushLock(t) == Lock(t, "push.lock", "push.append")

PushAppend(t) ==
    /\ GoTo(t, "push.append", "push.trim")
    /\ queue_' = Append(queue_, arg[t])
    /\ UNCHANGED <<mutex_, arg, taken, seen, calls>>

PushTrimNewest(t) ==            \* mutant: the wrong end of the queue is popped
    /\ pc[t] = "push.trim"
    /\ Len(queue_) > length_
    /\ queue_' = SubSeq(queue_, 1, Len(queue_) - 1)
    /\ UNCHANGED <<mutex_, pc, arg, taken, seen, calls>>

PushTrim(t) ==
    /\ pc[t] = "push.trim"
    /\ Len(queue_) > length_
    /\ queue_' = Tail(queue_)
    /\ UNCHANGED <<mutex_, pc, arg, taken, seen, calls>>

PushUnlock(t) ==
    /\ Len(queue_) <= length_
    /\ Unlock(t, "push.trim", "push.notify")
    /\ UNCHANGED <<data, calls>>

Sleeping == {t \in Threads : pc[t] = "wait.sleep"}

PushNotifyFirst(t) ==           \* mutant: only the first entry is announced
    /\ pc[t] = "push.notify"
    /\ IF Sleeping = {} \/ Len(queue_) # 1
       THEN pc' = [pc EXCEPT ![t] = "idle"]
       ELSE \E w \in Sleeping :
               pc' = [pc EXCEPT ![t] = "idle", ![w] = "wait.lock"]
    /\ UNCHANGED <<data, mutex_, calls>>

\* notify_one, without the mutex: wakes any one sleeper, if there is one.
PushNotify(t) ==
    /\ pc[t] = "push.notify"
    /\ \/ /\ Sleeping = {}
          /\ pc' = [pc EXCEPT ![t] = "idle"]
       \/ \E w \in Sleeping :
             pc' = [pc EXCEPT ![t] = "idle", ![w] = "wait.lock"]
    /\ UNCHANGED <<data, mutex_, calls>>

\* Pop: the early return leaves the message alone and releases the mutex.
PopLock(t) == Lock(t, "pop.lock", "pop.take")

PopEmptyLocked(t) ==            \* mutant: the early return keeps the mutex
    /\ queue_ = <<>>
    /\ GoTo(t, "pop.take", "idle")
    /\ taken' = [taken EXCEPT ![t] = NoMessage]
    /\ UNCHANGED <<queue_, mutex_, arg, seen, calls>>

PopEmpty(t) ==
    /\ queue_ = <<>>
    /\ Unlock(t, "pop.take", "idle")
    /\ taken' = [taken EXCEPT ![t] = NoMessage]
    /\ UNCHANGED <<queue_, arg, seen, calls>>

TakeHead(t) ==
    /\ queue_ # <<>>
    /\ taken' = [taken EXCEPT ![t] = Head(queue_)]
    /\ queue_' = Tail(queue_)
    /\ UNCHANGED <<arg, seen, calls>>

PopTake(t) == Unlock(t, "pop.take", "idle") /\ TakeHead(t)

\* WaitPop: condition_.wait with a predicate.  It sleeps and releases the
\* mutex in one step while the queue is empty, and takes the mutex again,
\* and tests again, after a notification or a spurious wake-up.
WaitLock(t) == Lock(t, "wait.lock", "wait.check")

WaitSleepLocked(t) ==           \* mutant: the wait keeps the mutex
    /\ queue_ = <<>>
    /\ GoTo(t, "wait.check", "wait.sleep")
    /\ UNCHANGED <<data, mutex_, calls>>

WaitSleep(t) ==
    /\ queue_ = <<>>
    /\ Unlock(t, "wait.check", "wait.sleep")
    /\ UNCHANGED <<data, calls>>

WaitTake(t) == Unlock(t, "wait.check", "idle") /\ TakeHead(t)

SpuriousWake(t) ==
    /\ calls < MaxCalls
    /\ calls' = calls + 1
    /\ GoTo(t, "wait.sleep", "wait.lock")
    /\ UNCHANGED <<data, mutex_>>

\* Clear pops until the queue is empty.
ClearLock(t) == Lock(t, "clear.lock", "clear.pop")

ClearPop(t) ==
    /\ pc[t] = "clear.pop"
    /\ queue_ # <<>>
    /\ queue_' = Tail(queue_)
    /\ UNCHANGED <<mutex_, pc, arg, taken, seen, calls>>

ClearUnlock(t) ==
    /\ queue_ = <<>>
    /\ Unlock(t, "clear.pop", "idle")
    /\ UNCHANGED <<data, calls>>

\* Size and Empty.
ReadLock(t) == Lock(t, "read.lock", "read.return")

ReadReturn(t) ==
    /\ Unlock(t, "read.return", "idle")
    /\ seen' = [seen EXCEPT ![t] = Len(queue_)]
    /\ UNCHANGED <<queue_, arg, taken, calls>>

-----------------------------------------------------------------------------
\* The steps of a thread inside a call, the involuntary wake-up left out.
Step(t) ==
    \/ PushLock(t) \/ PushAppend(t) \/ PushTrim(t) \/ PushUnlock(t)
    \/ PushNotify(t)
    \/ PopLock(t) \/ PopEmpty(t) \/ PopTake(t)
    \/ WaitLock(t) \/ WaitSleep(t) \/ WaitTake(t)
    \/ ClearLock(t) \/ ClearPop(t) \/ ClearUnlock(t)
    \/ ReadLock(t) \/ ReadReturn(t)

Next == \E t \in Threads : Call(t) \/ Step(t) \/ SpuriousWake(t)

\* The operating system runs every thread that is inside a call.  Nobody has
\* to make a call.
Fairness == \A t \in Threads : WF_vars(Step(t))

Spec == Init /\ [][Next]_vars
FairSpec == Spec /\ Fairness

-----------------------------------------------------------------------------
TypeOK ==
    /\ queue_ \in Seq(Messages)
    /\ mutex_ \in Threads \cup {NoThread}
    /\ pc \in [Threads -> Locations]
    /\ arg \in [Threads -> Messages]
    /\ taken \in [Threads -> Messages \cup {NoMessage}]
    /\ seen \in [Threads -> Nat]
    /\ calls \in 0 .. MaxCalls

\* mutex_ is held exactly by the thread that is inside a critical section:
\* no return path of a call leaves it locked, and no two threads touch
\* queue_ at once.
LockDiscipline == \A t \in Threads : pc[t] \in Holding <=> mutex_ = t

\* The queue exceeds its limit only inside Push, by one entry, until the
\* loop of that same Push has run; nobody else ever finds it over its limit.
Bounded ==
    /\ Len(queue_) <= length_ + 1
    /\ Len(queue_) > length_ => \E t \in Threads : pc[t] = "push.trim"

\* The pushes whose notification is still to come, and the waiters that are
\* on their way to test the queue.
Pending == {t \in Threads : pc[t] \in {"push.trim", "push.notify",
                                       "wait.lock", "wait.check"}}

\* No wake-up is lost although Push notifies after it has released the
\* mutex and wakes one waiter only: while some thread sleeps in WaitPop,
\* there is for every queued entry a notification to come or a waiter that
\* has been woken and has not tested the queue yet.
NoLostWakeup == Sleeping # {} => Len(queue_) <= Cardinality(Pending)

\* Under a fair scheduler every call returns, except that a WaitPop may
\* sleep for good, and then only on an empty queue.
Quiescent ==
    <>[](\A t \in Threads :
            \/ pc[t] = "idle"
            \/ pc[t] = "wait.sleep" /\ queue_ = <<>>)

\* The queue as its callers see it: a push counts from the step that appends
\* (its trimming is already done for everybody else), a Clear from the step
\* that takes the mutex.
VisibleItems ==
    IF \E t \in Threads : pc[t] = "clear.pop" THEN <<>>
    ELSE IF Len(queue_) > length_ THEN Tail(queue_)
    ELSE queue_

Abstract == INSTANCE DropOldestQueue WITH items <- VisibleItems

\* Every call takes effect at one instant on an abstract drop-oldest queue:
\* entries come out in the order they went in, Pop fails only when the queue
\* is empty, and the only entry ever discarded is the oldest one of a full
\* queue.
ImplementsDropOldestQueue == Abstract!QSpec
=============================================================================
