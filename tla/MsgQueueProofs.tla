--------------------------- MODULE MsgQueueProofs ---------------------------
(***************************************************************************)
(* Theorems about MsgQueue for every number of threads, every set of       *)
(* messages, every length and every bound on the calls.                    *)
(***************************************************************************)
EXTENDS MsgQueue, FiniteSetTheorems, SequenceTheorems, TLAPS

\* The constructor's std::max makes room for at least one entry.
LEMMA LengthType == length_ \in Nat /\ length_ >= 1
BY LengthAssumption DEF length_

\* What Tail and Head do to a nonempty queue.
LEMMA TailFacts ==
    ASSUME NEW S, NEW q \in Seq(S), q # <<>>
    PROVE  /\ Tail(q) \in Seq(S)
           /\ Len(Tail(q)) = Len(q) - 1
           /\ Head(q) \in S
           /\ Len(q) \in Nat \ {0}
OBVIOUS

-----------------------------------------------------------------------------
\* Every variable keeps its type.
LEMMA TypeInductive == TypeOK /\ [Next]_vars => TypeOK'
<1> SUFFICES ASSUME TypeOK, [Next]_vars PROVE TypeOK'
  OBVIOUS
<1> USE DEF TypeOK, GoTo, Lock, Unlock, Holding, Locations, data
<1>1. ASSUME NEW t \in Threads, Call(t) PROVE TypeOK'
  <2>1. calls' \in 0 .. MaxCalls
    BY <1>1, MaxCallsAssumption DEF Call
  <2>2. pc' \in [Threads -> Locations] /\ arg' \in [Threads -> Messages]
    BY <1>1 DEF Call
  <2> QED
    BY <1>1, <2>1, <2>2 DEF Call
<1>2. ASSUME NEW t \in Threads, PushLock(t) \/ PopLock(t) \/ WaitLock(t)
                                    \/ ClearLock(t) \/ ReadLock(t)
      PROVE  TypeOK'
  BY <1>2 DEF PushLock, PopLock, WaitLock, ClearLock, ReadLock
<1>3. ASSUME NEW t \in Threads, PushAppend(t) PROVE TypeOK'
  BY <1>3 DEF PushAppend
<1>4. ASSUME NEW t \in Threads, PushTrim(t) PROVE TypeOK'
  <2>1. queue_ # <<>>
    BY <1>4, LengthType DEF PushTrim
  <2> QED
    BY <1>4, <2>1, TailFacts DEF PushTrim
<1>5. ASSUME NEW t \in Threads, PushUnlock(t) \/ PopEmpty(t) \/ WaitSleep(t)
                                    \/ ClearUnlock(t)
      PROVE  TypeOK'
  BY <1>5 DEF PushUnlock, PopEmpty, WaitSleep, ClearUnlock
<1>6. ASSUME NEW t \in Threads, PushNotify(t) PROVE TypeOK'
  BY <1>6 DEF PushNotify, Sleeping
<1>7. ASSUME NEW t \in Threads, PopTake(t) \/ WaitTake(t) PROVE TypeOK'
  <2>1. Tail(queue_) \in Seq(Messages) /\ Head(queue_) \in Messages
    BY <1>7, TailFacts DEF PopTake, WaitTake, TakeHead
  <2> QED
    BY <1>7, <2>1 DEF PopTake, WaitTake, TakeHead
<1>8. ASSUME NEW t \in Threads, ClearPop(t) PROVE TypeOK'
  BY <1>8, TailFacts DEF ClearPop
<1>9. ASSUME NEW t \in Threads, ReadReturn(t) PROVE TypeOK'
  BY <1>9 DEF ReadReturn
<1>10. ASSUME NEW t \in Threads, SpuriousWake(t) PROVE TypeOK'
  <2>1. calls' \in 0 .. MaxCalls
    BY <1>10, MaxCallsAssumption DEF SpuriousWake
  <2> QED
    BY <1>10, <2>1 DEF SpuriousWake
<1>11. CASE UNCHANGED vars
  BY <1>11 DEF vars
<1> QED
  BY <1>1, <1>2, <1>3, <1>4, <1>5, <1>6, <1>7, <1>8, <1>9, <1>10, <1>11
  DEF Next, Step

\* A thread is inside a critical section if and only if it holds mutex_.
LEMMA LockInductive ==
    TypeOK /\ LockDiscipline /\ [Next]_vars => LockDiscipline'
<1> SUFFICES ASSUME TypeOK, LockDiscipline, [Next]_vars
             PROVE  LockDiscipline'
  OBVIOUS
<1> USE ThreadsAssumption DEF TypeOK, LockDiscipline, GoTo, Holding
<1>1. ASSUME NEW t \in Threads, Call(t) \/ SpuriousWake(t)
      PROVE  LockDiscipline'
  BY <1>1 DEF Call, SpuriousWake
<1>2. ASSUME NEW t \in Threads, PushLock(t) \/ PopLock(t) \/ WaitLock(t)
                                    \/ ClearLock(t) \/ ReadLock(t)
      PROVE  LockDiscipline'
  BY <1>2 DEF PushLock, PopLock, WaitLock, ClearLock, ReadLock, Lock
<1>3. ASSUME NEW t \in Threads, PushAppend(t) \/ PushTrim(t) \/ ClearPop(t)
      PROVE  LockDiscipline'
  BY <1>3 DEF PushAppend, PushTrim, ClearPop
<1>4. ASSUME NEW t \in Threads, PushUnlock(t) \/ PopEmpty(t) \/ PopTake(t)
                                    \/ WaitSleep(t) \/ WaitTake(t)
                                    \/ ClearUnlock(t) \/ ReadReturn(t)
      PROVE  LockDiscipline'
  BY <1>4 DEF PushUnlock, PopEmpty, PopTake, WaitSleep, WaitTake,
              ClearUnlock, ReadReturn, Unlock
<1>5. ASSUME NEW t \in Threads, PushNotify(t) PROVE LockDiscipline'
  BY <1>5 DEF PushNotify, Sleeping
<1>6. CASE UNCHANGED vars
  BY <1>6 DEF vars
<1> QED
  BY <1>1, <1>2, <1>3, <1>4, <1>5, <1>6 DEF Next, Step

\* The queue is over its limit by at most one entry, inside Push.
LEMMA BoundInductive ==
    TypeOK /\ LockDiscipline /\ Bounded /\ [Next]_vars => Bounded'
<1> SUFFICES ASSUME TypeOK, LockDiscipline, Bounded, [Next]_vars
             PROVE  Bounded'
  OBVIOUS
<1> USE LengthType DEF TypeOK, Bounded, GoTo
<1>1. ASSUME UNCHANGED queue_,
             \A t \in Threads : pc[t] = "push.trim" => pc'[t] = "push.trim"
      PROVE  Bounded'
  BY <1>1
<1>2. ASSUME NEW t \in Threads, Call(t) \/ SpuriousWake(t) PROVE Bounded'
  <2>1. UNCHANGED queue_ /\ pc[t] # "push.trim"
    BY <1>2 DEF Call, SpuriousWake, data
  <2>2. \A u \in Threads \ {t} : pc'[u] = pc[u]
    BY <1>2 DEF Call, SpuriousWake
  <2> QED
    BY <1>1, <2>1, <2>2
<1>3. ASSUME NEW t \in Threads, PushLock(t) \/ PopLock(t) \/ WaitLock(t)
                                    \/ ClearLock(t) \/ ReadLock(t)
      PROVE  Bounded'
  <2>1. UNCHANGED queue_ /\ pc[t] # "push.trim"
    BY <1>3 DEF PushLock, PopLock, WaitLock, ClearLock, ReadLock, Lock, data
  <2>2. \A u \in Threads \ {t} : pc'[u] = pc[u]
    BY <1>3 DEF PushLock, PopLock, WaitLock, ClearLock, ReadLock, Lock
  <2> QED
    BY <1>1, <2>1, <2>2
<1>4. ASSUME NEW t \in Threads, PushAppend(t) PROVE Bounded'
  <2>1. ~ \E u \in Threads : pc[u] = "push.trim"
    BY <1>4 DEF PushAppend, LockDiscipline, Holding
  <2>2. Len(queue_) <= length_
    BY <2>1
  <2>3. Len(queue_') = Len(queue_) + 1
    BY <1>4 DEF PushAppend
  <2>4. pc'[t] = "push.trim"
    BY <1>4 DEF PushAppend
  <2> QED
    BY <2>2, <2>3, <2>4
<1>5. ASSUME NEW t \in Threads, PushTrim(t) PROVE Bounded'
  <2>1. Len(queue_') = Len(queue_) - 1
    BY <1>5, TailFacts DEF PushTrim
  <2> QED
    BY <1>5, <2>1 DEF PushTrim
<1>6. ASSUME NEW t \in Threads, PushUnlock(t) PROVE Bounded'
  BY <1>6 DEF PushUnlock, Unlock, data
<1>7. ASSUME NEW t \in Threads, PopTake(t) \/ WaitTake(t) \/ ClearPop(t)
      PROVE  Bounded'
  <2>1. Len(queue_') = Len(queue_) - 1
    BY <1>7, TailFacts DEF PopTake, WaitTake, ClearPop, TakeHead
  <2> QED
    BY <2>1
<1>8. ASSUME NEW t \in Threads, PopEmpty(t) \/ WaitSleep(t)
                                    \/ ClearUnlock(t) \/ ReadReturn(t)
      PROVE  Bounded'
  BY <1>1, <1>8 DEF PopEmpty, WaitSleep, ClearUnlock, ReadReturn, Unlock, data
<1>9. ASSUME NEW t \in Threads, PushNotify(t) PROVE Bounded'
  <2>1. \A u \in Threads : pc[u] = "push.trim" => pc'[u] = "push.trim"
    BY <1>9 DEF PushNotify, Sleeping
  <2> QED
    BY <1>1, <1>9, <2>1 DEF PushNotify, data
<1>10. CASE UNCHANGED vars
  BY <1>10, <1>1 DEF vars
<1> QED
  BY <1>2, <1>3, <1>4, <1>5, <1>6, <1>7, <1>8, <1>9, <1>10 DEF Next, Step

Safe == TypeOK /\ LockDiscipline /\ Bounded

LEMMA InitSafe == Init => Safe
BY LengthType, ThreadsAssumption, MaxCallsAssumption
DEF Init, Safe, TypeOK, LockDiscipline, Bounded, Holding, Locations

LEMMA SpecSafe == Spec => []Safe
<1>1. Safe /\ [Next]_vars => Safe'
  BY TypeInductive, LockInductive, BoundInductive DEF Safe
<1> QED
  BY <1>1, InitSafe, PTL DEF Spec

\* Every reachable state is well typed.
THEOREM TypeCorrect == Spec => []TypeOK
BY SpecSafe, PTL DEF Safe

\* The mutex protects every access to the queue, and no call returns with
\* the mutex held.
THEOREM MutualExclusion == Spec => []LockDiscipline
BY SpecSafe, PTL DEF Safe

\* No thread but the one inside Push ever finds more than length_ entries.
THEOREM BoundedQueue == Spec => []Bounded
BY SpecSafe, PTL DEF Safe

-----------------------------------------------------------------------------
\* The threads that NoLostWakeup counts are finitely many, and the count
\* follows them as they come and go.
LEMMA PendingFinite ==
    ASSUME TypeOK
    PROVE  /\ IsFiniteSet(Pending)
           /\ Cardinality(Pending) \in Nat
BY ThreadsAssumption, FS_Subset, FS_CardinalityType DEF Pending

\* While someone sleeps, every queued entry is still to be announced or has a
\* waiter on its way.
LEMMA WakeupInductive ==
    TypeOK /\ TypeOK' /\ NoLostWakeup /\ [Next]_vars => NoLostWakeup'
<1> SUFFICES ASSUME TypeOK, TypeOK', NoLostWakeup, [Next]_vars,
                    Sleeping' # {}
             PROVE  Len(queue_') <= Cardinality(Pending')
  BY DEF NoLostWakeup
<1> DEFINE n == Cardinality(Pending)
           len == Len(queue_)
<1>a. /\ IsFiniteSet(Pending) /\ n \in Nat
      /\ IsFiniteSet(Pending') /\ n' \in Nat
      /\ len \in Nat /\ len' \in Nat
  <2>1. IsFiniteSet(Pending) /\ n \in Nat
    BY PendingFinite
  <2>2. IsFiniteSet(Pending') /\ n' \in Nat
    BY ThreadsAssumption, FS_Subset, FS_CardinalityType DEF Pending, TypeOK
  <2> QED
    BY <2>1, <2>2 DEF TypeOK
<1>b. Sleeping # {} => len <= n
  BY DEF NoLostWakeup
<1>c. ASSUME Sleeping # {}, len' <= len, Pending \subseteq Pending'
      PROVE  len' <= n'
  <2>1. n <= n'
    BY <1>a, <1>c, FS_Subset
  <2> HIDE DEF n, len
  <2> QED
    BY <1>a, <1>b, <1>c, <2>1
<1>d. ASSUME Sleeping # {}, NEW t \in Threads, t \in Pending,
             Pending' = Pending \ {t}, len' = len - 1
      PROVE  len' <= n'
  <2>1. n' = n - 1
    BY <1>a, <1>d, FS_RemoveElement
  <2> HIDE DEF n, len
  <2> QED
    BY <1>a, <1>b, <1>d, <2>1
<1> USE DEF TypeOK, GoTo, Sleeping, Pending
<1>1. ASSUME NEW t \in Threads, Call(t) PROVE len' <= n'
  <2>1. queue_' = queue_ /\ Sleeping' = Sleeping /\ Pending \subseteq Pending'
    BY <1>1 DEF Call, data
  <2> QED
    BY <1>c, <2>1, <1>a
<1>2. ASSUME NEW t \in Threads, SpuriousWake(t) PROVE len' <= n'
  <2>1. /\ queue_' = queue_ /\ Sleeping # {}
        /\ Pending \subseteq Pending'
    BY <1>2 DEF SpuriousWake, data
  <2> QED
    BY <1>c, <2>1, <1>a
<1>3. ASSUME NEW t \in Threads, PushLock(t) \/ PopLock(t) \/ WaitLock(t)
                                    \/ ClearLock(t) \/ ReadLock(t)
      PROVE  len' <= n'
  <2>1. queue_' = queue_ /\ Sleeping' = Sleeping /\ Pending \subseteq Pending'
    BY <1>3 DEF PushLock, PopLock, WaitLock, ClearLock, ReadLock, Lock, data
  <2> QED
    BY <1>c, <2>1, <1>a
<1>4. ASSUME NEW t \in Threads, PushAppend(t) PROVE len' <= n'
  <2>1. /\ len' = len + 1 /\ Sleeping' = Sleeping
        /\ t \notin Pending /\ Pending' = Pending \cup {t}
    BY <1>4 DEF PushAppend
  <2>2. n' = n + 1
    <3> HIDE DEF Pending
    <3> QED
      BY <1>a, <2>1, FS_AddElement
  <2> HIDE DEF n, len
  <2> QED
    BY <1>a, <1>b, <2>1, <2>2
<1>5. ASSUME NEW t \in Threads, PushTrim(t) \/ ClearPop(t) PROVE len' <= n'
  <2>1. UNCHANGED pc /\ len' = len - 1
    BY <1>5, TailFacts, LengthType DEF PushTrim, ClearPop
  <2> QED
    BY <1>a, <1>c, <2>1
<1>6. ASSUME NEW t \in Threads, PushUnlock(t) PROVE len' <= n'
  <2>1. queue_' = queue_ /\ Sleeping' = Sleeping /\ Pending \subseteq Pending'
    BY <1>6 DEF PushUnlock, Unlock, data
  <2> QED
    BY <1>c, <2>1, <1>a
<1>7. ASSUME NEW t \in Threads, PushNotify(t) PROVE len' <= n'
  <2>1. CASE Sleeping = {}
    <3>1. Sleeping' = {}
      BY <1>7, <2>1 DEF PushNotify
    <3> QED
      BY <3>1
  <2>2. CASE Sleeping # {}
    <3>1. PICK w \in Sleeping :
             pc' = [pc EXCEPT ![t] = "idle", ![w] = "wait.lock"]
      BY <1>7, <2>2 DEF PushNotify
    <3>2. /\ t \in Pending /\ w \notin Pending
          /\ Pending' = (Pending \ {t}) \cup {w}
      BY <1>7, <3>1 DEF PushNotify
    <3> HIDE DEF Pending
    <3>3. IsFiniteSet(Pending \ {t}) /\ Cardinality(Pending \ {t}) = n - 1
      BY <1>a, <3>2, FS_RemoveElement
    <3>4. n' = n - 1 + 1
      BY <3>2, <3>3, FS_AddElement
    <3>5. queue_' = queue_
      BY <1>7 DEF PushNotify, data
    <3> HIDE DEF n
    <3> QED
      BY <1>a, <1>b, <2>2, <3>4, <3>5
  <2> QED
    BY <2>1, <2>2
<1>8. ASSUME NEW t \in Threads, PopEmpty(t) \/ ClearUnlock(t) \/ ReadReturn(t)
      PROVE  len' <= n'
  <2>1. queue_' = queue_ /\ Sleeping' = Sleeping /\ Pending \subseteq Pending'
    BY <1>8 DEF PopEmpty, ClearUnlock, ReadReturn, Unlock, data
  <2> QED
    BY <1>c, <2>1, <1>a
<1>9. ASSUME NEW t \in Threads, PopTake(t) PROVE len' <= n'
  <2>1. /\ len' = len - 1 /\ Sleeping' = Sleeping
        /\ Pending \subseteq Pending'
    BY <1>9, TailFacts DEF PopTake, TakeHead, Unlock
  <2> QED
    BY <1>c, <2>1, <1>a
<1>10. ASSUME NEW t \in Threads, WaitTake(t) PROVE len' <= n'
  <2>1. /\ Sleeping' = Sleeping
        /\ t \in Pending /\ Pending' = Pending \ {t}
    BY <1>10 DEF WaitTake, Unlock
  <2>2. len' = len - 1
    BY <1>10, TailFacts DEF WaitTake, TakeHead
  <2> QED
    BY <1>d, <2>1, <2>2
<1>11. ASSUME NEW t \in Threads, WaitSleep(t) PROVE len' <= n'
  <2>1. len' = 0
    BY <1>11 DEF WaitSleep, data
  <2> QED
    BY <1>a, <2>1
<1>12. CASE UNCHANGED vars
  <2>1. queue_' = queue_ /\ Sleeping' = Sleeping /\ Pending \subseteq Pending'
    BY <1>12 DEF vars
  <2> QED
    BY <1>c, <2>1, <1>a
<1> QED
  BY <1>1, <1>2, <1>3, <1>4, <1>5, <1>6, <1>7, <1>8, <1>9, <1>10, <1>11,
     <1>12
  DEF Next, Step

\* No push leaves a waiter asleep beside an entry nobody will test for,
\* although it notifies one waiter only and after releasing the mutex.
THEOREM NoWakeupIsLost == Spec => []NoLostWakeup
<1>1. Init => NoLostWakeup
  BY DEF Init, NoLostWakeup, Sleeping
<1> QED
  BY <1>1, WakeupInductive, TypeCorrect, PTL DEF Spec

-----------------------------------------------------------------------------
\* Each step of the queue is a step of the abstract one or leaves it alone.
LEMMA StepRefines == Safe /\ [Next]_vars => [Abstract!QNext]_Abstract!qvars
<1> SUFFICES ASSUME Safe, [Next]_vars
             PROVE  Abstract!QNext \/ UNCHANGED Abstract!qvars
  OBVIOUS
<1> USE LengthType
        DEF Safe, TypeOK, GoTo, Lock, Unlock, data, VisibleItems,
            Abstract!QNext, Abstract!qvars
<1>a. \A t, u \in Threads :
         pc[t] \in Holding /\ pc[u] \in Holding => t = u
  BY ThreadsAssumption DEF LockDiscipline
<1>b. ASSUME NEW t \in Threads, pc[t] \in Holding \ {"push.trim", "clear.pop"}
      PROVE  Len(queue_) <= length_ /\ VisibleItems = queue_
  <2>1. \A u \in Threads : pc[u] \notin {"push.trim", "clear.pop"}
    BY <1>a, <1>b DEF Holding
  <2> QED
    BY <2>1 DEF Bounded
<1>1. ASSUME NEW t \in Threads, Call(t) \/ SpuriousWake(t)
      PROVE  UNCHANGED Abstract!qvars
  BY <1>1 DEF Call, SpuriousWake
<1>2. ASSUME NEW t \in Threads, PushLock(t) \/ PopLock(t) \/ WaitLock(t)
                                    \/ ReadLock(t)
      PROVE  UNCHANGED Abstract!qvars
  BY <1>2 DEF PushLock, PopLock, WaitLock, ReadLock
<1>3. ASSUME NEW t \in Threads, ClearLock(t) PROVE Abstract!QNext
  <2>1. VisibleItems' = <<>>
    BY <1>3 DEF ClearLock
  <2> QED
    BY <1>3, <2>1 DEF ClearLock, Abstract!Clear
<1>4. ASSUME NEW t \in Threads, PushAppend(t) PROVE Abstract!QNext
  <2>1. Len(queue_) <= length_ /\ VisibleItems = queue_
    BY <1>4, <1>b DEF PushAppend, Holding
  <2>2. \A u \in Threads : pc'[u] # "clear.pop"
    BY <1>4, <1>a DEF PushAppend, Holding
  <2>3. VisibleItems' = Pushed(VisibleItems, arg[t])
    <3>1. CASE Len(queue_) < length_
      BY <1>4, <2>1, <2>2, <3>1 DEF PushAppend, Pushed
    <3>2. CASE Len(queue_) = length_
      <4>1. Tail(Append(queue_, arg[t])) = Append(Tail(queue_), arg[t])
        BY <3>2
      <4> QED
        BY <1>4, <2>1, <2>2, <3>2, <4>1 DEF PushAppend, Pushed
    <3> QED
      BY <2>1, <3>1, <3>2
  <2> QED
    BY <1>4, <2>3 DEF PushAppend, Abstract!Push, Abstract!Pushed, Pushed,
                      Abstract!length_, length_
<1>5. ASSUME NEW t \in Threads, PushTrim(t) PROVE UNCHANGED Abstract!qvars
  <2>1. Len(queue_') = Len(queue_) - 1
    BY <1>5, TailFacts DEF PushTrim
  <2>2. \A u \in Threads : pc[u] # "clear.pop"
    BY <1>5, <1>a DEF PushTrim, Holding
  <2> QED
    BY <1>5, <2>1, <2>2 DEF PushTrim, Bounded
<1>6. ASSUME NEW t \in Threads, PushUnlock(t) PROVE UNCHANGED Abstract!qvars
  BY <1>6 DEF PushUnlock
<1>7. ASSUME NEW t \in Threads, PushNotify(t) PROVE UNCHANGED Abstract!qvars
  <2>1. \A u \in Threads : pc'[u] = "clear.pop" <=> pc[u] = "clear.pop"
    BY <1>7 DEF PushNotify, Sleeping
  <2> QED
    BY <1>7, <2>1 DEF PushNotify
<1>8. ASSUME NEW t \in Threads, PopEmpty(t) PROVE Abstract!QNext
  <2>1. VisibleItems = <<>> /\ VisibleItems' = VisibleItems
    BY <1>8, <1>b DEF PopEmpty, Holding
  <2> QED
    BY <1>8, <2>1 DEF PopEmpty, Abstract!Fail
<1>9. ASSUME NEW t \in Threads, PopTake(t) \/ WaitTake(t)
      PROVE  Abstract!QNext
  <2>1. Len(queue_) <= length_ /\ VisibleItems = queue_
    BY <1>9, <1>b DEF PopTake, WaitTake, Holding
  <2>2. \A u \in Threads : pc'[u] # "clear.pop"
    BY <1>9, <1>a DEF PopTake, WaitTake, Holding
  <2>3. Len(Tail(queue_)) = Len(queue_) - 1 /\ Len(queue_) \in Nat
    BY <1>9, TailFacts DEF PopTake, WaitTake, TakeHead
  <2>4. queue_' = Tail(queue_)
    BY <1>9 DEF PopTake, WaitTake, TakeHead
  <2>5. VisibleItems' = Tail(VisibleItems)
    <3>1. Len(queue_') <= length_
      BY <2>1, <2>3, <2>4
    <3>2. VisibleItems' = queue_'
      BY <2>2, <3>1
    <3> QED
      BY <2>1, <2>4, <3>2 DEF VisibleItems
  <2>6. VisibleItems # <<>>
    BY <1>9, <2>1 DEF PopTake, WaitTake, TakeHead
  <2> HIDE DEF VisibleItems
  <2> QED
    BY <1>9, <2>1, <2>5, <2>6 DEF PopTake, WaitTake, TakeHead, Abstract!Take
<1>10. ASSUME NEW t \in Threads, WaitSleep(t) PROVE UNCHANGED Abstract!qvars
  BY <1>10 DEF WaitSleep
<1>11. ASSUME NEW t \in Threads, ClearPop(t) PROVE UNCHANGED Abstract!qvars
  BY <1>11 DEF ClearPop
<1>12. ASSUME NEW t \in Threads, ClearUnlock(t)
       PROVE  UNCHANGED Abstract!qvars
  BY <1>12 DEF ClearUnlock
<1>13. ASSUME NEW t \in Threads, ReadReturn(t) PROVE Abstract!QNext
  <2>1. VisibleItems = queue_ /\ VisibleItems' = VisibleItems
    BY <1>13, <1>b DEF ReadReturn, Holding
  <2> QED
    BY <1>13, <2>1 DEF ReadReturn, Abstract!Observe
<1>14. CASE UNCHANGED vars
  BY <1>14 DEF vars
<1> QED
  BY <1>1, <1>2, <1>3, <1>4, <1>5, <1>6, <1>7, <1>8, <1>9, <1>10, <1>11,
     <1>12, <1>13, <1>14
  DEF Next, Step

\* The queue with its lock, its trimming loop and its condition variable
\* behaves as the drop-oldest queue its callers are told about.
THEOREM Refinement == Spec => ImplementsDropOldestQueue
<1>1. Init => Abstract!QInit
  BY DEF Init, Abstract!QInit, VisibleItems
<1> QED
  BY <1>1, StepRefines, SpecSafe, PTL
  DEF Spec, ImplementsDropOldestQueue, Abstract!QSpec
=============================================================================
