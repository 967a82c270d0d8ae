--------------------------- MODULE GpuDecodeProofs ---------------------------
(***************************************************************************)
(* Theorems about the two decoding kernels, for any rows, thresholds, room *)
(* and block size.  Of the overlap of two boxes nothing is used but that   *)
(* the areas of their intersection and their union do not depend on the    *)
(* order of the two.                                                       *)
(***************************************************************************)
EXTENDS GpuDecode, FiniteSetTheorems, TLAPS, WellFoundedInduction

\* Enough threads are launched: the grid is rounded up.
LEMMA LaunchCovers ==
    ASSUME NEW n \in Nat \ {0} PROVE LaunchSize(n) \in Nat /\ LaunchSize(n) >= n
<1> DEFINE b == Smaller(n, BlockLimit)
           m == n + b - 1
<1>1. b \in Nat /\ b >= 1
  BY GpuAssumption DEF Smaller
<1> HIDE DEF b
<1>2. b * (m \div b) <= m /\ m < b * (m \div b) + b /\ m \div b \in Int
  BY <1>1
<1> QED
  BY <1>1, <1>2 DEF LaunchSize, b

\* The threads that are launched for n rows or slots.
Positions(n) == IF n = 0 THEN {} ELSE 0 .. LaunchSize(n) - 1

LEMMA PositionsCover ==
    ASSUME NEW n \in Nat
    PROVE  Positions(n) \subseteq Nat /\ \A k \in 0 .. n - 1 : k \in Positions(n)
<1>1. CASE n = 0
  BY <1>1 DEF Positions
<1>2. CASE n # 0
  <2>1. LaunchSize(n) \in Nat /\ LaunchSize(n) >= n
    BY <1>2, LaunchCovers
  <2> QED
    BY <1>2, <2>1 DEF Positions
<1> QED
  BY <1>1, <1>2

\* Thread p holds slot s from its atomicAdd on.
Holds(p, s) ==
    p \in DOMAIN dpc /\ dpc[p] # "start" /\ Found(p) /\ index[p] = s

\* The claims: every number below the counter is held by one thread, and no
\* other number is.
Claims ==
    /\ \A p, s : Holds(p, s) => s \in 0 .. count - 1
    /\ \A p, q, s : Holds(p, s) /\ Holds(q, s) => p = q
    /\ \A s \in 0 .. count - 1 : \E p : Holds(p, s)
    /\ \A p \in DOMAIN dpc : dpc[p] = "claimed" =>
          Found(p) /\ index[p] < max_objects /\ index[p] \notin Written

\* The writes: a slot is written when its holder has returned, with its box.
Writes ==
    /\ \A p, s : Holds(p, s) /\ dpc[p] = "returned" /\ s < max_objects
                    => s \in Written /\ slots[s] = BoxOf(predict[p + 1])
    /\ \A s \in Written : \E p : Holds(p, s) /\ dpc[p] = "returned"

\* The marks: a thread of the second kernel has marked its slot if and only if
\* there is a better box that overlaps it.
Marks ==
    /\ host # "returned" => npc = <<>>
    /\ host = "returned" => DOMAIN npc = Positions(max_objects)
    /\ \A u \in DOMAIN npc : npc[u] = "returned" =>
          /\ DecodeDone
          /\ u < Counted =>
                (u \in ignored
                    <=> \E i \in 0 .. Counted - 1 : GivenUpFor(i, u))
    /\ \A u \in ignored : u \in DOMAIN npc /\ npc[u] = "returned"

\* The first kernel has a thread for every row.
Threads ==
    /\ host = "decode" => dpc = <<>>
    /\ host \in {"nms", "returned"} => DOMAIN dpc = Positions(Len(predict))

\* A thread is launched at a position, counted from 0.
Launched == DOMAIN dpc \subseteq Nat /\ DOMAIN npc \subseteq Nat

IInv == GpuTypeOK /\ Launched /\ Threads /\ Claims /\ Writes /\ Marks

-----------------------------------------------------------------------------
LEMMA Start == Init => IInv
<1> SUFFICES ASSUME Init PROVE IInv
  OBVIOUS
<1>1. predict \in Seq(Rows)
  BY GpuAssumption DEF Init
<1>2. DOMAIN dpc = {} /\ DOMAIN npc = {} /\ Written = {} /\ count = 0
  BY DEF Init, Written
<1>3. GpuTypeOK
  BY <1>1, <1>2, GpuAssumption DEF Init, GpuTypeOK, Written
<1> QED
  BY <1>2, <1>3
  DEF Init, IInv, Launched, Threads, Claims, Writes, Marks, Holds

\* Claim, step by step: thread p gets the number the counter had.
LEMMA ClaimKeeps ==
    ASSUME IInv, NEW p \in DOMAIN dpc, Claim(p) PROVE IInv'
<1>1. /\ dpc[p] = "start" /\ Found(p) /\ count \in Nat
      /\ DOMAIN dpc' = DOMAIN dpc /\ DOMAIN index' = DOMAIN dpc
      /\ dpc'[p] = IF count >= max_objects THEN "returned" ELSE "claimed"
      /\ index'[p] = count
      /\ \A q \in DOMAIN dpc : q # p => dpc'[q] = dpc[q] /\ index'[q] = index[q]
      /\ UNCHANGED <<predict, max_objects, host, slots, ignored, npc>>
      /\ count' = count + 1
      /\ max_objects \in Nat
  BY DEF Claim, Running, IInv, GpuTypeOK
<1>2. \A q : Found(q)' <=> Found(q)
  BY <1>1 DEF Found
<1>3. \A q, s : Holds(q, s)' <=> (Holds(q, s) \/ (q = p /\ s = count))
  BY <1>1, <1>2 DEF Holds
<1>4. ~Holds(p, count) /\ \A q : ~Holds(q, count)
  BY <1>1 DEF IInv, Claims
<1>5. GpuTypeOK'
  BY <1>1 DEF IInv, GpuTypeOK, Claim, Written
<1>6. Claims'
  <2>1. \A q, s : Holds(q, s)' => s \in 0 .. count
    BY <1>1, <1>3 DEF IInv, Claims
  <2>2. \A q, r, s : Holds(q, s)' /\ Holds(r, s)' => q = r
    BY <1>3, <1>4 DEF IInv, Claims
  <2>3. ASSUME NEW s \in 0 .. count PROVE \E q : Holds(q, s)'
    <3>1. CASE s = count
      BY <1>3, <3>1
    <3>2. CASE s # count
      <4>1. PICK q : Holds(q, s)
        BY <1>1, <3>2 DEF IInv, Claims
      <4> QED
        BY <1>3, <4>1
    <3> QED
      BY <3>1, <3>2
  <2>4. \A q \in DOMAIN dpc : dpc'[q] = "claimed" =>
          Found(q) /\ index'[q] < max_objects /\ index'[q] \notin Written
    <3> SUFFICES ASSUME NEW q \in DOMAIN dpc, dpc'[q] = "claimed"
                 PROVE  Found(q) /\ index'[q] < max_objects
                            /\ index'[q] \notin Written
      OBVIOUS
    <3>1. CASE q = p
      <4>1. count \notin Written
        BY <1>4 DEF IInv, Writes
      <4> QED
        BY <1>1, <3>1, <4>1
    <3>2. CASE q # p
      BY <1>1, <3>2 DEF IInv, Claims
    <3> QED
      BY <3>1, <3>2
  <2> QED
    BY <1>1, <1>2, <2>1, <2>2, <2>3, <2>4 DEF Claims, Written
<1>7. Writes'
  <2>1. ASSUME NEW q, NEW s, Holds(q, s)', dpc'[q] = "returned",
               s < max_objects
        PROVE  s \in Written /\ slots[s] = BoxOf(predict[q + 1])
    <3>1. q # p
      BY <1>1, <2>1 DEF Holds
    <3> QED
      BY <1>1, <1>3, <2>1, <3>1 DEF IInv, Writes, Holds
  <2>2. \A s \in Written : \E q : Holds(q, s)' /\ dpc'[q] = "returned"
    <3> SUFFICES ASSUME NEW s \in Written
                 PROVE  \E q : Holds(q, s)' /\ dpc'[q] = "returned"
      OBVIOUS
    <3>1. PICK q : Holds(q, s) /\ dpc[q] = "returned"
      BY DEF IInv, Writes
    <3> QED
      BY <1>1, <1>3, <3>1 DEF Holds
  <2> QED
    BY <1>1, <2>1, <2>2 DEF Writes, Written
<1>8. ~DecodeDone
  BY <1>1 DEF DecodeDone
<1>9. Marks'
  BY <1>1, <1>8 DEF IInv, Marks
<1> QED
  BY <1>1, <1>5, <1>6, <1>7, <1>9 DEF IInv, Launched, Threads

LEMMA RejectKeeps ==
    ASSUME IInv, NEW p \in DOMAIN dpc, Reject(p) PROVE IInv'
<1>1. /\ dpc[p] = "start" /\ ~Found(p)
      /\ DOMAIN dpc' = DOMAIN dpc /\ dpc'[p] = "returned"
      /\ \A q \in DOMAIN dpc : q # p => dpc'[q] = dpc[q]
      /\ UNCHANGED <<predict, max_objects, host, index, count, slots, ignored,
                     npc>>
  BY DEF Reject, Running
<1>2. \A q : Found(q)' <=> Found(q)
  BY <1>1 DEF Found
<1>3. \A q, s : Holds(q, s)' <=> Holds(q, s)
  BY <1>1, <1>2 DEF Holds
<1>4. \A q, s : Holds(q, s) => dpc'[q] = dpc[q]
  BY <1>1 DEF Holds
<1>5. GpuTypeOK'
  BY <1>1 DEF IInv, GpuTypeOK, Reject, Written
<1>6. Claims'
  BY <1>1, <1>2, <1>3 DEF IInv, Claims, Written
<1>7. Writes'
  BY <1>1, <1>3, <1>4 DEF IInv, Writes, Written
<1>8. ~DecodeDone
  BY <1>1 DEF DecodeDone
<1>9. Marks'
  BY <1>1, <1>8 DEF IInv, Marks
<1> QED
  BY <1>1, <1>5, <1>6, <1>7, <1>9 DEF IInv, Launched, Threads

\* Write: nobody else holds the slot, and it was not written before.
LEMMA WriteKeeps ==
    ASSUME IInv, NEW p \in DOMAIN dpc, Write(p)
    PROVE  /\ IInv'
           /\ \A s \in Written : s \in Written' /\ slots'[s] = slots[s]
<1> DEFINE k == index[p]
<1>1. /\ dpc[p] = "claimed" /\ Found(p) /\ Holds(p, k)
      /\ k \in Nat /\ k < max_objects /\ k \notin Written
  BY DEF Write, IInv, Claims, Holds, GpuTypeOK
<1>2. /\ DOMAIN dpc' = DOMAIN dpc /\ dpc'[p] = "returned"
      /\ \A q \in DOMAIN dpc : q # p => dpc'[q] = dpc[q]
      /\ Written' = Written \cup {k}
      /\ slots'[k] = BoxOf(predict[p + 1])
      /\ \A s \in Written : slots'[s] = slots[s]
      /\ UNCHANGED <<predict, max_objects, host, index, count, npc>>
  BY <1>1 DEF Write, Written
<1>3. ignored' = ignored
  BY <1>1 DEF Write, IInv, GpuTypeOK
<1>4. \A q : Found(q)' <=> Found(q)
  BY <1>2 DEF Found
<1>5. \A q, s : Holds(q, s)' <=> Holds(q, s)
  BY <1>1, <1>2, <1>4 DEF Holds
<1>6. GpuTypeOK'
  BY <1>1, <1>2, <1>3 DEF IInv, GpuTypeOK, Write
<1>7. Claims'
  <2>1. ASSUME NEW q \in DOMAIN dpc, dpc'[q] = "claimed"
        PROVE  Found(q) /\ index[q] < max_objects /\ index[q] \notin Written'
    <3>1. q # p /\ dpc[q] = "claimed"
      BY <1>2, <2>1
    <3>2. Found(q) /\ index[q] < max_objects /\ index[q] \notin Written
      BY <3>1 DEF IInv, Claims
    <3>3. index[q] # k
      BY <1>1, <3>1, <3>2 DEF IInv, Claims, Holds
    <3> QED
      BY <1>2, <3>2, <3>3
  <2> QED
    BY <1>2, <1>4, <1>5, <2>1 DEF IInv, Claims
<1>8. Writes'
  <2>1. ASSUME NEW q, NEW s, Holds(q, s), dpc'[q] = "returned",
               s < max_objects
        PROVE  s \in Written' /\ slots'[s] = BoxOf(predict[q + 1])
    <3>1. CASE q = p
      BY <1>1, <1>2, <2>1, <3>1 DEF Holds
    <3>2. CASE q # p
      <4>1. dpc[q] = "returned"
        BY <1>2, <2>1, <3>2 DEF Holds
      <4>2. s \in Written /\ slots[s] = BoxOf(predict[q + 1])
        BY <2>1, <4>1 DEF IInv, Writes
      <4> QED
        BY <1>2, <4>2
    <3> QED
      BY <3>1, <3>2
  <2>2. \A s \in Written' : \E q : Holds(q, s) /\ dpc'[q] = "returned"
    <3> SUFFICES ASSUME NEW s \in Written'
                 PROVE  \E q : Holds(q, s) /\ dpc'[q] = "returned"
      OBVIOUS
    <3>1. CASE s = k
      BY <1>1, <1>2, <3>1
    <3>2. CASE s \in Written
      <4>1. PICK q : Holds(q, s) /\ dpc[q] = "returned"
        BY <3>2 DEF IInv, Writes
      <4> QED
        BY <1>1, <1>2, <4>1 DEF Holds
    <3> QED
      BY <1>2, <3>1, <3>2
  <2> QED
    BY <1>2, <1>5, <2>1, <2>2 DEF Writes
<1>9. ~DecodeDone
  BY <1>1 DEF DecodeDone
<1>10. Marks'
  BY <1>2, <1>3, <1>9 DEF IInv, Marks
<1> QED
  BY <1>2, <1>6, <1>7, <1>8, <1>10 DEF IInv, Launched, Threads

-----------------------------------------------------------------------------
LEMMA HostKeeps == ASSUME IInv, Host PROVE IInv'
<1>1. CASE LaunchDecode
  <2>1. /\ DOMAIN dpc = {} /\ DOMAIN npc = {} /\ Len(predict) \in Nat \ {0}
    BY <1>1, GpuAssumption DEF LaunchDecode, IInv, Threads, Marks, GpuTypeOK
  <2>2. count = 0
    <3>1. \A p, s : ~Holds(p, s)
      BY <2>1 DEF Holds
    <3>2. 0 \notin 0 .. count - 1 /\ count \in Nat
      BY <3>1 DEF IInv, Claims, GpuTypeOK
    <3> QED
      BY <3>2
  <2>3. Written = {} /\ ignored = {}
    BY <2>1 DEF IInv, Writes, Holds, GpuTypeOK
  <2>4. /\ DOMAIN dpc' = 0 .. LaunchSize(Len(predict)) - 1
        /\ \A p \in DOMAIN dpc' : dpc'[p] = "start"
        /\ DOMAIN index' = DOMAIN dpc' /\ LaunchSize(Len(predict)) \in Nat
        /\ host' = "nms" /\ npc' = <<>>
        /\ UNCHANGED <<predict, max_objects, count, slots, ignored>>
    BY <1>1, <2>1, LaunchCovers DEF LaunchDecode, IInv, Marks
  <2>5. GpuTypeOK'
    BY <1>1, <2>1, <2>3, <2>4 DEF LaunchDecode, IInv, GpuTypeOK, Written
  <2>6. \A p, s : ~Holds(p, s)'
    BY <2>4 DEF Holds
  <2>7. Claims' /\ Writes'
    BY <2>2, <2>3, <2>4, <2>6 DEF Claims, Writes, Written
  <2>8. Launched' /\ Marks'
    BY <2>3, <2>4 DEF Launched, Marks
  <2>9. Threads'
    BY <2>1, <2>4 DEF Threads, Positions
  <2> QED
    BY <2>5, <2>7, <2>8, <2>9 DEF IInv
<1>2. CASE LaunchNms
  <2>1. /\ max_objects \in Nat \ {0} /\ npc = <<>> /\ host = "nms"
        /\ host' = "returned"
    BY <1>2 DEF LaunchNms, IInv, GpuTypeOK, Marks
  <2>2. /\ DOMAIN npc' = 0 .. LaunchSize(max_objects) - 1
        /\ \A u \in DOMAIN npc' : npc'[u] = "start"
        /\ LaunchSize(max_objects) \in Nat
        /\ UNCHANGED <<predict, max_objects, dpc, index, count, slots, ignored>>
    BY <1>2, <2>1, LaunchCovers DEF LaunchNms
  <2>3. ignored = {}
    BY <2>1 DEF IInv, Marks
  <2>4. GpuTypeOK'
    BY <1>2, <2>1, <2>2 DEF LaunchNms, IInv, GpuTypeOK, Written
  <2>5. Claims' /\ Writes'
    BY <2>2 DEF IInv, Claims, Writes, Holds, Found, Written
  <2>6. Launched' /\ Threads' /\ Marks'
    BY <2>1, <2>2, <2>3 DEF IInv, Launched, Threads, Marks, Positions
  <2> QED
    BY <2>4, <2>5, <2>6 DEF IInv
<1>3. CASE DivisionTraps
  <2>1. /\ host # "returned" /\ host' = "crashed"
        /\ UNCHANGED <<predict, max_objects, dpc, index, count, slots, ignored,
                       npc>>
    BY <1>3 DEF DivisionTraps, NothingToLaunch
  <2>2. npc = <<>> /\ DOMAIN npc = {}
    BY <2>1 DEF IInv, Marks
  <2> QED
    BY <2>1, <2>2
    DEF IInv, GpuTypeOK, Launched, Threads, Claims, Writes, Marks, Holds,
        Found, Written
<1>4. CASE LaunchFails
  <2>1. UNCHANGED <<predict, max_objects, dpc, index, count, slots, ignored, npc>>
    BY <1>4 DEF LaunchFails
  <2>2. npc = <<>> /\ DOMAIN npc = {} /\ ignored = {}
    BY <1>4 DEF LaunchFails, NothingToLaunch, IInv, Marks
  <2>3. /\ host' \in {"nms", "returned"}
        /\ host' = "returned" => max_objects = 0
    BY <1>4 DEF LaunchFails, NothingToLaunch
  <2>4. Threads'
    <3>1. CASE host = "decode"
      <4>1. DOMAIN dpc = {} /\ Len(predict) = 0
        BY <1>4, <3>1 DEF LaunchFails, NothingToLaunch, IInv, Threads
      <4> QED
        BY <2>1, <2>3, <4>1 DEF Threads, Positions
    <3>2. CASE host = "nms"
      BY <2>1, <2>3, <3>2 DEF IInv, Threads
    <3> QED
      BY <1>4, <3>1, <3>2 DEF LaunchFails, NothingToLaunch
  <2>5. Marks'
    BY <2>1, <2>2, <2>3 DEF Marks, Positions
  <2>6. GpuTypeOK'
    BY <2>1, <2>3 DEF IInv, GpuTypeOK, Written
  <2> QED
    BY <2>1, <2>4, <2>5, <2>6
    DEF IInv, Launched, Claims, Writes, Holds, Found, Written
<1> QED
  BY <1>1, <1>2, <1>3, <1>4 DEF Host

LEMMA NmsKeeps ==
    ASSUME IInv, NEW u \in DOMAIN npc, NmsThread(u) PROVE IInv'
<1>1. /\ npc[u] = "start" /\ DecodeDone /\ u \in Nat
      /\ DOMAIN npc' = DOMAIN npc /\ npc'[u] = "returned"
      /\ \A w \in DOMAIN npc : w # u => npc'[w] = npc[w]
      /\ UNCHANGED <<predict, max_objects, host, dpc, index, count, slots>>
  BY DEF NmsThread, Skip, Mark, Looking, IInv, Launched
<1>2. /\ ignored \subseteq ignored' /\ ignored' \subseteq ignored \cup {u}
      /\ u < Counted => (u \in ignored'
                            <=> \E i \in 0 .. Counted - 1 : GivenUpFor(i, u))
      /\ u \in ignored' => u < Counted
  <2>1. u \notin ignored
    BY <1>1 DEF IInv, Marks
  <2> QED
    BY <1>1, <2>1 DEF NmsThread, Skip, Mark
<1>3. \A s : Counted \in Int /\ (s \in 0 .. Counted - 1 => s \in Written)
  <2>1. /\ Counted \in Nat /\ Counted <= count /\ Counted <= max_objects
        /\ count \in Nat /\ max_objects \in Nat
    BY DEF IInv, GpuTypeOK, Counted, Smaller
  <2>2. ASSUME NEW s \in 0 .. Counted - 1 PROVE s \in Written
    <3>1. PICK p : Holds(p, s)
      BY <2>1 DEF IInv, Claims
    <3>2. dpc[p] = "returned"
      BY <1>1, <3>1 DEF DecodeDone, Holds
    <3> QED
      BY <2>1, <3>1, <3>2 DEF IInv, Writes
  <2> QED
    BY <2>1, <2>2
<1>4. GpuTypeOK'
  <2>1. u \in ignored' => u \in Written
    BY <1>1, <1>2, <1>3
  <2>2. npc' \in [DOMAIN npc' -> {"start", "returned"}]
    BY DEF NmsThread, Skip, Mark, IInv, GpuTypeOK
  <2> QED
    BY <1>1, <1>2, <2>1, <2>2 DEF IInv, GpuTypeOK, Written
<1>5. Claims' /\ Writes'
  BY <1>1 DEF IInv, Claims, Writes, Holds, Found, Written
<1>6. Marks'
  <2>1. DecodeDone' /\ Counted' = Counted
    BY <1>1 DEF DecodeDone, Counted
  <2>2. \A i, w : GivenUpFor(i, w)' <=> GivenUpFor(i, w)
    BY <1>1 DEF GivenUpFor, Outranks
  <2>3. ASSUME NEW w \in DOMAIN npc, npc'[w] = "returned", w < Counted
        PROVE  w \in ignored' <=> \E i \in 0 .. Counted - 1 : GivenUpFor(i, w)
    BY <1>1, <1>2, <2>3 DEF IInv, Marks
  <2>4. \A w \in ignored' : w \in DOMAIN npc /\ npc'[w] = "returned"
    BY <1>1, <1>2 DEF IInv, Marks
  <2> QED
    BY <1>1, <2>1, <2>2, <2>3, <2>4 DEF IInv, Marks
<1> QED
  BY <1>1, <1>4, <1>5, <1>6 DEF IInv, Launched, Threads

LEMMA Inductive ==
    ASSUME IInv, [Next]_vars
    PROVE  /\ IInv'
           /\ \A s \in Written : s \in Written' /\ slots'[s] = slots[s]
<1>1. CASE UNCHANGED vars
  <2>1. UNCHANGED <<predict, max_objects, host, dpc, index, count, slots,
                    ignored, npc>>
    BY <1>1 DEF vars
  <2> QED
    BY <2>1
    DEF IInv, GpuTypeOK, Launched, Threads, Claims, Writes, Marks, Holds,
        Found, DecodeDone, Counted, GivenUpFor, Outranks, Written
<1>2. CASE Host
  BY <1>2, HostKeeps DEF Host, LaunchDecode, LaunchNms, DivisionTraps, LaunchFails,
                            Written
<1>3. ASSUME NEW p \in DOMAIN dpc, DecodeThread(p)
      PROVE  /\ IInv'
             /\ \A s \in Written : s \in Written' /\ slots'[s] = slots[s]
  <2>1. CASE Reject(p)
    BY <2>1, RejectKeeps DEF Reject, Written
  <2>2. CASE Claim(p)
    BY <2>2, ClaimKeeps DEF Claim, Written
  <2>3. CASE Write(p)
    BY <2>3, WriteKeeps
  <2> QED
    BY <1>3, <2>1, <2>2, <2>3 DEF DecodeThread
<1>4. ASSUME NEW u \in DOMAIN npc, NmsThread(u)
      PROVE  /\ IInv'
             /\ \A s \in Written : s \in Written' /\ slots'[s] = slots[s]
  BY <1>4, NmsKeeps DEF NmsThread, Skip, Mark, Written
<1> QED
  BY <1>1, <1>2, <1>3, <1>4 DEF Next

LEMMA Invariance == Spec => []IInv
BY Start, Inductive, PTL DEF Spec

-----------------------------------------------------------------------------
\* Every variable keeps its type; no index leads past the end of parray.
THEOREM TypeCorrect == Spec => []GpuTypeOK
<1>1. IInv => GpuTypeOK
  BY DEF IInv
<1> QED
  BY <1>1, Invariance, PTL

\* A box that is in its slot stays there: no two threads write the same slot.
THEOREM NothingOverwritten == Spec => SlotsWrittenOnce
<1>1. IInv /\ [Next]_vars =>
        [\A s \in Written : s \in Written' /\ slots'[s] = slots[s]]_vars
  BY Inductive
<1> QED
  BY <1>1, Invariance, PTL DEF Spec, SlotsWrittenOnce

\* When the second kernel begins there is a box in every slot it will read.
LEMMA CountedWritten == IInv => CountedAreWritten
<1> SUFFICES ASSUME IInv, DecodeDone, NEW s \in 0 .. Counted - 1
             PROVE  s \in Written
  BY DEF CountedAreWritten
<1>1. /\ Counted \in Nat /\ Counted <= count /\ Counted <= max_objects
      /\ count \in Nat /\ max_objects \in Nat
  BY DEF IInv, GpuTypeOK, Counted, Smaller
<1>2. PICK p : Holds(p, s)
  BY <1>1 DEF IInv, Claims
<1>3. dpc[p] = "returned"
  BY <1>2 DEF DecodeDone, Holds
<1> QED
  BY <1>1, <1>2, <1>3 DEF IInv, Writes

\* The second kernel reads no slot that was not written.
THEOREM NoGaps == Spec => []CountedAreWritten
BY CountedWritten, Invariance, PTL

-----------------------------------------------------------------------------
(***************************************************************************)
(* The boxes.                                                              *)
(***************************************************************************)

LEMMA Least ==
    ASSUME NEW T \in SUBSET Nat, T # {} PROVE \E x \in T : \A y \in T : x <= y
<1> DEFINE R == OpToRel(<, Nat)
<1>1. IsWellFoundedOn(R, Nat)
  BY NatLessThanWellFounded
<1>2. \A y, x \in Nat : y < x => <<y, x>> \in R
  BY Zenon DEF OpToRel
<1> HIDE DEF R
<1>3. \E x \in T : \A y \in T : <<y, x>> \notin R
  BY <1>1, WFMin
<1>4. \E x \in T : \A y \in T : ~(y < x)
  <2>1. PICK x \in T : \A y \in T : <<y, x>> \notin R
    BY <1>3, Zenon
  <2>2. ASSUME NEW y \in T, y < x PROVE FALSE
    BY <1>2, <2>1, <2>2, Zenon
  <2> QED
    BY <2>2
<1> QED
  BY <1>4

\* Some class is the likeliest: otherwise there is a shortest prefix of the
\* probabilities without a largest one, and it is not the first.
LEMMA SomeLargest ==
    ASSUME NEW prob \in Seq(Nat) \ {<<>>}
    PROVE  \E k \in 1 .. Len(prob) :
               \A l \in 1 .. Len(prob) : prob[l] <= prob[k]
<1> DEFINE N == Len(prob)
           Largest(n, k) == \A l \in 1 .. n : prob[l] <= prob[k]
           T == {n \in 1 .. N : ~ \E k \in 1 .. n : Largest(n, k)}
<1>1. N \in Nat \ {0} /\ \A l \in 1 .. N : prob[l] \in Nat
  OBVIOUS
<1>2. T \in SUBSET Nat
  OBVIOUS
<1>3. \A n \in 1 .. N : n \in T \/ \E k \in 1 .. n : Largest(n, k)
  OBVIOUS
<1>4. \A n \in T : n \in 1 .. N /\ \A k \in 1 .. n : ~Largest(n, k)
  OBVIOUS
<1> HIDE DEF N, T
<1>5. T = {}
  <2> SUFFICES ASSUME T # {} PROVE FALSE
    OBVIOUS
  <2>1. PICK n \in T : \A y \in T : n <= y
    BY <1>2, Least
  <2>2. n \in 1 .. N /\ \A k \in 1 .. n : ~Largest(n, k)
    BY <1>4
  <2>3. n # 1
    BY <1>1, <2>2
  <2>4. n - 1 \in 1 .. N /\ n - 1 \notin T
    BY <1>1, <2>1, <2>2, <2>3
  <2>5. PICK k \in 1 .. n - 1 : Largest(n - 1, k)
    BY <1>3, <2>4
  <2>6. N \in Int /\ n \in Int /\ k \in Int /\ k \in 1 .. n /\ n \in 1 .. n
    BY <1>1, <2>2, <2>5
  <2>7. \A l \in 1 .. n : l \in 1 .. N /\ prob[l] \in Nat
    <3>1. n <= N
      BY <1>1, <2>2
    <3>2. \A l \in 1 .. n : l \in 1 .. N
      BY <2>6, <3>1
    <3> QED
      BY <1>1, <3>2
  <2>8. \A l \in 1 .. n : l = n \/ prob[l] <= prob[k]
    BY <2>5, <2>6
  <2>9. prob[n] \in Nat /\ prob[k] \in Nat
    BY <2>6, <2>7
  <2>10. CASE prob[n] <= prob[k]
    <3>1. Largest(n, k)
      BY <2>8, <2>10
    <3> QED
      BY <2>2, <2>6, <3>1
  <2>11. CASE prob[n] > prob[k]
    <3>1. ASSUME NEW l \in 1 .. n PROVE prob[l] <= prob[n]
      <4>1. prob[l] \in Nat /\ (l = n \/ prob[l] <= prob[k])
        BY <2>7, <2>8
      <4> QED
        BY <2>9, <2>11, <4>1
    <3>2. Largest(n, n)
      BY <3>1
    <3> QED
      BY <2>2, <2>6, <3>2
  <2> QED
    BY <2>9, <2>10, <2>11
<1>6. N \in 1 .. N /\ N \notin T
  BY <1>1, <1>5
<1>7. PICK k \in 1 .. N : Largest(N, k)
  BY <1>3, <1>6
<1> QED
  BY <1>7 DEF N

\* The label is a class, the first of the likeliest.
LEMMA LabelIsClass ==
    ASSUME NEW prob \in Seq(Nat) \ {<<>>}
    PROVE  Label(prob) \in 1 .. Len(prob)
<1> DEFINE N == Len(prob)
           Largest(k) == \A l \in 1 .. N : prob[l] <= prob[k]
           T == {k \in 1 .. N : Largest(k)}
<1>1. N \in Nat /\ \A l \in 1 .. N : prob[l] \in Nat
  OBVIOUS
<1>2. T # {} /\ T \in SUBSET Nat
  <2>1. PICK k \in 1 .. N : Largest(k)
    BY SomeLargest
  <2>2. k \in T
    BY <2>1
  <2>3. T \subseteq 1 .. N /\ 1 .. N \subseteq Nat
    OBVIOUS
  <2> QED
    BY <2>2, <2>3
<1>3. \A k : k \in T <=> k \in 1 .. N /\ Largest(k)
  OBVIOUS
<1> HIDE DEF T, N
<1>4. PICK k \in T : \A y \in T : k <= y
  BY <1>2, Least
<1>5. k \in 1 .. N /\ Largest(k)
  BY <1>3
<1>6. ASSUME NEW l \in 1 .. k - 1 PROVE prob[l] < prob[k]
  <2>1. l \in 1 .. N /\ l \notin T
    BY <1>1, <1>4, <1>5
  <2>2. PICK m \in 1 .. N : ~(prob[m] <= prob[l])
    BY <1>3, <2>1
  <2>3. prob[m] \in Nat /\ prob[l] \in Nat /\ prob[k] \in Nat
    BY <1>1, <1>5, <2>1
  <2>4. prob[m] <= prob[k]
    BY <1>5
  <2> QED
    BY <2>2, <2>3, <2>4
<1>7. \E j \in 1 .. Len(prob) :
          /\ \A l \in 1 .. Len(prob) : prob[l] <= prob[j]
          /\ \A l \in 1 .. j - 1 : prob[l] < prob[j]
  BY <1>5, <1>6 DEF N
<1> QED
  BY <1>7 DEF Label

LEMMA RowsBox ==
    ASSUME NEW row \in Rows PROVE BoxOf(row) \in Box
<1>1. /\ row.cx \in Int /\ row.cy \in Int /\ row.width \in Int
      /\ row.height \in Int /\ row.objness \in Nat
      /\ row.prob \in Seq(Nat) \ {<<>>}
  BY GpuAssumption
<1>2. Label(row.prob) \in 1 .. Len(row.prob)
  BY <1>1, LabelIsClass
<1>3. row.prob[Label(row.prob)] \in Nat /\ Label(row.prob) \in Nat
  BY <1>1, <1>2
<1>4. Confidence(row) \in Nat
  BY <1>1, <1>3 DEF Confidence
<1>5. \A x, y \in Int : 2 * x - y \in Int /\ 2 * x + y \in Int
  OBVIOUS
<1>6. Confidence(row) \in Int /\ Label(row.prob) \in Int
  BY <1>3, <1>4
<1> QED
  BY <1>1, <1>5, <1>6 DEF BoxOf, Box

LEMMA SlotsHoldBoxes == ASSUME IInv PROVE \A s \in Written : slots[s] \in Box
<1> SUFFICES ASSUME NEW s \in Written PROVE slots[s] \in Box
  OBVIOUS
<1>1. PICK p : Holds(p, s) /\ dpc[p] = "returned"
  BY DEF IInv, Writes
<1>2. s < max_objects /\ p \in Nat /\ p < Len(predict)
  BY <1>1 DEF IInv, GpuTypeOK, Launched, Holds, Found
<1>3. slots[s] = BoxOf(predict[p + 1])
  BY <1>1, <1>2 DEF IInv, Writes
<1>4. predict[p + 1] \in Rows
  BY <1>2 DEF IInv, GpuTypeOK
<1> QED
  BY <1>3, <1>4, RowsBox

\* Two boxes have one intersection and one union, in whatever order.
LEMMA AreasAgree ==
    ASSUME NEW a \in Box, NEW b \in Box
    PROVE  /\ CrossArea(a, b) = CrossArea(b, a)
           /\ UnionArea(a, b) = UnionArea(b, a)
           /\ CrossArea(a, b) \in Nat /\ UnionArea(a, b) \in Int
<1>1. \A x, y \in Int : /\ Larger(x, y) = Larger(y, x)
                        /\ Smaller(x, y) = Smaller(y, x)
                        /\ Larger(x, y) \in Int /\ Smaller(x, y) \in Int
  BY DEF Larger, Smaller
<1>2. \A l, t, r, m \in Int : Area(l, t, r, m) \in Nat
  <2> SUFFICES ASSUME NEW l \in Int, NEW t \in Int, NEW r \in Int, NEW m \in Int
               PROVE  Area(l, t, r, m) \in Nat
    OBVIOUS
  <2>1. Larger(0, r - l) \in Nat /\ Larger(0, m - t) \in Nat
    BY DEF Larger
  <2> QED
    BY <2>1 DEF Area
<1>3. /\ a.left \in Int /\ a.top \in Int /\ a.right \in Int /\ a.bottom \in Int
      /\ b.left \in Int /\ b.top \in Int /\ b.right \in Int /\ b.bottom \in Int
  BY DEF Box
<1>4. CrossArea(a, b) = CrossArea(b, a) /\ CrossArea(a, b) \in Nat
  BY <1>1, <1>2, <1>3 DEF CrossArea
<1>5. /\ Area(a.left, a.top, a.right, a.bottom) \in Nat
      /\ Area(b.left, b.top, b.right, b.bottom) \in Nat
  BY <1>2, <1>3
<1> QED
  BY <1>4, <1>5 DEF UnionArea

-----------------------------------------------------------------------------
\* What is written when the first kernel is done.
LEMMA WrittenAreCounted ==
    ASSUME IInv, DecodeDone
    PROVE  /\ Counted \in Nat /\ Counted <= max_objects /\ Counted <= count
           /\ Written = 0 .. Counted - 1
<1>1. /\ Counted \in Nat /\ Counted <= max_objects /\ Counted <= count
      /\ max_objects \in Nat /\ count \in Nat
      /\ (Counted = count \/ Counted = max_objects)
  BY DEF IInv, GpuTypeOK, Counted, Smaller
<1>2. 0 .. Counted - 1 \subseteq Written
  BY CountedWritten DEF CountedAreWritten
<1>3. ASSUME NEW s \in Written PROVE s \in 0 .. Counted - 1
  <2>1. s \in 0 .. max_objects - 1
    BY DEF IInv, GpuTypeOK
  <2>2. s \in 0 .. count - 1
    BY DEF IInv, Writes, Claims
  <2> QED
    BY <1>1, <2>1, <2>2
<1> QED
  BY <1>1, <1>2, <1>3

\* What the marks say at the end.
LEMMA AtTheEnd ==
    ASSUME IInv, Finished
    PROVE  /\ Counted \in Nat /\ Kept \subseteq Written
           /\ Written = 0 .. Counted - 1
           /\ \A s \in Written :
                 s \in Kept <=> \A i \in Written : ~GivenUpFor(i, s)
<1>1. Counted \in Nat /\ Counted <= max_objects /\ max_objects \in Nat
  BY WrittenAreCounted DEF Finished, IInv, GpuTypeOK
<1>2. Written = 0 .. Counted - 1
  BY WrittenAreCounted DEF Finished
<1>3. DOMAIN npc = Positions(max_objects)
  BY DEF IInv, Marks, Finished
<1>4. \A s \in Written : s \in DOMAIN npc /\ npc[s] = "returned" /\ s < Counted
  BY <1>1, <1>2, <1>3, PositionsCover DEF Finished
<1>5. \A s \in Written :
          s \in ignored <=> \E i \in 0 .. Counted - 1 : GivenUpFor(i, s)
  BY <1>4 DEF IInv, Marks
<1> QED
  BY <1>1, <1>2, <1>5 DEF Kept

\* No two boxes of a class that are kept overlap by more than the threshold.
THEOREM NoOverlapKept == Spec => []KeptDontOverlap
<1>1. ASSUME IInv PROVE KeptDontOverlap
  <2> SUFFICES ASSUME Finished, NEW a \in Kept, NEW b \in Kept, a # b,
                      slots[a].label = slots[b].label,
                      GpuOverlaps(slots[a], slots[b])
               PROVE  FALSE
    BY <1>1 DEF KeptDontOverlap
  <2>1. a \in Written /\ b \in Written /\ a \in Int /\ b \in Int
    BY <1>1, AtTheEnd
  <2>2. slots[a] \in Box /\ slots[b] \in Box
    BY <1>1, <2>1, SlotsHoldBoxes
  <2>3. GpuOverlaps(slots[b], slots[a])
    BY <2>2, AreasAgree DEF GpuOverlaps
  <2>4. slots[a].confidence \in Int /\ slots[b].confidence \in Int
    BY <2>2 DEF Box
  <2>5. Outranks(a, b) \/ Outranks(b, a)
    BY <2>1, <2>4 DEF Outranks
  <2>6. GivenUpFor(a, b) \/ GivenUpFor(b, a)
    BY <2>3, <2>5 DEF GivenUpFor
  <2> QED
    BY <1>1, <2>1, <2>6, AtTheEnd
<1> QED
  BY <1>1, Invariance, PTL

\* Whatever the kernel keeps, Nms keeps too, unless a ratio is exactly at the
\* threshold.
THEOREM NoMoreKept == Spec => []NeverKeepsMore
<1>1. ASSUME IInv PROVE NeverKeepsMore
  <2> SUFFICES ASSUME Finished, ~Exact, NEW K \in SUBSET Written,
                      SequentialResult(K), NEW s \in Kept
               PROVE  s \in K
    BY <1>1 DEF NeverKeepsMore
  <2>1. s \in Written /\ \A i \in Written : ~GivenUpFor(i, s)
    BY <1>1, AtTheEnd
  <2>2. ASSUME NEW r \in K, r # s, Outranks(r, s)
        PROVE  ~Suppresses(slots[r], slots[s])
    <3> SUFFICES ASSUME Suppresses(slots[r], slots[s]) PROVE FALSE
      OBVIOUS
    <3>1. r \in Written /\ slots[r] \in Box /\ slots[s] \in Box
      BY <1>1, <2>1, SlotsHoldBoxes
    <3> DEFINE c == CrossArea(slots[s], slots[r])
               u == UnionArea(slots[s], slots[r])
    <3>2. /\ c = CrossArea(slots[r], slots[s]) /\ c \in Nat
          /\ u = UnionArea(slots[r], slots[s]) /\ u \in Int
      BY <3>1, AreasAgree
    <3>3. 100 * c # NmsThreshold * u
      BY <2>1, <2>2, <3>1, <3>2 DEF Exact
    <3>4. IF c = 0 \/ u = 0 THEN 0 >= NmsThreshold
                            ELSE 100 * c >= NmsThreshold * u
      BY <3>2 DEF Suppresses, IouReached
    <3>5. c # 0 /\ 100 * c > NmsThreshold * u
      <4> HIDE DEF c, u
      <4>1. NmsThreshold \in Nat /\ NmsThreshold * u \in Int
        BY <3>2, ThresholdAssumption
      <4>2. NmsThreshold = 0 => NmsThreshold * u = 0
        BY <3>2
      <4>3. u = 0 => NmsThreshold * u = 0
        BY <4>1
      <4> QED
        BY <3>2, <3>3, <3>4, <4>1, <4>2, <4>3
    <3>6. GivenUpFor(r, s)
      BY <2>2, <3>5 DEF GivenUpFor, GpuOverlaps, Suppresses
    <3> QED
      BY <2>1, <3>1, <3>6
  <2> QED
    BY <2>1, <2>2 DEF SequentialResult
<1> QED
  BY <1>1, Invariance, PTL

\* While there is room every box that is found is in a slot, and no two share
\* one; so with no two equally good, the race for the slots decides nothing.
THEOREM OutcomeFixed == Spec => []OutcomeIsFixed
<1>1. ASSUME IInv PROVE OutcomeIsFixed
  <2> DEFINE Better(r, q) == /\ BoxAt(r).label = BoxAt(q).label
                             /\ BoxAt(r).confidence > BoxAt(q).confidence
                             /\ GpuOverlaps(BoxAt(q), BoxAt(r))
             Best == {q \in Detected : \A r \in Detected : ~Better(r, q)}
  <2> SUFFICES ASSUME Finished, count <= max_objects,
                      \A p, q \in Detected :
                         p # q /\ BoxAt(p).label = BoxAt(q).label
                            => BoxAt(p).confidence # BoxAt(q).confidence
               PROVE  {slots[s] : s \in Kept} = {BoxAt(p) : p \in Best}
    BY <1>1 DEF OutcomeIsFixed
  <2>1. ASSUME NEW s \in Written
        PROVE  \E p \in Detected : Holds(p, s) /\ slots[s] = BoxAt(p)
    <3>1. PICK p : Holds(p, s) /\ dpc[p] = "returned"
      BY <1>1 DEF IInv, Writes
    <3>2. s < max_objects
      BY <1>1 DEF IInv, GpuTypeOK
    <3>3. p \in Detected
      BY <1>1, <3>1 DEF IInv, Launched, Holds, Found, Detected, GpuTypeOK
    <3> QED
      BY <1>1, <3>1, <3>2, <3>3 DEF IInv, Writes, BoxAt
  <2>2. ASSUME NEW p \in Detected
        PROVE  \E s \in Written : Holds(p, s) /\ slots[s] = BoxAt(p)
    <3>1. Len(predict) \in Nat /\ DOMAIN dpc = Positions(Len(predict))
      BY <1>1 DEF IInv, Threads, Finished, GpuTypeOK
    <3>2. p \in DOMAIN dpc
      BY <3>1, PositionsCover DEF Detected
    <3>3. dpc[p] = "returned" /\ Holds(p, index[p])
      BY <3>2 DEF Finished, DecodeDone, Holds, Found, Detected
    <3>4. index[p] \in 0 .. count - 1
      BY <1>1, <3>3 DEF IInv, Claims
    <3>5. index[p] < max_objects
      BY <1>1, <3>4 DEF IInv, GpuTypeOK
    <3> QED
      BY <1>1, <3>3, <3>5 DEF IInv, Writes, BoxAt
  <2>3. \A p, q, s : Holds(p, s) /\ Holds(q, s) => p = q
    BY <1>1 DEF IInv, Claims
  <2>4. \A p, s, i : Holds(p, s) /\ Holds(p, i) => s = i
    BY DEF Holds
  <2>5. /\ Kept \subseteq Written
        /\ \A s \in Written :
              s \in Kept <=> \A i \in Written : ~GivenUpFor(i, s)
    BY <1>1, AtTheEnd
  <2>6. \A s \in Written : slots[s].confidence \in Int
    BY <1>1, SlotsHoldBoxes DEF Box
  <2>7. ASSUME NEW s \in Kept
        PROVE  \E p \in Best : slots[s] = BoxAt(p)
    <3>1. PICK p \in Detected : Holds(p, s) /\ slots[s] = BoxAt(p)
      BY <2>1, <2>5
    <3>2. ASSUME NEW r \in Detected, Better(r, p) PROVE FALSE
      <4>1. PICK i \in Written : Holds(r, i) /\ slots[i] = BoxAt(r)
        BY <2>2
      <4>2. i # s
        BY <2>5, <2>6, <3>1, <3>2, <4>1
      <4>3. GivenUpFor(i, s)
        BY <3>1, <3>2, <4>1, <4>2 DEF GivenUpFor, Outranks
      <4> QED
        BY <2>5, <4>3
    <3> QED
      BY <3>1, <3>2
  <2>8. ASSUME NEW p \in Best
        PROVE  \E s \in Kept : slots[s] = BoxAt(p)
    <3>1. PICK s \in Written : Holds(p, s) /\ slots[s] = BoxAt(p)
      BY <2>2
    <3>2. ASSUME NEW i \in Written, GivenUpFor(i, s) PROVE FALSE
      <4>1. PICK r \in Detected : Holds(r, i) /\ slots[i] = BoxAt(r)
        BY <2>1
      <4>2. r # p
        BY <2>4, <3>1, <3>2, <4>1 DEF GivenUpFor
      <4>3. Better(r, p)
        BY <3>1, <3>2, <4>1, <4>2 DEF GivenUpFor, Outranks
      <4> QED
        BY <4>3
    <3> QED
      BY <2>5, <3>1, <3>2
  <2> HIDE DEF Best
  <2> QED
    BY <2>7, <2>8
<1> QED
  BY <1>1, Invariance, PTL

-----------------------------------------------------------------------------
(***************************************************************************)
(* The loop of CpuDecode.  A property of f[n] for all n is shown by        *)
(* looking at the least n for which it fails.                              *)
(***************************************************************************)

Step(rows, i, boxes) ==
    IF Detects(rows[i]) THEN Append(boxes, BoxOf(rows[i])) ELSE boxes

\* f holds what the loop has collected after each of the first n rows.
Collects(rows, n, f) ==
    f = [i \in 0 .. n |->
            IF i = 0 THEN <<>> ELSE Step(rows, i, f[i - 1])]

\* The recursive equation of the loop has a solution.
LEMMA LoopRuns ==
    ASSUME NEW rows \in Seq(Rows) PROVE \E f : Collects(rows, Len(rows), f)
<1> DEFINE T == {n \in 0 .. Len(rows) : ~ \E f : Collects(rows, n, f)}
<1>1. T \in SUBSET Nat /\ Len(rows) \in Nat
  OBVIOUS
<1>2. T = {}
  <2> SUFFICES ASSUME T # {} PROVE FALSE
    OBVIOUS
  <2> HIDE DEF T
  <2>1. PICK n \in T : \A y \in T : n <= y
    BY <1>1, Least
  <2>2. n \in 0 .. Len(rows) /\ ~ \E f : Collects(rows, n, f)
    BY <2>1 DEF T
  <2>3. CASE n = 0
    <3> DEFINE f == [i \in 0 .. 0 |-> <<>>]
    <3>1. Collects(rows, 0, f)
      BY DEF Collects
    <3> QED
      BY <2>2, <2>3, <3>1
  <2>4. CASE n # 0
    <3>1. n - 1 \in 0 .. Len(rows) /\ n \in Nat \ {0} /\ n - 1 \notin T
      BY <1>1, <2>1, <2>2, <2>4
    <3>2. PICK g : Collects(rows, n - 1, g)
      BY <3>1 DEF T
    <3> DEFINE h == [i \in 0 .. n |->
                        IF i = n THEN Step(rows, n, g[n - 1]) ELSE g[i]]
    <3>3. ASSUME NEW i \in 0 .. n
          PROVE  h[i] = IF i = 0 THEN <<>> ELSE Step(rows, i, h[i - 1])
      <4>1. CASE i = n
        <5>1. h[i] = Step(rows, n, g[n - 1]) /\ h[n - 1] = g[n - 1]
          BY <3>1, <4>1
        <5> QED
          BY <3>1, <4>1, <5>1
      <4>2. CASE i # n
        <5>1. i \in 0 .. n - 1 /\ h[i] = g[i]
          BY <3>1, <4>2
        <5>2. g[i] = IF i = 0 THEN <<>> ELSE Step(rows, i, g[i - 1])
          BY <3>2, <5>1 DEF Collects
        <5>3. i # 0 => h[i - 1] = g[i - 1]
          BY <3>1, <4>2
        <5> HIDE DEF h
        <5> QED
          BY <5>1, <5>2, <5>3
      <4> QED
        BY <4>1, <4>2
    <3>4. h = [i \in 0 .. n |-> h[i]]
      OBVIOUS
    <3> HIDE DEF h
    <3>5. Collects(rows, n, h)
      BY <3>3, <3>4 DEF Collects
    <3> QED
      BY <2>2, <3>5
  <2> QED
    BY <2>3, <2>4
<1>3. Len(rows) \in 0 .. Len(rows) /\ Len(rows) \notin T
  BY <1>1, <1>2
<1> QED
  BY <1>3
\* f holds, after each row, a vector of boxes: one more where the row is one.
Grows(rows, f) ==
    /\ f \in [0 .. Len(rows) -> Seq(Box)]
    /\ f[0] = <<>>
    /\ \A i \in 1 .. Len(rows) : f[i] = Step(rows, i, f[i - 1])

LEMMA LoopGrows ==
    ASSUME NEW rows \in Seq(Rows)
    PROVE  \E f : Grows(rows, f) /\ CpuDecode(rows) = f[Len(rows)]
<1> DEFINE N == Len(rows)
           f == CHOOSE g : Collects(rows, N, g)
<1>1. Collects(rows, N, f)
  BY LoopRuns
<1>2. CpuDecode(rows) = f[N]
  BY DEF CpuDecode, Collects, Step
<1> HIDE DEF f
<1>3. N \in Nat /\ \A i \in 1 .. N : rows[i] \in Rows
  OBVIOUS
<1>4. /\ f[0] = <<>> /\ f = [i \in 0 .. N |-> f[i]]
      /\ \A i \in 1 .. N : f[i] = Step(rows, i, f[i - 1])
  BY <1>1, <1>3 DEF Collects
<1> DEFINE T == {n \in 0 .. N : f[n] \notin Seq(Box)}
<1>5. T = {}
  <2> SUFFICES ASSUME T # {} PROVE FALSE
    OBVIOUS
  <2>1. T \in SUBSET Nat
    OBVIOUS
  <2> HIDE DEF T
  <2>2. PICK n \in T : \A y \in T : n <= y
    BY <2>1, Least
  <2>3. n \in 0 .. N /\ f[n] \notin Seq(Box)
    BY <2>2 DEF T
  <2>4. n \in 1 .. N /\ n - 1 \in 0 .. N
    BY <1>3, <1>4, <2>3
  <2>5. f[n - 1] \in Seq(Box)
    BY <1>3, <2>2, <2>4 DEF T
  <2>6. f[n] = Step(rows, n, f[n - 1]) /\ BoxOf(rows[n]) \in Box
    BY <1>3, <1>4, <2>4, RowsBox
  <2> QED
    BY <2>3, <2>5, <2>6 DEF Step
<1>6. Grows(rows, f)
  BY <1>4, <1>5 DEF Grows
<1> QED
  BY <1>2, <1>6

\* A row that is a box puts it at the place that is the length of the vector
\* then: every place has one such row, and the place keeps its box.
Ranks(rows, f, n) ==
    /\ \A i \in 1 .. n : Detects(rows[i]) =>
          Len(f[i]) \in 1 .. Len(f[n]) /\ f[n][Len(f[i])] = BoxOf(rows[i])
    /\ \A i, j \in 1 .. n :
          Detects(rows[i]) /\ Detects(rows[j]) /\ Len(f[i]) = Len(f[j]) => i = j
    /\ \A m \in 1 .. Len(f[n]) :
          \E i \in 1 .. n : Detects(rows[i]) /\ Len(f[i]) = m

LEMMA RanksStep ==
    ASSUME NEW rows \in Seq(Rows), NEW f, Grows(rows, f),
           NEW n \in 1 .. Len(rows), Ranks(rows, f, n - 1)
    PROVE  Ranks(rows, f, n)
<1>1. /\ n \in Nat /\ n - 1 \in Nat /\ n - 1 \in 0 .. Len(rows)
      /\ f[n - 1] \in Seq(Box) /\ f[n] \in Seq(Box)
      /\ f[n] = Step(rows, n, f[n - 1]) /\ Len(f[n - 1]) \in Nat
      /\ rows[n] \in Rows
  BY DEF Grows
<1>2. \A i \in 1 .. n : i = n \/ i \in 1 .. n - 1
  BY <1>1
<1>3. CASE ~Detects(rows[n])
  <2>1. f[n] = f[n - 1]
    BY <1>1, <1>3 DEF Step
  <2>2. \A i \in 1 .. n : Detects(rows[i]) => i \in 1 .. n - 1
    BY <1>2, <1>3
  <2>3. \A i \in 1 .. n - 1 : i \in 1 .. n
    BY <1>1
  <2> QED
    BY <2>1, <2>2, <2>3 DEF Ranks
<1>4. CASE Detects(rows[n])
  <2> DEFINE L == Len(f[n - 1])
  <2>1. f[n] = Append(f[n - 1], BoxOf(rows[n])) /\ BoxOf(rows[n]) \in Box
    BY <1>1, <1>4, RowsBox DEF Step
  <2>2. /\ Len(f[n]) = L + 1 /\ f[n][L + 1] = BoxOf(rows[n])
        /\ \A m \in 1 .. L : f[n][m] = f[n - 1][m]
    BY <1>1, <2>1
  <2>3. \A i \in 1 .. n - 1 : i \in 1 .. n /\ (Detects(rows[i]) =>
            Len(f[i]) \in 1 .. L /\ f[n - 1][Len(f[i])] = BoxOf(rows[i]))
    BY <1>1 DEF Ranks
  <2> HIDE DEF L
  <2>4. L \in Nat
    BY <1>1 DEF L
  <2>5. ASSUME NEW i \in 1 .. n, Detects(rows[i])
        PROVE  Len(f[i]) \in 1 .. L + 1 /\ f[n][Len(f[i])] = BoxOf(rows[i])
    <3>1. CASE i = n
      BY <2>2, <2>4, <3>1
    <3>2. CASE i \in 1 .. n - 1
      BY <2>2, <2>3, <2>4, <2>5, <3>2
    <3> QED
      BY <1>2, <3>1, <3>2
  <2>6. ASSUME NEW i \in 1 .. n, NEW j \in 1 .. n,
               Detects(rows[i]), Detects(rows[j]), Len(f[i]) = Len(f[j])
        PROVE  i = j
    <3>1. CASE i \in 1 .. n - 1 /\ j \in 1 .. n - 1
      BY <2>6, <3>1 DEF Ranks
    <3>2. CASE i = n /\ j \in 1 .. n - 1
      BY <2>2, <2>3, <2>4, <2>6, <3>2
    <3>3. CASE j = n /\ i \in 1 .. n - 1
      BY <2>2, <2>3, <2>4, <2>6, <3>3
    <3> QED
      BY <1>2, <3>1, <3>2, <3>3
  <2>7. ASSUME NEW m \in 1 .. L + 1
        PROVE  \E i \in 1 .. n : Detects(rows[i]) /\ Len(f[i]) = m
    <3>1. CASE m = L + 1
      BY <1>1, <1>4, <2>2, <3>1
    <3>2. CASE m \in 1 .. L
      <4>1. PICK i \in 1 .. n - 1 : Detects(rows[i]) /\ Len(f[i]) = m
        BY <3>2 DEF Ranks, L
      <4> QED
        BY <2>3, <4>1
    <3> QED
      BY <2>4, <3>1, <3>2
  <2> QED
    BY <2>2, <2>5, <2>6, <2>7 DEF Ranks
<1> QED
  BY <1>3, <1>4

\* What CpuDecode computes, for every output of the network: the boxes of the
\* rows that pass both thresholds, each row's once, and nothing else.
THEOREM CpuDecodeCollects ==
    ASSUME NEW rows \in Seq(Rows)
    PROVE  LET boxes == CpuDecode(rows)
               found == {i \in 1 .. Len(rows) : Detects(rows[i])}
           IN  /\ boxes \in Seq(Box)
               /\ \E rank \in [found -> 1 .. Len(boxes)] :
                     /\ \A i \in found : boxes[rank[i]] = BoxOf(rows[i])
                     /\ \A i, j \in found : rank[i] = rank[j] => i = j
                     /\ \A m \in 1 .. Len(boxes) : \E i \in found : rank[i] = m
<1> DEFINE N == Len(rows)
           found == {i \in 1 .. N : Detects(rows[i])}
<1>1. PICK f : Grows(rows, f) /\ CpuDecode(rows) = f[N]
  BY LoopGrows
<1>2. N \in Nat
  OBVIOUS
<1> DEFINE T == {n \in 0 .. N : ~Ranks(rows, f, n)}
<1>3. T = {}
  <2> SUFFICES ASSUME T # {} PROVE FALSE
    OBVIOUS
  <2>1. T \in SUBSET Nat
    OBVIOUS
  <2> HIDE DEF T
  <2>2. PICK n \in T : \A y \in T : n <= y
    BY <2>1, Least
  <2>3. n \in 0 .. N /\ ~Ranks(rows, f, n)
    BY <2>2 DEF T
  <2>4. n # 0
    <3>1. f[0] = <<>> /\ Len(f[0]) = 0
      BY <1>1 DEF Grows
    <3>2. Ranks(rows, f, 0)
      BY <3>1 DEF Ranks
    <3> QED
      BY <2>3, <3>2
  <2>5. n \in 1 .. N /\ n - 1 \in 0 .. N /\ n - 1 \notin T
    BY <1>2, <2>2, <2>3, <2>4
  <2>6. Ranks(rows, f, n - 1)
    BY <2>5 DEF T
  <2> QED
    BY <1>1, <2>3, <2>5, <2>6, RanksStep
<1>4. N \in 0 .. N /\ Ranks(rows, f, N) /\ f[N] \in Seq(Box)
  BY <1>1, <1>2, <1>3 DEF Grows
<1> DEFINE g == [i \in found |-> Len(f[i])]
<1>5. g \in [found -> 1 .. Len(f[N])]
  BY <1>4 DEF Ranks
<1>6. /\ \A i \in found : f[N][g[i]] = BoxOf(rows[i])
      /\ \A i, j \in found : g[i] = g[j] => i = j
      /\ \A m \in 1 .. Len(f[N]) : \E i \in found : g[i] = m
  BY <1>4 DEF Ranks
<1> HIDE DEF g
<1>7. \E rank \in [found -> 1 .. Len(CpuDecode(rows))] :
         /\ \A i \in found : CpuDecode(rows)[rank[i]] = BoxOf(rows[i])
         /\ \A i, j \in found : rank[i] = rank[j] => i = j
         /\ \A m \in 1 .. Len(CpuDecode(rows)) : \E i \in found : rank[i] = m
  <2> HIDE DEF N, found
  <2> QED
    BY <1>1, <1>5, <1>6
<1>8. CpuDecode(rows) \in Seq(Box)
  BY <1>1, <1>4
<1> QED
  BY <1>7, <1>8, Zenon

-----------------------------------------------------------------------------
\* The m numbers from 0 are paired off with the n numbers from 1.
SameSize(m, n) ==
    \E c \in [0 .. m - 1 -> 1 .. n] :
       /\ \A a, b \in 0 .. m - 1 : c[a] = c[b] => a = b
       /\ \A k \in 1 .. n : \E a \in 0 .. m - 1 : c[a] = k

\* Such intervals have as many members.
LEMMA SameSizes ==
    ASSUME NEW m \in Nat, NEW n \in Nat, SameSize(m, n) PROVE m = n
<1> PICK c \in [0 .. m - 1 -> 1 .. n] :
        /\ \A a, b \in 0 .. m - 1 : c[a] = c[b] => a = b
        /\ \A k \in 1 .. n : \E a \in 0 .. m - 1 : c[a] = k
  BY DEF SameSize
<1> DEFINE S == 0 .. m - 1
           T == 1 .. n
<1>1. IsFiniteSet(S) /\ Cardinality(S) = m
  BY FS_Interval
<1>2. Cardinality(T) = n
  BY FS_Interval
<1> HIDE DEF S
<1>3. c \in Injection(S, T)
  BY DEF Injection, IsInjective, S
<1>4. c \in Surjection(S, T)
  BY DEF Surjection, S
<1>5. ExistsBijection(S, T)
  BY <1>3, <1>4 DEF ExistsBijection, Bijection
<1>6. Cardinality(T) = Cardinality(S)
  BY <1>1, <1>5, FS_Bijection, Zenon
<1> QED
  BY <1>1, <1>2, <1>6

\* When the first kernel is done, the numbers below the counter and the rows
\* that are boxes are paired off by the threads, which hold one number each.
LEMMA Holders ==
    ASSUME IInv, DecodeDone, host = "returned"
    PROVE  LET found == {i \in 1 .. Len(predict) : Detects(predict[i])}
           IN  \E h \in [0 .. count - 1 -> found] :
                  /\ \A a, b \in 0 .. count - 1 : h[a] = h[b] => a = b
                  /\ \A i \in found : \E a \in 0 .. count - 1 : h[a] = i
                  /\ \A a \in Written : slots[a] = BoxOf(predict[h[a]])
<1> DEFINE F == {i \in 1 .. Len(predict) : Detects(predict[i])}
           by(s) == CHOOSE p : Holds(p, s)
<1>1. ASSUME NEW s \in 0 .. count - 1
      PROVE  Holds(by(s), s) /\ by(s) \in Nat /\ by(s) + 1 \in F
  <2>1. \E p : Holds(p, s)
    BY DEF IInv, Claims
  <2>2. Holds(by(s), s)
    BY <2>1, Zenon
  <2> HIDE DEF by
  <2>3. by(s) \in Nat /\ by(s) < Len(predict) /\ Detects(predict[by(s) + 1])
    BY <2>2 DEF Holds, Found, IInv, Launched
  <2> QED
    BY <2>2, <2>3 DEF IInv, GpuTypeOK
<1> DEFINE g == [s \in 0 .. count - 1 |-> by(s) + 1]
<1>2. g \in [0 .. count - 1 -> F]
  BY <1>1
<1>3. ASSUME NEW a \in 0 .. count - 1, NEW b \in 0 .. count - 1, g[a] = g[b]
      PROVE  a = b
  <2>1. by(a) \in Nat /\ by(b) \in Nat /\ Holds(by(a), a) /\ Holds(by(b), b)
    BY <1>1
  <2> HIDE DEF by
  <2>2. by(a) = by(b)
    BY <1>3, <2>1
  <2> QED
    BY <2>1, <2>2 DEF Holds
<1>4. ASSUME NEW i \in F PROVE \E a \in 0 .. count - 1 : g[a] = i
  <2>1. /\ Len(predict) \in Nat /\ i \in 1 .. Len(predict)
        /\ i - 1 \in Nat /\ i - 1 < Len(predict) /\ i - 1 + 1 = i
        /\ Detects(predict[i])
    BY DEF IInv, GpuTypeOK, Threads
  <2>2. i - 1 \in DOMAIN dpc
    BY <2>1, PositionsCover DEF IInv, Threads
  <2>3. Holds(i - 1, index[i - 1])
    BY <2>1, <2>2 DEF Holds, Found, DecodeDone
  <2>4. index[i - 1] \in 0 .. count - 1
    BY <2>3 DEF IInv, Claims
  <2>5. Holds(by(index[i - 1]), index[i - 1])
    BY <1>1, <2>4
  <2> HIDE DEF by
  <2>6. by(index[i - 1]) = i - 1
    BY <2>3, <2>5 DEF IInv, Claims
  <2> QED
    BY <2>1, <2>4, <2>6
<1>5. ASSUME NEW a \in Written PROVE slots[a] = BoxOf(predict[g[a]])
  <2>1. a \in 0 .. count - 1 /\ a < max_objects
    BY DEF IInv, GpuTypeOK, Writes, Claims
  <2>2. Holds(by(a), a)
    BY <1>1, <2>1
  <2> HIDE DEF by
  <2>3. dpc[by(a)] = "returned"
    BY <2>2 DEF Holds, DecodeDone
  <2>4. g[a] = by(a) + 1
    BY <2>1
  <2> HIDE DEF g
  <2> QED
    BY <2>1, <2>2, <2>3, <2>4 DEF IInv, Writes
<1> HIDE DEF g, by, F
<1>6. \E h \in [0 .. count - 1 -> F] :
         /\ \A a, b \in 0 .. count - 1 : h[a] = h[b] => a = b
         /\ \A i \in F : \E a \in 0 .. count - 1 : h[a] = i
         /\ \A a \in Written : slots[a] = BoxOf(predict[h[a]])
  BY <1>2, <1>3, <1>4, <1>5
<1> QED
  BY <1>6, Zenon DEF F

\* The race of the threads decides which slot a box gets, and nothing else: the
\* counter and the slots are those of the loop of CpuDecode.
THEOREM DecodesAsCpu == Spec => []DecodesLikeCpu
<1>1. ASSUME IInv PROVE DecodesLikeCpu
  <2> DEFINE boxes == CpuDecode(predict)
             F == {i \in 1 .. Len(predict) : Detects(predict[i])}
             Times(b) == {k \in 1 .. Len(boxes) : boxes[k] = b}
             Slots(b) == {s \in Written : slots[s] = b}
  <2> SUFFICES ASSUME host = "returned", DecodeDone
               PROVE  /\ count = Len(boxes)
                      /\ \A s \in Written :
                            \E f \in [Slots(slots[s]) -> Times(slots[s])] :
                                \A a, b \in Slots(slots[s]) :
                                    f[a] = f[b] => a = b
                      /\ Written = 0 .. Smaller(Len(boxes), max_objects) - 1
    BY DEF DecodesLikeCpu
  <2>1. predict \in Seq(Rows) /\ count \in Nat
    BY <1>1 DEF IInv, GpuTypeOK
  <2>2. boxes \in Seq(Box) /\ Len(boxes) \in Nat
    BY <2>1, CpuDecodeCollects
  <2>3. \E r \in [F -> 1 .. Len(boxes)] :
           /\ \A i \in F : boxes[r[i]] = BoxOf(predict[i])
           /\ \A i, j \in F : r[i] = r[j] => i = j
           /\ \A m \in 1 .. Len(boxes) : \E i \in F : r[i] = m
    BY <2>1, CpuDecodeCollects, Zenon
  <2>4. \E h \in [0 .. count - 1 -> F] :
           /\ \A a, b \in 0 .. count - 1 : h[a] = h[b] => a = b
           /\ \A i \in F : \E a \in 0 .. count - 1 : h[a] = i
           /\ \A a \in Written : slots[a] = BoxOf(predict[h[a]])
    BY <1>1, Holders, Zenon
  <2> HIDE DEF boxes, F
  <2>5. PICK r \in [F -> 1 .. Len(boxes)] :
           /\ \A i \in F : boxes[r[i]] = BoxOf(predict[i])
           /\ \A i, j \in F : r[i] = r[j] => i = j
           /\ \A m \in 1 .. Len(boxes) : \E i \in F : r[i] = m
    BY <2>3
  <2>6. PICK h \in [0 .. count - 1 -> F] :
           /\ \A a, b \in 0 .. count - 1 : h[a] = h[b] => a = b
           /\ \A i \in F : \E a \in 0 .. count - 1 : h[a] = i
           /\ \A a \in Written : slots[a] = BoxOf(predict[h[a]])
    BY <2>4
  <2> DEFINE c == [a \in 0 .. count - 1 |-> r[h[a]]]
  <2>7. /\ c \in [0 .. count - 1 -> 1 .. Len(boxes)]
        /\ \A a, b \in 0 .. count - 1 : c[a] = c[b] => a = b
    BY <2>5, <2>6
  <2>8. \A k \in 1 .. Len(boxes) : \E a \in 0 .. count - 1 : c[a] = k
    <3> SUFFICES ASSUME NEW k \in 1 .. Len(boxes)
                 PROVE  \E a \in 0 .. count - 1 : c[a] = k
      OBVIOUS
    <3>1. PICK i \in F : r[i] = k
      BY <2>5
    <3>2. PICK a \in 0 .. count - 1 : h[a] = i
      BY <2>6
    <3> QED
      BY <3>1, <3>2
  <2>9. count = Len(boxes)
    <3> HIDE DEF c
    <3> QED
      <4>1. SameSize(count, Len(boxes))
        BY <2>7, <2>8 DEF SameSize
      <4> QED
        BY <2>1, <2>2, <4>1, SameSizes
  <2>10. Written = 0 .. Smaller(Len(boxes), max_objects) - 1
    BY <1>1, <2>9, WrittenAreCounted DEF Counted
  <2>11. ASSUME NEW b
         PROVE  \E f \in [Slots(b) -> Times(b)] :
                   \A a, d \in Slots(b) : f[a] = f[d] => a = d
    <3>1. ASSUME NEW a \in Slots(b)
          PROVE  a \in 0 .. count - 1 /\ c[a] \in Times(b)
      <4>1. a \in 0 .. count - 1
        BY <1>1, <2>1, WrittenAreCounted
      <4>2. boxes[c[a]] = b /\ c[a] \in 1 .. Len(boxes)
        BY <2>5, <2>6, <4>1
      <4> QED
        BY <4>1, <4>2
    <3> DEFINE f == [a \in Slots(b) |-> c[a]]
    <3>2. /\ f \in [Slots(b) -> Times(b)]
          /\ \A a, d \in Slots(b) : f[a] = f[d] => a = d
      <4> HIDE DEF c
      <4>1. f \in [Slots(b) -> Times(b)]
        <5> HIDE DEF Slots, Times
        <5> QED
          BY <3>1
      <4>2. \A a \in Slots(b) : f[a] = c[a] /\ a \in 0 .. count - 1
        BY <3>1
      <4> HIDE DEF f
      <4> QED
        BY <2>7, <4>1, <4>2
    <3> HIDE DEF f
    <3> QED
      BY <3>2
  <2> QED
    BY <2>9, <2>10, <2>11
<1> QED
  BY <1>1, Invariance, PTL
=============================================================================
