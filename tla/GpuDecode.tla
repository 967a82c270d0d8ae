------------------------------ MODULE GpuDecode ------------------------------
(***************************************************************************)
(* decode_kernel_invoker (app_yolo/architecture/cuda/gpu_decode.cu): the   *)
(* host queues two kernels on one stream.  The threads of the first decode *)
(* one row each and claim a slot of parray for it; those of the second     *)
(* look at one slot each and mark the box in it when a better one overlaps *)
(* it.                                                                     *)
(*                                                                         *)
(* The threads of a kernel run in any order, and the host runs beside      *)
(* them; the second kernel waits for the first.  The caller, which is not  *)
(* in the repository, is taken to have zeroed the counter.                 *)
(***************************************************************************)
EXTENDS BoxDecode

CONSTANTS
    Rows,           \* the rows the network may put out
    MaxRows,        \* bound: num_bboxes
    MaxObjects,     \* bound: max_objects
    BlockLimit      \* threads in a block, 512 in the code

ASSUME GpuAssumption ==
    /\ Rows \subseteq [cx : Int, cy : Int, width : Int, height : Int,
                       objness : Nat, prob : Seq(Nat) \ {<<>>}]
    /\ MaxRows \in Nat /\ MaxObjects \in Nat
    /\ BlockLimit \in Nat \ {0}

VARIABLES
    predict,        \* the rows, num_bboxes of them
    max_objects,
    host,           \* the place of the host in decode_kernel_invoker
    dpc,            \* the place of each thread of decode_kernel
    index,          \* what atomicAdd returned to it
    count,          \* *parray
    slots,          \* the boxes written behind the counter, by index
    ignored,        \* the slots whose keepflag is 0
    npc             \* the place of each thread of fast_nms_kernel

vars == <<predict, max_objects, host, dpc, index, count, slots, ignored, npc>>

-----------------------------------------------------------------------------
\* block * grid threads; block is at most BlockLimit, grid is rounded up.
LaunchSizeDown(n) ==            \* mutant: the grid is rounded down
    LET block == Smaller(n, BlockLimit)
    IN  block * (n \div block)

LaunchSize(n) ==
    LET block == Smaller(n, BlockLimit)
    IN  block * ((n + block - 1) \div block)

\* count in fast_nms_kernel.
Counted == Smaller(count, max_objects)

Written == DOMAIN slots

Init ==
    /\ \E n \in 0 .. MaxRows : predict \in [1 .. n -> Rows]
    /\ max_objects \in 0 .. MaxObjects
    /\ host = "decode"
    /\ dpc = <<>> /\ index = <<>> /\ npc = <<>>
    /\ count = 0 /\ slots = <<>> /\ ignored = {}

-----------------------------------------------------------------------------
\* The host.
LaunchDecode ==
    /\ host = "decode" /\ Len(predict) # 0
    /\ host' = "nms"
    /\ dpc' = [p \in 0 .. LaunchSize(Len(predict)) - 1 |-> "start"]
    /\ index' = [p \in DOMAIN dpc' |-> 0]
    /\ UNCHANGED <<predict, max_objects, count, slots, ignored, npc>>

LaunchNms ==
    /\ host = "nms" /\ max_objects # 0
    /\ host' = "returned"
    /\ npc' = [u \in 0 .. LaunchSize(max_objects) - 1 |-> "start"]
    /\ UNCHANGED <<predict, max_objects, dpc, index, count, slots, ignored>>

\* With no row, or no room, block is 0, and so is the divisor.  Either the
\* division traps, or it yields 0 and the launch of an empty grid fails, which
\* nobody notices.
NothingToLaunch ==
    \/ host = "decode" /\ Len(predict) = 0
    \/ host = "nms" /\ max_objects = 0

DivisionTraps ==
    /\ NothingToLaunch
    /\ host' = "crashed"
    /\ UNCHANGED <<predict, max_objects, dpc, index, count, slots, ignored,
                   npc>>

LaunchFails ==
    /\ NothingToLaunch
    /\ host' = IF host = "decode" THEN "nms" ELSE "returned"
    /\ UNCHANGED <<predict, max_objects, dpc, index, count, slots, ignored,
                   npc>>

-----------------------------------------------------------------------------
\* A thread of decode_kernel; rows are counted from 1, positions from 0.
Running(p) == host # "crashed" /\ p \in DOMAIN dpc /\ dpc[p] = "start"

Found(p) == p < Len(predict) /\ Detects(predict[p + 1])

RejectLate(p) ==                \* mutant: the slot is claimed before the test
    /\ Running(p) /\ ~Found(p)
    /\ dpc' = [dpc EXCEPT ![p] = "returned"]
    /\ count' = count + 1
    /\ UNCHANGED <<predict, max_objects, host, index, slots, ignored, npc>>

Reject(p) ==
    /\ Running(p) /\ ~Found(p)
    /\ dpc' = [dpc EXCEPT ![p] = "returned"]
    /\ UNCHANGED <<predict, max_objects, host, index, count, slots, ignored,
                   npc>>

ClaimAlways(p) ==               \* mutant: max_objects is not tested
    /\ Running(p) /\ Found(p)
    /\ index' = [index EXCEPT ![p] = count]
    /\ count' = count + 1
    /\ dpc' = [dpc EXCEPT ![p] = "claimed"]
    /\ UNCHANGED <<predict, max_objects, host, slots, ignored, npc>>

ClaimLast(p) ==                 \* mutant: what does not fit replaces the last
    /\ Running(p) /\ Found(p)
    /\ index' = [index EXCEPT ![p] = Smaller(count, max_objects - 1)]
    /\ count' = count + 1
    /\ dpc' = [dpc EXCEPT ![p] = "claimed"]
    /\ UNCHANGED <<predict, max_objects, host, slots, ignored, npc>>

\* atomicAdd(parray, 1); the counter goes on counting when parray is full.
Claim(p) ==
    /\ Running(p) /\ Found(p)
    /\ index' = [index EXCEPT ![p] = count]
    /\ count' = count + 1
    /\ dpc' = [dpc EXCEPT ![p] = IF count >= max_objects THEN "returned"
                                                         ELSE "claimed"]
    /\ UNCHANGED <<predict, max_objects, host, slots, ignored, npc>>

Write(p) ==
    /\ host # "crashed" /\ p \in DOMAIN dpc /\ dpc[p] = "claimed"
    /\ slots' = [s \in Written \cup {index[p]} |->
                    IF s = index[p] THEN BoxOf(predict[p + 1]) ELSE slots[s]]
    /\ ignored' = ignored \ {index[p]}
    /\ dpc' = [dpc EXCEPT ![p] = "returned"]
    /\ UNCHANGED <<predict, max_objects, host, index, count, npc>>

-----------------------------------------------------------------------------
\* A thread of fast_nms_kernel: position u is given up for box i.  Nobody
\* reads a keepflag, so the loop of one thread is one step.
DecodeDone == \A p \in DOMAIN dpc : dpc[p] = "returned"

NoTies(i, u) ==                 \* mutant: equal boxes do not compete
    slots[i].confidence > slots[u].confidence

ByIndex(i, u) ==                \* mutant: the first slot wins
    i < u

Outranks(i, u) ==
    \/ slots[i].confidence > slots[u].confidence
    \/ slots[i].confidence = slots[u].confidence /\ i > u

GivenUpFor(i, u) ==
    /\ i # u
    /\ slots[i].label = slots[u].label
    /\ Outranks(i, u)
    /\ GpuOverlaps(slots[u], slots[i])

Looking(u) ==
    /\ host # "crashed" /\ u \in DOMAIN npc /\ npc[u] = "start"
    /\ DecodeDone

Skip(u) ==
    /\ Looking(u)
    /\ u < Counted => \A i \in 0 .. Counted - 1 : ~GivenUpFor(i, u)
    /\ npc' = [npc EXCEPT ![u] = "returned"]
    /\ UNCHANGED <<predict, max_objects, host, dpc, index, count, slots,
                   ignored>>

Mark(u) ==
    /\ Looking(u)
    /\ u < Counted /\ \E i \in 0 .. Counted - 1 : GivenUpFor(i, u)
    /\ ignored' = ignored \cup {u}
    /\ npc' = [npc EXCEPT ![u] = "returned"]
    /\ UNCHANGED <<predict, max_objects, host, dpc, index, count, slots>>

-----------------------------------------------------------------------------
DecodeThread(p) == Reject(p) \/ Claim(p) \/ Write(p)
NmsThread(u) == Skip(u) \/ Mark(u)
Host == LaunchDecode \/ LaunchNms \/ DivisionTraps \/ LaunchFails

Next ==
    \/ Host
    \/ \E p \in DOMAIN dpc : DecodeThread(p)
    \/ \E u \in DOMAIN npc : NmsThread(u)

Spec == Init /\ [][Next]_vars

-----------------------------------------------------------------------------
GpuTypeOK ==
    /\ predict \in Seq(Rows) /\ max_objects \in Nat /\ count \in Nat
    /\ host \in {"decode", "nms", "returned", "crashed"}
    /\ dpc \in [DOMAIN dpc -> {"start", "claimed", "returned"}]
    /\ index \in [DOMAIN dpc -> Nat]
    /\ npc \in [DOMAIN npc -> {"start", "returned"}]
    /\ Written \subseteq 0 .. max_objects - 1
    /\ ignored \subseteq Written

\* No thread overwrites the box of another: a slot that has been written keeps
\* its box until the end, although the threads share one counter and it runs
\* past max_objects.
SlotsWrittenOnce ==
    [][\A s \in Written : s \in Written' /\ slots'[s] = slots[s]]_vars

\* fast_nms_kernel, which trusts the counter, never reads a slot that nobody
\* has written: claims and writes are complete, without a gap, when it begins.
CountedAreWritten ==
    DecodeDone => \A s \in 0 .. Counted - 1 : s \in Written

Finished ==
    /\ host = "returned" /\ DecodeDone
    /\ \A u \in DOMAIN npc : npc[u] = "returned"

Kept == {s \in 0 .. Counted - 1 : s \notin ignored}

\* The kernel decodes as CpuDecode does: the slots hold CpuDecode's boxes, each
\* as often, or as many of them as there is room for; none, where there is
\* nothing to launch and the host gets past it.
DecodesLikeCpu ==
    host = "returned" /\ DecodeDone =>
        LET boxes == CpuDecode(predict)
            Times(b) == {k \in 1 .. Len(boxes) : boxes[k] = b}
            Slots(b) == {s \in Written : slots[s] = b}
        IN  /\ count = Len(boxes)
            /\ \A s \in Written :
                  \E f \in [Slots(slots[s]) -> Times(slots[s])] :
                      \A a, b \in Slots(slots[s]) : f[a] = f[b] => a = b
            /\ Written = 0 .. Smaller(Len(boxes), max_objects) - 1

\* Of any two boxes of a class that are kept, neither overlaps the other by
\* more than the threshold, ties included: of two equal boxes exactly one is
\* given up for the other.
KeptDontOverlap ==
    Finished =>
        \A a, b \in Kept :
            a # b /\ slots[a].label = slots[b].label
                => ~GpuOverlaps(slots[a], slots[b])

\* What DecodeProcessor::Nms keeps of the same boxes when std::sort puts equal
\* confidences in the kernel's order: the boxes that no kept box before them
\* suppresses.
SequentialResult(K) ==
    /\ K \subseteq Written
    /\ \A s \in Written :
          s \in K <=> \A r \in K :
                         r # s /\ Outranks(r, s)
                             => ~Suppresses(slots[r], slots[s])

\* Some ratio of areas is exactly at the threshold, where the kernel's > and
\* the >= of Nms differ.
Exact ==
    \E a, b \in Written :
        a # b /\ 100 * CrossArea(slots[b], slots[a])
                    = NmsThreshold * UnionArea(slots[b], slots[a])

\* The parallel suppression, which does not ask whether the better box is kept
\* itself, errs to one side only: it keeps no box that the sequential Nms would
\* have dropped.
NeverKeepsMore ==
    Finished /\ ~Exact =>
        \A K \in SUBSET Written : SequentialResult(K) => Kept \subseteq K

\* The boxes the rows stand for, by the row's number.
Detected == {p \in 0 .. Len(predict) - 1 : Detects(predict[p + 1])}
BoxAt(p) == BoxOf(predict[p + 1])

\* Which thread claims which slot is a race, but not what comes out: while
\* there is room, and no two boxes of a class are equally good, the boxes kept
\* are those that no better box overlaps, whatever the order of the threads.
OutcomeIsFixed ==
    /\ Finished /\ count <= max_objects
    /\ \A p, q \in Detected :
          p # q /\ BoxAt(p).label = BoxAt(q).label
              => BoxAt(p).confidence # BoxAt(q).confidence
    =>
    {slots[s] : s \in Kept} =
        {BoxAt(p) : p \in
            {q \in Detected : \A r \in Detected :
                ~ /\ BoxAt(r).label = BoxAt(q).label
                  /\ BoxAt(r).confidence > BoxAt(q).confidence
                  /\ GpuOverlaps(BoxAt(q), BoxAt(r))}}
=============================================================================
