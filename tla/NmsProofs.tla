----------------------------- MODULE NmsProofs -----------------------------
(***************************************************************************)
(* Theorems about DecodeProcessor::Nms for every vector of boxes and every *)
(* threshold.  Nothing is used of the overlap of two boxes but that it     *)
(* either reaches the threshold or does not.                               *)
(***************************************************************************)
EXTENDS Nms, FiniteSetTheorems, TLAPS

\* The types and the loop bounds.
LEMMA SortedType ==
    ASSUME NEW S, NEW s \in Seq(S), NEW t \in Sorted(s)
    PROVE  /\ t \in Seq(S) /\ Len(t) = Len(s)
           /\ \A a, b \in 1 .. Len(s) :
                a < b => t[a].confidence >= t[b].confidence
<1>1. PICK f \in Permutations(Len(s)) : t = [k \in 1 .. Len(s) |-> s[f[k]]]
  BY DEF Sorted
<1>2. f \in [1 .. Len(s) -> 1 .. Len(s)]
  BY DEF Permutations
<1>3. Len(s) \in Nat /\ \A k \in 1 .. Len(s) : s[f[k]] \in S
  BY <1>2
<1>4. t \in Seq(S) /\ Len(t) = Len(s)
  BY <1>1, <1>3
<1> QED
  BY <1>4 DEF Sorted

\* Sorting loses no box: a permutation is onto.
LEMMA SortedKeeps ==
    ASSUME NEW S, NEW s \in Seq(S), NEW t \in Sorted(s),
           NEW k \in 1 .. Len(s)
    PROVE  \E m \in 1 .. Len(s) : t[m] = s[k]
<1>1. PICK f \in Permutations(Len(s)) : t = [m \in 1 .. Len(s) |-> s[f[m]]]
  BY DEF Sorted
<1> DEFINE D == 1 .. Len(s)
           T == {f[m] : m \in D}
<1>2. f \in [D -> D] /\ \A a, b \in D : f[a] = f[b] => a = b
  BY DEF Permutations
<1>3. IsFiniteSet(D)
  BY FS_Interval
<1>4. f \in Surjection(D, T) /\ f \in Injection(D, T)
  BY <1>2 DEF Surjection, Injection, IsInjective
<1>5. Cardinality(T) = Cardinality(D)
  BY <1>3, <1>4, FS_Surjection
<1>6. T \in SUBSET D
  BY <1>2
<1>7. T = D
  BY <1>3, <1>5, <1>6, FS_Subset
<1>8. PICK m \in D : f[m] = k
  BY <1>7
<1> QED
  BY <1>1, <1>8

LEMMA TypeInductive == NmsTypeOK /\ [NmsNext]_nmsVars => NmsTypeOK'
<1> SUFFICES ASSUME NmsTypeOK, [NmsNext]_nmsVars PROVE NmsTypeOK'
  OBVIOUS
<1>1. CASE Sort
  <2>1. boxes' \in Seq(Boxes) /\ Len(boxes') = Len(given)
    BY <1>1, SortedType DEF Sort, NmsTypeOK
  <2>2. remove_flags' \in [1 .. Len(boxes') -> BOOLEAN]
    BY <1>1, <2>1 DEF Sort
  <2>3. i = 1 /\ j = 1
    BY <1>1 DEF Sort, NmsTypeOK
  <2> QED
    BY <1>1, <2>1, <2>2, <2>3 DEF Sort, NmsTypeOK
<1>2. CASE SkipRemoved
  BY <1>2 DEF SkipRemoved, NmsTypeOK
<1>3. CASE Keep
  <2>1. boxes[i] \in Boxes
    BY <1>3 DEF Keep, NmsTypeOK
  <2> QED
    BY <1>3, <2>1 DEF Keep, NmsTypeOK
<1>4. CASE Compare
  <2>1. remove_flags' \in [1 .. Len(boxes) -> BOOLEAN]
    BY <1>4 DEF Compare, NmsTypeOK
  <2> QED
    BY <1>4, <2>1 DEF Compare, NmsTypeOK
<1>5. CASE EndInner
  BY <1>5 DEF EndInner, NmsTypeOK
<1>6. CASE EndOuter
  BY <1>6 DEF EndOuter, NmsTypeOK
<1>7. CASE UNCHANGED nmsVars
  BY <1>7 DEF nmsVars, NmsTypeOK
<1> QED
  BY <1>1, <1>2, <1>3, <1>4, <1>5, <1>6, <1>7 DEF NmsNext

-----------------------------------------------------------------------------
\* Box r of the result is a reason not to return box k.
Covers(r, k) ==
    /\ Suppresses(box_result[r], boxes[k])
    /\ box_result[r].confidence >= boxes[k].confidence

Results == 1 .. Len(box_result)
Indices == 1 .. Len(boxes)

\* The outer loop is past box k.
Passed(k) == k < i \/ (pc = "inner" /\ k = i)

\* Box k has been compared with box r of the result.
Compared(r, k) ==
    ~Passed(k) /\ (pc = "inner" /\ r = Len(box_result) => k < j)

\* The invariant of the two loops, in parts: the order of the boxes, the
\* reason for a mark, the fate of a box the outer loop is past, and what a box
\* without a mark has survived.
InOrder ==
    \A a, b \in Indices : a < b => boxes[a].confidence >= boxes[b].confidence
MarksHaveReasons ==
    \A k \in Indices : remove_flags[k] => \E r \in Results : Covers(r, k)
PassedAccounted ==
    \A k \in Indices :
        Passed(k) => \E r \in Results : box_result[r] = boxes[k] \/ Covers(r, k)
UnmarkedSurvived ==
    \A r \in Results, k \in Indices :
        Compared(r, k) /\ ~remove_flags[k]
            => ~Suppresses(box_result[r], boxes[k])
LastIsCurrent ==
    pc = "inner" =>
        box_result # <<>> /\ box_result[Len(box_result)] = boxes[i]

Loops ==
    /\ InOrder /\ MarksHaveReasons /\ PassedAccounted /\ UnmarkedSurvived
    /\ LastIsCurrent /\ NoOverlapLeft

\* Before the loops there is nothing to say.
LEMMA LoopsStart == NmsTypeOK /\ pc = "sort" => Loops
BY DEF NmsTypeOK, Loops, InOrder, MarksHaveReasons, PassedAccounted,
       UnmarkedSurvived, LastIsCurrent, NoOverlapLeft, Results, Indices

\* Only boxes not looked at yet follow the sorting.
LEMMA SortLoops == NmsTypeOK /\ Sort => Loops'
<1> SUFFICES ASSUME NmsTypeOK, Sort PROVE Loops'
  OBVIOUS
<1>1. /\ Len(boxes') = Len(given) /\ Len(given) \in Nat
      /\ \A a, b \in 1 .. Len(given) :
            a < b => boxes'[a].confidence >= boxes'[b].confidence
  BY SortedType DEF NmsTypeOK, Sort
<1>2. box_result' = <<>> /\ pc' = "outer" /\ i' = i
  BY DEF NmsTypeOK, Sort
<1>3. i = 1
  BY DEF NmsTypeOK, Sort
<1>4. \A k \in 1 .. Len(given) : ~remove_flags'[k]
  BY <1>1 DEF Sort
<1> QED
  BY <1>1, <1>2, <1>3, <1>4
  DEF Loops, InOrder, MarksHaveReasons, PassedAccounted, UnmarkedSurvived,
      LastIsCurrent, NoOverlapLeft, Results, Indices, Passed

LEMMA KeepLoops == NmsTypeOK /\ Loops /\ Keep => Loops'
<1> SUFFICES ASSUME NmsTypeOK, Loops, Keep PROVE Loops'
  OBVIOUS
<1> DEFINE n == Len(box_result)
<1>1. /\ Len(boxes) \in Nat /\ i \in Indices /\ ~remove_flags[i]
      /\ pc = "outer" /\ pc' = "inner" /\ j' = i + 1
      /\ UNCHANGED <<given, boxes, remove_flags, i>>
  BY DEF NmsTypeOK, Keep, Indices
<1>2. /\ n \in Nat /\ Len(box_result') = n + 1
      /\ \A r \in 1 .. n : box_result'[r] = box_result[r]
      /\ box_result'[n + 1] = boxes[i]
  BY DEF NmsTypeOK, Keep
<1>3. box_result' # <<>>
  BY <1>2
<1> HIDE DEF n
<1> USE DEF Loops, Results, Indices, Covers
<1>4. InOrder' /\ MarksHaveReasons'
  BY <1>1, <1>2 DEF InOrder, MarksHaveReasons, n
<1>5. PassedAccounted'
  <2> SUFFICES ASSUME NEW k \in Indices, Passed(k)'
               PROVE  \E r \in Results' :
                         box_result'[r] = boxes[k] \/ Covers(r, k)'
    BY <1>1 DEF PassedAccounted
  <2>1. CASE k = i
    BY <1>1, <1>2, <2>1
  <2>2. CASE k # i
    <3>1. Passed(k)
      BY <1>1, <2>2 DEF Passed
    <3>2. PICK r \in Results : box_result[r] = boxes[k] \/ Covers(r, k)
      BY <3>1 DEF PassedAccounted
    <3>3. r \in Results' /\ box_result'[r] = box_result[r]
      BY <1>2, <3>2 DEF n
    <3> QED
      BY <1>1, <3>2, <3>3
  <2> QED
    BY <2>1, <2>2
<1>6. UnmarkedSurvived'
  <2> SUFFICES ASSUME NEW r \in Results', NEW k \in Indices,
                      Compared(r, k)', ~remove_flags[k]
               PROVE  ~Suppresses(box_result'[r], boxes[k])
    BY <1>1 DEF UnmarkedSurvived
  <2>1. r \in 1 .. n
    BY <1>1, <1>2 DEF Compared, Passed
  <2>2. Compared(r, k)
    BY <1>1 DEF Compared, Passed
  <2> QED
    BY <1>2, <2>1, <2>2 DEF UnmarkedSurvived, n
<1>7. LastIsCurrent'
  BY <1>1, <1>2, <1>3 DEF LastIsCurrent
<1>8. NoOverlapLeft'
  <2> SUFFICES ASSUME NEW a \in 1 .. n + 1, NEW b \in 1 .. n + 1, a < b
               PROVE  ~Suppresses(box_result'[a], box_result'[b])
    BY <1>2 DEF NoOverlapLeft
  <2>1. a \in 1 .. n
    BY <1>2
  <2>2. CASE b \in 1 .. n
    BY <1>2, <2>1, <2>2 DEF NoOverlapLeft, n
  <2>3. CASE b = n + 1
    <3>1. Compared(a, i)
      BY <1>1 DEF Compared, Passed
    <3> QED
      BY <1>1, <1>2, <2>1, <2>3, <3>1 DEF UnmarkedSurvived, n
  <2> QED
    BY <1>2, <2>2, <2>3
<1> QED
  BY <1>4, <1>5, <1>6, <1>7, <1>8

LEMMA CompareLoops == NmsTypeOK /\ Loops /\ Compare => Loops'
<1> SUFFICES ASSUME NmsTypeOK, Loops, Compare PROVE Loops'
  OBVIOUS
<1> DEFINE last == Len(box_result)
<1>1. /\ Len(boxes) \in Nat /\ i \in Indices /\ j \in Indices /\ i < j
      /\ pc = "inner" /\ pc' = "inner" /\ j' = j + 1
      /\ UNCHANGED <<given, boxes, box_result, i>>
  BY DEF NmsTypeOK, Compare, Indices
<1>2. /\ last \in Results /\ box_result[last] = boxes[i]
  BY <1>1 DEF NmsTypeOK, Loops, LastIsCurrent, Results
<1>3. \A k \in Indices :
        remove_flags'[k] <=> \/ remove_flags[k]
                             \/ k = j /\ Suppresses(boxes[i], boxes[j])
  BY DEF NmsTypeOK, Compare, Indices, Suppresses
<1> USE DEF Loops, Results, Indices, Covers
<1>4. MarksHaveReasons'
  <2> SUFFICES ASSUME NEW k \in Indices, remove_flags'[k]
               PROVE  \E r \in Results : Covers(r, k)
    BY <1>1 DEF MarksHaveReasons
  <2>1. CASE remove_flags[k]
    BY <2>1 DEF MarksHaveReasons
  <2>2. CASE k = j /\ Suppresses(boxes[i], boxes[j])
    <3>1. boxes[i].confidence >= boxes[j].confidence
      BY <1>1 DEF InOrder
    <3> QED
      BY <1>2, <2>2, <3>1
  <2> QED
    BY <1>3, <2>1, <2>2
<1>5. UnmarkedSurvived'
  <2> SUFFICES ASSUME NEW r \in Results, NEW k \in Indices,
                      Compared(r, k)', ~remove_flags'[k]
               PROVE  ~Suppresses(box_result[r], boxes[k])
    BY <1>1 DEF UnmarkedSurvived
  <2>1. ~remove_flags[k]
    BY <1>3
  <2>2. CASE r = last /\ k = j
    BY <1>2, <1>3, <2>2
  <2>3. CASE ~(r = last /\ k = j)
    <3>1. Compared(r, k)
      BY <1>1, <2>3 DEF Compared, Passed
    <3> QED
      BY <2>1, <3>1 DEF UnmarkedSurvived
  <2> QED
    BY <2>2, <2>3
<1>6. PassedAccounted'
  BY <1>1 DEF PassedAccounted, Passed
<1> QED
  BY <1>1, <1>4, <1>5, <1>6 DEF InOrder, LastIsCurrent, NoOverlapLeft

\* A box that is skipped was marked, for a reason; one that was compared with
\* all others is past.
LEMMA NextLoops ==
    NmsTypeOK /\ Loops /\ (SkipRemoved \/ EndInner \/ EndOuter) => Loops'
<1> SUFFICES ASSUME NmsTypeOK, Loops, SkipRemoved \/ EndInner \/ EndOuter
             PROVE  Loops'
  OBVIOUS
<1>1. /\ Len(boxes) \in Nat /\ i \in 1 .. Len(boxes) + 1 /\ j \in Int
      /\ UNCHANGED <<given, boxes, box_result, remove_flags, j>>
      /\ pc' # "inner"
  BY DEF NmsTypeOK, SkipRemoved, EndInner, EndOuter
<1> USE DEF Loops, Results, Indices, Covers
<1>2. InOrder' /\ MarksHaveReasons' /\ NoOverlapLeft' /\ LastIsCurrent'
  BY <1>1 DEF InOrder, MarksHaveReasons, NoOverlapLeft, LastIsCurrent
<1>3. ASSUME NEW k \in Indices, Passed(k)'
      PROVE  Passed(k) \/ remove_flags[k]
  BY <1>1, <1>3 DEF Passed, SkipRemoved, EndInner, EndOuter
<1>4. PassedAccounted'
  <2> SUFFICES ASSUME NEW k \in Indices, Passed(k)'
               PROVE  \E r \in Results :
                         box_result[r] = boxes[k] \/ Covers(r, k)
    BY <1>1 DEF PassedAccounted
  <2> QED
    BY <1>3 DEF PassedAccounted, MarksHaveReasons
<1>5. ASSUME NEW r \in Results, NEW k \in Indices, Compared(r, k)'
      PROVE  Compared(r, k)
  <2>1. ~Passed(k)'
    BY <1>5 DEF Compared
  <2>2. CASE SkipRemoved \/ EndOuter
    BY <1>1, <2>1, <2>2 DEF Compared, Passed, SkipRemoved, EndOuter
  <2>3. CASE EndInner
    BY <1>1, <2>1, <2>3 DEF Compared, Passed, EndInner
  <2> QED
    BY <2>2, <2>3
<1>6. UnmarkedSurvived'
  BY <1>1, <1>5 DEF UnmarkedSurvived
<1> QED
  BY <1>2, <1>4, <1>6

LEMMA LoopsInductive == NmsTypeOK /\ Loops /\ [NmsNext]_nmsVars => Loops'
<1> SUFFICES ASSUME NmsTypeOK, Loops, [NmsNext]_nmsVars PROVE Loops'
  OBVIOUS
<1>1. CASE UNCHANGED nmsVars
  BY <1>1
  DEF nmsVars, Loops, InOrder, MarksHaveReasons, PassedAccounted,
      UnmarkedSurvived, LastIsCurrent, NoOverlapLeft, Covers, Results,
      Indices, Passed, Compared
<1> QED
  BY <1>1, SortLoops, KeepLoops, CompareLoops, NextLoops DEF NmsNext

-----------------------------------------------------------------------------
LEMMA TypeStart == NmsInit => NmsTypeOK
<1> SUFFICES ASSUME NmsInit PROVE NmsTypeOK
  OBVIOUS
<1>1. given \in Seq(Boxes)
  BY NmsAssumption DEF NmsInit
<1>2. /\ <<>> \in Seq(Boxes) /\ Len(<<>>) = 0
      /\ <<>> \in [1 .. 0 -> BOOLEAN]
  OBVIOUS
<1> QED
  BY <1>1, <1>2 DEF NmsInit, NmsTypeOK

\* The variables keep their types and the loops their bounds.
THEOREM TypeCorrect == NmsSpec => []NmsTypeOK
BY TypeStart, TypeInductive, PTL DEF NmsSpec

LEMMA LoopsKept == NmsSpec => []Loops
<1>1. NmsInit => Loops
  BY TypeStart, LoopsStart DEF NmsInit
<1> QED
  BY <1>1, LoopsInductive, TypeCorrect, PTL DEF NmsSpec

\* Of any two boxes returned, the more confident one does not suppress the
\* other, for every vector of boxes and every threshold.
THEOREM NoOverlapIsLeft == NmsSpec => []NoOverlapLeft
<1>1. Loops => NoOverlapLeft
  BY DEF Loops
<1> QED
  BY <1>1, LoopsKept, PTL

\* The boxes as they were given are those the loops worked on, in some order.
SameBoxes ==
    pc # "sort" =>
        \A k \in 1 .. Len(given) : \E m \in 1 .. Len(given) : boxes[m] = given[k]

LEMMA SameInductive ==
    NmsTypeOK /\ SameBoxes /\ [NmsNext]_nmsVars => SameBoxes'
<1> SUFFICES ASSUME NmsTypeOK, SameBoxes, [NmsNext]_nmsVars
             PROVE  SameBoxes'
  OBVIOUS
<1>1. CASE Sort
  <2>1. given \in Seq(Boxes) /\ boxes' \in Sorted(given) /\ given' = given
    BY <1>1 DEF NmsTypeOK, Sort
  <2> QED
    BY <2>1, SortedKeeps DEF SameBoxes
<1>2. CASE SkipRemoved \/ Keep \/ Compare \/ EndInner \/ EndOuter
  BY <1>2
  DEF SkipRemoved, Keep, Compare, EndInner, EndOuter, SameBoxes
<1>3. CASE UNCHANGED nmsVars
  BY <1>3 DEF nmsVars, SameBoxes
<1> QED
  BY <1>1, <1>2, <1>3 DEF NmsNext

\* A box that is not returned overlaps one that is, of its class and at least
\* as confident, however std::sort orders boxes of equal confidence.
THEOREM BoxesAccounted == NmsSpec => []EveryBoxAccounted
<1>1. NmsInit => SameBoxes
  BY DEF NmsInit, SameBoxes
<1>2. NmsTypeOK /\ Loops /\ SameBoxes => EveryBoxAccounted
  <2> SUFFICES ASSUME NmsTypeOK, Loops, SameBoxes, pc = "done",
                      NEW k \in 1 .. Len(given)
               PROVE  \E r \in 1 .. Len(box_result) :
                        \/ box_result[r] = given[k]
                        \/ /\ box_result[r].label = given[k].label
                           /\ IouReached(box_result[r], given[k])
                           /\ box_result[r].confidence >= given[k].confidence
    BY DEF EveryBoxAccounted
  <2>1. PICK m \in 1 .. Len(given) : boxes[m] = given[k]
    BY DEF SameBoxes
  <2>2. m \in Indices /\ Passed(m)
    BY DEF NmsTypeOK, Indices, Passed
  <2>3. PICK r \in Results : box_result[r] = boxes[m] \/ Covers(r, m)
    BY <2>2 DEF Loops, PassedAccounted
  <2> QED
    BY <2>1, <2>3 DEF Results, Covers, Suppresses
<1> QED
  BY <1>1, <1>2, SameInductive, TypeCorrect, LoopsKept, PTL DEF NmsSpec

-----------------------------------------------------------------------------
\* A mark has its reason in a box without one that the outer loop has reached,
\* and what such a box was compared with and suppresses is marked.
Reached(r) == Passed(r) /\ ~remove_flags[r]
Met(r, k) == r < k /\ (r < i \/ k < j)

MarkedForReached ==
    \A k \in Indices : remove_flags[k] =>
        \E r \in Indices : r < k /\ Reached(r) /\ Suppresses(boxes[r], boxes[k])
MetAreMarked ==
    \A r, k \in Indices :
        Reached(r) /\ Met(r, k) /\ Suppresses(boxes[r], boxes[k])
            => remove_flags[k]

\* place lists the boxes reached, in the order of the result.
Lists(place) ==
    /\ place \in [Results -> {k \in Indices : Reached(k)}]
    /\ \A a, b \in Results : a < b => place[a] < place[b]
    /\ \A k \in Indices : Reached(k) => \E a \in Results : place[a] = k
    /\ \A a \in Results : box_result[a] = boxes[place[a]]

CurrentIsKept == pc = "inner" => ~remove_flags[i]

Greedy ==
    /\ MarkedForReached /\ MetAreMarked /\ CurrentIsKept
    /\ \E place : Lists(place)

\* Nothing is compared yet.
Fresh ==
    /\ Len(boxes) \in Nat /\ i = 1 /\ pc # "inner" /\ box_result = <<>>
    /\ \A k \in Indices : ~remove_flags[k]

LEMMA GreedyStart == Fresh => Greedy
<1> SUFFICES ASSUME Fresh PROVE Greedy
  OBVIOUS
<1> USE DEF Fresh
<1>1. \A k \in Indices : ~Reached(k)
  BY DEF Reached, Passed, Indices
<1>2. MarkedForReached /\ MetAreMarked /\ CurrentIsKept
  BY <1>1 DEF MarkedForReached, MetAreMarked, CurrentIsKept
<1>3. Results = {}
  BY DEF Results
<1>4. \E place : Lists(place)
  <2>1. Lists([a \in {} |-> 0])
    BY <1>1, <1>3 DEF Lists
  <2> QED
    BY <2>1
<1> QED
  BY <1>2, <1>4 DEF Greedy

\* Where the boxes, the marks and the result stay and no other box is reached,
\* the list stays.
LEMMA SameList ==
    ASSUME UNCHANGED <<boxes, box_result>>,
           \A k \in Indices : Reached(k)' <=> Reached(k),
           NEW place, Lists(place)
    PROVE  Lists(place)'
<1>1. Indices' = Indices /\ Results' = Results
  BY DEF Indices, Results
<1>2. {k \in Indices : Reached(k)'} = {k \in Indices : Reached(k)}
  OBVIOUS
<1> QED
  BY <1>1, <1>2 DEF Lists

Longer(place, n, k) ==
    [a \in 1 .. n + 1 |-> IF a = n + 1 THEN k ELSE place[a]]

LEMMA KeepGreedy == NmsTypeOK /\ Greedy /\ Keep => Greedy'
<1> SUFFICES ASSUME NmsTypeOK, Greedy, Keep PROVE Greedy'
  OBVIOUS
<1> DEFINE n == Len(box_result)
<1>1. /\ Len(boxes) \in Nat /\ i \in Indices /\ ~remove_flags[i]
      /\ pc = "outer" /\ pc' = "inner" /\ j' = i + 1
      /\ UNCHANGED <<boxes, remove_flags, i>>
  BY DEF NmsTypeOK, Keep, Indices
<1>2. /\ n \in Nat /\ Len(box_result') = n + 1
      /\ \A r \in 1 .. n : box_result'[r] = box_result[r]
      /\ box_result'[n + 1] = boxes[i]
  BY DEF NmsTypeOK, Keep
<1> HIDE DEF n
<1>3. Indices' = Indices /\ Results = 1 .. n /\ Results' = 1 .. n + 1
      /\ Indices = 1 .. Len(boxes)
  BY <1>1, <1>2 DEF Indices, Results, n
<1>4. \A k \in Indices : Reached(k)' <=> Reached(k) \/ k = i
  BY <1>1, <1>3 DEF Reached, Passed
<1>5. \A k \in Indices : Reached(k) => k < i
  BY <1>1 DEF Reached, Passed
<1>6. MarkedForReached'
  BY <1>1, <1>3, <1>4 DEF Greedy, MarkedForReached
<1>7. MetAreMarked'
  <2> SUFFICES ASSUME NEW r \in Indices, NEW k \in Indices, Reached(r)',
                      Met(r, k)', Suppresses(boxes[r], boxes[k])
               PROVE  remove_flags[k]
    BY <1>1, <1>3 DEF MetAreMarked
  <2>1. r # i
    BY <1>1, <1>3 DEF Met
  <2>2. Reached(r) /\ r < i
    BY <1>4, <1>5, <2>1
  <2>3. Met(r, k)
    BY <2>2 DEF Met
  <2> QED
    BY <2>2, <2>3 DEF Greedy, MetAreMarked
<1>8. PICK place : Lists(place)
  BY DEF Greedy
<1>9. PICK longer : longer = Longer(place, n, i)
  OBVIOUS
<1>10. /\ \A a \in 1 .. n : place[a] \in Indices /\ Reached(place[a])
       /\ \A a, b \in 1 .. n : a < b => place[a] < place[b]
       /\ \A k \in Indices : Reached(k) => \E a \in 1 .. n : place[a] = k
       /\ \A a \in 1 .. n : box_result[a] = boxes[place[a]]
  BY <1>3, <1>8 DEF Lists
<1>11. /\ longer[n + 1] = i
       /\ \A a \in 1 .. n : longer[a] = place[a]
       /\ DOMAIN longer = 1 .. n + 1
  BY <1>2, <1>9 DEF Longer
<1>12. \A a \in 1 .. n + 1 : a # n + 1 => a \in 1 .. n
  BY <1>2
<1> DEFINE Later == {k \in Indices : Reached(k)'}
<1>13. \A k \in Indices : k \in Later <=> Reached(k) \/ k = i
  BY <1>4
<1> HIDE DEF Later
<1>14. longer \in [1 .. n + 1 -> Later]
  <2>1. i \in Later /\ \A a \in 1 .. n : place[a] \in Later
    BY <1>1, <1>10, <1>13
  <2>2. \A a \in 1 .. n + 1 : (IF a = n + 1 THEN i ELSE place[a]) \in Later
    BY <1>12, <2>1
  <2> QED
    BY <1>9, <2>2 DEF Longer
<1>15. \A a, b \in 1 .. n + 1 : a < b => longer[a] < longer[b]
  <2> SUFFICES ASSUME NEW a \in 1 .. n + 1, NEW b \in 1 .. n + 1, a < b
               PROVE  longer[a] < longer[b]
    OBVIOUS
  <2>1. a \in 1 .. n
    BY <1>2
  <2>2. CASE b = n + 1
    BY <1>5, <1>10, <1>11, <2>1, <2>2
  <2>3. CASE b # n + 1
    BY <1>10, <1>11, <1>12, <2>1, <2>3
  <2> QED
    BY <2>2, <2>3
<1>16. \A k \in Indices : Reached(k)' => \E a \in 1 .. n + 1 : longer[a] = k
  <2> SUFFICES ASSUME NEW k \in Indices, Reached(k)'
               PROVE  \E a \in 1 .. n + 1 : longer[a] = k
    OBVIOUS
  <2>1. CASE k = i
    BY <1>2, <1>11, <2>1
  <2>2. CASE k # i
    <3>1. Reached(k)
      BY <1>4, <2>2
    <3>2. PICK a \in 1 .. n : place[a] = k
      BY <1>10, <3>1
    <3> QED
      BY <1>2, <1>11, <3>2
  <2> QED
    BY <2>1, <2>2
<1>17. \A a \in 1 .. n + 1 : box_result'[a] = boxes[longer[a]]
  <2> SUFFICES ASSUME NEW a \in 1 .. n + 1
               PROVE  box_result'[a] = boxes[longer[a]]
    OBVIOUS
  <2>1. CASE a = n + 1
    BY <1>2, <1>11, <2>1
  <2>2. CASE a # n + 1
    BY <1>2, <1>10, <1>11, <1>12, <2>2
  <2> QED
    BY <2>1, <2>2
<1>18. Lists(longer)'
  BY <1>1, <1>3, <1>14, <1>15, <1>16, <1>17 DEF Lists, Later
<1> QED
  BY <1>1, <1>6, <1>7, <1>18 DEF Greedy, CurrentIsKept

LEMMA CompareGreedy == NmsTypeOK /\ Greedy /\ Compare => Greedy'
<1> SUFFICES ASSUME NmsTypeOK, Greedy, Compare PROVE Greedy'
  OBVIOUS
<1>1. /\ Len(boxes) \in Nat /\ i \in Indices /\ j \in Indices /\ i < j
      /\ pc = "inner" /\ pc' = "inner" /\ j' = j + 1
      /\ UNCHANGED <<boxes, box_result, i>>
      /\ Indices' = Indices /\ Indices = 1 .. Len(boxes)
  BY DEF NmsTypeOK, Compare, Indices
<1>2. \A k \in Indices :
        remove_flags'[k] <=> \/ remove_flags[k]
                             \/ k = j /\ Suppresses(boxes[i], boxes[j])
  BY DEF NmsTypeOK, Compare, Indices, Suppresses
<1>3. \A k \in Indices : (Passed(k)' <=> Passed(k)) /\ (Passed(k) => k # j)
  BY <1>1 DEF Passed
<1>4. \A k \in Indices : Reached(k)' <=> Reached(k)
  BY <1>2, <1>3 DEF Reached
<1>5. PICK place : Lists(place)
  BY DEF Greedy
<1>6. Lists(place)'
  BY <1>1, <1>4, <1>5, SameList
<1>7. Reached(i)
  BY <1>1 DEF Greedy, CurrentIsKept, Reached, Passed
<1>8. CurrentIsKept'
  BY <1>1, <1>2 DEF Greedy, CurrentIsKept
<1>9. MarkedForReached'
  <2> SUFFICES ASSUME NEW k \in Indices, remove_flags'[k]
               PROVE  \E r \in Indices : r < k /\ Reached(r)
                                         /\ Suppresses(boxes[r], boxes[k])
    BY <1>1, <1>4 DEF MarkedForReached
  <2>1. CASE remove_flags[k]
    BY <2>1 DEF Greedy, MarkedForReached
  <2>2. CASE k = j /\ Suppresses(boxes[i], boxes[j])
    BY <1>1, <1>7, <2>2
  <2> QED
    BY <1>2, <2>1, <2>2
<1>10. MetAreMarked'
  <2> SUFFICES ASSUME NEW r \in Indices, NEW k \in Indices, Reached(r),
                      r < k, r < i \/ k < j + 1,
                      Suppresses(boxes[r], boxes[k])
               PROVE  remove_flags'[k]
    BY <1>1, <1>4 DEF MetAreMarked, Met
  <2>1. CASE Met(r, k)
    BY <1>2, <2>1 DEF Greedy, MetAreMarked
  <2>2. CASE ~Met(r, k)
    <3>1. k = j /\ ~(r < i)
      BY <1>1, <2>2 DEF Met
    <3>2. r = i
      BY <1>1, <3>1 DEF Reached, Passed
    <3> QED
      BY <1>2, <3>1, <3>2
  <2> QED
    BY <2>1, <2>2
<1> QED
  BY <1>6, <1>8, <1>9, <1>10 DEF Greedy

LEMMA NextGreedy ==
    NmsTypeOK /\ Greedy /\ (SkipRemoved \/ EndInner \/ EndOuter) => Greedy'
<1> SUFFICES ASSUME NmsTypeOK, Greedy, SkipRemoved \/ EndInner \/ EndOuter
             PROVE  Greedy'
  OBVIOUS
<1>1. /\ Len(boxes) \in Nat /\ i \in 1 .. Len(boxes) + 1 /\ j \in Int
      /\ UNCHANGED <<boxes, box_result, remove_flags, j>>
      /\ pc' # "inner"
      /\ Indices' = Indices /\ Indices = 1 .. Len(boxes)
  BY DEF NmsTypeOK, SkipRemoved, EndInner, EndOuter, Indices
<1>2. \A k \in Indices : Reached(k)' <=> Reached(k)
  BY <1>1 DEF Reached, Passed, SkipRemoved, EndInner, EndOuter
<1>3. PICK place : Lists(place)
  BY DEF Greedy
<1>4. Lists(place)'
  BY <1>1, <1>2, <1>3, SameList
<1>5. MarkedForReached'
  BY <1>1, <1>2 DEF Greedy, MarkedForReached
<1>6. \A r, k \in Indices : Reached(r) /\ Met(r, k)' => Met(r, k)
  BY <1>1 DEF Met, Reached, Passed, SkipRemoved, EndInner, EndOuter
<1>7. MetAreMarked'
  BY <1>1, <1>2, <1>6 DEF Greedy, MetAreMarked
<1> QED
  BY <1>1, <1>4, <1>5, <1>7 DEF Greedy, CurrentIsKept

LEMMA GreedyInductive == NmsTypeOK /\ Greedy /\ [NmsNext]_nmsVars => Greedy'
<1> SUFFICES ASSUME NmsTypeOK, Greedy, [NmsNext]_nmsVars PROVE Greedy'
  OBVIOUS
<1>1. CASE Sort
  <2>1. /\ Len(boxes') \in Nat /\ i' = 1 /\ pc' # "inner"
        /\ box_result' = <<>>
    BY <1>1, SortedType DEF NmsTypeOK, Sort
  <2>2. \A k \in Indices' : ~remove_flags'[k]
    BY <1>1, SortedType DEF NmsTypeOK, Sort, Indices
  <2>3. Fresh'
    BY <2>1, <2>2 DEF Fresh, Indices
  <2> QED
    BY <2>3, GreedyStart, PTL
<1>2. CASE UNCHANGED nmsVars
  <2>1. /\ \A k \in Indices : Reached(k)' <=> Reached(k)
        /\ Indices' = Indices /\ UNCHANGED nmsVars
    BY <1>2 DEF nmsVars, Indices, Reached, Passed
  <2>2. \E place : Lists(place)'
    BY <2>1, SameList DEF Greedy, nmsVars
  <2> QED
    BY <2>1, <2>2
    DEF nmsVars, Greedy, MarkedForReached, MetAreMarked, CurrentIsKept, Met
<1> QED
  BY <1>1, <1>2, KeepGreedy, CompareGreedy, NextGreedy DEF NmsNext

\* Nms returns the greedy choice, in order and without repetition, for every
\* vector of boxes and every threshold.
THEOREM GreedyChoice == NmsSpec => []ResultIsGreedy
<1>1. NmsInit => Greedy
  <2> SUFFICES ASSUME NmsInit PROVE Greedy
    OBVIOUS
  <2>1. Fresh
    BY DEF NmsInit, Indices, Fresh
  <2> QED
    BY <2>1, GreedyStart
<1>2. NmsTypeOK /\ Greedy => ResultIsGreedy
  <2> SUFFICES ASSUME NmsTypeOK, Greedy, pc = "done" PROVE ResultIsGreedy
    BY DEF ResultIsGreedy
  <2>1. /\ Len(boxes) \in Nat /\ i = Len(boxes) + 1
        /\ Indices = 1 .. Len(boxes)
    BY DEF NmsTypeOK, Indices
  <2>2. \A k \in Indices : Reached(k) <=> k \in Unmarked
    BY <2>1 DEF Reached, Passed, Unmarked, Indices
  <2>3. ASSUME NEW s \in Indices
        PROVE  s \in Unmarked <=>
                  \A r \in Unmarked : r < s => ~Suppresses(boxes[r], boxes[s])
    <3>1. CASE s \in Unmarked
      <4> SUFFICES ASSUME NEW r \in Unmarked, r < s
                   PROVE  ~Suppresses(boxes[r], boxes[s])
        BY <3>1
      <4>1. r \in Indices /\ Reached(r) /\ Met(r, s)
        BY <2>1, <2>2 DEF Met, Unmarked
      <4> QED
        BY <3>1, <4>1 DEF Greedy, MetAreMarked, Unmarked
    <3>2. CASE s \notin Unmarked
      <4>1. remove_flags[s]
        BY <2>1, <3>2 DEF Unmarked
      <4>2. PICK r \in Indices : r < s /\ Reached(r)
                                /\ Suppresses(boxes[r], boxes[s])
        BY <4>1 DEF Greedy, MarkedForReached
      <4> QED
        BY <2>2, <3>2, <4>2
    <3> QED
      BY <3>1, <3>2
  <2>4. PICK place : Lists(place)
    BY DEF Greedy
  <2>5. {k \in Indices : Reached(k)} = Unmarked
    BY <2>1, <2>2 DEF Unmarked
  <2>6. /\ place \in [1 .. Len(box_result) -> Unmarked]
        /\ \A a, b \in 1 .. Len(box_result) : a < b => place[a] < place[b]
        /\ \A k \in Unmarked : \E a \in 1 .. Len(box_result) : place[a] = k
        /\ \A a \in 1 .. Len(box_result) : box_result[a] = boxes[place[a]]
    BY <2>4, <2>5 DEF Lists, Results
  <2> QED
    BY <2>1, <2>3, <2>6 DEF ResultIsGreedy
<1> QED
  BY <1>1, <1>2, GreedyInductive, TypeCorrect, PTL DEF NmsSpec
=============================================================================
