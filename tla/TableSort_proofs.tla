-------------------------- MODULE TableSort_proofs --------------------------
(***************************************************************************)
(* Theorems about TableSort and TableLibrary for tables of every size and  *)
(* every comparator.                                                       *)
(*                                                                         *)
(* Fits says what the locals of sortRec, sortHeap and siftHeap satisfy at  *)
(* each comparison; no bound on them is left to the comparator's answers.  *)
(* Halved says that a frame holds at most half of what the one below it    *)
(* held, so that the calls are no deeper than the logarithm of the length. *)
(* Ordering says what a sort by an order has put in order so far: any two  *)
(* values that no call has still to sort, the sides of the pivot while     *)
(* sortRec splits its range, and the heap but for the value siftHeap is    *)
(* moving down.  Last come the loops of the library, by induction on their *)
(* index, and that its operations keep all of this.                        *)
(***************************************************************************)
EXTENDS TableLibrary, Lemmas, FiniteSetTheorems, SequenceTheorems, TLAPS

\* siftHeap's count in a range.
CountIn(l, u, p) == IF p.phase = "build" THEN u - l + 1 ELSE p.i

Sifting == {"sift", "left", "right", "last"}
Heaping == {"heap"} \cup Sifting

\* A point of sortRec fits its range.
Fits(l, u, p) ==
    /\ l < u
    /\ p.pc \in {"middle", "above"} => l + 2 <= u
    /\ p.pc = "pivot" => l + 2 <= u /\ p.i = l /\ p.j = u - 1
    /\ p.pc = "up"    => l + 3 <= u /\ p.i \in l + 1 .. u /\ p.j \in l + 1 .. u - 1
    /\ p.pc = "down"  => l + 3 <= u /\ p.i \in l + 1 .. u /\ p.j \in l .. u - 2
    /\ p.pc \in Heaping => /\ p.phase \in {"build", "take"}
                           /\ p.phase = "build" => p.i \in -1 .. u - l
                           /\ p.phase = "take"  => p.i \in 0 .. u - l
    /\ p.pc \in Sifting => /\ p.root >= 0
                           /\ p.i >= (IF p.phase = "build" THEN 0 ELSE 1)
    /\ p.pc \in {"left", "right"} => RightOf(p.root) < CountIn(l, u, p)
    /\ p.pc = "left"  => p.next = p.root
    /\ p.pc = "right" => p.next \in {p.root, LeftOf(p.root)}
    /\ p.pc = "last"  => LeftOf(p.root) = CountIn(l, u, p) - 1

WellPlaced(fs, p) ==
    /\ fs \in Seq(FrameSet)
    /\ p \in PointSet
    /\ p.pc \notin {"idle", "loop"} => /\ fs # <<>>
                                       /\ Fits(fs[Len(fs)].l, fs[Len(fs)].u, p)

IInv ==
    /\ TypeOK
    /\ WellPlaced(frames, at)
    /\ KeepsElements

-----------------------------------------------------------------------------
(* A swap keeps what is in the table. *)

LEMMA SwappedType ==
    ASSUME NEW S, NEW t \in [Keys -> S], NEW i \in Keys, NEW j \in Keys
    PROVE  Swapped(t, i, j) \in [Keys -> S]
BY DEF Swapped

LEMMA SwapKeeps ==
    ASSUME NEW S, NEW t \in [Keys -> S], NEW i \in Keys, NEW j \in Keys
    PROVE  Occurrences(Swapped(t, i, j)) = Occurrences(t)
<1> DEFINE r == Swapped(t, i, j)
           other(k) == IF k = i THEN j ELSE IF k = j THEN i ELSE k
<1>1. \A k \in Keys : other(k) \in Keys /\ other(other(k)) = k /\ r[other(k)] = t[k]
  BY DEF Swapped
<1>2. IsFiniteSet(Keys)
  BY FS_Interval, SortAssumption DEF Keys
<1>3. ASSUME NEW v
      PROVE  Cardinality({k \in Keys : r[k] = v}) = Cardinality({k \in Keys : t[k] = v})
  <2> DEFINE A == {k \in Keys : t[k] = v}
             B == {k \in Keys : r[k] = v}
             f == [k \in A |-> other(k)]
  <2> HIDE DEF r
  <2>1. IsFiniteSet(A)
    BY <1>2, FS_Subset
  <2>2. f \in [A -> B]
    BY <1>1
  <2>3. \A k, m \in A : f[k] = f[m] => k = m
    BY <1>1
  <2>4. \A m \in B : \E k \in A : f[k] = m
    <3> SUFFICES ASSUME NEW m \in B PROVE \E k \in A : f[k] = m
      OBVIOUS
    <3>1. other(m) \in Keys /\ other(other(m)) = m
      BY <1>1
    <3>2. t[other(m)] = r[m]
      BY <1>1, <3>1
    <3>3. other(m) \in A
      BY <3>1, <3>2
    <3> QED
      BY <3>1, <3>3
  <2>5. f \in Bijection(A, B)
    BY <2>2, <2>3, <2>4 DEF Bijection, Injection, Surjection, IsInjective
  <2>6. ExistsBijection(A, B)
    BY <2>5 DEF ExistsBijection
  <2> QED
    BY <2>1, <2>6, FS_Bijection
<1> QED
  BY <1>3 DEF Occurrences

LEMMA OccurrencesType ==
    ASSUME NEW t
    PROVE  Occurrences(t) \in [Values -> Nat]
<1>1. IsFiniteSet(Keys)
  BY FS_Interval, SortAssumption DEF Keys
<1>2. ASSUME NEW v PROVE Cardinality({k \in Keys : t[k] = v}) \in Nat
  BY <1>1, FS_Subset, FS_CardinalityType
<1> QED
  BY <1>2 DEF Occurrences

LEMMA LimitType ==
    ASSUME NEW n \in Keys, NEW limit \in Limits \cup {SortLimit(n)}
    PROVE  limit \in Nat
<1>1. IsFiniteSet(1 .. n)
  BY FS_Interval, SortAssumption DEF Keys
<1>2. Ilog2(n) \in Nat
  BY <1>1, FS_Subset, FS_CardinalityType DEF Ilog2
<1> QED
  BY <1>2, SortAssumption DEF SortLimit
-----------------------------------------------------------------------------
(* What the parts of a step come to. *)

Kept == /\ UNCHANGED <<frozen, order, sorted>>
        /\ IInv

LEMMA Ended ==
    ASSUME Kept, NEW why, End(why), UNCHANGED tab,
           why \in {"sorted", "raised", "invalid", "modified", "readonly"}
    PROVE  IInv'
<1>1. Idle \in PointSet /\ Idle.pc = "idle"
  BY DEF Idle, Goto, Partition, PointSet, Points
<1>2. WellPlaced(frames', at')
  BY <1>1 DEF End, WellPlaced
<1>3. TypeOK'
  BY <1>1 DEF Kept, IInv, TypeOK, End
<1>4. KeepsElements'
  BY DEF Kept, IInv, KeepsElements
<1> QED
  BY <1>2, <1>3, <1>4 DEF IInv

LEMMA Stayed ==
    ASSUME Kept, NEW fs, NEW point, WellPlaced(fs, point), StayAndGo(fs, point)
    PROVE  IInv'
<1>1. WellPlaced(frames', at')
  BY DEF StayAndGo, GoOn
<1>2. TypeOK'
  BY <1>1 DEF Kept, IInv, TypeOK, StayAndGo, GoOn, WellPlaced
<1>3. KeepsElements'
  BY DEF Kept, IInv, KeepsElements, StayAndGo
<1> QED
  BY <1>1, <1>2, <1>3 DEF IInv

LEMMA SwappedAndWent ==
    ASSUME Kept, NEW fs, NEW point, WellPlaced(fs, point),
           NEW i \in Keys, NEW j \in Keys, SwapAndGo(i, j, fs, point)
    PROVE  IInv'
<1>1. CASE Refused(i, j)
  BY <1>1, Ended DEF Refused
<1>2. CASE Swap(i, j) /\ GoOn(fs, point)
  <2>1. tab \in [Keys -> Values \cup {Nil}]
    BY DEF Kept, IInv, TypeOK
  <2>2. tab' \in [Keys -> Values \cup {Nil}] /\ Occurrences(tab') = Occurrences(tab)
    BY <1>2, <2>1, SwappedType, SwapKeeps DEF Swap
  <2>3. WellPlaced(frames', at')
    BY <1>2 DEF GoOn
  <2>4. TypeOK'
    BY <1>2, <2>2, <2>3 DEF Kept, IInv, TypeOK, GoOn, WellPlaced
  <2>5. KeepsElements'
    BY <2>2 DEF Kept, IInv, KeepsElements
  <2> QED
    BY <2>3, <2>4, <2>5 DEF IInv
<1> QED
  BY <1>1, <1>2 DEF SwapAndGo

\* The range of the innermost call.
LEMMA InnermostRange ==
    ASSUME IInv, at.pc \notin {"idle", "loop"}
    PROVE  /\ frames \in Seq(FrameSet) /\ frames # <<>>
           /\ Here \in FrameSet
           /\ L \in Nat \ {0} /\ U \in Int /\ L .. U \subseteq Keys
           /\ Fits(L, U, at)
<1>1. frames \in Seq(FrameSet) /\ frames # <<>> /\ Fits(L, U, at)
  BY DEF IInv, WellPlaced, L, U, Here
<1>2. Len(frames) \in 1 .. Len(frames) /\ Here \in FrameSet
  BY <1>1 DEF Here
<1>3. L \in Nat \ {0} /\ U \in Keys
  BY <1>2 DEF L, U, FrameSet
<1> QED
  BY <1>1, <1>2, <1>3, SortAssumption DEF Keys

LEMMA ReturnedPlace ==
    ASSUME IInv, frames # <<>>
    PROVE  WellPlaced(Returned, Goto("loop"))
<1>1. frames \in Seq(FrameSet) /\ Len(frames) - 1 \in 0 .. Len(frames)
  BY DEF IInv, TypeOK
<1>2. Returned \in Seq(FrameSet)
  BY <1>1 DEF Returned
<1>3. Goto("loop") \in PointSet /\ Goto("loop").pc = "loop"
  BY DEF Goto, Partition, PointSet, Points
<1> QED
  BY <1>2, <1>3 DEF WellPlaced

\* A point of the same call.
LEMMA SamePlace ==
    ASSUME IInv, at.pc \notin {"idle", "loop"},
           NEW point \in PointSet, Fits(L, U, point)
    PROVE  WellPlaced(frames, point)
BY InnermostRange DEF WellPlaced, L, U, Here

\* The points of the partition and of the heap.
LEMMA PartitionFits ==
    ASSUME NEW l \in Int, NEW u \in Int, NEW pc \in {"pivot", "up", "down"},
           NEW i \in Int, NEW j \in Int, l + 2 <= u,
           pc = "pivot" => i = l /\ j = u - 1,
           pc # "pivot" => l + 3 <= u /\ i \in l + 1 .. u,
           pc = "up"    => j \in l + 1 .. u - 1,
           pc = "down"  => j \in l .. u - 2
    PROVE  Partition(pc, i, j) \in PointSet /\ Fits(l, u, Partition(pc, i, j))
<1>1. pc \in Points
  BY DEF Points, Comparisons
<1> DEFINE p == Partition(pc, i, j)
<1>2. p \in PointSet /\ p.pc = pc /\ p.i = i /\ p.j = j
  BY <1>1 DEF Partition, PointSet
<1> HIDE DEF p
<1>3. Fits(l, u, p)
  BY <1>2 DEF Fits, Heaping, Sifting
<1> QED
  BY <1>2, <1>3 DEF p

LEMMA HeapFits ==
    ASSUME NEW l \in Int, NEW u \in Int, l < u, NEW phase \in {"build", "take"},
           NEW k \in Int,
           phase = "build" => k \in -1 .. u - l,
           phase = "take"  => k \in 0 .. u - l
    PROVE  HeapAt(phase, k) \in PointSet /\ Fits(l, u, HeapAt(phase, k))
<1> DEFINE p == HeapAt(phase, k)
<1>1. p \in PointSet /\ p.pc = "heap" /\ p.phase = phase /\ p.i = k
  BY DEF HeapAt, HeapPoint, PointSet, Points
<1> HIDE DEF p
<1>2. Fits(l, u, p)
  BY <1>1 DEF Fits, Heaping, Sifting
<1> QED
  BY <1>1, <1>2 DEF p
-----------------------------------------------------------------------------
(* The steps of a sort, one lemma each. *)

LEMMA LoopEndsKeeps == Kept /\ LoopEnds => IInv'
<1> SUFFICES ASSUME Kept, LoopEnds PROVE IInv'
  OBVIOUS
<1>1. CASE frames = <<>>
  BY <1>1, Ended DEF LoopEnds
<1>2. CASE frames # <<>>
  <2>1. StayAndGo(Returned, Goto("loop"))
    BY <1>2 DEF LoopEnds
  <2> QED
    BY <1>2, <2>1, ReturnedPlace, Stayed DEF Kept
<1> QED
  BY <1>1, <1>2

LEMMA LoopGoesOnKeeps == Kept /\ LoopGoesOn => IInv'
<1> SUFFICES ASSUME Kept, LoopGoesOn PROVE IInv'
  OBVIOUS
<1> DEFINE heap == HeapAt("build", (U - L + 1) \div 2 - 1)
<1>1. frames \in Seq(FrameSet) /\ frames # <<>> /\ L < U
  BY DEF Kept, IInv, TypeOK, LoopGoesOn
<1>2. Len(frames) \in 1 .. Len(frames)
  BY <1>1
<1>3. Here \in FrameSet
  BY <1>1, <1>2 DEF Here
<1>4. L \in Int /\ U \in Int
  BY <1>3, SortAssumption DEF L, U, FrameSet, Keys
<1>5. Goto("ends") \in PointSet /\ Fits(L, U, Goto("ends"))
  BY <1>1 DEF Goto, Partition, PointSet, Points, Comparisons, Fits, Heaping, Sifting
<1>6. (U - L + 1) \div 2 - 1 \in 0 .. U - L
  BY <1>1, <1>4
<1>7. heap \in PointSet /\ Fits(L, U, heap)
  BY <1>1, <1>4, <1>6, HeapFits
<1>8. WellPlaced(frames, Goto("ends")) /\ WellPlaced(frames, heap)
  BY <1>1, <1>5, <1>7 DEF WellPlaced, L, U, Here
<1> QED
  BY <1>8, Stayed DEF LoopGoesOn

LEMMA OrderEndsKeeps == ASSUME NEW yes PROVE Kept /\ OrderEnds(yes) => IInv'
<1> SUFFICES ASSUME Kept, OrderEnds(yes) PROVE IInv'
  OBVIOUS
<1> DEFINE point == IF U - L = 1 THEN Goto("loop") ELSE Goto("middle")
           rest  == IF U - L = 1 THEN Returned ELSE frames
<1>1. at.pc = "ends" /\ IInv
  BY DEF OrderEnds, Less, Kept
<1>2. /\ L \in Int /\ U \in Int /\ L < U /\ frames # <<>>
      /\ L \in Keys /\ U \in Keys
  BY <1>1, InnermostRange DEF Fits
<1>3. WellPlaced(rest, point)
  <2>1. CASE U - L = 1
    BY <1>1, <1>2, <2>1, ReturnedPlace
  <2>2. CASE U - L # 1
    <3>1. Goto("middle") \in PointSet /\ Fits(L, U, Goto("middle"))
      BY <1>2, <2>2 DEF Goto, Partition, PointSet, Points, Comparisons, Fits, Heaping, Sifting
    <3> QED
      BY <1>1, <2>2, <3>1, SamePlace
  <2> QED
    BY <2>1, <2>2
<1>4. SwapAndGo(L, U, rest, point) \/ StayAndGo(rest, point)
  BY DEF OrderEnds
<1> QED
  BY <1>2, <1>3, <1>4, Stayed, SwappedAndWent

\* The pivot's position before it is put aside.
LEMMA MiddlePlace ==
    ASSUME IInv, at.pc \in {"middle", "above"}
    PROVE  /\ L \in Keys /\ U \in Keys /\ M \in Keys
           /\ WellPlaced(frames, PivotAside) /\ WellPlaced(frames, Goto("above"))
<1>1. L \in Int /\ U \in Int /\ L .. U \subseteq Keys /\ L + 2 <= U
  BY InnermostRange DEF Fits
<1>2. M \in L .. U
  BY <1>1 DEF M
<1>3. PivotAside \in PointSet /\ Fits(L, U, PivotAside)
  BY <1>1, PartitionFits DEF PivotAside
<1>4. Goto("above") \in PointSet /\ Fits(L, U, Goto("above"))
  BY <1>1 DEF Goto, Partition, PointSet, Points, Comparisons, Fits, Heaping, Sifting
<1> QED
  BY <1>1, <1>2, <1>3, <1>4, SamePlace

LEMMA OrderMiddleKeeps == ASSUME NEW yes PROVE Kept /\ OrderMiddle(yes) => IInv'
<1> SUFFICES ASSUME Kept, OrderMiddle(yes) PROVE IInv'
  OBVIOUS
<1>1. at.pc = "middle" /\ IInv
  BY DEF OrderMiddle, Less, Kept
<1>2. SwapAndGo(M, L, frames, PivotAside) \/ StayAndGo(frames, Goto("above"))
  BY DEF OrderMiddle
<1> QED
  BY <1>1, <1>2, MiddlePlace, Stayed, SwappedAndWent

LEMMA OrderAboveKeeps == ASSUME NEW yes PROVE Kept /\ OrderAbove(yes) => IInv'
<1> SUFFICES ASSUME Kept, OrderAbove(yes) PROVE IInv'
  OBVIOUS
<1>1. at.pc = "above" /\ IInv
  BY DEF OrderAbove, Less, Kept
<1>2. SwapAndGo(M, U, frames, PivotAside) \/ StayAndGo(frames, PivotAside)
  BY DEF OrderAbove
<1> QED
  BY <1>1, <1>2, MiddlePlace, Stayed, SwappedAndWent

LEMMA PlacePivotKeeps == Kept /\ PlacePivot => IInv'
<1> SUFFICES ASSUME Kept, PlacePivot PROVE IInv'
  OBVIOUS
<1> DEFINE scan == Partition("up", at.i + 1, at.j)
<1>1. at.pc = "pivot" /\ IInv
  BY DEF PlacePivot, Kept
<1>2. /\ L \in Int /\ U \in Int /\ L .. U \subseteq Keys /\ L + 2 <= U
      /\ at.i = L /\ at.j = U - 1 /\ frames # <<>>
  BY <1>1, InnermostRange DEF Fits
<1>3. M \in L .. U
  BY <1>2 DEF M
<1>4. CASE U - L = 2
  BY <1>1, <1>2, <1>4, ReturnedPlace, Stayed DEF PlacePivot
<1>5. CASE U - L # 2
  <2>1. scan \in PointSet /\ Fits(L, U, scan)
    BY <1>2, <1>5, PartitionFits
  <2>2. WellPlaced(frames, scan)
    BY <1>1, <2>1, SamePlace
  <2>3. U - 1 \in Keys /\ M \in Keys
    BY <1>2, <1>3
  <2>4. SwapAndGo(M, U - 1, frames, scan)
    BY <1>5 DEF PlacePivot
  <2> QED
    BY <2>2, <2>3, <2>4, SwappedAndWent
<1> QED
  BY <1>4, <1>5

LEMMA ScanUpKeeps == ASSUME NEW yes PROVE Kept /\ ScanUp(yes) => IInv'
<1> SUFFICES ASSUME Kept, ScanUp(yes) PROVE IInv'
  OBVIOUS
<1> DEFINE up   == Partition("up", at.i + 1, at.j)
           down == Partition("down", at.i, at.j - 1)
<1>1. at.pc = "up" /\ IInv
  BY DEF ScanUp, Less, Kept
<1>2. /\ L \in Int /\ U \in Int /\ L + 3 <= U
      /\ at.i \in L + 1 .. U /\ at.j \in L + 1 .. U - 1
  BY <1>1, InnermostRange DEF Fits
<1>3. WellPlaced(frames, down)
  <2>2. at.i \in Int /\ at.j - 1 \in Int /\ at.j - 1 \in L .. U - 2 /\ L + 2 <= U
    BY <1>2
  <2>1. down \in PointSet /\ Fits(L, U, down)
    BY <1>2, <2>2, PartitionFits
  <2> HIDE DEF down
  <2> QED
    BY <1>1, <2>1, SamePlace
<1>4. CASE at.i >= U
  <2>1. StayAndGo(frames, down) \/ (End("invalid") /\ UNCHANGED tab)
    BY <1>4 DEF ScanUp
  <2> QED
    BY <2>1, <1>3, Stayed, Ended
<1>5. CASE at.i < U
  <2>1. WellPlaced(frames, up)
    <3>1. up \in PointSet /\ Fits(L, U, up)
      BY <1>2, <1>5, PartitionFits
    <3> HIDE DEF up
    <3> QED
      BY <1>1, <3>1, SamePlace
  <2>2. StayAndGo(frames, down) \/ StayAndGo(frames, up)
    BY <1>2, <1>5 DEF ScanUp
  <2> QED
    BY <2>1, <2>2, <1>3, Stayed
<1> QED
  BY <1>2, <1>4, <1>5

LEMMA SplitPlace ==
    ASSUME IInv, at.pc = "down"
    PROVE  WellPlaced(Split, Goto("loop"))
<1> DEFINE limit == Here.limit \div 2 + Here.limit \div 4
           low   == [l |-> L, u |-> at.i - 1, limit |-> limit]
           high  == [l |-> at.i + 1, u |-> U, limit |-> limit]
<1>1. /\ frames \in Seq(FrameSet) /\ frames # <<>> /\ Here \in FrameSet
      /\ L \in Nat \ {0} /\ U \in Int /\ L .. U \subseteq Keys /\ L + 3 <= U
      /\ at.i \in L + 1 .. U
  BY InnermostRange DEF Fits
<1>2. Here.limit \in Nat
  BY <1>1 DEF FrameSet
<1>3. limit \in Nat
  BY <1>2
<1> HIDE DEF limit
<1>4. low \in FrameSet
  BY <1>1, <1>3 DEF FrameSet
<1>5. high \in FrameSet
  BY <1>1, <1>3 DEF FrameSet
<1>6. Returned \in Seq(FrameSet)
  BY ReturnedPlace, <1>1 DEF WellPlaced
<1> HIDE DEF low, high
<1>7. /\ Returned \o <<high, low>> \in Seq(FrameSet)
      /\ Returned \o <<low, high>> \in Seq(FrameSet)
  BY <1>4, <1>5, <1>6
<1>8. Split \in Seq(FrameSet)
  BY <1>7 DEF Split, low, high, limit
<1>9. Goto("loop") \in PointSet /\ Goto("loop").pc = "loop"
  BY DEF Goto, Partition, PointSet, Points
<1> QED
  BY <1>8, <1>9 DEF WellPlaced

LEMMA ScanDownKeeps == ASSUME NEW yes PROVE Kept /\ ScanDown(yes) => IInv'
<1> SUFFICES ASSUME Kept, ScanDown(yes) PROVE IInv'
  OBVIOUS
<1> DEFINE up   == Partition("up", at.i + 1, at.j)
           down == Partition("down", at.i, at.j - 1)
<1>1. at.pc = "down" /\ IInv
  BY DEF ScanDown, Less, Kept
<1>2. /\ L \in Int /\ U \in Int /\ L .. U \subseteq Keys /\ L + 3 <= U
      /\ at.i \in L + 1 .. U /\ at.j \in L .. U - 2
  BY <1>1, InnermostRange DEF Fits
<1>3. CASE yes /\ at.j <= L
  BY <1>1, <1>3, Ended DEF ScanDown
<1>4. CASE yes /\ ~(at.j <= L)
  <2>1. WellPlaced(frames, down)
    <3>1. down \in PointSet /\ Fits(L, U, down)
      BY <1>2, <1>4, PartitionFits
    <3> HIDE DEF down
    <3> QED
      BY <1>1, <3>1, SamePlace
  <2> QED
    BY <1>4, <2>1, Stayed DEF ScanDown
<1>5. CASE ~yes /\ at.j < at.i
  <2>1. P \in Keys /\ at.i \in Keys
    BY <1>2 DEF P
  <2>2. SwapAndGo(P, at.i, Split, Goto("loop"))
    BY <1>5 DEF ScanDown
  <2> QED
    BY <1>1, <2>1, <2>2, SplitPlace, SwappedAndWent
<1>6. CASE ~yes /\ ~(at.j < at.i)
  <2>1. at.i \in Keys /\ at.j \in Keys
    BY <1>2
  <2>2. WellPlaced(frames, up)
    <3>1. up \in PointSet /\ Fits(L, U, up)
      BY <1>2, <1>6, PartitionFits
    <3> HIDE DEF up
    <3> QED
      BY <1>1, <3>1, SamePlace
  <2>3. SwapAndGo(at.i, at.j, frames, up)
    BY <1>6 DEF ScanDown
  <2> QED
    BY <2>1, <2>2, <2>3, SwappedAndWent
<1> QED
  BY <1>3, <1>4, <1>5, <1>6

\* What holds in sortHeap.
LEMMA HeapRange ==
    ASSUME IInv, at.pc \in Heaping
    PROVE  /\ frames # <<>>
           /\ L \in Int /\ U \in Int /\ L < U /\ L .. U \subseteq Keys
           /\ at \in PointSet /\ at.phase \in {"build", "take"}
           /\ at.phase = "build" => at.i \in -1 .. U - L
           /\ at.phase = "take"  => at.i \in 0 .. U - L
           /\ Fits(L, U, at)
<1>1. at.pc \notin {"idle", "loop"}
  BY DEF Heaping, Sifting
<1>2. at \in PointSet
  BY DEF IInv, TypeOK
<1> QED
  BY <1>1, <1>2, InnermostRange DEF Fits

LEMMA SiftFits ==
    ASSUME IInv, at.pc \in Heaping,
           NEW k \in Int, NEW root \in Nat,
           at.phase = "build" => k \in 0 .. U - L,
           at.phase = "take"  => k \in 1 .. U - L
    PROVE  WellPlaced(frames, Sift(at.phase, k, root))
<1> DEFINE p == Sift(at.phase, k, root)
<1>1. at.pc \notin {"idle", "loop"}
  BY DEF Heaping, Sifting
<1>2. p \in PointSet /\ p.pc = "sift" /\ p.phase = at.phase /\ p.i = k /\ p.root = root
  BY HeapRange DEF Sift, HeapPoint, PointSet, Points
<1> HIDE DEF p
<1>3. Fits(L, U, p)
  BY <1>2, HeapRange DEF Fits, Heaping, Sifting
<1>4. WellPlaced(frames, p)
  BY <1>1, <1>2, <1>3, SamePlace
<1> QED
  BY <1>4 DEF p

LEMMA HeapKeeps == Kept /\ Heap => IInv'
<1> SUFFICES ASSUME Kept, Heap PROVE IInv'
  OBVIOUS
<1>1. at.pc = "heap" /\ IInv /\ at.pc \in Heaping /\ at.pc \notin {"idle", "loop"}
  BY DEF Heap, Kept, Heaping
<1>2. /\ frames # <<>>
      /\ L \in Int /\ U \in Int /\ L < U /\ L .. U \subseteq Keys
      /\ at.phase = "build" => at.i \in -1 .. U - L
      /\ at.phase = "take"  => at.i \in 0 .. U - L
      /\ at.phase \in {"build", "take"}
  BY <1>1, HeapRange
<1>3. CASE at.phase = "build" /\ at.i >= 0
  <2>1. WellPlaced(frames, Sift("build", at.i, at.i))
    BY <1>1, <1>2, <1>3, SiftFits
  <2>2. StayAndGo(frames, Sift("build", at.i, at.i))
    BY <1>2, <1>3 DEF Heap
  <2> QED
    BY <2>1, <2>2, Stayed
<1>4. CASE at.phase = "build" /\ at.i < 0
  <2>1. WellPlaced(frames, HeapAt("take", U - L))
    BY <1>1, <1>2, HeapFits, SamePlace
  <2>2. StayAndGo(frames, HeapAt("take", U - L))
    BY <1>2, <1>4 DEF Heap
  <2> QED
    BY <2>1, <2>2, Stayed
<1>5. CASE at.phase = "take" /\ at.i > 0
  <2>1. WellPlaced(frames, Sift("take", at.i, 0))
    BY <1>1, <1>2, <1>5, SiftFits
  <2>2. L \in Keys /\ L + at.i \in Keys
    BY <1>2, <1>5
  <2>3. SwapAndGo(L, L + at.i, frames, Sift("take", at.i, 0))
    BY <1>2, <1>5 DEF Heap
  <2> QED
    BY <2>1, <2>2, <2>3, SwappedAndWent
<1>6. CASE at.phase = "take" /\ at.i = 0
  <2>1. StayAndGo(Returned, Goto("loop"))
    BY <1>6 DEF Heap
  <2> QED
    BY <1>1, <1>2, <2>1, ReturnedPlace, Stayed
<1> QED
  BY <1>2, <1>3, <1>4, <1>5, <1>6

LEMMA SiftedPlace ==
    ASSUME IInv, at.pc \in Sifting
    PROVE  WellPlaced(frames, Sifted)
<1>1. at.pc \in Heaping /\ at.pc \notin {"idle", "loop"}
  BY DEF Heaping, Sifting
<1>2. at.i - 1 \in Int /\ (at.phase = "build" => at.i - 1 \in -1 .. U - L)
                       /\ (at.phase = "take" => at.i - 1 \in 0 .. U - L)
  BY <1>1, HeapRange DEF Fits
<1>3. Sifted \in PointSet /\ Fits(L, U, Sifted)
  BY <1>1, <1>2, HeapRange, HeapFits DEF Sifted
<1> QED
  BY <1>1, <1>3, SamePlace

\* A comparison of siftHeap.
LEMMA SiftAtPlace ==
    ASSUME IInv, at.pc \in Sifting, NEW pc \in {"left", "right", "last"},
           NEW next \in Int,
           pc \in {"left", "right"} => RightOf(at.root) < Count,
           pc = "left"  => next = at.root,
           pc = "right" => next \in {at.root, LeftOf(at.root)},
           pc = "last"  => LeftOf(at.root) = Count - 1
    PROVE  WellPlaced(frames, SiftAt(pc, next))
<1> DEFINE p == SiftAt(pc, next)
<1>1. at.pc \in Heaping /\ at.pc \notin {"idle", "loop"}
  BY DEF Heaping, Sifting
<1>2. /\ at \in PointSet /\ Fits(L, U, at) /\ L < U /\ at.phase \in {"build", "take"}
      /\ at.phase = "build" => at.i \in -1 .. U - L
      /\ at.phase = "take"  => at.i \in 0 .. U - L
  BY <1>1, HeapRange
<1>3. at.root >= 0 /\ at.i >= (IF at.phase = "build" THEN 0 ELSE 1)
  BY <1>2 DEF Fits
<1>4. /\ p \in PointSet /\ p.pc = pc /\ p.next = next
      /\ p.phase = at.phase /\ p.i = at.i /\ p.root = at.root
  BY <1>2 DEF SiftAt, HeapPoint, PointSet, Points, Comparisons
<1> HIDE DEF p
<1>5. CountIn(L, U, p) = Count
  BY <1>4 DEF CountIn, Count
<1>6. Fits(L, U, p)
  BY <1>2, <1>3, <1>4, <1>5 DEF Fits, Heaping, Sifting
<1>7. WellPlaced(frames, p)
  BY <1>1, <1>4, <1>6, SamePlace
<1> QED
  BY <1>7 DEF p

LEMMA SiftLoopKeeps == Kept /\ SiftLoop => IInv'
<1> SUFFICES ASSUME Kept, SiftLoop PROVE IInv'
  OBVIOUS
<1>1. at.pc = "sift" /\ IInv /\ at.pc \in Sifting /\ at.pc \in Heaping
  BY DEF SiftLoop, Kept, Sifting, Heaping
<1>2. at.root \in Int
  BY <1>1, HeapRange DEF PointSet
<1>3. CASE RightOf(at.root) < Count /\ StayAndGo(frames, SiftAt("left", at.root))
  <2>1. WellPlaced(frames, SiftAt("left", at.root))
    BY <1>1, <1>2, <1>3, SiftAtPlace
  <2> QED
    BY <2>1, <1>3, Stayed
<1>4. CASE LeftOf(at.root) = Count - 1 /\ StayAndGo(frames, SiftAt("last", 0))
  <2>1. WellPlaced(frames, SiftAt("last", 0))
    BY <1>1, <1>4, SiftAtPlace
  <2> QED
    BY <2>1, <1>4, Stayed
<1>5. CASE StayAndGo(frames, Sifted)
  BY <1>1, <1>5, SiftedPlace, Stayed
<1> QED
  BY <1>3, <1>4, <1>5 DEF SiftLoop

LEMMA SiftLeftKeeps == ASSUME NEW yes PROVE Kept /\ SiftLeft(yes) => IInv'
<1> SUFFICES ASSUME Kept, SiftLeft(yes) PROVE IInv'
  OBVIOUS
<1> DEFINE next == IF yes THEN LeftOf(at.root) ELSE at.next
<1>1. at.pc = "left" /\ IInv /\ at.pc \in Sifting /\ at.pc \in Heaping
  BY DEF SiftLeft, Less, Kept, Sifting, Heaping
<1>2. /\ RightOf(at.root) < Count /\ at.next = at.root /\ at.root \in Int
      /\ LeftOf(at.root) \in Int
  BY <1>1, HeapRange DEF Fits, CountIn, Count, PointSet, LeftOf
<1>3. next \in Int /\ next \in {at.root, LeftOf(at.root)}
  BY <1>2
<1>4. StayAndGo(frames, SiftAt("right", next))
  BY DEF SiftLeft
<1> HIDE DEF next
<1>5. WellPlaced(frames, SiftAt("right", next))
  BY <1>1, <1>2, <1>3, SiftAtPlace
<1> QED
  BY <1>4, <1>5, Stayed

\* The positions that siftHeap swaps.
LEMMA SiftKeys ==
    ASSUME IInv, at.pc \in Sifting, NEW r \in Int, 0 <= r, r < Count
    PROVE  L + r \in Keys
<1>1. at.pc \in Heaping
  BY DEF Heaping
<1>2. Count <= U - L + 1 /\ Count \in Int
  BY <1>1, HeapRange DEF Count
<1> QED
  BY <1>1, <1>2, HeapRange

LEMMA SiftRightKeeps == ASSUME NEW yes PROVE Kept /\ SiftRight(yes) => IInv'
<1> SUFFICES ASSUME Kept, SiftRight(yes) PROVE IInv'
  OBVIOUS
<1> DEFINE next == IF yes THEN RightOf(at.root) ELSE at.next
<1>1. at.pc = "right" /\ IInv /\ at.pc \in Sifting /\ at.pc \in Heaping
  BY DEF SiftRight, Less, Kept, Sifting, Heaping
<1>2. /\ RightOf(at.root) < Count /\ at.next \in {at.root, LeftOf(at.root)}
      /\ at.root \in Nat /\ Count \in Int
      /\ at.phase = "build" => at.i \in 0 .. U - L
      /\ at.phase = "take"  => at.i \in 1 .. U - L
      /\ at.i \in Int
  BY <1>1, HeapRange DEF Fits, CountIn, Count, PointSet
<1>3. next \in Nat /\ next < Count /\ at.root < Count
  BY <1>2 DEF LeftOf, RightOf
<1>4. L + at.root \in Keys /\ L + next \in Keys
  BY <1>1, <1>2, <1>3, SiftKeys
<1>5. WellPlaced(frames, Sift(at.phase, at.i, next))
  BY <1>1, <1>2, <1>3, SiftFits
<1>6. \/ StayAndGo(frames, Sifted)
      \/ SwapAndGo(L + at.root, L + next, frames, Sift(at.phase, at.i, next))
  BY DEF SiftRight
<1> HIDE DEF next
<1> QED
  BY <1>1, <1>4, <1>5, <1>6, SiftedPlace, Stayed, SwappedAndWent

LEMMA SiftLastKeeps == ASSUME NEW yes PROVE Kept /\ SiftLast(yes) => IInv'
<1> SUFFICES ASSUME Kept, SiftLast(yes) PROVE IInv'
  OBVIOUS
<1>1. at.pc = "last" /\ IInv /\ at.pc \in Sifting /\ at.pc \in Heaping
  BY DEF SiftLast, Less, Kept, Sifting, Heaping
<1>2. LeftOf(at.root) = Count - 1 /\ at.root \in Nat /\ Count \in Int
  BY <1>1, HeapRange DEF Fits, CountIn, Count, PointSet
<1>3. LeftOf(at.root) \in Nat /\ LeftOf(at.root) < Count /\ at.root < Count
  BY <1>2 DEF LeftOf
<1>4. L + at.root \in Keys /\ L + LeftOf(at.root) \in Keys
  BY <1>1, <1>2, <1>3, SiftKeys
<1>5. \/ StayAndGo(frames, Sifted)
      \/ SwapAndGo(L + at.root, L + LeftOf(at.root), frames, Sifted)
  BY DEF SiftLast
<1> QED
  BY <1>1, <1>4, <1>5, SiftedPlace, Stayed, SwappedAndWent

LEMMA SortStepKeeps == IInv /\ SortStep => IInv'
<1> SUFFICES ASSUME IInv, SortStep PROVE IInv'
  OBVIOUS
<1>1. Kept
  BY DEF Kept, SortStep
<1>2. CASE Loops
  BY <1>1, <1>2, LoopEndsKeeps, LoopGoesOnKeeps, PlacePivotKeeps, HeapKeeps, SiftLoopKeeps
     DEF Loops
<1>3. ASSUME NEW yes \in BOOLEAN, Answered(yes) PROVE IInv'
  BY <1>1, <1>3, OrderEndsKeeps, OrderMiddleKeeps, OrderAboveKeeps, ScanUpKeeps,
     ScanDownKeeps, SiftLeftKeeps, SiftRightKeeps, SiftLastKeeps
     DEF Answered
<1>4. CASE Raises \/ OutOfTable
  BY <1>1, <1>4, Ended DEF Raises, OutOfTable
<1> QED
  BY <1>2, <1>3, <1>4 DEF SortStep
-----------------------------------------------------------------------------
(* What else happens, and the theorems. *)

LEMMA Start == SortInit => IInv
<1> SUFFICES ASSUME SortInit PROVE IInv
  OBVIOUS
<1>1. Idle \in PointSet /\ Idle.pc = "idle"
  BY DEF Idle, Goto, Partition, PointSet, Points
<1>2. frames \in Seq(FrameSet)
  BY DEF SortInit
<1>3. WellPlaced(frames, at)
  BY <1>1, <1>2 DEF SortInit, WellPlaced
<1>4. TypeOK
  BY <1>1, <1>2, OccurrencesType DEF SortInit, TypeOK, Orders
<1> QED
  BY <1>3, <1>4 DEF SortInit, IInv, KeepsElements

LEMMA BeginKeeps ==
    ASSUME NEW how \in Orders, NEW n \in {k \in Keys : k > 1},
           NEW limit \in Limits \cup {SortLimit(n)}, IInv, BeginSort(how, n, limit)
    PROVE  IInv'
<1> DEFINE frame == [l |-> 1, u |-> n, limit |-> limit]
<1>1. frame \in FrameSet
  BY LimitType DEF FrameSet
<1>2. frames' \in Seq(FrameSet)
  BY <1>1 DEF BeginSort
<1>3. at' \in PointSet /\ at'.pc = "loop"
  BY DEF BeginSort, Goto, Partition, PointSet, Points
<1>4. WellPlaced(frames', at')
  BY <1>2, <1>3 DEF WellPlaced
<1>5. TypeOK'
  BY <1>2, <1>3, OccurrencesType DEF IInv, TypeOK, BeginSort
<1>6. KeepsElements'
  BY DEF KeepsElements, BeginSort
<1> QED
  BY <1>4, <1>5, <1>6 DEF IInv

LEMMA MeddlingKeeps ==
    ASSUME NEW k \in Seen, NEW v \in Values \cup {Nil}, IInv,
           Meddle(k, v) \/ MeddleNoticed(k, v), UNCHANGED <<frozen, order>>
    PROVE  IInv'
<1> DEFINE t == [tab EXCEPT ![k] = v]
<1>1. t \in [Keys -> Values \cup {Nil}]
  BY DEF IInv, TypeOK
<1> HIDE DEF t
<1>2. tab' = t /\ sorted' = Occurrences(t)
  BY DEF Meddle, MeddleNoticed, t
<1>3. Idle \in PointSet /\ Idle.pc = "idle"
  BY DEF Idle, Goto, Partition, PointSet, Points
<1>4. \/ UNCHANGED <<frames, at, outcome>>
      \/ frames' = <<>> /\ at' = Idle /\ outcome' = "modified"
  BY DEF Meddle, MeddleNoticed, End
<1>5. WellPlaced(frames', at')
  <2>1. CASE frames' = frames /\ at' = at
    BY <2>1 DEF IInv, WellPlaced
  <2>2. CASE frames' = <<>> /\ at' = Idle
    BY <1>3, <2>2 DEF WellPlaced
  <2> QED
    BY <1>4, <2>1, <2>2
<1>6. TypeOK'
  BY <1>1, <1>2, <1>4, <1>5, OccurrencesType DEF IInv, TypeOK, WellPlaced
<1>7. KeepsElements'
  BY <1>2 DEF KeepsElements
<1> QED
  BY <1>5, <1>6, <1>7 DEF IInv

LEMMA FreezeKeeps == IInv /\ Freeze => IInv'
BY DEF IInv, TypeOK, WellPlaced, KeepsElements, Freeze

LEMMA ForgetKeeps == IInv /\ Forget => IInv'
<1> SUFFICES ASSUME IInv, Forget PROVE IInv'
  OBVIOUS
<1>1. TypeOK'
  BY OccurrencesType DEF IInv, TypeOK, Forget, Orders
<1>2. WellPlaced(frames', at')
  <2>1. frames' = frames /\ at' = at
    BY DEF Forget
  <2> QED
    BY <2>1 DEF IInv, WellPlaced
<1> QED
  BY <1>1, <1>2 DEF IInv, KeepsElements, Forget

LEMMA Inductive == IInv /\ [SortNext]_sortVars => IInv'
<1> SUFFICES ASSUME IInv, [SortNext]_sortVars PROVE IInv'
  OBVIOUS
<1>1. ASSUME NEW how \in Orders, NEW n \in {k \in Keys : k > 1},
             NEW limit \in Limits \cup {SortLimit(n)}, BeginSort(how, n, limit)
      PROVE  IInv'
  BY <1>1, BeginKeeps
<1>2. CASE SortStep
  BY <1>2, SortStepKeeps
<1>3. CASE Meddling
  BY <1>3, MeddlingKeeps DEF Meddling
<1>4. CASE Freeze \/ Forget
  BY <1>4, FreezeKeeps, ForgetKeeps
<1>5. CASE UNCHANGED sortVars
  BY <1>5 DEF sortVars, IInv, TypeOK, WellPlaced, KeepsElements
<1> QED
  BY <1>1, <1>2, <1>3, <1>4, <1>5 DEF SortNext

LEMMA RangeFollows == IInv => InRange
<1> SUFFICES ASSUME IInv, Comparing PROVE Compared[1] \in L .. U /\ Compared[2] \in L .. U
  BY DEF InRange
<1>1. at.pc \notin {"idle", "loop"}
  BY DEF Comparing, Comparisons
<1>2. L \in Int /\ U \in Int /\ L < U /\ Fits(L, U, at) /\ at \in PointSet
  BY <1>1, InnermostRange DEF Fits, IInv, TypeOK
<1>3. CASE at.pc = "ends"
  BY <1>2, <1>3 DEF Compared
<1>4. CASE at.pc \in {"middle", "above"}
  <2>1. M \in L .. U
    BY <1>2 DEF M
  <2>2. CASE at.pc = "middle"
    BY <1>2, <2>1, <2>2 DEF Compared
  <2>3. CASE at.pc = "above"
    BY <1>2, <2>1, <2>3 DEF Compared
  <2> QED
    BY <1>4, <2>2, <2>3
<1>5. CASE at.pc = "up"
  BY <1>2, <1>5 DEF Compared, Fits, P
<1>6. CASE at.pc = "down"
  BY <1>2, <1>6 DEF Compared, Fits, P
<1>7. CASE at.pc \in {"left", "right", "last"}
  <2>1. at.pc \in Heaping /\ at.pc \in Sifting
    BY <1>7 DEF Heaping, Sifting
  <2>2. Count <= U - L + 1 /\ Count \in Int /\ at.root \in Nat
    BY <2>1, HeapRange DEF Count, Fits, PointSet
  <2>3. CASE at.pc \in {"left", "right"}
    <3>1. RightOf(at.root) < Count /\ at.next \in {at.root, LeftOf(at.root)}
      BY <1>2, <2>3 DEF Fits, CountIn, Count
    <3>2. /\ L + at.next \in L .. U
          /\ L + LeftOf(at.root) \in L .. U
          /\ L + RightOf(at.root) \in L .. U
      BY <1>2, <2>2, <3>1 DEF LeftOf, RightOf
    <3>3. CASE at.pc = "left"
      BY <3>2, <3>3 DEF Compared
    <3>4. CASE at.pc = "right"
      BY <3>2, <3>4 DEF Compared
    <3> QED
      BY <2>3, <3>3, <3>4
  <2>4. CASE at.pc = "last"
    <3>1. LeftOf(at.root) = Count - 1
      BY <1>2, <2>4 DEF Fits, CountIn, Count
    <3>2. L + at.root \in L .. U /\ L + LeftOf(at.root) \in L .. U
      BY <1>2, <2>2, <3>1 DEF LeftOf
    <3> QED
      BY <2>4, <3>2 DEF Compared
  <2> QED
    BY <1>7, <2>3, <2>4
<1> QED
  BY <1>3, <1>4, <1>5, <1>6, <1>7 DEF Comparing, Comparisons

\* table.sort looks only at the range it sorts, for every table, every depth
\* limit and every comparator, contradictory ones and ones that write the table
\* included (the loops of sortRec, sortHeap and siftHeap, table.go).
THEOREM SortInRange == SortSpec => []InRange
<1>1. SortSpec => []IInv
  BY Start, Inductive, PTL DEF SortSpec
<1> QED
  BY <1>1, RangeFollows, PTL

\* At every call of the comparator, and however the sort ends, the table holds
\* what was to be sorted (sortSwap, table.go).
THEOREM SortKeepsElements == SortSpec => []KeepsElements
<1>1. SortSpec => []IInv
  BY Start, Inductive, PTL DEF SortSpec
<1>2. IInv => KeepsElements
  BY DEF IInv
<1> QED
  BY <1>1, <1>2, PTL
-----------------------------------------------------------------------------
(* How deep the calls of sortRec are.                                      *)

\* Doubling goes on for ever.
Doubling == [i \in Int |-> [x \in Nat |-> 2 * x]]

LEMMA PowerLoop ==
    ASSUME NEW r \in Nat
    PROVE  \E p \in [0 .. r -> Nat] :
              /\ p[0] = 1 /\ \A i \in 1 .. r : p[i] = 2 * p[i - 1]
              /\ Power(r) = p[r]
<1> DEFINE Loop(p) == p = [i \in 0 .. r |-> IF i = 0 THEN 1 ELSE 2 * p[i - 1]]
<1>1. Doubling \in [Int -> [Nat -> Nat]] /\ \A i \in Int, x \in Nat : Doubling[i][x] = 2 * x
  BY DEF Doubling
<1>a. 0 \in Int /\ r \in Int /\ 1 \in Nat
  OBVIOUS
<1>2. PICK p \in [0 .. r -> Nat] : IsLoopUp(p, 0, r, 1, Doubling)
  BY <1>1, <1>a, RecursionUp
<1>3. ASSUME NEW i \in 0 .. r PROVE p[i] = IF i = 0 THEN 1 ELSE 2 * p[i - 1]
  <2>1. p[i] = IF i = 0 THEN 1 ELSE Doubling[i][p[i - 1]]
    BY <1>2 DEF IsLoopUp
  <2>2. CASE i = 0
    BY <2>1, <2>2
  <2>3. CASE i # 0
    <3>1. p[i - 1] \in Nat /\ i \in Int
      BY <2>3
    <3>2. Doubling[i][p[i - 1]] = 2 * p[i - 1]
      BY <1>1, <3>1
    <3> QED
      BY <2>1, <2>3, <3>2
  <2> QED
    BY <2>2, <2>3
<1>4. Loop(p)
  BY <1>3
<1> DEFINE q == CHOOSE f : Loop(f)
<1>5. Loop(q)
  BY <1>4
<1>6. Power(r) = q[r]
  BY DEF Power
<1> HIDE DEF q
<1>7. DOMAIN q = 0 .. r /\ \A i \in 0 .. r : q[i] = IF i = 0 THEN 1 ELSE 2 * q[i - 1]
  BY <1>5
<1> DEFINE T == {i \in 0 .. r : q[i] \in Nat}
<1>8. 0 <= r => 0 \in T
  BY <1>7
<1>9. ASSUME NEW i \in 0 + 1 .. r, i - 1 \in T PROVE i \in T
  BY <1>7, <1>9
<1> HIDE DEF T
<1>10. 0 .. r \subseteq T
  BY <1>a, <1>8, <1>9, UpwardInduction
<1>11. \A i \in 0 .. r : q[i] \in Nat
  BY <1>10 DEF T
<1>12. q = [i \in 0 .. r |-> q[i]]
  BY <1>5
<1>13. q \in [0 .. r -> Nat]
  BY <1>11, <1>12
<1>14. q[0] = 1 /\ \A i \in 1 .. r : q[i] = 2 * q[i - 1]
  BY <1>7
<1> QED
  BY <1>6, <1>13, <1>14

LEMMA PowerDoubles ==
    /\ Power(0) = 1
    /\ \A r \in Nat : Power(r) \in Nat /\ Power(r + 1) = 2 * Power(r)
<1>1. Power(0) = 1
  BY PowerLoop
<1>2. ASSUME NEW r \in Nat PROVE Power(r) \in Nat /\ Power(r + 1) = 2 * Power(r)
  <2>a. r \in Int /\ 0 \in Int /\ r + 1 \in Nat
    OBVIOUS
  <2>1. PICK p \in [0 .. r -> Nat] :
           p[0] = 1 /\ (\A i \in 1 .. r : p[i] = 2 * p[i - 1]) /\ Power(r) = p[r]
    BY PowerLoop
  <2>2. PICK q \in [0 .. r + 1 -> Nat] :
           q[0] = 1 /\ (\A i \in 1 .. r + 1 : q[i] = 2 * q[i - 1]) /\ Power(r + 1) = q[r + 1]
    BY <2>a, PowerLoop
  <2> DEFINE T == {i \in 0 .. r : p[i] = q[i]}
  <2>3. 0 <= r => 0 \in T
    BY <2>1, <2>2
  <2>4. ASSUME NEW i \in 0 + 1 .. r, i - 1 \in T PROVE i \in T
    <3>1. i \in 1 .. r /\ i \in 1 .. r + 1 /\ p[i - 1] = q[i - 1]
      BY <2>4
    <3> QED
      BY <2>1, <2>2, <3>1
  <2> HIDE DEF T
  <2>5. 0 .. r \subseteq T
    BY <2>a, <2>3, <2>4, UpwardInduction
  <2>6. p[r] = q[r]
    BY <2>5 DEF T
  <2>7. r + 1 \in 1 .. r + 1 /\ r + 1 - 1 = r
    OBVIOUS
  <2> QED
    BY <2>1, <2>2, <2>6, <2>7
<1> QED
  BY <1>1, <1>2

\* The frames of a sort of n values lie in it, and each holds at most half of
\* what the one before it held; a call is only made from more than three.
Room(fs, n) ==
    /\ Power(Len(fs)) <= n
    /\ \A i \in 1 .. Len(fs) :
          fs[i].u <= n /\ Power(i - 1) * (fs[i].u - fs[i].l + 1) <= n

Halved == order # "meddling" /\ frames # <<>> =>
             \E n \in Keys : n > 1 /\ ListOf(tab, n) /\ Room(frames, n)

\* There are calls of sortRec only while a sort runs.
Busy == frames # <<>> => Sorting

LEMMA ButLast ==
    ASSUME NEW S, NEW s \in Seq(S), NEW m \in Nat, Len(s) = m + 1
    PROVE  /\ SubSeq(s, 1, m) \in Seq(S) /\ Len(SubSeq(s, 1, m)) = m
           /\ \A i \in 1 .. m : SubSeq(s, 1, m)[i] = s[i]
<1>1. 1 \in 1 .. Len(s) + 1 /\ m \in 0 .. Len(s)
  OBVIOUS
<1> QED
  BY <1>1, SubSeqProperties

LEMMA TwoMore ==
    ASSUME NEW S, NEW s \in Seq(S), NEW a \in S, NEW b \in S
    PROVE  LET t == s \o <<a, b>>
           IN  /\ Len(t) = Len(s) + 2 /\ t[Len(s) + 1] = a /\ t[Len(s) + 2] = b
               /\ \A i \in 1 .. Len(s) : t[i] = s[i]
<1>1. <<a, b>> \in Seq(S) /\ Len(<<a, b>>) = 2 /\ Len(s) \in Nat
  OBVIOUS
<1> DEFINE t == s \o <<a, b>>
<1>2. Len(t) = Len(s) + 2
      /\ \A i \in 1 .. Len(s) + 2 : t[i] = IF i <= Len(s) THEN s[i] ELSE <<a, b>>[i - Len(s)]
  BY <1>1, ConcatProperties
<1>3. t[Len(s) + 1] = <<a, b>>[1] /\ t[Len(s) + 2] = <<a, b>>[2]
  <2>1. Len(s) + 1 - Len(s) = 1 /\ Len(s) + 2 - Len(s) = 2
    BY <1>1
  <2>2. /\ Len(s) + 1 \in 1 .. Len(s) + 2 /\ Len(s) + 2 \in 1 .. Len(s) + 2
        /\ ~(Len(s) + 1 <= Len(s)) /\ ~(Len(s) + 2 <= Len(s))
    BY <1>1
  <2> QED
    BY <1>2, <2>1, <2>2
<1>4. \A i \in 1 .. Len(s) : t[i] = s[i]
  BY <1>1, <1>2
<1> HIDE DEF t
<1>5. t[Len(s) + 1] = a /\ t[Len(s) + 2] = b
  BY <1>3
<1> QED
  BY <1>2, <1>4, <1>5 DEF t

LEMMA RoomLeft ==
    ASSUME IInv, frames # <<>>, NEW n \in Keys, Room(frames, n)
    PROVE  Room(Returned, n)
<1>1. frames \in Seq(FrameSet) /\ Len(frames) \in Nat /\ Len(frames) # 0 /\ n \in Int
  BY SortAssumption DEF IInv, TypeOK, Keys
<1>2. PICK m \in Nat : Len(frames) = m + 1
  <2>1. Len(frames) - 1 \in Nat /\ Len(frames) = Len(frames) - 1 + 1
    BY <1>1
  <2> QED
    BY <2>1
<1>3. Len(Returned) = m /\ \A i \in 1 .. m : Returned[i] = frames[i]
  <2>1. Len(frames) - 1 = m
    BY <1>2
  <2> QED
    BY <1>1, <1>2, <2>1, ButLast DEF Returned
<1>4. Power(m) \in Nat /\ Power(m + 1) = 2 * Power(m)
  BY <1>2, PowerDoubles
<1>5. Power(m + 1) <= n
  BY <1>2 DEF Room
<1>6. Power(m) <= n
  BY <1>1, <1>4, <1>5
<1>7. \A i \in 1 .. m : i \in 1 .. Len(frames)
  BY <1>2
<1> QED
  BY <1>3, <1>6, <1>7 DEF Room

\* Half of a part, and twice as many of them.
LEMMA Halves ==
    ASSUME NEW p \in Nat, NEW s \in Int, NEW h \in Int, 2 * h <= s, NEW n \in Int, p * s <= n
    PROVE  2 * p * h <= n
<1>1. p * (2 * h) <= p * s
  OBVIOUS
<1>2. 2 * p * h = p * (2 * h)
  OBVIOUS
<1>3. p * s \in Int /\ p * (2 * h) \in Int
  OBVIOUS
<1> QED
  BY <1>1, <1>2, <1>3

LEMMA Parts ==
    ASSUME NEW p \in Nat, NEW s \in Int, NEW h \in Int, h <= s, NEW n \in Int, p * s <= n
    PROVE  p * h <= n
<1>1. p * h <= p * s
  OBVIOUS
<1>2. p * s \in Int /\ p * h \in Int
  OBVIOUS
<1> QED
  BY <1>1, <1>2

\* The last frame makes way for two, of which the second is small.
LEMMA RoomForTwo ==
    ASSUME NEW fs \in Seq(FrameSet), NEW m \in Nat, Len(fs) = m + 1, NEW n \in Int, Room(fs, n),
           NEW s \in Int, s = fs[m + 1].u - fs[m + 1].l + 1, 4 <= s,
           NEW a \in FrameSet, NEW b \in FrameSet, a.u <= n, b.u <= n,
           NEW x \in Int, x = a.u - a.l + 1, x <= s,
           NEW y \in Int, y = b.u - b.l + 1, 2 * y <= s
    PROVE  Room(SubSeq(fs, 1, m) \o <<a, b>>, n)
<1> DEFINE r == SubSeq(fs, 1, m)
           t == r \o <<a, b>>
<1>1. r \in Seq(FrameSet) /\ Len(r) = m /\ \A i \in 1 .. m : r[i] = fs[i]
  BY ButLast
<1> HIDE DEF r
<1>2. /\ Len(t) = m + 2 /\ t[m + 1] = a /\ t[m + 2] = b
      /\ \A i \in 1 .. m : t[i] = fs[i]
  <2>1. /\ Len(t) = Len(r) + 2 /\ t[Len(r) + 1] = a /\ t[Len(r) + 2] = b
        /\ \A i \in 1 .. Len(r) : t[i] = r[i]
    BY <1>1, TwoMore
  <2> HIDE DEF t
  <2> QED
    BY <1>1, <2>1
<1> HIDE DEF t
<1>3. PICK p \in Nat : p = Power(m) /\ Power(m + 1) = 2 * p /\ Power(m + 2) = 2 * (2 * p)
  <2>1. Power(m) \in Nat /\ Power(m + 1) = 2 * Power(m)
    BY PowerDoubles
  <2>2. m + 1 \in Nat /\ m + 1 + 1 = m + 2
    OBVIOUS
  <2>3. Power(m + 2) = 2 * Power(m + 1)
    BY <2>2, PowerDoubles
  <2> QED
    BY <2>1, <2>3
<1>4. p * s <= n
  <2>1. m + 1 \in 1 .. Len(fs) /\ m + 1 - 1 = m
    OBVIOUS
  <2> QED
    BY <1>3, <2>1 DEF Room
<1>5. 2 * (2 * p) <= n
  <2>1. 2 \in Int /\ 2 * 2 <= s
    OBVIOUS
  <2>2. 2 * p * 2 <= n
    BY <1>4, <2>1, Halves
  <2> QED
    BY <2>2
<1>6. p * x <= n
  BY <1>4, Parts
<1>7. (2 * p) * y <= n
  BY <1>4, Halves, SMTT(30)
<1>8. ASSUME NEW i \in 1 .. m + 2
      PROVE  t[i].u <= n /\ Power(i - 1) * (t[i].u - t[i].l + 1) <= n
  <2>1. CASE i = m + 1
    <3>1. Power(i - 1) = p /\ t[i] = a
      <4>1. i - 1 = m
        BY <2>1
      <4> QED
        BY <1>2, <1>3, <2>1, <4>1
    <3> QED
      BY <1>6, <3>1
  <2>2. CASE i = m + 2
    <3>1. Power(i - 1) = 2 * p /\ t[i] = b
      <4>1. i - 1 = m + 1
        BY <2>2
      <4> QED
        BY <1>2, <1>3, <2>2, <4>1
    <3> QED
      BY <1>7, <3>1
  <2>3. CASE i \in 1 .. m
    <3>1. i \in 1 .. Len(fs) /\ t[i] = fs[i]
      BY <1>2, <2>3
    <3> QED
      BY <3>1 DEF Room
  <2> QED
    BY <2>1, <2>2, <2>3
<1>9. Room(t, n)
  BY <1>2, <1>3, <1>5, <1>8 DEF Room
<1> QED
  BY <1>9 DEF t, r

LEMMA RoomToSplit ==
    ASSUME IInv, at.pc = "down", at.j < at.i, NEW n \in Keys, Room(frames, n)
    PROVE  Room(Split, n)
<1>1. /\ frames \in Seq(FrameSet) /\ Len(frames) \in Nat /\ Len(frames) # 0
      /\ n \in Int /\ Here \in FrameSet /\ L \in Nat \ {0} /\ U \in Int /\ L .. U \subseteq Keys
      /\ L + 3 <= U /\ at.i \in L + 1 .. U
  BY InnermostRange, SortAssumption DEF Keys, Fits
<1>2. PICK m \in Nat : Len(frames) = m + 1
  <2>1. Len(frames) - 1 \in Nat /\ Len(frames) = Len(frames) - 1 + 1
    BY <1>1
  <2> QED
    BY <2>1
<1>3. frames[m + 1].l = L /\ frames[m + 1].u = U /\ U <= n
  <2>1. frames[m + 1] = Here /\ m + 1 \in 1 .. Len(frames)
    BY <1>2 DEF Here
  <2> QED
    BY <2>1 DEF L, U, Room
<1>4. Returned = SubSeq(frames, 1, m)
  <2>1. Len(frames) - 1 = m
    BY <1>2
  <2> QED
    BY <2>1 DEF Returned
<1> DEFINE limit == Here.limit \div 2 + Here.limit \div 4
           low   == [l |-> L, u |-> at.i - 1, limit |-> limit]
           high  == [l |-> at.i + 1, u |-> U, limit |-> limit]
<1>5. Split = IF at.i - L < U - at.i THEN Returned \o <<high, low>> ELSE Returned \o <<low, high>>
  BY DEF Split
<1>6. limit \in Nat
  BY <1>1, SMTT(30) DEF FrameSet
<1> HIDE DEF limit
<1>7. low \in FrameSet /\ high \in FrameSet
  <2>1. at.i - 1 \in Keys /\ at.i + 1 \in Nat \ {0} /\ U \in Keys
    BY <1>1
  <2> QED
    BY <1>1, <1>6, <2>1 DEF FrameSet
<1>8. /\ low.u <= n /\ high.u <= n
      /\ low.u - low.l + 1 = at.i - L /\ high.u - high.l + 1 = U - at.i
  BY <1>1, <1>3
<1> HIDE DEF low, high
<1>9. /\ U - L + 1 \in Int /\ U - L + 1 = frames[m + 1].u - frames[m + 1].l + 1
      /\ 4 <= U - L + 1 /\ at.i - L \in Int /\ U - at.i \in Int
      /\ at.i - L <= U - L + 1 /\ U - at.i <= U - L + 1
  BY <1>1, <1>3
<1>10. CASE at.i - L < U - at.i
  <2>1. 2 * (at.i - L) <= U - L + 1
    BY <1>1, <1>10
  <2>2. Room(SubSeq(frames, 1, m) \o <<high, low>>, n)
    BY <1>1, <1>2, <1>7, <1>8, <1>9, <2>1, RoomForTwo
  <2> QED
    BY <1>4, <1>5, <1>10, <2>2
<1>11. CASE ~(at.i - L < U - at.i)
  <2>1. 2 * (U - at.i) <= U - L + 1
    BY <1>1, <1>11
  <2>2. Room(SubSeq(frames, 1, m) \o <<low, high>>, n)
    BY <1>1, <1>2, <1>7, <1>8, <1>9, <2>1, RoomForTwo
  <2> QED
    BY <1>4, <1>5, <1>11, <2>2
<1> QED
  BY <1>10, <1>11
\* A swap inside of a list leaves a list.
LEMMA SwapKeepsList ==
    ASSUME NEW t \in [Keys -> Values \cup {Nil}], NEW n \in Keys, ListOf(t, n),
           NEW i \in 1 .. n, NEW j \in 1 .. n
    PROVE  ListOf(Swapped(t, i, j), n)
<1>1. i \in Keys /\ j \in Keys
  BY SortAssumption DEF Keys
<1>2. t[i] # Nil /\ t[j] # Nil
  BY <1>1 DEF ListOf
<1> DEFINE r == Swapped(t, i, j)
<1>3. \A k \in Keys : r[k] = IF k = j THEN t[i] ELSE IF k = i THEN t[j] ELSE t[k]
  BY <1>1 DEF Swapped
<1> HIDE DEF r
<1>4. ASSUME NEW k \in Keys PROVE r[k] # Nil <=> k \in 1 .. n
  <2>1. CASE k \in {i, j}
    BY <1>2, <1>3, <2>1
  <2>2. CASE k \notin {i, j}
    BY <1>3, <2>2 DEF ListOf
  <2> QED
    BY <2>1, <2>2
<1> QED
  BY <1>4 DEF ListOf, r

\* The sort goes on without a swap, in a call that was there before.
LEMMA HalvedStays ==
    ASSUME IInv, Halved, UNCHANGED <<tab, order>>,
           frames' \in {frames, <<>>} \/ (frames # <<>> /\ frames' = Returned)
    PROVE  Halved'
<1> SUFFICES ASSUME order # "meddling", frames' # <<>>
             PROVE  \E n \in Keys : n > 1 /\ ListOf(tab, n) /\ Room(frames', n)
  BY DEF Halved
<1>1. frames # <<>>
  OBVIOUS
<1>2. PICK n \in Keys : n > 1 /\ ListOf(tab, n) /\ Room(frames, n)
  BY <1>1 DEF Halved
<1>3. Room(frames', n)
  BY <1>1, <1>2, RoomLeft
<1> QED
  BY <1>2, <1>3

\* It swaps, and goes on with frames that fit whatever list the old ones fit.
LEMMA HalvedSwaps ==
    ASSUME IInv, Halved, UNCHANGED order, at.pc \notin {"idle", "loop"},
           NEW fs, NEW point, NEW i \in L .. U, NEW j \in L .. U, SwapAndGo(i, j, fs, point),
           \A n \in Keys : Room(frames, n) => Room(fs, n)
    PROVE  Halved'
<1> SUFFICES ASSUME order # "meddling", frames' # <<>>
             PROVE  \E n \in Keys : n > 1 /\ ListOf(tab', n) /\ Room(frames', n)
  BY DEF Halved
<1>1. frames \in Seq(FrameSet) /\ frames # <<>> /\ L \in Nat \ {0} /\ U \in Int
  BY InnermostRange
<1>2. PICK n \in Keys : n > 1 /\ ListOf(tab, n) /\ Room(frames, n)
  BY <1>1 DEF Halved
<1>3. U <= n
  <2>1. Len(frames) \in 1 .. Len(frames)
    BY <1>1
  <2> QED
    BY <1>2, <2>1 DEF Room, U, Here
<1>4. i \in 1 .. n /\ j \in 1 .. n
  BY <1>1, <1>3, SortAssumption DEF Keys
<1>5. tab' = Swapped(tab, i, j) /\ frames' = fs
  BY DEF SwapAndGo, Refused, End, Swap, GoOn
<1>6. ListOf(tab', n)
  BY <1>2, <1>4, <1>5, SwapKeepsList DEF IInv, TypeOK
<1> QED
  BY <1>2, <1>5, <1>6

Halving == IInv /\ Halved /\ UNCHANGED order

\* What the partition does.
LEMMA PartitionHalves ==
    ASSUME NEW yes, Halving,
           OrderEnds(yes) \/ OrderMiddle(yes) \/ OrderAbove(yes) \/ ScanUp(yes) \/ ScanDown(yes)
    PROVE  Halved'
<1>1. at.pc \notin {"idle", "loop"} /\ IInv /\ Halved /\ UNCHANGED order
  BY DEF Halving, OrderEnds, OrderMiddle, OrderAbove, ScanUp, ScanDown, Less
<1>2. L \in Nat \ {0} /\ U \in Int /\ L < U /\ frames # <<>> /\ Fits(L, U, at)
  BY <1>1, InnermostRange DEF Fits
<1>3. \A n \in Keys : Room(frames, n) => Room(frames, n) /\ Room(Returned, n)
  BY <1>1, <1>2, RoomLeft
<1>4. CASE OrderEnds(yes)
  <2> DEFINE point == IF U - L = 1 THEN Goto("loop") ELSE Goto("middle")
             rest  == IF U - L = 1 THEN Returned ELSE frames
  <2>1. SwapAndGo(L, U, rest, point) \/ StayAndGo(rest, point)
    BY <1>4 DEF OrderEnds
  <2>2. rest \in {frames, Returned}
    OBVIOUS
  <2> HIDE DEF point, rest
  <2>3. CASE SwapAndGo(L, U, rest, point)
    <3>1. L \in L .. U /\ U \in L .. U
      BY <1>2
    <3>2. \A n \in Keys : Room(frames, n) => Room(rest, n)
      BY <1>3, <2>2
    <3> QED
      BY <1>1, <2>3, <3>1, <3>2, HalvedSwaps
  <2>4. CASE StayAndGo(rest, point)
    BY <1>1, <1>2, <2>2, <2>4, HalvedStays DEF StayAndGo, GoOn
  <2> QED
    BY <2>1, <2>3, <2>4
<1>5. CASE OrderMiddle(yes) \/ OrderAbove(yes)
  <2>1. M \in L .. U /\ L \in L .. U /\ U \in L .. U
    BY <1>2 DEF M
  <2>2. \/ \E point : SwapAndGo(M, L, frames, point) \/ SwapAndGo(M, U, frames, point)
        \/ frames' = frames /\ tab' = tab
    BY <1>5 DEF OrderMiddle, OrderAbove, StayAndGo, GoOn
  <2>3. CASE frames' = frames /\ tab' = tab
    BY <1>1, <2>3, HalvedStays
  <2>4. ASSUME NEW point, SwapAndGo(M, L, frames, point) PROVE Halved'
    BY <1>1, <2>1, <2>4, HalvedSwaps
  <2>5. ASSUME NEW point, SwapAndGo(M, U, frames, point) PROVE Halved'
    BY <1>1, <2>1, <2>5, HalvedSwaps
  <2> QED
    BY <2>2, <2>3, <2>4, <2>5
<1>6. CASE ScanUp(yes)
  <2>1. tab' = tab /\ frames' \in {frames, <<>>}
    BY <1>6 DEF ScanUp, StayAndGo, GoOn, End
  <2> QED
    BY <1>1, <2>1, HalvedStays
<1>7. CASE ScanDown(yes)
  <2>1. /\ at.pc = "down" /\ L + 3 <= U /\ at.i \in L + 1 .. U /\ at.j \in L .. U - 2
        /\ P \in L .. U /\ at.i \in L .. U /\ at.j \in L .. U
    BY <1>2, <1>7 DEF ScanDown, Less, Fits, P
  <2>2. \/ tab' = tab /\ frames' \in {frames, <<>>}
        \/ at.j < at.i /\ SwapAndGo(P, at.i, Split, Goto("loop"))
        \/ SwapAndGo(at.i, at.j, frames, Partition("up", at.i + 1, at.j))
    BY <1>7 DEF ScanDown, StayAndGo, GoOn, End
  <2>3. CASE tab' = tab /\ frames' \in {frames, <<>>}
    BY <1>1, <2>3, HalvedStays
  <2>4. CASE at.j < at.i /\ SwapAndGo(P, at.i, Split, Goto("loop"))
    <3>1. \A n \in Keys : Room(frames, n) => Room(Split, n)
      BY <1>1, <2>1, <2>4, RoomToSplit
    <3> QED
      BY <1>1, <2>1, <2>4, <3>1, HalvedSwaps
  <2>5. CASE SwapAndGo(at.i, at.j, frames, Partition("up", at.i + 1, at.j))
    BY <1>1, <2>1, <2>5, HalvedSwaps
  <2> QED
    BY <2>2, <2>3, <2>4, <2>5
<1> QED
  BY <1>4, <1>5, <1>6, <1>7
\* What the heap does, and placing the pivot.
LEMMA HeapHalves ==
    ASSUME NEW yes, Halving,
           PlacePivot \/ Heap \/ SiftLoop \/ SiftLeft(yes) \/ SiftRight(yes) \/ SiftLast(yes)
    PROVE  Halved'
<1>1. at.pc \notin {"idle", "loop"} /\ IInv /\ Halved /\ UNCHANGED order
  BY DEF Halving, PlacePivot, Heap, SiftLoop, SiftLeft, SiftRight, SiftLast, Less
<1>2. /\ L \in Nat \ {0} /\ U \in Int /\ L < U /\ frames # <<>> /\ Fits(L, U, at)
      /\ L \in L .. U /\ U \in L .. U
  BY <1>1, InnermostRange DEF Fits
<1>3. CASE PlacePivot
  <2>1. M \in L .. U /\ U - 1 \in L .. U
    BY <1>2 DEF M
  <2>2. \/ StayAndGo(Returned, Goto("loop"))
        \/ SwapAndGo(M, U - 1, frames, Partition("up", at.i + 1, at.j))
    BY <1>3 DEF PlacePivot
  <2>3. CASE StayAndGo(Returned, Goto("loop"))
    BY <1>1, <1>2, <2>3, HalvedStays DEF StayAndGo, GoOn
  <2>4. CASE SwapAndGo(M, U - 1, frames, Partition("up", at.i + 1, at.j))
    BY <1>1, <2>1, <2>4, HalvedSwaps
  <2> QED
    BY <2>2, <2>3, <2>4
<1>4. CASE Heap
  <2>1. \/ tab' = tab /\ frames' \in {frames, Returned}
        \/ at.phase = "take" /\ at.i > 0 /\ SwapAndGo(L, L + at.i, frames, Sift("take", at.i, 0))
    BY <1>4 DEF Heap, StayAndGo, GoOn
  <2>2. CASE tab' = tab /\ frames' \in {frames, Returned}
    BY <1>1, <1>2, <2>2, HalvedStays
  <2>3. CASE at.phase = "take" /\ at.i > 0 /\ SwapAndGo(L, L + at.i, frames, Sift("take", at.i, 0))
    <3>1. at.pc \in Heaping
      BY <1>4 DEF Heap, Heaping
    <3>2. L + at.i \in L .. U
      BY <1>2, <2>3, <3>1 DEF Fits
    <3> QED
      BY <1>1, <1>2, <2>3, <3>2, HalvedSwaps
  <2> QED
    BY <2>1, <2>2, <2>3
<1>5. CASE SiftLoop \/ SiftLeft(yes)
  <2>1. tab' = tab /\ frames' = frames
    BY <1>5 DEF SiftLoop, SiftLeft, StayAndGo, GoOn
  <2> QED
    BY <1>1, <2>1, HalvedStays
<1>6. CASE SiftRight(yes) \/ SiftLast(yes)
  <2>1. at.pc \in Heaping /\ at.pc \in Sifting /\ at.pc \in {"right", "last"}
    BY <1>6 DEF SiftRight, SiftLast, Less, Heaping, Sifting
  <2>2. Count <= U - L + 1 /\ Count \in Int /\ at.root \in Nat /\ at.next \in Int
    BY <1>1, <2>1, HeapRange DEF Count, Fits, PointSet
  <2>3. CASE SiftRight(yes)
    <3> DEFINE next == IF yes THEN RightOf(at.root) ELSE at.next
    <3>1. RightOf(at.root) < Count /\ at.next \in {at.root, LeftOf(at.root)}
      BY <1>2, <2>3 DEF SiftRight, Less, Fits, CountIn, Count
    <3>a. next \in Nat /\ next < Count /\ at.root < Count
      BY <2>2, <3>1 DEF LeftOf, RightOf
    <3>3. \/ tab' = tab /\ frames' = frames
          \/ SwapAndGo(L + at.root, L + next, frames, Sift(at.phase, at.i, next))
      BY <2>3 DEF SiftRight, StayAndGo, GoOn
    <3> HIDE DEF next
    <3>2. L + at.root \in L .. U /\ L + next \in L .. U
      BY <1>2, <2>2, <3>a
    <3>4. CASE tab' = tab /\ frames' = frames
      BY <1>1, <3>4, HalvedStays
    <3>5. CASE SwapAndGo(L + at.root, L + next, frames, Sift(at.phase, at.i, next))
      BY <1>1, <3>2, <3>5, HalvedSwaps
    <3> QED
      BY <3>3, <3>4, <3>5
  <2>4. CASE SiftLast(yes)
    <3>1. LeftOf(at.root) = Count - 1
      BY <1>2, <2>4 DEF SiftLast, Less, Fits, CountIn, Count
    <3>2. L + at.root \in L .. U /\ L + LeftOf(at.root) \in L .. U
      BY <1>2, <2>2, <3>1, SMTT(30) DEF LeftOf
    <3>3. \/ tab' = tab /\ frames' = frames
          \/ SwapAndGo(L + at.root, L + LeftOf(at.root), frames, Sifted)
      BY <2>4 DEF SiftLast, StayAndGo, GoOn
    <3>4. CASE tab' = tab /\ frames' = frames
      BY <1>1, <3>4, HalvedStays
    <3>5. CASE SwapAndGo(L + at.root, L + LeftOf(at.root), frames, Sifted)
      BY <1>1, <3>2, <3>5, HalvedSwaps
    <3> QED
      BY <3>3, <3>4, <3>5
  <2> QED
    BY <1>6, <2>3, <2>4
<1> QED
  BY <1>3, <1>4, <1>5, <1>6

LEMMA SortStepHalves == IInv /\ Halved /\ SortStep => Halved'
<1> SUFFICES ASSUME IInv, Halved, SortStep PROVE Halved'
  OBVIOUS
<1>1. Halving
  BY DEF Halving, SortStep
<1>2. CASE LoopEnds \/ LoopGoesOn
  <2>1. tab' = tab /\ (frames' \in {frames, <<>>} \/ (frames # <<>> /\ frames' = Returned))
    BY <1>2 DEF LoopEnds, LoopGoesOn, StayAndGo, GoOn, End
  <2> QED
    BY <1>1, <2>1, HalvedStays DEF Halving
<1>3. CASE PlacePivot \/ Heap \/ SiftLoop
  BY <1>1, <1>3, HeapHalves
<1>4. ASSUME NEW yes \in BOOLEAN, Answered(yes) PROVE Halved'
  BY <1>1, <1>4, PartitionHalves, HeapHalves DEF Answered
<1>5. CASE Raises \/ OutOfTable
  BY <1>5 DEF Raises, OutOfTable, End, Halved
<1> QED
  BY <1>2, <1>3, <1>4, <1>5 DEF SortStep, Loops

LEMMA BeginHalved ==
    ASSUME NEW how \in Orders, NEW n \in {k \in Keys : k > 1},
           NEW limit \in Limits \cup {SortLimit(n)}, IInv, BeginSort(how, n, limit)
    PROVE  Halved'
<1> DEFINE frame == [l |-> 1, u |-> n, limit |-> limit]
<1>1. n \in Int /\ n > 1 /\ ListOf(tab, n) /\ tab' = tab /\ frames' = <<frame>>
  BY SortAssumption DEF Keys, BeginSort
<1>2. frame.l = 1 /\ frame.u = n
  OBVIOUS
<1> HIDE DEF frame
<1>3. Len(frames') = 1 /\ frames'[1] = frame
  BY <1>1
<1>4. Power(0) = 1 /\ Power(1) = 2
  <2>1. Power(0 + 1) = 2 * Power(0) /\ Power(0) = 1
    BY PowerDoubles
  <2> QED
    BY <2>1
<1>5. Room(frames', n)
  <2>1. Power(1 - 1) * (frame.u - frame.l + 1) <= n
    <3>1. 1 - 1 = 0 /\ frame.u - frame.l + 1 = n
      BY <1>1, <1>2
    <3> QED
      BY <1>1, <1>4, <3>1
  <2>2. Power(1) <= n /\ frame.u <= n
    BY <1>1, <1>2, <1>4
  <2>3. \A i \in 1 .. 1 : i = 1
    OBVIOUS
  <2> QED
    BY <1>3, <2>1, <2>2, <2>3 DEF Room
<1> QED
  BY <1>1, <1>5 DEF Halved

\* A sort that is over has no frames.
LEMMA BusyKeeps == Busy /\ [SortNext]_sortVars => Busy'
<1> SUFFICES ASSUME Busy, [SortNext]_sortVars PROVE Busy'
  OBVIOUS
<1>1. ASSUME NEW fs, NEW point, GoOn(fs, point), point.pc # "idle" PROVE Busy'
  BY <1>1 DEF GoOn, Busy, Sorting
<1>2. ASSUME NEW why, End(why) PROVE Busy'
  BY <1>2 DEF End, Busy
<1>3. /\ \A pc, i, j : Partition(pc, i, j).pc = pc /\ Goto(pc).pc = pc
      /\ \A pc, phase, k, root, next :
            /\ HeapPoint(pc, phase, k, root, next).pc = pc
            /\ Sift(phase, k, root).pc = "sift" /\ HeapAt(phase, k).pc = "heap"
      /\ \A pc, next : SiftAt(pc, next).pc = pc
      /\ Sifted.pc = "heap" /\ PivotAside.pc = "pivot"
  BY DEF Partition, Goto, HeapPoint, Sift, HeapAt, SiftAt, Sifted, PivotAside
<1>4. CASE SortStep
  <2>1. CASE LoopEnds \/ LoopGoesOn \/ PlacePivot
    BY <1>1, <1>2, <1>3, <2>1 DEF LoopEnds, LoopGoesOn, PlacePivot, StayAndGo, SwapAndGo, Refused
  <2>2. CASE Heap \/ SiftLoop
    BY <1>1, <1>2, <1>3, <2>2 DEF Heap, SiftLoop, StayAndGo, SwapAndGo, Refused
  <2>3. ASSUME NEW yes \in BOOLEAN, OrderEnds(yes) \/ OrderMiddle(yes) \/ OrderAbove(yes)
        PROVE  Busy'
    BY <1>1, <1>2, <1>3, <2>3
       DEF OrderEnds, OrderMiddle, OrderAbove, StayAndGo, SwapAndGo, Refused
  <2>4. ASSUME NEW yes \in BOOLEAN, ScanUp(yes) \/ ScanDown(yes) PROVE Busy'
    BY <1>1, <1>2, <1>3, <2>4 DEF ScanUp, ScanDown, StayAndGo, SwapAndGo, Refused
  <2>5. ASSUME NEW yes \in BOOLEAN, SiftLeft(yes) \/ SiftRight(yes) \/ SiftLast(yes) PROVE Busy'
    BY <1>1, <1>2, <1>3, <2>5 DEF SiftLeft, SiftRight, SiftLast, StayAndGo, SwapAndGo, Refused
  <2>6. CASE Raises \/ OutOfTable
    BY <1>2, <2>6 DEF Raises, OutOfTable
  <2> QED
    BY <1>4, <2>1, <2>2, <2>3, <2>4, <2>5, <2>6 DEF SortStep, Loops, Answered
<1>5. ASSUME NEW how, NEW n, NEW limit, BeginSort(how, n, limit) PROVE Busy'
  BY <1>3, <1>5 DEF BeginSort, Busy, Sorting
<1>6. CASE Meddling \/ Freeze \/ Forget \/ UNCHANGED sortVars
  BY <1>2, <1>6 DEF Meddling, Meddle, MeddleNoticed, Freeze, Forget, sortVars, Busy, Sorting
<1> QED
  BY <1>4, <1>5, <1>6 DEF SortNext

LEMMA HalvedKeeps == IInv /\ Busy /\ Halved /\ [SortNext]_sortVars => Halved'
<1> SUFFICES ASSUME IInv, Busy, Halved, [SortNext]_sortVars PROVE Halved'
  OBVIOUS
<1>1. ASSUME NEW how \in Orders, NEW n \in {k \in Keys : k > 1},
             NEW limit \in Limits \cup {SortLimit(n)}, BeginSort(how, n, limit)
      PROVE  Halved'
  BY <1>1, BeginHalved
<1>2. CASE SortStep
  BY <1>2, SortStepHalves
<1>3. CASE Meddling \/ Freeze
  BY <1>3 DEF Meddling, Meddle, MeddleNoticed, Freeze, Halved
<1>4. CASE Forget
  BY <1>4 DEF Forget, Busy, Halved
<1>5. CASE UNCHANGED sortVars
  BY <1>5 DEF sortVars, Halved
<1> QED
  BY <1>1, <1>2, <1>3, <1>4, <1>5 DEF SortNext

\* The calls of sortRec are never deeper than the logarithm of the length, for
\* tables of every size and whatever a comparator answers, if it leaves the
\* table alone (sortRec calls itself for the smaller part, table.go).
THEOREM DepthAlwaysLogarithmic == SortSpec => []DepthLogarithmic
<1> DEFINE Inv == IInv /\ Busy /\ Halved
<1>1. SortInit => Inv
  BY Start DEF SortInit, Busy, Halved
<1>2. Inv /\ [SortNext]_sortVars => Inv'
  BY Inductive, BusyKeeps, HalvedKeeps
<1>3. Inv => DepthLogarithmic
  <2> SUFFICES ASSUME Halved, frames # <<>>, order # "meddling"
               PROVE  \E n \in Borders(tab) : Power(Len(frames)) <= n
    BY DEF DepthLogarithmic
  <2>1. PICK n \in Keys : n > 1 /\ ListOf(tab, n) /\ Room(frames, n)
    BY DEF Halved
  <2>2. n \in Int /\ n \in Nat /\ n \in 1 .. n /\ n + 1 \notin 1 .. n
    BY <2>1, SortAssumption DEF Keys
  <2>3. n \in Borders(tab)
    BY <2>1, <2>2 DEF Borders, ListOf
  <2> QED
    BY <2>1, <2>3 DEF Room
<1> QED
  BY <1>1, <1>2, <1>3, PTL DEF SortSpec
-----------------------------------------------------------------------------
(* What a sort by an order has put in order.                               *)

\* Some call has both positions to put in order.
Together(fs, a, b) == \E m \in 1 .. Len(fs) : fs[m].l <= a /\ b <= fs[m].u

\* The calls sort parts that do not meet, and what no call has to put in
\* order is in order.
Apart(fs) ==
    \A m, q \in 1 .. Len(fs) : m # q => fs[m].u < fs[q].l \/ fs[q].u < fs[m].l
Parted(t, fs) ==
    \A a, b \in Keys : a < b /\ t[a] # Nil /\ t[b] # Nil /\ ~Together(fs, a, b) => t[a] <= t[b]

\* The partition of l .. u: the pivot is at u - 1, and what is before i and
\* behind j is on its side of it.
Partitioned(t, l, u, p) ==
    LET m == l + (u - l) \div 2
    IN  /\ p.pc \in {"middle", "above"} => t[l] <= t[u]
        /\ p.pc = "above" => t[l] <= t[m]
        /\ p.pc = "pivot" => t[l] <= t[m] /\ t[m] <= t[u]
        /\ p.pc \in {"up", "down"} => p.i < u /\ \A k \in l .. p.i - 1 : t[k] <= t[u - 1]
        /\ p.pc = "up"   => \A k \in p.j .. u : t[u - 1] <= t[k]
        /\ p.pc = "down" => t[u - 1] <= t[p.i] /\ \A k \in p.j + 1 .. u : t[u - 1] <= t[k]

\* The c values from l on are a heap from s on, but for the children of hole,
\* and those are no larger than its parent.
ChildOf(q, r) == q = LeftOf(r) \/ q = RightOf(r)
HeapBut(t, l, s, c, hole) ==
    \A r, q \in 0 .. c - 1 : ChildOf(q, r) /\ s <= r /\ r # hole => t[l + q] <= t[l + r]
Skipped(t, l, s, c, hole) ==
    \A r, q \in 0 .. c - 1 :
       ChildOf(hole, r) /\ ChildOf(q, hole) /\ s <= r => t[l + q] <= t[l + r]

\* Behind them nothing is smaller than what is before it.
Behind(t, l, u, c) == \A a, b \in l .. u : a < b /\ l + c <= b => t[a] <= t[b]

\* sortHeap between two calls of siftHeap, and siftHeap.
BetweenSifts(t, l, u, p) ==
    LET c == IF p.phase = "build" THEN u - l + 1 ELSE p.i + 1
        s == IF p.phase = "build" THEN p.i + 1 ELSE 0
    IN  HeapBut(t, l, s, c, -1) /\ Behind(t, l, u, c)
HeapBase(p) == IF p.phase = "build" THEN p.i ELSE 0
WhileSifting(t, l, u, p) ==
    LET c == CountIn(l, u, p)
    IN  /\ HeapBut(t, l, HeapBase(p), c, p.root) /\ Skipped(t, l, HeapBase(p), c, p.root)
        /\ HeapBase(p) <= p.root /\ Behind(t, l, u, c)
        /\ p.pc = "right" => /\ t[l + p.root] <= t[l + p.next]
                             /\ t[l + LeftOf(p.root)] <= t[l + p.next]

Heaped(t, l, u, p) ==
    /\ p.pc = "heap" => BetweenSifts(t, l, u, p)
    /\ p.pc \in Sifting => WhileSifting(t, l, u, p)

\* What a sort by an order has reached, and how any sort can end.
Ordering ==
    /\ Sorting => outcome = "sorting"
    /\ outcome = "modified" => order = "meddling"
    /\ order = "given" =>
          /\ outcome \in {"none", "sorting", "sorted"}
          /\ Sorting => ~frozen /\ Apart(frames) /\ Parted(tab, frames)
          /\ at.pc \notin {"idle", "loop"} =>
                Partitioned(tab, L, U, at) /\ Heaped(tab, L, U, at)
          /\ outcome = "sorted" => Parted(tab, <<>>)

-----------------------------------------------------------------------------
(* Heaps.                                                                  *)

\* The values of l .. u are integers.
Whole(t, l, u) == \A k \in l .. u : t[k] \in Int

\* In l .. u, r is t with two positions swapped.
SwapOf(r, t, l, u, i, j) ==
    \A k \in l .. u : r[k] = IF k = j THEN t[i] ELSE IF k = i THEN t[j] ELSE t[k]

LEMMA OneParent ==
    ASSUME NEW q \in Int, NEW a \in Int, NEW b \in Int, ChildOf(q, a), ChildOf(q, b)
    PROVE  a = b
BY DEF ChildOf, LeftOf, RightOf

LEMMA ChildAfter ==
    ASSUME NEW q \in Int, NEW a \in Nat, ChildOf(q, a)
    PROVE  a < q
BY DEF ChildOf, LeftOf, RightOf

\* The largest value of a heap is the first.
LEMMA HeapTop ==
    ASSUME NEW t, NEW l \in Int, NEW c \in Nat, Whole(t, l, l + c - 1),
           HeapBut(t, l, 0, c, -1), NEW q \in 0 .. c - 1
    PROVE  t[l + q] <= t[l]
<1> DEFINE Bad == {k \in Nat : k < c /\ ~(t[l + k] <= t[l])}
<1>0. \A k \in 0 .. c - 1 : t[l + k] \in Int
  BY DEF Whole
<1> SUFFICES ASSUME ~(t[l + q] <= t[l]) PROVE FALSE
  OBVIOUS
<1>1. Bad # {}
  <2>1. q \in Nat /\ q < c
    OBVIOUS
  <2>2. q \in Bad
    BY <2>1
  <2> QED
    BY <2>2
<1>2. PICK k \in Bad : \A m \in Bad : k <= m
  <2>1. Bad \subseteq Nat
    OBVIOUS
  <2> HIDE DEF Bad
  <2> QED
    BY <1>1, <2>1, LeastNat
<1>3. k \in Nat /\ k < c /\ ~(t[l + k] <= t[l])
  BY <1>2
<1>4. t[l] \in Int /\ l + 0 = l
  <2>1. 0 \in 0 .. c - 1 /\ l + 0 = l
    BY <1>3
  <2> QED
    BY <1>0, <2>1
<1>5. k # 0
  BY <1>3, <1>4
<1>6. PICK a \in Nat : ChildOf(k, a) /\ a < k
  <2>1. (k - 1) \div 2 \in Nat /\ ChildOf(k, (k - 1) \div 2)
    BY <1>3, <1>5 DEF ChildOf, LeftOf, RightOf
  <2> QED
    BY <1>3, <2>1, ChildAfter
<1>7. a \notin Bad
  BY <1>2, <1>3, <1>6
<1>8. t[l + a] <= t[l]
  BY <1>3, <1>6, <1>7
<1>9. a \in 0 .. c - 1 /\ k \in 0 .. c - 1 /\ a # -1 /\ 0 <= a
  BY <1>3, <1>6
<1>10. t[l + k] <= t[l + a]
  BY <1>6, <1>9 DEF HeapBut
<1>11. t[l + a] \in Int /\ t[l + k] \in Int
  BY <1>0, <1>9
<1> QED
  BY <1>3, <1>4, <1>8, <1>10, <1>11

\* A swap among the first c leaves what is behind them.
LEMMA SwapBehind ==
    ASSUME NEW t, NEW r, NEW l \in Int, NEW u \in Int, NEW c \in Int, l + c - 1 <= u,
           NEW i \in l .. l + c - 1, NEW j \in l .. l + c - 1, SwapOf(r, t, l, u, i, j),
           Behind(t, l, u, c)
    PROVE  Behind(r, l, u, c)
<1> SUFFICES ASSUME NEW a \in l .. u, NEW b \in l .. u, a < b, l + c <= b
             PROVE  r[a] <= r[b]
  BY DEF Behind
<1>1. b # i /\ b # j
  OBVIOUS
<1>2. r[b] = t[b]
  BY <1>1 DEF SwapOf
<1>3. i \in l .. u /\ j \in l .. u /\ i < b /\ j < b
  OBVIOUS
<1>4. t[i] <= t[b] /\ t[j] <= t[b] /\ t[a] <= t[b]
  BY <1>3 DEF Behind
<1>5. r[a] \in {t[a], t[i], t[j]}
  BY DEF SwapOf
<1> QED
  BY <1>2, <1>4, <1>5

\* The next root before a heap.
LEMMA SiftStarts ==
    ASSUME NEW t, NEW l, NEW c \in Nat, NEW k \in Nat, HeapBut(t, l, k + 1, c, -1)
    PROVE  HeapBut(t, l, k, c, k) /\ Skipped(t, l, k, c, k)
<1>1. HeapBut(t, l, k, c, k)
  <2> SUFFICES ASSUME NEW r \in 0 .. c - 1, NEW q \in 0 .. c - 1, ChildOf(q, r), k <= r, r # k
               PROVE  t[l + q] <= t[l + r]
    BY DEF HeapBut
  <2>1. k + 1 <= r /\ r # -1
    OBVIOUS
  <2> QED
    BY <2>1 DEF HeapBut
<1>2. Skipped(t, l, k, c, k)
  <2> SUFFICES ASSUME NEW r \in 0 .. c - 1, ChildOf(k, r), k <= r PROVE FALSE
    BY DEF Skipped
  <2>1. r < k
    BY ChildAfter
  <2> QED
    BY <2>1
<1> QED
  BY <1>1, <1>2

\* The first value goes to the end of its heap, and belongs there.
LEMMA HeapTaken ==
    ASSUME NEW t, NEW r, NEW l \in Int, NEW u \in Int, NEW c \in Nat, 0 < c, l + c <= u,
           Whole(t, l, u), SwapOf(r, t, l, u, l, l + c),
           HeapBut(t, l, 0, c + 1, -1), Behind(t, l, u, c + 1)
    PROVE  HeapBut(r, l, 0, c, 0) /\ Skipped(r, l, 0, c, 0) /\ Behind(r, l, u, c)
<1>1. \A q \in 1 .. c - 1 : r[l + q] = t[l + q]
  <2> TAKE q \in 1 .. c - 1
  <2>1. l + q \in l .. u /\ l + q # l /\ l + q # l + c
    OBVIOUS
  <2> QED
    BY <2>1 DEF SwapOf
<1>2. HeapBut(r, l, 0, c, 0)
  <2> SUFFICES ASSUME NEW a \in 0 .. c - 1, NEW q \in 0 .. c - 1, ChildOf(q, a), 0 <= a, a # 0
               PROVE  r[l + q] <= r[l + a]
    BY DEF HeapBut
  <2>1. a < q
    BY ChildAfter
  <2>2. a \in 1 .. c - 1 /\ q \in 1 .. c - 1 /\ a \in 0 .. c + 1 - 1 /\ q \in 0 .. c + 1 - 1 /\ a # -1
    BY <2>1
  <2>3. t[l + q] <= t[l + a]
    BY <2>2 DEF HeapBut
  <2> QED
    BY <1>1, <2>2, <2>3
<1>3. Skipped(r, l, 0, c, 0)
  <2> SUFFICES ASSUME NEW a \in 0 .. c - 1, ChildOf(0, a) PROVE FALSE
    BY DEF Skipped
  <2>1. a < 0
    BY ChildAfter
  <2> QED
    BY <2>1
<1>4. Behind(r, l, u, c)
  <2>1. Whole(t, l, l + (c + 1) - 1) /\ c + 1 \in Nat
    BY DEF Whole
  <2>2. \A q \in 0 .. c + 1 - 1 : t[l + q] <= t[l]
    BY <2>1, HeapTop
  <2> SUFFICES ASSUME NEW a \in l .. u, NEW b \in l .. u, a < b, l + c <= b
               PROVE  r[a] <= r[b]
    BY DEF Behind
  <2>3. CASE b = l + c
    <3>1. r[b] = t[l]
      BY <2>3 DEF SwapOf
    <3>2. CASE a = l
      <4>1. r[a] = t[l + c] /\ c \in 0 .. c + 1 - 1
        BY <2>3, <3>2 DEF SwapOf
      <4> QED
        BY <2>2, <3>1, <4>1
    <3>3. CASE a # l
      <4>1. r[a] = t[a]
        BY <2>3, <3>3 DEF SwapOf
      <4>2. a - l \in 0 .. c + 1 - 1 /\ l + (a - l) = a
        BY <2>3
      <4> QED
        BY <2>2, <3>1, <4>1, <4>2
    <3> QED
      BY <3>2, <3>3
  <2>4. CASE b # l + c
    <3>1. r[b] = t[b] /\ l + (c + 1) <= b
      BY <2>4 DEF SwapOf
    <3>2. r[a] \in {t[a], t[l], t[l + c]}
      BY DEF SwapOf
    <3>3. l \in l .. u /\ l + c \in l .. u /\ l < b /\ l + c < b
      BY <2>4
    <3>4. t[a] <= t[b] /\ t[l] <= t[b] /\ t[l + c] <= t[b]
      BY <3>1, <3>3 DEF Behind
    <3> QED
      BY <3>1, <3>2, <3>4
  <2> QED
    BY <2>3, <2>4
<1> QED
  BY <1>2, <1>3, <1>4
\* The value at the hole changes places with its largest child.
LEMMA SiftGoesDown ==
    ASSUME NEW t, NEW r, NEW l \in Int, NEW c \in Nat, NEW s \in Nat,
           Whole(t, l, l + c - 1), NEW root \in 0 .. c - 1, s <= root,
           NEW next \in 0 .. c - 1, ChildOf(next, root),
           SwapOf(r, t, l, l + c - 1, l + root, l + next),
           \A q \in 0 .. c - 1 : ChildOf(q, root) => t[l + q] <= t[l + next],
           t[l + root] <= t[l + next],
           HeapBut(t, l, s, c, root), Skipped(t, l, s, c, root)
    PROVE  HeapBut(r, l, s, c, next) /\ Skipped(r, l, s, c, next) /\ s <= next
<1>1. root < next /\ root # next
  BY ChildAfter
<1>2. r[l + root] = t[l + next] /\ r[l + next] = t[l + root]
  <2>1. l + root \in l .. l + c - 1 /\ l + next \in l .. l + c - 1 /\ l + root # l + next
    BY <1>1
  <2> QED
    BY <2>1 DEF SwapOf
<1>3. ASSUME NEW q \in 0 .. c - 1, q # root, q # next PROVE r[l + q] = t[l + q]
  <2>1. l + q \in l .. l + c - 1 /\ l + q # l + root /\ l + q # l + next
    BY <1>3
  <2> QED
    BY <2>1 DEF SwapOf
<1>4. HeapBut(r, l, s, c, next)
  <2> SUFFICES ASSUME NEW a \in 0 .. c - 1, NEW q \in 0 .. c - 1, ChildOf(q, a), s <= a, a # next
               PROVE  r[l + q] <= r[l + a]
    BY DEF HeapBut
  <2>0. a < q
    BY ChildAfter
  <2>1. CASE a = root /\ q = next
    BY <1>2, <2>1
  <2>2. CASE a = root /\ q # next
    <3>1. r[l + q] = t[l + q]
      BY <1>3, <2>0, <2>2
    <3>2. t[l + q] <= t[l + next]
      BY <2>2
    <3> QED
      BY <1>2, <2>2, <3>1, <3>2
  <2>3. CASE a # root /\ q = root
    <3>1. r[l + a] = t[l + a]
      BY <1>3, <2>3
    <3>2. t[l + next] <= t[l + a]
      BY <2>3 DEF Skipped
    <3> QED
      BY <1>2, <2>3, <3>1, <3>2
  <2>4. CASE a # root /\ q # root
    <3>1. q # next
      BY <2>4, OneParent
    <3>2. r[l + a] = t[l + a] /\ r[l + q] = t[l + q]
      BY <1>3, <2>4, <3>1
    <3>3. t[l + q] <= t[l + a]
      BY <2>4 DEF HeapBut
    <3> QED
      BY <3>2, <3>3
  <2> QED
    BY <2>1, <2>2, <2>3, <2>4
<1>5. Skipped(r, l, s, c, next)
  <2> SUFFICES ASSUME NEW a \in 0 .. c - 1, NEW q \in 0 .. c - 1,
                      ChildOf(next, a), ChildOf(q, next), s <= a
               PROVE  r[l + q] <= r[l + a]
    BY DEF Skipped
  <2>1. a = root
    BY OneParent
  <2>2. next < q
    BY ChildAfter
  <2>3. r[l + q] = t[l + q]
    BY <1>1, <1>3, <2>2
  <2>4. t[l + q] <= t[l + next]
    BY <1>1 DEF HeapBut
  <2> QED
    BY <1>2, <2>1, <2>3, <2>4
<1> QED
  BY <1>1, <1>4, <1>5

\* The value at the hole is not smaller than its children.
LEMMA SiftRests ==
    ASSUME NEW t, NEW l \in Int, NEW c \in Nat, NEW s \in Nat, NEW root \in Nat,
           HeapBut(t, l, s, c, root),
           \A q \in 0 .. c - 1 : ChildOf(q, root) => t[l + q] <= t[l + root]
    PROVE  HeapBut(t, l, s, c, -1)
BY DEF HeapBut

-----------------------------------------------------------------------------
(* The calls and their parts.                                              *)

\* The innermost call is the last, and its part lies in the list.
LEMMA InList ==
    ASSUME IInv, Halved, order # "meddling", at.pc \notin {"idle", "loop"}
    PROVE  /\ L .. U \subseteq Keys /\ \A k \in L .. U : tab[k] # Nil /\ tab[k] \in Int
           /\ \A n \in Borders(tab) : L .. U \subseteq 1 .. n
<1>1. frames \in Seq(FrameSet) /\ frames # <<>> /\ L \in Nat \ {0} /\ U \in Int /\ L .. U \subseteq Keys
  BY InnermostRange
<1>2. PICK n \in Keys : n > 1 /\ ListOf(tab, n) /\ Room(frames, n)
  BY <1>1 DEF Halved
<1>3. U <= n /\ n \in Int
  <2>1. Len(frames) \in 1 .. Len(frames)
    BY <1>1
  <2> QED
    BY <1>2, <2>1, SortAssumption DEF Room, U, Here, Keys
<1>4. ASSUME NEW k \in L .. U PROVE tab[k] # Nil /\ tab[k] \in Int
  <2>1. k \in 1 .. n /\ k \in Keys
    BY <1>1, <1>3
  <2>2. tab[k] # Nil
    BY <1>2, <2>1 DEF ListOf
  <2>3. tab[k] \in Values \cup {Nil}
    BY <2>1 DEF IInv, TypeOK
  <2> QED
    BY <2>2, <2>3, SortAssumption
<1>5. ASSUME NEW b \in Borders(tab) PROVE L .. U \subseteq 1 .. b
  <2>1. b \in Nat /\ (b = 0 \/ tab[b] # Nil) /\ (b + 1 \in Keys => tab[b + 1] = Nil)
    BY DEF Borders
  <2>2. ~(b < n)
    <3> SUFFICES ASSUME b < n PROVE FALSE
      OBVIOUS
    <3>1. b + 1 \in 1 .. n /\ b + 1 \in Keys
      BY <1>3, <2>1, SortAssumption DEF Keys
    <3> QED
      BY <1>2, <2>1, <3>1 DEF ListOf
  <2> QED
    BY <1>1, <1>3, <2>1, <2>2
<1> QED
  BY <1>1, <1>4, <1>5

\* The frames as numbers.
LEMMA FrameInts ==
    ASSUME NEW fs \in Seq(FrameSet), NEW m \in 1 .. Len(fs)
    PROVE  fs[m] \in FrameSet /\ fs[m].l \in Int /\ fs[m].u \in Int
<1>1. fs[m] \in FrameSet
  OBVIOUS
<1> QED
  BY <1>1, SortAssumption DEF FrameSet, Keys

\* No other call has a position of the innermost one's part and one outside.
LEMMA NotTogether ==
    ASSUME frames \in Seq(FrameSet), frames # <<>>, Apart(frames),
           NEW a \in Int, NEW b \in Int, a < b,
           (a \in L .. U /\ b > U) \/ (b \in L .. U /\ a < L)
    PROVE  ~Together(frames, a, b)
<1> SUFFICES ASSUME NEW m \in 1 .. Len(frames), frames[m].l <= a, b <= frames[m].u
             PROVE  FALSE
  BY DEF Together
<1>1. frames[m].l \in Int /\ frames[m].u \in Int /\ L \in Int /\ U \in Int
  <2>1. Len(frames) \in 1 .. Len(frames)
    OBVIOUS
  <2> QED
    BY <2>1, FrameInts DEF L, U, Here
<1>2. CASE m = Len(frames)
  BY <1>1, <1>2 DEF L, U, Here
<1>3. CASE m # Len(frames)
  <2>1. frames[m].u < L \/ U < frames[m].l
    <3>1. Len(frames) \in 1 .. Len(frames)
      OBVIOUS
    <3> QED
      BY <1>3, <3>1 DEF Apart, L, U, Here
  <2> QED
    BY <1>1, <2>1
<1> QED
  BY <1>2, <1>3

\* A swap inside of the innermost call's part.
LEMMA SwapParted ==
    ASSUME tab \in [Keys -> Values \cup {Nil}],
           frames \in Seq(FrameSet), frames # <<>>, Apart(frames), Parted(tab, frames),
           L .. U \subseteq Keys, \A k \in L .. U : tab[k] # Nil,
           NEW i \in L .. U, NEW j \in L .. U
    PROVE  Parted(Swapped(tab, i, j), frames)
<1> DEFINE r == Swapped(tab, i, j)
<1>1. \A k \in Keys : r[k] = IF k = j THEN tab[i] ELSE IF k = i THEN tab[j] ELSE tab[k]
  BY DEF Swapped
<1> HIDE DEF r
<1>2. L \in Int /\ U \in Int
  <2>1. Len(frames) \in 1 .. Len(frames)
    OBVIOUS
  <2> QED
    BY <2>1, FrameInts DEF L, U, Here
<1>3. Keys \subseteq Int
  BY SortAssumption DEF Keys
<1> SUFFICES ASSUME NEW a \in Keys, NEW b \in Keys, a < b, r[a] # Nil, r[b] # Nil,
                    ~Together(frames, a, b)
             PROVE  r[a] <= r[b]
  BY DEF Parted, r
<1>4. a \in Int /\ b \in Int
  BY <1>3
<1>5. ~(a \in L .. U /\ b \in L .. U)
  <2>1. Len(frames) \in 1 .. Len(frames)
    OBVIOUS
  <2> QED
    BY <1>2, <2>1 DEF Together, L, U, Here
<1>6. CASE a \in L .. U
  <2>1. b > U
    BY <1>2, <1>4, <1>5, <1>6
  <2>2. r[b] = tab[b]
    BY <1>1, <1>2, <2>1
  <2>3. ASSUME NEW x \in {a, i, j} PROVE tab[x] <= tab[b]
    <3>1. x \in L .. U
      BY <1>6
    <3>2. x \in Keys /\ x \in Int /\ x < b /\ tab[x] # Nil
      BY <1>2, <1>4, <2>1, <3>1
    <3>3. ~Together(frames, x, b)
      BY <1>4, <2>1, <3>1, <3>2, NotTogether
    <3> QED
      BY <2>2, <3>2, <3>3 DEF Parted
  <2>4. r[a] \in {tab[a], tab[i], tab[j]}
    BY <1>1
  <2> QED
    BY <2>2, <2>3, <2>4
<1>7. CASE b \in L .. U
  <2>1. a < L
    BY <1>2, <1>4, <1>5, <1>7
  <2>2. r[a] = tab[a]
    BY <1>1, <1>2, <2>1
  <2>3. ASSUME NEW x \in {b, i, j} PROVE tab[a] <= tab[x]
    <3>1. x \in L .. U
      BY <1>7
    <3>2. x \in Keys /\ x \in Int /\ a < x /\ tab[x] # Nil
      BY <1>2, <1>4, <2>1, <3>1
    <3>3. ~Together(frames, a, x)
      BY <1>4, <2>1, <3>1, <3>2, NotTogether
    <3> QED
      BY <2>2, <3>2, <3>3 DEF Parted
  <2>4. r[b] \in {tab[b], tab[i], tab[j]}
    BY <1>1
  <2> QED
    BY <2>2, <2>3, <2>4
<1>8. CASE a \notin L .. U /\ b \notin L .. U
  <2>1. r[a] = tab[a] /\ r[b] = tab[b]
    BY <1>1, <1>8
  <2> QED
    BY <2>1 DEF Parted
<1> QED
  BY <1>6, <1>7, <1>8

\* The innermost call returns when its part is in order.
LEMMA ReturnedParted ==
    ASSUME frames \in Seq(FrameSet), frames # <<>>, Apart(frames),
           NEW t, Parted(t, frames), Keys \subseteq Int,
           \A a, b \in L .. U : a < b => t[a] <= t[b]
    PROVE  Apart(Returned) /\ Parted(t, Returned)
<1>1. PICK m \in Nat : Len(frames) = m + 1
  <2>1. Len(frames) - 1 \in Nat /\ Len(frames) = Len(frames) - 1 + 1
    OBVIOUS
  <2> QED
    BY <2>1
<1>2. Len(Returned) = m /\ \A i \in 1 .. m : Returned[i] = frames[i]
  <2>1. Len(frames) - 1 = m
    BY <1>1
  <2> QED
    BY <1>1, <2>1, ButLast DEF Returned
<1>3. \A i \in 1 .. m : i \in 1 .. Len(frames)
  BY <1>1
<1>4. Apart(Returned)
  BY <1>2, <1>3 DEF Apart
<1>5. ASSUME NEW a \in Keys, NEW b \in Keys, a < b, t[a] # Nil, t[b] # Nil,
             ~Together(Returned, a, b)
      PROVE  t[a] <= t[b]
  <2>1. CASE Together(frames, a, b)
    <3>1. PICK q \in 1 .. Len(frames) : frames[q].l <= a /\ b <= frames[q].u
      BY <2>1 DEF Together
    <3>2. q \notin 1 .. m
      BY <1>2, <1>5, <3>1 DEF Together
    <3>3. q = Len(frames)
      BY <1>1, <3>2
    <3>4. L \in Int /\ U \in Int /\ L <= a /\ b <= U
      BY <3>1, <3>3, FrameInts DEF L, U, Here
    <3>5. a \in Int /\ b \in Int
      OBVIOUS
    <3>6. a \in L .. U /\ b \in L .. U
      BY <1>5, <3>4, <3>5
    <3> QED
      BY <1>5, <3>6
  <2>2. CASE ~Together(frames, a, b)
    BY <1>5, <2>2 DEF Parted
  <2> QED
    BY <2>1, <2>2
<1>6. Parted(t, Returned)
  BY <1>5 DEF Parted
<1> QED
  BY <1>4, <1>6

\* Two parts of the innermost call's part, around a value that is in its
\* place, take its place.
LEMMA TwoParted ==
    ASSUME frames \in Seq(FrameSet), frames # <<>>, Apart(frames),
           NEW t, Parted(t, frames), Keys \subseteq Int, L .. U \subseteq Keys, Whole(t, L, U),
           NEW p \in L .. U, NEW x \in FrameSet, NEW y \in FrameSet,
           \/ x.l = L /\ x.u = p - 1 /\ y.l = p + 1 /\ y.u = U
           \/ y.l = L /\ y.u = p - 1 /\ x.l = p + 1 /\ x.u = U,
           \A k \in L .. p - 1 : t[k] <= t[p], \A k \in p + 1 .. U : t[p] <= t[k]
    PROVE  Apart(Returned \o <<x, y>>) /\ Parted(t, Returned \o <<x, y>>)
<1> DEFINE fs == Returned \o <<x, y>>
<1>1. PICK m \in Nat : Len(frames) = m + 1
  <2>1. Len(frames) - 1 \in Nat /\ Len(frames) = Len(frames) - 1 + 1
    OBVIOUS
  <2> QED
    BY <2>1
<1>2. Returned \in Seq(FrameSet) /\ Len(Returned) = m /\ \A i \in 1 .. m : Returned[i] = frames[i]
  <2>1. Len(frames) - 1 = m
    BY <1>1
  <2> QED
    BY <1>1, <2>1, ButLast DEF Returned
<1>3. /\ Len(fs) = m + 2 /\ fs[m + 1] = x /\ fs[m + 2] = y
      /\ \A i \in 1 .. m : fs[i] = frames[i]
  BY <1>2, TwoMore
<1> HIDE DEF fs
<1>4. L \in Int /\ U \in Int /\ L = frames[m + 1].l /\ U = frames[m + 1].u /\ p \in Int
      /\ m + 1 \in 1 .. Len(frames)
  <2>1. m + 1 \in 1 .. Len(frames)
    BY <1>1
  <2> QED
    BY <1>1, <2>1, FrameInts DEF L, U, Here
<1>5. ASSUME NEW i \in 1 .. m
      PROVE  /\ frames[i].u \in Int /\ frames[i].l \in Int
             /\ frames[i].u < L \/ U < frames[i].l
  <2>1. i \in 1 .. Len(frames) /\ i # m + 1
    BY <1>1
  <2>2. frames[i].u \in Int /\ frames[i].l \in Int
    BY <2>1, FrameInts
  <2>3. frames[i].u < L \/ U < frames[i].l
    BY <1>4, <2>1 DEF Apart
  <2> QED
    BY <2>2, <2>3
<1>6. ASSUME NEW z \in {x, y}
      PROVE  z.l \in Int /\ z.u \in Int /\ L <= z.l /\ z.u <= U
  BY <1>4
<1>7. x.u < y.l \/ y.u < x.l
  BY <1>4
<1>8. Apart(fs)
  <2> SUFFICES ASSUME NEW i \in 1 .. m + 2, NEW q \in 1 .. m + 2, i # q
               PROVE  fs[i].u < fs[q].l \/ fs[q].u < fs[i].l
    BY <1>3 DEF Apart
  <2>1. CASE i \in 1 .. m /\ q \in 1 .. m
    <3>1. i \in 1 .. Len(frames) /\ q \in 1 .. Len(frames)
      BY <1>1, <2>1
    <3> QED
      BY <1>3, <2>1, <3>1 DEF Apart
  <2>2. CASE i \in 1 .. m /\ q \notin 1 .. m
    <3>1. fs[q] \in {x, y} /\ fs[i] = frames[i]
      BY <1>3, <2>2
    <3>2. fs[q].l \in Int /\ fs[q].u \in Int /\ L <= fs[q].l /\ fs[q].u <= U
      BY <1>6, <3>1
    <3>3. i \in 1 .. m
      BY <2>2
    <3>4. fs[i].u \in Int /\ fs[i].l \in Int
      BY <1>5, <3>1, <3>3
    <3>5. fs[i].u < L \/ U < fs[i].l
      BY <1>5, <3>1, <3>3
    <3>6. L \in Int /\ U \in Int
      BY <1>4
    <3>7. CASE fs[i].u < L
      BY <3>2, <3>4, <3>6, <3>7
    <3>8. CASE U < fs[i].l
      BY <3>2, <3>4, <3>6, <3>8
    <3> QED
      BY <3>5, <3>7, <3>8
  <2>3. CASE i \notin 1 .. m /\ q \in 1 .. m
    <3>1. fs[i] \in {x, y} /\ fs[q] = frames[q]
      BY <1>3, <2>3
    <3>2. fs[i].l \in Int /\ fs[i].u \in Int /\ L <= fs[i].l /\ fs[i].u <= U
      BY <1>6, <3>1
    <3>3. q \in 1 .. m
      BY <2>3
    <3>4. fs[q].u \in Int /\ fs[q].l \in Int
      BY <1>5, <3>1, <3>3
    <3>5. fs[q].u < L \/ U < fs[q].l
      BY <1>5, <3>1, <3>3
    <3>6. L \in Int /\ U \in Int
      BY <1>4
    <3>7. CASE fs[q].u < L
      BY <3>2, <3>4, <3>6, <3>7
    <3>8. CASE U < fs[q].l
      BY <3>2, <3>4, <3>6, <3>8
    <3> QED
      BY <3>5, <3>7, <3>8
  <2>4. CASE i \notin 1 .. m /\ q \notin 1 .. m
    <3>1. (i = m + 1 /\ q = m + 2) \/ (i = m + 2 /\ q = m + 1)
      BY <2>4
    <3> QED
      BY <1>3, <1>7, <3>1
  <2> QED
    BY <2>1, <2>2, <2>3, <2>4
<1>9. ASSUME NEW a \in Keys, NEW b \in Keys, a < b, t[a] # Nil, t[b] # Nil, ~Together(fs, a, b)
      PROVE  t[a] <= t[b]
  <2>0. a \in Int /\ b \in Int
    OBVIOUS
  <2>1. CASE Together(frames, a, b)
    <3>1. PICK q \in 1 .. Len(frames) : frames[q].l <= a /\ b <= frames[q].u
      BY <2>1 DEF Together
    <3>2. q \notin 1 .. m
      <4> SUFFICES ASSUME q \in 1 .. m PROVE FALSE
        OBVIOUS
      <4>1. q \in 1 .. Len(fs) /\ fs[q] = frames[q]
        BY <1>3
      <4> QED
        BY <1>9, <3>1, <4>1 DEF Together
    <3>3. q = m + 1
      BY <1>1, <3>2
    <3>4. L <= a /\ b <= U
      BY <1>4, <3>1, <3>3
    <3>5. a \in L .. U /\ b \in L .. U
      BY <1>4, <1>9, <2>0, <3>4
    <3>6. ASSUME NEW z \in {x, y} PROVE ~(z.l <= a /\ b <= z.u)
      <4>1. m + 1 \in 1 .. Len(fs) /\ m + 2 \in 1 .. Len(fs)
        BY <1>3
      <4> QED
        BY <1>3, <1>9, <4>1 DEF Together
    <3>7. ~(L <= a /\ b <= p - 1) /\ ~(p + 1 <= a /\ b <= U)
      BY <3>6
    <3>8. a <= p /\ p <= b
      BY <1>4, <2>0, <3>4, <3>7
    <3>9. t[a] \in Int /\ t[p] \in Int /\ t[b] \in Int
      BY <3>5 DEF Whole
    <3>10. t[a] <= t[p]
      <4>1. CASE a = p
        BY <3>9, <4>1
      <4>2. CASE a # p
        <5>1. a \in L .. p - 1
          BY <1>4, <2>0, <3>4, <3>8, <4>2
        <5> QED
          BY <5>1
      <4> QED
        BY <4>1, <4>2
    <3>11. t[p] <= t[b]
      <4>1. CASE b = p
        BY <3>9, <4>1
      <4>2. CASE b # p
        <5>1. b \in p + 1 .. U
          BY <1>4, <2>0, <3>4, <3>8, <4>2
        <5> QED
          BY <5>1
      <4> QED
        BY <4>1, <4>2
    <3> QED
      BY <3>9, <3>10, <3>11
  <2>2. CASE ~Together(frames, a, b)
    BY <1>9, <2>2 DEF Parted
  <2> QED
    BY <2>1, <2>2
<1>10. Parted(t, fs)
  BY <1>9 DEF Parted
<1> QED
  BY <1>8, <1>10 DEF fs

LEMMA SplitParted ==
    ASSUME IInv, at.pc = "down", Apart(frames), NEW t, Parted(t, frames), Whole(t, L, U),
           \A k \in L .. at.i - 1 : t[k] <= t[at.i], \A k \in at.i + 1 .. U : t[at.i] <= t[k]
    PROVE  Apart(Split) /\ Parted(t, Split)
<1> DEFINE limit == Here.limit \div 2 + Here.limit \div 4
           low   == [l |-> L, u |-> at.i - 1, limit |-> limit]
           high  == [l |-> at.i + 1, u |-> U, limit |-> limit]
<1>1. /\ frames \in Seq(FrameSet) /\ frames # <<>> /\ Here \in FrameSet
      /\ L \in Nat \ {0} /\ U \in Int /\ L .. U \subseteq Keys /\ L + 3 <= U
      /\ at.i \in L + 1 .. U
  BY InnermostRange DEF Fits
<1>2. limit \in Nat
  BY <1>1, SMTT(30) DEF FrameSet
<1> HIDE DEF limit
<1>3. low \in FrameSet
  BY <1>1, <1>2 DEF FrameSet
<1>4. high \in FrameSet
  BY <1>1, <1>2 DEF FrameSet
<1>5. low.l = L /\ low.u = at.i - 1 /\ high.l = at.i + 1 /\ high.u = U
  OBVIOUS
<1> HIDE DEF low, high
<1>6. Keys \subseteq Int /\ at.i \in L .. U
  BY <1>1, SortAssumption DEF Keys
<1>7. /\ Apart(Returned \o <<high, low>>) /\ Parted(t, Returned \o <<high, low>>)
      /\ Apart(Returned \o <<low, high>>) /\ Parted(t, Returned \o <<low, high>>)
  BY <1>1, <1>3, <1>4, <1>5, <1>6, TwoParted
<1>8. Split \in {Returned \o <<high, low>>, Returned \o <<low, high>>}
  BY DEF Split, low, high, limit
<1> QED
  BY <1>7, <1>8
-----------------------------------------------------------------------------
(* The steps of a sort by an order.                                        *)

\* A step of a sort by an order, from what it has reached.
InOrder ==
    /\ IInv /\ Halved /\ Ordering /\ order = "given" /\ Sorting
    /\ UNCHANGED <<frozen, order>>

LEMMA GoesOnInOrder ==
    ASSUME InOrder, NEW fs, NEW point, GoOn(fs, point), point.pc # "idle",
           Apart(fs), Parted(tab', fs),
           point.pc # "loop" => /\ fs = frames
                                /\ Partitioned(tab', L, U, point)
                                /\ Heaped(tab', L, U, point)
    PROVE  Ordering'
<1>1. /\ frames' = fs /\ at' = point /\ outcome' = "sorting" /\ order' = order
      /\ order = "given" /\ ~frozen'
  BY DEF GoOn, InOrder, Ordering
<1>2. point.pc # "loop" => L' = L /\ U' = U
  BY <1>1 DEF L, U, Here
<1>3. ASSUME point.pc # "loop" PROVE (Partitioned(tab, L, U, at) /\ Heaped(tab, L, U, at))'
  BY <1>1, <1>2, <1>3
<1> QED
  BY <1>1, <1>3 DEF Ordering

\* The innermost call's part in a sort by an order.
LEMMA PartInOrder ==
    ASSUME InOrder, at.pc # "loop"
    PROVE  /\ at.pc \notin {"idle", "loop"}
           /\ frames \in Seq(FrameSet) /\ frames # <<>> /\ Apart(frames) /\ Parted(tab, frames)
           /\ L \in Nat \ {0} /\ U \in Int /\ L .. U \subseteq Keys /\ Fits(L, U, at)
           /\ Whole(tab, L, U) /\ (\A k \in L .. U : tab[k] # Nil) /\ Keys \subseteq Int
           /\ Partitioned(tab, L, U, at) /\ Heaped(tab, L, U, at)
           /\ ~frozen /\ tab \in [Keys -> Values \cup {Nil}] /\ at \in PointSet
<1>1. at.pc \notin {"idle", "loop"} /\ IInv /\ Halved /\ order # "meddling"
  BY DEF InOrder, Sorting
<1>2. Whole(tab, L, U) /\ \A k \in L .. U : tab[k] # Nil
  BY <1>1, InList DEF Whole
<1>3. /\ Apart(frames) /\ Parted(tab, frames) /\ ~frozen
      /\ Partitioned(tab, L, U, at) /\ Heaped(tab, L, U, at)
  BY <1>1 DEF InOrder, Ordering
<1>4. Keys \subseteq Int
  BY SortAssumption DEF Keys
<1>5. tab \in [Keys -> Values \cup {Nil}] /\ at \in PointSet
  BY <1>1 DEF IInv, TypeOK
<1> QED
  BY <1>1, <1>2, <1>3, <1>4, <1>5, InnermostRange

\* A swap in it.
LEMMA SwapInOrder ==
    ASSUME InOrder, at.pc # "loop", NEW i \in L .. U, NEW j \in L .. U
    PROVE  LET r == Swapped(tab, i, j)
           IN  /\ SwapOf(r, tab, L, U, i, j) /\ Whole(r, L, U)
               /\ Parted(r, frames)
               /\ \A fs, point : SwapAndGo(i, j, fs, point) => tab' = r /\ GoOn(fs, point)
<1> DEFINE r == Swapped(tab, i, j)
<1>1. i \in Keys /\ j \in Keys
  BY PartInOrder
<1>2. \A k \in Keys : r[k] = IF k = j THEN tab[i] ELSE IF k = i THEN tab[j] ELSE tab[k]
  BY <1>1, PartInOrder DEF Swapped
<1>3. Parted(r, frames)
  BY PartInOrder, SwapParted
<1>4. \A fs, point : SwapAndGo(i, j, fs, point) => tab' = r /\ GoOn(fs, point)
  BY PartInOrder DEF SwapAndGo, Refused, Swap
<1> HIDE DEF r
<1>5. SwapOf(r, tab, L, U, i, j)
  BY <1>2, PartInOrder DEF SwapOf
<1>6. Whole(r, L, U)
  <2> SUFFICES ASSUME NEW k \in L .. U PROVE r[k] \in Int
    BY DEF Whole
  <2>1. r[k] \in {tab[i], tab[j], tab[k]}
    BY <1>5 DEF SwapOf
  <2>2. tab[i] \in Int /\ tab[j] \in Int /\ tab[k] \in Int
    BY PartInOrder DEF Whole
  <2> QED
    BY <2>1, <2>2
<1> QED
  BY <1>3, <1>4, <1>5, <1>6 DEF r

LEMMA StaysInOrder ==
    ASSUME InOrder, at.pc # "loop", NEW point, StayAndGo(frames, point),
           point.pc \notin {"idle", "loop"},
           Partitioned(tab, L, U, point), Heaped(tab, L, U, point)
    PROVE  Ordering'
<1>1. tab' = tab /\ GoOn(frames, point)
  BY DEF StayAndGo
<1>2. Apart(frames) /\ Parted(tab', frames)
  BY <1>1, PartInOrder
<1>3. Partitioned(tab', L, U, point) /\ Heaped(tab', L, U, point)
  BY <1>1
<1> QED
  BY <1>1, <1>2, <1>3, GoesOnInOrder

LEMMA SwapsInOrder ==
    ASSUME InOrder, at.pc # "loop", NEW point, NEW i \in L .. U, NEW j \in L .. U,
           SwapAndGo(i, j, frames, point), point.pc \notin {"idle", "loop"},
           Partitioned(Swapped(tab, i, j), L, U, point), Heaped(Swapped(tab, i, j), L, U, point)
    PROVE  Ordering'
<1>1. tab' = Swapped(tab, i, j) /\ GoOn(frames, point) /\ Parted(Swapped(tab, i, j), frames)
  BY SwapInOrder
<1>2. Apart(frames) /\ Parted(tab', frames)
  BY <1>1, PartInOrder
<1>3. Partitioned(tab', L, U, point) /\ Heaped(tab', L, U, point)
  BY <1>1
<1> QED
  BY <1>1, <1>2, <1>3, GoesOnInOrder

\* A call that has put its part in order returns.
LEMMA ReturnsInOrder ==
    ASSUME InOrder, at.pc # "loop", GoOn(Returned, Goto("loop")),
           Parted(tab', frames), \A a, b \in L .. U : a < b => tab'[a] <= tab'[b]
    PROVE  Ordering'
<1>1. Apart(Returned) /\ Parted(tab', Returned)
  BY PartInOrder, ReturnedParted
<1>2. Goto("loop").pc = "loop"
  BY DEF Goto, Partition
<1> QED
  BY <1>1, <1>2, GoesOnInOrder

\* What a comparison says.
LEMMA AnswersInOrder ==
    ASSUME InOrder, NEW pc, NEW yes \in BOOLEAN, Less(pc, yes)
    PROVE  at.pc = pc /\ (yes <=> tab[Compared[1]] < tab[Compared[2]])
BY DEF InOrder, Less

\* The points of the partition.
LEMMA PartitionPoint ==
    ASSUME NEW pc, NEW i, NEW j, pc \notin Heaping
    PROVE  LET p == Partition(pc, i, j)
           IN  /\ p.pc = pc /\ p.i = i /\ p.j = j
               /\ \A t, l, u : Heaped(t, l, u, p)
<1> DEFINE p == Partition(pc, i, j)
<1>1. p.pc = pc /\ p.i = i /\ p.j = j
  BY DEF Partition
<1> HIDE DEF p
<1>2. \A t, l, u : Heaped(t, l, u, p)
  BY <1>1 DEF Heaped, Heaping, Sifting
<1> QED
  BY <1>1, <1>2 DEF p

LEMMA OrderEndsOrders ==
    ASSUME NEW yes \in BOOLEAN, InOrder, OrderEnds(yes)
    PROVE  Ordering'
<1>1. at.pc = "ends" /\ at.pc # "loop" /\ (yes <=> tab[U] < tab[L])
  BY AnswersInOrder DEF OrderEnds, Less, Compared
<1>2. L \in Int /\ U \in Int /\ L < U /\ L \in L .. U /\ U \in L .. U
  BY <1>1, PartInOrder DEF Fits
<1>3. Parted(tab, frames) /\ tab[L] \in Int /\ tab[U] \in Int
  BY <1>1, <1>2, PartInOrder DEF Whole
<1>4. SwapOf(Swapped(tab, L, U), tab, L, U, L, U) /\ Parted(Swapped(tab, L, U), frames)
  BY <1>1, <1>2, SwapInOrder
<1> DEFINE r == IF yes THEN Swapped(tab, L, U) ELSE tab
<1>5. r[L] <= r[U]
  <2>1. CASE yes
    <3>1. Swapped(tab, L, U)[L] = tab[U] /\ Swapped(tab, L, U)[U] = tab[L]
      BY <1>2, <1>4 DEF SwapOf
    <3> QED
      BY <1>1, <1>3, <2>1, <3>1
  <2>2. CASE ~yes
    BY <1>1, <1>3, <2>2
  <2> QED
    BY <2>1, <2>2
<1>6. Parted(r, frames)
  BY <1>3, <1>4
<1>7. CASE U - L = 1
  <2>1. tab' = r /\ GoOn(Returned, Goto("loop"))
    <3>1. CASE yes
      <4>1. SwapAndGo(L, U, Returned, Goto("loop"))
        BY <1>7, <3>1 DEF OrderEnds
      <4> QED
        BY <1>1, <1>2, <3>1, <4>1, SwapInOrder
    <3>2. CASE ~yes
      BY <1>7, <3>2 DEF OrderEnds, StayAndGo
    <3> QED
      BY <3>1, <3>2
  <2> HIDE DEF r
  <2>2. \A a, b \in L .. U : a < b => a = L /\ b = U
    BY <1>2, <1>7
  <2>3. \A a, b \in L .. U : a < b => tab'[a] <= tab'[b]
    BY <1>5, <2>1, <2>2
  <2>4. Parted(tab', frames)
    BY <1>6, <2>1
  <2> QED
    BY <1>1, <2>1, <2>3, <2>4, ReturnsInOrder
<1>8. CASE U - L # 1
  <2> DEFINE p == Goto("middle")
  <2>1. p.pc = "middle" /\ \A t, l, u : Heaped(t, l, u, p)
    BY PartitionPoint DEF Goto, Heaping, Sifting
  <2>2. IF yes THEN SwapAndGo(L, U, frames, p) ELSE StayAndGo(frames, p)
    BY <1>8 DEF OrderEnds
  <2> HIDE DEF p
  <2>3. Partitioned(r, L, U, p)
    <3> HIDE DEF r
    <3> QED
      BY <1>5, <2>1 DEF Partitioned
  <2>4. CASE yes
    <3>1. Partitioned(Swapped(tab, L, U), L, U, p)
      BY <2>3, <2>4
    <3> QED
      BY <1>1, <1>2, <2>1, <2>2, <2>4, <3>1, SwapsInOrder
  <2>5. CASE ~yes
    <3>1. Partitioned(tab, L, U, p)
      BY <2>3, <2>5
    <3> QED
      BY <1>1, <2>1, <2>2, <2>5, <3>1, StaysInOrder
  <2> QED
    BY <2>4, <2>5
<1> QED
  BY <1>7, <1>8

\* The middle value, and the pivot put aside.
LEMMA OrderMiddleOrders ==
    ASSUME NEW yes \in BOOLEAN, InOrder, OrderMiddle(yes) \/ OrderAbove(yes)
    PROVE  Ordering'
<1>1. at.pc \in {"middle", "above"} /\ at.pc # "loop"
  BY DEF OrderMiddle, OrderAbove, Less
<1>2. /\ L \in Int /\ U \in Int /\ L + 2 <= U /\ L \in L .. U /\ U \in L .. U
      /\ M \in L .. U /\ M # L /\ M # U
  <2>1. L \in Int /\ U \in Int /\ L + 2 <= U
    BY <1>1, PartInOrder DEF Fits
  <2> QED
    BY <2>1 DEF M
<1>3. tab[L] \in Int /\ tab[M] \in Int /\ tab[U] \in Int
  BY <1>1, <1>2, PartInOrder DEF Whole
<1>4. tab[L] <= tab[U] /\ (at.pc = "above" => tab[L] <= tab[M])
  <2>1. Partitioned(tab, L, U, at)
    BY <1>1, PartInOrder
  <2> QED
    BY <1>1, <2>1 DEF Partitioned, M
<1>5. PivotAside.pc = "pivot" /\ \A t, l, u : Heaped(t, l, u, PivotAside)
  BY PartitionPoint DEF PivotAside, Heaping, Sifting
<1>6. ASSUME NEW t, t[L] <= t[M], t[M] <= t[U]
      PROVE  Partitioned(t, L, U, PivotAside)
  BY <1>5, <1>6 DEF Partitioned, M
<1>7. CASE OrderMiddle(yes)
  <2>1. at.pc = "middle" /\ (yes <=> tab[M] < tab[L])
    BY <1>7, AnswersInOrder DEF OrderMiddle, Less, Compared
  <2>2. CASE yes
    <3> DEFINE r == Swapped(tab, M, L)
    <3>1. SwapOf(r, tab, L, U, M, L)
      BY <1>1, <1>2, SwapInOrder
    <3> HIDE DEF r
    <3>2. r[L] = tab[M] /\ r[M] = tab[L] /\ r[U] = tab[U]
      BY <1>2, <3>1 DEF SwapOf
    <3>3. r[L] <= r[M] /\ r[M] <= r[U]
      BY <1>3, <1>4, <2>1, <2>2, <3>2
    <3>4. Partitioned(r, L, U, PivotAside)
      BY <1>6, <3>3
    <3>5. SwapAndGo(M, L, frames, PivotAside)
      BY <1>7, <2>2 DEF OrderMiddle
    <3> QED
      BY <1>1, <1>2, <1>5, <3>4, <3>5, SwapsInOrder DEF r
  <2>3. CASE ~yes
    <3>1. tab[L] <= tab[M]
      BY <1>3, <2>1, <2>3
    <3> DEFINE p == Goto("above")
    <3>2. p.pc = "above" /\ \A t, l, u : Heaped(t, l, u, p)
      BY PartitionPoint DEF Goto, Heaping, Sifting
    <3>3. StayAndGo(frames, p)
      BY <1>7, <2>3 DEF OrderMiddle
    <3> HIDE DEF p
    <3>4. Partitioned(tab, L, U, p)
      BY <1>4, <3>1, <3>2 DEF Partitioned, M
    <3> QED
      BY <1>1, <3>2, <3>3, <3>4, StaysInOrder
  <2> QED
    BY <2>2, <2>3
<1>8. CASE OrderAbove(yes)
  <2>1. at.pc = "above" /\ (yes <=> tab[U] < tab[M])
    BY <1>8, AnswersInOrder DEF OrderAbove, Less, Compared
  <2>2. CASE yes
    <3> DEFINE r == Swapped(tab, M, U)
    <3>1. SwapOf(r, tab, L, U, M, U)
      BY <1>1, <1>2, SwapInOrder
    <3> HIDE DEF r
    <3>2. r[L] = tab[L] /\ r[M] = tab[U] /\ r[U] = tab[M]
      BY <1>2, <3>1 DEF SwapOf
    <3>3. r[L] <= r[M] /\ r[M] <= r[U]
      BY <1>3, <1>4, <2>1, <2>2, <3>2
    <3>4. Partitioned(r, L, U, PivotAside)
      BY <1>6, <3>3
    <3>5. SwapAndGo(M, U, frames, PivotAside)
      BY <1>8, <2>2 DEF OrderAbove
    <3> QED
      BY <1>1, <1>2, <1>5, <3>4, <3>5, SwapsInOrder DEF r
  <2>3. CASE ~yes
    <3>1. tab[M] <= tab[U]
      BY <1>3, <2>1, <2>3
    <3>2. StayAndGo(frames, PivotAside)
      BY <1>8, <2>3 DEF OrderAbove
    <3>3. Partitioned(tab, L, U, PivotAside)
      BY <1>4, <1>6, <2>1, <3>1
    <3> QED
      BY <1>1, <1>5, <3>2, <3>3, StaysInOrder
  <2> QED
    BY <2>2, <2>3
<1> QED
  BY <1>7, <1>8
LEMMA UpPartitioned ==
    ASSUME NEW t, NEW l, NEW u, NEW p, p.pc = "up", p.i < u,
           \A k \in l .. p.i - 1 : t[k] <= t[u - 1], \A k \in p.j .. u : t[u - 1] <= t[k]
    PROVE  Partitioned(t, l, u, p)
<1>1. p.pc \notin {"middle", "above", "pivot", "down"}
  OBVIOUS
<1> QED
  BY <1>1, Zenon DEF Partitioned

LEMMA PlacePivotOrders ==
    ASSUME InOrder, PlacePivot
    PROVE  Ordering'
<1>1. at.pc = "pivot" /\ at.pc # "loop"
  BY DEF PlacePivot
<1>2. /\ L \in Int /\ U \in Int /\ L + 2 <= U /\ L \in L .. U /\ U \in L .. U
      /\ at.i = L /\ at.j = U - 1
  BY <1>1, PartInOrder DEF Fits
<1>3. M \in L .. U /\ M # L /\ M # U
  BY <1>2 DEF M
<1>4. tab[L] \in Int /\ tab[M] \in Int /\ tab[U] \in Int
  BY <1>1, <1>2, <1>3, PartInOrder DEF Whole
<1>5. tab[L] <= tab[M] /\ tab[M] <= tab[U]
  <2>1. Partitioned(tab, L, U, at)
    BY <1>1, PartInOrder
  <2> QED
    BY <1>1, <2>1 DEF Partitioned, M
<1>6. CASE U - L = 2
  <2>1. tab' = tab /\ GoOn(Returned, Goto("loop"))
    BY <1>6 DEF PlacePivot, StayAndGo
  <2>2. L .. U = {L, M, U} /\ L < M /\ M < U
    BY <1>2, <1>3, <1>6
  <2>3. \A a, b \in L .. U : a < b => tab'[a] <= tab'[b]
    <3> SUFFICES ASSUME NEW a \in {L, M, U}, NEW b \in {L, M, U}, a < b PROVE tab[a] <= tab[b]
      BY <2>1, <2>2
    <3>1. <<a, b>> \in {<<L, M>>, <<L, U>>, <<M, U>>}
      BY <1>2, <1>3, <2>2
    <3> QED
      BY <1>4, <1>5, <3>1
  <2>4. Parted(tab', frames)
    BY <1>1, <2>1, PartInOrder
  <2> QED
    BY <1>1, <2>1, <2>3, <2>4, ReturnsInOrder
<1>7. CASE U - L # 2
  <2> DEFINE p == Partition("up", at.i + 1, at.j)
             r == Swapped(tab, M, U - 1)
  <2>1. p.pc = "up" /\ p.i = L + 1 /\ p.j = U - 1 /\ \A t, l, u : Heaped(t, l, u, p)
    BY <1>2, PartitionPoint DEF Heaping, Sifting
  <2>2. SwapAndGo(M, U - 1, frames, p)
    BY <1>7 DEF PlacePivot
  <2> HIDE DEF p
  <2>3. U - 1 \in L .. U /\ M # U - 1
    <3>1. L + 3 <= U
      BY <1>2, <1>7
    <3> QED
      BY <1>2, <3>1 DEF M
  <2>4. SwapOf(r, tab, L, U, M, U - 1)
    BY <1>1, <1>3, <2>3, SwapInOrder
  <2> HIDE DEF r
  <2>5. r[U - 1] = tab[M] /\ r[L] = tab[L] /\ r[U] = tab[U]
    BY <1>2, <1>3, <1>7, <2>3, <2>4 DEF SwapOf
  <2>6. Partitioned(r, L, U, p)
    <3>1. \A k \in L .. L + 1 - 1 : k = L
      BY <1>2
    <3>2. \A k \in L .. L + 1 - 1 : r[k] <= r[U - 1]
      BY <1>5, <2>5, <3>1
    <3>3. \A k \in U - 1 .. U : k = U - 1 \/ k = U
      BY <1>2
    <3>4. \A k \in U - 1 .. U : r[U - 1] <= r[k]
      BY <1>4, <1>5, <2>5, <3>3
    <3>5. L + 1 < U
      BY <1>2
    <3>6. p.i < U /\ \A k \in L .. p.i - 1 : r[k] <= r[U - 1]
      BY <1>2, <2>1, <3>2, <3>5
    <3>7. \A k \in p.j .. U : r[U - 1] <= r[k]
      BY <2>1, <3>4
    <3> QED
      BY <2>1, <3>6, <3>7, UpPartitioned
  <2> QED
    BY <1>1, <1>3, <2>1, <2>2, <2>3, <2>6, SwapsInOrder DEF r
<1> QED
  BY <1>6, <1>7

\* The scans never leave the part: at i there is something that is not before
\* the pivot, at j something that is not behind it.
LEMMA ScanUpOrders ==
    ASSUME NEW yes \in BOOLEAN, InOrder, ScanUp(yes)
    PROVE  Ordering'
<1>1. at.pc = "up" /\ at.pc # "loop" /\ (yes <=> tab[at.i] < tab[P])
  BY AnswersInOrder DEF ScanUp, Less, Compared
<1>2. /\ L \in Int /\ U \in Int /\ L + 3 <= U /\ at.i \in L + 1 .. U /\ at.j \in L + 1 .. U - 1
      /\ P = U - 1
  BY <1>1, PartInOrder DEF Fits, P
<1>3. /\ at.i < U /\ \A k \in L .. at.i - 1 : tab[k] <= tab[U - 1]
      /\ \A k \in at.j .. U : tab[U - 1] <= tab[k]
  <2>1. Partitioned(tab, L, U, at)
    BY <1>1, PartInOrder
  <2> QED
    BY <1>1, <2>1 DEF Partitioned
<1>4. tab[at.i] \in Int /\ tab[U - 1] \in Int
  <2>1. at.i \in L .. U /\ U - 1 \in L .. U
    BY <1>2
  <2> QED
    BY <1>1, <2>1, PartInOrder DEF Whole
<1>5. CASE yes
  <2> DEFINE p == Partition("up", at.i + 1, at.j)
  <2>1. p.pc = "up" /\ p.i = at.i + 1 /\ p.j = at.j /\ \A t, l, u : Heaped(t, l, u, p)
    BY PartitionPoint DEF Heaping, Sifting
  <2>2. StayAndGo(frames, p)
    BY <1>2, <1>3, <1>5 DEF ScanUp
  <2> HIDE DEF p
  <2>3. at.i # U - 1
    BY <1>1, <1>2, <1>4, <1>5
  <2>4. at.i + 1 < U
    BY <1>2, <1>3, <2>3
  <2>5. ASSUME NEW k \in L .. at.i + 1 - 1 PROVE tab[k] <= tab[U - 1]
    <3>1. k \in L .. at.i - 1 \/ k = at.i
      BY <1>2
    <3> QED
      BY <1>1, <1>2, <1>3, <1>4, <1>5, <3>1
  <2>6. Partitioned(tab, L, U, p)
    <3>1. p.i < U /\ \A k \in L .. p.i - 1 : tab[k] <= tab[U - 1]
      BY <1>2, <2>1, <2>4, <2>5
    <3>2. \A k \in p.j .. U : tab[U - 1] <= tab[k]
      BY <1>3, <2>1
    <3> QED
      BY <2>1, <3>1, <3>2, UpPartitioned
  <2> QED
    BY <1>1, <2>1, <2>2, <2>6, StaysInOrder
<1>6. CASE ~yes
  <2> DEFINE p == Partition("down", at.i, at.j - 1)
  <2>1. p.pc = "down" /\ p.i = at.i /\ p.j = at.j - 1 /\ \A t, l, u : Heaped(t, l, u, p)
    BY PartitionPoint DEF Heaping, Sifting
  <2>2. StayAndGo(frames, p)
    BY <1>6 DEF ScanUp
  <2> HIDE DEF p
  <2>3. at.j - 1 + 1 = at.j /\ tab[U - 1] <= tab[at.i]
    BY <1>1, <1>2, <1>4, <1>6
  <2>4. Partitioned(tab, L, U, p)
    BY <1>3, <2>1, <2>3 DEF Partitioned
  <2> QED
    BY <1>1, <2>1, <2>2, <2>4, StaysInOrder
<1> QED
  BY <1>5, <1>6

LEMMA ScanDownOrders ==
    ASSUME NEW yes \in BOOLEAN, InOrder, ScanDown(yes)
    PROVE  Ordering'
<1>1. at.pc = "down" /\ at.pc # "loop" /\ (yes <=> tab[P] < tab[at.j])
  BY AnswersInOrder DEF ScanDown, Less, Compared
<1>2. /\ L \in Int /\ U \in Int /\ L + 3 <= U /\ at.i \in L + 1 .. U /\ at.j \in L .. U - 2
      /\ P = U - 1 /\ U - 1 \in L .. U /\ at.i \in L .. U /\ at.j \in L .. U
  BY <1>1, PartInOrder DEF Fits, P
<1>3. /\ at.i < U /\ \A k \in L .. at.i - 1 : tab[k] <= tab[U - 1]
      /\ tab[U - 1] <= tab[at.i] /\ \A k \in at.j + 1 .. U : tab[U - 1] <= tab[k]
  <2>1. Partitioned(tab, L, U, at)
    BY <1>1, PartInOrder
  <2> QED
    BY <1>1, <2>1 DEF Partitioned
<1>4. Whole(tab, L, U) /\ tab[at.i] \in Int /\ tab[at.j] \in Int /\ tab[U - 1] \in Int
  <2>1. Whole(tab, L, U)
    BY <1>1, PartInOrder
  <2> QED
    BY <1>2, <2>1 DEF Whole
<1>5. CASE yes
  <2> DEFINE p == Partition("down", at.i, at.j - 1)
  <2>1. p.pc = "down" /\ p.i = at.i /\ p.j = at.j - 1 /\ \A t, l, u : Heaped(t, l, u, p)
    BY PartitionPoint DEF Heaping, Sifting
  <2> HIDE DEF p
  <2>2. at.j # L
    <3>1. L \in L .. at.i - 1
      BY <1>2
    <3>2. tab[L] <= tab[U - 1]
      BY <1>3, <3>1
    <3> QED
      BY <1>1, <1>2, <1>4, <1>5, <3>2
  <2>3. StayAndGo(frames, p)
    BY <1>2, <1>5, <2>2 DEF ScanDown, p
  <2>4. ASSUME NEW k \in at.j - 1 + 1 .. U PROVE tab[U - 1] <= tab[k]
    <3>1. k \in at.j + 1 .. U \/ k = at.j
      BY <1>2
    <3> QED
      BY <1>1, <1>2, <1>3, <1>4, <1>5, <3>1
  <2>5. Partitioned(tab, L, U, p)
    BY <1>3, <2>1, <2>4 DEF Partitioned
  <2> QED
    BY <1>1, <2>1, <2>3, <2>5, StaysInOrder
<1>6. CASE ~yes /\ at.j < at.i
  <2> DEFINE r == Swapped(tab, U - 1, at.i)
  <2>1. SwapAndGo(U - 1, at.i, Split, Goto("loop"))
    BY <1>2, <1>6 DEF ScanDown
  <2>2. /\ SwapOf(r, tab, L, U, U - 1, at.i) /\ Whole(r, L, U) /\ Parted(r, frames)
        /\ tab' = r /\ GoOn(Split, Goto("loop"))
    BY <1>1, <1>2, <2>1, SwapInOrder
  <2> HIDE DEF r
  <2>3. r[at.i] = tab[U - 1]
    BY <1>2, <2>2 DEF SwapOf
  <2>4. ASSUME NEW k \in L .. at.i - 1 PROVE r[k] <= r[at.i]
    <3>1. k \in L .. U /\ k # at.i /\ k # U - 1
      BY <1>2, <1>3
    <3>2. r[k] = tab[k]
      BY <2>2, <3>1 DEF SwapOf
    <3> QED
      BY <1>3, <2>3, <3>2
  <2>5. ASSUME NEW k \in at.i + 1 .. U PROVE r[at.i] <= r[k]
    <3>1. k \in L .. U /\ k # at.i /\ k \in at.j + 1 .. U
      BY <1>2, <1>6
    <3>2. r[k] = IF k = U - 1 THEN tab[at.i] ELSE tab[k]
      BY <1>2, <2>2, <3>1 DEF SwapOf
    <3> QED
      BY <1>3, <2>3, <3>1, <3>2
  <2>6. Apart(Split) /\ Parted(r, Split)
    BY <1>1, <2>2, <2>4, <2>5, PartInOrder, SplitParted DEF InOrder
  <2>7. Goto("loop").pc = "loop"
    BY DEF Goto, Partition
  <2> QED
    BY <2>2, <2>6, <2>7, GoesOnInOrder
<1>7. CASE ~yes /\ ~(at.j < at.i)
  <2> DEFINE p == Partition("up", at.i + 1, at.j)
             r == Swapped(tab, at.i, at.j)
  <2>1. p.pc = "up" /\ p.i = at.i + 1 /\ p.j = at.j /\ \A t, l, u : Heaped(t, l, u, p)
    BY PartitionPoint DEF Heaping, Sifting
  <2>2. SwapAndGo(at.i, at.j, frames, p)
    BY <1>7 DEF ScanDown
  <2> HIDE DEF p
  <2>3. SwapOf(r, tab, L, U, at.i, at.j)
    BY <1>1, <1>2, SwapInOrder
  <2> HIDE DEF r
  <2>4. /\ at.i <= at.j /\ at.j < U - 1 /\ tab[at.j] <= tab[U - 1]
        /\ at.i \in Int /\ at.j \in Int
    BY <1>1, <1>2, <1>4, <1>7
  <2>5. r[U - 1] = tab[U - 1] /\ r[at.j] = tab[at.i] /\ r[at.i] = tab[at.j]
    BY <1>2, <2>3, <2>4 DEF SwapOf
  <2>6. ASSUME NEW k \in L .. at.i + 1 - 1 PROVE r[k] <= r[U - 1]
    <3>1. CASE k = at.i
      BY <2>4, <2>5, <3>1
    <3>2. CASE k # at.i
      <4>1. k \in L .. at.i - 1 /\ k \in L .. U /\ k # at.j
        BY <1>2, <2>4, <3>2
      <4>2. r[k] = tab[k]
        BY <2>3, <3>2, <4>1 DEF SwapOf
      <4> QED
        BY <1>3, <2>5, <4>1, <4>2
    <3> QED
      BY <3>1, <3>2
  <2>7. ASSUME NEW k \in at.j .. U PROVE r[U - 1] <= r[k]
    <3>1. CASE k = at.j
      BY <1>3, <2>5, <3>1
    <3>2. CASE k # at.j
      <4>1. k \in at.j + 1 .. U /\ k \in L .. U /\ k # at.i
        BY <1>2, <2>4, <3>2
      <4>2. r[k] = tab[k]
        BY <2>3, <3>2, <4>1 DEF SwapOf
      <4> QED
        BY <1>3, <2>5, <4>1, <4>2
    <3> QED
      BY <3>1, <3>2
  <2>8. at.i + 1 < U
    BY <1>2, <2>4
  <2>9. Partitioned(r, L, U, p)
    <3>1. p.i < U /\ \A k \in L .. p.i - 1 : r[k] <= r[U - 1]
      BY <1>2, <2>1, <2>6, <2>8
    <3>2. \A k \in p.j .. U : r[U - 1] <= r[k]
      BY <2>1, <2>7
    <3> QED
      BY <2>1, <3>1, <3>2, UpPartitioned
  <2> QED
    BY <1>1, <1>2, <2>1, <2>2, <2>9, SwapsInOrder DEF r
<1> QED
  BY <1>5, <1>6, <1>7
\* The points of the heap.
LEMMA PointOfHeap ==
    ASSUME NEW pc \in Heaping, NEW phase, NEW k, NEW root, NEW next
    PROVE  LET p == HeapPoint(pc, phase, k, root, next)
           IN  /\ p.pc = pc /\ p.phase = phase /\ p.i = k /\ p.root = root /\ p.next = next
               /\ p.pc \notin {"idle", "loop"}
               /\ \A t, l, u : Partitioned(t, l, u, p)
<1> DEFINE p == HeapPoint(pc, phase, k, root, next)
<1>1. p.pc = pc /\ p.phase = phase /\ p.i = k /\ p.root = root /\ p.next = next
  BY DEF HeapPoint
<1> HIDE DEF p
<1>2. p.pc \notin {"idle", "loop", "middle", "above", "pivot", "up", "down"}
  BY <1>1 DEF Heaping, Sifting
<1>3. ASSUME NEW t, NEW l, NEW u PROVE Partitioned(t, l, u, p)
  BY <1>2, Zenon DEF Partitioned
<1> QED
  BY <1>1, <1>2, <1>3 DEF p

\* siftHeap in a sort by an order.
LEMMA SiftInOrder ==
    ASSUME InOrder, at.pc \in Sifting
    PROVE  /\ at.pc # "loop" /\ at.pc \in Heaping
           /\ L \in Int /\ U \in Int /\ L < U
           /\ at.phase \in {"build", "take"} /\ at.i \in Int
           /\ at.root \in Nat /\ HeapBase(at) \in Nat /\ HeapBase(at) <= at.root
           /\ Count \in Nat /\ Count <= U - L + 1 /\ Count = CountIn(L, U, at)
           /\ Whole(tab, L, L + Count - 1)
           /\ HeapBut(tab, L, HeapBase(at), Count, at.root)
           /\ Skipped(tab, L, HeapBase(at), Count, at.root)
           /\ Behind(tab, L, U, Count)
           /\ at.pc = "right" => /\ tab[L + at.root] <= tab[L + at.next]
                                 /\ tab[L + LeftOf(at.root)] <= tab[L + at.next]
<1>1. at.pc # "loop" /\ at.pc \in Heaping /\ IInv
  BY DEF Sifting, Heaping, InOrder
<1>2. /\ L \in Int /\ U \in Int /\ L < U /\ at \in PointSet /\ at.phase \in {"build", "take"}
      /\ at.phase = "build" => at.i \in -1 .. U - L
      /\ at.phase = "take"  => at.i \in 0 .. U - L
      /\ Fits(L, U, at)
  BY <1>1, HeapRange
<1>3. at.root >= 0 /\ at.i >= (IF at.phase = "build" THEN 0 ELSE 1)
  BY <1>2 DEF Fits
<1>4. at.root \in Nat /\ at.i \in Nat
  BY <1>2, <1>3 DEF PointSet
<1>5. /\ HeapBase(at) \in Nat /\ Count \in Nat /\ Count <= U - L + 1 /\ Count = CountIn(L, U, at)
  BY <1>2, <1>4 DEF HeapBase, Count, CountIn
<1>6. Whole(tab, L, L + Count - 1)
  <2>1. L .. L + Count - 1 \subseteq L .. U
    BY <1>2, <1>5
  <2> QED
    BY <1>1, <2>1, PartInOrder DEF Whole
<1>7. WhileSifting(tab, L, U, at)
  BY <1>1, PartInOrder DEF Heaped
<1>8. /\ HeapBut(tab, L, HeapBase(at), Count, at.root)
      /\ Skipped(tab, L, HeapBase(at), Count, at.root)
      /\ Behind(tab, L, U, Count) /\ HeapBase(at) <= at.root
      /\ at.pc = "right" => /\ tab[L + at.root] <= tab[L + at.next]
                            /\ tab[L + LeftOf(at.root)] <= tab[L + at.next]
  BY <1>5, <1>7 DEF WhileSifting
<1> QED
  BY <1>1, <1>2, <1>4, <1>5, <1>6, <1>8

\* siftHeap is done.
LEMMA SiftedInOrder ==
    ASSUME InOrder, at.pc \in Sifting, NEW t,
           HeapBut(t, L, HeapBase(at), Count, -1), Behind(t, L, U, Count)
    PROVE  /\ Sifted.pc \notin {"idle", "loop"}
           /\ Partitioned(t, L, U, Sifted) /\ Heaped(t, L, U, Sifted)
<1> DEFINE p == Sifted
<1>1. /\ p.pc = "heap" /\ p.phase = at.phase /\ p.i = at.i - 1
      /\ p.pc \notin {"idle", "loop"} /\ Partitioned(t, L, U, p)
  BY PointOfHeap DEF Sifted, HeapAt, Heaping
<1> HIDE DEF p
<1>2. at.phase \in {"build", "take"} /\ at.i \in Int
  BY SiftInOrder
<1>3. at.i - 1 + 1 = at.i
  BY <1>2
<1>4. BetweenSifts(t, L, U, p)
  <2>1. CASE at.phase = "build"
    BY <1>1, <1>3, <2>1 DEF BetweenSifts, HeapBase, Count
  <2>2. CASE at.phase = "take"
    BY <1>1, <1>3, <2>2 DEF BetweenSifts, HeapBase, Count
  <2> QED
    BY <1>2, <2>1, <2>2
<1>5. Heaped(t, L, U, p)
  BY <1>1, <1>4 DEF Heaped, Sifting
<1> QED
  BY <1>1, <1>5 DEF p

\* siftHeap goes on, with another root or with a comparison.
LEMMA SiftsInOrder ==
    ASSUME InOrder, at.pc \in Sifting, NEW t,
           NEW pc \in Sifting, NEW root, NEW next,
           HeapBut(t, L, HeapBase(at), Count, root), Skipped(t, L, HeapBase(at), Count, root),
           HeapBase(at) <= root, Behind(t, L, U, Count),
           pc = "right" => t[L + root] <= t[L + next] /\ t[L + LeftOf(root)] <= t[L + next]
    PROVE  LET p == HeapPoint(pc, at.phase, at.i, root, next)
           IN  /\ p.pc \notin {"idle", "loop"}
               /\ Partitioned(t, L, U, p) /\ Heaped(t, L, U, p)
<1> DEFINE p == HeapPoint(pc, at.phase, at.i, root, next)
<1>1. /\ p.pc = pc /\ p.phase = at.phase /\ p.i = at.i /\ p.root = root /\ p.next = next
      /\ p.pc \notin {"idle", "loop"} /\ Partitioned(t, L, U, p)
  <2>1. pc \in Heaping
    BY DEF Heaping
  <2> QED
    BY <2>1, PointOfHeap
<1> HIDE DEF p
<1>2. CountIn(L, U, p) = Count /\ HeapBase(p) = HeapBase(at)
  BY <1>1 DEF CountIn, Count, HeapBase
<1>3. WhileSifting(t, L, U, p)
  BY <1>1, <1>2 DEF WhileSifting
<1>4. Heaped(t, L, U, p)
  BY <1>1, <1>3 DEF Heaped, Sifting
<1> QED
  BY <1>1, <1>4 DEF p

LEMMA HeapOrders ==
    ASSUME InOrder, Heap
    PROVE  Ordering'
<1>1. at.pc = "heap" /\ at.pc # "loop" /\ at.pc \in Heaping /\ IInv
  BY DEF Heap, Heaping, InOrder
<1>2. /\ L \in Int /\ U \in Int /\ L < U /\ at.phase \in {"build", "take"}
      /\ at.phase = "build" => at.i \in -1 .. U - L
      /\ at.phase = "take"  => at.i \in 0 .. U - L
  BY <1>1, HeapRange
<1>3. BetweenSifts(tab, L, U, at) /\ Whole(tab, L, U)
  BY <1>1, PartInOrder DEF Heaped
<1>4. CASE at.phase = "build" /\ at.i >= 0
  <2> DEFINE p == Sift("build", at.i, at.i)
  <2>1. /\ p.pc = "sift" /\ p.phase = "build" /\ p.i = at.i /\ p.root = at.i
        /\ p.pc \notin {"idle", "loop"} /\ Partitioned(tab, L, U, p)
    BY PointOfHeap DEF Sift, Heaping, Sifting
  <2>2. StayAndGo(frames, p)
    BY <1>2, <1>4 DEF Heap
  <2> HIDE DEF p
  <2>3. HeapBut(tab, L, at.i + 1, U - L + 1, -1) /\ Behind(tab, L, U, U - L + 1)
    BY <1>3, <1>4 DEF BetweenSifts
  <2>4. at.i \in Nat /\ U - L + 1 \in Nat
    BY <1>2, <1>4
  <2>5. HeapBut(tab, L, at.i, U - L + 1, at.i) /\ Skipped(tab, L, at.i, U - L + 1, at.i)
    BY <2>3, <2>4, SiftStarts
  <2>6. CountIn(L, U, p) = U - L + 1 /\ HeapBase(p) = at.i /\ at.i <= at.i
    BY <2>1, <2>4 DEF CountIn, HeapBase
  <2>7. WhileSifting(tab, L, U, p)
    BY <2>1, <2>3, <2>5, <2>6 DEF WhileSifting
  <2>8. Heaped(tab, L, U, p)
    BY <2>1, <2>7 DEF Heaped
  <2> QED
    BY <1>1, <2>1, <2>2, <2>8, StaysInOrder
<1>5. CASE at.phase = "build" /\ at.i < 0
  <2> DEFINE p == HeapAt("take", U - L)
  <2>1. /\ p.pc = "heap" /\ p.phase = "take" /\ p.i = U - L
        /\ p.pc \notin {"idle", "loop"} /\ Partitioned(tab, L, U, p)
    BY PointOfHeap DEF HeapAt, Heaping
  <2>2. StayAndGo(frames, p)
    BY <1>2, <1>5 DEF Heap
  <2> HIDE DEF p
  <2>3. at.i + 1 = 0
    BY <1>2, <1>5
  <2>4. HeapBut(tab, L, 0, U - L + 1, -1) /\ Behind(tab, L, U, U - L + 1)
    BY <1>3, <1>5, <2>3 DEF BetweenSifts
  <2>5. BetweenSifts(tab, L, U, p)
    BY <2>1, <2>4 DEF BetweenSifts
  <2>6. Heaped(tab, L, U, p)
    BY <2>1, <2>5 DEF Heaped, Sifting
  <2> QED
    BY <1>1, <2>1, <2>2, <2>6, StaysInOrder
<1>6. CASE at.phase = "take" /\ at.i > 0
  <2> DEFINE p == Sift("take", at.i, 0)
             r == Swapped(tab, L, L + at.i)
  <2>1. /\ p.pc = "sift" /\ p.phase = "take" /\ p.i = at.i /\ p.root = 0
        /\ p.pc \notin {"idle", "loop"} /\ Partitioned(r, L, U, p)
    BY PointOfHeap DEF Sift, Heaping, Sifting
  <2>2. SwapAndGo(L, L + at.i, frames, p)
    BY <1>2, <1>6 DEF Heap
  <2> HIDE DEF p
  <2>3. L \in L .. U /\ L + at.i \in L .. U /\ at.i \in Nat /\ L + at.i <= U /\ 0 < at.i
    BY <1>2, <1>6
  <2>4. SwapOf(r, tab, L, U, L, L + at.i)
    BY <1>1, <2>3, SwapInOrder
  <2> HIDE DEF r
  <2>5. HeapBut(tab, L, 0, at.i + 1, -1) /\ Behind(tab, L, U, at.i + 1)
    BY <1>3, <1>6 DEF BetweenSifts
  <2>6. HeapBut(r, L, 0, at.i, 0) /\ Skipped(r, L, 0, at.i, 0) /\ Behind(r, L, U, at.i)
    BY <1>2, <1>3, <2>3, <2>4, <2>5, HeapTaken
  <2>7. CountIn(L, U, p) = at.i /\ HeapBase(p) = 0 /\ 0 <= 0
    BY <2>1 DEF CountIn, HeapBase
  <2>8. WhileSifting(r, L, U, p)
    BY <2>1, <2>6, <2>7 DEF WhileSifting
  <2>9. Heaped(r, L, U, p)
    BY <2>1, <2>8 DEF Heaped
  <2> QED
    BY <1>1, <2>1, <2>2, <2>3, <2>9, SwapsInOrder DEF r
<1>7. CASE at.phase = "take" /\ at.i = 0
  <2>1. tab' = tab /\ GoOn(Returned, Goto("loop"))
    BY <1>7 DEF Heap, StayAndGo
  <2>2. Behind(tab, L, U, 0 + 1)
    BY <1>3, <1>7 DEF BetweenSifts
  <2>3. ASSUME NEW a \in L .. U, NEW b \in L .. U, a < b PROVE tab'[a] <= tab'[b]
    <3>1. L + (0 + 1) <= b
      BY <1>2, <2>3
    <3> QED
      BY <2>1, <2>2, <2>3, <3>1 DEF Behind
  <2>4. Parted(tab', frames)
    BY <1>1, <2>1, PartInOrder
  <2> QED
    BY <1>1, <2>1, <2>3, <2>4, ReturnsInOrder
<1> QED
  BY <1>2, <1>4, <1>5, <1>6, <1>7
LEMMA SiftLoopOrders ==
    ASSUME InOrder, SiftLoop
    PROVE  Ordering'
<1>1. at.pc = "sift" /\ at.pc # "loop" /\ at.pc \in Sifting
  BY DEF SiftLoop, Sifting
<1>2. ASSUME NEW pc \in {"left", "last"}, NEW next, StayAndGo(frames, SiftAt(pc, next))
      PROVE  Ordering'
  <2> DEFINE p == HeapPoint(pc, at.phase, at.i, at.root, next)
  <2>1. pc \in Sifting /\ pc # "right"
    BY DEF Sifting
  <2>2. p.pc \notin {"idle", "loop"} /\ Partitioned(tab, L, U, p) /\ Heaped(tab, L, U, p)
    BY <1>1, <2>1, SiftInOrder, SiftsInOrder
  <2>3. StayAndGo(frames, p)
    BY <1>2 DEF SiftAt
  <2> HIDE DEF p
  <2> QED
    BY <1>1, <2>2, <2>3, StaysInOrder
<1>3. CASE LeftOf(at.root) >= Count /\ StayAndGo(frames, Sifted)
  <2>1. /\ Count \in Nat /\ at.root \in Nat /\ L \in Int /\ HeapBase(at) \in Nat
        /\ HeapBut(tab, L, HeapBase(at), Count, at.root) /\ Behind(tab, L, U, Count)
    BY <1>1, SiftInOrder
  <2>2. \A q \in 0 .. Count - 1 : ~ChildOf(q, at.root)
    BY <1>3, <2>1 DEF ChildOf, LeftOf, RightOf
  <2>3. HeapBut(tab, L, HeapBase(at), Count, -1)
    BY <2>1, <2>2, SiftRests
  <2> QED
    BY <1>1, <1>3, <2>1, <2>3, SiftedInOrder, StaysInOrder
<1> QED
  BY <1>2, <1>3 DEF SiftLoop

\* The values that siftHeap compares.
LEMMA ChildrenInOrder ==
    ASSUME InOrder, at.pc \in {"left", "right"}
    PROVE  /\ RightOf(at.root) < Count /\ at.next \in {at.root, LeftOf(at.root)}
           /\ at.pc = "left" => at.next = at.root
           /\ \A q \in {at.root, LeftOf(at.root), RightOf(at.root)} :
                 q \in 0 .. Count - 1 /\ L + q \in L .. U /\ tab[L + q] \in Int
<1>1. at.pc \in Sifting /\ at.pc \in Heaping /\ at.pc # "loop" /\ IInv
  BY DEF Sifting, Heaping, InOrder
<1>2. /\ L \in Int /\ U \in Int /\ at.root \in Nat /\ Count \in Nat /\ Count <= U - L + 1
      /\ Count = CountIn(L, U, at) /\ Whole(tab, L, L + Count - 1)
  BY <1>1, SiftInOrder
<1>3. /\ RightOf(at.root) < Count /\ at.next \in {at.root, LeftOf(at.root)}
      /\ at.pc = "left" => at.next = at.root
  <2>1. Fits(L, U, at)
    BY <1>1, HeapRange
  <2> QED
    BY <1>2, <2>1 DEF Fits
<1>4. ASSUME NEW q \in {at.root, LeftOf(at.root), RightOf(at.root)}
      PROVE  q \in 0 .. Count - 1 /\ L + q \in L .. U /\ tab[L + q] \in Int
  <2>1. q \in 0 .. Count - 1
    BY <1>2, <1>3 DEF LeftOf, RightOf
  <2>2. L + q \in L .. U /\ L + q \in L .. L + Count - 1
    BY <1>2, <2>1
  <2> QED
    BY <1>2, <2>1, <2>2 DEF Whole
<1> QED
  BY <1>3, <1>4

LEMMA SiftLeftOrders ==
    ASSUME NEW yes \in BOOLEAN, InOrder, SiftLeft(yes)
    PROVE  Ordering'
<1>1. /\ at.pc = "left" /\ at.pc # "loop" /\ at.pc \in Sifting
      /\ yes <=> tab[L + at.next] < tab[L + LeftOf(at.root)]
  BY AnswersInOrder DEF SiftLeft, Less, Compared, Sifting
<1>2. at.next = at.root /\ tab[L + at.root] \in Int /\ tab[L + LeftOf(at.root)] \in Int
  BY <1>1, ChildrenInOrder
<1> DEFINE next == IF yes THEN LeftOf(at.root) ELSE at.next
           p == HeapPoint("right", at.phase, at.i, at.root, next)
<1>3. tab[L + at.root] <= tab[L + next] /\ tab[L + LeftOf(at.root)] <= tab[L + next]
  <2>1. CASE yes
    BY <1>1, <1>2, <2>1
  <2>2. CASE ~yes
    BY <1>1, <1>2, <2>2
  <2> QED
    BY <2>1, <2>2
<1>4. StayAndGo(frames, p)
  BY DEF SiftLeft, SiftAt
<1> HIDE DEF next
<1>5. p.pc \notin {"idle", "loop"} /\ Partitioned(tab, L, U, p) /\ Heaped(tab, L, U, p)
  <2>1. "right" \in Sifting
    BY DEF Sifting
  <2> QED
    BY <1>1, <1>3, <2>1, SiftInOrder, SiftsInOrder
<1> HIDE DEF p
<1> QED
  BY <1>1, <1>4, <1>5, StaysInOrder

\* The root changes places with its largest child.
LEMMA SiftDownInOrder ==
    ASSUME InOrder, at.pc \in Sifting, NEW next \in 0 .. Count - 1, ChildOf(next, at.root),
           \A q \in 0 .. Count - 1 : ChildOf(q, at.root) => tab[L + q] <= tab[L + next],
           tab[L + at.root] <= tab[L + next]
    PROVE  LET t == Swapped(tab, L + at.root, L + next)
           IN  /\ L + at.root \in L .. U /\ L + next \in L .. U
               /\ HeapBut(t, L, HeapBase(at), Count, next)
               /\ Skipped(t, L, HeapBase(at), Count, next)
               /\ HeapBase(at) <= next /\ Behind(t, L, U, Count)
<1> DEFINE t == Swapped(tab, L + at.root, L + next)
<1>1. /\ at.pc # "loop" /\ L \in Int /\ U \in Int
      /\ at.root \in Nat /\ HeapBase(at) \in Nat /\ HeapBase(at) <= at.root
      /\ Count \in Nat /\ Count <= U - L + 1
      /\ Whole(tab, L, L + Count - 1)
      /\ HeapBut(tab, L, HeapBase(at), Count, at.root)
      /\ Skipped(tab, L, HeapBase(at), Count, at.root)
      /\ Behind(tab, L, U, Count)
  BY SiftInOrder
<1>2. at.root < next
  <2>1. next \in Int
    BY <1>1
  <2> QED
    BY <1>1, <2>1, ChildAfter
<1>3. at.root \in 0 .. Count - 1
  BY <1>1, <1>2
<1>4. L + at.root \in L .. U /\ L + next \in L .. U
  BY <1>1, <1>3
<1>5. SwapOf(t, tab, L, U, L + at.root, L + next)
  BY <1>1, <1>4, SwapInOrder
<1> HIDE DEF t
<1>6. SwapOf(t, tab, L, L + Count - 1, L + at.root, L + next)
  <2>1. L .. L + Count - 1 \subseteq L .. U
    BY <1>1
  <2> QED
    BY <1>5, <2>1 DEF SwapOf
<1>7. /\ HeapBut(t, L, HeapBase(at), Count, next) /\ Skipped(t, L, HeapBase(at), Count, next)
      /\ HeapBase(at) <= next
  BY <1>1, <1>3, <1>6, SiftGoesDown
<1>8. Behind(t, L, U, Count)
  <2>1. /\ L + Count - 1 <= U /\ L + at.root \in L .. L + Count - 1
        /\ L + next \in L .. L + Count - 1 /\ Count \in Int
    BY <1>1, <1>3
  <2> QED
    BY <1>1, <1>5, <2>1, SwapBehind
<1> QED
  BY <1>4, <1>7, <1>8 DEF t

LEMMA SiftRightOrders ==
    ASSUME NEW yes \in BOOLEAN, InOrder, SiftRight(yes)
    PROVE  Ordering'
<1>1. /\ at.pc = "right" /\ at.pc # "loop" /\ at.pc \in Sifting
      /\ yes <=> tab[L + at.next] < tab[L + RightOf(at.root)]
  BY AnswersInOrder DEF SiftRight, Less, Compared, Sifting
<1>2. /\ at.next \in {at.root, LeftOf(at.root)}
      /\ \A q \in {at.root, LeftOf(at.root), RightOf(at.root)} :
            q \in 0 .. Count - 1 /\ tab[L + q] \in Int
  BY <1>1, ChildrenInOrder
<1>3. tab[L + at.root] <= tab[L + at.next] /\ tab[L + LeftOf(at.root)] <= tab[L + at.next]
  BY <1>1, SiftInOrder
<1> DEFINE next == IF yes THEN RightOf(at.root) ELSE at.next
<1>4. next \in {at.root, LeftOf(at.root), RightOf(at.root)}
  BY <1>2
<1>5. \A q \in {at.root, LeftOf(at.root), RightOf(at.root)} : tab[L + q] <= tab[L + next]
  <2>1. tab[L + at.next] \in Int
    BY <1>2
  <2>2. CASE yes
    BY <1>1, <1>2, <1>3, <2>1, <2>2
  <2>3. CASE ~yes
    BY <1>1, <1>2, <1>3, <2>1, <2>3
  <2> QED
    BY <2>2, <2>3
<1>6. IF next = at.root THEN StayAndGo(frames, Sifted)
      ELSE SwapAndGo(L + at.root, L + next, frames, Sift(at.phase, at.i, next))
  BY DEF SiftRight
<1> HIDE DEF next
<1>7. \A q \in 0 .. Count - 1 : ChildOf(q, at.root) => tab[L + q] <= tab[L + next]
  BY <1>5 DEF ChildOf
<1>8. CASE next = at.root
  <2>1. HeapBut(tab, L, HeapBase(at), Count, -1) /\ Behind(tab, L, U, Count)
    BY <1>1, <1>7, <1>8, SiftInOrder, SiftRests
  <2> QED
    BY <1>1, <1>6, <1>8, <2>1, SiftedInOrder, StaysInOrder
<1>9. CASE next # at.root
  <2> DEFINE t == Swapped(tab, L + at.root, L + next)
             p == Sift(at.phase, at.i, next)
  <2>1. next \in 0 .. Count - 1 /\ ChildOf(next, at.root) /\ tab[L + at.root] <= tab[L + next]
    BY <1>2, <1>4, <1>5, <1>9 DEF ChildOf
  <2>2. /\ L + at.root \in L .. U /\ L + next \in L .. U
        /\ HeapBut(t, L, HeapBase(at), Count, next)
        /\ Skipped(t, L, HeapBase(at), Count, next)
        /\ HeapBase(at) <= next /\ Behind(t, L, U, Count)
    BY <1>1, <1>7, <2>1, SiftDownInOrder
  <2>3. "sift" \in Sifting
    BY DEF Sifting
  <2> HIDE DEF t
  <2>4. p.pc \notin {"idle", "loop"} /\ Partitioned(t, L, U, p) /\ Heaped(t, L, U, p)
    BY <1>1, <2>2, <2>3, SiftsInOrder DEF Sift
  <2>5. SwapAndGo(L + at.root, L + next, frames, p)
    BY <1>6, <1>9
  <2> HIDE DEF p
  <2> QED
    BY <1>1, <2>2, <2>4, <2>5, SwapsInOrder DEF t
<1> QED
  BY <1>8, <1>9

LEMMA SiftLastOrders ==
    ASSUME NEW yes \in BOOLEAN, InOrder, SiftLast(yes)
    PROVE  Ordering'
<1>1. /\ at.pc = "last" /\ at.pc # "loop" /\ at.pc \in Sifting /\ at.pc \in Heaping /\ IInv
      /\ yes <=> tab[L + at.root] < tab[L + LeftOf(at.root)]
  BY AnswersInOrder DEF SiftLast, Less, Compared, Sifting, Heaping, InOrder
<1>2. /\ L \in Int /\ U \in Int /\ at.root \in Nat /\ Count \in Nat /\ Count <= U - L + 1
      /\ Count = CountIn(L, U, at) /\ Whole(tab, L, L + Count - 1)
      /\ HeapBase(at) \in Nat
      /\ HeapBut(tab, L, HeapBase(at), Count, at.root) /\ Behind(tab, L, U, Count)
  BY <1>1, SiftInOrder
<1>3. LeftOf(at.root) = Count - 1
  <2>1. Fits(L, U, at)
    BY <1>1, HeapRange
  <2> QED
    BY <1>1, <1>2, <2>1 DEF Fits
<1> DEFINE next == LeftOf(at.root)
<1>4. next \in 0 .. Count - 1 /\ at.root \in 0 .. Count - 1 /\ ChildOf(next, at.root)
  BY <1>2, <1>3 DEF LeftOf, ChildOf
<1>5. \A q \in 0 .. Count - 1 : (ChildOf(q, at.root) => q = next) /\ ~ChildOf(q, next)
  BY <1>2, <1>3 DEF LeftOf, RightOf, ChildOf
<1>6. tab[L + at.root] \in Int /\ tab[L + next] \in Int
  <2>1. L + at.root \in L .. L + Count - 1 /\ L + next \in L .. L + Count - 1
    BY <1>2, <1>4
  <2> QED
    BY <1>2, <2>1 DEF Whole
<1>7. IF yes THEN SwapAndGo(L + at.root, L + next, frames, Sifted) ELSE StayAndGo(frames, Sifted)
  BY DEF SiftLast
<1>8. yes <=> tab[L + at.root] < tab[L + next]
  BY <1>1
<1> HIDE DEF next
<1>9. CASE yes
  <2> DEFINE t == Swapped(tab, L + at.root, L + next)
  <2>1. /\ tab[L + at.root] <= tab[L + next]
        /\ \A q \in 0 .. Count - 1 : ChildOf(q, at.root) => tab[L + q] <= tab[L + next]
    BY <1>5, <1>6, <1>8, <1>9
  <2>2. /\ L + at.root \in L .. U /\ L + next \in L .. U
        /\ HeapBut(t, L, HeapBase(at), Count, next) /\ Behind(t, L, U, Count)
    BY <1>1, <1>4, <2>1, SiftDownInOrder
  <2> HIDE DEF t
  <2>3. HeapBut(t, L, HeapBase(at), Count, -1)
    <3>1. next \in Nat
      BY <1>4
    <3> QED
      BY <1>2, <1>5, <2>2, <3>1, SiftRests
  <2>4. /\ Sifted.pc \notin {"idle", "loop"}
        /\ Partitioned(t, L, U, Sifted) /\ Heaped(t, L, U, Sifted)
    BY <1>1, <2>2, <2>3, SiftedInOrder
  <2> QED
    BY <1>1, <1>7, <1>9, <2>2, <2>4, SwapsInOrder DEF t
<1>10. CASE ~yes
  <2>1. \A q \in 0 .. Count - 1 : ChildOf(q, at.root) => tab[L + q] <= tab[L + at.root]
    BY <1>5, <1>6, <1>8, <1>10
  <2>2. HeapBut(tab, L, HeapBase(at), Count, -1)
    BY <1>2, <2>1, SiftRests
  <2> QED
    BY <1>1, <1>2, <1>7, <1>10, <2>2, SiftedInOrder, StaysInOrder
<1> QED
  BY <1>9, <1>10
LEMMA LoopEndsOrders ==
    ASSUME InOrder, LoopEnds
    PROVE  Ordering'
<1>1. IInv /\ order = "given" /\ ~frozen /\ Apart(frames) /\ Parted(tab, frames)
  BY DEF InOrder, Ordering
<1>2. CASE frames = <<>>
  <2>1. frames' = <<>> /\ at' = Idle /\ outcome' = "sorted" /\ tab' = tab
    BY <1>2 DEF LoopEnds, End
  <2>2. Idle.pc = "idle"
    BY DEF Idle, Goto, Partition
  <2> QED
    BY <1>1, <1>2, <2>1, <2>2 DEF InOrder, Ordering, Sorting
<1>3. CASE frames # <<>>
  <2>1. L >= U /\ tab' = tab /\ GoOn(Returned, Goto("loop"))
    BY <1>3 DEF LoopEnds, StayAndGo
  <2>2. frames \in Seq(FrameSet) /\ L \in Int /\ U \in Int
    <3>1. frames \in Seq(FrameSet)
      BY <1>1 DEF IInv, TypeOK
    <3>2. Len(frames) \in 1 .. Len(frames)
      BY <1>3, <3>1
    <3> QED
      BY <3>1, <3>2, FrameInts DEF L, U, Here
  <2>3. \A a, b \in L .. U : ~(a < b)
    BY <2>1, <2>2
  <2>4. Keys \subseteq Int
    BY SortAssumption DEF Keys
  <2>5. Apart(Returned) /\ Parted(tab, Returned)
    BY <1>1, <1>3, <2>2, <2>3, <2>4, ReturnedParted
  <2>6. Goto("loop").pc = "loop"
    BY DEF Goto, Partition
  <2>7. Parted(tab', Returned)
    BY <2>1, <2>5
  <2> QED
    BY <2>1, <2>5, <2>6, <2>7, GoesOnInOrder
<1> QED
  BY <1>2, <1>3

LEMMA LoopGoesOnOrders ==
    ASSUME InOrder, LoopGoesOn
    PROVE  Ordering'
<1>1. /\ IInv /\ Apart(frames) /\ Parted(tab, frames) /\ frames # <<>> /\ L < U
      /\ at.pc = "loop"
  BY DEF InOrder, Ordering, LoopGoesOn
<1>2. L \in Int /\ U \in Int
  <2>1. frames \in Seq(FrameSet)
    BY <1>1 DEF IInv, TypeOK
  <2>2. Len(frames) \in 1 .. Len(frames)
    BY <1>1, <2>1
  <2> QED
    BY <2>1, <2>2, FrameInts DEF L, U, Here
<1> DEFINE half == (U - L + 1) \div 2
           heap == HeapAt("build", half - 1)
           ends == Goto("ends")
<1>3. tab' = tab /\ (GoOn(frames, heap) \/ GoOn(frames, ends))
  BY DEF LoopGoesOn, StayAndGo
<1>4. half \in Int /\ half - 1 + 1 = half /\ \A r, q \in Nat : r >= half /\ ChildOf(q, r) => q >= U - L + 1
  BY <1>1, <1>2 DEF ChildOf, LeftOf, RightOf
<1> HIDE DEF half
<1>5. /\ heap.pc = "heap" /\ heap.phase = "build" /\ heap.i = half - 1
      /\ heap.pc \notin {"idle", "loop"} /\ Partitioned(tab, L, U, heap)
  BY PointOfHeap DEF HeapAt, Heaping
<1>6. ends.pc = "ends" /\ \A t, l, u : Heaped(t, l, u, ends)
  BY PartitionPoint DEF Goto, Heaping, Sifting
<1> HIDE DEF heap, ends
<1>7. Partitioned(tab, L, U, ends)
  BY <1>6, Zenon DEF Partitioned
<1>8. HeapBut(tab, L, half, U - L + 1, -1)
  <2> DEFINE c == U - L + 1
  <2>1. c \in Int /\ \A r, q \in Nat : r >= half /\ ChildOf(q, r) => q >= c
    BY <1>2, <1>4
  <2> HIDE DEF c
  <2>2. \A r, q \in 0 .. c - 1 : ~(ChildOf(q, r) /\ half <= r)
    BY <1>4, <2>1
  <2>3. HeapBut(tab, L, half, c, -1)
    BY <2>2, Zenon DEF HeapBut
  <2> QED
    BY <2>3 DEF c
<1>9. Behind(tab, L, U, U - L + 1)
  BY <1>2 DEF Behind
<1>10. Heaped(tab, L, U, heap)
  <2>1. BetweenSifts(tab, L, U, heap)
    BY <1>4, <1>5, <1>8, <1>9 DEF BetweenSifts
  <2> QED
    BY <1>5, <2>1 DEF Heaped, Sifting
<1>11. Parted(tab', frames)
  BY <1>1, <1>3
<1>12. CASE GoOn(frames, heap)
  <2>1. Partitioned(tab', L, U, heap) /\ Heaped(tab', L, U, heap)
    BY <1>3, <1>5, <1>10
  <2> QED
    BY <1>1, <1>5, <1>11, <1>12, <2>1, GoesOnInOrder
<1>13. CASE GoOn(frames, ends)
  <2>1. Partitioned(tab', L, U, ends) /\ Heaped(tab', L, U, ends)
    BY <1>3, <1>6, <1>7
  <2> QED
    BY <1>1, <1>6, <1>11, <1>13, <2>1, GoesOnInOrder
<1> QED
  BY <1>3, <1>12, <1>13

\* An order never fails, and nobody but the comparator writes the table.
LEMMA NeverFails ==
    ASSUME IInv, Halved, order # "meddling", Comparing
    PROVE  /\ ~OutOfTable
           /\ order = "given" => ~Raises
<1>1. at.pc \notin {"idle", "loop"}
  BY DEF Comparing, Comparisons
<1>2. Compared[1] \in L .. U /\ Compared[2] \in L .. U
  BY RangeFollows DEF InRange
<1>3. /\ \A k \in L .. U : tab[k] # Nil
      /\ \A n \in Borders(tab) : L .. U \subseteq 1 .. n
  BY <1>1, InList
<1>4. ~OutOfTable
  BY <1>2, <1>3 DEF OutOfTable, Within
<1>5. \A c \in {1, 2} : tab[Compared[c]] # Nil
  BY <1>2, <1>3
<1> QED
  BY <1>4, <1>5 DEF Raises

LEMMA OrderedStep ==
    ASSUME IInv, Halved, Ordering, order = "given", SortStep
    PROVE  Ordering'
<1>1. UNCHANGED <<frozen, order>> /\ order # "meddling"
  BY DEF SortStep
<1>2. CASE Loops
  <2>1. InOrder
    BY <1>1, <1>2 DEF InOrder, Sorting, Loops, LoopEnds, LoopGoesOn, PlacePivot, Heap, SiftLoop
  <2> QED
    BY <1>2, <2>1, LoopEndsOrders, LoopGoesOnOrders, PlacePivotOrders, HeapOrders, SiftLoopOrders
       DEF Loops
<1>3. ASSUME NEW yes \in BOOLEAN, Answered(yes) PROVE Ordering'
  <2>1. InOrder
    BY <1>1, <1>3 DEF InOrder, Sorting, Answered, OrderEnds, OrderMiddle, OrderAbove, ScanUp,
                      ScanDown, SiftLeft, SiftRight, SiftLast, Less
  <2> QED
    BY <1>3, <2>1, OrderEndsOrders, OrderMiddleOrders, ScanUpOrders, ScanDownOrders,
       SiftLeftOrders, SiftRightOrders, SiftLastOrders
       DEF Answered
<1>4. CASE Raises \/ OutOfTable
  <2>1. Comparing
    BY <1>4 DEF Raises, OutOfTable
  <2> QED
    BY <1>1, <1>4, <2>1, NeverFails
<1> QED
  BY <1>2, <1>3, <1>4 DEF SortStep

\* Without an order there is less to keep.
LEMMA UnorderedStep ==
    ASSUME IInv, Halved, Ordering, order # "given", SortStep
    PROVE  Ordering'
<1>1. order' = order
  BY DEF SortStep
<1>2. ASSUME NEW fs, NEW point, GoOn(fs, point), Sorting PROVE Ordering'
  BY <1>1, <1>2 DEF GoOn, Ordering
<1>3. ASSUME NEW why, End(why), why # "modified" \/ order = "meddling" PROVE Ordering'
  <2>1. Idle.pc = "idle"
    BY DEF Idle, Goto, Partition
  <2> QED
    BY <1>1, <1>3, <2>1 DEF End, Ordering, Sorting
<1>4. CASE LoopEnds \/ LoopGoesOn \/ PlacePivot
  BY <1>2, <1>3, <1>4 DEF LoopEnds, LoopGoesOn, PlacePivot, StayAndGo, SwapAndGo, Refused, Sorting
<1>5. CASE Heap \/ SiftLoop
  BY <1>2, <1>3, <1>5 DEF Heap, SiftLoop, StayAndGo, SwapAndGo, Refused, Sorting
<1>6. ASSUME NEW yes \in BOOLEAN, OrderEnds(yes) \/ OrderMiddle(yes) \/ OrderAbove(yes)
      PROVE  Ordering'
  BY <1>2, <1>3, <1>6
     DEF OrderEnds, OrderMiddle, OrderAbove, Less, StayAndGo, SwapAndGo, Refused, Sorting
<1>7. ASSUME NEW yes \in BOOLEAN, ScanUp(yes) \/ ScanDown(yes) PROVE Ordering'
  BY <1>2, <1>3, <1>7 DEF ScanUp, ScanDown, Less, StayAndGo, SwapAndGo, Refused, Sorting
<1>8. ASSUME NEW yes \in BOOLEAN, SiftLeft(yes) \/ SiftRight(yes) \/ SiftLast(yes) PROVE Ordering'
  BY <1>2, <1>3, <1>8 DEF SiftLeft, SiftRight, SiftLast, Less, StayAndGo, SwapAndGo, Refused, Sorting
<1>9. CASE Raises
  BY <1>3, <1>9 DEF Raises
<1>10. CASE OutOfTable
  <2>1. order = "meddling"
    BY <1>10, NeverFails DEF OutOfTable
  <2> QED
    BY <1>3, <1>10, <2>1 DEF OutOfTable
<1> QED
  BY <1>4, <1>5, <1>6, <1>7, <1>8, <1>9, <1>10 DEF SortStep, Loops, Answered

LEMMA BeginOrders ==
    ASSUME NEW how \in Orders, NEW n \in {k \in Keys : k > 1},
           NEW limit \in Limits \cup {SortLimit(n)}, IInv, BeginSort(how, n, limit)
    PROVE  Ordering'
<1> DEFINE frame == [l |-> 1, u |-> n, limit |-> limit]
<1>1. /\ ListOf(tab, n) /\ tab' = tab /\ frames' = <<frame>> /\ ~frozen' /\ at' = Goto("loop")
      /\ outcome' = "sorting"
  BY DEF BeginSort
<1>2. frame.l = 1 /\ frame.u = n /\ n \in Int /\ Keys \subseteq Int
  BY SortAssumption DEF Keys
<1> HIDE DEF frame
<1>3. Len(<<frame>>) = 1 /\ <<frame>>[1] = frame
  OBVIOUS
<1>4. Apart(<<frame>>)
  BY <1>3 DEF Apart
<1>5. Parted(tab, <<frame>>)
  <2> SUFFICES ASSUME NEW a \in Keys, NEW b \in Keys, tab[a] # Nil, tab[b] # Nil
               PROVE  Together(<<frame>>, a, b)
    BY DEF Parted
  <2>1. a \in 1 .. n /\ b \in 1 .. n
    BY <1>1 DEF ListOf
  <2> QED
    BY <1>2, <1>3, <2>1 DEF Together
<1>6. Goto("loop").pc = "loop"
  BY DEF Goto, Partition
<1>7. Apart(frames') /\ Parted(tab', frames')
  BY <1>1, <1>4, <1>5
<1> QED
  BY <1>1, <1>6, <1>7 DEF Ordering

LEMMA OrderingKeeps == IInv /\ Busy /\ Halved /\ Ordering /\ [SortNext]_sortVars => Ordering'
<1> SUFFICES ASSUME IInv, Busy, Halved, Ordering, [SortNext]_sortVars PROVE Ordering'
  OBVIOUS
<1>1. ASSUME NEW how \in Orders, NEW n \in {k \in Keys : k > 1},
             NEW limit \in Limits \cup {SortLimit(n)}, BeginSort(how, n, limit)
      PROVE  Ordering'
  BY <1>1, BeginOrders
<1>2. CASE SortStep
  BY <1>2, OrderedStep, UnorderedStep
<1>3. CASE Meddling
  <2>1. order = "meddling" /\ order' = order
    BY <1>3 DEF Meddling, Meddle, MeddleNoticed
  <2>2. Idle.pc = "idle"
    BY DEF Idle, Goto, Partition
  <2>3. (UNCHANGED <<at, outcome>>) \/ at' = Idle
    BY <1>3 DEF Meddling, Meddle, MeddleNoticed, End
  <2> QED
    BY <2>1, <2>2, <2>3 DEF Ordering, Sorting
<1>4. CASE Freeze
  BY <1>4 DEF Freeze, Ordering, Sorting
<1>5. CASE Forget
  BY <1>5 DEF Forget, Ordering, Sorting
<1>6. CASE UNCHANGED sortVars
  BY <1>6 DEF sortVars, Ordering, Sorting, L, U, Here
<1> QED
  BY <1>1, <1>2, <1>3, <1>4, <1>5, <1>6 DEF SortNext
-----------------------------------------------------------------------------
(* The loops of the library.                                               *)

Held   == Values \cup {Nil}
Tables == [Keys -> Held]

\* A loop that copies one element a turn, from from[k] to to[k].
Copying(from, to) ==
    [k \in Int |-> [t \in Tables |->
        IF from[k] \in Keys /\ to[k] \in Keys THEN [t EXCEPT ![to[k]] = t[from[k]]] ELSE t]]

LEMMA CopyingType ==
    ASSUME NEW from, NEW to
    PROVE  /\ Copying(from, to) \in [Int -> [Tables -> Tables]]
           /\ \A k \in Int, t \in Tables : from[k] \in Keys /\ to[k] \in Keys =>
                 Copying(from, to)[k][t] = [t EXCEPT ![to[k]] = t[from[k]]]
<1>1. ASSUME NEW k \in Int, NEW t \in Tables
      PROVE  (IF from[k] \in Keys /\ to[k] \in Keys THEN [t EXCEPT ![to[k]] = t[from[k]]] ELSE t)
                \in Tables
  BY DEF Tables
<1> QED
  BY <1>1 DEF Copying

LEMMA ShiftedUpIs ==
    ASSUME NEW t \in Tables, NEW n \in Int, n + 1 \in Keys, NEW pos \in Keys, pos \in 1 .. n
    PROVE  /\ ShiftedUp(t, n, pos) \in Tables
           /\ \A j \in Keys :
                 ShiftedUp(t, n, pos)[j] = IF j \in pos + 1 .. n + 1 THEN t[j - 1] ELSE t[j]
<1> DEFINE Loop(f) == f = [k \in pos .. n + 1 |->
                              IF k = n + 1 THEN t ELSE [f[k + 1] EXCEPT ![k + 1] = f[k + 1][k]]]
           F == Copying([k \in Int |-> k], [k \in Int |-> k + 1])
<1>1. pos \in Int /\ n + 1 \in Int /\ pos <= n + 1 /\ \A k \in pos .. n + 1 : k \in Int /\ k \in Keys
  BY SortAssumption DEF Keys
<1>2. /\ F \in [Int -> [Tables -> Tables]]
      /\ \A k \in Int, x \in Tables : k \in Keys /\ k + 1 \in Keys => F[k][x] = [x EXCEPT ![k + 1] = x[k]]
  BY CopyingType
<1> HIDE DEF F
<1>3. PICK p \in [pos .. n + 1 -> Tables] : IsLoopDown(p, pos, n + 1, t, F)
  BY <1>1, <1>2, RecursionDown
<1>4. ASSUME NEW k \in pos .. n + 1
      PROVE  p[k] = IF k = n + 1 THEN t ELSE [p[k + 1] EXCEPT ![k + 1] = p[k + 1][k]]
  <2>1. p[k] = IF k = n + 1 THEN t ELSE F[k][p[k + 1]]
    BY <1>3 DEF IsLoopDown
  <2>2. CASE k = n + 1
    BY <2>1, <2>2
  <2>3. CASE k # n + 1
    <3>1. k + 1 \in pos .. n + 1 /\ k \in Int /\ k \in Keys /\ k + 1 \in Keys
      BY <1>1, <2>3
    <3>2. F[k][p[k + 1]] = [p[k + 1] EXCEPT ![k + 1] = p[k + 1][k]]
      BY <1>2, <3>1
    <3> QED
      BY <2>1, <2>3, <3>2
  <2> QED
    BY <2>2, <2>3
<1>5. Loop(p)
  BY <1>4
<1> DEFINE q == CHOOSE f : Loop(f)
<1>6. Loop(q)
  BY <1>5
<1>7. ShiftedUp(t, n, pos) = q[pos]
  BY DEF ShiftedUp
<1> HIDE DEF q
<1>8. \A k \in pos .. n + 1 :
         q[k] = IF k = n + 1 THEN t ELSE [q[k + 1] EXCEPT ![k + 1] = q[k + 1][k]]
  BY <1>6
<1> HIDE DEF Loop
<1> DEFINE T == {k \in pos .. n + 1 :
                    /\ q[k] \in Tables
                    /\ \A j \in Keys : q[k][j] = IF j \in k + 1 .. n + 1 THEN t[j - 1] ELSE t[j]}
<1>9. pos <= n + 1 => n + 1 \in T
  <2>0. n + 1 \in pos .. n + 1
    BY <1>1
  <2>1. q[n + 1] = t
    BY <1>8, <2>0
  <2>2. \A j : j \notin n + 1 + 1 .. n + 1
    BY <1>1
  <2> QED
    BY <2>0, <2>1, <2>2
<1>10. ASSUME NEW k \in pos .. n, k + 1 \in T PROVE k \in T
  <2>1. k \in pos .. n + 1 /\ k + 1 \in pos .. n + 1 /\ k # n + 1 /\ k \in Keys /\ k + 1 \in Keys
    BY <1>1
  <2>2. q[k] = [q[k + 1] EXCEPT ![k + 1] = q[k + 1][k]]
    BY <1>8, <2>1
  <2> DEFINE x == q[k + 1]
  <2>3. x \in Tables /\ \A j \in Keys : x[j] = IF j \in k + 1 + 1 .. n + 1 THEN t[j - 1] ELSE t[j]
    BY <1>10
  <2> HIDE DEF x
  <2>4. q[k] = [x EXCEPT ![k + 1] = x[k]]
    BY <2>2 DEF x
  <2>5. q[k] \in Tables
    BY <2>1, <2>3, <2>4 DEF Tables
  <2>6. x[k] = t[k]
    BY <2>1, <2>3
  <2>7. ASSUME NEW j \in Keys
        PROVE  q[k][j] = IF j \in k + 1 .. n + 1 THEN t[j - 1] ELSE t[j]
    <3>1. q[k][j] = IF j = k + 1 THEN t[k] ELSE x[j]
      BY <2>3, <2>4, <2>6 DEF Tables
    <3>2. k + 1 - 1 = k /\ k \in Int /\ j \in Int /\ k + 1 \in k + 1 .. n + 1
          /\ (j # k + 1 => (j \in k + 1 .. n + 1 <=> j \in k + 1 + 1 .. n + 1))
      BY <1>1, <2>1, SortAssumption DEF Keys
    <3> QED
      BY <2>3, <3>1, <3>2
  <2> QED
    BY <2>1, <2>5, <2>7
<1> HIDE DEF T
<1>11. pos .. n + 1 \subseteq T
  <2> DEFINE last == n + 1
  <2>1. pos \in Int /\ last \in Int /\ last - 1 = n /\ (pos <= last => last \in T)
    BY <1>1, <1>9
  <2>2. \A k \in pos .. n : k + 1 \in T => k \in T
    BY <1>10
  <2> HIDE DEF last
  <2>3. pos .. last \subseteq T
    BY <2>1, <2>2, DownwardInduction
  <2> QED
    BY <2>3 DEF last
<1>12. pos \in T
  BY <1>1, <1>11
<1> QED
  BY <1>7, <1>12 DEF T
LEMMA RemovedIs ==
    ASSUME NEW t \in Tables, NEW n \in Keys, NEW pos \in Keys, pos \in 1 .. n
    PROVE  Removed(t, n, pos) \in Tables /\ IsRemove(t, n, pos, Removed(t, n, pos))
<1> DEFINE Loop(f) == f = [k \in pos - 1 .. n - 1 |->
                              IF k = pos - 1 THEN t ELSE [f[k - 1] EXCEPT ![k] = f[k - 1][k + 1]]]
           F == Copying([k \in Int |-> k + 1], [k \in Int |-> k])
<1>1. /\ pos - 1 \in Int /\ n - 1 \in Int /\ pos - 1 <= n - 1 /\ pos \in Int /\ n \in Int
      /\ \A k \in pos .. n : k \in Int /\ k \in Keys
  BY SortAssumption DEF Keys
<1>2. /\ F \in [Int -> [Tables -> Tables]]
      /\ \A k \in Int, x \in Tables : k \in Keys /\ k + 1 \in Keys => F[k][x] = [x EXCEPT ![k] = x[k + 1]]
  BY CopyingType
<1> HIDE DEF F
<1>3. PICK p \in [pos - 1 .. n - 1 -> Tables] : IsLoopUp(p, pos - 1, n - 1, t, F)
  BY <1>1, <1>2, RecursionUp
<1>4. ASSUME NEW k \in pos - 1 .. n - 1
      PROVE  p[k] = IF k = pos - 1 THEN t ELSE [p[k - 1] EXCEPT ![k] = p[k - 1][k + 1]]
  <2>1. p[k] = IF k = pos - 1 THEN t ELSE F[k][p[k - 1]]
    BY <1>3 DEF IsLoopUp
  <2>2. CASE k = pos - 1
    BY <2>1, <2>2
  <2>3. CASE k # pos - 1
    <3>1. k - 1 \in pos - 1 .. n - 1 /\ k \in pos .. n /\ k + 1 \in pos .. n
      BY <1>1, <2>3
    <3>2. F[k][p[k - 1]] = [p[k - 1] EXCEPT ![k] = p[k - 1][k + 1]]
      BY <1>1, <1>2, <3>1
    <3> QED
      BY <2>1, <2>3, <3>2
  <2> QED
    BY <2>2, <2>3
<1>5. Loop(p)
  BY <1>4
<1> DEFINE q == CHOOSE f : Loop(f)
<1>6. Loop(q)
  BY <1>5
<1>7. Removed(t, n, pos) = [q[n - 1] EXCEPT ![n] = Nil]
  BY DEF Removed
<1> HIDE DEF q
<1>8. \A k \in pos - 1 .. n - 1 :
         q[k] = IF k = pos - 1 THEN t ELSE [q[k - 1] EXCEPT ![k] = q[k - 1][k + 1]]
  BY <1>6
<1> HIDE DEF Loop
<1> DEFINE T == {k \in pos - 1 .. n - 1 :
                    /\ q[k] \in Tables
                    /\ \A j \in Keys : q[k][j] = IF j \in pos .. k THEN t[j + 1] ELSE t[j]}
<1>9. pos - 1 <= n - 1 => pos - 1 \in T
  <2>1. pos - 1 \in pos - 1 .. n - 1
    BY <1>1
  <2>2. q[pos - 1] = t
    BY <1>8, <2>1
  <2>3. \A j : j \notin pos .. pos - 1
    BY <1>1
  <2> QED
    BY <2>1, <2>2, <2>3
<1>10. ASSUME NEW k \in pos .. n - 1, k - 1 \in T PROVE k \in T
  <2>1. k \in pos - 1 .. n - 1 /\ k # pos - 1 /\ k \in pos .. n /\ k + 1 \in pos .. n
    BY <1>1
  <2>2. q[k] = [q[k - 1] EXCEPT ![k] = q[k - 1][k + 1]]
    BY <1>8, <2>1
  <2> DEFINE x == q[k - 1]
  <2>3. x \in Tables /\ \A j \in Keys : x[j] = IF j \in pos .. k - 1 THEN t[j + 1] ELSE t[j]
    BY <1>10
  <2> HIDE DEF x
  <2>4. q[k] = [x EXCEPT ![k] = x[k + 1]]
    BY <2>2 DEF x
  <2>5. k \in Keys /\ k + 1 \in Keys
    BY <1>1, <2>1
  <2>6. q[k] \in Tables
    BY <2>3, <2>4, <2>5 DEF Tables
  <2>7. x[k + 1] = t[k + 1]
    <3>1. k + 1 \notin pos .. k - 1
      BY <1>1
    <3> QED
      BY <2>3, <2>5, <3>1
  <2>8. ASSUME NEW j \in Keys
        PROVE  q[k][j] = IF j \in pos .. k THEN t[j + 1] ELSE t[j]
    <3>1. q[k][j] = IF j = k THEN t[k + 1] ELSE x[j]
      BY <2>3, <2>4, <2>7 DEF Tables
    <3>2. k \in Int /\ j \in Int /\ k \in pos .. k /\ (j # k => (j \in pos .. k <=> j \in pos .. k - 1))
      BY <1>1, <2>1, SortAssumption DEF Keys
    <3> QED
      BY <2>3, <3>1, <3>2
  <2> QED
    BY <2>1, <2>6, <2>8
<1> HIDE DEF T
<1>11. pos - 1 .. n - 1 \subseteq T
  <2> DEFINE first == pos - 1
             last  == n - 1
  <2>1. first \in Int /\ last \in Int /\ first + 1 = pos /\ (first <= last => first \in T)
    BY <1>1, <1>9
  <2>2. \A k \in pos .. last : k - 1 \in T => k \in T
    BY <1>10
  <2> HIDE DEF first, last
  <2>3. first .. last \subseteq T
    BY <2>1, <2>2, UpwardInduction
  <2> QED
    BY <2>3 DEF first, last
<1>12. n - 1 \in T
  BY <1>1, <1>11
<1> DEFINE y == q[n - 1]
<1>13. y \in Tables /\ \A j \in Keys : y[j] = IF j \in pos .. n - 1 THEN t[j + 1] ELSE t[j]
  BY <1>12 DEF T
<1> HIDE DEF y
<1>14. Removed(t, n, pos) = [y EXCEPT ![n] = Nil]
  BY <1>7 DEF y
<1>15. n \notin pos .. n - 1
  BY <1>1
<1> QED
  BY <1>13, <1>14, <1>15 DEF IsRemove, Tables, Held
LEMMA InsertedIs ==
    ASSUME NEW t \in Tables, NEW n \in Nat, n + 1 \in Keys, NEW pos \in Keys, NEW v \in Values
    PROVE  /\ InsertedAt(t, n, pos, v) \in Tables
           /\ IsInsert(t, n, pos, v, InsertedAt(t, n, pos, v))
<1> DEFINE x == IF pos \in 1 .. n THEN ShiftedUp(t, n, pos) ELSE t
<1>1. /\ x \in Tables
      /\ \A j \in Keys : x[j] = IF pos \in 1 .. n /\ j \in pos + 1 .. n + 1 THEN t[j - 1] ELSE t[j]
  <2>1. CASE pos \in 1 .. n
    BY <2>1, ShiftedUpIs
  <2>2. CASE pos \notin 1 .. n
    BY <2>2
  <2> QED
    BY <2>1, <2>2
<1>2. InsertedAt(t, n, pos, v) = [x EXCEPT ![pos] = v]
  BY DEF InsertedAt
<1> HIDE DEF x
<1>3. v \in Held
  BY DEF Held
<1> QED
  BY <1>1, <1>2, <1>3 DEF IsInsert, Tables

\* The elements f .. e are at d .. d + (e - f) then.
LEMMA MoveFits ==
    ASSUME NEW f \in Int, NEW e \in Int, NEW d \in Int, f <= e, ~MoveRefused(f, e, d)
    PROVE  /\ f \in Keys /\ e \in Keys /\ d \in Keys
           /\ \A i \in 0 .. e - f : f + i \in Keys /\ d + i \in Keys
<1>1. f \in Keys /\ e \in Keys /\ d \in Keys
  BY DEF MoveRefused, Keys
<1>2. d <= MaxInt - (e - f + 1) + 1
  BY <1>1, SortAssumption DEF MoveRefused, Keys
<1> QED
  BY <1>1, <1>2, SortAssumption DEF Keys

\* A turn of the loop of move, from src or from the table itself.
Turn(src, f, d, same, i, t) == [t EXCEPT ![d + i] = IF same THEN t[f + i] ELSE src[f + i]]
Moving(src, f, d, same) ==
    [i \in Int |-> [t \in Tables |->
        IF f + i \in Keys /\ d + i \in Keys
        THEN Turn(src, f, d, same, i, t) ELSE t]]

LEMMA MovingType ==
    ASSUME NEW src \in Tables, NEW f \in Int, NEW d \in Int, NEW same \in BOOLEAN
    PROVE  /\ Moving(src, f, d, same) \in [Int -> [Tables -> Tables]]
           /\ \A i \in Int, t \in Tables : f + i \in Keys /\ d + i \in Keys =>
                 Moving(src, f, d, same)[i][t] = Turn(src, f, d, same, i, t)
<1>1. ASSUME NEW i \in Int, NEW t \in Tables
      PROVE  (IF f + i \in Keys /\ d + i \in Keys
              THEN Turn(src, f, d, same, i, t) ELSE t) \in Tables
  BY DEF Tables, Turn
<1> QED
  BY <1>1 DEF Moving

LEMMA MovedUp ==
    ASSUME NEW src \in Tables, NEW dst \in Tables, NEW f \in Int, NEW e \in Int, NEW d \in Int,
           f <= e, ~MoveRefused(f, e, d), NEW same \in BOOLEAN, same => src = dst,
           Ascends(f, e, d, same)
    PROVE  /\ Moved(src, dst, f, e, d, same) \in Tables
           /\ IsCopy(src, dst, f, e, d, Moved(src, dst, f, e, d, same))
<1> DEFINE n == e - f + 1
           step(t, i) == [t EXCEPT ![d + i] = IF same THEN t[f + i] ELSE src[f + i]]
           Loop(p) == p = [i \in -1 .. n - 1 |-> IF i = -1 THEN dst ELSE step(p[i - 1], i)]
           F == Moving(src, f, d, same)
           q == CHOOSE p : Loop(p)
<1>1. Moved(src, dst, f, e, d, same) = q[n - 1]
  BY DEF Moved
<1>2. /\ -1 \in Int /\ n - 1 \in Int /\ -1 <= n - 1 /\ n - 1 = e - f
      /\ \A i \in 0 .. n - 1 : i \in Int /\ f + i \in Keys /\ d + i \in Keys
  <2>1. \A i \in 0 .. e - f : f + i \in Keys /\ d + i \in Keys
    BY MoveFits, Zenon
  <2>2. n - 1 = e - f /\ n - 1 \in Int /\ -1 <= n - 1
    OBVIOUS
  <2> HIDE DEF n
  <2> QED
    BY <2>1, <2>2
<1> HIDE DEF n
<1>3. /\ F \in [Int -> [Tables -> Tables]]
      /\ \A i \in Int, t \in Tables : f + i \in Keys /\ d + i \in Keys =>
            F[i][t] = Turn(src, f, d, same, i, t)
  BY MovingType
<1> HIDE DEF F
<1>4. PICK p \in [-1 .. n - 1 -> Tables] : IsLoopUp(p, -1, n - 1, dst, F)
  BY <1>2, <1>3, RecursionUp
<1>5. ASSUME NEW i \in -1 .. n - 1
      PROVE  p[i] = IF i = -1 THEN dst ELSE step(p[i - 1], i)
  <2>1. p[i] = IF i = -1 THEN dst ELSE F[i][p[i - 1]]
    BY <1>4 DEF IsLoopUp
  <2>2. CASE i # -1
    <3>1. i - 1 \in -1 .. n - 1 /\ i \in 0 .. n - 1
      BY <1>2, <2>2
    <3>2. F[i][p[i - 1]] = step(p[i - 1], i)
      BY <1>2, <1>3, <3>1 DEF Turn
    <3> QED
      BY <2>1, <2>2, <3>2
  <2> QED
    BY <2>1, <2>2
<1>6. Loop(p)
  BY <1>5
<1>7. Loop(q)
  BY <1>6
<1> HIDE DEF q
<1>8. \A i \in -1 .. n - 1 : q[i] = IF i = -1 THEN dst ELSE step(q[i - 1], i)
  BY <1>7
<1> HIDE DEF Loop
<1> DEFINE T == {i \in -1 .. n - 1 :
                    /\ q[i] \in Tables
                    /\ \A k \in Keys : q[i][k] = IF k \in d .. d + i THEN src[k - d + f] ELSE dst[k]}
<1>9. -1 <= n - 1 => -1 \in T
  <2>1. -1 \in -1 .. n - 1
    BY <1>2
  <2>2. q[-1] = dst
    BY <1>8, <2>1
  <2>3. \A k : k \notin d .. d + (-1)
    OBVIOUS
  <2> QED
    BY <2>1, <2>2, <2>3
<1>10. ASSUME NEW i \in 0 .. n - 1, i - 1 \in T PROVE i \in T
  <2>1. i \in -1 .. n - 1 /\ i # -1 /\ i \in 0 .. n - 1 /\ i \in Int
    BY <1>2
  <2>2. f + i \in Keys /\ d + i \in Keys
    BY <1>2, <2>1
  <2> DEFINE x == q[i - 1]
  <2>3. x \in Tables /\ \A k \in Keys : x[k] = IF k \in d .. d + (i - 1) THEN src[k - d + f] ELSE dst[k]
    BY <1>10
  <2>4. q[i] = step(x, i)
    BY <1>8, <2>1
  <2> HIDE DEF x
  <2> DEFINE w == IF same THEN x[f + i] ELSE src[f + i]
  <2>5. w = src[f + i]
    <3>1. same => f + i \notin d .. d + (i - 1)
      BY <1>2, <2>1 DEF Ascends
    <3>2. same => x[f + i] = dst[f + i]
      BY <2>2, <2>3, <3>1
    <3> QED
      BY <3>2
  <2>6. q[i] = [x EXCEPT ![d + i] = w]
    BY <2>4
  <2> HIDE DEF w
  <2>7. w \in Held
    BY <2>2, <2>5 DEF Tables
  <2>8. q[i] \in Tables
    BY <2>2, <2>3, <2>6, <2>7 DEF Tables
  <2>9. ASSUME NEW k \in Keys
        PROVE  q[i][k] = IF k \in d .. d + i THEN src[k - d + f] ELSE dst[k]
    <3>1. q[i][k] = IF k = d + i THEN w ELSE x[k]
      BY <2>3, <2>6 DEF Tables
    <3>2. k \in Int /\ d + i \in d .. d + i /\ d + i - d + f = f + i
          /\ (k # d + i => (k \in d .. d + i <=> k \in d .. d + (i - 1)))
      BY <2>1, SortAssumption DEF Keys
    <3>3. CASE k = d + i
      BY <2>5, <3>1, <3>2, <3>3
    <3>4. CASE k # d + i
      BY <2>3, <3>1, <3>2, <3>4
    <3> QED
      BY <3>3, <3>4
  <2> QED
    BY <2>1, <2>8, <2>9
<1> HIDE DEF T
<1>11. -1 .. n - 1 \subseteq T
  <2> DEFINE first == -1
             last  == n - 1
  <2>1. first \in Int /\ last \in Int /\ first + 1 = 0 /\ (first <= last => first \in T)
    BY <1>2, <1>9
  <2>2. \A i \in 0 .. last : i - 1 \in T => i \in T
    BY <1>10
  <2> HIDE DEF first, last
  <2>3. first .. last \subseteq T
    BY <2>1, <2>2, UpwardInduction
  <2> QED
    BY <2>3 DEF first, last
<1>12. n - 1 \in T
  BY <1>2, <1>11
<1>13. d + (n - 1) = d + e - f
  BY <1>2
<1> DEFINE y == q[n - 1]
<1>14. y \in Tables /\ \A k \in Keys : y[k] = IF k \in d .. d + e - f THEN src[k - d + f] ELSE dst[k]
  BY <1>12, <1>13 DEF T
<1> HIDE DEF y
<1>15. Moved(src, dst, f, e, d, same) = y
  BY <1>1 DEF y
<1> QED
  BY <1>14, <1>15 DEF IsCopy
LEMMA MovedDown ==
    ASSUME NEW src \in Tables, NEW dst \in Tables, NEW f \in Int, NEW e \in Int, NEW d \in Int,
           f <= e, ~MoveRefused(f, e, d), NEW same \in BOOLEAN, same => src = dst,
           ~Ascends(f, e, d, same)
    PROVE  /\ Moved(src, dst, f, e, d, same) \in Tables
           /\ IsCopy(src, dst, f, e, d, Moved(src, dst, f, e, d, same))
<1> DEFINE n == e - f + 1
           step(t, i) == [t EXCEPT ![d + i] = IF same THEN t[f + i] ELSE src[f + i]]
           Loop(p) == p = [i \in 0 .. n |-> IF i = n THEN dst ELSE step(p[i + 1], i)]
           F == Moving(src, f, d, same)
           q == CHOOSE p : Loop(p)
<1>1. Moved(src, dst, f, e, d, same) = q[0]
  BY DEF Moved
<1>2. /\ 0 \in Int /\ n \in Int /\ 0 <= n /\ n - 1 = e - f
      /\ \A i \in 0 .. n - 1 : i \in Int /\ f + i \in Keys /\ d + i \in Keys
  <2>1. \A i \in 0 .. e - f : f + i \in Keys /\ d + i \in Keys
    BY MoveFits, Zenon
  <2>2. n - 1 = e - f /\ n \in Int /\ 0 <= n
    OBVIOUS
  <2> HIDE DEF n
  <2> QED
    BY <2>1, <2>2
<1> HIDE DEF n
<1>3. /\ F \in [Int -> [Tables -> Tables]]
      /\ \A i \in Int, t \in Tables : f + i \in Keys /\ d + i \in Keys =>
            F[i][t] = Turn(src, f, d, same, i, t)
  BY MovingType
<1> HIDE DEF F
<1>4. PICK p \in [0 .. n -> Tables] : IsLoopDown(p, 0, n, dst, F)
  BY <1>2, <1>3, RecursionDown
<1>5. ASSUME NEW i \in 0 .. n
      PROVE  p[i] = IF i = n THEN dst ELSE step(p[i + 1], i)
  <2>1. p[i] = IF i = n THEN dst ELSE F[i][p[i + 1]]
    BY <1>4 DEF IsLoopDown
  <2>2. CASE i # n
    <3>1. i + 1 \in 0 .. n /\ i \in 0 .. n - 1
      BY <1>2, <2>2
    <3>2. F[i][p[i + 1]] = step(p[i + 1], i)
      BY <1>2, <1>3, <3>1 DEF Turn
    <3> QED
      BY <2>1, <2>2, <3>2
  <2> QED
    BY <2>1, <2>2
<1>6. Loop(p)
  BY <1>5
<1>7. Loop(q)
  BY <1>6
<1> HIDE DEF q
<1>8. \A i \in 0 .. n : q[i] = IF i = n THEN dst ELSE step(q[i + 1], i)
  BY <1>7
<1> HIDE DEF Loop
<1> DEFINE last == d + e - f
           T == {i \in 0 .. n :
                    /\ q[i] \in Tables
                    /\ \A k \in Keys : q[i][k] = IF k \in d + i .. last THEN src[k - d + f] ELSE dst[k]}
<1>a. last \in Int /\ last = d + (n - 1)
  BY <1>2
<1> HIDE DEF last
<1>9. 0 <= n => n \in T
  <2>1. n \in 0 .. n
    BY <1>2
  <2>2. q[n] = dst
    BY <1>8, <2>1
  <2>3. \A k : k \notin d + n .. last
    BY <1>2, <1>a
  <2> QED
    BY <2>1, <2>2, <2>3
<1>10. ASSUME NEW i \in 0 .. n - 1, i + 1 \in T PROVE i \in T
  <2>1. i \in 0 .. n /\ i # n /\ i \in Int /\ i <= n - 1
    BY <1>2
  <2>2. f + i \in Keys /\ d + i \in Keys
    BY <1>2
  <2> DEFINE x == q[i + 1]
  <2>3. x \in Tables /\ \A k \in Keys : x[k] = IF k \in d + (i + 1) .. last THEN src[k - d + f] ELSE dst[k]
    BY <1>10
  <2>4. q[i] = step(x, i)
    BY <1>8, <2>1
  <2> HIDE DEF x
  <2> DEFINE w == IF same THEN x[f + i] ELSE src[f + i]
  <2>5. w = src[f + i]
    <3>1. same => f + i \notin d + (i + 1) .. last
      BY <1>2, <1>a, <2>1 DEF Ascends
    <3>2. same => x[f + i] = dst[f + i]
      BY <2>2, <2>3, <3>1
    <3> QED
      BY <3>2
  <2>6. q[i] = [x EXCEPT ![d + i] = w]
    BY <2>4
  <2> HIDE DEF w
  <2>7. w \in Held
    BY <2>2, <2>5 DEF Tables
  <2>8. q[i] \in Tables
    BY <2>2, <2>3, <2>6, <2>7 DEF Tables
  <2>9. ASSUME NEW k \in Keys
        PROVE  q[i][k] = IF k \in d + i .. last THEN src[k - d + f] ELSE dst[k]
    <3>1. q[i][k] = IF k = d + i THEN w ELSE x[k]
      BY <2>3, <2>6 DEF Tables
    <3>2. k \in Int /\ d + i \in d + i .. last /\ d + i - d + f = f + i
          /\ (k # d + i => (k \in d + i .. last <=> k \in d + (i + 1) .. last))
      BY <1>2, <1>a, <2>1, SortAssumption DEF Keys
    <3>3. CASE k = d + i
      BY <2>5, <3>1, <3>2, <3>3
    <3>4. CASE k # d + i
      BY <2>3, <3>1, <3>2, <3>4
    <3> QED
      BY <3>3, <3>4
  <2> QED
    BY <2>1, <2>8, <2>9
<1> HIDE DEF T
<1>11. 0 .. n \subseteq T
  BY <1>2, <1>9, <1>10, DownwardInduction
<1>12. 0 \in T
  BY <1>2, <1>11
<1> DEFINE y == q[0]
<1>13. d + 0 = d
  OBVIOUS
<1>14. y \in Tables /\ \A k \in Keys : y[k] = IF k \in d .. d + e - f THEN src[k - d + f] ELSE dst[k]
  BY <1>12, <1>13 DEF T, last
<1> HIDE DEF y
<1>15. Moved(src, dst, f, e, d, same) = y
  BY <1>1 DEF y
<1> QED
  BY <1>14, <1>15 DEF IsCopy

\* table.find, and the refusals of table.move.
LEMMA FoundIs ==
    ASSUME NEW t \in Tables, NEW v \in Values, NEW init \in 1 .. MaxInt + 1
    PROVE  IsFirst(t, v, init, Found(t, v, init))
<1> DEFINE Loop(p) == p = [i \in init .. MaxInt + 1 |->
                              IF i > MaxInt THEN 0
                              ELSE IF t[i] = Nil THEN 0
                              ELSE IF t[i] = v THEN i ELSE p[i + 1]]
           F == [i \in Int |-> [x \in Int |->
                   IF t[i] = Nil THEN 0 ELSE IF t[i] = v THEN i ELSE x]]
           q == CHOOSE p : Loop(p)
<1>1. Found(t, v, init) = q[init]
  BY DEF Found
<1>2. /\ init \in Int /\ MaxInt + 1 \in Int /\ init <= MaxInt + 1 /\ 0 \in Int /\ MaxInt \in Int
      /\ \A i \in init .. MaxInt : i \in Int /\ i \in Keys /\ i \in init .. MaxInt + 1
                                   /\ i + 1 \in init .. MaxInt + 1 /\ ~(i > MaxInt)
      /\ \A i \in init .. MaxInt + 1 : i # MaxInt + 1 => i \in init .. MaxInt
      /\ MaxInt + 1 > MaxInt /\ MaxInt + 1 \in init .. MaxInt + 1
  BY SortAssumption DEF Keys
<1>3. /\ F \in [Int -> [Int -> Int]]
      /\ \A i, x \in Int : F[i][x] = IF t[i] = Nil THEN 0 ELSE IF t[i] = v THEN i ELSE x
  OBVIOUS
<1> HIDE DEF F
<1>4. PICK p \in [init .. MaxInt + 1 -> Int] : IsLoopDown(p, init, MaxInt + 1, 0, F)
  BY <1>2, <1>3, RecursionDown
<1>5. ASSUME NEW i \in init .. MaxInt + 1
      PROVE  p[i] = IF i > MaxInt THEN 0
                    ELSE IF t[i] = Nil THEN 0 ELSE IF t[i] = v THEN i ELSE p[i + 1]
  <2>1. p[i] = IF i = MaxInt + 1 THEN 0 ELSE F[i][p[i + 1]]
    BY <1>4 DEF IsLoopDown
  <2>2. CASE i = MaxInt + 1
    BY <1>2, <2>1, <2>2
  <2>3. CASE i # MaxInt + 1
    <3>1. i \in Int /\ i + 1 \in init .. MaxInt + 1 /\ ~(i > MaxInt)
      BY <1>2, <2>3
    <3>2. F[i][p[i + 1]] = IF t[i] = Nil THEN 0 ELSE IF t[i] = v THEN i ELSE p[i + 1]
      BY <1>3, <3>1
    <3> QED
      BY <2>1, <2>3, <3>1, <3>2
  <2> QED
    BY <2>2, <2>3
<1>6. Loop(p)
  BY <1>5
<1>7. Loop(q)
  BY <1>6
<1> HIDE DEF q
<1>8. \A i \in init .. MaxInt + 1 :
         q[i] = IF i > MaxInt THEN 0
                ELSE IF t[i] = Nil THEN 0 ELSE IF t[i] = v THEN i ELSE q[i + 1]
  BY <1>7
<1> HIDE DEF Loop
<1> DEFINE Places(i) == {k \in i .. MaxInt : t[k] = v /\ Nil \notin {t[j] : j \in i .. k}}
           T == {i \in init .. MaxInt + 1 : q[i] = IF Places(i) = {} THEN 0 ELSE Min(Places(i))}
<1>9. init <= MaxInt + 1 => MaxInt + 1 \in T
  <2>1. q[MaxInt + 1] = 0
    BY <1>2, <1>8
  <2>2. Places(MaxInt + 1) = {}
    BY <1>2
  <2> QED
    BY <1>2, <2>1, <2>2
<1>10. ASSUME NEW i \in init .. MaxInt, i + 1 \in T PROVE i \in T
  <2>1. i \in init .. MaxInt
    OBVIOUS
  <2>2. i \in Int /\ i \in init .. MaxInt + 1 /\ i \in i .. MaxInt /\ i \in i .. i
    BY <1>2, <2>1
  <2>3. q[i] = IF t[i] = Nil THEN 0 ELSE IF t[i] = v THEN i ELSE q[i + 1]
    BY <1>2, <1>8, <2>1
  <2>4. v # Nil
    BY SortAssumption
  <2>5. CASE t[i] = Nil
    <3>1. \A k \in i .. MaxInt : i \in i .. k
      BY <2>2
    <3>2. Places(i) = {}
      BY <2>5, <3>1
    <3> QED
      BY <2>2, <2>3, <2>5, <3>2
  <2>6. CASE t[i] = v
    <3>1. i \in Places(i)
      <4>1. \A j \in i .. i : t[j] # Nil
        BY <2>2, <2>4, <2>6
      <4> QED
        BY <2>2, <2>6, <4>1
    <3>2. \A k \in Places(i) : k \in Int /\ i <= k
      BY <2>2
    <3> DEFINE S == Places(i)
    <3> HIDE DEF S
    <3>3. Min(S) = i
      <4>1. i \in S /\ \A y \in S : i <= y
        BY <3>1, <3>2 DEF S
      <4>2. Min(S) \in S /\ \A y \in S : Min(S) <= y
        BY <4>1 DEF Min
      <4> QED
        BY <2>2, <3>2, <4>1, <4>2 DEF S
    <3>4. Places(i) # {}
      BY <3>1
    <3>5. q[i] = i
      BY <2>3, <2>4, <2>6
    <3> QED
      BY <2>2, <3>3, <3>4, <3>5 DEF S
  <2>7. CASE t[i] # Nil /\ t[i] # v
    <3>1. Places(i) = Places(i + 1)
      <4>1. \A k \in i + 1 .. MaxInt : i .. k = {i} \cup (i + 1 .. k)
        BY <2>2
      <4>2. \A k : k \in i .. MaxInt <=> k = i \/ k \in i + 1 .. MaxInt
        BY <1>2, <2>1, <2>2
      <4>3. \A k \in i + 1 .. MaxInt :
               Nil \in {t[j] : j \in i .. k} <=> Nil \in {t[j] : j \in i + 1 .. k}
        BY <2>7, <4>1
      <4> QED
        BY <2>7, <4>2, <4>3
    <3>2. q[i] = q[i + 1]
      BY <2>3, <2>7
    <3>3. q[i + 1] = IF Places(i + 1) = {} THEN 0 ELSE Min(Places(i + 1))
      BY <1>10
    <3> QED
      BY <2>2, <3>1, <3>2, <3>3
  <2> QED
    BY <2>5, <2>6, <2>7
<1> HIDE DEF T
<1>11. init .. MaxInt + 1 \subseteq T
  <2> DEFINE top == MaxInt + 1
  <2>1. init \in Int /\ top \in Int /\ top - 1 = MaxInt /\ (init <= top => top \in T)
    BY <1>2, <1>9
  <2>2. \A i \in init .. MaxInt : i + 1 \in T => i \in T
    BY <1>10
  <2> HIDE DEF top
  <2>3. init .. top \subseteq T
    BY <2>1, <2>2, DownwardInduction
  <2> QED
    BY <2>3 DEF top
<1>12. init \in T
  BY <1>2, <1>11
<1>13. q[init] = IF Places(init) = {} THEN 0 ELSE Min(Places(init))
  BY <1>12 DEF T
<1> QED
  BY <1>1, <1>13 DEF IsFirst

LEMMA Refusals == RefusesExactly
<1> SUFFICES ASSUME NEW f \in Args, NEW e \in Args, NEW d \in Args, f <= e
             PROVE  MoveRefused(f, e, d) <=> \/ {f, e, d} \ (MinInt .. MaxInt) # {}
                                             \/ e - f + 1 > MaxInt
                                             \/ d + (e - f) > MaxInt
  BY DEF RefusesExactly
<1>1. f \in Int /\ e \in Int /\ d \in Int /\ MaxInt \in Int /\ MinInt \in Int
  BY SortAssumption DEF Args
<1>2. CASE {f, e, d} \ (MinInt .. MaxInt) # {}
  BY <1>2 DEF MoveRefused
<1>3. CASE {f, e, d} \ (MinInt .. MaxInt) = {}
  <2>1. f <= MaxInt /\ e <= MaxInt /\ d <= MaxInt
    BY <1>1, <1>3
  <2>2. MoveRefused(f, e, d) <=> ~(f > 0 \/ e < MaxInt + f) \/ d > MaxInt - (e - f + 1) + 1
    BY <1>3 DEF MoveRefused
  <2>3. ~(f > 0 \/ e < MaxInt + f) => e - f + 1 > MaxInt
    BY <1>1
  <2>4. e - f + 1 > MaxInt => ~(f > 0 \/ e < MaxInt + f) \/ d > MaxInt - (e - f + 1) + 1
    BY <1>1, <2>1
  <2>5. d > MaxInt - (e - f + 1) + 1 <=> d + (e - f) > MaxInt
    BY <1>1
  <2> QED
    BY <1>3, <2>2, <2>3, <2>4, <2>5
<1> QED
  BY <1>2, <1>3
\* What an operation of the library leaves in the table.
LEMMA BecomesKeeps ==
    ASSUME IInv, Busy, NEW t \in Tables, NEW ro \in BOOLEAN, Becomes(t, ro)
    PROVE  IInv' /\ Busy' /\ Halved' /\ Ordering'
<1>1. /\ TypeOK /\ Ready /\ frames = <<>> /\ at.pc = "idle" /\ outcome = "none"
      /\ tab' = t /\ frozen' = ro /\ sorted' = Occurrences(t)
      /\ UNCHANGED <<order, frames, at, outcome>>
  BY DEF Becomes, Ready, Sorting, Busy, IInv
<1>2. sorted' \in [Values -> Nat]
  BY <1>1, OccurrencesType
<1>3. TypeOK'
  BY <1>1, <1>2 DEF TypeOK, Tables, Held
<1>4. WellPlaced(frames, at)
  BY DEF IInv
<1>5. WellPlaced(frames', at')
  BY <1>1, <1>4
<1>6. KeepsElements'
  BY <1>1 DEF KeepsElements
<1>7. IInv'
  BY <1>3, <1>5, <1>6 DEF IInv
<1>8. Busy' /\ Halved'
  BY <1>1 DEF Busy, Halved
<1>9. Ordering'
  BY <1>1 DEF Ordering, Sorting
<1> QED
  BY <1>7, <1>8, <1>9

LEMMA MovedIs ==
    ASSUME NEW src \in Tables, NEW dst \in Tables, NEW f \in Keys, NEW e \in Keys, NEW d \in Keys,
           f <= e, ~MoveRefused(f, e, d), NEW same \in BOOLEAN, same => src = dst
    PROVE  /\ Moved(src, dst, f, e, d, same) \in Tables
           /\ IsCopy(src, dst, f, e, d, Moved(src, dst, f, e, d, same))
<1>1. f \in Int /\ e \in Int /\ d \in Int
  BY SortAssumption DEF Keys
<1>2. CASE Ascends(f, e, d, same)
  BY <1>1, <1>2, MovedUp
<1>3. CASE ~Ascends(f, e, d, same)
  BY <1>1, <1>3, MovedDown
<1> QED
  BY <1>2, <1>3

\* Every operation leaves a table of what tables hold.
LEMMA OperationsKeep ==
    ASSUME IInv, Busy, Halved, Ordering, [LibraryNext]_sortVars
    PROVE  IInv' /\ Busy' /\ Halved' /\ Ordering'
<1>1. tab \in Tables /\ Empty \in Tables
  BY DEF IInv, TypeOK, Tables, Held, Empty
<1>2. ASSUME NEW t \in Tables, Writes(t) PROVE IInv' /\ Busy' /\ Halved' /\ Ordering'
  <2>1. Becomes(t, FALSE)
    BY <1>2 DEF Writes
  <2> QED
    BY <2>1, BecomesKeeps
<1>3. CASE [SortNext]_sortVars
  BY <1>3, Inductive, BusyKeeps, HalvedKeeps, OrderingKeeps
<1>4. ASSUME NEW n \in Borders(tab), NEW pos \in Keys, RemoveFrom(n, pos)
      PROVE  IInv' /\ Busy' /\ Halved' /\ Ordering'
  <2>1. n \in Keys /\ pos \in 1 .. n /\ Writes(Removed(tab, n, pos))
    BY <1>4 DEF RemoveFrom, Borders
  <2>2. Removed(tab, n, pos) \in Tables
    BY <1>1, <2>1, RemovedIs
  <2> QED
    BY <1>2, <2>1, <2>2
<1>5. ASSUME NEW n \in Borders(tab), NEW v \in Values, Append1(n, v)
      PROVE  IInv' /\ Busy' /\ Halved' /\ Ordering'
  <2>1. [tab EXCEPT ![n + 1] = v] \in Tables /\ Writes([tab EXCEPT ![n + 1] = v])
    BY <1>1, <1>5 DEF Append1, Tables, Held
  <2> QED
    BY <1>2, <2>1
<1>6. ASSUME NEW n \in Borders(tab), NEW pos \in Keys, NEW v \in Values, Insert(n, pos, v)
      PROVE  IInv' /\ Busy' /\ Halved' /\ Ordering'
  <2>1. n \in Nat /\ n + 1 \in Keys /\ Writes(InsertedAt(tab, n, pos, v))
    BY <1>6 DEF Insert, Borders
  <2>2. InsertedAt(tab, n, pos, v) \in Tables
    BY <1>1, <2>1, InsertedIs
  <2> QED
    BY <1>2, <2>1, <2>2
<1>7. ASSUME NEW f \in Keys, NEW e \in Keys, NEW d \in Keys, Move(f, e, d)
      PROVE  IInv' /\ Busy' /\ Halved' /\ Ordering'
  <2>1. f <= e /\ ~MoveRefused(f, e, d) /\ Writes(Moved(tab, tab, f, e, d, TRUE))
    BY <1>7 DEF Move
  <2>2. Moved(tab, tab, f, e, d, TRUE) \in Tables
    BY <1>1, <2>1, MovedIs
  <2> QED
    BY <1>2, <2>1, <2>2
<1>8. ASSUME NEW f \in Keys, NEW e \in Keys, NEW d \in Keys, MoveToNew(f, e, d)
      PROVE  IInv' /\ Busy' /\ Halved' /\ Ordering'
  <2>1. f <= e /\ ~MoveRefused(f, e, d) /\ Becomes(Moved(tab, Empty, f, e, d, FALSE), FALSE)
    BY <1>8 DEF MoveToNew
  <2>2. Moved(tab, Empty, f, e, d, FALSE) \in Tables
    BY <1>1, <2>1, MovedIs
  <2> QED
    BY <2>1, <2>2, BecomesKeeps
<1>9. CASE Clear
  BY <1>1, <1>2, <1>9 DEF Clear
<1>10. CASE FreezeTable \/ Clone
  BY <1>1, <1>10, BecomesKeeps DEF FreezeTable, Clone
<1>11. CASE LibraryNext
  <2>1. CASE \E n \in Borders(tab), pos \in Keys :
               \/ RemoveFrom(n, pos)
               \/ \E v \in Values : Append1(n, v) \/ Insert(n, pos, v)
    BY <1>4, <1>5, <1>6, <2>1
  <2>2. CASE \E f \in Keys, e \in Keys, d \in Keys : Move(f, e, d) \/ MoveToNew(f, e, d)
    BY <1>7, <1>8, <2>2
  <2> QED
    BY <1>3, <1>9, <1>10, <1>11, <2>1, <2>2 DEF LibraryNext
<1> QED
  BY <1>3, <1>11

LEMMA OrderingAnswers == IInv /\ Busy /\ Ordering => SortsInOrder
<1> SUFFICES ASSUME IInv, Ordering PROVE SortsInOrder
  OBVIOUS
<1>1. \A a, b : ~Together(<<>>, a, b)
  BY DEF Together
<1>2. ASSUME order = "given", outcome = "sorted", NEW j \in Keys, NEW k \in Keys,
             tab[j] # Nil, tab[k] # Nil, j < k
      PROVE  tab[j] <= tab[k]
  <2>1. Parted(tab, <<>>)
    BY <1>2 DEF Ordering
  <2> QED
    BY <1>1, <1>2, <2>1 DEF Parted
<1> QED
  BY <1>2 DEF Ordering, SortsInOrder

LEMMA OperationsPromise ==
    ASSUME TypeOK
    PROVE  OperationsAsPromised
<1>1. tab \in Tables
  BY DEF TypeOK, Tables, Held
<1>2. ASSUME NEW n \in Borders(tab), NEW pos \in Keys, n + 1 \in Keys, NEW v \in Values
      PROVE  IsInsert(tab, n, pos, v, InsertedAt(tab, n, pos, v))
  <2>1. n \in Nat
    BY DEF Borders
  <2> QED
    BY <1>1, <1>2, <2>1, InsertedIs
<1>3. ASSUME NEW n \in Borders(tab), NEW pos \in Keys, pos \in 1 .. n
      PROVE  IsRemove(tab, n, pos, Removed(tab, n, pos))
  <2>1. n \in Keys
    BY <1>3 DEF Borders
  <2> QED
    BY <1>1, <1>3, <2>1, RemovedIs
<1>4. ASSUME NEW f \in Keys, NEW e \in Keys, NEW d \in Keys, f <= e, ~MoveRefused(f, e, d)
      PROVE  IsCopy(tab, tab, f, e, d, Moved(tab, tab, f, e, d, TRUE))
  BY <1>1, <1>4, MovedIs
<1>5. ASSUME NEW v \in Values, NEW init \in 1 .. MaxInt + 1
      PROVE  IsFirst(tab, v, init, Found(tab, v, init))
  BY <1>1, FoundIs
<1> QED
  BY <1>2, <1>3, <1>4, <1>5, Refusals DEF OperationsAsPromised

\* table.insert, remove, move and find, whose loops shift and copy in the order
\* the code takes, come out as what they stand for, and a sort by an order ends
\* with the elements in order, by partitions and by the heap, for tables and
\* arguments of every size (lib/table.go).
THEOREM LibraryAsPromised == LibrarySpec => []TablesAsPromised
<1> DEFINE Inv == IInv /\ Busy /\ Halved /\ Ordering
<1>1. SortInit => Inv
  BY Start DEF SortInit, Busy, Halved, Ordering, Sorting, Idle, Goto, Partition
<1>2. Inv /\ [LibraryNext]_sortVars => Inv'
  BY OperationsKeep
<1>3. Inv => TablesAsPromised
  BY OrderingAnswers, OperationsPromise DEF IInv, TablesAsPromised
<1> QED
  BY <1>1, <1>2, <1>3, PTL DEF LibrarySpec
=============================================================================
