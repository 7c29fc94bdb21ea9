----------------------------- MODULE TableSort -----------------------------
(***************************************************************************)
(* table.sort, pkg/vm/lib/table.go: introsort in place on a table that the *)
(* comparator can see and change while it is sorted.  A step is a          *)
(* comparison, where the comparator runs, and what the sort does before    *)
(* the next one, or a step of a loop that compares nothing.                *)
(***************************************************************************)
EXTENDS Integers, Sequences, FiniteSets

CONSTANTS MinInt, MaxInt,  \* the integer keys the table may have
          Values,  \* what it may hold there: integers, so that < orders them
          Nil,     \* no value
          Limits,  \* how many partitions a sort may have left, besides SortLimit:
                   \* a part of a longer sort is handed to sortRec with fewer
          MaxMeddled  \* the longest table sorted by a comparator that writes it

ASSUME SortAssumption ==
    /\ MinInt \in Int /\ MaxInt \in Int /\ MinInt <= 1 /\ 1 <= MaxInt
    /\ Values \subseteq Int /\ Nil \notin Values
    /\ Limits \subseteq Nat /\ MaxMeddled \in Nat

VARIABLES tab,     \* what the table holds at the integer keys
          frozen,  \* table.readonly
          order,   \* who compares: nobody, "<" ("given"), a comparator that
                   \* answers anything ("any"), or one that also writes ("meddling")
          frames,  \* the calls of sortRec: l, u, limit, the innermost last
          at,      \* where the innermost call is, and its locals
          sorted,  \* history: how often the table to be sorted had each value
          outcome  \* how the last operation ended

sortVars == <<tab, frozen, order, frames, at, sorted, outcome>>

Keys   == MinInt .. MaxInt
Orders == {"given", "any", "meddling"}

\* What # may return: a key that is there while the one above is not.
Borders(t) == {n \in (Keys \cup {0}) \cap Nat :
                  /\ n = 0 \/ t[n] # Nil
                  /\ n + 1 \in Keys => t[n + 1] = Nil}

\* The table is a list of n values, and nothing else.
ListOf(t, n) == \A k \in Keys : t[k] # Nil <=> k \in 1 .. n

Occurrences(t) == [v \in Values |-> Cardinality({k \in Keys : t[k] = v})]

\* Where a call of sortRec is: in the partition with i and j, or in sortHeap
\* with its i in i, siftHeap's root and next, and which of its loops in phase.
Partition(pc, i, j) ==
    [pc |-> pc, i |-> i, j |-> j, root |-> 0, next |-> 0, phase |-> "none"]
HeapPoint(pc, phase, k, root, next) ==
    [pc |-> pc, i |-> k, j |-> 0, root |-> root, next |-> next, phase |-> phase]
Goto(pc)         == Partition(pc, 0, 0)
HeapAt(phase, k) == HeapPoint("heap", phase, k, 0, 0)
Idle             == Goto("idle")

Sorting == at.pc # "idle"
Ready   == ~Sorting /\ outcome = "none"
Here    == frames[Len(frames)]
L       == Here.l
U       == Here.u
M       == L + (U - L) \div 2
P       == U - 1

\* siftHeap's count: the whole range while the heap is built, what is left of
\* it while it is taken apart.
Count     == IF at.phase = "build" THEN U - L + 1 ELSE at.i
LeftOf(r)  == r * 2 + 1
RightOf(r) == r * 2 + 2

Comparisons == {"ends", "middle", "above", "up", "down", "left", "right", "last"}
Comparing   == at.pc \in Comparisons

\* The positions of a comparison: is the first one's value before the other's?
Compared ==
    CASE at.pc = "ends"   -> <<U, L>>
      [] at.pc = "middle" -> <<M, L>>
      [] at.pc = "above"  -> <<U, M>>
      [] at.pc = "up"     -> <<at.i, P>>
      [] at.pc = "down"   -> <<P, at.j>>
      [] at.pc = "left"   -> <<L + at.next, L + LeftOf(at.root)>>
      [] at.pc = "right"  -> <<L + at.next, L + RightOf(at.root)>>
      [] at.pc = "last"   -> <<L + at.root, L + LeftOf(at.root)>>

\* sortLess looks whether both are in the table before it compares.
Within(n) == Compared[1] \in 1 .. n /\ Compared[2] \in 1 .. n

\* sortLess came out so.
Less(pc, yes) ==
    /\ at.pc = pc
    /\ \E n \in Borders(tab) : Within(n)
    /\ order = "given" =>
          /\ tab[Compared[1]] # Nil /\ tab[Compared[2]] # Nil
          /\ yes = (tab[Compared[1]] < tab[Compared[2]])

\* Mutant: the second value is read after the first was written.
SwappedLate(t, i, j) == [t EXCEPT ![i] = t[j], ![j] = t[j]]

Swapped(t, i, j) == [t EXCEPT ![i] = t[j], ![j] = t[i]]

End(why) ==
    /\ outcome' = why /\ frames' = <<>> /\ at' = Idle

\* sortSwap, which does nothing for equal positions, and RawSetI, which
\* raises for a frozen table.
Swap(i, j) ==
    /\ frozen => i = j
    /\ tab' = Swapped(tab, i, j)

\* The sort goes on; a swap that a frozen table refuses ends it.
Refused(i, j)  == frozen /\ i # j /\ End("readonly") /\ UNCHANGED tab
GoOn(fs, point) == frames' = fs /\ at' = point /\ UNCHANGED outcome
SwapAndGo(i, j, fs, point) == Refused(i, j) \/ (Swap(i, j) /\ GoOn(fs, point))
StayAndGo(fs, point) == UNCHANGED tab /\ GoOn(fs, point)

\* The call of sortRec returns.
Returned == SubSeq(frames, 1, Len(frames) - 1)

\* 2 ^ r, by doubling.
Power(r) == LET p[i \in 0 .. r] == IF i = 0 THEN 1 ELSE 2 * p[i - 1] IN p[r]

Ilog2(n)     == Cardinality({r \in 1 .. n : Power(r) <= n})
SortLimit(n) == 2 * Ilog2(n) + 8

\* tableSort, whose readonly check is the first thing it does.
BeginSort(how, n, limit) ==
    /\ Ready /\ ~frozen
    /\ n \in Borders(tab) /\ n > 1 /\ ListOf(tab, n)
    /\ how = "meddling" => n <= MaxMeddled
    /\ limit \in Limits \cup {SortLimit(n)}
    /\ order' = how
    /\ frames' = <<[l |-> 1, u |-> n, limit |-> limit]>>
    /\ at' = Goto("loop")
    /\ sorted' = Occurrences(tab)
    /\ outcome' = "sorting"
    /\ UNCHANGED <<tab, frozen>>

\* The loop of sortRec, and the return from its last call.
LoopEnds ==
    /\ at.pc = "loop"
    /\ IF frames = <<>>
       THEN End("sorted") /\ UNCHANGED tab
       ELSE L >= U /\ StayAndGo(Returned, Goto("loop"))

LoopGoesOn ==
    /\ at.pc = "loop" /\ frames # <<>> /\ L < U
    /\ StayAndGo(frames, IF Here.limit = 0
                         THEN HeapAt("build", (U - L + 1) \div 2 - 1)
                         ELSE Goto("ends"))

OrderEnds(yes) ==
    /\ Less("ends", yes)
    /\ LET point == IF U - L = 1 THEN Goto("loop") ELSE Goto("middle")
           rest  == IF U - L = 1 THEN Returned ELSE frames
       IN  IF yes THEN SwapAndGo(L, U, rest, point) ELSE StayAndGo(rest, point)

\* The middle one is in its place; the pivot goes next to the last.
PivotAside == Partition("pivot", L, U - 1)

OrderMiddle(yes) ==
    /\ Less("middle", yes)
    /\ IF yes THEN SwapAndGo(M, L, frames, PivotAside) ELSE StayAndGo(frames, Goto("above"))

OrderAbove(yes) ==
    /\ Less("above", yes)
    /\ IF yes THEN SwapAndGo(M, U, frames, PivotAside) ELSE StayAndGo(frames, PivotAside)

PlacePivot ==
    /\ at.pc = "pivot"
    /\ IF U - L = 2
       THEN StayAndGo(Returned, Goto("loop"))
       ELSE SwapAndGo(M, U - 1, frames, Partition("up", at.i + 1, at.j))

\* Mutant: the position is advanced once, before the loop.
ScanUpOnce(yes) ==
    /\ Less("up", yes)
    /\ IF ~yes THEN StayAndGo(frames, Partition("down", at.i, at.j - 1))
       ELSE IF at.i >= U THEN End("invalid") /\ UNCHANGED tab
       ELSE StayAndGo(frames, Partition("up", at.i, at.j))

\* Mutant: the check looks for the end of the range one position too late.
ScanUpTooFar(yes) ==
    /\ Less("up", yes)
    /\ IF ~yes THEN StayAndGo(frames, Partition("down", at.i, at.j - 1))
       ELSE IF at.i > U THEN End("invalid") /\ UNCHANGED tab
       ELSE StayAndGo(frames, Partition("up", at.i + 1, at.j))

ScanUp(yes) ==
    /\ Less("up", yes)
    /\ IF ~yes THEN StayAndGo(frames, Partition("down", at.i, at.j - 1))
       ELSE IF at.i >= U THEN End("invalid") /\ UNCHANGED tab
       ELSE StayAndGo(frames, Partition("up", at.i + 1, at.j))

\* Mutant: the larger part is sorted by the call.
SplitLarger ==
    LET limit == Here.limit \div 2 + Here.limit \div 4
        low   == [l |-> L, u |-> at.i - 1, limit |-> limit]
        high  == [l |-> at.i + 1, u |-> U, limit |-> limit]
    IN  IF at.i - L > U - at.i THEN Returned \o <<high, low>> ELSE Returned \o <<low, high>>

\* The smaller part is sorted by a call, the larger one by the loop.
Split ==
    LET limit == Here.limit \div 2 + Here.limit \div 4
        low   == [l |-> L, u |-> at.i - 1, limit |-> limit]
        high  == [l |-> at.i + 1, u |-> U, limit |-> limit]
    IN  IF at.i - L < U - at.i THEN Returned \o <<high, low>> ELSE Returned \o <<low, high>>

ScanDown(yes) ==
    /\ Less("down", yes)
    /\ IF yes THEN IF at.j <= L THEN End("invalid") /\ UNCHANGED tab
                   ELSE StayAndGo(frames, Partition("down", at.i, at.j - 1))
       ELSE IF at.j < at.i THEN SwapAndGo(P, at.i, Split, Goto("loop"))
       ELSE SwapAndGo(at.i, at.j, frames, Partition("up", at.i + 1, at.j))

\* sortHeap: a heap is built, and its largest taken to the end.
Sift(phase, k, root) == HeapPoint("sift", phase, k, root, 0)
Heap ==
    /\ at.pc = "heap"
    /\ \/ /\ at.phase = "build" /\ at.i >= 0
          /\ StayAndGo(frames, Sift("build", at.i, at.i))
       \/ /\ at.phase = "build" /\ at.i < 0
          /\ StayAndGo(frames, HeapAt("take", U - L))
       \/ /\ at.phase = "take" /\ at.i > 0
          /\ SwapAndGo(L, L + at.i, frames, Sift("take", at.i, 0))
       \/ /\ at.phase = "take" /\ at.i = 0
          /\ StayAndGo(Returned, Goto("loop"))

SiftAt(pc, next) == HeapPoint(pc, at.phase, at.i, at.root, next)
Sifted == HeapAt(at.phase, at.i - 1)

\* Mutant: a last child without a brother is left out.
SiftLoopPairs ==
    /\ at.pc = "sift"
    /\ \/ RightOf(at.root) < Count /\ StayAndGo(frames, SiftAt("left", at.root))
       \/ RightOf(at.root) >= Count /\ StayAndGo(frames, Sifted)

\* siftHeap's loop, and what it leaves to do.
SiftLoop ==
    /\ at.pc = "sift"
    /\ \/ RightOf(at.root) < Count /\ StayAndGo(frames, SiftAt("left", at.root))
       \/ LeftOf(at.root) = Count - 1 /\ StayAndGo(frames, SiftAt("last", 0))
       \/ LeftOf(at.root) >= Count /\ StayAndGo(frames, Sifted)

SiftLeft(yes) ==
    /\ Less("left", yes)
    /\ StayAndGo(frames, SiftAt("right", IF yes THEN LeftOf(at.root) ELSE at.next))

SiftRight(yes) ==
    /\ Less("right", yes)
    /\ LET next == IF yes THEN RightOf(at.root) ELSE at.next
       IN  IF next = at.root THEN StayAndGo(frames, Sifted)
           ELSE SwapAndGo(L + at.root, L + next, frames, Sift(at.phase, at.i, next))

SiftLast(yes) ==
    /\ Less("last", yes)
    /\ IF yes THEN SwapAndGo(L + at.root, L + LeftOf(at.root), frames, Sifted)
       ELSE StayAndGo(frames, Sifted)

\* The comparator raises; < raises for a value that is not there.
Raises ==
    /\ Comparing
    /\ order = "given" => \E c \in {1, 2} : tab[Compared[c]] = Nil
    /\ End("raised") /\ UNCHANGED tab

\* sortLess finds a position outside the table.
OutOfTable ==
    /\ Comparing
    /\ \E n \in Borders(tab) : ~Within(n)
    /\ End("modified") /\ UNCHANGED tab

\* The comparator writes the table, and sortLess does not notice.  What it
\* wrote belongs to what is sorted from then on.
Meddle(k, v) ==
    /\ Comparing /\ order = "meddling" /\ ~frozen
    /\ LET t == [tab EXCEPT ![k] = v]
       IN  /\ Borders(tab) \cap Borders(t) # {}
           /\ tab' = t /\ sorted' = Occurrences(t)
    /\ UNCHANGED <<frames, at, outcome>>

\* It writes the table, and the length or, for a new key, the shape differs.
MeddleNoticed(k, v) ==
    /\ Comparing /\ order = "meddling" /\ ~frozen
    /\ LET t == [tab EXCEPT ![k] = v]
       IN  /\ tab[k] = Nil \/ \E a \in Borders(tab), b \in Borders(t) : a # b
           /\ tab' = t /\ sorted' = Occurrences(t)
    /\ End("modified")

\* It freezes the table.
Freeze ==
    /\ Comparing /\ order = "meddling" /\ ~frozen
    /\ frozen' = TRUE
    /\ UNCHANGED <<tab, order, frames, at, sorted, outcome>>

\* A comparison, whose answer decides how the sort goes on.
Answered(yes) ==
    \/ OrderEnds(yes) \/ OrderMiddle(yes) \/ OrderAbove(yes)
    \/ ScanUp(yes) \/ ScanDown(yes)
    \/ SiftLeft(yes) \/ SiftRight(yes) \/ SiftLast(yes)

\* What the sort does by itself.
Loops == LoopEnds \/ LoopGoesOn \/ PlacePivot \/ Heap \/ SiftLoop

SortStep ==
    /\ \/ Loops
       \/ \E yes \in BOOLEAN : Answered(yes)
       \/ Raises \/ OutOfTable
    /\ UNCHANGED <<frozen, order, sorted>>

\* What it writes elsewhere, the sort does not look at.
Seen == Keys \cap 1 .. MaxMeddled + 1
Meddling ==
    /\ \E k \in Seen, v \in Values \cup {Nil} : Meddle(k, v) \/ MeddleNoticed(k, v)
    /\ UNCHANGED <<frozen, order>>

\* The history of a sort is forgotten before the next operation.
Forget ==
    /\ ~Sorting /\ outcome # "none"
    /\ order' = "given" /\ sorted' = Occurrences(tab) /\ outcome' = "none"
    /\ UNCHANGED <<tab, frozen, frames, at>>

SortInit ==
    /\ tab \in [Keys -> Values \cup {Nil}]
    /\ frozen = FALSE
    /\ order = "given" /\ frames = <<>> /\ at = Idle
    /\ sorted = Occurrences(tab) /\ outcome = "none"

SortNext ==
    \/ \E how \in Orders, n \in {k \in Keys : k > 1} : \E limit \in Limits \cup {SortLimit(n)} :
          BeginSort(how, n, limit)
    \/ SortStep \/ Meddling \/ Freeze \/ Forget

SortSpec == SortInit /\ [][SortNext]_sortVars /\ WF_sortVars(SortStep)
-----------------------------------------------------------------------------
(* Type invariant. *)

Points == {"idle", "loop", "pivot", "heap", "sift"} \cup Comparisons

FrameSet == [l : Nat \ {0}, u : Keys, limit : Nat]
PointSet == [pc : Points, i : Int, j : Int, root : Int, next : Int,
             phase : {"none", "build", "take"}]

TypeOK ==
    /\ tab \in [Keys -> Values \cup {Nil}]
    /\ frozen \in BOOLEAN
    /\ order \in Orders
    /\ frames \in Seq(FrameSet)
    /\ at \in PointSet
    /\ sorted \in [Values -> Nat]
    /\ outcome \in {"none", "sorting", "sorted", "raised", "invalid", "modified", "readonly"}

-----------------------------------------------------------------------------
(* Properties. *)

\* Whatever the comparator answers, and whatever it does to the table, the
\* sort looks only at the part of the table that its innermost call sorts:
\* the loops of sortRec, which have no bound but the answers and the checks
\* against u and l, and the sifting of sortHeap.
InRange == Comparing => Compared[1] \in L .. U /\ Compared[2] \in L .. U

\* The comparator sees, at every call, a permutation of what was to be sorted
\* (with what it wrote itself), and one that raises, freezes the table or
\* contradicts itself leaves one: sortSwap is never half done when user code
\* runs, and no element is lost or doubled.
KeepsElements == Occurrences(tab) = sorted

\* With an order that is one, the sort ends with the elements in order, by
\* partitions and by the heap alike, and never complains; and only a comparator
\* that writes the table is told that the table was modified.
SortsInOrder ==
    /\ order = "given" =>
          /\ outcome \in {"none", "sorting", "sorted"}
          /\ outcome = "sorted" =>
                \A j, k \in Keys : tab[j] # Nil /\ tab[k] # Nil /\ j < k => tab[j] <= tab[k]
    /\ outcome = "modified" => order = "meddling"

\* sortRec calls itself for the smaller part only, so that its calls are no
\* deeper than the logarithm of the length.
DepthLogarithmic ==
    frames # <<>> /\ order # "meddling" =>
        \E n \in Borders(tab) : Power(Len(frames)) <= n

\* Every sort ends, for any comparator that returns, consistent or not.
SortEnds == Sorting ~> ~Sorting
=============================================================================
