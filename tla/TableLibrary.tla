---------------------------- MODULE TableLibrary ----------------------------
(***************************************************************************)
(* The table library on one table, pkg/vm/lib/table.go: the operations     *)
(* that shift, copy and look up integer keys, freezing and cloning, and    *)
(* between them a sort.  The loops are written out as functions of the     *)
(* index they run over, in the order the code takes it.                    *)
(***************************************************************************)
EXTENDS TableSort, FiniteSetsExt

\* Arguments may lie outside of what move takes.
Args == MinInt - 1 .. MaxInt + 1

\* table.insert(t, pos, v): the elements from pos on move up, the last first.
ShiftedUp(t, n, pos) ==
    LET up[k \in pos .. n + 1] ==
            IF k = n + 1 THEN t ELSE [up[k + 1] EXCEPT ![k + 1] = up[k + 1][k]]
    IN  up[pos]

InsertedAt(t, n, pos, v) ==
    [(IF pos \in 1 .. n THEN ShiftedUp(t, n, pos) ELSE t) EXCEPT ![pos] = v]

\* table.remove(t, pos): those behind pos move down, the first first.
Removed(t, n, pos) ==
    LET down[k \in pos - 1 .. n - 1] ==
            IF k = pos - 1 THEN t ELSE [down[k - 1] EXCEPT ![k] = down[k - 1][k + 1]]
    IN  [down[n - 1] EXCEPT ![n] = Nil]

\* What table.move refuses: indices that are no int32, more elements than one
\* can count, a destination that ends behind the last index.
MoveRefused(f, e, d) ==
    LET n == e - f + 1
    IN  \/ {f, e, d} \ (MinInt .. MaxInt) # {}
        \/ ~(f > 0 \/ e < MaxInt + f)
        \/ d > MaxInt - n + 1

\* Mutant: overlapping or not, the first element goes first.
AscendsAlways(f, e, d, same) == TRUE

\* Where the destination lies in the source, behind its start, the last
\* element goes first.
Ascends(f, e, d, same) == d > e \/ d <= f \/ ~same

\* table.move(src, f, e, d, dst), where dst may be src.
Moved(src, dst, f, e, d, same) ==
    LET n        == e - f + 1
        step(t, i) == [t EXCEPT ![d + i] = IF same THEN t[f + i] ELSE src[f + i]]
        upTo[i \in -1 .. n - 1] == IF i = -1 THEN dst ELSE step(upTo[i - 1], i)
        downTo[i \in 0 .. n]    == IF i = n THEN dst ELSE step(downTo[i + 1], i)
    IN  IF Ascends(f, e, d, same) THEN upTo[n - 1] ELSE downTo[0]

\* table.find(t, v, init) stops at the first hole; 0 stands for nil.
Found(t, v, init) ==
    LET from[i \in init .. MaxInt + 1] ==
            IF i > MaxInt THEN 0
            ELSE IF t[i] = Nil THEN 0
            ELSE IF t[i] = v THEN i ELSE from[i + 1]
    IN  from[init]

Becomes(t, ro) ==
    /\ Ready
    /\ tab' = t /\ frozen' = ro
    /\ sorted' = Occurrences(t)
    /\ UNCHANGED <<order, frames, at, outcome>>

\* Every write is refused where the table is frozen, and nothing has changed then.
Writes(t) == ~frozen /\ Becomes(t, FALSE)

Append1(n, v) == n \in Borders(tab) /\ n + 1 \in Keys /\ Writes([tab EXCEPT ![n + 1] = v])

Insert(n, pos, v) ==
    /\ n \in Borders(tab) /\ n + 1 \in Keys /\ pos \in Keys
    /\ Writes(InsertedAt(tab, n, pos, v))

RemoveFrom(n, pos) ==
    /\ n \in Borders(tab) /\ pos \in 1 .. n
    /\ Writes(Removed(tab, n, pos))

Move(f, e, d) ==
    /\ f <= e /\ ~MoveRefused(f, e, d)
    /\ Writes(Moved(tab, tab, f, e, d, TRUE))

Empty == [k \in Keys |-> Nil]
MoveToNew(f, e, d) ==
    /\ f <= e /\ ~MoveRefused(f, e, d)
    /\ Becomes(Moved(tab, Empty, f, e, d, FALSE), FALSE)

Clear       == Writes(Empty)
FreezeTable == ~frozen /\ Becomes(tab, TRUE)
Clone       == Becomes(tab, FALSE)

LibraryNext ==
    \/ SortNext
    \/ \E n \in Borders(tab), pos \in Keys :
          \/ RemoveFrom(n, pos)
          \/ \E v \in Values : Append1(n, v) \/ Insert(n, pos, v)
    \/ \E f \in Keys, e \in Keys, d \in Keys : Move(f, e, d) \/ MoveToNew(f, e, d)
    \/ Clear \/ FreezeTable \/ Clone

LibrarySpec == SortInit /\ [][LibraryNext]_sortVars /\ WF_sortVars(SortStep)
-----------------------------------------------------------------------------
(* What the operations promise, without a loop.                            *)

IsInsert(t, n, pos, v, r) ==
    \A k \in Keys : r[k] = CASE k = pos                         -> v
                             [] pos \in 1 .. n /\ k \in pos + 1 .. n + 1 -> t[k - 1]
                             [] OTHER                           -> t[k]

IsRemove(t, n, pos, r) ==
    \A k \in Keys : r[k] = CASE k = n              -> Nil
                             [] k \in pos .. n - 1 -> t[k + 1]
                             [] OTHER              -> t[k]

IsCopy(src, dst, f, e, d, r) ==
    \A k \in Keys : r[k] = IF k \in d .. d + e - f THEN src[k - d + f] ELSE dst[k]

IsFirst(t, v, init, r) ==
    LET places == {k \in init .. MaxInt : t[k] = v /\ Nil \notin {t[i] : i \in init .. k}}
    IN  r = IF places = {} THEN 0 ELSE Min(places)

\* move refuses exactly the calls that would count or write past the largest
\* index, or whose indices are none.
RefusesExactly ==
    \A f, e, d \in Args : f <= e =>
        (MoveRefused(f, e, d) <=> \/ {f, e, d} \ (MinInt .. MaxInt) # {}
                                  \/ e - f + 1 > MaxInt
                                  \/ d + (e - f) > MaxInt)

\* The loops of insert, remove, move and find come out as what they stand for,
\* for every table and every argument: in whichever direction they shift or
\* copy, with holes, and where source and destination overlap.
OperationsAsPromised ==
    Ready /\ ~frozen =>
        /\ \A n \in Borders(tab), pos \in Keys :
              /\ n + 1 \in Keys => \A v \in Values :
                    IsInsert(tab, n, pos, v, InsertedAt(tab, n, pos, v))
              /\ pos \in 1 .. n => IsRemove(tab, n, pos, Removed(tab, n, pos))
        /\ \A f, e, d \in Keys : f <= e /\ ~MoveRefused(f, e, d) =>
              IsCopy(tab, tab, f, e, d, Moved(tab, tab, f, e, d, TRUE))
        /\ \A v \in Values, init \in 1 .. MaxInt + 1 :
              IsFirst(tab, v, init, Found(tab, v, init))
        /\ tab = Empty => RefusesExactly

\* The operations of the table library do what they promise, and so does a sort
\* by an order: what ends without an error is in order (lib/table.go).
TablesAsPromised == OperationsAsPromised /\ SortsInOrder
=============================================================================
