------------------------------- MODULE Table -------------------------------
(***************************************************************************)
(* Lua tables, pkg/vm/table.go and tablex.go: an array part and a node     *)
(* part, a rehash that moves entries between them, the constructor's       *)
(* SETLIST, table.clear, table.clone, the length operator, and next.  One  *)
(* table is built by a constructor and then used by a program that may be  *)
(* in the middle of a traversal.  A rehash stores what it displaces with   *)
(* the operation that called it, so that a write is a stack of calls;      *)
(* nothing else happens to the table until the stack is empty.             *)
(***************************************************************************)
EXTENDS TableNodes

CONSTANTS MaxHint,     \* how large NEWTABLE makes either part at most
          Chunk,       \* how many list items one SETLIST stores
          Mixed,       \* whether a constructor may have integer-keyed items as
                       \* well as list items
          MaxRehashes  \* how often one operation of the program may rehash

ASSUME TableAssumption == /\ IntKeys = 1 .. Cardinality(IntKeys)
                          /\ IsFiniteSet(IntKeys)
                          /\ MaxHint \in Nat /\ Chunk \in Nat \ {0}
                          /\ Mixed \in BOOLEAN

VARIABLES t,        \* the table: array, nodes, lastfree
          todo,     \* the writes that wait to be stored, the innermost first
          rehashes, \* how often the operation in progress has rehashed
          items,    \* the list items of the constructor, 0 when it is done
          listed,   \* how many of them are stored
          at,       \* the traversal: its state, last key and last value
          seen      \* history: the keys the traversal has returned

vars == <<t, todo, rehashes, items, listed, at, seen>>

-----------------------------------------------------------------------------
(* Reading                                                                 *)

InArray(tb, k) == k \in IntKeys /\ k <= Len(tb.array)

\* get, getNum and getStr.
Get(tb, k) ==
    IF InArray(tb, k) THEN tb.array[k]
    ELSE LET p == FindNode(tb.nodes, k) IN IF p = -1 THEN Nil ELSE tb.nodes[p].val

GetNum(tb, i) == IF i \in IntKeys THEN Get(tb, i)
                 ELSE IF i \in DOMAIN tb.array THEN tb.array[i] ELSE Nil

\* The binary search of rawLen, for an array part that ends in nil.
LengthBase(tb) ==
    LET j == Len(tb.array)
        search[rest \in 0 .. j] ==
            [base \in 0 .. j - rest |->
                LET half == rest \div 2 IN
                IF half = 0 THEN base
                ELSE search[rest - half][IF tb.array[base + half + 1] # Nil
                                         THEN base + half ELSE base]]
    IN  search[j][0]

\* A fault: the search takes for granted that it ends on a value.
RawLenNeverZero(tb) ==
    LET j == Len(tb.array) IN
    IF j > 0 /\ tb.array[j] = Nil THEN LengthBase(tb) + 1
    ELSE Min({n \in j .. j + Cardinality(IntKeys) : GetNum(tb, n + 1) = Nil})

\* rawLen: a binary search if the array part ends in nil, else a walk up the
\* keys in the node part.
RawLen(tb) ==
    LET j == Len(tb.array) IN
    IF j > 0 /\ tb.array[j] = Nil
    THEN LET base == LengthBase(tb)
         IN  IF tb.array[base + 1] # Nil THEN base + 1 ELSE base
    ELSE Min({n \in j .. j + Cardinality(IntKeys) : GetNum(tb, n + 1) = Nil})

\* A fault: next goes on one slot too far in the array part.
FindIndexSkips(tb, k) ==
    IF InArray(tb, k) THEN k
    ELSE LET p == FindNode(tb.nodes, k)
         IN  IF p = -1 THEN -1 ELSE Len(tb.array) + p

\* findIndex: where next continues after k, or -1.
FindIndex(tb, k) ==
    IF InArray(tb, k) THEN k - 1
    ELSE LET p == FindNode(tb.nodes, k)
         IN  IF p = -1 THEN -1 ELSE Len(tb.array) + p

\* The key and the value of the i-th slot, counted from 0 through both parts.
Slot(tb, i) ==
    IF i < Len(tb.array) THEN [key |-> i + 1, val |-> tb.array[i + 1]]
    ELSE [key |-> tb.nodes[i - Len(tb.array)].key,
          val |-> tb.nodes[i - Len(tb.array)].val]

\* The first slot after the i-th that holds a value, or -1.
NextSlot(tb, i) ==
    LET later == {j \in i + 1 .. Len(tb.array) + Size(tb.nodes) - 1 :
                    Slot(tb, j).val # Nil}
    IN  IF later = {} THEN -1 ELSE Min(later)

-----------------------------------------------------------------------------
(* Writing                                                                 *)

\* adjustasize: the size grows while the entry just past it is present or is
\* the key being inserted.
AdjustASize(tb, size, ek) ==
    Min({n \in size .. size + Cardinality(IntKeys) + 1 :
            n + 1 # ek /\ (Size(tb.nodes) = 0 \/ GetNum(tb, n + 1) = Nil)})

\* numUseArray, numUseHash and countInt: the integer keys in use, with ek.
UsedInts(tb, ek) ==
    {<<i, "array">> : i \in {j \in DOMAIN tb.array : tb.array[j] # Nil}}
    \cup {<<tb.nodes[p].key, "node">> :
            p \in {q \in DOMAIN tb.nodes :
                    tb.nodes[q].key \in IntKeys /\ tb.nodes[q].val # Nil}}
    \cup (IF ek \in IntKeys THEN {<<ek, "new">>} ELSE {})

TotalUse(tb) ==
    Cardinality({j \in DOMAIN tb.array : tb.array[j] # Nil})
    + Cardinality({q \in DOMAIN tb.nodes : tb.nodes[q].val # Nil}) + 1

\* computeSizes: the largest power of two more than half of whose slots would
\* be in use, or 0.
ComputeSize(used) ==
    LET upTo(n) == Cardinality({u \in used : u[1] <= n})
        powers  == {Power(i) : i \in 0 .. CeilLog2(Cardinality(used)) + 1}
    IN  Max({0} \cup {n \in powers : /\ n \div 2 < Cardinality(used)
                                    /\ upTo(n) > upTo(n \div 2)
                                    /\ upTo(n) > n \div 2})

\* The sizes of both parts that rehash chooses.
RehashSizes(tb, ek) ==
    LET used     == UsedInts(tb, ek)
        computed == ComputeSize(used)
        adjusted == AdjustASize(tb, computed, ek)
        extra    == adjusted - computed
        nh       == TotalUse(tb) - Cardinality({u \in used : u[1] <= computed})
                    - extra
        wanted   == IF extra > 0 THEN AdjustASize(tb, adjusted + extra, ek)
                                 ELSE computed
        old      == Len(tb.array)
        nasize   == IF wanted > old /\ old > 0 THEN Max({wanted, 2 * old})
                                               ELSE wanted
    IN  [array |-> nasize,
         nodes |-> IF nh <= Size(tb.nodes) /\ nasize <= old
                   THEN Size(tb.nodes) + 1 ELSE Max({nh, 0})]

Resized(tb, nasize, nh) ==
    LET nodes == NodeVector(nh)
    IN  [array |-> [i \in 1 .. nasize |->
                      IF i <= Len(tb.array) THEN tb.array[i] ELSE Nil],
         nodes |-> nodes, lastfree |-> Size(nodes)]

\* A call of set; placing, when it has gone on to installNewHashKey.
Call(k, v) == [key |-> k, val |-> v, placing |-> FALSE]

\* The calls for the slots from one on that hold a value, in order.
CallsFrom(tb, first) ==
    LET last == Len(tb.array) + Size(tb.nodes)
        upTo[i \in first .. last] ==
            IF i = first THEN <<>>
            ELSE IF Slot(tb, i - 1).val = Nil THEN upTo[i - 1]
            ELSE Append(upTo[i - 1], Call(Slot(tb, i - 1).key, Slot(tb, i - 1).val))
    IN  upTo[last]

\* What resize stores again: what the array part loses, then the old nodes.
Displaced(tb, nasize) == CallsFrom(tb, Min({nasize, Len(tb.array)}))

\* Where k is written in place.
HasPlace(tb, k) == InArray(tb, k) \/ FindNode(tb.nodes, k) # -1
Written(tb, k, v) ==
    IF InArray(tb, k) THEN [tb EXCEPT !.array[k] = v]
    ELSE [tb EXCEPT !.nodes[FindNode(tb.nodes, k)].val = v]

\* installNewHashKey makes a node part if there is none.
WithNodes(tb) ==
    IF Size(tb.nodes) = 0
    THEN [tb EXCEPT !.nodes = NodeVector(2), !.lastfree = Size(NodeVector(2))]
    ELSE tb

\* The main position of k is free, or a free node is left for the collision.
HasRoom(tb, k) ==
    \/ tb.nodes[MainPosition(tb.nodes, k)].key = Nil
    \/ FreePos(tb.nodes, tb.lastfree) # -1

Installed(tb, k, v) ==
    LET free == FreePos(tb.nodes, tb.lastfree)
    IN  [tb EXCEPT !.nodes = Install(@, k, v, free),
                   !.lastfree = IF tb.nodes[MainPosition(tb.nodes, k)].key = Nil
                                THEN @ ELSE free]
-----------------------------------------------------------------------------
(* The calls in progress                                                   *)

\* The innermost call returns, having stored its value.
Return(tb) == t' = tb /\ todo' = Tail(todo) /\ UNCHANGED rehashes

\* rehash and resize: the call waits, placing, until all else is stored.
Rehash(k, v) ==
    /\ rehashes < MaxRehashes /\ rehashes' = rehashes + 1
    /\ LET size == RehashSizes(t, k) IN
       /\ t' = Resized(t, size.array, size.nodes)
       /\ todo' = Displaced(t, size.array)
                     \o <<[Call(k, v) EXCEPT !.placing = TRUE]>> \o Tail(todo)

\* set: in place, or a rehash if k would extend the array part, or else
\* installNewHashKey.
SetStep(k, v) ==
    \/ HasPlace(t, k) /\ Return(Written(t, k, v))
    \/ ~HasPlace(t, k) /\ k = Len(t.array) + 1 /\ Rehash(k, v)
    \/ /\ ~HasPlace(t, k) /\ k # Len(t.array) + 1
       /\ todo' = <<[Call(k, v) EXCEPT !.placing = TRUE]>> \o Tail(todo)
       /\ UNCHANGED <<t, rehashes>>

\* A fault: the key that made the array part grow is put in the node part.
PlaceStepNoRecheck(k, v) ==
    LET tb == WithNodes(t) IN
    \/ HasRoom(tb, k) /\ Return(Installed(tb, k, v))
    \/ ~HasRoom(tb, k) /\ Rehash(k, v)

\* installNewHashKey, and set after its rehash: the array part may have grown
\* over k.
PlaceStep(k, v) ==
    LET tb == WithNodes(t) IN
    \/ InArray(t, k) /\ Return([t EXCEPT !.array[k] = v])
    \/ ~InArray(t, k) /\ HasRoom(tb, k) /\ Return(Installed(tb, k, v))
    \/ ~InArray(t, k) /\ ~HasRoom(tb, k) /\ Rehash(k, v)

\* The innermost call goes on.
Continue ==
    /\ todo # <<>>
    /\ LET c == Head(todo) IN
          IF c.placing THEN PlaceStep(c.key, c.val) ELSE SetStep(c.key, c.val)
    /\ UNCHANGED <<items, listed, at, seen>>

-----------------------------------------------------------------------------
(* The program                                                             *)

Idle    == [mode |-> "idle", key |-> Nil, val |-> Nil]
Started == [mode |-> "on", key |-> Nil, val |-> Nil]
Done    == [mode |-> "done", key |-> Nil, val |-> Nil]
Stop    == at' = Idle /\ seen' = {}

\* newTable, for a constructor or for table.create.
NewTable(narray, nhash) ==
    [array |-> [i \in 1 .. narray |-> Nil], nodes |-> NodeVector(nhash),
     lastfree |-> Size(NodeVector(nhash))]

\* NEWTABLE makes room for one value per list item.
Init ==
    /\ \E narray, nhash \in 0 .. MaxHint :
          t = NewTable(narray, nhash) /\ items \in {0, narray}
    /\ todo = <<>> /\ rehashes = 0
    /\ listed = 0
    /\ at = Idle /\ seen = {}

\* The program waits for the operation in progress.
Ready       == todo = <<>>
Constructed == Ready /\ items = 0 /\ UNCHANGED <<items, listed>>

\* An assignment, a keyed item of a constructor (they come first), or a weak
\* entry the collector clears.  Assigning to an absent key ends a traversal:
\* Lua does not define what it would do.
Set(k, v) ==
    /\ Ready /\ listed = 0
    /\ items > 0 => Mixed \/ k \in NameKeys
    /\ IF HasPlace(t, k) THEN t' = Written(t, k, v) /\ UNCHANGED todo
                         ELSE todo' = <<Call(k, v)>> /\ UNCHANGED t
    /\ rehashes' = 0
    /\ IF Get(t, k) = Nil THEN Stop ELSE UNCHANGED <<at, seen>>
    /\ UNCHANGED <<items, listed>>

\* SETLIST grows the array part in place and fills it.  Every SETLIST but the
\* last stores a full chunk; the last item of the last one may be a call with
\* any number of results.
SetList(vals) ==
    LET left == items - listed
        last == listed + Len(vals)
        size == Max({Len(t.array), last}) IN
    /\ Ready /\ left > 0 /\ last \in IntKeys
    /\ IF left > Chunk
       THEN Len(vals) = Chunk /\ listed' = last /\ UNCHANGED items
       ELSE Len(vals) >= left - 1 /\ listed' = 0 /\ items' = 0
    /\ t' = [t EXCEPT !.array = [i \in 1 .. size |->
                IF i \in listed + 1 .. last THEN vals[i - listed]
                ELSE IF i <= Len(t.array) THEN t.array[i] ELSE Nil]]
    /\ Stop /\ UNCHANGED <<todo, rehashes>>

\* table.clear keeps both parts at their size.
ClearTable ==
    /\ Constructed
    /\ t' = [array    |-> [i \in DOMAIN t.array |-> Nil],
             nodes    |-> [p \in DOMAIN t.nodes |-> FreeNode],
             lastfree |-> Size(t.nodes)]
    /\ Stop /\ UNCHANGED <<todo, rehashes>>

\* table.clone: the program goes on with the copy, when the nodes are stored.
CloneTable ==
    /\ Constructed
    /\ t' = [NewTable(0, Size(t.nodes)) EXCEPT !.array = t.array]
    /\ todo' = CallsFrom(t, Len(t.array)) /\ rehashes' = 0
    /\ Stop

Begin ==
    /\ Constructed
    /\ at' = Started /\ seen' = {}
    /\ UNCHANGED <<t, todo, rehashes>>

\* next, called with the key it returned last.
Advance ==
    /\ Ready /\ at.mode = "on"
    /\ LET from == IF at.key = Nil THEN -1 ELSE FindIndex(t, at.key)
           i    == NextSlot(t, from)
       IN  IF at.key # Nil /\ from = -1
           THEN at' = [at EXCEPT !.mode = "invalid key"] /\ UNCHANGED seen
           ELSE IF i = -1 THEN at' = Done /\ seen' = {}
           ELSE /\ at' = [mode |-> "on", key |-> Slot(t, i).key,
                          val |-> Slot(t, i).val]
                /\ seen' = seen \cup {Slot(t, i).key}
    /\ UNCHANGED <<t, todo, rehashes, items, listed>>

Next ==
    \/ \E k \in Keys, v \in Vals \cup {Nil} : Set(k, v)
    \/ \E n \in IntKeys :
          \E vals \in [1 .. n -> Vals \cup {Nil}] : SetList(vals)
    \/ ClearTable
    \/ CloneTable
    \/ Begin
    \/ Advance
    \/ Continue

Spec == Init /\ [][Next]_vars

-----------------------------------------------------------------------------
(* Correctness                                                             *)

NodeType == [key : Keys \cup {Nil}, val : Vals \cup {Nil}, next : Int]
CallType == [key : Keys, val : Vals \cup {Nil}, placing : BOOLEAN]

TypeOK ==
    /\ t \in [array : Seq(Vals \cup {Nil}),
              nodes : [0 .. Size(t.nodes) - 1 -> NodeType], lastfree : Nat]
    /\ \E b \in 0 .. Size(t.nodes) : Size(t.nodes) \in {0, Power(b)}
    /\ t.lastfree <= Size(t.nodes)
    /\ todo \in Seq(CallType) /\ rehashes \in Nat
    /\ items \in 0 .. MaxHint /\ listed \in 0 .. items
    /\ at.mode \in {"idle", "on", "done", "invalid key"}
    /\ seen \subseteq Keys

\* Every key in the node part is found from its main position, however often
\* nodes were moved to make room (table.go:396-414); and getFreePos never passes
\* a free node, so -1 means the node part is full and a rehash is due
\* (table.go:35-37, 530-538).
ChainsLead ==
    \A p \in DOMAIN t.nodes :
        t.nodes[p].key # Nil => FindNode(t.nodes, t.nodes[p].key) = p
NothingFreeAbove ==
    \A p \in DOMAIN t.nodes : p >= t.lastfree => t.nodes[p].key # Nil
NodesWhole == ChainsLead /\ NothingFreeAbove

\* A key has one place: what the node part holds under an integer key is not
\* hidden by the array part (table.go:206-223, 806-812).
OnePlacePerKey ==
    \A p \in DOMAIN t.nodes : InArray(t, t.nodes[p].key) => t.nodes[p].val = Nil

\* #t is a border: t[#t] is there or #t is 0, and t[#t + 1] is nil
\* (table.go:738-739).
LengthIsBorder ==
    LET n == RawLen(t) IN
    (n = 0 \/ GetNum(t, n) # Nil) /\ GetNum(t, n + 1) = Nil

\* What the table holds, with the writes that wait to be stored.
Contents ==
    [k \in Keys |->
        LET waiting == {i \in DOMAIN todo : todo[i].key = k}
        IN  IF waiting = {} THEN Get(t, k) ELSE todo[Min(waiting)].val]

\* An assignment writes what it says under its key, and no other entry changes,
\* however much the calls it makes move around ("set writes t[k]=v",
\* table.go:292).
WriteIsRead ==
    [][/\ \A k \in Keys, x \in Vals \cup {Nil} :
            Set(k, x) => Contents' = [Contents EXCEPT ![k] = x]
       /\ ~Ready => Contents' = Contents]_vars

Map == INSTANCE TableMap WITH entries <- Contents, busy <- ~Ready

\* A table is a finite map, and next visits each entry once ("next returns the
\* next (key, value) pair following `key`", table.go:788-789).
ImplementsMap == Map!Spec
=============================================================================
