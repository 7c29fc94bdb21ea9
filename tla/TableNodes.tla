----------------------------- MODULE TableNodes -----------------------------
(***************************************************************************)
(* The node part of a table, pkg/vm/table.go: a vector of nodes, a power   *)
(* of two long, in which the keys with one main position are chained by    *)
(* relative links.  Positions count from 0 as in the code; an empty node   *)
(* part is the empty function.                                             *)
(***************************************************************************)
EXTENDS Integers, Sequences, FiniteSets, FiniteSetsExt

CONSTANTS IntKeys,  \* the integer keys, from 1
          NameKeys, \* the other keys
          Vals,     \* the values other than nil
          Nil,
          Hash      \* the hash of each key

Keys == IntKeys \cup NameKeys

ASSUME KeysAssumption == /\ IntKeys \subseteq Nat \ {0}
                         /\ IntKeys \cap NameKeys = {}
                         /\ Nil \notin Keys \cup Vals
                         /\ Hash \in [Keys -> Nat]

FreeNode == [key |-> Nil, val |-> Nil, next |-> 0]
Size(nodes) == Cardinality(DOMAIN nodes)

\* setNodeVector: the next power of two, all nodes free.
Power(b) == LET p[i \in 0 .. b] == IF i = 0 THEN 1 ELSE 2 * p[i - 1] IN p[b]
CeilLog2(n) ==
    CHOOSE b \in 0 .. n : Power(b) >= n /\ (b = 0 \/ Power(b - 1) < n)
NodeVector(n) ==
    [i \in 0 .. (IF n <= 0 THEN 0 ELSE Power(CeilLog2(n))) - 1 |-> FreeNode]

\* mainPosition and hmod.
MainPosition(nodes, k) == Hash[k] % Size(nodes)

\* findExistingNode, and the loops of getNum, getStr, get and findIndex: the
\* first node that carries k on the chain of its main position, or -1.
FindNode(nodes, k) ==
    LET find[p \in DOMAIN nodes] ==
            IF nodes[p].key = k THEN p
            ELSE IF nodes[p].next = 0 THEN -1 ELSE find[p + nodes[p].next]
    IN  IF Size(nodes) = 0 THEN -1 ELSE find[MainPosition(nodes, k)]

\* getFreePos: the highest free position below lastfree, or -1.
FreePos(nodes, lastfree) ==
    Max({p \in 0 .. lastfree - 1 : nodes[p].key = Nil} \cup {-1})

\* The node before mp on the chain that starts at p.
Before(nodes, p, mp) ==
    LET prev[q \in DOMAIN nodes] ==
            IF q + nodes[q].next = mp THEN q ELSE prev[q + nodes[q].next]
    IN  prev[p]

\* A fault: the chain is not linked to where the node has moved.
MakeRoomLosesTail(nodes, mp, free) ==
    LET next == nodes[mp].next
    IN  [nodes EXCEPT ![free] = [nodes[mp] EXCEPT !.next =
                                   IF next = 0 THEN 0 ELSE next + mp - free],
                      ![mp] = FreeNode]

\* The node at mp is not at its main position: it moves to the free node, and
\* its chain with it.
MakeRoom(nodes, mp, free) ==
    LET prev == Before(nodes, MainPosition(nodes, nodes[mp].key), mp)
        next == nodes[mp].next
    IN  [nodes EXCEPT ![prev].next = free - prev,
                      ![free] = [nodes[mp] EXCEPT !.next =
                                   IF next = 0 THEN 0 ELSE next + mp - free],
                      ![mp] = FreeNode]

\* The node at mp is at its main position: the free node is chained behind it.
ChainBehind(nodes, mp, free) ==
    LET next == nodes[mp].next
    IN  [nodes EXCEPT ![free].next = IF next = 0 THEN @ ELSE mp + next - free,
                      ![mp].next = free - mp]

Store(nodes, p, k, v) == [nodes EXCEPT ![p].key = k, ![p].val = v]

\* installNewHashKey where no rehash is needed.
Install(nodes, k, v, free) ==
    LET mp == MainPosition(nodes, k) IN
    IF nodes[mp].key = Nil THEN Store(nodes, mp, k, v)
    ELSE IF MainPosition(nodes, nodes[mp].key) # mp
         THEN Store(MakeRoom(nodes, mp, free), mp, k, v)
         ELSE Store(ChainBehind(nodes, mp, free), free, k, v)
=============================================================================
