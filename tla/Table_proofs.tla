---------------------------- MODULE Table_proofs ----------------------------
(***************************************************************************)
(* Theorems about Table for every set of keys and every hash function.     *)
(* Linked says that the nodes with one main position form one chain that   *)
(* starts there; Install keeps it, and a search therefore finds every key. *)
(***************************************************************************)
EXTENDS Table, Lemmas, FiniteSetTheorems, SequenceTheorems, TLAPS

-----------------------------------------------------------------------------
(* Positions and chains.                                                   *)

Vectors == UNION {[0 .. m - 1 -> NodeType] : m \in Nat}

Occupied(nodes, p) == p \in DOMAIN nodes /\ nodes[p].key # Nil
Main(nodes, p)     == MainPosition(nodes, nodes[p].key)
Links(nodes, p, q) == nodes[p].next # 0 /\ p + nodes[p].next = q

\* d says how far behind its main position a node stands on its chain, at most
\* n.
Linked(nodes, d, n) ==
    /\ n \in Nat /\ d \in [DOMAIN nodes -> 0 .. n]
    /\ \A p \in DOMAIN nodes :
          ~Occupied(nodes, p) => nodes[p].next = 0 /\ nodes[p].val = Nil
    /\ \A p \in DOMAIN nodes :
          Occupied(nodes, p) => (d[p] = 0 <=> Main(nodes, p) = p)
    /\ \A p \in DOMAIN nodes :
          Occupied(nodes, p) /\ d[p] > 0 =>
             \E q \in DOMAIN nodes : Occupied(nodes, q) /\ Links(nodes, q, p)
    /\ \A p, q \in DOMAIN nodes :
          Links(nodes, p, q) =>
             Occupied(nodes, q) /\ Main(nodes, q) = Main(nodes, p) /\ d[q] = d[p] + 1
    /\ \A p \in DOMAIN nodes :
          nodes[p].next # 0 => p + nodes[p].next \in DOMAIN nodes
    /\ \A p, q \in DOMAIN nodes :
          Occupied(nodes, p) /\ Occupied(nodes, q) /\ d[p] = d[q]
          /\ Main(nodes, p) = Main(nodes, q) => p = q
    /\ \A p, q \in DOMAIN nodes :
          Occupied(nodes, p) /\ nodes[p].key = nodes[q].key => p = q

Chained(nodes) == \E n, d : Linked(nodes, d, n)

LEMMA SizeOf ==
    ASSUME NEW nodes \in Vectors
    PROVE  /\ Size(nodes) \in Nat
           /\ DOMAIN nodes = 0 .. Size(nodes) - 1
           /\ nodes \in [DOMAIN nodes -> NodeType]
<1>1. PICK m \in Nat : nodes \in [0 .. m - 1 -> NodeType]
  BY DEF Vectors
<1>2. Cardinality(0 .. m - 1) = m
  <2>1. 0 \in Int /\ m - 1 \in Int
    OBVIOUS
  <2>2. Cardinality(0 .. m - 1) = IF 0 > m - 1 THEN 0 ELSE m - 1 - 0 + 1
    BY <2>1, FS_Interval
  <2> QED
    BY <2>2
<1> QED
  BY <1>1, <1>2 DEF Size

LEMMA VectorOf ==
    ASSUME NEW m \in Nat, NEW nodes \in [0 .. m - 1 -> NodeType]
    PROVE  nodes \in Vectors /\ Size(nodes) = m
<1>1. nodes \in Vectors
  BY DEF Vectors
<1>2. Size(nodes) \in Nat /\ 0 .. m - 1 = 0 .. Size(nodes) - 1
  BY <1>1, SizeOf
<1> QED
  BY <1>1, <1>2

LEMMA Remainder ==
    ASSUME NEW h \in Nat, NEW m \in Nat, m > 0
    PROVE  h % m \in 0 .. m - 1
OBVIOUS

LEMMA MainInside ==
    ASSUME NEW nodes \in Vectors, Size(nodes) # 0, NEW k \in Keys
    PROVE  MainPosition(nodes, k) \in DOMAIN nodes
<1>1. Hash[k] \in Nat
  BY KeysAssumption
<1>2. Size(nodes) \in Nat /\ Size(nodes) > 0 /\ DOMAIN nodes = 0 .. Size(nodes) - 1
  BY SizeOf
<1>3. Hash[k] % Size(nodes) \in 0 .. Size(nodes) - 1
  BY <1>1, <1>2, Remainder
<1> QED
  BY <1>2, <1>3 DEF MainPosition

\* The walk of a search: where it stops, and what it answers.
StopsAt(nodes, k) == {p \in DOMAIN nodes : nodes[p].key = k \/ nodes[p].next = 0}
Answer(nodes, k)  == [p \in StopsAt(nodes, k) |-> IF nodes[p].key = k THEN p ELSE -1]
After(nodes)      == [p \in DOMAIN nodes |->
                        IF nodes[p].next = 0 THEN p ELSE p + nodes[p].next]

IsSearch(f, nodes, k) ==
    f = [p \in DOMAIN nodes |->
           IF nodes[p].key = k THEN p
           ELSE IF nodes[p].next = 0 THEN -1 ELSE f[p + nodes[p].next]]

LEMMA AfterMoves ==
    ASSUME NEW nodes \in Vectors, NEW n, NEW d, Linked(nodes, d, n)
    PROVE  /\ After(nodes) \in [DOMAIN nodes -> DOMAIN nodes]
           /\ \A p \in DOMAIN nodes :
                 nodes[p].next # 0 => d[p] < d[After(nodes)[p]]
<1>1. ASSUME NEW p \in DOMAIN nodes, nodes[p].next # 0
      PROVE  /\ p + nodes[p].next \in DOMAIN nodes
             /\ d[p + nodes[p].next] = d[p] + 1 /\ d[p] \in Int
  BY <1>1 DEF Linked, Links
<1> QED
  BY <1>1 DEF After

LEMMA SearchExists ==
    ASSUME NEW nodes \in Vectors, Chained(nodes), NEW k \in Keys
    PROVE  \E f \in [DOMAIN nodes -> Int] : IsSearch(f, nodes, k)
<1>1. PICK n, d : Linked(nodes, d, n)
  BY DEF Chained
<1>0. n \in Nat /\ d \in [DOMAIN nodes -> 0 .. n]
  BY <1>1 DEF Linked
<1> DEFINE stop == StopsAt(nodes, k)
           s    == Answer(nodes, k)
           next == After(nodes)
           S    == DOMAIN nodes
<1>2. next \in [S -> S] /\ \A p \in S : nodes[p].next # 0 => d[p] < d[next[p]]
  BY <1>1, AfterMoves
<1>3. stop \in SUBSET S
  BY DEF StopsAt
<1>4. s \in [stop -> Int]
  BY SizeOf DEF Answer, StopsAt
<1>5. \A p \in S \ stop : d[p] < d[next[p]]
  BY <1>2 DEF StopsAt
<1>6. n \in Nat /\ d \in [S -> 0 .. n]
  BY <1>0
<1> HIDE DEF stop, s, next, S
<1>7. PICK f \in [S -> Int] : IsWalk(f, S, stop, s, next)
  BY <1>2, <1>3, <1>4, <1>5, <1>6, RecursionAlong
<1>8. ASSUME NEW p \in DOMAIN nodes
      PROVE  f[p] = IF nodes[p].key = k THEN p
                    ELSE IF nodes[p].next = 0 THEN -1 ELSE f[p + nodes[p].next]
  <2>1. f[p] = IF p \in stop THEN s[p] ELSE f[next[p]]
    BY <1>7 DEF IsWalk, S
  <2>2. CASE p \in stop
    BY <2>1, <2>2 DEF stop, s, StopsAt, Answer
  <2>3. CASE p \notin stop
    BY <2>1, <2>3 DEF stop, next, StopsAt, After
  <2> QED
    BY <2>2, <2>3
<1>9. f \in [DOMAIN nodes -> Int]
  BY DEF S
<1>10. f = [p \in DOMAIN nodes |-> f[p]]
  BY <1>9
<1>11. IsSearch(f, nodes, k)
  BY <1>8, <1>10 DEF IsSearch
<1> QED
  BY <1>9, <1>11

LEMMA FindIsSearch ==
    ASSUME NEW nodes \in Vectors, Chained(nodes), NEW k \in Keys, Size(nodes) # 0
    PROVE  \E f : /\ IsSearch(f, nodes, k)
                  /\ FindNode(nodes, k) = f[MainPosition(nodes, k)]
<1> DEFINE f == CHOOSE g : IsSearch(g, nodes, k)
<1>1. IsSearch(f, nodes, k)
  BY SearchExists
<1>2. FindNode(nodes, k) = f[MainPosition(nodes, k)]
  BY DEF FindNode, IsSearch
<1> QED
  BY <1>1, <1>2

\* On the chain of p a search stops at p.
LEMMA FindsKey ==
    ASSUME NEW nodes \in Vectors, Chained(nodes), NEW k \in Keys,
           NEW p \in DOMAIN nodes, nodes[p].key = k
    PROVE  FindNode(nodes, k) = p
<1>1. PICK n, d : Linked(nodes, d, n)
  BY DEF Chained
<1>0. n \in Nat /\ d \in [DOMAIN nodes -> 0 .. n]
  BY <1>1 DEF Linked
<1>2. Size(nodes) # 0
  BY SizeOf
<1>3. PICK f : /\ IsSearch(f, nodes, k)
               /\ FindNode(nodes, k) = f[MainPosition(nodes, k)]
  BY <1>2, FindIsSearch
<1>4. \A q \in DOMAIN nodes :
         f[q] = IF nodes[q].key = k THEN q
                ELSE IF nodes[q].next = 0 THEN -1 ELSE f[q + nodes[q].next]
  BY <1>3 DEF IsSearch
<1>5. Occupied(nodes, p) /\ Main(nodes, p) = MainPosition(nodes, k)
  BY KeysAssumption DEF Occupied, Main
<1> DEFINE T == {i \in Int : \E q \in DOMAIN nodes :
                    /\ Occupied(nodes, q) /\ Main(nodes, q) = Main(nodes, p)
                    /\ d[q] = i /\ f[q] = p}
<1>6. d[p] \in 0 .. n /\ n \in Nat
  BY <1>0
<1>7. d[p] \in T
  BY <1>4, <1>5, <1>6
<1>8. ASSUME NEW i \in 0 .. d[p] - 1, i + 1 \in T PROVE i \in T
  <2>1. PICK q \in DOMAIN nodes : /\ Occupied(nodes, q)
                                  /\ Main(nodes, q) = Main(nodes, p)
                                  /\ d[q] = i + 1 /\ f[q] = p
    BY <1>8
  <2>2. PICK r \in DOMAIN nodes : Occupied(nodes, r) /\ Links(nodes, r, q)
    BY <1>1, <1>6, <1>8, <2>1 DEF Linked
  <2>3. Main(nodes, q) = Main(nodes, r) /\ d[q] = d[r] + 1 /\ d[r] \in Int
    BY <1>0, <1>1, <2>2 DEF Linked
  <2>4. d[r] = i
    BY <1>6, <1>8, <2>1, <2>3
  <2>5. nodes[r].key # k
    BY <1>1, <1>5, <1>6, <2>2, <2>4 DEF Linked
  <2>6. f[r] = p
    BY <1>4, <2>1, <2>2, <2>5 DEF Links
  <2> QED
    BY <2>1, <2>2, <2>3, <2>4, <2>6
<1>9. 0 .. d[p] \subseteq T
  <2>1. 0 \in Int /\ d[p] \in Int /\ (0 <= d[p] => d[p] \in T)
    BY <1>6, <1>7
  <2> HIDE DEF T
  <2> QED
    BY <1>8, <2>1, DownwardInduction
<1>10. PICK q \in DOMAIN nodes : /\ Occupied(nodes, q)
                                 /\ Main(nodes, q) = Main(nodes, p)
                                 /\ d[q] = 0 /\ f[q] = p
  BY <1>6, <1>9
<1>11. q = MainPosition(nodes, k)
  BY <1>1, <1>5, <1>10 DEF Linked
<1> QED
  BY <1>3, <1>10, <1>11

\* A key that is not there is not found.
LEMMA FindsNone ==
    ASSUME NEW nodes \in Vectors, Chained(nodes), NEW k \in Keys,
           \A p \in DOMAIN nodes : nodes[p].key # k
    PROVE  FindNode(nodes, k) = -1
<1>1. CASE Size(nodes) = 0
  BY <1>1 DEF FindNode
<1>2. CASE Size(nodes) # 0
  <2>1. PICK n, d : Linked(nodes, d, n)
    BY DEF Chained
  <2>0. n \in Nat /\ d \in [DOMAIN nodes -> 0 .. n]
    BY <2>1 DEF Linked
  <2>2. PICK f : /\ IsSearch(f, nodes, k)
                 /\ FindNode(nodes, k) = f[MainPosition(nodes, k)]
    BY <1>2, FindIsSearch
  <2>3. \A q \in DOMAIN nodes :
           f[q] = IF nodes[q].next = 0 THEN -1 ELSE f[q + nodes[q].next]
    BY <2>2 DEF IsSearch
  <2> DEFINE T == {i \in Int : \A q \in DOMAIN nodes : d[q] >= i => f[q] = -1}
  <2>4. n + 1 \in T
    BY <2>0
  <2>5. ASSUME NEW i \in 0 .. n + 1 - 1, i + 1 \in T PROVE i \in T
    <3>1. ASSUME NEW q \in DOMAIN nodes, d[q] >= i PROVE f[q] = -1
      <4>1. CASE nodes[q].next = 0
        BY <2>3, <4>1
      <4>2. CASE nodes[q].next # 0
        <5>1. q + nodes[q].next \in DOMAIN nodes
              /\ d[q + nodes[q].next] = d[q] + 1 /\ d[q] \in Int
          BY <2>0, <2>1, <4>2 DEF Linked, Links
        <5>2. d[q + nodes[q].next] >= i + 1
          BY <2>5, <3>1, <5>1
        <5>3. f[q + nodes[q].next] = -1
          BY <2>5, <5>1, <5>2
        <5> QED
          BY <2>3, <4>2, <5>3
      <4> QED
        BY <4>1, <4>2
    <3> QED
      BY <3>1
  <2> HIDE DEF T
  <2>6. 0 .. n + 1 \subseteq T
    <3>1. 0 \in Int /\ n + 1 \in Int /\ (0 <= n + 1 => n + 1 \in T)
      BY <2>0, <2>4
    <3> QED
      BY <2>0, <2>5, <3>1, DownwardInduction
  <2>7. 0 \in T
    BY <2>0, <2>6
  <2>8. MainPosition(nodes, k) \in DOMAIN nodes
    BY <1>2, MainInside
  <2>9. f[MainPosition(nodes, k)] = -1
    BY <2>0, <2>7, <2>8 DEF T
  <2> QED
    BY <2>2, <2>9
<1> QED
  BY <1>1, <1>2

\* The walk of installNewHashKey from the main position of the node at mp ends
\* at the node that is linked to mp.
IsWalkTo(f, nodes, mp) ==
    f = [q \in DOMAIN nodes |->
           IF q + nodes[q].next = mp THEN q ELSE f[q + nodes[q].next]]

LEMMA WalkExists ==
    ASSUME NEW nodes \in Vectors, Chained(nodes), NEW mp
    PROVE  \E f : IsWalkTo(f, nodes, mp)
<1>1. PICK n, d : Linked(nodes, d, n)
  BY DEF Chained
<1>0. n \in Nat /\ d \in [DOMAIN nodes -> 0 .. n]
  BY <1>1 DEF Linked
<1> DEFINE S    == DOMAIN nodes
           stop == {p \in S : p + nodes[p].next = mp \/ nodes[p].next = 0}
           s    == [p \in stop |-> p]
           next == After(nodes)
<1>2. next \in [S -> S] /\ \A p \in S : nodes[p].next # 0 => d[p] < d[next[p]]
  BY <1>1, AfterMoves
<1>3. stop \in SUBSET S /\ s \in [stop -> S]
  OBVIOUS
<1>4. \A p \in S \ stop : d[p] < d[next[p]]
  BY <1>2
<1>5. n \in Nat /\ d \in [S -> 0 .. n]
  BY <1>0
<1>6. \A p \in S : p \in Int
  BY SizeOf
<1> HIDE DEF stop, s, next, S
<1>7. PICK f \in [S -> S] : IsWalk(f, S, stop, s, next)
  BY <1>2, <1>3, <1>4, <1>5, RecursionAlong
<1>8. ASSUME NEW p \in DOMAIN nodes
      PROVE  f[p] = IF p + nodes[p].next = mp THEN p ELSE f[p + nodes[p].next]
  <2>1. f[p] = IF p \in stop THEN s[p] ELSE f[next[p]]
    BY <1>7 DEF IsWalk, S
  <2>2. CASE p + nodes[p].next = mp
    BY <2>1, <2>2 DEF stop, s, S
  <2>3. CASE p + nodes[p].next # mp /\ nodes[p].next = 0
    <3>1. p + nodes[p].next = p
      BY <1>6, <2>3 DEF S
    <3> QED
      BY <2>3, <3>1
  <2>4. CASE p + nodes[p].next # mp /\ nodes[p].next # 0
    BY <2>1, <2>4 DEF stop, next, After
  <2> QED
    BY <2>2, <2>3, <2>4
<1>9. f = [p \in DOMAIN nodes |-> f[p]]
  BY DEF S
<1>10. IsWalkTo(f, nodes, mp)
  BY <1>8, <1>9 DEF IsWalkTo
<1> QED
  BY <1>10

LEMMA BeforeLinks ==
    ASSUME NEW nodes \in Vectors, NEW n, NEW d, Linked(nodes, d, n),
           NEW mp \in DOMAIN nodes, Occupied(nodes, mp), Main(nodes, mp) # mp
    PROVE  LET prev == Before(nodes, Main(nodes, mp), mp)
           IN  prev \in DOMAIN nodes /\ Occupied(nodes, prev) /\ Links(nodes, prev, mp)
<1>0. n \in Nat /\ d \in [DOMAIN nodes -> 0 .. n]
  BY DEF Linked
<1> DEFINE m == Main(nodes, mp)
           f == CHOOSE g : IsWalkTo(g, nodes, mp)
<1>1. IsWalkTo(f, nodes, mp)
  BY WalkExists DEF Chained
<1>2. Before(nodes, m, mp) = f[m]
  BY DEF Before, IsWalkTo
<1> HIDE DEF f
<1>3. \A q \in DOMAIN nodes :
         f[q] = IF q + nodes[q].next = mp THEN q ELSE f[q + nodes[q].next]
  BY <1>1 DEF IsWalkTo
<1>4. d[mp] \in 1 .. n
  BY <1>0 DEF Linked
<1>5. PICK r \in DOMAIN nodes : Occupied(nodes, r) /\ Links(nodes, r, mp)
  BY <1>4 DEF Linked
<1>6. Main(nodes, r) = m /\ d[mp] = d[r] + 1 /\ d[r] \in 0 .. n
  BY <1>0, <1>5 DEF Linked
<1> DEFINE T == {i \in Int : \E q \in DOMAIN nodes :
                    /\ Occupied(nodes, q) /\ Main(nodes, q) = m
                    /\ d[q] = i /\ f[q] = r}
<1>7. 0 \in Int /\ d[r] \in Int /\ (0 <= d[r] => d[r] \in T)
  BY <1>3, <1>5, <1>6 DEF Links
<1>8. ASSUME NEW i \in 0 .. d[r] - 1, i + 1 \in T PROVE i \in T
  <2>1. PICK q \in DOMAIN nodes : /\ Occupied(nodes, q) /\ Main(nodes, q) = m
                                  /\ d[q] = i + 1 /\ f[q] = r
    BY <1>8
  <2>2. PICK p \in DOMAIN nodes : Occupied(nodes, p) /\ Links(nodes, p, q)
    BY <1>6, <1>8, <2>1 DEF Linked
  <2>3. Main(nodes, q) = Main(nodes, p) /\ d[q] = d[p] + 1 /\ d[p] \in Int
    BY <1>0, <2>2 DEF Linked
  <2>4. d[p] = i /\ q # mp
    BY <1>6, <1>8, <2>1, <2>3
  <2>5. f[p] = r
    BY <1>3, <2>1, <2>2, <2>4 DEF Links
  <2> QED
    BY <2>1, <2>2, <2>3, <2>4, <2>5
<1>9. 0 .. d[r] \subseteq T
  <2> HIDE DEF T
  <2> QED
    BY <1>7, <1>8, DownwardInduction
<1>10. PICK q \in DOMAIN nodes : /\ Occupied(nodes, q) /\ Main(nodes, q) = m
                                 /\ d[q] = 0 /\ f[q] = r
  BY <1>6, <1>9
<1>11. q = m
  BY <1>10 DEF Linked
<1> QED
  BY <1>2, <1>5, <1>10, <1>11

-----------------------------------------------------------------------------
(* An insertion keeps the chains.                                          *)

\* What the nodes hold.
Pairs(nodes) == {<<nodes[p].key, nodes[p].val>> : p \in {q \in DOMAIN nodes : Occupied(nodes, q)}}

\* after is before with k and v on a node that was free.
Adds(before, after, k, v) ==
    /\ after \in Vectors /\ DOMAIN after = DOMAIN before
    /\ Chained(after)
    /\ Pairs(after) = Pairs(before) \cup {<<k, v>>}
    /\ \A p \in DOMAIN before : Occupied(before, p) => Occupied(after, p)

LEMMA MainOf ==
    ASSUME NEW nodes, NEW w, DOMAIN w = DOMAIN nodes, NEW k
    PROVE  MainPosition(w, k) = MainPosition(nodes, k)
BY DEF MainPosition, Size

LEMMA StoreAdds ==
    ASSUME NEW nodes \in Vectors, Chained(nodes), NEW k \in Keys,
           NEW v \in Vals \cup {Nil}, \A p \in DOMAIN nodes : nodes[p].key # k,
           MainPosition(nodes, k) \in DOMAIN nodes,
           nodes[MainPosition(nodes, k)].key = Nil
    PROVE  Adds(nodes, Store(nodes, MainPosition(nodes, k), k, v), k, v)
<1> DEFINE mp == MainPosition(nodes, k)
           w  == Store(nodes, mp, k, v)
<1>1. PICK n, d : Linked(nodes, d, n)
  BY DEF Chained
<1>0. n \in Nat /\ d \in [DOMAIN nodes -> 0 .. n] /\ nodes \in [DOMAIN nodes -> NodeType]
  BY <1>1, SizeOf DEF Linked
<1>2. PICK m \in Nat : DOMAIN nodes = 0 .. m - 1
  BY SizeOf
<1>3. DOMAIN w = DOMAIN nodes /\ w \in [DOMAIN nodes -> NodeType]
  BY <1>0, ZenonT(40) DEF Store, NodeType
<1>4. /\ w[mp].key = k /\ w[mp].val = v /\ w[mp].next = nodes[mp].next
      /\ \A p \in DOMAIN nodes : p # mp => w[p] = nodes[p]
  BY <1>0 DEF Store, NodeType
<1>5. w \in Vectors
  BY <1>2, <1>3, VectorOf
<1> HIDE DEF w
<1>6. k # Nil /\ ~Occupied(nodes, mp) /\ nodes[mp].next = 0
  BY <1>1, KeysAssumption DEF Occupied, Linked
<1>7. \A p \in DOMAIN nodes : /\ Occupied(w, p) <=> Occupied(nodes, p) \/ p = mp
                              /\ p # mp => Main(w, p) = Main(nodes, p)
  BY <1>3, <1>4, <1>6, MainOf DEF Occupied, Main
<1>8. Main(w, mp) = mp
  BY <1>3, <1>4, MainOf DEF Main
<1>9. \A p, q \in DOMAIN nodes : Links(w, p, q) <=> Links(nodes, p, q)
  BY <1>4 DEF Links
<1>10. \A p, q \in DOMAIN nodes : Links(nodes, p, q) => p # mp /\ q # mp
  BY <1>1, <1>6 DEF Links, Linked
<1> DEFINE e == [d EXCEPT ![mp] = 0]
<1>11. e \in [DOMAIN w -> 0 .. n] /\ e[mp] = 0
       /\ \A p \in DOMAIN nodes : p # mp => e[p] = d[p]
  BY <1>0, <1>3
<1> HIDE DEF e
<1>12. Linked(w, e, n)
  <2>1. \A p \in DOMAIN w : ~Occupied(w, p) => w[p].next = 0 /\ w[p].val = Nil
    BY <1>1, <1>3, <1>4, <1>7 DEF Linked
  <2>2. \A p \in DOMAIN w : Occupied(w, p) => (e[p] = 0 <=> Main(w, p) = p)
    BY <1>1, <1>3, <1>7, <1>8, <1>11 DEF Linked
  <2>3. \A p \in DOMAIN w : Occupied(w, p) /\ e[p] > 0 =>
             \E q \in DOMAIN w : Occupied(w, q) /\ Links(w, q, p)
    BY <1>1, <1>3, <1>7, <1>9, <1>11 DEF Linked
  <2>4. \A p, q \in DOMAIN w : Links(w, p, q) =>
             Occupied(w, q) /\ Main(w, q) = Main(w, p) /\ e[q] = e[p] + 1
    BY <1>1, <1>3, <1>7, <1>9, <1>10, <1>11 DEF Linked
  <2>5. \A p \in DOMAIN w : w[p].next # 0 => p + w[p].next \in DOMAIN w
    BY <1>1, <1>3, <1>4, <1>6 DEF Linked
  <2>6. \A p, q \in DOMAIN w : Occupied(w, p) /\ Occupied(w, q) /\ e[p] = e[q]
             /\ Main(w, p) = Main(w, q) => p = q
    BY <1>1, <1>3, <1>6, <1>7, <1>8, <1>11 DEF Linked
  <2>7. \A p, q \in DOMAIN w : Occupied(w, p) /\ w[p].key = w[q].key => p = q
    BY <1>1, <1>3, <1>4, <1>7 DEF Linked
  <2> QED
    BY <1>0, <1>11, <2>1, <2>2, <2>3, <2>4, <2>5, <2>6, <2>7 DEF Linked
<1>13. Pairs(w) = Pairs(nodes) \cup {<<k, v>>}
  BY <1>3, <1>4, <1>6, <1>7 DEF Pairs
<1> QED
  BY <1>3, <1>5, <1>7, <1>12, <1>13 DEF Adds, Chained, w

LEMMA ChainBehindAdds ==
    ASSUME NEW nodes \in Vectors, Chained(nodes), NEW k \in Keys,
           NEW v \in Vals \cup {Nil}, \A p \in DOMAIN nodes : nodes[p].key # k,
           NEW mp \in DOMAIN nodes, MainPosition(nodes, k) = mp,
           Occupied(nodes, mp), Main(nodes, mp) = mp,
           NEW free \in DOMAIN nodes, nodes[free].key = Nil
    PROVE  Adds(nodes, Store(ChainBehind(nodes, mp, free), free, k, v), k, v)
<1> DEFINE w == Store(ChainBehind(nodes, mp, free), free, k, v)
           next == nodes[mp].next
<1>1. PICK n, d : Linked(nodes, d, n)
  BY DEF Chained
<1>0. n \in Nat /\ d \in [DOMAIN nodes -> 0 .. n] /\ nodes \in [DOMAIN nodes -> NodeType]
  BY <1>1, SizeOf DEF Linked
<1>2. PICK m \in Nat : DOMAIN nodes = 0 .. m - 1
  BY SizeOf
<1>3. k # Nil /\ ~Occupied(nodes, free) /\ nodes[free].next = 0 /\ free # mp
  BY <1>1, KeysAssumption DEF Occupied, Linked
<1>4. free \in Int /\ mp \in Int /\ next \in Int
  BY <1>0, <1>2 DEF NodeType
<1>5. /\ DOMAIN w = DOMAIN nodes /\ w \in [DOMAIN nodes -> NodeType]
      /\ w[free].key = k /\ w[free].val = v
      /\ w[free].next = IF next = 0 THEN 0 ELSE mp + next - free
      /\ w[mp].key = nodes[mp].key /\ w[mp].val = nodes[mp].val
      /\ w[mp].next = free - mp
      /\ \A p \in DOMAIN nodes : p # mp /\ p # free => w[p] = nodes[p]
  <2> DEFINE c == ChainBehind(nodes, mp, free)
  <2>1. /\ c \in [DOMAIN nodes -> NodeType]
        /\ c[free].next = IF next = 0 THEN 0 ELSE mp + next - free
        /\ c[mp].key = nodes[mp].key /\ c[mp].val = nodes[mp].val
        /\ c[mp].next = free - mp
        /\ \A p \in DOMAIN nodes : p # mp /\ p # free => c[p] = nodes[p]
    BY <1>0, <1>3, <1>4 DEF ChainBehind, NodeType
  <2> HIDE DEF c
  <2>2. w = [c EXCEPT ![free].key = k, ![free].val = v]
    BY DEF w, c, Store
  <2> HIDE DEF w
  <2> QED
    BY <1>3, <2>1, <2>2, ZenonT(40) DEF NodeType
<1>6. w \in Vectors
  BY <1>2, <1>5, VectorOf
<1> HIDE DEF w
<1>7. \A p \in DOMAIN nodes : /\ Occupied(w, p) <=> Occupied(nodes, p) \/ p = free
                              /\ p # free => Main(w, p) = Main(nodes, p)
  BY <1>3, <1>5, MainOf DEF Occupied, Main
<1>8. Main(w, free) = mp
  BY <1>5, MainOf DEF Main
<1>9. \A p \in DOMAIN nodes : p \in Int
  BY <1>2
<1>10. \A p \in DOMAIN nodes : ~Links(nodes, p, free) /\ ~Links(nodes, free, p)
  BY <1>1, <1>3 DEF Links, Linked
<1>11. \A p \in DOMAIN nodes : ~Links(nodes, p, mp)
  BY <1>0, <1>1 DEF Linked
<1>12. \A q \in DOMAIN nodes : /\ Links(w, mp, q) <=> q = free
                               /\ Links(w, free, q) <=> Links(nodes, mp, q)
  BY <1>3, <1>4, <1>5, <1>9, <1>10 DEF Links
<1>13. \A p, q \in DOMAIN nodes :
          p # mp /\ p # free => (Links(w, p, q) <=> Links(nodes, p, q))
  BY <1>5 DEF Links
<1> DEFINE later(p) == Occupied(nodes, p) /\ Main(nodes, p) = mp /\ d[p] # 0
           e == [p \in DOMAIN nodes |-> IF p = free THEN 1
                                        ELSE IF later(p) THEN d[p] + 1 ELSE d[p]]
<1>14. e \in [DOMAIN w -> 0 .. n + 1] /\ n + 1 \in Nat /\ e[free] = 1
       /\ \A p \in DOMAIN nodes : p # free =>
             e[p] = IF later(p) THEN d[p] + 1 ELSE d[p]
  BY <1>0, <1>5
<1>15. d[mp] = 0 /\ e[mp] = 0
  BY <1>1, <1>3, <1>14 DEF Linked
<1>16. \A p \in DOMAIN nodes : d[p] \in Int /\ d[p] >= 0
  BY <1>0
<1> HIDE DEF e
<1>17. Linked(w, e, n + 1)
  <2>1. \A p \in DOMAIN w : ~Occupied(w, p) => w[p].next = 0 /\ w[p].val = Nil
    BY <1>1, <1>5, <1>7 DEF Linked
  <2>2. \A p \in DOMAIN w : Occupied(w, p) => (e[p] = 0 <=> Main(w, p) = p)
    BY <1>1, <1>3, <1>5, <1>7, <1>8, <1>14, <1>15, <1>16 DEF Linked
  <2>3. ASSUME NEW p \in DOMAIN w, Occupied(w, p), e[p] > 0
        PROVE  \E q \in DOMAIN w : Occupied(w, q) /\ Links(w, q, p)
    <3>1. CASE p = free
      BY <1>5, <1>7, <1>12, <3>1
    <3>2. CASE p # free
      <4>1. p \in DOMAIN nodes /\ Occupied(nodes, p) /\ d[p] > 0
        BY <1>5, <1>7, <1>14, <1>16, <2>3, <3>2
      <4>2. PICK q \in DOMAIN nodes : Occupied(nodes, q) /\ Links(nodes, q, p)
        BY <1>1, <4>1 DEF Linked
      <4>3. q # free
        BY <1>10, <4>1, <4>2
      <4>4. CASE q = mp
        BY <1>5, <1>7, <1>12, <4>1, <4>2, <4>4
      <4>5. CASE q # mp
        BY <1>5, <1>7, <1>13, <4>1, <4>2, <4>3, <4>5
      <4> QED
        BY <4>4, <4>5
    <3> QED
      BY <3>1, <3>2
  <2>4. ASSUME NEW p \in DOMAIN w, NEW q \in DOMAIN w, Links(w, p, q)
        PROVE  Occupied(w, q) /\ Main(w, q) = Main(w, p) /\ e[q] = e[p] + 1
    <3>1. CASE p = mp
      <4>1. q = free
        BY <1>5, <1>12, <2>4, <3>1
      <4> QED
        BY <1>3, <1>5, <1>7, <1>8, <1>14, <1>15, <3>1, <4>1
    <3>2. CASE p = free
      <4>1. Links(nodes, mp, q) /\ q # free
        BY <1>5, <1>10, <1>12, <2>4, <3>2
      <4>2. Occupied(nodes, q) /\ Main(nodes, q) = mp /\ d[q] = 1
        BY <1>1, <1>5, <1>15, <4>1 DEF Linked
      <4> QED
        BY <1>5, <1>7, <1>8, <1>14, <3>2, <4>1, <4>2
    <3>3. CASE p # mp /\ p # free
      <4>1. Links(nodes, p, q) /\ q # free /\ q # mp
        BY <1>5, <1>10, <1>11, <1>13, <2>4, <3>3
      <4>2. /\ Occupied(nodes, q) /\ Main(nodes, q) = Main(nodes, p)
            /\ d[q] = d[p] + 1
        BY <1>1, <1>5, <4>1 DEF Linked
      <4>3. Occupied(nodes, p)
        BY <1>1, <1>5, <4>1 DEF Linked, Links
      <4>4. Main(nodes, p) = mp => d[p] # 0
        BY <1>1, <1>5, <3>3, <4>3 DEF Linked
      <4>5. later(p) <=> later(q)
        BY <1>5, <1>16, <4>2, <4>3, <4>4
      <4> HIDE DEF later
      <4> QED
        BY <1>5, <1>7, <1>14, <1>16, <3>3, <4>1, <4>2, <4>5
    <3> QED
      BY <3>1, <3>2, <3>3
  <2>5. ASSUME NEW p \in DOMAIN w, w[p].next # 0 PROVE p + w[p].next \in DOMAIN w
    <3>1. next # 0 => mp + next \in DOMAIN nodes
      BY <1>1 DEF Linked
    <3>2. CASE p = mp
      BY <1>4, <1>5, <3>2
    <3>3. CASE p = free
      BY <1>3, <1>4, <1>5, <2>5, <3>1, <3>3
    <3>4. CASE p # mp /\ p # free
      BY <1>1, <1>5, <2>5, <3>4 DEF Linked
    <3> QED
      BY <3>2, <3>3, <3>4
  <2>6. ASSUME NEW p \in DOMAIN w, NEW q \in DOMAIN w, Occupied(w, p), Occupied(w, q),
               e[p] = e[q], Main(w, p) = Main(w, q)
        PROVE  p = q
    <3>1. ASSUME NEW r \in DOMAIN w, Occupied(w, r), r # free, Main(w, r) = mp
          PROVE  e[r] # 1
      <4>1. r \in DOMAIN nodes /\ Occupied(nodes, r) /\ Main(nodes, r) = mp
        BY <1>5, <1>7, <3>1
      <4>2. CASE d[r] = 0
        BY <1>14, <3>1, <4>1, <4>2
      <4>3. CASE d[r] # 0
        BY <1>14, <1>16, <3>1, <4>1, <4>3
      <4> QED
        BY <4>2, <4>3
    <3>2. CASE p = free \/ q = free
      BY <1>8, <1>14, <2>6, <3>1, <3>2
    <3>3. CASE p # free /\ q # free
      <4>1. /\ p \in DOMAIN nodes /\ q \in DOMAIN nodes
            /\ Occupied(nodes, p) /\ Occupied(nodes, q)
            /\ Main(nodes, p) = Main(nodes, q)
        BY <1>5, <1>7, <2>6, <3>3
      <4>2. d[p] = d[q]
        BY <1>14, <1>16, <2>6, <3>3, <4>1
      <4> QED
        BY <1>1, <4>1, <4>2 DEF Linked
    <3> QED
      BY <3>2, <3>3
  <2>7. \A p, q \in DOMAIN w : Occupied(w, p) /\ w[p].key = w[q].key => p = q
    <3>1. \A p \in DOMAIN w : w[p].key = (IF p = free THEN k ELSE nodes[p].key)
      BY <1>5
    <3> QED
      BY <1>1, <1>5, <1>7, <3>1 DEF Linked
  <2> QED
    BY <1>14, <2>1, <2>2, <2>3, <2>4, <2>5, <2>6, <2>7 DEF Linked
<1>18. Pairs(w) = Pairs(nodes) \cup {<<k, v>>}
  <2>1. \A p \in DOMAIN nodes : p # free => w[p].key = nodes[p].key /\ w[p].val = nodes[p].val
    BY <1>5
  <2> QED
    BY <1>3, <1>5, <1>7, <2>1 DEF Pairs
<1> QED
  BY <1>5, <1>6, <1>7, <1>17, <1>18 DEF Adds, Chained, w

\* A chain does not start at a free node.
LEMMA NoEmptyStart ==
    ASSUME NEW nodes \in Vectors, NEW n, NEW d, Linked(nodes, d, n),
           NEW mp \in DOMAIN nodes, Occupied(nodes, mp)
    PROVE  Occupied(nodes, Main(nodes, mp))
<1> DEFINE m == Main(nodes, mp)
           T == {i \in Int : \E q \in DOMAIN nodes :
                    Occupied(nodes, q) /\ Main(nodes, q) = m /\ d[q] = i}
<1>1. \A p \in DOMAIN nodes : d[p] \in Int /\ d[p] >= 0
  BY DEF Linked
<1>2. 0 \in Int /\ d[mp] \in Int /\ (0 <= d[mp] => d[mp] \in T)
  BY <1>1
<1>3. ASSUME NEW i \in 0 .. d[mp] - 1, i + 1 \in T PROVE i \in T
  <2>1. PICK q \in DOMAIN nodes :
           Occupied(nodes, q) /\ Main(nodes, q) = m /\ d[q] = i + 1
    BY <1>3
  <2>2. PICK r \in DOMAIN nodes : Occupied(nodes, r) /\ Links(nodes, r, q)
    BY <1>1, <1>2, <1>3, <2>1 DEF Linked
  <2>3. Main(nodes, r) = m /\ d[q] = d[r] + 1
    BY <2>1, <2>2 DEF Linked
  <2> QED
    BY <1>1, <1>2, <1>3, <2>1, <2>2, <2>3
<1> HIDE DEF T
<1>4. 0 .. d[mp] \subseteq T
  BY <1>2, <1>3, DownwardInduction
<1>5. 0 \in T
  BY <1>1, <1>4
<1>6. PICK q \in DOMAIN nodes : Occupied(nodes, q) /\ Main(nodes, q) = m /\ d[q] = 0
  BY <1>5 DEF T
<1> QED
  BY <1>6 DEF Linked

LEMMA MakeRoomAdds ==
    ASSUME NEW nodes \in Vectors, Chained(nodes), NEW k \in Keys,
           NEW v \in Vals \cup {Nil}, \A p \in DOMAIN nodes : nodes[p].key # k,
           NEW mp \in DOMAIN nodes, MainPosition(nodes, k) = mp,
           Occupied(nodes, mp), Main(nodes, mp) # mp,
           NEW free \in DOMAIN nodes, nodes[free].key = Nil
    PROVE  Adds(nodes, Store(MakeRoom(nodes, mp, free), mp, k, v), k, v)
<1> DEFINE w    == Store(MakeRoom(nodes, mp, free), mp, k, v)
           prev == Before(nodes, MainPosition(nodes, nodes[mp].key), mp)
           next == nodes[mp].next
<1>1. PICK n, d : Linked(nodes, d, n)
  BY DEF Chained
<1>0. n \in Nat /\ d \in [DOMAIN nodes -> 0 .. n] /\ nodes \in [DOMAIN nodes -> NodeType]
  BY <1>1, SizeOf DEF Linked
<1>2. PICK m \in Nat : DOMAIN nodes = 0 .. m - 1
  BY SizeOf
<1>3. k # Nil /\ ~Occupied(nodes, free) /\ nodes[free].next = 0 /\ free # mp
  BY <1>1, KeysAssumption DEF Occupied, Linked
<1>4. prev \in DOMAIN nodes /\ Occupied(nodes, prev) /\ Links(nodes, prev, mp)
  BY <1>1, BeforeLinks DEF Main
<1> HIDE DEF prev
<1>5. \A p \in DOMAIN nodes : d[p] \in Int /\ d[p] >= 0
  BY <1>0
<1>6. d[mp] = d[prev] + 1 /\ prev # mp /\ prev # free
  BY <1>1, <1>3, <1>4, <1>5 DEF Linked
<1>7. free \in Int /\ mp \in Int /\ next \in Int /\ prev \in Int
  BY <1>0, <1>2, <1>4 DEF NodeType
<1>8. /\ DOMAIN w = DOMAIN nodes /\ w \in [DOMAIN nodes -> NodeType]
      /\ w[mp].key = k /\ w[mp].val = v /\ w[mp].next = 0
      /\ w[free].key = nodes[mp].key /\ w[free].val = nodes[mp].val
      /\ w[free].next = IF next = 0 THEN 0 ELSE next + mp - free
      /\ w[prev].key = nodes[prev].key /\ w[prev].val = nodes[prev].val
      /\ w[prev].next = free - prev
      /\ \A p \in DOMAIN nodes : p \notin {mp, free, prev} => w[p] = nodes[p]
  <2> DEFINE c == MakeRoom(nodes, mp, free)
             a == [nodes EXCEPT ![prev].next = free - prev]
             b == [a EXCEPT ![free] = [nodes[mp] EXCEPT !.next =
                                         IF next = 0 THEN 0 ELSE next + mp - free]]
  <2>1. c = [b EXCEPT ![mp] = FreeNode]
    BY DEF MakeRoom, prev
  <2>2. /\ a \in [DOMAIN nodes -> NodeType]
        /\ a[prev].key = nodes[prev].key /\ a[prev].val = nodes[prev].val
        /\ a[prev].next = free - prev
        /\ \A p \in DOMAIN nodes : p # prev => a[p] = nodes[p]
    BY <1>0, <1>4, <1>7 DEF NodeType
  <2> HIDE DEF a
  <2>3. /\ b \in [DOMAIN nodes -> NodeType]
        /\ b[free].key = nodes[mp].key /\ b[free].val = nodes[mp].val
        /\ b[free].next = IF next = 0 THEN 0 ELSE next + mp - free
        /\ \A p \in DOMAIN nodes : p # free => b[p] = a[p]
    BY <1>0, <1>7, <2>2 DEF NodeType
  <2> HIDE DEF b
  <2>4. /\ c \in [DOMAIN nodes -> NodeType]
        /\ c[mp].next = 0
        /\ \A p \in DOMAIN nodes : p # mp => c[p] = b[p]
    BY <2>1, <2>3 DEF NodeType, FreeNode
  <2> HIDE DEF c
  <2>5. w = [c EXCEPT ![mp].key = k, ![mp].val = v]
    BY DEF w, c, Store
  <2> HIDE DEF w
  <2> DEFINE g == [c EXCEPT ![mp].key = k]
  <2>a. /\ g \in [DOMAIN nodes -> NodeType] /\ g[mp].key = k /\ g[mp].next = 0
        /\ \A p \in DOMAIN nodes : p # mp => g[p] = c[p]
    BY <2>4 DEF NodeType
  <2>b. w = [g EXCEPT ![mp].val = v]
    BY <2>5
  <2> HIDE DEF g
  <2>6. /\ w \in [DOMAIN nodes -> NodeType]
        /\ w[mp].key = k /\ w[mp].val = v /\ w[mp].next = 0
        /\ \A p \in DOMAIN nodes : p # mp => w[p] = c[p]
    BY <2>a, <2>b DEF NodeType
  <2> QED
    BY <1>3, <1>4, <1>6, <2>2, <2>3, <2>4, <2>6
<1>9. w \in Vectors
  BY <1>2, <1>8, VectorOf
<1> HIDE DEF w
<1>10. \A p \in DOMAIN nodes :
          /\ Occupied(w, p) <=> Occupied(nodes, p) \/ p = free
          /\ p # free /\ p # mp => Main(w, p) = Main(nodes, p)
  BY <1>3, <1>4, <1>8, MainOf DEF Occupied, Main
<1>11. Main(w, free) = Main(nodes, mp) /\ Main(w, mp) = mp
  BY <1>8, MainOf DEF Main
<1>12. \A p \in DOMAIN nodes : p \in Int
  BY <1>2
<1>13. \A p \in DOMAIN nodes : ~Links(nodes, p, free) /\ ~Links(nodes, free, p)
  BY <1>1, <1>3 DEF Links, Linked
<1>14. \A p \in DOMAIN nodes : Links(nodes, p, mp) => p = prev
  <2>1. ASSUME NEW p \in DOMAIN nodes, Links(nodes, p, mp) PROVE p = prev
    <3>1. Occupied(nodes, p) /\ Main(nodes, mp) = Main(nodes, p) /\ d[mp] = d[p] + 1
      BY <1>1, <2>1 DEF Linked, Links
    <3>2. d[p] = d[prev] /\ Main(nodes, mp) = Main(nodes, prev)
      BY <1>1, <1>4, <1>5, <1>6, <3>1 DEF Linked
    <3> QED
      BY <1>1, <1>4, <3>1, <3>2 DEF Linked
  <2> QED
    BY <2>1
<1>15. \A q \in DOMAIN nodes : /\ Links(nodes, prev, q) <=> q = mp
                               /\ Links(w, prev, q) <=> q = free
                               /\ Links(w, free, q) <=> Links(nodes, mp, q)
                               /\ ~Links(w, mp, q)
  BY <1>3, <1>4, <1>6, <1>7, <1>8, <1>12, <1>13 DEF Links
<1>16. \A p, q \in DOMAIN nodes :
          p \notin {mp, free, prev} => (Links(w, p, q) <=> Links(nodes, p, q))
  BY <1>8 DEF Links
<1> DEFINE e == [d EXCEPT ![free] = d[mp], ![mp] = 0]
<1>17. e \in [DOMAIN w -> 0 .. n] /\ e[free] = d[mp] /\ e[mp] = 0
       /\ \A p \in DOMAIN nodes : p # free /\ p # mp => e[p] = d[p]
  BY <1>0, <1>3, <1>8
<1>18. d[mp] # 0
  BY <1>1 DEF Linked
<1> HIDE DEF e
<1>19. Linked(w, e, n)
  <2>1. \A p \in DOMAIN w : ~Occupied(w, p) => w[p].next = 0 /\ w[p].val = Nil
    BY <1>1, <1>4, <1>8, <1>10 DEF Linked
  <2>2. ASSUME NEW p \in DOMAIN w, Occupied(w, p) PROVE e[p] = 0 <=> Main(w, p) = p
    <3>1. CASE p = free
      <4>1. Main(nodes, mp) # free
        BY <1>1, <1>3, NoEmptyStart
      <4> QED
        BY <1>11, <1>17, <1>18, <3>1, <4>1
    <3>2. CASE p = mp
      BY <1>11, <1>17, <3>2
    <3>3. CASE p # free /\ p # mp
      BY <1>1, <1>8, <1>10, <1>17, <2>2, <3>3 DEF Linked
    <3> QED
      BY <3>1, <3>2, <3>3
  <2>3. ASSUME NEW p \in DOMAIN w, Occupied(w, p), e[p] > 0
        PROVE  \E q \in DOMAIN w : Occupied(w, q) /\ Links(w, q, p)
    <3>1. CASE p = free
      BY <1>4, <1>8, <1>10, <1>15, <3>1
    <3>2. CASE p # free
      <4>1. p \in DOMAIN nodes /\ p # mp /\ Occupied(nodes, p) /\ d[p] > 0
        BY <1>5, <1>8, <1>10, <1>17, <2>3, <3>2
      <4>2. PICK q \in DOMAIN nodes : Occupied(nodes, q) /\ Links(nodes, q, p)
        BY <1>1, <4>1 DEF Linked
      <4>3. q # free /\ q # prev
        BY <1>13, <1>15, <4>1, <4>2
      <4>4. CASE q = mp
        BY <1>8, <1>10, <1>15, <4>1, <4>2, <4>4
      <4>5. CASE q # mp
        BY <1>8, <1>10, <1>16, <4>1, <4>2, <4>3, <4>5
      <4> QED
        BY <4>4, <4>5
    <3> QED
      BY <3>1, <3>2
  <2>4. ASSUME NEW p \in DOMAIN w, NEW q \in DOMAIN w, Links(w, p, q)
        PROVE  Occupied(w, q) /\ Main(w, q) = Main(w, p) /\ e[q] = e[p] + 1
    <3>1. CASE p = prev
      <4>1. q = free /\ Main(nodes, mp) = Main(nodes, prev)
        BY <1>1, <1>4, <1>8, <1>15, <2>4, <3>1 DEF Linked
      <4> QED
        BY <1>4, <1>6, <1>8, <1>10, <1>11, <1>17, <3>1, <4>1
    <3>2. CASE p = free
      <4>1. Links(nodes, mp, q) /\ q # free /\ q # mp
        BY <1>6, <1>8, <1>13, <1>14, <1>15, <2>4, <3>2
      <4>2. Occupied(nodes, q) /\ Main(nodes, q) = Main(nodes, mp) /\ d[q] = d[mp] + 1
        BY <1>1, <1>8, <4>1 DEF Linked
      <4> QED
        BY <1>8, <1>10, <1>11, <1>17, <3>2, <4>1, <4>2
    <3>3. CASE p \notin {mp, free, prev}
      <4>1. Links(nodes, p, q) /\ q # free /\ q # mp
        BY <1>8, <1>13, <1>14, <1>16, <2>4, <3>3
      <4>2. /\ Occupied(nodes, q) /\ Main(nodes, q) = Main(nodes, p)
            /\ d[q] = d[p] + 1
        BY <1>1, <1>8, <4>1 DEF Linked
      <4> QED
        BY <1>8, <1>10, <1>17, <3>3, <4>1, <4>2
    <3> QED
      BY <1>8, <1>15, <2>4, <3>1, <3>2, <3>3
  <2>5. ASSUME NEW p \in DOMAIN w, w[p].next # 0 PROVE p + w[p].next \in DOMAIN w
    <3>1. next # 0 => mp + next \in DOMAIN nodes
      BY <1>1 DEF Linked
    <3>2. CASE p = prev
      BY <1>7, <1>8, <3>2
    <3>3. CASE p = free
      BY <1>3, <1>7, <1>8, <2>5, <3>1, <3>3
    <3>4. CASE p \notin {mp, free, prev}
      BY <1>1, <1>8, <2>5, <3>4 DEF Linked
    <3> QED
      BY <1>8, <2>5, <3>2, <3>3, <3>4
  <2>6. ASSUME NEW p \in DOMAIN w, NEW q \in DOMAIN w, Occupied(w, p), Occupied(w, q),
               e[p] = e[q], Main(w, p) = Main(w, q)
        PROVE  p = q
    <3> DEFINE old(r) == IF r = free THEN mp ELSE r
    <3>1. ASSUME NEW r \in DOMAIN w, Occupied(w, r), r # mp
          PROVE  /\ old(r) \in DOMAIN nodes /\ Occupied(nodes, old(r))
                 /\ Main(nodes, old(r)) = Main(w, r) /\ d[old(r)] = e[r]
      BY <1>8, <1>10, <1>11, <1>17, <3>1
    <3>2. CASE p # mp /\ q # mp
      <4>1. old(p) = old(q)
        BY <1>1, <2>6, <3>1, <3>2 DEF Linked
      <4> QED
        BY <3>2, <4>1
    <3>3. ASSUME NEW r \in DOMAIN w, Occupied(w, r), e[r] = 0, Main(w, r) = mp
          PROVE  r = mp
      BY <2>2, <3>3
    <3>4. CASE p = mp \/ q = mp
      BY <1>11, <1>17, <2>6, <3>3, <3>4
    <3> QED
      BY <3>2, <3>4
  <2>7. \A p, q \in DOMAIN w : Occupied(w, p) /\ w[p].key = w[q].key => p = q
    <3>1. \A p \in DOMAIN w : w[p].key = (IF p = mp THEN k ELSE IF p = free
                                          THEN nodes[mp].key ELSE nodes[p].key)
      BY <1>3, <1>4, <1>6, <1>8
    <3>2. \A p, q \in DOMAIN nodes : Occupied(nodes, p) /\ nodes[p].key = nodes[q].key => p = q
      BY <1>1 DEF Linked
    <3> QED
      BY <1>3, <1>8, <1>10, <3>1, <3>2
  <2> QED
    BY <1>0, <1>17, <2>1, <2>2, <2>3, <2>4, <2>5, <2>6, <2>7 DEF Linked
<1>20. Pairs(w) = Pairs(nodes) \cup {<<k, v>>}
  <2>1. \A p \in DOMAIN nodes : p # free /\ p # mp =>
           w[p].key = nodes[p].key /\ w[p].val = nodes[p].val
    BY <1>4, <1>6, <1>8
  <2>2. ASSUME NEW x \in Pairs(w) PROVE x \in Pairs(nodes) \cup {<<k, v>>}
    <3>1. PICK p \in DOMAIN w : Occupied(w, p) /\ x = <<w[p].key, w[p].val>>
      BY <2>2 DEF Pairs
    <3>2. CASE p = mp
      BY <1>8, <3>1, <3>2
    <3>3. CASE p = free
      BY <1>8, <3>1, <3>3 DEF Pairs
    <3>4. CASE p # mp /\ p # free
      BY <1>8, <1>10, <2>1, <3>1, <3>4 DEF Pairs
    <3> QED
      BY <3>2, <3>3, <3>4
  <2>3. ASSUME NEW x \in Pairs(nodes) PROVE x \in Pairs(w)
    <3>1. PICK p \in DOMAIN nodes : Occupied(nodes, p) /\ x = <<nodes[p].key, nodes[p].val>>
      BY <2>3 DEF Pairs
    <3>2. p # free
      BY <1>3, <3>1
    <3>3. CASE p = mp
      BY <1>8, <1>10, <3>1, <3>3 DEF Pairs
    <3>4. CASE p # mp
      BY <1>8, <1>10, <2>1, <3>1, <3>2, <3>4 DEF Pairs
    <3> QED
      BY <3>3, <3>4
  <2>4. <<k, v>> \in Pairs(w)
    BY <1>8, <1>10 DEF Pairs
  <2> QED
    BY <2>2, <2>3, <2>4
<1> QED
  BY <1>8, <1>9, <1>10, <1>19, <1>20 DEF Adds, Chained, w

LEMMA InstallAdds ==
    ASSUME NEW nodes \in Vectors, Chained(nodes), Size(nodes) # 0, NEW k \in Keys,
           NEW v \in Vals \cup {Nil}, \A p \in DOMAIN nodes : nodes[p].key # k,
           NEW free,
           nodes[MainPosition(nodes, k)].key # Nil =>
              free \in DOMAIN nodes /\ nodes[free].key = Nil
    PROVE  Adds(nodes, Install(nodes, k, v, free), k, v)
<1> DEFINE mp == MainPosition(nodes, k)
<1>1. mp \in DOMAIN nodes
  BY MainInside
<1>2. CASE nodes[mp].key = Nil
  BY <1>1, <1>2, StoreAdds DEF Install
<1>3. CASE nodes[mp].key # Nil /\ MainPosition(nodes, nodes[mp].key) # mp
  BY <1>1, <1>3, MakeRoomAdds DEF Install, Occupied, Main
<1>4. CASE nodes[mp].key # Nil /\ MainPosition(nodes, nodes[mp].key) = mp
  BY <1>1, <1>4, ChainBehindAdds DEF Install, Occupied, Main
<1> QED
  BY <1>2, <1>3, <1>4

LEMMA FreePosFits ==
    ASSUME NEW nodes \in Vectors, NEW last \in Nat, last <= Size(nodes)
    PROVE  LET free == FreePos(nodes, last) IN
           /\ free # -1 => /\ free \in DOMAIN nodes /\ nodes[free].key = Nil
                           /\ free < last
           /\ \A p \in DOMAIN nodes : free < p /\ p < last => nodes[p].key # Nil
<1> DEFINE T == {p \in 0 .. last - 1 : nodes[p].key = Nil} \cup {-1}
<1>1. T \subseteq Int /\ T # {} /\ last \in Int /\ \A x \in T : x <= last
  OBVIOUS
<1>2. \A x \in T : x = -1 \/ (x \in 0 .. last - 1 /\ nodes[x].key = Nil)
  OBVIOUS
<1>3. \A x \in 0 .. last - 1 : nodes[x].key = Nil => x \in T
  OBVIOUS
<1>4. FreePos(nodes, last) = Max(T)
  BY DEF FreePos
<1> HIDE DEF T
<1>5. \E x \in T : \A y \in T : x >= y
  BY <1>1, GreatestInt
<1>6. Max(T) \in T /\ \A y \in T : Max(T) >= y
  BY <1>5 DEF Max
<1> DEFINE free == Max(T)
<1> HIDE DEF free
<1>7. free \in T /\ free \in Int /\ \A y \in T : free >= y
  BY <1>1, <1>6 DEF free
<1>8. DOMAIN nodes = 0 .. Size(nodes) - 1 /\ Size(nodes) \in Nat
  BY SizeOf
<1>9. free # -1 => free \in DOMAIN nodes /\ nodes[free].key = Nil /\ free < last
  BY <1>2, <1>7, <1>8
<1>10. ASSUME NEW p \in DOMAIN nodes, free < p, p < last PROVE nodes[p].key # Nil
  <2>1. p \in 0 .. last - 1
    BY <1>8, <1>10
  <2> QED
    BY <1>3, <1>7, <1>10, <2>1
<1> QED
  BY <1>4, <1>9, <1>10 DEF free

\* Powers of two.
Doubling == [i \in Int |-> [x \in Nat |-> 2 * x]]

LEMMA PowerGrows ==
    ASSUME NEW b \in Nat
    PROVE  Power(b) \in Nat /\ Power(b) > b
<1> DEFINE Loop(p) == p = [i \in 0 .. b |-> IF i = 0 THEN 1 ELSE 2 * p[i - 1]]
<1>1. Doubling \in [Int -> [Nat -> Nat]] /\ \A i \in Int, x \in Nat : Doubling[i][x] = 2 * x
  BY DEF Doubling
<1>2. 0 \in Int /\ b \in Int /\ 1 \in Nat
  OBVIOUS
<1>3. PICK p \in [0 .. b -> Nat] : IsLoopUp(p, 0, b, 1, Doubling)
  BY <1>1, <1>2, RecursionUp
<1>4. ASSUME NEW i \in 0 .. b PROVE p[i] = IF i = 0 THEN 1 ELSE 2 * p[i - 1]
  <2>1. p[i] = IF i = 0 THEN 1 ELSE Doubling[i][p[i - 1]]
    BY <1>3 DEF IsLoopUp
  <2>2. CASE i = 0
    BY <2>1, <2>2
  <2>3. CASE i # 0
    <3>1. p[i - 1] \in Nat /\ i \in Int
      BY <2>3
    <3> QED
      BY <1>1, <2>1, <2>3, <3>1
  <2> QED
    BY <2>2, <2>3
<1>5. Loop(p)
  BY <1>4
<1> DEFINE q == CHOOSE f : Loop(f)
<1>6. Loop(q)
  BY <1>5
<1>7. Power(b) = q[b]
  BY DEF Power
<1> HIDE DEF q
<1>8. \A i \in 0 .. b : q[i] = IF i = 0 THEN 1 ELSE 2 * q[i - 1]
  BY <1>6
<1> DEFINE T == {i \in 0 .. b : q[i] \in Nat /\ q[i] > i}
<1>9. 0 <= b => 0 \in T
  BY <1>8
<1>10. ASSUME NEW i \in 0 + 1 .. b, i - 1 \in T PROVE i \in T
  <2>1. q[i - 1] \in Nat /\ q[i - 1] > i - 1 /\ i \in 1 .. b
    BY <1>10
  <2>2. q[i] = 2 * q[i - 1]
    BY <1>8, <2>1
  <2> QED
    BY <2>1, <2>2
<1> HIDE DEF T
<1>11. 0 .. b \subseteq T
  BY <1>2, <1>9, <1>10, UpwardInduction
<1> QED
  BY <1>7, <1>11 DEF T

LEMMA CeilLog2Fits ==
    ASSUME NEW n \in Nat
    PROVE  CeilLog2(n) \in 0 .. n /\ Power(CeilLog2(n)) >= n
<1> DEFINE T == {b \in Nat : Power(b) >= n}
           Is(b) == Power(b) >= n /\ (b = 0 \/ Power(b - 1) < n)
<1>1. n \in T
  BY PowerGrows
<1>2. PICK b \in T : \A c \in T : b <= c
  <2>1. T \subseteq Nat /\ T # {}
    BY <1>1
  <2> HIDE DEF T
  <2> QED
    BY <2>1, LeastNat
<1>3. b \in 0 .. n
  BY <1>1, <1>2
<1>4. b # 0 => Power(b - 1) < n
  <2>1. ASSUME b # 0 PROVE Power(b - 1) < n
    <3>1. b - 1 \in Nat /\ ~(b <= b - 1)
      BY <1>3, <2>1
    <3>2. b - 1 \notin T
      BY <1>2, <3>1
    <3>3. Power(b - 1) \in Nat
      BY <3>1, PowerGrows
    <3> QED
      BY <3>1, <3>2, <3>3
  <2> QED
    BY <2>1
<1>5. Is(b)
  BY <1>2, <1>4
<1> DEFINE c == CHOOSE x \in 0 .. n : Is(x)
<1>6. c \in 0 .. n /\ Is(c)
  BY <1>3, <1>5
<1>7. CeilLog2(n) = c
  BY DEF CeilLog2
<1> QED
  BY <1>6, <1>7

LEMMA NodeVectorFree ==
    ASSUME NEW n \in Int
    PROVE  /\ NodeVector(n) \in Vectors
           /\ \A p \in DOMAIN NodeVector(n) : NodeVector(n)[p] = FreeNode
           /\ n > 0 => Size(NodeVector(n)) # 0
           /\ \E b \in 0 .. Size(NodeVector(n)) : Size(NodeVector(n)) \in {0, Power(b)}
<1> DEFINE size == IF n <= 0 THEN 0 ELSE Power(CeilLog2(n))
           b == CeilLog2(n)
<1>1. n > 0 => b \in Nat /\ Power(b) >= n /\ Power(b) \in Nat /\ Power(b) > b
  BY CeilLog2Fits, PowerGrows
<1>2. size \in Nat /\ (n > 0 => size > 0)
  BY <1>1
<1>3. NodeVector(n) = [i \in 0 .. size - 1 |-> FreeNode]
  BY DEF NodeVector
<1> HIDE DEF size
<1>4. FreeNode \in NodeType
  BY DEF FreeNode, NodeType
<1>5. NodeVector(n) \in [0 .. size - 1 -> NodeType]
  BY <1>3, <1>4
<1>6. NodeVector(n) \in Vectors /\ Size(NodeVector(n)) = size
  BY <1>2, <1>5, VectorOf
<1>7. \E c \in 0 .. size : size \in {0, Power(c)}
  <2>1. CASE n <= 0
    BY <2>1 DEF size
  <2>2. CASE n > 0
    BY <1>1, <2>2 DEF size
  <2> QED
    BY <2>1, <2>2
<1> QED
  BY <1>2, <1>3, <1>6, <1>7

LEMMA FreeChained ==
    ASSUME NEW nodes \in Vectors, \A p \in DOMAIN nodes : nodes[p] = FreeNode
    PROVE  Chained(nodes) /\ Pairs(nodes) = {}
<1> DEFINE d == [p \in DOMAIN nodes |-> 0]
<1>1. \A p \in DOMAIN nodes : ~Occupied(nodes, p) /\ nodes[p].next = 0 /\ nodes[p].val = Nil
  BY DEF Occupied, FreeNode
<1>2. \A p, q \in DOMAIN nodes : ~Links(nodes, p, q)
  BY <1>1 DEF Links
<1>3. 0 \in Nat /\ d \in [DOMAIN nodes -> 0 .. 0]
  OBVIOUS
<1> HIDE DEF d
<1>4. Linked(nodes, d, 0)
  BY <1>1, <1>2, <1>3 DEF Linked
<1> QED
  BY <1>1, <1>4 DEF Chained, Pairs

\* What a search reads is what the nodes hold.
NodeGet(nodes, k) ==
    LET p == FindNode(nodes, k) IN IF p = -1 THEN Nil ELSE nodes[p].val

LEMMA NodeGetsPair ==
    ASSUME NEW nodes \in Vectors, Chained(nodes), NEW k \in Keys
    PROVE  /\ \A v : <<k, v>> \in Pairs(nodes) => NodeGet(nodes, k) = v
           /\ (\A v : <<k, v>> \notin Pairs(nodes)) =>
                 /\ NodeGet(nodes, k) = Nil /\ FindNode(nodes, k) = -1
                 /\ \A p \in DOMAIN nodes : nodes[p].key # k
           /\ FindNode(nodes, k) # -1 => /\ FindNode(nodes, k) \in DOMAIN nodes
                                         /\ nodes[FindNode(nodes, k)].key = k
           /\ FindNode(nodes, k) = -1 => \A p \in DOMAIN nodes : nodes[p].key # k
<1>1. ASSUME NEW p \in DOMAIN nodes, nodes[p].key = k
      PROVE  FindNode(nodes, k) = p /\ p # -1
  <2>1. p # -1
    BY SizeOf
  <2> QED
    BY <1>1, <2>1, FindsKey
<1>2. ASSUME NEW v, <<k, v>> \in Pairs(nodes)
      PROVE  \E p \in DOMAIN nodes : nodes[p].key = k /\ nodes[p].val = v
  BY <1>2 DEF Pairs
<1>3. ASSUME NEW p \in DOMAIN nodes, nodes[p].key = k
      PROVE  <<k, nodes[p].val>> \in Pairs(nodes)
  BY <1>3, KeysAssumption DEF Pairs, Occupied
<1>4. (\A p \in DOMAIN nodes : nodes[p].key # k) => FindNode(nodes, k) = -1
  BY FindsNone
<1>5. \A v : <<k, v>> \in Pairs(nodes) => NodeGet(nodes, k) = v
  BY <1>1, <1>2 DEF NodeGet
<1>6. (\A v : <<k, v>> \notin Pairs(nodes)) => \A p \in DOMAIN nodes : nodes[p].key # k
  BY <1>3
<1> QED
  BY <1>1, <1>4, <1>5, <1>6 DEF NodeGet
-----------------------------------------------------------------------------
(* The operations on a table.                                              *)

Values   == Vals \cup {Nil}
TableSet == [array : Seq(Values), nodes : Vectors, lastfree : Nat]

Sound(tb) ==
    /\ tb \in TableSet
    /\ Chained(tb.nodes)
    /\ tb.lastfree <= Size(tb.nodes)
    /\ \E b \in 0 .. Size(tb.nodes) : Size(tb.nodes) \in {0, Power(b)}
    /\ \A p \in DOMAIN tb.nodes : p >= tb.lastfree => tb.nodes[p].key # Nil
    /\ \A i \in DOMAIN tb.array : tb.array[i] # Nil => i \in IntKeys

\* A key that no node carries and under which the array part holds nothing.
Absent(tb, k) == /\ \A p \in DOMAIN tb.nodes : tb.nodes[p].key # k
                 /\ InArray(tb, k) => tb.array[k] = Nil

K == Cardinality(IntKeys)

LEMMA IntKeysAre == K \in Nat /\ IntKeys = 1 .. K /\ IntKeys \subseteq Keys
BY TableAssumption, FS_CardinalityType DEF K, Keys

LEMMA LeastOf ==
    ASSUME NEW T, T \subseteq Nat, T # {}
    PROVE  Min(T) \in T /\ \A y \in T : Min(T) <= y
<1>1. \E x \in T : \A y \in T : x <= y
  BY LeastNat
<1> QED
  BY <1>1 DEF Min

LEMMA GreatestOf ==
    ASSUME NEW T, T \subseteq Int, T # {}, NEW b \in Int, \A x \in T : x <= b
    PROVE  Max(T) \in T /\ \A y \in T : Max(T) >= y
<1>1. \E x \in T : \A y \in T : x >= y
  BY GreatestInt
<1> QED
  BY <1>1 DEF Max

LEMMA GetIs ==
    ASSUME NEW tb, Sound(tb), NEW k \in Keys
    PROVE  /\ InArray(tb, k) => k \in DOMAIN tb.array /\ Get(tb, k) = tb.array[k]
           /\ ~InArray(tb, k) => Get(tb, k) = NodeGet(tb.nodes, k)
           /\ Absent(tb, k) => Get(tb, k) = Nil /\ FindNode(tb.nodes, k) = -1
           /\ Get(tb, k) \in Values
<1>1. tb.array \in Seq(Values) /\ tb.nodes \in Vectors /\ Chained(tb.nodes)
  BY DEF Sound, TableSet
<1>2. InArray(tb, k) => k \in DOMAIN tb.array
  BY <1>1, IntKeysAre DEF InArray
<1>3. (\A p \in DOMAIN tb.nodes : tb.nodes[p].key # k) => FindNode(tb.nodes, k) = -1
  BY <1>1, FindsNone
<1>4. NodeGet(tb.nodes, k) \in Values
  BY <1>1, NodeGetsPair, SizeOf DEF NodeGet, NodeType, Values
<1> QED
  BY <1>1, <1>2, <1>3, <1>4 DEF Get, NodeGet, Absent

LEMMA StraysAreNil ==
    ASSUME NEW tb, Sound(tb), NEW i \in Nat, i > K
    PROVE  GetNum(tb, i) = Nil
BY IntKeysAre DEF GetNum, Sound

LEMMA AdjustASizeFits ==
    ASSUME NEW tb, Sound(tb), NEW size \in Nat, NEW ek
    PROVE  AdjustASize(tb, size, ek) \in Nat
<1> DEFINE T == {n \in size .. size + K + 1 :
                    n + 1 # ek /\ (Size(tb.nodes) = 0 \/ GetNum(tb, n + 1) = Nil)}
<1>1. K \in Nat
  BY IntKeysAre
<1>2. /\ size + K \in size .. size + K + 1 /\ size + K + 1 \in size .. size + K + 1
      /\ size + K + 1 \in Nat /\ size + K + 1 > K
      /\ size + K + 1 + 1 \in Nat /\ size + K + 1 + 1 > K
      /\ size + K + 1 # size + K + 1 + 1
  BY <1>1
<1>3. GetNum(tb, size + K + 1) = Nil /\ GetNum(tb, size + K + 1 + 1) = Nil
  BY <1>2, StraysAreNil
<1>4. T # {}
  <2>1. CASE ek = size + K + 1
    BY <1>2, <1>3, <2>1
  <2>2. CASE ek # size + K + 1
    BY <1>2, <1>3, <2>2
  <2> QED
    BY <2>1, <2>2
<1>5. T \subseteq Nat
  BY <1>1
<1>6. AdjustASize(tb, size, ek) = Min(T)
  BY DEF AdjustASize, K
<1> HIDE DEF T
<1> QED
  BY <1>4, <1>5, <1>6, LeastOf

LEMMA PartsFinite ==
    ASSUME NEW tb, Sound(tb)
    PROVE  IsFiniteSet(DOMAIN tb.array) /\ IsFiniteSet(DOMAIN tb.nodes)
<1>1. Len(tb.array) \in Nat /\ DOMAIN tb.array = 1 .. Len(tb.array)
  BY DEF Sound, TableSet
<1>2. Size(tb.nodes) \in Nat /\ DOMAIN tb.nodes = 0 .. Size(tb.nodes) - 1
  BY SizeOf DEF Sound, TableSet
<1>3. IsFiniteSet(1 .. Len(tb.array))
  BY <1>1, FS_Interval
<1>4. IsFiniteSet(0 .. Size(tb.nodes) - 1)
  BY <1>2, FS_Interval
<1> QED
  BY <1>1, <1>2, <1>3, <1>4

LEMMA UsedIntsFinite ==
    ASSUME NEW tb, Sound(tb), NEW ek
    PROVE  /\ IsFiniteSet(UsedInts(tb, ek))
           /\ TotalUse(tb) \in Int
<1> DEFINE A == {j \in DOMAIN tb.array : tb.array[j] # Nil}
           B == {q \in DOMAIN tb.nodes :
                   tb.nodes[q].key \in IntKeys /\ tb.nodes[q].val # Nil}
           C == {q \in DOMAIN tb.nodes : tb.nodes[q].val # Nil}
           a == [i \in A |-> <<i, "array">>]
           b == [p \in B |-> <<tb.nodes[p].key, "node">>]
           AA == {<<i, "array">> : i \in A}
           BB == {<<tb.nodes[p].key, "node">> : p \in B}
           CC == IF ek \in IntKeys THEN {<<ek, "new">>} ELSE {}
<1>1. IsFiniteSet(A) /\ IsFiniteSet(B) /\ IsFiniteSet(C)
  BY PartsFinite, FS_Subset
<1>2. IsFiniteSet(AA)
  <2>1. a \in Surjection(A, AA)
    BY DEF Surjection
  <2> HIDE DEF a, A, AA
  <2> QED
    BY <1>1, <2>1, FS_Surjection
<1>3. IsFiniteSet(BB)
  <2>1. b \in Surjection(B, BB)
    BY DEF Surjection
  <2> HIDE DEF b, B, BB
  <2> QED
    BY <1>1, <2>1, FS_Surjection
<1>4. IsFiniteSet(CC)
  BY FS_EmptySet, FS_Singleton
<1>5. UsedInts(tb, ek) = (AA \cup BB) \cup CC
  BY DEF UsedInts
<1> HIDE DEF AA, BB, CC
<1>6. IsFiniteSet((AA \cup BB) \cup CC)
  <2>1. IsFiniteSet(AA \cup BB)
    BY <1>2, <1>3, FS_Union
  <2> QED
    BY <1>4, <2>1, FS_Union
<1>7. TotalUse(tb) = Cardinality(A) + Cardinality(C) + 1
  BY DEF TotalUse
<1>8. Cardinality(A) \in Nat /\ Cardinality(C) \in Nat
  BY <1>1, FS_CardinalityType
<1> QED
  BY <1>5, <1>6, <1>7, <1>8

LEMMA ComputeSizeFits ==
    ASSUME NEW used, IsFiniteSet(used)
    PROVE  ComputeSize(used) \in Nat
<1> DEFINE c == Cardinality(used)
           upTo(n) == Cardinality({u \in used : u[1] <= n})
           P == {n \in {Power(i) : i \in 0 .. CeilLog2(c) + 1} :
                    /\ n \div 2 < c
                    /\ upTo(n) > upTo(n \div 2)
                    /\ upTo(n) > n \div 2}
<1>1. c \in Nat
  BY FS_CardinalityType
<1>2. CeilLog2(c) \in Nat
  BY <1>1, CeilLog2Fits
<1>3. \A n \in P : n \in Nat /\ n \div 2 < c
  BY <1>2, PowerGrows
<1>4. ComputeSize(used) = Max({0} \cup P)
  BY DEF ComputeSize
<1> HIDE DEF P, c
<1> DEFINE Q == {0} \cup P
           b == 2 * c + 2
<1>5. ASSUME NEW n \in Q
      PROVE  n \in Nat /\ n <= b
  <2>1. CASE n \in P
    BY <1>1, <1>3, <2>1
  <2>2. CASE n = 0
    BY <1>1, <2>2
  <2> QED
    BY <2>1, <2>2
<1>6. b \in Int /\ Q # {}
  BY <1>1
<1>7. ComputeSize(used) = Max(Q)
  BY <1>4
<1> HIDE DEF Q, b
<1>8. Q \subseteq Int
  BY <1>5
<1>9. Max(Q) \in Q
  BY <1>5, <1>6, <1>8, GreatestOf
<1> QED
  BY <1>5, <1>7, <1>9

\* What resize is called with.
LEMMA RehashSizesFit ==
    ASSUME NEW tb, Sound(tb), NEW ek
    PROVE  RehashSizes(tb, ek).array \in Nat /\ RehashSizes(tb, ek).nodes \in Int
<1> DEFINE used     == UsedInts(tb, ek)
           computed == ComputeSize(used)
           adjusted == AdjustASize(tb, computed, ek)
           extra    == adjusted - computed
           low      == Cardinality({u \in used : u[1] <= computed})
           nh       == TotalUse(tb) - low - extra
           wanted   == IF extra > 0 THEN AdjustASize(tb, adjusted + extra, ek)
                                    ELSE computed
           old      == Len(tb.array)
           nasize   == IF wanted > old /\ old > 0 THEN Max({wanted, 2 * old})
                                                  ELSE wanted
<1>1. IsFiniteSet(used) /\ TotalUse(tb) \in Int
  BY UsedIntsFinite
<1>2. computed \in Nat
  BY <1>1, ComputeSizeFits
<1>3. low \in Nat
  BY <1>1, FS_Subset, FS_CardinalityType
<1>4. RehashSizes(tb, ek) =
        [array |-> nasize,
         nodes |-> IF nh <= Size(tb.nodes) /\ nasize <= old
                   THEN Size(tb.nodes) + 1 ELSE Max({nh, 0})]
  BY DEF RehashSizes
<1> HIDE DEF used, low
<1>5. adjusted \in Nat
  BY <1>2, AdjustASizeFits
<1>6. extra \in Int /\ nh \in Int
  BY <1>1, <1>2, <1>3, <1>5
<1>7. wanted \in Nat
  <2>1. CASE extra > 0
    <3>1. adjusted + extra \in Nat
      BY <1>5, <1>6, <2>1
    <3> HIDE DEF extra, adjusted
    <3> QED
      BY <2>1, <3>1, AdjustASizeFits
  <2> QED
    BY <1>2, <2>1
<1>8. old \in Nat /\ Size(tb.nodes) \in Nat
  BY SizeOf DEF Sound, TableSet
<1> HIDE DEF computed, adjusted, extra, nh, wanted, old
<1>9. nasize \in Nat
  <2>1. Max({wanted, 2 * old}) \in {wanted, 2 * old}
    <3>1. \A x \in {wanted, 2 * old} : x <= wanted + 2 * old
      BY <1>7, <1>8
    <3> QED
      BY <1>7, <1>8, <3>1, GreatestOf
  <2> QED
    BY <1>7, <1>8, <2>1
<1> HIDE DEF nasize
<1>10. Max({nh, 0}) \in Int
  <2>1. nh <= IF nh > 0 THEN nh ELSE 0
    BY <1>6
  <2>2. Max({nh, 0}) \in {nh, 0}
    BY <1>6, <2>1, GreatestOf
  <2> QED
    BY <1>6, <2>2
<1> QED
  BY <1>4, <1>8, <1>9, <1>10

\* No node carries a key.
Free(tb) == \A p \in DOMAIN tb.nodes : tb.nodes[p] = FreeNode

LEMMA ResizedSound ==
    ASSUME NEW tb, Sound(tb), NEW nasize \in Nat, NEW nh \in Int
    PROVE  LET w == Resized(tb, nasize, nh) IN
           /\ Sound(w) /\ Free(w) /\ Len(w.array) = nasize
           /\ w.array = [i \in 1 .. nasize |->
                            IF i <= Len(tb.array) THEN tb.array[i] ELSE Nil]
<1> DEFINE arr == [i \in 1 .. nasize |->
                     IF i <= Len(tb.array) THEN tb.array[i] ELSE Nil]
           nodes == NodeVector(nh)
           w == Resized(tb, nasize, nh)
<1>1. w = [array |-> arr, nodes |-> nodes, lastfree |-> Size(nodes)]
  BY DEF Resized
<1>2. /\ nodes \in Vectors /\ Size(nodes) \in Nat
      /\ \A p \in DOMAIN nodes : nodes[p] = FreeNode
      /\ \E b \in 0 .. Size(nodes) : Size(nodes) \in {0, Power(b)}
      /\ DOMAIN nodes = 0 .. Size(nodes) - 1
  BY NodeVectorFree, SizeOf
<1>3. Chained(nodes)
  BY <1>2, FreeChained
<1>4. tb.array \in Seq(Values) /\ Len(tb.array) \in Nat /\ DOMAIN tb.array = 1 .. Len(tb.array)
      /\ \A i \in DOMAIN tb.array : tb.array[i] # Nil => i \in IntKeys
  BY DEF Sound, TableSet
<1>5. arr \in Seq(Values) /\ Len(arr) = nasize
      /\ \A i \in DOMAIN arr : arr[i] # Nil => i \in IntKeys
  <2>1. \A i \in 1 .. nasize : arr[i] \in Values /\ (arr[i] # Nil => i \in IntKeys)
    BY <1>4 DEF Values
  <2>2. arr \in [1 .. nasize -> Values]
    BY <2>1
  <2>3. DOMAIN arr = 1 .. nasize
    OBVIOUS
  <2> HIDE DEF arr
  <2>4. arr \in Seq(Values)
    BY <2>2
  <2> QED
    BY <2>1, <2>3, <2>4
<1> HIDE DEF arr, nodes, w
<1>6. w.array = arr /\ w.nodes = nodes /\ w.lastfree = Size(nodes) /\ w \in TableSet
  BY <1>1, <1>2, <1>5 DEF TableSet
<1>7. \A p \in DOMAIN w.nodes : ~(p >= w.lastfree)
  BY <1>2, <1>6
<1>8. Sound(w)
  BY <1>2, <1>3, <1>5, <1>6, <1>7 DEF Sound
<1>9. Free(w)
  BY <1>2, <1>6 DEF Free
<1> QED
  BY <1>5, <1>6, <1>8, <1>9 DEF arr, w

LEMMA WithNodesSound ==
    ASSUME NEW tb, Sound(tb)
    PROVE  LET w == WithNodes(tb) IN
           /\ Sound(w) /\ Size(w.nodes) # 0 /\ w.array = tb.array
           /\ Pairs(w.nodes) = Pairs(tb.nodes)
           /\ Size(tb.nodes) = 0 => Free(w) /\ Free(tb)
           /\ Size(tb.nodes) # 0 => w = tb
<1> DEFINE nodes == NodeVector(2)
           w == WithNodes(tb)
<1>1. CASE Size(tb.nodes) # 0
  BY <1>1 DEF WithNodes
<1>2. CASE Size(tb.nodes) = 0
  <2>1. w = [[tb EXCEPT !.nodes = nodes] EXCEPT !.lastfree = Size(nodes)]
    BY <1>2 DEF WithNodes
  <2>2. /\ nodes \in Vectors /\ Size(nodes) \in Nat /\ Size(nodes) # 0
        /\ \A p \in DOMAIN nodes : nodes[p] = FreeNode
        /\ \E b \in 0 .. Size(nodes) : Size(nodes) \in {0, Power(b)}
        /\ DOMAIN nodes = 0 .. Size(nodes) - 1
    <3>1. PICK n \in Int : n = 2 /\ n > 0
      OBVIOUS
    <3>2. nodes = NodeVector(n)
      BY <3>1
    <3> HIDE DEF nodes
    <3>3. /\ nodes \in Vectors /\ Size(nodes) # 0
          /\ \A p \in DOMAIN nodes : nodes[p] = FreeNode
          /\ \E b \in 0 .. Size(nodes) : Size(nodes) \in {0, Power(b)}
      BY <3>1, <3>2, NodeVectorFree
    <3> QED
      BY <3>3, SizeOf
  <2>3. Chained(nodes) /\ Pairs(nodes) = {}
    BY <2>2, FreeChained
  <2>4. tb \in TableSet
    BY DEF Sound
  <2> HIDE DEF nodes, w
  <2>5. w.nodes = nodes /\ w.lastfree = Size(nodes) /\ w.array = tb.array /\ w \in TableSet
    BY <2>1, <2>2, <2>4 DEF TableSet
  <2>6. \A p \in DOMAIN w.nodes : ~(p >= w.lastfree)
    BY <2>2, <2>5
  <2>7. Sound(w)
    BY <2>2, <2>3, <2>5, <2>6 DEF Sound
  <2>8. DOMAIN tb.nodes = {}
    BY <1>2, <2>4, SizeOf DEF TableSet
  <2>9. Pairs(tb.nodes) = {}
    BY <2>8 DEF Pairs
  <2> QED
    BY <1>2, <2>2, <2>3, <2>5, <2>7, <2>8, <2>9 DEF Free, w
<1> QED
  BY <1>1, <1>2

\* tb and w differ in the values their slots hold only.
SameKeys(tb, w) ==
    /\ DOMAIN w.nodes = DOMAIN tb.nodes /\ Len(w.array) = Len(tb.array)
    /\ \A p \in DOMAIN tb.nodes : w.nodes[p].key = tb.nodes[p].key

LEMMA SameKeysFind ==
    ASSUME NEW tb, NEW w, Sound(tb), Sound(w), SameKeys(tb, w), NEW k \in Keys
    PROVE  /\ InArray(w, k) <=> InArray(tb, k)
           /\ FindNode(w.nodes, k) = FindNode(tb.nodes, k)
           /\ FindIndex(w, k) = FindIndex(tb, k)
<1>1. InArray(w, k) <=> InArray(tb, k)
  BY DEF InArray, SameKeys
<1>2. /\ tb.nodes \in Vectors /\ Chained(tb.nodes)
      /\ w.nodes \in Vectors /\ Chained(w.nodes)
  BY DEF Sound, TableSet
<1>3. FindNode(w.nodes, k) = FindNode(tb.nodes, k)
  <2>1. CASE \E p \in DOMAIN tb.nodes : tb.nodes[p].key = k
    BY <1>2, <2>1, FindsKey DEF SameKeys
  <2>2. CASE \A p \in DOMAIN tb.nodes : tb.nodes[p].key # k
    BY <1>2, <2>2, FindsNone DEF SameKeys
  <2> QED
    BY <2>1, <2>2
<1> QED
  BY <1>1, <1>3 DEF FindIndex, SameKeys

\* A write in place: the key holds the value, and nothing else changes.
Rewrites(tb, w, k, v) ==
    /\ Sound(w) /\ SameKeys(tb, w)
    /\ Get(w, k) = v
    /\ \A k2 \in Keys : k2 # k => Get(w, k2) = Get(tb, k2)
    /\ \A k2 \in Keys : k2 # k /\ Absent(tb, k2) => Absent(w, k2)
    /\ \A i \in DOMAIN tb.array : i # k => w.array[i] = tb.array[i]
    /\ \A p \in DOMAIN tb.nodes :
          tb.nodes[p].key # k => w.nodes[p].val = tb.nodes[p].val
    /\ InArray(tb, k) => w.nodes = tb.nodes /\ w.array[k] = v
    /\ ~InArray(tb, k) => /\ w.array = tb.array
                          /\ \A p \in DOMAIN tb.nodes :
                                tb.nodes[p].key = k => w.nodes[p].val = v

LEMMA ArrayWritten ==
    ASSUME NEW tb, Sound(tb), NEW k \in Keys, NEW v \in Values, InArray(tb, k)
    PROVE  Rewrites(tb, [tb EXCEPT !.array[k] = v], k, v)
<1> DEFINE w == [tb EXCEPT !.array[k] = v]
<1>1. /\ tb \in TableSet /\ tb.array \in Seq(Values) /\ k \in 1 .. Len(tb.array)
      /\ Len(tb.array) \in Nat /\ DOMAIN tb.array = 1 .. Len(tb.array) /\ k \in IntKeys
  BY IntKeysAre DEF Sound, TableSet, InArray
<1>2. w = [tb EXCEPT !.array = [tb.array EXCEPT ![k] = v]]
  BY <1>1 DEF TableSet
<1>3. [tb.array EXCEPT ![k] = v] \in Seq(Values)
  BY <1>1, ExceptSeq
<1> HIDE DEF w
<1>4. /\ w.array = [tb.array EXCEPT ![k] = v] /\ w.nodes = tb.nodes
      /\ w.lastfree = tb.lastfree /\ w \in TableSet
  BY <1>1, <1>2, <1>3 DEF TableSet
<1>5. Len(w.array) = Len(tb.array) /\ DOMAIN w.array = DOMAIN tb.array /\ w.array[k] = v
      /\ \A i \in DOMAIN tb.array : i # k => w.array[i] = tb.array[i]
  BY <1>1, <1>4, ExceptSeq
<1>6. \A i \in DOMAIN w.array : w.array[i] # Nil => i \in IntKeys
  BY <1>1, <1>5 DEF Sound
<1>7. Sound(w)
  BY <1>4, <1>6 DEF Sound
<1>8. SameKeys(tb, w)
  BY <1>4, <1>5 DEF SameKeys
<1>9. \A k2 \in Keys : InArray(w, k2) <=> InArray(tb, k2)
  BY <1>5 DEF InArray
<1>10. \A k2 \in Keys : k2 # k => Get(w, k2) = Get(tb, k2)
  BY <1>4, <1>5, <1>7, <1>9, GetIs
<1>11. Get(w, k) = v
  BY <1>5, <1>7, <1>9, GetIs
<1>12. \A k2 \in Keys : k2 # k /\ Absent(tb, k2) => Absent(w, k2)
  BY <1>4, <1>5, <1>9, GetIs DEF Absent
<1>13. Rewrites(tb, w, k, v)
  BY <1>4, <1>5, <1>7, <1>8, <1>10, <1>11, <1>12 DEF Rewrites
<1> QED
  BY <1>13 DEF w

LEMMA NodeWritten ==
    ASSUME NEW tb, Sound(tb), NEW k \in Keys, NEW v \in Values, ~InArray(tb, k),
           NEW p \in DOMAIN tb.nodes, tb.nodes[p].key = k
    PROVE  Rewrites(tb, [tb EXCEPT !.nodes[p].val = v], k, v)
<1> DEFINE w == [tb EXCEPT !.nodes[p].val = v]
           node == [tb.nodes[p] EXCEPT !.val = v]
           nodes == [tb.nodes EXCEPT ![p] = node]
<1>1. /\ tb \in TableSet /\ tb.nodes \in Vectors /\ Chained(tb.nodes)
      /\ tb.nodes \in [DOMAIN tb.nodes -> NodeType]
      /\ Size(tb.nodes) \in Nat /\ DOMAIN tb.nodes = 0 .. Size(tb.nodes) - 1
  BY SizeOf DEF Sound, TableSet
<1>2. w = [tb EXCEPT !.nodes = nodes]
  BY <1>1 DEF TableSet
<1>3. node \in NodeType /\ node.key = tb.nodes[p].key /\ node.next = tb.nodes[p].next
      /\ node.val = v
  BY <1>1 DEF NodeType, Values
<1> HIDE DEF node
<1>4. nodes \in [0 .. Size(tb.nodes) - 1 -> NodeType]
  BY <1>1, <1>3
<1>5. /\ DOMAIN nodes = DOMAIN tb.nodes /\ nodes[p] = node
      /\ \A q \in DOMAIN tb.nodes : q # p => nodes[q] = tb.nodes[q]
  BY <1>1
<1> HIDE DEF nodes, w
<1>6. nodes \in Vectors /\ Size(nodes) = Size(tb.nodes)
  BY <1>1, <1>4, VectorOf
<1>7. \A q \in DOMAIN tb.nodes : /\ nodes[q].key = tb.nodes[q].key
                                 /\ nodes[q].next = tb.nodes[q].next
  BY <1>3, <1>5
<1>8. Chained(nodes)
  <2>1. PICK n, d : Linked(tb.nodes, d, n)
    BY <1>1 DEF Chained
  <2>2. \A q \in DOMAIN tb.nodes :
           /\ Occupied(nodes, q) <=> Occupied(tb.nodes, q)
           /\ Main(nodes, q) = Main(tb.nodes, q)
           /\ \A r : Links(nodes, q, r) <=> Links(tb.nodes, q, r)
    BY <1>5, <1>6, <1>7 DEF Occupied, Main, Links, MainPosition
  <2>3. \A q \in DOMAIN tb.nodes : ~Occupied(tb.nodes, q) => q # p
    BY KeysAssumption DEF Occupied
  <2>4. Linked(nodes, d, n)
    BY <1>5, <1>6, <1>7, <2>1, <2>2, <2>3 DEF Linked
  <2> QED
    BY <2>4 DEF Chained
<1>9. w.array = tb.array /\ w.nodes = nodes /\ w.lastfree = tb.lastfree /\ w \in TableSet
  BY <1>1, <1>2, <1>6 DEF TableSet
<1>10. Sound(w)
  BY <1>5, <1>6, <1>7, <1>8, <1>9 DEF Sound
<1>11. SameKeys(tb, w)
  BY <1>5, <1>7, <1>9 DEF SameKeys
<1>12. \A q \in DOMAIN tb.nodes : tb.nodes[q].key = k => q = p
  BY <1>1, FindsKey
<1>13. \A k2 \in Keys : /\ InArray(w, k2) <=> InArray(tb, k2)
                        /\ FindNode(nodes, k2) = FindNode(tb.nodes, k2)
  BY <1>9, <1>10, <1>11, SameKeysFind
<1>14. FindNode(nodes, k) = p
  BY <1>1, <1>13, FindsKey
<1>15. p # -1
  BY <1>1
<1>16. Get(w, k) = v
  BY <1>3, <1>5, <1>9, <1>10, <1>13, <1>14, <1>15, GetIs DEF NodeGet
<1>17. ASSUME NEW k2 \in Keys, k2 # k
       PROVE  Get(w, k2) = Get(tb, k2)
  <2>1. InArray(tb, k2) => Get(w, k2) = Get(tb, k2)
    BY <1>9, <1>10, <1>13, GetIs
  <2>2. NodeGet(nodes, k2) = NodeGet(tb.nodes, k2)
    <3>1. FindNode(tb.nodes, k2) # -1 => /\ FindNode(tb.nodes, k2) \in DOMAIN tb.nodes
                                         /\ FindNode(tb.nodes, k2) # p
      BY <1>1, <1>17, NodeGetsPair
    <3> QED
      BY <1>5, <1>13, <3>1 DEF NodeGet
  <2> QED
    BY <1>9, <1>10, <1>13, <2>1, <2>2, GetIs
<1>18. \A k2 \in Keys : Absent(tb, k2) => Absent(w, k2)
  BY <1>5, <1>7, <1>9, <1>13 DEF Absent
<1>19. \A q \in DOMAIN tb.nodes : /\ tb.nodes[q].key # k => nodes[q].val = tb.nodes[q].val
                                  /\ tb.nodes[q].key = k => nodes[q].val = v
  BY <1>3, <1>5, <1>12
<1>20. Rewrites(tb, w, k, v)
  BY <1>9, <1>10, <1>11, <1>16, <1>17, <1>18, <1>19 DEF Rewrites
<1> QED
  BY <1>20 DEF w

LEMMA WrittenRewrites ==
    ASSUME NEW tb, Sound(tb), NEW k \in Keys, NEW v \in Values, HasPlace(tb, k)
    PROVE  Rewrites(tb, Written(tb, k, v), k, v)
<1>1. CASE InArray(tb, k)
  BY <1>1, ArrayWritten DEF Written
<1>2. CASE ~InArray(tb, k)
  <2>1. FindNode(tb.nodes, k) \in DOMAIN tb.nodes
        /\ tb.nodes[FindNode(tb.nodes, k)].key = k
    BY <1>2, NodeGetsPair DEF HasPlace, Sound, TableSet
  <2> QED
    BY <1>2, <2>1, NodeWritten DEF Written
<1> QED
  BY <1>1, <1>2

\* A new node: k holds v if the array part does not cover it.
Gains(tb, w, k, v) ==
    /\ Sound(w) /\ w.array = tb.array
    /\ Pairs(w.nodes) = Pairs(tb.nodes) \cup {<<k, v>>}
    /\ ~InArray(tb, k) => Get(w, k) = v
    /\ \A k2 \in Keys : k2 # k => Get(w, k2) = Get(tb, k2)
    /\ \A k2 \in Keys : k2 # k /\ Absent(tb, k2) => Absent(w, k2)

NoNode(nodes, k) == \A p \in DOMAIN nodes : nodes[p].key # k

LEMMA PairsGive ==
    ASSUME NEW nodes \in Vectors, Chained(nodes), NEW after \in Vectors, Chained(after),
           NEW k \in Keys, NEW v, Pairs(after) = Pairs(nodes) \cup {<<k, v>>},
           NEW k2 \in Keys, k2 # k
    PROVE  /\ NodeGet(after, k2) = NodeGet(nodes, k2)
           /\ NoNode(nodes, k2) => NoNode(after, k2)
<1>1. \A x : <<k2, x>> \in Pairs(after) <=> <<k2, x>> \in Pairs(nodes)
  OBVIOUS
<1>2. NodeGet(after, k2) = NodeGet(nodes, k2)
  <2>1. CASE \E x : <<k2, x>> \in Pairs(nodes)
    BY <1>1, <2>1, NodeGetsPair
  <2>2. CASE \A x : <<k2, x>> \notin Pairs(nodes)
    BY <1>1, <2>2, NodeGetsPair
  <2> QED
    BY <2>1, <2>2
<1>3. ASSUME NoNode(nodes, k2)
      PROVE  NoNode(after, k2)
  <2>1. \A x : <<k2, x>> \notin Pairs(nodes)
    BY <1>3 DEF Pairs, Occupied, NoNode
  <2> QED
    BY <1>1, <2>1, NodeGetsPair DEF NoNode
<1> QED
  BY <1>2, <1>3

\* The free node is taken, if it is asked for.
LEMMA InstallFills ==
    ASSUME NEW nodes \in Vectors, Chained(nodes), Size(nodes) # 0, NEW k \in Keys, NEW v,
           NEW free \in DOMAIN nodes, nodes[free].key = Nil,
           nodes[MainPosition(nodes, k)].key # Nil
    PROVE  Install(nodes, k, v, free)[free].key # Nil
<1> DEFINE mp == MainPosition(nodes, k)
<1>1. mp \in DOMAIN nodes /\ free # mp
  BY MainInside
<1>2. nodes \in [DOMAIN nodes -> NodeType] /\ k # Nil
  BY SizeOf, KeysAssumption
<1>3. CASE MainPosition(nodes, nodes[mp].key) # mp
  <2> DEFINE node == [nodes[mp] EXCEPT !.next =
                        IF nodes[mp].next = 0 THEN 0 ELSE nodes[mp].next + mp - free]
             prev == Before(nodes, MainPosition(nodes, nodes[mp].key), mp)
             a == [nodes EXCEPT ![prev].next = free - prev]
             b == [a EXCEPT ![free] = node]
             c == [b EXCEPT ![mp] = FreeNode]
             e == [c EXCEPT ![mp].key = k, ![mp].val = v]
  <2>1. Install(nodes, k, v, free) = e
    BY <1>3 DEF Install, Store, MakeRoom
  <2>2. node.key = nodes[mp].key
    BY <1>1, <1>2 DEF NodeType
  <2> HIDE DEF node
  <2>3. DOMAIN a = DOMAIN nodes
    OBVIOUS
  <2> HIDE DEF a
  <2>4. DOMAIN b = DOMAIN nodes /\ b[free] = node
    BY <2>3
  <2> HIDE DEF b
  <2>5. DOMAIN c = DOMAIN nodes /\ c[free] = node
    BY <1>1, <2>4
  <2> HIDE DEF c, mp
  <2>6. e[free] = node
    BY <1>1, <2>5
  <2> QED
    BY <2>1, <2>2, <2>6 DEF mp
<1>4. CASE MainPosition(nodes, nodes[mp].key) = mp
  <2> DEFINE w == ChainBehind(nodes, mp, free)
  <2>1. Install(nodes, k, v, free) = Store(w, free, k, v)
    BY <1>4 DEF Install
  <2>2. DOMAIN w = DOMAIN nodes
    BY DEF ChainBehind
  <2>3. \E x, y : w[free] = [nodes[free] EXCEPT !.next = x]
    BY <1>1 DEF ChainBehind
  <2> HIDE DEF w
  <2>4. DOMAIN w[free] = {"key", "val", "next"}
    BY <1>2, <2>3 DEF NodeType
  <2>5. Store(w, free, k, v)[free].key = k
    BY <2>2, <2>4 DEF Store
  <2> QED
    BY <1>2, <2>1, <2>5
<1> QED
  BY <1>3, <1>4

LEMMA InstalledGains ==
    ASSUME NEW tb, Sound(tb), Size(tb.nodes) # 0, NEW k \in Keys, NEW v \in Values,
           \A p \in DOMAIN tb.nodes : tb.nodes[p].key # k, HasRoom(tb, k)
    PROVE  Gains(tb, Installed(tb, k, v), k, v)
<1> DEFINE w     == Installed(tb, k, v)
           mp    == MainPosition(tb.nodes, k)
           free  == FreePos(tb.nodes, tb.lastfree)
           after == Install(tb.nodes, k, v, free)
           last  == IF tb.nodes[mp].key = Nil THEN tb.lastfree ELSE free
<1>1. /\ tb \in TableSet /\ tb.nodes \in Vectors /\ Chained(tb.nodes)
      /\ Size(tb.nodes) \in Nat /\ DOMAIN tb.nodes = 0 .. Size(tb.nodes) - 1
      /\ tb.lastfree \in Nat /\ tb.lastfree <= Size(tb.nodes)
  BY SizeOf DEF Sound, TableSet
<1>2. /\ free # -1 => /\ free \in DOMAIN tb.nodes /\ tb.nodes[free].key = Nil
                      /\ free < tb.lastfree
      /\ \A p \in DOMAIN tb.nodes : free < p /\ p < tb.lastfree => tb.nodes[p].key # Nil
  BY <1>1, FreePosFits
<1>3. tb.nodes[mp].key # Nil => free # -1
  BY DEF HasRoom
<1>4. mp \in DOMAIN tb.nodes
  BY <1>1, MainInside
<1>5. Adds(tb.nodes, after, k, v)
  BY <1>1, <1>2, <1>3, InstallAdds DEF Values
<1>6. /\ after \in Vectors /\ DOMAIN after = DOMAIN tb.nodes /\ Chained(after)
      /\ Pairs(after) = Pairs(tb.nodes) \cup {<<k, v>>}
      /\ \A p \in DOMAIN tb.nodes : tb.nodes[p].key # Nil => after[p].key # Nil
  BY <1>5 DEF Adds, Occupied
<1>7. w = [[tb EXCEPT !.nodes = after] EXCEPT !.lastfree = last]
  BY <1>1 DEF Installed, TableSet
<1>8. last \in Nat /\ last <= Size(tb.nodes)
  BY <1>1, <1>2, <1>3
<1>9. \A p \in DOMAIN tb.nodes : p >= last => after[p].key # Nil
  <2>1. CASE tb.nodes[mp].key = Nil
    BY <1>6, <2>1 DEF Sound
  <2>2. CASE tb.nodes[mp].key # Nil
    <3>1. after[free].key # Nil
      BY <1>1, <1>2, <1>3, <2>2, InstallFills
    <3>2. \A p \in DOMAIN tb.nodes : p >= tb.lastfree => tb.nodes[p].key # Nil
      BY DEF Sound
    <3>3. ASSUME NEW p \in DOMAIN tb.nodes, p >= last
          PROVE  after[p].key # Nil
      <4>1. p \in Int /\ free \in Int
        BY <1>1, <1>2, <1>3, <2>2
      <4>2. p = free \/ (free < p /\ p < tb.lastfree) \/ p >= tb.lastfree
        BY <1>1, <2>2, <3>3, <4>1
      <4> QED
        BY <1>2, <1>6, <3>1, <3>2, <4>2
    <3> QED
      BY <3>3
  <2> QED
    BY <2>1, <2>2
<1> HIDE DEF w, after, last, free
<1>10. /\ w.nodes = after /\ w.lastfree = last /\ w.array = tb.array /\ w \in TableSet
  BY <1>1, <1>6, <1>7, <1>8 DEF TableSet
<1>11. Size(after) = Size(tb.nodes)
  BY <1>6 DEF Size
<1>12. Sound(w)
  BY <1>6, <1>8, <1>9, <1>10, <1>11 DEF Sound
<1>13. \A k2 \in Keys : InArray(w, k2) <=> InArray(tb, k2)
  BY <1>10 DEF InArray
<1>14. NodeGet(after, k) = v
  BY <1>6, NodeGetsPair
<1>15. ~InArray(tb, k) => Get(w, k) = v
  BY <1>10, <1>12, <1>13, <1>14, GetIs
<1>16. ASSUME NEW k2 \in Keys, k2 # k
       PROVE  /\ Get(w, k2) = Get(tb, k2)
              /\ Absent(tb, k2) => Absent(w, k2)
  <2>1. /\ NodeGet(after, k2) = NodeGet(tb.nodes, k2)
        /\ (\A p \in DOMAIN tb.nodes : tb.nodes[p].key # k2) =>
               \A p \in DOMAIN after : after[p].key # k2
    <3> DEFINE n == tb.nodes
    <3>1. n \in Vectors /\ Chained(n) /\ Pairs(after) = Pairs(n) \cup {<<k, v>>}
      BY <1>1, <1>6
    <3> HIDE DEF n
    <3>2. NodeGet(after, k2) = NodeGet(n, k2)
      BY <1>6, <1>16, <3>1, PairsGive
    <3>3. NoNode(n, k2) => NoNode(after, k2)
      BY <1>6, <1>16, <3>1, PairsGive
    <3> QED
      BY <3>2, <3>3 DEF n, NoNode
  <2> QED
    BY <1>10, <1>12, <1>13, <2>1, GetIs DEF Absent
<1> QED
  BY <1>6, <1>10, <1>12, <1>15, <1>16 DEF Gains, w

\* The slots, from 0 through both parts.
Last(tb)     == Len(tb.array) + Size(tb.nodes)
SlotCall(tb, j) == Call(Slot(tb, j).key, Slot(tb, j).val)

LEMMA SlotIs ==
    ASSUME NEW tb, Sound(tb), NEW j \in 0 .. Last(tb) - 1
    PROVE  /\ j < Len(tb.array) => /\ j + 1 \in DOMAIN tb.array
                                   /\ Slot(tb, j).key = j + 1
                                   /\ Slot(tb, j).val = tb.array[j + 1]
           /\ j >= Len(tb.array) => /\ j - Len(tb.array) \in DOMAIN tb.nodes
                                    /\ Slot(tb, j).key = tb.nodes[j - Len(tb.array)].key
                                    /\ Slot(tb, j).val = tb.nodes[j - Len(tb.array)].val
           /\ Slot(tb, j).val \in Values
           /\ Slot(tb, j).val # Nil => Slot(tb, j).key \in Keys
           /\ Slot(tb, j).val # Nil =>
                 SlotCall(tb, j) \in CallType /\ ~SlotCall(tb, j).placing
<1>1. /\ tb.array \in Seq(Values) /\ tb.nodes \in Vectors /\ Chained(tb.nodes)
      /\ Len(tb.array) \in Nat /\ DOMAIN tb.array = 1 .. Len(tb.array)
      /\ tb.nodes \in [DOMAIN tb.nodes -> NodeType]
      /\ Size(tb.nodes) \in Nat /\ DOMAIN tb.nodes = 0 .. Size(tb.nodes) - 1
  BY SizeOf DEF Sound, TableSet
<1>2. CASE j < Len(tb.array)
  <2>1. j + 1 \in DOMAIN tb.array /\ Slot(tb, j) = [key |-> j + 1, val |-> tb.array[j + 1]]
    BY <1>1, <1>2 DEF Slot
  <2>2. tb.array[j + 1] \in Values /\ (tb.array[j + 1] # Nil => j + 1 \in Keys)
    BY <1>1, <2>1, IntKeysAre, SMTT(30) DEF Sound
  <2> QED
    BY <1>1, <1>2, <2>1, <2>2 DEF SlotCall, Call, CallType, Values
<1>3. CASE j >= Len(tb.array)
  <2> DEFINE p == j - Len(tb.array)
  <2>1. p \in DOMAIN tb.nodes
        /\ Slot(tb, j) = [key |-> tb.nodes[p].key, val |-> tb.nodes[p].val]
    BY <1>1, <1>3 DEF Slot, Last
  <2>2. tb.nodes[p] \in NodeType
    BY <1>1, <2>1
  <2>3. tb.nodes[p].val # Nil => tb.nodes[p].key # Nil
    BY <1>1, <2>1 DEF Chained, Linked, Occupied
  <2> HIDE DEF p
  <2>4. tb.nodes[p].val \in Values /\ (tb.nodes[p].val # Nil => tb.nodes[p].key \in Keys)
    BY <2>2, <2>3 DEF NodeType, Values
  <2> QED
    BY <1>1, <1>3, <2>1, <2>4 DEF SlotCall, Call, CallType, Values, p
<1>4. j \in Int /\ Len(tb.array) \in Int
  BY <1>1
<1> QED
  BY <1>2, <1>3, <1>4

\* s calls for the slots from first to last that hold a value, in order; pos
\* says for which.
CallsFor(s, pos, tb, first, last) ==
    /\ s \in Seq(CallType) /\ pos \in [1 .. Len(s) -> first .. last - 1]
    /\ \A i \in 1 .. Len(s) : /\ s[i] = SlotCall(tb, pos[i])
                              /\ Slot(tb, pos[i]).val # Nil
    /\ \A i, j \in 1 .. Len(s) : i # j => pos[i] # pos[j]
    /\ \A j \in first .. last - 1 :
          Slot(tb, j).val # Nil => \E i \in 1 .. Len(s) : pos[i] = j

LEMMA CallsForNone ==
    ASSUME NEW tb, NEW first \in Nat
    PROVE  CallsFor(<<>>, <<>>, tb, first, first)
BY DEF CallsFor

LEMMA CallsForSkips ==
    ASSUME NEW tb, NEW first \in Nat, NEW last \in Nat, first < last,
           NEW s, NEW pos, CallsFor(s, pos, tb, first, last - 1),
           Slot(tb, last - 1).val = Nil
    PROVE  CallsFor(s, pos, tb, first, last)
<1>1. s \in Seq(CallType) /\ pos \in [1 .. Len(s) -> first .. last - 2]
  BY DEF CallsFor
<1>2. pos \in [1 .. Len(s) -> first .. last - 1]
  <2>1. first .. last - 2 \subseteq first .. last - 1
    OBVIOUS
  <2> QED
    BY <1>1, <2>1
<1>3. \A j \in first .. last - 1 : j = last - 1 \/ j \in first .. last - 1 - 1
  OBVIOUS
<1> QED
  BY <1>2, <1>3 DEF CallsFor

LEMMA CallsForAdds ==
    ASSUME NEW tb, NEW first \in Nat, NEW last \in Nat, first < last,
           NEW s, NEW pos, CallsFor(s, pos, tb, first, last - 1),
           Slot(tb, last - 1).val # Nil, SlotCall(tb, last - 1) \in CallType
    PROVE  \E pos2 : CallsFor(Append(s, SlotCall(tb, last - 1)), pos2, tb, first, last)
<1> DEFINE c == SlotCall(tb, last - 1)
           a == Append(s, c)
           n == Len(s)
           pos2 == [i \in 1 .. n + 1 |-> IF i = n + 1 THEN last - 1 ELSE pos[i]]
<1>1. /\ s \in Seq(CallType) /\ n \in Nat /\ pos \in [1 .. n -> first .. last - 2]
      /\ \A i \in 1 .. n : /\ s[i] = SlotCall(tb, pos[i])
                           /\ Slot(tb, pos[i]).val # Nil
      /\ \A i, j \in 1 .. n : i # j => pos[i] # pos[j]
      /\ \A j \in first .. last - 2 : Slot(tb, j).val # Nil => \E i \in 1 .. n : pos[i] = j
  BY DEF CallsFor
<1>2. c \in CallType
  OBVIOUS
<1> HIDE DEF c
<1>3. /\ a \in Seq(CallType) /\ Len(a) = n + 1 /\ a[n + 1] = c
      /\ \A i \in 1 .. n : a[i] = s[i]
  BY <1>1, <1>2, AppendProperties
<1> HIDE DEF a, n
<1>4. \A i \in 1 .. n + 1 : i = n + 1 \/ i \in 1 .. n
  BY <1>1
<1>5. /\ DOMAIN pos2 = 1 .. n + 1 /\ pos2[n + 1] = last - 1
      /\ \A i \in 1 .. n : pos2[i] = pos[i] /\ pos2[i] # last - 1
  BY <1>1
<1>6. pos2 \in [1 .. n + 1 -> first .. last - 1]
  BY <1>1, <1>4
<1> HIDE DEF pos2
<1>7. \A i \in 1 .. n + 1 : /\ a[i] = SlotCall(tb, pos2[i])
                            /\ Slot(tb, pos2[i]).val # Nil
  BY <1>1, <1>3, <1>4, <1>5 DEF c
<1>8. \A i, j \in 1 .. n + 1 : i # j => pos2[i] # pos2[j]
  BY <1>1, <1>4, <1>5
<1>9. \A j \in first .. last - 1 :
         Slot(tb, j).val # Nil => \E i \in 1 .. n + 1 : pos2[i] = j
  <2>1. \A j \in first .. last - 1 : j = last - 1 \/ j \in first .. last - 2
    OBVIOUS
  <2>2. n + 1 \in 1 .. n + 1 /\ 1 .. n \subseteq 1 .. n + 1
    BY <1>1
  <2> QED
    BY <1>1, <1>5, <2>1, <2>2
<1>10. CallsFor(a, pos2, tb, first, last)
  BY <1>3, <1>6, <1>7, <1>8, <1>9 DEF CallsFor
<1> QED
  BY <1>10 DEF a, c

LEMMA CallsFromIs ==
    ASSUME NEW tb, Sound(tb), NEW first \in 0 .. Last(tb)
    PROVE  \E pos : CallsFor(CallsFrom(tb, first), pos, tb, first, Last(tb))
<1> DEFINE last == Last(tb)
           D == Seq(CallType)
           used == {j \in first .. last - 1 : Slot(tb, j).val # Nil}
           F == [i \in Int |-> [s \in D |->
                   IF i - 1 \in used THEN Append(s, SlotCall(tb, i - 1)) ELSE s]]
           Loop(f) == f = [i \in first .. last |->
                             IF i = first THEN <<>>
                             ELSE IF Slot(tb, i - 1).val = Nil THEN f[i - 1]
                             ELSE Append(f[i - 1], SlotCall(tb, i - 1))]
<1>1. last \in Nat /\ first \in Nat /\ first <= last
  BY SizeOf DEF Last, Sound, TableSet
<1>2. \A j \in used : SlotCall(tb, j) \in CallType
  <2>1. used \subseteq 0 .. Last(tb) - 1
    BY <1>1
  <2> QED
    BY <2>1, SlotIs
<1>3. F \in [Int -> [D -> D]]
  BY <1>2
<1>4. \A i \in first + 1 .. last, s \in D :
         F[i][s] = IF Slot(tb, i - 1).val = Nil THEN s ELSE Append(s, SlotCall(tb, i - 1))
  BY <1>1
<1>5. <<>> \in D /\ first \in Int /\ last \in Int
  BY <1>1
<1> HIDE DEF F, used, D
<1>6. PICK f \in [first .. last -> D] : IsLoopUp(f, first, last, <<>>, F)
  BY <1>3, <1>5, RecursionUp
<1>7. ASSUME NEW i \in first .. last
      PROVE  f[i] = IF i = first THEN <<>>
                    ELSE IF Slot(tb, i - 1).val = Nil THEN f[i - 1]
                    ELSE Append(f[i - 1], SlotCall(tb, i - 1))
  <2>1. f[i] = IF i = first THEN <<>> ELSE F[i][f[i - 1]]
    BY <1>6 DEF IsLoopUp
  <2>2. i # first => i \in first + 1 .. last /\ f[i - 1] \in D
    BY <1>1, <1>6
  <2> QED
    BY <1>4, <2>1, <2>2
<1>8. DOMAIN f = first .. last /\ f = [i \in DOMAIN f |-> f[i]]
  BY <1>6
<1>9. Loop(f)
  BY <1>7, <1>8
<1> DEFINE g == CHOOSE h : Loop(h)
<1>10. Loop(g)
  BY <1>9
<1>11. CallsFrom(tb, first) = g[last]
  BY DEF CallsFrom, SlotCall, Last
<1>12. ASSUME NEW i \in first .. last
       PROVE  g[i] = IF i = first THEN <<>>
                     ELSE IF Slot(tb, i - 1).val = Nil THEN g[i - 1]
                     ELSE Append(g[i - 1], SlotCall(tb, i - 1))
  BY <1>10
<1> HIDE DEF g, Loop
<1> DEFINE T == {i \in Int : \E pos : CallsFor(g[i], pos, tb, first, i)}
<1>13. first \in T
  <2>1. g[first] = <<>>
    BY <1>1, <1>12
  <2>2. CallsFor(g[first], <<>>, tb, first, first)
    BY <1>1, <2>1, CallsForNone
  <2> QED
    BY <1>1, <2>2
<1>14. ASSUME NEW i \in first + 1 .. last, i - 1 \in T
       PROVE  i \in T
  <2>1. PICK pos : CallsFor(g[i - 1], pos, tb, first, i - 1)
    BY <1>14
  <2>2. i \in Nat /\ first < i /\ i \in first .. last /\ i # first
        /\ i - 1 \in 0 .. Last(tb) - 1
    BY <1>1
  <2>3. CASE Slot(tb, i - 1).val = Nil
    <3>1. g[i] = g[i - 1]
      BY <1>12, <2>2, <2>3
    <3> QED
      BY <1>1, <2>1, <2>2, <2>3, <3>1, CallsForSkips
  <2>4. CASE Slot(tb, i - 1).val # Nil
    <3>1. g[i] = Append(g[i - 1], SlotCall(tb, i - 1))
      BY <1>12, <2>2, <2>4
    <3>2. SlotCall(tb, i - 1) \in CallType
      BY <2>2, <2>4, SlotIs
    <3>3. \E pos2 : CallsFor(g[i], pos2, tb, first, i)
      BY <1>1, <2>1, <2>2, <2>4, <3>1, <3>2, CallsForAdds
    <3> QED
      BY <2>2, <3>3
  <2> QED
    BY <2>3, <2>4
<1> HIDE DEF T, last
<1>15. first .. last \subseteq T
  <2>1. first \in Int /\ last \in Int
    BY <1>1
  <2> QED
    BY <1>13, <1>14, <2>1, UpwardInduction
<1>16. last \in T
  BY <1>1, <1>15
<1> QED
  BY <1>11, <1>16 DEF T, last

\* A key has one place: the invariant OnePlacePerKey, of any table.
OnePlace(tb) ==
    \A p \in DOMAIN tb.nodes : InArray(tb, tb.nodes[p].key) => tb.nodes[p].val = Nil

\* The slot of an entry is the one that findIndex and get find.
LEMMA SlotOfEntry ==
    ASSUME NEW tb, Sound(tb), OnePlace(tb), NEW j \in 0 .. Last(tb) - 1,
           Slot(tb, j).val # Nil
    PROVE  /\ Slot(tb, j).key \in Keys
           /\ FindIndex(tb, Slot(tb, j).key) = j
           /\ Get(tb, Slot(tb, j).key) = Slot(tb, j).val
<1>1. /\ tb.array \in Seq(Values) /\ tb.nodes \in Vectors /\ Chained(tb.nodes)
      /\ Len(tb.array) \in Nat /\ DOMAIN tb.array = 1 .. Len(tb.array)
      /\ Size(tb.nodes) \in Nat /\ DOMAIN tb.nodes = 0 .. Size(tb.nodes) - 1
  BY SizeOf DEF Sound, TableSet
<1>2. Slot(tb, j).key \in Keys
  BY SlotIs
<1>3. CASE j < Len(tb.array)
  <2>1. j + 1 \in DOMAIN tb.array /\ Slot(tb, j).key = j + 1
        /\ Slot(tb, j).val = tb.array[j + 1]
    BY <1>3, SlotIs
  <2>2. InArray(tb, j + 1)
    BY <1>1, <2>1 DEF InArray, Sound
  <2>3. FindIndex(tb, j + 1) = j
    BY <1>1, <2>2 DEF FindIndex
  <2> QED
    BY <1>2, <2>1, <2>2, <2>3, GetIs
<1>4. CASE j >= Len(tb.array)
  <2> DEFINE p == j - Len(tb.array)
             k == Slot(tb, j).key
  <2>1. p \in DOMAIN tb.nodes /\ k = tb.nodes[p].key /\ Slot(tb, j).val = tb.nodes[p].val
    BY <1>4, SlotIs
  <2>2. p \in Nat /\ j = Len(tb.array) + p
    BY <1>1, <1>4
  <2> HIDE DEF p, k
  <2>3. ~InArray(tb, k)
    BY <2>1 DEF OnePlace
  <2>4. FindNode(tb.nodes, k) = p
    BY <1>1, <1>2, <2>1, FindsKey DEF k
  <2>5. FindIndex(tb, k) = j
    BY <2>2, <2>3, <2>4 DEF FindIndex
  <2>6. Get(tb, k) = tb.nodes[p].val
    BY <2>2, <2>3, <2>4 DEF Get
  <2> QED
    BY <1>2, <2>1, <2>5, <2>6 DEF k
<1> QED
  BY <1>1, <1>3, <1>4

LEMMA EntryHasSlot ==
    ASSUME NEW tb, Sound(tb), NEW k \in Keys
    PROVE  /\ FindIndex(tb, k) # -1 => /\ FindIndex(tb, k) \in 0 .. Last(tb) - 1
                                       /\ Slot(tb, FindIndex(tb, k)).key = k
                                       /\ Slot(tb, FindIndex(tb, k)).val = Get(tb, k)
           /\ Get(tb, k) # Nil => FindIndex(tb, k) # -1
           /\ FindIndex(tb, k) # -1 <=> HasPlace(tb, k)
           /\ FindIndex(tb, k) \in Int /\ FindIndex(tb, k) >= -1
<1>1. /\ tb.array \in Seq(Values) /\ tb.nodes \in Vectors /\ Chained(tb.nodes)
      /\ Len(tb.array) \in Nat /\ DOMAIN tb.array = 1 .. Len(tb.array)
      /\ Size(tb.nodes) \in Nat /\ DOMAIN tb.nodes = 0 .. Size(tb.nodes) - 1
  BY SizeOf DEF Sound, TableSet
<1>2. CASE InArray(tb, k)
  <2>1. k \in DOMAIN tb.array /\ Get(tb, k) = tb.array[k]
    BY <1>2, GetIs
  <2>2. k - 1 \in 0 .. Last(tb) - 1 /\ k - 1 < Len(tb.array) /\ FindIndex(tb, k) = k - 1
        /\ k - 1 # -1 /\ k - 1 + 1 = k
    BY <1>1, <1>2, <2>1 DEF Last, FindIndex
  <2> QED
    BY <1>2, <2>1, <2>2, SlotIs DEF HasPlace
<1>3. CASE ~InArray(tb, k) /\ FindNode(tb.nodes, k) = -1
  BY <1>3 DEF FindIndex, Get, HasPlace
<1>4. CASE ~InArray(tb, k) /\ FindNode(tb.nodes, k) # -1
  <2> DEFINE p == FindNode(tb.nodes, k)
             j == Len(tb.array) + p
  <2>1. p \in DOMAIN tb.nodes /\ tb.nodes[p].key = k
    BY <1>1, <1>4, NodeGetsPair
  <2>2. FindIndex(tb, k) = j /\ Get(tb, k) = tb.nodes[p].val
    BY <1>4 DEF FindIndex, Get
  <2> HIDE DEF p
  <2>3. j \in 0 .. Last(tb) - 1 /\ j >= Len(tb.array) /\ j - Len(tb.array) = p /\ j # -1
    BY <1>1, <2>1, SMTT(30) DEF Last
  <2> HIDE DEF j
  <2> QED
    BY <1>4, <2>1, <2>2, <2>3, SlotIs DEF HasPlace
<1> QED
  BY <1>2, <1>3, <1>4

\* An absent key has no slot with a value, and no place but in the array part.
LEMMA AbsentHasNoSlot ==
    ASSUME NEW tb, Sound(tb), NEW k \in Keys, Absent(tb, k),
           NEW j \in 0 .. Last(tb) - 1, Slot(tb, j).val # Nil
    PROVE  Slot(tb, j).key # k
<1>1. Len(tb.array) \in Nat /\ DOMAIN tb.array = 1 .. Len(tb.array)
  BY DEF Sound, TableSet
<1>2. CASE j < Len(tb.array)
  <2>1. j + 1 \in DOMAIN tb.array /\ Slot(tb, j).key = j + 1
        /\ tb.array[j + 1] # Nil
    BY <1>2, SlotIs
  <2>2. InArray(tb, j + 1)
    BY <1>1, <2>1 DEF InArray, Sound
  <2> QED
    BY <2>1, <2>2 DEF Absent
<1>3. CASE j >= Len(tb.array)
  BY <1>3, SlotIs DEF Absent
<1> QED
  BY <1>1, <1>2, <1>3

LEMMA PlacelessIsAbsent ==
    ASSUME NEW tb, Sound(tb), NEW k \in Keys, ~HasPlace(tb, k)
    PROVE  Absent(tb, k) /\ ~InArray(tb, k)
<1>1. tb.nodes \in Vectors /\ Chained(tb.nodes) /\ DOMAIN tb.nodes = 0 .. Size(tb.nodes) - 1
  BY SizeOf DEF Sound, TableSet
<1>2. ASSUME NEW p \in DOMAIN tb.nodes, tb.nodes[p].key = k
      PROVE  FALSE
  <2>1. FindNode(tb.nodes, k) = p
    BY <1>1, <1>2, FindsKey
  <2>2. p # -1
    BY <1>1
  <2> QED
    BY <2>1, <2>2 DEF HasPlace
<1> QED
  BY <1>2 DEF HasPlace, Absent

\* A rehash keeps the front of the array part, and no node.
LEMMA ResizedAbsent ==
    ASSUME NEW tb, Sound(tb), NEW nasize \in Nat, NEW nh \in Int, NEW k \in Keys,
           Absent(tb, k)
    PROVE  Absent(Resized(tb, nasize, nh), k)
<1> DEFINE w == Resized(tb, nasize, nh)
<1>1. /\ Free(w) /\ Len(w.array) = nasize
      /\ w.array = [i \in 1 .. nasize |->
                       IF i <= Len(tb.array) THEN tb.array[i] ELSE Nil]
  BY ResizedSound
<1> HIDE DEF w
<1>2. \A p \in DOMAIN w.nodes : w.nodes[p].key # k
  BY <1>1, KeysAssumption DEF Free, FreeNode
<1>3. InArray(w, k) => w.array[k] = Nil
  <2>1. ASSUME InArray(w, k)
        PROVE  w.array[k] = IF k <= Len(tb.array) THEN tb.array[k] ELSE Nil
    <3>1. k \in 1 .. nasize
      BY <1>1, <2>1, IntKeysAre DEF InArray
    <3> QED
      BY <1>1, <3>1
  <2> QED
    BY <2>1 DEF Absent, InArray
<1> QED
  BY <1>2, <1>3 DEF Absent, w

LEMMA DisplacedIs ==
    ASSUME NEW tb, Sound(tb), NEW nasize \in Nat
    PROVE  \E first \in 0 .. Last(tb) :
              /\ \E pos : CallsFor(Displaced(tb, nasize), pos, tb, first, Last(tb))
              /\ first <= nasize /\ first <= Len(tb.array)
              /\ first = nasize \/ first = Len(tb.array)
<1> DEFINE first == Min({nasize, Len(tb.array)})
<1>1. Len(tb.array) \in Nat /\ Size(tb.nodes) \in Nat
  BY SizeOf DEF Sound, TableSet
<1>2. first \in {nasize, Len(tb.array)} /\ first <= nasize /\ first <= Len(tb.array)
  <2> DEFINE T == {nasize, Len(tb.array)}
  <2>1. T \subseteq Nat /\ T # {}
    BY <1>1
  <2>2. nasize \in T /\ Len(tb.array) \in T /\ first = Min(T)
    OBVIOUS
  <2> HIDE DEF T, first
  <2>3. first \in T /\ \A y \in T : first <= y
    BY <2>1, <2>2, LeastOf
  <2> QED
    BY <2>2, <2>3 DEF T
<1>3. Displaced(tb, nasize) = CallsFrom(tb, first)
  BY DEF Displaced
<1> HIDE DEF first
<1>4. first \in 0 .. Last(tb)
  BY <1>1, <1>2 DEF Last
<1>5. \E pos : CallsFor(CallsFrom(tb, first), pos, tb, first, Last(tb))
  BY <1>4, CallsFromIs
<1> QED
  BY <1>2, <1>3, <1>4, <1>5
-----------------------------------------------------------------------------
(* The calls in progress.                                                  *)

\* Above a call that is placing, no other call is for its key.
Places(tb, s) ==
    \A i \in 1 .. Len(s) :
        s[i].placing => /\ Absent(tb, s[i].key)
                        /\ \A j \in 1 .. i - 1 : s[j].key # s[i].key

\* Each call is for a key of its own, which the table does not hold.
Pending(tb, s) ==
    \A i \in 1 .. Len(s) :
        /\ Absent(tb, s[i].key)
        /\ \A j \in 1 .. Len(s) : j # i => s[j].key # s[i].key

\* r is s with the calls d before it and its first call placing.
Deepens(r, d, s) ==
    /\ r \in Seq(CallType) /\ Len(r) = Len(d) + Len(s)
    /\ \A i \in 1 .. Len(d) : r[i] = d[i]
    /\ \A i \in 1 .. Len(s) : /\ r[Len(d) + i].key = s[i].key
                              /\ r[Len(d) + i].val = s[i].val
    /\ \A i \in 2 .. Len(s) : r[Len(d) + i].placing = s[i].placing

Deeper(d, c, s) == d \o <<c>> \o Tail(s)

LEMMA DeeperDeepens ==
    ASSUME NEW d \in Seq(CallType), NEW s \in Seq(CallType), s # <<>>,
           NEW k, NEW v, Head(s).key = k, Head(s).val = v
    PROVE  Deepens(Deeper(d, [Call(k, v) EXCEPT !.placing = TRUE], s), d, s)
<1> DEFINE c == [Call(k, v) EXCEPT !.placing = TRUE]
           a == d \o <<c>>
           r == Deeper(d, c, s)
           n == Len(d)
<1>1. /\ Head(s) \in CallType /\ Tail(s) \in Seq(CallType) /\ Len(Tail(s)) = Len(s) - 1
      /\ \A i \in 1 .. Len(s) - 1 : Tail(s)[i] = s[i + 1]
      /\ Len(s) \in Nat \ {0} /\ Head(s) = s[1] /\ n \in Nat
  BY HeadTailProperties, EmptySeq, LenProperties
<1>2. Call(k, v) \in CallType
  <2>1. k \in Keys /\ v \in Vals \cup {Nil}
    BY <1>1 DEF CallType
  <2> QED
    BY <2>1 DEF CallType, Call
<1>3. c \in CallType /\ c.key = k /\ c.val = v
  <2> DEFINE e == Call(k, v)
  <2>1. e.key = k /\ e.val = v /\ e \in CallType
    BY <1>2 DEF Call
  <2> HIDE DEF e
  <2>2. [e EXCEPT !.placing = TRUE] \in CallType
        /\ [e EXCEPT !.placing = TRUE].key = k /\ [e EXCEPT !.placing = TRUE].val = v
    BY <2>1 DEF CallType
  <2> QED
    BY <2>2 DEF e
<1> HIDE DEF c
<1>4. <<c>> \in Seq(CallType) /\ Len(<<c>>) = 1 /\ <<c>>[1] = c
  BY <1>3
<1>5. a \in Seq(CallType) /\ Len(a) = n + 1
      /\ \A i \in 1 .. n + 1 : a[i] = IF i <= n THEN d[i] ELSE <<c>>[i - n]
  BY <1>4, ConcatProperties
<1> HIDE DEF a
<1>6. r = a \o Tail(s)
  BY DEF Deeper, a
<1>7. /\ r \in Seq(CallType) /\ Len(r) = n + 1 + (Len(s) - 1)
      /\ \A i \in 1 .. n + 1 + (Len(s) - 1) :
            r[i] = IF i <= n + 1 THEN a[i] ELSE Tail(s)[i - (n + 1)]
  <2> DEFINE u == Tail(s)
  <2>1. a \in Seq(CallType) /\ u \in Seq(CallType) /\ r = a \o u
    BY <1>1, <1>5, <1>6
  <2>2. Len(a) = n + 1 /\ Len(u) = Len(s) - 1
    BY <1>1, <1>5
  <2> HIDE DEF u, r, n
  <2>3. /\ r \in Seq(CallType) /\ Len(r) = Len(a) + Len(u)
        /\ \A i \in 1 .. Len(a) + Len(u) :
              r[i] = IF i <= Len(a) THEN a[i] ELSE u[i - Len(a)]
    BY <2>1, ConcatProperties
  <2> QED
    BY <2>2, <2>3 DEF u
<1> HIDE DEF r, n
<1>8. Len(r) = n + Len(s)
  BY <1>1, <1>7
<1>9. \A i \in 1 .. n : r[i] = d[i]
  BY <1>1, <1>5, <1>7
<1>10. r[n + 1] = c
  BY <1>1, <1>4, <1>5, <1>7
<1>11. ASSUME NEW i \in 2 .. Len(s)
       PROVE  r[n + i] = s[i]
  <2>1. /\ n + i \in 1 .. n + 1 + (Len(s) - 1) /\ ~(n + i <= n + 1)
        /\ n + i - (n + 1) = i - 1 /\ i - 1 \in 1 .. Len(s) - 1 /\ i - 1 + 1 = i
    BY <1>1
  <2> QED
    BY <1>1, <1>7, <2>1
<1>12. \A i \in 1 .. Len(s) : i = 1 \/ i \in 2 .. Len(s)
  BY <1>1
<1>13. \A i \in 1 .. Len(s) : r[n + i].key = s[i].key /\ r[n + i].val = s[i].val
  BY <1>1, <1>3, <1>10, <1>11, <1>12
<1> QED
  BY <1>7, <1>8, <1>9, <1>11, <1>13 DEF Deepens, c, r, n

\* An index into r is one into d or one into s.
LEMMA DeepensIndex ==
    ASSUME NEW d \in Seq(CallType), NEW s \in Seq(CallType),
           NEW r, Deepens(r, d, s), NEW i \in 1 .. Len(r)
    PROVE  \/ i \in 1 .. Len(d) /\ r[i] = d[i]
           \/ \E j \in 1 .. Len(s) : /\ i = Len(d) + j
                                     /\ r[i].key = s[j].key /\ r[i].val = s[j].val
                                     /\ j # 1 => r[i].placing = s[j].placing
<1>1. Len(d) \in Nat /\ Len(s) \in Nat /\ Len(r) = Len(d) + Len(s)
  BY DEF Deepens
<1>2. CASE i <= Len(d)
  BY <1>1, <1>2 DEF Deepens
<1>3. CASE i > Len(d)
  <2> DEFINE j == i - Len(d)
  <2>1. j \in 1 .. Len(s) /\ i = Len(d) + j /\ (j # 1 => j \in 2 .. Len(s))
    BY <1>1, <1>3
  <2> HIDE DEF j
  <2> QED
    BY <2>1 DEF Deepens
<1> QED
  BY <1>1, <1>2, <1>3

LEMMA TailIs ==
    ASSUME NEW s \in Seq(CallType), s # <<>>
    PROVE  /\ Tail(s) \in Seq(CallType) /\ Len(Tail(s)) = Len(s) - 1 /\ Len(s) \in Nat
           /\ 1 \in 1 .. Len(s) /\ Head(s) = s[1] /\ Head(s) \in CallType
           /\ \A i \in 1 .. Len(Tail(s)) : /\ i + 1 \in 1 .. Len(s) /\ i + 1 # 1
                                           /\ Tail(s)[i] = s[i + 1]
           /\ \A i \in 1 .. Len(s) : i # 1 => /\ i - 1 \in 1 .. Len(Tail(s))
                                              /\ Tail(s)[i - 1] = s[i]
<1>1. /\ Head(s) \in CallType /\ Tail(s) \in Seq(CallType) /\ Len(Tail(s)) = Len(s) - 1
      /\ \A i \in 1 .. Len(Tail(s)) : Tail(s)[i] = s[i + 1]
      /\ Len(s) \in Nat \ {0} /\ Head(s) = s[1]
  BY HeadTailProperties, EmptySeq
<1>2. \A i \in 1 .. Len(s) : i # 1 => i - 1 \in 1 .. Len(Tail(s)) /\ i - 1 + 1 = i
  BY <1>1
<1> QED
  BY <1>1, <1>2

LEMMA CallOf ==
    ASSUME NEW s \in Seq(CallType), NEW i \in 1 .. Len(s)
    PROVE  s[i].key \in Keys /\ s[i].val \in Values /\ Len(s) \in Nat
<1>1. s[i] \in CallType
  BY ElementOfSeq
<1> QED
  BY <1>1, LenProperties DEF CallType, Values

\* The innermost call returns: w holds nothing more than its key.
LEMMA ReturnKeeps ==
    ASSUME NEW tb, NEW w, NEW s \in Seq(CallType), s # <<>>,
           \A k \in Keys : k # Head(s).key /\ Absent(tb, k) => Absent(w, k)
    PROVE  /\ Places(tb, s) => Places(w, Tail(s))
           /\ Pending(tb, s) => Pending(w, Tail(s))
<1>1. /\ Tail(s) \in Seq(CallType) /\ Len(Tail(s)) = Len(s) - 1 /\ Len(s) \in Nat
      /\ 1 \in 1 .. Len(s) /\ Head(s) = s[1]
      /\ \A i \in 1 .. Len(Tail(s)) : /\ i + 1 \in 1 .. Len(s) /\ i + 1 # 1
                                      /\ Tail(s)[i] = s[i + 1]
  BY TailIs
<1>2. \A i \in 1 .. Len(s) : s[i].key \in Keys
  BY CallOf
<1>3. ASSUME Places(tb, s), NEW i \in 1 .. Len(Tail(s)), Tail(s)[i].placing
      PROVE  /\ Absent(w, Tail(s)[i].key)
             /\ \A j \in 1 .. i - 1 : Tail(s)[j].key # Tail(s)[i].key
  <2>1. s[i + 1].placing /\ i + 1 \in 1 .. Len(s) /\ Tail(s)[i] = s[i + 1]
    BY <1>1, <1>3
  <2>2. Absent(tb, s[i + 1].key) /\ \A j \in 1 .. i + 1 - 1 : s[j].key # s[i + 1].key
    BY <1>3, <2>1 DEF Places
  <2>3. Head(s).key # s[i + 1].key
    BY <1>1, <2>2
  <2>4. Absent(w, s[i + 1].key)
    BY <1>2, <2>1, <2>2, <2>3
  <2>5. \A j \in 1 .. i - 1 : j \in 1 .. Len(Tail(s)) /\ j + 1 \in 1 .. i + 1 - 1
    BY <1>1
  <2> QED
    BY <1>1, <2>1, <2>2, <2>4, <2>5
<1>4. ASSUME Pending(tb, s), NEW i \in 1 .. Len(Tail(s))
      PROVE  /\ Absent(w, Tail(s)[i].key)
             /\ \A j \in 1 .. Len(Tail(s)) : j # i => Tail(s)[j].key # Tail(s)[i].key
  <2>1. i + 1 \in 1 .. Len(s) /\ Tail(s)[i] = s[i + 1] /\ i + 1 # 1
    BY <1>1
  <2>2. Absent(tb, s[i + 1].key) /\ s[1].key # s[i + 1].key
    BY <1>1, <1>4, <2>1 DEF Pending
  <2>3. Absent(w, s[i + 1].key)
    BY <1>1, <1>2, <2>1, <2>2
  <2>4. ASSUME NEW j \in 1 .. Len(Tail(s)), j # i
        PROVE  Tail(s)[j].key # Tail(s)[i].key
    <3>1. j + 1 \in 1 .. Len(s) /\ Tail(s)[j] = s[j + 1] /\ j + 1 # i + 1
      BY <1>1, <2>4
    <3> QED
      BY <1>4, <2>1, <3>1 DEF Pending
  <2> QED
    BY <2>1, <2>3, <2>4
<1> QED
  BY <1>3, <1>4 DEF Places, Pending

\* What a rehash displaces.
LEMMA DisplacedKeys ==
    ASSUME NEW tb, Sound(tb), NEW nasize \in Nat, NEW d, d = Displaced(tb, nasize)
    PROVE  /\ d \in Seq(CallType)
           /\ \A i \in 1 .. Len(d) : /\ d[i].key \in Keys /\ ~d[i].placing
                                     /\ ~Absent(tb, d[i].key)
<1>0. PICK first \in 0 .. Last(tb) : \E pos : CallsFor(d, pos, tb, first, Last(tb))
  BY DisplacedIs
<1>1. PICK pos : CallsFor(d, pos, tb, first, Last(tb))
  BY <1>0
<1>2. ASSUME NEW i \in 1 .. Len(d)
      PROVE  d[i].key \in Keys /\ ~d[i].placing /\ ~Absent(tb, d[i].key)
  <2>1. pos[i] \in 0 .. Last(tb) - 1 /\ d[i] = SlotCall(tb, pos[i])
        /\ Slot(tb, pos[i]).val # Nil
    <3>1. pos[i] \in first .. Last(tb) - 1
      BY <1>1 DEF CallsFor
    <3>2. Last(tb) \in Int
      BY SizeOf DEF Last, Sound, TableSet
    <3> QED
      BY <1>1, <3>1, <3>2 DEF CallsFor
  <2>2. d[i].key = Slot(tb, pos[i]).key /\ d[i].key \in Keys /\ ~d[i].placing
    BY <2>1, SlotIs DEF SlotCall, Call
  <2> QED
    BY <2>1, <2>2, AbsentHasNoSlot
<1> QED
  BY <1>1, <1>2 DEF CallsFor

\* A rehash puts the calls it makes above one that waits, placing.
LEMMA RehashPlaces ==
    ASSUME NEW tb, Sound(tb), NEW s \in Seq(CallType), s # <<>>, Places(tb, s),
           Absent(tb, Head(s).key), NEW nasize \in Nat, NEW nh \in Int,
           NEW r, Deepens(r, Displaced(tb, nasize), s)
    PROVE  Places(Resized(tb, nasize, nh), r)
<1> DEFINE d == Displaced(tb, nasize)
           w == Resized(tb, nasize, nh)
<1>1. /\ d \in Seq(CallType)
      /\ \A i \in 1 .. Len(d) : d[i].key \in Keys /\ ~d[i].placing /\ ~Absent(tb, d[i].key)
  BY DisplacedKeys
<1>2. \A k \in Keys : Absent(tb, k) => Absent(w, k)
  BY ResizedAbsent
<1>3. Head(s) = s[1] /\ Len(s) \in Nat /\ Len(d) \in Nat /\ Deepens(r, d, s)
      /\ \A i \in 1 .. Len(s) : s[i].key \in Keys
  BY <1>1, TailIs, CallOf
<1> HIDE DEF d, w
<1>4. ASSUME NEW i \in 1 .. Len(r), r[i].placing
      PROVE  Absent(w, r[i].key) /\ \A j \in 1 .. i - 1 : r[j].key # r[i].key
  <2>1. PICK m \in 1 .. Len(s) : /\ i = Len(d) + m /\ r[i].key = s[m].key
                                 /\ m # 1 => s[m].placing
    <3>1. i \in 1 .. Len(d) => r[i] # d[i]
      BY <1>1, <1>4, Zenon
    <3>2. \E m \in 1 .. Len(s) : /\ i = Len(d) + m /\ r[i].key = s[m].key
                                 /\ m # 1 => r[i].placing = s[m].placing
      BY <1>1, <1>3, <3>1, DeepensIndex, SMTT(30)
    <3> QED
      BY <1>4, <3>2, Zenon
  <2>2. Absent(tb, s[m].key) /\ \A j \in 1 .. m - 1 : s[j].key # s[m].key
    <3>1. CASE m = 1
      BY <1>3, <3>1
    <3>2. CASE m # 1
      BY <2>1, <3>2 DEF Places
    <3> QED
      BY <3>1, <3>2
  <2>3. Absent(w, r[i].key)
    BY <1>2, <1>3, <2>1, <2>2
  <2>4. ASSUME NEW j \in 1 .. i - 1
        PROVE  r[j].key # r[i].key
    <3>1. CASE j <= Len(d)
      <4>1. j \in 1 .. Len(d) /\ r[j] = d[j]
        BY <1>3, <3>1 DEF Deepens
      <4> QED
        BY <1>1, <2>1, <2>2, <4>1
    <3>2. CASE j > Len(d)
      <4> DEFINE a == j - Len(d)
      <4>1. a \in 1 .. Len(s) /\ a \in 1 .. m - 1 /\ j = Len(d) + a
        BY <1>3, <2>1, <3>2
      <4> HIDE DEF a
      <4>2. r[j].key = s[a].key
        BY <1>3, <4>1 DEF Deepens
      <4> QED
        BY <2>1, <2>2, <4>1, <4>2
    <3> QED
      BY <1>3, <3>1, <3>2
  <2> QED
    BY <2>3, <2>4
<1> QED
  BY <1>4 DEF Places, w

\* installNewHashKey goes on with the call.
LEMMA PlacingKeeps ==
    ASSUME NEW tb, NEW s \in Seq(CallType), s # <<>>, Absent(tb, Head(s).key),
           NEW r, Deepens(r, <<>>, s)
    PROVE  /\ Places(tb, s) => Places(tb, r)
           /\ Pending(tb, s) => Pending(tb, r)
<1>1. /\ Len(r) = Len(s) /\ Head(s) = s[1] /\ Len(s) \in Nat
      /\ \A i \in 1 .. Len(s) : r[i].key = s[i].key
      /\ \A i \in 1 .. Len(s) : i # 1 => i \in 2 .. Len(s) /\ r[i].placing = s[i].placing
  <2>1. Len(<<>>) = 0 /\ Len(s) \in Nat /\ Head(s) = s[1]
    BY TailIs
  <2>2. \A i \in 1 .. Len(s) : 0 + i = i /\ (i # 1 => i \in 2 .. Len(s))
    BY <2>1
  <2> QED
    BY <2>1, <2>2 DEF Deepens
<1>2. ASSUME Places(tb, s), NEW i \in 1 .. Len(r), r[i].placing
      PROVE  Absent(tb, r[i].key) /\ \A j \in 1 .. i - 1 : r[j].key # r[i].key
  <2>1. CASE i = 1
    BY <1>1, <2>1
  <2>2. CASE i # 1
    <3>1. i \in 1 .. Len(s) /\ s[i].placing /\ r[i].key = s[i].key
          /\ \A j \in 1 .. i - 1 : j \in 1 .. Len(s)
      BY <1>1, <1>2, <2>2
    <3> QED
      BY <1>1, <1>2, <3>1 DEF Places
  <2> QED
    BY <2>1, <2>2
<1> QED
  BY <1>1, <1>2 DEF Places, Pending
NodeKeys(tb) == {tb.nodes[p].key : p \in DOMAIN tb.nodes} \ {Nil}

\* The table stores k, which may be new to it.
Stores(tb, w, k, v) ==
    /\ Sound(w) /\ Get(w, k) = v
    /\ \A k2 \in Keys : k2 # k => Get(w, k2) = Get(tb, k2)
    /\ \A k2 \in Keys : k2 # k /\ Absent(tb, k2) => Absent(w, k2)
    /\ OnePlace(tb) => OnePlace(w)
    /\ NodeKeys(w) \subseteq NodeKeys(tb) \cup {k}
    /\ ~InArray(tb, k) => w.array = tb.array

LEMMA RewritesStores ==
    ASSUME NEW tb, Sound(tb), NEW w, NEW k \in Keys, NEW v, Rewrites(tb, w, k, v)
    PROVE  Stores(tb, w, k, v)
<1>1. SameKeys(tb, w) /\ Sound(w)
  BY DEF Rewrites
<1>2. NodeKeys(w) = NodeKeys(tb)
  BY <1>1 DEF NodeKeys, SameKeys
<1>3. ASSUME OnePlace(tb), NEW p \in DOMAIN w.nodes, InArray(w, w.nodes[p].key)
      PROVE  w.nodes[p].val = Nil
  <2>1. /\ p \in DOMAIN tb.nodes /\ w.nodes[p].key = tb.nodes[p].key
        /\ InArray(tb, tb.nodes[p].key)
    BY <1>1, <1>3 DEF SameKeys, InArray
  <2>2. tb.nodes[p].val = Nil
    BY <1>3, <2>1 DEF OnePlace
  <2> QED
    BY <2>1, <2>2 DEF Rewrites
<1> QED
  BY <1>1, <1>2, <1>3 DEF Rewrites, Stores, OnePlace

LEMMA GainsStores ==
    ASSUME NEW tb, Sound(tb), NEW w, NEW k \in Keys, NEW v, Gains(tb, w, k, v),
           ~InArray(tb, k)
    PROVE  Stores(tb, w, k, v)
<1>1. Sound(w) /\ w.array = tb.array /\ Pairs(w.nodes) = Pairs(tb.nodes) \cup {<<k, v>>}
  BY DEF Gains
<1>2. ASSUME NEW p \in DOMAIN w.nodes, w.nodes[p].key # Nil
      PROVE  \/ w.nodes[p].key = k
             \/ \E q \in DOMAIN tb.nodes : /\ tb.nodes[q].key = w.nodes[p].key
                                           /\ tb.nodes[q].val = w.nodes[p].val
  <2>1. <<w.nodes[p].key, w.nodes[p].val>> \in Pairs(w.nodes)
    BY <1>2 DEF Pairs, Occupied
  <2>2. CASE <<w.nodes[p].key, w.nodes[p].val>> \in Pairs(tb.nodes)
    BY <2>2 DEF Pairs
  <2>3. CASE <<w.nodes[p].key, w.nodes[p].val>> = <<k, v>>
    BY <2>3
  <2> QED
    BY <1>1, <2>1, <2>2, <2>3
<1>3. NodeKeys(w) \subseteq NodeKeys(tb) \cup {k}
  BY <1>2 DEF NodeKeys
<1>4. ASSUME OnePlace(tb), NEW p \in DOMAIN w.nodes, InArray(w, w.nodes[p].key)
      PROVE  w.nodes[p].val = Nil
  <2>1. InArray(tb, w.nodes[p].key) /\ w.nodes[p].key # k
    BY <1>1, <1>4 DEF InArray
  <2>2. w.nodes[p].key # Nil
    BY <2>1, IntKeysAre, KeysAssumption DEF InArray
  <2> QED
    BY <1>2, <1>4, <2>1, <2>2 DEF OnePlace
<1> QED
  BY <1>1, <1>3, <1>4 DEF Gains, Stores, OnePlace

\* installNewHashKey, where it need not rehash.
LEMMA PlacedStores ==
    ASSUME NEW tb, Sound(tb), NEW k \in Keys, NEW v \in Values, Absent(tb, k),
           ~InArray(tb, k), HasRoom(WithNodes(tb), k)
    PROVE  Stores(tb, Installed(WithNodes(tb), k, v), k, v)
<1> DEFINE b == WithNodes(tb)
           w == Installed(b, k, v)
<1>1. /\ Sound(b) /\ Size(b.nodes) # 0 /\ b.array = tb.array
      /\ Size(tb.nodes) = 0 => Free(b) /\ Free(tb)
      /\ Size(tb.nodes) # 0 => b = tb
  BY WithNodesSound
<1> HIDE DEF b
<1>2. \A k2 \in Keys : Absent(tb, k2) => Absent(b, k2)
  BY <1>1, KeysAssumption DEF Absent, InArray, Free, FreeNode
<1>3. \A k2 \in Keys : Get(b, k2) = Get(tb, k2)
  <2>1. CASE Size(tb.nodes) = 0
    <3>1. ASSUME NEW k2 \in Keys
          PROVE  NodeGet(b.nodes, k2) = Nil /\ NodeGet(tb.nodes, k2) = Nil
      <4>1. /\ \A p \in DOMAIN b.nodes : b.nodes[p].key # k2
            /\ \A p \in DOMAIN tb.nodes : tb.nodes[p].key # k2
        BY <1>1, <2>1, KeysAssumption DEF Free, FreeNode
      <4> QED
        BY <1>1, <4>1, FindsNone DEF NodeGet, Sound, TableSet
    <3>2. \A k2 \in Keys : InArray(b, k2) <=> InArray(tb, k2)
      BY <1>1 DEF InArray
    <3> QED
      BY <1>1, <3>1, <3>2, GetIs
  <2> QED
    BY <1>1, <2>1
<1>4. ~InArray(b, k) /\ Absent(b, k)
  BY <1>1, <1>2 DEF InArray
<1>5. Gains(b, w, k, v)
  BY <1>1, <1>4, InstalledGains DEF Absent, b
<1> HIDE DEF w
<1>6. Stores(b, w, k, v)
  BY <1>1, <1>4, <1>5, GainsStores
<1>7. NodeKeys(b) = NodeKeys(tb)
  <2>1. CASE Size(tb.nodes) = 0
    BY <1>1, <2>1 DEF NodeKeys, Free, FreeNode
  <2> QED
    BY <1>1, <2>1
<1>8. OnePlace(tb) => OnePlace(b)
  BY <1>1 DEF OnePlace, Free, FreeNode
<1>9. \A k2 \in Keys : k2 # k /\ Absent(tb, k2) => Absent(w, k2)
  BY <1>2, <1>6 DEF Stores
<1>10. \A k2 \in Keys : k2 # k => Get(w, k2) = Get(tb, k2)
  BY <1>3, <1>6 DEF Stores
<1>11. Stores(tb, w, k, v)
  BY <1>1, <1>4, <1>6, <1>7, <1>8, <1>9, <1>10 DEF Stores
<1> QED
  BY <1>11 DEF w, b
-----------------------------------------------------------------------------
(* The inductive invariant, for any table.                                 *)

AtType == [mode : {"idle", "on", "done", "invalid key"}, key : Keys \cup {Nil}, val : Values]

StateOK ==
    /\ Sound(t)
    /\ todo \in Seq(CallType) /\ rehashes \in Nat
    /\ items \in 0 .. MaxHint /\ listed \in 0 .. items
    /\ at \in AtType /\ seen \subseteq Keys

IInv == StateOK /\ Places(t, todo)

\* The three ways on: the innermost call returns, waits for a rehash, or goes
\* on to place its key.
Returns  == /\ todo' = Tail(todo)
            /\ Stores(t, t', Head(todo).key, Head(todo).val)
Rehashes == \E nasize \in Nat, nh \in Int :
               /\ t' = Resized(t, nasize, nh)
               /\ Deepens(todo', Displaced(t, nasize), todo)
PlacesOn == t' = t /\ Deepens(todo', <<>>, todo)

\* The innermost call is of the type, and placing only a key that is absent.
LEMMA HeadIs ==
    ASSUME IInv, todo # <<>>
    PROVE  /\ Head(todo).key \in Keys /\ Head(todo).val \in Values
           /\ Head(todo).placing => Absent(t, Head(todo).key)
<1>1. todo \in Seq(CallType) /\ Head(todo) = todo[1] /\ 1 \in 1 .. Len(todo)
  BY TailIs DEF IInv, StateOK
<1>2. Head(todo).placing => Absent(t, Head(todo).key)
  BY <1>1 DEF IInv, Places
<1>3. Head(todo).key \in Keys /\ Head(todo).val \in Values
  BY <1>1, CallOf
<1> QED
  BY <1>2, <1>3

LEMMA RehashIs ==
    ASSUME IInv, todo # <<>>, Rehash(Head(todo).key, Head(todo).val)
    PROVE  Rehashes /\ rehashes' \in Nat
<1> DEFINE k == Head(todo).key
           v == Head(todo).val
           size == RehashSizes(t, k)
           c == [Call(k, v) EXCEPT !.placing = TRUE]
<1>1. Sound(t) /\ todo \in Seq(CallType) /\ rehashes \in Nat
  BY DEF IInv, StateOK
<1>2. size.array \in Nat /\ size.nodes \in Int
  BY <1>1, RehashSizesFit
<1>3. /\ t' = Resized(t, size.array, size.nodes) /\ rehashes' = rehashes + 1
      /\ todo' = Deeper(Displaced(t, size.array), c, todo)
  BY DEF Rehash, Deeper
<1> HIDE DEF size
<1>4. Displaced(t, size.array) \in Seq(CallType)
  BY <1>1, <1>2, DisplacedKeys
<1>5. Deepens(Deeper(Displaced(t, size.array), c, todo), Displaced(t, size.array), todo)
  BY <1>1, <1>4, DeeperDeepens
<1> QED
  BY <1>1, <1>2, <1>3, <1>5 DEF Rehashes

LEMMA ContinueIs ==
    ASSUME IInv, Continue
    PROVE  /\ todo # <<>> /\ UNCHANGED <<items, listed, at, seen>> /\ rehashes' \in Nat
           /\ \/ Returns
              \/ /\ Rehashes \/ PlacesOn
                 /\ Absent(t, Head(todo).key) /\ ~InArray(t, Head(todo).key)
<1> DEFINE k == Head(todo).key
           v == Head(todo).val
<1>1. /\ todo # <<>> /\ UNCHANGED <<items, listed, at, seen>>
      /\ \/ Head(todo).placing /\ PlaceStep(k, v)
         \/ ~Head(todo).placing /\ SetStep(k, v)
  BY Zenon DEF Continue
<1>2. Sound(t) /\ todo \in Seq(CallType) /\ rehashes \in Nat
  BY DEF IInv, StateOK
<1>3. k \in Keys /\ v \in Values /\ (Head(todo).placing => Absent(t, k))
  BY <1>1, HeadIs
<1>4. CASE Head(todo).placing /\ PlaceStep(k, v)
  <2>1. Absent(t, k)
    BY <1>3, <1>4, Zenon
  <2>2. CASE InArray(t, k) /\ Return([t EXCEPT !.array[k] = v])
    <3>1. Stores(t, [t EXCEPT !.array[k] = v], k, v)
      BY <1>2, <1>3, <2>2, ArrayWritten, RewritesStores
    <3> QED
      BY <1>1, <1>2, <2>2, <3>1 DEF Return, Returns
  <2>3. CASE ~InArray(t, k) /\ HasRoom(WithNodes(t), k)
             /\ Return(Installed(WithNodes(t), k, v))
    <3>1. Stores(t, Installed(WithNodes(t), k, v), k, v)
      BY <1>2, <1>3, <2>1, <2>3, PlacedStores
    <3> QED
      BY <1>1, <1>2, <2>3, <3>1 DEF Return, Returns
  <2>4. CASE ~InArray(t, k) /\ Rehash(k, v)
    BY <1>1, <2>1, <2>4, RehashIs
  <2> QED
    BY <1>4, <2>2, <2>3, <2>4 DEF PlaceStep
<1>5. CASE SetStep(k, v)
  <2>1. CASE HasPlace(t, k) /\ Return(Written(t, k, v))
    <3>1. Stores(t, Written(t, k, v), k, v)
      BY <1>2, <1>3, <2>1, WrittenRewrites, RewritesStores
    <3> QED
      BY <1>1, <1>2, <2>1, <3>1 DEF Return, Returns
  <2>2. CASE ~HasPlace(t, k) /\ Rehash(k, v)
    <3>1. Absent(t, k) /\ ~InArray(t, k)
      BY <1>2, <1>3, <2>2, PlacelessIsAbsent
    <3> QED
      BY <1>1, <2>2, <3>1, RehashIs
  <2>3. CASE /\ ~HasPlace(t, k)
             /\ todo' = <<[Call(k, v) EXCEPT !.placing = TRUE]>> \o Tail(todo)
             /\ UNCHANGED <<t, rehashes>>
    <3> DEFINE c == [Call(k, v) EXCEPT !.placing = TRUE]
    <3>1. Absent(t, k) /\ ~InArray(t, k)
      BY <1>2, <1>3, <2>3, PlacelessIsAbsent
    <3>2. Deepens(Deeper(<<>>, c, todo), <<>>, todo)
      <4>1. <<>> \in Seq(CallType)
        OBVIOUS
      <4> QED
        BY <1>1, <1>2, <4>1, DeeperDeepens
    <3> HIDE DEF c
    <3>3. <<>> \o <<c>> = <<c>>
      <4>1. <<c>> \in Seq({c})
        OBVIOUS
      <4> QED
        BY <4>1, ConcatEmptySeq
    <3>4. todo' = Deeper(<<>>, c, todo)
      BY <2>3, <3>3 DEF Deeper, c
    <3> QED
      BY <1>1, <1>2, <2>3, <3>1, <3>2, <3>4 DEF PlacesOn
  <2> QED
    BY <1>5, <2>1, <2>2, <2>3 DEF SetStep
<1> QED
  BY <1>1, <1>4, <1>5

\* A table with nodes that are all free.
LEMMA FreeSound ==
    ASSUME NEW arr \in Seq(Values), \A i \in DOMAIN arr : arr[i] # Nil => i \in IntKeys,
           NEW nodes \in Vectors, \A p \in DOMAIN nodes : nodes[p] = FreeNode,
           \E b \in 0 .. Size(nodes) : Size(nodes) \in {0, Power(b)},
           NEW tb, tb = [array |-> arr, nodes |-> nodes, lastfree |-> Size(nodes)]
    PROVE  Sound(tb) /\ Free(tb) /\ tb.array = arr
<1>1. /\ tb.array = arr /\ tb.nodes = nodes /\ tb.lastfree = Size(nodes)
      /\ Size(nodes) \in Nat /\ DOMAIN nodes = 0 .. Size(nodes) - 1
  BY SizeOf
<1>2. tb \in TableSet
  BY <1>1 DEF TableSet
<1>3. Chained(nodes)
  BY FreeChained
<1>4. \A p \in DOMAIN nodes : ~(p >= Size(nodes))
  BY <1>1
<1> QED
  BY <1>1, <1>2, <1>3, <1>4 DEF Sound, Free

LEMMA NewTableSound ==
    ASSUME NEW narray \in Nat, NEW nhash \in Int
    PROVE  LET w == NewTable(narray, nhash) IN
           /\ Sound(w) /\ Free(w) /\ \A i \in DOMAIN w.array : w.array[i] = Nil
<1> DEFINE arr == [i \in 1 .. narray |-> Nil]
           nodes == NodeVector(nhash)
           w == NewTable(narray, nhash)
<1>1. w = [array |-> arr, nodes |-> nodes, lastfree |-> Size(nodes)]
  BY DEF NewTable
<1>2. arr \in [1 .. narray -> Values] /\ \A i \in DOMAIN arr : arr[i] = Nil
  BY DEF Values
<1>3. /\ nodes \in Vectors /\ \A p \in DOMAIN nodes : nodes[p] = FreeNode
      /\ \E b \in 0 .. Size(nodes) : Size(nodes) \in {0, Power(b)}
  BY NodeVectorFree
<1> HIDE DEF arr, nodes, w
<1>4. arr \in Seq(Values)
  BY <1>2
<1>5. Sound(w) /\ Free(w) /\ w.array = arr
  BY <1>1, <1>2, <1>3, <1>4, FreeSound
<1> QED
  BY <1>2, <1>5 DEF w

LEMMA InitSound == Init => IInv
<1> SUFFICES ASSUME Init PROVE IInv
  OBVIOUS
<1>1. PICK narray \in 0 .. MaxHint, nhash \in 0 .. MaxHint :
         t = NewTable(narray, nhash) /\ items \in {0, narray}
  BY DEF Init
<1>2. narray \in Nat /\ nhash \in Int /\ items \in 0 .. MaxHint
  BY <1>1, TableAssumption
<1>3. Sound(t)
  BY <1>1, <1>2, NewTableSound
<1>4. /\ todo = <<>> /\ rehashes = 0 /\ listed = 0 /\ at = Idle /\ seen = {}
  BY DEF Init
<1>5. at \in AtType
  BY <1>4 DEF AtType, Idle, Values
<1>6. listed \in 0 .. items /\ todo \in Seq(CallType) /\ Len(todo) = 0 /\ rehashes \in Nat
  BY <1>2, <1>4
<1>7. Places(t, todo)
  BY <1>6 DEF Places
<1> QED
  BY <1>2, <1>3, <1>4, <1>5, <1>6, <1>7 DEF IInv, StateOK

\* What Set does, for the two ways.
LEMMA SetIs ==
    ASSUME StateOK, NEW k \in Keys, NEW v \in Values, Set(k, v)
    PROVE  /\ todo = <<>> /\ rehashes' = 0 /\ UNCHANGED <<items, listed>>
           /\ \/ at' = Idle /\ seen' = {}
              \/ Get(t, k) # Nil /\ UNCHANGED <<at, seen>>
           /\ \/ HasPlace(t, k) /\ Rewrites(t, t', k, v) /\ todo' = <<>>
              \/ /\ Absent(t, k) /\ ~InArray(t, k)
                 /\ t' = t /\ todo' = <<Call(k, v)>>
<1>1. Sound(t)
  BY DEF StateOK
<1>2. CASE HasPlace(t, k)
  BY <1>1, <1>2, WrittenRewrites DEF Set, Stop, Ready
<1>3. CASE ~HasPlace(t, k)
  BY <1>1, <1>3, PlacelessIsAbsent DEF Set, Stop, Ready
<1> QED
  BY <1>2, <1>3

\* SETLIST sets the array part only, between listed and last.
LEMMA SetListIs ==
    ASSUME StateOK, NEW n \in IntKeys, NEW vals \in [1 .. n -> Values], SetList(vals)
    PROVE  LET last == listed + n IN
           /\ todo = <<>> /\ UNCHANGED <<todo, rehashes>> /\ at' = Idle /\ seen' = {}
           /\ items > 0 /\ last \in IntKeys
           /\ Sound(t') /\ t'.nodes = t.nodes /\ Len(t.array) <= Len(t'.array)
           /\ last <= Len(t'.array)
           /\ \A i \in 1 .. Len(t'.array) :
                 t'.array[i] = IF i \in listed + 1 .. last THEN vals[i - listed]
                               ELSE IF i <= Len(t.array) THEN t.array[i] ELSE Nil
           /\ items' \in 0 .. MaxHint /\ listed' \in 0 .. items'
           /\ items' > 0 => listed' > 0
<1> DEFINE last == listed + n
           size == Max({Len(t.array), last})
           arr == [i \in 1 .. size |->
                     IF i \in listed + 1 .. last THEN vals[i - listed]
                     ELSE IF i <= Len(t.array) THEN t.array[i] ELSE Nil]
<1>1. /\ t \in TableSet /\ t.array \in Seq(Values) /\ Len(t.array) \in Nat
      /\ DOMAIN t.array = 1 .. Len(t.array) /\ items \in 0 .. MaxHint
      /\ listed \in 0 .. items /\ MaxHint \in Nat /\ Chunk \in Nat \ {0}
      /\ \A i \in DOMAIN t.array : t.array[i] # Nil => i \in IntKeys
  BY TableAssumption DEF StateOK, Sound, TableSet
<1>2. n \in Nat \ {0} /\ Len(vals) = n
  BY IntKeysAre
<1>3. /\ todo = <<>> /\ UNCHANGED <<todo, rehashes>> /\ at' = Idle /\ seen' = {}
      /\ items - listed > 0 /\ last \in IntKeys
      /\ IF items - listed > Chunk THEN n = Chunk /\ listed' = last /\ items' = items
                                   ELSE listed' = 0 /\ items' = 0
      /\ t' = [t EXCEPT !.array = arr]
  BY <1>2 DEF SetList, Ready, Stop
<1>4. size \in Nat /\ Len(t.array) <= size /\ last <= size
  <2> DEFINE S == {Len(t.array), last}
             b == Len(t.array) + last
  <2>1. S \subseteq Int /\ S # {} /\ b \in Int /\ \A x \in S : x \in Nat /\ x <= b
    BY <1>1, <1>2
  <2>2. Len(t.array) \in S /\ last \in S /\ size = Max(S)
    OBVIOUS
  <2> HIDE DEF S, b, size
  <2>3. size \in S /\ \A y \in S : size >= y
    BY <2>1, <2>2, GreatestOf
  <2> QED
    BY <1>1, <1>2, <2>1, <2>2, <2>3
<1> HIDE DEF size
<1>5. ASSUME NEW i \in 1 .. size
      PROVE  arr[i] \in Values /\ (arr[i] # Nil => i \in IntKeys)
  <2>1. CASE i \in listed + 1 .. last
    <3>1. i - listed \in 1 .. n /\ i \in IntKeys
      BY <1>1, <1>2, <1>3, <2>1, IntKeysAre
    <3> QED
      BY <2>1, <3>1
  <2>2. CASE i \notin listed + 1 .. last
    BY <1>1, <2>2 DEF Values
  <2> QED
    BY <2>1, <2>2
<1>6. DOMAIN arr = 1 .. size
  OBVIOUS
<1>7. \A i \in 1 .. size :
         arr[i] = IF i \in listed + 1 .. last THEN vals[i - listed]
                  ELSE IF i <= Len(t.array) THEN t.array[i] ELSE Nil
  OBVIOUS
<1>8. arr \in [1 .. size -> Values]
  BY <1>5
<1> HIDE DEF arr
<1>9. arr \in Seq(Values) /\ Len(arr) = size
  BY <1>4, <1>6, <1>8
<1>10. t'.array = arr /\ t'.nodes = t.nodes /\ t'.lastfree = t.lastfree /\ t' \in TableSet
  BY <1>1, <1>3, <1>9 DEF TableSet
<1>11. Sound(t')
  BY <1>5, <1>6, <1>10 DEF StateOK, Sound
<1>12. items' \in 0 .. MaxHint /\ listed' \in 0 .. items' /\ (items' > 0 => listed' > 0)
  BY <1>1, <1>2, <1>3
<1> QED
  BY <1>1, <1>3, <1>4, <1>7, <1>9, <1>10, <1>11, <1>12

LEMMA ClearIs ==
    ASSUME StateOK, ClearTable
    PROVE  /\ todo = <<>> /\ UNCHANGED <<todo, rehashes, items, listed>> /\ items = 0
           /\ at' = Idle /\ seen' = {}
           /\ Sound(t') /\ Free(t') /\ \A i \in DOMAIN t'.array : t'.array[i] = Nil
<1> DEFINE arr == [i \in DOMAIN t.array |-> Nil]
           nodes == [p \in DOMAIN t.nodes |-> FreeNode]
<1>1. /\ t.nodes \in Vectors /\ DOMAIN t.nodes = 0 .. Size(t.nodes) - 1
      /\ DOMAIN t.array = 1 .. Len(t.array) /\ Len(t.array) \in Nat
      /\ Size(t.nodes) \in Nat
      /\ \E b \in 0 .. Size(t.nodes) : Size(t.nodes) \in {0, Power(b)}
  BY SizeOf DEF StateOK, Sound, TableSet
<1>2. /\ todo = <<>> /\ UNCHANGED <<todo, rehashes, items, listed>> /\ items = 0
      /\ at' = Idle /\ seen' = {}
      /\ t' = [array |-> arr, nodes |-> nodes, lastfree |-> Size(t.nodes)]
  BY DEF ClearTable, Constructed, Ready, Stop
<1>3. FreeNode \in NodeType
  BY DEF FreeNode, NodeType
<1>4. nodes \in [0 .. Size(t.nodes) - 1 -> NodeType]
  BY <1>1, <1>3
<1>5. \A p \in DOMAIN nodes : nodes[p] = FreeNode
  OBVIOUS
<1>6. arr \in [1 .. Len(t.array) -> Values] /\ \A i \in DOMAIN arr : arr[i] = Nil
  BY <1>1 DEF Values
<1> HIDE DEF arr, nodes
<1>7. nodes \in Vectors /\ Size(nodes) = Size(t.nodes)
  BY <1>1, <1>4, VectorOf
<1>8. arr \in Seq(Values)
  BY <1>1, <1>6
<1>9. /\ \A i \in DOMAIN arr : arr[i] # Nil => i \in IntKeys
      /\ \E b \in 0 .. Size(nodes) : Size(nodes) \in {0, Power(b)}
      /\ t' = [array |-> arr, nodes |-> nodes, lastfree |-> Size(nodes)]
  BY <1>1, <1>2, <1>6, <1>7
<1>10. Sound(t') /\ Free(t') /\ t'.array = arr
  BY <1>5, <1>7, <1>8, <1>9, FreeSound
<1> QED
  BY <1>2, <1>6, <1>10

LEMMA CloneIs ==
    ASSUME StateOK, CloneTable
    PROVE  /\ todo = <<>> /\ UNCHANGED <<items, listed>> /\ rehashes' = 0 /\ items = 0
           /\ at' = Idle /\ seen' = {}
           /\ Sound(t') /\ Free(t') /\ t'.array = t.array
           /\ \E pos : CallsFor(todo', pos, t, Len(t.array), Last(t))
<1> DEFINE nodes == NodeVector(Size(t.nodes))
           n == NewTable(0, Size(t.nodes))
<1>1. /\ Sound(t) /\ t.array \in Seq(Values) /\ Len(t.array) \in Nat
      /\ Size(t.nodes) \in Nat
      /\ \A i \in DOMAIN t.array : t.array[i] # Nil => i \in IntKeys
  BY SizeOf DEF StateOK, Sound, TableSet
<1>2. /\ todo = <<>> /\ UNCHANGED <<items, listed>> /\ rehashes' = 0 /\ items = 0
      /\ at' = Idle /\ seen' = {}
      /\ t' = [n EXCEPT !.array = t.array]
      /\ todo' = CallsFrom(t, Len(t.array))
  BY DEF CloneTable, Constructed, Ready, Stop
<1>3. n = [array |-> [i \in 1 .. 0 |-> Nil], nodes |-> nodes, lastfree |-> Size(nodes)]
  BY DEF NewTable
<1>4. /\ nodes \in Vectors /\ \A p \in DOMAIN nodes : nodes[p] = FreeNode
      /\ \E b \in 0 .. Size(nodes) : Size(nodes) \in {0, Power(b)}
  <2> DEFINE m == Size(t.nodes)
  <2>1. m \in Int
    BY <1>1
  <2> HIDE DEF m
  <2>2. /\ NodeVector(m) \in Vectors
        /\ \A p \in DOMAIN NodeVector(m) : NodeVector(m)[p] = FreeNode
        /\ \E b \in 0 .. Size(NodeVector(m)) : Size(NodeVector(m)) \in {0, Power(b)}
    BY <2>1, NodeVectorFree
  <2> QED
    BY <2>2 DEF m
<1> HIDE DEF nodes
<1>5. t' = [array |-> t.array, nodes |-> nodes, lastfree |-> Size(nodes)]
  BY <1>2, <1>3
<1>6. Sound(t') /\ Free(t') /\ t'.array = t.array
  BY <1>1, <1>4, <1>5, FreeSound
<1>7. Len(t.array) \in 0 .. Last(t)
  BY <1>1 DEF Last
<1> QED
  BY <1>1, <1>2, <1>6, <1>7, CallsFromIs

LEMMA NextSlotIs ==
    ASSUME NEW tb, Sound(tb), NEW i \in Int, i >= -1
    PROVE  LET j == NextSlot(tb, i) IN
           \/ /\ j = -1
              /\ \A m \in i + 1 .. Last(tb) - 1 : Slot(tb, m).val = Nil
           \/ /\ j \in i + 1 .. Last(tb) - 1 /\ j # -1 /\ Slot(tb, j).val # Nil
              /\ \A m \in i + 1 .. j - 1 : Slot(tb, m).val = Nil
<1> DEFINE later == {j \in i + 1 .. Last(tb) - 1 : Slot(tb, j).val # Nil}
           j == NextSlot(tb, i)
<1>1. Last(tb) \in Nat
  BY SizeOf DEF Last, Sound, TableSet
<1>2. j = IF later = {} THEN -1 ELSE Min(later)
  <2>1. Len(tb.array) + Size(tb.nodes) - 1 = Last(tb) - 1
    BY SizeOf DEF Last, Sound, TableSet
  <2> QED
    BY <2>1, Zenon DEF NextSlot
<1>3. later \subseteq Nat
  BY <1>1
<1>4. CASE later = {}
  BY <1>2, <1>4
<1>5. CASE later # {}
  <2> HIDE DEF later, j
  <2>1. j \in later /\ \A m \in later : j <= m
    BY <1>2, <1>3, <1>5, LeastOf
  <2>2. j \in i + 1 .. Last(tb) - 1 /\ j # -1 /\ Slot(tb, j).val # Nil
    BY <2>1 DEF later
  <2>3. \A m \in i + 1 .. j - 1 : m \in i + 1 .. Last(tb) - 1 /\ ~(j <= m)
    BY <1>1, <2>2
  <2>4. \A m \in i + 1 .. j - 1 : Slot(tb, m).val = Nil
    BY <2>1, <2>3 DEF later
  <2> QED
    BY <2>2, <2>4 DEF j
<1> QED
  BY <1>4, <1>5

\* What Advance does, for its four ways.
LEMMA AdvanceIs ==
    ASSUME StateOK, Advance
    PROVE  LET from == IF at.key = Nil THEN -1 ELSE FindIndex(t, at.key) IN
           /\ todo = <<>> /\ at.mode = "on" /\ from \in Int /\ from >= -1
           /\ UNCHANGED <<t, todo, rehashes, items, listed>>
           /\ \/ /\ at.key # Nil /\ from = -1
                 /\ at' = [at EXCEPT !.mode = "invalid key"] /\ UNCHANGED seen
              \/ /\ at.key = Nil \/ from # -1
                 /\ at' = Done /\ seen' = {}
                 /\ \A m \in from + 1 .. Last(t) - 1 : Slot(t, m).val = Nil
              \/ /\ at.key = Nil \/ from # -1
                 /\ \E j \in from + 1 .. Last(t) - 1 :
                       /\ Slot(t, j).val # Nil
                       /\ \A m \in from + 1 .. j - 1 : Slot(t, m).val = Nil
                       /\ at' = [mode |-> "on", key |-> Slot(t, j).key,
                                 val |-> Slot(t, j).val]
                       /\ seen' = seen \cup {Slot(t, j).key}
<1> DEFINE from == IF at.key = Nil THEN -1 ELSE FindIndex(t, at.key)
           i == NextSlot(t, from)
<1>1. Sound(t) /\ at.key \in Keys \cup {Nil}
  BY DEF StateOK, AtType
<1>2. from \in Int /\ from >= -1
  BY <1>1, EntryHasSlot
<1>3. /\ todo = <<>> /\ at.mode = "on"
      /\ IF at.key # Nil /\ from = -1
         THEN at' = [at EXCEPT !.mode = "invalid key"] /\ UNCHANGED seen
         ELSE IF i = -1 THEN at' = Done /\ seen' = {}
         ELSE /\ at' = [mode |-> "on", key |-> Slot(t, i).key, val |-> Slot(t, i).val]
              /\ seen' = seen \cup {Slot(t, i).key}
      /\ UNCHANGED <<t, todo, rehashes, items, listed>>
  BY DEF Advance, Ready
<1> HIDE DEF from
<1>4. \/ /\ i = -1
         /\ \A m \in from + 1 .. Last(t) - 1 : Slot(t, m).val = Nil
      \/ /\ i \in from + 1 .. Last(t) - 1 /\ i # -1 /\ Slot(t, i).val # Nil
         /\ \A m \in from + 1 .. i - 1 : Slot(t, m).val = Nil
  BY <1>1, <1>2, NextSlotIs
<1> HIDE DEF i
<1>5. CASE at.key # Nil /\ from = -1
  BY <1>2, <1>3, <1>5 DEF from
<1>6. CASE ~(at.key # Nil /\ from = -1) /\ i = -1
  BY <1>2, <1>3, <1>4, <1>6 DEF from
<1>7. CASE ~(at.key # Nil /\ from = -1) /\ i # -1
  BY <1>2, <1>3, <1>4, <1>7 DEF from
<1> QED
  BY <1>5, <1>6, <1>7

LEMMA AtTypes ==
    /\ Idle \in AtType /\ Started \in AtType /\ Done \in AtType
    /\ \A k \in Keys, v \in Values : [mode |-> "on", key |-> k, val |-> v] \in AtType
    /\ \A a \in AtType : [a EXCEPT !.mode = "invalid key"] \in AtType
BY DEF AtType, Idle, Started, Done, Values

LEMMA CallsPlaceNothing ==
    /\ \A k, v : ~Call(k, v).placing
    /\ \A tb, j : ~SlotCall(tb, j).placing
BY DEF SlotCall, Call

\* Nothing waits, or what waits places nothing.
LEMMA NothingPlaced ==
    ASSUME NEW tb, NEW s, \A i \in 1 .. Len(s) : ~s[i].placing
    PROVE  Places(tb, s)
BY Zenon DEF Places

LEMMA ContinueSound ==
    ASSUME IInv, Continue
    PROVE  IInv'
<1>1. /\ todo # <<>> /\ UNCHANGED <<items, listed, at, seen>> /\ rehashes' \in Nat
      /\ \/ Returns
         \/ Rehashes /\ Absent(t, Head(todo).key)
         \/ PlacesOn /\ Absent(t, Head(todo).key)
  BY ContinueIs
<1>2. Sound(t) /\ todo \in Seq(CallType) /\ Places(t, todo)
  BY DEF IInv, StateOK
<1>3. CASE Returns
  <2>1. Places(t', Tail(todo)) /\ Tail(todo) \in Seq(CallType)
    <3>1. \A k \in Keys : k # Head(todo).key /\ Absent(t, k) => Absent(t', k)
      BY <1>3 DEF Returns, Stores
    <3> QED
      BY <1>1, <1>2, <3>1, ReturnKeeps, TailIs
  <2>2. Sound(t') /\ todo' = Tail(todo)
    BY <1>3 DEF Returns, Stores
  <2> QED
    BY <1>1, <2>1, <2>2 DEF IInv, StateOK
<1>4. CASE Rehashes /\ Absent(t, Head(todo).key)
  <2>1. PICK nasize \in Nat, nh \in Int :
           t' = Resized(t, nasize, nh) /\ Deepens(todo', Displaced(t, nasize), todo)
    BY <1>4 DEF Rehashes
  <2>2. Sound(t')
    BY <1>2, <2>1, ResizedSound
  <2>3. Places(t', todo')
    BY <1>1, <1>2, <1>4, <2>1, RehashPlaces
  <2>4. todo' \in Seq(CallType)
    BY <2>1 DEF Deepens
  <2> QED
    BY <1>1, <2>2, <2>3, <2>4 DEF IInv, StateOK
<1>5. CASE PlacesOn /\ Absent(t, Head(todo).key)
  <2>1. t' = t /\ todo' \in Seq(CallType) /\ Deepens(todo', <<>>, todo)
    BY <1>5 DEF PlacesOn, Deepens
  <2>2. Places(t, todo')
    BY <1>1, <1>2, <1>5, <2>1, PlacingKeeps
  <2>3. Sound(t') /\ Places(t', todo')
    BY <1>2, <2>1, <2>2
  <2> QED
    BY <1>1, <2>1, <2>3 DEF IInv, StateOK
<1> QED
  BY <1>1, <1>3, <1>4, <1>5

LEMMA SetSound ==
    ASSUME IInv, NEW k \in Keys, NEW v \in Vals \cup {Nil}, Set(k, v)
    PROVE  IInv'
<1>1. /\ todo = <<>> /\ rehashes' = 0 /\ UNCHANGED <<items, listed>>
      /\ \/ at' = Idle /\ seen' = {}
         \/ UNCHANGED <<at, seen>>
      /\ \/ Rewrites(t, t', k, v) /\ todo' = <<>>
         \/ t' = t /\ todo' = <<Call(k, v)>>
  BY SetIs DEF IInv, Values
<1>2. StateOK
  BY DEF IInv
<1>3. at' \in AtType /\ seen' \subseteq Keys
  BY <1>1, <1>2, AtTypes DEF StateOK
<1>4. Sound(t')
  BY <1>1, <1>2 DEF Rewrites, StateOK
<1>5. todo' \in Seq(CallType) /\ \A i \in 1 .. Len(todo') : ~todo'[i].placing
  <2>1. CASE todo' = <<>>
    BY <2>1
  <2>2. CASE todo' = <<Call(k, v)>>
    <3>1. Call(k, v) \in CallType /\ ~Call(k, v).placing
      BY DEF Call, CallType
    <3> HIDE DEF Call
    <3>2. <<Call(k, v)>> \in Seq(CallType) /\ Len(<<Call(k, v)>>) = 1
          /\ <<Call(k, v)>>[1] = Call(k, v)
      BY <3>1
    <3>3. \A i \in 1 .. Len(todo') : i = 1
      BY <2>2, <3>2
    <3>4. todo'[1] = Call(k, v) /\ todo' \in Seq(CallType)
      BY <2>2, <3>2
    <3> QED
      BY <3>1, <3>3, <3>4, Zenon
  <2> QED
    BY <1>1, <1>2, <2>1, <2>2
<1>6. Places(t', todo')
  BY <1>5, NothingPlaced
<1> QED
  BY <1>1, <1>2, <1>3, <1>4, <1>5, <1>6 DEF IInv, StateOK

LEMMA IInvStep == IInv /\ [Next]_vars => IInv'
<1> SUFFICES ASSUME IInv, [Next]_vars PROVE IInv'
  OBVIOUS
<1>1. StateOK /\ Places(t, todo)
  BY DEF IInv
<1>2. Idle \in AtType /\ Done \in AtType
  BY AtTypes
<1>3. ASSUME NEW k \in Keys, NEW v \in Vals \cup {Nil}, Set(k, v)
      PROVE  IInv'
  BY <1>3, SetSound
<1>4. ASSUME NEW n \in IntKeys, NEW vals \in [1 .. n -> Vals \cup {Nil}], SetList(vals)
      PROVE  IInv'
  <2>1. /\ UNCHANGED <<todo, rehashes>> /\ at' = Idle /\ seen' = {} /\ Sound(t')
        /\ items' \in 0 .. MaxHint /\ listed' \in 0 .. items' /\ todo = <<>>
    BY <1>1, <1>4, SetListIs DEF Values
  <2>2. Places(t', todo')
    BY <2>1, NothingPlaced
  <2> QED
    BY <1>1, <1>2, <2>1, <2>2 DEF IInv, StateOK
<1>5. CASE ClearTable
  <2>1. /\ UNCHANGED <<todo, rehashes, items, listed>> /\ at' = Idle /\ seen' = {}
        /\ Sound(t') /\ todo = <<>>
    BY <1>1, <1>5, ClearIs
  <2>2. Places(t', todo')
    BY <2>1, NothingPlaced
  <2> QED
    BY <1>1, <1>2, <2>1, <2>2 DEF IInv, StateOK
<1>6. CASE CloneTable
  <2>1. /\ UNCHANGED <<items, listed>> /\ rehashes' = 0 /\ at' = Idle /\ seen' = {}
        /\ Sound(t')
    BY <1>1, <1>6, CloneIs
  <2>2. PICK pos : CallsFor(todo', pos, t, Len(t.array), Last(t))
    BY <1>1, <1>6, CloneIs
  <2>3. todo' \in Seq(CallType) /\ \A i \in 1 .. Len(todo') : todo'[i] = SlotCall(t, pos[i])
    BY <2>2 DEF CallsFor
  <2>4. \A i \in 1 .. Len(todo') : ~todo'[i].placing
    BY <2>3, CallsPlaceNothing, Zenon
  <2>5. Places(t', todo')
    BY <2>4, NothingPlaced
  <2> QED
    BY <1>1, <1>2, <2>1, <2>3, <2>5 DEF IInv, StateOK
<1>7. CASE Begin
  <2>1. UNCHANGED <<t, todo, rehashes, items, listed>> /\ at' = Started /\ seen' = {}
    BY <1>7 DEF Begin, Constructed
  <2>2. Started \in AtType
    BY AtTypes
  <2> QED
    BY <1>1, <2>1, <2>2 DEF IInv, StateOK, Places
<1>8. CASE Advance
  <2>1. /\ UNCHANGED <<t, todo, rehashes, items, listed>>
        /\ \/ at' = [at EXCEPT !.mode = "invalid key"] /\ UNCHANGED seen
           \/ at' = Done /\ seen' = {}
           \/ \E j \in 0 .. Last(t) - 1 :
                 /\ Slot(t, j).val # Nil
                 /\ at' = [mode |-> "on", key |-> Slot(t, j).key, val |-> Slot(t, j).val]
                 /\ seen' = seen \cup {Slot(t, j).key}
    <3> DEFINE from == IF at.key = Nil THEN -1 ELSE FindIndex(t, at.key)
    <3>1. /\ from \in Int /\ from >= -1
          /\ UNCHANGED <<t, todo, rehashes, items, listed>>
          /\ \/ at' = [at EXCEPT !.mode = "invalid key"] /\ UNCHANGED seen
             \/ at' = Done /\ seen' = {}
             \/ \E j \in from + 1 .. Last(t) - 1 :
                   /\ Slot(t, j).val # Nil
                   /\ at' = [mode |-> "on", key |-> Slot(t, j).key, val |-> Slot(t, j).val]
                   /\ seen' = seen \cup {Slot(t, j).key}
      BY <1>1, <1>8, AdvanceIs
    <3> HIDE DEF from
    <3>2. from + 1 .. Last(t) - 1 \subseteq 0 .. Last(t) - 1
      <4>1. Last(t) \in Int
        BY <1>1, SizeOf DEF Last, StateOK, Sound, TableSet
      <4>2. from \in Int /\ from >= -1
        BY <3>1
      <4>3. ASSUME NEW j \in from + 1 .. Last(t) - 1
            PROVE  j \in 0 .. Last(t) - 1
        BY <4>1, <4>2
      <4> QED
        BY <4>3
    <3> QED
      BY <3>1, <3>2
  <2>2. at' \in AtType /\ seen' \subseteq Keys
    <3>1. at \in AtType /\ seen \subseteq Keys /\ Sound(t)
      BY <1>1 DEF StateOK
    <3>2. \A j \in 0 .. Last(t) - 1 :
             Slot(t, j).val # Nil => Slot(t, j).key \in Keys /\ Slot(t, j).val \in Values
      BY <3>1, SlotIs
    <3>3. CASE at' = [at EXCEPT !.mode = "invalid key"] /\ UNCHANGED seen
      BY <3>1, <3>3, AtTypes, Zenon
    <3>4. CASE at' = Done /\ seen' = {}
      BY <3>4, AtTypes
    <3>5. ASSUME NEW j \in 0 .. Last(t) - 1, Slot(t, j).val # Nil,
                 at' = [mode |-> "on", key |-> Slot(t, j).key, val |-> Slot(t, j).val],
                 seen' = seen \cup {Slot(t, j).key}
          PROVE  at' \in AtType /\ seen' \subseteq Keys
      <4>1. Slot(t, j).key \in Keys /\ Slot(t, j).val \in Values
        BY <3>2, <3>5, Zenon
      <4>2. at' \in AtType
        BY <3>5, <4>1, AtTypes, Zenon
      <4> QED
        BY <3>1, <3>5, <4>1, <4>2
    <3> QED
      BY <2>1, <3>3, <3>4, <3>5
  <2> QED
    BY <1>1, <2>1, <2>2 DEF IInv, StateOK, Places
<1>9. CASE Continue
  BY <1>9, ContinueSound
<1>10. CASE UNCHANGED vars
  BY <1>1, <1>10 DEF IInv, StateOK, Places, vars
<1> QED
  BY <1>3, <1>4, <1>5, <1>6, <1>7, <1>8, <1>9, <1>10 DEF Next

LEMMA Invariant == Spec => []IInv
<1>1. IInv /\ [Next]_vars => IInv'
  BY IInvStep
<1> QED
  BY <1>1, InitSound, PTL DEF Spec

\* The types: the parts stay vectors and sequences of their elements, the node
\* part's length a power of two, for every hash of the keys.
THEOREM TablesTyped == Spec => []TypeOK
<1>1. IInv => TypeOK
  <2> SUFFICES ASSUME IInv PROVE TypeOK
    OBVIOUS
  <2>1. StateOK /\ Sound(t)
    BY DEF IInv, StateOK
  <2>2. /\ t \in TableSet /\ t.nodes \in [DOMAIN t.nodes -> NodeType]
        /\ DOMAIN t.nodes = 0 .. Size(t.nodes) - 1
    BY <2>1, SizeOf DEF Sound, TableSet
  <2>3. t \in [array : Seq(Values), nodes : [0 .. Size(t.nodes) - 1 -> NodeType],
               lastfree : Nat]
    BY <2>2 DEF TableSet
  <2> QED
    BY <2>1, <2>3 DEF StateOK, Sound, Values, TypeOK, AtType
<1> QED
  BY <1>1, Invariant, PTL

\* Every key in the node part is found, and every free node can be taken
\* (installNewHashKey, getFreePos), for every hash of the keys.
THEOREM NodesStayWhole == Spec => []NodesWhole
<1>1. IInv => NodesWhole
  <2> SUFFICES ASSUME IInv PROVE NodesWhole
    OBVIOUS
  <2>1. Sound(t) /\ t.nodes \in Vectors /\ Chained(t.nodes)
        /\ t.nodes \in [DOMAIN t.nodes -> NodeType]
    BY SizeOf DEF IInv, StateOK, Sound, TableSet
  <2>2. ASSUME NEW p \in DOMAIN t.nodes, t.nodes[p].key # Nil
        PROVE  FindNode(t.nodes, t.nodes[p].key) = p
    <3>1. t.nodes[p].key \in Keys
      BY <2>1, <2>2 DEF NodeType
    <3> QED
      BY <2>1, <3>1, FindsKey
  <2> QED
    BY <2>1, <2>2 DEF NodesWhole, ChainsLead, NothingFreeAbove, Sound
<1> QED
  BY <1>1, Invariant, PTL
-----------------------------------------------------------------------------
(* The length operator.                                                    *)

\* What the binary search keeps: the base is 0 or on a value, and a nil is at
\* the end of the span or just after it.
Searching(arr, base, rest) ==
    /\ rest > 0 /\ base + rest <= Len(arr)
    /\ base = 0 \/ arr[base + 1] # Nil
    /\ \/ arr[base + rest] = Nil
       \/ base + rest + 1 <= Len(arr) /\ arr[base + rest + 1] = Nil

\* Where it ends.
Ends(arr, base) ==
    /\ base \in Nat /\ base + 1 <= Len(arr)
    /\ base = 0 \/ arr[base + 1] # Nil
    /\ \/ arr[base + 1] = Nil
       \/ base + 2 <= Len(arr) /\ arr[base + 2] = Nil

NextBase(arr, base, half) == IF arr[base + half + 1] # Nil THEN base + half ELSE base

LEMMA SearchGoesOn ==
    ASSUME NEW arr, Len(arr) \in Nat, NEW rest \in Nat, NEW base \in Nat,
           Searching(arr, base, rest), NEW half \in Nat, half # 0, half = rest \div 2
    PROVE  /\ rest - half \in Nat /\ rest - half < rest /\ rest - half > 0
           /\ NextBase(arr, base, half) \in 0 .. Len(arr) - (rest - half)
           /\ Searching(arr, NextBase(arr, base, half), rest - half)
<1>1. rest = 2 * half \/ rest = 2 * half + 1
  OBVIOUS
<1>2. rest - half \in Nat /\ rest - half < rest /\ rest - half > 0
  BY <1>1
<1>3. base + rest <= Len(arr)
  BY DEF Searching
<1>4. CASE arr[base + half + 1] # Nil
  <2>1. NextBase(arr, base, half) = base + half
    BY <1>4 DEF NextBase
  <2>2. base + half + (rest - half) = base + rest
    OBVIOUS
  <2>3. base + half \in 0 .. Len(arr) - (rest - half)
    BY <1>2, <1>3
  <2>4. Searching(arr, base + half, rest - half)
    BY <1>2, <1>4, <2>2 DEF Searching
  <2> QED
    BY <1>2, <2>1, <2>3, <2>4
<1>5. CASE arr[base + half + 1] = Nil
  <2>1. NextBase(arr, base, half) = base
    BY <1>5 DEF NextBase
  <2>2. base \in 0 .. Len(arr) - (rest - half)
    BY <1>2, <1>3
  <2>3. \/ base + (rest - half) = base + half + 1
        \/ base + (rest - half) + 1 = base + half + 1
    BY <1>1
  <2>4. base + half + 1 <= Len(arr)
    BY <1>1, <1>3
  <2>5. base + (rest - half) <= Len(arr)
    BY <1>2, <1>3
  <2>6. \/ arr[base + (rest - half)] = Nil
        \/ base + (rest - half) + 1 <= Len(arr) /\ arr[base + (rest - half) + 1] = Nil
    BY <1>5, <2>3, <2>4
  <2>7. Searching(arr, base, rest - half)
    BY <1>2, <2>5, <2>6 DEF Searching
  <2> QED
    BY <1>2, <2>1, <2>2, <2>7
<1> QED
  BY <1>4, <1>5
IsLengthSearch(f, arr) ==
    f = [rest \in 0 .. Len(arr) |->
           [base \in 0 .. Len(arr) - rest |->
              IF rest \div 2 = 0 THEN base
              ELSE f[rest - (rest \div 2)][NextBase(arr, base, rest \div 2)]]]

LEMMA NextBaseFits ==
    ASSUME NEW arr, Len(arr) \in Nat, NEW rest \in 0 .. Len(arr),
           NEW base \in 0 .. Len(arr) - rest, NEW half, half = rest \div 2, half # 0
    PROVE  /\ rest - half \in 0 .. Len(arr) /\ rest - half < rest
           /\ NextBase(arr, base, half) \in 0 .. Len(arr) - (rest - half)
<1>1. half \in Nat /\ (rest = 2 * half \/ rest = 2 * half + 1)
  OBVIOUS
<1>2. NextBase(arr, base, half) \in {base, base + half}
  BY DEF NextBase
<1>3. base + half \in 0 .. Len(arr) - (rest - half) /\ base \in 0 .. Len(arr) - (rest - half)
  BY <1>1
<1> QED
  BY <1>1, <1>2, <1>3

LEMMA LengthSearchExists ==
    ASSUME NEW arr, Len(arr) \in Nat
    PROVE  \E f : IsLengthSearch(f, arr)
<1> DEFINE j == Len(arr)
           S == {x \in (0 .. j) \X (0 .. j) : x[2] \in 0 .. j - x[1]}
           stop == {x \in S : x[1] \div 2 = 0}
           s == [x \in stop |-> x[2]]
           After2(x) == <<x[1] - (x[1] \div 2), NextBase(arr, x[2], x[1] \div 2)>>
           next == [x \in S |-> IF x \in stop THEN x ELSE After2(x)]
           d == [x \in S |-> j - x[1]]
<1>1. ASSUME NEW x \in S, x \notin stop
      PROVE  After2(x) \in S /\ After2(x)[1] < x[1]
  <2> DEFINE rest == x[1]
             base == x[2]
             half == rest \div 2
  <2>1. rest \in 0 .. j /\ base \in 0 .. j - rest /\ half # 0
    BY <1>1
  <2>2. After2(x) = <<rest - half, NextBase(arr, base, half)>>
    OBVIOUS
  <2> HIDE DEF rest, base
  <2>3. half = rest \div 2
    OBVIOUS
  <2> HIDE DEF half
  <2>4. /\ rest - half \in 0 .. j /\ rest - half < rest
        /\ NextBase(arr, base, half) \in 0 .. j - (rest - half)
    BY <2>1, <2>3, NextBaseFits
  <2>5. NextBase(arr, base, half) \in 0 .. j
    BY <2>4
  <2> DEFINE a == rest - half
             b == NextBase(arr, base, half)
  <2> HIDE DEF a, b, After2
  <2>6. After2(x) = <<a, b>> /\ a \in 0 .. j /\ b \in 0 .. j /\ b \in 0 .. j - a /\ a < rest
    BY <2>2, <2>4, <2>5 DEF a, b
  <2> QED
    BY <2>6 DEF rest
<1>2. next \in [S -> S]
  BY <1>1
<1>3. \A x \in S \ stop : d[x] < d[next[x]]
  <2>1. ASSUME NEW x \in S, x \notin stop
        PROVE  d[x] < d[next[x]]
    <3>1. next[x] = After2(x) /\ After2(x) \in S /\ After2(x)[1] < x[1]
      BY <1>1, <2>1
    <3> HIDE DEF After2, next
    <3>2. d[x] = j - x[1] /\ d[next[x]] = j - After2(x)[1]
      BY <3>1
    <3>3. x[1] \in Int /\ After2(x)[1] \in Int
      BY <3>1
    <3> QED
      BY <3>1, <3>2, <3>3
  <2> QED
    BY <2>1
<1>4. d \in [S -> 0 .. j]
  <2>1. ASSUME NEW x \in S
        PROVE  j - x[1] \in 0 .. j
    <3>1. x[1] \in 0 .. j
      OBVIOUS
    <3> QED
      BY <3>1
  <2> QED
    BY <2>1
<1>5. s \in [stop -> 0 .. j] /\ stop \in SUBSET S /\ j \in Nat
  OBVIOUS
<1> HIDE DEF S, stop, s, next, d
<1>6. PICK w \in [S -> 0 .. j] : IsWalk(w, S, stop, s, next)
  BY <1>2, <1>3, <1>4, <1>5, RecursionAlong
<1> DEFINE f == [rest \in 0 .. j |-> [base \in 0 .. j - rest |-> w[<<rest, base>>]]]
           Step(rest, base) == IF rest \div 2 = 0 THEN base
                               ELSE f[rest - (rest \div 2)][NextBase(arr, base, rest \div 2)]
<1>7. ASSUME NEW rest \in 0 .. j, NEW base \in 0 .. j - rest
      PROVE  w[<<rest, base>>] = Step(rest, base)
  <2> DEFINE x == <<rest, base>>
             half == rest \div 2
  <2>1. x \in S /\ x[1] = rest /\ x[2] = base
    BY DEF S
  <2>2. w[x] = IF x \in stop THEN s[x] ELSE w[next[x]]
    BY <1>6, <2>1 DEF IsWalk
  <2>3. CASE half = 0
    BY <2>1, <2>2, <2>3 DEF stop, s
  <2>4. CASE half # 0
    <3>1. x \notin stop
      BY <2>1, <2>4 DEF stop
    <3>2. next[x] = <<rest - half, NextBase(arr, base, half)>>
      BY <2>1, <3>1 DEF next
    <3>3. /\ rest - half \in 0 .. j
          /\ NextBase(arr, base, half) \in 0 .. j - (rest - half)
      BY <1>5, <2>4, NextBaseFits
    <3>4. f[rest - half][NextBase(arr, base, half)]
            = w[<<rest - half, NextBase(arr, base, half)>>]
      BY <3>3
    <3> QED
      BY <2>2, <2>4, <3>1, <3>2, <3>4
  <2> QED
    BY <2>3, <2>4
<1>8. IsLengthSearch(f, arr)
  <2> HIDE DEF Step
  <2>1. f = [rest \in 0 .. j |-> [base \in 0 .. j - rest |-> Step(rest, base)]]
    BY <1>7
  <2> HIDE DEF f
  <2> QED
    BY <2>1 DEF IsLengthSearch, Step
<1> QED
  BY <1>8

LEMMA LengthBaseEnds ==
    ASSUME NEW tb, Len(tb.array) \in Nat, Len(tb.array) > 0,
           tb.array[Len(tb.array)] = Nil
    PROVE  Ends(tb.array, LengthBase(tb))
<1> DEFINE arr == tb.array
           j == Len(arr)
           f == CHOOSE g : IsLengthSearch(g, arr)
<1>1. IsLengthSearch(f, arr)
  BY LengthSearchExists
<1>2. LengthBase(tb) = f[j][0]
  BY DEF LengthBase, IsLengthSearch, NextBase
<1> HIDE DEF f
<1>3. ASSUME NEW rest \in 0 .. j, NEW base \in 0 .. j - rest
      PROVE  f[rest][base] = IF rest \div 2 = 0 THEN base
                             ELSE f[rest - (rest \div 2)][NextBase(arr, base, rest \div 2)]
  <2>1. f[rest] = [b \in 0 .. Len(arr) - rest |->
                     IF rest \div 2 = 0 THEN b
                     ELSE f[rest - (rest \div 2)][NextBase(arr, b, rest \div 2)]]
    BY <1>1 DEF IsLengthSearch
  <2> QED
    BY <2>1
<1> HIDE DEF arr
<1> DEFINE T == {n \in Int : \A rest \in 0 .. n, base \in Nat :
                    rest <= j /\ Searching(arr, base, rest) => Ends(arr, f[rest][base])}
<1>4. 0 \in T
  <2>1. \A base : ~Searching(arr, base, 0)
    BY DEF Searching
  <2> QED
    BY <2>1
<1>5. ASSUME NEW n \in 0 + 1 .. j, n - 1 \in T
      PROVE  n \in T
  <2>1. ASSUME NEW rest \in 0 .. n, NEW base \in Nat, rest <= j, Searching(arr, base, rest)
        PROVE  Ends(arr, f[rest][base])
    <3> DEFINE half == rest \div 2
    <3>1. rest \in 0 .. j /\ base \in 0 .. j - rest /\ rest > 0 /\ half \in Nat
      BY <2>1 DEF Searching, arr
    <3>2. CASE half = 0
      <4>1. rest = 1
        BY <3>1, <3>2
      <4>2. f[rest][base] = base
        BY <1>3, <3>1, <3>2
      <4> QED
        BY <2>1, <4>1, <4>2 DEF Searching, Ends
    <3>3. CASE half # 0
      <4> DEFINE b == NextBase(arr, base, half)
      <4>1. /\ rest - half \in Nat /\ rest - half < rest /\ rest - half > 0
            /\ b \in 0 .. j - (rest - half) /\ Searching(arr, b, rest - half)
        <5>1. Len(arr) \in Nat /\ rest \in Nat /\ half = rest \div 2
          BY <3>1 DEF arr
        <5> HIDE DEF half
        <5> QED
          BY <2>1, <3>1, <3>3, <5>1, SearchGoesOn
      <4>2. f[rest][base] = f[rest - half][b]
        BY <1>3, <3>1, <3>3
      <4>3. rest - half \in 0 .. n - 1 /\ rest - half <= j /\ b \in Nat
        BY <3>1, <4>1
      <4> HIDE DEF b, half
      <4> QED
        BY <1>5, <4>1, <4>2, <4>3
    <3> QED
      BY <3>2, <3>3
  <2> QED
    BY <2>1
<1> HIDE DEF T
<1>6. 0 .. j \subseteq T
  <2>1. 0 \in Int /\ j \in Int
    BY DEF arr
  <2> QED
    BY <1>4, <1>5, <2>1, UpwardInduction
<1>7. j \in T
  BY <1>6 DEF arr
<1>8. Searching(arr, 0, j)
  BY DEF Searching, arr
<1>9. Ends(arr, f[j][0])
  BY <1>7, <1>8 DEF T, arr
<1> QED
  BY <1>2, <1>9 DEF arr

LEMMA GetNumIs ==
    ASSUME NEW tb, Sound(tb)
    PROVE  /\ \A i \in DOMAIN tb.array : GetNum(tb, i) = tb.array[i]
           /\ \A i \in Nat : i > K => GetNum(tb, i) = Nil
<1>1. \A i \in DOMAIN tb.array : i \in IntKeys => InArray(tb, i) /\ i \in Keys
  BY IntKeysAre DEF InArray, Sound, TableSet
<1>2. \A i \in DOMAIN tb.array : i \in IntKeys => Get(tb, i) = tb.array[i]
  BY <1>1, GetIs
<1> QED
  BY <1>2, StraysAreNil DEF GetNum

\* Whatever the array part and the node part hold, holes and all, #t is a
\* border (rawLen).
THEOREM LengthBorder == Spec => []LengthIsBorder
<1>1. IInv => LengthIsBorder
  <2> SUFFICES ASSUME IInv PROVE LengthIsBorder
    OBVIOUS
  <2> DEFINE arr == t.array
             j == Len(arr)
             n == RawLen(t)
  <2>1. Sound(t) /\ j \in Nat /\ DOMAIN arr = 1 .. j
    BY DEF IInv, StateOK, Sound, TableSet
  <2>2. CASE j > 0 /\ arr[j] = Nil
    <3> DEFINE base == LengthBase(t)
    <3>1. /\ base \in Nat /\ base + 1 <= j
          /\ base = 0 \/ arr[base + 1] # Nil
          /\ \/ arr[base + 1] = Nil
             \/ base + 2 <= j /\ arr[base + 2] = Nil
      BY <2>1, <2>2, LengthBaseEnds DEF Ends
    <3>2. n = IF arr[base + 1] # Nil THEN base + 1 ELSE base
      BY <2>2 DEF RawLen
    <3> HIDE DEF base, n
    <3>3. base + 1 \in DOMAIN arr /\ (base + 2 <= j => base + 2 \in DOMAIN arr)
      BY <2>1, <3>1
    <3>4. CASE arr[base + 1] # Nil
      <4>1. n = base + 1 /\ n + 1 = base + 2
        BY <3>1, <3>2, <3>4
      <4>2. GetNum(t, base + 1) # Nil /\ GetNum(t, base + 2) = Nil
        BY <2>1, <3>1, <3>3, <3>4, GetNumIs
      <4> QED
        BY <4>1, <4>2 DEF LengthIsBorder, n
    <3>5. CASE arr[base + 1] = Nil
      <4>1. n = 0 /\ base = 0
        BY <3>1, <3>2, <3>5
      <4>2. GetNum(t, base + 1) = Nil
        BY <2>1, <3>3, <3>5, GetNumIs
      <4> QED
        BY <4>1, <4>2 DEF LengthIsBorder, n
    <3> QED
      BY <3>4, <3>5
  <2>3. CASE ~(j > 0 /\ arr[j] = Nil)
    <3> DEFINE S == {m \in j .. j + K : GetNum(t, m + 1) = Nil}
    <3>1. n = Min(S)
      BY <2>3 DEF RawLen, K
    <3>2. K \in Nat
      BY IntKeysAre
    <3>3. j + K \in S
      <4>1. j + K + 1 \in Nat /\ j + K + 1 > K /\ j + K \in j .. j + K
        BY <2>1, <3>2
      <4> QED
        BY <2>1, <4>1, GetNumIs
    <3>4. S \subseteq Nat
      BY <2>1, <3>2
    <3> HIDE DEF S, n
    <3>5. n \in S /\ \A m \in S : n <= m
      BY <3>1, <3>3, <3>4, LeastOf
    <3>6. n \in j .. j + K /\ GetNum(t, n + 1) = Nil
      BY <3>5 DEF S
    <3>7. n = 0 \/ GetNum(t, n) # Nil
      <4>1. CASE n = j /\ j # 0
        <5>1. arr[j] # Nil /\ j \in DOMAIN arr
          BY <2>1, <2>3, <4>1
        <5> QED
          BY <2>1, <4>1, <5>1, GetNumIs
      <4>2. CASE n # j
        <5>1. n - 1 \in j .. j + K /\ ~(n <= n - 1) /\ n - 1 + 1 = n
          BY <2>1, <3>2, <3>6, <4>2
        <5>2. n - 1 \notin S
          BY <3>5, <5>1
        <5> QED
          BY <5>1, <5>2 DEF S
      <4> QED
        BY <4>1, <4>2
    <3> QED
      BY <3>6, <3>7 DEF LengthIsBorder, n
  <2> QED
    BY <2>2, <2>3
<1> QED
  BY <1>1, Invariant, PTL
-----------------------------------------------------------------------------
(* What the table holds, with the writes that wait.                        *)

Held(tb, s) ==
    [k \in Keys |->
        LET waiting == {i \in DOMAIN s : s[i].key = k}
        IN  IF waiting = {} THEN Get(tb, k) ELSE s[Min(waiting)].val]

Distinct(s) == \A i, j \in 1 .. Len(s) : j # i => s[j].key # s[i].key

LEMMA HeldIs ==
    ASSUME NEW tb, NEW s \in Seq(CallType)
    PROVE  /\ \A k \in Keys : (\A i \in 1 .. Len(s) : s[i].key # k) =>
                                 Held(tb, s)[k] = Get(tb, k)
           /\ Distinct(s) => \A i \in 1 .. Len(s) : Held(tb, s)[s[i].key] = s[i].val
           /\ Sound(tb) => Held(tb, s) \in [Keys -> Values]
<1> DEFINE waiting(k) == {i \in DOMAIN s : s[i].key = k}
<1>1. DOMAIN s = 1 .. Len(s) /\ Len(s) \in Nat
  BY LenProperties
<1>2. \A k \in Keys : Held(tb, s)[k] = IF waiting(k) = {} THEN Get(tb, k)
                                       ELSE s[Min(waiting(k))].val
  BY DEF Held
<1>3. \A k : waiting(k) # {} => /\ Min(waiting(k)) \in 1 .. Len(s)
                                /\ s[Min(waiting(k))].key = k
  <2>1. ASSUME NEW k, waiting(k) # {}
        PROVE  Min(waiting(k)) \in waiting(k)
    <3>1. waiting(k) \subseteq Nat
      BY <1>1
    <3> HIDE DEF waiting
    <3> QED
      BY <2>1, <3>1, LeastOf
  <2> QED
    BY <1>1, <2>1
<1>4. ASSUME NEW k \in Keys, \A i \in 1 .. Len(s) : s[i].key # k
      PROVE  Held(tb, s)[k] = Get(tb, k)
  <2>1. waiting(k) = {}
    BY <1>1, <1>4
  <2> QED
    BY <1>2, <2>1
<1>5. ASSUME Distinct(s), NEW i \in 1 .. Len(s)
      PROVE  Held(tb, s)[s[i].key] = s[i].val
  <2>1. s[i].key \in Keys
    BY CallOf
  <2>2. i \in waiting(s[i].key)
    BY <1>1
  <2>3. Min(waiting(s[i].key)) = i
    <3>1. Min(waiting(s[i].key)) \in 1 .. Len(s) /\ s[Min(waiting(s[i].key))].key = s[i].key
      BY <1>3, <2>2
    <3> HIDE DEF waiting
    <3> QED
      BY <1>5, <3>1 DEF Distinct
  <2> QED
    BY <1>2, <2>1, <2>2, <2>3
<1>6. ASSUME Sound(tb), NEW k \in Keys
      PROVE  Held(tb, s)[k] \in Values
  <2>1. CASE waiting(k) = {}
    <3>1. Held(tb, s)[k] = Get(tb, k)
      BY <1>2, <2>1
    <3>2. Get(tb, k) \in Values
      BY <1>6, GetIs
    <3> QED
      BY <3>1, <3>2
  <2>2. CASE waiting(k) # {}
    <3>1. Min(waiting(k)) \in 1 .. Len(s)
      BY <1>3, <2>2
    <3>2. Held(tb, s)[k] = s[Min(waiting(k))].val
      BY <1>2, <2>2
    <3> HIDE DEF waiting
    <3> QED
      BY <3>1, <3>2, CallOf
  <2> QED
    BY <2>1, <2>2
<1>7. Held(tb, s) = [k \in Keys |-> Held(tb, s)[k]]
  BY DEF Held
<1>8. Sound(tb) => Held(tb, s) \in [Keys -> Values]
  BY <1>6, <1>7
<1> QED
  BY <1>4, <1>5, <1>8

LEMMA HeldWaits ==
    ASSUME NEW tb, NEW s \in Seq(CallType), Distinct(s), NEW i \in 1 .. Len(s),
           NEW k, s[i].key = k
    PROVE  Held(tb, s)[k] = s[i].val
<1>1. \A j \in 1 .. Len(s) : Held(tb, s)[s[j].key] = s[j].val
  BY HeldIs
<1> QED
  BY <1>1

LEMMA HeldEqual ==
    ASSUME NEW tb, NEW s, NEW w, NEW r,
           \A k \in Keys : Held(tb, s)[k] = Held(w, r)[k]
    PROVE  Held(tb, s) = Held(w, r)
BY DEF Held

LEMMA PendingIs ==
    ASSUME NEW tb, NEW s
    PROVE  Pending(tb, s) <=> /\ Distinct(s)
                              /\ \A i \in 1 .. Len(s) : Absent(tb, s[i].key)
BY DEF Pending, Distinct

\* The innermost call returns.
LEMMA ReturnHolds ==
    ASSUME NEW tb, NEW w, NEW s \in Seq(CallType), s # <<>>, Pending(tb, s),
           Stores(tb, w, Head(s).key, Head(s).val)
    PROVE  Pending(w, Tail(s)) /\ Held(w, Tail(s)) = Held(tb, s)
<1> DEFINE r == Tail(s)
<1>1. /\ r \in Seq(CallType) /\ Len(r) = Len(s) - 1 /\ Len(s) \in Nat
      /\ 1 \in 1 .. Len(s) /\ Head(s) = s[1] /\ Head(s).key \in Keys
      /\ \A i \in 1 .. Len(r) : i + 1 \in 1 .. Len(s) /\ r[i] = s[i + 1]
      /\ \A i \in 1 .. Len(s) : i # 1 => i - 1 \in 1 .. Len(r) /\ r[i - 1] = s[i]
  BY TailIs, CallOf
<1>2. /\ Get(w, Head(s).key) = Head(s).val
      /\ \A k2 \in Keys : k2 # Head(s).key => Get(w, k2) = Get(tb, k2)
      /\ \A k2 \in Keys : k2 # Head(s).key /\ Absent(tb, k2) => Absent(w, k2)
  BY DEF Stores
<1>3. Pending(w, r)
  BY <1>2, ReturnKeeps
<1>4. Distinct(s) /\ Distinct(r)
  BY <1>3, PendingIs
<1> HIDE DEF r
<1>5. ASSUME NEW k \in Keys
      PROVE  Held(w, r)[k] = Held(tb, s)[k]
  <2>1. CASE k = Head(s).key
    <3>1. \A i \in 1 .. Len(r) : r[i].key # k
      BY <1>1, <1>4, <2>1 DEF Distinct
    <3>2. Held(w, r)[k] = Head(s).val
      BY <1>1, <1>2, <2>1, <3>1, HeldIs
    <3>3. Held(tb, s)[k] = Head(s).val
      BY <1>1, <1>4, <2>1, HeldWaits, SMTT(30)
    <3> QED
      BY <3>2, <3>3
  <2>2. CASE \E i \in 1 .. Len(r) : r[i].key = k
    <3>1. PICK i \in 1 .. Len(r) : r[i].key = k
      BY <2>2
    <3>2. Held(w, r)[k] = r[i].val
      BY <1>1, <1>4, <3>1, HeldWaits
    <3>3. i + 1 \in 1 .. Len(s) /\ r[i] = s[i + 1]
      BY <1>1
    <3>4. Held(tb, s)[k] = s[i + 1].val
      BY <1>4, <3>1, <3>3, HeldWaits
    <3> QED
      BY <3>2, <3>3, <3>4
  <2>3. CASE k # Head(s).key /\ \A i \in 1 .. Len(r) : r[i].key # k
    <3>1. \A i \in 1 .. Len(s) : s[i].key # k
      <4>1. ASSUME NEW i \in 1 .. Len(s), i # 1
            PROVE  s[i].key # k
        <5>1. i - 1 \in 1 .. Len(r) /\ r[i - 1] = s[i]
          BY <1>1, <4>1, Zenon
        <5> QED
          BY <2>3, <5>1, Zenon
      <4>2. s[1].key # k
        BY <1>1, <2>3, Zenon
      <4> QED
        BY <4>1, <4>2, Zenon
    <3>2. Held(w, r)[k] = Get(w, k) /\ Held(tb, s)[k] = Get(tb, k)
      BY <1>1, <2>3, <3>1, HeldIs
    <3> QED
      BY <1>2, <2>3, <3>2
  <2> QED
    BY <2>1, <2>2, <2>3
<1> QED
  BY <1>3, <1>5, HeldEqual DEF r

\* w has the front of tb's array part, up to first, and d stores the rest.
Moves(tb, w, d, first) ==
    /\ Sound(w) /\ Free(w) /\ first \in 0 .. Last(tb)
    /\ \E pos : CallsFor(d, pos, tb, first, Last(tb))
    /\ first <= Len(tb.array) /\ first <= Len(w.array)
    /\ (first = Len(tb.array) \/ first = Len(w.array))
    /\ \A i \in 1 .. Len(w.array) :
          w.array[i] = IF i <= Len(tb.array) THEN tb.array[i] ELSE Nil

\* What is moved is absent from w.
LEMMA MovedAbsent ==
    ASSUME NEW tb, Sound(tb), OnePlace(tb), NEW w, NEW d, NEW first, Moves(tb, w, d, first)
    PROVE  /\ \A k \in Keys : Absent(tb, k) => Absent(w, k)
           /\ \A j \in first .. Last(tb) - 1 :
                 Slot(tb, j).val # Nil => Absent(w, Slot(tb, j).key)
<1>1. /\ Sound(w) /\ first \in 0 .. Last(tb)
      /\ first <= Len(tb.array) /\ (first = Len(tb.array) \/ first = Len(w.array))
      /\ \A i \in 1 .. Len(w.array) :
            w.array[i] = IF i <= Len(tb.array) THEN tb.array[i] ELSE Nil
  BY DEF Moves
<1>2. \A k \in Keys, p \in DOMAIN w.nodes : w.nodes[p].key # k
  BY KeysAssumption DEF Moves, Free, FreeNode
<1>3. /\ Len(tb.array) \in Nat /\ Len(w.array) \in Nat /\ Last(tb) \in Nat
      /\ DOMAIN tb.array = 1 .. Len(tb.array)
  BY <1>1, SizeOf DEF Sound, TableSet, Last
<1>4. ASSUME NEW k \in Keys, InArray(w, k)
      PROVE  /\ k \in 1 .. Len(w.array) /\ k \in IntKeys
             /\ w.array[k] = IF k <= Len(tb.array) THEN tb.array[k] ELSE Nil
  BY <1>1, <1>4, IntKeysAre DEF InArray
<1>5. ASSUME NEW k \in Keys, Absent(tb, k)
      PROVE  Absent(w, k)
  <2>1. InArray(w, k) => w.array[k] = Nil
    BY <1>4, <1>5 DEF Absent, InArray
  <2> QED
    BY <1>2, <2>1 DEF Absent
<1>6. ASSUME NEW j \in first .. Last(tb) - 1, Slot(tb, j).val # Nil
      PROVE  Absent(w, Slot(tb, j).key)
  <2> DEFINE k == Slot(tb, j).key
  <2>0. j \in 0 .. Last(tb) - 1
    BY <1>1
  <2>1. k \in Keys
    BY <1>6, <2>0, SlotIs
  <2>2. CASE j < Len(tb.array)
    <3>1. k = j + 1 /\ first = Len(w.array)
      BY <1>1, <1>3, <2>0, <2>2, SlotIs
    <3>2. ~(k <= Len(w.array))
      BY <1>1, <1>3, <3>1
    <3> HIDE DEF k
    <3> QED
      BY <1>2, <2>1, <3>2 DEF Absent, InArray, k
  <2>3. CASE j >= Len(tb.array)
    <3>1. j - Len(tb.array) \in DOMAIN tb.nodes /\ k = tb.nodes[j - Len(tb.array)].key
          /\ tb.nodes[j - Len(tb.array)].val # Nil
      BY <1>6, <2>0, <2>3, SlotIs
    <3>2. ~InArray(tb, k)
      BY <3>1 DEF OnePlace
    <3> HIDE DEF k
    <3>3. InArray(w, k) => w.array[k] = Nil
      BY <1>4, <2>1, <3>2 DEF InArray
    <3>4. Absent(w, k)
      BY <1>2, <2>1, <3>3 DEF Absent
    <3> QED
      BY <3>4 DEF k
  <2> QED
    BY <1>3, <2>0, <2>2, <2>3
<1> QED
  BY <1>5, <1>6

\* A key that is not moved reads the same in w.
LEMMA UnmovedSame ==
    ASSUME NEW tb, Sound(tb), OnePlace(tb), NEW w, NEW d, NEW first, Moves(tb, w, d, first),
           NEW k \in Keys,
           \A j \in first .. Last(tb) - 1 : Slot(tb, j).val # Nil => Slot(tb, j).key # k
    PROVE  Get(w, k) = Get(tb, k)
<1>1. /\ Sound(w) /\ first \in 0 .. Last(tb)
      /\ first <= Len(tb.array) /\ first <= Len(w.array)
      /\ (first = Len(tb.array) \/ first = Len(w.array))
      /\ \A i \in 1 .. Len(w.array) :
            w.array[i] = IF i <= Len(tb.array) THEN tb.array[i] ELSE Nil
  BY DEF Moves
<1>2. /\ Len(tb.array) \in Nat /\ Len(w.array) \in Nat /\ Last(tb) \in Nat
      /\ DOMAIN tb.array = 1 .. Len(tb.array)
  BY <1>1, SizeOf DEF Sound, TableSet, Last
<1> DEFINE j == FindIndex(tb, k)
<1>3. /\ j # -1 => j \in 0 .. Last(tb) - 1 /\ Slot(tb, j).key = k
                   /\ Slot(tb, j).val = Get(tb, k)
      /\ Get(tb, k) # Nil => j # -1
      /\ InArray(tb, k) => j = k - 1
      /\ ~InArray(tb, k) => j = -1 \/ j >= Len(tb.array)
  <2>1. InArray(tb, k) => j = k - 1
    BY DEF FindIndex
  <2>2. ~InArray(tb, k) => j = -1 \/ j >= Len(tb.array)
    <3>1. FindNode(tb.nodes, k) # -1 => FindNode(tb.nodes, k) \in Nat
      <4>1. tb.nodes \in Vectors /\ Chained(tb.nodes) /\ DOMAIN tb.nodes = 0 .. Size(tb.nodes) - 1
        BY SizeOf DEF Sound, TableSet
      <4>2. FindNode(tb.nodes, k) # -1 => FindNode(tb.nodes, k) \in DOMAIN tb.nodes
        BY <4>1, NodeGetsPair
      <4> QED
        BY <4>1, <4>2
    <3> QED
      BY <1>2, <3>1 DEF FindIndex
  <2> QED
    BY <2>1, <2>2, EntryHasSlot
<1> HIDE DEF j
<1>4. \A p \in DOMAIN w.nodes : w.nodes[p].key # k
  BY KeysAssumption DEF Moves, Free, FreeNode
<1>5. ~InArray(w, k) => Get(w, k) = Nil
  <2>1. NodeGet(w.nodes, k) = Nil
    BY <1>1, <1>4, FindsNone DEF NodeGet, Sound, TableSet
  <2> QED
    BY <1>1, <2>1, GetIs
<1>6. Get(tb, k) # Nil => j < first
  BY <1>1, <1>2, <1>3
<1>7. CASE InArray(w, k)
  <2>1. k \in 1 .. Len(w.array) /\ k \in IntKeys
    BY <1>1, <1>7, IntKeysAre DEF InArray
  <2>2. Get(w, k) = IF k <= Len(tb.array) THEN tb.array[k] ELSE Nil
    BY <1>1, <1>7, <2>1, GetIs
  <2>3. CASE k <= Len(tb.array)
    <3>1. InArray(tb, k)
      BY <2>1, <2>3 DEF InArray
    <3> QED
      BY <2>2, <2>3, <3>1, GetIs
  <2>4. CASE ~(k <= Len(tb.array))
    <3>1. ~InArray(tb, k)
      BY <2>4 DEF InArray
    <3>2. Get(tb, k) = Nil
      BY <1>1, <1>2, <1>3, <1>6, <3>1
    <3> QED
      BY <2>2, <2>4, <3>2
  <2> QED
    BY <2>3, <2>4
<1>8. CASE ~InArray(w, k)
  <2>1. ASSUME Get(tb, k) # Nil
        PROVE  FALSE
    <3>1. j < first /\ j # -1
      BY <1>3, <1>6, <2>1
    <3>2. InArray(tb, k) /\ j = k - 1
      BY <1>1, <1>2, <1>3, <3>1
    <3>3. k \in IntKeys /\ k \in Nat /\ k <= first
      BY <1>1, <3>1, <3>2, IntKeysAre DEF InArray
    <3> QED
      BY <1>1, <1>2, <1>8, <3>3 DEF InArray
  <2> QED
    BY <1>5, <1>8, <2>1
<1> QED
  BY <1>7, <1>8

\* What d stores again: entries of tb, each once, that w does not hold.
LEMMA MovedCalls ==
    ASSUME NEW tb, Sound(tb), OnePlace(tb), NEW w, NEW d, NEW first, Moves(tb, w, d, first)
    PROVE  /\ d \in Seq(CallType) /\ Len(d) \in Nat /\ Distinct(d)
           /\ \A i \in 1 .. Len(d) : /\ d[i].key \in Keys /\ Absent(w, d[i].key)
                                     /\ ~Absent(tb, d[i].key)
                                     /\ Get(tb, d[i].key) = d[i].val
                                     /\ Get(tb, d[i].key) # Nil
           /\ \A k \in Keys : (\A i \in 1 .. Len(d) : d[i].key # k) => Get(w, k) = Get(tb, k)
<1>1. PICK pos : CallsFor(d, pos, tb, first, Last(tb))
  BY DEF Moves
<1>2. first \in 0 .. Last(tb) /\ Last(tb) \in Nat /\ d \in Seq(CallType) /\ Len(d) \in Nat
  <2>1. Last(tb) \in Nat
    BY SizeOf DEF Last, Sound, TableSet
  <2> QED
    BY <1>1, <2>1 DEF Moves, CallsFor
<1>3. ASSUME NEW i \in 1 .. Len(d)
      PROVE  /\ pos[i] \in first .. Last(tb) - 1 /\ pos[i] \in 0 .. Last(tb) - 1
             /\ Slot(tb, pos[i]).val # Nil
             /\ d[i].key = Slot(tb, pos[i]).key /\ d[i].val = Slot(tb, pos[i]).val
  <2>1. pos[i] \in first .. Last(tb) - 1 /\ Slot(tb, pos[i]).val # Nil
        /\ d[i] = SlotCall(tb, pos[i])
    BY <1>1 DEF CallsFor
  <2>2. pos[i] \in 0 .. Last(tb) - 1
    BY <1>2, <2>1
  <2> QED
    BY <2>1, <2>2 DEF SlotCall, Call
<1>4. ASSUME NEW i \in 1 .. Len(d)
      PROVE  /\ d[i].key \in Keys /\ Absent(w, d[i].key) /\ ~Absent(tb, d[i].key)
             /\ Get(tb, d[i].key) = d[i].val /\ d[i].val # Nil
             /\ FindIndex(tb, d[i].key) = pos[i]
  <2> DEFINE j == pos[i]
  <2>1. /\ j \in first .. Last(tb) - 1 /\ j \in 0 .. Last(tb) - 1 /\ Slot(tb, j).val # Nil
        /\ d[i].key = Slot(tb, j).key /\ d[i].val = Slot(tb, j).val
    BY <1>3
  <2> HIDE DEF j
  <2>2. /\ d[i].key \in Keys /\ FindIndex(tb, d[i].key) = j
        /\ Get(tb, d[i].key) = d[i].val
    BY <2>1, SlotOfEntry
  <2>3. Absent(w, d[i].key)
    BY <2>1, MovedAbsent
  <2>4. ~Absent(tb, d[i].key)
    BY <2>1, <2>2, AbsentHasNoSlot
  <2> QED
    BY <2>1, <2>2, <2>3, <2>4 DEF j
<1>5. Distinct(d)
  <2>1. \A i, j \in 1 .. Len(d) : i # j => pos[i] # pos[j]
    BY <1>1 DEF CallsFor
  <2> QED
    BY <1>4, <2>1 DEF Distinct
<1>6. ASSUME NEW k \in Keys, \A i \in 1 .. Len(d) : d[i].key # k
      PROVE  Get(w, k) = Get(tb, k)
  <2>1. ASSUME NEW j \in first .. Last(tb) - 1, Slot(tb, j).val # Nil
        PROVE  Slot(tb, j).key # k
    <3>1. PICK i \in 1 .. Len(d) : pos[i] = j
      BY <1>1, <2>1 DEF CallsFor
    <3> QED
      BY <1>3, <1>6, <3>1
  <2> QED
    BY <2>1, UnmovedSame
<1> QED
  BY <1>2, <1>4, <1>5, <1>6

\* The calls that move the entries keep what the table holds.
LEMMA MovedHolds ==
    ASSUME NEW tb, Sound(tb), OnePlace(tb), NEW s \in Seq(CallType), Pending(tb, s),
           NEW w, NEW d, NEW first, Moves(tb, w, d, first), NEW r, Deepens(r, d, s)
    PROVE  Pending(w, r) /\ Held(w, r) = Held(tb, s)
<1>1. /\ d \in Seq(CallType) /\ Len(d) \in Nat /\ Distinct(d)
      /\ \A i \in 1 .. Len(d) : /\ d[i].key \in Keys /\ Absent(w, d[i].key)
                                /\ ~Absent(tb, d[i].key)
                                /\ Get(tb, d[i].key) = d[i].val
      /\ \A k \in Keys : (\A i \in 1 .. Len(d) : d[i].key # k) => Get(w, k) = Get(tb, k)
  BY MovedCalls
<1>2. /\ r \in Seq(CallType) /\ Len(s) \in Nat /\ Len(r) = Len(d) + Len(s)
      /\ Distinct(s) /\ \A i \in 1 .. Len(s) : Absent(tb, s[i].key) /\ s[i].key \in Keys
  <2>1. Len(s) \in Nat
    BY LenProperties
  <2> QED
    BY <2>1, PendingIs, CallOf DEF Deepens
<1>3. \A i \in 1 .. Len(r) :
         \/ i \in 1 .. Len(d) /\ r[i] = d[i]
         \/ \E j \in 1 .. Len(s) : /\ i = Len(d) + j
                                   /\ r[i].key = s[j].key /\ r[i].val = s[j].val
  BY <1>1, DeepensIndex
<1>4. /\ \A i \in 1 .. Len(d) : i \in 1 .. Len(r) /\ r[i] = d[i]
      /\ \A j \in 1 .. Len(s) : /\ Len(d) + j \in 1 .. Len(r)
                                /\ r[Len(d) + j].key = s[j].key
                                /\ r[Len(d) + j].val = s[j].val
  BY <1>1, <1>2 DEF Deepens
<1>5. \A i \in 1 .. Len(r) : Absent(w, r[i].key)
  <2>1. \A j \in 1 .. Len(s) : Absent(w, s[j].key)
    BY <1>2, MovedAbsent
  <2> QED
    BY <1>1, <1>3, <2>1
<1>6. Distinct(r)
  <2>1. ASSUME NEW i \in 1 .. Len(r), NEW j \in 1 .. Len(r), i # j
        PROVE  r[i].key # r[j].key
    <3>1. CASE i \in 1 .. Len(d) /\ r[i] = d[i]
      <4>1. CASE j \in 1 .. Len(d) /\ r[j] = d[j]
        BY <1>1, <2>1, <3>1, <4>1 DEF Distinct
      <4>2. CASE \E m \in 1 .. Len(s) : r[j].key = s[m].key
        BY <1>1, <1>2, <3>1, <4>2
      <4> QED
        BY <1>3, <4>1, <4>2
    <3>2. CASE \E m \in 1 .. Len(s) : i = Len(d) + m /\ r[i].key = s[m].key
      <4>1. CASE j \in 1 .. Len(d) /\ r[j] = d[j]
        BY <1>1, <1>2, <3>2, <4>1
      <4>2. CASE \E m \in 1 .. Len(s) : j = Len(d) + m /\ r[j].key = s[m].key
        BY <1>2, <2>1, <3>2, <4>2 DEF Distinct
      <4> QED
        BY <1>3, <4>1, <4>2
    <3> QED
      BY <1>3, <3>1, <3>2
  <2> QED
    BY <2>1 DEF Distinct
<1>7. ASSUME NEW k \in Keys
      PROVE  Held(w, r)[k] = Held(tb, s)[k]
  <2>1. CASE \E i \in 1 .. Len(d) : d[i].key = k
    <3>1. PICK i \in 1 .. Len(d) : d[i].key = k
      BY <2>1
    <3>4. i \in 1 .. Len(r) /\ r[i].key = k /\ r[i].val = d[i].val
      BY <1>4, <3>1
    <3>2. Held(w, r)[k] = d[i].val
      BY <1>2, <1>6, <3>4, HeldWaits, SMTT(30)
    <3>3. Held(tb, s)[k] = Get(tb, k)
      <4>1. \A j \in 1 .. Len(s) : s[j].key # k
        BY <1>1, <1>2, <3>1
      <4> QED
        BY <4>1, HeldIs
    <3> QED
      BY <1>1, <3>1, <3>2, <3>3
  <2>2. CASE \E j \in 1 .. Len(s) : s[j].key = k
    <3>1. PICK j \in 1 .. Len(s) : s[j].key = k
      BY <2>2
    <3> DEFINE i == Len(d) + j
    <3>2. i \in 1 .. Len(r) /\ r[i].key = k /\ r[i].val = s[j].val
      BY <1>4, <3>1
    <3> HIDE DEF i
    <3>3. Held(w, r)[k] = s[j].val
      BY <1>2, <1>6, <3>2, HeldWaits
    <3>4. Held(tb, s)[k] = s[j].val
      BY <1>2, <3>1, HeldWaits
    <3> QED
      BY <3>3, <3>4
  <2>3. CASE /\ \A i \in 1 .. Len(d) : d[i].key # k
             /\ \A j \in 1 .. Len(s) : s[j].key # k
    <3>1. \A i \in 1 .. Len(r) : r[i].key # k
      BY <1>3, <2>3
    <3>2. Held(w, r)[k] = Get(w, k)
      BY <1>2, <3>1, HeldIs
    <3>3. Held(tb, s)[k] = Get(tb, k)
      BY <2>3, HeldIs
    <3> QED
      BY <1>1, <2>3, <3>2, <3>3
  <2> QED
    BY <2>1, <2>2, <2>3
<1>8. Pending(w, r)
  BY <1>5, <1>6, PendingIs
<1> QED
  BY <1>7, <1>8, HeldEqual

\* A rehash keeps what the table holds, and leaves no node.
LEMMA RehashHolds ==
    ASSUME NEW tb, Sound(tb), OnePlace(tb), NEW s \in Seq(CallType), Pending(tb, s),
           NEW nasize \in Nat, NEW nh \in Int, NEW r, Deepens(r, Displaced(tb, nasize), s)
    PROVE  LET w == Resized(tb, nasize, nh)
           IN  Free(w) /\ Pending(w, r) /\ Held(w, r) = Held(tb, s)
<1> DEFINE w == Resized(tb, nasize, nh)
           d == Displaced(tb, nasize)
<1>1. PICK first \in 0 .. Last(tb) :
         /\ \E pos : CallsFor(d, pos, tb, first, Last(tb))
         /\ first <= nasize /\ first <= Len(tb.array)
         /\ first = nasize \/ first = Len(tb.array)
  BY DisplacedIs
<1>2. /\ Sound(w) /\ Free(w) /\ Len(w.array) = nasize
      /\ w.array = [i \in 1 .. nasize |-> IF i <= Len(tb.array) THEN tb.array[i] ELSE Nil]
  BY ResizedSound
<1>3. Deepens(r, d, s)
  OBVIOUS
<1> HIDE DEF w, d
<1>4. Moves(tb, w, d, first)
  BY <1>1, <1>2 DEF Moves
<1> QED
  BY <1>2, <1>3, <1>4, MovedHolds DEF w

\* A copy holds what the table holds, when the calls for its nodes are stored.
LEMMA CopyHolds ==
    ASSUME NEW tb, Sound(tb), OnePlace(tb), NEW w, Sound(w), Free(w), w.array = tb.array,
           NEW d, NEW pos, CallsFor(d, pos, tb, Len(tb.array), Last(tb))
    PROVE  Pending(w, d) /\ Held(w, d) = Held(tb, <<>>)
<1> DEFINE none == <<>>
           first == Len(tb.array)
<1>1. first \in 0 .. Last(tb) /\ DOMAIN tb.array = 1 .. Len(tb.array)
  BY SizeOf DEF Last, Sound, TableSet
<1>2. Moves(tb, w, d, first)
  BY <1>1 DEF Moves
<1>3. none \in Seq(CallType) /\ Len(none) = 0
  OBVIOUS
<1> HIDE DEF none, first
<1> DEFINE r == d
<1>4. Deepens(r, d, none)
  <2>1. d \in Seq(CallType) /\ Len(d) \in Nat
    BY DEF CallsFor
  <2> QED
    BY <1>3, <2>1 DEF Deepens
<1> HIDE DEF r
<1>5. Pending(tb, none)
  BY <1>3 DEF Pending
<1>6. Pending(w, r) /\ Held(w, r) = Held(tb, none)
  <2>1. none \in Seq(CallType)
    BY <1>3
  <2> QED
    BY <1>2, <1>4, <1>5, <2>1, MovedHolds
<1> QED
  BY <1>6 DEF none, r

\* installNewHashKey goes on with the call: nothing else changes.
LEMMA PlacingHolds ==
    ASSUME NEW tb, NEW s \in Seq(CallType), s # <<>>, Absent(tb, Head(s).key),
           Pending(tb, s), NEW r, Deepens(r, <<>>, s)
    PROVE  Pending(tb, r) /\ Held(tb, r) = Held(tb, s)
<1>1. Pending(tb, r)
  BY PlacingKeeps
<1>2. /\ r \in Seq(CallType) /\ Len(r) = Len(s) /\ Len(s) \in Nat
      /\ \A i \in 1 .. Len(s) : r[i].key = s[i].key /\ r[i].val = s[i].val
  <2>1. Len(<<>>) = 0 /\ Len(s) \in Nat
    BY LenProperties
  <2>2. \A i \in 1 .. Len(s) : 0 + i = i
    BY <2>1
  <2> QED
    BY <2>1, <2>2 DEF Deepens
<1>3. Distinct(r) /\ Distinct(s)
  BY <1>1, PendingIs
<1>4. ASSUME NEW k \in Keys
      PROVE  Held(tb, r)[k] = Held(tb, s)[k]
  <2>1. CASE \E i \in 1 .. Len(s) : s[i].key = k
    <3>1. PICK i \in 1 .. Len(s) : s[i].key = k
      BY <2>1
    <3>2. Held(tb, s)[k] = s[i].val
      BY <1>3, <3>1, HeldWaits
    <3>3. i \in 1 .. Len(r) /\ r[i].key = k /\ r[i].val = s[i].val
      BY <1>2, <3>1
    <3>4. Held(tb, r)[k] = r[i].val
      BY <1>2, <1>3, <3>3, HeldWaits
    <3> QED
      BY <3>2, <3>3, <3>4
  <2>2. CASE \A i \in 1 .. Len(s) : s[i].key # k
    <3>1. \A i \in 1 .. Len(r) : r[i].key # k
      BY <1>2, <2>2
    <3> QED
      BY <1>2, <2>2, <3>1, HeldIs
  <2> QED
    BY <2>1, <2>2
<1> QED
  BY <1>1, <1>4, HeldEqual
-----------------------------------------------------------------------------
(* The inductive invariant of a map.                                       *)

\* While list items are left, the integer keys are the array part's.
Building ==
    /\ NodeKeys(t) \cap IntKeys = {}
    /\ \A i \in 1 .. Len(todo) : todo[i].key \notin IntKeys
    /\ listed = 0 => \A i \in DOMAIN t.array : t.array[i] = Nil
    /\ listed > 0 => todo = <<>>

\* A traversal that returned k last has returned what is up to its slot, and
\* nothing behind.
Visited(tb, k, ks) ==
    /\ FindIndex(tb, k) # -1
    /\ \A x \in ks : FindIndex(tb, x) \in 0 .. FindIndex(tb, k)
    /\ \A j \in 0 .. FindIndex(tb, k) : Slot(tb, j).val # Nil => Slot(tb, j).key \in ks

Traversing ==
    /\ at.mode # "invalid key"
    /\ at.mode = "on" => /\ todo = <<>>
                         /\ at.key = Nil => seen = {}
                         /\ at.key # Nil => Visited(t, at.key, seen)

MInv ==
    /\ IInv /\ OnePlace(t) /\ Pending(t, todo)
    /\ items > 0 => Building
    /\ Traversing

LEMMA FreeHasOnePlace ==
    ASSUME NEW tb, Free(tb)
    PROVE  OnePlace(tb) /\ NodeKeys(tb) = {}
BY DEF Free, FreeNode, OnePlace, NodeKeys

LEMMA NothingPending ==
    ASSUME NEW tb, NEW s, s = <<>>
    PROVE  Pending(tb, s) /\ \A k \in Keys : Held(tb, s)[k] = Get(tb, k)
<1>1. Len(s) = 0 /\ s \in Seq(CallType) /\ \A i : i \notin 1 .. Len(s)
  OBVIOUS
<1>2. \A k \in Keys : Held(tb, s)[k] = Get(tb, k)
  BY <1>1, HeldIs, ZenonT(40)
<1> QED
  BY <1>1, <1>2 DEF Pending

LEMMA MInvInit == Init => MInv
<1> SUFFICES ASSUME Init PROVE MInv
  OBVIOUS
<1>1. PICK narray, nhash \in 0 .. MaxHint :
         t = NewTable(narray, nhash) /\ items \in {0, narray}
  BY DEF Init
<1>2. /\ IInv /\ todo = <<>> /\ at = Idle /\ seen = {}
      /\ Free(t) /\ \A i \in DOMAIN t.array : t.array[i] = Nil
  BY <1>1, InitSound, NewTableSound, TableAssumption DEF Init
<1>3. OnePlace(t) /\ NodeKeys(t) = {} /\ Pending(t, todo)
  BY <1>2, FreeHasOnePlace, NothingPending
<1>4. Building
  BY <1>2, <1>3 DEF Building, Init
<1> QED
  BY <1>2, <1>3, <1>4 DEF MInv, Traversing, Idle

\* Without integer keys in the nodes, and with an array part of nils, every
\* integer key is absent.
LEMMA IntegersAbsent ==
    ASSUME NEW tb, NodeKeys(tb) \cap IntKeys = {}, NEW k \in IntKeys,
           InArray(tb, k) => tb.array[k] = Nil
    PROVE  Absent(tb, k)
BY KeysAssumption DEF NodeKeys, Absent, Keys

LEMMA ContinueKeeps ==
    ASSUME MInv, Continue
    PROVE  MInv' /\ Held(t', todo') = Held(t, todo)
<1>1. /\ IInv /\ IInv' /\ OnePlace(t) /\ Pending(t, todo) /\ Sound(t)
      /\ items > 0 => Building
      /\ todo \in Seq(CallType) /\ listed \in Nat
  BY ContinueSound DEF MInv, IInv, StateOK
<1>2. /\ todo # <<>> /\ UNCHANGED <<items, listed, at, seen>>
      /\ \/ Returns
         \/ (Rehashes \/ PlacesOn) /\ Absent(t, Head(todo).key)
  BY <1>1, ContinueIs
<1>3. Head(todo) = todo[1] /\ 1 \in 1 .. Len(todo) /\ Head(todo).key \in Keys
  BY <1>1, <1>2, TailIs, CallOf
<1>4. Traversing'
  BY <1>2 DEF MInv, Traversing
<1>5. CASE Returns
  <2> DEFINE k == Head(todo).key
  <2>1. todo' = Tail(todo) /\ Stores(t, t', k, Head(todo).val)
    BY <1>5 DEF Returns
  <2>2. Pending(t', todo') /\ Held(t', todo') = Held(t, todo)
    BY <1>1, <1>2, <2>1, ReturnHolds
  <2>3. /\ OnePlace(t') /\ NodeKeys(t') \subseteq NodeKeys(t) \cup {k}
        /\ ~InArray(t, k) => t'.array = t.array
    BY <1>1, <2>1 DEF Stores
  <2>4. ASSUME items' > 0
        PROVE  Building'
    <3>1. Building /\ k \notin IntKeys /\ listed' = 0 /\ listed = 0
      BY <1>1, <1>2, <1>3, <2>4 DEF Building
    <3>2. t'.array = t.array
      BY <2>3, <3>1 DEF InArray
    <3>3. \A i \in 1 .. Len(todo') : todo'[i].key \notin IntKeys
      BY <1>1, <1>2, <2>1, <3>1, TailIs DEF Building
    <3> HIDE DEF k
    <3> QED
      BY <2>3, <3>1, <3>2, <3>3 DEF Building
  <2> QED
    BY <1>1, <1>4, <2>2, <2>3, <2>4 DEF MInv
<1>6. CASE Rehashes /\ Absent(t, Head(todo).key)
  <2>1. PICK nasize \in Nat, nh \in Int :
           t' = Resized(t, nasize, nh) /\ Deepens(todo', Displaced(t, nasize), todo)
    BY <1>6 DEF Rehashes
  <2>2. Free(t') /\ Pending(t', todo') /\ Held(t', todo') = Held(t, todo)
    BY <1>1, <2>1, RehashHolds
  <2>3. OnePlace(t') /\ NodeKeys(t') = {}
    BY <2>2, FreeHasOnePlace
  <2>4. ASSUME items' > 0
        PROVE  Building'
    <3>1. Building /\ listed' = 0 /\ listed = 0
      BY <1>1, <1>2, <2>4 DEF Building
    <3>2. \A i \in DOMAIN t.array : t.array[i] = Nil
      BY <3>1 DEF Building
    <3> DEFINE d == Displaced(t, nasize)
    <3>3. /\ d \in Seq(CallType)
          /\ \A i \in 1 .. Len(d) : d[i].key \notin IntKeys
      <4>1. d \in Seq(CallType) /\ \A i \in 1 .. Len(d) : ~Absent(t, d[i].key)
        BY <1>1, DisplacedKeys
      <4>2. \A k \in IntKeys : Absent(t, k)
        <5>1. \A k \in IntKeys : InArray(t, k) => k \in DOMAIN t.array
          BY <1>1, GetIs DEF Keys
        <5> QED
          BY <3>1, <3>2, <5>1, IntegersAbsent DEF Building
      <4> QED
        BY <4>1, <4>2
    <3>4. Deepens(todo', d, todo)
      BY <2>1
    <3> HIDE DEF d
    <3>5. \A i \in 1 .. Len(todo') : todo'[i].key \notin IntKeys
      <4>1. ASSUME NEW i \in 1 .. Len(todo')
            PROVE  todo'[i].key \notin IntKeys
        <5>1. \/ i \in 1 .. Len(d) /\ todo'[i] = d[i]
              \/ \E j \in 1 .. Len(todo) : todo'[i].key = todo[j].key
          BY <1>1, <3>3, <3>4, DeepensIndex
        <5> QED
          BY <3>1, <3>3, <5>1 DEF Building
      <4> QED
        BY <4>1
    <3>6. \A i \in DOMAIN t'.array : t'.array[i] = Nil
      <4>1. t'.array = [i \in 1 .. nasize |-> IF i <= Len(t.array) THEN t.array[i] ELSE Nil]
        BY <1>1, <2>1, ResizedSound
      <4>2. \A i \in 1 .. nasize : i <= Len(t.array) => i \in DOMAIN t.array
        BY <1>1 DEF Sound, TableSet
      <4> QED
        BY <3>2, <4>1, <4>2
    <3> QED
      BY <2>3, <3>1, <3>5, <3>6 DEF Building
  <2> QED
    BY <1>1, <1>4, <2>2, <2>3, <2>4 DEF MInv
<1>7. CASE PlacesOn /\ Absent(t, Head(todo).key)
  <2>1. t' = t /\ Deepens(todo', <<>>, todo)
    BY <1>7 DEF PlacesOn
  <2>2. Pending(t', todo') /\ Held(t', todo') = Held(t, todo)
    BY <1>1, <1>2, <1>7, <2>1, PlacingHolds
  <2>3. ASSUME items' > 0
        PROVE  Building'
    <3>1. Building /\ listed' = 0 /\ listed = 0
      BY <1>1, <1>2, <2>3 DEF Building
    <3>2. \A i \in 1 .. Len(todo') : todo'[i].key \notin IntKeys
      <4> DEFINE none == <<>>
      <4>1. none \in Seq(CallType) /\ Len(none) = 0 /\ Deepens(todo', none, todo)
        BY <2>1
      <4> HIDE DEF none
      <4>2. ASSUME NEW i \in 1 .. Len(todo')
            PROVE  todo'[i].key \notin IntKeys
        <5> DEFINE r == todo'
        <5>0. i \in 1 .. Len(r) /\ Deepens(r, none, todo)
          BY <4>1
        <5> HIDE DEF r
        <5>1. \/ i \in 1 .. Len(none)
              \/ \E j \in 1 .. Len(todo) : r[i].key = todo[j].key
          <6>1. none \in Seq(CallType) /\ todo \in Seq(CallType)
            BY <1>1, <4>1
          <6>2. \/ i \in 1 .. Len(none) /\ r[i] = none[i]
                \/ \E j \in 1 .. Len(todo) :
                      /\ i = Len(none) + j
                      /\ r[i].key = todo[j].key /\ r[i].val = todo[j].val
                      /\ j # 1 => r[i].placing = todo[j].placing
            BY <5>0, <6>1, DeepensIndex
          <6> QED
            BY <6>2
        <5> QED
          BY <3>1, <4>1, <5>1 DEF Building, r
      <4> QED
        BY <4>2
    <3> QED
      BY <2>1, <3>1, <3>2 DEF Building
  <2> QED
    BY <1>1, <1>4, <2>1, <2>2, <2>3 DEF MInv
<1> QED
  BY <1>2, <1>5, <1>6, <1>7

\* An assignment to a key that is present keeps what a traversal has visited.
LEMMA RewriteKeepsVisited ==
    ASSUME NEW tb, Sound(tb), OnePlace(tb), NEW k \in Keys, Get(tb, k) # Nil,
           NEW w, NEW v, Rewrites(tb, w, k, v), OnePlace(w),
           NEW last \in Keys, NEW ks \in SUBSET Keys, Visited(tb, last, ks)
    PROVE  Visited(w, last, ks)
<1>1. Sound(w) /\ SameKeys(tb, w) /\ \A x \in Keys : x # k => Get(w, x) = Get(tb, x)
  BY DEF Rewrites
<1>2. \A x \in Keys : FindIndex(w, x) = FindIndex(tb, x)
  BY <1>1, SameKeysFind
<1> DEFINE i == FindIndex(tb, last)
<1>3. i # -1 /\ FindIndex(w, last) = i /\ i \in 0 .. Last(w) - 1
  BY <1>1, <1>2, EntryHasSlot DEF Visited
<1>4. ASSUME NEW j \in 0 .. i, Slot(w, j).val # Nil
      PROVE  Slot(w, j).key \in ks
  <2> DEFINE x == Slot(w, j).key
  <2>1. j \in 0 .. Last(w) - 1
    <3>1. Last(w) \in Int
      BY <1>1, SizeOf DEF Last, Sound, TableSet
    <3> HIDE DEF i
    <3> QED
      BY <1>3, <3>1
  <2>2. x \in Keys /\ FindIndex(w, x) = j /\ Get(w, x) # Nil
    BY <1>1, <1>4, <2>1, SlotOfEntry
  <2> HIDE DEF x
  <2>3. FindIndex(tb, x) = j /\ Get(tb, x) # Nil /\ j # -1
    BY <1>1, <1>2, <2>1, <2>2
  <2>4. Slot(tb, j).key = x /\ Slot(tb, j).val # Nil
    BY <2>2, <2>3, EntryHasSlot
  <2> QED
    BY <2>4 DEF Visited, x
<1>5. \A x \in ks : FindIndex(w, x) \in 0 .. i
  BY <1>2 DEF Visited
<1> QED
  BY <1>3, <1>4, <1>5 DEF Visited

LEMMA SetKeeps ==
    ASSUME MInv, ~Mixed, NEW k \in Keys, NEW v \in Values, Set(k, v)
    PROVE  /\ MInv' /\ Held(t', todo') = [Held(t, todo) EXCEPT ![k] = v]
           /\ Held(t, todo)[k] = Get(t, k)
<1>1. /\ IInv /\ StateOK /\ IInv' /\ OnePlace(t) /\ Sound(t)
      /\ items > 0 => Building
  BY SetSound DEF MInv, IInv, StateOK, Values
<1>2. /\ todo = <<>> /\ UNCHANGED <<items, listed>>
      /\ \/ at' = Idle /\ seen' = {}
         \/ Get(t, k) # Nil /\ UNCHANGED <<at, seen>>
      /\ \/ Rewrites(t, t', k, v) /\ todo' = <<>>
         \/ /\ Absent(t, k) /\ ~InArray(t, k)
            /\ t' = t /\ todo' = <<Call(k, v)>>
  BY <1>1, SetIs
<1>3. listed = 0 /\ (items > 0 => k \notin IntKeys)
  BY KeysAssumption DEF Set
<1>4. \A k2 \in Keys : Held(t, todo)[k2] = Get(t, k2)
  BY <1>2, NothingPending
<1>5. Held(t, todo) \in [Keys -> Values]
  BY <1>1, HeldIs DEF StateOK
<1>6. CASE Rewrites(t, t', k, v) /\ todo' = <<>>
  <2>1. Stores(t, t', k, v)
    BY <1>1, <1>6, RewritesStores
  <2>2. /\ Sound(t') /\ OnePlace(t') /\ NodeKeys(t') \subseteq NodeKeys(t) \cup {k}
        /\ ~InArray(t, k) => t'.array = t.array
        /\ Get(t', k) = v /\ \A k2 \in Keys : k2 # k => Get(t', k2) = Get(t, k2)
    BY <1>1, <2>1 DEF Stores
  <2>3. Pending(t', todo') /\ \A k2 \in Keys : Held(t', todo')[k2] = Get(t', k2)
    BY <1>6, NothingPending
  <2>4. Held(t', todo') = [Held(t, todo) EXCEPT ![k] = v]
    <3>1. Held(t', todo') = [k2 \in Keys |-> Held(t', todo')[k2]]
      BY DEF Held
    <3> DEFINE h == Held(t, todo)
               g == Held(t', todo')
    <3>2. h \in [Keys -> Values] /\ g = [k2 \in Keys |-> g[k2]]
          /\ g[k] = v /\ \A k2 \in Keys : k2 # k => g[k2] = h[k2]
      BY <1>4, <1>5, <2>2, <2>3, <3>1
    <3> HIDE DEF h, g
    <3>3. g = [h EXCEPT ![k] = v]
      BY <3>2
    <3> QED
      BY <3>3 DEF h, g
  <2>5. ASSUME items' > 0
        PROVE  Building'
    <3>1. Building /\ k \notin IntKeys /\ t'.array = t.array
      BY <1>1, <1>2, <1>3, <2>2, <2>5 DEF InArray
    <3>2. \A i : i \notin 1 .. Len(todo')
      BY <1>6
    <3> QED
      BY <1>2, <1>6, <2>2, <3>1, <3>2 DEF Building
  <2>6. Traversing'
    <3>1. CASE at' = Idle /\ seen' = {}
      BY <3>1 DEF Traversing, Idle
    <3>2. CASE Get(t, k) # Nil /\ UNCHANGED <<at, seen>>
      <4>1. Traversing /\ at.key \in Keys \cup {Nil} /\ seen \in SUBSET Keys
        BY <1>1 DEF MInv, StateOK, AtType
      <4>2. at.mode = "on" /\ at.key # Nil => Visited(t', at.key, seen)
        <5> HAVE at.mode = "on" /\ at.key # Nil
        <5>1. at.key \in Keys /\ Visited(t, at.key, seen)
          BY <4>1 DEF Traversing
        <5> QED
          BY <1>1, <1>6, <2>2, <3>2, <4>1, <5>1, RewriteKeepsVisited
      <4> QED
        BY <1>6, <3>2, <4>1, <4>2 DEF Traversing
    <3> QED
      BY <1>2, <3>1, <3>2
  <2> QED
    BY <1>1, <1>4, <2>2, <2>3, <2>4, <2>5, <2>6 DEF MInv
<1>7. CASE Absent(t, k) /\ ~InArray(t, k) /\ t' = t /\ todo' = <<Call(k, v)>>
  <2>1. at' = Idle /\ seen' = {}
    BY <1>1, <1>2, <1>7, GetIs
  <2>2. /\ todo' \in Seq(CallType) /\ Len(todo') = 1
        /\ todo'[1].key = k /\ todo'[1].val = v
    <3>1. Call(k, v) \in CallType /\ Call(k, v).key = k /\ Call(k, v).val = v
      BY DEF Call, CallType, Values
    <3> HIDE DEF Call
    <3> QED
      BY <1>7, <3>1
  <2> DEFINE s == todo'
  <2>3. s \in Seq(CallType) /\ 1 \in 1 .. Len(s) /\ s[1].key = k /\ s[1].val = v
        /\ \A i \in 1 .. Len(s) : i = 1
    BY <2>2
  <2> HIDE DEF s
  <2>4. Distinct(s)
    BY <2>3 DEF Distinct
  <2>5. Pending(t, s)
    BY <1>7, <2>3, <2>4, PendingIs
  <2>6. Held(t, s) = [Held(t, todo) EXCEPT ![k] = v]
    <3>1. Held(t, s)[k] = v
      BY <2>3, <2>4, HeldWaits
    <3>2. ASSUME NEW k2 \in Keys, k2 # k
          PROVE  Held(t, s)[k2] = Get(t, k2)
      <4>1. \A i \in 1 .. Len(s) : s[i].key # k2
        BY <2>3, <3>2
      <4> QED
        BY <2>3, <4>1, HeldIs
    <3>3. Held(t, s) = [k2 \in Keys |-> Held(t, s)[k2]]
      BY DEF Held
    <3> DEFINE h == Held(t, todo)
               g == Held(t, s)
    <3>4. h \in [Keys -> Values] /\ g = [k2 \in Keys |-> g[k2]]
          /\ g[k] = v /\ \A k2 \in Keys : k2 # k => g[k2] = h[k2]
      BY <1>4, <1>5, <3>1, <3>2, <3>3
    <3> HIDE DEF h, g
    <3>5. g = [h EXCEPT ![k] = v]
      BY <3>4
    <3> QED
      BY <3>5 DEF h, g
  <2>7. ASSUME items' > 0
        PROVE  Building'
    <3>1. Building /\ k \notin IntKeys /\ listed' = 0
      BY <1>1, <1>2, <1>3, <2>7
    <3>2. \A i \in 1 .. Len(todo') : todo'[i].key \notin IntKeys
      BY <2>3, <3>1 DEF s
    <3> QED
      BY <1>2, <1>7, <3>1, <3>2 DEF Building
  <2>8. Traversing'
    BY <2>1 DEF Traversing, Idle
  <2> QED
    BY <1>1, <1>4, <1>7, <2>5, <2>6, <2>7, <2>8 DEF MInv, s
<1> QED
  BY <1>2, <1>6, <1>7

LEMMA SetListKeeps ==
    ASSUME MInv, NEW n \in IntKeys, NEW vals \in [1 .. n -> Values], SetList(vals)
    PROVE  /\ MInv' /\ todo = <<>> /\ todo' = <<>> /\ at' = Idle /\ seen' = {}
           /\ listed + 1 \in IntKeys /\ listed + n \in IntKeys
           /\ Held(t', todo') \in [Keys -> Values]
           /\ \A k \in Keys : k \notin listed + 1 .. listed + n =>
                                 Held(t', todo')[k] = Held(t, todo)[k]
<1> DEFINE last == listed + n
<1>1. /\ IInv /\ StateOK /\ OnePlace(t) /\ Sound(t) /\ listed \in Nat
      /\ items > 0 => Building
  BY DEF MInv, IInv, StateOK
<1>2. /\ todo = <<>> /\ UNCHANGED <<todo, rehashes>> /\ at' = Idle /\ seen' = {}
      /\ items > 0 /\ last \in IntKeys
      /\ Sound(t') /\ t'.nodes = t.nodes /\ Len(t.array) <= Len(t'.array)
      /\ \A i \in 1 .. Len(t'.array) :
            t'.array[i] = IF i \in listed + 1 .. last THEN vals[i - listed]
                          ELSE IF i <= Len(t.array) THEN t.array[i] ELSE Nil
      /\ items' > 0 => listed' > 0
  BY <1>1, SetListIs
<1>3. IInv'
  <2>1. \A k : vals \in [1 .. n -> Vals \cup {Nil}]
    BY DEF Values
  <2>2. Next
    BY <2>1 DEF Next
  <2> QED
    BY <1>1, <2>2, IInvStep
<1>4. n \in 1 .. K /\ last \in 1 .. K /\ listed + 1 \in IntKeys
  BY <1>1, <1>2, IntKeysAre
<1> HIDE DEF last
<1>5. Building /\ NodeKeys(t) \cap IntKeys = {}
  BY <1>1, <1>2 DEF Building
<1>6. \A p \in DOMAIN t.nodes : t.nodes[p].key \notin IntKeys
  BY <1>5, KeysAssumption DEF NodeKeys, Keys
<1>7. OnePlace(t') /\ NodeKeys(t') = NodeKeys(t)
  BY <1>2, <1>6 DEF OnePlace, NodeKeys, InArray
<1>8. Pending(t', todo') /\ Traversing'
      /\ \A k \in Keys : /\ Held(t', todo')[k] = Get(t', k)
                         /\ Held(t, todo)[k] = Get(t, k)
  BY <1>2, NothingPending DEF Traversing, Idle
<1>9. ASSUME items' > 0
      PROVE  Building'
  <2>1. \A i : i \notin 1 .. Len(todo')
    BY <1>2
  <2>2. listed' \in Nat /\ listed' > 0
    BY <1>2, <1>3, <1>9 DEF IInv, StateOK
  <2> QED
    BY <1>2, <1>5, <1>7, <2>1, <2>2 DEF Building
<1>10. ASSUME NEW k \in Keys, k \notin listed + 1 .. last
       PROVE  Get(t', k) = Get(t, k)
  <2>1. /\ Len(t.array) \in Nat /\ DOMAIN t.array = 1 .. Len(t.array)
        /\ Len(t'.array) \in Nat /\ DOMAIN t'.array = 1 .. Len(t'.array)
    BY <1>1, <1>2 DEF Sound, TableSet
  <2>2. CASE InArray(t, k)
    <3>1. InArray(t', k) /\ k \in 1 .. Len(t'.array) /\ k <= Len(t.array)
      BY <1>2, <2>1, <2>2, IntKeysAre DEF InArray
    <3>2. t'.array[k] = t.array[k]
      BY <1>2, <1>10, <3>1
    <3> QED
      BY <1>1, <1>2, <2>2, <3>1, <3>2, GetIs
  <2>3. CASE ~InArray(t, k) /\ InArray(t', k)
    <3>1. k \in 1 .. Len(t'.array) /\ ~(k <= Len(t.array)) /\ k \in IntKeys
      BY <2>1, <2>3, IntKeysAre DEF InArray
    <3>2. t'.array[k] = Nil
      BY <1>2, <1>10, <3>1
    <3>3. Absent(t, k)
      BY <1>5, <2>3, <3>1, IntegersAbsent
    <3> QED
      BY <1>1, <1>2, <2>3, <3>2, <3>3, GetIs
  <2>4. CASE ~InArray(t, k) /\ ~InArray(t', k)
    BY <1>1, <1>2, <2>4, GetIs
  <2> QED
    BY <2>2, <2>3, <2>4
<1>11. Held(t', todo') \in [Keys -> Values]
  <2>1. todo' \in Seq(CallType)
    BY <1>3 DEF IInv, StateOK
  <2> QED
    BY <1>2, <2>1, HeldIs
<1> QED
  BY <1>2, <1>3, <1>4, <1>7, <1>8, <1>9, <1>10, <1>11 DEF MInv, last

LEMMA ClearKeeps ==
    ASSUME MInv, ClearTable
    PROVE  /\ MInv' /\ todo = <<>> /\ todo' = <<>> /\ at' = Idle /\ seen' = {}
           /\ Held(t', todo') = [k \in Keys |-> Nil]
<1>1. IInv /\ StateOK /\ IInv'
  BY IInvStep DEF MInv, IInv, Next
<1>2. /\ todo = <<>> /\ UNCHANGED <<todo, rehashes, items, listed>> /\ items = 0
      /\ at' = Idle /\ seen' = {}
      /\ Sound(t') /\ Free(t') /\ \A i \in DOMAIN t'.array : t'.array[i] = Nil
  BY <1>1, ClearIs
<1>3. OnePlace(t') /\ Pending(t', todo') /\ Traversing'
      /\ \A k \in Keys : Held(t', todo')[k] = Get(t', k)
  BY <1>2, FreeHasOnePlace, NothingPending DEF Traversing, Idle
<1>4. ASSUME NEW k \in Keys
      PROVE  Get(t', k) = Nil
  <2>1. InArray(t', k) => t'.array[k] = Nil
    BY <1>2, GetIs
  <2>2. Absent(t', k)
    BY <1>2, <2>1, KeysAssumption DEF Free, FreeNode, Absent
  <2> QED
    BY <1>2, <2>2, GetIs
<1>5. Held(t', todo') = [k \in Keys |-> Held(t', todo')[k]]
  BY DEF Held
<1>6. Held(t', todo') = [k \in Keys |-> Nil]
  BY <1>3, <1>4, <1>5
<1> QED
  BY <1>1, <1>2, <1>3, <1>6 DEF MInv

LEMMA CloneKeeps ==
    ASSUME MInv, CloneTable
    PROVE  /\ MInv' /\ todo = <<>> /\ at' = Idle /\ seen' = {}
           /\ Held(t', todo') = Held(t, todo)
<1>1. IInv /\ StateOK /\ IInv' /\ Sound(t) /\ OnePlace(t)
  BY IInvStep DEF MInv, IInv, StateOK, Next
<1>2. /\ todo = <<>> /\ UNCHANGED <<items, listed>> /\ items = 0
      /\ at' = Idle /\ seen' = {}
      /\ Sound(t') /\ Free(t') /\ t'.array = t.array
  BY <1>1, CloneIs
<1>3. PICK pos : CallsFor(todo', pos, t, Len(t.array), Last(t))
  BY <1>1, CloneIs
<1>4. Pending(t', todo') /\ Held(t', todo') = Held(t, <<>>)
  BY <1>1, <1>2, <1>3, CopyHolds
<1>5. OnePlace(t') /\ Traversing'
  BY <1>2, FreeHasOnePlace DEF Traversing, Idle
<1> QED
  BY <1>1, <1>2, <1>4, <1>5 DEF MInv

\* A call of next returns an entry that it has not returned, or has returned all.
LEMMA AdvanceKeeps ==
    ASSUME MInv, Advance
    PROVE  /\ MInv' /\ todo = <<>> /\ UNCHANGED <<t, todo>> /\ at.mode = "on"
           /\ \/ /\ at' = Done /\ seen' = {}
                 /\ \A k \in Keys : Held(t, todo)[k] # Nil => k \in seen
              \/ \E k \in Keys :
                    /\ k \notin seen /\ Held(t, todo)[k] # Nil
                    /\ at' = [mode |-> "on", key |-> k, val |-> Held(t, todo)[k]]
                    /\ seen' = seen \cup {k}
<1> DEFINE from == IF at.key = Nil THEN -1 ELSE FindIndex(t, at.key)
<1>1. /\ IInv /\ StateOK /\ IInv' /\ Sound(t) /\ OnePlace(t) /\ Traversing
      /\ items > 0 => Building
  BY IInvStep DEF MInv, IInv, StateOK, Next
<1>2. /\ todo = <<>> /\ at.mode = "on" /\ from \in Int /\ from >= -1
      /\ UNCHANGED <<t, todo, rehashes, items, listed>>
      /\ \/ /\ at.key # Nil /\ from = -1
            /\ at' = [at EXCEPT !.mode = "invalid key"] /\ UNCHANGED seen
         \/ /\ at' = Done /\ seen' = {}
            /\ \A m \in from + 1 .. Last(t) - 1 : Slot(t, m).val = Nil
         \/ \E j \in from + 1 .. Last(t) - 1 :
               /\ Slot(t, j).val # Nil
               /\ \A m \in from + 1 .. j - 1 : Slot(t, m).val = Nil
               /\ at' = [mode |-> "on", key |-> Slot(t, j).key, val |-> Slot(t, j).val]
               /\ seen' = seen \cup {Slot(t, j).key}
  BY <1>1, AdvanceIs
<1>3. /\ \A x \in seen : FindIndex(t, x) \in 0 .. from
      /\ \A j \in 0 .. from : Slot(t, j).val # Nil => Slot(t, j).key \in seen
      /\ at.key # Nil => from # -1
  <2>1. CASE at.key = Nil
    <3>1. seen = {} /\ from = -1
      BY <1>1, <1>2, <2>1 DEF Traversing
    <3> HIDE DEF from
    <3> QED
      BY <2>1, <3>1
  <2>2. CASE at.key # Nil
    BY <1>1, <1>2, <2>2 DEF Traversing, Visited
  <2> QED
    BY <2>1, <2>2
<1> HIDE DEF from
<1>4. seen \subseteq Keys /\ \A k \in Keys : Held(t, todo)[k] = Get(t, k)
  BY <1>1, <1>2, NothingPending DEF StateOK
<1>9. from \in Int /\ from >= -1 /\ Last(t) \in Nat
  <2>1. Last(t) \in Nat
    BY <1>1, SizeOf DEF Last, Sound, TableSet
  <2> QED
    BY <1>2, <2>1
<1>5. Pending(t', todo') /\ OnePlace(t') /\ (items' > 0 => Building')
  BY <1>1, <1>2, NothingPending DEF Building
<1>6. CASE /\ at' = Done /\ seen' = {}
           /\ \A m \in from + 1 .. Last(t) - 1 : Slot(t, m).val = Nil
  <2>1. ASSUME NEW k \in Keys, Get(t, k) # Nil
        PROVE  k \in seen
    <3> DEFINE j == FindIndex(t, k)
    <3>1. j \in 0 .. Last(t) - 1 /\ Slot(t, j).key = k /\ Slot(t, j).val # Nil
      BY <1>1, <2>1, EntryHasSlot
    <3> HIDE DEF j
    <3>2. j \in 0 .. from
      BY <1>6, <1>9, <3>1
    <3> QED
      BY <1>3, <3>1, <3>2
  <2>2. Traversing'
    BY <1>6 DEF Traversing, Done
  <2> QED
    BY <1>1, <1>2, <1>4, <1>5, <1>6, <2>1, <2>2 DEF MInv
<1>7. ASSUME NEW j \in from + 1 .. Last(t) - 1, Slot(t, j).val # Nil,
             \A m \in from + 1 .. j - 1 : Slot(t, m).val = Nil,
             at' = [mode |-> "on", key |-> Slot(t, j).key, val |-> Slot(t, j).val],
             seen' = seen \cup {Slot(t, j).key}
      PROVE  /\ MInv'
             /\ \E k \in Keys :
                    /\ k \notin seen /\ Held(t, todo)[k] # Nil
                    /\ at' = [mode |-> "on", key |-> k, val |-> Held(t, todo)[k]]
                    /\ seen' = seen \cup {k}
  <2> DEFINE k == Slot(t, j).key
  <2>1. j \in 0 .. Last(t) - 1 /\ j \in Int /\ j > from
    BY <1>9
  <2>2. k \in Keys /\ FindIndex(t, k) = j /\ Get(t, k) = Slot(t, j).val
    BY <1>1, <1>7, <2>1, SlotOfEntry
  <2>3. at' = [mode |-> "on", key |-> k, val |-> Get(t, k)] /\ seen' = seen \cup {k}
        /\ Get(t, k) # Nil
    BY <1>7, <2>2
  <2>4. k \notin seen
    <3>1. j \notin 0 .. from
      BY <1>9, <2>1
    <3> QED
      BY <1>3, <2>2, <3>1
  <2>5. Visited(t', k, seen')
    <3>1. FindIndex(t, k) = j /\ j # -1
      BY <2>1, <2>2
    <3>2. ASSUME NEW x \in seen \cup {k}
          PROVE  FindIndex(t, x) \in 0 .. j
      <4>1. CASE x \in seen
        <5>1. FindIndex(t, x) \in 0 .. from
          BY <1>3, <4>1
        <5> QED
          BY <1>9, <2>1, <5>1
      <4>2. CASE x = k
        BY <2>1, <2>2, <4>2
      <4> QED
        BY <3>2, <4>1, <4>2
    <3>3. ASSUME NEW m \in 0 .. j, Slot(t, m).val # Nil
          PROVE  Slot(t, m).key \in seen \cup {k}
      <4>1. m \in 0 .. from \/ m \in from + 1 .. j - 1 \/ m = j
        BY <1>9, <2>1
      <4> QED
        BY <1>3, <1>7, <3>3, <4>1
    <3> HIDE DEF k
    <3> QED
      BY <1>2, <2>3, <3>1, <3>2, <3>3 DEF Visited
  <2>6. at'.mode = "on" /\ at'.key = k /\ k # Nil
    BY <2>2, <2>3, KeysAssumption
  <2> HIDE DEF k
  <2>7. Traversing'
    BY <1>2, <2>5, <2>6 DEF Traversing
  <2>8. MInv'
    BY <1>1, <1>5, <2>7 DEF MInv
  <2> QED
    BY <1>4, <2>2, <2>3, <2>4, <2>8
<1>8. \/ /\ at' = Done /\ seen' = {}
         /\ \A m \in from + 1 .. Last(t) - 1 : Slot(t, m).val = Nil
      \/ \E j \in from + 1 .. Last(t) - 1 :
            /\ Slot(t, j).val # Nil
            /\ \A m \in from + 1 .. j - 1 : Slot(t, m).val = Nil
            /\ at' = [mode |-> "on", key |-> Slot(t, j).key, val |-> Slot(t, j).val]
            /\ seen' = seen \cup {Slot(t, j).key}
  BY <1>2, <1>3
<1> QED
  BY <1>2, <1>6, <1>7, <1>8

LEMMA MInvStep == ASSUME ~Mixed PROVE MInv /\ [Next]_vars => MInv'
<1> SUFFICES ASSUME MInv, [Next]_vars PROVE MInv'
  OBVIOUS
<1>1. ASSUME NEW k \in Keys, NEW v \in Vals \cup {Nil}, Set(k, v)
      PROVE  MInv'
  BY <1>1, SetKeeps DEF Values
<1>2. ASSUME NEW n \in IntKeys, NEW vals \in [1 .. n -> Vals \cup {Nil}], SetList(vals)
      PROVE  MInv'
  BY <1>2, SetListKeeps DEF Values
<1>3. CASE ClearTable
  BY <1>3, ClearKeeps
<1>4. CASE CloneTable
  BY <1>4, CloneKeeps
<1>5. CASE Begin
  <2>1. /\ UNCHANGED <<t, todo, rehashes, items, listed>> /\ at' = Started /\ seen' = {}
        /\ todo = <<>>
    BY <1>5 DEF Begin, Constructed, Ready
  <2>2. IInv'
    BY <1>5, IInvStep DEF MInv, Next
  <2> QED
    BY <2>1, <2>2 DEF MInv, Building, Traversing, Started
<1>6. CASE Advance
  BY <1>6, AdvanceKeeps
<1>7. CASE Continue
  BY <1>7, ContinueKeeps
<1>8. CASE UNCHANGED vars
  <2>1. IInv'
    BY <1>8, IInvStep DEF MInv
  <2> QED
    BY <1>8, <2>1 DEF MInv, Building, Traversing, vars
<1> QED
  BY <1>1, <1>2, <1>3, <1>4, <1>5, <1>6, <1>7, <1>8 DEF Next

LEMMA MapInvariant == ASSUME ~Mixed PROVE Spec => []MInv
<1>1. MInv /\ [Next]_vars => MInv'
  BY MInvStep
<1> QED
  BY <1>1, MInvInit, PTL DEF Spec

\* A constructor with no integer-keyed items leaves every key one place.
THEOREM KeysHaveOnePlace == ASSUME ~Mixed PROVE Spec => []OnePlacePerKey
<1>1. MInv => OnePlacePerKey
  BY DEF MInv, OnePlace, OnePlacePerKey
<1> QED
  BY <1>1, MapInvariant, PTL

LEMMA ContentsAreHeld ==
    Contents = Held(t, todo) /\ Contents' = Held(t', todo')
BY DEF Contents, Held

\* Only the calls in progress move while one has not returned.
LEMMA OnlyContinue ==
    ASSUME [Next]_vars, ~Ready
    PROVE  Continue \/ UNCHANGED vars
BY DEF Next, Set, SetList, ClearTable, CloneTable, Begin, Advance, Constructed

\* An assignment writes what it says, and what is moved on the way stays what
\* it was, for every hash, every size and any number of rehashes (set).
THEOREM WritesAreRead == ASSUME ~Mixed PROVE Spec => WriteIsRead
<1> DEFINE A == /\ \A k \in Keys, x \in Vals \cup {Nil} :
                      Set(k, x) => Contents' = [Contents EXCEPT ![k] = x]
                /\ ~Ready => Contents' = Contents
<1>1. MInv /\ [Next]_vars => [A]_vars
  <2> SUFFICES ASSUME MInv, [Next]_vars, ~UNCHANGED vars PROVE A
    OBVIOUS
  <2>1. ASSUME NEW k \in Keys, NEW x \in Vals \cup {Nil}, Set(k, x)
        PROVE  Contents' = [Contents EXCEPT ![k] = x]
    BY <2>1, SetKeeps, ContentsAreHeld DEF Values
  <2>2. ASSUME ~Ready
        PROVE  Contents' = Contents
    BY <2>2, OnlyContinue, ContinueKeeps, ContentsAreHeld
  <2> QED
    BY <2>1, <2>2
<1>2. Spec => []MInv
  BY MapInvariant
<1> QED
  BY <1>1, <1>2, PTL DEF Spec, WriteIsRead

-----------------------------------------------------------------------------
(* A table is a finite map.                                                *)

LEMMA EmptyReads ==
    ASSUME NEW tb, Sound(tb), Free(tb), \A i \in DOMAIN tb.array : tb.array[i] = Nil
    PROVE  \A k \in Keys : Get(tb, k) = Nil
<1>1. ASSUME NEW k \in Keys
      PROVE  Get(tb, k) = Nil
  <2>1. InArray(tb, k) => tb.array[k] = Nil
    BY GetIs
  <2>2. Absent(tb, k)
    BY <2>1, KeysAssumption DEF Free, FreeNode, Absent
  <2> QED
    BY <2>2, GetIs
<1> QED
  BY <1>1

LEMMA InitMaps == Init => Map!Init
<1> SUFFICES ASSUME Init PROVE Map!Init
  OBVIOUS
<1>1. PICK narray, nhash \in 0 .. MaxHint : t = NewTable(narray, nhash)
  BY DEF Init
<1>2. /\ Sound(t) /\ Free(t) /\ \A i \in DOMAIN t.array : t.array[i] = Nil
      /\ todo = <<>> /\ at = Idle /\ seen = {}
  BY <1>1, NewTableSound, TableAssumption DEF Init
<1>3. \A k \in Keys : Held(t, todo)[k] = Nil
  BY <1>2, EmptyReads, NothingPending
<1>4. Held(t, todo) = [k \in Keys |-> Held(t, todo)[k]]
  BY DEF Held
<1>5. Contents = [k \in Keys |-> Nil]
  BY <1>3, <1>4, ContentsAreHeld
<1>6. Ready /\ (~Ready) = FALSE
  BY <1>2 DEF Ready
<1> QED
  BY <1>2, <1>5, <1>6 DEF Map!Init, Map!Keys, Keys, Map!Idle, Idle

\* An operation of the program is called when none is in progress.
LEMMA CalledMaps ==
    ASSUME todo = <<>>
    PROVE  Map!Called
<1>1. Ready
  BY DEF Ready
<1> QED
  BY <1>1 DEF Map!Called

LEMMA StepMaps ==
    ASSUME ~Mixed, MInv, [Next]_vars
    PROVE  [Map!Next]_Map!vars
<1>1. ASSUME NEW k \in Keys, NEW v \in Vals \cup {Nil}, Set(k, v)
      PROVE  Map!Put(k, v)
  <2>1. /\ Contents' = [Contents EXCEPT ![k] = v] /\ Contents[k] = Get(t, k)
        /\ todo = <<>>
        /\ IF Get(t, k) = Nil THEN Stop ELSE UNCHANGED <<at, seen>>
    BY <1>1, SetKeeps, ContentsAreHeld DEF Values, Set, Ready
  <2>2. Map!Called
    BY <2>1, CalledMaps
  <2> QED
    BY <2>1, <2>2 DEF Map!Put, Map!Stop, Map!Idle, Stop, Idle
<1>2. ASSUME NEW n \in IntKeys, NEW vals \in [1 .. n -> Vals \cup {Nil}], SetList(vals)
      PROVE  \E first, last \in IntKeys : Map!PutList(first, last)
  <2> DEFINE first == listed + 1
             last == listed + n
  <2>1. /\ todo = <<>> /\ at' = Idle /\ seen' = {}
        /\ first \in IntKeys /\ last \in IntKeys
        /\ Contents' \in [Keys -> Vals \cup {Nil}]
        /\ \A k \in Keys : k \notin first .. last => Contents'[k] = Contents[k]
    BY <1>2, SetListKeeps, ContentsAreHeld DEF Values
  <2>2. Map!Called
    BY <2>1, CalledMaps
  <2> HIDE DEF first, last
  <2>3. Map!PutList(first, last)
    BY <2>1, <2>2 DEF Map!PutList, Map!Stop, Map!Idle, Idle, Map!Keys, Keys
  <2> QED
    BY <2>1, <2>3
<1>3. CASE ClearTable
  <2>1. /\ todo = <<>> /\ at' = Idle /\ seen' = {} /\ Contents' = [k \in Keys |-> Nil]
    BY <1>3, ClearKeeps, ContentsAreHeld
  <2>2. Map!Clear
    BY <2>1, CalledMaps DEF Map!Clear, Map!Stop, Map!Idle, Idle, Map!Keys, Keys
  <2> QED
    BY <2>2 DEF Map!Next
<1>4. CASE CloneTable
  <2>1. todo = <<>> /\ at' = Idle /\ seen' = {} /\ Contents' = Contents
    BY <1>4, CloneKeeps, ContentsAreHeld
  <2>2. Map!Leave
    BY <2>1, CalledMaps DEF Map!Leave, Map!Stop, Map!Idle, Idle
  <2> QED
    BY <2>2 DEF Map!Next
<1>5. CASE Begin
  <2>1. /\ UNCHANGED <<t, todo>> /\ at' = Started /\ seen' = {} /\ todo = <<>>
    BY <1>5 DEF Begin, Constructed, Ready
  <2>2. Contents' = Contents
    BY <2>1, ContentsAreHeld
  <2>3. Map!Begin
    BY <2>1, <2>2, CalledMaps DEF Map!Begin, Map!Started, Started
  <2> QED
    BY <2>3 DEF Map!Next
<1>6. CASE Advance
  <2>1. /\ todo = <<>> /\ UNCHANGED <<t, todo>> /\ at.mode = "on"
        /\ \/ /\ at' = Done /\ seen' = {}
              /\ \A k \in Keys : Contents[k] # Nil => k \in seen
           \/ \E k \in Keys :
                 /\ k \notin seen /\ Contents[k] # Nil
                 /\ at' = [mode |-> "on", key |-> k, val |-> Contents[k]]
                 /\ seen' = seen \cup {k}
    BY <1>6, AdvanceKeeps, ContentsAreHeld
  <2>2. Contents' = Contents /\ Ready /\ Ready'
    BY <2>1, ContentsAreHeld DEF Ready
  <2>3. UNCHANGED <<Contents, ~Ready>>
    BY <2>2
  <2>4. CASE /\ at' = Done /\ seen' = {}
             /\ \A k \in Keys : Contents[k] # Nil => k \in seen
    <3>1. Map!Finish
      BY <2>1, <2>2, <2>3, <2>4 DEF Map!Finish, Map!Done, Done, Map!Keys, Keys
    <3> QED
      BY <3>1 DEF Map!Next
  <2>5. ASSUME NEW k \in Keys, k \notin seen, Contents[k] # Nil,
               at' = [mode |-> "on", key |-> k, val |-> Contents[k]],
               seen' = seen \cup {k}
        PROVE  Map!Next
    <3>1. Map!Visit(k)
      BY <2>1, <2>2, <2>3, <2>5 DEF Map!Visit
    <3>2. k \in Map!Keys
      BY DEF Map!Keys, Keys
    <3> QED
      BY <3>1, <3>2 DEF Map!Next
  <2> QED
    BY <2>1, <2>4, <2>5
<1>7. CASE Continue
  <2>1. Contents' = Contents /\ UNCHANGED <<at, seen>> /\ ~Ready
    BY <1>7, ContinueKeeps, ContentsAreHeld DEF Continue, Ready
  <2>2. CASE Ready'
    <3>1. Map!Returned
      BY <2>1, <2>2 DEF Map!Returned
    <3> QED
      BY <3>1 DEF Map!Next
  <2>3. CASE ~Ready'
    BY <2>1, <2>3 DEF Map!vars
  <2> QED
    BY <2>2, <2>3
<1>8. CASE UNCHANGED vars
  <2>1. UNCHANGED <<t, todo, at, seen>>
    BY <1>8 DEF vars
  <2>2. Contents' = Contents /\ Ready' = Ready
    BY <2>1, ContentsAreHeld DEF Ready
  <2> QED
    BY <2>1, <2>2 DEF Map!vars
<1>9. ASSUME NEW k \in Keys, NEW v \in Vals \cup {Nil}, Set(k, v)
      PROVE  Map!Next
  <2>1. k \in Map!Keys
    BY DEF Map!Keys, Keys
  <2> QED
    BY <1>1, <1>9, <2>1 DEF Map!Next
<1>10. ASSUME NEW n \in IntKeys, NEW vals \in [1 .. n -> Vals \cup {Nil}], SetList(vals)
       PROVE  Map!Next
  BY <1>2, <1>10 DEF Map!Next
<1> QED
  BY <1>3, <1>4, <1>5, <1>6, <1>7, <1>8, <1>9, <1>10 DEF Next

\* A table is a finite map, and next visits each of its entries once: whatever
\* the sizes, the hashes and the rehashes, if no constructor mixes integer-keyed
\* items with list items.
THEOREM TableImplementsMap == ASSUME ~Mixed PROVE Spec => ImplementsMap
<1>1. MInv /\ [Next]_vars => [Map!Next]_Map!vars
  BY StepMaps
<1>2. Spec => []MInv
  BY MapInvariant
<1> QED
  BY <1>1, <1>2, InitMaps, PTL DEF Spec, ImplementsMap, Map!Spec
=============================================================================
