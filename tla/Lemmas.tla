------------------------------- MODULE Lemmas -------------------------------
(***************************************************************************)
(* What the proofs of several modules rest on.                             *)
(*                                                                         *)
(* Induction and recursion over an interval of integers, stated about sets *)
(* and functions.  A loop that the modules write as a recursive function   *)
(* of its index, f[i] == IF i = a THEN s ELSE ... f[i - 1] ..., denotes    *)
(* CHOOSE f : f = [i \in a .. b |-> ...]; that there is such a function,   *)
(* so that the equation may be used, is what the recursion lemmas say.     *)
(*                                                                         *)
(* The list of open upvalues, which Calls and BlockVM share: opening one   *)
(* and closing some keep it in the order of descending slots, and exact.   *)
(***************************************************************************)
EXTENDS Integers, Upvalues, SequenceTheorems, WellFoundedInduction, TLAPS

\* A set of natural numbers with an element has a least one.
LEMMA LeastNat ==
    ASSUME NEW T, T \subseteq Nat, T # {}
    PROVE  \E x \in T : \A y \in T : x <= y
<1> DEFINE R == OpToRel(<, Nat)
<1>1. IsWellFoundedOn(R, Nat)
  BY NatLessThanWellFounded
<1>2. \A x, y \in Nat : x < y => <<x, y>> \in R
  BY DEF OpToRel
<1> HIDE DEF R
<1>3. \E x \in T : \A y \in T : <<y, x>> \notin R
  BY <1>1, WFMin
<1>4. PICK x \in T : \A y \in T : <<y, x>> \notin R
  BY <1>3
<1>5. ASSUME NEW y \in T, ~(x <= y) PROVE FALSE
  <2>1. x \in Nat /\ y \in Nat /\ y < x
    BY <1>5
  <2>2. <<y, x>> \in R
    BY <1>2, <2>1
  <2> QED
    BY <1>4, <2>2
<1> QED
  BY <1>5

\* A set that contains a and with i - 1 also i contains the interval a .. b.
LEMMA UpwardInduction ==
    ASSUME NEW a \in Int, NEW b \in Int, NEW T,
           a <= b => a \in T,
           \A i \in a + 1 .. b : i - 1 \in T => i \in T
    PROVE  a .. b \subseteq T
<1> DEFINE Missing == {n \in Nat : a + n <= b /\ a + n \notin T}
<1>1. SUFFICES ASSUME NEW i \in a .. b, i \notin T PROVE FALSE
  OBVIOUS
<1>2. i - a \in Missing
  <2>1. i - a \in Nat /\ a + (i - a) = i /\ i <= b
    OBVIOUS
  <2> QED
    BY <1>1, <2>1
<1>3. Missing \subseteq Nat /\ Missing # {}
  BY <1>2
<1> HIDE DEF Missing
<1>4. PICK n \in Missing : \A m \in Missing : n <= m
  BY <1>3, LeastNat
<1>5. n \in Nat /\ a + n <= b /\ a + n \notin T
  BY DEF Missing
<1>6. n # 0
  BY <1>5
<1>7. n - 1 \in Nat /\ ~(n <= n - 1) /\ a + (n - 1) <= b
  BY <1>5, <1>6
<1>8. n - 1 \notin Missing
  BY <1>4, <1>7
<1>9. a + (n - 1) \in T
  BY <1>7, <1>8 DEF Missing
<1>10. a + n \in a + 1 .. b /\ a + n - 1 = a + (n - 1)
  BY <1>5, <1>6
<1> QED
  BY <1>5, <1>9, <1>10

\* The same from b down to a.
LEMMA DownwardInduction ==
    ASSUME NEW a \in Int, NEW b \in Int, NEW T,
           a <= b => b \in T,
           \A i \in a .. b - 1 : i + 1 \in T => i \in T
    PROVE  a .. b \subseteq T
<1> DEFINE Up == {i \in Int : -i \in T}
<1>1. -b \in Int /\ -a \in Int /\ (-b <= -a => -b \in Up)
  <2>1. -(-b) = b
    OBVIOUS
  <2> QED
    BY <2>1
<1>2. ASSUME NEW i \in -b + 1 .. -a, i - 1 \in Up PROVE i \in Up
  <2>1. -i \in a .. b - 1 /\ -(i - 1) = -i + 1 /\ i \in Int
    OBVIOUS
  <2>2. -i + 1 \in T
    BY <1>2, <2>1
  <2> QED
    BY <2>1, <2>2
<1> HIDE DEF Up
<1>3. -b .. -a \subseteq Up
  BY <1>1, <1>2, UpwardInduction
<1>4. ASSUME NEW i \in a .. b PROVE i \in T
  <2>1. -i \in -b .. -a /\ -(-i) = i
    OBVIOUS
  <2>2. -i \in Up
    BY <1>3, <2>1
  <2> QED
    BY <2>1, <2>2 DEF Up
<1> QED
  BY <1>4

\* The function a loop upward from s computes.
IsLoopUp(f, a, b, s, F) ==
    f = [i \in a .. b |-> IF i = a THEN s ELSE F[i][f[i - 1]]]

LEMMA RecursionUp ==
    ASSUME NEW a \in Int, NEW b \in Int, NEW D, NEW s \in D,
           NEW F \in [Int -> [D -> D]]
    PROVE  \E f \in [a .. b -> D] : IsLoopUp(f, a, b, s, F)
<1> DEFINE T == {k \in Int : \E f \in [a .. k -> D] : IsLoopUp(f, a, k, s, F)}
<1>1. a \in T
  <2> DEFINE g == [i \in a .. a |-> s]
  <2>1. g \in [a .. a -> D] /\ IsLoopUp(g, a, a, s, F)
    BY DEF IsLoopUp
  <2> QED
    BY <2>1
<1>2. ASSUME NEW k \in a + 1 .. b, k - 1 \in T PROVE k \in T
  <2>1. PICK f \in [a .. k - 1 -> D] : IsLoopUp(f, a, k - 1, s, F)
    BY <1>2
  <2> DEFINE last == F[k][f[k - 1]]
             g == [i \in a .. k |-> IF i = k THEN last ELSE f[i]]
  <2>2. last \in D
    OBVIOUS
  <2>3. g \in [a .. k -> D] /\ g[k] = last /\ \A i \in a .. k - 1 : g[i] = f[i]
    BY <2>2
  <2> HIDE DEF last, g
  <2>4. ASSUME NEW i \in a .. k
        PROVE  g[i] = IF i = a THEN s ELSE F[i][g[i - 1]]
    <3>1. CASE i = k
      <4>1. k # a /\ k - 1 \in a .. k - 1
        OBVIOUS
      <4> QED
        BY <2>3, <3>1, <4>1 DEF last
    <3>2. CASE i # k
      <4>1. i \in a .. k - 1 /\ (i # a => i - 1 \in a .. k - 1)
        BY <3>2
      <4>2. f[i] = IF i = a THEN s ELSE F[i][f[i - 1]]
        BY <2>1, <4>1 DEF IsLoopUp
      <4> QED
        BY <2>3, <4>1, <4>2
    <3> QED
      BY <3>1, <3>2
  <2>5. g = [i \in a .. k |-> g[i]]
    BY <2>3
  <2>6. IsLoopUp(g, a, k, s, F)
    BY <2>4, <2>5 DEF IsLoopUp
  <2> QED
    BY <2>3, <2>6
<1> HIDE DEF T
<1>3. a .. b \subseteq T
  BY <1>1, <1>2, UpwardInduction
<1>4. CASE a <= b
  BY <1>3, <1>4 DEF T
<1>5. CASE ~(a <= b)
  <2> DEFINE g == [i \in a .. b |-> s]
  <2>1. g \in [a .. b -> D] /\ IsLoopUp(g, a, b, s, F)
    BY <1>5 DEF IsLoopUp
  <2> QED
    BY <2>1
<1> QED
  BY <1>4, <1>5

\* The function a loop downward from s computes.
IsLoopDown(f, a, b, s, F) ==
    f = [i \in a .. b |-> IF i = b THEN s ELSE F[i][f[i + 1]]]

LEMMA RecursionDown ==
    ASSUME NEW a \in Int, NEW b \in Int, NEW D, NEW s \in D,
           NEW F \in [Int -> [D -> D]]
    PROVE  \E f \in [a .. b -> D] : IsLoopDown(f, a, b, s, F)
<1> DEFINE G == [i \in Int |-> F[-i]]
<1>1. G \in [Int -> [D -> D]] /\ \A i \in Int : G[i] = F[-i]
  OBVIOUS
<1> HIDE DEF G
<1>2. PICK g \in [-b .. -a -> D] : IsLoopUp(g, -b, -a, s, G)
  <2>1. -b \in Int /\ -a \in Int
    OBVIOUS
  <2> QED
    BY <1>1, <2>1, RecursionUp
<1> DEFINE f == [i \in a .. b |-> g[-i]]
<1>3. f \in [a .. b -> D]
  OBVIOUS
<1>4. ASSUME NEW i \in a .. b
      PROVE  f[i] = IF i = b THEN s ELSE F[i][f[i + 1]]
  <2>1. -i \in -b .. -a /\ f[i] = g[-i] /\ -(-i) = i /\ (i = b <=> -i = -b)
    OBVIOUS
  <2>2. g[-i] = IF -i = -b THEN s ELSE G[-i][g[-i - 1]]
    BY <1>2, <2>1 DEF IsLoopUp
  <2>3. CASE i = b
    BY <2>1, <2>2, <2>3
  <2>4. CASE i # b
    <3>1. -(i + 1) \in -b .. -a /\ -i - 1 = -(i + 1) /\ i + 1 \in a .. b
      BY <2>4
    <3>2. f[i + 1] = g[-i - 1] /\ g[-i - 1] \in D
      BY <3>1
    <3> QED
      BY <1>1, <2>1, <2>2, <2>4, <3>2
  <2> QED
    BY <2>3, <2>4
<1>5. f = [i \in a .. b |-> f[i]]
  OBVIOUS
<1> HIDE DEF f
<1>6. IsLoopDown(f, a, b, s, F)
  BY <1>4, <1>5 DEF IsLoopDown
<1> QED
  BY <1>3, <1>6
\* The function that a walk computes: from p on to next[p], until it is in stop.
IsWalk(f, S, stop, s, next) ==
    f = [p \in S |-> IF p \in stop THEN s[p] ELSE f[next[p]]]

\* There is one if every step leads further up, and not beyond n.
LEMMA RecursionAlong ==
    ASSUME NEW S, NEW D, NEW stop \in SUBSET S, NEW s \in [stop -> D],
           NEW next \in [S -> S], NEW n \in Nat, NEW d \in [S -> 0 .. n],
           \A p \in S \ stop : d[p] < d[next[p]]
    PROVE  \E f \in [S -> D] : IsWalk(f, S, stop, s, next)
<1> DEFINE From(k) == {p \in S : d[p] >= k}
           Right(f, k) == \A p \in From(k) :
                             f[p] = IF p \in stop THEN s[p] ELSE f[next[p]]
           T == {k \in Int : \E f \in [From(k) -> D] : Right(f, k)}
<1>1. n + 1 \in T
  <2>1. From(n + 1) = {}
    OBVIOUS
  <2> DEFINE g == [p \in From(n + 1) |-> s[p]]
  <2>2. g \in [From(n + 1) -> D] /\ Right(g, n + 1)
    BY <2>1
  <2>3. n + 1 \in Int
    OBVIOUS
  <2> QED
    BY <2>2, <2>3
<1>2. ASSUME NEW k \in 0 .. n + 1 - 1, k + 1 \in T PROVE k \in T
  <2>1. PICK f \in [From(k + 1) -> D] : Right(f, k + 1)
    BY <1>2
  <2>2. ASSUME NEW p \in From(k), p \notin stop PROVE next[p] \in From(k + 1)
    <3>1. p \in S /\ d[p] >= k /\ d[p] < d[next[p]] /\ next[p] \in S
      BY <2>2
    <3>2. d[p] \in Int /\ d[next[p]] \in Int
      BY <3>1
    <3> QED
      BY <3>1, <3>2
  <2> DEFINE g == [p \in From(k) |-> IF p \in stop THEN s[p] ELSE f[next[p]]]
  <2>3. g \in [From(k) -> D]
    BY <2>2
  <2>4. ASSUME NEW p \in From(k + 1) PROVE g[p] = f[p] /\ p \in From(k)
    <3>1. p \in From(k)
      OBVIOUS
    <3>2. f[p] = IF p \in stop THEN s[p] ELSE f[next[p]]
      BY <2>1
    <3> QED
      BY <3>1, <3>2
  <2>5. ASSUME NEW p \in From(k)
        PROVE  g[p] = IF p \in stop THEN s[p] ELSE g[next[p]]
    <3>1. g[p] = IF p \in stop THEN s[p] ELSE f[next[p]]
      OBVIOUS
    <3> HIDE DEF g, From
    <3>2. CASE p \in stop
      BY <3>1, <3>2
    <3>3. CASE p \notin stop
      <4>1. next[p] \in From(k + 1)
        BY <2>2, <3>3
      <4>2. g[next[p]] = f[next[p]]
        BY <2>4, <4>1
      <4> QED
        BY <3>1, <3>3, <4>2
    <3> QED
      BY <3>2, <3>3
  <2> HIDE DEF g
  <2>6. Right(g, k)
    BY <2>5
  <2>7. k \in Int
    OBVIOUS
  <2> HIDE DEF From, Right
  <2> QED
    BY <2>3, <2>6, <2>7
<1> HIDE DEF T
<1>3. 0 .. n + 1 \subseteq T
  <2>1. 0 \in Int /\ n + 1 \in Int /\ (0 <= n + 1 => n + 1 \in T)
    BY <1>1
  <2> QED
    BY <1>2, <2>1, DownwardInduction
<1>4. 0 \in T
  BY <1>3
<1>5. PICK f \in [From(0) -> D] : Right(f, 0)
  BY <1>4 DEF T
<1>6. From(0) = S
  OBVIOUS
<1>7. f \in [S -> D] /\ \A p \in S : f[p] = IF p \in stop THEN s[p] ELSE f[next[p]]
  BY <1>5, <1>6
<1>8. f = [p \in S |-> f[p]]
  BY <1>7
<1>9. IsWalk(f, S, stop, s, next)
  BY <1>7, <1>8 DEF IsWalk
<1> QED
  BY <1>7, <1>9

\* A set of integers with an upper bound has a greatest element.
LEMMA GreatestInt ==
    ASSUME NEW T, T \subseteq Int, T # {}, NEW b \in Int, \A x \in T : x <= b
    PROVE  \E x \in T : \A y \in T : x >= y
<1> DEFINE Down == {n \in Nat : b - n \in T}
<1>1. Down \subseteq Nat /\ Down # {}
  <2>1. PICK x \in T : TRUE
    OBVIOUS
  <2>2. x \in Int /\ x <= b
    BY <2>1
  <2>3. b - x \in Nat /\ b - (b - x) = x
    BY <2>2
  <2> QED
    BY <2>1, <2>3
<1> HIDE DEF Down
<1>2. PICK n \in Down : \A m \in Down : n <= m
  BY <1>1, LeastNat
<1>3. n \in Nat /\ b - n \in T
  BY DEF Down
<1>4. ASSUME NEW y \in T PROVE b - n >= y
  <2>1. y \in Int /\ y <= b
    OBVIOUS
  <2>2. b - y \in Nat /\ b - (b - y) = y
    BY <2>1
  <2>3. b - y \in Down
    BY <2>1, <2>2 DEF Down
  <2>4. n <= b - y
    BY <1>2, <2>3
  <2> QED
    BY <1>3, <2>1, <2>2, <2>4
<1> QED
  BY <1>3, <1>4

-----------------------------------------------------------------------------
(* The list of open upvalues                                               *)

\* Upvalues of some slots, with values of some set.
Upval(slots, V) == [closed : BOOLEAN, slot : slots, value : V]

\* The order of a list, as OpenListOrdered states it of open.
Descending(ups, list) ==
    \A i, j \in DOMAIN list : i < j => ups[list[i]].slot > ups[list[j]].slot

\* A list holds the open ones of some upvalues and no other.
Exact(ups, list) ==
    \A u \in DOMAIN ups : ups[u].closed <=> ~ \E i \in DOMAIN list : list[i] = u

-----------------------------------------------------------------------------
(* The walk along the list                                                 *)

\* The walk ends behind the last slot from level on, wherever that is.
LEMMA WalkEnds ==
    ASSUME NEW ups, NEW list, NEW level \in Int, Len(list) \in Nat,
           \A i \in 1 .. Len(list) : ups[list[i]].slot \in Int
    PROVE  LET n == AtOrAbove(ups, list, level)
           IN  /\ n \in 0 .. Len(list)
               /\ \A i \in 1 .. n : ups[list[i]].slot >= level
               /\ n < Len(list) => ups[list[n + 1]].slot < level
<1> DEFINE Below == {i \in 1 .. Len(list) : ups[list[i]].slot < level}
           Stop(n) == /\ \A i \in 1 .. n : ups[list[i]].slot >= level
                      /\ n < Len(list) => ups[list[n + 1]].slot < level
<1>1. \E n \in 0 .. Len(list) : Stop(n)
  <2>1. CASE Below = {}
    <3>1. Stop(Len(list))
      BY <2>1
    <3> QED BY <3>1
  <2>2. CASE Below # {}
    <3>0. Below \subseteq Nat
      OBVIOUS
    <3>1. PICK m \in Below : \A i \in Below : m <= i
      <4> HIDE DEF Below
      <4> QED BY <2>2, <3>0, LeastNat
    <3>2. \A i \in 1 .. m - 1 : i \in 1 .. Len(list) /\ i \notin Below
      BY <3>1
    <3>3. Stop(m - 1)
      BY <3>1, <3>2
    <3>4. m - 1 \in 0 .. Len(list)
      BY <3>1
    <3> QED BY <3>3, <3>4
  <2> QED BY <2>1, <2>2
<1> QED BY <1>1 DEF AtOrAbove

\* What a list of upvalues names has a slot.
LEMMA Slots ==
    ASSUME NEW slots, NEW V, NEW ups \in Seq(Upval(slots, V)), NEW list \in Seq(DOMAIN ups)
    PROVE  /\ Len(list) \in Nat /\ DOMAIN list = 1 .. Len(list)
           /\ Len(ups) \in Nat /\ DOMAIN ups = 1 .. Len(ups)
           /\ \A u \in DOMAIN ups : ups[u] \in Upval(slots, V) /\ ups[u].slot \in slots
           /\ \A i \in DOMAIN list : list[i] \in DOMAIN ups /\ ups[list[i]].slot \in slots
<1>1. /\ Len(list) \in Nat /\ DOMAIN list = 1 .. Len(list)
      /\ Len(ups) \in Nat /\ DOMAIN ups = 1 .. Len(ups)
  BY LenProperties
<1>2. \A u \in DOMAIN ups : ups[u] \in Upval(slots, V)
  BY <1>1, ElementOfSeq
<1>3. \A u \in DOMAIN ups : ups[u].slot \in slots
  BY <1>2 DEF Upval
<1>4. \A i \in DOMAIN list : list[i] \in DOMAIN ups
  BY <1>1, ElementOfSeq
<1> QED BY <1>1, <1>2, <1>3, <1>4

\* In an ordered list nothing behind the end of the walk reaches level.
LEMMA BehindWalk ==
    ASSUME NEW slots \in SUBSET Int, NEW V, NEW ups \in Seq(Upval(slots, V)),
           NEW list \in Seq(DOMAIN ups), Descending(ups, list), NEW level \in Int
    PROVE  LET n == AtOrAbove(ups, list, level)
           IN  /\ n \in 0 .. Len(list)
               /\ \A i \in 1 .. n : ups[list[i]].slot >= level
               /\ \A i \in n + 1 .. Len(list) : ups[list[i]].slot < level
<1> DEFINE n == AtOrAbove(ups, list, level)
<1>1. \A i \in 1 .. Len(list) : list[i] \in DOMAIN ups /\ ups[list[i]].slot \in Int
  BY Slots
<1>2. Len(list) \in Nat /\ DOMAIN list = 1 .. Len(list)
  BY Slots
<1>3. /\ n \in 0 .. Len(list)
      /\ \A i \in 1 .. n : ups[list[i]].slot >= level
      /\ n < Len(list) => ups[list[n + 1]].slot < level
  BY <1>1, <1>2, WalkEnds
<1> HIDE DEF n
<1>4. ASSUME NEW i \in n + 1 .. Len(list)
      PROVE  ups[list[i]].slot < level
  <2>1. n + 1 \in DOMAIN list /\ i \in DOMAIN list /\ n < Len(list)
    BY <1>2, <1>3
  <2>2. i = n + 1 \/ ups[list[n + 1]].slot > ups[list[i]].slot
    <3>1. i = n + 1 \/ n + 1 < i
      BY <1>3
    <3> QED BY <2>1, <3>1 DEF Descending
  <2>3. ups[list[n + 1]].slot \in Int /\ ups[list[i]].slot \in Int
    BY <1>1, <1>2, <2>1
  <2> QED BY <1>3, <2>1, <2>2, <2>3
<1> QED BY <1>3, <1>4 DEF n

-----------------------------------------------------------------------------
(* A new open upvalue                                                      *)

LEMMA Appended ==
    ASSUME NEW slots, NEW V, 0 \in V, NEW ups \in Seq(Upval(slots, V)), NEW slot \in slots
    PROVE  /\ Append(ups, OpenUpval(slot)) \in Seq(Upval(slots, V))
           /\ Len(Append(ups, OpenUpval(slot))) = Len(ups) + 1
           /\ DOMAIN Append(ups, OpenUpval(slot)) = 1 .. Len(ups) + 1
           /\ \A u \in DOMAIN ups : Append(ups, OpenUpval(slot))[u] = ups[u]
           /\ Append(ups, OpenUpval(slot))[Len(ups) + 1] = OpenUpval(slot)
<1>1. OpenUpval(slot) \in Upval(slots, V)
  BY DEF OpenUpval, Upval
<1> QED BY <1>1, AppendProperties, LenProperties

\* A descending sequence of slots with one more put in its place.
LEMMA InsertedOrder ==
    ASSUME NEW len \in Nat, NEW n \in 0 .. len, NEW slot \in Int,
           NEW f \in [1 .. len -> Int],
           \A k, l \in 1 .. len : k < l => f[k] > f[l],
           \A k \in 1 .. n : f[k] > slot,
           \A k \in n + 1 .. len : f[k] < slot,
           NEW i \in 1 .. len + 1, NEW j \in 1 .. len + 1, i < j
    PROVE  (IF i <= n THEN f[i] ELSE IF i = n + 1 THEN slot ELSE f[i - 1])
             > (IF j <= n THEN f[j] ELSE IF j = n + 1 THEN slot ELSE f[j - 1])
<1>1. CASE j <= n
  BY <1>1
<1>2. CASE j = n + 1
  BY <1>2
<1>3. CASE j > n + 1 /\ i <= n
  BY <1>3
<1>4. CASE j > n + 1 /\ i = n + 1
  BY <1>4
<1>5. CASE j > n + 1 /\ i > n + 1
  BY <1>5
<1> QED BY <1>1, <1>2, <1>3, <1>4, <1>5

\* findOrCreateUpval keeps the order, and with it every walk, when it found
\* no upvalue for the slot.
LEMMA InsertKeepsList ==
    ASSUME NEW slots \in SUBSET Int, NEW V, 0 \in V, NEW ups \in Seq(Upval(slots, V)),
           NEW list \in Seq(DOMAIN ups), Descending(ups, list), Exact(ups, list),
           NEW slot \in slots, Hits(ups, list, slot) = {}
    PROVE  /\ Inserted(ups, list, slot) \in Seq(DOMAIN Append(ups, OpenUpval(slot)))
           /\ Descending(Append(ups, OpenUpval(slot)), Inserted(ups, list, slot))
           /\ Exact(Append(ups, OpenUpval(slot)), Inserted(ups, list, slot))
           /\ \A i \in DOMAIN Inserted(ups, list, slot) :
                 \/ Inserted(ups, list, slot)[i] = Len(ups) + 1
                 \/ \E j \in DOMAIN list : Inserted(ups, list, slot)[i] = list[j]
<1> DEFINE n     == AtOrAbove(ups, list, slot)
           new   == Len(ups) + 1
           ups1  == Append(ups, OpenUpval(slot))
           list1 == Inserted(ups, list, slot)
           S     == [i \in 1 .. Len(list) |-> ups[list[i]].slot]
<1>1. /\ ups1 \in Seq(Upval(slots, V)) /\ DOMAIN ups1 = 1 .. new
      /\ \A u \in DOMAIN ups : ups1[u] = ups[u]
      /\ ups1[new] = OpenUpval(slot)
  BY Appended
<1>2. /\ Len(list) \in Nat /\ DOMAIN list = 1 .. Len(list)
      /\ Len(ups) \in Nat /\ DOMAIN ups = 1 .. Len(ups)
      /\ \A i \in 1 .. Len(list) : list[i] \in DOMAIN ups
      /\ slot \in Int
  BY Slots
<1>3. /\ n \in 0 .. Len(list)
      /\ \A i \in 1 .. n : ups[list[i]].slot >= slot
      /\ \A i \in n + 1 .. Len(list) : ups[list[i]].slot < slot
  BY BehindWalk
<1>4. S \in [1 .. Len(list) -> Int]
  <2>1. \A i \in 1 .. Len(list) : ups[list[i]].slot \in slots
    BY Slots
  <2>2. \A i \in 1 .. Len(list) : ups[list[i]].slot \in Int
    BY <2>1
  <2> QED BY <2>2
<1>5. \A i \in 1 .. n : S[i] > slot
  <2> SUFFICES ASSUME NEW i \in 1 .. n
               PROVE  S[i] > slot
    OBVIOUS
  <2>1. i \in 1 .. Len(list) /\ S[i] = ups[list[i]].slot
    BY <1>2, <1>3
  <2>2. ups[list[i]].slot # slot
    BY <2>1 DEF Hits
  <2>3. ups[list[i]].slot >= slot /\ ups[list[i]].slot \in Int
    BY <1>3, <1>4, <2>1
  <2> QED BY <1>2, <2>1, <2>2, <2>3
<1>6. \A i \in n + 1 .. Len(list) : S[i] < slot
  BY <1>2, <1>3
<1>7. \A k, l \in 1 .. Len(list) : k < l => S[k] > S[l]
  BY <1>2 DEF Descending
<1>8. /\ Len(list1) = Len(list) + 1 /\ DOMAIN list1 = 1 .. Len(list) + 1
      /\ \A i \in 1 .. Len(list) + 1 :
            list1[i] = IF i <= n THEN list[i]
                       ELSE IF i = n + 1 THEN new ELSE list[i - 1]
  BY <1>2 DEF Inserted
<1>9. list1 \in Seq(DOMAIN ups1)
  <2> HIDE DEF n, ups1
  <2>1. DOMAIN list1 = 1 .. Len(list) + 1 /\ list1 = [i \in 1 .. Len(list) + 1 |-> list1[i]]
    BY <1>8 DEF Inserted
  <2> HIDE DEF list1
  <2>2. \A i \in 1 .. Len(list) + 1 : list1[i] \in DOMAIN ups1
    BY <1>1, <1>2, <1>3, <1>8
  <2> QED BY <1>2, <2>1, <2>2, SeqDef
<1> HIDE DEF list1, n, ups1
<1>10. ASSUME NEW i \in 1 .. Len(list) + 1
       PROVE  ups1[list1[i]].slot = IF i <= n THEN S[i]
                                    ELSE IF i = n + 1 THEN slot ELSE S[i - 1]
  <2>1. CASE i <= n
    <3>1. list1[i] = list[i]
      BY <1>8, <2>1
    <3>2. i \in 1 .. Len(list)
      BY <1>2, <1>3, <2>1
    <3> QED BY <1>1, <1>2, <2>1, <3>1, <3>2
  <2>2. CASE i = n + 1
    <3>1. list1[i] = new
      BY <1>2, <1>3, <1>8, <2>2
    <3>2. ups1[new].slot = slot
      BY <1>1 DEF OpenUpval
    <3> QED BY <1>3, <2>2, <3>1, <3>2
  <2>3. CASE i > n + 1
    <3>1. list1[i] = list[i - 1] /\ i - 1 \in 1 .. Len(list)
      BY <1>2, <1>3, <1>8, <2>3
    <3>2. ups1[list[i - 1]] = ups[list[i - 1]]
      BY <1>1, <1>2, <3>1
    <3>3. S[i - 1] = ups[list[i - 1]].slot /\ ~ (i <= n) /\ i # n + 1
      BY <1>3, <2>3, <3>1
    <3> QED BY <3>1, <3>2, <3>3
  <2> QED BY <1>2, <1>3, <2>1, <2>2, <2>3
<1>11. Descending(ups1, list1)
  <2> HIDE DEF S
  <2> SUFFICES ASSUME NEW i \in 1 .. Len(list) + 1, NEW j \in 1 .. Len(list) + 1, i < j
               PROVE  ups1[list1[i]].slot > ups1[list1[j]].slot
    BY <1>8 DEF Descending
  <2>1. Len(list) \in Nat /\ n \in 0 .. Len(list) /\ slot \in Int
    BY <1>2, <1>3
  <2>2. (IF i <= n THEN S[i] ELSE IF i = n + 1 THEN slot ELSE S[i - 1])
          > (IF j <= n THEN S[j] ELSE IF j = n + 1 THEN slot ELSE S[j - 1])
    BY <1>4, <1>5, <1>6, <1>7, <2>1, InsertedOrder
  <2> QED BY <1>10, <2>2
<1>12. Exact(ups1, list1)
  <2> SUFFICES ASSUME NEW u \in 1 .. new
               PROVE  ups1[u].closed <=> ~ \E i \in DOMAIN list1 : list1[i] = u
    BY <1>1 DEF Exact
  <2>1. CASE u = new
    <3>1. list1[n + 1] = u /\ n + 1 \in DOMAIN list1
      BY <1>2, <1>3, <1>8, <2>1
    <3>2. ups1[u].closed = FALSE
      BY <1>1, <2>1 DEF OpenUpval
    <3> QED BY <3>1, <3>2
  <2>2. CASE u # new
    <3>1. u \in DOMAIN ups
      BY <1>2, <2>2
    <3>2. (\E i \in DOMAIN list1 : list1[i] = u) <=> \E i \in DOMAIN list : list[i] = u
      <4>1. ASSUME NEW i \in DOMAIN list1, list1[i] = u
            PROVE  \E k \in DOMAIN list : list[k] = u
        <5>1. CASE i <= n
          BY <1>2, <1>3, <1>8, <4>1, <5>1
        <5>2. CASE i > n
          <6>1. i # n + 1 /\ list[i - 1] = u /\ i - 1 \in DOMAIN list
            BY <1>2, <1>3, <1>8, <4>1, <5>2, <2>2
          <6> QED BY <6>1
        <5> QED BY <1>2, <1>3, <1>8, <5>1, <5>2
      <4>2. ASSUME NEW i \in DOMAIN list, list[i] = u
            PROVE  \E k \in DOMAIN list1 : list1[k] = u
        <5>1. CASE i <= n
          <6>1. i \in DOMAIN list1 /\ list1[i] = u
            BY <1>2, <1>3, <1>8, <4>2, <5>1
          <6> QED BY <6>1
        <5>2. CASE i > n
          <6>1. i + 1 \in DOMAIN list1 /\ list1[i + 1] = u
            BY <1>2, <1>3, <1>8, <4>2, <5>2
          <6> QED BY <6>1
        <5> QED BY <1>2, <1>3, <5>1, <5>2
      <4> QED BY <4>1, <4>2
    <3>3. ups1[u] = ups[u]
      BY <1>1, <3>1
    <3> QED BY <3>1, <3>2, <3>3 DEF Exact
  <2> QED BY <2>1, <2>2
<1>13. \A i \in DOMAIN list1 :
          \/ list1[i] = new
          \/ \E j \in DOMAIN list : list1[i] = list[j]
  <2> SUFFICES ASSUME NEW i \in 1 .. Len(list) + 1
               PROVE  list1[i] = new \/ \E j \in DOMAIN list : list1[i] = list[j]
    BY <1>8
  <2>1. CASE i <= n
    <3>1. list1[i] = list[i] /\ i \in DOMAIN list
      BY <1>2, <1>3, <1>8, <2>1
    <3> QED BY <3>1
  <2>2. CASE i > n + 1
    <3>1. list1[i] = list[i - 1] /\ i - 1 \in DOMAIN list
      BY <1>2, <1>3, <1>8, <2>2
    <3> QED BY <3>1
  <2>3. CASE i = n + 1
    BY <1>2, <1>3, <1>8, <2>3
  <2> QED BY <1>2, <1>3, <2>1, <2>2, <2>3
<1> QED BY <1>9, <1>11, <1>12, <1>13 DEF ups1, list1

-----------------------------------------------------------------------------
(* Closing                                                                 *)

\* closeUpvalsTo takes off the list just what it closes.
LEMMA CloseKeepsList ==
    ASSUME NEW slots \in SUBSET Int, NEW V, NEW ups \in Seq(Upval(slots, V)),
           NEW list \in Seq(DOMAIN ups), Descending(ups, list), Exact(ups, list),
           NEW level \in Int, NEW stack, \A s \in slots : stack[s] \in V
    PROVE  LET ups1  == ClosedFrom(ups, list, level, stack)
               list1 == LeftOpen(ups, list, level)
           IN  /\ ups1 \in Seq(Upval(slots, V)) /\ DOMAIN ups1 = DOMAIN ups
               /\ list1 \in Seq(DOMAIN ups1)
               /\ Descending(ups1, list1)
               /\ Exact(ups1, list1)
               /\ (\A s \in slots : s >= level) => list1 = <<>>
               /\ \A u \in DOMAIN ups : ups1[u].slot = ups[u].slot
               /\ \A i \in DOMAIN list1 : \E j \in DOMAIN list :
                     list1[i] = list[j] /\ ups[list[j]].slot < level
<1> DEFINE n     == AtOrAbove(ups, list, level)
           ups1  == ClosedFrom(ups, list, level, stack)
           list1 == LeftOpen(ups, list, level)
           shut  == {list[i] : i \in 1 .. n}
<1>1. /\ Len(list) \in Nat /\ DOMAIN list = 1 .. Len(list)
      /\ Len(ups) \in Nat /\ DOMAIN ups = 1 .. Len(ups)
      /\ \A u \in DOMAIN ups : ups[u] \in Upval(slots, V) /\ ups[u].slot \in slots
      /\ \A i \in 1 .. Len(list) : list[i] \in DOMAIN ups
  BY Slots
<1>2. /\ n \in 0 .. Len(list)
      /\ \A i \in 1 .. n : ups[list[i]].slot >= level
      /\ \A i \in n + 1 .. Len(list) : ups[list[i]].slot < level
  BY BehindWalk
<1>3. Len(list) \in Nat /\ n \in Nat /\ n <= Len(list)
  <2>1. Len(list) \in Nat /\ n \in 0 .. Len(list)
    BY <1>1, <1>2
  <2> HIDE DEF n
  <2> QED BY <2>1
<1>4. /\ DOMAIN ups1 = DOMAIN ups
      /\ \A u \in DOMAIN ups :
            ups1[u] = IF u \in shut THEN [closed |-> TRUE, slot |-> ups[u].slot,
                                      value |-> stack[ups[u].slot]]
                      ELSE ups[u]
  BY DEF ClosedFrom
<1>5. \A u \in DOMAIN ups : ups1[u] \in Upval(slots, V) /\ ups1[u].slot = ups[u].slot
  <2> SUFFICES ASSUME NEW u \in DOMAIN ups
               PROVE  ups1[u] \in Upval(slots, V) /\ ups1[u].slot = ups[u].slot
    OBVIOUS
  <2> HIDE DEF ups1
  <2>1. CASE u \in shut
    <3>1. stack[ups[u].slot] \in V /\ ups[u].slot \in slots
      BY <1>1
    <3>2. ups1[u] = [closed |-> TRUE, slot |-> ups[u].slot, value |-> stack[ups[u].slot]]
      BY <1>4, <2>1
    <3> QED BY <3>1, <3>2 DEF Upval
  <2>2. CASE u \notin shut
    BY <1>1, <1>4, <2>2
  <2> QED BY <2>1, <2>2
<1>6. ups1 \in Seq(Upval(slots, V))
  <2>1. ups1 = [u \in 1 .. Len(ups) |-> ups1[u]]
    BY <1>1 DEF ClosedFrom
  <2> HIDE DEF ups1
  <2> QED BY <1>1, <1>5, <2>1, SeqDef
<1>7. /\ list1 \in Seq(DOMAIN ups) /\ Len(list1) = Len(list) - n
      /\ DOMAIN list1 = 1 .. Len(list) - n
      /\ \A i \in 1 .. Len(list) - n : list1[i] = list[n + i]
  <2>1. list1 = SubSeq(list, n + 1, Len(list))
    BY DEF LeftOpen
  <2> HIDE DEF n, list1
  <2>2. \A i \in n + 1 .. Len(list) : list[i] \in DOMAIN ups
    BY <1>1, <1>2
  <2>3. n + 1 \in Int /\ Len(list) \in Int
    BY <1>1, <1>2
  <2>4. /\ list1 \in Seq(DOMAIN ups)
        /\ Len(list1) = IF n + 1 <= Len(list) THEN Len(list) - (n + 1) + 1 ELSE 0
        /\ \A i \in 1 .. Len(list) - (n + 1) + 1 : list1[i] = list[n + 1 + i - 1]
    BY <2>1, <2>2, <2>3, SubSeqProperties
  <2>5. Len(list1) = Len(list) - n
    <3>1. Len(list1) = IF n + 1 <= Len(list) THEN Len(list) - (n + 1) + 1 ELSE 0
      BY <2>4
    <3> QED BY <1>3, <3>1
  <2>6. ASSUME NEW i \in 1 .. Len(list) - n
        PROVE  list1[i] = list[n + i]
    <3>1. i \in 1 .. Len(list) - (n + 1) + 1 /\ n + 1 + i - 1 = n + i
      BY <1>1, <1>2
    <3> QED BY <2>4, <3>1
  <2>7. DOMAIN list1 = 1 .. Len(list1)
    BY <2>4, LenProperties
  <2> QED BY <2>4, <2>5, <2>6, <2>7
<1> HIDE DEF n, ups1, list1
<1>8. Descending(ups1, list1)
  <2> SUFFICES ASSUME NEW i \in 1 .. Len(list) - n, NEW j \in 1 .. Len(list) - n, i < j
               PROVE  ups1[list1[i]].slot > ups1[list1[j]].slot
    BY <1>7 DEF Descending
  <2>1. n + i \in DOMAIN list /\ n + j \in DOMAIN list /\ n + i < n + j
    BY <1>1, <1>2
  <2>2. ups[list[n + i]].slot > ups[list[n + j]].slot
    BY <2>1 DEF Descending
  <2>3. list[n + i] \in DOMAIN ups /\ list[n + j] \in DOMAIN ups
    BY <1>1, <2>1
  <2>4. list1[i] = list[n + i] /\ list1[j] = list[n + j]
    BY <1>7
  <2> QED BY <1>5, <2>2, <2>3, <2>4
<1>9. Exact(ups1, list1)
  <2> SUFFICES ASSUME NEW u \in DOMAIN ups
               PROVE  ups1[u].closed <=> ~ \E i \in DOMAIN list1 : list1[i] = u
    BY <1>4 DEF Exact
  <2>1. CASE u \in shut
    <3>1. PICK i \in 1 .. n : list[i] = u
      BY <2>1
    <3>2. ASSUME NEW j \in DOMAIN list1, list1[j] = u
          PROVE  FALSE
      <4>0. j \in 1 .. Len(list) - n
        BY <1>7, <3>2
      <4>1. n + j \in n + 1 .. Len(list) /\ list[n + j] = u
        <5>1. n + j \in n + 1 .. Len(list)
          BY <1>3, <4>0
        <5>2. list1[j] = list[n + j]
          BY <1>7, <4>0
        <5> QED BY <3>2, <5>1, <5>2
      <4>2. ups[u].slot < level /\ ups[u].slot >= level
        BY <1>2, <3>1, <4>1
      <4>3. ups[u].slot \in Int
        BY <1>1
      <4> QED BY <4>2, <4>3
    <3>3. ups1[u].closed = TRUE
      BY <1>4, <2>1, SMTT(30)
    <3> QED BY <3>2, <3>3
  <2>2. CASE u \notin shut
    <3>1. (\E i \in DOMAIN list1 : list1[i] = u) <=> \E i \in DOMAIN list : list[i] = u
      <4>1. ASSUME NEW i \in DOMAIN list1, list1[i] = u
            PROVE  \E k \in DOMAIN list : list[k] = u
        <5>1. i \in 1 .. Len(list) - n
          BY <1>7, <4>1
        <5>2. n + i \in DOMAIN list
          BY <1>1, <1>3, <5>1
        <5>3. list[n + i] = u
          BY <1>7, <4>1, <5>1
        <5> QED BY <5>2, <5>3
      <4>2. ASSUME NEW k \in DOMAIN list, list[k] = u
            PROVE  \E i \in DOMAIN list1 : list1[i] = u
        <5>1. k \notin 1 .. n
          BY <2>2, <4>2
        <5>2. k - n \in 1 .. Len(list) - n /\ n + (k - n) = k
          BY <1>1, <1>2, <5>1
        <5>3. list1[k - n] = u /\ k - n \in DOMAIN list1
          BY <1>7, <4>2, <5>2
        <5> QED BY <5>3
      <4> QED BY <4>1, <4>2
    <3>2. ups1[u] = ups[u]
      BY <1>4, <2>2
    <3> QED BY <3>1, <3>2 DEF Exact
  <2> QED BY <2>1, <2>2
<1>10. ASSUME \A s \in slots : s >= level
      PROVE  list1 = <<>>
  <2>1. ~ (n < Len(list))
    <3> SUFFICES ASSUME n < Len(list) PROVE FALSE
      OBVIOUS
    <3>1. n + 1 \in n + 1 .. Len(list) /\ n + 1 \in 1 .. Len(list)
      BY <1>1, <1>2
    <3>2. ups[list[n + 1]].slot < level /\ ups[list[n + 1]].slot \in slots
      BY <1>1, <1>2, <3>1
    <3>3. ups[list[n + 1]].slot \in Int
      BY <3>2
    <3> QED BY <1>10, <3>2, <3>3
  <2>2. Len(list1) = 0
    <3>1. n = Len(list)
      BY <1>3, <2>1
    <3>2. Len(list1) = Len(list) - n
      BY <1>7
    <3> QED BY <1>1, <3>1, <3>2
  <2> QED BY <1>7, <2>2, EmptySeq
<1>11. list1 \in Seq(DOMAIN ups1)
  BY <1>4, <1>7
<1>12. \A i \in DOMAIN list1 : \E j \in DOMAIN list :
          list1[i] = list[j] /\ ups[list[j]].slot < level
  <2> TAKE i \in DOMAIN list1
  <2>1. i \in 1 .. Len(list) - n
    BY <1>7
  <2>2. n + i \in DOMAIN list /\ n + i \in n + 1 .. Len(list)
    BY <1>1, <1>3, <2>1
  <2>3. list1[i] = list[n + i]
    BY <1>7, <2>1
  <2> QED BY <1>2, <2>2, <2>3
<1>13. \A u \in DOMAIN ups : ups1[u].slot = ups[u].slot
  BY <1>5
<1> QED BY <1>4, <1>6, <1>8, <1>9, <1>10, <1>11, <1>12, <1>13 DEF ups1, list1
=============================================================================
