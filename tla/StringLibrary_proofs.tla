------------------------- MODULE StringLibrary_proofs -------------------------
(***************************************************************************)
(* The captures of a match are those of the alternative being tried, for   *)
(* every pattern, every subject and every bound.  The argument: positions  *)
(* never go back along the stack of activations, so a capture that closes  *)
(* has a length; and a parenthesis is closed above where it was opened, so *)
(* an activation that takes back what it did takes back the last of it.    *)
(***************************************************************************)
EXTENDS StringLibrary, FiniteSetTheorems, SequenceTheorems, WellFoundedInduction, TLAPS

Waits == {"no", "start", "end", "opt", "max", "min", "scan"}
Frame == {f \in [waits : Waits, s : Nat, p : Nat, ep : Nat, i : Nat] :
              f.waits = "scan" => f.i > 0}
CaptureSet == [init : Nat, len : {CapUnfinished, CapPosition} \cup Nat]

Plain(f) == f.waits \notin {"start", "end"}

\* The stack cs without its last activation.
Front(cs) == SubSeq(cs, 1, Len(cs) - 1)

Ascending(cs) == \A j, k \in 1 .. Len(cs) : j <= k => cs[j].s <= cs[k].s

StartsOf(cs) == {k \in 1 .. Len(cs) : cs[k].waits = "start"}
EndsOf(cs)   == {k \in 1 .. Len(cs) : cs[k].waits = "end"}

\* Capture number cs[k].i is what the activations say it is.
Agrees(cs, k, cp) ==
    /\ cp[cs[k].i].init = cs[k].s
    /\ cp[cs[k].i].len # CapPosition =>
         (cp[cs[k].i].len = CapUnfinished <=> \A j \in EndsOf(cs) : cs[j].i # cs[k].i)

\* The captures cp, lv of them, are those of the stack cs.
Book(cs, lv, cp) ==
    /\ \A k \in StartsOf(cs) : cs[k].i \in 0 .. lv - 1
    /\ \A l \in 0 .. lv - 1 : \E k \in StartsOf(cs) : cs[k].i = l
    /\ \A j, k \in StartsOf(cs) : j < k => cs[j].i < cs[k].i
    /\ \A k \in StartsOf(cs) : Agrees(cs, k, cp)
    /\ \A j, k \in EndsOf(cs) : cs[j].i = cs[k].i => j = k
    /\ \A j \in EndsOf(cs) : \E k \in StartsOf(cs) : k < j /\ cs[k].i = cs[j].i

StackInv ==
    /\ calls \in Seq(Frame)
    /\ Ascending(calls)
    /\ depth = MaxRecDepth - Len(calls)
    /\ level \in 0 .. MaxCaptures
    /\ captures \in [0 .. MaxCaptures - 1 -> CaptureSet]
    /\ result \in {Running, Failed} \cup Nat
    /\ result < 0 => Book(calls, level, captures)

IInv ==
    /\ src \in Seq(STRING)
    /\ pat \in Seq(STRING)
    /\ pos \in Nat
    /\ StackInv

-----------------------------------------------------------------------------
(* Stacks *)

LEMMA Fronts ==
    ASSUME NEW cs \in Seq(Frame), cs # <<>>
    PROVE  /\ Len(cs) \in Nat \ {0}
           /\ Front(cs) \in Seq(Frame)
           /\ Len(Front(cs)) = Len(cs) - 1
           /\ \A k \in 1 .. Len(cs) - 1 : Front(cs)[k] = cs[k]
           /\ Ascending(cs) => Ascending(Front(cs))
<1>1. Len(cs) \in Nat \ {0}
  BY EmptySeq
<1>2. \A k \in 1 .. Len(cs) - 1 : cs[k] \in Frame
  BY <1>1, ElementOfSeq
<1>3. /\ Front(cs) \in Seq(Frame)
      /\ Len(Front(cs)) = Len(cs) - 1
      /\ \A k \in 1 .. Len(cs) - 1 : Front(cs)[k] = cs[k]
  <2> DEFINE m == Len(cs) - 1
  <2>1. m \in Nat
    BY <1>1
  <2>2. \A k \in 1 .. m : cs[k] \in Frame
    BY <1>2
  <2> HIDE DEF m
  <2>3. /\ SubSeq(cs, 1, m) \in Seq(Frame)
        /\ Len(SubSeq(cs, 1, m)) = IF 1 <= m THEN m - 1 + 1 ELSE 0
        /\ \A k \in 1 .. m - 1 + 1 : SubSeq(cs, 1, m)[k] = cs[1 + k - 1]
    BY <2>1, <2>2, SubSeqProperties
  <2>4. \A k \in 1 .. m : SubSeq(cs, 1, m)[k] = cs[k]
    BY <2>1, <2>3
  <2>5. Len(SubSeq(cs, 1, m)) = m
    BY <2>1, <2>3
  <2>6. SubSeq(cs, 1, m) = Front(cs)
    BY DEF Front, m
  <2> QED
    BY <2>3, <2>4, <2>5, <2>6 DEF m
<1>4. Ascending(cs) => Ascending(Front(cs))
  BY <1>1, <1>3 DEF Ascending
<1> QED
  BY <1>1, <1>3, <1>4

LEMMA Appends ==
    ASSUME NEW cs \in Seq(Frame), NEW f \in Frame
    PROVE  /\ Len(cs) \in Nat
           /\ Append(cs, f) \in Seq(Frame)
           /\ Len(Append(cs, f)) = Len(cs) + 1
           /\ \A k \in 1 .. Len(cs) : Append(cs, f)[k] = cs[k]
           /\ Append(cs, f)[Len(cs) + 1] = f
           /\ Ascending(cs) /\ (cs # <<>> => cs[Len(cs)].s <= f.s) => Ascending(Append(cs, f))
<1>1. /\ Len(cs) \in Nat
      /\ Append(cs, f) \in Seq(Frame)
      /\ Len(Append(cs, f)) = Len(cs) + 1
      /\ \A k \in 1 .. Len(cs) : Append(cs, f)[k] = cs[k]
      /\ Append(cs, f)[Len(cs) + 1] = f
  BY AppendProperties, LenProperties
<1>2. \A k \in 1 .. Len(cs) : cs[k].s \in Int
  <2> SUFFICES ASSUME NEW k \in 1 .. Len(cs) PROVE cs[k].s \in Int
    OBVIOUS
  <2>1. cs[k] \in Frame
    BY ElementOfSeq
  <2> QED
    BY <2>1, SMTT(30) DEF Frame
<1>3. f.s \in Int
  BY DEF Frame
<1>4. ASSUME Ascending(cs), cs # <<>> => cs[Len(cs)].s <= f.s
      PROVE  Ascending(Append(cs, f))
  <2> DEFINE ds == Append(cs, f)
  <2>1. \A j \in 1 .. Len(cs) : cs[j].s <= f.s
    <3> SUFFICES ASSUME NEW j \in 1 .. Len(cs) PROVE cs[j].s <= f.s
      OBVIOUS
    <3>1. cs # <<>>
      BY <1>1, EmptySeq
    <3>2. Len(cs) \in 1 .. Len(cs) /\ j <= Len(cs)
      BY <1>1
    <3>3. cs[j].s <= cs[Len(cs)].s
      BY <3>2, <1>4 DEF Ascending
    <3> QED
      BY <3>1, <3>2, <3>3, <1>2, <1>3, <1>4
  <2> SUFFICES ASSUME NEW j \in 1 .. Len(ds), NEW k \in 1 .. Len(ds), j <= k
               PROVE  ds[j].s <= ds[k].s
    BY DEF Ascending
  <2>2. CASE k <= Len(cs)
    <3>1. j \in 1 .. Len(cs) /\ k \in 1 .. Len(cs)
      BY <2>2, <1>1
    <3>2. ds[j] = cs[j] /\ ds[k] = cs[k]
      BY <3>1, <1>1
    <3> QED
      BY <3>1, <3>2, <1>4 DEF Ascending
  <2>3. CASE k > Len(cs) /\ j <= Len(cs)
    <3>1. k = Len(cs) + 1 /\ j \in 1 .. Len(cs)
      BY <2>3, <1>1
    <3> QED
      BY <3>1, <2>1, <1>1
  <2>4. CASE k > Len(cs) /\ j > Len(cs)
    <3>1. k = Len(cs) + 1 /\ j = Len(cs) + 1
      BY <2>4, <1>1
    <3> QED
      BY <3>1, <1>1, <1>3
  <2> QED
    BY <2>2, <2>3, <2>4, <1>1
<1> QED
  BY <1>1, <1>4

LEMMA PlainPush ==
    ASSUME NEW cs \in Seq(Frame), NEW f \in Frame, Plain(f), NEW lv, NEW cp, Book(cs, lv, cp)
    PROVE  Book(Append(cs, f), lv, cp)
<1> DEFINE ds == Append(cs, f)
<1>1. /\ Len(cs) \in Nat
      /\ Len(ds) = Len(cs) + 1
      /\ \A k \in 1 .. Len(cs) : ds[k] = cs[k]
      /\ ds[Len(cs) + 1] = f
  BY Appends
<1> HIDE DEF ds
<1>2. StartsOf(ds) = StartsOf(cs) /\ EndsOf(ds) = EndsOf(cs)
  BY <1>1 DEF StartsOf, EndsOf, Plain
<1>3. \A k \in StartsOf(cs) \cup EndsOf(cs) : ds[k] = cs[k]
  BY <1>1 DEF StartsOf, EndsOf
<1>4. \A k \in StartsOf(cs) : Agrees(ds, k, cp)
  BY <1>2, <1>3 DEF Book, Agrees
<1> QED
  BY <1>2, <1>3, <1>4 DEF Book, ds

LEMMA PlainPop ==
    ASSUME NEW cs \in Seq(Frame), cs # <<>>, Plain(cs[Len(cs)]),
           NEW lv, NEW cp, Book(cs, lv, cp)
    PROVE  Book(Front(cs), lv, cp)
<1> DEFINE ds == Front(cs)
<1>1. /\ Len(cs) \in Nat \ {0}
      /\ Len(ds) = Len(cs) - 1
      /\ \A k \in 1 .. Len(cs) - 1 : ds[k] = cs[k]
  BY Fronts
<1> HIDE DEF ds
<1>2. StartsOf(ds) = StartsOf(cs) /\ EndsOf(ds) = EndsOf(cs)
  BY <1>1 DEF StartsOf, EndsOf, Plain
<1>3. \A k \in StartsOf(cs) \cup EndsOf(cs) : ds[k] = cs[k]
  BY <1>1, <1>2 DEF StartsOf, EndsOf
<1>4. \A k \in StartsOf(cs) : Agrees(ds, k, cp)
  BY <1>2, <1>3 DEF Book, Agrees
<1> QED
  BY <1>2, <1>3, <1>4 DEF Book, ds

\* startCapture: the next capture is that of the new activation.
LEMMA StartPush ==
    ASSUME NEW cs \in Seq(Frame), NEW f \in Frame, f.waits = "start",
           NEW lv \in 0 .. MaxCaptures - 1, f.i = lv,
           NEW cp \in [0 .. MaxCaptures - 1 -> CaptureSet], Book(cs, lv, cp),
           NEW what \in {CapUnfinished, CapPosition}
    PROVE  Book(Append(cs, f), lv + 1, [cp EXCEPT ![lv] = [init |-> f.s, len |-> what]])
<1> DEFINE ds == Append(cs, f)
           n  == Len(cs) + 1
           cq == [cp EXCEPT ![lv] = [init |-> f.s, len |-> what]]
<1>1. /\ Len(cs) \in Nat
      /\ Len(ds) = n
      /\ \A k \in 1 .. Len(cs) : ds[k] = cs[k]
      /\ ds[n] = f
  BY Appends
<1>2. lv \in Nat /\ lv \in 0 .. MaxCaptures - 1
  BY StringAssumption
<1>3. cq[lv] = [init |-> f.s, len |-> what] /\ \A l \in 0 .. lv - 1 : cq[l] = cp[l]
  BY <1>2, StringAssumption
<1> HIDE DEF ds, cq
<1>4. StartsOf(ds) = StartsOf(cs) \cup {n} /\ EndsOf(ds) = EndsOf(cs)
  BY <1>1 DEF StartsOf, EndsOf
<1>5. StartsOf(cs) \subseteq 1 .. Len(cs) /\ EndsOf(cs) \subseteq 1 .. Len(cs)
  BY DEF StartsOf, EndsOf
<1>6. \A k \in StartsOf(cs) \cup EndsOf(cs) : ds[k] = cs[k] /\ k < n /\ k # n
  BY <1>1, <1>5
<1>7. \A k \in StartsOf(cs) \cup EndsOf(cs) : ds[k].i \in 0 .. lv - 1
  BY <1>6 DEF Book
<1>8. /\ \A k \in StartsOf(ds) : ds[k].i \in 0 .. lv
      /\ \A l \in 0 .. lv : \E k \in StartsOf(ds) : ds[k].i = l
  <2>1. \A l \in 0 .. lv - 1 : \E k \in StartsOf(ds) : ds[k].i = l
    BY <1>4, <1>6 DEF Book
  <2>2. n \in StartsOf(ds) /\ ds[n].i = lv
    BY <1>4, <1>1
  <2> QED
    BY <2>1, <2>2, <1>2, <1>4, <1>7
<1>9. \A j, k \in StartsOf(ds) : j < k => ds[j].i < ds[k].i
  <2> SUFFICES ASSUME NEW j \in StartsOf(ds), NEW k \in StartsOf(ds), j < k
               PROVE  ds[j].i < ds[k].i
    OBVIOUS
  <2>1. j \in StartsOf(cs)
    BY <1>4, <1>5, <1>1
  <2>2. CASE k \in StartsOf(cs)
    BY <2>1, <2>2, <1>6 DEF Book
  <2>3. CASE k = n
    <3>1. ds[j].i \in 0 .. lv - 1
      BY <2>1, <1>7
    <3>2. ds[k].i = lv
      BY <2>3, <1>1
    <3> QED
      BY <3>1, <3>2, <1>2
  <2> QED
    BY <2>2, <2>3, <1>4
<1>10. \A k \in StartsOf(ds) : Agrees(ds, k, cq)
  <2>1. ASSUME NEW k \in StartsOf(cs) PROVE Agrees(ds, k, cq)
    <3>1. Agrees(cs, k, cp) /\ ds[k] = cs[k] /\ cq[cs[k].i] = cp[cs[k].i]
      BY <1>3, <1>6, <1>7 DEF Book
    <3> QED
      BY <3>1, <1>4, <1>6 DEF Agrees
  <2>2. Agrees(ds, n, cq)
    <3>1. \A j \in EndsOf(ds) : ds[j].i # lv
      BY <1>4, <1>7, <1>2
    <3> QED
      BY <3>1, <1>1, <1>3 DEF Agrees, CapUnfinished, CapPosition
  <2> QED
    BY <2>1, <2>2, <1>4
<1>11. /\ \A j, k \in EndsOf(ds) : ds[j].i = ds[k].i => j = k
       /\ \A j \in EndsOf(ds) : \E k \in StartsOf(ds) : k < j /\ ds[k].i = ds[j].i
  BY <1>4, <1>6 DEF Book
<1>12. lv + 1 - 1 = lv
  BY <1>2
<1>13. Book(ds, lv + 1, cq)
  BY <1>8, <1>9, <1>10, <1>11, <1>12 DEF Book
<1> QED
  BY <1>13 DEF ds, cq

\* endCapture: an open capture gets the length it has when it is closed.
LEMMA EndPush ==
    ASSUME NEW cs \in Seq(Frame), NEW f \in Frame, f.waits = "end",
           NEW lv \in 0 .. MaxCaptures, f.i \in 0 .. lv - 1,
           NEW cp \in [0 .. MaxCaptures - 1 -> CaptureSet], Book(cs, lv, cp),
           cp[f.i].len = CapUnfinished,
           NEW length \in Nat
    PROVE  Book(Append(cs, f), lv, [cp EXCEPT ![f.i].len = length])
<1> DEFINE ds == Append(cs, f)
           n  == Len(cs) + 1
           cq == [cp EXCEPT ![f.i].len = length]
<1>1. /\ Len(cs) \in Nat
      /\ Len(ds) = n
      /\ \A k \in 1 .. Len(cs) : ds[k] = cs[k]
      /\ ds[n] = f
  BY Appends
<1>2. f.i \in 0 .. MaxCaptures - 1
  BY StringAssumption
<1>3. /\ cq[f.i].len = length /\ cq[f.i].init = cp[f.i].init
      /\ \A l \in 0 .. MaxCaptures - 1 : l # f.i => cq[l] = cp[l]
  BY <1>2 DEF CaptureSet
<1> HIDE DEF ds, cq
<1>4. StartsOf(ds) = StartsOf(cs) /\ EndsOf(ds) = EndsOf(cs) \cup {n}
  BY <1>1 DEF StartsOf, EndsOf
<1>5. StartsOf(cs) \subseteq 1 .. Len(cs) /\ EndsOf(cs) \subseteq 1 .. Len(cs)
  BY DEF StartsOf, EndsOf
<1>6. \A k \in StartsOf(cs) \cup EndsOf(cs) : ds[k] = cs[k] /\ k < n /\ k # n
  BY <1>1, <1>5
<1>7. \A k \in StartsOf(cs) : cs[k].i \in 0 .. MaxCaptures - 1
  BY StringAssumption DEF Book
<1>8. PICK o \in StartsOf(cs) : cs[o].i = f.i
  BY DEF Book
<1>9. \A j \in EndsOf(cs) : cs[j].i # f.i
  BY <1>8 DEF Book, Agrees, CapUnfinished, CapPosition
<1>10. \A k \in StartsOf(ds) : Agrees(ds, k, cq)
  <2> SUFFICES ASSUME NEW k \in StartsOf(cs) PROVE Agrees(ds, k, cq)
    BY <1>4
  <2>1. Agrees(cs, k, cp) /\ ds[k] = cs[k]
    BY <1>6 DEF Book
  <2>2. CASE cs[k].i = f.i
    <3>1. n \in EndsOf(ds) /\ ds[n].i = f.i
      BY <1>1, <1>4
    <3>2. length # CapUnfinished /\ length # CapPosition
      BY DEF CapUnfinished, CapPosition
    <3> QED
      BY <2>1, <2>2, <3>1, <3>2, <1>3 DEF Agrees
  <2>3. CASE cs[k].i # f.i
    <3>1. cq[cs[k].i] = cp[cs[k].i]
      BY <2>3, <1>3, <1>7
    <3>2. (\A j \in EndsOf(ds) : ds[j].i # ds[k].i) <=> (\A j \in EndsOf(cs) : cs[j].i # cs[k].i)
      BY <2>3, <2>1, <1>1, <1>4, <1>6
    <3> QED
      BY <2>1, <3>1, <3>2 DEF Agrees
  <2> QED
    BY <2>2, <2>3
<1>11. \A j, k \in EndsOf(ds) : ds[j].i = ds[k].i => j = k
  BY <1>1, <1>4, <1>6, <1>9 DEF Book
<1>12. \A j \in EndsOf(ds) : \E k \in StartsOf(ds) : k < j /\ ds[k].i = ds[j].i
  <2>1. \A j \in EndsOf(cs) : \E k \in StartsOf(cs) : k < j /\ cs[k].i = cs[j].i
    BY DEF Book
  <2>2. o < n /\ ds[o].i = ds[n].i
    BY <1>1, <1>6, <1>8
  <2> QED
    BY <2>1, <2>2, <1>4, <1>6, <1>8
<1>13. /\ \A k \in StartsOf(ds) : ds[k].i \in 0 .. lv - 1
       /\ \A l \in 0 .. lv - 1 : \E k \in StartsOf(ds) : ds[k].i = l
       /\ \A j, k \in StartsOf(ds) : j < k => ds[j].i < ds[k].i
  BY <1>4, <1>6 DEF Book
<1>14. Book(ds, lv, cq)
  BY <1>10, <1>11, <1>12, <1>13 DEF Book
<1> QED
  BY <1>14 DEF ds, cq

\* startCapture takes its capture back: it is the last one.
LEMMA StartPop ==
    ASSUME NEW cs \in Seq(Frame), cs # <<>>, cs[Len(cs)].waits = "start",
           NEW lv \in Nat, NEW cp, Book(cs, lv, cp)
    PROVE  /\ lv > 0
           /\ Book(Front(cs), lv - 1, cp)
<1> DEFINE ds == Front(cs)
           n  == Len(cs)
<1>1. /\ n \in Nat \ {0}
      /\ Len(ds) = n - 1
      /\ \A k \in 1 .. n - 1 : ds[k] = cs[k]
  BY Fronts
<1> HIDE DEF ds
<1>2. /\ StartsOf(cs) = StartsOf(ds) \cup {n} /\ n \notin StartsOf(ds)
      /\ EndsOf(ds) = EndsOf(cs)
  BY <1>1 DEF StartsOf, EndsOf
<1>3. \A k \in StartsOf(ds) \cup EndsOf(ds) : ds[k] = cs[k] /\ k < n
  BY <1>1 DEF StartsOf, EndsOf
<1>4. cs[n].i \in 0 .. lv - 1
  BY <1>2 DEF Book
<1>5. \A k \in StartsOf(ds) : cs[k].i < cs[n].i /\ cs[k].i \in 0 .. lv - 1
  BY <1>2, <1>3 DEF Book
<1>6. cs[n].i = lv - 1
  <2>1. PICK k \in StartsOf(cs) : cs[k].i = lv - 1
    <3>1. lv - 1 \in 0 .. lv - 1
      BY <1>4
    <3> QED
      BY <3>1 DEF Book
  <2>2. CASE k \in StartsOf(ds)
    BY <2>1, <2>2, <1>4, <1>5
  <2> QED
    BY <2>1, <2>2, <1>2
<1>7. /\ \A k \in StartsOf(ds) : ds[k].i \in 0 .. (lv - 1) - 1
      /\ \A l \in 0 .. (lv - 1) - 1 : \E k \in StartsOf(ds) : ds[k].i = l
  <2>1. \A k \in StartsOf(ds) : ds[k].i \in 0 .. (lv - 1) - 1
    <3> SUFFICES ASSUME NEW k \in StartsOf(ds) PROVE ds[k].i \in 0 .. (lv - 1) - 1
      OBVIOUS
    <3>1. cs[k].i \in 0 .. lv - 1 /\ cs[k].i < lv - 1
      BY <1>5, <1>6
    <3>2. ds[k] = cs[k]
      BY <1>3
    <3> QED
      BY <3>1, <3>2
  <2>2. ASSUME NEW l \in 0 .. (lv - 1) - 1 PROVE \E k \in StartsOf(ds) : ds[k].i = l
    <3>1. l \in 0 .. lv - 1 /\ l # lv - 1
      OBVIOUS
    <3>2. PICK k \in StartsOf(cs) : cs[k].i = l
      BY <3>1 DEF Book
    <3>3. k \in StartsOf(ds)
      BY <3>1, <3>2, <1>2, <1>6
    <3> QED
      BY <3>2, <3>3, <1>3
  <2> QED
    BY <2>1, <2>2
<1>8. \A j, k \in StartsOf(ds) : j < k => ds[j].i < ds[k].i
  BY <1>2, <1>3 DEF Book
<1>9. \A k \in StartsOf(ds) : Agrees(ds, k, cp)
  <2> SUFFICES ASSUME NEW k \in StartsOf(ds) PROVE Agrees(ds, k, cp)
    OBVIOUS
  <2>1. Agrees(cs, k, cp) /\ ds[k] = cs[k]
    BY <1>2, <1>3 DEF Book
  <2> QED
    BY <2>1, <1>2, <1>3 DEF Agrees
<1>10. \A j, k \in EndsOf(ds) : ds[j].i = ds[k].i => j = k
  BY <1>2, <1>3 DEF Book
<1>11. \A j \in EndsOf(ds) : \E k \in StartsOf(ds) : k < j /\ ds[k].i = ds[j].i
  <2> SUFFICES ASSUME NEW j \in EndsOf(ds)
               PROVE  \E k \in StartsOf(ds) : k < j /\ ds[k].i = ds[j].i
    OBVIOUS
  <2>1. PICK k \in StartsOf(cs) : k < j /\ cs[k].i = cs[j].i
    BY <1>2 DEF Book
  <2>2. j \in 1 .. n - 1
    BY <1>1 DEF EndsOf
  <2>3. k # n
    BY <2>1, <2>2, <1>1
  <2> QED
    BY <2>1, <2>3, <1>2, <1>3
<1>12. Book(ds, lv - 1, cp)
  BY <1>7, <1>8, <1>9, <1>10, <1>11 DEF Book
<1> QED
  BY <1>4, <1>12 DEF ds

\* endCapture opens again what it closed.
LEMMA EndPop ==
    ASSUME NEW cs \in Seq(Frame), cs # <<>>, cs[Len(cs)].waits = "end",
           NEW lv \in 0 .. MaxCaptures,
           NEW cp \in [0 .. MaxCaptures - 1 -> CaptureSet], Book(cs, lv, cp)
    PROVE  Book(Front(cs), lv, [cp EXCEPT ![cs[Len(cs)].i].len = CapUnfinished])
<1> DEFINE ds == Front(cs)
           n  == Len(cs)
           l  == cs[n].i
           cq == [cp EXCEPT ![l].len = CapUnfinished]
<1>1. /\ n \in Nat \ {0}
      /\ Len(ds) = n - 1
      /\ \A k \in 1 .. n - 1 : ds[k] = cs[k]
  BY Fronts
<1> HIDE DEF ds
<1>2. /\ EndsOf(cs) = EndsOf(ds) \cup {n} /\ n \notin EndsOf(ds)
      /\ StartsOf(ds) = StartsOf(cs)
  BY <1>1, SMTT(30) DEF StartsOf, EndsOf
<1>3. \A k \in StartsOf(ds) \cup EndsOf(ds) : ds[k] = cs[k]
  BY <1>1 DEF StartsOf, EndsOf
<1>4. \A k \in StartsOf(cs) : cs[k].i \in 0 .. MaxCaptures - 1
  BY StringAssumption DEF Book
<1>5. l \in 0 .. MaxCaptures - 1
  BY <1>2, <1>4 DEF Book
<1>6. /\ cq[l].len = CapUnfinished /\ cq[l].init = cp[l].init
      /\ \A m \in 0 .. MaxCaptures - 1 : m # l => cq[m] = cp[m]
  BY <1>5 DEF CaptureSet
<1>7. \A j \in EndsOf(ds) : cs[j].i # l
  BY <1>2 DEF Book
<1> HIDE DEF cq, l
<1>8. \A k \in StartsOf(ds) : Agrees(ds, k, cq)
  <2> SUFFICES ASSUME NEW k \in StartsOf(ds) PROVE Agrees(ds, k, cq)
    OBVIOUS
  <2>1. Agrees(cs, k, cp) /\ ds[k] = cs[k]
    BY <1>2, <1>3 DEF Book
  <2>2. CASE cs[k].i = l
    BY <2>1, <2>2, <1>3, <1>6, <1>7 DEF Agrees
  <2>3. CASE cs[k].i # l
    <3>1. cq[cs[k].i] = cp[cs[k].i]
      BY <2>3, <1>2, <1>4, <1>6
    <3>2. (\A j \in EndsOf(ds) : ds[j].i # ds[k].i) <=> (\A j \in EndsOf(cs) : cs[j].i # cs[k].i)
      BY <2>1, <2>3, <1>2, <1>3 DEF l
    <3> QED
      BY <2>1, <3>1, <3>2 DEF Agrees
  <2> QED
    BY <2>2, <2>3
<1>9. /\ \A j, k \in EndsOf(ds) : ds[j].i = ds[k].i => j = k
      /\ \A j \in EndsOf(ds) : \E k \in StartsOf(ds) : k < j /\ ds[k].i = ds[j].i
  BY <1>2, <1>3, SMTT(60) DEF Book
<1>10. /\ \A k \in StartsOf(ds) : ds[k].i \in 0 .. lv - 1
       /\ \A m \in 0 .. lv - 1 : \E k \in StartsOf(ds) : ds[k].i = m
       /\ \A j, k \in StartsOf(ds) : j < k => ds[j].i < ds[k].i
  <2>1. /\ \A k \in StartsOf(ds) : cs[k].i \in 0 .. lv - 1
        /\ \A m \in 0 .. lv - 1 : \E k \in StartsOf(ds) : cs[k].i = m
        /\ \A j, k \in StartsOf(ds) : j < k => cs[j].i < cs[k].i
    BY <1>2 DEF Book
  <2>2. \A k \in StartsOf(ds) : ds[k].i = cs[k].i
    BY <1>3
  <2>3. \A k \in StartsOf(ds) : ds[k].i \in 0 .. lv - 1
    BY <2>1, <2>2
  <2>4. \A m \in 0 .. lv - 1 : \E k \in StartsOf(ds) : ds[k].i = m
    BY <2>1, <2>2
  <2>5. \A j, k \in StartsOf(ds) : j < k => ds[j].i < ds[k].i
    BY <2>1, <2>2
  <2> QED
    BY <2>3, <2>4, <2>5
<1>11. Book(ds, lv, cq)
  BY <1>8, <1>9, <1>10 DEF Book
<1> QED
  BY <1>11 DEF ds, cq, l

-----------------------------------------------------------------------------
(* The helpers of the matcher *)

LEMMA TopFrame ==
    ASSUME calls \in Seq(Frame), calls # <<>>
    PROVE  /\ Below = Front(calls)
           /\ Top \in Frame
           /\ Top.s \in Nat /\ Top.p \in Nat /\ Top.ep \in Nat /\ Top.i \in Nat
           /\ Top.waits = "scan" => Top.i > 0
<1>1. Len(calls) \in Nat \ {0}
  BY EmptySeq
<1>2. Top \in Frame
  BY <1>1, ElementOfSeq DEF Top
<1> QED
  BY <1>2 DEF Frame, Below, Front

LEMMA LastOpenIsOpen ==
    ASSUME level \in Nat, OpenCaptures # {}
    PROVE  LastOpen \in 0 .. level - 1 /\ captures[LastOpen].len = CapUnfinished
<1> DEFINE S == {n \in Nat : level - 1 - n \in OpenCaptures}
<1>1. S # {}
  <2>1. PICK l \in OpenCaptures : TRUE
    OBVIOUS
  <2>2. l \in 0 .. level - 1
    BY DEF OpenCaptures
  <2>3. level - 1 - l \in Nat /\ level - 1 - (level - 1 - l) = l
    BY <2>2
  <2>4. level - 1 - l \in S
    BY <2>3
  <2> QED
    BY <2>4
<1>2. PICK n \in S : \A m \in S : n <= m
  <2> DEFINE R == OpToRel(<, Nat)
  <2>1. IsWellFoundedOn(R, Nat)
    BY NatLessThanWellFounded
  <2> HIDE DEF R
  <2>2. S \in SUBSET Nat
    OBVIOUS
  <2> HIDE DEF S
  <2>3. PICK n \in S : \A m \in S : ~ (<<m, n>> \in R)
    BY <2>1, <2>2, <1>1, WFMin
  <2>4. \A m \in S : n <= m
    <3> SUFFICES ASSUME NEW m \in S PROVE n <= m
      OBVIOUS
    <3>1. ~ (<<m, n>> \in R)
      BY <2>3
    <3>2. m \in Nat /\ n \in Nat
      BY <2>2
    <3>3. ~ (m < n)
      BY <3>1, <3>2 DEF OpToRel, R
    <3> QED
      BY <3>2, <3>3
  <2> QED
    BY <2>4
<1>3. level - 1 - n \in OpenCaptures
  OBVIOUS
<1>4. \A k \in OpenCaptures : k <= level - 1 - n
  <2> SUFFICES ASSUME NEW k \in OpenCaptures PROVE k <= level - 1 - n
    OBVIOUS
  <2>1. k \in 0 .. level - 1
    BY DEF OpenCaptures
  <2>2. level - 1 - k \in Nat /\ level - 1 - (level - 1 - k) = k
    BY <2>1
  <2>3. level - 1 - k \in S
    BY <2>2
  <2>4. n <= level - 1 - k
    BY <2>3, <1>2
  <2> QED
    BY <2>1, <2>4
<1>5. LastOpen \in OpenCaptures
  BY <1>3, <1>4 DEF LastOpen
<1> QED
  BY <1>5 DEF OpenCaptures

LEMMA ItemEndType ==
    ASSUME NEW p \in Nat, Len(pat) \in Nat
    PROVE  ItemEnd(p) \in Nat
<1>1. CASE ItemError(p) # NoError
  BY <1>1 DEF ItemEnd, PEnd
<1>2. CASE ItemError(p) = NoError /\ Pat(p) = Esc
  BY <1>2 DEF ItemEnd
<1>3. CASE ItemError(p) = NoError /\ Pat(p) # Esc /\ Pat(p) = "["
  <2>1. SetEnd(p) \in 0 .. PEnd
    BY <1>3 DEF ItemError, NoError
  <2> QED
    BY <1>3, <2>1 DEF ItemEnd, PEnd
<1>4. CASE ItemError(p) = NoError /\ Pat(p) # Esc /\ Pat(p) # "["
  BY <1>4 DEF ItemEnd
<1> QED
  BY <1>1, <1>2, <1>3, <1>4

LEMMA RepetitionsType ==
    ASSUME NEW s \in Nat, NEW p, NEW ep, Len(src) \in Nat
    PROVE  /\ Repetitions(s, p, ep) \in Nat
           /\ SingleMatch(s, p, ep) => Repetitions(s, p, ep) > 0
<1> DEFINE S == {n \in 1 .. SrcEnd - s : \A k \in 0 .. n - 1 : SingleMatch(s + k, p, ep)}
<1>1. IsFiniteSet(S)
  <2>1. SrcEnd - s \in Int
    BY DEF SrcEnd
  <2>2. IsFiniteSet(1 .. SrcEnd - s)
    BY <2>1, FS_Interval
  <2> QED
    BY <2>2, FS_Subset
<1>2. Cardinality(S) \in Nat
  BY <1>1, FS_CardinalityType
<1>3. ASSUME SingleMatch(s, p, ep) PROVE 1 \in S
  <2>1. s < SrcEnd
    BY <1>3 DEF SingleMatch
  <2>2. 1 \in 1 .. SrcEnd - s
    BY <2>1 DEF SrcEnd
  <2>3. \A k \in 0 .. 1 - 1 : SingleMatch(s + k, p, ep)
    <3>1. \A k \in 0 .. 1 - 1 : k = 0
      OBVIOUS
    <3>2. s + 0 = s
      OBVIOUS
    <3> QED
      BY <3>1, <3>2, <1>3
  <2> QED
    BY <2>2, <2>3
<1>4. Repetitions(s, p, ep) = Cardinality(S)
  BY DEF Repetitions
<1> HIDE DEF S
<1>5. SingleMatch(s, p, ep) => Cardinality(S) > 0
  <2> SUFFICES ASSUME SingleMatch(s, p, ep) PROVE Cardinality(S) > 0
    OBVIOUS
  <2>1. S # {}
    BY <1>3
  <2>2. Cardinality(S) # 0
    BY <2>1, <1>1, FS_EmptySet
  <2> QED
    BY <2>2, <1>2
<1> QED
  BY <1>2, <1>4, <1>5

-----------------------------------------------------------------------------
(* Calls and returns of doMatch *)

\* The depth that is left, when the last activation is gone, replaced, or has
\* called another.
LEMMA EnterKeeps ==
    ASSUME NEW cs \in Seq(Frame), cs # <<>>, Ascending(cs),
           depth = MaxRecDepth - Len(cs),
           NEW s \in Nat, NEW p \in Nat, cs[Len(cs)].s <= s,
           level' \in 0 .. MaxCaptures,
           captures' \in [0 .. MaxCaptures - 1 -> CaptureSet],
           Book(cs, level', captures'),
           Enter(cs, s, p)
    PROVE  StackInv'
<1> DEFINE f  == AtLoop(s, p)
           ds == Append(cs, f)
<1>1. CASE calls' = cs /\ result' = Failed /\ UNCHANGED depth
  BY <1>1 DEF StackInv
<1>2. CASE calls' = ds /\ depth' = depth - 1 /\ result' = Running
  <2>1. f \in Frame /\ f.s = s /\ Plain(f)
    BY DEF AtLoop, Frame, Waits, Plain
  <2> HIDE DEF f
  <2>2. /\ Len(cs) \in Nat
        /\ ds \in Seq(Frame)
        /\ Len(ds) = Len(cs) + 1
        /\ Ascending(ds)
    BY <2>1, Appends
  <2>3. Book(ds, level', captures')
    BY <2>1, PlainPush
  <2> HIDE DEF ds
  <2>4. depth' = MaxRecDepth - Len(ds)
    BY <1>2, <2>2, StringAssumption
  <2> QED
    BY <1>2, <2>2, <2>3, <2>4 DEF StackInv
<1> QED
  BY <1>1, <1>2 DEF Enter

\* The last activation becomes f.
LEMMA Restacked ==
    ASSUME StackInv, calls # <<>>, NEW f \in Frame, Top.s <= f.s
    PROVE  LET cs == Append(Below, f) IN
           /\ Below \in Seq(Frame)
           /\ cs \in Seq(Frame) /\ cs # <<>> /\ Ascending(cs)
           /\ Len(cs) = Len(calls)
           /\ cs[Len(cs)].s = f.s
<1> DEFINE cs == Append(Below, f)
<1>1. calls \in Seq(Frame)
  BY DEF StackInv
<1>2. /\ Below = Front(calls)
      /\ Top = calls[Len(calls)]
  BY <1>1, TopFrame DEF Top
<1>3. /\ Len(calls) \in Nat \ {0}
      /\ Below \in Seq(Frame)
      /\ Len(Below) = Len(calls) - 1
      /\ \A k \in 1 .. Len(calls) - 1 : Below[k] = calls[k]
      /\ Ascending(Below)
  BY <1>1, <1>2, Fronts DEF StackInv
<1>4. Below # <<>> => Below[Len(Below)].s <= f.s
  <2> SUFFICES ASSUME Below # <<>> PROVE Below[Len(Below)].s <= f.s
    OBVIOUS
  <2>1. Len(Below) \in Nat \ {0}
    BY <1>3, EmptySeq
  <2>2. /\ Len(calls) - 1 \in 1 .. Len(calls)
        /\ Len(calls) - 1 \in 1 .. Len(calls) - 1
        /\ Len(calls) \in 1 .. Len(calls)
        /\ Len(calls) - 1 <= Len(calls)
    BY <2>1, <1>3
  <2>3. calls[Len(calls) - 1].s <= Top.s
    BY <2>2, <1>2 DEF StackInv, Ascending
  <2>4. calls[Len(calls) - 1] \in Frame
    BY <2>2, <1>1, ElementOfSeq
  <2>5. calls[Len(calls) - 1].s \in Nat /\ Top.s \in Nat /\ f.s \in Nat
    BY <2>4, <1>1, TopFrame DEF Frame
  <2>6. Below[Len(Below)] = calls[Len(calls) - 1]
    BY <2>2, <1>3
  <2> QED
    BY <2>3, <2>5, <2>6
<1>5. /\ cs \in Seq(Frame)
      /\ Len(cs) = Len(Below) + 1
      /\ cs[Len(Below) + 1] = f
      /\ Ascending(cs)
      /\ cs # <<>>
  BY <1>3, <1>4, Appends, AppendProperties
<1> HIDE DEF cs
<1>6. Len(cs) = Len(calls) /\ cs[Len(cs)] = f
  BY <1>3, <1>5
<1> QED
  BY <1>3, <1>5, <1>6 DEF cs

\* It was not that of a capture, nor is f.
LEMMA Replaced ==
    ASSUME StackInv, calls # <<>>, Plain(Top), result < 0,
           NEW f \in Frame, Plain(f), Top.s <= f.s
    PROVE  LET cs == Append(Below, f) IN
           /\ cs \in Seq(Frame) /\ cs # <<>> /\ Ascending(cs)
           /\ Len(cs) = Len(calls)
           /\ cs[Len(cs)].s = f.s
           /\ Book(cs, level, captures)
<1>1. Below \in Seq(Frame)
  BY Restacked
<1>2. Book(Below, level, captures)
  <2>1. calls \in Seq(Frame) /\ Book(calls, level, captures)
    BY DEF StackInv
  <2>2. Below = Front(calls) /\ Top = calls[Len(calls)]
    BY <2>1, TopFrame DEF Top
  <2> QED
    BY <2>1, <2>2, PlainPop
<1>3. Book(Append(Below, f), level, captures)
  BY <1>1, <1>2, PlainPush
<1> QED
  BY <1>3, Restacked

LEMMA DeeperKeeps ==
    ASSUME StackInv, calls # <<>>, Plain(Top), result < 0,
           NEW f \in Frame, Plain(f), Top.s <= f.s,
           NEW s \in Nat, NEW p \in Nat, f.s <= s,
           SameCaptures, Enter(Append(Below, f), s, p)
    PROVE  StackInv'
<1> DEFINE cs == Append(Below, f)
<1>1. /\ cs \in Seq(Frame) /\ cs # <<>> /\ Ascending(cs)
      /\ Len(cs) = Len(calls)
      /\ cs[Len(cs)].s = f.s
      /\ Book(cs, level, captures)
  BY Replaced
<1>2. Enter(cs, s, p)
  OBVIOUS
<1> HIDE DEF cs
<1>3. depth = MaxRecDepth - Len(cs)
  BY <1>1 DEF StackInv
<1>4. level' = level /\ captures' = captures
  BY DEF SameCaptures
<1>5. /\ level' \in 0 .. MaxCaptures
      /\ captures' \in [0 .. MaxCaptures - 1 -> CaptureSet]
      /\ Book(cs, level', captures')
  BY <1>1, <1>4 DEF StackInv
<1>6. cs[Len(cs)].s <= s
  BY <1>1
<1> QED
  BY <1>1, <1>2, <1>3, <1>5, <1>6, EnterKeeps

LEMMA StaysKeeps ==
    ASSUME StackInv, calls # <<>>, Plain(Top), result < 0,
           NEW f \in Frame, Plain(f), Top.s <= f.s,
           SameCaptures, calls' = Append(Below, f), UNCHANGED depth, result' = Running
    PROVE  StackInv'
<1> DEFINE cs == Append(Below, f)
<1>1. /\ cs \in Seq(Frame) /\ Ascending(cs)
      /\ Len(cs) = Len(calls)
      /\ Book(cs, level, captures)
  BY Replaced
<1>2. calls' = cs
  OBVIOUS
<1> HIDE DEF cs
<1>3. level' = level /\ captures' = captures
  BY DEF SameCaptures
<1> QED
  BY <1>1, <1>2, <1>3 DEF StackInv

LEMMA AgainKeeps ==
    ASSUME StackInv, calls # <<>>, Plain(Top), result < 0,
           NEW s \in Nat, NEW p \in Nat, Top.s <= s, SameCaptures, Again(s, p)
    PROVE  StackInv'
<1> DEFINE f == AtLoop(s, p)
<1>1. f \in Frame /\ f.s = s /\ Plain(f)
  BY DEF AtLoop, Frame, Waits, Plain
<1>2. calls' = Append(Below, f) /\ UNCHANGED depth /\ result' = Running
  BY DEF Again
<1> HIDE DEF f
<1> QED
  BY <1>1, <1>2, StaysKeeps

\* An activation ends: what is below it stays.
LEMMA Left ==
    ASSUME StackInv, calls # <<>>, NEW r, Leave(r)
    PROVE  /\ calls' = Front(calls)
           /\ calls' \in Seq(Frame)
           /\ Ascending(calls)'
           /\ depth' = MaxRecDepth - Len(calls')
<1>1. calls \in Seq(Frame)
  BY DEF StackInv
<1>2. calls' = Front(calls)
  BY <1>1, TopFrame DEF Leave
<1>3. /\ Len(calls) \in Nat \ {0}
      /\ Front(calls) \in Seq(Frame)
      /\ Len(Front(calls)) = Len(calls) - 1
      /\ Ascending(Front(calls))
  BY <1>1, Fronts DEF StackInv
<1>4. depth' = MaxRecDepth - Len(Front(calls))
  BY <1>3, StringAssumption DEF Leave, StackInv
<1> QED
  BY <1>2, <1>3, <1>4

LEMMA LeaveKeeps ==
    ASSUME StackInv, calls # <<>>, Plain(Top), NEW r \in {Failed} \cup Nat,
           result < 0 \/ r = result, SameCaptures, Leave(r)
    PROVE  StackInv'
<1>1. /\ calls' = Front(calls)
      /\ calls' \in Seq(Frame)
      /\ Ascending(calls)'
      /\ depth' = MaxRecDepth - Len(calls')
  BY Left
<1>2. result' = r
  BY DEF Leave
<1>3. level' = level /\ captures' = captures
  BY DEF SameCaptures
<1>4. ASSUME r < 0 PROVE Book(Front(calls), level, captures)
  <2>1. calls \in Seq(Frame) /\ Book(calls, level, captures)
    BY <1>4 DEF StackInv
  <2> QED
    BY <2>1, PlainPop DEF Top
<1>5. result' < 0 => Book(calls', level', captures')
  BY <1>1, <1>2, <1>3, <1>4
<1> QED
  BY <1>1, <1>2, <1>3, <1>5 DEF StackInv

\* After a match nothing is taken back.
LEMMA MatchedKeeps ==
    ASSUME StackInv, calls # <<>>, result >= 0, SameCaptures, Leave(result)
    PROVE  StackInv'
<1>1. /\ calls' \in Seq(Frame)
      /\ Ascending(calls)'
      /\ depth' = MaxRecDepth - Len(calls')
  BY Left
<1>2. result' = result /\ level' = level /\ captures' = captures
  BY DEF Leave, SameCaptures
<1>3. ~ (result < 0)
  BY DEF StackInv, Running, Failed
<1> QED
  BY <1>1, <1>2, <1>3 DEF StackInv

-----------------------------------------------------------------------------
(* The steps of the matcher *)

LEMMA LoopFacts ==
    ASSUME IInv, Looping
    PROVE  /\ StackInv /\ calls # <<>> /\ Plain(Top) /\ result < 0
           /\ Top.s \in Nat /\ Top.p \in Nat
           /\ Len(src) \in Nat /\ Len(pat) \in Nat
<1>1. calls \in Seq(Frame) /\ calls # <<>>
  BY DEF IInv, StackInv, Looping
<1>2. Plain(Top) /\ result < 0
  BY DEF Looping, Plain, Running
<1>3. Len(src) \in Nat /\ Len(pat) \in Nat
  BY LenProperties DEF IInv
<1> QED
  BY <1>1, <1>2, <1>3, TopFrame DEF IInv

LEMMA FailKeeps ==
    ASSUME StackInv, calls # <<>>, Plain(Top), result < 0, NEW why, Fail(why)
    PROVE  StackInv'
BY LeaveKeeps DEF Fail, SameCaptures

LEMMA PatternEndsKeeps == IInv /\ PatternEnds => StackInv'
<1> SUFFICES ASSUME IInv, PatternEnds PROVE StackInv'
  OBVIOUS
<1>1. Looping /\ Leave(Top.s) /\ SameCaptures
  BY DEF PatternEnds
<1> QED
  BY <1>1, LoopFacts, LeaveKeeps

LEMMA EndAnchorKeeps == IInv /\ EndAnchor => StackInv'
<1> SUFFICES ASSUME IInv, EndAnchor PROVE StackInv'
  OBVIOUS
<1>1. Looping /\ SameCaptures /\ Leave(IF Top.s = SrcEnd THEN Top.s ELSE Failed)
  BY DEF EndAnchor, AtChar
<1>2. (IF Top.s = SrcEnd THEN Top.s ELSE Failed) \in {Failed} \cup Nat
  BY <1>1, LoopFacts
<1> QED
  BY <1>1, <1>2, LoopFacts, LeaveKeeps

LEMMA ScanningKeeps ==
    ASSUME StackInv, calls # <<>>, Plain(Top), result = Running,
           NEW s \in Nat, NEW i \in Nat, i > 0, Top.s <= s, SameCaptures, Scanning(s, i)
    PROVE  StackInv'
<1> DEFINE f == Waiting("scan", s, Top.p, 0, i)
<1>1. Top.p \in Nat
  BY TopFrame DEF StackInv
<1>2. f \in Frame /\ f.s = s /\ Plain(f)
  BY <1>1 DEF Waiting, Frame, Waits, Plain
<1>3. calls' = Append(Below, f) /\ UNCHANGED depth /\ result' = Running
  BY DEF Scanning
<1> HIDE DEF f
<1>4. result < 0
  BY DEF Running
<1> QED
  BY <1>2, <1>3, <1>4, StaysKeeps

LEMMA BalanceKeeps == IInv /\ Balance => StackInv'
<1> SUFFICES ASSUME IInv, Balance PROVE StackInv'
  OBVIOUS
<1>1. Looping
  BY DEF Balance, AtEscape, AtChar
<1>2. /\ StackInv /\ calls # <<>> /\ Plain(Top) /\ result < 0 /\ result = Running
      /\ Top.s \in Nat
  BY <1>1, LoopFacts DEF Looping
<1>3. CASE Top.p + 3 >= PEnd
  BY <1>2, <1>3, FailKeeps DEF Balance
<1>4. CASE ~(Top.p + 3 >= PEnd) /\ Scanning(Top.s + 1, 1) /\ SameCaptures
  <2>1. Top.s + 1 \in Nat /\ Top.s <= Top.s + 1 /\ 1 \in Nat /\ 1 > 0
    BY <1>2
  <2> QED
    BY <2>1, <1>2, <1>4, ScanningKeeps
<1>5. CASE ~(Top.p + 3 >= PEnd) /\ Leave(Failed) /\ SameCaptures
  BY <1>2, <1>5, LeaveKeeps
<1> QED
  BY <1>3, <1>4, <1>5 DEF Balance

LEMMA ScanKeeps == IInv /\ Scan => StackInv'
<1> SUFFICES ASSUME IInv, Scan PROVE StackInv'
  OBVIOUS
<1>1. /\ StackInv /\ calls # <<>> /\ Plain(Top) /\ result < 0 /\ result = Running
      /\ SameCaptures
  BY DEF Scan, IInv, Plain, Running
<1>2. /\ Top.s \in Nat /\ Top.p \in Nat /\ Top.i \in Nat /\ Top.i > 0
  BY <1>1, TopFrame DEF StackInv, Scan
<1>3. Top.s + 1 \in Nat /\ Top.s <= Top.s + 1 /\ Top.p + 4 \in Nat
  BY <1>2
<1>4. CASE Leave(Failed)
  BY <1>1, <1>4, LeaveKeeps
<1>5. CASE Again(Top.s + 1, Top.p + 4)
  BY <1>1, <1>3, <1>5, AgainKeeps
<1>6. CASE Top.i # 1 /\ Scanning(Top.s + 1, Top.i - 1)
  <2>1. Top.i - 1 \in Nat /\ Top.i - 1 > 0
    BY <1>2, <1>6
  <2> QED
    BY <2>1, <1>1, <1>3, <1>6, ScanningKeeps
<1>7. ASSUME NEW i \in {Top.i, Top.i + 1}, Scanning(Top.s + 1, i) PROVE StackInv'
  <2>1. i \in Nat /\ i > 0
    BY <1>2
  <2> QED
    BY <2>1, <1>1, <1>3, <1>7, ScanningKeeps
<1> QED
  BY <1>4, <1>5, <1>6, <1>7 DEF Scan

LEMMA FrontierKeeps == IInv /\ Frontier => StackInv'
<1> SUFFICES ASSUME IInv, Frontier PROVE StackInv'
  OBVIOUS
<1>1. Looping
  BY DEF Frontier, AtEscape, AtChar
<1>2. /\ StackInv /\ calls # <<>> /\ Plain(Top) /\ result < 0
      /\ Top.s \in Nat /\ Top.p \in Nat /\ Len(pat) \in Nat
  BY <1>1, LoopFacts
<1>3. CASE Fail("missing [ after %f")
  BY <1>2, <1>3, FailKeeps
<1>4. CASE Leave(Failed) /\ SameCaptures
  BY <1>2, <1>4, LeaveKeeps
<1>5. CASE Again(Top.s, ItemEnd(Top.p + 2)) /\ SameCaptures
  <2>1. Top.p + 2 \in Nat /\ Top.s <= Top.s
    BY <1>2
  <2>2. ItemEnd(Top.p + 2) \in Nat
    BY <2>1, <1>2, ItemEndType
  <2> QED
    BY <2>1, <2>2, <1>2, <1>5, AgainKeeps
<1> QED
  BY <1>3, <1>4, <1>5 DEF Frontier

LEMMA BackReferenceKeeps == IInv /\ BackReference => StackInv'
<1> SUFFICES ASSUME IInv, BackReference PROVE StackInv'
  OBVIOUS
<1>1. Looping
  BY DEF BackReference, AtEscape, AtChar
<1>2. /\ StackInv /\ calls # <<>> /\ Plain(Top) /\ result < 0
      /\ Top.s \in Nat /\ Top.p \in Nat /\ Top.p + 2 \in Nat /\ Top.s <= Top.s
  BY <1>1, LoopFacts
<1> DEFINE l == DigitOf(Pat(Top.p + 1)) - 1
<1>3. CASE l \notin Usable
  <2>1. Fail("invalid capture index")
    BY <1>3 DEF BackReference
  <2> QED
    BY <2>1, <1>2, FailKeeps
<1>4. CASE l \in Usable
  <2>1. SameCaptures
    BY <1>4 DEF BackReference
  <2>2. \/ Again(Top.s, Top.p + 2)
        \/ captures[l].len # CapPosition /\ Again(Top.s + captures[l].len, Top.p + 2)
        \/ Leave(Failed)
    BY <1>4 DEF BackReference
  <2> HIDE DEF l
  <2>3. CASE Again(Top.s, Top.p + 2)
    BY <2>1, <2>3, <1>2, AgainKeeps
  <2>4. CASE captures[l].len # CapPosition /\ Again(Top.s + captures[l].len, Top.p + 2)
    <3>1. l \in 0 .. level - 1 /\ captures[l].len # CapUnfinished
      BY <1>4 DEF Usable
    <3>2. l \in 0 .. MaxCaptures - 1
      BY <3>1, <1>2, StringAssumption DEF StackInv
    <3>3. captures[l] \in CaptureSet
      BY <3>2, <1>2 DEF StackInv
    <3>4. captures[l].len \in Nat
      BY <3>1, <3>3, <2>4 DEF CaptureSet
    <3>5. Top.s + captures[l].len \in Nat /\ Top.s <= Top.s + captures[l].len
      BY <3>4, <1>2
    <3> QED
      BY <3>5, <2>1, <2>4, <1>2, AgainKeeps
  <2>5. CASE Leave(Failed)
    BY <2>1, <2>5, <1>2, LeaveKeeps
  <2> QED
    BY <2>2, <2>3, <2>4, <2>5
<1> QED
  BY <1>3, <1>4

LEMMA ItemFailsKeeps == IInv /\ ItemFails => StackInv'
<1> SUFFICES ASSUME IInv, ItemFails PROVE StackInv'
  OBVIOUS
<1>1. Looping /\ SameCaptures
  BY DEF ItemFails, AtItem
<1>2. /\ StackInv /\ calls # <<>> /\ Plain(Top) /\ result < 0
      /\ Top.s \in Nat /\ Top.p \in Nat /\ Len(pat) \in Nat /\ Top.s <= Top.s
  BY <1>1, LoopFacts
<1>3. ItemEnd(Top.p) + 1 \in Nat
  <2>1. ItemEnd(Top.p) \in Nat
    BY <1>2, ItemEndType
  <2> QED
    BY <2>1
<1>4. CASE Again(Top.s, ItemEnd(Top.p) + 1)
  BY <1>1, <1>2, <1>3, <1>4, AgainKeeps
<1>5. CASE Leave(Failed)
  BY <1>1, <1>2, <1>5, LeaveKeeps
<1> QED
  BY <1>4, <1>5 DEF ItemFails

\* An activation that is in the helper `why', which is not one of captures.
LEMMA WaitingFrame ==
    ASSUME NEW why \in Waits \ {"start", "end", "scan"},
           NEW s \in Nat, NEW p \in Nat, NEW ep \in Nat, NEW i \in Nat
    PROVE  /\ Waiting(why, s, p, ep, i) \in Frame
           /\ Waiting(why, s, p, ep, i).s = s
           /\ Plain(Waiting(why, s, p, ep, i))
BY DEF Waiting, Frame, Plain, Waits

LEMMA WaitsKeeps ==
    ASSUME StackInv, calls # <<>>, Plain(Top), result < 0, SameCaptures,
           NEW why \in Waits \ {"start", "end", "scan"},
           NEW t \in Nat, NEW q \in Nat, NEW ep \in Nat, NEW i \in Nat, Top.s <= t,
           NEW s \in Nat, NEW p \in Nat, t <= s,
           Enter(Append(Below, Waiting(why, t, q, ep, i)), s, p)
    PROVE  StackInv'
<1> DEFINE f == Waiting(why, t, q, ep, i)
<1>1. f \in Frame /\ f.s = t /\ Plain(f)
  BY WaitingFrame
<1>2. Enter(Append(Below, f), s, p)
  OBVIOUS
<1> HIDE DEF f
<1> QED
  BY <1>1, <1>2, DeeperKeeps

LEMMA ItemMatchesKeeps == IInv /\ ItemMatches => StackInv'
<1> SUFFICES ASSUME IInv, ItemMatches PROVE StackInv'
  OBVIOUS
<1> DEFINE s  == Top.s
           p  == Top.p
           ep == ItemEnd(p)
           n  == Repetitions(s, p, ep)
<1>1. Looping /\ SameCaptures /\ SingleMatch(s, p, ep)
  BY DEF ItemMatches, AtItem
<1>2. /\ StackInv /\ calls # <<>> /\ Plain(Top) /\ result < 0
      /\ s \in Nat /\ p \in Nat /\ Len(pat) \in Nat /\ Len(src) \in Nat
  BY <1>1, LoopFacts
<1>3. ep \in Nat
  BY <1>2, ItemEndType
<1>4. \/ Enter(Append(Below, Waiting("opt", s, p, ep, 0)), s + 1, ep + 1)
      \/ Enter(Append(Below, Waiting("max", s, p, ep, n)), s + n, ep + 1)
      \/ Enter(Append(Below, Waiting("max", s + 1, p, ep, n - 1)), s + n, ep + 1)
      \/ Enter(Append(Below, Waiting("min", s, p, ep, 0)), s, ep + 1)
      \/ Again(s + 1, ep)
  BY DEF ItemMatches, Deeper
<1> HIDE DEF ep
<1>5. n \in Nat /\ n > 0
  BY <1>1, <1>2, RepetitionsType
<1> HIDE DEF n, s, p
<1>6. /\ s + 1 \in Nat /\ ep + 1 \in Nat /\ s + n \in Nat /\ n - 1 \in Nat
      /\ s <= s /\ s <= s + 1 /\ s <= s + n /\ s + 1 <= s + n /\ 0 \in Nat
  BY <1>2, <1>3, <1>5
<1>7. Top.s <= s /\ Top.s <= s + 1
  BY <1>6 DEF s
<1>8. "opt" \in Waits \ {"start", "end", "scan"} /\ "max" \in Waits \ {"start", "end", "scan"}
      /\ "min" \in Waits \ {"start", "end", "scan"}
  BY DEF Waits
<1>9. CASE Enter(Append(Below, Waiting("opt", s, p, ep, 0)), s + 1, ep + 1)
  BY <1>1, <1>2, <1>3, <1>6, <1>7, <1>8, <1>9, WaitsKeeps
<1>10. CASE Enter(Append(Below, Waiting("max", s, p, ep, n)), s + n, ep + 1)
  BY <1>1, <1>2, <1>3, <1>5, <1>6, <1>7, <1>8, <1>10, WaitsKeeps
<1>11. CASE Enter(Append(Below, Waiting("max", s + 1, p, ep, n - 1)), s + n, ep + 1)
  BY <1>1, <1>2, <1>3, <1>6, <1>7, <1>8, <1>11, WaitsKeeps
<1>12. CASE Enter(Append(Below, Waiting("min", s, p, ep, 0)), s, ep + 1)
  BY <1>1, <1>2, <1>3, <1>6, <1>7, <1>8, <1>12, WaitsKeeps
<1>13. CASE Again(s + 1, ep)
  BY <1>1, <1>2, <1>3, <1>6, <1>7, <1>13, AgainKeeps
<1> QED
  BY <1>4, <1>9, <1>10, <1>11, <1>12, <1>13

LEMMA StartCaptureKeeps == IInv /\ StartCapture => StackInv'
<1> SUFFICES ASSUME IInv, StartCapture PROVE StackInv'
  OBVIOUS
<1> DEFINE what == IF Follows(Top.p + 1, ")") THEN CapPosition ELSE CapUnfinished
           next == IF Follows(Top.p + 1, ")") THEN Top.p + 2 ELSE Top.p + 1
           f    == Waiting("start", Top.s, Top.p, 0, level)
           cs   == Append(Below, f)
           cq   == [captures EXCEPT ![level] = [init |-> Top.s, len |-> what]]
<1>1. Looping
  BY DEF StartCapture, AtChar
<1>2. /\ StackInv /\ calls # <<>> /\ Plain(Top) /\ result < 0
      /\ Top.s \in Nat /\ Top.p \in Nat
  BY <1>1, LoopFacts
<1>3. CASE level >= MaxCaptures
  <2>1. Fail("too many captures")
    BY <1>3 DEF StartCapture
  <2> QED
    BY <2>1, <1>2, FailKeeps
<1>4. CASE ~(level >= MaxCaptures)
  <2>1. level \in 0 .. MaxCaptures - 1 /\ level + 1 \in 0 .. MaxCaptures /\ level \in Nat
    BY <1>2, <1>4, StringAssumption DEF StackInv
  <2>2. captures' = cq /\ level' = level + 1 /\ Enter(cs, Top.s, next)
    BY <1>4 DEF StartCapture, Deeper
  <2>3. next \in Nat /\ what \in {CapUnfinished, CapPosition}
    BY <1>2
  <2>4. f \in Frame /\ f.waits = "start" /\ f.s = Top.s /\ f.i = level
    BY <2>1, <1>2 DEF Waiting, Frame, Waits
  <2>5. cq \in [0 .. MaxCaptures - 1 -> CaptureSet]
    <3>1. [init |-> Top.s, len |-> what] \in CaptureSet
      BY <2>3, <1>2 DEF CaptureSet
    <3>2. captures \in [0 .. MaxCaptures - 1 -> CaptureSet]
      BY <1>2 DEF StackInv
    <3> HIDE DEF what
    <3> QED
      BY <3>1, <3>2
  <2> HIDE DEF next, what, f
  <2>6. Book(cs, level + 1, [captures EXCEPT ![level] = [init |-> f.s, len |-> what]])
    <3>1. Below \in Seq(Frame) /\ Book(Below, level, captures)
      BY <1>2, TopFrame, Fronts, PlainPop DEF StackInv, Top
    <3>2. captures \in [0 .. MaxCaptures - 1 -> CaptureSet]
      BY <1>2 DEF StackInv
    <3> QED
      BY <3>1, <3>2, <2>1, <2>3, <2>4, StartPush
  <2>7. Book(cs, level', captures')
    BY <2>2, <2>4, <2>6
  <2>8. /\ cs \in Seq(Frame) /\ cs # <<>> /\ Ascending(cs)
        /\ Len(cs) = Len(calls)
        /\ cs[Len(cs)].s = Top.s
    BY <2>4, <1>2, Restacked
  <2>9. depth = MaxRecDepth - Len(cs)
    BY <2>8, <1>2 DEF StackInv
  <2>10. cs[Len(cs)].s <= Top.s
    BY <2>8, <1>2
  <2>11. level' \in 0 .. MaxCaptures /\ captures' \in [0 .. MaxCaptures - 1 -> CaptureSet]
    BY <2>1, <2>2, <2>5
  <2> HIDE DEF cs
  <2> QED
    BY <1>2, <2>2, <2>3, <2>7, <2>8, <2>9, <2>10, <2>11, EnterKeeps
<1> QED
  BY <1>3, <1>4

LEMMA EndCaptureKeeps == IInv /\ EndCapture => StackInv'
<1> SUFFICES ASSUME IInv, EndCapture PROVE StackInv'
  OBVIOUS
<1>1. Looping
  BY DEF EndCapture, AtChar
<1>2. /\ StackInv /\ calls # <<>> /\ Plain(Top) /\ result < 0
      /\ Top.s \in Nat /\ Top.p \in Nat
  BY <1>1, LoopFacts
<1>3. CASE OpenCaptures = {}
  <2>1. Fail("invalid pattern capture")
    BY <1>3 DEF EndCapture
  <2> QED
    BY <2>1, <1>2, FailKeeps
<1>4. CASE OpenCaptures # {}
  <2> DEFINE l      == LastOpen
             length == Top.s - captures[l].init
             f      == Waiting("end", Top.s, Top.p, 0, l)
             cs     == Append(Below, f)
             cq     == [captures EXCEPT ![l].len = length]
  <2>1. level \in Nat /\ level \in 0 .. MaxCaptures
    BY <1>2, StringAssumption DEF StackInv
  <2>2. l \in 0 .. level - 1 /\ captures[l].len = CapUnfinished
    BY <1>4, <2>1, LastOpenIsOpen
  <2>3. captures' = cq /\ level' = level /\ Enter(cs, Top.s, Top.p + 1)
    BY <1>4 DEF EndCapture, Deeper
  <2> HIDE DEF l
  <2>4. l \in 0 .. MaxCaptures - 1 /\ l \in Nat /\ Top.p + 1 \in Nat
    BY <2>1, <2>2, <1>2, StringAssumption
  <2>5. f \in Frame /\ f.waits = "end" /\ f.s = Top.s /\ f.i = l
    BY <2>4, <1>2 DEF Waiting, Frame, Waits
  <2>6. length \in Nat
    <3>1. PICK k \in StartsOf(calls) : calls[k].i = l
      BY <2>2, <1>2 DEF StackInv, Book
    <3>2. captures[l].init = calls[k].s
      BY <3>1, <1>2 DEF StackInv, Book, Agrees
    <3>3. k \in 1 .. Len(calls) /\ Len(calls) \in 1 .. Len(calls) /\ k <= Len(calls)
      BY <1>2, EmptySeq DEF StartsOf, StackInv
    <3>4. calls[k].s <= Top.s
      BY <3>3, <1>2 DEF StackInv, Ascending, Top
    <3>5. calls[k].s \in Nat
      <4>1. calls[k] \in Frame
        BY <3>3, <1>2, ElementOfSeq DEF StackInv
      <4> QED
        BY <4>1 DEF Frame
    <3> QED
      BY <3>2, <3>4, <3>5, <1>2
  <2>7. captures \in [0 .. MaxCaptures - 1 -> CaptureSet]
    BY <1>2 DEF StackInv
  <2> HIDE DEF length, f
  <2>8. cq \in [0 .. MaxCaptures - 1 -> CaptureSet]
    BY <2>4, <2>6, <2>7 DEF CaptureSet
  <2>9. Book(cs, level, [captures EXCEPT ![f.i].len = length])
    <3>1. Below \in Seq(Frame) /\ Book(Below, level, captures)
      BY <1>2, TopFrame, Fronts, PlainPop DEF StackInv, Top
    <3>2. f.i \in 0 .. level - 1 /\ captures[f.i].len = CapUnfinished
      BY <2>2, <2>5
    <3> QED
      BY <3>1, <3>2, <2>1, <2>5, <2>6, <2>7, EndPush
  <2>10. Book(cs, level', captures')
    BY <2>3, <2>5, <2>9
  <2>11. /\ cs \in Seq(Frame) /\ cs # <<>> /\ Ascending(cs)
         /\ Len(cs) = Len(calls)
         /\ cs[Len(cs)].s = Top.s
    BY <2>5, <1>2, Restacked
  <2>12. depth = MaxRecDepth - Len(cs)
    BY <2>11, <1>2 DEF StackInv
  <2>13. cs[Len(cs)].s <= Top.s
    BY <2>11, <1>2
  <2>14. level' \in 0 .. MaxCaptures /\ captures' \in [0 .. MaxCaptures - 1 -> CaptureSet]
    BY <2>1, <2>3, <2>8
  <2> HIDE DEF cs
  <2> QED
    BY <1>2, <2>3, <2>4, <2>10, <2>11, <2>12, <2>13, <2>14, EnterKeeps
<1> QED
  BY <1>3, <1>4

LEMMA BackFacts ==
    ASSUME IInv, NEW why, Back(why)
    PROVE  /\ StackInv /\ calls # <<>> /\ Top.waits = why
           /\ Top.s \in Nat /\ Top.p \in Nat /\ Top.ep \in Nat /\ Top.i \in Nat
           /\ result \in {Failed} \cup Nat
           /\ Matched \/ (~Matched /\ result = Failed /\ result < 0)
<1>1. StackInv /\ calls # <<>> /\ Top.waits = why /\ result # Running
  BY DEF IInv, Back
<1>2. result \in {Failed} \cup Nat
  BY <1>1 DEF StackInv
<1>3. Matched \/ (~Matched /\ result = Failed /\ result < 0)
  BY <1>2 DEF Matched, Failed
<1> QED
  BY <1>1, <1>2, <1>3, TopFrame DEF StackInv

LEMMA BackInStartCaptureKeeps == IInv /\ BackInStartCapture => StackInv'
<1> SUFFICES ASSUME IInv, BackInStartCapture PROVE StackInv'
  OBVIOUS
<1>1. Back("start") /\ Leave(result) /\ captures' = captures
  BY DEF BackInStartCapture, HandOn
<1>2. /\ StackInv /\ calls # <<>> /\ Top.waits = "start"
      /\ result \in {Failed} \cup Nat
      /\ Matched \/ (~Matched /\ result = Failed /\ result < 0)
  BY <1>1, BackFacts
<1>3. CASE Matched
  <2>1. SameCaptures /\ result >= 0
    BY <1>1, <1>3 DEF BackInStartCapture, SameCaptures, Matched
  <2> QED
    BY <2>1, <1>1, <1>2, MatchedKeeps
<1>4. CASE ~Matched /\ result = Failed /\ result < 0
  <2>1. level' = level - 1 /\ result' = Failed
    BY <1>1, <1>4 DEF BackInStartCapture, Leave
  <2>2. /\ calls' = Front(calls)
        /\ calls' \in Seq(Frame)
        /\ Ascending(calls)'
        /\ depth' = MaxRecDepth - Len(calls')
    BY <1>1, <1>2, Left
  <2>3. level \in Nat /\ level \in 0 .. MaxCaptures /\ calls \in Seq(Frame)
        /\ Book(calls, level, captures)
    BY <1>2, <1>4, StringAssumption DEF StackInv
  <2>4. level > 0 /\ Book(Front(calls), level - 1, captures)
    BY <2>3, <1>2, StartPop DEF Top
  <2>5. Book(calls', level', captures')
    BY <2>1, <2>2, <2>4, <1>1
  <2>6. level' \in 0 .. MaxCaptures
    BY <2>1, <2>3, <2>4, StringAssumption
  <2>7. captures' \in [0 .. MaxCaptures - 1 -> CaptureSet]
    BY <1>1, <1>2 DEF StackInv
  <2> QED
    BY <2>1, <2>2, <2>5, <2>6, <2>7 DEF StackInv
<1> QED
  BY <1>2, <1>3, <1>4

LEMMA BackInEndCaptureKeeps == IInv /\ BackInEndCapture => StackInv'
<1> SUFFICES ASSUME IInv, BackInEndCapture PROVE StackInv'
  OBVIOUS
<1>1. Back("end") /\ Leave(result) /\ level' = level
  BY DEF BackInEndCapture, HandOn
<1>2. /\ StackInv /\ calls # <<>> /\ Top.waits = "end"
      /\ result \in {Failed} \cup Nat
      /\ Matched \/ (~Matched /\ result = Failed /\ result < 0)
  BY <1>1, BackFacts
<1>3. CASE Matched
  <2>1. SameCaptures /\ result >= 0
    BY <1>1, <1>3 DEF BackInEndCapture, SameCaptures, Matched
  <2> QED
    BY <2>1, <1>1, <1>2, MatchedKeeps
<1>4. CASE ~Matched /\ result = Failed /\ result < 0
  <2> DEFINE l  == Top.i
             cq == [captures EXCEPT ![l].len = CapUnfinished]
  <2>1. captures' = cq /\ result' = Failed
    BY <1>1, <1>4 DEF BackInEndCapture, Leave
  <2>2. /\ calls' = Front(calls)
        /\ calls' \in Seq(Frame)
        /\ Ascending(calls)'
        /\ depth' = MaxRecDepth - Len(calls')
    BY <1>1, <1>2, Left
  <2>3. /\ level \in 0 .. MaxCaptures /\ calls \in Seq(Frame)
        /\ captures \in [0 .. MaxCaptures - 1 -> CaptureSet]
        /\ Book(calls, level, captures)
    BY <1>2, <1>4 DEF StackInv
  <2>4. Book(Front(calls), level, [captures EXCEPT ![calls[Len(calls)].i].len = CapUnfinished])
    BY <2>3, <1>2, EndPop DEF Top
  <2>5. cq = [captures EXCEPT ![calls[Len(calls)].i].len = CapUnfinished]
    BY DEF Top
  <2>6. l \in 0 .. MaxCaptures - 1
    <3>1. Len(calls) \in EndsOf(calls)
      BY <1>2, <2>3, EmptySeq DEF EndsOf, Top
    <3>2. l \in 0 .. level - 1
      BY <3>1, <2>3 DEF Book, Top
    <3> QED
      BY <3>2, <2>3, StringAssumption
  <2> HIDE DEF l
  <2>7. cq \in [0 .. MaxCaptures - 1 -> CaptureSet]
    BY <2>3, <2>6 DEF CaptureSet
  <2> HIDE DEF cq
  <2>8. Book(calls', level', captures')
    BY <2>1, <2>2, <2>4, <2>5, <1>1
  <2> QED
    BY <2>1, <2>2, <2>3, <2>7, <2>8, <1>1 DEF StackInv
<1> QED
  BY <1>2, <1>3, <1>4

LEMMA BackInOptionKeeps == IInv /\ BackInOption => StackInv'
<1> SUFFICES ASSUME IInv, BackInOption PROVE StackInv'
  OBVIOUS
<1>1. Back("opt") /\ SameCaptures
  BY DEF BackInOption
<1>2. /\ StackInv /\ calls # <<>> /\ Plain(Top)
      /\ Top.s \in Nat /\ Top.ep \in Nat
      /\ result \in {Failed} \cup Nat
      /\ Matched \/ (~Matched /\ result < 0)
  BY <1>1, BackFacts DEF Plain
<1>3. CASE Matched
  <2>1. Leave(result)
    BY <1>3 DEF BackInOption, HandOn
  <2> QED
    BY <2>1, <1>1, <1>2, LeaveKeeps
<1>4. CASE ~Matched /\ result < 0
  <2>1. Again(Top.s, Top.ep + 1)
    BY <1>4 DEF BackInOption
  <2>2. Top.ep + 1 \in Nat /\ Top.s <= Top.s
    BY <1>2
  <2> QED
    BY <2>1, <2>2, <1>1, <1>2, <1>4, AgainKeeps
<1> QED
  BY <1>2, <1>3, <1>4

LEMMA BackInMaxExpandKeeps == IInv /\ BackInMaxExpand => StackInv'
<1> SUFFICES ASSUME IInv, BackInMaxExpand PROVE StackInv'
  OBVIOUS
<1>1. Back("max") /\ SameCaptures
  BY DEF BackInMaxExpand
<1>2. /\ StackInv /\ calls # <<>> /\ Plain(Top)
      /\ Top.s \in Nat /\ Top.p \in Nat /\ Top.ep \in Nat /\ Top.i \in Nat
      /\ result \in {Failed} \cup Nat
      /\ Matched \/ (~Matched /\ result < 0)
  BY <1>1, BackFacts DEF Plain
<1>3. CASE Matched \/ Top.i = 0
  <2>1. Leave(result)
    BY <1>3 DEF BackInMaxExpand, HandOn
  <2> QED
    BY <2>1, <1>1, <1>2, LeaveKeeps
<1>4. CASE ~Matched /\ result < 0 /\ Top.i # 0
  <2>1. Enter(Append(Below, Waiting("max", Top.s, Top.p, Top.ep, Top.i - 1)),
              Top.s + Top.i - 1, Top.ep + 1)
    BY <1>4 DEF BackInMaxExpand, Deeper
  <2>2. /\ Top.i - 1 \in Nat /\ Top.s + Top.i - 1 \in Nat /\ Top.ep + 1 \in Nat
        /\ Top.s <= Top.s /\ Top.s <= Top.s + Top.i - 1
    BY <1>2, <1>4
  <2>3. "max" \in Waits \ {"start", "end", "scan"}
    BY DEF Waits
  <2> QED
    BY <2>1, <2>2, <2>3, <1>1, <1>2, <1>4, WaitsKeeps
<1> QED
  BY <1>2, <1>3, <1>4

LEMMA BackInMinExpandKeeps == IInv /\ BackInMinExpand => StackInv'
<1> SUFFICES ASSUME IInv, BackInMinExpand PROVE StackInv'
  OBVIOUS
<1>1. Back("min") /\ SameCaptures
  BY DEF BackInMinExpand
<1>2. /\ StackInv /\ calls # <<>> /\ Plain(Top)
      /\ Top.s \in Nat /\ Top.p \in Nat /\ Top.ep \in Nat
      /\ result \in {Failed} \cup Nat
      /\ Matched \/ (~Matched /\ result < 0)
  BY <1>1, BackFacts DEF Plain
<1>3. CASE Leave(result)
  BY <1>1, <1>2, <1>3, LeaveKeeps
<1>4. CASE /\ ~Matched /\ result < 0
           /\ Enter(Append(Below, Waiting("min", Top.s + 1, Top.p, Top.ep, 0)),
                    Top.s + 1, Top.ep + 1)
  <2>1. /\ Top.s + 1 \in Nat /\ Top.ep + 1 \in Nat /\ 0 \in Nat
        /\ Top.s <= Top.s + 1 /\ Top.s + 1 <= Top.s + 1
    BY <1>2
  <2>2. "min" \in Waits \ {"start", "end", "scan"}
    BY DEF Waits
  <2> QED
    BY <2>1, <2>2, <1>1, <1>2, <1>4, WaitsKeeps
<1> QED
  BY <1>2, <1>3, <1>4 DEF BackInMinExpand, HandOn

-----------------------------------------------------------------------------
(* The theorem *)

LEMMA MatchKeeps == IInv /\ DoMatch => StackInv'
BY PatternEndsKeeps, StartCaptureKeeps, EndCaptureKeeps, EndAnchorKeeps, BalanceKeeps,
   ScanKeeps, FrontierKeeps, BackReferenceKeeps, ItemFailsKeeps, ItemMatchesKeeps,
   BackInStartCaptureKeeps, BackInEndCaptureKeeps, BackInOptionKeeps,
   BackInMaxExpandKeeps, BackInMinExpandKeeps
DEF DoMatch

LEMMA EmptyBook ==
    ASSUME NEW cs, \A k \in 1 .. Len(cs) : Plain(cs[k]), NEW cp
    PROVE  Book(cs, 0, cp)
<1>1. StartsOf(cs) = {} /\ EndsOf(cs) = {}
  BY DEF StartsOf, EndsOf, Plain
<1> QED
  BY <1>1 DEF Book

LEMMA RestartKeeps == ASSUME IInv, Restart(pos) PROVE StackInv'
<1> DEFINE f  == AtLoop(pos, 0)
           cs == <<f>>
<1>1. f \in Frame /\ Plain(f)
  BY DEF IInv, AtLoop, Frame, Waits, Plain
<1>2. /\ level' = 0 /\ depth' = MaxRecDepth - 1 /\ calls' = cs
      /\ result' = Running /\ captures' = captures
  BY DEF Restart
<1> HIDE DEF f
<1>3. cs \in Seq(Frame) /\ Len(cs) = 1 /\ cs[1] = f
  BY <1>1
<1>4. f.s \in Nat
  BY <1>1 DEF Frame
<1> HIDE DEF cs
<1>5. Ascending(cs)
  BY <1>3, <1>4 DEF Ascending
<1>6. Book(cs, 0, captures)
  BY <1>1, <1>3, EmptyBook
<1>7. 0 \in 0 .. MaxCaptures
  BY StringAssumption
<1> QED
  BY <1>2, <1>3, <1>5, <1>6, <1>7 DEF IInv, StackInv

LEMMA InitHolds == StringInit => IInv
<1> SUFFICES ASSUME StringInit PROVE IInv
  OBVIOUS
<1>1. /\ call.subject \in Seq(STRING) /\ call.pattern \in Seq(STRING) /\ call.init \in Int
  BY StringAssumption DEF StringInit
<1>2. src \in Seq(STRING)
  BY <1>1 DEF StringInit
<1>3. pat \in Seq(STRING)
  <2>1. Anchored(call) => Tail(call.pattern) \in Seq(STRING)
    BY <1>1, HeadTailProperties DEF Anchored
  <2> QED
    BY <2>1, <1>1 DEF StringInit
<1>4. pos \in Nat
  <2>1. Len(call.subject) \in Nat
    BY <1>1, LenProperties
  <2>2. PosRelat(call.init, Len(call.subject)) \in Nat
    BY <2>1, <1>1 DEF PosRelat
  <2>3. At1(PosRelat(call.init, Len(call.subject))) - 1 \in Nat
    BY <2>2 DEF At1
  <2> QED
    BY <2>3 DEF StringInit
<1>5. StackInv
  <2>1. /\ level = 0 /\ depth = MaxRecDepth /\ calls = <<>> /\ result = Running
        /\ captures = [l \in 0 .. MaxCaptures - 1 |-> [init |-> 0, len |-> 0]]
    BY DEF StringInit, MatchInit
  <2>2. calls \in Seq(Frame) /\ Len(calls) = 0
    BY <2>1
  <2>3. Ascending(calls) /\ depth = MaxRecDepth - Len(calls)
    BY <2>1, <2>2, StringAssumption DEF Ascending
  <2>4. captures \in [0 .. MaxCaptures - 1 -> CaptureSet]
    BY <2>1 DEF CaptureSet
  <2>5. Book(calls, level, captures)
    BY <2>1, <2>2, EmptyBook
  <2>6. level \in 0 .. MaxCaptures
    BY <2>1, StringAssumption
  <2> QED
    BY <2>1, <2>2, <2>3, <2>4, <2>5, <2>6 DEF StackInv
<1> QED
  BY <1>2, <1>3, <1>4, <1>5 DEF IInv

LEMMA UnchangedKeeps ==
    ASSUME IInv, UNCHANGED msVars
    PROVE  StackInv'
BY DEF IInv, StackInv, msVars

\* Where the next match is tried.
LEMMA PositionKeeps ==
    ASSUME IInv, StringNext
    PROVE  pos' \in Nat /\ src' = src /\ pat' = pat
<1>1. pos \in Nat /\ pos + 1 \in Nat /\ (Matched => result \in Nat /\ result + 1 \in Nat)
  BY DEF IInv, StackInv, Matched, Running, Failed
<1>2. src' = src /\ pat' = pat
  BY DEF StringNext, Simple, FindPlain, FindTry, FindFails, FindMatched, GmatchTry,
     GmatchMatched, GsubTry, GsubMatched, Matching, MatchStep, SameCall, Restart
<1>3. pos' \in Nat
  <2>1. ASSUME NEW text, GsubAdvance(text) PROVE pos' \in Nat
    BY <1>1, <2>1 DEF GsubAdvance
  <2>2. CASE UNCHANGED pos
    BY <1>1, <2>2
  <2>3. CASE GsubMatched
    BY <1>1, <2>1, <2>3 DEF GsubMatched
  <2>4. CASE GmatchMatched
    BY <1>1, <2>4 DEF GmatchMatched, GmatchNext
  <2>5. CASE FindMatched
    BY <1>1, <2>5 DEF FindMatched
  <2>6. UNCHANGED pos \/ GsubMatched \/ GmatchMatched \/ FindMatched
    BY DEF StringNext, Simple, FindPlain, FindTry, FindFails, GmatchTry, GsubTry, Matching
  <2> QED
    BY <2>2, <2>3, <2>4, <2>5, <2>6
<1> QED
  BY <1>2, <1>3

LEMMA NextKeeps == IInv /\ [StringNext]_stringVars => IInv'
<1> SUFFICES ASSUME IInv, [StringNext]_stringVars PROVE IInv'
  OBVIOUS
<1>1. CASE UNCHANGED stringVars
  BY <1>1 DEF stringVars, matchVars, msVars, IInv, StackInv
<1>2. CASE StringNext
  <2>1. pos' \in Nat /\ src' = src /\ pat' = pat
    BY <1>2, PositionKeeps
  <2>2. UNCHANGED msVars \/ Restart(pos) \/ DoMatch
    BY <1>2 DEF StringNext, Simple, FindPlain, FindTry, FindFails, FindMatched, GmatchTry,
       GmatchMatched, GsubTry, GsubMatched, Matching, MatchStep, SameMatch
  <2>3. StackInv'
    BY <2>2, UnchangedKeeps, RestartKeeps, MatchKeeps
  <2> QED
    BY <2>1, <2>3 DEF IInv
<1> QED
  BY <1>1, <1>2

LEMMA BookMeans == IInv => CapturesFollowCalls
<1> SUFFICES ASSUME IInv, result < 0 PROVE CapturesFollowCalls
  BY DEF CapturesFollowCalls
<1>1. Book(calls, level, captures) /\ depth = MaxRecDepth - Len(calls)
  BY DEF IInv, StackInv
<1>2. DOMAIN calls = 1 .. Len(calls)
  BY LenProperties DEF IInv, StackInv
<1>3. Starts = StartsOf(calls) /\ Ends = EndsOf(calls)
  BY <1>2 DEF Starts, Ends, StartsOf, EndsOf
<1>4. {calls[k].i : k \in Starts} = 0 .. level - 1
  BY <1>1, <1>3 DEF Book
<1> QED
  BY <1>1, <1>3, <1>4 DEF Book, Agrees, CapturesFollowCalls

\* The captures are those of the alternative being tried, and the depth that is
\* left is what the activations have not used, for every call of find, match,
\* gmatch and gsub, every pattern and every bound.
THEOREM CapturesAlwaysFollow == StringSpec => []CapturesFollowCalls
<1>1. StringInit => IInv
  BY InitHolds
<1>2. IInv /\ [StringNext]_stringVars => IInv'
  BY NextKeeps
<1>3. IInv => CapturesFollowCalls
  BY BookMeans
<1> QED
  BY <1>1, <1>2, <1>3, PTL DEF StringSpec
=============================================================================
