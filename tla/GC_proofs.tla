----------------------------- MODULE GC_proofs -----------------------------
(***************************************************************************)
(* Theorems about GC for every finite heap, every assignment of kinds and  *)
(* every bound.  TypeInv adds to the types that references lead to objects *)
(* that were allocated and that the resume chain consists of threads.      *)
(* ColourInv says what the lists and the sweep cursor mean for the colour  *)
(* of each object; with it, BarriersHold is inductive.  HeapInv adds what  *)
(* is alive and where everything that waits may be, LiveInv what a cycle   *)
(* that loses nothing has marked, CycleInv what a full one may have marked *)
(* at all.                                                                 *)
(***************************************************************************)
EXTENDS GC, Lemmas, FiniteSetTheorems, TLAPS

TypeInv ==
    /\ TypeOK
    /\ {MainThread, Registry} \subseteq born
    /\ \A o \in Heap : refs[o] \subseteq born
    /\ \A o \in Heap : slot[o] \in born \cup {NoObject}
    /\ gray \subseteq born /\ grayAgain \subseteq born
    /\ \A i \in 1 .. Len(chain) : chain[i] \in born /\ kind[chain[i]] = "thread"

LEMMA TypeInit == Init => TypeInv
<1> SUFFICES ASSUME Init PROVE TypeInv
  OBVIOUS
<1> USE HeapAssumption, MixAssumption, ColourAssumption DEF Init, Heap
<1>1. kind \in [Heap -> Kinds] /\ kind[MainThread] = "thread"
  BY DEF Kinds
<1>2. chain \in Seq(Heap) /\ chain # <<>> /\ Len(chain) = 1
      /\ chain[1] = MainThread
  OBVIOUS
<1>3. TypeOK
  BY <1>1, <1>2 DEF TypeOK, Marking
<1> QED
  BY <1>1, <1>2, <1>3 DEF TypeInv

\* The running thread is an allocated thread, and no table.
LEMMA RunningThread ==
    TypeInv => /\ Running \in born /\ Running \in Heap
               /\ kind[Running] = "thread"
               /\ Locals \subseteq born
<1> SUFFICES ASSUME TypeInv
             PROVE  /\ Running \in born /\ Running \in Heap
                    /\ kind[Running] = "thread"
                    /\ Locals \subseteq born
  OBVIOUS
<1>1. chain \in Seq(Heap) /\ chain # <<>>
  BY DEF TypeInv, TypeOK
<1>2. Len(chain) \in 1 .. Len(chain)
  BY <1>1
<1>3. Running = chain[Len(chain)]
  BY DEF Running, Last
<1> QED
  BY <1>2, <1>3 DEF TypeInv, TypeOK, Locals

LEMMA OtherWhiteType == white \in Whites => OtherWhite \in Whites \ {white}
BY ColourAssumption DEF OtherWhite

LEMMA CutBehindType ==
    ASSUME NEW S, NEW list \in Seq(S), NEW t
    PROVE  CutBehind(list, t) \in Seq(S)
<1>1. CASE Contains(list, t)
  <2>1. PICK i \in 1 .. Len(list) : list[i] = t
    BY <1>1 DEF Contains
  <2>2. (CHOOSE j \in 1 .. Len(list) : list[j] = t) \in 1 .. Len(list)
    BY <2>1
  <2>3. ASSUME NEW j \in 1 .. Len(list) PROVE SubSeq(list, 1, j) \in Seq(S)
    OBVIOUS
  <2> QED
    BY <1>1, <2>2, <2>3 DEF CutBehind
<1>2. CASE ~Contains(list, t)
  BY <1>2 DEF CutBehind
<1> QED
  BY <1>1, <1>2

Colours == Whites \cup {"gray", "black"}

LEMMA PropagateMarkType ==
    ASSUME TypeInv, NEW o \in gray, PropagateMark(o)
    PROVE  /\ mark' \in [Heap -> Colours]
           /\ gray' \subseteq born /\ weak' \in Seq(Heap)
           /\ bare' \subseteq Heap \X Heap
<1>1. o \in born /\ o \in Heap
  BY DEF TypeInv, TypeOK
<1>2. Children(o) \subseteq born
  BY <1>1 DEF TypeInv, Children, Slot
<1>3. mark' \in [Heap -> Colours]
  BY DEF PropagateMark, TypeInv, TypeOK, Colours
<1>4. gray' \subseteq born /\ bare' \subseteq Heap \X Heap
  BY <1>2 DEF PropagateMark, TypeInv, TypeOK
<1>5. weak' \in Seq(Heap)
  <2>1. weak \in Seq(Heap) /\ <<o>> \in Seq(Heap)
    BY <1>1 DEF TypeInv, TypeOK
  <2>2. <<o>> \o weak \in Seq(Heap)
    BY <2>1
  <2> QED
    BY <2>1, <2>2 DEF PropagateMark
<1> QED
  BY <1>3, <1>4, <1>5

LEMMA BarrierTableType ==
    ASSUME TypeInv, NEW t \in born, NEW x, BarrierTable(t, x)
    PROVE  /\ mark' \in [Heap -> Colours] /\ gray' \subseteq born
           /\ grayAgain' \subseteq born /\ weak' \in Seq(Heap)
<1>1. CutBehind(weak, t) \in Seq(Heap)
  BY CutBehindType DEF TypeInv, TypeOK
<1> QED
  BY <1>1, SMTT(30) DEF BarrierTable, marks, TypeInv, TypeOK, Colours

LEMMA BarrierType ==
    ASSUME TypeInv, NEW u \in born, NEW x \in born, Barrier(u, x)
    PROVE  /\ mark' \in [Heap -> Colours] /\ gray' \subseteq born
           /\ grayAgain' \subseteq born /\ weak' \in Seq(Heap)
BY DEF Barrier, marks, TypeInv, TypeOK, Colours

\* What SETLIST changes.
LEMMA SetListChanges ==
    ASSUME TypeInv, NEW t \in Objects, NEW items, NEW over, SetList(t, items, over)
    PROVE  /\ t \in born /\ t \in Heap /\ t # Running
           /\ IsTable(t) /\ kind[t] # "string" /\ kind[t] # "thread"
           /\ items \subseteq Locals /\ items \subseteq born
           /\ refs' = [refs EXCEPT ![t] = (refs[t] \ over) \cup items]
           /\ refs' \in [Heap -> SUBSET Heap]
           /\ \A y \in Heap : refs'[y] = IF y = t THEN (refs[t] \ over) \cup items
                                                ELSE refs[y]
           /\ \A y \in Heap : refs'[y] \subseteq refs[y] \cup items
           /\ UNCHANGED <<collector, threads, marks, slot, born>>
<1>1. t \in Locals /\ IsTable(t) /\ items \subseteq Locals
  BY DEF SetList
<1>2. refs \in [Heap -> SUBSET Heap] /\ born \subseteq Heap
  BY DEF TypeInv, TypeOK
<1>3. t \in born /\ items \subseteq born
  BY <1>1, RunningThread
<1>4. kind[t] # "string" /\ kind[t] # "thread" /\ t # Running
  BY <1>1, RunningThread DEF IsTable
<1>5. /\ refs' = [refs EXCEPT ![t] = (refs[t] \ over) \cup items]
      /\ UNCHANGED <<collector, threads, marks, slot, born>>
  BY DEF SetList
<1>6. \A y \in Heap : refs'[y] = IF y = t THEN (refs[t] \ over) \cup items ELSE refs[y]
  BY <1>2, <1>3, <1>5
<1>7. refs' \in [Heap -> SUBSET Heap]
  BY <1>2, <1>3, <1>5
<1>8. \A y \in Heap : refs'[y] \subseteq refs[y] \cup items
  BY <1>6
<1> QED
  BY <1>1, <1>2, <1>3, <1>4, <1>5, <1>6, <1>7, <1>8

LEMMA TypeStep == TypeInv /\ [Next]_vars => TypeInv'
<1> SUFFICES ASSUME TypeInv, [Next]_vars PROVE TypeInv'
  OBVIOUS
<1> USE DEF TypeInv, TypeOK, Heap
<1>1. ASSUME NEW o \in Objects, Alloc(o) PROVE TypeInv'
  BY <1>1, RunningThread DEF Alloc, SetLocals, threads
<1>2. ASSUME NEW o \in Objects, Wrap(o) PROVE TypeInv'
  BY <1>2 DEF Wrap
<1>3. ASSUME NEW o \in Objects, Drop(o) PROVE TypeInv'
  BY <1>3, RunningThread DEF Drop, SetLocals, collector, threads, marks
<1>4. ASSUME NEW o \in Heap, NEW x \in Objects, Load(o, x) PROVE TypeInv'
  <2>1. x \in born
    BY <1>4, HeapAssumption DEF Load
  <2> QED
    BY <1>4, <2>1, RunningThread DEF Load, SetLocals, collector, threads, marks
<1>5. ASSUME NEW t \in Heap, NEW x \in Objects, SetField(t, x) PROVE TypeInv'
  <2>1. t \in born /\ x \in born
    BY <1>5, RunningThread DEF SetField, InHand
  <2>2. BarrierTable(t, x)
    BY <1>5 DEF SetField
  <2> QED
    BY <1>5, <2>1, <2>2, BarrierTableType
       DEF SetField, StoredGuarded, collector, threads, Colours
<1>6. ASSUME NEW t \in Heap, NEW x \in Objects, EraseField(t, x)
      PROVE TypeInv'
  BY <1>6 DEF EraseField, collector, threads, marks
<1>7. ASSUME NEW t \in Objects, NEW m \in Objects, SetMetatableFast(t, m)
      PROVE TypeInv'
  <2>1. t \in born /\ m \in born
    BY <1>7, RunningThread DEF SetMetatableFast
  <2>2. BarrierTable(t, m)
    BY <1>7 DEF SetMetatableFast
  <2> QED
    BY <1>7, <2>1, <2>2, BarrierTableType
       DEF SetMetatableFast, StoredGuarded, collector, threads, Colours
<1>8. ASSUME NEW o \in Objects, NEW m \in Objects, SetMetatable(o, m)
      PROVE TypeInv'
  <2>1. o \in born /\ m \in born
    BY <1>8, RunningThread DEF SetMetatable
  <2>2. bare' \subseteq Heap \X Heap
    BY <1>8, <2>1 DEF SetMetatable, StoredBare
  <2> QED
    BY <1>8, <2>1, <2>2 DEF SetMetatable, collector, threads, marks
<1>9. ASSUME NEW u \in Objects, NEW x \in Objects, CloseUpval(u, x)
      PROVE TypeInv'
  <2>1. u \in born /\ x \in born
    BY <1>9, RunningThread DEF CloseUpval
  <2>2. bare' \subseteq Heap \X Heap
    BY <1>9, <2>1 DEF CloseUpval, StoredBare
  <2> QED
    BY <1>9, <2>1, <2>2 DEF CloseUpval, collector, threads, marks
<1>10. ASSUME NEW u \in Objects, NEW x \in Objects, WriteUpval(u, x)
       PROVE TypeInv'
  <2>1. u \in born /\ x \in born
    BY <1>10, RunningThread DEF WriteUpval
  <2>2. Barrier(u, x)
    BY <1>10 DEF WriteUpval
  <2> QED
    BY <1>10, <2>1, <2>2, BarrierType
       DEF WriteUpval, StoredGuarded, collector, threads, Colours
<1>11. ASSUME NEW c \in Objects, NEW x \in Objects, Resume(c, x) PROVE TypeInv'
  <2>1. c \in born /\ x \in born /\ kind[c] = "thread"
    BY <1>11, RunningThread DEF Resume
  <2>2. /\ chain' \in Seq(Heap) /\ chain' # <<>>
        /\ \A i \in 1 .. Len(chain') : chain'[i] \in born /\ kind[chain'[i]] = "thread"
    BY <1>11, <2>1 DEF Resume
  <2> QED
    BY <1>11, <2>1, <2>2 DEF Resume, collector, marks
<1>12. ASSUME Yield PROVE TypeInv'
  <2>1. /\ chain' \in Seq(Heap) /\ chain' # <<>>
        /\ \A i \in 1 .. Len(chain') : chain'[i] \in born /\ kind[chain'[i]] = "thread"
    <3>1. chain \in Seq(Heap) /\ Len(chain) \in Nat /\ Len(chain) > 1
      BY <1>12 DEF Yield
    <3>2. chain' = SubSeq(chain, 1, Len(chain) - 1)
      BY <1>12 DEF Yield, Front
    <3>3. /\ chain' \in Seq(Heap) /\ Len(chain') = Len(chain) - 1
          /\ \A i \in 1 .. Len(chain) - 1 : chain'[i] = chain[i]
      BY <3>1, <3>2
    <3>4. UNCHANGED <<born, kind>>
      BY <1>12 DEF Yield, collector
    <3> QED
      BY <3>1, <3>3, <3>4
  <2> QED
    BY <1>12, <2>1 DEF Yield, collector, marks
<1>13. ASSUME FullGC PROVE TypeInv'
  BY <1>13 DEF FullGC, threads, marks
<1>14. ASSUME MarkRoots PROVE TypeInv'
  BY <1>14 DEF MarkRoots, gcKeeps, Marking
<1>15. ASSUME NEW o \in Heap, Propagate(o) PROVE TypeInv'
  <2>1. o \in gray /\ PropagateMark(o)
    BY <1>15 DEF Propagate, Pick
  <2> QED
    BY <1>15, <2>1, PropagateMarkType DEF Propagate, gcKeeps, Marking, Colours
<1>16. ASSUME PropagateAgain PROVE TypeInv'
  <2>1. CASE gray = {} /\ UNCHANGED <<mark, gray, weak, bare>>
    BY <1>16, <2>1 DEF PropagateAgain, gcKeeps, Marking
  <2>2. ASSUME NEW o \in Pick(gray), PropagateMark(o) PROVE TypeInv'
    <3>1. o \in gray
      BY <2>2 DEF Pick
    <3> QED
      BY <1>16, <2>2, <3>1, PropagateMarkType
         DEF PropagateAgain, gcKeeps, Marking, Colours
  <2> QED
    BY <1>16, <2>1, <2>2 DEF PropagateAgain
<1>17. ASSUME AtomicBegin PROVE TypeInv'
  BY <1>17 DEF AtomicBegin, gcKeeps, marks
<1>18. ASSUME NEW o \in Heap, AtomicDrain(o) PROVE TypeInv'
  <2>1. o \in gray /\ PropagateMark(o)
    BY <1>18 DEF AtomicDrain, Pick
  <2> QED
    BY <1>18, <2>1, PropagateMarkType DEF AtomicDrain, gcKeeps, Colours
<1>19. ASSUME AtomicGrayAgain PROVE TypeInv'
  BY <1>19 DEF AtomicGrayAgain, gcKeeps
<1>20. ASSUME AtomicEnd PROVE TypeInv'
  <2>1. \A t \in Heap : Cleared(t) \subseteq refs[t]
    BY DEF Cleared
  <2>2. Kept \subseteq born
    <3>1. ToSet(weak) \subseteq Heap
      BY DEF ToSet
    <3> QED
      BY <3>1 DEF Kept
  <2>3. \A t \in Heap : refs'[t] \subseteq refs[t]
    BY <1>20, <2>1 DEF AtomicEnd
  <2>4. refs' \in [Heap -> SUBSET Heap] /\ mark' \in [Heap -> Colours]
    BY <1>20, <2>1 DEF AtomicEnd, Colours
  <2>5. white' \in Whites
    BY <1>20, OtherWhiteType DEF AtomicEnd
  <2> QED
    BY <1>20, <2>2, <2>3, <2>4, <2>5 DEF AtomicEnd, Colours
<1>21. ASSUME NEW o \in Heap, SweepStep(o) PROVE TypeInv'
  BY <1>21 DEF SweepStep, gcKeeps, Pick
<1>22. CASE UNCHANGED vars
  BY <1>22 DEF vars
<1>23. ASSUME NEW c \in Objects, NEW t \in Objects, SetClosureEnvAt(c, t)
       PROVE TypeInv'
  <2>1. c \in born /\ t \in born
    BY <1>23, RunningThread DEF SetClosureEnvAt
  <2>2. bare' \subseteq Heap \X Heap
    BY <1>23, <2>1 DEF SetClosureEnvAt, StoredBare
  <2> QED
    BY <1>23, <2>1, <2>2 DEF SetClosureEnvAt, collector, threads, marks
<1>24. ASSUME NEW t \in Objects, NEW items, NEW over, SetList(t, items, over)
       PROVE TypeInv'
  <2>1. /\ t \in born /\ items \subseteq born
        /\ refs' \in [Heap -> SUBSET Heap]
        /\ \A y \in Heap : refs'[y] \subseteq refs[y] \cup items
        /\ UNCHANGED <<collector, threads, marks, slot, born>>
    BY <1>24, SetListChanges
  <2>2. bare' \subseteq Heap \X Heap
    BY <1>24, <2>1 DEF SetList, StoredBare
  <2>3. \A y \in Heap : refs'[y] \subseteq born'
    BY <2>1
  <2> QED
    BY <2>1, <2>2, <2>3 DEF collector, threads, marks
<1> QED
  BY <1>1, <1>2, <1>3, <1>4, <1>5, <1>6, <1>7, <1>8, <1>9, <1>10, <1>11, <1>12,
     <1>13, <1>14, <1>15, <1>16, <1>17, <1>18, <1>19, <1>20, <1>21, <1>22, <1>23,
     <1>24
     DEF Next, Mutate, Collect

\* Every variable keeps its type; what waits to be swept is on the list of all
\* objects, and a finalized object is not (gc.go:456-481).
THEOREM TypeCorrect == Spec => []TypeOK
<1>1. TypeInv => TypeOK
  BY DEF TypeInv
<1> QED
  BY TypeInit, TypeStep, <1>1, PTL DEF Spec

-----------------------------------------------------------------------------
(* Colours                                                                 *)

ColourInv ==
    /\ inAtomic # "no" => phase = "atomic"
    /\ phase \in Marking => \A o \in gray \cup grayAgain : mark[o] = "gray"
    /\ MarksAccounted
    /\ CleanSlate
    /\ phase = "sweep" => \A o \in linked \ toSweep : mark[o] = white

\* The part of the collector's state that no barrier changes.
Settled == <<phase, inAtomic, linked, toSweep, white>>

LEMMA WhiteOnly == "gray" \notin Whites /\ "black" \notin Whites
BY ColourAssumption

LEMMA PropagateMarkColour ==
    ASSUME TypeInv, ColourInv, NEW o \in gray, PropagateMark(o),
           phase \in Marking, phase' \in Marking,
           inAtomic' # "no" => phase' = "atomic",
           UNCHANGED <<linked, toSweep, white, grayAgain>>
    PROVE  ColourInv'
<1> USE DEF TypeInv, TypeOK, ColourInv, MarksAccounted, Marking, IsWhite
<1>1. o \in Heap /\ mark[o] = "gray" /\ o \notin grayAgain
  OBVIOUS
<1>2. PICK found : /\ found = {x \in Children(o) : IsWhite(x)}
                   /\ gray' = (gray \ {o}) \cup found
                   /\ \A x \in Heap : mark'[x] = IF x = o THEN "black"
                        ELSE IF x \in found THEN "gray" ELSE mark[x]
  BY DEF PropagateMark
<1>3. found \subseteq Heap
  BY <1>1, <1>2 DEF Children, Slot
<1>4. \A x \in found : mark[x] \in Whites /\ x # o
  BY <1>1, <1>2, WhiteOnly
<1>5. \A x \in gray' \cup grayAgain' : mark'[x] = "gray"
  BY <1>1, <1>2, <1>3, <1>4
<1>6. gray' \cap grayAgain' = {}
  BY <1>1, <1>2, <1>3, <1>4, WhiteOnly
<1>7. \A x \in linked' : mark'[x] = "gray" <=> x \in gray' \cup grayAgain'
  BY <1>1, <1>2, <1>3, <1>4
<1>8. \A x \in Heap : mark[x] \notin Whites => mark'[x] \notin Whites
  BY <1>2, WhiteOnly
<1>9. MarksAccounted'
  BY <1>6, <1>7, <1>8 DEF Heap
<1> QED
  BY <1>5, <1>9 DEF CleanSlate

LEMMA BarrierTableColour ==
    ASSUME TypeInv, ColourInv, NEW t \in born, NEW x \in born,
           BarrierTable(t, x), UNCHANGED Settled
    PROVE  ColourInv'
<1> USE DEF TypeInv, TypeOK, ColourInv, MarksAccounted, CleanSlate, Marking,
            IsWhite, Settled
<1>1. CASE mark[t] = "black" /\ IsWhite(x) /\ phase \in Marking
  <2>1. /\ mark' = [mark EXCEPT ![t] = "gray"]
        /\ grayAgain' = grayAgain \cup {t} /\ gray' = gray
    BY <1>1 DEF BarrierTable
  <2>2. t \in Heap /\ t \notin gray
    BY <1>1
  <2>3. \A o \in Heap : mark'[o] = IF o = t THEN "gray" ELSE mark[o]
    BY <2>1, <2>2
  <2>4. \A o \in gray' \cup grayAgain' : mark'[o] = "gray"
    BY <1>1, <2>1, <2>2, <2>3
  <2>5. \A o \in linked' : mark'[o] = "gray" <=> o \in gray' \cup grayAgain'
    BY <1>1, <2>1, <2>2, <2>3
  <2>6. gray' \cap grayAgain' = {}
    BY <1>1, <2>1, <2>2
  <2>7. \A o \in Heap : mark[o] \notin Whites => mark'[o] \notin Whites
    BY <2>3, WhiteOnly
  <2>8. MarksAccounted'
    BY <1>1, <2>5, <2>6, <2>7 DEF Heap
  <2> QED
    BY <1>1, <2>4, <2>8
<1>2. CASE ~(mark[t] = "black" /\ IsWhite(x) /\ phase \in Marking)
  <2>1. UNCHANGED marks
    BY <1>2 DEF BarrierTable
  <2> QED
    BY <2>1 DEF marks
<1> QED
  BY <1>1, <1>2

LEMMA BarrierColour ==
    ASSUME TypeInv, ColourInv, NEW u \in born, NEW x \in born,
           Barrier(u, x), UNCHANGED Settled
    PROVE  ColourInv'
<1> USE DEF TypeInv, TypeOK, ColourInv, MarksAccounted, CleanSlate, Marking,
            IsWhite, Settled
<1>1. CASE mark[u] = "black" /\ IsWhite(x) /\ phase \in Marking
  <2>1. /\ mark' = [mark EXCEPT ![x] = "gray"]
        /\ gray' = gray \cup {x} /\ grayAgain' = grayAgain
    BY <1>1 DEF Barrier
  <2>2. x \in Heap /\ x \notin grayAgain
    <3>1. mark[x] # "gray"
      BY <1>1, WhiteOnly
    <3> QED
      BY <1>1, <3>1
  <2>3. \A o \in Heap : mark'[o] = IF o = x THEN "gray" ELSE mark[o]
    BY <2>1, <2>2
  <2>4. \A o \in gray' \cup grayAgain' : mark'[o] = "gray"
    BY <1>1, <2>1, <2>2, <2>3
  <2>5. \A o \in linked' : mark'[o] = "gray" <=> o \in gray' \cup grayAgain'
    BY <1>1, <2>1, <2>2, <2>3
  <2>6. gray' \cap grayAgain' = {}
    BY <1>1, <2>1, <2>2
  <2>7. \A o \in Heap : mark[o] \notin Whites => mark'[o] \notin Whites
    BY <2>3, WhiteOnly
  <2>8. MarksAccounted'
    BY <1>1, <2>5, <2>6, <2>7 DEF Heap
  <2> QED
    BY <1>1, <2>4, <2>8
<1>2. CASE ~(mark[u] = "black" /\ IsWhite(x) /\ phase \in Marking)
  <2>1. UNCHANGED marks
    BY <1>2 DEF Barrier
  <2> QED
    BY <2>1 DEF marks
<1> QED
  BY <1>1, <1>2

LEMMA ColourInit == Init => ColourInv
BY WhiteOnly, HeapAssumption
   DEF Init, ColourInv, MarksAccounted, CleanSlate, Marking, Heap

LEMMA ColourStep == TypeInv /\ ColourInv /\ [Next]_vars => ColourInv'
<1> SUFFICES ASSUME TypeInv, ColourInv, [Next]_vars PROVE ColourInv'
  OBVIOUS
<1> DEFINE Same == UNCHANGED <<Settled, marks>>
<1>0. Same => ColourInv'
  BY DEF Settled, marks, ColourInv, MarksAccounted, CleanSlate, Marking, IsWhite
<1>1. ASSUME NEW o \in Objects, Alloc(o) \/ Wrap(o) PROVE ColourInv'
  <2>1. /\ o \in Heap /\ o \notin born /\ linked' = linked \cup {o}
        /\ mark' = [mark EXCEPT ![o] = white]
        /\ UNCHANGED <<phase, inAtomic, gray, grayAgain, toSweep, white>>
    BY <1>1 DEF Alloc, Wrap, Heap
  <2>2. o \notin gray \cup grayAgain \cup {MainThread, Registry}
    BY <2>1 DEF TypeInv
  <2>3. \A x \in Heap : mark'[x] = IF x = o THEN white ELSE mark[x]
    BY <2>1 DEF TypeInv, TypeOK
  <2>4. linked \subseteq Heap /\ white \in Whites
        /\ gray \subseteq Heap /\ grayAgain \subseteq Heap
    BY DEF TypeInv, TypeOK
  <2>5. MarksAccounted'
    <3> SUFFICES ASSUME phase' \in Marking PROVE MarksAccounted'
      BY DEF MarksAccounted
    <3>1. MarksAccounted!2
      BY <2>1 DEF ColourInv, MarksAccounted
    <3>2. \A x \in linked' : mark'[x] = "gray" <=> x \in gray' \cup grayAgain'
      BY <2>1, <2>2, <2>3, <2>4, <3>1, WhiteOnly
    <3>3. \A x \in {MainThread, Registry} : ~IsWhite(x)'
      BY <2>2, <2>3, <3>1 DEF IsWhite, Heap
    <3>4. gray' \cap grayAgain' = {}
      BY <2>1, <3>1
    <3> QED
      BY <3>2, <3>3, <3>4 DEF MarksAccounted
  <2>6. CleanSlate'
    BY <2>1, <2>3, <2>4 DEF ColourInv, CleanSlate
  <2>7. phase' = "sweep" => \A x \in linked' \ toSweep' : mark'[x] = white'
    BY <2>1, <2>3, <2>4 DEF ColourInv
  <2>8. phase' \in Marking => \A x \in gray' \cup grayAgain' : mark'[x] = "gray"
    BY <2>1, <2>2, <2>3, <2>4 DEF ColourInv
  <2> QED
    BY <2>1, <2>5, <2>6, <2>7, <2>8 DEF ColourInv, Marking
<1>2. ASSUME NEW o \in Objects, Drop(o) PROVE ColourInv'
  BY <1>2, <1>0 DEF Drop, collector, marks, Settled
<1>3. ASSUME NEW o \in Heap, NEW x \in Objects,
             Load(o, x) \/ EraseField(o, x)
      PROVE ColourInv'
  BY <1>3, <1>0 DEF Load, EraseField, collector, marks, Settled
<1>4. ASSUME NEW t \in Heap, NEW x \in Objects, SetField(t, x)
      PROVE ColourInv'
  <2>1. t \in born /\ x \in born /\ BarrierTable(t, x) /\ UNCHANGED Settled
    BY <1>4, RunningThread DEF SetField, InHand, collector, Settled, TypeInv
  <2> QED
    BY <2>1, BarrierTableColour
<1>5. ASSUME NEW t \in Objects, NEW m \in Objects, SetMetatableFast(t, m)
      PROVE ColourInv'
  <2>1. t \in born /\ m \in born /\ BarrierTable(t, m) /\ UNCHANGED Settled
    BY <1>5, RunningThread DEF SetMetatableFast, collector, Settled
  <2> QED
    BY <2>1, BarrierTableColour
<1>6. ASSUME NEW u \in Objects, NEW x \in Objects, WriteUpval(u, x)
      PROVE ColourInv'
  <2>1. u \in born /\ x \in born /\ Barrier(u, x) /\ UNCHANGED Settled
    BY <1>6, RunningThread DEF WriteUpval, collector, Settled
  <2> QED
    BY <2>1, BarrierColour
<1>7. ASSUME NEW o \in Objects, NEW x \in Objects,
             \/ SetMetatable(o, x) \/ SetClosureEnvAt(o, x)
             \/ CloseUpval(o, x) \/ Resume(o, x)
      PROVE ColourInv'
  BY <1>7, <1>0
     DEF SetMetatable, SetClosureEnvAt, CloseUpval, Resume, collector, marks, Settled
<1>8. ASSUME Yield \/ FullGC PROVE ColourInv'
  BY <1>8, <1>0 DEF Yield, FullGC, collector, marks, Settled
<1>9. ASSUME MarkRoots PROVE ColourInv'
  <2>1. PICK roots : /\ roots = {o \in {MainThread, Registry} : IsWhite(o)}
                     /\ gray' = roots
                     /\ mark' = [o \in Heap |-> IF o \in roots THEN "gray" ELSE mark[o]]
    BY <1>9 DEF MarkRoots
  <2>2. \A o \in linked : mark[o] \in Whites /\ mark[o] # "gray"
    <3>1. phase = "pause" /\ white \in Whites
      BY <1>9 DEF MarkRoots, TypeInv, TypeOK
    <3> QED
      BY <3>1, WhiteOnly DEF ColourInv, CleanSlate
  <2>3. linked' = linked /\ grayAgain' = {} /\ phase' = "propagate"
        /\ linked \subseteq Heap /\ inAtomic' = "no"
    BY <1>9 DEF MarkRoots, TypeInv, TypeOK, ColourInv
  <2>4. MarksAccounted'
    BY <2>1, <2>2, <2>3, WhiteOnly DEF MarksAccounted, IsWhite, Heap
  <2> QED
    BY <2>1, <2>3, <2>4 DEF ColourInv, CleanSlate, Heap
<1>10. ASSUME NEW o \in Heap, Propagate(o) PROVE ColourInv'
  <2>1. /\ o \in gray /\ PropagateMark(o) /\ inAtomic' = "no"
        /\ phase \in Marking /\ phase' \in Marking
        /\ UNCHANGED <<linked, toSweep, white, grayAgain>>
    BY <1>10 DEF Propagate, Pick, Marking, ColourInv, TypeInv, TypeOK
  <2> QED
    BY <2>1, PropagateMarkColour
<1>11. ASSUME PropagateAgain PROVE ColourInv'
  <2>1. /\ inAtomic' = "no" /\ phase \in Marking /\ phase' \in Marking
        /\ UNCHANGED <<linked, toSweep, white, grayAgain>>
    BY <1>11 DEF PropagateAgain, Marking, ColourInv, TypeInv, TypeOK
  <2>2. CASE UNCHANGED <<mark, gray, weak, bare>>
    BY <2>1, <2>2 DEF ColourInv, MarksAccounted, CleanSlate, IsWhite, Marking
  <2>3. ASSUME NEW o \in Pick(gray), PropagateMark(o) PROVE ColourInv'
    <3>1. o \in gray
      BY <2>3 DEF Pick
    <3> QED
      BY <2>1, <2>3, <3>1, PropagateMarkColour
  <2> QED
    BY <1>11, <2>2, <2>3 DEF PropagateAgain
<1>12. ASSUME AtomicBegin PROVE ColourInv'
  BY <1>12
     DEF AtomicBegin, marks, ColourInv, MarksAccounted, CleanSlate, IsWhite, Marking
<1>13. ASSUME NEW o \in Heap, AtomicDrain(o) PROVE ColourInv'
  <2>1. /\ o \in gray /\ PropagateMark(o) /\ phase' = "atomic"
        /\ phase \in Marking /\ phase' \in Marking
        /\ UNCHANGED <<linked, toSweep, white, grayAgain>>
    BY <1>13 DEF AtomicDrain, Pick, Marking, ColourInv
  <2> QED
    BY <2>1, PropagateMarkColour
<1>14. ASSUME AtomicGrayAgain PROVE ColourInv'
  BY <1>14
     DEF AtomicGrayAgain, ColourInv, MarksAccounted, CleanSlate, IsWhite, Marking
<1>15. ASSUME AtomicEnd PROVE ColourInv'
  BY <1>15 DEF AtomicEnd, ColourInv, MarksAccounted, CleanSlate, Marking
<1>16. ASSUME NEW o \in Heap, SweepStep(o) PROVE ColourInv'
  <2>1. /\ phase = "sweep" /\ phase' \in {"sweep", "pause"} /\ inAtomic' = "no"
        /\ toSweep' = toSweep \ {o} /\ white' = white
        /\ phase' = "pause" => toSweep' = {}
    BY <1>16 DEF SweepStep, Pick, ColourInv
  <2>2. \A x \in linked' \ toSweep' : mark'[x] = white
    <3>1. linked \subseteq Heap
      BY DEF TypeInv, TypeOK
    <3>2. CASE IsDead(o)
      BY <1>16, <2>1, <3>1, <3>2 DEF SweepStep, ColourInv
    <3>3. CASE ~IsDead(o)
      BY <1>16, <2>1, <3>1, <3>3 DEF SweepStep, ColourInv, TypeInv, TypeOK
    <3> QED
      BY <3>2, <3>3
  <2> QED
    BY <2>1, <2>2 DEF ColourInv, MarksAccounted, CleanSlate, Marking
<1>17. CASE UNCHANGED vars
  BY <1>17, <1>0 DEF vars, Settled, marks
<1>18. ASSUME NEW t \in Objects, NEW items, NEW over, SetList(t, items, over)
       PROVE ColourInv'
  BY <1>18, <1>0 DEF SetList, collector, marks, Settled
<1> QED
  BY <1>1, <1>2, <1>3, <1>4, <1>5, <1>6, <1>7, <1>8, <1>9, <1>10, <1>11, <1>12,
     <1>13, <1>14, <1>15, <1>16, <1>17, <1>18 DEF Next, Mutate, Collect

LEMMA ColourAlways == Spec => [](TypeInv /\ ColourInv)
BY TypeInit, TypeStep, ColourInit, ColourStep, PTL DEF Spec

\* The colour of an object and the lists agree throughout the marking states,
\* whatever the program does between two steps (gc.go:17-20, 132-141).
THEOREM MarksAccountedAlways == Spec => []MarksAccounted
<1>1. ColourInv => MarksAccounted
  BY DEF ColourInv
<1> QED
  BY ColourAlways, <1>1, PTL

\* A cycle leaves every managed object in the current white (gc.go:468-473).
THEOREM CleanSlateAlways == Spec => []CleanSlate
<1>1. ColourInv => CleanSlate
  BY DEF ColourInv
<1> QED
  BY ColourAlways, <1>1, PTL

-----------------------------------------------------------------------------
(* Barriers                                                                *)

\* What BarriersHold asks of one object.
Guarded(o) ==
    mark[o] = "black" =>
        /\ kind[o] = "table" => \A x \in refs[o] : <<o, x>> \notin bare => ~IsWhite(x)
        /\ \A x \in Slot(o) : <<o, x>> \notin bare => ~IsWhite(x)

BarrierInv == TypeInv /\ ColourInv /\ BarriersHold

\* A step that changes no color and no metatable or closed upvalue, and the
\* entries of no table except by taking some away, needs no barrier.
LEMMA QuietStep ==
    ASSUME BarrierInv, UNCHANGED <<mark, slot, kind, linked>>,
           phase' \in Marking => phase \in Marking,
           bare \subseteq bare',
           \A o \in Heap : kind[o] = "table" => refs'[o] \subseteq refs[o]
    PROVE  BarriersHold'
BY DEF BarrierInv, BarriersHold, IsWhite, Slot, TypeInv, TypeOK

LEMMA PropagateMarkGuards ==
    ASSUME BarrierInv, NEW o \in gray, PropagateMark(o), phase \in Marking,
           UNCHANGED <<kind, refs, slot, linked>>
    PROVE  BarriersHold'
<1>1. PICK found : /\ found = {x \in Children(o) : IsWhite(x)}
                   /\ bare' = {r \in bare : r[1] # o}
                   /\ \A x \in Heap : mark'[x] = IF x = o THEN "black"
                        ELSE IF x \in found THEN "gray" ELSE mark[x]
  BY DEF PropagateMark
<1>2. \A x \in Heap : refs[x] \subseteq Heap /\ Slot(x) \subseteq Heap
  BY DEF BarrierInv, TypeInv, TypeOK, Slot
<1>3. \A x \in Heap : ~IsWhite(x) => ~IsWhite(x)'
  BY <1>1, WhiteOnly DEF IsWhite
<1>4. o \in Heap /\ linked \subseteq Heap
  BY DEF BarrierInv, TypeInv, TypeOK
<1>5. ASSUME NEW x \in linked, x # o PROVE Guarded(x)'
  <2>1. mark'[x] = "black" => mark[x] = "black"
    BY <1>1, <1>4, <1>5
  <2>2. Guarded(x)
    BY DEF BarrierInv, BarriersHold, Guarded
  <2>3. \A y : <<x, y>> \notin bare' => <<x, y>> \notin bare
    BY <1>1, <1>5
  <2> QED
    BY <1>2, <1>3, <1>4, <2>1, <2>2, <2>3 DEF Guarded, Slot
<1>6. Guarded(o)'
  <2>1. \A x \in Children(o) \cap Heap : ~IsWhite(x)'
    BY <1>1, WhiteOnly DEF IsWhite
  <2>2. Slot(o) \subseteq Children(o)
        /\ (kind[o] = "table" => refs[o] \subseteq Children(o))
    BY DEF Children
  <2> QED
    BY <1>2, <1>4, <2>1, <2>2 DEF Guarded, Slot
<1> QED
  BY <1>5, <1>6 DEF BarriersHold, Guarded

LEMMA BarrierStep == BarrierInv /\ [Next]_vars => BarriersHold'
<1> SUFFICES ASSUME BarrierInv, [Next]_vars PROVE BarriersHold'
  OBVIOUS
<1>0. /\ linked \subseteq born /\ born \subseteq Heap /\ gray \subseteq Heap
      /\ \A o \in Heap : refs[o] \subseteq born
      /\ \A o \in Heap : Slot(o) \subseteq born
      /\ refs \in [Heap -> SUBSET Heap]
      /\ mark \in [Heap -> Whites \cup {"gray", "black"}]
      /\ slot \in [Heap -> Heap \cup {NoObject}]
      /\ inAtomic # "no" => phase = "atomic"
  BY DEF BarrierInv, TypeInv, TypeOK, Slot, ColourInv
<1>a. \A o, x, p, y : <<o, x>> = <<p, y>> => o = p /\ x = y
  OBVIOUS
<1>1. ASSUME NEW o \in Objects, Alloc(o) \/ Wrap(o) PROVE BarriersHold'
  <2>1. /\ o \in Heap /\ o \notin born /\ linked' = linked \cup {o}
        /\ \A x \in Heap : mark'[x] = IF x = o THEN white ELSE mark[x]
        /\ UNCHANGED <<phase, white, kind, slot, bare>>
    BY <1>0, <1>1 DEF Alloc, Wrap, Heap
  <2>2. \A x \in Heap : kind[x] = "table" => refs'[x] = refs[x]
    BY <1>0, <1>1, RunningThread DEF Alloc, Wrap, SetLocals, BarrierInv
  <2>3. white # "black"
    BY WhiteOnly DEF BarrierInv, TypeInv, TypeOK
  <2>4. ASSUME NEW x \in linked, phase \in Marking PROVE Guarded(x)'
    <3>1. Guarded(x) /\ x \in born
      BY <1>0, <2>4 DEF BarrierInv, BarriersHold, Guarded
    <3>2. mark'[x] = mark[x] /\ kind'[x] = kind[x]
          /\ (kind[x] = "table" => refs'[x] = refs[x])
          /\ Slot(x)' = Slot(x)
      BY <1>0, <2>1, <2>2, <3>1 DEF Slot
    <3>3. \A y \in born : IsWhite(y)' = IsWhite(y)
      BY <1>0, <2>1 DEF IsWhite
    <3> QED
      BY <1>0, <2>1, <3>1, <3>2, <3>3 DEF Guarded
  <2> QED
    BY <2>1, <2>3, <2>4 DEF BarriersHold, Guarded
<1>2. ASSUME NEW o \in Objects, Drop(o) PROVE BarriersHold'
  <2>1. \A x \in Heap : kind[x] = "table" => refs'[x] = refs[x]
    BY <1>0, <1>2, RunningThread DEF Drop, SetLocals, BarrierInv
  <2> QED
    BY <1>2, <2>1, QuietStep DEF Drop, collector, marks
<1>3. ASSUME NEW o \in Heap, NEW x \in Objects, Load(o, x) PROVE BarriersHold'
  <2>1. \A y \in Heap : kind[y] = "table" => refs'[y] = refs[y]
    BY <1>0, <1>3, RunningThread DEF Load, SetLocals, BarrierInv
  <2> QED
    BY <1>3, <2>1, QuietStep DEF Load, collector, marks
<1>4. ASSUME NEW t \in Heap, NEW x \in Objects, EraseField(t, x)
      PROVE BarriersHold'
  <2>1. \A y \in Heap : refs'[y] \subseteq refs[y]
    BY <1>0, <1>4 DEF EraseField
  <2> QED
    BY <1>4, <2>1, QuietStep DEF EraseField, collector, marks
<1>5. ASSUME NEW c \in Objects, NEW x \in Objects, Resume(c, x)
      PROVE BarriersHold'
  <2>1. \A y \in Heap : kind[y] = "table" => refs'[y] = refs[y]
    BY <1>0, <1>5 DEF Resume
  <2> QED
    BY <1>5, <2>1, QuietStep DEF Resume, collector, marks
<1>6. ASSUME Yield \/ FullGC PROVE BarriersHold'
  BY <1>0, <1>6, QuietStep DEF Yield, FullGC, collector, marks
<1>7. ASSUME AtomicBegin \/ AtomicGrayAgain PROVE BarriersHold'
  BY <1>0, <1>7, QuietStep DEF AtomicBegin, AtomicGrayAgain, gcKeeps, marks, Marking
<1>8. CASE UNCHANGED vars
  BY <1>8, QuietStep DEF vars
<1>9. ASSUME NEW t \in Heap, NEW x \in Objects, SetField(t, x)
      PROVE BarriersHold'
  <2>1. /\ BarrierTable(t, x) /\ bare' = bare \ {<<t, x>>}
        /\ UNCHANGED <<phase, kind, slot, linked, white>>
        /\ \A y \in Heap : refs'[y] = IF y = t THEN refs[t] \cup {x} ELSE refs[y]
    BY <1>0, <1>9 DEF SetField, StoredGuarded, collector
  <2>2. CASE mark[t] = "black" /\ IsWhite(x) /\ phase \in Marking
    <3>1. \A y \in Heap : mark'[y] = IF y = t THEN "gray" ELSE mark[y]
      BY <1>0, <2>1, <2>2 DEF BarrierTable
    <3>2. \A y \in Heap : ~IsWhite(y) => ~IsWhite(y)'
      BY <3>1, WhiteOnly DEF IsWhite
    <3>3. ASSUME NEW y \in linked, mark'[y] = "black"
          PROVE  mark[y] = "black" /\ refs'[y] = refs[y] /\ Slot(y)' = Slot(y)
                 /\ y # t
      BY <1>0, <2>1, <3>1, <3>3 DEF Slot
    <3> QED
      BY <1>0, <1>a, <2>1, <3>2, <3>3 DEF BarrierInv, BarriersHold
  <2>3. CASE ~(mark[t] = "black" /\ IsWhite(x) /\ phase \in Marking)
    <3>1. UNCHANGED mark
      BY <2>1, <2>3 DEF BarrierTable, marks
    <3>2. \A y \in linked : Slot(y)' = Slot(y)
      BY <1>0, <2>1 DEF Slot
    <3> QED
      BY <1>0, <1>a, <2>1, <2>3, <3>1, <3>2 DEF BarrierInv, BarriersHold, IsWhite
  <2> QED
    BY <2>2, <2>3
<1>10. ASSUME NEW t \in Objects, NEW m \in Objects, SetMetatableFast(t, m)
       PROVE BarriersHold'
  <2>1. /\ BarrierTable(t, m) /\ bare' = bare \ {<<t, m>>}
        /\ UNCHANGED <<phase, kind, refs, linked, white>>
        /\ \A y \in Heap : slot'[y] = IF y = t THEN m ELSE slot[y]
    BY <1>0, <1>10 DEF SetMetatableFast, StoredGuarded, collector
  <2>2. CASE mark[t] = "black" /\ IsWhite(m) /\ phase \in Marking
    <3>1. \A y \in Heap : mark'[y] = IF y = t THEN "gray" ELSE mark[y]
      BY <1>0, <2>1, <2>2 DEF BarrierTable
    <3>2. \A y \in Heap : ~IsWhite(y) => ~IsWhite(y)'
      BY <3>1, WhiteOnly DEF IsWhite
    <3>3. ASSUME NEW y \in linked, mark'[y] = "black"
          PROVE  mark[y] = "black" /\ refs'[y] = refs[y] /\ Slot(y)' = Slot(y)
                 /\ y # t
      BY <1>0, <2>1, <3>1, <3>3 DEF Slot
    <3> QED
      BY <1>0, <1>a, <2>1, <3>2, <3>3 DEF BarrierInv, BarriersHold
  <2>3. CASE ~(mark[t] = "black" /\ IsWhite(m) /\ phase \in Marking)
    <3>1. UNCHANGED mark
      BY <2>1, <2>3 DEF BarrierTable, marks
    <3>2. \A y \in linked : Slot(y)' = IF y = t THEN {m} \ {NoObject} ELSE Slot(y)
      BY <1>0, <2>1 DEF Slot
    <3> QED
      BY <1>0, <1>a, <2>1, <2>3, <3>1, <3>2 DEF BarrierInv, BarriersHold, IsWhite
  <2> QED
    BY <2>2, <2>3
<1>11. ASSUME NEW u \in Objects, NEW x \in Objects, WriteUpval(u, x)
       PROVE BarriersHold'
  <2>1. /\ Barrier(u, x) /\ bare' = bare \ {<<u, x>>}
        /\ UNCHANGED <<phase, kind, refs, linked, white>>
        /\ \A y \in Heap : slot'[y] = IF y = u THEN x ELSE slot[y]
    <3>1. /\ Barrier(u, x) /\ bare' = bare \ {<<u, x>>}
          /\ slot' = [slot EXCEPT ![u] = x]
      BY <1>11 DEF WriteUpval, StoredGuarded
    <3>2. UNCHANGED <<phase, kind, refs, linked, white>>
      BY <1>11 DEF WriteUpval, collector
    <3> QED
      BY <1>0, <3>1, <3>2
  <2>2. x \in Heap /\ u \in Heap
    BY DEF Heap
  <2>3. \A y \in Heap : ~IsWhite(y) => ~IsWhite(y)'
    BY <1>0, <2>1, WhiteOnly DEF Barrier, IsWhite, marks
  <2>4. \A y \in Heap : mark'[y] = "black" => mark[y] = "black"
    BY <1>0, <2>1, <2>2 DEF Barrier, marks
  <2>5. phase \in Marking /\ mark[u] = "black" => ~IsWhite(x)'
    BY <1>0, <2>1, <2>2, WhiteOnly DEF Barrier, IsWhite, marks
  <2>6. \A y \in linked : Slot(y)' = IF y = u THEN {x} \ {NoObject} ELSE Slot(y)
    BY <1>0, <2>1 DEF Slot
  <2> QED
    BY <1>0, <1>a, <2>1, <2>3, <2>4, <2>5, <2>6 DEF BarrierInv, BarriersHold
<1>12. ASSUME NEW o \in Objects, NEW x \in Objects,
              SetMetatable(o, x) \/ SetClosureEnvAt(o, x) \/ CloseUpval(o, x)
       PROVE BarriersHold'
  <2>1. /\ StoredBare(o, {x})
        /\ UNCHANGED <<phase, kind, refs, linked, mark>>
        /\ \A y \in Heap : slot'[y] = IF y = o THEN x ELSE slot[y]
    BY <1>0, <1>12 DEF SetMetatable, SetClosureEnvAt, CloseUpval, collector, marks
  <2>2. /\ bare \subseteq bare'
        /\ mark[o] = "black" /\ phase \in Marking /\ IsWhite(x) => <<o, x>> \in bare'
    BY <2>1 DEF StoredBare
  <2>3. \A y \in linked : Slot(y)' = IF y = o THEN {x} \ {NoObject} ELSE Slot(y)
    BY <1>0, <2>1 DEF Slot
  <2> QED
    BY <1>0, <2>1, <2>2, <2>3 DEF BarrierInv, BarriersHold, IsWhite
<1>17. ASSUME NEW t \in Objects, NEW items, NEW over, SetList(t, items, over)
       PROVE BarriersHold'
  <2>1. /\ \A y \in Heap : refs'[y] = IF y = t THEN (refs[t] \ over) \cup items
                                             ELSE refs[y]
        /\ UNCHANGED <<phase, kind, slot, linked, mark>>
    BY <1>17, SetListChanges DEF BarrierInv, collector, marks
  <2>2. /\ bare \subseteq bare'
        /\ \A x \in items : mark[t] = "black" /\ phase \in Marking /\ IsWhite(x)
                           => <<t, x>> \in bare'
    BY <1>17 DEF SetList, StoredBare
  <2>3. \A y \in linked : Slot(y)' = Slot(y)
    BY <1>0, <2>1 DEF Slot
  <2> QED
    BY <1>0, <2>1, <2>2, <2>3 DEF BarrierInv, BarriersHold, IsWhite
<1>13. ASSUME MarkRoots PROVE BarriersHold'
  <2>1. linked' = linked /\ phase = "pause"
        /\ \A o \in Heap : mark'[o] = "gray" \/ mark'[o] = mark[o]
    BY <1>13 DEF MarkRoots
  <2>2. \A o \in linked : mark[o] # "black"
    <3>1. CleanSlate /\ white \in Whites
      BY DEF BarrierInv, ColourInv, TypeInv, TypeOK
    <3> QED
      BY <2>1, <3>1, WhiteOnly DEF CleanSlate
  <2>3. \A o \in linked' : mark'[o] # "black"
    BY <1>0, <2>1, <2>2
  <2> QED
    BY <2>3 DEF BarriersHold
<1>14. ASSUME NEW o \in Heap, Propagate(o) \/ AtomicDrain(o)
       PROVE BarriersHold'
  <2>1. /\ o \in gray /\ PropagateMark(o) /\ phase \in Marking
        /\ UNCHANGED <<kind, refs, slot, linked>>
    BY <1>0, <1>14 DEF Propagate, AtomicDrain, Pick, Marking, gcKeeps
  <2> QED
    BY <2>1, PropagateMarkGuards
<1>15. ASSUME PropagateAgain PROVE BarriersHold'
  <2>1. phase \in Marking /\ UNCHANGED <<kind, refs, slot, linked>>
    BY <1>15 DEF PropagateAgain, Marking, gcKeeps
  <2>2. CASE UNCHANGED <<mark, gray, weak, bare>>
    BY <1>0, <2>1, <2>2, QuietStep
  <2>3. ASSUME NEW o \in Pick(gray), PropagateMark(o) PROVE BarriersHold'
    <3>1. o \in gray
      BY <2>3 DEF Pick
    <3> QED
      BY <2>1, <2>3, <3>1, PropagateMarkGuards
  <2> QED
    BY <1>15, <2>2, <2>3 DEF PropagateAgain
<1>16. ASSUME NEW o \in Heap, AtomicEnd \/ SweepStep(o) PROVE BarriersHold'
  BY <1>16 DEF AtomicEnd, SweepStep, BarriersHold, Marking
<1> QED
  BY <1>1, <1>2, <1>3, <1>4, <1>5, <1>6, <1>7, <1>8, <1>9, <1>10, <1>11, <1>12,
     <1>13, <1>14, <1>15, <1>16, <1>17, HeapAssumption
     DEF Next, Mutate, Collect, Heap

\* In every marking state a black object refers to a white one only through a
\* reference that was last stored with no barrier, by SETLIST, SetMetatable,
\* SetClosureEnvAt or upVal.close (gc.go:17-20, 98-130), on any finite heap.
THEOREM BarriersAlwaysHold == Spec => []BarriersHold
<1>1. Init => BarriersHold
  BY DEF Init, BarriersHold, Marking
<1>2. BarrierInv /\ [Next]_vars => BarrierInv'
  BY TypeStep, ColourStep, BarrierStep DEF BarrierInv
<1>3. Init => BarrierInv
  BY <1>1, TypeInit, ColourInit DEF BarrierInv
<1>4. BarrierInv => BarriersHold
  BY DEF BarrierInv
<1> QED
  BY <1>2, <1>3, <1>4, PTL DEF Spec

-----------------------------------------------------------------------------
(* Closures                                                                *)

\* A round of the search, on sets of objects of which it cannot leave.
Round(child) == [n \in Int |-> [X \in SUBSET DOMAIN child |->
                                   X \cup UNION {child[o] : o \in X}]]

\* The search is a loop over its rounds, and ends with a set of objects.
LEMMA ClosureLoop ==
    ASSUME NEW H, IsFiniteSet(H), NEW child, DOMAIN child = H,
           \A o \in H : child[o] \subseteq H, NEW S, S \subseteq H
    PROVE  \E f :
              /\ f[0] = S
              /\ \A n \in 0 .. Cardinality(H) : f[n] \subseteq H
              /\ \A n \in 1 .. Cardinality(H) :
                    f[n] = f[n - 1] \cup UNION {child[o] : o \in f[n - 1]}
              /\ Closure(S, child) = f[Cardinality(H)]
<1> DEFINE K == Cardinality(H)
           Grown(X) == X \cup UNION {child[o] : o \in X}
           Loop(f) == f = [n \in 0 .. K |-> IF n = 0 THEN S ELSE Grown(f[n - 1])]
           D == SUBSET H
<1>1. K \in Nat
  BY FS_CardinalityType
<1>2. \A X \in SUBSET H : Grown(X) \in SUBSET H
  OBVIOUS
<1> DEFINE F == Round(child)
<1>3. F \in [Int -> [D -> D]] /\ S \in D
      /\ \A n \in Int, X \in SUBSET H : F[n][X] = Grown(X)
  BY <1>1, <1>2 DEF Round, D
<1>a. Closure(S, child) = (CHOOSE f : Loop(f))[K]
  BY <1>1 DEF Closure
<1> HIDE DEF K, Grown, F, D
<1>4. PICK f \in [0 .. K -> D] : IsLoopUp(f, 0, K, S, F)
  BY <1>1, <1>3, RecursionUp
<1>5. ASSUME NEW n \in 0 .. K
      PROVE  f[n] = IF n = 0 THEN S ELSE Grown(f[n - 1])
  <2>1. f[n] = IF n = 0 THEN S ELSE F[n][f[n - 1]]
    BY <1>4 DEF IsLoopUp
  <2>2. n # 0 => n - 1 \in 0 .. K
    BY <1>1
  <2>3. f[n - 1] \in D \/ n = 0
    BY <1>4, <2>2
  <2> QED
    BY <1>3, <2>1, <2>3 DEF D
<1>6. Loop(f)
  BY <1>5
<1> DEFINE g == CHOOSE h : Loop(h)
<1>7. Loop(g)
  BY <1>6
<1> HIDE DEF g
<1>8. \A n \in 0 .. K : g[n] = IF n = 0 THEN S ELSE Grown(g[n - 1])
  BY <1>7
<1>9. 0 .. K \subseteq {n \in 0 .. K : g[n] \in SUBSET H}
  <2> DEFINE T == {n \in 0 .. K : g[n] \in SUBSET H}
  <2>1. 0 <= K => 0 \in T
    BY <1>1, <1>8
  <2>2. ASSUME NEW n \in 0 + 1 .. K, n - 1 \in T PROVE n \in T
    BY <1>2, <1>8, <2>2
  <2> HIDE DEF T
  <2>3. 0 .. K \subseteq T
    BY <1>1, <2>1, <2>2, UpwardInduction, SMTT(30)
  <2> QED
    BY <2>3 DEF T
<1>10. \A n \in 0 .. K : g[n] \subseteq H
  BY <1>9
<1>11. 0 \in 0 .. K /\ \A n \in 1 .. K : n \in 0 .. K /\ n # 0
  BY <1>1
<1>12. g[0] = S /\ \A n \in 1 .. K : g[n] = Grown(g[n - 1])
  BY <1>8, <1>11
<1>13. Closure(S, child) = g[K]
  BY <1>a DEF g
<1> QED
  BY <1>10, <1>12, <1>13 DEF K, Grown

\* The closure is the least set around S that no reference leaves: it is
\* inside of every such set,
LEMMA ClosureLeast ==
    ASSUME NEW H, IsFiniteSet(H), NEW child, DOMAIN child = H,
           \A o \in H : child[o] \subseteq H, NEW S, S \subseteq H,
           NEW C, S \subseteq C, \A o \in C \cap H : child[o] \subseteq C
    PROVE  Closure(S, child) \subseteq C
<1> DEFINE K == Cardinality(H)
<1>1. K \in Nat
  BY FS_CardinalityType
<1> HIDE DEF K
<1>2. PICK f :
         /\ \A n \in 0 .. K : f[n] \subseteq H
         /\ f[0] = S
         /\ \A n \in 1 .. K : f[n] = f[n - 1] \cup UNION {child[o] : o \in f[n - 1]}
         /\ Closure(S, child) = f[K]
  BY ClosureLoop DEF K
<1> DEFINE T == {n \in 0 .. K : f[n] \subseteq C}
<1>3. 0 <= K => 0 \in T
  BY <1>1, <1>2
<1>4. ASSUME NEW n \in 0 + 1 .. K, n - 1 \in T PROVE n \in T
  <2>1. n \in 1 .. K /\ n - 1 \in 0 .. K /\ f[n - 1] \subseteq C
        /\ f[n - 1] \subseteq H
    BY <1>1, <1>2, <1>4
  <2>2. UNION {child[o] : o \in f[n - 1]} \subseteq C
    BY <2>1
  <2> QED
    BY <1>1, <1>2, <2>1, <2>2
<1> HIDE DEF T
<1>5. 0 .. K \subseteq T
  BY <1>1, <1>3, <1>4, UpwardInduction
<1>6. K \in T
  BY <1>1, <1>5
<1> QED
  BY <1>2, <1>6 DEF T

\* it contains S, and no reference leaves it: each round that finds something
\* makes the set larger, and there are as many rounds as objects.
LEMMA ClosureClosed ==
    ASSUME NEW H, IsFiniteSet(H), NEW child, DOMAIN child = H,
           \A o \in H : child[o] \subseteq H, NEW S, S \subseteq H
    PROVE  /\ S \subseteq Closure(S, child) /\ Closure(S, child) \subseteq H
           /\ \A o \in Closure(S, child) : child[o] \subseteq Closure(S, child)
<1> DEFINE K == Cardinality(H)
           Out(X) == UNION {child[o] : o \in X}
<1>1. K \in Nat
  BY FS_CardinalityType
<1>2. \A X \in SUBSET H : IsFiniteSet(X) /\ Cardinality(X) \in Nat
  BY FS_Subset, FS_CardinalityType
<1>a. \A X \in SUBSET H : Cardinality(X) = K => X = H
  BY FS_Subset
<1>b. \A X, Y \in SUBSET H : X \subseteq Y /\ X # Y => Cardinality(X) < Cardinality(Y)
  <2> SUFFICES ASSUME NEW X \in SUBSET H, NEW Y \in SUBSET H, X \subseteq Y, X # Y
               PROVE  Cardinality(X) < Cardinality(Y)
    OBVIOUS
  <2>1. Cardinality(X) <= Cardinality(Y)
        /\ (Cardinality(X) = Cardinality(Y) => X = Y)
    BY <1>2, FS_Subset
  <2> QED
    BY <1>2, <2>1
<1>c. PICK f :
         /\ \A n \in 0 .. K : f[n] \subseteq H
         /\ f[0] = S
         /\ \A n \in 1 .. K : f[n] = f[n - 1] \cup Out(f[n - 1])
         /\ Closure(S, child) = f[K]
  BY ClosureLoop
<1>d. \A X \in SUBSET H : Out(X) \subseteq H
  OBVIOUS
<1>e. \A X : \A o \in X : child[o] \subseteq Out(X)
  OBVIOUS
<1>f. \A X \in SUBSET H : Cardinality(X) <= K
  BY FS_Subset
<1> HIDE DEF K, Out
<1> DEFINE T == {n \in 0 .. K : /\ S \subseteq f[n]
                               /\ (Out(f[n]) \subseteq f[n] \/ Cardinality(f[n]) >= n)}
<1>3. 0 <= K => 0 \in T
  BY <1>1, <1>2, <1>c
<1>4. ASSUME NEW n \in 0 + 1 .. K, n - 1 \in T PROVE n \in T
  <2>1. n \in 1 .. K /\ n \in 0 .. K /\ n - 1 \in 0 .. K
        /\ f[n] = f[n - 1] \cup Out(f[n - 1])
    BY <1>1, <1>c
  <2>2. CASE Out(f[n - 1]) \subseteq f[n - 1]
    <3>1. f[n] = f[n - 1]
      BY <2>1, <2>2
    <3> QED
      BY <1>4, <2>1, <2>2, <3>1
  <2>3. CASE ~(Out(f[n - 1]) \subseteq f[n - 1])
    <3>1. Cardinality(f[n - 1]) >= n - 1
      BY <1>4, <2>3
    <3>2. f[n - 1] \in SUBSET H /\ f[n] \in SUBSET H
      BY <1>c, <2>1
    <3>3. Cardinality(f[n - 1]) < Cardinality(f[n])
      BY <1>b, <2>1, <2>3, <3>2
    <3>4. Cardinality(f[n]) >= n
      BY <1>2, <3>1, <3>2, <3>3
    <3> QED
      BY <1>4, <2>1, <3>4
  <2> QED
    BY <2>2, <2>3
<1> HIDE DEF T
<1>5. 0 .. K \subseteq T
  BY <1>1, <1>3, <1>4, UpwardInduction
<1>6. K \in 0 .. K /\ f[K] \in SUBSET H /\ S \subseteq f[K]
      /\ (Out(f[K]) \subseteq f[K] \/ Cardinality(f[K]) >= K)
  BY <1>1, <1>5, <1>c DEF T
<1>7. Out(f[K]) \subseteq f[K]
  <2>1. CASE Cardinality(f[K]) >= K
    <3>1. Cardinality(f[K]) <= K
      BY <1>f, <1>6
    <3>2. f[K] = H
      BY <1>1, <1>2, <1>a, <1>6, <2>1, <3>1
    <3> QED
      BY <1>d, <3>2
  <2> QED
    BY <1>6, <2>1
<1> QED
  BY <1>6, <1>7, <1>c, <1>e

-----------------------------------------------------------------------------
(* The heap                                                                *)

\* What refers to nothing: an object not allocated yet, and a string.
EmptyInv ==
    /\ \A o \in Heap \ born : refs[o] = {} /\ slot[o] = NoObject
    /\ \A o \in Heap : kind[o] = "string" => refs[o] = {} /\ slot[o] = NoObject

LEMMA EmptyStep == TypeInv /\ EmptyInv /\ [Next]_vars => EmptyInv'
<1> SUFFICES ASSUME TypeInv, EmptyInv, [Next]_vars PROVE EmptyInv'
  OBVIOUS
<1>0. /\ refs \in [Heap -> SUBSET Heap] /\ slot \in [Heap -> Heap \cup {NoObject}]
      /\ Registry \in born /\ wrapped \subseteq born
      /\ Running \in born /\ kind[Running] = "thread" /\ Locals \subseteq born
  BY RunningThread DEF TypeInv, TypeOK
<1> DEFINE Quiet == /\ UNCHANGED <<kind, slot>> /\ born \subseteq born'
                    /\ \A x \in Heap : refs'[x] \subseteq refs[x]
                                      \/ (x \in born /\ kind[x] # "string")
<1>1. Quiet => EmptyInv'
  BY <1>0 DEF EmptyInv
<1> DEFINE Mounts == /\ UNCHANGED <<kind, refs, born>>
                     /\ \A x \in Heap : slot'[x] = slot[x]
                                       \/ (x \in born /\ kind[x] # "string")
<1>2. Mounts => EmptyInv'
  BY <1>0 DEF EmptyInv
<1>3. ASSUME NEW S, SetLocals(S), UNCHANGED <<kind, slot>>, born \subseteq born'
      PROVE  EmptyInv'
  BY <1>0, <1>1, <1>3 DEF SetLocals
<1>4. ASSUME NEW o \in Objects, Alloc(o) \/ Drop(o) PROVE EmptyInv'
  <2>1. CASE Alloc(o)
    BY <1>3, <2>1 DEF Alloc
  <2>2. CASE Drop(o)
    BY <1>3, <2>2 DEF Drop, collector
  <2> QED
    BY <1>4, <2>1, <2>2
<1>5. ASSUME NEW o \in Objects, Wrap(o) PROVE EmptyInv'
  BY <1>1, <1>5 DEF Wrap
<1>6. ASSUME NEW o \in Heap, NEW x \in Objects, Load(o, x) PROVE EmptyInv'
  BY <1>3, <1>6 DEF Load, collector
<1>7. ASSUME NEW t \in Heap, NEW x \in Objects, SetField(t, x) \/ EraseField(t, x)
      PROVE EmptyInv'
  <2>1. /\ t \in born /\ kind[t] # "string" /\ UNCHANGED <<kind, slot, born>>
        /\ \E S : refs' = [refs EXCEPT ![t] = S]
    BY <1>0, <1>7 DEF SetField, EraseField, InHand, IsTable, collector
  <2> QED
    BY <1>0, <1>1, <2>1
<1>8. ASSUME NEW o \in Objects, NEW x \in Objects,
             \/ SetMetatableFast(o, x) \/ SetMetatable(o, x) \/ SetClosureEnvAt(o, x)
             \/ CloseUpval(o, x) \/ WriteUpval(o, x)
      PROVE  EmptyInv'
  <2>1. /\ o \in born /\ kind[o] # "string" /\ UNCHANGED <<kind, refs, born>>
        /\ slot' = [slot EXCEPT ![o] = x]
    BY <1>0, <1>8
       DEF SetMetatableFast, SetMetatable, SetClosureEnvAt, CloseUpval, WriteUpval,
           collector
  <2> QED
    BY <1>0, <1>2, <2>1
<1>9. ASSUME NEW c \in Objects, NEW x \in Objects, Resume(c, x) PROVE EmptyInv'
  <2>1. /\ c \in born /\ kind[c] # "string" /\ UNCHANGED <<kind, slot, born>>
        /\ \E S : refs' = [refs EXCEPT ![c] = S]
    BY <1>0, <1>9 DEF Resume, collector
  <2> QED
    BY <1>0, <1>1, <2>1
<1>10. ASSUME AtomicEnd PROVE EmptyInv'
  <2>1. /\ UNCHANGED <<kind, slot, born>>
        /\ \A x \in Heap : refs'[x] \subseteq refs[x]
    BY <1>10 DEF AtomicEnd, Cleared
  <2> QED
    BY <1>1, <2>1
<1>11. CASE UNCHANGED <<kind, refs, slot, born>>
  BY <1>1, <1>11
<1>12. CASE Yield \/ FullGC \/ UNCHANGED vars
  BY <1>11, <1>12 DEF Yield, FullGC, collector, vars
<1>13. CASE MarkRoots \/ PropagateAgain \/ AtomicBegin \/ AtomicGrayAgain
  BY <1>11, <1>13 DEF MarkRoots, PropagateAgain, AtomicBegin, AtomicGrayAgain, gcKeeps
<1>14. ASSUME NEW o \in Heap, Propagate(o) \/ AtomicDrain(o) \/ SweepStep(o)
       PROVE  EmptyInv'
  BY <1>11, <1>14 DEF Propagate, AtomicDrain, SweepStep, gcKeeps
<1>15. ASSUME NEW t \in Objects, NEW items, NEW over, SetList(t, items, over)
       PROVE EmptyInv'
  <2>1. /\ t \in born /\ kind[t] # "string" /\ UNCHANGED <<kind, slot, born>>
        /\ \E S : refs' = [refs EXCEPT ![t] = S]
    BY <1>15, SetListChanges DEF collector
  <2> QED
    BY <1>0, <1>1, <2>1
<1> QED
  BY <1>4, <1>5, <1>6, <1>7, <1>8, <1>9, <1>10, <1>12, <1>13, <1>14, <1>15
     DEF Next, Mutate, Collect

\* Only weak tables are listed to be cleared, grayAgain stays empty once
\* atomic() has taken it over, and while the collector marks, no object it
\* manages has the colour of the last cycle's garbage.
ListInv ==
    /\ \A i \in 1 .. Len(weak) : kind[weak[i]] = "weak"
    /\ inAtomic = "grayAgain" => grayAgain = {}
    /\ phase \in Marking => \A o \in linked : mark[o] # OtherWhite

\* What a cut leaves of a list was on it.
LEMMA CutBehindKeeps ==
    ASSUME NEW S, NEW list \in Seq(S), NEW t
    PROVE  \A i \in 1 .. Len(CutBehind(list, t)) :
              i \in 1 .. Len(list) /\ CutBehind(list, t)[i] = list[i]
<1>1. CASE Contains(list, t)
  <2>1. PICK i \in 1 .. Len(list) : list[i] = t
    BY <1>1 DEF Contains
  <2>2. (CHOOSE j \in 1 .. Len(list) : list[j] = t) \in 1 .. Len(list)
    BY <2>1
  <2>3. ASSUME NEW j \in 1 .. Len(list)
        PROVE  \A k \in 1 .. Len(SubSeq(list, 1, j)) :
                  k \in 1 .. Len(list) /\ SubSeq(list, 1, j)[k] = list[k]
    OBVIOUS
  <2> QED
    BY <1>1, <2>2, <2>3 DEF CutBehind
<1>2. CASE ~Contains(list, t)
  BY <1>2 DEF CutBehind
<1> QED
  BY <1>1, <1>2

\* propagateMark lists what is weak, and marks with no white.
LEMMA PropagateMarkLists ==
    ASSUME TypeInv, ListInv, NEW o \in gray, PropagateMark(o),
           phase \in Marking, UNCHANGED <<kind, white, linked>>,
           inAtomic' = "grayAgain" => inAtomic = "grayAgain", grayAgain' = grayAgain
    PROVE  ListInv'
<1>1. o \in Heap /\ weak \in Seq(Heap) /\ linked \subseteq Heap
  BY DEF TypeInv, TypeOK
<1>2. OtherWhite' = OtherWhite /\ OtherWhite # "gray" /\ OtherWhite # "black"
  BY OtherWhiteType, WhiteOnly DEF OtherWhite, TypeInv, TypeOK
<1>3. \A x \in Heap : mark'[x] \in {"gray", "black", mark[x]}
  BY DEF PropagateMark
<1>4. \A x \in linked' : mark'[x] # OtherWhite'
  BY <1>1, <1>2, <1>3 DEF ListInv
<1>5. \A i \in 1 .. Len(weak') : kind'[weak'[i]] = "weak"
  <2>1. CASE kind[o] = "weak"
    <3>1. weak' = <<o>> \o weak
      BY <2>1 DEF PropagateMark
    <3>2. \A i \in 1 .. Len(<<o>> \o weak) :
             (<<o>> \o weak)[i] = IF i = 1 THEN o ELSE weak[i - 1]
      BY <1>1
    <3>3. Len(<<o>> \o weak) = Len(weak) + 1
      BY <1>1
    <3> QED
      BY <1>1, <2>1, <3>1, <3>2, <3>3 DEF ListInv
  <2>2. CASE kind[o] # "weak"
    BY <2>2 DEF PropagateMark, ListInv
  <2> QED
    BY <2>1, <2>2
<1> QED
  BY <1>4, <1>5 DEF ListInv

LEMMA BarrierLists ==
    ASSUME TypeInv, ListInv, NEW t \in born, NEW x, UNCHANGED collector,
           BarrierTable(t, x) \/ Barrier(t, x), inAtomic = "no"
    PROVE  ListInv'
<1>1. weak \in Seq(Heap) /\ t \in Heap /\ mark \in [Heap -> Colours]
      /\ linked \subseteq Heap
  BY DEF TypeInv, TypeOK, Colours
<1>2. OtherWhite' = OtherWhite /\ OtherWhite # "gray"
  BY OtherWhiteType, WhiteOnly DEF OtherWhite, TypeInv, TypeOK, collector
<1>3. /\ weak' \in {weak, CutBehind(weak, t)}
      /\ \A o \in Heap : mark'[o] \in {"gray", mark[o]}
  BY <1>1 DEF BarrierTable, Barrier, marks
<1>4. \A i \in 1 .. Len(weak') : kind[weak'[i]] = "weak"
  <2>1. \A i \in 1 .. Len(CutBehind(weak, t)) :
           i \in 1 .. Len(weak) /\ CutBehind(weak, t)[i] = weak[i]
    BY <1>1, CutBehindKeeps
  <2> QED
    BY <1>3, <2>1 DEF ListInv
<1> QED
  BY <1>1, <1>2, <1>3, <1>4 DEF ListInv, collector

LEMMA ListStep == TypeInv /\ ColourInv /\ ListInv /\ [Next]_vars => ListInv'
<1> SUFFICES ASSUME TypeInv, ColourInv, ListInv, [Next]_vars PROVE ListInv'
  OBVIOUS
<1>0. /\ linked \subseteq Heap /\ white \in Whites /\ Locals \subseteq born
      /\ Registry \in born /\ mark \in [Heap -> Colours]
  BY RunningThread DEF TypeInv, TypeOK, Colours
<1>1. OtherWhite \in Whites /\ OtherWhite # white
  BY <1>0, OtherWhiteType
<1> DEFINE Quiet == /\ UNCHANGED <<kind, white, weak, grayAgain, mark, linked>>
                    /\ inAtomic' = "grayAgain" => inAtomic = "grayAgain"
                    /\ phase' \in Marking => phase \in Marking
<1>2. Quiet => ListInv'
  BY DEF ListInv, OtherWhite
<1>3. ASSUME NEW o \in Objects, Alloc(o) \/ Wrap(o) PROVE ListInv'
  <2>1. /\ linked' = linked \cup {o} /\ mark' = [mark EXCEPT ![o] = white]
        /\ UNCHANGED <<kind, white, weak, grayAgain, inAtomic, phase>>
    BY <1>3 DEF Alloc, Wrap
  <2>2. \A x \in linked' : mark'[x] = white \/ (mark'[x] = mark[x] /\ x \in linked)
    BY <1>0, <2>1 DEF Heap
  <2> QED
    BY <1>1, <2>1, <2>2 DEF ListInv, OtherWhite
<1>4. ASSUME NEW o \in Objects, Drop(o) PROVE ListInv'
  BY <1>2, <1>4 DEF Drop, collector, marks
<1>5. ASSUME NEW o \in Heap, NEW x \in Objects, Load(o, x) \/ EraseField(o, x)
      PROVE ListInv'
  BY <1>2, <1>5 DEF Load, EraseField, collector, marks
<1>6. ASSUME NEW t \in Heap, NEW x \in Objects, SetField(t, x) PROVE ListInv'
  BY <1>0, <1>6, BarrierLists DEF SetField, InHand, MutatorRuns
<1>7. ASSUME NEW o \in Objects, NEW x \in Objects,
             SetMetatableFast(o, x) \/ WriteUpval(o, x)
      PROVE  ListInv'
  <2>1. /\ o \in born /\ UNCHANGED collector /\ inAtomic = "no"
        /\ BarrierTable(o, x) \/ Barrier(o, x)
    BY <1>0, <1>7 DEF SetMetatableFast, WriteUpval, MutatorRuns
  <2> QED
    BY <2>1, BarrierLists
<1>8. ASSUME NEW o \in Objects, NEW x \in Objects,
             \/ SetMetatable(o, x) \/ SetClosureEnvAt(o, x)
             \/ CloseUpval(o, x) \/ Resume(o, x)
      PROVE  ListInv'
  BY <1>2, <1>8
     DEF SetMetatable, SetClosureEnvAt, CloseUpval, Resume, collector, marks
<1>9. CASE Yield \/ FullGC \/ UNCHANGED vars
  BY <1>2, <1>9 DEF Yield, FullGC, collector, marks, vars
<1>10. CASE MarkRoots
  <2>1. phase = "pause" /\ inAtomic = "no"
    BY <1>10 DEF MarkRoots, ColourInv
  <2>2. \A o \in linked : mark[o] = white
    BY <2>1 DEF ColourInv, CleanSlate
  <2>3. /\ \A o \in Heap : mark'[o] \in {"gray", mark[o]}
        /\ UNCHANGED <<kind, linked, white, inAtomic>> /\ weak' = <<>>
    BY <1>10 DEF MarkRoots, gcKeeps
  <2>4. \A o \in linked' : mark'[o] # OtherWhite'
    BY <1>0, <1>1, <2>2, <2>3, WhiteOnly DEF OtherWhite
  <2> QED
    BY <2>1, <2>3, <2>4 DEF ListInv
<1>11. ASSUME NEW o \in Heap, Propagate(o) PROVE ListInv'
  <2>1. o \in gray /\ PropagateMark(o) /\ phase \in Marking
        /\ UNCHANGED <<kind, white, linked, inAtomic, grayAgain>>
    BY <1>11 DEF Propagate, Pick, Marking, gcKeeps
  <2> QED
    BY <2>1, PropagateMarkLists
<1>12. CASE PropagateAgain
  <2>1. phase \in Marking /\ UNCHANGED <<kind, white, linked, inAtomic, grayAgain>>
    BY <1>12 DEF PropagateAgain, Marking, gcKeeps
  <2>2. CASE UNCHANGED <<mark, gray, weak, bare>>
    BY <1>2, <2>1, <2>2
  <2>3. ASSUME NEW o \in Pick(gray), PropagateMark(o) PROVE ListInv'
    <3>1. o \in gray
      BY <2>3 DEF Pick
    <3> QED
      BY <2>1, <2>3, <3>1, PropagateMarkLists
  <2> QED
    BY <1>12, <2>2, <2>3 DEF PropagateAgain
<1>13. CASE AtomicBegin
  BY <1>2, <1>13 DEF AtomicBegin, gcKeeps, marks
<1>14. ASSUME NEW o \in Heap, AtomicDrain(o) PROVE ListInv'
  <2>1. o \in gray /\ PropagateMark(o) /\ phase \in Marking
        /\ UNCHANGED <<kind, white, linked, inAtomic, grayAgain>>
    BY <1>14 DEF AtomicDrain, Pick, Marking, gcKeeps, ColourInv
  <2> QED
    BY <2>1, PropagateMarkLists
<1>15. CASE AtomicGrayAgain
  BY <1>15 DEF AtomicGrayAgain, gcKeeps, ListInv, OtherWhite
<1>16. CASE AtomicEnd
  BY <1>16 DEF AtomicEnd, ListInv, Marking
<1>17. ASSUME NEW o \in Heap, SweepStep(o) PROVE ListInv'
  <2>1. phase = "sweep" /\ phase' \notin Marking /\ UNCHANGED <<kind, weak, grayAgain>>
        /\ inAtomic' = inAtomic
    BY <1>17 DEF SweepStep, gcKeeps, Marking
  <2> QED
    BY <2>1 DEF ListInv
<1>18. ASSUME NEW t \in Objects, NEW items, NEW over, SetList(t, items, over)
       PROVE ListInv'
  BY <1>2, <1>18 DEF SetList, collector, marks
<1> QED
  BY <1>3, <1>4, <1>5, <1>6, <1>7, <1>8, <1>9, <1>10, <1>11, <1>12, <1>13, <1>14,
     <1>15, <1>16, <1>17, <1>18 DEF Next, Mutate, Collect

HeapInv == TypeInv /\ ColourInv /\ EmptyInv /\ ListInv

LEMMA HeapInit == Init => HeapInv
<1>1. Init => EmptyInv /\ ListInv
  BY DEF Init, EmptyInv, ListInv, Marking
<1> QED
  BY <1>1, TypeInit, ColourInit DEF HeapInv

LEMMA HeapStep == HeapInv /\ [Next]_vars => HeapInv'
BY TypeStep, ColourStep, EmptyStep, ListStep DEF HeapInv

-----------------------------------------------------------------------------
(* What a cautious program can reach                                       *)

\* With the collector stopped, it only works inside of a full collection.
SoloInv == ~ticks => job # "finish" /\ (job = "none" => phase = "pause")

LEMMA SoloStep == TypeInv /\ ColourInv /\ SoloInv /\ [Next]_vars => SoloInv'
<1> SUFFICES ASSUME TypeInv, ColourInv, SoloInv, [Next]_vars PROVE SoloInv'
  OBVIOUS
<1>1. CASE UNCHANGED <<ticks, job, phase>>
  BY <1>1 DEF SoloInv
<1>2. CASE FullGC \/ MarkRoots
  BY <1>2 DEF FullGC, MarkRoots, gcKeeps, SoloInv, Steps, MutatorRuns
<1>3. ASSUME NEW o \in Heap, Propagate(o) \/ SweepStep(o) PROVE SoloInv'
  BY <1>3 DEF Propagate, SweepStep, gcKeeps, SoloInv, Steps
<1>4. CASE PropagateAgain \/ AtomicEnd
  BY <1>4 DEF PropagateAgain, AtomicEnd, gcKeeps, SoloInv, Steps, ColourInv
<1>5. CASE Yield \/ AtomicBegin \/ AtomicGrayAgain \/ UNCHANGED vars
  BY <1>1, <1>5 DEF Yield, AtomicBegin, AtomicGrayAgain, gcKeeps, collector, vars
<1>6. ASSUME NEW o \in Objects, Alloc(o) \/ Drop(o) \/ Wrap(o) PROVE SoloInv'
  BY <1>1, <1>6 DEF Alloc, Drop, Wrap, collector
<1>7. ASSUME NEW o \in Heap, NEW x \in Objects,
             Load(o, x) \/ SetField(o, x) \/ EraseField(o, x)
      PROVE  SoloInv'
  BY <1>1, <1>7 DEF Load, SetField, EraseField, collector
<1>8. ASSUME NEW o \in Objects, NEW x \in Objects,
             \/ SetMetatableFast(o, x) \/ SetMetatable(o, x) \/ SetClosureEnvAt(o, x)
             \/ CloseUpval(o, x) \/ WriteUpval(o, x) \/ Resume(o, x)
      PROVE  SoloInv'
  BY <1>1, <1>8
     DEF SetMetatableFast, SetMetatable, SetClosureEnvAt, CloseUpval, WriteUpval,
         Resume, collector
<1>9. ASSUME NEW o \in Heap, AtomicDrain(o) PROVE SoloInv'
  BY <1>1, <1>9 DEF AtomicDrain, gcKeeps
<1>10. ASSUME NEW t \in Objects, NEW items, NEW over, SetList(t, items, over)
       PROVE SoloInv'
  BY <1>1, <1>10 DEF SetList, collector
<1> QED
  BY <1>2, <1>3, <1>4, <1>5, <1>6, <1>7, <1>8, <1>9, <1>10 DEF Next, Mutate, Collect

\* A program that is cautious after a step was so before.
LEMMA CautiousBefore == [Next]_vars /\ Cautious' => Cautious
<1> SUFFICES ASSUME [Next]_vars, Cautious' PROVE Cautious
  OBVIOUS
<1>1. CASE UNCHANGED <<ticks, wrapped>>
  BY <1>1 DEF Cautious
<1>2. CASE Yield \/ FullGC \/ UNCHANGED vars
  BY <1>1, <1>2 DEF Yield, FullGC, collector, threads, vars
<1>3. CASE MarkRoots \/ PropagateAgain \/ AtomicBegin \/ AtomicGrayAgain \/ AtomicEnd
  BY <1>1, <1>3
     DEF MarkRoots, PropagateAgain, AtomicBegin, AtomicGrayAgain, AtomicEnd, gcKeeps
<1>4. ASSUME NEW o \in Heap, Propagate(o) \/ AtomicDrain(o) \/ SweepStep(o)
      PROVE  Cautious
  BY <1>1, <1>4 DEF Propagate, AtomicDrain, SweepStep, gcKeeps
<1>5. ASSUME NEW o \in Objects, Alloc(o) \/ Drop(o) \/ Wrap(o) PROVE Cautious
  BY <1>5 DEF Alloc, Drop, Wrap, collector, threads, Cautious
<1>6. ASSUME NEW o \in Heap, NEW x \in Objects,
             Load(o, x) \/ SetField(o, x) \/ EraseField(o, x)
      PROVE  Cautious
  BY <1>1, <1>6 DEF Load, SetField, EraseField, collector, threads
<1>7. ASSUME NEW o \in Objects, NEW x \in Objects,
             \/ SetMetatableFast(o, x) \/ SetMetatable(o, x) \/ SetClosureEnvAt(o, x)
             \/ CloseUpval(o, x) \/ WriteUpval(o, x) \/ Resume(o, x)
      PROVE  Cautious
  BY <1>1, <1>7
     DEF SetMetatableFast, SetMetatable, SetClosureEnvAt, CloseUpval, WriteUpval,
         Resume, collector, threads
<1>8. ASSUME NEW t \in Objects, NEW items, NEW over, SetList(t, items, over)
      PROVE Cautious
  BY <1>1, <1>8 DEF SetList, collector, threads
<1> QED
  BY <1>2, <1>3, <1>4, <1>5, <1>6, <1>7, <1>8 DEF Next, Mutate, Collect

\* The threads that resumed one another start at the main thread, and each
\* one's stack holds the next: the resumer keeps the thread it resumes.
ChainLinked ==
    /\ chain[1] = MainThread
    /\ \A i, j \in 1 .. Len(chain) : chain[i] = chain[j] => i = j
    /\ \A i \in 1 .. Len(chain) - 1 : chain[i + 1] \in refs[chain[i]]

LEMMA ChainStep ==
    TypeInv /\ ListInv /\ ChainLinked /\ [Next]_vars /\ Cautious' => ChainLinked'
<1> SUFFICES ASSUME TypeInv, ListInv, ChainLinked, [Next]_vars, Cautious'
             PROVE  ChainLinked'
  OBVIOUS
<1>0. /\ chain \in Seq(Heap) /\ chain # <<>> /\ Len(chain) \in Nat
      /\ refs \in [Heap -> SUBSET Heap]
      /\ \A i \in 1 .. Len(chain) : chain[i] \in Heap /\ kind[chain[i]] = "thread"
  BY DEF TypeInv, TypeOK
<1>1. ASSUME UNCHANGED chain,
             \A i \in 1 .. Len(chain) - 1 : refs'[chain[i]] = refs[chain[i]]
      PROVE  ChainLinked'
  BY <1>1 DEF ChainLinked
<1>2. CASE UNCHANGED <<chain, refs>>
  BY <1>1, <1>2
<1>3. ASSUME NEW S, SetLocals(S), UNCHANGED chain PROVE ChainLinked'
  <2>1. Running = chain[Len(chain)]
    BY DEF Running, Last
  <2>2. \A i \in 1 .. Len(chain) - 1 : chain[i] # Running
    BY <1>0, <2>1 DEF ChainLinked
  <2>3. refs' = [refs EXCEPT ![Running] = S]
    BY <1>3 DEF SetLocals
  <2>4. \A i \in 1 .. Len(chain) - 1 : refs'[chain[i]] = refs[chain[i]]
    BY <1>0, <2>2, <2>3
  <2> QED
    BY <1>1, <1>3, <2>4
<1>4. ASSUME NEW o \in Objects, Alloc(o) PROVE ChainLinked'
  BY <1>3, <1>4 DEF Alloc, threads
<1>5. ASSUME NEW o \in Objects, Drop(o) PROVE ChainLinked'
  BY <1>3, <1>5 DEF Drop, threads
<1>6. ASSUME NEW o \in Heap, NEW x \in Objects, Load(o, x) PROVE ChainLinked'
  BY <1>3, <1>6 DEF Load, threads
<1>7. ASSUME NEW o \in Objects, Wrap(o) PROVE ChainLinked'
  BY <1>2, <1>7 DEF Wrap
<1>8. ASSUME NEW t \in Heap, NEW x \in Objects, SetField(t, x) \/ EraseField(t, x)
      PROVE  ChainLinked'
  <2>1. /\ IsTable(t) /\ UNCHANGED chain
        /\ \A y \in Heap : y # t => refs'[y] = refs[y]
    BY <1>0, <1>8 DEF SetField, EraseField, threads
  <2>2. \A i \in 1 .. Len(chain) - 1 : chain[i] # t
    BY <1>0, <2>1 DEF IsTable
  <2> QED
    BY <1>0, <1>1, <2>1, <2>2
<1>9. ASSUME NEW o \in Objects, NEW x \in Objects,
             \/ SetMetatableFast(o, x) \/ SetMetatable(o, x) \/ SetClosureEnvAt(o, x)
             \/ CloseUpval(o, x) \/ WriteUpval(o, x)
      PROVE  ChainLinked'
  BY <1>2, <1>9
     DEF SetMetatableFast, SetMetatable, SetClosureEnvAt, CloseUpval, WriteUpval,
         threads
<1>10. ASSUME NEW c \in Objects, NEW x \in Objects, Resume(c, x) PROVE ChainLinked'
  <2>1. /\ c \in Locals /\ chain' = Append(chain, c) /\ c \in Heap
        /\ \A i \in 1 .. Len(chain) : chain[i] # c
    <3>1. wrapped = {}
      BY CautiousBefore DEF Cautious
    <3> QED
      BY <1>10, <3>1 DEF Resume, Contains, Heap
  <2>2. \A y \in Heap : y # c => refs'[y] = refs[y]
    BY <1>0, <1>10 DEF Resume
  <2>3. /\ Len(chain') = Len(chain) + 1 /\ chain'[Len(chain) + 1] = c
        /\ \A i \in 1 .. Len(chain) : chain'[i] = chain[i]
    BY <1>0, <2>1
  <2>4. c \in refs[chain[Len(chain)]]
    BY <2>1 DEF Locals, Running, Last
  <2>5. ASSUME NEW i \in 1 .. Len(chain') - 1
        PROVE  chain'[i + 1] \in refs'[chain'[i]]
    <3>1. i \in 1 .. Len(chain) /\ refs'[chain'[i]] = refs[chain[i]]
      BY <1>0, <2>1, <2>2, <2>3
    <3>2. CASE i = Len(chain)
      BY <2>3, <2>4, <3>1, <3>2
    <3>3. CASE i # Len(chain)
      <4>1. i \in 1 .. Len(chain) - 1 /\ i + 1 \in 1 .. Len(chain)
        BY <1>0, <3>1, <3>3
      <4> QED
        BY <2>3, <3>1, <4>1 DEF ChainLinked
    <3> QED
      BY <3>2, <3>3
  <2>6. chain'[1] = MainThread
    <3>1. 1 \in 1 .. Len(chain)
      BY <1>0
    <3> QED
      BY <2>3, <3>1 DEF ChainLinked
  <2>7. \A i, j \in 1 .. Len(chain') : chain'[i] = chain'[j] => i = j
    <3>1. \A i \in 1 .. Len(chain') : i \in 1 .. Len(chain) \/ i = Len(chain) + 1
      BY <1>0, <2>3
    <3> QED
      BY <2>1, <2>3, <3>1 DEF ChainLinked
  <2> QED
    BY <2>5, <2>6, <2>7 DEF ChainLinked
<1>11. CASE Yield
  <2>1. Len(chain) > 1 /\ chain' = SubSeq(chain, 1, Len(chain) - 1) /\ refs' = refs
    BY <1>11 DEF Yield, Front
  <2>2. /\ Len(chain') = Len(chain) - 1
        /\ \A i \in 1 .. Len(chain) - 1 : chain'[i] = chain[i]
    BY <1>0, <2>1
  <2>3. \A i \in 1 .. Len(chain') : i \in 1 .. Len(chain) /\ i \in 1 .. Len(chain) - 1
    BY <1>0, <2>2
  <2>4. \A i \in 1 .. Len(chain') - 1 :
           i + 1 \in 1 .. Len(chain) - 1 /\ i \in 1 .. Len(chain) - 1
    BY <1>0, <2>2
  <2>5. 1 \in 1 .. Len(chain) - 1
    BY <1>0, <2>1
  <2> QED
    BY <2>1, <2>2, <2>3, <2>4, <2>5 DEF ChainLinked
<1>12. CASE FullGC \/ MarkRoots \/ PropagateAgain \/ AtomicBegin \/ AtomicGrayAgain
            \/ UNCHANGED vars
  BY <1>2, <1>12 DEF FullGC, threads, MarkRoots, PropagateAgain, AtomicBegin,
     AtomicGrayAgain, gcKeeps, vars
<1>13. ASSUME NEW o \in Heap, Propagate(o) \/ AtomicDrain(o) \/ SweepStep(o)
       PROVE  ChainLinked'
  BY <1>2, <1>13 DEF Propagate, AtomicDrain, SweepStep, gcKeeps
<1>14. CASE AtomicEnd
  <2>1. \A t \in ToSet(weak) : kind[t] = "weak"
    <3>1. weak \in Seq(Heap)
      BY DEF TypeInv, TypeOK
    <3> QED
      BY <3>1 DEF ListInv, ToSet
  <2>2. \A i \in 1 .. Len(chain) - 1 : chain[i] \in Heap /\ chain[i] \notin ToSet(weak)
    BY <1>0, <2>1
  <2>3. /\ UNCHANGED chain
        /\ \A t \in Heap \ ToSet(weak) : refs'[t] = refs[t]
    BY <1>14 DEF AtomicEnd
  <2> QED
    BY <1>1, <2>2, <2>3
<1>15. ASSUME NEW t \in Objects, NEW items, NEW over, SetList(t, items, over)
       PROVE ChainLinked'
  <2>1. /\ kind[t] # "thread" /\ UNCHANGED chain
        /\ \A y \in Heap : y # t => refs'[y] = refs[y]
    BY <1>15, SetListChanges DEF threads
  <2>2. \A i \in 1 .. Len(chain) - 1 : chain[i] # t
    BY <1>0, <2>1
  <2> QED
    BY <1>0, <1>1, <2>1, <2>2
<1> QED
  BY <1>4, <1>5, <1>6, <1>7, <1>8, <1>9, <1>10, <1>11, <1>12, <1>13, <1>14, <1>15
     DEF Next, Mutate, Collect

\* What the sweep in progress is not going to take off the list, and that it
\* holds whatever it refers to, weakly too.
Held == IF phase = "sweep" THEN {o \in linked : ~IsDead(o)} ELSE linked

HeldClosed ==
    /\ {MainThread, Registry} \subseteq Held
    /\ \A o \in Held : refs[o] \cup Slot(o) \subseteq Held

\* What was marked: its references were too, and it is listed if it is weak.
MarksClosed ==
    phase \in Marking =>
        /\ grayAgain = {}
        /\ \A o \in linked : mark[o] = "black" =>
              /\ \A x \in Children(o) : ~IsWhite(x)
              /\ kind[o] = "weak" => o \in ToSet(weak)

LiveInv == Cautious => ChainLinked /\ HeldClosed /\ MarksClosed

\* The threads of the chain are held, from the main thread on.
LEMMA ChainHeld ==
    TypeInv /\ ChainLinked /\ HeldClosed => \A i \in 1 .. Len(chain) : chain[i] \in Held
<1> SUFFICES ASSUME TypeInv, ChainLinked, HeldClosed
             PROVE  \A i \in 1 .. Len(chain) : chain[i] \in Held
  OBVIOUS
<1> DEFINE T == {i \in 1 .. Len(chain) : chain[i] \in Held}
<1>1. Len(chain) \in Int /\ 1 \in Int
  BY DEF TypeInv, TypeOK
<1>2. 1 <= Len(chain) => 1 \in T
  BY <1>1 DEF ChainLinked, HeldClosed
<1>3. ASSUME NEW i \in 1 + 1 .. Len(chain), i - 1 \in T PROVE i \in T
  <2>1. i - 1 \in 1 .. Len(chain) - 1 /\ (i - 1) + 1 = i /\ i \in 1 .. Len(chain)
    BY <1>1
  <2>2. chain[(i - 1) + 1] \in refs[chain[i - 1]]
    BY <2>1 DEF ChainLinked
  <2> QED
    BY <1>3, <2>1, <2>2 DEF HeldClosed
<1> HIDE DEF T
<1>4. 1 .. Len(chain) \subseteq T
  BY <1>1, <1>2, <1>3, UpwardInduction
<1> QED
  BY <1>4 DEF T

\* A step of the program: it runs only between two collections, and stores
\* what it holds.
LEMMA MutatorHolds ==
    ASSUME HeapInv, SoloInv, Cautious, ChainLinked, HeldClosed, Mutate, Cautious'
    PROVE  HeldClosed' /\ MarksClosed'
<1>0. /\ linked \subseteq born /\ born \subseteq Heap
      /\ refs \in [Heap -> SUBSET Heap] /\ slot \in [Heap -> Heap \cup {NoObject}]
      /\ \A x \in Heap \ born : refs[x] = {} /\ slot[x] = NoObject
      /\ Objects \subseteq Heap /\ Running \in Heap /\ Running \in born
  BY RunningThread DEF HeapInv, TypeInv, TypeOK, EmptyInv, Heap
<1>1. /\ phase = "pause" /\ MutatorRuns
  <2>1. MutatorRuns
    BY ZenonT(60)
       DEF Mutate, Alloc, Drop, Wrap, Load, SetField, SetList, EraseField,
           SetMetatableFast, SetMetatable, SetClosureEnvAt, CloseUpval, WriteUpval,
           Resume, Yield, FullGC
  <2> QED
    BY <2>1 DEF MutatorRuns, SoloInv, Cautious
<1>2. /\ Held = linked /\ {MainThread, Registry} \subseteq linked
      /\ \A x \in linked : refs[x] \subseteq linked
      /\ \A x \in linked : slot[x] \in linked \cup {NoObject}
  BY <1>1 DEF Held, HeldClosed, Slot
<1>3. Running \in linked /\ Locals \subseteq linked /\ InHand \subseteq linked
  <2>1. Len(chain) \in 1 .. Len(chain) /\ Running = chain[Len(chain)]
    BY DEF HeapInv, TypeInv, TypeOK, Running, Last
  <2>2. Running \in linked
    BY <1>2, <2>1, ChainHeld DEF HeapInv
  <2> QED
    BY <1>2, <2>2 DEF Locals, InHand
<1>4. ASSUME phase' = "pause", linked \subseteq linked',
             \A o \in linked' \ linked : refs'[o] = {} /\ slot'[o] = NoObject,
             \A o \in linked : refs'[o] \subseteq refs[o] \cup linked',
             \A o \in linked : slot'[o] \in linked' \cup {NoObject, slot[o]}
      PROVE  HeldClosed' /\ MarksClosed'
  <2>1. Held' = linked'
    BY <1>4 DEF Held
  <2>2. \A o \in linked' : refs'[o] \subseteq linked' /\ Slot(o)' \subseteq linked'
    BY <1>2, <1>4 DEF Slot
  <2>3. MarksClosed'
    BY <1>4 DEF MarksClosed, Marking
  <2> QED
    BY <1>2, <1>4, <2>1, <2>2, <2>3 DEF HeldClosed
<1>5. CASE UNCHANGED <<phase, linked, refs, slot>>
  BY <1>1, <1>4, <1>5
<1>6. ASSUME NEW o \in Objects, Alloc(o) PROVE HeldClosed' /\ MarksClosed'
  <2>1. /\ o \notin born /\ linked' = linked \cup {o} /\ UNCHANGED <<phase, slot>>
        /\ refs' = [refs EXCEPT ![Running] = Locals \cup {o}]
    BY <1>6 DEF Alloc, SetLocals
  <2>2. \A x \in Heap : refs'[x] = IF x = Running THEN Locals \cup {o} ELSE refs[x]
    BY <1>0, <2>1
  <2>3. o # Running /\ refs'[o] = {} /\ slot'[o] = NoObject
    BY <1>0, <2>1, <2>2
  <2>4. \A x \in linked : refs'[x] \subseteq refs[x] \cup linked'
    BY <1>0, <1>3, <2>1, <2>2
  <2> QED
    BY <1>1, <1>4, <2>1, <2>3, <2>4
<1>7. ASSUME NEW S, SetLocals(S), S \subseteq linked, UNCHANGED <<phase, linked, slot>>
      PROVE  HeldClosed' /\ MarksClosed'
  <2>1. \A x \in linked : refs'[x] \subseteq refs[x] \cup linked'
    BY <1>0, <1>7 DEF SetLocals
  <2> QED
    BY <1>1, <1>4, <1>7, <2>1
<1>8. ASSUME NEW o \in Objects, Drop(o) PROVE HeldClosed' /\ MarksClosed'
  BY <1>3, <1>7, <1>8 DEF Drop, collector
<1>9. ASSUME NEW o \in Objects, Wrap(o) PROVE FALSE
  BY <1>9 DEF Wrap, Cautious
<1>10. ASSUME NEW o \in Heap, NEW x \in Objects, Load(o, x)
       PROVE  HeldClosed' /\ MarksClosed'
  <2>1. x \in linked
    BY <1>0, <1>2, <1>3, <1>10, HeapAssumption DEF Load
  <2> QED
    BY <1>3, <1>7, <1>10, <2>1 DEF Load, collector
<1>11. ASSUME NEW t \in Heap, NEW x \in Objects, SetField(t, x) \/ EraseField(t, x)
       PROVE  HeldClosed' /\ MarksClosed'
  <2>1. UNCHANGED <<phase, linked, slot>>
    BY <1>11 DEF SetField, EraseField, collector
  <2>2. \A y \in linked : refs'[y] \subseteq refs[y] \cup linked'
    BY <1>0, <1>3, <1>11, <2>1 DEF SetField, EraseField
  <2> QED
    BY <1>1, <1>4, <2>1, <2>2
<1>12. ASSUME NEW o \in Objects, NEW x \in Objects,
              \/ SetMetatableFast(o, x) \/ SetMetatable(o, x) \/ SetClosureEnvAt(o, x)
              \/ CloseUpval(o, x) \/ WriteUpval(o, x)
       PROVE  HeldClosed' /\ MarksClosed'
  <2>1. /\ x \in Locals /\ slot' = [slot EXCEPT ![o] = x]
        /\ UNCHANGED <<phase, linked, refs>>
    BY <1>12
       DEF SetMetatableFast, SetMetatable, SetClosureEnvAt, CloseUpval, WriteUpval,
           collector
  <2>2. \A y \in linked : slot'[y] \in linked' \cup {NoObject, slot[y]}
    BY <1>0, <1>3, <2>1
  <2> QED
    BY <1>1, <1>4, <2>1, <2>2
<1>13. ASSUME NEW c \in Objects, NEW x \in Objects, Resume(c, x)
       PROVE  HeldClosed' /\ MarksClosed'
  <2>1. x \in Locals /\ UNCHANGED <<phase, linked, slot>>
        /\ refs' = [refs EXCEPT ![c] = @ \cup {x}]
    BY <1>13 DEF Resume, collector
  <2>2. \A y \in linked : refs'[y] \subseteq refs[y] \cup linked'
    BY <1>0, <1>3, <2>1
  <2> QED
    BY <1>1, <1>4, <2>1, <2>2
<1>14. CASE Yield \/ FullGC
  BY <1>5, <1>14 DEF Yield, FullGC, collector
<1>15. ASSUME NEW t \in Objects, NEW items, NEW over, SetList(t, items, over)
       PROVE  HeldClosed' /\ MarksClosed'
  <2>1. /\ items \subseteq Locals /\ UNCHANGED <<phase, linked, slot>>
        /\ \A y \in Heap : refs'[y] \subseteq refs[y] \cup items
    BY <1>15, SetListChanges DEF HeapInv, collector
  <2>2. \A y \in linked : refs'[y] \subseteq refs[y] \cup linked'
    BY <1>0, <1>3, <2>1
  <2> QED
    BY <1>1, <1>4, <2>1, <2>2
<1> QED
  BY <1>6, <1>8, <1>9, <1>10, <1>11, <1>12, <1>13, <1>14, <1>15 DEF Mutate

LEMMA ListedFirst ==
    ASSUME NEW S, NEW list \in Seq(S), NEW o \in S
    PROVE  ToSet(<<o>> \o list) = {o} \cup ToSet(list)
<1>1. /\ Len(<<o>> \o list) = Len(list) + 1
      /\ \A i \in 1 .. Len(list) + 1 :
            (<<o>> \o list)[i] = IF i = 1 THEN o ELSE list[i - 1]
  OBVIOUS
<1>2. DOMAIN (<<o>> \o list) = 1 .. Len(list) + 1 /\ DOMAIN list = 1 .. Len(list)
  BY <1>1
<1>3. Len(list) \in Nat
  OBVIOUS
<1>4. ASSUME NEW i \in 1 .. Len(list)
      PROVE  i + 1 \in 1 .. Len(list) + 1 /\ (<<o>> \o list)[i + 1] = list[i]
  BY <1>1, <1>3
<1>5. 1 \in 1 .. Len(list) + 1 /\ (<<o>> \o list)[1] = o
  BY <1>1, <1>3
<1>6. ASSUME NEW i \in 1 .. Len(list) + 1
      PROVE  (<<o>> \o list)[i] \in {o} \cup ToSet(list)
  <2>1. CASE i = 1
    BY <1>5, <2>1
  <2>2. CASE i # 1
    <3>1. i - 1 \in 1 .. Len(list) /\ (<<o>> \o list)[i] = list[i - 1]
      BY <1>1, <1>3, <2>2
    <3> QED
      BY <1>2, <3>1 DEF ToSet
  <2> QED
    BY <2>1, <2>2
<1> QED
  BY <1>2, <1>4, <1>5, <1>6, ZenonT(60) DEF ToSet

LEMMA PropagateMarkCloses ==
    ASSUME HeapInv, MarksClosed, NEW o \in gray, PropagateMark(o), phase \in Marking,
           UNCHANGED <<kind, refs, slot, linked, grayAgain>>
    PROVE  MarksClosed'
<1>1. PICK found : /\ found = {x \in Children(o) : IsWhite(x)}
                   /\ \A x \in Heap : mark'[x] = IF x = o THEN "black"
                        ELSE IF x \in found THEN "gray" ELSE mark[x]
  BY DEF PropagateMark
<1>2. \A x \in Heap : Children(x) \subseteq Heap /\ Children(x)' = Children(x)
  BY DEF HeapInv, TypeInv, TypeOK, Children, Slot
<1>3. \A x \in Heap : ~IsWhite(x) => ~IsWhite(x)'
  BY <1>1, WhiteOnly DEF IsWhite
<1>4. o \in Heap /\ linked \subseteq Heap /\ weak \in Seq(Heap)
  BY DEF HeapInv, TypeInv, TypeOK
<1>5. weak' = (IF kind[o] = "weak" THEN <<o>> \o weak ELSE weak)
  BY DEF PropagateMark
<1>6. ToSet(weak) \subseteq ToSet(weak') /\ (kind[o] = "weak" => o \in ToSet(weak'))
  BY <1>4, <1>5, ListedFirst
<1>7. ASSUME NEW x \in linked', mark'[x] = "black"
      PROVE  /\ \A y \in Children(x)' : ~IsWhite(y)'
             /\ kind'[x] = "weak" => x \in ToSet(weak')
  <2>1. CASE x = o
    <3>1. \A y \in Children(o) : ~IsWhite(y)'
      BY <1>1, <1>2, <1>4, WhiteOnly DEF IsWhite
    <3> QED
      BY <1>2, <1>4, <1>6, <2>1, <3>1
  <2>2. CASE x # o
    <3>1. mark[x] = "black"
      BY <1>1, <1>4, <1>7, <2>2
    <3> QED
      BY <1>2, <1>3, <1>4, <1>6, <3>1 DEF MarksClosed
  <2> QED
    BY <2>1, <2>2
<1> QED
  BY <1>7 DEF MarksClosed

\* When atomic() returns, everything is black or has the white that the sweep
\* takes, and what the sweep will leave is what is black or a kept string.
LEMMA AtomicEndHolds ==
    ASSUME HeapInv, AtomicEnd
    PROVE  /\ \A o \in linked : mark[o] \in {white, "black"}
           /\ Held' = {o \in linked : mark[o] = "black" \/ o \in Kept}
<1>0. /\ linked \subseteq Heap /\ mark \in [Heap -> Colours] /\ white \in Whites
      /\ OtherWhite \in Whites \ {white}
  BY OtherWhiteType DEF HeapInv, TypeInv, TypeOK, Colours
<1>1. /\ inAtomic = "grayAgain" /\ phase = "atomic" /\ gray = {} /\ phase' = "sweep"
      /\ white' = OtherWhite /\ UNCHANGED linked
      /\ \A x \in Heap : mark'[x] = IF x \in Kept THEN "gray" ELSE mark[x]
  BY DEF AtomicEnd, HeapInv, ColourInv
<1>2. OtherWhite' = white
  <2>1. PICK w, v \in Whites : w # v /\ Whites = {w, v}
    BY ColourAssumption
  <2>2. \E u \in Whites : u # OtherWhite
    BY <1>0
  <2>3. \A u \in Whites : u # OtherWhite => u = white
    BY <1>0, <2>1
  <2> QED
    BY <1>0, <1>1, <2>2, <2>3 DEF OtherWhite
<1>3. \A o \in linked : mark[o] # "gray" /\ mark[o] # OtherWhite
  BY <1>1 DEF HeapInv, ColourInv, ListInv, MarksAccounted, Marking
<1>4. \A o \in linked : mark[o] \in {white, "black"}
  BY <1>0, <1>3, ColourAssumption DEF Colours
<1> QED
  BY <1>0, <1>1, <1>2, <1>4, WhiteOnly DEF Held, IsDead

\* A sweep step takes nothing that is held, and all that it was going to take
\* is gone when the sweep ends.
LEMMA SweepHolds ==
    ASSUME HeapInv, NEW o, SweepStep(o)
    PROVE  Held' = Held
<1>0. /\ linked \subseteq Heap /\ toSweep \subseteq linked
      /\ mark \in [Heap -> Colours] /\ white \in Whites
      /\ OtherWhite \in Whites \ {white}
  BY OtherWhiteType DEF HeapInv, TypeInv, TypeOK, Colours
<1>1. /\ phase = "sweep" /\ o \in toSweep /\ toSweep' = toSweep \ {o}
      /\ white' = white
      /\ phase' = IF toSweep' = {} THEN "pause" ELSE "sweep"
      /\ IF IsDead(o) THEN linked' = linked \ {o} /\ mark' = mark
         ELSE linked' = linked /\ mark' = [mark EXCEPT ![o] = white]
  BY DEF SweepStep, Pick
<1>2. OtherWhite' = OtherWhite
  BY <1>1 DEF OtherWhite
<1>3. {x \in linked' : ~IsDead(x)'} = Held
  BY <1>0, <1>1, <1>2 DEF Held, IsDead
<1>4. CASE toSweep' # {}
  BY <1>1, <1>3, <1>4 DEF Held
<1>5. CASE toSweep' = {}
  <2>1. \A x \in linked : x # o => mark[x] = white
    BY <1>1, <1>5 DEF HeapInv, ColourInv
  <2>2. \A x \in linked' : ~IsDead(x)'
    BY <1>0, <1>1, <1>2, <2>1 DEF IsDead
  <2> QED
    BY <1>1, <1>3, <1>5, <2>2 DEF Held
<1> QED
  BY <1>4, <1>5

\* A step of the collector: it takes nothing off the list but what no held
\* object refers to, and what the weak tables lose when atomic() clears them
\* is just what it will take.
LEMMA CollectorHolds ==
    ASSUME HeapInv, HeldClosed, MarksClosed, Collect
    PROVE  HeldClosed' /\ MarksClosed'
<1>0. /\ linked \subseteq Heap /\ toSweep \subseteq linked
      /\ refs \in [Heap -> SUBSET Heap] /\ slot \in [Heap -> Heap \cup {NoObject}]
      /\ mark \in [Heap -> Colours] /\ white \in Whites
      /\ OtherWhite \in Whites \ {white}
      /\ inAtomic # "no" => phase = "atomic"
  BY OtherWhiteType DEF HeapInv, TypeInv, TypeOK, ColourInv, Colours
<1>1. ASSUME phase # "sweep", phase' # "sweep", UNCHANGED <<linked, refs, slot>>
      PROVE  HeldClosed'
  <2>1. Held' = Held
    BY <1>1 DEF Held
  <2> QED
    BY <1>1, <2>1 DEF HeldClosed, Slot
<1>2. ASSUME NEW o \in gray, PropagateMark(o), phase \in Marking, phase' \in Marking,
             UNCHANGED <<gcKeeps, linked, grayAgain>>
      PROVE  HeldClosed' /\ MarksClosed'
  <2>1. UNCHANGED <<kind, refs, slot, linked, grayAgain>>
    BY <1>2 DEF gcKeeps
  <2>2. phase # "sweep" /\ phase' # "sweep"
    BY <1>2 DEF Marking
  <2> QED
    BY <1>1, <1>2, <2>1, <2>2, PropagateMarkCloses
<1>3. ASSUME NEW o \in Heap, Propagate(o) \/ AtomicDrain(o)
      PROVE  HeldClosed' /\ MarksClosed'
  <2>1. /\ o \in gray /\ PropagateMark(o) /\ UNCHANGED <<gcKeeps, linked, grayAgain>>
        /\ phase \in Marking /\ phase' \in Marking
    BY <1>0, <1>3 DEF Propagate, AtomicDrain, Pick, Marking
  <2> QED
    BY <1>2, <2>1
<1>4. CASE PropagateAgain
  <2>1. /\ phase \in Marking /\ phase' \in Marking
        /\ UNCHANGED <<gcKeeps, linked, grayAgain>>
    BY <1>4 DEF PropagateAgain, Marking
  <2>2. ASSUME NEW o \in Pick(gray), PropagateMark(o) PROVE HeldClosed' /\ MarksClosed'
    <3>1. o \in gray
      BY <2>2 DEF Pick
    <3> QED
      BY <1>2, <2>1, <2>2, <3>1
  <2>3. CASE UNCHANGED <<mark, gray, weak, bare>>
    <3>1. HeldClosed'
      BY <1>1, <2>1 DEF Marking, gcKeeps
    <3> QED
      BY <2>1, <2>3, <3>1 DEF MarksClosed, Children, Slot, IsWhite, gcKeeps
  <2> QED
    BY <1>4, <2>2, <2>3 DEF PropagateAgain
<1>5. CASE MarkRoots
  <2>1. /\ phase = "pause" /\ phase' = "propagate" /\ grayAgain' = {}
        /\ UNCHANGED <<linked, refs, slot>>
        /\ \A o \in Heap : mark'[o] \in {"gray", mark[o]}
    BY <1>5 DEF MarkRoots, gcKeeps
  <2>2. \A o \in linked : mark[o] = white
    BY <2>1 DEF HeapInv, ColourInv, CleanSlate
  <2>3. \A o \in linked' : mark'[o] # "black"
    BY <1>0, <2>1, <2>2, WhiteOnly
  <2> QED
    BY <1>1, <2>1, <2>3 DEF MarksClosed
<1>6. CASE AtomicBegin \/ AtomicGrayAgain
  <2>1. /\ phase = "atomic" /\ phase' = "atomic" /\ UNCHANGED <<gcKeeps, linked, mark, weak>>
        /\ grayAgain' \in {{}, grayAgain}
    BY <1>0, <1>6 DEF AtomicBegin, AtomicGrayAgain, marks
  <2> QED
    BY <1>1, <2>1 DEF MarksClosed, Marking, Children, Slot, IsWhite, gcKeeps
<1>7. CASE AtomicEnd
  <2>1. /\ inAtomic = "grayAgain" /\ phase = "atomic" /\ gray = {} /\ phase' = "sweep"
        /\ white' = OtherWhite /\ UNCHANGED <<linked, slot, kind>>
        /\ \A x \in Heap : mark'[x] = IF x \in Kept THEN "gray" ELSE mark[x]
        /\ \A t \in Heap : refs'[t] = IF t \in ToSet(weak) THEN refs[t] \ Cleared(t)
                                                           ELSE refs[t]
    BY <1>0, <1>7 DEF AtomicEnd
  <2>3. /\ \A o \in linked : mark[o] \in {white, "black"}
        /\ mark[MainThread] = "black" /\ mark[Registry] = "black"
        /\ {MainThread, Registry} \subseteq linked
        /\ \A o \in linked : refs[o] \cup Slot(o) \subseteq linked
    <3>2. \A o \in linked : mark[o] \in {white, "black"}
      BY <1>7, AtomicEndHolds
    <3>3. Held = linked
      BY <2>1 DEF Held
    <3>4. mark[MainThread] \notin Whites /\ mark[Registry] \notin Whites
      BY <2>1 DEF HeapInv, ColourInv, MarksAccounted, Marking, IsWhite, Heap
    <3> QED
      BY <1>0, <3>2, <3>3, <3>4 DEF HeldClosed
  <2>4. Held' = {o \in linked : mark[o] = "black" \/ o \in Kept}
    BY <1>7, AtomicEndHolds
  <2>5. ASSUME NEW o \in linked, mark[o] = "black", NEW x \in refs'[o] \cup Slot(o)
        PROVE  x \in Held'
    <3>0. o \in Heap /\ x \in refs[o] \cup Slot(o)
      BY <1>0, <2>1, <2>5
    <3>1. x \in linked
      BY <2>3, <3>0
    <3>2. CASE x \in Children(o)
      <4>1. ~IsWhite(x)
        BY <2>1, <2>5, <3>2 DEF MarksClosed, Marking
      <4> QED
        BY <1>0, <2>3, <2>4, <3>1, <4>1 DEF IsWhite
    <3>3. CASE x \notin Children(o)
      <4>1. kind[o] = "weak" /\ x \in refs'[o]
        BY <2>5, <3>0, <3>3 DEF Children
      <4>2. o \in ToSet(weak)
        BY <2>1, <2>5, <4>1 DEF MarksClosed, Marking
      <4>3. x \in refs[o] \ Cleared(o)
        BY <2>1, <3>0, <4>1, <4>2
      <4>4. ~IsWhite(x) \/ x \in Kept
        BY <4>2, <4>3 DEF Cleared, Kept
      <4> QED
        BY <1>0, <2>3, <2>4, <3>1, <4>4 DEF IsWhite
    <3> QED
      BY <3>2, <3>3
  <2>6. ASSUME NEW o \in Kept, o \in linked PROVE refs'[o] \cup Slot(o) = {}
    <3>1. kind[o] = "string" /\ o \in Heap
      BY <1>0, <2>6 DEF Kept
    <3>2. refs[o] = {} /\ slot[o] = NoObject
      BY <3>1 DEF HeapInv, EmptyInv
    <3> QED
      BY <2>1, <3>1, <3>2 DEF Slot
  <2>7. Slot(MainThread)' = Slot(MainThread) /\ \A o \in linked : Slot(o)' = Slot(o)
    BY <2>1 DEF Slot
  <2>8. \A o \in Held' : refs'[o] \cup Slot(o)' \subseteq Held'
    BY <2>4, <2>5, <2>6, <2>7
  <2>9. {MainThread, Registry} \subseteq Held'
    BY <2>3, <2>4
  <2> QED
    BY <2>1, <2>8, <2>9 DEF HeldClosed, MarksClosed, Marking
<1>8. ASSUME NEW o \in Heap, SweepStep(o) PROVE HeldClosed' /\ MarksClosed'
  <2>1. UNCHANGED <<refs, slot>> /\ phase' \in {"sweep", "pause"}
    BY <1>8 DEF SweepStep, gcKeeps
  <2> QED
    BY <1>8, <2>1, SweepHolds DEF HeldClosed, MarksClosed, Marking, Slot
<1> QED
  BY <1>3, <1>4, <1>5, <1>6, <1>7, <1>8 DEF Collect

LEMMA LiveStep == HeapInv /\ SoloInv /\ LiveInv /\ [Next]_vars => LiveInv'
<1> SUFFICES ASSUME HeapInv, SoloInv, LiveInv, [Next]_vars, Cautious'
             PROVE  (ChainLinked /\ HeldClosed /\ MarksClosed)'
  BY DEF LiveInv
<1>1. Cautious /\ ChainLinked /\ HeldClosed /\ MarksClosed
  BY CautiousBefore DEF LiveInv
<1>2. ChainLinked'
  BY <1>1, ChainStep DEF HeapInv
<1>3. CASE Mutate
  BY <1>1, <1>2, <1>3, MutatorHolds
<1>4. CASE Collect
  BY <1>1, <1>2, <1>4, CollectorHolds
<1>5. CASE UNCHANGED vars
  <2>1. UNCHANGED <<phase, linked, refs, slot, mark, white, kind, grayAgain, weak>>
    BY <1>5 DEF vars
  <2>2. Held' = Held
    BY <2>1 DEF Held, IsDead, OtherWhite
  <2> QED
    BY <1>1, <1>2, <2>1, <2>2 DEF HeldClosed, MarksClosed, Slot, Children, IsWhite
<1> QED
  BY <1>3, <1>4, <1>5 DEF Next

LEMMA FiniteHeap == IsFiniteSet(Heap)
<1>1. IsFiniteSet(Objects \cup {MainThread})
  BY HeapAssumption, FS_AddElement
<1>2. IsFiniteSet((Objects \cup {MainThread}) \cup {Registry})
  BY <1>1, FS_AddElement
<1>3. Heap = (Objects \cup {MainThread}) \cup {Registry}
  BY DEF Heap
<1> QED
  BY <1>2, <1>3

\* Nothing that a cautious program can get at has been collected.
LEMMA UsableHeld == HeapInv /\ LiveInv /\ Cautious => Usable \subseteq Held
<1> SUFFICES ASSUME HeapInv, LiveInv, Cautious PROVE Usable \subseteq Held
  OBVIOUS
<1>1. IsFiniteSet(Heap)
  BY FiniteHeap
<1> DEFINE child == [o \in Heap |-> Children(o)]
           roots == {MainThread, Registry} \cup ToSet(chain) \cup wrapped
<1>2. /\ refs \in [Heap -> SUBSET Heap] /\ slot \in [Heap -> Heap \cup {NoObject}]
      /\ chain \in Seq(Heap) /\ linked \subseteq Heap
  BY DEF HeapInv, TypeInv, TypeOK
<1>3. DOMAIN child = Heap /\ \A o \in Heap : child[o] \subseteq Heap
  BY <1>2 DEF Children, Slot
<1>4. ChainLinked /\ HeldClosed
  BY DEF LiveInv
<1>5. roots \subseteq Held
  <2>1. \A i \in 1 .. Len(chain) : chain[i] \in Held
    BY <1>4, ChainHeld DEF HeapInv
  <2>2. ToSet(chain) \subseteq Held
    BY <1>2, <2>1 DEF ToSet
  <2> QED
    BY <1>4, <2>2 DEF Cautious, HeldClosed
<1>6. Held \subseteq Heap
  BY <1>2 DEF Held
<1>7. \A o \in Held \cap Heap : child[o] \subseteq Held
  BY <1>4 DEF HeldClosed, Children
<1>8. roots \subseteq Heap
  BY <1>5, <1>6
<1>9. Usable = Closure(roots, child)
  BY DEF Usable, Reach
<1> HIDE DEF child, roots
<1>10. Closure(roots, child) \subseteq Held
  BY <1>1, <1>3, <1>5, <1>7, <1>8, ClosureLeast
<1> QED
  BY <1>9, <1>10

LEMMA LiveAlways == Spec => [](HeapInv /\ SoloInv /\ LiveInv)
<1>1. Init => SoloInv /\ LiveInv
  <2> SUFFICES ASSUME Init PROVE SoloInv /\ ChainLinked /\ HeldClosed /\ MarksClosed
    BY DEF LiveInv
  <2>1. SoloInv /\ MarksClosed
    BY DEF Init, SoloInv, MarksClosed, Marking
  <2>2. ChainLinked
    BY DEF Init, ChainLinked
  <2>3. HeldClosed
    BY DEF Init, HeldClosed, Held, Slot, Heap
  <2> QED
    BY <2>1, <2>2, <2>3
<1>2. HeapInv /\ SoloInv /\ [Next]_vars => SoloInv'
  BY SoloStep DEF HeapInv
<1> QED
  BY <1>1, <1>2, HeapInit, HeapStep, LiveStep, PTL DEF Spec

\* A program that stops the automatic collector and collects only in calls of
\* collectgarbage never loses an object that it can still use, nor finds a
\* collected one in a weak table (gc.go:377-394, 396-451), on any finite heap.
THEOREM NothingUsableCollectedAlways == Spec => []NothingUsableCollected
<1>1. HeapInv /\ LiveInv => NothingUsableCollected
  <2> SUFFICES ASSUME HeapInv, LiveInv, Cautious
               PROVE  /\ Usable \subseteq linked
                      /\ \A t \in Usable : kind[t] = "weak" => refs[t] \subseteq linked
    BY DEF NothingUsableCollected
  <2>1. Usable \subseteq Held /\ Held \subseteq linked
    BY UsableHeld DEF Held
  <2>2. \A t \in Held : refs[t] \subseteq Held
    BY DEF LiveInv, HeldClosed
  <2> QED
    BY <2>1, <2>2
<1> QED
  BY <1>1, LiveAlways, PTL
-----------------------------------------------------------------------------
(* What a full collection leaves                                           *)

\* In the cycle that fullGC starts itself only what a root leads to is marked,
\* and only that, and strings of weak tables, will survive the sweep.
CycleInv ==
    job = "cycle" =>
        /\ phase \in Marking =>
              /\ gray \cup ToSet(weak) \subseteq Marked /\ grayAgain = {}
              /\ \A o \in linked : ~IsWhite(o) => o \in Marked
        /\ phase = "sweep" => Held \subseteq Retained

\* What is marked: the roots, and the children of what is.
LEMMA MarkedClosed ==
    ASSUME TypeInv
    PROVE  /\ {MainThread, Registry} \subseteq Marked
           /\ \A o \in Marked : Children(o) \subseteq Marked /\ o \in Heap
<1> DEFINE child == [o \in Heap |-> Children(o)]
           roots == {MainThread, Registry}
<1>1. /\ DOMAIN child = Heap /\ \A o \in Heap : child[o] \subseteq Heap
      /\ \A o \in Heap : child[o] = Children(o)
  BY DEF TypeInv, TypeOK, Children, Slot
<1>2. roots \subseteq Heap
  BY DEF Heap
<1>3. Marked = Closure(roots, child)
  BY DEF Marked, Reach
<1> HIDE DEF child, roots
<1>4. /\ roots \subseteq Closure(roots, child) /\ Closure(roots, child) \subseteq Heap
      /\ \A o \in Closure(roots, child) : child[o] \subseteq Closure(roots, child)
  BY <1>1, <1>2, FiniteHeap, ClosureClosed
<1> QED
  BY <1>1, <1>3, <1>4 DEF roots

\* It depends on what the children are and on nothing else.
LEMMA MarkedSame ==
    ASSUME \A o \in Heap : Children(o)' = Children(o)
    PROVE  Marked' = Marked
<1>1. [o \in Heap |-> Children(o)'] = [o \in Heap |-> Children(o)]
  OBVIOUS
<1>2. Marked' = Closure({MainThread, Registry}, [o \in Heap |-> Children(o)'])
  BY DEF Marked, Reach, Closure
<1> QED
  BY <1>1, <1>2 DEF Marked, Reach

LEMMA CycleStep == HeapInv /\ CycleInv /\ [Next]_vars => CycleInv'
<1> SUFFICES ASSUME HeapInv, CycleInv, [Next]_vars, job' = "cycle",
                    phase' \in Marking \/ phase' = "sweep"
             PROVE  CycleInv'
  BY DEF CycleInv
<1>0. /\ linked \subseteq Heap /\ gray \subseteq Heap /\ weak \in Seq(Heap)
      /\ refs \in [Heap -> SUBSET Heap] /\ kind \in [Heap -> Kinds]
      /\ inAtomic # "no" => phase = "atomic"
      /\ {MainThread, Registry} \subseteq Marked
      /\ \A o \in Marked : Children(o) \subseteq Marked /\ o \in Heap
  BY MarkedClosed DEF HeapInv, TypeInv, TypeOK, ColourInv
<1>1. ASSUME UNCHANGED <<kind, refs, slot>> PROVE Marked' = Marked /\ Retained' = Retained
  <2>1. Marked' = Marked
    BY <1>1, MarkedSame DEF Children, Slot
  <2> QED
    BY <1>1, <2>1 DEF Retained
<1>2. ~Mutate
  <2>1. ~(\E o \in Objects : Alloc(o) \/ Drop(o) \/ Wrap(o))
    BY DEF Alloc, Drop, Wrap, MutatorRuns, collector
  <2>2. ~(\E o \in Heap, x \in Objects : Load(o, x) \/ SetField(o, x) \/ EraseField(o, x))
    BY DEF Load, SetField, EraseField, MutatorRuns, collector
  <2>3. ~(\E o, x \in Objects :
             \/ SetMetatableFast(o, x) \/ SetMetatable(o, x) \/ SetClosureEnvAt(o, x)
             \/ CloseUpval(o, x) \/ WriteUpval(o, x) \/ Resume(o, x))
    BY ZenonT(60)
       DEF SetMetatableFast, SetMetatable, SetClosureEnvAt, CloseUpval, WriteUpval,
           Resume, MutatorRuns, collector
  <2>4. ~Yield
    BY DEF Yield, MutatorRuns, collector
  <2>5. ~FullGC
    BY DEF FullGC, MutatorRuns, Marking
  <2>6. ~(\E t \in Objects : \E items \in SUBSET Locals, over \in SUBSET refs[t] :
             SetList(t, items, over))
    BY DEF SetList, MutatorRuns, collector
  <2> QED
    BY <2>1, <2>2, <2>3, <2>4, <2>5, <2>6 DEF Mutate
<1>3. ASSUME NEW o \in gray, PropagateMark(o), job = "cycle", phase \in Marking,
             phase' \in Marking, UNCHANGED <<gcKeeps, linked, grayAgain>>
      PROVE  CycleInv'
  <2>1. /\ gray \cup ToSet(weak) \subseteq Marked /\ grayAgain = {}
        /\ \A x \in linked : ~IsWhite(x) => x \in Marked
    BY <1>3 DEF CycleInv
  <2>2. Marked' = Marked
    BY <1>1, <1>3 DEF gcKeeps
  <2>3. PICK found :
           /\ found = {x \in Children(o) : IsWhite(x)}
           /\ \A x \in Heap : mark'[x] = IF x = o THEN "black"
                ELSE IF x \in found THEN "gray" ELSE mark[x]
           /\ gray' = (gray \ {o}) \cup found
           /\ weak' = IF kind[o] = "weak" THEN <<o>> \o weak ELSE weak
    BY <1>3 DEF PropagateMark
  <2>4. o \in Marked /\ found \subseteq Marked
    BY <1>0, <2>1, <2>3
  <2>5. ToSet(weak') \subseteq {o} \cup ToSet(weak)
    BY <1>0, <2>3, ListedFirst
  <2>6. \A x \in linked' : ~IsWhite(x)' => x \in Marked'
    BY <1>0, <1>3, <2>1, <2>2, <2>3, <2>4 DEF IsWhite
  <2>7. phase' # "sweep"
    BY <1>3 DEF Marking
  <2> QED
    BY <1>3, <2>1, <2>2, <2>3, <2>4, <2>5, <2>6, <2>7 DEF CycleInv
<1>4. ASSUME NEW o \in Heap, Propagate(o) \/ AtomicDrain(o) PROVE CycleInv'
  <2>1. /\ o \in gray /\ PropagateMark(o) /\ UNCHANGED <<gcKeeps, linked, grayAgain>>
        /\ phase \in Marking /\ phase' \in Marking /\ job = "cycle"
    BY <1>0, <1>4 DEF Propagate, AtomicDrain, Pick, Marking
  <2> QED
    BY <1>3, <2>1
<1>5. CASE PropagateAgain
  <2>1. /\ phase \in Marking /\ phase' \in Marking /\ job = "cycle" /\ phase' # "sweep"
        /\ UNCHANGED <<gcKeeps, linked, grayAgain>>
    BY <1>5 DEF PropagateAgain, Marking
  <2>2. ASSUME NEW o \in Pick(gray), PropagateMark(o) PROVE CycleInv'
    <3>1. o \in gray
      BY <2>2 DEF Pick
    <3> QED
      BY <1>3, <2>1, <2>2, <3>1
  <2>3. CASE UNCHANGED <<mark, gray, weak, bare>>
    <3>1. Marked' = Marked
      BY <1>1, <2>1 DEF gcKeeps
    <3> QED
      BY <2>1, <2>3, <3>1 DEF CycleInv, IsWhite
  <2> QED
    BY <1>5, <2>2, <2>3 DEF PropagateAgain
<1>6. CASE MarkRoots
  <2>1. /\ phase = "pause" /\ phase' = "propagate" /\ grayAgain' = {} /\ weak' = <<>>
        /\ UNCHANGED <<gcKeeps, linked>>
        /\ gray' \subseteq {MainThread, Registry}
        /\ \A o \in Heap : mark'[o] = IF o \in gray' THEN "gray" ELSE mark[o]
    BY <1>6 DEF MarkRoots
  <2>2. Marked' = Marked
    BY <1>1, <2>1 DEF gcKeeps
  <2>3. \A o \in linked : mark[o] \in Whites
    BY <2>1 DEF HeapInv, ColourInv, CleanSlate, TypeInv, TypeOK
  <2>4. \A o \in linked' : ~IsWhite(o)' => o \in Marked'
    BY <1>0, <2>1, <2>2, <2>3 DEF IsWhite
  <2>5. ToSet(weak') = {}
    BY <2>1 DEF ToSet
  <2> QED
    BY <1>0, <2>1, <2>2, <2>4, <2>5 DEF CycleInv
<1>7. CASE AtomicBegin \/ AtomicGrayAgain
  <2>1. /\ phase = "atomic" /\ phase' = "atomic" /\ job = "cycle"
        /\ UNCHANGED <<gcKeeps, linked, mark, weak>>
        /\ \/ UNCHANGED <<gray, grayAgain>>
           \/ gray' = grayAgain /\ grayAgain' = {}
    BY <1>0, <1>7 DEF AtomicBegin, AtomicGrayAgain, marks
  <2>2. Marked' = Marked
    BY <1>1, <2>1 DEF gcKeeps
  <2> QED
    BY <2>1, <2>2 DEF CycleInv, Marking, IsWhite
<1>8. CASE AtomicEnd
  <2>1. /\ inAtomic = "grayAgain" /\ phase = "atomic" /\ phase' = "sweep"
        /\ UNCHANGED <<kind, slot, job, linked>>
        /\ \A t \in Heap : refs'[t] = IF t \in ToSet(weak) THEN refs[t] \ Cleared(t)
                                                           ELSE refs[t]
    BY <1>0, <1>8 DEF AtomicEnd
  <2>2. /\ ToSet(weak) \subseteq Marked
        /\ \A o \in linked : ~IsWhite(o) => o \in Marked
    BY <2>1 DEF CycleInv, Marking
  <2>3. \A t \in ToSet(weak) : kind[t] = "weak"
    BY <1>0 DEF ToSet, HeapInv, ListInv
  <2>4. Marked' = Marked
    <3>1. \A o \in Heap : Children(o)' = Children(o)
      BY <2>1, <2>3 DEF Children, Slot
    <3> QED
      BY <3>1, MarkedSame
  <2>5. Held' = {o \in linked : mark[o] = "black" \/ o \in Kept}
    BY <1>8, AtomicEndHolds
  <2>6. ASSUME NEW o \in Kept PROVE o \in Retained'
    <3>1. PICK t \in ToSet(weak) : o \in refs[t]
      BY DEF Kept
    <3>2. kind[o] = "string"
      BY DEF Kept
    <3>3. t \in Marked' /\ kind'[t] = "weak" /\ t \in Heap
      BY <1>0, <2>1, <2>2, <2>3, <2>4
    <3>4. o \in refs'[t] /\ kind'[o] = "string"
      BY <2>1, <3>1, <3>2, <3>3 DEF Cleared
    <3> QED
      BY <3>3, <3>4 DEF Retained
  <2>7. \A o \in linked : mark[o] = "black" => o \in Marked
    BY <2>2, WhiteOnly DEF IsWhite
  <2> QED
    BY <2>1, <2>4, <2>5, <2>6, <2>7 DEF CycleInv, Marking, Retained
<1>9. ASSUME NEW o \in Heap, SweepStep(o) PROVE CycleInv'
  <2>1. /\ phase = "sweep" /\ UNCHANGED gcKeeps
        /\ phase' \in {"sweep", "pause"} /\ (phase' = "sweep" => job' = job)
    BY <1>9 DEF SweepStep
  <2>2. Retained' = Retained
    BY <1>1, <2>1 DEF gcKeeps
  <2> QED
    BY <1>9, <2>1, <2>2, SweepHolds DEF CycleInv, Marking
<1>10. CASE UNCHANGED vars
  <2>1. UNCHANGED <<phase, linked, refs, slot, mark, white, kind, gray, grayAgain, weak, job>>
    BY <1>10 DEF vars
  <2>2. Held' = Held /\ Marked' = Marked /\ Retained' = Retained
    BY <1>1, <2>1 DEF Held, IsDead, OtherWhite
  <2> QED
    BY <2>1, <2>2 DEF CycleInv, IsWhite
<1> QED
  BY <1>2, <1>4, <1>5, <1>6, <1>7, <1>8, <1>9, <1>10 DEF Next, Collect

\* When collectgarbage("collect") returns, everything left is reachable from a
\* root or a string in a weak table that is (gc.go:582-590), whatever cycle was
\* in progress at the call, on any finite heap.
THEOREM FullGCAlwaysCollectsGarbage == Spec => FullGCCollectsGarbage
<1> DEFINE Done == job = "cycle" /\ job' = "none" => linked' \subseteq Retained'
<1>1. HeapInv /\ CycleInv /\ [Next]_vars => [Done]_vars
  <2> SUFFICES ASSUME HeapInv, CycleInv, Next, job = "cycle", job' = "none"
               PROVE  linked' \subseteq Retained'
    OBVIOUS
  <2>1. PICK o \in Heap : SweepStep(o)
    <3>1. ~Mutate
      <4>1. ~(\E o \in Objects : Alloc(o) \/ Drop(o) \/ Wrap(o))
        BY DEF Alloc, Drop, Wrap, MutatorRuns
      <4>2. ~(\E o \in Heap, x \in Objects : Load(o, x) \/ SetField(o, x) \/ EraseField(o, x))
        BY DEF Load, SetField, EraseField, MutatorRuns
      <4>3. ~(\E o, x \in Objects :
                 \/ SetMetatableFast(o, x) \/ SetMetatable(o, x)
                 \/ SetClosureEnvAt(o, x) \/ CloseUpval(o, x) \/ WriteUpval(o, x)
                 \/ Resume(o, x))
        BY DEF SetMetatableFast, SetMetatable, SetClosureEnvAt, CloseUpval, WriteUpval,
               Resume, MutatorRuns
      <4>4. ~(\E t \in Objects : \E items \in SUBSET Locals, over \in SUBSET refs[t] :
                 SetList(t, items, over))
        BY DEF SetList, MutatorRuns
      <4> QED
        BY <4>1, <4>2, <4>3, <4>4 DEF Mutate, Yield, FullGC, MutatorRuns
    <3>2. ~(MarkRoots \/ PropagateAgain \/ AtomicBegin \/ AtomicGrayAgain \/ AtomicEnd)
      BY DEF MarkRoots, PropagateAgain, AtomicBegin, AtomicGrayAgain, AtomicEnd
    <3>3. \A o \in Heap : ~(Propagate(o) \/ AtomicDrain(o))
      BY DEF Propagate, AtomicDrain
    <3> QED
      BY <3>1, <3>2, <3>3 DEF Next, Collect
  <2>2. phase = "sweep" /\ UNCHANGED <<kind, refs, slot>> /\ phase' = "pause"
    BY <2>1 DEF SweepStep, gcKeeps
  <2>3. linked' = Held'
    BY <2>2 DEF Held
  <2>4. Marked' = Marked
    BY <2>2, MarkedSame DEF Children, Slot
  <2>5. Retained' = Retained
    BY <2>2, <2>4 DEF Retained
  <2>6. Held \subseteq Retained
    BY <2>2 DEF CycleInv
  <2> QED
    BY <2>1, <2>3, <2>5, <2>6, SweepHolds
<1>2. Init => CycleInv
  BY DEF Init, CycleInv
<1>3. Spec => [](HeapInv /\ CycleInv)
  BY <1>2, HeapInit, HeapStep, CycleStep, PTL DEF Spec
<1> QED
  BY <1>1, <1>3, PTL DEF Spec, FullGCCollectsGarbage
=============================================================================
