--------------------------- MODULE BlockVM_proofs ---------------------------
(***************************************************************************)
(* The list of open upvalues keeps its order and stays exact, whatever     *)
(* code runs on the frame.                                                 *)
(***************************************************************************)
EXTENDS BlockVM, Lemmas

-----------------------------------------------------------------------------
(* The invariant                                                           *)

Registers == 0 .. chunk.maxStack - 1

ListInv ==
    /\ chunk \in Chunks
    /\ WellTyped
    /\ OpenListOrdered
    /\ OpenListExact

\* What ListInv says, in the terms of the lemmas.
LEMMA ListInvMeans ==
    ListInv <=> /\ chunk \in Chunks
                /\ WellTyped
                /\ Descending(upvals, open)
                /\ Exact(upvals, open)
                /\ pc = -1 => open = <<>>
BY DEF ListInv, OpenListOrdered, OpenListExact, Descending, Exact

\* A word that is about to run.
LEMMA WordFits ==
    ASSUME ListInv, pc \in 0 .. Len(chunk.code) - 1
    PROVE  /\ pc \in Nat
           /\ Word.a \in Nat /\ Word.d \in Int /\ pc + 1 + Word.d >= 0
           /\ Word.op = "move" => Word.d \in Registers
           /\ pc + 2 <= Len(chunk.code) /\ chunk.code[pc + 2].op = "capture"
              => chunk.code[pc + 2].d \in Registers
<1> DEFINE code == chunk.code
<1>1. /\ code \in Seq([op : STRING, a : Nat, d : Int])
      /\ \A i \in DOMAIN code : /\ i + code[i].d >= 0
                                /\ code[i].op \in {"move", "capture"}
                                   => code[i].d \in Registers
  BY ChunksAssumption DEF ListInv, Registers
<1> HIDE DEF code
<1>2. Len(code) \in Nat /\ DOMAIN code = 1 .. Len(code)
  BY <1>1, LenProperties
<1>3. pc \in Nat /\ pc + 1 \in DOMAIN code
  BY <1>2 DEF code
<1>4. code[pc + 1] \in [op : STRING, a : Nat, d : Int]
  BY <1>1, <1>2, <1>3, ElementOfSeq
<1>5. Word = code[pc + 1]
  BY DEF Word, code
<1>6. Word.a \in Nat /\ Word.d \in Int
  BY <1>4, <1>5
<1>7. pc + 1 + Word.d >= 0
  BY <1>1, <1>3, <1>5
<1>8. Word.op = "move" => Word.d \in Registers
  BY <1>1, <1>3, <1>5
<1>9. ASSUME pc + 2 <= Len(code), code[pc + 2].op = "capture"
      PROVE  code[pc + 2].d \in Registers
  <2>1. pc + 2 \in DOMAIN code
    BY <1>2, <1>3, <1>9
  <2> QED BY <1>1, <1>9, <2>1
<1> QED BY <1>3, <1>6, <1>7, <1>8, <1>9 DEF code

\* What an upvalue reads is a value.
LEMMA ReadIsValue ==
    ASSUME NEW slots, NEW ups \in Seq(Upval(slots, Int)), NEW u \in DOMAIN ups,
           NEW stack, \A s \in slots : stack[s] \in Int
    PROVE  Read(ups, u, stack) \in Int
<1>1. ups[u] \in Upval(slots, Int)
  BY LenProperties, ElementOfSeq
<1>2. ups[u].value \in Int /\ ups[u].slot \in slots
  BY <1>1 DEF Upval
<1>3. stack[ups[u].slot] \in Int
  BY <1>2
<1> QED BY <1>2, <1>3 DEF Read

\* An observation is recorded in full.
LEMMA Observed ==
    ASSUME seen \in Seq(Int \X Seq(Int)), NEW value \in Int, Observe(value),
           NEW slots, upvals' \in Seq(Upval(slots, Int)), closures' \in Seq(DOMAIN upvals'),
           \A s \in slots : regs'[s] \in Int
    PROVE  seen' \in Seq(Int \X Seq(Int))
<1> DEFINE reads == [c \in DOMAIN closures' |-> Read(upvals', closures'[c], regs')]
<1>1. Len(closures') \in Nat /\ DOMAIN closures' = 1 .. Len(closures')
  BY LenProperties
<1>2. \A c \in DOMAIN closures' : closures'[c] \in DOMAIN upvals'
  BY <1>1, ElementOfSeq
<1>3. \A c \in DOMAIN closures' : Read(upvals', closures'[c], regs') \in Int
  BY <1>2, ReadIsValue
<1>4. reads \in [1 .. Len(closures') -> Int]
  BY <1>1, <1>3
<1>5. reads \in Seq(Int)
  BY <1>1, <1>4, SeqDef
<1>6. seen' = Append(seen, <<value, reads>>)
  BY DEF Observe
<1> HIDE DEF reads
<1>7. <<value, reads>> \in Int \X Seq(Int)
  BY <1>5
<1> QED BY <1>6, <1>7, AppendProperties

\* A step that leaves upvalues and closures alone.
LEMMA PlainStep ==
    ASSUME ListInv, NoUpvals, pc' \in Int, pc' >= 0,
           regs' \in [Registers -> Int],
           outcomes' \in Seq(BOOLEAN), seen' \in Seq(Int \X Seq(Int))
    PROVE  ListInv'
<1>1. chunk' = chunk /\ upvals' = upvals /\ open' = open /\ closures' = closures
  BY DEF NoUpvals
<1>2. pc' # -1
  OBVIOUS
<1> QED BY <1>1, <1>2 DEF ListInv, WellTyped, OpenListOrdered, OpenListExact, Registers

\* Such a step may also observe a value.
LEMMA PlainObserve ==
    ASSUME ListInv, NoUpvals, pc' \in Int, pc' >= 0,
           regs' \in [Registers -> Int], outcomes' \in Seq(BOOLEAN),
           NEW value \in Int, Observe(value)
    PROVE  ListInv'
<1>1. /\ upvals \in Seq(Upval(Registers, Int)) /\ closures \in Seq(DOMAIN upvals)
      /\ seen \in Seq(Int \X Seq(Int))
  BY DEF ListInv, WellTyped, Upval, Registers
<1>2. upvals' = upvals /\ closures' = closures
  BY DEF NoUpvals
<1>3. \A s \in Registers : regs'[s] \in Int
  OBVIOUS
<1>4. seen' \in Seq(Int \X Seq(Int))
  BY <1>1, <1>2, <1>3, Observed
<1> QED BY <1>4, PlainStep

\* A register that is assigned to.
LEMMA Assigned ==
    ASSUME NEW D, NEW f \in [D -> Int], NEW r, NEW v \in Int
    PROVE  [f EXCEPT ![r] = v] \in [D -> Int]
OBVIOUS

LEMMA InitHolds ==
    ASSUME Init
    PROVE  ListInv
<1>1. chunk.maxStack \in Nat /\ regs \in [0 .. chunk.maxStack - 1 -> Int]
  BY ChunksAssumption DEF Init, False
<1>2. WellTyped
  BY <1>1, EmptySeq DEF Init, WellTyped
<1>3. DOMAIN upvals = {} /\ DOMAIN open = {}
  BY DEF Init
<1> QED BY <1>2, <1>3 DEF Init, ListInv, OpenListOrdered, OpenListExact

\* NEWCLOSURE finds the upvalue of the captured register or links a new one in.
LEMMA NewClosureKeeps ==
    ASSUME ListInv, NewClosure
    PROVE  ListInv'
<1> DEFINE slot == chunk.code[pc + 2].d
           hits == Hits(upvals, open, slot)
<1>1. /\ chunk \in Chunks /\ regs \in [Registers -> Int]
      /\ upvals \in Seq(Upval(Registers, Int)) /\ open \in Seq(DOMAIN upvals)
      /\ closures \in Seq(DOMAIN upvals) /\ seen \in Seq(Int \X Seq(Int))
      /\ outcomes \in Seq(BOOLEAN)
      /\ Descending(upvals, open) /\ Exact(upvals, open)
  BY ListInvMeans DEF WellTyped, Upval, Registers
<1>2. pc \in Nat /\ Word.a \in Nat /\ slot \in Registers
  BY WordFits DEF NewClosure, At
<1>3. Registers \in SUBSET Int
  BY DEF Registers
<1>4. /\ regs' = [regs EXCEPT ![Word.a] = False] /\ Observe(regs[slot])
      /\ pc' = pc + 1 + 1 /\ chunk' = chunk /\ outcomes' = outcomes
      /\ IF hits # {}
         THEN /\ upvals' = upvals /\ open' = open
              /\ \E u \in hits : closures' = Append(closures, u)
         ELSE /\ upvals' = Append(upvals, OpenUpval(slot))
              /\ open' = Inserted(upvals, open, slot)
              /\ closures' = Append(closures, Len(upvals'))
  BY DEF NewClosure, Jump
<1> HIDE DEF slot, hits
<1>5. /\ upvals' \in Seq(Upval(Registers, Int)) /\ open' \in Seq(DOMAIN upvals')
      /\ closures' \in Seq(DOMAIN upvals')
      /\ Descending(upvals', open') /\ Exact(upvals', open')
  <2>1. CASE hits # {}
    <3>1. PICK u \in hits : closures' = Append(closures, u)
      BY <1>4, <2>1
    <3>2. AtOrAbove(upvals, open, slot) \in 0 .. Len(open)
      BY <1>1, <1>2, <1>3, BehindWalk
    <3>3. PICK i \in 1 .. AtOrAbove(upvals, open, slot) : u = open[i]
      BY DEF hits, Hits
    <3>4. i \in 1 .. Len(open)
      BY <3>2, <3>3
    <3>5. u \in DOMAIN upvals
      BY <1>1, <3>3, <3>4, ElementOfSeq
    <3>6. closures' \in Seq(DOMAIN upvals)
      BY <1>1, <3>1, <3>5, AppendProperties
    <3> QED BY <1>1, <1>4, <2>1, <3>6
  <2>2. CASE hits = {}
    <3>1. /\ upvals' \in Seq(Upval(Registers, Int)) /\ Len(upvals') = Len(upvals) + 1
          /\ DOMAIN upvals' = 1 .. Len(upvals) + 1
      <4>1. upvals' = Append(upvals, OpenUpval(slot))
        BY <1>4, <2>2
      <4> DEFINE values == Int
      <4>2. 0 \in values /\ upvals \in Seq(Upval(Registers, values))
        BY <1>1
      <4> HIDE DEF Upval, slot, values
      <4>3. /\ upvals' \in Seq(Upval(Registers, values)) /\ Len(upvals') = Len(upvals) + 1
            /\ DOMAIN upvals' = 1 .. Len(upvals) + 1
        BY <1>2, <4>1, <4>2, Appended
      <4> QED BY <4>3 DEF values
    <3>2. /\ open' \in Seq(DOMAIN upvals')
          /\ Descending(upvals', open') /\ Exact(upvals', open')
      <4>1. upvals' = Append(upvals, OpenUpval(slot)) /\ open' = Inserted(upvals, open, slot)
        BY <1>4, <2>2
      <4>2. Hits(upvals, open, slot) = {}
        BY <2>2 DEF hits
      <4> QED BY <1>1, <1>2, <1>3, <4>1, <4>2, 0 \in Int, InsertKeepsList
    <3>3. DOMAIN upvals \subseteq DOMAIN upvals' /\ Len(upvals') \in DOMAIN upvals'
      BY <1>1, <3>1, LenProperties
    <3>4. closures \in Seq(DOMAIN upvals')
      BY <1>1, <3>3, SeqMonotonic
    <3>5. closures' = Append(closures, Len(upvals'))
      BY <1>4, <2>2
    <3> HIDE DEF Upval
    <3>6. closures' \in Seq(DOMAIN upvals')
      BY <3>3, <3>4, <3>5, AppendProperties
    <3> QED BY <3>1, <3>2, <3>6
  <2> QED BY <2>1, <2>2
<1>6. regs' \in [Registers -> Int]
  <2>1. False \in Int
    BY DEF False
  <2> QED BY <1>1, <1>4, <2>1, Assigned
<1>7. seen' \in Seq(Int \X Seq(Int))
  <2>1. regs[slot] \in Int /\ \A s \in Registers : regs'[s] \in Int
    BY <1>1, <1>2, <1>6
  <2> QED BY <1>1, <1>4, <1>5, <2>1, Observed
<1>8. pc' \in Int /\ pc' # -1
  BY <1>2, <1>4
<1>9. Registers' = Registers
  BY <1>4 DEF Registers
<1>10. WellTyped'
  BY <1>1, <1>4, <1>5, <1>6, <1>7, <1>8, <1>9 DEF WellTyped, Upval, Registers
<1> QED
  BY <1>1, <1>4, <1>5, <1>8, <1>10
     DEF ListInv, OpenListOrdered, OpenListExact, Descending, Exact

\* CLOSEUPVALS and RETURN.
LEMMA CloseKeeps ==
    ASSUME ListInv, NEW level \in Nat, CloseTo(level), pc' \in Int,
           pc' = -1 => level = 0
    PROVE  ListInv'
<1>1. /\ chunk \in Chunks /\ regs \in [Registers -> Int]
      /\ upvals \in Seq(Upval(Registers, Int)) /\ open \in Seq(DOMAIN upvals)
      /\ closures \in Seq(DOMAIN upvals)
      /\ Descending(upvals, open) /\ Exact(upvals, open)
  BY ListInvMeans DEF WellTyped, Upval, Registers
<1>2. /\ Registers \in SUBSET Int /\ \A s \in Registers : s >= 0
      /\ \A s \in Registers : regs[s] \in Int
  <2>1. Registers \in SUBSET Int /\ \A s \in Registers : s >= 0
    BY DEF Registers
  <2>2. \A s \in Registers : regs[s] \in Int
    BY <1>1
  <2> QED BY <2>1, <2>2
<1>3. /\ upvals' = ClosedFrom(upvals, open, level, regs)
      /\ open' = LeftOpen(upvals, open, level)
      /\ chunk' = chunk /\ regs' = regs /\ closures' = closures
      /\ outcomes' = outcomes /\ seen' = seen
  BY DEF CloseTo, NothingNew
<1>4. /\ upvals' \in Seq(Upval(Registers, Int)) /\ DOMAIN upvals' = DOMAIN upvals
      /\ open' \in Seq(DOMAIN upvals')
      /\ Descending(upvals', open') /\ Exact(upvals', open')
      /\ (\A s \in Registers : s >= level) => open' = <<>>
  BY <1>1, <1>2, <1>3, CloseKeepsList
<1>5. pc' = -1 => open' = <<>>
  BY <1>2, <1>4
<1>6. Registers' = Registers
  BY <1>3 DEF Registers
<1>7. WellTyped'
  BY <1>1, <1>3, <1>4, <1>6 DEF ListInv, WellTyped, Upval, Registers
<1> QED
  BY <1>1, <1>3, <1>4, <1>5, <1>7
     DEF ListInv, OpenListOrdered, OpenListExact, Descending, Exact

LEMMA NextKeeps ==
    ASSUME ListInv, [Next]_vars
    PROVE  ListInv'
<1>1. /\ regs \in [Registers -> Int] /\ pc \in Int
      /\ outcomes \in Seq(BOOLEAN) /\ seen \in Seq(Int \X Seq(Int))
  BY DEF ListInv, WellTyped, Registers
<1>2. Fresh \in Int /\ True \in Int /\ False \in Int
  BY <1>1, LenProperties DEF Fresh, True, False
<1>3. \A op : At(op) => /\ pc \in Nat /\ pc + 1 \in Int /\ pc + 1 >= 0
                        /\ Word.a \in Nat /\ Word.d \in Int /\ pc + 1 + Word.d >= 0
                        /\ Word.op = "move" => Word.d \in Registers
                        /\ Word.op = op
  BY WordFits DEF At
<1>4. \A outcome \in BOOLEAN : Evaluate(outcome) => outcomes' \in Seq(BOOLEAN)
  BY <1>1, AppendProperties DEF Evaluate
<1>5. CASE PrepVarargs
  BY <1>1, <1>3, <1>5, PlainStep DEF PrepVarargs, Advance, Jump, NothingNew
<1>6. CASE LoadK
  <2>1. regs' \in [Registers -> Int]
    BY <1>1, <1>2, <1>6, Assigned DEF LoadK
  <2> QED BY <1>1, <1>3, <1>6, <2>1, PlainStep DEF LoadK, Advance, Jump, NothingNew
<1>7. CASE LoadTemp
  <2>1. regs' \in [Registers -> Int]
    BY <1>1, <1>2, <1>7, Assigned DEF LoadTemp
  <2> QED BY <1>1, <1>3, <1>7, <2>1, PlainStep DEF LoadTemp, Advance, Jump, NothingNew
<1>8. CASE LoadLocal
  <2>1. regs' \in [Registers -> Int]
    BY <1>1, <1>2, <1>8, Assigned DEF LoadLocal
  <2> QED BY <1>1, <1>2, <1>3, <1>8, <2>1, PlainObserve DEF LoadLocal, Advance, Jump
<1>9. CASE Move
  <2>1. regs[Word.d] \in Int
    BY <1>1, <1>3, <1>9 DEF Move
  <2>2. regs' \in [Registers -> Int]
    BY <1>1, <1>9, <2>1, Assigned DEF Move
  <2> QED BY <1>1, <1>3, <1>9, <2>1, <2>2, PlainObserve DEF Move, Advance, Jump
<1>10. CASE SetGlobal
  BY <1>1, <1>3, <1>10, PlainStep DEF SetGlobal, Jump, NothingNew
<1>11. CASE JumpIfNot
  BY <1>1, <1>3, <1>11, PlainStep DEF JumpIfNot, Jump, NothingNew
<1>12. CASE JumpAlways
  BY <1>1, <1>3, <1>12, PlainStep DEF JumpAlways, Jump, NothingNew
<1>13. ASSUME NEW outcome \in BOOLEAN, Eval(outcome)
       PROVE  ListInv'
  <2>1. (IF outcome THEN True ELSE False) \in Int
    BY <1>2
  <2>2. regs' \in [Registers -> Int]
    BY <1>1, <1>13, <2>1, Assigned DEF Eval
  <2> QED BY <1>1, <1>3, <1>4, <1>13, <2>2, PlainStep DEF Eval, Advance, Jump
<1>14. ASSUME NEW outcome \in BOOLEAN, ForNPrep(outcome)
       PROVE  ListInv'
  <2>1. regs' \in [Registers -> Int]
    BY <1>1, <1>2, <1>14, Assigned DEF ForNPrep
  <2>2. pc' \in Int /\ pc' >= 0
    BY <1>3, <1>14 DEF ForNPrep, Jump
  <2> QED BY <1>1, <1>4, <1>14, <2>1, <2>2, PlainStep DEF ForNPrep
<1>15. ASSUME NEW outcome \in BOOLEAN, ForNLoop(outcome)
       PROVE  ListInv'
  <2>1. [regs EXCEPT ![Word.a + 2] = Fresh] \in [Registers -> Int]
    BY <1>1, <1>2, Assigned
  <2>2. [regs EXCEPT ![Word.a + 2] = Fresh, ![Word.a + 3] = Fresh] \in [Registers -> Int]
    BY <1>2, <2>1, Assigned
  <2>3. regs' \in [Registers -> Int]
    BY <1>15, <2>1, <2>2 DEF ForNLoop
  <2>4. pc' \in Int /\ pc' >= 0
    BY <1>3, <1>15 DEF ForNLoop, Advance, Jump
  <2> QED BY <1>1, <1>4, <1>15, <2>3, <2>4, PlainStep DEF ForNLoop
<1>16. ASSUME NEW outcome \in BOOLEAN, ForGLoop(outcome)
       PROVE  ListInv'
  <2>1. [regs EXCEPT ![Word.a + 2] = Fresh] \in [Registers -> Int]
    BY <1>1, <1>2, Assigned
  <2>2. [regs EXCEPT ![Word.a + 2] = Fresh, ![Word.a + 3] = Fresh] \in [Registers -> Int]
    BY <1>2, <2>1, Assigned
  <2>3. regs' \in [Registers -> Int]
    BY <1>1, <1>16, <2>2 DEF ForGLoop
  <2>4. pc' \in Int /\ pc' >= 0
    BY <1>3, <1>16 DEF ForGLoop, Jump
  <2>5. CASE outcome
    BY <1>2, <1>4, <1>16, <2>3, <2>4, <2>5, PlainObserve DEF ForGLoop
  <2>6. CASE ~outcome
    BY <1>1, <1>4, <1>16, <2>3, <2>4, <2>6, PlainStep DEF ForGLoop
  <2> QED BY <2>5, <2>6
<1>17. CASE NewClosure
  BY <1>17, NewClosureKeeps
<1>18. CASE CloseUpvals
  <2>1. Word.a \in Nat /\ pc' \in Int /\ pc' # -1 /\ CloseTo(Word.a)
    BY <1>3, <1>18 DEF CloseUpvals, Advance, Jump
  <2> QED BY <2>1, CloseKeeps
<1>19. CASE Return
  <2>1. CloseTo(0) /\ pc' = -1
    BY <1>19 DEF Return
  <2> QED BY <2>1, CloseKeeps
<1>20. CASE UNCHANGED vars
  BY <1>20 DEF vars, ListInv, WellTyped, OpenListOrdered, OpenListExact
<1> QED
  BY <1>5, <1>6, <1>7, <1>8, <1>9, <1>10, <1>11, <1>12, <1>13, <1>14, <1>15,
     <1>16, <1>17, <1>18, <1>19, <1>20 DEF Next

\* Whatever code runs on a frame, its registers hold values, and its upvalues
\* and closures refer to registers and upvalues that exist.
THEOREM FrameWellTyped == Spec => []WellTyped
<1>1. ListInv => WellTyped
  BY DEF ListInv
<1> QED BY InitHolds, NextKeeps, <1>1, PTL DEF Spec

\* The list of open upvalues keeps the order its walks rely on
\* (execute.go:1747-1763, do.go:606-617): at most one open upvalue stands for
\* a register.
THEOREM ListAlwaysOrdered == Spec => []OpenListOrdered
<1>1. ListInv => OpenListOrdered
  BY DEF ListInv
<1> QED BY InitHolds, NextKeeps, <1>1, PTL DEF Spec

\* No upvalue is lost from the list while it is open, none stays on it after
\* it was closed, and a frame that has returned leaves none behind.
THEOREM ListAlwaysExact == Spec => []OpenListExact
<1>1. ListInv => OpenListExact
  BY DEF ListInv
<1> QED BY InitHolds, NextKeeps, <1>1, PTL DEF Spec
=============================================================================
