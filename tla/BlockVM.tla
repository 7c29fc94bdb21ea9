------------------------------- MODULE BlockVM -------------------------------
(***************************************************************************)
(* The interpreter on one Lua frame, pkg/vm/execute.go: registers, jumps,  *)
(* loops, closures that capture registers, and CLOSEUPVALS.  The code is   *)
(* arbitrary; what its conditions and loop limits evaluate to is left      *)
(* open.  Every value that is loaded is new, so that a value says which    *)
(* declaration or assignment it came from.                                 *)
(***************************************************************************)
EXTENDS Upvalues

CONSTANTS Chunks,      \* what may be run: records with code and maxStack
          MaxOutcomes  \* how many conditions are evaluated at most

\* No jump leads before the code, and what is read is a register of the frame.
ASSUME ChunksAssumption ==
    \A c \in Chunks :
        /\ c.maxStack \in Nat
        /\ c.code \in Seq([op : STRING, a : Nat, d : Int])
        /\ \A i \in DOMAIN c.code :
              /\ i + c.code[i].d >= 0
              /\ c.code[i].op \in {"move", "capture"}
                 => c.code[i].d \in 0 .. c.maxStack - 1

VARIABLES chunk,    \* the chunk that runs
          pc,       \* the next word of its code, counted from 0; -1 is after
          regs,     \* its registers
          upvals,   \* the upvalues made so far
          open,     \* the list of those that are open
          closures, \* the closures: the upvalue each one captured
          outcomes, \* history: how the conditions came out
          seen      \* history: what each declaration, assignment and capture
                    \* let one observe

vars == <<chunk, pc, regs, upvals, open, closures, outcomes, seen>>

True  == -1
False == 0
Fresh == Len(seen) + 1

Word   == chunk.code[pc + 1]
At(op) == pc \in 0 .. Len(chunk.code) - 1 /\ Word.op = op

Init ==
    /\ chunk \in Chunks
    /\ pc = 0
    /\ regs = [r \in 0 .. chunk.maxStack - 1 |-> False]
    /\ upvals = <<>> /\ open = <<>> /\ closures = <<>>
    /\ outcomes = <<>> /\ seen = <<>>

\* A value that was read or written, and what each closure returns.
Observe(value) ==
    seen' = Append(seen, <<value, [c \in DOMAIN closures' |->
                                     Read(upvals', closures'[c], regs')]>>)

Jump(d)    == pc' = pc + 1 + d
Advance    == Jump(0)
NoUpvals   == UNCHANGED <<chunk, upvals, open, closures>>
NothingNew == UNCHANGED <<outcomes, seen>>

Evaluate(outcome) ==
    /\ Len(outcomes) < MaxOutcomes
    /\ outcomes' = Append(outcomes, outcome)

\* PREPVARARGS: callLua has arranged the arguments already.
PrepVarargs == At("prepvarargs") /\ Advance /\ UNCHANGED regs /\ NoUpvals /\ NothingNew

\* LOADK, LOADN and the like, with a value that does not matter.
LoadK ==
    /\ At("loadk")
    /\ regs' = [regs EXCEPT ![Word.a] = False]
    /\ Advance /\ NoUpvals /\ NothingNew

\* A new value for a temporary register.
LoadTemp ==
    /\ At("temp")
    /\ regs' = [regs EXCEPT ![Word.a] = Fresh]
    /\ Advance /\ NoUpvals /\ NothingNew

\* A new value for the register of a local that is declared.
LoadLocal ==
    /\ At("declare")
    /\ regs' = [regs EXCEPT ![Word.a] = Fresh]
    /\ NoUpvals /\ Observe(Fresh)
    /\ Advance /\ UNCHANGED outcomes

Move ==
    /\ At("move")
    /\ regs' = [regs EXCEPT ![Word.a] = regs[Word.d]]
    /\ NoUpvals /\ Observe(regs[Word.d])
    /\ Advance /\ UNCHANGED outcomes

\* SETGLOBAL and its AUX word; nothing here reads a global.
SetGlobal == At("setglobal") /\ Jump(1) /\ UNCHANGED regs /\ NoUpvals /\ NothingNew

\* A condition is evaluated into a register.
Eval(outcome) ==
    /\ At("eval")
    /\ Evaluate(outcome)
    /\ regs' = [regs EXCEPT ![Word.a] = IF outcome THEN True ELSE False]
    /\ Advance /\ NoUpvals /\ UNCHANGED seen

JumpIfNot ==
    /\ At("jumpifnot")
    /\ Jump(IF regs[Word.a] = False THEN Word.d ELSE 0)
    /\ UNCHANGED regs /\ NoUpvals /\ NothingNew

\* JUMP, JUMPBACK and FORGPREP.
JumpAlways ==
    /\ At("jump") \/ At("forgprep")
    /\ Jump(Word.d)
    /\ UNCHANGED regs /\ NoUpvals /\ NothingNew

\* FORNPREP: the loop runs or is complete already.
ForNPrep(outcome) ==
    /\ At("fornprep")
    /\ Evaluate(outcome)
    /\ regs' = [regs EXCEPT ![Word.a + 2] = Fresh]
    /\ Jump(IF outcome THEN 0 ELSE Word.d)
    /\ NoUpvals /\ UNCHANGED seen

\* The index moves on; only if the loop goes on does the variable follow (and
\* the MOVE at the head of the body copies it once more).
ForNLoop(outcome) ==
    /\ At("fornloop")
    /\ NoUpvals /\ Evaluate(outcome)
    /\ IF outcome
       THEN /\ regs' = [regs EXCEPT ![Word.a + 2] = Fresh, ![Word.a + 3] = Fresh]
            /\ Jump(Word.d)
       ELSE regs' = [regs EXCEPT ![Word.a + 2] = Fresh] /\ Advance
    /\ UNCHANGED seen

\* FORGLOOP is followed by a word with the number of variables; its jump is
\* counted from there.
ForGLoop(outcome) ==
    /\ At("forgloop")
    /\ NoUpvals /\ Evaluate(outcome)
    /\ IF outcome
       THEN /\ regs' = [regs EXCEPT ![Word.a + 2] = Fresh, ![Word.a + 3] = Fresh]
            /\ Observe(Fresh) /\ Jump(Word.d)
       ELSE /\ regs' = regs
            /\ UNCHANGED seen /\ Jump(1)

\* NEWCLOSURE and the CAPTURE that follows it.
NewClosure ==
    /\ At("newclosure") /\ pc + 2 <= Len(chunk.code)
    /\ chunk.code[pc + 2].op = "capture"
    /\ LET slot == chunk.code[pc + 2].d
           hits == Hits(upvals, open, slot) IN
       /\ IF hits # {}
          THEN /\ UNCHANGED <<upvals, open>>
               /\ \E u \in hits : closures' = Append(closures, u)
          ELSE /\ upvals' = Append(upvals, OpenUpval(slot))
               /\ open' = Inserted(upvals, open, slot)
               /\ closures' = Append(closures, Len(upvals'))
       /\ regs' = [regs EXCEPT ![Word.a] = False]
       /\ Observe(regs[slot])
    /\ Jump(1) /\ UNCHANGED <<chunk, outcomes>>

CloseTo(level) ==
    /\ upvals' = ClosedFrom(upvals, open, level, regs)
    /\ open' = LeftOpen(upvals, open, level)
    /\ UNCHANGED <<chunk, regs, closures>> /\ NothingNew

CloseUpvals == At("closeupvals") /\ CloseTo(Word.a) /\ Advance

\* A fault: a return leaves the upvalues of its frame open.
ReturnLeavesOpen ==
    /\ At("return") \/ pc = Len(chunk.code)
    /\ pc' = -1
    /\ UNCHANGED <<chunk, regs, upvals, open, closures>> /\ NothingNew

\* returnFromFrame; running off the end of the code is a return too.
Return ==
    /\ At("return") \/ pc = Len(chunk.code)
    /\ pc' = -1
    /\ CloseTo(0)

Next ==
    \/ PrepVarargs \/ LoadK \/ LoadTemp \/ LoadLocal \/ Move \/ SetGlobal
    \/ JumpIfNot \/ JumpAlways
    \/ \E outcome \in BOOLEAN : \/ Eval(outcome) \/ ForNPrep(outcome)
                                \/ ForNLoop(outcome) \/ ForGLoop(outcome)
    \/ NewClosure \/ CloseUpvals \/ Return

Spec == Init /\ [][Next]_vars

-----------------------------------------------------------------------------
(* Correctness                                                             *)

\* Every upvalue stands or stood for a register of the frame; the list and
\* the closures name upvalues that exist.
WellTyped ==
    /\ pc \in Int
    /\ regs \in [0 .. chunk.maxStack - 1 -> Int]
    /\ upvals \in Seq([closed : BOOLEAN, slot : 0 .. chunk.maxStack - 1, value : Int])
    /\ open \in Seq(DOMAIN upvals)
    /\ closures \in Seq(DOMAIN upvals)
    /\ outcomes \in Seq(BOOLEAN)
    /\ seen \in Seq(Int \X Seq(Int))

\* What is more, code never runs off its end nor into a word that belongs to
\* another, and stays in its registers (reframeStack makes room for maxStack
\* of them).
TypeOK ==
    /\ WellTyped
    /\ pc \in -1 .. Len(chunk.code) - 1
    /\ pc >= 0 => ~At("aux") /\ ~At("capture") /\ Word.a \in DOMAIN regs

\* The walks that stop at the first smaller slot rely on the order of the
\* list ("sorted by descending stackIndex", execute.go:1752); no two open
\* upvalues stand for one slot.
OpenListOrdered ==
    \A i, j \in DOMAIN open :
        i < j => upvals[open[i]].slot > upvals[open[j]].slot

\* An upvalue is on the list exactly as long as it is open, and none outlives
\* its frame (execute.go:1424-1432).
OpenListExact ==
    /\ \A u \in DOMAIN upvals :
          upvals[u].closed <=> ~ \E i \in DOMAIN open : open[i] = u
    /\ pc = -1 => open = <<>>
=============================================================================
