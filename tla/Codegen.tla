------------------------------- MODULE Codegen -------------------------------
(***************************************************************************)
(* Code generation for statements, pkg/compiler/compiler.go and            *)
(* builder.go: registers, jumps and their patching, and the CLOSEUPVALS    *)
(* instructions that end the life of captured locals.  A word of code is a *)
(* record; expressions are abstracted to the one instruction that leaves   *)
(* their value in a register.                                              *)
(***************************************************************************)
EXTENDS LuaBlocks

Word(op, a, d) == [op |-> op, a |-> a, d |-> d]

\* A builder under way: the code, the next free register, the high-water
\* mark, the registers of the locals in scope, and the innermost loop.
NoLoop == [closeReg |-> 0, breakClose |-> FALSE, continueClose |-> FALSE,
           breaks |-> <<>>, continues |-> <<>>]

\* compileMainChunk starts with PREPVARARGS.
NewBuilder == [code |-> <<Word("prepvarargs", 0, 0)>>, top |-> 0, maxStack |-> 1,
               locals |-> <<>>, loop |-> NoLoop]

PC(b) == Len(b.code)

Emit(b, op, a, d) == [b EXCEPT !.code = Append(@, Word(op, a, d))]

ReserveReg(b, n) == [b EXCEPT !.top = @ + n,
                              !.maxStack = IF b.top + n > @ THEN b.top + n ELSE @]

SetTop(b, top) == [b EXCEPT !.top = top]

\* patchJumpTo: offsets count from the word after the jump.
PatchTo(b, pc, target) == [b EXCEPT !.code[pc + 1].d = target - pc - 1]

\* Patched to lead to the next word.
Land(b, pc)     == PatchTo(b, pc, PC(b))
LandAll(b, pcs) == FoldLeft(Land, b, pcs)

\* A jump back to a word that has been emitted; JUMP and JUMPBACK differ by a
\* safepoint only.
JumpBack(b, op, a, target) == Emit(b, op, a, target - PC(b) - 1)

\* Some value that the run decides on is loaded into a register of its own.
LoadTemp(b, op) == Emit(ReserveReg(b, 1), op, b.top, 0)

\* compileCondJump, and where its jump stands: behind the one word of the
\* condition.
CondPC(b)   == PC(b) + 1
CondJump(b) == SetTop(Emit(LoadTemp(b, "eval"), "jumpifnot", b.top, 0), b.top)

\* lastInsnIsUnreachableTerminator looks at the last word, which may be an
\* AUX word: the number of a constant or a count, not an instruction.
OpReturn == 22

EndsInReturn(b) ==
    LET last == b.code[PC(b)]
    IN  last.op = "return" \/ (last.op = "aux" /\ last.d % 256 = OpReturn)

Bind(b, reg) == [b EXCEPT !.locals = Append(@, reg)]

LocalReg(b, depth) == b.locals[Len(b.locals) + 1 - depth]

\* Leaving a scope: locals and registers are as at its start.
EndScope(b, start) == [b EXCEPT !.locals = start.locals, !.top = start.top]

CloseUnlessReturned(b, reg) ==
    IF EndsInReturn(b) THEN b ELSE Emit(b, "closeupvals", reg, 0)

\* The innermost loop, its continues when the body is over, and its end.
WithLoop(b, closeReg, continueClose) ==
    [b EXCEPT !.loop = [closeReg |-> closeReg, breakClose |-> TRUE,
                        continueClose |-> continueClose,
                        breaks |-> <<>>, continues |-> <<>>]]
LandContinues(b)   == LandAll(b, b.loop.continues)
EndLoop(b, start)  == [LandAll(b, b.loop.breaks) EXCEPT !.loop = start.loop]

RECURSIVE CompileStat(_, _)

CompileAll(b, body) == FoldLeft(CompileStat, b, body)

EndBlock(b, start) ==
    EndScope(IF Len(b.locals) > Len(start.locals)
             THEN CloseUnlessReturned(b, start.top) ELSE b, start)

CompileBlock(b, body) == EndBlock(CompileAll(b, body), b)

CompileIf(b, s) == Land(CompileBlock(CondJump(b), s.body), CondPC(b))

CompileElse(then, s, condPC) ==
    Land(CompileBlock(Land(Emit(then, "jump", 0, 0), condPC), s.else), PC(then))

CompileIfElse(b, s) ==
    CompileElse(CompileBlock(CondJump(b), s.body), s, CondPC(b))

CompileWhile(b, s) ==
    LET body == CompileBlock(WithLoop(CondJump(b), b.top, TRUE), s.body)
        back == JumpBack(LandContinues(body), "jump", 0, PC(b))
    IN  EndLoop(Land(back, CondPC(b)), b)

CloseAbove(b, reg) == IF b.top > reg THEN Emit(b, "closeupvals", reg, 0) ELSE b

\* A fault: the way back to the start of the body leaves upvalues open.
RepeatExitsOpenBackEdge(b, start, condPC) ==
    LET leave == Emit(b, "jump", 0, 0)
        back  == JumpBack(Land(leave, condPC), "jump", 0, PC(start))
    IN  EndLoop(Land(back, PC(b)), start)

\* The loop is left first, then comes the way back; each closes upvalues.
RepeatExits(b, start, condPC) ==
    LET leave == Emit(b, "jump", 0, 0)
        again == CloseAbove(Land(leave, condPC), start.top)
        back  == JumpBack(again, "jump", 0, PC(start))
    IN  EndLoop(Land(back, PC(b)), start)

RepeatUntil(b, start) ==
    RepeatExits(CloseAbove(CondJump(b), start.top), start, CondPC(b))

\* The locals of the body stay in scope up to the condition.
CompileRepeat(b, s) ==
    LET body == CompileAll(WithLoop(b, b.top, FALSE), s.body)
    IN  EndScope(RepeatUntil(LandContinues(body), b), b)

CompileBreak(b) ==
    LET closed == IF b.loop.breakClose
                  THEN Emit(b, "closeupvals", b.loop.closeReg, 0) ELSE b
    IN  [Emit(closed, "jump", 0, 0) EXCEPT !.loop.breaks = Append(@, PC(closed))]

CompileContinue(b) ==
    LET closed == IF b.loop.continueClose
                  THEN Emit(b, "closeupvals", b.loop.closeReg, 0) ELSE b
    IN  [Emit(closed, "jump", 0, 0) EXCEPT !.loop.continues = Append(@, PC(closed))]

\* The body of both for loops, up to where continue lands.
CompileForBody(b, body, var) ==
    LET inside == CompileBlock(Bind(WithLoop(b, var, TRUE), var), body)
    IN  LandContinues(CloseUnlessReturned(inside, var))

\* Registers: limit, step, index, variable.  FORNPREP is the fourth word.
CompileFor(b, s) ==
    LET base == b.top
        init == Emit(Emit(Emit(ReserveReg(b, 4), "loadk", base + 2, 0),
                          "loadk", base, 0), "loadk", base + 1, 0)
        head == Emit(Emit(init, "fornprep", base, 0), "move", base + 3, base + 2)
        back == JumpBack(CompileForBody(head, s.body, base + 3),
                         "fornloop", base, PC(b) + 4)
    IN  EndScope(EndLoop(Land(back, PC(b) + 3), b), b)

\* FORGPREP leads to FORGLOOP, whose jump is counted from its AUX word.
ForInExits(b, start) ==
    LET back == JumpBack(Land(b, PC(start) + 3), "forgloop", start.top, PC(start) + 4)
    IN  EndLoop(Emit(back, "aux", 0, 1), start)

\* Registers: generator, state, control, and two for variables.
CompileForIn(b, s) ==
    LET base == b.top
        init == Emit(Emit(Emit(ReserveReg(b, 3), "loadk", base, 0),
                          "loadk", base + 1, 0), "loadk", base + 2, 0)
        prep == Emit(ReserveReg(init, 2), "forgprep", base, 0)
    IN  EndScope(ForInExits(CompileForBody(prep, s.body, base + 3), b), b)

\* A new closure goes into a temporary register, from where it is stored.
CompileClosure(b, depth) ==
    LET new == Emit(Emit(ReserveReg(b, 1), "newclosure", b.top, 0),
                    "capture", 0, LocalReg(b, depth))
    IN  SetTop(new, b.top)

CompileAssign(b, depth) ==
    SetTop(Emit(LoadTemp(b, "temp"), "move", LocalReg(b, depth), b.top), b.top)

\* A global's name is the index of its constant.
CompileGlobal(b, name) ==
    SetTop(Emit(Emit(LoadTemp(b, "loadk"), "setglobal", b.top, 0), "aux", 0, name),
           b.top)

CompileStat(b, s) ==
    CASE s.do = "local"    -> Bind(LoadTemp(b, "declare"), b.top)
      [] s.do = "assign"   -> CompileAssign(b, s.depth)
      [] s.do = "global"   -> CompileGlobal(b, s.name)
      [] s.do = "closure"  -> CompileClosure(b, s.depth)
      [] s.do = "break"    -> CompileBreak(b)
      [] s.do = "continue" -> CompileContinue(b)
      [] s.do = "return"   -> Emit(b, "return", 0, 0)
      [] s.do = "block"    -> CompileBlock(b, s.body)
      [] s.do = "if"       -> CompileIf(b, s)
      [] s.do = "ifelse"   -> CompileIfElse(b, s)
      [] s.do = "while"    -> CompileWhile(b, s)
      [] s.do = "repeat"   -> CompileRepeat(b, s)
      [] s.do = "for"      -> CompileFor(b, s)
      [] s.do = "forin"    -> CompileForIn(b, s)

EndsWithReturn(body) ==
    body # <<>> /\ Last(body).do \in {"return", "break", "continue"}

\* compileMainChunk.
Compiled(program) ==
    LET b == CompileBlock(NewBuilder, program)
    IN  IF EndsWithReturn(program) THEN b ELSE Emit(b, "return", 0, 0)
=============================================================================
