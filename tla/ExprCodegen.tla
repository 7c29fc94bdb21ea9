----------------------------- MODULE ExprCodegen -----------------------------
(***************************************************************************)
(* Code generation for expressions, assignments, calls and functions,      *)
(* pkg/compiler/compiler.go and builder.go.  An operator that is named     *)
(* after a compile function takes the builder and returns it with words    *)
(* added; To(b, e, target) is compileExprToReg.  A word is a record, an    *)
(* AUX word one of its own.  Statements that jump are in Codegen.          *)
(***************************************************************************)
EXTENDS LuaExpressions, FiniteSets

CONSTANTS ChunkSize,  \* list items that are evaluated before a SETLIST, 16
          KLimit,     \* constants that an 8-bit field can name, 256
          IndexLimit  \* integer keys that an 8-bit field can name, 256

Word(op, a, b, c) == [op |-> op, a |-> a, b |-> b, c |-> c]

\* A function under construction: code, next free register, high-water mark,
\* registers of locals, upvalues, constants.  A builder: the functions under
\* construction, the innermost last, and those that are finished.
NewFunction(vararg) ==
    [code |-> <<>>, top |-> 0, maxStack |-> 0, locals |-> <<>>, upvals |-> <<>>,
     constants |-> <<>>, params |-> 0, vararg |-> vararg]

Cur(b) == Last(b.stack)
Top(b) == Cur(b).top
PC(b)  == Len(Cur(b).code)

Change(b, function) == [b EXCEPT !.stack[Len(b.stack)] = function]

Emit(b, op, a, bb, c) ==
    [b EXCEPT !.stack[Len(b.stack)].code = Append(@, Word(op, a, bb, c))]
Aux(b, d) == Emit(b, "aux", 0, d, 0)

SetTop(b, top) ==
    Change(b, [Cur(b) EXCEPT !.top = top,
                             !.maxStack = IF top > @ THEN top ELSE @])
Reserve(b, n) == SetTop(b, Top(b) + n)

\* patchJumpTo: offsets count from the word after the jump.
Land(b, pc) ==
    [b EXCEPT !.stack[Len(b.stack)].code[pc + 1].b = PC(b) - pc - 1]

\* Constants are shared within a function; they are counted from 0.
ConstantAt(b, k) ==
    IF \E i \in DOMAIN Cur(b).constants : Cur(b).constants[i] = k
    THEN (CHOOSE i \in DOMAIN Cur(b).constants : Cur(b).constants[i] = k) - 1
    ELSE Len(Cur(b).constants)

AddConstant(b, k) ==
    IF ConstantAt(b, k) < Len(Cur(b).constants) THEN b
    ELSE [b EXCEPT !.stack[Len(b.stack)].constants = Append(@, k)]

\* An instruction whose AUX word names a constant.
EmitWith(b, op, a, bb, c, k) ==
    Aux(Emit(AddConstant(b, k), op, a, bb, c), ConstantAt(b, k))

LoadK(b, target, k) ==
    Emit(AddConstant(b, k), "loadk", target, ConstantAt(b, k), 0)

SmallInt(n)   == n \in -32768 .. 32767
SmallIndex(e) == e.is = "number" /\ e.n \in 1 .. IndexLimit

\* Where a variable lives: in the function itself or captured.
Here(b, e)     == e.is = "local" /\ e.n \in DOMAIN Cur(b).locals
LocalReg(b, e) == Cur(b).locals[e.n]

Bind(b, v, reg) ==
    [b EXCEPT !.stack[Len(b.stack)].locals =
        [x \in DOMAIN @ \cup {v} |-> IF x = v THEN reg ELSE @[x]]]

BindAll(b, vars, base) ==
    FoldLeft(LAMBDA acc, i : Bind(acc, vars[i].n, base + i - 1), b,
             [i \in 1 .. Len(vars) |-> i])

\* resolveUpvalue: every function between the owner and this one captures the
\* variable too.
Owner(b, v) == CHOOSE i \in DOMAIN b.stack :
                   /\ v \in DOMAIN b.stack[i].locals
                   /\ \A j \in i + 1 .. Len(b.stack) : v \notin DOMAIN b.stack[j].locals

Captured(b, depth, v) == \E i \in DOMAIN b.stack[depth].upvals :
                             b.stack[depth].upvals[i].owner = v

Slot(b, depth, v) == (CHOOSE i \in DOMAIN b.stack[depth].upvals :
                          b.stack[depth].upvals[i].owner = v) - 1

Capture(b, depth, v) ==
    IF Captured(b, depth, v) THEN b
    ELSE LET outer == depth = Owner(b, v) + 1
             slot  == [kind  |-> IF outer THEN 1 ELSE 2,
                       index |-> IF outer THEN b.stack[depth - 1].locals[v]
                                 ELSE Slot(b, depth - 1, v),
                       owner |-> v]
         IN  [b EXCEPT !.stack[depth].upvals = Append(@, slot)]

ResolveUpvalue(b, v) ==
    FoldLeft(LAMBDA acc, i : Capture(acc, Owner(b, v) + i, v), b,
             [i \in 1 .. Len(b.stack) - Owner(b, v) |-> i])

EmitUpvalue(b, op, reg, v) ==
    LET r == ResolveUpvalue(b, v)
    IN  Emit(r, op, reg, Slot(r, Len(r.stack), v), 0)

RECURSIVE Strip(_), IntoRow(_, _), InterpParts(_, _), AllListItems(_, _, _, _, _),
          SetItems(_, _, _), CompileAll(_, _), PreEvalAll(_, _), CompileCall(_, _, _, _),
          CompileStat(_, _), To(_, _, _)

Strip(e) == IF e.is = "group" THEN Strip(e.of[1]) ELSE e

\* A value that is in a register, and two of them.
InReg(b, reg)         == [b |-> b, reg |-> reg]
InRegs(first, second) == [b |-> second.b, reg |-> first, reg2 |-> second.reg]

\* compileExprAsReg: a local is used where it lives, anything else in a new
\* register.
AsReg(b, e) == IF Here(b, Strip(e)) THEN InReg(b, LocalReg(b, Strip(e)))
               ELSE InReg(To(Reserve(b, 1), Strip(e), Top(b)), Top(b))

Beside(first, y) == InRegs(first.reg, AsReg(first.b, y))
AsRegs(b, x, y)  == Beside(AsReg(b, x), y)

\* A fault: whatever lies in that register is released.
ReleaseAlways(b, e, reg) == IF Here(b, e) THEN b ELSE SetTop(b, reg)

\* releaseTempIfTop.
Release(b, e, reg) == IF reg + 1 # Top(b) \/ Here(b, e) THEN b ELSE SetTop(b, reg)

\* A fault: the lower register is released first, when it is not the top one.
ReleaseBothForward(b, x, rx, y, ry) == Release(Release(b, x, rx), y, ry)

ReleaseBoth(b, x, rx, y, ry) == Release(Release(b, y, ry), x, rx)

LocalRead(b, e, target) ==
    IF ~Here(b, e) THEN EmitUpvalue(b, "getupval", target, e.n)
    ELSE IF LocalReg(b, e) = target THEN b
    ELSE Emit(b, "move", target, LocalReg(b, e), 0)

\* An instruction on operands that are in registers, which it releases.
EmitUnary(r, op, e, target, c) == Release(Emit(r.b, op, target, r.reg, c), e, r.reg)
EmitIndexName(r, e, name, target) ==
    Release(EmitWith(r.b, "getks", target, r.reg, 0, String(name)), e, r.reg)
EmitBinary(r, op, x, y, target) ==
    ReleaseBoth(Emit(r.b, op, target, r.reg, r.reg2), x, r.reg, y, r.reg2)

CompileIndexExpr(b, e, key, target) ==
    CASE SmallIndex(key)      -> EmitUnary(AsReg(b, e), "getn", e, target, key.n - 1)
      [] key.is = "string"    -> EmitIndexName(AsReg(b, e), e, key.name, target)
      [] OTHER                -> EmitBinary(AsRegs(b, e, key), "get", e, key, target)

\* A number on the right is named as a constant if its index fits.
KForm == [add |-> "addk", sub |-> "subk"]

CompileArithmetic(b, op, x, y, target) ==
    CASE y.is = "number" /\ ConstantAt(b, y) < KLimit ->
           EmitUnary(AsReg(AddConstant(b, y), x), KForm[op], x, target, ConstantAt(b, y))
      [] y.is = "number" /\ ConstantAt(b, y) >= KLimit ->
           EmitBinary(AsRegs(AddConstant(b, y), x, y), op, x, y, target)
      [] OTHER -> EmitBinary(AsRegs(b, x, y), op, x, y, target)

\* compileCondCompareJump; the comparison is the word before the last.
CompareJump(r, op, x, y) ==
    ReleaseBoth(Aux(Emit(r.b, op, r.reg, 0, 0), r.reg2), x, r.reg, y, r.reg2)

BoolAfter(jump, target) ==
    Emit(Land(Emit(jump, "loadb", target, 0, 1), PC(jump) - 2), "loadb", target, 1, 0)

CompareToBool(b, op, x, y, target) ==
    BoolAfter(CompareJump(AsRegs(b, x, y), op, x, y), target)

\* > and >= are < and <= of the operands swapped.
JumpFor == [eq |-> "jumpifeq", ne |-> "jumpifnoteq", lt |-> "jumpiflt",
            le |-> "jumpifle", gt |-> "jumpiflt", ge |-> "jumpifle"]
Swapped(op) == op \in {"gt", "ge"}

CompileCompare(b, op, x, y, target) ==
    CompareToBool(b, JumpFor[op], IF Swapped(op) THEN y ELSE x,
                  IF Swapped(op) THEN x ELSE y, target)

RightAfter(left, op, y, target) ==
    Land(To(Emit(left, op, target, 0, 0), y, target), PC(left))

CompileShortCircuit(b, op, x, y, target) ==
    RightAfter(To(b, x, target), IF op = "and" THEN "jumpifnot" ELSE "jumpif", y, target)

\* Each value in a register of its own, in a row.
IntoRow(b, es) ==
    IF es = <<>> THEN b ELSE IntoRow(To(Reserve(b, 1), Head(es), Top(b)), Tail(es))

EmitConcat(row, target, base) ==
    SetTop(Emit(row, "concat", target, base, Top(row) - 1), base)

\* compileCondJump evaluates the condition in a temporary; its jump is the
\* last word.
CondJump(b, e) ==
    SetTop(Emit(To(Reserve(b, 1), e, Top(b)), "jumpifnot", Top(b), 0, 0), Top(b))

ElseAfter(yes, test, y, target) == Land(To(Land(yes, test), y, target), PC(yes) - 1)
ThenAfter(test, x, y, target) ==
    ElseAfter(Emit(To(test, x, target), "jump", 0, 0, 0), PC(test) - 1, y, target)

CompileIfElse(b, e, target) == ThenAfter(CondJump(b, e.of[1]), e.of[2], e.of[3], target)

\* tostring(e), of which the result replaces the function.
InterpPart(b, e) ==
    SetTop(Emit(To(EmitWith(Reserve(LoadK(Reserve(b, 1), Top(b), String("")), 2),
                            "getglobal", Top(b) + 1, 0, 0, String("tostring")),
                   e, Top(b) + 2),
                "call", Top(b) + 1, 2, 2), Top(b) + 2)

InterpParts(b, es) == IF es = <<>> THEN b ELSE InterpParts(InterpPart(b, Head(es)), Tail(es))
InterpTail(parts)  == LoadK(Reserve(parts, 1), Top(parts), String(""))

EmitInterp(b, es, target) ==
    IF es = <<>> THEN SetTop(Emit(InterpTail(b), "move", target, Top(b), 0), Top(b))
    ELSE EmitConcat(InterpTail(InterpParts(b, es)), target, Top(b))

CompileInterp(b, es, target) == EmitInterp(AddConstant(b, String("tostring")), es, target)

-----------------------------------------------------------------------------
\* Calls.  Register a of CALL holds the function, the arguments follow; b
\* counts them and c the results that are wanted, both plus one, 0 for all.

\* compileExprMultRet and compileExprMultRetExact: n values, or all of them
\* if n is -1.
MultRet(b, e, target, n) ==
    IF e.is = "varargs" THEN Emit(b, "getvarargs", target, n + 1, 0)
    ELSE CompileCall(b, e, target, n)

EndsMulti(es) == es # <<>> /\ IsMulti(Last(es))
Fixed(es)     == IF EndsMulti(es) THEN Front(es) ELSE es

SpreadLast(row, es) ==
    IF EndsMulti(es) THEN MultRet(Reserve(row, 1), Last(es), Top(row), -1) ELSE row

CompileArgs(b, args) == SpreadLast(IntoRow(b, Fixed(args)), args)

EmitCall(b, base, args, self, n) ==
    Emit(b, "call", base, IF EndsMulti(args) THEN 0 ELSE Len(args) + self + 1, n + 1)

KeepResults(b, base, n) == IF n < 0 THEN b ELSE SetTop(b, base + n)

CompileFunctionCall(b, e, base, n) ==
    SetTop(EmitCall(CompileArgs(To(Reserve(SetTop(b, base), 1), e.of[1], base), Tail(e.of)),
                    base, Tail(e.of), 0, n),
           base + (IF n < 0 THEN 0 ELSE n))

\* NAMECALL must stand right before CALL.
CompileMethodCall(b, e, base, n) ==
    KeepResults(
        EmitCall(EmitWith(CompileArgs(To(Reserve(SetTop(b, base), 2), e.of[1], base),
                                      Tail(e.of)),
                          "namecall", base, base, 0, String(e.name)),
                 base, Tail(e.of), 1, n), base, n)

CompileCall(b, e, base, n) ==
    IF e.is = "method" THEN CompileMethodCall(b, e, base, n)
    ELSE CompileFunctionCall(b, e, base, n)

MoveResult(call, base, target) ==
    SetTop(IF base = target THEN call ELSE Emit(call, "move", target, base, 0), base)

CallToReg(b, e, target) == MoveResult(CompileCall(b, e, Top(b), 1), Top(b), target)

-----------------------------------------------------------------------------
\* Table constructors.

EmitSetName(r, v, name, target) ==
    Release(EmitWith(r.b, "setks", r.reg, target, 0, String(name)), v, r.reg)
EmitSetKey(r, k, v, target) ==
    ReleaseBoth(Emit(r.b, "set", r.reg2, target, r.reg), k, r.reg, v, r.reg2)

SetItemCode(b, target, item) ==
    IF item.is = "named"
    THEN EmitSetName(AsReg(b, item.of[1]), item.of[1], item.name, target)
    ELSE EmitSetKey(AsRegs(b, item.of[1], item.of[2]), item.of[1], item.of[2], target)

SetItems(b, target, items) ==
    IF items = <<>> THEN b
    ELSE SetItems(SetItemCode(b, target, Head(items)), target, Tail(items))

\* DUPTABLE takes a table with these keys as a constant; only that it is one
\* more constant is kept.
NewTable(b, items, target) ==
    IF items # <<>> /\ \A i \in DOMAIN items : items[i].is = "named"
    THEN LET keys == FoldLeft(LAMBDA acc, i : AddConstant(acc, String(i.name)), b, items)
         IN  Emit(AddConstant(keys, Table(items)), "duptable", target, 0, 0)
    ELSE Aux(Emit(b, "newtable", target, 0, 0),
             Len(SelectSeq(items, LAMBDA i : i.is = "listed")))

SetListWords(b, target, base, count, index) ==
    Aux(Emit(b, "setlist", target, base, count + 1), index)

\* The window of chunk registers from base on that list items go through;
\* current of them are taken, and the first goes to index.
Flushed(acc, target, base, chunk) ==
    IF acc.current # chunk THEN acc
    ELSE [b |-> SetListWords(acc.b, target, base, chunk, acc.index),
          current |-> 0, index |-> acc.index + chunk]

ListItem(acc, e, base) ==
    [acc EXCEPT !.b = To(@, e, base + acc.current), !.current = @ + 1]

AllListItems(acc, es, target, base, chunk) ==
    IF es = <<>> THEN acc
    ELSE AllListItems(ListItem(Flushed(acc, target, base, chunk), Head(es), base),
                      Tail(es), target, base, chunk)

\* The last item, when all its values are wanted.
LastItem(acc, e, target, base) ==
    SetListWords(MultRet(acc.b, e, base + acc.current, -1), target, base, -1, acc.index)

EndList(acc, es, target, base, chunk) ==
    SetTop(IF EndsMulti(es) THEN LastItem(Flushed(acc, target, base, chunk), Last(es),
                                          target, base)
           ELSE SetListWords(acc.b, target, base, acc.current, acc.index), base)

ListItems(b, es, all, target, chunk) ==
    EndList(AllListItems([b |-> Reserve(b, chunk), current |-> 0, index |-> 1],
                         IF all THEN Fixed(es) ELSE es, target, Top(b), chunk),
            IF all THEN es ELSE <<>>, target, Top(b), chunk)

ChunkOf(es) == IF Len(es) < ChunkSize THEN Len(es) ELSE ChunkSize

CompileList(b, items, target) ==
    IF ListedOf(items) = <<>> THEN b
    ELSE ListItems(b, ListedOf(items), Last(items).is = "listed", target,
                   ChunkOf(ListedOf(items)))

CompileTable(b, items, target) ==
    CompileList(SetItems(NewTable(b, items, target), target,
                     SelectSeq(items, LAMBDA i : i.is # "listed")), items, target)

-----------------------------------------------------------------------------
\* Functions.

CompileAll(b, body) ==
    IF body = <<>> THEN b ELSE CompileAll(CompileStat(b, Head(body)), Tail(body))

EmitReturn(b, base, n) == Emit(b, "return", base, n + 1, 0)

EndsWithReturn(body) == body # <<>> /\ Last(body).is = "return"

EndBody(b, body)    == IF EndsWithReturn(body) THEN b ELSE EmitReturn(b, 0, 0)
FinishBody(b, body) == EndBody(CompileAll(b, body), body)

PopFunction(b) == [stack |-> Front(b.stack), protos |-> Append(b.protos, Cur(b))]

\* compileFuncExpr; the function is the last of the finished ones.
PushFunction(b, f) ==
    [b EXCEPT !.stack = Append(@, [NewFunction(IsVararg(f)) EXCEPT !.params = Len(Params(f))])]
StartBody(b, f) ==
    IF IsVararg(f) THEN Emit(b, "prepvarargs", Len(Params(f)), 0, 0) ELSE b

CompileFunction(b, f) ==
    PopFunction(FinishBody(StartBody(BindAll(Reserve(PushFunction(b, f), Len(Params(f))),
                                             Params(f), 0), f), Body(f)))

\* NEWCLOSURE, and a CAPTURE for each upvalue.
EmitNewClosure(b, target) ==
    FoldLeft(LAMBDA acc, u : Emit(acc, "capture", u.kind, u.index, 0),
             Emit(b, "newclosure", target, Len(b.protos), 0), Last(b.protos).upvals)

To(b, e, target) ==
    CASE e.is = "group"  -> To(b, e.of[1], target)
      [] e.is = "nil"    -> Emit(b, "loadnil", target, 0, 0)
      [] e.is = "true"   -> Emit(b, "loadb", target, 1, 0)
      [] e.is = "false"  -> Emit(b, "loadb", target, 0, 0)
      [] e.is = "number" -> IF SmallInt(e.n) THEN Emit(b, "loadn", target, e.n, 0)
                            ELSE LoadK(b, target, e)
      [] e.is = "string" -> LoadK(b, target, e)
      [] e.is = "local"  -> LocalRead(b, e, target)
      [] e.is = "global" -> EmitWith(b, "getglobal", target, 0, 0, String(e.name))
      [] e.is = "varargs" -> Emit(b, "getvarargs", target, 2, 0)
      [] e.is \in {"call", "method"} -> CallToReg(b, e, target)
      [] e.is = "indexname" -> EmitIndexName(AsReg(b, e.of[1]), e.of[1], e.name, target)
      [] e.is = "index"  -> CompileIndexExpr(b, e.of[1], e.of[2], target)
      [] e.is = "unary"  -> EmitUnary(AsReg(b, e.of[1]), e.name, e.of[1], target, 0)
      [] IsConcat(e)     -> EmitConcat(IntoRow(b, Chain(e)), target, Top(b))
      [] e.is = "binary" /\ e.name \in Compares ->
           CompileCompare(b, e.name, e.of[1], e.of[2], target)
      [] e.is = "binary" /\ e.name \in {"and", "or"} ->
           CompileShortCircuit(b, e.name, e.of[1], e.of[2], target)
      [] e.is = "binary" /\ e.name \in DOMAIN KForm ->
           CompileArithmetic(b, e.name, e.of[1], e.of[2], target)
      [] e.is = "ifelse" -> CompileIfElse(b, e, target)
      [] e.is = "interp" -> CompileInterp(b, e.of, target)
      [] e.is = "table"  -> CompileTable(b, e.of, target)
      [] e.is = "function" -> EmitNewClosure(CompileFunction(b, e), target)

-----------------------------------------------------------------------------
\* Statements.

LoadNils(b, n) ==
    FoldLeft(LAMBDA acc, i : Emit(Reserve(acc, 1), "loadnil", Top(acc), 0, 0), b,
             [i \in 1 .. n |-> i])

\* The values of a declaration or an assignment in a row: what follows those
\* that are evaluated one by one.
FillRow(row, values, missing) ==
    CASE missing > 0 /\ EndsMulti(values) ->
           MultRet(Reserve(row, missing + 1), Last(values), Top(row), missing + 1)
      [] missing > 0 /\ ~EndsMulti(values) -> LoadNils(row, missing)
      [] OTHER -> SetTop(row, Top(row) + missing)

ValuesInRow(b, values, n) ==
    FillRow(IntoRow(b, IF n > Len(values) THEN Fixed(values) ELSE values), values,
            n - Len(values))

CompileLocal(b, s) == BindAll(ValuesInRow(b, Values(s), s.n), Targets(s), Top(b))

\* emitAssignFromDesc, and the stores of compileAssignTarget.
EmitStore(b, t, obj, key, src) ==
    CASE Here(b, t) -> IF LocalReg(b, t) = src THEN b
                       ELSE Emit(b, "move", LocalReg(b, t), src, 0)
      [] t.is = "local" /\ ~Here(b, t) -> EmitUpvalue(b, "setupval", src, t.n)
      [] t.is = "global"    -> EmitWith(b, "setglobal", src, 0, 0, String(t.name))
      [] t.is = "indexname" -> EmitWith(b, "setks", src, obj, 0, String(t.name))
      [] t.is = "index" /\ SmallIndex(t.of[2])  -> Emit(b, "setn", src, obj, t.of[2].n - 1)
      [] t.is = "index" /\ ~SmallIndex(t.of[2]) -> Emit(b, "set", src, obj, key)

\* compileAssignTarget.
StoreNamed(r, t, src) ==
    Release(EmitStore(r.b, t, r.reg, 0, src), t.of[1], r.reg)
StoreKeyed(r, t, src) ==
    ReleaseBoth(EmitStore(r.b, t, r.reg, r.reg2, src), t.of[1], r.reg, t.of[2], r.reg2)

AssignTarget(b, t, src) ==
    CASE t.is = "indexname" -> StoreNamed(AsReg(b, t.of[1]), t, src)
      [] t.is = "index"     -> StoreKeyed(AsRegs(b, t.of[1], t.of[2]), t, src)
      [] OTHER              -> EmitStore(b, t, 0, 0, src)

CompileSingleAssign(b, s) ==
    SetTop(AssignTarget(To(Reserve(b, 1), s.of[2], Top(b)), s.of[1], Top(b)), Top(b))

\* preEvalLValue: the object and the key of a target, in registers of their
\* own, which EmitStore then finds from here on.
PreEvalLValue(b, t) ==
    IntoRow(b, IF t.is = "index" /\ SmallIndex(t.of[2]) THEN <<t.of[1]>> ELSE t.of)

PreEvalAll(acc, targets) ==
    IF targets = <<>> THEN acc
    ELSE PreEvalAll([b    |-> PreEvalLValue(acc.b, Head(targets)),
                     regs |-> Append(acc.regs, Top(acc.b))], Tail(targets))

EmitStoreAll(ready, targets, regs, rhs) ==
    FoldLeft(LAMBDA acc, i : EmitStore(acc, targets[i], regs[i], regs[i] + 1, rhs + i - 1),
             ready, [i \in DOMAIN targets |-> i])

EmitAssignAll(descs, s) ==
    EmitStoreAll(ValuesInRow(descs.b, Values(s), s.n), Targets(s), descs.regs, Top(descs.b))

CompileMultipleAssign(b, s) ==
    SetTop(EmitAssignAll(PreEvalAll([b |-> b, regs |-> <<>>], Targets(s)), s), Top(b))

\* compoundOp.
OpInPlace(r, op, tmp, value) == Release(Emit(r.b, op, tmp, tmp, r.reg), value, r.reg)

CompoundOp(b, op, tmp, value) ==
    IF op = "concat"
    THEN SetTop(Emit(IntoRow(b, <<value>>), "concat", tmp, tmp, Top(b)), tmp + 1)
    ELSE OpInPlace(AsReg(b, value), op, tmp, value)

CompoundName(r, t, op, value) ==
    EmitStore(CompoundOp(EmitWith(Reserve(r.b, 1), "getks", Top(r.b), r.reg, 0,
                                  String(t.name)), op, Top(r.b), value),
              t, r.reg, 0, Top(r.b))

OldIndexed(r, key) ==
    IF SmallIndex(key) THEN Emit(Reserve(r.b, 1), "getn", Top(r.b), r.reg, key.n - 1)
    ELSE Emit(Reserve(r.b, 1), "get", Top(r.b), r.reg, r.reg2)

CompoundIndex(r, t, op, value) ==
    EmitStore(CompoundOp(OldIndexed(r, t.of[2]), op, Top(r.b), value),
              t, r.reg, r.reg2, Top(r.b))

CompileCompound(b, t, op, value) ==
    SetTop(CASE t.is = "indexname" -> CompoundName(AsReg(b, t.of[1]), t, op, value)
             [] t.is = "index" ->
                  CompoundIndex(AsRegs(b, t.of[1], t.of[2]), t, op, value)
             [] OTHER -> EmitStore(CompoundOp(To(Reserve(b, 1), t, Top(b)), op, Top(b), value),
                                   t, 0, 0, Top(b)),
           Top(b))

ReturnRow(row, es, base) ==
    IF EndsMulti(es)
    THEN SetTop(EmitReturn(MultRet(row, Last(es), Top(row), -1), base, -1), base)
    ELSE SetTop(EmitReturn(row, base, Len(es)), base)

CompileReturn(b, es) ==
    IF es = <<>> THEN EmitReturn(b, 0, 0)
    ELSE ReturnRow(IntoRow(b, Fixed(es)), es, Top(b))

\* The variable is declared first, so that the function can call itself.
CompileLocalFunction(b, s) ==
    EmitNewClosure(CompileFunction(Bind(Reserve(b, 1), s.of[1].n, Top(b)), s.of[2]), Top(b))

CompileStat(b, s) ==
    CASE s.is = "localstat" -> CompileLocal(b, s)
      [] s.is = "assign"    -> IF Len(s.of) = 2 THEN CompileSingleAssign(b, s)
                               ELSE CompileMultipleAssign(b, s)
      [] s.is = "compound"  -> CompileCompound(b, s.of[1], s.name, s.of[2])
      [] s.is = "do"        -> SetTop(CompileCall(b, s.of[1], Top(b), 0), Top(b))
      [] s.is = "return"    -> CompileReturn(b, s.of)
      [] s.is = "localfunction" -> CompileLocalFunction(b, s)

\* compileMainChunk; the main function is the last.
Compiled(program) ==
    PopFunction(FinishBody(Emit([stack |-> <<NewFunction(TRUE)>>, protos |-> <<>>],
                                "prepvarargs", 0, 0, 0), program)).protos
=============================================================================
