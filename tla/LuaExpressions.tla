--------------------------- MODULE LuaExpressions ---------------------------
(***************************************************************************)
(* What Lua promises about expressions, assignments and functions: what is *)
(* evaluated, in which order, and where each value goes.  This is the      *)
(* reference that compiled code is compared with; it knows no registers.   *)
(*                                                                         *)
(* A call of a function of the host, an index, an arithmetic operation is  *)
(* an event: it is recorded with its operands.  Only calls of host         *)
(* functions and comparisons can come out in several ways; their outcomes  *)
(* are given.                                                              *)
(*                                                                         *)
(* Where the language leaves an order open the reference takes that of     *)
(* this compiler: the right operand of > and >= first, the keyed items of  *)
(* a constructor before its list items, the arguments of a method call     *)
(* before the method, and the value of a single assignment before the      *)
(* expressions of its target.                                              *)
(***************************************************************************)
EXTENDS LuaTerms, SequencesExt

\* Expressions.  A local is the declaration that it refers to.
Var(v)             == Node("local", "", v, <<>>)
GlobalVar(name)    == Node("global", name, 0, <<>>)
Varargs            == Node("varargs", "", 0, <<>>)
Group(e)           == Node("group", "", 0, <<e>>)
Call(f, args)      == Node("call", "", 0, <<f>> \o args)
Method(e, name, args) == Node("method", name, 0, <<e>> \o args)
IndexName(e, name) == Node("indexname", name, 0, <<e>>)
Index(e, key)      == Node("index", "", 0, <<e, key>>)
Unary(op, e)       == Node("unary", op, 0, <<e>>)
Binary(op, a, b)   == Node("binary", op, 0, <<a, b>>)
IfThen(c, a, b)    == Node("ifelse", "", 0, <<c, a, b>>)
Interp(es)         == Node("interp", "", 0, es)
Listed(e)          == Node("listed", "", 0, <<e>>)
Named(name, e)     == Node("named", name, 0, <<e>>)
Keyed(key, e)      == Node("keyed", "", 0, <<key, e>>)
Table(items)       == Node("table", "", 0, items)
Function(params, vararg, body) ==
    Node("function", "", IF vararg THEN 1 ELSE 0,
         <<Node("params", "", 0, params), Node("body", "", 0, body)>>)

\* Statements.
LocalStat(vars, values)     == Node("localstat", "", Len(vars), vars \o values)
Assign(targets, values)     == Node("assign", "", Len(targets), targets \o values)
Compound(op, target, value) == Node("compound", op, 0, <<target, value>>)
Do(call)                    == Node("do", "", 0, <<call>>)
Return(values)              == Node("return", "", 0, values)
LocalFunction(var, f)       == Node("localfunction", "", 0, <<var, f>>)

Params(f)   == f.of[1].of
Body(f)     == f.of[2].of
IsVararg(f) == f.n = 1

\* What a list of names or targets is given, and the rest of the statement.
Targets(s) == SubSeq(s.of, 1, s.n)
Values(s)  == SubSeq(s.of, s.n + 1, Len(s.of))

\* The list items of a constructor.
ListedOf(items) == [i \in DOMAIN SelectSeq(items, LAMBDA x : x.is = "listed") |->
                       SelectSeq(items, LAMBDA x : x.is = "listed")[i].of[1]]

IsMulti(e)  == e.is \in {"call", "method", "varargs"}
Compares    == {"eq", "ne", "lt", "le", "gt", "ge"}
IsConcat(e) == e.is = "binary" /\ e.name = "concat"

\* A run: outcomes still to come, events so far, the values of all variables,
\* the closures, the list items of tables, the variables in scope, the values
\* of the expression evaluated last, and how the last statement ended.
NewRun(outcomes, varargs) ==
    [outcomes |-> outcomes, events |-> <<>>, values |-> <<>>, closures |-> <<>>,
     lists |-> <<>>, scope |-> <<>>, varargs |-> varargs, val |-> <<>>, end |-> "go"]

Give(run, values) == [run EXCEPT !.val = values]

Record(run, op, operands) ==
    IF run.end = "cut" THEN Give(run, <<Nil>>)
    ELSE [run EXCEPT !.events = Append(@, <<op, operands>>),
                     !.val = <<Token(Len(run.events) + 1, 0)>>]

\* An event that needs an outcome; without one the run ends unfinished.
Decide(run, op, operands) ==
    IF run.outcomes = <<>> THEN [run EXCEPT !.end = "cut", !.val = <<Nil>>]
    ELSE [Record(run, op, operands) EXCEPT
             !.outcomes = Tail(@),
             !.val = Outcome(Head(run.outcomes), Len(run.events) + 1)]

Read(run, v)         == run.values[run.scope[v]]
Write(run, v, value) == [run EXCEPT !.values[run.scope[v]] = value]

\* A declaration makes a new variable.
Declare(run, v, value) ==
    [run EXCEPT !.values = Append(@, value),
                !.scope = [x \in DOMAIN @ \cup {v} |->
                             IF x = v THEN Len(run.values) + 1 ELSE @[x]]]

DeclareAll(run, vars, values) ==
    FoldLeft(LAMBDA r, i : Declare(r, vars[i].n, values[i]), run,
             [i \in 1 .. Len(vars) |-> i])

\* The operands of a chain of concatenations.
RECURSIVE Chain(_)
Chain(e) == IF IsConcat(e) THEN <<e.of[1]>> \o Chain(e.of[2]) ELSE <<e>>

RECURSIVE EvalEach(_, _), Interpolate(_, _), EvalItems(_, _, _), PlaceAll(_, _),
          Eval(_, _), Exec(_, _), ExecAll(_, _)

\* Exactly one value.
OneOf(run)      == Give(run, Adjusted(run.val, 1))
EvalOne(run, e) == OneOf(Eval(run, e))

Behind(values, run) == Give(run, values \o run.val)

\* One value of each.
EvalRest(run, es) == Behind(run.val, EvalEach(run, es))
EvalEach(run, es) ==
    IF es = <<>> THEN Give(run, <<>>) ELSE EvalRest(EvalOne(run, Head(es)), Tail(es))

\* All values of the last, one of each other.
EvalLast(run, e)  == Behind(run.val, Eval(run, e))
EvalList(run, es) ==
    IF es = <<>> THEN Give(run, <<>>) ELSE EvalLast(EvalEach(run, Front(es)), Last(es))

\* A closure runs its body on variables of its own; any other value is of
\* the host.
Entered(run, c, n, args) ==
    Give(DeclareAll([run EXCEPT !.scope = c.scope, !.varargs = SubSeq(args, n + 1, Len(args))],
                    Params(c.function), Adjusted(args, n)), <<>>)

Back(run, after) ==
    [after EXCEPT !.scope = run.scope, !.varargs = run.varargs,
                  !.end = IF @ = "cut" THEN @ ELSE "go",
                  !.val = IF after.end = "return" THEN @ ELSE <<>>]

Enter(run, c, args) ==
    Back(run, ExecAll(Entered(run, c, Len(Params(c.function)), args), Body(c.function)))

Apply(run, f, args) ==
    IF f.is # "closure" THEN Decide(run, "call", <<f>> \o args)
    ELSE Enter(run, run.closures[f.n], args)

\* The first value is called on the others.
ApplyHead(run)    == Apply(run, Head(run.val), Tail(run.val))
CallOn(f, args)   == ApplyHead(Behind(f.val, EvalList(f, args)))
EvalCall(run, e)  == CallOn(EvalOne(run, e.of[1]), Tail(e.of))

\* A method is called on its object and the arguments.
ApplyMethod(args, run) == Apply(run, run.val[1], args)
LookUp(run, name) ==
    ApplyMethod(run.val, Record(run, "namecall", <<run.val[1], String(name)>>))
MethodOn(self, args, name) == LookUp(Behind(self.val, EvalList(self, args)), name)
EvalMethod(run, e) == MethodOn(EvalOne(run, e.of[1]), Tail(e.of), e.name)

\* An operation on the values of the operands.
Operate(run, op)           == Record(run, op, run.val)
EvalOperation(run, op, es) == Operate(EvalEach(run, es), op)

\* A comparison is one of three, of the operands swapped or negated.
Relation == [eq |-> "eq", ne |-> "eq", lt |-> "lt", le |-> "le", gt |-> "lt", ge |-> "le"]
AsTruth(run)     == Give(run, Adjusted([i \in DOMAIN run.val |-> Not(Not(run.val[i]))], 1))
Verdict(run, op) == IF op = "ne" THEN Give(run, <<Not(run.val[1])>>) ELSE run
Compare(run, op) == Verdict(AsTruth(Decide(run, Relation[op], run.val)), op)

ShortCircuit(left, op, b) ==
    IF Truthy(left.val[1]) = (op = "and") THEN EvalOne(left, b) ELSE left

EvalBinary(run, op, a, b) ==
    CASE op \in Compares ->
           Compare(EvalEach(run, IF op \in {"gt", "ge"} THEN <<b, a>> ELSE <<a, b>>), op)
      [] op \in {"and", "or"} -> ShortCircuit(EvalOne(run, a), op, b)
      [] OTHER -> EvalOperation(run, op, <<a, b>>)

EvalBranch(c, e) == EvalOne(c, IF Truthy(c.val[1]) THEN e.of[2] ELSE e.of[3])

\* The parts of an interpolated string, each through the global tostring.
TextOf(f, e) == OneOf(ApplyHead(Behind(f.val, EvalOne(f, e))))
InterpolateRest(text, es) == Behind(<<String("")>> \o text.val, Interpolate(text, es))
Interpolate(run, es) ==
    IF es = <<>> THEN Give(run, <<String("")>>)
    ELSE InterpolateRest(TextOf(Record(run, "getglobal", <<String("tostring")>>), Head(es)),
                         Tail(es))

SetItem(run, place) == Record(run, "set", place \o run.val)
EvalItems(run, table, items) ==
    IF items = <<>> THEN run
    ELSE EvalItems(SetItem(EvalEach(run, Head(items).of),
                           IF Head(items).is = "named" THEN <<table, String(Head(items).name)>>
                           ELSE <<table>>),
                   table, Tail(items))

EvalListed(run, es, all) == IF all THEN EvalList(run, es) ELSE EvalEach(run, es)

AddList(run, table, es) ==
    [run EXCEPT !.val = <<table>>,
                !.lists = IF es = <<>> THEN @ ELSE Append(@, <<table, run.val>>)]

Fill(run, table, items) ==
    AddList(EvalListed(EvalItems(run, table, SelectSeq(items, LAMBDA i : i.is # "listed")),
                       ListedOf(items), items # <<>> /\ Last(items).is = "listed"),
            table, ListedOf(items))

EvalTable(new, items) == Fill(new, new.val[1], items)

ReadName(run, e) == IF e.is = "local" THEN Give(run, <<Read(run, e.n)>>)
                    ELSE Record(run, "getglobal", <<String(e.name)>>)

Negated(run) == Give(run, <<Not(run.val[1])>>)

Eval(run, e) ==
    CASE e.is \in {"local", "global"} -> ReadName(run, e)
      [] e.is = "varargs"   -> Give(run, run.varargs)
      [] e.is = "group"     -> EvalOne(run, e.of[1])
      [] e.is = "call"      -> EvalCall(run, e)
      [] e.is = "method"    -> EvalMethod(run, e)
      [] e.is = "indexname" -> EvalOperation(run, "index", e.of \o <<String(e.name)>>)
      [] e.is = "index"     -> EvalOperation(run, "index", e.of)
      [] e.is = "unary"     -> IF e.name = "not" THEN Negated(EvalOne(run, e.of[1]))
                               ELSE EvalOperation(run, e.name, e.of)
      [] IsConcat(e)        -> EvalOperation(run, "concat", Chain(e))
      [] e.is = "binary" /\ ~IsConcat(e) -> EvalBinary(run, e.name, e.of[1], e.of[2])
      [] e.is = "ifelse"    -> EvalBranch(EvalOne(run, e.of[1]), e)
      [] e.is = "interp"    -> IF e.of = <<>> THEN Interpolate(run, <<>>)
                               ELSE Operate(Interpolate(run, e.of), "concat")
      [] e.is = "table"     -> EvalTable(Record(run, "table", <<>>), e.of)
      [] e.is = "function"  ->
           [run EXCEPT !.closures = Append(@, [function |-> e, scope |-> run.scope]),
                       !.val = <<ClosureValue(Len(run.closures) + 1)>>]
      [] OTHER              -> Give(run, <<e>>)

\* The expressions of a target, and the store.
Place(t) == CASE t.is = "indexname" -> t.of \o <<String(t.name)>>
              [] t.is = "index"     -> t.of
              [] OTHER              -> <<>>

Store(run, t, place, value) ==
    CASE t.is = "local"  -> Write(run, t.n, value)
      [] t.is = "global" -> Record(run, "setglobal", <<String(t.name), value>>)
      [] OTHER           -> Record(run, "set", place \o <<value>>)

StorePlaced(placed, t, value) == Store(placed, t, placed.val, value)
AssignOne(run, t) == StorePlaced(EvalEach(run, Place(t)), t, run.val[1])

\* Every target and every value is evaluated before anything is stored.
AddPlace(run, places) == [run |-> run, places |-> Append(places, run.val)]
PlaceAll(acc, targets) ==
    IF targets = <<>> THEN acc
    ELSE PlaceAll(AddPlace(EvalEach(acc.run, Place(Head(targets))), acc.places), Tail(targets))

StoreAll(run, targets, places, values) ==
    FoldLeft(LAMBDA r, i : Store(r, targets[i], places[i], values[i]), run,
             [i \in DOMAIN targets |-> i])

AssignValues(run, s, places) == StoreAll(run, Targets(s), places, Adjusted(run.val, s.n))
AssignAll(placed, s) == AssignValues(EvalList(placed.run, Values(s)), s, placed.places)

\* The target's expressions are evaluated once.
OldValue(placed, t) == IF Place(t) = <<>> THEN ReadName(placed, t)
                       ELSE Record(placed, "index", placed.val)
NewValue(old, op, e) == Operate(Behind(old.val, EvalOne(old, e)), op)
StoreNew(run, t, place) == Store(run, t, place, run.val[1])
ExecCompound(placed, t, op, e) ==
    StoreNew(NewValue(OldValue(placed, t), op, e), t, placed.val)

DeclareValues(run, s) == DeclareAll(run, Targets(s), Adjusted(run.val, s.n))
DeclareSelf(made, v)  == Write(made, v, made.val[1])

Exec(run, s) ==
    CASE s.is = "localstat" -> DeclareValues(EvalList(run, Values(s)), s)
      [] s.is = "assign" ->
           IF Len(s.of) = 2 THEN AssignOne(EvalOne(run, s.of[2]), s.of[1])
           ELSE AssignAll(PlaceAll([run |-> run, places |-> <<>>], Targets(s)), s)
      [] s.is = "compound" ->
           ExecCompound(EvalEach(run, Place(s.of[1])), s.of[1], s.name, s.of[2])
      [] s.is = "do"     -> Eval(run, s.of[1])
      [] s.is = "return" ->
           [EvalList(run, s.of) EXCEPT !.end = IF @ = "cut" THEN @ ELSE "return"]
      [] s.is = "localfunction" ->
           DeclareSelf(Eval(Declare(run, s.of[1].n, Nil), s.of[2]), s.of[1].n)

ExecAll(run, body) ==
    IF body = <<>> \/ run.end # "go" THEN run
    ELSE ExecAll(Exec(run, Head(body)), Tail(body))
=============================================================================
