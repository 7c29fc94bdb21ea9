------------------------------- MODULE Parser -------------------------------
(***************************************************************************)
(* The parser of pkg/ast/parser.go: a recursive descent over the tokens    *)
(* with two tokens in view, which goes on after an error.                  *)
(*                                                                         *)
(* Its call stack is todo, a list of goals.  Every parse function is the   *)
(* action that replaces its goal by the goals of its body, as far as they  *)
(* are known from the tokens in view; a decision behind a call is a goal   *)
(* of its own.  The goals at the bottom take a token, build a node or      *)
(* change the scope.  out holds the nodes of the functions under way.      *)
(*                                                                         *)
(* The text comes from outside.  It is written while it is read: a world   *)
(* offers phrases for each slot, and one is chosen when the parser needs   *)
(* to see more.                                                            *)
(***************************************************************************)
EXTENDS Grammar

CONSTANT Worlds,     \* a sequence of [slots, drops, legal]; a slot is a set of phrases
         Patience    \* bound on the steps between two tokens, for each token of the text

VARIABLES
    world, slot, text,    \* where the text comes from, and what is written of it
    at,                   \* luauLexer: where reading goes on
    todo, out,            \* the goals left, the nodes made
    errors,               \* parser.errors: how many reports
    names,                \* parser.localMap
    locals,               \* parser.localStack
    funs,                 \* parser.functionStack
    typeDepth,            \* parser.typeFuncDepth
    end,                  \* where the last primary expression ends
    quiet                 \* steps since a token was taken

source == <<world, slot, text>>
reader == <<at, quiet>>
scope  == <<names, locals, funs, typeDepth>>
vars   == <<source, reader, todo, out, errors, scope, end>>

-----------------------------------------------------------------------------
(* What the parser sees. *)

Here == From(text, at)
Cur  == TokenAt(text, Here)
Look == TokenAt(text, From(text, Here + 1))

Complete == slot > Len(Worlds[world].slots)
InView   == Complete \/ From(text, Here + 1) <= Len(text)

Top       == out[Len(out)]
Below(k)  == out[Len(out) - k]
Without(k) == SubSeq(out, 1, Len(out) - k)
ThisFunction == funs[Len(funs)]

IsName == Cur \in Names

-----------------------------------------------------------------------------
(* Goals. *)

Goal(do, is, name, n, f) == [do |-> do, is |-> is, name |-> name, n |-> n, f |-> f]
Do(do)         == Goal(do, "", "", 0, {})
At(do, n)      == Goal(do, "", "", n, {})
For(do, is)    == Goal(do, is, "", 0, {})
With(do, f)    == Goal(do, "", "", 0, f)
When(p, goals) == IF p THEN goals ELSE <<>>

Next_        == Do("next")
Take(is)     == For("take", is)
Expect(x)    == Goal("expect", "", x, 0, {})
Close(x)     == Goal("close", "", x, 0, {})
Make(is, k)  == Goal("make", is, "", k, {})
MakeOp(is, op, k) == Goal("make", is, op, k, {})
List(is)     == Make(is, 0)
Error        == Make("error", 0)
Join         == Do("join")
Drop         == Do("drop")
Nothing      == Do("none")
Report       == Do("report")

Name         == Do("name")
Block        == Do("block")
BlockNoScope == Do("blocknoscope")
Expr(limit)  == At("expr", limit)
ExprList(is) == For("exprlist", is)
Primary(asStatement) == At("primary", asStatement)
Table        == Do("table")
Body(self)   == At("body", self)
Type         == Do("type")
SimpleType(allowPack) == At("simpletype", allowPack)
Suffix(f)    == With("typesuffix", f)

AsStatement == 1
AllowPack   == 1
NoSelf      == 0

Now  == Head(todo)
Rest == Tail(todo)
Due(do) == todo # <<>> /\ Now.do = do /\ InView

\* The goal is done; no token is taken.
Done == todo' = Rest /\ quiet' = quiet + 1 /\ UNCHANGED <<source, at>>

\* The goal is replaced by others.
Becomes(goals) ==
    /\ todo' = goals \o Rest
    /\ quiet' = quiet + 1
    /\ UNCHANGED <<source, at, out, errors, scope, end>>

\* The goal is done, with these nodes and, behind it, these goals.
Yields(nodes, goals) ==
    /\ todo' = goals \o Rest
    /\ out' = nodes
    /\ quiet' = quiet + 1
    /\ UNCHANGED <<source, at, errors, scope, end>>

-----------------------------------------------------------------------------
(* The goals at the bottom. *)

\* nextLexeme
Consumes ==
    /\ at' = IF Here <= Len(text) THEN Here + 1 ELSE Here
    /\ quiet' = IF Here <= Len(text) THEN 0 ELSE quiet + 1

NextLexeme ==
    /\ Due("next")
    /\ Consumes
    /\ todo' = Rest
    /\ UNCHANGED <<source, out, errors, scope, end>>

\* A token that is a node by itself.
TakeToken ==
    /\ Due("take")
    /\ Consumes
    /\ todo' = Rest
    /\ out' = Append(out, Node(Now.is, Cur, Here, <<>>))
    /\ end' = Here
    /\ UNCHANGED <<source, errors, scope>>

Matches == /\ Cur = Now.name
           /\ Consumes
           /\ end' = Here
           /\ UNCHANGED errors

\* A token that is missing is reported, and the one in its place left.
Misses == /\ Cur # Now.name
          /\ errors' = errors + 1
          /\ quiet' = quiet + 1
          /\ end' = IF Now.do = "close" THEN Before(text, Here) ELSE Here
          /\ UNCHANGED at

ExpectAndConsume ==
    /\ Due("expect") \/ Due("close")
    /\ Matches \/ Misses
    /\ todo' = Rest
    /\ UNCHANGED <<source, out, scope>>

ReportError == Due("report") /\ Done /\ errors' = errors + 1 /\ UNCHANGED <<out, scope, end>>
SetEnd      == Due("setend") /\ Done /\ end' = Now.n /\ UNCHANGED <<out, errors, scope>>

Last(k)  == SubSeq(out, Len(out) - k + 1, Len(out))
MakeNode ==
    /\ Due("make")
    /\ Yields(Append(Without(Now.n), Node(Now.is, Now.name, 0, Last(Now.n))),
              <<>>)
JoinList ==
    /\ Due("join")
    /\ Yields(Append(Without(2), [Below(1) EXCEPT !.of = Append(@, Top)]),
              <<>>)
DropNode == Due("drop") /\ Yields(Without(1), <<>>)
NoNode == Due("none") /\ Yields(Append(out, None), <<>>)

-----------------------------------------------------------------------------
(* Scopes. *)

NoLocal == [at |-> 0, name |-> "", depth |-> 0]

\* pushLocal: locals and names with one more local.
Pushed(s, leaf) ==
    LET local == [at |-> leaf.n, name |-> leaf.name, depth |-> s.depth]
    IN  [s EXCEPT !.locals = Append(@, [local |-> local, shadow |-> s.names[leaf.name]]),
                  !.names[leaf.name] = local]
RECURSIVE PushedAll(_, _)
PushedAll(s, leaves) ==
    IF leaves = <<>> THEN s ELSE PushedAll(Pushed(s, Head(leaves)), Tail(leaves))

Declare(leaves, depth) ==
    LET s == PushedAll([locals |-> locals, names |-> names, depth |-> depth], leaves)
    IN  names' = s.names /\ locals' = s.locals

Since(off, x) == {i \in off + 1 .. Len(locals) : locals[i].local.name = x}
Lowest(s)     == CHOOSE i \in s : \A j \in s : i <= j

\* restoreLocals goes down from the top, so the lowest local of a name has
\* the last word; upwards would be a mistake.
Highest(s) == CHOOSE i \in s : \A j \in s : i >= j
RestoredUpwards(off) ==
    [x \in AllNames |->
        IF Since(off, x) = {} THEN names[x] ELSE locals[Highest(Since(off, x))].shadow]
Restored(off) ==
    [x \in AllNames |->
        IF Since(off, x) = {} THEN names[x] ELSE locals[Lowest(Since(off, x))].shadow]

RestoreTo(off) == names' = Restored(off) /\ locals' = SubSeq(locals, 1, off)

RestoreLocals ==
    /\ Due("restore") /\ Done
    /\ RestoreTo(Now.n)
    /\ UNCHANGED <<out, errors, funs, typeDepth, end>>
Restore == At("restore", Len(locals))

Leaves(list) == [i \in 1 .. Len(Declared(list)) |-> NameOf(Declared(list)[i])]
LeavesOf(t)  == IF t.is = "bindings" THEN Leaves(t.of) ELSE <<NameOf(t)>>

\* The bindings n nodes below the top become locals.
PushLocals ==
    /\ Due("declare") /\ Done
    /\ Declare(LeavesOf(Below(Now.n)), Len(funs) - 1)
    /\ UNCHANGED <<out, errors, funs, typeDepth, end>>

\* loopDepth
CountLoop ==
    /\ Due("loop") /\ Done
    /\ funs' = [funs EXCEPT ![Len(funs)].loops = @ + Now.n]
    /\ UNCHANGED <<out, errors, names, locals, typeDepth, end>>
EnterLoop == At("loop", 1)
LeaveLoop == At("loop", -1)

\* typeFuncDepth
SetTypeDepth ==
    /\ Due("typedepth") /\ Done
    /\ typeDepth' = Now.n
    /\ UNCHANGED <<out, errors, names, locals, funs, end>>

-----------------------------------------------------------------------------
(* Blocks. *)

BlockFollow == {"eof", "else", "elseif", "end", "until"}

ParseChunk == Due("chunk") /\ Becomes(<<Block, Do("endofchunk")>>)
EndOfChunk == Due("endofchunk") /\ Becomes(When(Cur # "eof", <<Report>>))
ParseBlock == Due("block") /\ Becomes(<<BlockNoScope, Restore>>)
ParseBlockNoScope == Due("blocknoscope") /\ Becomes(<<List("block"), Do("stats")>>)

ParseStats ==
    /\ Due("stats")
    /\ Becomes(When(Cur \notin BlockFollow, <<Do("stat"), Do("afterstat")>>))
AfterStat ==
    /\ Due("afterstat")
    /\ Becomes(When(Cur = ";", <<Next_>>) \o <<Join>>
               \o When(Top.is \notin Final, <<Do("stats")>>))

StatOf == [x \in {"if", "while", "do", "for", "repeat", "function", "local", "return", "break"}
               \cup Attributes |->
             IF x = "function" THEN <<List("attributes"), Do("functionstat")>>
             ELSE IF x = "local" THEN <<List("attributes"), Do("localstat")>>
             ELSE IF x \in Attributes THEN <<Do("attributestat")>>
             ELSE IF x = "if" THEN <<For("ifstat", "if")>>
             ELSE <<Do(x)>>]

ParseStat ==
    /\ Due("stat")
    /\ Becomes(IF Cur \in DOMAIN StatOf
               THEN StatOf[Cur]
               ELSE <<Primary(AsStatement), At("statrest", Here)>>)

\* What an expression at the beginning of a statement turns out to be.
IsGlobal(x) == Top.is = "global" /\ Top.name = x
\* An expression that took no token would be found again; one that is not
\* skipped is a mistake.
SkipNothing(place) == <<>>
SkipStuck(place) == When(Here = place, <<Next_>>)
ParseStatRest ==
    /\ Due("statrest")
    /\ Becomes(IF Top.is = "call"
               THEN <<Make("callstat", 1)>>
               ELSE IF Cur \in {",", "="} THEN <<Do("assignment")>>
               ELSE IF Cur \in CompoundOps THEN <<Do("compound")>>
               ELSE IF IsGlobal("type") THEN <<Drop, For("typealias", "typealias")>>
               ELSE IF IsGlobal("continue") THEN <<Drop, List("continue")>>
               ELSE IF IsGlobal("export") /\ Cur = "type"
               THEN <<Drop, Next_, For("typealias", "exportalias")>>
               ELSE SkipStuck(Now.n) \o <<Report, Make("error", 1)>>)

-----------------------------------------------------------------------------
(* Statements. *)

ParseIf ==
    /\ Due("ifstat")
    /\ Becomes(<<Next_, Expr(0), Expect("then"), Block, Do("ifrest"), Make(Now.is, 3)>>)
ParseIfRest ==
    /\ Due("ifrest")
    /\ Becomes(CASE Cur = "elseif" -> <<For("ifstat", "elseif")>>
                 [] Cur = "else" -> <<Next_, Block, Make("else", 1), Expect("end")>>
                 [] OTHER -> <<Nothing, Expect("end")>>)

ParseWhile ==
    /\ Due("while")
    /\ Becomes(<<Next_, Expr(0), Expect("do"), EnterLoop, Block, LeaveLoop, Expect("end"),
                 Make("while", 2)>>)

\* The condition of a repeat loop sees the locals of its body; a loop that
\* closes the scope before it would be a mistake.
ParseRepeatClosed ==
    /\ Due("repeat")
    /\ Becomes(<<Next_, EnterLoop, Block, LeaveLoop, Expect("until"), Expr(0),
                 Make("repeat", 2)>>)
ParseRepeat ==
    /\ Due("repeat")
    /\ Becomes(<<Next_, EnterLoop, BlockNoScope, LeaveLoop, Expect("until"), Expr(0),
                 Restore, Make("repeat", 2)>>)

ParseDo == Due("do") /\ Becomes(<<Next_, Block, Expect("end"), Make("do", 1)>>)

ParseBreak ==
    /\ Due("break")
    /\ Becomes(<<Take("break")>> \o When(ThisFunction.loops = 0, <<Report>>))

\* The body of a loop whose variables are n nodes below the top.
ParseForBody ==
    /\ Due("forbody")
    /\ Becomes(<<EnterLoop, At("declare", Now.n), Block, LeaveLoop, Restore, Expect("end")>>)

ParseFor == Due("for") /\ Becomes(<<Next_, Do("binding"), Do("forrest")>>)
ParseForRest ==
    /\ Due("forrest")
    /\ Becomes(IF Cur = "="
               THEN <<Next_, Expr(0), Expect(","), Expr(0), Do("step"), Expect("do"),
                      At("forbody", 3), Make("fornum", 5)>>
               ELSE <<Make("bindings", 1)>> \o When(Cur = ",", <<Next_, Do("bindings")>>)
                    \o <<Expect("in"), ExprList("exprs"), Expect("do"), At("forbody", 1),
                         Make("forin", 3)>>)
ParseStep ==
    /\ Due("step")
    /\ Becomes(IF Cur = "," THEN <<Next_, Expr(0), Make("step", 1)>> ELSE <<Nothing>>)

ParseReturn == Due("return") /\ Becomes(<<Next_, Do("returnlist"), Make("return", 1)>>)
ParseReturnList ==
    /\ Due("returnlist")
    /\ Becomes(<<IF Cur \in BlockFollow \cup {";"} THEN List("exprs") ELSE ExprList("exprs")>>)

\* parseFunctionStat, with the attributes on top.
ParseFunctionStat ==
    /\ Due("functionstat")
    /\ Becomes(<<Next_, Do("nameexpr"), Do("fieldnames"), Do("methodbody"),
                 Make("functionstat", 3)>>)
ParseFieldNames ==
    /\ Due("fieldnames")
    /\ Becomes(CASE Cur = "." -> <<Next_, Name, Make("indexname", 2), Do("fieldnames")>>
                 [] Cur = ":" -> <<Next_, Name, Make("methodname", 2)>>
                 [] OTHER -> <<>>)
ParseMethodBody ==
    /\ Due("methodbody")
    /\ Becomes(<<Body(IF Top.is = "methodname" THEN Top.of[2].n ELSE NoSelf)>>)

ParseAttributeStat ==
    /\ Due("attributestat")
    /\ Becomes(<<List("attributes"), Do("attributes"), Do("attributed")>>)
ParseAttributed ==
    /\ Due("attributed")
    /\ Becomes(CASE Cur = "function" -> <<Do("functionstat")>>
                 [] Cur = "local" -> <<Do("localstat")>>
                 [] OTHER -> <<Report, Make("error", 1)>>)

\* parseLocal, with the attributes on top.
ParseLocal == Due("localstat") /\ Becomes(<<Next_, Do("localrest")>>)
ParseLocalRest ==
    /\ Due("localrest")
    /\ Becomes(IF Cur = "function"
               THEN <<Next_, Name, At("declare", 0), Body(NoSelf),
                      Make("localfunction", 3)>>
               ELSE When(Top.of # <<>>, <<Report>>)
                    \o <<List("bindings"), Do("bindings"), Do("init"), At("declare", 1),
                         Make("localstat", 3)>>)
ParseInit ==
    /\ Due("init")
    /\ Becomes(IF Cur = "="
               THEN <<Next_, ExprList("exprs"), Make("init", 1)>>
               ELSE <<Nothing>>)

ParseAttributes ==
    /\ Due("attributes")
    /\ Becomes(When(Cur \in Attributes, <<Do("attribute"), Do("attributes")>>))
ParseAttribute ==
    /\ Due("attribute")
    /\ Becomes(IF Cur = "@n"
               THEN <<Take("name"), Join>>
               ELSE <<Next_, Do("attributelist"), Expect("]")>>)
ParseAttributeList ==
    /\ Due("attributelist")
    /\ Becomes(<<IF Cur = "]" THEN Report ELSE Do("attributeitem")>>)
ParseAttributeItem ==
    /\ Due("attributeitem")
    /\ Becomes(<<Name, Do("attributeargs"), Join, Do("moreattributes")>>)
ParseAttributeArgs ==
    /\ Due("attributeargs")
    /\ Becomes(When(Cur \in TypeStrings \cup {"{", "("}, <<Do("calllist"), Drop>>))
ParseMoreAttributes ==
    Due("moreattributes") /\ Becomes(When(Cur = ",", <<Next_, Do("attributeitem")>>))

Kind == [typealias |-> "typefunction", exportalias |-> "exportfunction"]
ParseTypeAlias ==
    /\ Due("typealias")
    /\ Becomes(IF Cur = "function"
               THEN <<For("typefunction", Kind[Now.is])>>
               ELSE <<Name, With("generics", {"defaults"}), Expect("="), Type,
                      Make(Now.is, 3)>>)
ParseTypeFunction ==
    /\ Due("typefunction")
    /\ Becomes(<<Next_, Name, At("typedepth", Len(funs)), Body(NoSelf),
                 At("typedepth", typeDepth), Make(Now.is, 2)>>)

-----------------------------------------------------------------------------
(* Bindings and the bodies of functions. *)

ParseBinding ==
    Due("binding") /\ Becomes(<<Name, Do("optionaltype"), Make("binding", 2)>>)
ParseOptionalType ==
    /\ Due("optionaltype")
    /\ Becomes(IF Cur = ":" THEN <<Next_, Type, Make("ann", 1)>> ELSE <<Nothing>>)

\* parseBindingList joins to the list on top; ... is allowed by a flag.
ParseBindingList ==
    /\ Due("bindings")
    /\ Becomes(IF Cur = "..." /\ "dots" \in Now.f
               THEN <<Next_, Do("dotstype"), Make("dots", 1), Join>>
               ELSE <<Do("binding"), Join, With("morebindings", Now.f)>>)
ParseMoreBindings ==
    Due("morebindings") /\ Becomes(When(Cur = ",", <<Next_, With("bindings", Now.f)>>))
ParseDotsType ==
    /\ Due("dotstype")
    /\ Becomes(IF Cur = ":" THEN <<Next_, Do("variadicargument")>> ELSE <<Nothing>>)

\* parseFunctionBody; self is where it is declared.
ParseFunctionBody ==
    /\ Due("body")
    /\ Becomes(<<With("generics", {}), Expect("("), Do("params"), Expect(")"),
                 Do("optionalreturn"), At("function", Now.n), Expect("end"),
                 Make("body", 4)>>)
ParseParams ==
    /\ Due("params")
    /\ Becomes(<<List("bindings")>> \o When(Cur # ")", <<With("bindings", {"dots"})>>))

SelfLeaf(n) == IF n = NoSelf THEN <<>> ELSE <<Node("name", "self", n, <<>>)>>
EnterFunction ==
    /\ Due("function")
    /\ LET params == Below(1).of
       IN  /\ funs' = Append(funs, [vararg |-> HasDots(params), loops |-> 0])
           /\ Declare(SelfLeaf(Now.n) \o Leaves(params), Len(funs))
    /\ todo' = <<Block, At("leavefunction", Len(locals))>> \o Rest
    /\ quiet' = quiet + 1
    /\ UNCHANGED <<source, at, out, errors, typeDepth, end>>
LeaveFunction ==
    /\ Due("leavefunction") /\ Done
    /\ funs' = SubSeq(funs, 1, Len(funs) - 1)
    /\ RestoreTo(Now.n)
    /\ UNCHANGED <<out, errors, typeDepth, end>>

-----------------------------------------------------------------------------
(* Assignments. *)

ParseAssignment ==
    /\ Due("assignment")
    /\ Becomes(<<Do("lvalue"), Make("targets", 1), Do("moretargets"), Expect("="),
                 ExprList("exprs"), Make("assign", 2)>>)
ParseMoreTargets ==
    /\ Due("moretargets")
    /\ Becomes(When(Cur = ",",
                    <<Next_, Primary(AsStatement), Do("lvalue"), Join, Do("moretargets")>>))
CheckLValue ==
    /\ Due("lvalue")
    /\ Becomes(When(Top.is \notin Variables \cup {"methodname"}, <<Report>>))
ParseCompoundAssignment ==
    /\ Due("compound")
    /\ Becomes(<<Do("lvalue"), Next_, Expr(0), MakeOp("compound", Cur, 2)>>)

-----------------------------------------------------------------------------
(* Expressions. *)

\* binaryPriority: an operator is taken while its left priority is above the
\* limit, and its right priority is the limit of its right operand.
LeftPriority == [op \in BinaryOps |->
    CASE op \in {"+", "-"} -> 6 [] op \in {"*", "/", "//", "%"} -> 7 [] op = "^" -> 10
      [] op = ".." -> 5 [] op = "and" -> 2 [] op = "or" -> 1 [] OTHER -> 3]
RightPriority == [op \in BinaryOps |->
    CASE op = "^" -> 9 [] op = ".." -> 4 [] OTHER -> LeftPriority[op]]
UnaryPriority == 8

ParseExpr ==
    /\ Due("expr")
    /\ Becomes((IF Cur \in UnaryOps
                THEN <<Next_, Expr(UnaryPriority), MakeOp("unary", Cur, 1)>>
                ELSE <<Do("assertion")>>)
               \o <<At("operators", Now.n)>>)
ParseOperators ==
    /\ Due("operators")
    /\ Becomes(When(Cur \in BinaryOps /\ LeftPriority[Cur] > Now.n,
                    <<Next_, Expr(RightPriority[Cur]), MakeOp("binary", Cur, 2),
                      At("operators", Now.n)>>))

ParseAssertionExpr == Due("assertion") /\ Becomes(<<Do("simple"), Do("assertiontype")>>)
ParseAssertionType ==
    /\ Due("assertiontype")
    /\ Becomes(When(Cur = "::", <<Next_, Type, Make("assert", 2)>>))

ParseSimpleExpr ==
    /\ Due("simple")
    /\ Becomes(IF Cur \in Attributes
               THEN <<List("attributes"), Do("attributes"), At("attributedexpr", 0)>>
               ELSE IF Cur = "function" THEN <<List("attributes"), Do("functionexpr")>>
               ELSE <<Do("simpletoken")>>)
\* Attributes of what is no function are reported and dropped.
ParseAttributedExpr ==
    /\ Due("attributedexpr")
    /\ Becomes(IF Cur = "function"
               THEN <<Do("functionexpr")>>
               ELSE <<Drop, Report, Do("simpletoken")>>)
ParseFunctionExpr ==
    Due("functionexpr") /\ Becomes(<<Next_, Body(NoSelf), Make("function", 2)>>)

Refused == <<Next_, Report, Error>>
ParseSimpleToken ==
    /\ Due("simpletoken")
    /\ Becomes(IF Cur \in {"nil", "true", "false", "1"}
               THEN <<Take("constant")>>
               ELSE IF Cur = "bad1" THEN Refused
               ELSE IF Cur \in Strings THEN <<Do("string")>>
               ELSE IF Cur \in {"istart", "badistart"}
               THEN <<List("interp"), Do("interppart")>>
               ELSE IF Cur \in {"bad", "idouble"} THEN Refused
               ELSE IF Cur = "..."
               THEN (IF ThisFunction.vararg THEN <<Take("varargs")>> ELSE Refused)
               ELSE IF Cur = "{" THEN <<Table>>
               ELSE IF Cur = "if" THEN <<For("ifexpr", "ifelse")>>
               ELSE <<Primary(0)>>)

\* parseString: what stands in a long string has no escapes.
ParseString ==
    Due("string") /\ Becomes(IF Cur = "badstr" THEN Refused ELSE <<Take("string")>>)

ParsePrefixExpr ==
    /\ Due("prefix")
    /\ Becomes(IF Cur = "("
               THEN <<Next_, Expr(0), Close(")"), Make("group", 1)>>
               ELSE <<Do("nameexpr")>>)

\* parseNameExpr
NameKind(local) == CASE local = NoLocal -> "global"
                     [] local # NoLocal /\ local.depth = Len(funs) - 1 -> "local"
                     [] OTHER -> "upvalue"
ResolveName ==
    /\ Due("nameexpr") /\ IsName
    /\ Consumes
    /\ out' = Append(out, Node(NameKind(names[Cur]), Cur, names[Cur].at, <<>>))
    /\ errors' = IF names[Cur] # NoLocal /\ names[Cur].depth < typeDepth
                 THEN errors + 1 ELSE errors
    /\ end' = Here
    /\ todo' = Rest
    /\ UNCHANGED <<source, scope>>
NoNameExpr ==
    ~IsName /\ Due("nameexpr") /\ Becomes(<<Report, Error, At("setend", Here)>>)

ParsePrimaryExpr == Due("primary") /\ Becomes(<<Do("prefix"), At("postfix", Now.n)>>)

\* A call on a new line is refused inside an expression.
OnNewLine == LineOf(text, end) # LineOf(text, Here)
ParsePostfix ==
    /\ Due("postfix")
    /\ Becomes(IF Cur = "."
               THEN <<Next_, At("indexname", Here), Make("indexname", 2), Now>>
               ELSE IF Cur = "["
               THEN <<Next_, Expr(0), Expect("]"), Make("index", 2), Now>>
               ELSE IF Cur = ":"
               THEN <<Next_, At("indexname", Here), Make("methodname", 2), Do("methodargs"),
                      Now>>
               ELSE IF Cur = "(" /\ Now.n # AsStatement /\ OnNewLine THEN <<Report>>
               ELSE IF Cur \in Strings \cup {"(", "{"} THEN <<Do("functionargs"), Now>>
               ELSE IF Cur = "<" /\ Look = "<"
               THEN <<Do("instantiation"), At("setend", end), Now>>
               ELSE <<>>)
ParseMethodArgs ==
    /\ Due("methodargs")
    /\ Becomes(When(Cur = "<" /\ Look = "<", <<Do("instantiation")>>)
               \o <<Do("functionargs")>>)

\* parseTypeInstantiationExpr: the types are read and dropped.
ParseInstantiation ==
    Due("instantiation") /\ Becomes(<<Next_, Do("typeparams"), Drop, Expect(">")>>)

ParseExprList ==
    Due("exprlist") /\ Becomes(<<List(Now.is), Expr(0), Join, Do("moreexprs")>>)
ParseMoreExprs ==
    Due("moreexprs") /\ Becomes(When(Cur = ",", <<Next_, Do("exprafter")>>))
ParseExprAfter ==
    /\ Due("exprafter")
    /\ Becomes(IF Cur = ")" THEN <<Report>> ELSE <<Expr(0), Join, Do("moreexprs")>>)

ParseArgs ==
    Due("args") /\ Becomes(<<IF Cur = ")" THEN List("args") ELSE ExprList("args")>>)
ParseCallList ==
    /\ Due("calllist")
    /\ Becomes(CASE Cur = "(" -> <<Next_, Do("args"), Expect(")")>>
                 [] Cur = "{" -> <<Table>>
                 [] OTHER -> <<Do("string")>>)
ParseFunctionArgs ==
    /\ Due("functionargs")
    /\ Becomes(CASE Cur = "(" -> <<Next_, Do("args"), Expect(")"), Make("call", 2)>>
                 [] Cur = "{" -> <<Table, Make("bare", 1), Make("call", 2)>>
                 [] Cur \in Strings -> <<Do("string"), Make("bare", 1), Make("call", 2)>>
                 [] OTHER -> <<Report, Make("error", 1)>>)

ParseTableConstructor ==
    Due("table") /\ Becomes(<<Expect("{"), List("table"), Do("items"), Close("}")>>)
ParseItems ==
    /\ Due("items")
    /\ Becomes(IF Cur = "}"
               THEN <<>>
               ELSE (IF Cur = "["
                     THEN <<Next_, Expr(0), Expect("]"), Expect("="), Expr(0),
                            Make("keyed", 2)>>
                     ELSE IF IsName /\ Look = "="
                     THEN <<Name, Expect("="), Expr(0), Make("named", 2)>>
                     ELSE <<Expr(0)>>)
                    \o <<Join, At("afteritem", ColumnOf(text, Here))>>)
\* An item that begins where the last one did is taken for the next.
ParseAfterItem ==
    /\ Due("afteritem")
    /\ Becomes(IF Cur \in Separators
               THEN <<Next_, Do("items")>>
               ELSE When((Cur = "[" \/ IsName) /\ ColumnOf(text, Here) = Now.n,
                         <<Report, Do("items")>>))

ParseIfElseExpr ==
    /\ Due("ifexpr")
    /\ Becomes(<<Next_, Expr(0), Expect("then"), Expr(0), Do("elseexpr"), Make(Now.is, 3)>>)
ParseElseExpr ==
    /\ Due("elseexpr")
    /\ Becomes(IF Cur = "elseif"
               THEN <<For("ifexpr", "elseifexpr")>>
               ELSE <<Expect("else"), Expr(0), Make("elseexpr", 1)>>)

ParseName ==
    /\ Due("name")
    /\ Becomes(IF IsName THEN <<Take("name")>> ELSE <<Report, Do("errorname")>>)
\* A word of the language on the line of the dot, which is at n, is the name.
ParseIndexName ==
    /\ Due("indexname")
    /\ Becomes(IF IsName
               THEN <<Take("name")>>
               ELSE IF Cur \in Keywords /\ LineOf(text, Now.n) = LineOf(text, Here)
               THEN <<Report, Take("name")>>
               ELSE <<Report, Do("errorname")>>)
NoName ==
    /\ Due("errorname") /\ Done
    /\ out' = Append(out, Node("name", "error", Here, <<>>))
    /\ end' = Here
    /\ UNCHANGED <<errors, scope>>

\* parseInterpString, with the list of parts on top.
ParseInterpPart ==
    /\ Due("interppart")
    /\ Becomes(IF Cur = "badistart"
               THEN <<Next_, Report, Make("error", 1)>>
               ELSE <<Take("part"), Join>>
                    \o When(Cur \notin {"iend", "simple"},
                            <<Do("interpexpr"), Do("interpnext")>>))
ParseInterpExpr ==
    /\ Due("interpexpr")
    /\ Becomes((IF Cur \in {"imid", "iend", "bad"} THEN <<Next_, Error>> ELSE <<Expr(0)>>)
               \o <<Join>>)
ParseInterpNext ==
    /\ Due("interpnext")
    /\ Becomes(IF Cur \in Parts \ {"simple"}
               THEN <<Do("interppart")>>
               ELSE When(Cur \in {"idouble", "bad"}, <<Next_>>) \o <<Report>>)

-----------------------------------------------------------------------------
(* Generic types and the parameters of types. *)

TypePackAhead == Cur = "..." \/ (IsName /\ Look = "...")
Has(x) == x \in Now.f

\* parseGenericTypeList: the flags say whether defaults are allowed, and
\* what the list has had so far.
ParseGenerics ==
    /\ Due("generics")
    /\ Becomes(<<List("generics")>> \o When(Cur = "<", <<Next_, With("generic", Now.f)>>))
ParseGeneric == Due("generic") /\ Becomes(<<Name, With("genericrest", Now.f)>>)
ParseGenericRest ==
    /\ Due("genericrest")
    /\ Becomes(IF Cur = "..."
               THEN <<Next_, With("genericpack", Now.f \cup {"pack"})>>
               ELSE IF Has("pack") THEN <<Report, With("genericpack", Now.f)>>
               ELSE IF Cur = "=" /\ Has("defaults")
               THEN <<Next_, Type, Make("default", 1), Make("generic", 2), Join,
                      With("moregenerics", Now.f \cup {"default"})>>
               ELSE When(Has("default"), <<Report>>)
                    \o <<Nothing, Make("generic", 2), Join, With("moregenerics", Now.f)>>)
ParseGenericPack ==
    /\ Due("genericpack")
    /\ Becomes(IF Cur = "=" /\ Has("defaults")
               THEN <<Next_, Do("defaultpack"), Make("default", 1), Make("genericpack", 2),
                      Join, With("moregenerics", Now.f \cup {"default"})>>
               ELSE When(Has("default"), <<Report>>)
                    \o <<Nothing, Make("genericpack", 2), Join,
                         With("moregenerics", Now.f)>>)
ParseDefaultPack ==
    /\ Due("defaultpack")
    /\ Becomes(IF TypePackAhead
               THEN <<Do("typepack")>>
               ELSE <<Do("typeorpack"), Do("onlypack")>>)
RefuseType ==
    Due("onlypack") /\ Becomes(When(Top.is # "pack", <<Report, Drop, Nothing>>))
ParseMoreGenerics ==
    /\ Due("moregenerics")
    /\ Becomes(IF Cur = "," THEN <<Next_, With("genericafter", Now.f)>> ELSE <<Expect(">")>>)
ParseGenericAfter ==
    /\ Due("genericafter")
    /\ Becomes(IF Cur = ">" THEN <<Report, Expect(">")>> ELSE <<With("generic", Now.f)>>)

\* parseTypeParamsRaw
ParseTypeParams ==
    Due("typeparams") /\ Becomes(<<List("typeargs"), Next_, Do("typeparam")>>)
ParseTypeParam ==
    /\ Due("typeparam")
    /\ Becomes(IF TypePackAhead
               THEN <<Do("typepack"), Join, Do("moreparams")>>
               ELSE IF Cur = "("
               THEN <<SimpleType(AllowPack), Do("packorgroup"), Join, Do("moreparams")>>
               ELSE IF Cur = ">" /\ Top.of = <<>> THEN <<Expect(">")>>
               ELSE <<Type, Join, Do("moreparams")>>)
ParseMoreParams ==
    /\ Due("moreparams")
    /\ Becomes(IF Cur = "," THEN <<Next_, Do("typeparam")>> ELSE <<Expect(">")>>)

\* A pack of one type before | ? & is a type in parentheses.
IsTail(t)  == t.is \in {"variadic", "packname"}
TypesOf(list) == SelectSeq(list, LAMBDA t : ~IsTail(t))
OneType(list) == Len(list) = 1 /\ Len(TypesOf(list)) = 1
PackOrGroup ==
    /\ Due("packorgroup")
    /\ Yields(IF Top.is = "pack" /\ OneType(Top.of) /\ Cur \in {"|", "?", "&"}
              THEN Append(Without(1), Inner("typegroup", Top.of))
              ELSE out,
              When(Top.is # "pack" \/ (OneType(Top.of) /\ Cur \in {"|", "?", "&"}),
                   <<Make("parts", 1), Suffix({})>>))

-----------------------------------------------------------------------------
(* Types. *)

ParseType ==
    /\ Due("type")
    /\ Becomes(<<List("parts")>>
               \o IF Cur \in {"|", "&"}
                  THEN <<Suffix({"leading"})>>
                  ELSE <<SimpleType(0), Join, Suffix({})>>)

\* parseTypeSuffix, with the list of parts on top.
ParseTypeSuffix ==
    /\ Due("typesuffix")
    /\ Becomes(CASE Cur = "|" -> <<Next_, SimpleType(0), Join,
                                   Suffix(Now.f \cup {"union"})>>
                 [] Cur = "?" -> <<Take("optional"), Join, Suffix(Now.f \cup {"union"})>>
                 [] Cur = "&" -> <<Next_, SimpleType(0), Join,
                                   Suffix(Now.f \cup {"inter"})>>
                 [] Cur = "..." -> <<Report, Next_, Now>>
                 [] OTHER -> <<With("combine", Now.f)>>
                             \o When({"union", "inter"} \subseteq Now.f, <<Report>>))
Leading == IF Has("leading") THEN 1 ELSE 0
Combine ==
    /\ Due("combine")
    /\ Yields(Append(Without(1),
                     IF {"union", "inter"} \subseteq Now.f
                     THEN [Top EXCEPT !.is = "error"]
                     ELSE IF Has("union") THEN [Top EXCEPT !.is = "union", !.n = Leading]
                     ELSE IF Has("inter")
                     THEN [Top EXCEPT !.is = "intersection", !.n = Leading]
                     ELSE Top.of[1]),
              <<>>)

ParseSimpleType ==
    /\ Due("simpletype")
    /\ Becomes(IF Cur \in Attributes
               THEN <<Report, List("attributes"), Do("attributes"), Drop,
                      At("functiontype", Now.n)>>
               ELSE IF Cur = "nil" THEN <<Take("name"), Nothing, Make("typeref", 2)>>
               ELSE IF Cur \in {"true", "false"} THEN <<Take("typebool")>>
               ELSE IF Cur \in TypeStrings THEN <<Take("typestring"), Do("stringtype")>>
               ELSE IF Cur \in {"istart", "badistart", "simple"}
               THEN <<List("interp"), Do("interppart"), Report, Make("error", 1)>>
               ELSE IF Cur \in {"bad", "function"} THEN Refused
               ELSE IF IsName THEN <<Take("name"), Do("typename")>>
               ELSE IF Cur = "{" THEN <<Do("tabletype")>>
               ELSE IF Cur \in {"(", "<"} THEN <<At("functiontype", Now.n)>>
               ELSE <<Report, Error>>)

\* The escapes of the string are read by the kind of the token behind it.
ParseStringType ==
    /\ Due("stringtype")
    /\ Becomes(When(Cur \notin LongStrings /\ Top.name \in Malformed,
                    <<Report, Make("error", 1)>>))

ParseTypeName ==
    /\ Due("typename")
    /\ Becomes(IF Cur = "."
               THEN <<Next_, At("indexname", Here), Do("typeargs"), Make("typeindex", 3)>>
               ELSE IF Cur = "..."
               THEN <<Report, Next_, Do("typeargs"), Make("typeref", 2)>>
               ELSE IF Top.name = "typeof"
               THEN <<Drop, Expect("("), Expr(0), Expect(")"), Make("typeof", 1)>>
               ELSE <<Do("typeargs"), Make("typeref", 2)>>)
ParseTypeArgs ==
    Due("typeargs") /\ Becomes(<<IF Cur = "<" THEN Do("typeparams") ELSE Nothing>>)

ParseTableType ==
    /\ Due("tabletype")
    /\ Becomes(<<Expect("{"), List("typetable"), Do("props"), Close("}")>>)
ParseProps ==
    /\ Due("props")
    /\ Becomes(IF Cur = "}"
               THEN <<>>
               ELSE When(Cur \in {"read", "write"} /\ Look # ":", <<Next_>>)
                    \o <<Do("prop")>>)
ParseProp ==
    /\ Due("prop")
    /\ Becomes(IF Cur = "["
               THEN <<Next_, Do("bracketprop"), Do("afterprop")>>
               ELSE IF Top.of = <<>> /\ ~(IsName /\ Look = ":")
               THEN <<Type, Make("array", 1), Join>>
               ELSE IF IsName
               THEN <<Name, Expect(":"), Type, Make("prop", 2), Join, Do("afterprop")>>
               ELSE <<Report>>)
ParseBracketProp ==
    /\ Due("bracketprop")
    /\ Becomes(IF Cur \in TypeStrings /\ Look = "]"
               THEN When(Cur = "badstr", <<Report>>)
                    \o <<Take("string"), Expect("]"), Expect(":"), Type,
                         Make("stringprop", 2), Join>>
               ELSE <<Type, Expect("]"), Expect(":"), Type, Make("indexer", 2),
                      Do("indexer")>>)
\* A table type has one indexer; another is reported and dropped.
KeepIndexer ==
    /\ Due("indexer")
    /\ Becomes(IF \E i \in 1 .. Len(Below(1).of) : Below(1).of[i].is \in {"indexer", "array"}
               THEN <<Report, Drop>>
               ELSE <<Join>>)
ParseAfterProp ==
    Due("afterprop") /\ Becomes(When(Cur \in Separators, <<Next_, Do("props")>>))

\* parseFunctionType, with its generics and parameters on top at the end.
ParseFunctionType ==
    /\ Due("functiontype")
    /\ Becomes(<<With("generics", {}), Expect("("), Do("typeparameters"), Expect(")"),
                 Goal("functiontyperest", "", "", Now.n,
                      IF Cur = "<" THEN {"function"} ELSE {})>>)
ParseTypeParameters ==
    /\ Due("typeparameters")
    /\ Becomes(<<List("typelist")>> \o When(Cur # ")", <<Do("typelist")>>))

HasNames(list) == \E i \in 1 .. Len(list) : list[i].is = "namedtype"
ReplaceBoth(t) == Append(Without(2), t)
IsFunctionType == Has("function") \/ HasNames(Top.of) \/ Cur \in {"->", ":"}
ParseFunctionTypeRest ==
    /\ Due("functiontyperest")
    /\ IF IsFunctionType \/ (Now.n # AllowPack /\ ~OneType(Top.of))
       THEN Becomes(<<Do("functiontail")>>)
       ELSE Yields(ReplaceBoth(Inner(IF Now.n = AllowPack THEN "pack" ELSE "typegroup", Top.of)),
                   <<>>)
\* () without an arrow stands for nil.
ParseFunctionTypeTail ==
    /\ Due("functiontail")
    /\ Becomes(IF Cur = ":"
               THEN <<Report, Next_, Do("returntype"), Make("functiontype", 3)>>
               ELSE IF Cur # "->" /\ Below(1).of = <<>> /\ TypesOf(Top.of) = <<>>
               THEN <<Report, Make("error", 2)>>
               ELSE <<Expect("->"), Do("returntype"), Make("functiontype", 3)>>)

ParseOptionalReturnType ==
    /\ Due("optionalreturn")
    /\ Becomes(IF Cur \in {":", "->"}
               THEN When(Cur = "->", <<Report>>)
                    \o <<Next_, Do("returntype"), Make("ann", 1), Do("skipcomma")>>
               ELSE <<Nothing>>)
SkipComma == Due("skipcomma") /\ Becomes(When(Cur = ",", <<Report, Next_>>))

ParseReturnType ==
    /\ Due("returntype")
    /\ Becomes(IF Cur = "("
               THEN <<List("generics"), Next_, Do("typeparameters"), Expect(")"),
                      Do("returnrest")>>
               ELSE IF TypePackAhead THEN <<Do("typepack")>>
               ELSE <<Type>>)
\* One type in parentheses goes on as a type, a tail behind it is kept.
ParseReturnRest ==
    /\ Due("returnrest")
    /\ Yields(IF Cur = "->" \/ HasNames(Top.of)
              THEN out
              ELSE IF OneType(Top.of)
              THEN ReplaceBoth(Inner("parts", <<Inner("typegroup", Top.of)>>))
              ELSE IF Len(TypesOf(Top.of)) = 1
              THEN ReplaceBoth(Top.of[2]) \o <<Inner("parts", <<Top.of[1]>>)>>
              ELSE ReplaceBoth(Inner("pack", Top.of)),
              IF Cur = "->" \/ HasNames(Top.of)
              THEN <<Do("functiontail")>>
              ELSE IF OneType(Top.of) THEN <<Suffix({})>>
              ELSE When(Len(TypesOf(Top.of)) = 1, <<Suffix({}), Do("packtail")>>))
AddTail ==
    Due("packtail") /\ Yields(ReplaceBoth(Inner("pack", <<Top, Below(1)>>)), <<>>)

ParseTypeList ==
    /\ Due("typelist")
    /\ Becomes(IF TypePackAhead
               THEN <<Do("typepack"), Join>>
               ELSE IF IsName /\ Look = ":"
               THEN <<Name, Expect(":"), Type, Make("namedtype", 2), Join, Do("moretypes")>>
               ELSE <<Type, Join, Do("moretypes")>>)
ParseMoreTypes ==
    Due("moretypes") /\ Becomes(When(Cur = ",", <<Next_, Do("typeafter")>>))
ParseTypeAfter ==
    Due("typeafter") /\ Becomes(<<IF Cur = ")" THEN Report ELSE Do("typelist")>>)

ParseSimpleTypeOrPack ==
    Due("typeorpack") /\ Becomes(<<SimpleType(AllowPack), Do("packorsuffix")>>)
PackOrSuffix ==
    /\ Due("packorsuffix")
    /\ Becomes(When(Top.is # "pack", <<Make("parts", 1), Suffix({})>>))

ParseTypePack ==
    /\ Due("typepack")
    /\ Becomes(IF Cur = "..."
               THEN <<Next_, Type, Make("variadic", 1)>>
               ELSE <<Name, Expect("..."), Make("packname", 1)>>)
\* parseVariadicArgumentTypePack
ParseVariadicArgument ==
    /\ Due("variadicargument")
    /\ Becomes(IF IsName /\ Look = "..."
               THEN <<Name, Expect("..."), Make("packname", 1), Make("ann", 1)>>
               ELSE <<Type, Make("elements", 1)>>)

-----------------------------------------------------------------------------
\* The next phrase of the text is written, or the text ends.
Write ==
    /\ ~InView
    /\ \/ /\ \E phrase \in Worlds[world].slots[slot] : text' = text \o phrase
          /\ Lexical(text')
          /\ slot' = slot + 1
       \/ /\ ~Worlds[world].legal
          /\ slot' = Len(Worlds[world].slots) + 1
          /\ UNCHANGED text
    /\ UNCHANGED <<world, reader, todo, out, errors, scope, end>>

\* newParser
Init ==
    /\ world \in 1 .. Len(Worlds)
    /\ slot = 1
    /\ text = <<>>
    /\ at = 1 /\ end = 0 /\ quiet = 0
    /\ todo = <<Do("chunk")>>
    /\ out = <<>>
    /\ errors = 0
    /\ names = [x \in AllNames |-> NoLocal]
    /\ locals = <<>>
    /\ funs = <<[vararg |-> TRUE, loops |-> 0]>>
    /\ typeDepth = 0

Finished == todo = <<>> /\ UNCHANGED vars

Next ==
    \/ NextLexeme \/ TakeToken \/ ExpectAndConsume \/ ReportError \/ SetEnd \/ MakeNode
    \/ JoinList \/ DropNode \/ NoNode \/ RestoreLocals \/ PushLocals \/ CountLoop
    \/ SetTypeDepth \/ ParseChunk \/ EndOfChunk \/ ParseBlock \/ ParseBlockNoScope
    \/ ParseStats \/ AfterStat \/ ParseStat \/ ParseStatRest \/ ParseIf \/ ParseIfRest
    \/ ParseWhile \/ ParseRepeat \/ ParseDo \/ ParseBreak \/ ParseForBody \/ ParseFor
    \/ ParseForRest \/ ParseStep \/ ParseReturn \/ ParseReturnList \/ ParseFunctionStat
    \/ ParseFieldNames \/ ParseMethodBody \/ ParseAttributeStat \/ ParseAttributed
    \/ ParseLocal \/ ParseLocalRest \/ ParseInit \/ ParseAttributes \/ ParseAttribute
    \/ ParseAttributeList \/ ParseAttributeItem \/ ParseAttributeArgs
    \/ ParseMoreAttributes \/ ParseTypeAlias \/ ParseTypeFunction \/ ParseBinding
    \/ ParseOptionalType \/ ParseBindingList \/ ParseMoreBindings \/ ParseDotsType
    \/ ParseFunctionBody \/ ParseParams \/ EnterFunction \/ LeaveFunction
    \/ ParseAssignment \/ ParseMoreTargets \/ CheckLValue \/ ParseCompoundAssignment
    \/ ParseExpr \/ ParseOperators \/ ParseAssertionExpr \/ ParseAssertionType
    \/ ParseSimpleExpr \/ ParseAttributedExpr \/ ParseFunctionExpr \/ ParseSimpleToken
    \/ ParseString \/ ParsePrefixExpr \/ ResolveName \/ NoNameExpr \/ ParsePrimaryExpr
    \/ ParsePostfix \/ ParseMethodArgs \/ ParseInstantiation \/ ParseExprList
    \/ ParseMoreExprs \/ ParseExprAfter \/ ParseArgs \/ ParseCallList
    \/ ParseFunctionArgs \/ ParseTableConstructor \/ ParseItems \/ ParseAfterItem
    \/ ParseIfElseExpr \/ ParseElseExpr \/ ParseName \/ ParseIndexName \/ NoName
    \/ ParseInterpPart \/ ParseInterpExpr \/ ParseInterpNext \/ ParseGenerics
    \/ ParseGeneric \/ ParseGenericRest \/ ParseGenericPack \/ ParseDefaultPack
    \/ RefuseType \/ ParseMoreGenerics \/ ParseGenericAfter \/ ParseTypeParams
    \/ ParseTypeParam \/ ParseMoreParams \/ PackOrGroup \/ ParseType \/ ParseTypeSuffix
    \/ Combine \/ ParseSimpleType \/ ParseStringType \/ ParseTypeName \/ ParseTypeArgs
    \/ ParseTableType \/ ParseProps \/ ParseProp \/ ParseBracketProp \/ KeepIndexer
    \/ ParseAfterProp \/ ParseFunctionType \/ ParseTypeParameters
    \/ ParseFunctionTypeRest \/ ParseFunctionTypeTail \/ ParseOptionalReturnType
    \/ SkipComma \/ ParseReturnType \/ ParseReturnRest \/ AddTail \/ ParseTypeList
    \/ ParseMoreTypes \/ ParseTypeAfter \/ ParseSimpleTypeOrPack \/ PackOrSuffix
    \/ ParseTypePack \/ ParseVariadicArgument
    \/ Write \/ Finished

Spec == Init /\ [][Next]_vars

-----------------------------------------------------------------------------
(* Properties. *)

\* Whatever has been read, a name stands for the innermost of its locals in
\* scope (localMap agrees with localStack, also when a block declares a name
\* twice), and in the end everything has been given back: saveLocals and
\* restoreLocals, functionStack, typeFuncDepth.
Innermost(x) ==
    LET own == {i \in 1 .. Len(locals) : locals[i].local.name = x}
    IN  IF own = {} THEN NoLocal ELSE locals[CHOOSE i \in own : \A j \in own : i >= j].local
NamesVisible ==
    /\ \A x \in AllNames : names[x] = Innermost(x)
    /\ todo = <<>> => locals = <<>> /\ Len(funs) = 1 /\ ThisFunction.loops = 0 /\ typeDepth = 0

\* An error does not hold the parser up: after each token, and at the end of
\* the text, there is an end to what it does before it takes the next,
\* however it recovers.  All that is left to do was begun by the tokens read.
Advances == quiet <= Patience * (Len(text) + 1)

\* What is read without a report is what the text says: the tree is one the
\* grammar allows, with the operators at their levels, and it stands for the
\* text, token by token.  A text of the language is read without a report.  The
\* exceptions:
\* - parseInterpString says nothing of an empty expression behind which the
\*   string goes on, where it leaves a placeholder (EmptyInterpolation), and of
\*   a string that begins where the last one should go on, so that the text ends
\*   inside of a string (Unclosed);
\* - parseSimpleType reads a long string as a quoted one and so reports an escape
\*   that means nothing there (EscapeInLongType, parser.go:1820);
\* - parseReturnType lets a union, an intersection or a ? follow a pack with a
\*   tail, and applies it to the type in front of the tail (PackSuffix,
\*   parser.go:2058-2072).
Seen(tokens) == SelectSeq(tokens, LAMBDA x : x \notin Blank \cup {";"} \cup Worlds[world].drops)
RECURSIVE WithoutTrailing(_)
WithoutTrailing(tokens) ==
    IF Len(tokens) < 2 THEN tokens
    ELSE (IF tokens[1] = "," /\ tokens[2] = "}" THEN <<>> ELSE <<tokens[1]>>)
         \o WithoutTrailing(Tail(tokens))
Plain(tokens) == WithoutTrailing(Seen(tokens))

EmptyInterpolation ==
    \E i \in 1 .. Len(text) - 1 :
        text[i] \in {"istart", "imid"} /\ text[i + 1] \in {"imid", "iend", "bad"}
Unclosed == <<>> \notin Stacks(text, {<<>>})
\* Behind any of these a long string may be a type.
EscapeInLongType ==
    \E i \in 1 .. Len(text) :
        /\ text[i] = "badraw"
        /\ \E k \in 1 .. i - 1 : text[k] \in {":", "::", "->", "<", "type"}

\* "...", what it is directly inside of closed, and one of the suffixes.
PackSuffix ==
    LET shown    == SelectSeq(text, LAMBDA x : x \notin Blank)
        count(x, i, j) == Cardinality({k \in i .. j : shown[k] = x})
    IN  \E i, j \in 1 .. Len(shown) - 1 :
            /\ i < j /\ shown[i] = "..." /\ shown[j] = ")"
            /\ shown[j + 1] \in {"|", "&", "?"}
            /\ count("(", i, j - 1) = count(")", i, j - 1)
ReadsAsWritten ==
    todo = <<>> =>
        /\ Worlds[world].legal /\ ~EscapeInLongType => errors = 0
        /\ errors = 0 /\ ~EmptyInterpolation /\ ~Unclosed /\ ~PackSuffix =>
              /\ Len(out) = 1
              /\ Grammatical(Top)
              /\ Plain(Written(Top)) = Plain(text)

\* A name, ... and break mean what the scopes of the language say: the tree
\* of a text without a report names for each use the declaration the
\* reference finds, on the right side of the function it is in.
NamesResolved == todo = <<>> /\ errors = 0 => Resolved(Top, Outermost)
=============================================================================
