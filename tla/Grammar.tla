------------------------------ MODULE Grammar ------------------------------
(***************************************************************************)
(* What a tree means, stated without a parser: the text it stands for      *)
(* (Written), the trees the grammar allows (Grammatical) and the           *)
(* declaration each name refers to (Resolved).                             *)
(*                                                                         *)
(* A tree is made of the nodes of pkg/ast/nodes.go.  A name and a          *)
(* declaration carry their place in the text as n.                         *)
(***************************************************************************)
EXTENDS Tokens

\* How the nodes with a fixed number of parts are written; #1, #2, ... are
\* the parts.
Forms ==
    [do |-> <<"do", "#1", "end">>,
     continue |-> <<"continue">>,
     localstat |-> <<"#1", "local", "#2", "#3">>,
     init |-> <<"=", "#1">>,
     localfunction |-> <<"#1", "local", "function", "#2", "#3">>,
     functionstat |-> <<"#1", "function", "#2", "#3">>,
     function |-> <<"#1", "function", "#2">>,
     body |-> <<"#1", "(", "#2", ")", "#3", "#4", "end">>,
     assign |-> <<"#1", "=", "#2">>,
     callstat |-> <<"#1">>,
     if |-> <<"if", "#1", "then", "#2", "#3", "end">>,
     elseif |-> <<"elseif", "#1", "then", "#2", "#3">>,
     else |-> <<"else", "#1">>,
     while |-> <<"while", "#1", "do", "#2", "end">>,
     repeat |-> <<"repeat", "#1", "until", "#2">>,
     fornum |-> <<"for", "#1", "=", "#2", ",", "#3", "#4", "do", "#5", "end">>,
     step |-> <<",", "#1">>,
     forin |-> <<"for", "#1", "in", "#2", "do", "#3", "end">>,
     return |-> <<"return", "#1">>,
     typealias |-> <<"type", "#1", "#2", "=", "#3">>,
     exportalias |-> <<"export", "type", "#1", "#2", "=", "#3">>,
     typefunction |-> <<"type", "function", "#1", "#2">>,
     exportfunction |-> <<"export", "type", "function", "#1", "#2">>,
     binding |-> <<"#1", "#2">>,
     ann |-> <<":", "#1">>,
     dots |-> <<"...", "#1">>,
     assert |-> <<"#1", "::", "#2">>,
     group |-> <<"(", "#1", ")">>,
     indexname |-> <<"#1", ".", "#2">>,
     methodname |-> <<"#1", ":", "#2">>,
     index |-> <<"#1", "[", "#2", "]">>,
     call |-> <<"#1", "#2">>,
     named |-> <<"#1", "=", "#2">>,
     keyed |-> <<"[", "#1", "]", "=", "#2">>,
     ifelse |-> <<"if", "#1", "then", "#2", "#3">>,
     elseifexpr |-> <<"elseif", "#1", "then", "#2", "#3">>,
     elseexpr |-> <<"else", "#1">>,
     typeref |-> <<"#1", "#2">>,
     typeindex |-> <<"#1", ".", "#2", "#3">>,
     typeof |-> <<"typeof", "(", "#1", ")">>,
     typegroup |-> <<"(", "#1", ")">>,
     functiontype |-> <<"#1", "(", "#2", ")", "->", "#3">>,
     namedtype |-> <<"#1", ":", "#2">>,
     prop |-> <<"#1", ":", "#2">>,
     stringprop |-> <<"[", "#1", "]", ":", "#2">>,
     indexer |-> <<"[", "#1", "]", ":", "#2">>,
     array |-> <<"#1">>,
     variadic |-> <<"...", "#1">>,
     elements |-> <<":", "#1">>,
     packname |-> <<"#1", "...">>,
     generic |-> <<"#1", "#2">>,
     genericpack |-> <<"#1", "...", "#2">>,
     default |-> <<"=", "#1">>]

Part == [x \in {"#1", "#2", "#3", "#4", "#5"} |->
            CASE x = "#1" -> 1 [] x = "#2" -> 2 [] x = "#3" -> 3 [] x = "#4" -> 4 [] OTHER -> 5]

\* Lists: what stands before, between and after the parts.
Lists ==
    [exprs |-> <<"", ",", "">>, targets |-> <<"", ",", "">>, bindings |-> <<"", ",", "">>,
     typelist |-> <<"", ",", "">>, attributes |-> <<"", "", "">>, bare |-> <<"", "", "">>,
     block |-> <<"", "", "">>, interp |-> <<"", "", "">>,
     args |-> <<"(", ",", ")">>, table |-> <<"{", ",", "}">>, typetable |-> <<"{", ",", "}">>,
     generics |-> <<"<", ",", ">">>, typeargs |-> <<"<", ",", ">">>, pack |-> <<"(", ",", ")">>,
     intersection |-> <<"", "&", "">>]

Word(x) == IF x = "" THEN <<>> ELSE <<x>>

\* A union with n = 1 begins with a bar.
BarBefore(t, i) == IF (i = 1 /\ t.n = 0) \/ t.of[i].is = "optional" THEN <<>> ELSE <<"|">>

RECURSIVE Written(_), WrittenForm(_, _), WrittenList(_, _)
Written(t) ==
    CASE t.is = "none" \/ (t.is = "generics" /\ t.of = <<>>) -> <<>>
      [] t.is = "unary" -> <<t.name>> \o Written(t.of[1])
      [] t.is \in {"binary", "compound"} -> Written(t.of[1]) \o <<t.name>> \o Written(t.of[2])
      [] t.is \in DOMAIN Lists ->
            Word(Lists[t.is][1]) \o WrittenList(t, 1) \o Word(Lists[t.is][3])
      [] t.is = "union" -> WrittenList(t, 1)
      [] t.is \in DOMAIN Forms -> WrittenForm(t, 1)
      [] OTHER -> <<t.name>>
WrittenForm(t, i) ==
    IF i > Len(Forms[t.is]) THEN <<>>
    ELSE (IF Forms[t.is][i] \in DOMAIN Part
          THEN Written(t.of[Part[Forms[t.is][i]]])
          ELSE <<Forms[t.is][i]>>) \o WrittenForm(t, i + 1)
WrittenList(t, i) ==
    IF i > Len(t.of) THEN <<>>
    ELSE (IF t.is = "union" THEN BarBefore(t, i)
          ELSE IF i > 1 \/ t.n = 1 THEN Word(Lists[t.is][2]) ELSE <<>>)
         \o Written(t.of[i]) \o WrittenList(t, i + 1)

-----------------------------------------------------------------------------
(* The trees the grammar allows. *)

Level == [op \in BinaryOps |->
    CASE op = "or" -> 1 [] op = "and" -> 2
      [] op \in {"==", "~=", "<", "<=", ">", ">="} -> 3
      [] op = ".." -> 4 [] op \in {"+", "-"} -> 5 [] op \in {"*", "/", "//", "%"} -> 6
      [] OTHER -> 8]
UnaryLevel == 7
RightAssociative == {"..", "^"}

\* How tightly a tree holds together.
Strength(t) == CASE t.is = "binary" -> Level[t.name] [] t.is = "unary" -> UnaryLevel [] OTHER -> 9

\* An expression that would take in an operator behind it.
RECURSIVE Open(_)
Open(t) == CASE t.is = "binary" -> Open(t.of[2])
             [] t.is = "unary"  -> Open(t.of[1])
             [] OTHER           -> t.is = "ifelse"

\* A function type that would take in a suffix behind it: its return type is not
\* in parentheses.
RECURSIVE TakesSuffix(_)
TakesSuffix(t) ==
    /\ t.is = "functiontype"
    /\ t.of[3].is # "pack"
    /\ t.of[3].is = "functiontype" => TakesSuffix(t.of[3])

Prefixes == {"local", "upvalue", "global", "group", "indexname", "methodname", "index", "call"}
Variables == {"local", "upvalue", "global", "indexname", "index"}
Final     == {"break", "continue", "return"}

\* An interpolated string begins once and ends once.
InterpPart(t, i) == CASE i = 1 -> "istart" [] i = Len(t.of) -> "iend" [] OTHER -> "imid"

Fits(t) ==
    CASE t.is = "unary" -> Strength(t.of[1]) >= UnaryLevel
      [] t.is = "binary" ->
            /\ ~Open(t.of[1])
            /\ IF t.name \in RightAssociative
               THEN /\ Strength(t.of[1]) > Level[t.name]
                    /\ t.of[2].is = "unary" \/ Strength(t.of[2]) >= Level[t.name]
               ELSE Strength(t.of[1]) >= Level[t.name] /\ Strength(t.of[2]) > Level[t.name]
      [] t.is = "assert" -> t.of[1].is \notin {"unary", "binary", "assert", "ifelse"}
      [] t.is \in {"indexname", "methodname", "index", "call"} -> t.of[1].is \in Prefixes
      [] t.is = "targets" -> \A i \in 1 .. Len(t.of) : t.of[i].is \in Variables
      [] t.is = "compound" -> t.of[1].is \in Variables
      [] t.is = "callstat" -> t.of[1].is = "call"
      [] t.is = "interp" -> /\ Len(t.of) % 2 = 1
                            /\ \A i \in 1 .. Len(t.of) : i % 2 = 1 => t.of[i].name = InterpPart(t, i)
      [] t.is = "block" -> \A i \in 1 .. Len(t.of) - 1 : t.of[i].is \notin Final
      [] t.is \in {"union", "intersection"} ->
            \A i \in 1 .. Len(t.of) :
                /\ t.of[i].is \notin {"union", "intersection"}
                /\ TakesSuffix(t.of[i]) => i = Len(t.of)
      [] OTHER -> t.is # "error"

RECURSIVE Grammatical(_)
Grammatical(t) == Fits(t) /\ \A i \in 1 .. Len(t.of) : Grammatical(t.of[i])

-----------------------------------------------------------------------------
(* The declarations names refer to.  The scope of a place is               *)
(*   vars   the place and the function depth of the innermost declaration  *)
(*          of each name; place 0 is no declaration                        *)
(*   depth  the functions around it                                        *)
(*   floor  the depth of the type function around it                       *)
(*   loops  the loops around it in its function                            *)
(*   vararg whether its function has ...                                   *)

NoPlace  == [at |-> 0, depth |-> 0]
AllNames == Names \cup {"error"}
Outermost == [vars |-> [x \in AllNames |-> NoPlace], depth |-> 0, floor |-> 0, loops |-> 0,
              vararg |-> TRUE]

\* The name leaf of a declaration, and the declarations of a list.
NameOf(t)  == IF t.is = "binding" THEN t.of[1] ELSE t
Declared(list) == SelectSeq(list, LAMBDA t : t.is # "dots")

RECURSIVE Under(_, _)
Under(scope, list) ==
    IF list = <<>> THEN scope
    ELSE Under([scope EXCEPT !.vars[NameOf(Head(list)).name] =
                    [at |-> NameOf(Head(list)).n, depth |-> scope.depth]], Tail(list))

InLoop(scope)  == [scope EXCEPT !.loops = @ + 1]
HasDots(list)  == \E i \in 1 .. Len(list) : list[i].is = "dots"

\* Inside a function.
InFunction(scope, body, self) ==
    Under([scope EXCEPT !.depth = @ + 1, !.loops = 0, !.vararg = HasDots(body.of[2].of)],
          self \o Declared(body.of[2].of))

\* self is declared where the name of the method stands.
SelfOf(name) ==
    IF name.is = "methodname" THEN <<Node("name", "self", name.of[2].n, <<>>)>> ELSE <<>>

\* What a statement declares for those that follow it.
Declares(t) == CASE t.is = "localstat" -> Declared(t.of[2].of)
                 [] t.is = "localfunction" -> <<t.of[2]>>
                 [] OTHER -> <<>>

RefersTo(t, scope) ==
    LET place == scope.vars[t.name]
    IN  CASE t.is = "global"  -> place.at = 0
          [] t.is = "local"   -> place.at = t.n /\ place.depth = scope.depth
          [] t.is = "upvalue" -> /\ place.at = t.n /\ t.n > 0
                                 /\ place.depth \in scope.floor .. scope.depth - 1

RECURSIVE Resolved(_, _), ResolvedBody(_, _, _), ResolvedBlock(_, _, _), AllResolved(_, _)
AllResolved(list, scope) == \A i \in 1 .. Len(list) : Resolved(list[i], scope)

Resolved(t, scope) ==
    CASE t.is \in {"local", "upvalue", "global"} -> RefersTo(t, scope)
      [] t.is = "varargs" -> scope.vararg
      [] t.is = "break"   -> scope.loops > 0
      [] t.is = "block"   -> ResolvedBlock(t.of, scope, FALSE)
      [] t.is = "while"   -> Resolved(t.of[1], scope) /\ Resolved(t.of[2], InLoop(scope))
      [] t.is = "repeat"  -> ResolvedBlock(Append(t.of[1].of, t.of[2]), InLoop(scope), TRUE)
      [] t.is = "fornum"  -> /\ AllResolved(SubSeq(t.of, 1, 4), scope)
                             /\ Resolved(t.of[5], Under(InLoop(scope), <<t.of[1]>>))
      [] t.is = "forin"   -> /\ AllResolved(SubSeq(t.of, 1, 2), scope)
                             /\ Resolved(t.of[3], Under(InLoop(scope), t.of[1].of))
      [] t.is = "function" -> ResolvedBody(t.of[2], scope, <<>>)
      [] t.is = "localfunction" -> ResolvedBody(t.of[3], Under(scope, <<t.of[2]>>), <<>>)
      [] t.is = "functionstat" -> /\ Resolved(t.of[2], scope)
                                  /\ ResolvedBody(t.of[3], scope, SelfOf(t.of[2]))
      [] t.is \in {"typefunction", "exportfunction"} ->
            ResolvedBody(t.of[2], [scope EXCEPT !.floor = scope.depth + 1], <<>>)
      [] OTHER -> AllResolved(t.of, scope)

\* The types of a function's head are outside of it.
ResolvedBody(t, scope, self) ==
    /\ AllResolved(SubSeq(t.of, 1, 3), scope)
    /\ Resolved(t.of[4], InFunction(scope, t, self))

\* The condition of a repeat loop, the last of its list, sees the locals of
\* the body but is not in the loop.
ResolvedBlock(list, scope, repeats) ==
    \/ list = <<>>
    \/ LET inside == IF repeats /\ Len(list) = 1 THEN [scope EXCEPT !.loops = @ - 1] ELSE scope
       IN  /\ Resolved(Head(list), inside)
           /\ ResolvedBlock(Tail(list), Under(scope, Declares(Head(list))), repeats)
=============================================================================
