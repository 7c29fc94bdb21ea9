---------------------------- MODULE MCExpressions ----------------------------
(***************************************************************************)
(* Small programs, compiled and run by ExprVM.  Every program begins with  *)
(* local a, b = ..., where b is false.                                     *)
(***************************************************************************)
EXTENDS ExprVM

a == Gen!Var(1)
b == Gen!Var(2)
c == Gen!Var(3)
d == Gen!Var(4)
F(args) == Gen!Call(Gen!GlobalVar("f"), args)
Bin(op, x, y) == Gen!Binary(op, x, y)

Few  == {a, Gen!Group(b), F(<<>>)}
Some == Few \cup {Number(1), Gen!GlobalVar("g"), Gen!Varargs, Nil}

\* Expressions over operands.
Operations(xs, ys) ==
    {Bin(op, x, y) : op \in {"add", "lt", "gt", "ne", "and", "or", "concat"},
                     x \in xs, y \in ys}

Lists(xs) == {<<>>} \cup {<<x>> : x \in xs} \cup {<<x, y>> : x \in xs, y \in xs}

Items(xs) ==
    {<<Gen!Listed(x)>> : x \in xs} \cup {<<Gen!Named("k", x)>> : x \in xs}
    \cup {<<Gen!Keyed(x, b)>> : x \in xs}
    \cup {<<Gen!Named("k", a), Gen!Named("m", x)>> : x \in xs}
    \cup {<<Gen!Listed(a), Gen!Keyed(F(<<>>), x), Gen!Listed(b), Gen!Listed(x)>> : x \in xs}
    \cup {<<Gen!Listed(x), Gen!Listed(a), Gen!Named("k", x)>> : x \in xs}

Others(xs) ==
    {Gen!Unary(op, x) : op \in {"minus", "length", "not"}, x \in xs}
    \cup {Gen!IndexName(x, "k") : x \in xs}
    \cup {Gen!Index(x, k) : x \in xs, k \in {b, F(<<>>), String("k"), Number(256), Number(257)}}
    \cup {Gen!IfThen(x, y, b) : x \in xs, y \in Few}
    \cup {Gen!Interp(es) : es \in {<<>>} \cup {<<x>> : x \in xs} \cup {<<x, a>> : x \in xs}}
    \cup {Gen!Call(x, <<b>>) : x \in xs}
    \cup {F(<<a, x>>) : x \in xs} \cup {F(<<x, b>>) : x \in xs}
    \cup {Gen!Method(x, "m", <<y>>) : x \in xs, y \in Few}
    \cup {Gen!Table(items) : items \in Items(xs)}

Exprs1 == Operations(Some, Few) \cup Operations(Few, Some) \cup Others(Some)

\* An expression inside another.
Exprs2 == LET inner == Operations({a}, {F(<<>>)}) \cup Operations({F(<<>>)}, {b})
                       \cup Others({F(<<>>)})
          IN  Operations(inner, {F(<<>>)}) \cup Operations({F(<<>>)}, inner)
              \cup Others(inner)

\* Statements that use a value; the result shows the variables.
Uses(e) ==
    {<<Gen!LocalStat(<<c, d>>, <<e>>), Gen!Return(<<c, d>>)>>,
     <<Gen!LocalStat(<<c>>, <<a, e>>), Gen!Return(<<b, c>>)>>,
     <<Gen!LocalStat(<<c, d>>, <<b, e>>), Gen!Return(<<c, d>>)>>,
     <<Gen!LocalStat(<<c, d>>, <<>>), Gen!Assign(<<d>>, <<e>>), Gen!Return(<<c, d>>)>>,
     <<Gen!Assign(<<a, b>>, <<e>>), Gen!Return(<<a, b>>)>>,
     <<Gen!Assign(<<b, Gen!Index(b, a), a>>, <<a, e>>), Gen!Return(<<a, b>>)>>,
     <<Gen!Assign(<<a, Gen!IndexName(e, "k")>>, <<b, a>>), Gen!Return(<<a>>)>>,
     <<Gen!Assign(<<Gen!Index(a, e)>>, <<F(<<>>)>>)>>,
     <<Gen!Assign(<<Gen!GlobalVar("g"), Gen!Index(e, Number(1))>>, <<a>>)>>,
     <<Gen!Compound("add", a, e), Gen!Compound("concat", b, a), Gen!Return(<<a, b>>)>>,
     <<Gen!Compound("concat", Gen!Index(a, e), e)>>,
     <<Gen!Compound("add", Gen!IndexName(e, "k"), b),
       Gen!Compound("add", Gen!Index(e, Number(1)), Number(1))>>,
     <<Gen!Return(<<e>>)>>, <<Gen!Return(<<a, e>>)>>, <<Gen!Do(F(<<e>>))>>}

Calls == {Gen!Method(F(<<>>), "m", <<F(<<>>)>>), F(<<Gen!Varargs>>)}

Bigs == {Number(32767), Number(32768), Bin("add", Number(1), Number(40000)),
         Bin("sub", Bin("add", a, Number(3)), Number(4))}

JustReturn(e) == <<Gen!Return(<<e>>)>>

\* Functions that read and write variables of the functions around them.
Fun(params, vararg, body) == Gen!Function(params, vararg, body)
x == Gen!Var(5)
y == Gen!Var(6)
Inner == {Fun(<<>>, FALSE, <<Gen!Assign(<<a, b>>, <<b, a>>), Gen!Return(<<a, x>>)>>),
          Fun(<<y>>, TRUE, <<Gen!Compound("add", x, y), Gen!Return(<<b, x, Gen!Varargs>>)>>)}
Outer == {Fun(<<x>>, FALSE, <<Gen!Return(<<i>>)>>) : i \in Inner}
         \cup {Fun(<<x>>, TRUE, <<Gen!LocalStat(<<d>>, <<i>>),
                                  Gen!Return(<<Gen!Call(d, <<Gen!Varargs>>)>>)>>) : i \in Inner}

FunctionUses ==
    {<<Gen!LocalStat(<<c>>, <<f>>),
       Gen!Return(<<Gen!Call(Gen!Call(c, <<a>>), <<b, F(<<>>)>>), a, b>>)>> : f \in Outer}
    \cup {<<Gen!LocalFunction(c, f), Gen!Assign(<<a>>, <<Gen!Call(c, <<F(<<>>)>>)>>),
            Gen!Return(<<b, a, Gen!Call(c, <<a, b>>)>>)>> : f \in Outer}
    \cup {<<Gen!LocalFunction(c, Fun(<<x>>, FALSE,
              JustReturn(Bin("or", Bin("and", x, Gen!Call(c, <<b>>)), a)))),
            Gen!Return(<<Gen!Call(c, args)>>)>> : args \in Lists({a, b})}

Bodies == UNION {Uses(e) : e \in Exprs1} \cup {JustReturn(e) : e \in Exprs2 \cup Bigs}
          \cup {<<Gen!Do(e)>> : e \in Calls} \cup FunctionUses

Programs ==
    {Chunk(<<Gen!LocalStat(<<a, b>>, <<Gen!Varargs>>)>> \o body, <<Token(0, 0), False, Token(0, 1)>>) :
        body \in Bodies}
=============================================================================
