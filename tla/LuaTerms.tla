------------------------------ MODULE LuaTerms ------------------------------
(***************************************************************************)
(* One shape for syntax and values.  What a program cannot compute by      *)
(* itself is an event, and its value a token that names the event.         *)
(***************************************************************************)
EXTENDS Integers, Sequences

Node(is, name, n, of) == [is |-> is, name |-> name, n |-> n, of |-> of]

\* Expressions that are values, and the other values.
Nil   == Node("nil", "", 0, <<>>)
False == Node("false", "", 0, <<>>)
True  == Node("true", "", 0, <<>>)
Number(n)  == Node("number", "", n, <<>>)
String(s)  == Node("string", s, 0, <<>>)
Token(event, i)  == Node("token", "", 2 * event + i, <<>>)
ClosureValue(id) == Node("closure", "", id, <<>>)

Truthy(v) == v.is \notin {"nil", "false"}
Not(v)    == IF Truthy(v) THEN False ELSE True

\* The first n values, padded with nil.
Adjusted(values, n) == [i \in 1 .. n |-> IF i <= Len(values) THEN values[i] ELSE Nil]

\* What a call can return, by the number of its outcome.
Outcome(n, event) ==
    CASE n = 0 -> <<>>
      [] n = 1 -> <<False>>
      [] n = 2 -> <<Token(event, 0)>>
      [] n = 3 -> <<Token(event, 0), Token(event, 1)>>
=============================================================================
