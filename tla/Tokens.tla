------------------------------- MODULE Tokens -------------------------------
(***************************************************************************)
(* The tokens of a text, pkg/ast/lexer.go.  A token is written as its      *)
(* spelling where it has one:                                              *)
(*                                                                         *)
(*   "str", "raw"         a quoted and a long string                       *)
(*   "simple"             an interpolated string without expressions       *)
(*   "istart", "imid",    the parts of an interpolated string around its   *)
(*   "iend"               expressions                                      *)
(*   "badstr", "badraw",  the same with an escape that means nothing;      *)
(*   "badistart"          in a long string no escape means anything        *)
(*   "1", "bad1"          a number and what only begins like one           *)
(*   "bad", "idouble"     a string without end, two opening braces         *)
(*   "@n", "@["           an attribute, the beginning of an attribute list *)
(*   "nl", "--"           a line break and a comment                       *)
(***************************************************************************)
EXTENDS LuaTerms, FiniteSets

\* Names that the parser takes for words of the language in some places.
Contextual == {"type", "continue", "export", "typeof", "read", "write"}
Names      == {"a", "b", "f", "T", "self"} \cup Contextual

Keywords == {"and", "break", "do", "else", "elseif", "end", "false", "for", "function",
             "if", "in", "local", "nil", "not", "or", "repeat", "return", "then",
             "true", "until", "while"}

LongStrings == {"raw", "badraw"}
Strings     == {"str", "badstr", "simple"} \cup LongStrings
TypeStrings == Strings \ {"simple"}
Parts       == {"istart", "badistart", "imid", "iend", "simple"}
Malformed   == {"badstr", "badraw", "badistart"}
Attributes  == {"@n", "@["}
Separators  == {",", ";"}

UnaryOps    == {"not", "-", "#"}
BinaryOps   == {"+", "-", "*", "/", "//", "%", "^", "..", "==", "~=", "<", "<=", ">", ">=",
                "and", "or"}
CompoundOps == {"+=", "-=", "*=", "/=", "//=", "%=", "^=", "..="}

Blank == {"nl", "--"}

\* The first place at or after i that the parser sees.
RECURSIVE From(_, _)
From(text, i) == IF i <= Len(text) /\ text[i] \in Blank THEN From(text, i + 1) ELSE i

TokenAt(text, i) == IF i <= Len(text) THEN text[i] ELSE "eof"

LineOf(text, i)   == Cardinality({k \in 1 .. i : TokenAt(text, k) = "nl"})
ColumnOf(text, i) == i - Cardinality({k \in 1 .. i : \E l \in k .. i : TokenAt(text, l) = "nl"})

\* The token in front of place i; a comment counts.
Before(text, i) ==
    LET seen == {k \in 1 .. i - 1 : text[k] # "nl"}
    IN  IF seen = {} THEN 0 ELSE CHOOSE k \in seen : \A l \in seen : l <= k

-----------------------------------------------------------------------------
(* The brace stack of the lexer: the braces open inside of interpolated    *)
(* strings.  A closing brace ends an expression of such a string if the    *)
(* innermost is the string's own, and what follows is a part of the        *)
(* string; it is pushed again if another expression begins there.          *)

\* The stacks a token may leave; none if it cannot stand there.
After(token, stack) ==
    LET inside == stack # <<>> /\ Head(stack) = "interp"
        begun  == {<<"interp">> \o stack}
        ended  == IF inside THEN {Tail(stack)} ELSE {}
        same   == IF inside THEN {stack} ELSE {}
    IN  CASE token \in {"istart", "badistart"} -> begun
          [] token = "idouble" -> begun \cup same
          [] token = "imid"    -> same
          [] token = "iend"    -> ended
          [] token = "bad"     -> {stack} \cup ended
          [] token = "{"       -> {IF stack = <<>> THEN stack ELSE <<"normal">> \o stack}
          [] token = "}" /\ stack # <<>> -> {Tail(stack)} \ ended
          [] OTHER             -> {stack}

RECURSIVE Stacks(_, _)
Stacks(text, stacks) ==
    IF text = <<>> THEN stacks
    ELSE Stacks(Tail(text), UNION {After(Head(text), stack) : stack \in stacks})

\* The texts the lexer can deliver.
Lexical(text) == Stacks(text, {<<>>}) # {}

-----------------------------------------------------------------------------
\* Nodes of the tree of a text.
None           == Node("none", "", 0, <<>>)
Inner(is, of)  == Node(is, "", 0, of)
=============================================================================
