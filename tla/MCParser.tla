------------------------------ MODULE MCParser ------------------------------
(***************************************************************************)
(* Texts for Parser: sentences of the language, put together from phrases, *)
(* and free texts over a few tokens, most of which are none.               *)
(***************************************************************************)
EXTENDS Parser

Legal(slots)        == [slots |-> slots, drops |-> {}, legal |-> TRUE]
Phrases(slots)      == [slots |-> slots, drops |-> {}, legal |-> FALSE]
Without_(drops, slots) == [slots |-> slots, drops |-> drops, legal |-> TRUE]
Free(first, tokens, n) ==
    [slots |-> <<{first}>> \o [i \in 1 .. n |-> {<<x>> : x \in tokens}],
     drops |-> {}, legal |-> FALSE]

-----------------------------------------------------------------------------
(* Phrases. *)

Operands == {<<"a">>, <<"1">>, <<"nil">>, <<"str">>, <<"badraw">>, <<"simple">>, <<"...">>,
             <<"a", ".", "b">>, <<"a", "[", "1", "]">>, <<"(", "a", ")">>, <<"f", "(", ")">>,
             <<"a", ":", "b", "(", "a", ",", "1", ")">>, <<"f", "str">>,
             <<"f", "{", "}", ".", "b">>, <<"(", "...", ")", "(", "...", ")">>}

Constructs ==
    {<<"function", "(", ")", "end">>,
     <<"function", "(", "a", ":", "T", ",", "...", ")", "return", "a", ",", "...", "end">>,
     <<"@n", "function", "(", "...", ":", "T", ")", ":", "T", "end">>,
     <<"{", "}">>, <<"{", "a", ",", "nl", "f", "(", ")", ",", "}">>,
     <<"{", "[", "a", "]", "=", "1", ",", "b", "=", "a", ",", "b", "}">>,
     <<"if", "a", "then", "1", "else", "b">>,
     <<"if", "a", "then", "1", "elseif", "b", "then", "a", "else", "b", "+", "1">>,
     <<"istart", "a", "iend">>, <<"istart", "{", "a", "}", "imid", "b", "iend">>,
     <<"a", "::", "T">>, <<"not", "a">>, <<"-", "a", "^", "-", "b", "^", "1">>,
     <<"#", "a", "..", "1", "..", "b">>, <<"a", "-", "1", "-", "b">>,
     <<"a", "or", "b", "and", "not", "a", "==", "b", "+", "1", "*", "a">>}

Types ==
    {<<"T">>, <<"nil">>, <<"true">>, <<"str">>, <<"raw">>, <<"badraw">>, <<"T", "|", "badraw">>,
     <<"{", "[", "raw", "]", ":", "T", "}">>, <<"T", ".", "a">>, <<"typeof", "(", "a", ")">>,
     <<"T", "<", ">">>, <<"T", "<", "T", ",", "(", "T", ",", "T", ")", ",", "...", "T", ">">>,
     <<"T", "<", "(", "T", ")", "|", "nil", ",", "(", ")", "->", "T", ",", "T", "...", ">">>,
     <<"{", "}">>, <<"{", "T", "}">>, <<"{", "a", ":", "T", ",", "[", "T", "]", ":", "T", ",", "}">>,
     <<"{", "[", "str", "]", ":", "T", "}">>, <<"(", "T", ")">>, <<"(", ")", "->", "(", ")">>,
     <<"(", "T", ",", "a", ":", "T", ",", "...", "T", ")", "->", "T", "...">>,
     <<"<", "T", ",", "a", "...", ">", "(", "a", "...", ")", "->", "(", "T", ",", "T", ")">>,
     <<"(", "T", ")", "->", "(", "T", ")", "->", "T", "?">>, <<"(", ")", "->", "(", "T", ",", "...", "T", ")">>,
     <<"T", "|", "nil">>, <<"T", "?">>, <<"|", "T", "|", "a", "?">>, <<"T", "&", "a">>,
     <<"&", "T", "&", "{", "}">>, <<"(", "T", "|", "a", ")", "&", "(", "(", ")", "->", "T", ")">>}

BinaryPhrases == {<<op>> : op \in BinaryOps}
SomeBinary == {<<"^">>, <<"*">>, <<"..">>, <<"<">>, <<"and">>, <<"or">>}

-----------------------------------------------------------------------------
(* Sentences. *)

ExprSentences ==
    <<Legal(<<{<<"return">>}, Operands \cup Constructs>>),
     Legal(<<{<<"a", "=", "f", "(", "b", ",">>}, Constructs, {<<")">>}>>),
     Legal(<<{<<"a", "+=">>}, Operands, BinaryPhrases, {<<"b">>}>>),
     Legal(<<{<<"a", "[", "1", "]">>},
             {<<"=">>}, {<<"-">>, <<"not">>, <<>>}, {<<"a">>}, SomeBinary, {<<"-">>, <<>>}, {<<"b">>},
             SomeBinary, {<<"1">>}>>)>>

TypeSentences ==
    <<Legal(<<{<<"type", "T", "=">>, <<"local", "a", ":">>, <<"a", "=", "b", "::">>,
              <<"export", "type", "T", "<", "a", ",", "b", "=", "T", ",", "f", "...", "=", "...", "T",
                ">", "=">>}, Types>>),
     Legal(<<{<<"function", "f", "(", "a", ":">>}, Types, {<<")", ":">>},
             {<<"T">>, <<"(", ")">>, <<"T", "...">>, <<"...", "T">>, <<"(", "T", ",", "...", "T", ")">>,
              <<"(", "T", ")", "|", "nil">>, <<"(", "T", ")", "->", "T">>}, {<<"end">>}>>)>>

Statements ==
    <<Legal(<<{<<"do">>, <<"while", "a", "do">>, <<"for", "a", "=", "1", ",", "a", "do">>,
              <<"for", "a", ":", "T", "=", "1", ",", "b", ",", "a", "do">>,
              <<"for", "a", ",", "b", "in", "a", ",", "b", "do">>,
              <<"if", "a", "then">>, <<"if", "a", "then", "b", "=", "a", "elseif", "b", "then">>,
              <<"if", "a", "then", "else">>, <<"local", "function", "a", "(", "b", ",", "...", ")">>,
              <<"function", "a", ".", "b", ":", "f", "(", "b", ")">>,
              <<"@n", "function", "a", "(", "...", ":", "T", "...", ")">>,
              <<"type", "function", "f", "(", "a", ")">>,
              <<"export", "type", "function", "f", "(", ")">>},
             {<<"return">>, <<"return", ";">>, <<"continue">>, <<"local", "b", ",", "a", "=", "a", "nl">>,
              <<"b", ",", "a", ".", "b", "=", "a", ",", "b", ";">>, <<"f", "nl", "(", "self", ")">>,
              <<"type", "=", "continue", ";">>, <<"repeat", "--", "local", "b", "until", "b">>,
              <<"return", "a", "nl", "..", "b">>},
             {<<"end">>}>>)>>

\* What the tree does not keep.
Dropped ==
    <<Without_({"<", "T", ">", ",", "..."}, <<{<<"f">>, <<"a", ".", "b">>, <<"a", ":", "b">>},
                                 {<<"<", "<", "T", ">", ">", "(", "a", ")">>,
                                  <<"<", "<", "T", ",", "nl", "T", "...", ">", ">", "str">>}>>),
     Without_({"@[", "]", ",", "str"}, <<{<<"@[", "a", ",", "b", "str", "]", "function", "f", "(", ")", "end">>,
                                          <<"@[", "a", "str", "]", "@n", "local", "function", "f", "(", ")", "end">>}>>),
     Without_({"read", "write", ",", ";"},
              <<{<<"type", "T", "=", "{", "read", "a", ":", "T", ";", "write", "[", "T", "]", ":", "T", "}">>}>>),
     Without_({",", ";"}, <<{<<"a", "=", "{", "a", ";", "b", "=", "1", ";", "}">>}>>)>>

\* Names that are declared again and used.
Uses == {<<"local", "a">>, <<"local", "b", "=", "a">>, <<"local", "a", ",", "a", "=", "a", ",", "b">>,
         <<"a", "=", "b">>}
Inside ==
    {<<"for", "a", ",", "a", "in", "a", "do", "a", "=", "b", "end">>,
     <<"local", "b", ":", "typeof", "(", "b", ")", "=", "function", "(", ")",
       "return", "a", ",", "self", "end">>,
     <<"while", "a", "do", "break", "end">>}
Scopes ==
    <<Legal(<<{<<"local", "a", ",", "b">>, <<"local", "b">>}, Uses,
              {<<"do">>, <<"local", "function", "a", "(", "b", ")">>,
               <<"function", "a", ":", "b", "(", "a", ",", "a", ")">>}, Uses, Inside,
              {<<"end", "a", "=", "b">>}>>),
      Legal(<<{<<"local", "a", ",", "b">>}, {<<"repeat">>}, Uses, Inside,
              {<<"until", "a">>,
               <<"until", "function", "(", "b", ")", "return", "a", ",", "b", "end">>},
              {<<"a", "=", "b">>}>>)>>

\* Return types in parentheses with something behind them: a type for one type,
\* and an error, but for one that is accepted, behind a pack.
ReturnTypes ==
    <<Phrases(<<{<<"function", "f", "(", ")", ":">>, <<"type", "T", "=", "(", ")", "->">>},
                {<<"(", "T", ")">>, <<"(", "T", ",", "a", ")">>, <<"(", "T", ",", "...", "a", ")">>,
                 <<"(", "T", ",", "...", "(", "a", ")", ")">>, <<"(", "T", ",", "a", "...", ")">>,
                 <<"(", "...", "T", ")">>, <<"(", "T", ",", "a", ",", "...", "T", ")">>},
                {<<"|", "nil">>, <<"&", "a">>, <<"?">>, <<>>}, {<<"end">>, <<>>}>>)>>

-----------------------------------------------------------------------------
\* Free texts, with their beginnings.
Texts ==
    <<Free(<<>>, {"if", "then", "else", "elseif", "end", "a", ";"}, 4),
      Free(<<>>, {"while", "do", "break", "repeat", "until", "a", "end"}, 4),
      Free(<<>>, {"local", "function", "a", "(", ")", "end"}, 4),
      Free(<<"for">>, {"a", "=", ",", "in", "do", "end"}, 4),
      Free(<<"a", "=">>, {"a", "(", ")", "{", "}", ","}, 3),
      Free(<<"f">>, {".", ":", "(", ")", "nl", "a", "str"}, 4),
      Free(<<"return">>, {"-", "a", "^", "if", "then", "else"}, 4),
      Free(<<"a", "=">>, {"istart", "imid", "iend", "a", "idouble", "bad"}, 4),
      Free(<<"a", "=">>, {"badstr", "bad1", "badistart", "...", "@n", "function", "iend"}, 3),
      Free(<<>>, {"@n", "@[", "]", "function", "local", "a"}, 3),
      Free(<<"type">>, {"T", "=", "function", "(", ")", "<"}, 3),
      Free(<<"type", "T", "=">>, {"T", "(", ")", "->", "|", "&", "?"}, 4),
      Free(<<"type", "T", "=">>, {"T", "...", "<", ">", ",", "("}, 3),
      Free(<<"type", "T", "=", "{">>, {"T", "[", "]", ":", "}", ","}, 4),
      Free(<<"type", "T", "<">>, {"T", "...", "=", ",", ">", "("}, 3),
      Free(<<"function", "f", "(", ")">>, {":", "(", "T", "...", ")", "->"}, 4)>>
MCWorlds == ExprSentences \o TypeSentences \o Statements \o Dropped \o Scopes \o ReturnTypes \o Texts
=============================================================================
