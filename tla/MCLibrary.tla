----------------------------- MODULE MCLibrary -----------------------------
(* Small instances of TableLibrary and StringLibrary for TLC.  The two share
   nothing, and a behaviour is about one of them: the other one's variables
   stay as they are. *)
EXTENDS TableLibrary, Patterns

CONSTANT nil

SomeValues == 1 .. 3
\* Parts of longer sorts that are left to the heap at once, or after a
\* partition.
SomeLimits == {0, 1}

-----------------------------------------------------------------------------
(* The calls of the string library. *)
NoReplacement == [kind |-> "text", text |-> <<>>, answer |-> "none"]
Base == [fn |-> "match", subject |-> <<>>, pattern |-> <<>>, init |-> 1, last |-> 0,
         plain |-> FALSE, max |-> 9, rep |-> NoReplacement]

Joint(seqs) == FlattenSeq(seqs)

\* Items whole: every kind, and every suffix.
SomeItems == {<<"a">>, <<".", "*">>, <<"a", "-">>, <<".", "?">>, <<"[", "^", "a", "]", "+">>,
              <<"(">>, <<")">>, <<"(", ")">>, <<"%", "1">>, <<"$">>}
MoreItems == {<<"%", "A">>, <<"%", "b", "a", "b">>, <<"%", "b", "a", "a">>, <<"%", "f", "[", "a", "]">>}
FewItems  == {<<"a">>, <<"a", "*">>, <<".", "-">>, <<"(">>, <<")">>, <<"(", ")">>,
              <<"%", "f", "[", "a", "]">>}
Patterns2 == {i \o j : i, j \in SomeItems \cup MoreItems}
Patterns3 == {Joint(<<i, j, k>>) : i, j, k \in SomeItems}
             \cup Patterns2
\* Five items, so that the recursion may get too deep.
Patterns5 == {<<"(">> \o Joint(<<i, j>>) \o <<")">> \o k :
                 i, j \in SomeItems, k \in {<<"%", "1">>, <<".", "*">>}}

\* Texts that are patterns or not: sets, escapes, brackets that do not match.
Chars3 == {"a", "%", "[", "]", "^", "-"}
Broken3 == UNION {[1 .. n -> Chars3] : n \in 0 .. 3}
Sets == {<<"[">> \o t \o <<"]">> : t \in [1 .. 3 -> {"a", "c", "-", "%", "^"}]}
Odd == {<<"%", "b", "a">>, <<"%", "f", "a">>, <<"%", "f", "[", "a">>, <<"%", "b", "a", "a">>,
        <<"^", "a">>, <<"^", ")">>, <<"^">>, <<"a", "%", "0">>, <<"%", "z">>, <<"%", "D">>, <<"b", "$", "a">>}

Subjects == {<<"a", "a", "b">>, <<"b", "a", "1", "a">>}
Short    == {<<>>, <<"a">>, <<"b", "a">>}

Matches == UNION {[fn : {"match"}, subject : {s},
                   pattern : Patterns5 \cup (IF Len(s) = 3 THEN Patterns3 ELSE Patterns2),
                   init : {1}, last : {0}, plain : {FALSE}, max : {9}, rep : {NoReplacement}] :
                      s \in Subjects}
Iterations == [fn : {"gmatch"}, subject : Subjects, pattern : Patterns2 \cup Odd,
               init : {1}, last : {0}, plain : {FALSE}, max : {9}, rep : {NoReplacement}]
Finds == [fn : {"find"}, subject : Short \cup {<<"a", "]", "c">>},
          pattern : Broken3 \cup Sets \cup Odd,
          init : {1}, last : {0}, plain : {FALSE}, max : {9}, rep : {NoReplacement}]
Inits == [fn : {"find", "match"}, subject : {<<"a", "b", "a">>}, pattern : {<<"a">>, <<"^", "a">>, <<>>, <<"b", "*">>, <<"[", "a">>, <<")">>},
          init : -5 .. 5, last : {0}, plain : BOOLEAN, max : {9}, rep : {NoReplacement}]
Texts == {<<"c">>, <<"%", "0", "%", "1">>, <<"%", "2">>, <<"%">>, <<"%", "%", "%", "a">>}
Replacements == [kind : {"text"}, text : Texts, answer : {"none"}]
                \cup [kind : {"function", "table"}, text : {<<"c">>}, answer : {"none", "text", "bad"}]
Substitutions == [fn : {"gsub"}, subject : Subjects, pattern : {Joint(<<i, j>>) : i, j \in FewItems} \cup {<<"^">> \o i : i \in SomeItems},
                  init : {1}, last : {0}, plain : {FALSE}, max : {9}, rep : Replacements]
Limited == [fn : {"gsub"}, subject : Subjects, pattern : FewItems,
            init : {1}, last : {0}, plain : {FALSE}, max : -1 .. 3, rep : {NoReplacement}]
Cuts == [fn : {"sub", "byte"}, subject : {<<"a", "b", "c">>, <<>>}, pattern : {<<>>}, init : -5 .. 5, last : -5 .. 5,
         plain : {FALSE}, max : {9}, rep : {NoReplacement}]
Reps == [fn : {"rep"}, subject : {<<>>, <<"a">>, <<"a", "b">>}, pattern : {<<>>, <<"c">>, <<"c", "c">>},
         init : -1 .. 8, last : {0}, plain : {FALSE}, max : {9}, rep : {NoReplacement}]
Splits == [fn : {"split"}, subject : UNION {[1 .. n -> {"a", "b"}] : n \in 0 .. 5},
           pattern : {<<>>, <<"a">>, <<"a", "a">>, <<"a", "b", "a">>},
           init : {0}, last : {0}, plain : {FALSE}, max : {9}, rep : {NoReplacement}]

SomeCalls == Matches \cup Iterations \cup Finds \cup Inits \cup Substitutions \cup Limited
             \cup Cuts \cup Reps \cup Splits

-----------------------------------------------------------------------------
NoTable  == SortInit /\ tab = Empty
NoString == /\ call = Base /\ src = <<>> /\ pat = <<>> /\ pos = 0 /\ phase = "none"
            /\ given = <<>> /\ built = <<>> /\ count = 0 /\ failure = NoError
            /\ MatchInit

Init == (SortInit /\ NoString) \/ (NoTable /\ StringInit)
Next == \/ phase = "none" /\ LibraryNext /\ UNCHANGED stringVars
        \/ phase # "none" /\ StringNext /\ UNCHANGED sortVars
Spec == Init /\ [][Next]_<<sortVars, stringVars>>
        /\ WF_sortVars(SortStep) /\ WF_stringVars(StringNext)

-----------------------------------------------------------------------------
(* Property *)

\* Every call returns: a sort with any comparator that returns, and a search
\* with any pattern.
CallsEnd == SortEnds /\ CallEnds
=============================================================================
