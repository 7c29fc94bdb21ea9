------------------------------ MODULE Patterns ------------------------------
(* What string patterns mean, and what the functions of StringLibrary promise.  A pattern is a sequence of items; an item takes
   a state of the match (where it is and what it has captured) to the sequence
   of states it can go to, the preferred one first; a match is the first state
   that the whole pattern leads to.  There is no backtracking here and nothing
   is undone.  An error is a state too: it is what happens if nothing that is
   preferred to it leads to a match. *)
EXTENDS StringLibrary, SequencesExt

OpenEnd  == -1   \* the length of a capture that is not closed
Position == -2   \* and of one that is only a position

NoItem == [kind |-> "none", set |-> {}, suffix |-> "one", pair |-> <<>>, why |-> ""]
Item(kind)   == [NoItem EXCEPT !.kind = kind]
Broken(why)  == [NoItem EXCEPT !.kind = "broken", !.why = why]
OneOf(set)   == [NoItem EXCEPT !.kind = "one", !.set = set]

Everything == ToSet(Alphabet)
ClassOf(cl) == IF Lower(cl) \in ClassNames
               THEN IF cl = Lower(cl) THEN Members(cl) ELSE Everything \ Members(Lower(cl))
               ELSE {cl}

\* The characters between two: a range of a set.
Between(lo, hi) == {c \in Everything : Code(lo) <= Code(c) /\ Code(c) <= Code(hi)}

RECURSIVE InBrackets(_)
InBrackets(text) ==
    IF text = <<>> THEN {}
    ELSE IF text[1] = Esc
         THEN IF Len(text) = 1 THEN {}
              ELSE ClassOf(text[2]) \cup InBrackets(SubSeq(text, 3, Len(text)))
    ELSE IF Len(text) >= 3 /\ text[2] = "-"
         THEN Between(text[1], text[3]) \cup InBrackets(SubSeq(text, 4, Len(text)))
    ELSE {text[1]} \cup InBrackets(Tail(text))

\* How much of a set's text lies before its closing bracket, which is neither
\* escaped nor the first character.
RECURSIVE Unescaped(_, _)
Unescaped(text, k) ==
    IF k > Len(text) THEN {}
    ELSE IF text[k] = Esc THEN Unescaped(text, k + 2)
    ELSE (IF text[k] = "]" /\ k > 1 THEN {k} ELSE {}) \cup Unescaped(text, k + 1)

\* The item a set is, and the text behind it.
SetAndRest(text) ==
    LET negated == text # <<>> /\ text[1] = "^"
        body    == IF negated THEN Tail(text) ELSE text
        ends    == Unescaped(body, 1)
    IN IF ends = {} THEN [item |-> Broken("missing ]"), rest |-> <<>>]
       ELSE LET last == CHOOSE k \in ends : \A j \in ends : k <= j
                set  == InBrackets(SubSeq(body, 1, last - 1))
            IN [item |-> OneOf(IF negated THEN Everything \ set ELSE set),
                rest |-> SubSeq(body, last + 1, Len(body))]

RECURSIVE Items(_)
\* The suffix that follows a one-character item, then the other items.
Suffixed(item, rest) ==
    IF item.kind = "broken" THEN <<item>>
    ELSE IF rest # <<>> /\ rest[1] \in {"*", "+", "?", "-"}
         THEN <<[item EXCEPT !.suffix = rest[1]]>> \o Items(Tail(rest))
         ELSE <<item>> \o Items(rest)

Escaped(text) ==     \* what follows an escape
    IF text = <<>> THEN <<Broken("ends with %")>>
    ELSE LET rest == Tail(text) IN
    CASE text[1] = "b" ->
           IF Len(rest) < 2 THEN <<Broken("missing arguments to %b")>>
           ELSE <<[Item("balance") EXCEPT !.pair = SubSeq(rest, 1, 2)]>>
                \o Items(SubSeq(rest, 3, Len(rest)))
      [] text[1] = "f" ->
           IF rest = <<>> \/ rest[1] # "[" THEN <<Broken("missing [ after %f")>>
           ELSE LET read == SetAndRest(Tail(rest)) IN
                IF read.item.kind = "broken" THEN <<read.item>>
                ELSE <<[read.item EXCEPT !.kind = "frontier"]>> \o Items(read.rest)
      [] text[1] \in Digits -> <<[Item("copy") EXCEPT !.pair = <<text[1]>>]>> \o Items(rest)
      [] OTHER -> Suffixed(OneOf(ClassOf(text[1])), rest)

Items(text) ==
    IF text = <<>> THEN <<>>
    ELSE LET rest == Tail(text) IN
    CASE text[1] = "(" -> IF rest # <<>> /\ rest[1] = ")"
                          THEN <<Item("position")>> \o Items(Tail(rest))
                          ELSE <<Item("open")>> \o Items(rest)
      [] text[1] = ")"    -> <<Item("close")>> \o Items(rest)
      [] text = <<"$">>   -> <<Item("end")>>
      [] text[1] = Esc    -> Escaped(rest)
      [] text[1] = "["    -> LET read == SetAndRest(rest) IN Suffixed(read.item, read.rest)
      [] text[1] = "."    -> Suffixed(OneOf(Everything), rest)
      [] OTHER            -> Suffixed(OneOf({text[1]}), rest)

-----------------------------------------------------------------------------
State(s, caps) == [at |-> s, caps |-> caps, error |-> "none"]
Error(why)     == <<[at |-> 0, caps |-> <<>>, error |-> why]>>

\* How many characters of text from place s on are in set, one after the other.
Run(text, s, set) ==
    CHOOSE n \in 0 .. Len(text) - s :
      /\ \A k \in 1 .. n : text[s + k] \in set
      /\ n < Len(text) - s => text[s + n + 1] \notin set

\* The repetitions a suffix allows, the preferred one first.
Counts(suffix, run) ==
    CASE suffix = "*" -> [k \in 1 .. run + 1 |-> run + 1 - k]
      [] suffix = "+" -> [k \in 1 .. run |-> run + 1 - k]
      [] suffix = "-" -> [k \in 1 .. run + 1 |-> k - 1]
      [] suffix = "?" -> IF run = 0 THEN <<0>> ELSE <<1, 0>>
      [] OTHER        -> IF run = 0 THEN <<>> ELSE <<1>>

\* The first place where as many `to' as `from' have been read.
Balanced(text, s, from, to) ==
    LET Seen(c, k) == Cardinality({j \in s + 2 .. k : text[j] = c})
        ends == {k \in s + 2 .. Len(text) :
                   text[k] = to /\ Seen(to, k) = (IF from = to THEN 1 ELSE 1 + Seen(from, k))}
    IN IF s < Len(text) /\ text[s + 1] = from /\ ends # {}
       THEN <<CHOOSE k \in ends : \A j \in ends : k <= j>> ELSE <<>>

Character(text, k) == IF k \in DOMAIN text THEN text[k] ELSE NUL

\* The states that one item leads to from st.
Leads(item, st, text, room) ==
    LET s    == st.at
        caps == st.caps
        open == {l \in DOMAIN caps : caps[l].len = OpenEnd}
        Begin(len) == IF Len(caps) = room THEN Error("too many captures")
                      ELSE <<State(s, Append(caps, [init |-> s, len |-> len]))>>
        Copy(l) ==
          IF l \notin DOMAIN caps \/ l \in open THEN Error("invalid capture index")
          ELSE IF caps[l].len = Position THEN <<st>>
          ELSE LET n == caps[l].len
                   from == caps[l].init
               IN IF s + n <= Len(text) /\ SubSeq(text, from + 1, from + n) = SubSeq(text, s + 1, s + n)
                  THEN <<State(s + n, caps)>> ELSE <<>>
    IN CASE item.kind = "broken"   -> Error(item.why)
         [] item.kind = "open"     -> Begin(OpenEnd)
         [] item.kind = "position" -> Begin(Position)
         [] item.kind = "close" ->
              IF open = {} THEN Error("invalid pattern capture")
              ELSE LET l == CHOOSE l \in open : \A k \in open : k <= l
                   IN <<State(s, [caps EXCEPT ![l].len = s - caps[l].init])>>
         [] item.kind = "end" -> IF s = Len(text) THEN <<st>> ELSE <<>>
         [] item.kind = "balance" ->
              LET ends == Balanced(text, s, item.pair[1], item.pair[2])
              IN [k \in DOMAIN ends |-> State(ends[k], caps)]
         [] item.kind = "frontier" ->
              IF Character(text, s) \notin item.set /\ Character(text, s + 1) \in item.set
              THEN <<st>> ELSE <<>>
         [] item.kind = "copy" -> Copy(Code(item.pair[1]) - Code("0"))
         [] OTHER ->
              LET counts == Counts(item.suffix, Run(text, s, item.set))
              IN [k \in DOMAIN counts |-> State(s + counts[k], caps)]

\* The states that items lead to from place s, the preferred one first.
AllMatches(items, text, s, room) ==
    FoldLeft(LAMBDA states, item :
               FlattenSeq([k \in DOMAIN states |->
                 IF states[k].error # "none" THEN <<states[k]>>
                                             ELSE Leads(item, states[k], text, room)]),
             <<State(s, <<>>)>>, items)

-----------------------------------------------------------------------------
(* What the functions promise: a match is looked for at one place after the
   other, and at each place there is one or there is none. *)
ItemsOf(c) == Items(IF Anchored(c) THEN Tail(c.pattern) ELSE c.pattern)
MatchesAt(c, items, s) == AllMatches(items, c.subject, s, MaxCaptures)

\* The first place from s on where something happens: a match or an error.
FirstFrom(c, items, s) ==
    LET places == {k \in s .. Len(c.subject) : MatchesAt(c, items, k) # <<>>}
    IN IF places = {} THEN Len(c.subject) + 1 ELSE CHOOSE k \in places : \A j \in places : k <= j

Part(c, from, to) == Text(SubSeq(c.subject, from + 1, to))
Held(c, cap) == IF cap.len = Position THEN Number(cap.init + 1)
                ELSE Part(c, cap.init, cap.init + cap.len)
Whole(c, s, st) == Part(c, s, st.at)
\* The captures, of which a match without any has one: itself.
Taken(c, s, st) == IF st.caps = <<>> THEN <<Whole(c, s, st)>>
                   ELSE [l \in DOMAIN st.caps |-> Held(c, st.caps[l])]
NotClosed(caps) == \E l \in DOMAIN caps : caps[l].len = OpenEnd

Outcome(lists, text, n, why) ==
    [given |-> lists, built |-> text, count |-> n, failure |-> why]
Given(lists) == Outcome(lists, <<>>, 0, NoError)
Fails(lists, why) == Outcome(lists, <<>>, 0, why)

-----------------------------------------------------------------------------
\* string.find takes a text whose only special character is a closing
\* parenthesis as it stands; to match it is an error.
OnlyCloses(p) == ")" \in ToSet(p) /\ NoSpecials(p)

Find(c) ==
    LET items  == ItemsOf(c)
        length == Len(c.subject)
        init   == IF c.init < 0 THEN length + 1 + c.init ELSE c.init
        from   == IF init < 1 THEN 0 ELSE init - 1
        plain  == c.fn = "find" /\ (c.plain \/ OnlyCloses(c.pattern))
        literal == {k \in from .. length - Len(c.pattern) :
                      SubSeq(c.subject, k + 1, k + Len(c.pattern)) = c.pattern}
        at == IF Anchored(c) THEN from ELSE FirstFrom(c, items, from)
        st == MatchesAt(c, items, at)[1]
    IN IF plain
       THEN IF literal = {} THEN Given(<<>>)
            ELSE LET k == CHOOSE k \in literal : \A j \in literal : k <= j
                 IN Given(<< <<Number(k + 1), Number(k + Len(c.pattern))>> >>)
       ELSE IF at > length THEN Given(<<>>)
       ELSE IF MatchesAt(c, items, at) = <<>> THEN Given(<<>>)
       ELSE IF st.error # NoError THEN Fails(<<>>, st.error)
       ELSE IF NotClosed(st.caps) THEN Fails(<<>>, "unfinished capture")
       ELSE IF c.fn = "match" THEN Given(<<Taken(c, at, st)>>)
       ELSE Given(<< <<Number(at + 1), Number(st.at)>>
                     \o (IF st.caps = <<>> THEN <<>> ELSE Taken(c, at, st)) >>)

\* gmatch: match after match, none beginning inside the one before.
RECURSIVE Iterated(_, _, _, _)
Iterated(c, items, s, lists) ==
    LET at == FirstFrom(c, items, s)
        st == MatchesAt(c, items, at)[1]
    IN IF at > Len(c.subject) THEN Given(lists)
       ELSE IF st.error # NoError THEN Fails(lists, st.error)
       ELSE IF NotClosed(st.caps) THEN Fails(lists, "unfinished capture")
       ELSE Iterated(c, items, IF st.at = at THEN at + 1 ELSE st.at,
                     Append(lists, Taken(c, at, st)))

-----------------------------------------------------------------------------
\* The replacement text with its escapes filled in.
RECURSIVE Filled(_, _, _, _)
Filled(c, news, s, st) ==
    IF news = <<>> THEN [text |-> <<>>, why |-> NoError]
    ELSE LET two  == news[1] = Esc
             d    == IF Len(news) > 1 THEN news[2] ELSE NUL
             l    == IF d \in Digits THEN DigitOf(d) ELSE 0
             rest == Filled(c, SubSeq(news, IF two THEN 3 ELSE 2, Len(news)), s, st)
             Put(text) == IF rest.why # NoError THEN rest
                          ELSE [text |-> text \o rest.text, why |-> NoError]
             Not(why)  == [text |-> <<>>, why |-> why]
         IN CASE ~two -> Put(<<news[1]>>)
              [] two /\ d = Esc -> Put(<<Esc>>)
              [] two /\ d \notin Digits \cup {Esc} -> Not("invalid use of %")
              [] two /\ d \in Digits /\ (l = 0 \/ (l = 1 /\ st.caps = <<>>)) ->
                   Put(Whole(c, s, st).text)
              [] two /\ d \in Digits /\ l > Len(st.caps) /\ ~(l = 1 /\ st.caps = <<>>) ->
                   Not("invalid capture index")
              [] OTHER -> IF st.caps[l].len = OpenEnd THEN Not("unfinished capture")
                          ELSE IF st.caps[l].len = Position
                          THEN Put(Digit(st.caps[l].init + 1))
                          ELSE Put(Held(c, st.caps[l]).text)

\* What a match is replaced by, and what a function or a table was asked.
ReplacedBy(c, s, st) ==
    CASE c.rep.kind = "text"   -> Filled(c, c.rep.text, s, st)
      [] c.rep.answer = "none" -> [text |-> Whole(c, s, st).text, why |-> NoError]
      [] c.rep.answer = "text" -> [text |-> c.rep.text, why |-> NoError]
      [] OTHER                 -> [text |-> <<>>, why |-> "invalid replacement value"]
Questions(c, s, st) ==
    CASE c.rep.kind = "text"     -> <<>>
      [] c.rep.kind = "table"    -> << <<Taken(c, s, st)[1]>> >>
      [] c.rep.kind = "function" -> <<Taken(c, s, st)>>
\* A table is only asked for the first capture.
CannotAsk(c, st) ==
    /\ c.rep.kind # "text"
    /\ NotClosed(IF c.rep.kind = "table" /\ st.caps # <<>> THEN <<st.caps[1]>> ELSE st.caps)

\* gsub: text is the result up to s.
RECURSIVE Substituted(_, _, _, _)
Substituted(c, items, s, sofar) ==
    LET length == Len(c.subject)
        sts    == MatchesAt(c, items, s)
        st     == sts[1]
        hit    == sts # <<>>
        answer == ReplacedBy(c, s, st)
        asked  == sofar.given \o Questions(c, s, st)
        next   == IF hit /\ st.at > s THEN st.at ELSE s + 1
        text   == sofar.built \o (IF hit THEN answer.text ELSE <<>>)
                  \o (IF s = length \/ (hit /\ st.at > s) THEN <<>> ELSE <<c.subject[s + 1]>>)
        after  == Outcome(IF hit THEN asked ELSE sofar.given, text,
                          sofar.count + (IF hit THEN 1 ELSE 0), NoError)
    IN IF sofar.count >= c.max \/ s > length
       THEN [sofar EXCEPT !.built = sofar.built \o SubSeq(c.subject, s + 1, length)]
       ELSE IF hit /\ st.error # NoError THEN Fails(sofar.given, st.error)
       ELSE IF hit /\ CannotAsk(c, st) THEN Fails(sofar.given, "unfinished capture")
       ELSE IF hit /\ answer.why # NoError THEN Fails(asked, answer.why)
       ELSE IF Anchored(c) \/ next > length
       THEN [after EXCEPT !.built = text \o SubSeq(c.subject, next + 1, length)]
       ELSE Substituted(c, items, next, after)

-----------------------------------------------------------------------------
(* Functions without a search. *)

\* The characters whose places lie between two places, negative ones counted
\* from the end.
Places2(c) == LET length == Len(c.subject)
                  Place(n) == IF n >= 0 THEN n ELSE length + 1 + n
              IN {k \in 1 .. length : Place(c.init) <= k /\ k <= Place(c.last)}
Chosen(c)  == LET places == Places2(c) IN
              IF places = {} THEN <<>> ELSE SubSeq(c.subject, Min(places), Max(places))
Joined(pieces, sep) ==
    FoldLeft(LAMBDA text, piece : IF text.first THEN [first |-> FALSE, text |-> piece]
                                  ELSE [first |-> FALSE, text |-> text.text \o sep \o piece],
             [first |-> TRUE, text |-> <<>>], pieces).text
RepOf(c) == LET text == Joined([k \in 1 .. (IF c.init < 0 THEN 0 ELSE c.init) |-> c.subject],
                               c.pattern)
            IN IF Len(text) > MaxStrSize THEN Fails(<< <<>> >>, "too large")
               ELSE Given(<< <<Text(text)>> >>)
\* A separator is found where it ends no earlier than any other could.
IsSplit(c, pieces) ==
    /\ Joined(pieces, c.pattern) = c.subject \/ c.pattern = <<>>
    /\ c.pattern = <<>> => pieces = [k \in DOMAIN c.subject |-> <<c.subject[k]>>]
    /\ \A j \in DOMAIN pieces, k \in 1 .. Len(c.subject) :
         c.pattern # <<>> /\ k + Len(c.pattern) - 1 <= Len(pieces[j]) =>
           SubSeq(pieces[j], k, k + Len(c.pattern) - 1) # c.pattern

Expected(c) ==
    CASE c.fn \in {"find", "match"} -> Find(c)
      [] c.fn = "gmatch" -> Iterated(c, ItemsOf(c), 0, <<>>)
      [] c.fn = "gsub"   -> Substituted(c, ItemsOf(c), 0, Given(<<>>))
      [] c.fn = "sub"    -> Given(<< <<Text(Chosen(c))>> >>)
      [] c.fn = "byte"   -> Given(<<Bytes(Chosen(c))>>)
      [] c.fn = "rep"    -> RepOf(c)

Made == Outcome(given, IF failure = NoError THEN built ELSE <<>>,
                IF failure = NoError THEN count ELSE 0, failure)

-----------------------------------------------------------------------------
(* Properties *)

\* A call hands out what the pattern means, in this order, and replaces each
\* character once: although the matcher tries alternatives one by one on one
\* array of captures, although find has a search of its own for patterns
\* without special characters (string.go:768), and whatever the place, the
\* limit and the replacement are.  A pattern is too complex only if it is as
\* long as the recursion may be deep.  (A replacement that names a capture
\* that is still open is the exception: gsubAddString slices with its length,
\* which panics, where upstream reports an unfinished capture.)
AnswersAsDefined ==
    phase = "over" =>
      CASE failure = "too complex" -> Len(ItemsOf(call)) >= MaxRecDepth - 1
        [] failure = "slice out of range" ->
             Expected(call).failure = "unfinished capture"
        [] failure \notin {"too complex", "slice out of range"} /\ call.fn = "split" ->
             IsSplit(call, [k \in DOMAIN given[1] |-> given[1][k].text])
        [] OTHER -> Made = Expected(call)

\* Every call ends, on an empty match too: gmatch and gsub move on by a
\* character when a match does not (string.go:842 and 915).
CallEnds == phase = "search" ~> phase = "over"
=============================================================================
