---------------------------- MODULE StringLibrary ----------------------------
(* The functions of pkg/vm/lib/string.go that search with a pattern: find,
   match, gmatch and gsub, each around PatternMatch, and those that cut and
   join: sub, byte, rep, split.  A behaviour is one call, of gmatch together
   with the calls of its iterator. *)
EXTENDS PatternMatch

CONSTANTS Calls,      \* the calls a program may make
          MaxStrSize  \* maxStrSize of string.rep

VARIABLES call,     \* the arguments
          pos,      \* s1, pos or srcPos: where the next match is tried
          phase,    \* "search" between two matches, "matching", "over"
          given,    \* the lists of values handed out so far: results, or
                    \* arguments of gsub's function
          built,    \* gsub: the result so far
          count,    \* gsub: how many matches were replaced
          failure   \* the error the call ended with

stringVars == <<matchVars, call, pos, phase, given, built, count, failure>>

\* One value handed to Lua: a string, or a number.
Text(t)   == [text |-> t, number |-> 0]
Number(n) == [text |-> <<>>, number |-> n]
Digit(n)  == <<Alphabet[Code("0") + n]>>

\* src[from:to].
Slice(from, to) == SubSeq(src, from + 1, to)

\* posRelat.
PosRelat(n, length) ==
    LET p == IF n < 0 THEN n + length + 1 ELSE n IN IF p < 0 THEN 0 ELSE p

Finish(why) == phase' = "over" /\ failure' = why
SameCall    == UNCHANGED <<call, src, pat>>

ASSUME StringAssumption ==
    /\ MaxCaptures \in Nat
    /\ MaxRecDepth \in Nat \ {0, 1}
    /\ \A c \in Calls : /\ c.subject \in Seq(STRING) /\ c.pattern \in Seq(STRING)
                       /\ c.init \in Int

-----------------------------------------------------------------------------
(* Functions without a search. *)

At1(n) == IF n < 1 THEN 1 ELSE n

\* strSub and strByte: the characters from call.init to call.last.
Cut(init, last) ==
    LET to == PosRelat(last, SrcEnd)
    IN SubSeq(src, At1(PosRelat(init, SrcEnd)), IF to > SrcEnd THEN SrcEnd ELSE to)
Bytes(t) == [k \in DOMAIN t |-> Number(Code(t[k]))]

\* strRep: too much is refused before anything is multiplied.
RepRefused(n, sep) ==
    \/ SrcEnd > MaxStrSize \div n
    \/ /\ sep # <<>>
       /\ \/ n > 1 /\ (IF n > 1 THEN Len(sep) > MaxStrSize \div (n - 1) ELSE FALSE)
          \/ SrcEnd * n + Len(sep) * (n - 1) > MaxStrSize
Repeated(n, sep) ==
    LET rep[k \in 1 .. n] == IF k = 1 THEN src ELSE rep[k - 1] \o sep \o src IN rep[n]

\* strSplit: i goes through the subject, start is behind the last separator.
Pieces(needle) ==
    LET n == Len(needle)
        cut[i \in 0 .. SrcEnd + 1, start \in 0 .. SrcEnd] ==
          IF i > SrcEnd - n THEN <<Text(Slice(start, SrcEnd))>>
          ELSE IF Slice(i, i + n) = needle
               THEN <<Text(Slice(start, i))>> \o cut[i + n, i + n]
          ELSE cut[i + 1, start]
    IN IF n = 0 THEN [k \in 1 .. SrcEnd |-> Text(<<src[k]>>)] ELSE cut[0, 0]

Simple ==
    /\ phase = "search"
    /\ call.fn \in {"sub", "byte", "rep", "split"}
    /\ LET refused == call.fn = "rep" /\ call.init > 0
                      /\ (IF call.init > 0 THEN RepRefused(call.init, call.pattern) ELSE FALSE)
       IN /\ Finish(IF refused THEN "too large" ELSE NoError)
          /\ given' = <<CASE call.fn = "sub"   -> <<Text(Cut(call.init, call.last))>>
                          [] call.fn = "byte"  -> Bytes(Cut(call.init, call.last))
                          [] call.fn = "split" -> Pieces(call.pattern)
                          [] OTHER -> IF refused THEN <<>>
                                      ELSE IF call.init <= 0 THEN <<Text(<<>>)>>
                                      ELSE <<Text(Repeated(call.init, call.pattern))>> >>
    /\ UNCHANGED <<msVars, pos, built, count>>
    /\ SameCall

-----------------------------------------------------------------------------
(* What a match hands out. *)

Specials == {"^", "$", "*", "+", "?", ".", "(", "[", "%", "-"}
\* Mutant: a set is not thought special.
NoSpecialsButSets(p) == \A k \in DOMAIN p : p[k] \notin Specials \ {"["}
NoSpecials(p) == \A k \in DOMAIN p : p[k] \notin Specials

\* gmatch takes a leading ^ as any other character.
Anchored(c) == c.fn # "gmatch" /\ c.pattern # <<>> /\ c.pattern[1] = "^"

\* pushCaptures and pushOneCapture: the first n captures, or the whole match if
\* there is none.
Unfinished(n) == \E i \in 0 .. n - 1 : i < level /\ captures[i].len = CapUnfinished
Capture(i, from, to) ==
    IF i >= level THEN Text(Slice(from, to))
    ELSE IF captures[i].len = CapPosition THEN Number(captures[i].init + 1)
    ELSE Text(Slice(captures[i].init, captures[i].init + captures[i].len))
Captures(n, from, to) == [k \in 1 .. n |-> Capture(k - 1, from, to)]
Levels == IF level = 0 THEN 1 ELSE level

\* A match is over: err was looked at.
MatchOver == phase = "matching" /\ calls = <<>> /\ result # Running
SameMatch == UNCHANGED msVars

Searching(fns) == phase = "search" /\ call.fn \in fns

-----------------------------------------------------------------------------
(* findOrMatchAux *)

\* A search without a pattern, or beyond the end.
Places(t) == {k \in pos .. SrcEnd - Len(t) : Slice(k, k + Len(t)) = t}
FindPlain ==
    /\ Searching({"find"})
    /\ pos <= SrcEnd
    /\ call.plain \/ NoSpecials(call.pattern)
    /\ LET places == Places(call.pattern)
           first  == CHOOSE k \in places : \A j \in places : k <= j
       IN given' = IF places = {} THEN <<>>
                   ELSE << <<Number(first + 1), Number(first + Len(call.pattern))>> >>
    /\ Finish(NoError)
    /\ SameMatch /\ SameCall /\ UNCHANGED <<pos, built, count>>

FindTry ==
    /\ Searching({"find", "match"})
    /\ pos <= SrcEnd
    /\ ~(call.fn = "find" /\ (call.plain \/ NoSpecials(call.pattern)))
    /\ phase' = "matching"
    /\ Restart(pos)
    /\ UNCHANGED <<call, pos, given, built, count, failure>>

FindFails ==
    /\ Searching({"find", "match"})
    /\ pos > SrcEnd
    /\ Finish(NoError)
    /\ SameMatch /\ SameCall /\ UNCHANGED <<pos, given, built, count>>

FindMatched ==
    /\ MatchOver
    /\ call.fn \in {"find", "match"}
    /\ \/ err # NoError /\ Finish(err) /\ UNCHANGED <<given, pos>>
       \/ /\ err = NoError /\ Matched
          /\ LET n == IF call.fn = "find" THEN level ELSE Levels IN
              /\ UNCHANGED pos
              /\ IF Unfinished(n) THEN Finish("unfinished capture") /\ UNCHANGED given
                 ELSE /\ Finish(NoError)
                      /\ given' = <<(IF call.fn = "find" THEN <<Number(pos + 1), Number(result)>>
                                     ELSE <<>>) \o Captures(n, pos, result)>>
       \/ /\ err = NoError /\ ~Matched
          /\ pos' = pos + 1
          /\ phase' = IF Anchored(call) THEN "over" ELSE "search"
          /\ UNCHANGED <<given, failure>>
    /\ SameMatch /\ SameCall /\ UNCHANGED <<built, count>>

-----------------------------------------------------------------------------
(* gmatch: pos belongs to the iterator and survives its calls. *)

GmatchTry ==
    /\ Searching({"gmatch"})
    /\ IF pos <= SrcEnd THEN phase' = "matching" /\ Restart(pos) /\ UNCHANGED failure
                        ELSE Finish(NoError) /\ SameMatch /\ UNCHANGED <<src, pat>>
    /\ UNCHANGED <<call, pos, given, built, count>>

\* Behind a match, and one further behind an empty one.
GmatchNext == IF result = pos THEN result + 1 ELSE result

GmatchMatched ==
    /\ MatchOver
    /\ call.fn = "gmatch"
    /\ \/ err # NoError /\ Finish(err) /\ UNCHANGED <<given, pos>>
       \/ /\ err = NoError /\ Matched
          /\ pos' = GmatchNext
          /\ IF Unfinished(Levels) THEN Finish("unfinished capture") /\ UNCHANGED given
             ELSE /\ given' = Append(given, Captures(Levels, pos, result))
                  /\ phase' = "search"
                  /\ UNCHANGED failure
       \/ /\ err = NoError /\ ~Matched
          /\ pos' = pos + 1 /\ phase' = "search" /\ UNCHANGED <<given, failure>>
    /\ SameMatch /\ SameCall /\ UNCHANGED <<built, count>>

-----------------------------------------------------------------------------
(* gsub *)

GsubTry ==
    /\ Searching({"gsub"})
    /\ IF count < call.max
       THEN phase' = "matching" /\ Restart(pos) /\ UNCHANGED <<built, failure>>
       ELSE /\ Finish(NoError)
            /\ built' = built \o Slice(pos, SrcEnd)
            /\ SameMatch /\ UNCHANGED <<src, pat>>
    /\ UNCHANGED <<call, pos, given, count>>

\* gsubAddString: what one match adds, or why it cannot.  A capture that is not
\* closed has length -1, and so has the slice.
Added(text, why) == [text |-> text, why |-> why]
FromCapture(idx) ==
    IF idx >= level
    THEN IF idx = 0 THEN Added(Slice(pos, result), NoError)
                    ELSE Added(<<>>, "invalid capture index")
    ELSE CASE captures[idx].len = CapPosition   -> Added(Digit(captures[idx].init + 1), NoError)
           [] captures[idx].len = CapUnfinished -> Added(<<>>, "slice out of range")
           [] OTHER -> Added(Capture(idx, 0, 0).text, NoError)
Replacement(news) ==
    LET n == Len(news)
        add[i \in 1 .. n + 2] ==
          IF i > n THEN Added(<<>>, NoError)
          ELSE LET escaped == news[i] = Esc
                   c    == IF escaped /\ i < n THEN news[i + 1] ELSE news[i]
                   this == CASE ~escaped          -> Added(<<c>>, NoError)
                             [] escaped /\ (i = n \/ c \notin Digits \cup {Esc})
                                                  -> Added(<<>>, "invalid use of %")
                             [] escaped /\ i < n /\ c = Esc -> Added(<<Esc>>, NoError)
                             [] escaped /\ i < n /\ c = "0" -> Added(Slice(pos, result), NoError)
                             [] OTHER             -> FromCapture(DigitOf(c) - 1)
                   rest == add[IF escaped THEN i + 2 ELSE i + 1]
               IN IF this.why # NoError THEN this
                  ELSE Added(this.text \o rest.text, rest.why)
    IN add[1]

\* gsubAddValue and gsubAddResult: a function gets all captures, a table is
\* looked up with the first.  False and nil leave the match as it is.
Arguments == IF call.rep.kind = "table" THEN 1 ELSE Levels
Answer ==
    CASE call.rep.kind = "text"    -> Replacement(call.rep.text)
      [] Unfinished(Arguments)     -> Added(<<>>, "unfinished capture")
      [] call.rep.answer = "none"  -> Added(Slice(pos, result), NoError)
      [] call.rep.answer = "text"  -> Added(call.rep.text, NoError)
      [] OTHER                     -> Added(<<>>, "invalid replacement value")
Asked == IF call.rep.kind = "text" \/ Unfinished(Arguments) THEN given
         ELSE Append(given, Captures(Arguments, pos, result))

\* The source position moves: behind the match, or by one character that is
\* copied, or not at all at the end of the subject.
GsubAdvance(text) ==
    LET beyond == Matched /\ result > pos
        to     == IF beyond THEN result ELSE IF pos < SrcEnd THEN pos + 1 ELSE pos
        ends   == Anchored(call) \/ (~beyond /\ pos = SrcEnd)
        sofar  == built \o text \o (IF beyond THEN <<>> ELSE Slice(pos, to))
    IN /\ pos' = to
       /\ built' = IF ends THEN sofar \o Slice(to, SrcEnd) ELSE sofar
       /\ phase' = IF ends THEN "over" ELSE "search"
       /\ UNCHANGED failure

GsubMatched ==
    /\ MatchOver
    /\ call.fn = "gsub"
    /\ \/ err # NoError /\ Finish(err) /\ UNCHANGED <<given, pos, built, count>>
       \/ /\ err = NoError /\ Matched
          /\ given' = Asked
          /\ count' = count + 1
          /\ IF Answer.why # NoError THEN Finish(Answer.why) /\ UNCHANGED <<pos, built>>
             ELSE GsubAdvance(Answer.text)
       \/ /\ err = NoError /\ ~Matched
          /\ UNCHANGED <<given, count>> /\ GsubAdvance(<<>>)
    /\ SameMatch /\ SameCall

-----------------------------------------------------------------------------
StringInit ==
    /\ call \in Calls
    /\ src = call.subject
    /\ pat = IF Anchored(call) THEN Tail(call.pattern) ELSE call.pattern
    /\ pos = IF call.fn \in {"find", "match"}
             THEN At1(PosRelat(call.init, Len(call.subject))) - 1 ELSE 0
    /\ phase = "search"
    /\ given = <<>> /\ built = <<>> /\ count = 0 /\ failure = NoError
    /\ MatchInit

Matching == phase = "matching" /\ MatchStep
            /\ UNCHANGED <<call, pos, phase, given, built, count, failure>>

StringNext ==
    \/ Simple
    \/ FindPlain \/ FindTry \/ FindFails \/ FindMatched
    \/ GmatchTry \/ GmatchMatched
    \/ GsubTry \/ GsubMatched
    \/ Matching

StringSpec == StringInit /\ [][StringNext]_stringVars /\ WF_stringVars(StringNext)
=============================================================================
