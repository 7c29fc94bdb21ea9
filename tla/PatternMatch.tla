---------------------------- MODULE PatternMatch ----------------------------
(* The pattern matcher of pkg/vm/lib/string.go: doMatch and the functions it
   and they call.  The captures are one array that all alternatives of the
   search write; what an alternative wrote is taken back when it fails.

   A frame of `calls' is one activation of doMatch.  Its field `waits' says
   which helper it is in, waiting for a deeper doMatch: "start" startCapture,
   "end" endCapture, "max" and "min" the two expansions, "opt" the first
   alternative of a `?'; "no" says that it is at the head of its own loop,
   and "scan" that it is in the loop of matchBalance.
   Positions of the subject and of the pattern count from 0, as in the code. *)
EXTENDS Integers, Sequences, FiniteSets

CONSTANTS MaxCaptures,  \* luaMaxCaptures
          MaxRecDepth   \* maxRecDepth

VARIABLES src,       \* the subject
          pat,       \* the pattern, without its anchor
          level,     \* how many captures there are
          captures,  \* their beginnings and lengths
          depth,     \* matchDepth: how much deeper the recursion may get
          err,       \* the first error that was raised
          calls,     \* the activations of doMatch
          result     \* what the last activation to end returned

msVars    == <<level, captures, depth, err, calls, result>>
matchVars == <<src, pat, msVars>>

Running == -2
Failed  == -1

CapUnfinished == -1
CapPosition   == -2

NoError == "none"

SrcEnd == Len(src)
PEnd   == Len(pat)
Src(s) == src[s + 1]
Pat(p) == pat[p + 1]
Follows(p, c) == p < PEnd /\ Pat(p) = c

\* ms.raise: the first error stays.
Raise(why) == err' = IF err = NoError THEN why ELSE err

-----------------------------------------------------------------------------
(* Characters, in the order of their codes, and the classes of matchClass: the
   letters, the digits and the zero byte, with the complements of the first
   two.  The other classes are further rows of the same switch. *)
NUL == "\\0"
Esc == "%"

Alphabet == <<NUL, "$", "%", "(", ")", "*", "+", "-", ".", "0", "1", "2", "3",
              "4", "5", "?", "A", "D", "[", "]", "^", "a", "b", "c", "d", "f", "z">>

Code(c) == CHOOSE k \in DOMAIN Alphabet : Alphabet[k] = c

Letters == {"A", "D", "a", "b", "c", "d", "f", "z"}
Digits  == {"0", "1", "2", "3", "4", "5"}

DigitOf(c) == Code(c) - Code("0")

\* asciiToLower.
Lower(c) == CASE c = "A" -> "a" [] c = "D" -> "d" [] OTHER -> c

ClassNames == {"a", "d", "z"}
Members(name) == CASE name = "a" -> Letters
                   [] name = "d" -> Digits
                   [] name = "z" -> {NUL}

\* matchClass: c belongs to the class cl names, or is the byte cl.
InClass(c, cl) ==
    IF Lower(cl) \in ClassNames THEN (c \in Members(Lower(cl))) = (cl = Lower(cl))
                                ELSE c = cl

-----------------------------------------------------------------------------
(* Items of a pattern that match one character. *)

\* classend on a set: past the bracket that closes it, if one does.  The first
\* character of a set never closes it.
SetEnd(p) ==
    LET close[q \in 0 .. PEnd] ==
          LET n == q + IF Follows(q, Esc) /\ q + 1 < PEnd THEN 2 ELSE 1
          IN IF n >= PEnd THEN PEnd + 1 ELSE IF Pat(n) = "]" THEN n + 1 ELSE close[n]
    IN close[IF Follows(p + 1, "^") THEN p + 2 ELSE p + 1]

\* classend: where the item at p ends, and what is wrong with it.
ItemError(p) ==
    IF Pat(p) = Esc /\ p + 1 >= PEnd THEN "ends with %"
    ELSE IF Pat(p) = "[" /\ SetEnd(p) \notin 0 .. PEnd THEN "missing ]"
    ELSE NoError
ItemEnd(p) ==
    IF ItemError(p) # NoError THEN PEnd
    ELSE IF Pat(p) = Esc THEN p + 2
    ELSE IF Pat(p) = "[" THEN SetEnd(p)
    ELSE p + 1

\* matchBracketClass: ec is the place of the closing bracket.
InSet(c, p, ec) ==
    LET negated == Follows(p + 1, "^")
        has[q \in 0 .. ec + 2] ==
          IF q >= ec THEN FALSE
          ELSE IF Pat(q) = Esc
               THEN (q + 1 < ec /\ InClass(c, Pat(q + 1))) \/ has[q + 2]
          ELSE IF q + 2 < ec /\ Pat(q + 1) = "-"
               THEN Code(c) \in Code(Pat(q)) .. Code(Pat(q + 2)) \/ has[q + 3]
          ELSE Pat(q) = c \/ has[q + 1]
    IN has[IF negated THEN p + 2 ELSE p + 1] # negated

SingleMatch(s, p, ep) ==
    /\ s < SrcEnd
    /\ CASE Pat(p) = "." -> TRUE
         [] Pat(p) = Esc -> p + 1 < PEnd /\ InClass(Src(s), Pat(p + 1))
         [] Pat(p) = "[" -> InSet(Src(s), p, ep - 1)
         [] OTHER        -> Pat(p) = Src(s)

\* How often maxExpand can match the item in a row, from s.
Repetitions(s, p, ep) ==
    Cardinality({n \in 1 .. SrcEnd - s : \A k \in 0 .. n - 1 : SingleMatch(s + k, p, ep)})

-----------------------------------------------------------------------------
(* Calls and returns of doMatch. *)

Top  == calls[Len(calls)]
Below == SubSeq(calls, 1, Len(calls) - 1)

AtLoop(s, p) == [waits |-> "no", s |-> s, p |-> p, ep |-> 0, i |-> 0]
Waiting(why, s, p, ep, i) == [waits |-> why, s |-> s, p |-> p, ep |-> ep, i |-> i]

\* doMatch is called at (s, p) by a function whose activations are cs.
Enter(cs, s, p) ==
    IF err # NoError
    THEN calls' = cs /\ result' = Failed /\ UNCHANGED <<depth, err>>
    ELSE IF depth <= 1
    THEN calls' = cs /\ result' = Failed /\ Raise("too complex") /\ UNCHANGED depth
    ELSE /\ calls' = Append(cs, AtLoop(s, p))
         /\ depth' = depth - 1
         /\ result' = Running
         /\ UNCHANGED err

\* The last activation waits for a deeper one.
Deeper(why, ep, i, s, p) ==
    Enter(Append(Below, Waiting(why, Top.s, Top.p, ep, i)), s, p)

\* The last activation goes around its loop once more.
Again(s, p) == /\ calls' = Append(Below, AtLoop(s, p))
               /\ result' = Running
               /\ UNCHANGED depth

\* The last activation returns r; its deferred function gives the depth back.
Leave(r) == calls' = Below /\ depth' = depth + 1 /\ result' = r

Fail(why) == Leave(Failed) /\ Raise(why) /\ UNCHANGED <<level, captures>>

SameCaptures == UNCHANGED <<level, captures>>

-----------------------------------------------------------------------------
(* The cases of the loop. *)

Looping == result = Running /\ calls # <<>> /\ Top.waits = "no"
AtChar(c) == Looping /\ Follows(Top.p, c)
AtEscape(cs) == /\ AtChar(Esc)
                /\ Top.p + 1 < PEnd
                /\ Pat(Top.p + 1) \in cs

PatternEnds == Looping /\ Top.p >= PEnd /\ Leave(Top.s) /\ UNCHANGED err /\ SameCaptures

StartCapture ==
    /\ AtChar("(")
    /\ LET what == IF Follows(Top.p + 1, ")") THEN CapPosition ELSE CapUnfinished
           next == IF Follows(Top.p + 1, ")") THEN Top.p + 2 ELSE Top.p + 1
       IN IF level >= MaxCaptures THEN Fail("too many captures")
          ELSE /\ captures' = [captures EXCEPT ![level] = [init |-> Top.s, len |-> what]]
               /\ level' = level + 1
               /\ Deeper("start", 0, level, Top.s, next)

\* The captures that are open, and the last of them.
OpenCaptures == {l \in 0 .. level - 1 : captures[l].len = CapUnfinished}
LastOpen     == CHOOSE l \in OpenCaptures : \A k \in OpenCaptures : k <= l

EndCapture ==
    /\ AtChar(")")
    /\ IF OpenCaptures = {} THEN Fail("invalid pattern capture")
       ELSE /\ captures' = [captures EXCEPT ![LastOpen].len = Top.s - captures[LastOpen].init]
            /\ UNCHANGED level
            /\ Deeper("end", 0, LastOpen, Top.s, Top.p + 1)

EndAnchor ==
    /\ AtChar("$")
    /\ Top.p + 1 = PEnd
    /\ Leave(IF Top.s = SrcEnd THEN Top.s ELSE Failed)
    /\ UNCHANGED err
    /\ SameCaptures

\* The characters before and at s, a zero byte outside the subject.
CharBefore(s) == IF s > 0 THEN Src(s - 1) ELSE NUL
CharAt(s)     == IF s < SrcEnd THEN Src(s) ELSE NUL

\* matchBalance goes through the subject; i counts what is open.
Scanning(s, i) == /\ calls' = Append(Below, Waiting("scan", s, Top.p, 0, i))
                  /\ UNCHANGED <<depth, result>>

Balance ==
    /\ AtEscape({"b"})
    /\ IF Top.p + 3 >= PEnd THEN Fail("missing arguments to %b")
       ELSE /\ IF CharAt(Top.s) = Pat(Top.p + 2) /\ Top.s < SrcEnd
               THEN Scanning(Top.s + 1, 1) ELSE Leave(Failed)
            /\ UNCHANGED err
            /\ SameCaptures

Scan ==
    /\ result = Running /\ calls # <<>> /\ Top.waits = "scan"
    /\ IF Top.s >= SrcEnd THEN Leave(Failed)
       ELSE IF Src(Top.s) = Pat(Top.p + 3)
            THEN IF Top.i = 1 THEN Again(Top.s + 1, Top.p + 4)
                              ELSE Scanning(Top.s + 1, Top.i - 1)
       ELSE Scanning(Top.s + 1, IF Src(Top.s) = Pat(Top.p + 2) THEN Top.i + 1 ELSE Top.i)
    /\ UNCHANGED err
    /\ SameCaptures

Frontier ==
    /\ AtEscape({"f"})
    /\ IF ~Follows(Top.p + 2, "[") THEN Fail("missing [ after %f")
       ELSE LET p  == Top.p + 2
                ep == ItemEnd(p)
            IN /\ Raise(ItemError(p))
               /\ IF InSet(CharBefore(Top.s), p, ep - 1) \/ ~InSet(CharAt(Top.s), p, ep - 1)
                  THEN Leave(Failed) ELSE Again(Top.s, ep)
               /\ SameCaptures

\* matchCapture: does the subject at s begin with what capture l holds?
Repeats(s, l) ==
    LET n == captures[l].len IN
    /\ s + n <= SrcEnd
    /\ \A k \in 0 .. n - 1 : Src(captures[l].init + k) = Src(s + k)

Usable == {l \in 0 .. level - 1 : captures[l].len # CapUnfinished}
BackReference ==
    /\ AtEscape(Digits)
    /\ LET l == DigitOf(Pat(Top.p + 1)) - 1 IN
       IF l \notin Usable THEN Fail("invalid capture index")
       ELSE /\ IF captures[l].len = CapPosition THEN Again(Top.s, Top.p + 2)
               ELSE IF Repeats(Top.s, l) THEN Again(Top.s + captures[l].len, Top.p + 2)
               ELSE Leave(Failed)
            /\ UNCHANGED err
            /\ SameCaptures

\* What none of the cases above takes: an item that matches one character.
AtItem == /\ Looping
          /\ Top.p < PEnd
          /\ Pat(Top.p) \notin {"(", ")"}
          /\ ~(Pat(Top.p) = "$" /\ Top.p + 1 = PEnd)
          /\ ~(Pat(Top.p) = Esc /\ Top.p + 1 < PEnd
               /\ Pat(Top.p + 1) \in Digits \cup {"b", "f"})

\* matchDefault: the item at p, which ends at ep, and the suffix that may follow.
\* An item with an error has no suffix: it ends where the pattern does.
Suffix(ep) == IF ep < PEnd /\ Pat(ep) \in {"*", "+", "?", "-"} THEN Pat(ep) ELSE "one"

ItemFails ==
    /\ AtItem
    /\ LET ep == ItemEnd(Top.p) IN
       /\ ~SingleMatch(Top.s, Top.p, ep)
       /\ IF Suffix(ep) \in {"*", "?", "-"} THEN Again(Top.s, ep + 1) ELSE Leave(Failed)
    /\ Raise(ItemError(Top.p))
    /\ SameCaptures

ItemMatches ==
    /\ AtItem
    /\ LET s  == Top.s
           p  == Top.p
           ep == ItemEnd(p)
           count == Repetitions(s, p, ep)
       IN /\ SingleMatch(s, p, ep)
          /\ \/ Suffix(ep) = "?"   /\ Deeper("opt", ep, 0, s + 1, ep + 1)
             \/ Suffix(ep) = "*"   /\ Deeper("max", ep, count, s + count, ep + 1)
             \/ Suffix(ep) = "+"   /\ Enter(Append(Below, Waiting("max", s + 1, p, ep, count - 1)),
                                            s + count, ep + 1)
             \/ Suffix(ep) = "-"   /\ Deeper("min", ep, 0, s, ep + 1)
             \/ Suffix(ep) = "one" /\ Again(s + 1, ep) /\ Raise(ItemError(p))
    /\ SameCaptures

-----------------------------------------------------------------------------
(* What an activation does with the result of a deeper one. *)

Back(why) == result # Running /\ calls # <<>> /\ Top.waits = why
Matched     == result >= 0

HandOn == Leave(result) /\ UNCHANGED err

BackInStartCapture ==
    /\ Back("start")
    /\ level' = IF Matched THEN level ELSE level - 1
    /\ UNCHANGED captures
    /\ HandOn

\* Mutant: the failed alternative leaves its capture closed.
BackInEndCaptureLeavesClosed ==
    Back("end") /\ HandOn /\ SameCaptures

BackInEndCapture ==
    /\ Back("end")
    /\ captures' = IF Matched THEN captures
                   ELSE [captures EXCEPT ![Top.i].len = CapUnfinished]
    /\ UNCHANGED level
    /\ HandOn

BackInOption ==
    /\ Back("opt")
    /\ IF Matched THEN HandOn ELSE Again(Top.s, Top.ep + 1) /\ UNCHANGED err
    /\ SameCaptures

BackInMaxExpand ==
    /\ Back("max")
    /\ IF Matched \/ Top.i = 0 THEN HandOn
       ELSE Deeper("max", Top.ep, Top.i - 1, Top.s + Top.i - 1, Top.ep + 1)
    /\ SameCaptures

BackInMinExpand ==
    /\ Back("min")
    /\ IF Matched \/ ~SingleMatch(Top.s, Top.p, Top.ep) THEN HandOn
       ELSE Enter(Append(Below, Waiting("min", Top.s + 1, Top.p, Top.ep, 0)),
                  Top.s + 1, Top.ep + 1)
    /\ SameCaptures

DoMatch == \/ PatternEnds \/ StartCapture \/ EndCapture \/ EndAnchor
           \/ Balance \/ Scan \/ Frontier \/ BackReference \/ ItemFails \/ ItemMatches
           \/ BackInStartCapture \/ BackInEndCapture \/ BackInOption
           \/ BackInMaxExpand \/ BackInMinExpand
MatchStep == DoMatch /\ UNCHANGED <<src, pat>>

\* reprepState, and the first call of doMatch.
Restart(s) == /\ level' = 0
              /\ depth' = MaxRecDepth - 1
              /\ err' = NoError
              /\ calls' = <<AtLoop(s, 0)>>
              /\ result' = Running
              /\ UNCHANGED <<captures, src, pat>>

\* prepState.
MatchInit == /\ level = 0
             /\ captures = [l \in 0 .. MaxCaptures - 1 |-> [init |-> 0, len |-> 0]]
             /\ depth = MaxRecDepth
             /\ err = NoError
             /\ calls = <<>>
             /\ result = Running

-----------------------------------------------------------------------------
(* Properties *)

Starts == {k \in DOMAIN calls : calls[k].waits = "start"}
Ends   == {k \in DOMAIN calls : calls[k].waits = "end"}

\* While the search goes on, the captures are those of the alternative being
\* tried and of no other: one for each parenthesis that is entered, in this
\* order, begun where that was, and closed exactly if the closing parenthesis
\* is entered too.  And the depth that is left is what the activations have not
\* used.  An alternative that failed has taken back all it did (startCapture
\* and endCapture, string.go:494 and 514; the deferred function of doMatch).
CapturesFollowCalls ==
    result < 0 =>
      /\ {calls[k].i : k \in Starts} = 0 .. level - 1
      /\ \A j, k \in Starts : j < k => calls[j].i < calls[k].i
      /\ depth = MaxRecDepth - Len(calls)
      /\ \A k \in Starts :
           LET c == captures[calls[k].i] IN
           /\ c.init = calls[k].s
           /\ c.len # CapPosition =>
                (c.len = CapUnfinished <=> \A j \in Ends : calls[j].i # calls[k].i)
      /\ \A j, k \in Ends : calls[j].i = calls[k].i => j = k
=============================================================================
