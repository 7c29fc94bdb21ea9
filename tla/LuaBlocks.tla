------------------------------ MODULE LuaBlocks ------------------------------
(***************************************************************************)
(* What Lua promises about blocks, loops and local variables: every time a *)
(* declaration is executed it makes a new variable, and a closure goes on  *)
(* reading the variable it captured.  This is the reference that compiled  *)
(* code is compared with; it knows no registers.                           *)
(*                                                                         *)
(* A statement is a record whose field do names its kind.  The outcomes of *)
(* the conditions of a run are given: a sequence of Booleans.              *)
(***************************************************************************)
EXTENDS Sequences, SequencesExt, Integers

Local     == [do |-> "local"]
Assign(d) == [do |-> "assign", depth |-> d]    \* to the d-th visible local,
Closure(d) == [do |-> "closure", depth |-> d]  \* counted from the innermost
Global(name) == [do |-> "global", name |-> name]   \* an assignment to a global
Break     == [do |-> "break"]
Continue  == [do |-> "continue"]
Return    == [do |-> "return"]
Block(body)  == [do |-> "block", body |-> body]
If(body)     == [do |-> "if", body |-> body]
IfElse(body, else) == [do |-> "ifelse", body |-> body, else |-> else]
While(body)  == [do |-> "while", body |-> body]
Repeat(body) == [do |-> "repeat", body |-> body]
For(body)    == [do |-> "for", body |-> body]
ForIn(body)  == [do |-> "forin", body |-> body]

\* A run: the outcomes still to come, the visible variables, the values of
\* all variables so far, the variables the closures captured, what was
\* observed, and how the last statement ended.
NewRun(outcomes) ==
    [outcomes |-> outcomes, scope |-> <<>>, values |-> <<>>, closures |-> <<>>,
     seen |-> <<>>, end |-> "go"]

\* What a declaration, an assignment and a new closure let one observe: the
\* value of the variable they name and what each closure returns.  Every
\* value is new, so it says which variable it came from.
Observe(run, var) ==
    [run EXCEPT !.seen = Append(@, <<run.values[var],
        [c \in DOMAIN run.closures |-> run.values[run.closures[c]]]>>)]

Fresh(seen) == Len(seen) + 1

Declare(run) ==
    LET var == Len(run.values) + 1
    IN  Observe([run EXCEPT !.values = Append(@, Fresh(run.seen)),
                            !.scope = Append(@, var)], var)

Named(run, depth) == run.scope[Len(run.scope) + 1 - depth]

\* Choose takes the next outcome; without one the run ends unfinished.
Choose(run) == IF run.outcomes = <<>> THEN [run EXCEPT !.end = "cut"]
               ELSE [run EXCEPT !.outcomes = Tail(@)]

Outcome(run) == run.outcomes # <<>> /\ Head(run.outcomes)

Leave(run, scope) == [run EXCEPT !.scope = scope]

RECURSIVE Run(_, _), RunAll(_, _), RunLoop(_, _)

RunAll(run, body) ==
    IF body = <<>> \/ run.end # "go" THEN run
    ELSE RunAll(Run(run, Head(body)), Tail(body))

Continued(run) == IF run.end = "continue" THEN [run EXCEPT !.end = "go"] ELSE run

\* A condition that comes true ends a repeat loop as a break would.
Until(run) ==
    IF run.end # "go" THEN run
    ELSE IF Outcome(run) THEN [Choose(run) EXCEPT !.end = "break"] ELSE Choose(run)

Again(run, s, scope) ==
    CASE run.end = "go"    -> RunLoop(Leave(run, scope), s)
      [] run.end = "break" -> Leave([run EXCEPT !.end = "go"], scope)
      [] OTHER             -> Leave(run, scope)

\* One iteration after another of any of the four loops.
RunLoop(run, s) ==
    CASE s.do = "repeat" -> Again(Until(Continued(RunAll(run, s.body))), s, run.scope)
      [] s.do # "repeat" /\ ~Outcome(run) -> Choose(run)
      [] OTHER ->
           LET inside == IF s.do = "while" THEN Choose(run) ELSE Declare(Choose(run))
           IN  Again(Continued(RunAll(inside, s.body)), s, run.scope)

Run(run, s) ==
    CASE s.do = "local"   -> Declare(run)
      [] s.do = "assign"  ->
           LET var == Named(run, s.depth)
           IN  Observe([run EXCEPT !.values[var] = Fresh(run.seen)], var)
      [] s.do = "closure" ->
           LET var == Named(run, s.depth)
           IN  Observe([run EXCEPT !.closures = Append(@, var)], var)
      [] s.do = "global"  -> run
      [] s.do \in {"break", "continue", "return"} -> [run EXCEPT !.end = s.do]
      [] s.do = "block"   -> Leave(RunAll(run, s.body), run.scope)
      [] s.do = "if"      ->
           IF Outcome(run) THEN Leave(RunAll(Choose(run), s.body), run.scope)
                           ELSE Choose(run)
      [] s.do = "ifelse"  ->
           IF run.outcomes = <<>> THEN Choose(run)
           ELSE Leave(RunAll(Choose(run), IF Outcome(run) THEN s.body ELSE s.else),
                      run.scope)
      [] OTHER            -> RunLoop(run, s)
=============================================================================
