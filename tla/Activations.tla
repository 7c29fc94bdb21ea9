----------------------------- MODULE Activations -----------------------------
(***************************************************************************)
(* What Lua promises about calls: each activation of a function has local  *)
(* variables of its own, a call hands it its arguments and gets back its   *)
(* results, an error ends every activation up to the innermost protected   *)
(* call, and a captured variable is one cell however it is reached.  There *)
(* is no stack of values here and nothing to restore.                      *)
(***************************************************************************)
EXTENDS CallValues, Sequences, FiniteSets

CONSTANTS Functions,  \* Functions[n]: what the n-th activation may call
          Wants,      \* the numbers of results a caller asks for; Multi is all
          MaxDepth,   \* maxCallDepth (20000): one more than the activations
          MaxSteps,   \* how many steps functions take, returning apart
          MaxCells    \* how many variables are captured

VARIABLES acts,   \* the activations; the first one is the host
          cells,  \* the values of the captured variables
          steps   \* the steps taken

vars == <<acts, cells, steps>>

Me  == Len(acts)
Act == acts[Me]
Running(kinds) == Act.kind \in kinds /\ Act.phase = "run"
InLua == Running({"lua"}) /\ ~Act.open
InGo  == Running({"go", "quiet"})

\* cell: for each variable the cell it is in, or 0.  open: the last values are
\* as many as a call returned; fixed is the number of those before them.
Activation(f, args, want) ==
    [kind |-> f.kind, max |-> f.max, vararg |-> f.vararg, want |-> want,
     phase |-> "run", err |-> Nil,
     regs |-> IF f.kind = "lua"
              THEN [i \in 1 .. f.params |-> IF i <= Len(args) THEN args[i] ELSE Nil]
              ELSE args,
     cell |-> IF f.kind = "lua" THEN [i \in 1 .. f.params |-> 0]
              ELSE [i \in 1 .. Len(args) |-> 0],
     open |-> FALSE, fixed |-> 0,
     varargs |-> IF f.vararg THEN SubSeq(args, f.params + 1, Len(args)) ELSE <<>>]

Host == [kind |-> "host", max |-> 0, params |-> 0, vararg |-> FALSE, meta |-> FALSE]

\* The host has pushed a function and two arguments.
Init == acts = <<Activation(Host, <<1, 2, 3>>, 0)>> /\ cells = <<>> /\ steps = 3

Keep(a, n)    == [a EXCEPT !.regs = SubSeq(@, 1, n), !.cell = SubSeq(@, 1, n),
                           !.open = FALSE, !.fixed = 0]
More(a, vals) == [a EXCEPT !.regs = @ \o vals,
                           !.cell = @ \o [i \in 1 .. Len(vals) |-> 0]]
Open(a, vals) == [More(a, vals) EXCEPT !.open = TRUE, !.fixed = Len(a.regs)]

Replace(a) == acts' = [acts EXCEPT ![Me] = a]

\* A value that a step makes is numbered like the step.
Step == steps < MaxSteps /\ steps' = steps + 1
New  == steps + 1

-----------------------------------------------------------------------------
(* Calls, results and errors                                               *)

Last(as) == as[Len(as)]
Below(as, a) == Append(SubSeq(as, 1, Len(as) - 1), a)

Protecting(as) == {i \in 1 .. Len(as) : as[i].phase \in {"called", "handling"}}
Handling(as)   == {i \in 1 .. Len(as) : as[i].phase = "handling"}
Largest(S)     == CHOOSE i \in S : \A j \in S : j <= i

\* What a protected call makes of an error.
Failed(a, err) ==
    CASE a.phase = "handling" -> [More(Keep(a, 1), <<a.err>>) EXCEPT !.phase = "errerr"]
      [] a.kind = "xpcall"    -> [a EXCEPT !.phase = "caught", !.err = err]
      [] a.kind = "pcall"     -> [More(a, <<err>>) EXCEPT !.phase = "failed"]
      [] OTHER                -> [More(a, <<err>>) EXCEPT !.phase = "run"]

\* A stack overflow while an error is being handled is reported as such.
Throw(as, err) ==
    LET p == Largest(Protecting(as))
        cut == SubSeq(as, 1, p)
    IN  acts' = Below(cut, Failed(as[p],
                    IF err = Overflow /\ as[p].phase = "called" /\ Handling(cut) # {}
                    THEN ErrorInHandling ELSE err))

\* A value with a __call metamethod is passed to it as its first argument.
Enter(as, f, callee, args, want) ==
    IF Len(as) >= MaxDepth THEN Throw(as, Overflow)
    ELSE acts' = Append(as, Activation(f, IF f.meta THEN <<callee>> \o args ELSE args, want))

\* The caller a goes on with the results of a call.
Resumed(a, vals, want) ==
    CASE a.phase = "handling" -> [More(a, vals) EXCEPT !.phase = "failed"]
      [] a.kind \in {"pcall", "xpcall"} -> [More(a, vals) EXCEPT !.phase = "ok"]
      [] a.kind = "lua"       -> IF want = Multi THEN Open(a, vals) ELSE More(a, vals)
      [] OTHER                -> [More(a, vals) EXCEPT !.phase = "run"]

Adjusted(vals, want) ==
    IF want = Multi THEN vals
    ELSE [i \in 1 .. want |-> IF i <= Len(vals) THEN vals[i] ELSE Nil]

Deliver(vals) ==
    LET callers == SubSeq(acts, 1, Me - 1)
    IN  acts' = Below(callers, Resumed(Last(callers), Adjusted(vals, Act.want), Act.want))

\* The value after the n-th is called with those that follow it.
CallWith(a, n, want, f) ==
    Enter(Below(acts, Keep(a, n)), f, a.regs[n + 1],
          SubSeq(a.regs, n + 2, Len(a.regs)), want)

-----------------------------------------------------------------------------
(* Lua functions                                                           *)

Load ==
    /\ InLua /\ Step /\ Len(Act.regs) < Act.max
    /\ Replace(More(Act, <<New>>))
    /\ UNCHANGED cells

\* A cell and the variable it is in have the same value.
Store(as, c, v) ==
    [i \in DOMAIN as |->
        [as[i] EXCEPT !.regs = [r \in DOMAIN @ |-> IF as[i].cell[r] = c THEN v ELSE @[r]]]]

Assign(r) ==
    /\ InLua /\ Step /\ r \in DOMAIN Act.regs
    /\ Replace([Act EXCEPT !.regs[r] = New])
    /\ cells' = IF Act.cell[r] = 0 THEN cells ELSE [cells EXCEPT ![Act.cell[r]] = New]

WriteUpval(c) ==
    /\ InLua /\ Step /\ c \in DOMAIN cells
    /\ acts' = Store(acts, c, New) /\ cells' = [cells EXCEPT ![c] = New]

Capture(r) ==
    /\ InLua /\ Step /\ r \in DOMAIN Act.regs /\ Act.cell[r] = 0 /\ Len(cells) < MaxCells
    /\ cells' = Append(cells, Act.regs[r])
    /\ Replace([Act EXCEPT !.cell[r] = Len(cells) + 1])

\* The block of a captured variable ends; what it declared is gone.
CloseScope(n) ==
    /\ InLua /\ Step /\ n < Len(Act.regs) /\ Act.cell[n + 1] # 0
    /\ Replace(Keep(Act, n))
    /\ UNCHANGED cells

\* No call takes the place of a captured variable.
Free(n) == \A r \in n + 1 .. Len(Act.regs) : Act.cell[r] = 0

OpCall(n, want, f) ==
    /\ InLua /\ Step /\ n < Len(Act.regs) /\ Free(n)
    /\ want # Multi => n + want <= Act.max
    /\ CallWith(Act, n, want, f)
    /\ UNCHANGED cells

\* With all the results of another call as the last arguments.
OpCallOpen(n, want, f) ==
    /\ Running({"lua"}) /\ Step /\ Act.open /\ n < Act.fixed /\ Free(n)
    /\ want # Multi => n + want <= Act.max
    /\ CallWith(Act, n, want, f)
    /\ UNCHANGED cells

\* They may also go into a table.
SetList ==
    /\ Running({"lua"}) /\ Step /\ Act.open
    /\ Replace(Keep(Act, Act.fixed))
    /\ UNCHANGED cells

GetVarargs(want) ==
    /\ InLua /\ Step /\ Act.vararg
    /\ Len(Act.regs) + (IF want = Multi THEN 0 ELSE want) <= Act.max
    /\ Replace(IF want = Multi THEN Open(Act, Act.varargs)
               ELSE More(Act, Adjusted(Act.varargs, want)))
    /\ UNCHANGED cells

\* A metamethod of two operands gives the value of a new temporary.
Operator(f) ==
    /\ InLua /\ Step /\ Len(Act.regs) \in 1 .. Act.max - 1
    /\ Enter(acts, f, Metamethod, <<Act.regs[1], Act.regs[Len(Act.regs)]>>, 1)
    /\ UNCHANGED cells

\* A generic for loop asks its generator for the next value.
Iterate(f) ==
    /\ InLua /\ Step /\ Len(Act.regs) = 3 /\ Act.max > 3
    /\ Enter(acts, f, Act.regs[1], <<Act.regs[2], Act.regs[3]>>, 1)
    /\ UNCHANGED cells

OpReturn(n) ==
    /\ InLua /\ Step /\ n <= Len(Act.regs)
    /\ Deliver(SubSeq(Act.regs, n + 1, Len(Act.regs)))
    /\ UNCHANGED cells

OpReturnOpen(n) ==
    /\ Running({"lua"}) /\ Step /\ Act.open /\ n <= Act.fixed
    /\ Deliver(SubSeq(Act.regs, n + 1, Len(Act.regs)))
    /\ UNCHANGED cells

\* Any function that runs may fail.
RaiseError ==
    /\ InLua \/ InGo
    /\ Step
    /\ Throw(acts, New)
    /\ UNCHANGED cells

-----------------------------------------------------------------------------
(* Go functions, pcall and xpcall                                          *)

GoPush ==
    /\ InGo /\ Step /\ Len(Act.regs) < MaxPushed
    /\ Replace(More(Act, <<New>>))
    /\ UNCHANGED cells

GoCall(n, want, f) ==
    /\ InGo /\ Step /\ n < Len(Act.regs)
    /\ CallWith(Act, n, want, f)
    /\ UNCHANGED cells

HostCall(n, f) ==
    /\ Running({"host"}) /\ Step /\ n < Len(Act.regs)
    /\ CallWith([Act EXCEPT !.phase = "called"], n, Multi, f)
    /\ UNCHANGED cells

GoReturn(n) ==
    /\ InGo /\ Step /\ n <= Len(Act.regs)
    /\ Deliver(SubSeq(Act.regs, n + 1, Len(Act.regs)))
    /\ UNCHANGED cells

\* pcall(f, ...) and xpcall(f, handler, ...), whose handler is a function.
StartPCall(f) ==
    /\ Running({"pcall"})
    /\ IF Act.regs = <<>> THEN Throw(acts, MissingArgument)
       ELSE CallWith([Act EXCEPT !.phase = "called"], 0, Multi, f)
    /\ UNCHANGED <<cells, steps>>

StartXPCall(f) ==
    /\ Running({"xpcall"})
    /\ IF Len(Act.regs) < 2 THEN Throw(acts, MissingArgument)
       ELSE Enter(Below(acts, [Keep([Act EXCEPT !.regs[1] = Act.regs[2]], 1)
                                 EXCEPT !.phase = "called"]),
                  f, Act.regs[1], SubSeq(Act.regs, 3, Len(Act.regs)), Multi)
    /\ UNCHANGED <<cells, steps>>

CallHandler(f) ==
    /\ Act.phase = "caught" /\ ~f.meta
    /\ Enter(Below(acts, [Act EXCEPT !.phase = "handling"]), f, Act.regs[1], <<Act.err>>, 1)
    /\ UNCHANGED <<cells, steps>>

\* The status comes before the results, in place of the handler.
FinishPCall ==
    /\ Act.phase \in {"ok", "failed", "errerr"}
    /\ LET status == IF Act.phase = "ok" THEN True ELSE False
           vals == IF Act.kind = "xpcall" THEN Tail(Act.regs) ELSE Act.regs
       IN  Deliver(<<status>> \o (IF Act.phase = "errerr" THEN <<ErrorInHandling>> ELSE vals))
    /\ UNCHANGED <<cells, steps>>

LuaNext ==
    \/ Load
    \/ \E r \in 1 .. Len(Act.regs) : Assign(r) \/ Capture(r)
    \/ \E c \in DOMAIN cells : WriteUpval(c)
    \/ \E n \in 0 .. Len(Act.regs) : CloseScope(n) \/ OpReturn(n)
    \/ \E want \in Wants :
          \/ GetVarargs(want)
          \/ \E n \in 0 .. Len(Act.regs), f \in Functions[Me] : OpCall(n, want, f)
    \/ \E f \in Functions[Me] : Operator(f) \/ Iterate(f)

\* While the last values are as many as a call returned, only these.
LuaOpenNext ==
    \/ SetList
    \/ \E n \in 0 .. Act.fixed :
          \/ OpReturnOpen(n)
          \/ \E f \in Functions[Me], want \in Wants : OpCallOpen(n, want, f)

GoNext ==
    \/ GoPush \/ FinishPCall
    \/ \E n \in 0 .. Len(Act.regs) :
          \/ GoReturn(n)
          \/ \E f \in Functions[Me] : HostCall(n, f) \/ \E want \in Wants : GoCall(n, want, f)
    \/ \E f \in Functions[Me] : StartPCall(f) \/ StartXPCall(f) \/ CallHandler(f)

Next ==
    \/ RaiseError
    \/ InLua /\ LuaNext
    \/ Act.open /\ LuaOpenNext
    \/ Act.kind # "lua" /\ GoNext

Spec == Init /\ [][Next]_vars
=============================================================================
