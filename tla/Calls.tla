-------------------------------- MODULE Calls --------------------------------
(***************************************************************************)
(* Calls on one thread, pkg/vm/do.go, with the call opcodes of execute.go, *)
(* pcall and xpcall of lib/base.go.  All activations share one stack of    *)
(* values: a Lua function's registers are the slots from its base on, a Go *)
(* function's values those from callBase to top.  Besides pcall and xpcall *)
(* Go functions are of two kinds: those that hold their thread from        *)
(* yielding ("quiet", as table.sort does) and the others ("go").  A        *)
(* function that calls keeps in its frame what its Go variables hold       *)
(* meanwhile.                                                              *)
(*                                                                         *)
(* What a compiler knows is taken from it: which registers hold values     *)
(* (live), that no call is placed over a captured local, that a value used *)
(* with all the results of a call follows it at once (open).               *)
(***************************************************************************)
EXTENDS ThreadStack, Upvalues

CONSTANTS Functions, \* the functions that may be called at each depth
          Wants,     \* how many results a call may want
          MaxDepth, MaxSteps, MaxCells

\* The parameters of a Lua function are its first registers.
ASSUME CallsAssumption ==
    /\ MaxDepth \in Nat \ {0} /\ DOMAIN Functions = 1 .. MaxDepth
    /\ \A depth \in 1 .. MaxDepth : \A f \in Functions[depth] :
          /\ f \in [kind : {"lua", "go", "quiet", "pcall", "xpcall"}, params : Nat,
                    vararg : BOOLEAN, max : Nat, meta : BOOLEAN]
          /\ f.kind = "lua" => f.params <= f.max
    /\ Wants \subseteq Nat \cup {Multi}

VARIABLES k,             \* the stack of values
          frames,        \* the frames; the first one stands for the host
          callBase,      \* where the innermost Go function's values begin
          nonyieldable,  \* how many calls in progress must not yield
          inErrHandler,  \* how many error handlers are running
          upvals, openUpvals,
          steps          \* the steps taken

vars == <<k, frames, callBase, nonyieldable, inErrHandler, upvals, openUpvals, steps>>

Me == Len(frames)
F  == frames[Me]
Running(kinds) == F.kind \in kinds /\ F.phase = "run"
InLua == Running({"lua"}) /\ ~F.open
InGo  == Running({"go", "quiet"})

\* A callInfo, and the variables of the Go function that works on it: what
\* it does when a call returns (op), where that call is (at), and the top,
\* the length and the callBase it saved.
Frame(f, base, want, nvar) ==
    [kind |-> f.kind, base |-> base, want |-> want, nvar |-> nvar, max |-> f.max,
     vararg |-> f.vararg, live |-> f.params, open |-> FALSE, phase |-> "run",
     op |-> "call", at |-> 0, top |-> 0, len |-> 0, savedBase |-> callBase, err |-> Nil]

Host == [kind |-> "host", max |-> 0, params |-> 0, vararg |-> FALSE, meta |-> FALSE]

\* The host has pushed a function and two arguments.
Init ==
    /\ k = Push(Push(Push(NewStack, 1), 2), 3)
    /\ callBase = 0 /\ frames = <<[Frame(Host, 0, 0, 0) EXCEPT !.savedBase = 0]>>
    /\ nonyieldable = 0 /\ inErrHandler = 0
    /\ upvals = <<>> /\ openUpvals = <<>>
    /\ steps = 3

\* A value that a step makes is numbered like the step.
Step == steps < MaxSteps /\ steps' = steps + 1
New  == steps + 1

Caller(fs, f) == Append(SubSeq(fs, 1, Len(fs) - 1), f)
Largest(S)  == CHOOSE i \in S : \A j \in S : j <= i
Smallest(S) == CHOOSE i \in S : \A j \in S : i <= j

CloseTo(level, slots) ==
    /\ upvals' = ClosedFrom(upvals, openUpvals, level, slots)
    /\ openUpvals' = LeftOpen(upvals, openUpvals, level)

-----------------------------------------------------------------------------
(* Errors                                                                  *)

\* What deferred functions of the Go functions that end give back.
Gos(fs, gone) == {i \in gone : fs[i].kind # "lua"}
BaseBefore(fs, gone) ==
    IF Gos(fs, gone) = {} THEN callBase ELSE fs[Smallest(Gos(fs, gone))].savedBase

\* A fault: LeaveNonYieldable is called at the end, but not deferred.
QuietUndeferred(fs, gone) == 0

Quiet(fs, gone) == Cardinality({i \in gone : fs[i].kind = "quiet"})

\* A fault: an argument is left out.
CloseLevelPastArgument(f) == f.at + 2

\* Arguments may be captured too: close from the first of them on.
CloseLevel(f) == f.at + 1

\* A panic: the deferred functions of the Go functions between run, then
\* pcallFromGo recovers.
Throw(k1, fs, err) ==
    LET p    == Largest({i \in 1 .. Len(fs) : fs[i].phase \in {"called", "handling"}})
        f    == fs[p]
        gone == p + 1 .. Len(fs)
        handling == IF f.phase = "handling" THEN 1 ELSE 0
        value == IF inErrHandler > 0 /\ err = Overflow THEN ErrorInHandling ELSE err
        cut  == Cut(k1, f.at + 1)
        Value(v) == Write(cut, f.at, <<v>>)
        Caught(phase, err1, k2) ==
            frames' = Append(SubSeq(fs, 1, p - 1), [f EXCEPT !.phase = phase, !.err = err1])
            /\ k' = k2
    IN  /\ callBase' = BaseBefore(fs, gone)
        /\ nonyieldable' = nonyieldable - handling - Quiet(fs, gone)
        /\ inErrHandler' = inErrHandler - handling
        /\ CloseTo(CloseLevel(f), k1.slots)
        /\ CASE f.phase = "handling" -> Caught("errerr", f.err, Value(f.err))
             [] f.phase # "handling" /\ f.kind = "xpcall" -> Caught("caught", value, cut)
             [] OTHER -> Caught(IF f.kind = "host" THEN "run" ELSE "failed", Nil, Value(value))

-----------------------------------------------------------------------------
(* Entering a function                                                     *)

Calm == UNCHANGED <<nonyieldable, inErrHandler, upvals, openUpvals>>

\* pushFrame; the host is not counted.
PushFrame(k1, fs, f) ==
    /\ k' = k1 /\ frames' = Append(fs, f)
    /\ callBase' = IF f.kind = "lua" THEN callBase ELSE f.base
    /\ nonyieldable' = IF f.kind = "quiet" THEN nonyieldable + 1 ELSE nonyieldable
    /\ UNCHANGED <<inErrHandler, upvals, openUpvals>>

\* Missing arguments are nil.
Padded(k1, at, nargs, f) ==
    IF nargs >= f.params THEN k1
    ELSE Cut(Write(ReserveTo(k1, at + 1 + f.params), at + 1 + nargs, Nils(f.params - nargs)),
             at + 1 + f.params)

\* Arguments beyond the parameters go below them.
Shifted(k1, at, nargs, extra, f) ==
    LET n  == at + 1 + nargs
        k2 == IF n > k1.top THEN Cut(ReserveTo(k1, n), n) ELSE k1
    IN  IF extra = 0 THEN k1
        ELSE Write(k2, at + 1, Values(k2, at + 1 + f.params, extra)
                               \o Values(k2, at + 1, f.params))

\* A fault: arguments that opcodes have put above top are cleared.
Uncovered(k1, n) == k1

\* top covers the parameters, so that they are not cleared with the rest.
Covered(k1, n) == IF n > k1.top THEN Cut(ReserveTo(k1, n), n) ELSE k1

Cleared(k1, n) ==
    IF n <= k1.top THEN k1
    ELSE [Write(ReserveTo(k1, n), k1.top, Nils(n - k1.top)) EXCEPT !.top = n]

CallLua(k1, fs, at, nargs, want, f) ==
    LET n     == IF nargs < f.params THEN f.params ELSE nargs
        extra == IF f.vararg THEN n - f.params ELSE 0
        base  == at + 1 + extra
        k2    == Shifted(Padded(k1, at, nargs, f), at, n, extra, f)
        k3    == Covered(k2, base + (IF f.vararg THEN f.params ELSE n))
        k4    == Cleared(k3, base + f.max)
    IN  IF Len(fs) >= MaxDepth THEN Throw(k4, fs, Overflow)
        ELSE PushFrame(k4, fs, Frame(f, base, want, extra))

CallGo(k1, fs, at, nargs, want, f) ==
    IF Len(fs) >= MaxDepth THEN Throw(k1, fs, Overflow)
    ELSE PushFrame(Cut(k1, at + 1 + nargs), fs, Frame(f, at + 1, want, 0))

\* A value with a __call metamethod becomes its first argument.
ShiftedIn(k1, at, nargs) ==
    LET end == at + 1 + nargs
        k2  == IF end + 1 > k1.len THEN ReserveTo(k1, end + 1) ELSE k1
        k3  == Write(k2, at, <<Metamethod>> \o Values(k2, at, nargs + 1))
    IN  [k3 EXCEPT !.top = IF end + 1 > @ THEN end + 1 ELSE @]

CallFunction(k1, fs, at, nargs, want, f) ==
    IF f.kind = "lua" THEN CallLua(k1, fs, at, nargs, want, f)
                      ELSE CallGo(k1, fs, at, nargs, want, f)

CallValue(k1, fs, at, nargs, want, f) ==
    IF f.meta THEN CallFunction(ShiftedIn(k1, at, nargs), fs, at, nargs + 1, want, f)
              ELSE CallFunction(k1, fs, at, nargs, want, f)

CallAt(k1, f1, at, nargs, want, f) ==
    CallValue(k1, Caller(frames, [f1 EXCEPT !.at = at]), at, nargs, want, f)

-----------------------------------------------------------------------------
(* Leaving a function                                                      *)

\* A fixed number of results: top is as before the call (OpCall).
TopRestored(k1, c) ==
    LET k2 == [k1 EXCEPT !.top = c.top]
    IN  Reslice(IF c.top > k2.len THEN ReserveTo(k2, 2 * c.top - k2.len) ELSE k2, c.top)

\* callBinTM and FORGLOOP fetch their result from above the registers.  (That
\* the loop's control variable takes the same value is left to the loop.)
OperatorDone(k1, c) ==
    LET k2 == IF c.len > k1.top THEN Reslice(k1, c.len) ELSE k1
    IN  Copy([k2 EXCEPT !.top = c.top], c.at, c.base + c.live, 1)

IterateDone(k1, c) ==
    LET k2 == Copy(Reframe(k1, c.base + c.max), c.at, c.base + c.live, 1)
    IN  Reframe(Cut(k2, c.at), c.base + c.max)

\* The caller goes on.
StackFor(c, k1, want) ==
    CASE c.phase = "handling" -> Write(Cut(k1, c.at + 1), c.at, Values(k1, c.at + 1, 1))
      [] c.phase # "handling" /\ c.kind # "lua" -> k1
      [] c.kind = "lua" /\ c.op = "operator" -> OperatorDone(k1, c)
      [] c.kind = "lua" /\ c.op = "iterate"  -> IterateDone(k1, c)
      [] c.kind = "lua" /\ c.op = "call" ->
           Reframe(IF want = Multi THEN k1 ELSE TopRestored(k1, c), c.base + c.max)

FrameFor(c, want) ==
    CASE c.phase = "handling" -> [c EXCEPT !.phase = "failed"]
      [] c.phase # "handling" /\ c.kind \in {"pcall", "xpcall"} -> [c EXCEPT !.phase = "ok"]
      [] c.kind \in {"go", "quiet", "host"} -> [c EXCEPT !.phase = "run"]
      [] c.kind = "lua" /\ c.op # "call" -> [c EXCEPT !.live = @ + 1]
      [] c.kind = "lua" /\ c.op = "call" ->
           [c EXCEPT !.live = @ + (IF want = Multi THEN 0 ELSE want),
                     !.open = (want = Multi)]

\* n results at from go to slot to, as many as are wanted.
Delivered(k1, from, n, to) ==
    LET keep == IF F.want # Multi /\ n > F.want THEN F.want ELSE n
        pad  == IF F.want = Multi THEN 0 ELSE F.want - keep
        k2   == Copy(k1, from, to, keep)
    IN  Cut(IF pad = 0 THEN k2
            ELSE Write(ReserveTo(k2, to + keep + pad), to + keep, Nils(pad)),
            to + keep + pad)

PopFrame(k1, from, n, to) ==
    LET fs == SubSeq(frames, 1, Me - 1)
        c  == frames[Me - 1]
        handled == IF c.phase = "handling" THEN 1 ELSE 0
    IN  /\ k' = StackFor(c, Delivered(k1, from, n, to), F.want)
        /\ frames' = Caller(fs, FrameFor(c, F.want))
        /\ callBase' = IF F.kind = "lua" THEN callBase ELSE F.savedBase
        /\ nonyieldable' = nonyieldable - handled - (IF F.kind = "quiet" THEN 1 ELSE 0)
        /\ inErrHandler' = inErrHandler - handled

\* returnFromFrame.
ReturnFromFrame(from, n) ==
    /\ CloseTo(F.base - F.nvar, k.slots)
    /\ PopFrame(k, from, n, F.base - 1 - F.nvar)

\* The end of callGo.
GoExit(k1, n) ==
    PopFrame(k1, k1.top - n, n, F.base - 1) /\ UNCHANGED <<upvals, openUpvals>>

-----------------------------------------------------------------------------
(* Lua functions                                                           *)

Set(at, v) == k' = Write(k, at, <<v>>)
Become(f)  == frames' = Caller(frames, f)

Load ==
    /\ InLua /\ Step /\ F.live < F.max
    /\ Set(F.base + F.live, New)
    /\ Become([F EXCEPT !.live = @ + 1])
    /\ Calm /\ UNCHANGED callBase

Assign(r) ==
    /\ InLua /\ Step /\ r <= F.live
    /\ Set(F.base + r - 1, New)
    /\ Calm /\ UNCHANGED <<frames, callBase>>

\* SETUPVAL in a function that shares the upvalue.
WriteUpval(u) ==
    /\ InLua /\ Step /\ u \in DOMAIN upvals
    /\ IF upvals[u].closed
       THEN upvals' = [upvals EXCEPT ![u].value = New] /\ UNCHANGED k
       ELSE Set(upvals[u].slot, New) /\ UNCHANGED upvals
    /\ UNCHANGED <<frames, callBase, nonyieldable, inErrHandler, openUpvals>>

\* NEWCLOSURE captures a local for the first time (findOrCreateUpval).
Capture(r) ==
    LET slot == F.base + r - 1
    IN  /\ InLua /\ Step /\ r <= F.live
        /\ Hits(upvals, openUpvals, slot) = {} /\ Len(upvals) < MaxCells
        /\ upvals' = Append(upvals, OpenUpval(slot))
        /\ openUpvals' = Inserted(upvals, openUpvals, slot)
        /\ UNCHANGED <<k, frames, callBase, nonyieldable, inErrHandler>>

\* CLOSEUPVALS.
CloseScope(n) ==
    /\ InLua /\ Step /\ n < F.live /\ Hits(upvals, openUpvals, F.base + n) # {}
    /\ CloseTo(F.base + n, k.slots)
    /\ Become([F EXCEPT !.live = n])
    /\ UNCHANGED <<k, callBase, nonyieldable, inErrHandler>>

Free(n) == \A i \in DOMAIN openUpvals : upvals[openUpvals[i]].slot < F.base + n

OpCall(n, want, f) ==
    /\ InLua /\ Step /\ n < F.live /\ Free(n)
    /\ want # Multi => n + want <= F.max
    /\ CallAt(k, [F EXCEPT !.op = "call", !.top = k.top, !.live = n],
              F.base + n, F.live - n - 1, want, f)

OpCallOpen(n, want, f) ==
    /\ Running({"lua"}) /\ Step /\ F.open /\ n < F.live /\ Free(n)
    /\ want # Multi => n + want <= F.max
    /\ CallAt(k, [F EXCEPT !.op = "call", !.top = k.top, !.live = n, !.open = FALSE],
              F.base + n, k.top - (F.base + n) - 1, want, f)

\* SETLIST leaves top where it is.
SetList ==
    /\ Running({"lua"}) /\ Step /\ F.open
    /\ Become([F EXCEPT !.open = FALSE])
    /\ Calm /\ UNCHANGED <<k, callBase>>

GetVarargs(want) ==
    LET at == F.base + F.live
        n  == IF want = Multi THEN F.nvar ELSE want
        from == F.base - F.nvar
        k1 == [k EXCEPT !.top = at + n]
        k2 == IF want # Multi THEN k
              ELSE Reslice(IF k1.top > k.len THEN ReserveTo(k1, 2 * k1.top - k.len) ELSE k1,
                           at + n)
        given == IF n < F.nvar THEN n ELSE F.nvar
    IN  /\ InLua /\ Step /\ F.vararg /\ F.live + (IF want = Multi THEN 0 ELSE want) <= F.max
        /\ k' = Write(Reframe(k2, F.base + F.max), at,
                      Values(k2, from, given) \o Nils(n - given))
        /\ Become([F EXCEPT !.open = (want = Multi),
                            !.live = @ + (IF want = Multi THEN 0 ELSE want)])
        /\ Calm /\ UNCHANGED <<callBase>>

\* callBinTM stages its call above every register (metamethodBase).
Operator(f) ==
    LET at == IF F.base + F.max > k.top THEN F.base + F.max ELSE k.top
        k1 == IF at > k.top
              THEN [IF at + 3 > k.len THEN ReserveTo(k, at + 3) ELSE k EXCEPT !.top = at]
              ELSE k
        k2 == Push(Push(Push(k1, Metamethod), k.slots[F.base]),
                   k.slots[F.base + F.live - 1])
    IN  /\ InLua /\ Step /\ F.live \in 1 .. F.max - 1
        /\ CallAt(k2, [F EXCEPT !.op = "operator", !.top = k.top, !.len = k.len],
                  at, 2, 1, f)

\* FORGLOOP stages its call above its own registers and top.
Iterate(f) ==
    LET window == F.base + 4
        k1 == IF k.top >= window THEN k
              ELSE Cut(IF window > k.len THEN Reframe(k, F.base + F.max) ELSE k, window)
        k2 == Push(Push(Push(k1, k.slots[F.base]), k.slots[F.base + 1]), k.slots[F.base + 2])
    IN  /\ InLua /\ Step /\ F.live = 3 /\ F.max > 3
        /\ CallAt(k2, [F EXCEPT !.op = "iterate"], k1.top, 2, 1, f)

OpReturn(n) ==
    InLua /\ Step /\ n <= F.live /\ ReturnFromFrame(F.base + n, F.live - n)

OpReturnOpen(n) ==
    /\ Running({"lua"}) /\ Step /\ F.open /\ n <= F.live
    /\ ReturnFromFrame(F.base + n, k.top - (F.base + n))

RaiseError ==
    /\ InLua \/ InGo
    /\ Step
    /\ Throw(k, frames, New)

-----------------------------------------------------------------------------
(* Go functions, pcall and xpcall                                          *)

Top == k.top - F.base

GoPush ==
    /\ InGo /\ Step /\ Top < MaxPushed
    /\ k' = Push(k, New)
    /\ Calm /\ UNCHANGED <<frames, callBase>>

\* callFromGo and pcallFromGo.
GoCall(n, want, f) ==
    /\ InGo /\ Step /\ n < Top
    /\ CallAt(k, F, F.base + n, Top - n - 1, want, f)

HostCall(n, f) ==
    /\ Running({"host"}) /\ Step /\ n < Top
    /\ CallAt(k, [F EXCEPT !.phase = "called"], F.base + n, Top - n - 1, Multi, f)

GoReturn(n) == InGo /\ Step /\ n <= Top /\ GoExit(k, Top - n)

StartPCall(f) ==
    /\ Running({"pcall"})
    /\ IF Top < 1 THEN Throw(k, frames, MissingArgument)
       ELSE CallAt(k, [F EXCEPT !.phase = "called"], F.base, Top - 1, Multi, f)
    /\ UNCHANGED steps

\* The handler changes places with the function.
StartXPCall(f) ==
    /\ Running({"xpcall"})
    /\ IF Top < 2 THEN Throw(k, frames, MissingArgument)
       ELSE CallAt(Cut(Write(Push(Push(k, k.slots[F.base]), k.slots[F.base + 1]), F.base,
                             <<k.slots[F.base + 1], k.slots[F.base]>>), k.top),
                   [F EXCEPT !.phase = "called"], F.base + 1, Top - 2, Multi, f)
    /\ UNCHANGED steps

BeginHandling ==
    /\ F.phase = "caught"
    /\ nonyieldable' = nonyieldable + 1 /\ inErrHandler' = inErrHandler + 1
    /\ Become([F EXCEPT !.phase = "ready"])
    /\ UNCHANGED <<k, callBase, upvals, openUpvals, steps>>

\* The handler's call begins where the protected call's frames began.
CallHandler(f) ==
    /\ F.phase = "ready" /\ ~f.meta
    /\ CallValue(Push(Push(k, k.slots[F.base]), F.err),
                 Caller(frames, [F EXCEPT !.phase = "handling"]), k.top, 1, 1, f)
    /\ UNCHANGED steps

FinishPCall ==
    /\ F.kind = "pcall" /\ F.phase \in {"ok", "failed"}
    /\ LET k1 == Push(k, IF F.phase = "ok" THEN True ELSE False)
       IN  GoExit(Write(k1, F.base, Values(k1, k1.top - 1, 1) \o Values(k1, F.base, Top)),
                  Top + 1)
    /\ UNCHANGED steps

FinishXPCall ==
    /\ F.kind = "xpcall" /\ F.phase \in {"ok", "failed", "errerr"}
    /\ LET k1 == IF F.phase = "ok" THEN k ELSE Cut(k, F.base + 2)
           k2 == IF F.phase = "errerr" THEN Write(k1, F.base + 1, <<ErrorInHandling>>) ELSE k1
           k3 == Write(Push(k2, Nil), F.base, <<IF F.phase = "ok" THEN True ELSE False>>)
       IN  GoExit(Cut(k3, k2.top), k2.top - F.base)
    /\ UNCHANGED steps

LuaNext ==
    \/ Load
    \/ \E r \in 1 .. F.live : Assign(r) \/ Capture(r)
    \/ \E u \in DOMAIN upvals : WriteUpval(u)
    \/ \E n \in 0 .. F.live : CloseScope(n) \/ OpReturn(n)
    \/ \E want \in Wants :
          \/ GetVarargs(want)
          \/ \E n \in 0 .. F.live, f \in Functions[Me] : OpCall(n, want, f)
    \/ \E f \in Functions[Me] : Operator(f) \/ Iterate(f)

LuaOpenNext ==
    \/ SetList
    \/ \E n \in 0 .. F.live :
          \/ OpReturnOpen(n)
          \/ \E f \in Functions[Me], want \in Wants : OpCallOpen(n, want, f)

GoNext ==
    \/ GoPush \/ BeginHandling \/ FinishPCall \/ FinishXPCall
    \/ \E n \in 0 .. Top :
          \/ GoReturn(n)
          \/ \E f \in Functions[Me] : HostCall(n, f) \/ \E want \in Wants : GoCall(n, want, f)
    \/ \E f \in Functions[Me] : StartPCall(f) \/ StartXPCall(f) \/ CallHandler(f)

Next ==
    \/ RaiseError
    \/ InLua /\ LuaNext
    \/ F.open /\ LuaOpenNext
    \/ F.kind # "lua" /\ GoNext

Spec == Init /\ [][Next]_vars

-----------------------------------------------------------------------------
(* Correctness                                                             *)

\* The registers of a Lua function that hold values, and the values of a Go
\* function; below the place of a call while that call is in progress.
Window(i) ==
    LET f == frames[i]
        calls == i < Me \/ f.phase \in {"caught", "ready"}
    IN  IF f.kind = "lua" THEN (IF f.open THEN k.top - f.base ELSE f.live)
        ELSE (IF calls THEN f.at ELSE k.top) - f.base

CellIn(slot) ==
    LET us == {u \in DOMAIN upvals : ~upvals[u].closed /\ upvals[u].slot = slot}
    IN  IF us = {} THEN 0 ELSE CHOOSE u \in us : TRUE

\* Every activation as it would be without a stack.
ActsOf ==
    [i \in DOMAIN frames |->
       LET f == frames[i] IN
         [kind |-> f.kind, max |-> f.max, vararg |-> f.vararg, want |-> f.want,
          open |-> f.open,
          phase |-> IF f.phase = "ready" THEN "caught" ELSE f.phase,
          err |-> f.err, fixed |-> IF f.open THEN f.live ELSE 0,
          regs |-> Values(k, f.base, Window(i)),
          cell |-> [r \in 1 .. Window(i) |-> CellIn(f.base + r - 1)],
          varargs |-> Values(k, f.base - f.nvar, f.nvar)]]

CellsOf == [u \in DOMAIN upvals |-> Read(upvals, u, k.slots)]

\* No slot outside the slice is used, a running Lua function has room for
\* all its registers, and top is at the end of a running Go function's stack.
StackInRange ==
    /\ k.ok /\ k.len <= Cap(k) /\ \A i \in DOMAIN frames : Window(i) >= 0
    /\ IF F.kind = "lua" THEN F.base + F.max <= k.len ELSE k.top = k.len

\* What an error unwinds is given back: the Go function that runs sees its
\* own values, and neither counter keeps a call that is over.
CountersBalanced ==
    LET Phase(p) == {i \in DOMAIN frames : frames[i].phase = p}
        gos == {i \in DOMAIN frames : frames[i].kind # "lua"}
        handlers == Cardinality(Phase("ready")) + Cardinality(Phase("handling"))
    IN  /\ callBase = frames[Largest(gos)].base
        /\ inErrHandler = handlers
        /\ nonyieldable = handlers + Cardinality({i \in gos : frames[i].kind = "quiet"})

\* An open upvalue is a captured local of a function that has not ended.
OpenUpvalsLive ==
    /\ \A u \in DOMAIN upvals :
          upvals[u].closed <=> \A i \in DOMAIN openUpvals : openUpvals[i] # u
    /\ \A i, j \in DOMAIN openUpvals :
          i < j => upvals[openUpvals[i]].slot > upvals[openUpvals[j]].slot
    /\ \A i \in DOMAIN openUpvals : \E j \in DOMAIN frames :
          /\ frames[j].kind = "lua"
          /\ upvals[openUpvals[i]].slot - frames[j].base \in 0 .. Window(j) - 1
=============================================================================
