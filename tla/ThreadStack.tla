----------------------------- MODULE ThreadStack -----------------------------
(***************************************************************************)
(* The value stack of a thread, pkg/vm/state.go: a Go slice and, beside    *)
(* its length, a top of its own.  Shortening the slice keeps what was      *)
(* above; growing it beyond its capacity copies what it had and no more.   *)
(* A use of a slot outside the slice would panic: it clears ok.            *)
(***************************************************************************)
EXTENDS CallValues, Sequences, FiniteSets

CONSTANT MinCap     \* the smallest capacity that reserve makes (16)

ASSUME CapAssumption == MinCap \in Nat

\* slots is the array behind the slice; cap(s.stack) is its size.
NewStack == [slots |-> [i \in 0 .. MinCap - 1 |-> Nil], len |-> 0, top |-> 0, ok |-> TRUE]
Cap(k)   == Cardinality(DOMAIN k.slots)

\* s.stack = s.stack[:n]
Reslice(k, n) == [k EXCEPT !.len = n, !.ok = @ /\ n \in 0 .. Cap(k)]

\* s.top = n; s.stack = s.stack[:n]
Cut(k, n) == [Reslice(k, n) EXCEPT !.top = n]

Grown(k, need, room) ==
    [k EXCEPT !.len = need,
              !.slots = [i \in 0 .. room - 1 |-> IF i < k.len THEN @[i] ELSE Nil]]

Extended(k, need, room) ==
    IF need <= k.len THEN k
    ELSE IF need <= Cap(k) THEN Reslice(k, need)
    ELSE Grown(k, need, room)

\* reserve, in terms of the length it has to reach.
ReserveTo(k, need) ==
    LET room == need + need \div 2
    IN  Extended(k, need, IF room < MinCap THEN MinCap ELSE room)

\* A fault: a Lua function goes on with a stack that a callee cut short.
NotReframed(k, need) == k

\* reframeStack.
Reframe(k, need) == Extended(k, need, need + need \div 2)

Values(k, from, n) == [i \in 1 .. n |-> k.slots[from + i - 1]]

Write(k, at, vals) ==
    [k EXCEPT !.slots = [i \in DOMAIN @ \cup at .. at + Len(vals) - 1 |->
                            IF i \in at .. at + Len(vals) - 1 THEN vals[i - at + 1] ELSE @[i]],
              !.ok = @ /\ (vals = <<>> \/ at + Len(vals) <= k.len)]

Copy(k, from, to, n) ==
    [Write(k, to, Values(k, from, n)) EXCEPT !.ok = @ /\ (n = 0 \/ from + n <= k.len)]

Nils(n) == [i \in 1 .. n |-> Nil]

Push(k, v) ==
    [Write(ReserveTo(k, k.top + 1), k.top, <<v>>) EXCEPT !.top = @ + 1]
=============================================================================
