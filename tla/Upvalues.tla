------------------------------ MODULE Upvalues ------------------------------
(***************************************************************************)
(* Upvalues, pkg/vm/closure.go, and the list of open upvalues of a thread, *)
(* pkg/vm/execute.go and do.go.  An open upvalue stands for a slot of the  *)
(* stack, a closed one holds its value.  The list is linked in order of    *)
(* descending slots.                                                       *)
(***************************************************************************)
EXTENDS Integers, Sequences

\* upvals: every upvalue made so far.  open: the list, of indices into upvals.

OpenUpval(slot) == [closed |-> FALSE, slot |-> slot, value |-> 0]

\* upVal.read.
Read(upvals, u, stack) ==
    IF upvals[u].closed THEN upvals[u].value ELSE stack[upvals[u].slot]

\* How many upvalues at the head of the list stand for slots from level on:
\* the walks of findOrCreateUpval and closeUpvalsTo stop behind them.
AtOrAbove(upvals, open, level) ==
    CHOOSE n \in 0 .. Len(open) :
        /\ \A i \in 1 .. n : upvals[open[i]].slot >= level
        /\ n < Len(open) => upvals[open[n + 1]].slot < level

\* Those of them that findOrCreateUpval takes for the slot.
Hits(upvals, open, slot) ==
    {open[i] : i \in {j \in 1 .. AtOrAbove(upvals, open, slot) :
                        upvals[open[j]].slot = slot}}

\* findOrCreateUpval links a new upvalue in where its walk stopped.
Inserted(upvals, open, slot) ==
    LET n == AtOrAbove(upvals, open, slot)
    IN  [i \in 1 .. Len(open) + 1 |->
            IF i <= n THEN open[i]
            ELSE IF i = n + 1 THEN Len(upvals) + 1 ELSE open[i - 1]]

\* closeUpvalsTo: the list that is left, and the upvalues after it.
LeftOpen(upvals, open, level) ==
    SubSeq(open, AtOrAbove(upvals, open, level) + 1, Len(open))

ClosedFrom(upvals, open, level, stack) ==
    LET n == AtOrAbove(upvals, open, level)
    IN  [u \in DOMAIN upvals |->
            IF \E i \in 1 .. n : open[i] = u
            THEN [closed |-> TRUE, slot |-> upvals[u].slot,
                  value |-> stack[upvals[u].slot]]
            ELSE upvals[u]]
=============================================================================
