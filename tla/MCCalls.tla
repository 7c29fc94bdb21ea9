------------------------------- MODULE MCCalls -------------------------------
EXTENDS Calls

Lua(params, vararg, max) ==
    [kind |-> "lua", params |-> params, vararg |-> vararg, max |-> max, meta |-> FALSE]
Go(kind) == [kind |-> kind, params |-> 0, vararg |-> FALSE, max |-> 0, meta |-> FALSE]

Small == Lua(1, FALSE, 2)
Large == Lua(2, TRUE, 4)
ViaCall(f) == [f EXCEPT !.meta = TRUE]

SomeFunctions ==
    <<{ViaCall(Large)},
      {Small, Go("pcall"), ViaCall(Go("xpcall"))},
      {Small, Go("quiet"), Go("pcall")},
      {Small}>>
SomeWants == {1, Multi}

\* What the stack stands for, as variables of their own: TLC would otherwise
\* work them out anew wherever Activations mentions them.
VARIABLES acts, cells

MCVars == <<vars, acts, cells>>
MCInit == Init /\ acts = ActsOf /\ cells = CellsOf
MCNext == Next /\ acts' = ActsOf' /\ cells' = CellsOf'
MCSpec == MCInit /\ [][MCNext]_MCVars

\* Sharing one stack keeps the promise of calls: see Activations.
Promised == INSTANCE Activations
ImplementsActivations == Promised!Spec
=============================================================================
