----------------------------- MODULE CallValues -----------------------------
(***************************************************************************)
(* The values that calls pass around.  Positive numbers are values that    *)
(* programs make, each of them once.                                       *)
(***************************************************************************)
EXTENDS Integers

Nil == 0
True == -1
False == -2
Metamethod == -3        \* what a value's __call field holds
Overflow == -4          \* "stack overflow"
ErrorInHandling == -5   \* "error in error handling"
MissingArgument == -6   \* "missing argument #1 to 'pcall'" and the like

\* As a number of results: all of them (MultRet).
Multi == -1

\* A bound: a Go function pushes no more once it has so many values.
MaxPushed == 2
=============================================================================
