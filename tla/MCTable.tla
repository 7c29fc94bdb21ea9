------------------------------ MODULE MCTable ------------------------------
(* Small instances of Table for TLC. *)
EXTENDS Table, TLC

CONSTANTS a, b, v, w

\* The hash of a small integer has only zeros in its low bits (hashFloat), so
\* all integers share a main position.
TwoNames  == {a, b}
Collide   == [k \in Keys |-> CASE k = a -> 1 [] k = b -> 3 [] OTHER -> 0]
ToThree   == 1 .. 3
TwoValues == {v, w}

EitherValue == Permutations(Vals)
=============================================================================
