---------------------------- MODULE MCCoroutine ----------------------------
(* Small instances of Coroutine for TLC. *)
EXTENDS Coroutine, TLC

CONSTANTS c1, c2, c3

ThreeCoroutines == {c1, c2, c3}
TwoCoroutines   == {c1, c2}
OneProtected    == {c1}
Nobody          == {}
OnlyMain        == {Main}
Everyone        == Coroutines \cup {Main}

\* Sound where no constant tells the coroutines apart.
Interchangeable == Permutations(Coroutines)
=============================================================================
