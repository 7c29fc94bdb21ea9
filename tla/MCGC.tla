-------------------------------- MODULE MCGC --------------------------------
(* Small instances of GC for TLC. *)
EXTENDS GC, TLC

CONSTANTS a, b, white0, white1

TwoObjects  == {a, b}
TwoWhites   == {white0, white1}
EitherWhite == Permutations(TwoWhites)

Kind(x, y) == a :> x @@ b :> y

\* Beside the main thread and the registry: a table or an upvalue over a
\* userdata, two tables, a coroutine, a weak table over a userdata or a string,
\* a closure with its environment.
Varied == {Kind("table", "udata"), Kind("upval", "udata"),
           Kind("table", "weak"), Kind("thread", "udata"),
           Kind("weak", "udata"), Kind("weak", "string"),
           Kind("closure", "table")}

TableOverUserdata == {Kind("table", "udata")}
ThreadAndUserdata == {Kind("thread", "udata")}
=============================================================================
