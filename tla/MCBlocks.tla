------------------------------ MODULE MCBlocks ------------------------------
(***************************************************************************)
(* Small programs for CompiledBlocks: a loop, around a statement that has  *)
(* a body of its own, around declarations, captures and assignments; then  *)
(* a local and a closure that use the registers of the loop again.         *)
(***************************************************************************)
EXTENDS CompiledBlocks

Capture == <<Gen!Local, Gen!Closure(1)>>
Use     == {<<>>, Capture,
            <<Gen!Local, Gen!Local, Gen!Closure(1), Gen!Closure(2), Gen!Closure(1),
              Gen!Assign(1), Gen!Global(0)>>}

\* Bodies that may leave in one of the given ways.
Flat(ends) == {use \o end : use \in Use, end \in {<<>>} \cup {<<e>> : e \in ends}}

ForLoops(bodies) == {Gen!For(b) : b \in bodies} \cup {Gen!ForIn(b) : b \in bodies}
Whiles(bodies)   == {Gen!While(b) : b \in bodies}
Repeats(bodies)  == {Gen!Repeat(b) : b \in bodies}

Branches(bodies) == {Gen!Block(b) : b \in bodies} \cup {Gen!If(b) : b \in bodies}
                    \cup {Gen!IfElse(b, Capture) : b \in bodies}

\* A loop inside a loop, which its own break and continue leave.
Inner == ForLoops(Flat({Gen!Break, Gen!Continue}))
         \cup Whiles(Flat({Gen!Break, Gen!Continue}))
         \cup Repeats(Flat({Gen!Break}))

Around(pre, nested, post) == {a \o <<s>> \o z : a \in pre, s \in nested, z \in post}

Then(loops) == {<<loop>> \o Capture : loop \in loops}

Before == {<<>>, <<Gen!Local>>, Capture}
After  == {<<>>, Capture, <<Gen!Continue>>}

\* Loops in which continue closes what it jumps over.
Closing ==
    LET nested == Inner \cup Branches(Flat({Gen!Break, Gen!Continue}))
    IN  Whiles(Around(Before, nested, After))
        \cup ForLoops(Around(Before \cup {<<Gen!Closure(1)>>}, nested, After))

\* In a repeat loop a continue that jumps over no captured variable.
Repeating ==
    Repeats(Around(Before, Inner \cup Branches(Flat({Gen!Break}))
                           \cup {Gen!If(<<Gen!Continue>>)}, After))

\* A return that is not the last word before a CLOSEUPVALS that is needed.
Returning ==
    LET returns == Branches({use \o <<Gen!Return>> : use \in Use})
    IN  Whiles(Around({<<>>}, returns, After) \cup Around(Before, returns, {Capture}))
        \cup ForLoops(Around({<<>>}, returns, After))

Programs == {Chunk(p) : p \in Then(Closing \cup Repeating \cup Returning)}
=============================================================================
