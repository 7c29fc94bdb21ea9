--------------------------- MODULE CompiledBlocks ---------------------------
(***************************************************************************)
(* Compiled statements on the interpreter, compared with what the program  *)
(* says: Codegen makes the code, BlockVM runs it, LuaBlocks says what must *)
(* be observed.  A chunk carries the program it was compiled from.         *)
(***************************************************************************)
EXTENDS BlockVM

Gen == INSTANCE Codegen

Chunk(program) == LET b == Gen!Compiled(program)
                  IN  [program |-> program, code |-> b.code,
                       maxStack |-> b.maxStack]

\* The run is over, or stands before something that is left open.
Settled == pc = -1 \/ At("eval") \/ At("fornprep") \/ At("fornloop")
                   \/ At("forgloop")

\* Compiled code does what the program says: the same statements in the same
\* order, on the same variables, and every closure reads the variable it
\* captured, however often its register has been used again since
\* (compiler.go:214-224: "Without this, when the block's stack slots are
\* reused ... the still-open upvalue would alias the new occupant").
RunsAsWritten ==
    Settled =>
        LET run == Gen!RunAll(Gen!NewRun(outcomes), chunk.program)
        IN  /\ seen = run.seen
            /\ run.end = "cut" <=> pc # -1
=============================================================================
