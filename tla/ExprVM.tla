------------------------------- MODULE ExprVM -------------------------------
(***************************************************************************)
(* The interpreter on the code of expressions, pkg/vm/execute.go: loads,   *)
(* moves, operations, calls and returns, closures and upvalues.  Every     *)
(* frame has registers of its own here (how frames share one stack is in   *)
(* Calls); what a call may have overwritten in its caller is lost, and an  *)
(* upvalue stands for the register of its variable for ever (how it is     *)
(* closed is in Upvalues).                                                 *)
(***************************************************************************)
EXTENDS LuaTerms, SequencesExt, FiniteSets

CONSTANTS Chunks,      \* what may be run: records with protos, the main last
          MaxOutcomes, \* how many outcomes are decided at most
          ChunkSize, KLimit, IndexLimit  \* limits of the compiler, see ExprCodegen

ASSUME LimitsAssumption == ChunkSize \in Nat \ {0} /\ KLimit \in Nat /\ IndexLimit \in Nat

VARIABLES chunk,    \* the chunk that runs
          frames,   \* the frames, the running one last
          regs,     \* the registers of every frame there ever was
          closures, \* the closures: function and upvalues
          lists,    \* the list items that tables were given by SETLIST
          events,   \* history: what was done to values of the host
          outcomes, \* history: how that came out
          results   \* what the main function returned

vars == <<chunk, frames, regs, closures, lists, events, outcomes, results>>

\* What a register holds that was not written.
Junk == Node("junk", "", 0, <<>>)

Frame == Last(frames)
Proto == chunk.protos[Frame.proto]
Here  == Frame.pc                 \* the word under execution, from 0
Word  == Proto.code[Here + 1]
Next1 == Proto.code[Here + 2]     \* the word behind it, its AUX word
R(a)  == IF a \in DOMAIN regs[Frame.uid] THEN regs[Frame.uid][a] ELSE Junk
K(d)  == Proto.constants[d + 1]

Running   == frames # <<>>
At(ops)   == Running /\ Here < Len(Proto.code) /\ Word.op \in ops
Fresh     == Len(events) + 1

\* Registers from a on hold the values.
Put(old, a, values) ==
    [r \in DOMAIN old \cup a .. a + Len(values) - 1 |->
        IF r \in a .. a + Len(values) - 1 THEN values[r - a + 1] ELSE old[r]]


\* A call returned to a function with so many registers: its frame lay over
\* those from a on.
PutOver(old, size, a, values) ==
    Put([r \in 0 .. size - 1 |-> IF r >= a THEN Junk ELSE old[r]], a, values)

Slice(a, n) == [i \in 1 .. n |-> R(a + i - 1)]

NewFrame(proto, uid, args, cells, dest, want) ==
    [proto |-> proto, uid |-> uid, pc |-> 0, top |-> 0, cells |-> cells,
     varargs |-> SubSeq(args, chunk.protos[proto].params + 1, Len(args)),
     dest |-> dest, want |-> want]

\* callLua clears the registers, and places the arguments.
NewRegs(proto, args) ==
    Put([r \in 0 .. proto.maxStack - 1 |-> Junk], 0, Adjusted(args, proto.params))

Init ==
    /\ chunk \in Chunks
    /\ frames = <<[proto |-> Len(chunk.protos), uid |-> 1, pc |-> 0, top |-> 0, cells |-> <<>>,
                   varargs |-> chunk.varargs, dest |-> 0, want |-> -1]>>
    /\ regs = <<[r \in 0 .. Last(chunk.protos).maxStack - 1 |-> Junk]>>
    /\ closures = <<>> /\ lists = <<>> /\ events = <<>> /\ outcomes = <<>> /\ results = <<>>

Jump(d) == frames' = [frames EXCEPT ![Len(frames)].pc = @ + 1 + d]
Set(a, value) == regs' = [regs EXCEPT ![Frame.uid] = Put(@, a, <<value>>)]

NoEvent == UNCHANGED <<events, outcomes>>
Record(op, operands) == events' = Append(events, <<op, operands>>)
Same    == UNCHANGED <<chunk, results>>
NoData  == UNCHANGED <<closures, lists>> /\ Same

Load ==
    /\ At({"loadnil", "loadn", "loadk"})
    /\ Set(Word.a, CASE Word.op = "loadnil" -> Nil
                     [] Word.op = "loadn"   -> Number(Word.b)
                     [] Word.op = "loadk"   -> K(Word.b))
    /\ Jump(0) /\ NoEvent /\ NoData

\* LOADB may skip the words behind it.
LoadB ==
    /\ At({"loadb"})
    /\ Set(Word.a, IF Word.b = 1 THEN True ELSE False)
    /\ Jump(Word.c) /\ NoEvent /\ NoData

Move ==
    /\ At({"move"})
    /\ Set(Word.a, R(Word.b))
    /\ Jump(0) /\ NoEvent /\ NoData

PrepVarargs == At({"prepvarargs"}) /\ Jump(0) /\ UNCHANGED regs /\ NoEvent /\ NoData

GetGlobal ==
    /\ At({"getglobal"})
    /\ Record("getglobal", <<K(Next1.b)>>)
    /\ Set(Word.a, Token(Fresh, 0))
    /\ Jump(1) /\ UNCHANGED outcomes /\ NoData

SetGlobal ==
    /\ At({"setglobal"})
    /\ Record("setglobal", <<K(Next1.b), R(Word.a)>>)
    /\ Jump(1) /\ UNCHANGED <<regs, outcomes>> /\ NoData

Cell(i) == Frame.cells[i + 1]

GetUpval ==
    /\ At({"getupval"})
    /\ Set(Word.a, regs[Cell(Word.b).uid][Cell(Word.b).reg])
    /\ Jump(0) /\ NoEvent /\ NoData

SetUpval ==
    /\ At({"setupval"})
    /\ regs' = [regs EXCEPT ![Cell(Word.b).uid] = Put(@, Cell(Word.b).reg, <<R(Word.a)>>)]
    /\ Jump(0) /\ NoEvent /\ NoData

\* GETTABLE, GETTABLEKS, GETTABLEN.
GetTable ==
    /\ At({"get", "getks", "getn"})
    /\ Record("index", <<R(Word.b), CASE Word.op = "get"   -> R(Word.c)
                                      [] Word.op = "getks" -> K(Next1.b)
                                      [] Word.op = "getn"  -> Number(Word.c + 1)>>)
    /\ Set(Word.a, Token(Fresh, 0))
    /\ Jump(IF Word.op = "getks" THEN 1 ELSE 0) /\ UNCHANGED outcomes /\ NoData

SetTable ==
    /\ At({"set", "setks", "setn"})
    /\ Record("set", <<R(Word.b), CASE Word.op = "set"   -> R(Word.c)
                                    [] Word.op = "setks" -> K(Next1.b)
                                    [] Word.op = "setn"  -> Number(Word.c + 1), R(Word.a)>>)
    /\ Jump(IF Word.op = "setks" THEN 1 ELSE 0) /\ UNCHANGED <<regs, outcomes>> /\ NoData

\* Arithmetic, with a register or a constant on the right, minus and length.
Arithmetic ==
    /\ At({"add", "sub", "addk", "subk"})
    /\ Record(IF Word.op \in {"add", "addk"} THEN "add" ELSE "sub",
              <<R(Word.b), IF Word.op \in {"add", "sub"} THEN R(Word.c) ELSE K(Word.c)>>)
    /\ Set(Word.a, Token(Fresh, 0))
    /\ Jump(0) /\ UNCHANGED outcomes /\ NoData

UnaryOperation ==
    /\ At({"minus", "length"})
    /\ Record(Word.op, <<R(Word.b)>>)
    /\ Set(Word.a, Token(Fresh, 0))
    /\ Jump(0) /\ UNCHANGED outcomes /\ NoData

NotOperation ==
    /\ At({"not"})
    /\ Set(Word.a, Not(R(Word.b)))
    /\ Jump(0) /\ NoEvent /\ NoData

\* doConcat works in its operands' registers.
Concat ==
    /\ At({"concat"})
    /\ LET n == Word.c - Word.b + 1 IN
       /\ Record("concat", Slice(Word.b, n))
       /\ regs' = [regs EXCEPT ![Frame.uid] =
                     Put(Put(@, Word.b, [i \in 1 .. n |-> Junk]), Word.a, <<Token(Fresh, 0)>>)]
    /\ Jump(0) /\ UNCHANGED outcomes /\ NoData

JumpAlways == At({"jump"}) /\ Jump(Word.b) /\ UNCHANGED regs /\ NoEvent /\ NoData

JumpOnValue ==
    /\ At({"jumpif", "jumpifnot"})
    /\ Jump(IF Truthy(R(Word.a)) = (Word.op = "jumpif") THEN Word.b ELSE 0)
    /\ UNCHANGED regs /\ NoEvent /\ NoData

MayDecide(n) ==
    /\ Len(outcomes) < MaxOutcomes
    /\ outcomes' = Append(outcomes, n)

\* The offset is counted from the word behind the jump, which is skipped when
\* the jump is not taken.
JumpOnComparison(n) ==
    /\ At({"jumpifeq", "jumpifnoteq", "jumpiflt", "jumpifle"})
    /\ n \in {1, 2} /\ MayDecide(n)
    /\ Record(CASE Word.op = "jumpiflt" -> "lt"
                [] Word.op = "jumpifle" -> "le"
                [] OTHER -> "eq", <<R(Word.a), R(Next1.b)>>)
    /\ Jump(IF (n = 2) # (Word.op = "jumpifnoteq") THEN Word.b ELSE 1)
    /\ UNCHANGED regs /\ NoData

\* NEWTABLE has an AUX word, DUPTABLE has none.
NewTable ==
    /\ At({"newtable", "duptable"})
    /\ Record("table", <<>>)
    /\ Set(Word.a, Token(Fresh, 0))
    /\ Jump(IF Word.op = "newtable" THEN 1 ELSE 0) /\ UNCHANGED outcomes /\ NoData

\* How many values follow register a: all up to top, or as the word says.
CountFrom(a, field) == IF field = 0 THEN Frame.top - a ELSE field - 1

ListOf(table) == IF \E i \in DOMAIN lists : lists[i][1] = table
                 THEN CHOOSE i \in DOMAIN lists : lists[i][1] = table
                 ELSE Len(lists) + 1

SetList ==
    /\ At({"setlist"})
    /\ LET i     == ListOf(R(Word.a))
           items == Slice(Word.b, CountFrom(Word.b, Word.c))
       IN  lists' = IF i > Len(lists) THEN Append(lists, <<R(Word.a), items>>)
                    ELSE [lists EXCEPT ![i][2] = SubSeq(@, 1, Next1.b - 1) \o items]
    /\ Jump(1) /\ UNCHANGED <<regs, closures>> /\ NoEvent /\ Same

GetVarargs ==
    /\ At({"getvarargs"})
    /\ LET all  == Frame.varargs
           n    == IF Word.b = 0 THEN Len(all) ELSE Word.b - 1
       IN  /\ regs' = [regs EXCEPT ![Frame.uid] = Put(@, Word.a, Adjusted(all, n))]
           /\ frames' = [frames EXCEPT ![Len(frames)].pc = @ + 1,
                                       ![Len(frames)].top = IF Word.b = 0 THEN Word.a + n
                                                            ELSE @]
    /\ NoEvent /\ NoData

\* The CAPTUREs behind a NEWCLOSURE belong to it.
NewClosure ==
    /\ At({"newclosure"})
    /\ LET n == Len(chunk.protos[Word.b].upvals)
           cell(i) == LET w == Proto.code[Here + 1 + i]
                      IN  IF w.a = 1 THEN [uid |-> Frame.uid, reg |-> w.b] ELSE Cell(w.b)
       IN  /\ closures' = Append(closures, [proto |-> Word.b,
                                            cells |-> [i \in 1 .. n |-> cell(i)]])
           /\ Jump(n)
    /\ Set(Word.a, ClosureValue(Len(closures) + 1))
    /\ NoEvent /\ UNCHANGED lists /\ Same

\* NAMECALL: the method, and behind it its object.
NameCall ==
    /\ At({"namecall"})
    /\ Record("namecall", <<R(Word.b), K(Next1.b)>>)
    /\ regs' = [regs EXCEPT ![Frame.uid] = Put(@, Word.a, <<Token(Fresh, 0), R(Word.b)>>)]
    /\ Jump(1) /\ UNCHANGED outcomes /\ NoData

Args == Slice(Word.a + 1, CountFrom(Word.a + 1, Word.b))

CallClosure ==
    /\ At({"call"}) /\ R(Word.a).is = "closure"
    /\ LET c   == closures[R(Word.a).n]
           uid == Len(regs) + 1
       IN  /\ frames' = Append(frames, NewFrame(c.proto, uid, Args, c.cells, Word.a,
                                                Word.c - 1))
           /\ regs' = Append(regs, NewRegs(chunk.protos[c.proto], Args))
    /\ NoEvent /\ NoData

\* What a caller gets: as many results as it wants, or all of them and top.
Returned(frame, dest, want, values) ==
    [frame EXCEPT !.pc = @ + 1, !.top = IF want = -1 THEN dest + Len(values) ELSE @]
Wanted(want, values) == IF want = -1 THEN values ELSE Adjusted(values, want)

\* A call of the host; outcomes that the caller cannot tell apart are left out.
CallHost(n) ==
    /\ At({"call"}) /\ R(Word.a).is # "closure"
    /\ n \in CASE Word.c = 1 -> {0} [] Word.c = 2 -> {1, 2} [] OTHER -> {0, 2, 3}
    /\ MayDecide(n)
    /\ Record("call", <<R(Word.a)>> \o Args)
    /\ LET values == Outcome(n, Fresh)
           want   == Word.c - 1
       IN  /\ regs' = [regs EXCEPT ![Frame.uid] =
                         PutOver(@, Proto.maxStack, Word.a, Wanted(want, values))]
           /\ frames' = [frames EXCEPT ![Len(frames)] =
                            Returned(@, Word.a, want, values)]
    /\ NoData

Return ==
    /\ At({"return"})
    /\ LET values == Slice(Word.a, CountFrom(Word.a, Word.b))
           caller == Len(frames) - 1
       IN  IF caller = 0
           THEN results' = values /\ frames' = <<>> /\ regs' = regs
           ELSE /\ frames' = [Front(frames) EXCEPT ![caller] =
                                 Returned(@, Frame.dest, Frame.want, values)]
                /\ regs' = [regs EXCEPT ![frames[caller].uid] =
                              PutOver(@, chunk.protos[frames[caller].proto].maxStack,
                                      Frame.dest, Wanted(Frame.want, values))]
                /\ UNCHANGED results
    /\ NoEvent /\ UNCHANGED <<chunk, closures, lists>>

Next ==
    \/ Load \/ LoadB \/ Move \/ PrepVarargs \/ GetGlobal \/ SetGlobal
    \/ GetUpval \/ SetUpval \/ GetTable \/ SetTable \/ Arithmetic
    \/ UnaryOperation \/ NotOperation \/ Concat \/ JumpAlways \/ JumpOnValue
    \/ NewTable \/ SetList \/ GetVarargs \/ NewClosure \/ NameCall
    \/ CallClosure \/ Return
    \/ \E n \in 0 .. 3 : JumpOnComparison(n) \/ CallHost(n)

Spec == Init /\ [][Next]_vars

-----------------------------------------------------------------------------
(* Compared with what the program says: ExprCodegen makes the code,        *)
(* LuaExpressions says what must happen.                                   *)

Gen == INSTANCE ExprCodegen

Chunk(program, varargs) ==
    [program |-> program, protos |-> Gen!Compiled(program), varargs |-> varargs]

Bigger(m, n) == IF m > n THEN m ELSE n

\* Type invariant: the code is left by a RETURN only.
TypeOK ==
    \A i \in DOMAIN frames :
        LET f == frames[i] IN
        /\ f.pc \in 0 .. Len(chunk.protos[f.proto].code) - 1
        /\ chunk.protos[f.proto].code[f.pc + 1].op \notin {"aux", "capture"}

\* No register is written beyond those the function asks for, but for all the
\* results of a call, and where a function ends the compiler has released every
\* temporary ("releaseTempIfTop frees the register r if it was a temporary at
\* the top", compiler.go:1496): only the variables still hold registers.
RegistersHeld ==
    /\ \A i \in DOMAIN frames :
          LET f == frames[i] IN
          DOMAIN regs[f.uid] \subseteq 0 .. Bigger(chunk.protos[f.proto].maxStack, f.top) - 1
    /\ \A i \in DOMAIN chunk.protos :
          chunk.protos[i].top = Cardinality(DOMAIN chunk.protos[i].locals)

\* The run is over, or stands before something that is left open.
Settled == \/ ~Running
           \/ At({"jumpifeq", "jumpifnoteq", "jumpiflt", "jumpifle"})
           \/ At({"call"}) /\ R(Word.a).is # "closure"

Agrees(run) ==
    /\ events = run.events
    /\ run.end = "cut" <=> Running
    /\ ~Running => /\ results = IF run.end = "return" THEN run.val ELSE <<>>
                   /\ ToSet(lists) = ToSet(run.lists)

\* Compiled code evaluates what the program says, in its order, each part
\* once, on the right operands; variables, upvalues, list items, results and
\* arguments get the values they should, however registers are shared by
\* operands, chunks of list items, targets and the results of calls
\* (compiler.go:419-426: "every LHS target's table and key sub-expressions
\* must be evaluated BEFORE any of the LHS slots are written").
EvaluatesAsWritten ==
    Settled => Agrees(Gen!ExecAll(Gen!NewRun(outcomes, chunk.varargs), chunk.program))
=============================================================================
