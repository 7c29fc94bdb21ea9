# Verification of luaugo

luaugo is a Luau toolchain and virtual machine written in Go.  This directory
holds TLA+ models of the parts of it whose correctness depends on the order of
events, TLC configurations that check them on small instances, and theorems
about them checked by TLAPS.  `PROJECT.json` lists components, runs, mutants,
the source lines of every definition, findings, hazards and theorems.

    tlc -workers 2 -config MCCoroutineSafety.cfg MCCoroutine
    tlapm Coroutine_proofs.tla

## 1. Inventory

| Component | State it keeps | Operations | Hard behaviours |
|---|---|---|---|
| Coroutine scheduler (`pkg/vm/thread.go`, `lib/coroutine.go`, parts of `api.go`, `state.go`) | per coroutine a goroutine, two channels, `started`, `finished`, `parkedOn`, `status`; per VM a mutex, `resumeDepth`, `liveCoroutines` | Resume, ResumeError, Yield, body start and end, CoStatus, close, State.Close | goroutines hand control over with messages and a mutex; refused resumes; panics that unwind; shutdown |
| Garbage collector (`gc.go`, `closure.go`, `mem.go`) | colour of each object, all-objects list, gray, grayAgain and weak lists, phase, current white, sweep cursor | gcStep, fullGC, atomic, barriers, sweep | the program mutates the heap between two collector steps |
| Lua tables (`table.go`, `tablex.go`) | array part, node part with relative chains, `lastfree` | get, set, next, length, rehash, clear, clone | relinking of collision chains, growth while inserting, erasing while iterating |
| Calls and protected calls (`do.go`, `fenv.go`) | frames, stack top, `nonyieldable`, `inErrHandler`, open upvalues | call, return, pcall, xpcall | unwinding by panic at any depth, errors in error handlers |
| Upvalues (`closure.go`, `execute.go`) | list of open upvalues per thread, sorted by stack index | find or create, read, write, close | sharing of one variable by several closures, before and after it is closed |
| Interpreter (`execute.go`, `arith.go`, `compare.go`, `tm.go`, `builtins.go`) | registers, program counter | one per opcode | safepoints of the collector, metamethod calls |
| Host API and stack (`api.go`, `state.go`, `auxlib.go`) | stack, call base | push, pop, index, move | frame-relative indices |
| Strings (`string.go`) | intern table | intern | none: an interned string is never removed (`state.go:760`) |
| Per-VM side tables (`thread.go`, `load.go`, `lib/math.go`) | process-wide maps keyed by VM, one random generator | lookup, insert | several VMs in one process, nothing is deleted |
| Table library (`lib/table.go`) | none of its own | sort, insert, remove, move, find, clone, freeze | a comparator that is no order, or that writes, resizes or freezes the table being sorted |
| String library (`lib/string.go`) | one array of captures per match, `matchDepth`, the first error | doMatch and its helpers; find, match, gmatch, gsub, sub, byte, rep, split | backtracking over captures that all alternatives share, recursion limits, empty matches |
| Other libraries (`pkg/vm/lib`) | none, except the random generator | one function each | the random generator serves every VM |
| Bytecode (`pkg/bytecode`, `compiler/builder.go`, `vm/debug.go`) | cursor | encode, decode, varint, pack and look up lines | widths, truncation, arbitrary bytes |
| Compiler (`pkg/compiler`) | registers, jump lists, constants | one per syntax node | register reuse, jump ranges |
| Lexer, parser (`pkg/ast`) | cursor, two tokens in view, brace stack, local stack and map, function stack, errors | tokens, one function per production | recovery after errors, contextual keywords, splitting `>>`, scopes |
| Tools (`cmd`, `internal/clitool`, `internal/upstreamvm`) | none | files, flags, subprocesses | pure I/O |

**How they interact.**  The interpreter calls library functions on the same Go
stack; a library function may call back into Lua (`callFromGo`,
`pcallFromGo`) or resume a coroutine, which blocks the goroutine on a channel
until the coroutine yields.  The collector runs on the goroutine that executes
the VM, at safepoints of the interpreter and in `collectgarbage`.  All threads
of a VM share one `globalState`; the only locking is the per-VM mutex that a
coroutine's goroutine takes while it executes.  The main thread takes no lock.

**What makes each correct.**  Scheduler: one goroutine executes at a time,
messages and the mutex never get out of step, control arrives where it was
sent, Close ends everything, `coroutine.status` is true.  Collector: nothing
the program can still use is collected, garbage is, weak tables hold no
collected object.  Tables: they are finite maps, iteration visits each entry
once.  Calls: after a protected call everything is as before but the result.
Upvalues: one variable, one cell.  Compiler: each part of an expression is
evaluated once, in order.  Parser: the tree stands for the text.  Sort: a
permutation, in range, terminating.  Matcher: the answer the pattern's meaning
gives, and nothing left behind by an alternative that failed.  Bytecode: what
is decoded is what was encoded, and a broken file is refused.

## 2. Modules

| Module | What it models |
|---|---|
| `Coroutine` | the goroutine-level scheduler, one action per step between two points where another goroutine can interfere |
| `CoroutineChain` | what Lua promises about coroutines: a chain of threads of which the last one runs |
| `MCCoroutine` | instances with two and three coroutines |
| `Coroutine_proofs` | seven theorems about `Coroutine`, the implementation of `CoroutineChain` among them |
| `GC` | the collector and a program that mutates the heap between its steps |
| `MCGC` | seven small heaps |
| `GC_proofs` | six theorems: colours, barriers, what a collection leaves and what it takes |
| `Lemmas` | what several proofs rest on: induction and recursion over an interval of integers, and the two operations on the list of open upvalues |
| `TableMap` | what a Lua table promises: a finite map and a traversal that visits each entry once |
| `TableNodes` | the node part: main positions, relative collision chains, `getFreePos`, the relinking of an insertion |
| `Table` | both parts of a table, rehash, the operations of a program on it |
| `MCTable` | tables with three integer keys and two colliding names |
| `Table_proofs` | six theorems about `Table`, the implementation of `TableMap` among them |
| `LuaBlocks` | what Lua promises about blocks, loops, variables and closures: a definitional interpreter without registers |
| `Upvalues` | an upvalue and the thread's list of open ones: find or create, close, read |
| `Codegen` | code generation for statements: scopes, registers, jumps and their patching, CLOSEUPVALS |
| `BlockVM` | the interpreter on one frame, for arbitrary code |
| `BlockVM_proofs` | three theorems about `BlockVM` |
| `CompiledBlocks` | composes the three: code made by `Codegen`, run by `BlockVM`, compared with `LuaBlocks` |
| `MCBlocks` | small programs, enumerated from statement shapes |
| `LuaTerms` | syntax and values of one shape, shared by the next modules |
| `LuaExpressions` | what Lua promises about expressions, assignments, calls and functions: an interpreter without registers |
| `ExprCodegen` | code generation for expressions: targets, temporaries, jumps of conditions, constants, closures, multiple assignment |
| `ExprVM` | the interpreter on that code; composes the three |
| `MCExpressions` | small programs of nested expressions |
| `CallValues` | the values that calls pass, shared by the two next modules |
| `Activations` | what Lua promises about calls: activations with variables of their own, and no stack |
| `ThreadStack` | the value stack: a slice with a capacity, and a top of its own |
| `Calls` | calls, returns, errors, pcall and xpcall on one such stack |
| `Calls_proofs` | three theorems about `Calls` |
| `MCCalls` | functions that call each other up to the depth limit |
| `Tokens` | tokens and their classes, the lexer's brace stack and lookahead |
| `Grammar` | what a tree means: the text it stands for, the trees the grammar allows, the declaration each name refers to |
| `Parser` | the recursive descent with its recovery and its scopes |
| `MCParser` | sentences put together from phrases, and free texts |
| `TableSort` | `table.sort`: introsort with a comparator that runs between its steps |
| `TableSort_proofs` | four theorems about `TableSort` and `TableLibrary` |
| `TableLibrary` | the other operations of the table library on the same table |
| `PatternMatch` | the pattern matcher, with its activations, captures and limits |
| `StringLibrary` | the functions around it, and those that cut and join |
| `StringLibrary_proofs` | a theorem about the captures of a match |
| `Patterns` | what a pattern means, without backtracking, and what the functions promise |
| `MCLibrary` | small tables, and calls of the string library |
| `Encoder` | varints and words at their widths, the packing of line tables, a module as bytes |
| `Decoder` | reading it back, whole, cut or changed |
| `MCBytecode` | small modules of every version |

### Coroutine

`pc[t]` is the place where the goroutine of thread `t` stands: `Resume` takes a
thread from `run` through `rsend` (before the send on `resumeCh`), `runlock`
(before `mu.Unlock`), `rwait` (at `<-yieldCh`) and, for `ResumeError`, `relock`
back to `run`.  A coroutine's goroutine starts at `recv`, takes the mutex at
`lock0`, and leaves `run` through `yunlock`, `parked`, `lock` when it yields or
`fsend`, `funlock`, `done` when its body ends.  `call`, `msg`, `resumeCh`,
`yieldCh`, `mu`, `parkedOn`, `status`, `depth`, `live` are the fields and
channels of the code; `Started` and `Finished` are functions of `pc`.  What a
Lua program does is nondeterministic: it creates, resumes, yields, fails,
returns, closes, enters and leaves regions in which it must not yield
(`region`), in any order.  Values are abstracted: a message is its kind.

The main thread takes no lock, so mutual exclusion is a property of the
protocol (the token is either with one executing goroutine or in one message),
not of the mutex.

### GC

One step is one object's worth of collector work: `MarkRoots`, `Propagate`,
`PropagateAgain`, the steps of `atomic()` (`AtomicBegin` ... `AtomicEnd`, during
which the program cannot run), `SweepStep`.  A full collection (`FullGC`) sets
`job`, which keeps the program waiting until the cycle it started is over.
`gcStep` with a large budget runs several of these steps with no program step
in between, which is one of the behaviours of the model.  The program works on
the stack of the running thread: it allocates, drops locals, reads and writes
table entries, metatables and upvalues, and resumes coroutines.  The objects of
a heap have kinds; `refs` holds a table's entries or a thread's stack and
`slot` the single reference of a metatable or a closed upvalue.  `gray` and
`grayAgain` are sets: the code's lists are stacks, but in which order a
table's entries are pushed depends on hash values.  `weak` is a sequence,
because `barrierTable` reuses the link of a table that stands on that list and
so cuts it (`CutBehind`).

Four writes have no barrier: `SetList` (the items of a table constructor, into a
table that a safepoint between the items may have blackened), `SetMetatable` of
the host API, `SetClosureEnvAt` behind setfenv, and `CloseUpval`.  `bare` is the
history of what they do: the references to a white object that were last stored
in a black one by such a write.  `SetField`, which stands for all other stores
of a table entry, `SetMetatableFast` and `WriteUpval` call theirs.

Abstractions: a closure is its environment, its upvalues are objects of their
own; a weak table has weak values; the
metatable that makes a table weak is not an object of the heap; an object's
memory is never reused, as in Go.

### Table

`t` is one `Table`: `array` is the array part, `nodes` the node part as a
function from positions (counted from 0, as in the code) to records of key,
value and relative `next`, `lastfree` the cursor of `getFreePos`.  `items` and
`listed` say how far a constructor has stored its list items; `at` and `seen`
are a traversal with `next`: the last key and value it returned, and the keys
it has been through.  `Set` is an assignment (or an erasure, or the collector
clearing a weak entry, which keeps the key).  `SetList` is one SETLIST
instruction, `ClearTable` and `CloneTable` are `table.clear` and `table.clone`,
`Begin` and `Advance` are calls of `next`.

An absent key makes `set`, `installNewHashKey`, `rehash` and `resize` call each
other: a rehash stores what it displaces with `set`.  `todo` is the stack of the
calls of `set` that wait, the innermost first, and `Continue` the next thing the
innermost one does (`SetStep` before it has gone on to `installNewHashKey`,
`PlaceStep` after): it stores its entry and returns, or rehashes and waits
behind the calls for what it has displaced.  Nothing else happens to the table
until the stack is empty (`Ready`), as in the code, where all of it is one call.
`rehashes` counts the rehashes of the operation in progress up to `MaxRehashes`.

Neither module has a recursive operator: searches along a chain, the walk back
to a predecessor and the binary search of `rawLen` are recursive functions, so
that theorems can be stated about them.  `Table` implements `TableMap` under the
mapping `Contents`, which reads every key with `get`, or from the call that waits
to store it; the map is busy while calls wait.

Abstractions: a key is an integer or an opaque name with a given hash (small
integers all hash to main position 0, because `hashFloat` mixes the bits of a
float whose low half is zero); the frozen flag, the metamethod cache, and the
index cursor of FORGLOOP are left out; an assignment to an absent key ends the
traversal, since Lua does not define what it would do.

### Blocks

A statement is a record; a program is a sequence of them.  `Codegen` has one
operator per function of `compiler.go` that compiles a statement; each takes
the builder (`code`, `top`, `maxStack`, the registers of the locals in scope,
the innermost loop with its lists of jumps to patch) and returns it with words
added.  A word is a record with an opcode, `A` and `D`; AUX words are words of
their own, as in the code, because two decisions look at them.  `BlockVM` runs
such words: `pc` counts words from 0, `regs` are the registers of the frame,
`upvals` all upvalues ever made, `open` the linked list of open ones, `closures`
what each closure captured.  Its actions are the cases of `Execute`; `Return`
includes `closeUpvalsTo(base)`.

Expressions are abstracted: a condition is one word (`eval`) that the run
decides on, a value is one word that loads a new number.  As every value is
new, it says which declaration or assignment it came from, and a closure that
reads another variable than the one it captured shows in `seen`.  Numeric and
generic loops end when the run decides so, once per check of their limit.

`BlockVM` knows nothing of the compiler: its `Chunks` are any code that does
not jump before its beginning and reads only registers it has.  That is what
its theorems are about.  `CompiledBlocks` then gives it compiled programs.

### Calls

`k` is the stack of a thread: `slots` is the array behind the Go slice, `len`
its length and `top` the thread's `top`, which the code moves independently.
`ok` becomes false when a slot outside the slice is used, which would panic in
Go.  `frames` are the callInfos; a frame also holds what the Go function that
works on it keeps in its variables across a call: which call it is (`op`:
OpCall, a binary operator's metamethod, the generator of a for loop), where the
call's function is (`at`), the saved top, length and callBase.  `live` is the
number of registers that hold values and `open` says that all results of the
last call follow them, up to top.  A protected call is in the phase `called`
while its function runs, `caught` and `ready` between the recover and the
handler's call, `handling` while that runs; `ok`, `failed` and `errerr` are its
three outcomes, after which basePCall or baseXPCall puts the status below the
values (`FinishPCall`, `FinishXPCall`).

`CallLua` is callLua step by step: padding, the rotation of varargs, covering
the arguments, clearing the registers, pushFrame.  `ReturnFromFrame` and
`GoExit` are the two ways back; both end in what the caller does next
(`StackFor`, `FrameFor`), because in the code that is the same Go call
returning.  `Throw` is a panic: the deferred functions of the Go functions it
passes and the recover of the innermost pcallFromGo, in one step, since nothing
runs in between.

What a compiler knows is assumed: registers are written before they are read, a
call is not placed over a captured local, a value with all the results of a
call is used next (by a call, a SETLIST or a RETURN).  `Codegen` is the model
of a part of that.  Left out are the text of error messages, function
environments, and method calls, which differ from calls in how the function is
found.

`Calls` implements `Activations`, where each activation has a sequence of
variables of its own, a captured variable is a cell, and an error simply drops
activations.  The mapping (`ActsOf`, `CellsOf`) cuts each activation's part out
of the one stack.  So whatever a callee, a staged metamethod call, a growing
stack or an unwinding does to the slots, no activation may notice it.  `MCCalls`
holds the mapping in two variables of its own, `acts` and `cells`, that change
nothing: TLC then computes it once per state.

### Expressions

A program is a tree; `ExprCodegen` has one operator per compile function that
takes the builder and returns it with words added, as `Codegen` does for
statements.  `ExprVM` runs the words; `LuaExpressions` says what the program
must do.  What a program cannot compute by itself (a call of a function of the
host, an index, an arithmetic operation) is an event, recorded with its
operands, and its value is a token that names the event: two runs that make the
same events with the same operands in the same order have done the same.

Abstractions: every frame has registers of its own (the shared stack is in
`Calls`); an upvalue stands for the register of its variable for ever (closing
is in `Blocks`) and CLOSEUPVALS is not emitted; child functions are named by
their index in the module; imports, FASTCALL and attributes are left out.  Where
the language leaves an order open the reference takes this compiler's: the right
operand first for `>` and `>=`, keyed items before list items, the arguments of
a method call before the lookup of the method, the value of a single assignment
before the expressions of its target.  A local that is an operand is read when
it is used.

### Parser

`todo` is the call stack, a list of goals: the action of a parse function
replaces its goal by those of its body, as far as the two tokens in view decide
them.  `out` holds the nodes under way.  `names`, `locals` and `funs` are
`localMap`, `localStack` and `functionStack`.  The text is written while it is
read: one phrase per slot, chosen when the parser looks at it, so a common
beginning is parsed once.

Things the model keeps because the code has them: a raw string that is a
singleton type goes through the escapes of a quoted one, since `parseSimpleType`
tests the kind of the *next* token; a local named `continue` or `type` switches
the contextual keyword off; a `continue` outside a loop is reported by the
compiler only; an interpolated string with an empty expression, or a broken
string inside one, leaves an error node without a report, and a string begun in
the expression position of another is accepted though the outer one never ends;
`(A, ...B) | C` is accepted as a return type; `read` and `write` are skipped
before anything but `:`.  Left out: attributes' and access modifiers' values,
comments and hot comments, locations, declarations (behind an option), values of
numbers, and the characters below the tokens.

### Table library

`tab` is the array being sorted, `frames` the ranges of the active `sortRec`
calls, `at` the point of the innermost one, between two comparisons.  The
comparator answers by `order`: as a given order, anything at all, or anything
while it also writes the table or freezes it.  A limit below `SortLimit` stands
for a part of a longer sort.  `TableLibrary` adds insert, remove, move, find,
clone and freeze, their loops written as functions of the index, in the code's
direction.  `Forget` only resets the history.  `#` is raw.  Left out: yields
refused inside a comparator, metatable protection, and concat, foreach, foreachi,
getn, maxn, pack, unpack and create; the count `e - i + 1` of unpack can
overflow in the code.

### String library

A frame of `calls` is one activation of `doMatch`; its field `waits` says which
helper it is in, waiting for a deeper one.  `level` and `captures` are one array
for all alternatives, as in the code: `BackInStartCapture` and
`BackInEndCapture` take back what a failed one wrote.  `depth` is `matchDepth`.
The loop of `maxExpand` that counts is one count; `matchBalance` is stepped.
`StringLibrary` has one action for each place between two matches: where the
next match is tried, and what is done with its result.  `Patterns` gives a
pattern its meaning as a sequence of items, each taking a state of the match to
the sequence of states it may go to, the preferred one first, so that nothing
is ever undone; `AnswersAsDefined` compares the two.

Abstractions: the classes are letters, digits and the zero byte (the others are
further rows of the same switch); a replacement function or table gives the same
kind of answer for every match of a call; after an error the iterator of gmatch
is not called again.  format, pack and unpack are data conversion and left out.

### Bytecode

A byte has `DigitBits` bits and a flag, a word `WordBytes` bytes, varints
`Width` and `Width64` bits; the last digit of either varint has bits to spare,
as in the code.  `Encoder` is a function from modules to bytes; `Decoder` reads
one part of the format per step and may fail at each.  Its input is an encoded
module, a beginning of one, or one with a byte changed.  What it accepts is
encoded and decoded again (`pass`).  `BuildLineInfo` packs lines as `buildLineInfo`
does and `LineForPC` looks them up as `lineForPC` does; the modules carry such
tables.
Debug information is never emitted by the compiler but goes round.  The
disassembler is left out, and so is memory: the decoder makes room for as many
words, constants, functions or lines as a count announces, before it has read
them (`decoder.go:141`, `188`, `255`, `269`).

## 3. Runs

| Run | Shows | Bounds |
|---|---|---|
| `coroutine_safety` | one goroutine executes, mutex and channels stay in step, chain bookkeeping balances, status tells the truth, no deadlock before Close | three coroutines, resume depth 2, every coroutine may sit in a pcall, ResumeError by the host only |
| `coroutine_live` | the scheduler implements `CoroutineChain`, control arrives in both directions, Close ends every goroutine | two coroutines, no pcall |
| `coroutine_shutdown` | finding: a pcall swallows the shutdown and Lua code runs after Close | as above, with pcall |
| `gc` | colours match lists, a black object refers to a white one only through a reference last stored without a barrier, full collections leave no garbage, cautious programs lose nothing | two allocatable objects in seven combinations of kinds beside the main thread and the registry, one entry per table, two objects per stack |
| `gc_live_finalized` | finding: a stepped collector finalizes a userdata held in a local | one table, one userdata |
| `table` | chains stay whole and nothing above the free cursor is lost, the length is a border, what is written is read, a table is a finite map that `next` goes through once; deadlock is checked, and no operation is ever left in want of a second rehash | three integer keys, two names that share a chain, two values, both parts made with room for up to two, SETLIST chunks of one, no integer-keyed items in a constructor that has list items, one rehash per operation (`MaxRehashes`) |
| `blocks` | compiled statements do what the program says, on the same variables; the list of open upvalues is exact | 2547 programs, four conditions per run |
| `calls` | no slot outside the slice is used, the counters and callBase balance over errors, open upvalues belong to living functions, each activation sees its own variables and the right results | a host and three activations below it (`MaxDepth`), five counted steps after the host's three values (`MaxSteps`), one captured variable (`MaxCells`), two values pushed by a Go function (`MaxPushed`), a smallest capacity of 4 (`MinCap`) |
| `expressions` | compiled expressions do what the program says: every part once, in order, on the right operands; no register is written beyond those the function asks for, and no temporary one is still in use where a function ends | 7871 programs, four outcomes of calls and comparisons (`MaxOutcomes`), SETLIST chunks of two (`ChunkSize`), two constants that an 8-bit field can name (`KLimit`) |
| `parser` | what is read without a report stands for the text, token by token, but for the four shapes `ReadsAsWritten` names; what the grammar allows is read without a report; names refer to what the scopes say; the local map follows the local stack; recovery goes on | sentences of up to nine phrases, free texts of a beginning and up to four tokens, 30 steps between two tokens for each token of the text (`Patience`) |
| `library` | sort: in range, keeps the elements, logarithmic depth, sorts under an order, ends; insert, remove, move, find as promised; matcher: captures follow the activations, find, match, gmatch, gsub and the others answer as the pattern's meaning says, every call ends | keys 0 to 5, three values, limits 0, 1 and the real one, comparators that write on up to two keys (`MaxMeddled`); patterns of up to three items, subjects of up to four characters, two captures (`MaxCaptures`), four levels of recursion (`MaxRecDepth`), results of 8 characters (`MaxStrSize`) |
| `bytecode` | what is decoded is what was encoded, every proper beginning is refused, what the decoder accepts of a changed module settles after one round, the packed byte of an instruction tells its line, and looking it up gives it when the line is less than half a byte's range above the smallest of its span | bytes of 3 bits and a flag, words of 2 bytes, varints of 7 and 10 bits, spans of up to 4 instructions (`MaxSpan`), functions of 1, 3 and 5 instructions |

**Why the bounds are enough.**  Three coroutines and the main thread are the
least in which a chain has an inner link, a thread outside the chain and one
that finishes while another waits; depth 2 makes the depth gate refuse.  With
symmetry over the coroutines the run visits every reachable state.  For the
collector, the barrier bugs need a black parent, a white child and a place the
child was reached from before: the registry, a stack and one table give all
three; a userdata makes the loss visible.  One entry per table (`MaxFields`)
and two per stack (`MaxLocals`) only limit how much is alive at once, and
the states of a cycle with more objects differ in how many steps each phase
takes.

For tables, three integer keys let the array part hold one, two and (by the
doubling rule) four slots, so that it grows, shrinks by a rehash and displaces
entries in both directions; five keys fill node parts of one, two and four
nodes, with the names and the integers colliding in the smallest ones, so that
a colliding node is moved out of another chain, out of its middle, and chained
behind its own.  Values are symmetric: the code never looks into one.

For blocks, a program is one loop around one statement that has a body of its
own (a loop of any kind, a block, both forms of if), with nothing, a local or a
captured local before it and nothing, a captured local or a continue behind it;
bodies declare, capture twice, assign, and end by falling through, break,
continue or return.  After the loop a local and a closure take the registers
the loop has used, so that an upvalue left open shows.  Four conditions let a
loop run twice with a decision in each iteration, or an inner loop run twice:
sharing a variable between iterations needs two.  `blocks` leaves out the
shapes of the two divergences of section 5: continues of a repeat loop that jump over a
captured local, and loop bodies whose last word is (or, as an AUX word, looks
like) a RETURN.

For calls, the functions that an activation may call depend on its depth
(`SomeFunctions`): the host calls a vararg function through `__call`; that
calls a small Lua function, pcall, or xpcall through `__call`; these a small
function, a Go function that must not yield, or pcall; the last level is Lua
or the overflow.  That is enough for a handler, for an error in a handler, for
an overflow in a handler, for a protected call in a protected call, and for a
Go function unwound between two Lua functions.  The steps of pcall and xpcall
themselves and of a handler's call are not counted.  A smallest capacity of 4
makes the stack grow in most behaviours and cut slots come back stale.  Every
value that is made is new, so a stale or misplaced one shows.  Functions above
the limit end when nothing more is allowed, hence no deadlock check.

For expressions, every form of expression stands as an operand of every form
that has operands, in each of the places where the compiler decides differently:
a target register or none, a condition that jumps on true or on false, the last
item of a list that takes all results or is padded.  Two constants that fit an
8-bit field and SETLIST chunks of two make both sides of either limit occur;
assignments of up to three targets alias each other.

For the parser, `Legal` sentences combine phrases for every production at each
of its positions, so that every pair of neighbours the parser has to tell apart
occurs; the free texts are all sequences of a few tokens after a first one, most
of them wrong, which is what recovery is about.  Raw strings as types, with and
without a backslash, and everything that may follow the pack of a return type are
among the phrases (`Types`, `ReturnTypes`); without its exemption `ReadsAsWritten`
fails on each of the four shapes of section 5.  `Advances` needs a bound on the
work per token because a parser that loops does not stop by itself; 30 is above
what any text of the run takes.

For the sort, five elements are the least for which the partition swaps what its
two scans have found, and the heap has a grandchild; `MaxMeddled` only bounds the comparators that write, whose every
write is a branch.  For the matcher, the patterns are three items of ten kinds
with every suffix, pairs with `%A`, `%bab`, `%baa`, `%f[a]`, and some of five
items on which the recursion gets too deep; all texts of up to three characters
over `a % [ ] ^ -`; sets of three characters; init from -5 to 5; limits of gsub
from -1 to 3; replacements that are texts, functions and tables.  All errors the
functions raise occur.  "Too complex" is only accepted of patterns that have as
many items as the depth allows.

For the bytecode, constants of every kind are at the ends of their ranges, lines
are from {2, 9, 10, 17, 18} so that both a span and a baseline can go up and
down past a byte's worth, and the modules of `SomeFrail` are cut at every length
and have every byte changed to every other value.

`coroutine_safety` lets only the host call `ResumeError` (`ErrCallers`),
because `ResumeError` does not set `parkedOn` (`thread.go:456`): a coroutine
that calls it is reported as suspended to the one it woke, against the comment
at `api.go:523`.  No function of the library calls it.

**Fairness.**  `FairSpec` assumes weak fairness of each goroutine's own
steps: the Go scheduler runs a goroutine that can run, and `sync.Mutex` hands
over to waiters.  Nothing is assumed of the Lua program: it may never yield.
The collector's runs check safety only.  `CallsEnd` of `library` assumes weak
fairness of `SortStep` (a comparator returns, and the sort, one running Go
function, goes on; which of several things an unruly comparator answers is left
open) and of `StringNext` (so does a call of the string library).  Those calls,
compiled programs and decoding come to an end, hence no deadlock check in these
runs.

## 4. Proofs

`Coroutine_proofs` proves, for every finite set of coroutines, every bound and
every program choice:

* `TypeCorrect`: types, with the main thread's labels narrower than a
  coroutine's.
* `MutexDiscipline`: the mutex is held exactly between Lock and Unlock.
* `OneGoroutineExecutes`: at most one goroutine executes.  The invariant
  `ControlInv` says where the token of control is: with an executing goroutine,
  in a channel, or with a goroutine that is about to take the mutex; and that
  two of these never exist together.  Mutual exclusion alone is not inductive
  because the token spends most of its life in channels.
* `ResumeDepthExact`: `resumeDepth` is the number of Resume calls in flight and
  `parkedOn` is set exactly while its coroutine is in one.

* `MessagesDisciplined`: while the VM is open a message finds its coroutine at
  its receive, exactly one thread waits for the answer, and no send finds the
  buffer full.  `LinkInv` says for every pair of a caller and its coroutine
  where both stand and what the two channels hold, step by step through a
  resume, and that nobody is called twice; that a coroutine which looks
  suspended rests uncalled is what lets a resume keep it (`SuspendedIsResting`).
* `StatusAlwaysTruthful`: `coroutine.status` is right.  `OrderInv` says that the
  threads inside a call form one chain from the main thread to the one that
  runs.  CoStatus follows it link by link, so the proof is an induction along
  the chain (`UpwardInduction`); that the chain has no more than `MaxDepth`
  links comes from `ResumeDepthExact`.
* `SchedulerImplementsChain`: every step is a step of `CoroutineChain` or a
  stutter.  `ClosedInv` adds what is true after Close: every coroutine is parked,
  over, or on its way out with the shutdown message.

They assume `ThreadsAssumption` (finitely many coroutines, distinct from the
main thread and from nil), `BoundsAssumption` and `ProgramAssumption`.  The last
three also assume `ErrCallers \subseteq {Main}`, because `ResumeError` is an
API of the host that no library function calls and does not record its link
(`thread.go:456`), and `MaxDepth <= MaxParkWalk`, which are 199 and 256 in the
code (`thread.go:151`, `api.go:553`).  The implementation assumes besides that no
pcall lies around a yield when the host closes the VM: with one it is false, as
`coroutine_shutdown` shows.

`GC_proofs` proves, for every finite heap, every assignment of kinds to its
objects and every interleaving of the program with the collector:

* `TypeCorrect`: types, with the sweep cursor inside the list of all objects
  and every finalized object off it.
* `MarksAccountedAlways` and `CleanSlateAlways`: the colours mean what gc.go
  says.  Neither is inductive alone; `ColourInv` adds that what waits on a list
  is gray even if it left the list of all objects, that `atomic()` runs only in
  its state, and that what the sweep has passed is in the current white (which
  is why `MarkRoots` finds a clean slate).
* `BarriersAlwaysHold`: while the collector marks, a black object refers to a
  white one only through a reference that was last stored by one of the four
  writes without a barrier.  `BarrierInv` adds `TypeInv` (references lead to allocated objects,
  so a new object is referred to by nothing but a stack; the chain consists of
  threads, so stack writes change no table) and `ColourInv` (nothing is black
  when marking starts).  `bare` names those references one by one, so that the
  theorem still speaks of all others of the same object, whatever SETLIST stored
  in it before; it says nothing about stacks, which is where `gc_live_finalized`
  finds its violation.

* `NothingUsableCollectedAlways`: a program that stops the automatic collector
  and asks for full collections loses nothing it can use and finds no collected
  object in a weak table.  `LiveInv` says that what is held (on a stack of the
  chain, or referred to by what is held) is on the list of all objects, that
  marking never passes a reference by, and that what will survive the sweep is
  closed under references.  Since the two marking lists are emptied one object
  at a time, `ListInv` and `EmptyInv` say where everything that waits may be.
* `FullGCAlwaysCollectsGarbage`: when `collectgarbage` returns, what is left is
  reachable.  `CycleInv` says that in the cycle it started only what a root leads
  to was ever marked.  `HeapInv` is the conjunction of the invariants both rest
  on.

Reachability is `Closure`, a recursive function of the number of rounds: that it
is the least set closed under references is proved by `Lemmas`.

They assume `HeapAssumption` (a finite heap of distinct names), `ColourAssumption`
(two whites, neither gray nor black) and `MixAssumption`.

`Table_proofs` proves, for every set of keys and values, every hash function,
every size a table is made with, every SETLIST chunk and any number of rehashes:

* `TablesTyped`: the types; the node part is empty or a power of two long.
* `NodesStayWhole`: every key in the node part is found from its main position,
  and no free node lies above `lastfree`.
* `LengthBorder`: `#t` is a border, whatever holes either part has.
* `KeysHaveOnePlace`, `WritesAreRead`, `TableImplementsMap`, under `~Mixed`: the
  array part hides nothing, an assignment writes what it says and changes nothing
  else, and the table is a finite map whose entries `next` visits once each.

Chains are held together by `Linked`: there is a distance from the main position
for every node, at most some n, which grows by one along each link; a node at
distance 0 is the one at its main position, every other has one before it, and
two nodes of one chain at one distance are the same node.  The distance is what
makes the searches recursive functions that end (`RecursionAlong`), and what has
to be found anew for the chains that `MakeRoom` and `ChainBehind` change.  `IInv`
adds (`Places`) that the key of a call that has gone on to `installNewHashKey` is
absent, and that no call before it on the stack is for that key: a node for it may
be made without a search.  It implies the first three theorems.

For the other three `MInv` adds: a key has one place (`OnePlace`), no key waits
twice and none that waits is in the table (`Pending`), the state of a constructor
that has list items to come (`Building`), and for a traversal, that what it has
returned lies up to the slot where it stands and includes every entry up to there
(`Traversing`).
`~Mixed` says that no constructor has integer-keyed items as well as list items;
without it the three are false, as section 5 says.  Besides it the theorems
assume `KeysAssumption` (keys and nil differ, a hash is a number) and
`TableAssumption` (the integer keys are 1 to some n).  For the integer keys to
end somewhere is a bound of the model: a SETLIST beyond them does not happen.

The attempt changed the model: `set`, `rehash` and `resize` were recursive
operators, which nothing can be proved about, and are steps with a stack now.

`BlockVM_proofs` proves, for every code that meets `ChunksAssumption`, however
it was made:

* `FrameWellTyped`: registers hold values, upvalues stand for registers of the
  frame, the list and the closures name upvalues that exist.
* `ListAlwaysOrdered`: the list of open upvalues is in strictly descending order
  of registers, which both walks rely on when they stop early.
* `ListAlwaysExact`: an upvalue is on the list exactly while it is open, and a
  frame that has returned leaves none.

The inductive invariant `ListInv` is their conjunction.  Order is needed for
exactness (only in an ordered list does the walk of `closeUpvalsTo` find
everything it has to close) and exactness for typing.  The lemmas about the
walk (`WalkEnds`, `BehindWalk`) say where it stops, `InsertKeepsList` and
`CloseKeepsList` what the two list operations preserve; they are in
`Lemmas`, where `Calls_proofs` finds them too.  That compiled code meets the
assumption is not proved; TLC evaluates it for every program of the run `blocks`,
whose module gives `BlockVM` the compiled programs as its `Chunks`.

`Calls_proofs` proves, for functions of every shape, every depth of calls, every
smallest capacity and every program:

* `StackAlwaysInRange`: nothing is read or written outside the slice, a running
  Lua function has its registers within it, and top is at the end of a running Go
  function's values.
* `CountersAlwaysBalanced`: `callBase` is that of the innermost Go function, and
  `inErrHandler` and `nonyieldable` count the handlers and regions in progress.
* `OpenUpvalsAlwaysLive`: an open upvalue is a register of a Lua function that has
  not ended, and the list of open ones is in order.

None is inductive: what a return or an error makes the top frame was set up many
calls earlier.  `FramesInv` therefore says of every frame that waits what it will
find: its call lies above the registers it still needs (`Waits`, `Layered`), the
called frame stands where its caller will look for results and asks for as many
as fit (`InPlace`), and the `callBase` it restores is that of the Go function
below it (`Saved`).  A frame's registers may be outside the *slice* while a callee
runs, which is why `Waits` speaks of the capacity and only `Runs` of the length;
the code's `returnFromFrame` makes room again, and the saved length of a
metamethod call is the one exception.  `UpvalInv` says which registers own the
open upvalues.  `Unwinds` and `UnwindsUpvals` are about an error that lands in any
of the protected calls below, `Enters` about any call, `CallLands` about results
that arrive in any caller; one lemma per action puts them together (`NextInv`).
It assumes `CallsAssumption` (functions are as `MCCalls` has them; parameters fit
in the registers, as the compiler makes them) and `CapAssumption` (a capacity is a
number).

The attempt found a mistake of the model, not of the code: arms of a CASE in
`StackFor` overlapped, so that TLA+ left open, and TLC happened to choose,
which of them applied.  They exclude each other now.

`TableSort_proofs` proves, for tables of every size, every comparator (also one
that answers anything, writes the table or freezes it) and every limit:

* `SortInRange`: both positions of every comparison lie in the range that the
  innermost call sorts.  `Fits` says what the locals of `sortRec`, `sortHeap` and
  `siftHeap` satisfy at each comparison: the loops of the partition check their
  bounds before they compare, and no bound rests on what the comparator answers.
* `SortKeepsElements`: the table is a permutation of what it was, together with
  what the comparator itself wrote.  The one lemma about data is that a swap is a
  bijection of the positions that hold each value (`SwapKeeps`).
* `DepthAlwaysLogarithmic`: the calls of `sortRec` are no deeper than the
  logarithm of the length, if the comparator leaves the table alone.  The
  invariant is `Halved`: the table stays a list of n values, and the range of the
  i-th frame, `Power(i - 1)` times, fits in n.  `sortRec` calls itself for the
  smaller part of at least four values and goes on with the other one in the frame
  it has, so that a split halves what the new frame holds.
* `LibraryAsPromised`: a sort by an order never fails and ends with the elements in
  order, by partitions and by the heap; only a comparator that writes the table is
  told that it was modified; and `insert`, `remove`, `move` and `find`, whose loops
  shift, copy or look element by element, come out as what they stand for, for
  every table and all arguments (`move` also where source and destination
  overlap), and `move` refuses exactly what it has to.

For the sort the invariant is `Ordering`.  `Parted` says that any two values which
no call has still to put in order are in order, so that with no call left the table
is; `Apart` that the ranges of the calls do not meet, so that a swap within one
cannot disturb what is known of another.  `Partitioned` is what the two scans
keep: which side of the pivot each value before i and behind j is on.  `Heaped` is
what `siftHeap` keeps: the values are a heap but for the children of `root`, which
are no larger than its parent either; while the heap is taken apart, nothing behind
it is smaller than what it holds.  `SplitParted` is where a partition hands over to
two calls, `HeapTop` where the largest value goes to the end.  `Ordering` needs
`Halved`: that there is a list of n values, with the ranges in it, is why the
comparison never meets a hole.

The loops of the library are recursive functions, and the proof is by induction
on their index: `ShiftedUpIs`, `RemovedIs`, `MovedUp`, `MovedDown` and `FoundIs`
say what each has done after every turn.  In `MovedUp` and `MovedDown` it is the
direction (`Ascends`) that keeps an element from being overwritten before it is
copied.  The operations themselves happen between sorts and keep the invariant
(`OperationsKeep`).

They assume `SortAssumption` (the bounds are numbers).  Powers of two are a
recursive function (`Power`), because the provers know nothing of `^`; that it
doubles is proved by `Lemmas`.

`StringLibrary_proofs` proves, for every pattern, subject, call and limit:

* `CapturesAlwaysFollow`: while a match is searched, the captures are those of
  the parentheses that are entered on the stack of activations, in this order,
  and the depth that is left is what they have not used.  The property is not
  inductive: `Book` adds that a parenthesis is closed above where it was opened
  and that no two activations close the same one, so that what a failed
  activation takes back is the last thing that was done; and `Ascending`, that
  positions never go back along the stack, so that a capture that closes has a
  length that no marker (`CapUnfinished`, `CapPosition`) can be taken for.  After
  a match nothing is taken back, which is why the property speaks of `result < 0`.

It assumes `StringAssumption` (limits are numbers, at least two levels of
recursion; texts are sequences of characters).

`Lemmas` has no theorem of its own.  The library's induction theorems take an
operator as a parameter, which the provers cannot instantiate; its lemmas say the
same of sets (`UpwardInduction`, `DownwardInduction`) and of functions defined by
recursion over an interval (`RecursionUp`, `RecursionDown`: there is such a
function, so its equation may be used), from `WellFoundedInduction`.  `RecursionAlong`
is the same for a recursion along any measure, as a walk along a chain is.

**Only model-checked:**

* liveness (`ControlReturns`, `ControlReachesTarget`, `CloseReclaims`, `CallsEnd`)
  and ENABLED, which are out of the prover's reach;
* that no operation on a table rehashes twice (deadlock in the run `table`): it
  rests on how `computeSizes` counts, and no safety theorem needs it;
* `RunsAsWritten`, `EvaluatesAsWritten`, `ReadsAsWritten`, `AnswersAsDefined` and
  the rest about compiler, parser and patterns, which compare recursive
  operators over trees and texts;
* the bytecode, whose functions fold over bytes;
* `ImplementsActivations`: in reach, and not proved yet.

`TypeOK` of `Coroutine`, `GC` and `Table`, `OnePlacePerKey` and `OpenListOrdered`
are proved and no longer run.

## 5. Findings

Two have runs (`findings` in `PROJECT.json`): pcall catches the shutdown
sentinel (`coroutine_shutdown`); the stepped collector can finalize what a stack
holds (`gc_live_finalized`).

Divergences met while modelling, without a run of their own.  Where a property
would fail on them, the model keeps the code's behaviour and the run leaves out
the shape, as section 3 says, or the property names the exception:

* A resume refused by a gate (`thread.go:174`) leaves a suspended coroutine marked
  `ErrRun`, which `coroutine.close` then reports as its failure.
* The thread of a coroutine made by `coroutine.wrap` is held by a Go closure only,
  so that its stack is no root of the collector.
* A constructor that mixes an integer-keyed item with a list item of many values
  (`{[2] = x, f()}`) can leave the key in both parts of the table.
* A continue of a repeat loop leaves what it jumps over open, so that the closures
  of all iterations share one variable.
* A block omits its CLOSEUPVALS when its last word is a RETURN that not every path
  executes, or an operand whose low byte is 22.
* `lineForPC` reads an offset as a signed byte (`vm/debug.go:386`), against the
  comment at `builder.go:309`: an offset of 128 or more comes out 256 lines early.
  `LinesSurvive` leaves the looking up of those offsets out.
* Table constructors store their list items with no barrier (`execute.go:787`), and
  so do `SetMetatable` (`api.go:270`), `SetClosureEnvAt` (`fenv.go:88`) and
  `upVal.close` (`closure.go:106`), against "a forward write barrier is invoked
  whenever a black object's reference field is overwritten with a white child"
  (`gc.go:17`).  In `{f(), g()}` the table may be black when the result of `g` is
  stored, and the sweep then takes that result if nothing else refers to it.
  `BarriersHold` leaves these references out by name (`bare`).
* "Byte-identity" (`encoder.go:20`) holds for what this encoder wrote, not for all
  input the decoder accepts: varints with superfluous digits, booleans other than
  0 and 1, trailing empty userdata names and bytes behind the module are
  normalised.  `Settles` compares after one round.
* `gsub` with `%1` in its replacement, when capture 1 is still open, slices the
  subject backwards, a Go panic instead of "unfinished capture".
  `AnswersAsDefined` exempts it.
* An empty expression in an interpolated string, and a broken string inside one,
  leave an error node in a tree that has no report (`EmptyInterpolation`,
  `Unclosed` of `ReadsAsWritten`).
* A raw string that is a singleton type is read as a quoted one, because
  `parseSimpleType` tests the token behind it (`parser.go:1820`): a backslash in it
  is an escape, and reported if it means nothing (`EscapeInLongType`).
* `(A, ...B) | C` is accepted as a return type; the union is made of the type in
  front of the tail alone (`parser.go:2058-2072`, `PackSuffix`).

## 6. Not modelled

`Close` is taken to be called by the host on the main thread while no Lua code
of the VM runs; the API after Close is out of scope.  Number formatting,
floating point, wall-clock time, file and process I/O, and the data conversions
of the libraries are left to the repository's own tests.  Interning is not
modelled: an interned string is never removed (`state.go:760`), so that what the
code does about condemned ones never happens.  The status of every component is
in `PROJECT.json`.

## 7. Plan

Done: `Coroutine` with its abstract chain, safety and the implementation proved;
`GC` with proofs up to what a collection takes and leaves; `Table` with its
safety and the implementation of its abstract map proved; `Blocks` (compiler, interpreter and reference) with proofs about
open upvalues; `Calls` with its abstract activations and proofs of its safety
properties; expressions from tree to result; the parser against a grammar; the
table library with proofs of all its properties but that a sort ends;
the string library with a proof about captures; the bytecode.

Next, in this order:

1. **Theorems**: that `Calls` implements `Activations`, from `FramesInv`.
2. **Calls, further**: capture of an enclosing closure's upvalue and by value,
   the other metamethod calls (index chains, comparison, concatenation), function
   environments.
3. **Collector, further**: weak keys; process-wide side tables (`VMRegistry`,
   `globalMutexes`, `pcaches`) with several VMs opened and closed.
4. **Lexer**: characters to tokens, escapes, and the source formats of numbers.
5. **Compiler, further**: FASTCALL and imports, attributes; one program through
   statements and expressions together.

Liveness stays with TLC.
