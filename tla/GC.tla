--------------------------------- MODULE GC ---------------------------------
(***************************************************************************)
(* The incremental mark-and-sweep collector of pkg/vm/gc.go and the Lua    *)
(* program that mutates the heap between its steps.  The Go memory behind  *)
(* an object is never reused while something refers to it, so what a wrong *)
(* collection does is visible in two ways: a userdata's finalizer runs and *)
(* weak tables lose their entries.                                         *)
(*                                                                         *)
(* A collector step is one object's worth of work.  gcStep does one or     *)
(* more of them in a call, depending on its budget; the program can run    *)
(* between two calls, so it may run between any two steps unless they      *)
(* belong to one call of atomic() (inAtomic) or of fullGC() (job).         *)
(***************************************************************************)
EXTENDS Integers, Sequences, FiniteSets, SequencesExt

CONSTANTS
    MainThread,  \* globalState.mainthread
    Registry,    \* globalState.registry, a table
    Objects,     \* the objects a program can allocate, never recycled
    NoObject,    \* a nil reference
    Whites,      \* the two white bits of gcHeader.marked
    Mixes,       \* the kinds the allocatable objects may have, as functions
    MaxFields,   \* how many objects one table refers to
    MaxLocals    \* how many objects one stack holds

Kinds == {"table", "weak", "udata", "upval", "closure", "string", "thread"}
Heap  == Objects \cup {MainThread, Registry}

ASSUME HeapAssumption == /\ IsFiniteSet(Objects)
                         /\ MainThread \notin Objects \cup {Registry}
                         /\ Registry \notin Objects
                         /\ NoObject \notin Heap
ASSUME ColourAssumption == /\ \E w, v \in Whites : w # v /\ Whites = {w, v}
                           /\ Whites \cap {"gray", "black"} = {}
ASSUME MixAssumption  == /\ Mixes \subseteq [Objects -> Kinds]
                         /\ MaxFields \in Nat /\ MaxLocals \in Nat

VARIABLES
    ticks,      \* whether the collector is stepped while the program runs
    kind,       \* what each object is
    refs,       \* the entries of a table, the live stack of a thread
    slot,       \* a table's or userdata's metatable, a closed upvalue's value,
                \* the environment that setfenv gave a closure
    born,       \* the objects allocated so far
    chain,      \* the threads that resumed one another, the running one last
    wrapped,    \* the coroutines that only a coroutine.wrap closure knows
    mark,       \* gcHeader.marked
    white,      \* globalState.currentWhite
    phase,      \* globalState.gcstate
    inAtomic,   \* where a call of atomic() stands
    job,        \* where a call of fullGC() stands
    gray,       \* globalState.gray, in any order
    grayAgain,  \* globalState.grayAgain
    weak,       \* globalState.weak, a list threaded through graylink
    linked,     \* the objects on globalState.allgc
    toSweep,    \* those from sweepCursor on
    finalized,  \* the userdata whose finalizer has run
    bare        \* history: the references <<o, x>> to a white x that were stored
                \* in o with no barrier since it was blackened

vars == <<ticks, kind, refs, slot, born, chain, wrapped, mark, white, phase,
          inAtomic, job, gray, grayAgain, weak, linked, toSweep, finalized,
          bare>>

Marking == {"propagate", "again", "atomic"}

TypeOK ==
    /\ ticks \in BOOLEAN
    /\ kind \in [Heap -> Kinds]
    /\ refs \in [Heap -> SUBSET Heap]
    /\ slot \in [Heap -> Heap \cup {NoObject}]
    /\ born \subseteq Heap
    /\ chain \in Seq(Heap) /\ chain # <<>>
    /\ wrapped \subseteq born
    /\ mark \in [Heap -> Whites \cup {"gray", "black"}]
    /\ white \in Whites
    /\ phase \in Marking \cup {"pause", "sweep"}
    /\ inAtomic \in {"no", "gray", "grayAgain"}
    /\ job \in {"none", "finish", "cycle"}
    /\ gray \subseteq Heap
    /\ grayAgain \subseteq Heap
    /\ weak \in Seq(Heap)
    /\ linked \subseteq born
    /\ toSweep \subseteq linked
    /\ finalized \subseteq born \ linked
    /\ bare \subseteq Heap \X Heap

\* newGlobalState.  Whether the program stops the collector and relies on
\* collectgarbage("collect"), or lets safepoints step it, is a choice made
\* here for the whole behaviour.
Init ==
    /\ ticks \in BOOLEAN
    /\ kind \in {[o \in Heap |-> IF o = MainThread THEN "thread"
                                 ELSE IF o = Registry THEN "table" ELSE mix[o]] :
                 mix \in Mixes}
    /\ refs = [o \in Heap |-> {}]
    /\ slot = [o \in Heap |-> NoObject]
    /\ born = {MainThread, Registry} /\ linked = born
    /\ chain = <<MainThread>> /\ wrapped = {}
    /\ white \in Whites /\ mark = [o \in Heap |-> white]
    /\ phase = "pause" /\ inAtomic = "no" /\ job = "none"
    /\ gray = {} /\ grayAgain = {} /\ weak = <<>>
    /\ toSweep = {} /\ finalized = {} /\ bare = {}

IsWhite(o) == mark[o] \in Whites
OtherWhite == CHOOSE w \in Whites : w # white
IsDead(o)  == mark[o] = OtherWhite
IsTable(o) == kind[o] \in {"table", "weak"}

-----------------------------------------------------------------------------
(* The program: the running thread works on its own stack                  *)

Running     == Last(chain)
Locals      == refs[Running]
InHand      == Locals \cup {Registry}
MutatorRuns == inAtomic = "no" /\ job = "none"

collector == <<ticks, kind, white, phase, inAtomic, job, linked, toSweep,
               finalized>>
threads   == <<chain, wrapped>>
marks     == <<mark, gray, grayAgain, weak>>

SetLocals(S) == /\ Cardinality(S) <= MaxLocals
                /\ refs' = [refs EXCEPT ![Running] = S]

\* A fault: a new object is born black, as if it had been traversed.
AllocBlack(o) ==
    /\ MutatorRuns
    /\ o \notin born
    /\ born' = born \cup {o}
    /\ linked' = linked \cup {o}
    /\ mark' = [mark EXCEPT ![o] = "black"]
    /\ SetLocals(Locals \cup {o})
    /\ UNCHANGED <<ticks, kind, slot, threads, white, phase, inAtomic, job,
                   gray, grayAgain, weak, toSweep, finalized, bare>>

\* gcInit: a new object has the current white, heads allgc, is on the stack.
Alloc(o) ==
    /\ MutatorRuns
    /\ o \notin born
    /\ born' = born \cup {o}
    /\ linked' = linked \cup {o}
    /\ mark' = [mark EXCEPT ![o] = white]
    /\ SetLocals(Locals \cup {o})
    /\ UNCHANGED <<ticks, kind, slot, threads, white, phase, inAtomic, job,
                   gray, grayAgain, weak, toSweep, finalized, bare>>

\* coWrap pops the thread it creates: only the Go closure it returns knows it.
Wrap(c) ==
    /\ MutatorRuns
    /\ c \notin born /\ kind[c] = "thread"
    /\ born' = born \cup {c}
    /\ linked' = linked \cup {c}
    /\ mark' = [mark EXCEPT ![c] = white]
    /\ wrapped' = wrapped \cup {c}
    /\ UNCHANGED <<ticks, kind, refs, slot, chain, white, phase, inAtomic, job,
                   gray, grayAgain, weak, toSweep, finalized, bare>>

\* A local goes out of scope.
Drop(x) ==
    /\ MutatorRuns
    /\ x \in Locals
    /\ SetLocals(Locals \ {x})
    /\ UNCHANGED <<collector, threads, marks, slot, born, bare>>

\* A table entry, a metatable, an environment or an upvalue is read into a local.
Load(o, x) ==
    /\ MutatorRuns
    /\ o \in InHand
    /\ \/ IsTable(o) /\ x \in refs[o]
       \/ x = slot[o] /\ x # NoObject
    /\ SetLocals(Locals \cup {x})
    /\ UNCHANGED <<collector, threads, marks, slot, born, bare>>

\* graylink threads both lists: pushing a table that stands on the weak list
\* onto grayAgain cuts the weak list behind it.
CutBehind(list, t) ==
    IF Contains(list, t)
    THEN SubSeq(list, 1, CHOOSE i \in 1 .. Len(list) : list[i] = t) ELSE list

\* A fault: the table is queued again but stays black.
BarrierTableStaysBlack(t, child) ==
    IF mark[t] = "black" /\ IsWhite(child) /\ phase \in Marking
    THEN /\ grayAgain' = grayAgain \cup {t}
         /\ weak' = CutBehind(weak, t)
         /\ UNCHANGED <<mark, gray>>
    ELSE UNCHANGED marks

\* A fault: only the first of the marking states has the barrier.
BarrierTablePropagateOnly(t, child) ==
    IF mark[t] = "black" /\ IsWhite(child) /\ phase = "propagate"
    THEN /\ mark' = [mark EXCEPT ![t] = "gray"]
         /\ grayAgain' = grayAgain \cup {t}
         /\ weak' = CutBehind(weak, t)
         /\ UNCHANGED gray
    ELSE UNCHANGED marks

\* barrierTable, the back barrier: a black table is queued again.
BarrierTable(t, child) ==
    IF mark[t] = "black" /\ IsWhite(child) /\ phase \in Marking
    THEN /\ mark' = [mark EXCEPT ![t] = "gray"]
         /\ grayAgain' = grayAgain \cup {t}
         /\ weak' = CutBehind(weak, t)
         /\ UNCHANGED gray
    ELSE UNCHANGED marks

\* barrier, the forward barrier: the child of a black object is marked.
Barrier(parent, child) ==
    IF mark[parent] = "black" /\ IsWhite(child) /\ phase \in Marking
    THEN /\ mark' = [mark EXCEPT ![child] = "gray"]
         /\ gray' = gray \cup {child}
         /\ UNCHANGED <<grayAgain, weak>>
    ELSE UNCHANGED marks

\* A store in o of what S holds, with no barrier, and of x with one.
StoredBare(o, S) ==
    bare' = IF mark[o] = "black" /\ phase \in Marking
            THEN bare \cup ({o} \X {x \in S : IsWhite(x)}) ELSE bare
StoredGuarded(o, x) == bare' = bare \ {<<o, x>>}

\* table.set, setNum and setStr with a collectable value: every store of an
\* entry but those of SETLIST.
SetField(t, x) ==
    /\ MutatorRuns
    /\ t \in InHand /\ IsTable(t)
    /\ x \in Locals
    /\ Cardinality(refs[t] \cup {x}) <= MaxFields
    /\ refs' = [refs EXCEPT ![t] = @ \cup {x}]
    /\ BarrierTable(t, x)
    /\ StoredGuarded(t, x)
    /\ UNCHANGED <<collector, threads, slot, born>>

\* SETLIST copies the items of a constructor from the stack into t.array, over
\* what it may hold there, with no barrier.  The table has no metatable yet and
\* nothing but the stack refers to it; a safepoint of a call among the items
\* may have blackened it.
SetList(t, items, over) ==
    /\ MutatorRuns
    /\ t \in Locals /\ IsTable(t) /\ slot[t] = NoObject
    /\ \A o \in Heap \ {Running} : t \notin refs[o] /\ t # slot[o]
    /\ items \subseteq Locals /\ over \subseteq refs[t]
    /\ Cardinality((refs[t] \ over) \cup items) <= MaxFields
    /\ refs' = [refs EXCEPT ![t] = (@ \ over) \cup items]
    /\ StoredBare(t, items)
    /\ UNCHANGED <<collector, threads, marks, slot, born>>

\* t[k] = nil.
EraseField(t, x) ==
    /\ MutatorRuns
    /\ t \in InHand /\ IsTable(t)
    /\ x \in refs[t]
    /\ refs' = [refs EXCEPT ![t] = @ \ {x}]
    /\ UNCHANGED <<collector, threads, marks, slot, born, bare>>

\* builtinSetMetatable: the inlined setmetatable, for a table without one.
SetMetatableFast(t, m) ==
    /\ MutatorRuns
    /\ t \in Locals /\ kind[t] = "table" /\ slot[t] = NoObject
    /\ m \in Locals /\ IsTable(m)
    /\ slot' = [slot EXCEPT ![t] = m]
    /\ BarrierTable(t, m)
    /\ StoredGuarded(t, m)
    /\ UNCHANGED <<collector, threads, refs, born>>

\* State.SetMetatable: the library function and the host API, no barrier.
SetMetatable(o, m) ==
    /\ MutatorRuns
    /\ o \in Locals /\ kind[o] \in {"table", "udata"}
    /\ m \in Locals /\ IsTable(m)
    /\ slot' = [slot EXCEPT ![o] = m]
    /\ StoredBare(o, {m})
    /\ UNCHANGED <<collector, threads, marks, refs, born>>

\* SetClosureEnvAt: a closure gets a table as its environment, no barrier.  Without
\* one of its own it runs in the globals.
SetClosureEnvAt(c, t) ==
    /\ MutatorRuns
    /\ c \in Locals /\ kind[c] = "closure"
    /\ t \in Locals /\ IsTable(t)
    /\ slot' = [slot EXCEPT ![c] = t]
    /\ StoredBare(c, {t})
    /\ UNCHANGED <<collector, threads, marks, refs, born>>

\* upVal.close copies the stack slot into the upvalue, no barrier.
CloseUpval(u, x) ==
    /\ MutatorRuns
    /\ u \in Locals /\ kind[u] = "upval" /\ slot[u] = NoObject
    /\ x \in Locals
    /\ slot' = [slot EXCEPT ![u] = x]
    /\ StoredBare(u, {x})
    /\ UNCHANGED <<collector, threads, marks, refs, born>>

\* upVal.write on a closed upvalue.
WriteUpval(u, x) ==
    /\ MutatorRuns
    /\ u \in Locals /\ kind[u] = "upval" /\ slot[u] # NoObject
    /\ x \in Locals
    /\ slot' = [slot EXCEPT ![u] = x]
    /\ Barrier(u, x)
    /\ StoredGuarded(u, x)
    /\ UNCHANGED <<collector, threads, refs, born>>

\* resumeImpl, with an argument moved from one stack to the other.  The
\* resumer's stack keeps the thread, which is an argument of the call.
Resume(c, x) ==
    /\ MutatorRuns
    /\ c \in Locals \cup wrapped /\ kind[c] = "thread" /\ ~Contains(chain, c)
    /\ x \in Locals
    /\ Cardinality(refs[c] \cup {x}) <= MaxLocals
    /\ refs' = [refs EXCEPT ![c] = @ \cup {x}]
    /\ chain' = Append(chain, c)
    /\ UNCHANGED <<collector, wrapped, marks, slot, born, bare>>

\* yieldImpl: control goes back to the resumer.
Yield ==
    /\ MutatorRuns
    /\ Len(chain) > 1
    /\ chain' = Front(chain)
    /\ UNCHANGED <<collector, wrapped, marks, refs, slot, born, bare>>

\* collectgarbage("collect"): fullGC finishes the cycle in progress first.
FullGC ==
    /\ MutatorRuns
    /\ job' = IF phase = "pause" THEN "cycle" ELSE "finish"
    /\ UNCHANGED <<ticks, kind, refs, slot, born, threads, marks, white,
                   phase, inAtomic, linked, toSweep, finalized, bare>>

Mutate ==
    \/ \E o \in Objects : Alloc(o) \/ Drop(o) \/ Wrap(o)
    \/ \E o \in Heap, x \in Objects :
        Load(o, x) \/ SetField(o, x) \/ EraseField(o, x)
    \/ \E o, x \in Objects :
        \/ SetMetatableFast(o, x) \/ SetMetatable(o, x)
        \/ SetClosureEnvAt(o, x)
        \/ CloseUpval(o, x) \/ WriteUpval(o, x)
        \/ Resume(o, x)
    \/ \E t \in Objects : \E items \in SUBSET Locals, over \in SUBSET refs[t] :
        SetList(t, items, over)
    \/ Yield
    \/ FullGC

-----------------------------------------------------------------------------
(* The collector                                                           *)

\* A step of gcStep or of the atomic() and fullGC() that call it.
Steps == ticks \/ job # "none"

gcKeeps == <<ticks, kind, refs, slot, born, chain, wrapped>>

\* The object to process next.  While the program waits for the collector the
\* order makes no difference and one choice stands for all.
Pick(S) == IF MutatorRuns THEN S ELSE {o \in S : o = CHOOSE x \in S : TRUE}

Slot(o) == {slot[o]} \ {NoObject}

\* What propagateMark marks when it takes o off the list: traverseTable,
\* traverseThread and the upvalue and userdata cases.  The entries of a weak
\* table wait for clearWeak.
Children(o) == Slot(o) \cup (IF kind[o] = "weak" THEN {} ELSE refs[o])

\* A fault: an object whose children are being marked is forgotten.
PropagateMarkDropsQueue(o) ==
    LET found == {x \in Children(o) : IsWhite(x)} IN
    /\ mark' = [x \in Heap |-> IF x = o THEN "black"
                               ELSE IF x \in found THEN "gray" ELSE mark[x]]
    /\ gray' = IF found = {} THEN gray \ {o} ELSE found
    /\ weak' = IF kind[o] = "weak" THEN <<o>> \o weak ELSE weak
    /\ bare' = {r \in bare : r[1] # o}

\* propagateMark: mark the children, blacken, and list a weak table.
PropagateMark(o) ==
    LET found == {x \in Children(o) : IsWhite(x)} IN
    /\ mark' = [x \in Heap |-> IF x = o THEN "black"
                               ELSE IF x \in found THEN "gray" ELSE mark[x]]
    /\ gray' = (gray \ {o}) \cup found
    /\ weak' = IF kind[o] = "weak" THEN <<o>> \o weak ELSE weak
    /\ bare' = {r \in bare : r[1] # o}

\* markRoots, in gcStep's gcPause case.
MarkRoots ==
    /\ phase = "pause" /\ Steps
    /\ LET roots == {o \in {MainThread, Registry} : IsWhite(o)} IN
       /\ gray' = roots
       /\ mark' = [o \in Heap |-> IF o \in roots THEN "gray" ELSE mark[o]]
    /\ grayAgain' = {} /\ weak' = <<>>
    /\ phase' = "propagate"
    /\ UNCHANGED <<gcKeeps, bare, white, inAtomic, job, linked, toSweep, finalized>>

\* gcStep's gcPropagate case.
Propagate(o) ==
    /\ phase = "propagate" /\ Steps
    /\ o \in Pick(gray)
    /\ PropagateMark(o)
    /\ phase' = IF gray' = {} THEN "again" ELSE phase
    /\ UNCHANGED <<gcKeeps, white, inAtomic, job, grayAgain, linked, toSweep,
                   finalized>>

\* gcStep's gcPropagateAgain case.  It calls makeGray for the main thread,
\* which does nothing: no root is white since markRoots (MarksAccounted).
PropagateAgain ==
    /\ phase = "again" /\ Steps
    /\ \/ \E o \in Pick(gray) : PropagateMark(o)
       \/ gray = {} /\ UNCHANGED <<mark, gray, weak, bare>>
    /\ phase' = IF gray' = {} THEN "atomic" ELSE phase
    /\ UNCHANGED <<gcKeeps, white, inAtomic, job, grayAgain, linked, toSweep,
                   finalized>>

\* gcStep's gcAtomic case, atomic() from its call to its first empty list.
AtomicBegin ==
    /\ phase = "atomic" /\ Steps
    /\ inAtomic = "no"
    /\ inAtomic' = "gray"
    /\ UNCHANGED <<gcKeeps, bare, marks, white, phase, job, linked, toSweep,
                   finalized>>

AtomicDrain(o) ==
    /\ inAtomic # "no"
    /\ o \in Pick(gray)
    /\ PropagateMark(o)
    /\ UNCHANGED <<gcKeeps, grayAgain, white, phase, inAtomic, job, linked,
                   toSweep, finalized>>

AtomicGrayAgain ==
    /\ inAtomic = "gray"
    /\ gray = {}
    /\ gray' = grayAgain /\ grayAgain' = {}
    /\ inAtomic' = "grayAgain"
    /\ UNCHANGED <<gcKeeps, bare, mark, weak, white, phase, job, linked, toSweep,
                   finalized>>

\* clearWeak: a listed table loses its white entries, but strings are marked.
Cleared(t) == {x \in refs[t] : IsWhite(x) /\ kind[x] # "string"}
Kept       == {x \in UNION {refs[t] : t \in ToSet(weak)} :
                IsWhite(x) /\ kind[x] = "string"}

\* A fault: the colour of the next cycle is not flipped.
AtomicEndNoFlip ==
    /\ inAtomic = "grayAgain"
    /\ gray = {}
    /\ refs' = [t \in Heap |-> IF t \in ToSet(weak) THEN refs[t] \ Cleared(t)
                                                    ELSE refs[t]]
    /\ mark' = [x \in Heap |-> IF x \in Kept THEN "gray" ELSE mark[x]]
    /\ gray' = Kept /\ weak' = <<>>
    /\ toSweep' = linked /\ bare' = {}
    /\ phase' = "sweep" /\ inAtomic' = "no"
    /\ UNCHANGED <<ticks, kind, slot, born, chain, wrapped, grayAgain,
                   white, job, linked, finalized>>

\* The rest of atomic(): clear the weak tables, flip, start the sweep.
AtomicEnd ==
    /\ inAtomic = "grayAgain"
    /\ gray = {}
    /\ refs' = [t \in Heap |-> IF t \in ToSet(weak) THEN refs[t] \ Cleared(t)
                                                    ELSE refs[t]]
    /\ mark' = [x \in Heap |-> IF x \in Kept THEN "gray" ELSE mark[x]]
    /\ gray' = Kept /\ weak' = <<>>
    /\ white' = OtherWhite
    /\ toSweep' = linked /\ bare' = {}
    /\ phase' = "sweep" /\ inAtomic' = "no"
    /\ UNCHANGED <<ticks, kind, slot, born, chain, wrapped, grayAgain,
                   job, linked, finalized>>

\* sweepStep for one object, in gcStep's gcSweep case.  allgc lists the newest
\* object first, so the roots come last.  fullGC returns after the first cycle
\* that it started itself.
SweepStep(o) ==
    /\ phase = "sweep" /\ Steps
    /\ o \in Pick(IF toSweep \cap Objects # {} THEN toSweep \cap Objects
               ELSE toSweep)
    /\ toSweep' = toSweep \ {o}
    /\ IF IsDead(o)
       THEN /\ linked' = linked \ {o}
            /\ finalized' = IF kind[o] = "udata" THEN finalized \cup {o}
                                                 ELSE finalized
            /\ UNCHANGED mark
       ELSE /\ mark' = [mark EXCEPT ![o] = white]
            /\ UNCHANGED <<linked, finalized>>
    /\ IF toSweep' = {}
       THEN /\ phase' = "pause"
            /\ job' = IF job = "finish" THEN "cycle" ELSE "none"
       ELSE UNCHANGED <<phase, job>>
    /\ UNCHANGED <<gcKeeps, bare, gray, grayAgain, weak, white, inAtomic>>

Collect ==
    \/ MarkRoots
    \/ \E o \in Heap : Propagate(o) \/ AtomicDrain(o) \/ SweepStep(o)
    \/ PropagateAgain
    \/ AtomicBegin
    \/ AtomicGrayAgain
    \/ AtomicEnd

Next == Mutate \/ Collect

Spec == Init /\ [][Next]_vars

-----------------------------------------------------------------------------
(* Correctness                                                             *)

\* Everything that child leads to from S, found by as many rounds as there are
\* objects.
Closure(S, child) ==
    LET found[n \in 0 .. Cardinality(DOMAIN child)] ==
            IF n = 0 THEN S
            ELSE found[n - 1] \cup UNION {child[o] : o \in found[n - 1]}
    IN  found[Cardinality(DOMAIN child)]

\* Everything reachable from S over the references that keep an object.
Reach(S) == Closure(S, [o \in Heap |-> Children(o)])

\* What the program can still get at: the stacks of the running threads and
\* of the coroutines it can resume, and the registry.
Usable == Reach({MainThread, Registry} \cup ToSet(chain) \cup wrapped)

\* An unwrapped program that stops the automatic collector.
Cautious == ~ticks /\ wrapped = {}

\* While the collector marks, an object it manages is gray exactly if it waits
\* on one of the two lists, never on both, and no root is white (gc.go:17-20,
\* 132-141, 183-197, 533-535).
MarksAccounted ==
    phase \in Marking =>
        /\ \A o \in linked : mark[o] = "gray" <=> o \in gray \cup grayAgain
        /\ gray \cap grayAgain = {}
        /\ {MainThread, Registry} \cap {o \in Heap : IsWhite(o)} = {}

\* While the collector marks, no black object refers to a white one ("black
\* never points to white", gc.go:17-20), but through a reference that was last
\* stored with no barrier: by SETLIST, SetMetatable, SetClosureEnvAt or
\* upVal.close.  Every other write, in every marking state, keeps the claim, for
\* what was stored before as well.
BarriersHold ==
    phase \in Marking =>
        \A o \in linked :
            mark[o] = "black" =>
                /\ kind[o] = "table" =>
                      \A x \in refs[o] : <<o, x>> \notin bare => ~IsWhite(x)
                /\ \A x \in Slot(o) : <<o, x>> \notin bare => ~IsWhite(x)

\* Between two cycles every object the collector manages has the current
\* white, so that the next cycle starts from a clean slate (gc.go:468-473).
CleanSlate ==
    phase = "pause" => \A o \in linked : mark[o] = white

\* A program that stops the automatic collector and runs collectgarbage never
\* loses an object it can still use, and never finds a collected object in a
\* weak table (gc.go:377-394, 396-451; api.go:396-402).
NothingUsableCollected ==
    Cautious =>
        /\ Usable \subseteq linked
        /\ \A t \in Usable : kind[t] = "weak" => refs[t] \subseteq linked

\* When collectgarbage("collect") returns, everything that is left is
\* reachable from a root or a string in a weak table, whatever cycle was in
\* progress when it was called (gc.go:582-590).
Marked   == Reach({MainThread, Registry})
Retained == Marked \cup
            {x \in UNION {refs[t] : t \in {w \in Marked : kind[w] = "weak"}} :
                kind[x] = "string"}
FullGCCollectsGarbage ==
    [][job = "cycle" /\ job' = "none" => linked' \subseteq Retained']_vars

\* A userdata's finalizer runs when it becomes unreachable (api.go:396-397),
\* so never while the program can still use it.
NoUsableFinalized == wrapped = {} => Usable \cap finalized = {}
=============================================================================
