----------------------------- MODULE Coroutine -----------------------------
(***************************************************************************)
(* The coroutine scheduler of pkg/vm/thread.go: every coroutine is a       *)
(* goroutine of its own, the main thread runs on its caller's goroutine,   *)
(* and control passes between them over two channels per coroutine and one *)
(* mutex per VM.  A step is what one goroutine does between two points at  *)
(* which another goroutine can interfere: a channel send, a channel        *)
(* receive, mu.Lock and mu.Unlock are steps of their own.                  *)
(*                                                                         *)
(* pc[t] says where the goroutine of t stands:                             *)
(*   unborn, fresh    no thread yet; created, goroutine not spawned        *)
(*   recv, lock0      the spawned goroutine before <-resumeCh, before Lock *)
(*   recvErr, lockErr the same in the goroutine ResumeError spawns         *)
(*   run              executing the VM (Lua code or a Go function it calls)*)
(*   rsend, runlock, rwait, relock                                         *)
(*                    inside Resume or ResumeError: before the send, before*)
(*                    Unlock, at <-yieldCh, before re-taking the mutex     *)
(*   yunlock, parked, lock                                                 *)
(*                    inside Yield: before Unlock, at <-resumeCh, at Lock  *)
(*   fsend, funlock, done                                                  *)
(*                    the body is over: before the last send, before the   *)
(*                    deferred Unlock, goroutine gone                      *)
(*   closed           (Main only) the host has called State.Close          *)
(***************************************************************************)
EXTENDS Integers, FiniteSets

CONSTANTS
    Main,         \* the main thread
    Coroutines,   \* the coroutines a program can create
    None,         \* no thread: a nil *stateImpl, a free mutex
    MaxDepth,     \* maxCoResumeDepth (199 in the code)
    MaxParkWalk,  \* maxParkWalk, the bound of the walk in CoStatus (256)
    UsesPcall,    \* the coroutines whose body can yield inside a pcall
    ErrCallers,   \* the threads whose program calls ResumeError
    HostCloses    \* whether the host ever calls State.Close

Threads == Coroutines \cup {Main}

ASSUME ThreadsAssumption == /\ IsFiniteSet(Coroutines)
                            /\ Main \notin Coroutines
                            /\ None \notin Threads
ASSUME BoundsAssumption  == MaxDepth \in Nat /\ MaxParkWalk \in Nat \ {0}
ASSUME ProgramAssumption == /\ UsesPcall \subseteq Coroutines
                            /\ ErrCallers \subseteq Threads
                            /\ HostCloses \in BOOLEAN

VARIABLES
    pc,        \* where the goroutine of each thread stands
    call,      \* the Resume or ResumeError each thread is inside
    msg,       \* the message a goroutine has received, or is about to send
    resumeCh,  \* per coroutine: the content of the channel of capacity 1
    yieldCh,   \* per coroutine: the content of the channel of capacity 1
    mu,        \* the holder of the VM mutex
    parkedOn,  \* coroutine.parkedOn
    status,    \* stateImpl.status
    depth,     \* globalState.resumeDepth
    region,    \* the non-yieldable region a thread's code is in
    intact,    \* whether the stack of a coroutine still holds its frames
    live       \* globalState.liveCoroutines

vars == <<pc, call, msg, resumeCh, yieldCh, mu, parkedOn, status, depth,
          region, intact, live>>

Labels == {"unborn", "fresh", "recv", "lock0", "recvErr", "lockErr", "run",
           "rsend", "runlock", "rwait", "relock", "yunlock", "parked", "lock",
           "fsend", "funlock", "done", "closed"}

ResumeMsgs == {"args", "error", "shutdown"}
YieldMsgs  == {"yield", "ok", "err"}
NoMsg      == "empty"

Calls  == [kind : {"resume", "error"}, to : Coroutines,
           prev : Coroutines \cup {None}]
NoCall == [kind |-> "none", to |-> None, prev |-> None]

TypeOK ==
    /\ pc \in [Threads -> Labels]
    /\ call \in [Threads -> Calls \cup {NoCall}]
    /\ msg \in [Threads -> ResumeMsgs \cup YieldMsgs \cup {NoMsg}]
    /\ resumeCh \in [Coroutines -> ResumeMsgs \cup {NoMsg}]
    /\ yieldCh \in [Coroutines -> YieldMsgs \cup {NoMsg}]
    /\ mu \in Coroutines \cup {None}
    /\ parkedOn \in [Coroutines -> Coroutines \cup {None}]
    /\ status \in [Coroutines -> {"OK", "Yield", "ErrRun"}]
    /\ depth \in Int
    /\ region \in [Threads -> {"none", "callback", "handler"}]
    /\ intact \in [Coroutines -> BOOLEAN]
    /\ live \subseteq Coroutines

Init ==
    /\ pc = [t \in Threads |-> IF t = Main THEN "run" ELSE "unborn"]
    /\ call = [t \in Threads |-> NoCall]
    /\ msg = [t \in Threads |-> NoMsg]
    /\ resumeCh = [c \in Coroutines |-> NoMsg]
    /\ yieldCh = [c \in Coroutines |-> NoMsg]
    /\ mu = None
    /\ parkedOn = [c \in Coroutines |-> None]
    /\ status = [c \in Coroutines |-> "OK"]
    /\ depth = 0
    /\ region = [t \in Threads |-> "none"]
    /\ intact = [c \in Coroutines |-> TRUE]
    /\ live = {}

-----------------------------------------------------------------------------
(* What the code reads before it decides                                   *)

\* coroutine.started is set by the call that spawns the goroutine, and
\* coroutine.finished just before the goroutine's last send.
Started(c)  == pc[c] \notin {"unborn", "fresh"}
Finished(c) == pc[c] \in {"fsend", "funlock", "done"}
Closed      == pc[Main] = "closed"

\* A fault: the walk stops at the first link.
ParkChainOneLink(c) == {parkedOn[c]} \ {None}

\* The threads CoStatus meets walking down the parkedOn links of c.
ParkChain(c) ==
    LET walk[n \in 1 .. MaxParkWalk] ==
            IF n = 1 THEN parkedOn[c]
            ELSE IF walk[n - 1] = None THEN None ELSE parkedOn[walk[n - 1]]
    IN  {walk[n] : n \in 1 .. MaxParkWalk} \ {None}

\* A fault: a coroutine that waits for a child still counts as suspended.
CoStatusNoWalk(t, c) ==
    IF Finished(c) THEN "dead" ELSE IF c = t THEN "running" ELSE "suspended"

\* State.CoStatus: the status of c seen from the running thread t.
CoStatus(t, c) ==
    IF Finished(c) THEN "dead"
    ELSE IF c = t THEN "running"
    ELSE IF Started(c) /\ t \in ParkChain(c) THEN "normal"
    ELSE "suspended"

Running(t) == pc[t] = "run"
Exists(c)  == pc[c] # "unborn"

-----------------------------------------------------------------------------
(* What the running thread's program does without giving up control        *)

\* newThreadImpl, under coroutine.create and coroutine.wrap: the body is on
\* the new stack; the thread is registered while liveCoroutines is non-nil.
NewThread(t, c) ==
    /\ Running(t) /\ pc[c] = "unborn"
    /\ pc' = [pc EXCEPT ![c] = "fresh"]
    /\ live' = IF Closed THEN live ELSE live \cup {c}
    /\ UNCHANGED <<call, msg, resumeCh, yieldCh, mu, parkedOn, status, depth,
                   region, intact>>

\* EnterNonYieldable (table.sort, string.gsub) and the xpcall handler, which
\* also raises inErrHandler.
EnterRegion(t, r) ==
    /\ Running(t) /\ region[t] = "none"
    /\ region' = [region EXCEPT ![t] = r]
    /\ UNCHANGED <<pc, call, msg, resumeCh, yieldCh, mu, parkedOn, status,
                   depth, intact, live>>

\* The deferred decrement, on return or when an error unwinds the region.
LeaveRegion(t) ==
    /\ Running(t) /\ region[t] # "none"
    /\ region' = [region EXCEPT ![t] = "none"]
    /\ UNCHANGED <<pc, call, msg, resumeCh, yieldCh, mu, parkedOn, status,
                   depth, intact, live>>

\* coroutine.close when Status is an error: the top value becomes the error
\* result and ResetStatus drops the rest of c's stack.  With any other status
\* coroutine.close answers true and changes nothing.
CoClose(t, c) ==
    /\ Running(t) /\ Exists(c) /\ CoStatus(t, c) \in {"suspended", "dead"}
    /\ status[c] = "ErrRun"
    /\ status' = [status EXCEPT ![c] = "OK"]
    /\ intact' = [intact EXCEPT ![c] = FALSE]
    /\ UNCHANGED <<pc, call, msg, resumeCh, yieldCh, mu, parkedOn, depth,
                   region, live>>

-----------------------------------------------------------------------------
(* Resume and ResumeError                                                  *)

\* The early returns of resumeImpl: the depth gate and the error-handler gate.
GateClosed(t) == depth >= MaxDepth \/ region[t] = "handler"

ResumeRefused(t, c) ==
    /\ Running(t) /\ Exists(c) /\ CoStatus(t, c) = "suspended"
    /\ GateClosed(t)
    /\ status' = [status EXCEPT ![c] = "ErrRun"]
    /\ UNCHANGED <<pc, call, msg, resumeCh, yieldCh, mu, parkedOn, depth,
                   region, intact, live>>

\* A host that resumes a finished coroutine, with either call.
ResumeFinished(c) ==
    /\ Running(Main) /\ Finished(c)
    /\ status' = [status EXCEPT ![c] = "ErrRun"]
    /\ UNCHANGED <<pc, call, msg, resumeCh, yieldCh, mu, parkedOn, depth,
                   region, intact, live>>

\* auxResume and the prologue of resumeImpl, up to the send.
Resume(t, c) ==
    /\ Running(t) /\ Exists(c) /\ CoStatus(t, c) = "suspended"
    /\ ~GateClosed(t)
    /\ depth' = depth + 1
    /\ call' = [call EXCEPT ![t] =
                  [kind |-> "resume", to |-> c,
                   prev |-> IF t = Main THEN None ELSE parkedOn[t]]]
    /\ parkedOn' = IF t = Main THEN parkedOn ELSE [parkedOn EXCEPT ![t] = c]
    /\ pc' = [pc EXCEPT ![t] = "rsend",
                        ![c] = IF Started(c) THEN @ ELSE "recv"]
    /\ UNCHANGED <<msg, resumeCh, yieldCh, mu, status, region, intact, live>>

\* The prologue of ResumeError: no gate, no depth, no parkedOn.
ResumeError(t, c) ==
    /\ t \in ErrCallers
    /\ Running(t) /\ Exists(c) /\ CoStatus(t, c) = "suspended"
    /\ call' = [call EXCEPT ![t] = [kind |-> "error", to |-> c, prev |-> None]]
    /\ pc' = [pc EXCEPT ![t] = "rsend",
                        ![c] = IF Started(c) THEN @ ELSE "recvErr"]
    /\ UNCHANGED <<msg, resumeCh, yieldCh, mu, parkedOn, status, depth, region,
                   intact, live>>

\* The send, which blocks while the buffer is full.
SendResume(t) ==
    /\ pc[t] = "rsend" /\ resumeCh[call[t].to] = NoMsg
    /\ resumeCh' = [resumeCh EXCEPT ![call[t].to] =
                      IF call[t].kind = "resume" THEN "args" ELSE "error"]
    /\ pc' = [pc EXCEPT ![t] = IF t = Main THEN "rwait" ELSE "runlock"]
    /\ UNCHANGED <<call, msg, yieldCh, mu, parkedOn, status, depth, region,
                   intact, live>>

\* A fault: the waiting coroutine keeps the mutex.
UnlockForChildForgotten(t) ==
    /\ pc[t] = "runlock"
    /\ pc' = [pc EXCEPT ![t] = "rwait"]
    /\ UNCHANGED <<call, msg, resumeCh, yieldCh, mu, parkedOn, status, depth,
                   region, intact, live>>

\* A coroutine that resumes another gives up the mutex while it waits.
UnlockForChild(t) ==
    /\ pc[t] = "runlock"
    /\ mu' = None
    /\ pc' = [pc EXCEPT ![t] = "rwait"]
    /\ UNCHANGED <<call, msg, resumeCh, yieldCh, parkedOn, status, depth,
                   region, intact, live>>

StatusOf(m) == CASE m = "ok" -> "OK" [] m = "yield" -> "Yield"
                 [] OTHER -> "ErrRun"

\* A fault: the link is unset only when the child has yielded or returned.
EpilogueKeepsLinkOnError(t, m) ==
    /\ status' = [status EXCEPT ![call[t].to] = StatusOf(m)]
    /\ depth' = IF call[t].kind = "resume" THEN depth - 1 ELSE depth
    /\ parkedOn' = IF call[t].kind = "resume" /\ t # Main /\ m # "err"
                   THEN [parkedOn EXCEPT ![t] = call[t].prev] ELSE parkedOn
    /\ call' = [call EXCEPT ![t] = NoCall]

\* The epilogue: the status switch and the deferred restores of resumeImpl;
\* ResumeError only records the status.
Epilogue(t, m) ==
    /\ status' = [status EXCEPT ![call[t].to] = StatusOf(m)]
    /\ depth' = IF call[t].kind = "resume" THEN depth - 1 ELSE depth
    /\ parkedOn' = IF call[t].kind = "resume" /\ t # Main
                   THEN [parkedOn EXCEPT ![t] = call[t].prev] ELSE parkedOn
    /\ call' = [call EXCEPT ![t] = NoCall]

\* <-yieldCh.  The main thread holds no mutex and returns at once.
ReceiveYield(t) ==
    /\ pc[t] = "rwait" /\ yieldCh[call[t].to] # NoMsg
    /\ yieldCh' = [yieldCh EXCEPT ![call[t].to] = NoMsg]
    /\ IF t = Main
       THEN /\ Epilogue(t, yieldCh[call[t].to])
            /\ pc' = [pc EXCEPT ![t] = "run"]
            /\ UNCHANGED msg
       ELSE /\ msg' = [msg EXCEPT ![t] = yieldCh[call[t].to]]
            /\ pc' = [pc EXCEPT ![t] = "relock"]
            /\ UNCHANGED <<call, parkedOn, status, depth>>
    /\ UNCHANGED <<resumeCh, mu, region, intact, live>>

\* A fault: a failed child returns before the mutex is taken again.
RelockUnlessError(t) ==
    /\ pc[t] = "relock" /\ mu = None
    /\ mu' = IF msg[t] = "err" THEN mu ELSE t
    /\ Epilogue(t, msg[t])
    /\ msg' = [msg EXCEPT ![t] = NoMsg]
    /\ pc' = [pc EXCEPT ![t] = "run"]
    /\ UNCHANGED <<resumeCh, yieldCh, region, intact, live>>

\* mu.Lock, then the rest of the call.
RelockAndReturn(t) ==
    /\ pc[t] = "relock" /\ mu = None
    /\ mu' = t
    /\ Epilogue(t, msg[t])
    /\ msg' = [msg EXCEPT ![t] = NoMsg]
    /\ pc' = [pc EXCEPT ![t] = "run"]
    /\ UNCHANGED <<resumeCh, yieldCh, region, intact, live>>

-----------------------------------------------------------------------------
(* The coroutine's own goroutine                                           *)

\* <-resumeCh in a goroutine that has not run yet.  Only the one resumeImpl
\* spawns looks at the shutdown flag.
ReceiveFirst(c) ==
    /\ pc[c] \in {"recv", "recvErr"} /\ resumeCh[c] # NoMsg
    /\ resumeCh' = [resumeCh EXCEPT ![c] = NoMsg]
    /\ msg' = [msg EXCEPT ![c] = resumeCh[c]]
    /\ pc' = [pc EXCEPT ![c] =
                IF pc[c] = "recvErr" THEN "lockErr"
                ELSE IF resumeCh[c] = "shutdown" THEN "done" ELSE "lock0"]
    /\ UNCHANGED <<call, yieldCh, mu, parkedOn, status, depth, region, intact,
                   live>>

\* The first steps under the mutex: an empty stack or a pending error ends the
\* coroutine before its body runs.
StartBody(c) ==
    /\ pc[c] = "lock0" /\ mu = None
    /\ mu' = c
    /\ IF ~intact[c] \/ msg[c] = "error"
       THEN /\ pc' = [pc EXCEPT ![c] = "fsend"]
            /\ msg' = [msg EXCEPT ![c] = "err"]
       ELSE /\ pc' = [pc EXCEPT ![c] = "run"]
            /\ msg' = [msg EXCEPT ![c] = NoMsg]
    /\ UNCHANGED <<call, resumeCh, yieldCh, parkedOn, status, depth, region,
                   intact, live>>

\* The goroutine ResumeError spawns never runs the body.
StartErr(c) ==
    /\ pc[c] = "lockErr" /\ mu = None
    /\ mu' = c
    /\ pc' = [pc EXCEPT ![c] = "fsend"]
    /\ msg' = [msg EXCEPT ![c] = IF @ = "error" THEN "err" ELSE "ok"]
    /\ UNCHANGED <<call, resumeCh, yieldCh, parkedOn, status, depth, region,
                   intact, live>>

\* A fault: the yield sends its values and goes on, as on the main thread.
YieldWithoutParking(c) ==
    /\ c \in Coroutines /\ Running(c) /\ region[c] = "none"
    /\ yieldCh[c] = NoMsg
    /\ yieldCh' = [yieldCh EXCEPT ![c] = "yield"]
    /\ UNCHANGED <<pc, call, msg, resumeCh, mu, parkedOn, status, depth,
                   region, intact, live>>

\* yieldImpl up to the send: refused (an error is raised, see Fail) inside a
\* non-yieldable region, and the send comes before the unlock.
Yield(c) ==
    /\ c \in Coroutines /\ Running(c) /\ region[c] = "none"
    /\ yieldCh[c] = NoMsg
    /\ yieldCh' = [yieldCh EXCEPT ![c] = "yield"]
    /\ pc' = [pc EXCEPT ![c] = "yunlock"]
    /\ UNCHANGED <<call, msg, resumeCh, mu, parkedOn, status, depth, region,
                   intact, live>>

\* A fault: the coroutine parks with the mutex held.
UnlockAfterYieldForgotten(c) ==
    /\ pc[c] = "yunlock"
    /\ pc' = [pc EXCEPT ![c] = "parked"]
    /\ UNCHANGED <<call, msg, resumeCh, yieldCh, mu, parkedOn, status, depth,
                   region, intact, live>>

UnlockAfterYield(c) ==
    /\ pc[c] = "yunlock"
    /\ mu' = None
    /\ pc' = [pc EXCEPT ![c] = "parked"]
    /\ UNCHANGED <<call, msg, resumeCh, yieldCh, parkedOn, status, depth,
                   region, intact, live>>

ReceiveNext(c) ==
    /\ pc[c] = "parked" /\ resumeCh[c] # NoMsg
    /\ resumeCh' = [resumeCh EXCEPT ![c] = NoMsg]
    /\ msg' = [msg EXCEPT ![c] = resumeCh[c]]
    /\ pc' = [pc EXCEPT ![c] = "lock"]
    /\ UNCHANGED <<call, yieldCh, mu, parkedOn, status, depth, region, intact,
                   live>>

\* Whether the panic raised at the yield point meets a pcall of the body:
\* pcallFromGo recovers every panic, the shutdown sentinel included.
CanCatch(c) == IF c \in UsesPcall THEN BOOLEAN ELSE {FALSE}

\* Back under the mutex, yieldImpl returns the arguments, or raises the
\* pending error or the shutdown sentinel.  Uncaught, the error ends the body
\* and the sentinel ends the goroutine with nothing sent.
Reenter(c) ==
    /\ pc[c] = "lock" /\ mu = None
    /\ mu' = c
    /\ \E caught \in CanCatch(c) :
         IF msg[c] = "args" \/ caught
         THEN /\ pc' = [pc EXCEPT ![c] = "run"]
              /\ msg' = [msg EXCEPT ![c] = NoMsg]
         ELSE IF msg[c] = "shutdown"
         THEN /\ pc' = [pc EXCEPT ![c] = "funlock"]
              /\ msg' = [msg EXCEPT ![c] = NoMsg]
         ELSE /\ pc' = [pc EXCEPT ![c] = "fsend"]
              /\ msg' = [msg EXCEPT ![c] = "err"]
    /\ UNCHANGED <<call, resumeCh, yieldCh, parkedOn, status, depth, region,
                   intact, live>>

\* The body returns.
Return(c) ==
    /\ c \in Coroutines /\ Running(c) /\ region[c] = "none"
    /\ status' = [status EXCEPT ![c] = "OK"]
    /\ msg' = [msg EXCEPT ![c] = "ok"]
    /\ pc' = [pc EXCEPT ![c] = "fsend"]
    /\ UNCHANGED <<call, resumeCh, yieldCh, mu, parkedOn, depth, region,
                   intact, live>>

\* An error leaves the body (a refused yield is one such error).
Fail(c) ==
    /\ c \in Coroutines /\ Running(c)
    /\ msg' = [msg EXCEPT ![c] = "err"]
    /\ pc' = [pc EXCEPT ![c] = "fsend"]
    /\ region' = [region EXCEPT ![c] = "none"]
    /\ UNCHANGED <<call, resumeCh, yieldCh, mu, parkedOn, status, depth,
                   intact, live>>

SendLast(c) ==
    /\ pc[c] = "fsend" /\ yieldCh[c] = NoMsg
    /\ yieldCh' = [yieldCh EXCEPT ![c] = msg[c]]
    /\ msg' = [msg EXCEPT ![c] = NoMsg]
    /\ pc' = [pc EXCEPT ![c] = "funlock"]
    /\ UNCHANGED <<call, resumeCh, mu, parkedOn, status, depth, region, intact,
                   live>>

UnlockLast(c) ==
    /\ pc[c] = "funlock"
    /\ mu' = None
    /\ pc' = [pc EXCEPT ![c] = "done"]
    /\ UNCHANGED <<call, msg, resumeCh, yieldCh, parkedOn, status, depth,
                   region, intact, live>>

-----------------------------------------------------------------------------
\* A fault: Close picks the suspended coroutines by their recorded status.
CloseByStatus ==
    /\ HostCloses /\ Running(Main)
    /\ pc' = [pc EXCEPT ![Main] = "closed"]
    /\ resumeCh' = [c \in Coroutines |->
                      IF c \in live /\ status[c] = "Yield" /\ ~Finished(c)
                      THEN "shutdown" ELSE resumeCh[c]]
    /\ live' = {}
    /\ UNCHANGED <<call, msg, yieldCh, mu, parkedOn, status, depth, region,
                   intact>>

\* State.Close, called by the host when no Lua code of the VM runs: a
\* non-blocking shutdown message to every registered unfinished coroutine.
Close ==
    /\ HostCloses /\ Running(Main)
    /\ pc' = [pc EXCEPT ![Main] = "closed"]
    /\ resumeCh' = [c \in Coroutines |->
                      IF c \in live /\ ~Finished(c) /\ resumeCh[c] = NoMsg
                      THEN "shutdown" ELSE resumeCh[c]]
    /\ live' = {}
    /\ UNCHANGED <<call, msg, yieldCh, mu, parkedOn, status, depth, region,
                   intact>>

\* After Close the system may stop for good.
Stopped == Closed /\ UNCHANGED vars

\* The steps a goroutine takes with no decision of the program.
GoStep(t) ==
    \/ SendResume(t) \/ UnlockForChild(t) \/ ReceiveYield(t)
    \/ RelockAndReturn(t)

CoStep(c) ==
    \/ ReceiveFirst(c) \/ StartBody(c) \/ StartErr(c)
    \/ UnlockAfterYield(c) \/ ReceiveNext(c) \/ Reenter(c)
    \/ SendLast(c) \/ UnlockLast(c)

Program(t) ==
    \/ \E c \in Coroutines : \/ NewThread(t, c) \/ CoClose(t, c)
                             \/ Resume(t, c) \/ ResumeRefused(t, c)
                             \/ ResumeError(t, c)
    \/ \E r \in {"callback", "handler"} : EnterRegion(t, r)
    \/ LeaveRegion(t)

Next ==
    \/ \E t \in Threads : Program(t) \/ GoStep(t)
    \/ \E c \in Coroutines : \/ CoStep(c) \/ Yield(c) \/ Return(c) \/ Fail(c)
                             \/ ResumeFinished(c)
    \/ Close
    \/ Stopped

\* The Go scheduler runs every goroutine that can step, and sync.Mutex does
\* not starve a waiter.  Nothing makes the Lua program yield or return.
Fairness == /\ \A t \in Threads : WF_vars(GoStep(t))
            /\ \A c \in Coroutines : WF_vars(CoStep(c))

Spec     == Init /\ [][Next]_vars
FairSpec == Spec /\ Fairness

-----------------------------------------------------------------------------
(* Safety                                                                  *)

\* A goroutine is executing when it reads or writes the state of the VM.
Executing(t) == pc[t] \in {"run", "rsend", "fsend"}
Holding(c)   == pc[c] \in {"run", "rsend", "runlock", "yunlock", "fsend",
                           "funlock"}

\* At most one goroutine executes the VM, the main thread included, although
\* the main thread takes no mutex and a yield is sent before the unlock.
MutualExclusion ==
    \A t, u \in Threads : Executing(t) /\ Executing(u) => t = u

\* The VM mutex is held by a coroutine exactly from its Lock to its Unlock:
\* no exit path of Resume, Yield, a return, an error or a shutdown leaves it
\* locked or unlocks it twice (which would panic).
LockDiscipline ==
    \A c \in Coroutines : mu = c <=> Holding(c)

\* The threads inside Resume or ResumeError for c whose message is sent.
WaitingFor(c) ==
    {t \in Threads : pc[t] \in {"runlock", "rwait"} /\ call[t].to = c}

\* While the VM is open no message is stale, lost or unclaimed: a message for
\* a coroutine finds it at its receive, a message in either channel has
\* exactly one thread waiting for the answer, and no send ever finds the
\* buffer full.
MessageDiscipline ==
    Closed \/
    /\ \A c \in Coroutines :
         /\ resumeCh[c] # NoMsg =>
              /\ pc[c] \in {"recv", "recvErr", "yunlock", "parked"}
              /\ yieldCh[c] = NoMsg
         /\ resumeCh[c] # NoMsg \/ yieldCh[c] # NoMsg =>
              Cardinality(WaitingFor(c)) = 1
    /\ \A t \in Threads :
         /\ pc[t] = "rsend" => resumeCh[call[t].to] = NoMsg
         /\ Executing(t) /\ t # Main => yieldCh[t] = NoMsg

\* The bookkeeping of resume chains balances on every exit path: resumeDepth
\* counts the Resume calls in flight and never passes the cap, and parkedOn is
\* set exactly while its coroutine is inside Resume.
ChainBookkeeping ==
    /\ depth = Cardinality({t \in Threads : call[t].kind = "resume"})
    /\ depth <= MaxDepth
    /\ \A c \in Coroutines :
         parkedOn[c] = IF call[c].kind = "resume" THEN call[c].to ELSE None

\* The refinement mapping: where each thread stands in the chain.  Control
\* passes when a message is sent.
ChainStatus(t) ==
    CASE pc[t] = "closed" -> "stopped"
      [] pc[t] = "unborn" -> "unborn"
      [] pc[t] = "fresh"  -> "suspended"
      [] pc[t] \in {"recv", "recvErr", "yunlock", "parked"} ->
           IF resumeCh[t] \in {"args", "error"} THEN "running"
           ELSE "suspended"
      [] pc[t] = "lock" ->
           IF msg[t] = "shutdown" THEN "suspended" ELSE "running"
      [] pc[t] \in {"runlock", "rwait"} ->
           IF yieldCh[call[t].to] # NoMsg THEN "running" ELSE "normal"
      [] pc[t] \in {"funlock", "done"} -> "dead"
      [] OTHER -> "running"

ChainChild(t) == IF ChainStatus(t) = "normal" THEN call[t].to ELSE None

Chain == INSTANCE CoroutineChain WITH
            st    <- [t \in Threads |-> ChainStatus(t)],
            child <- [t \in Threads |-> ChainChild(t)]

\* The goroutine scheduler implements the chain of Lua threads.
ImplementsChain == Chain!Spec

\* What coroutine.status answers the running thread is where the coroutine
\* really stands: coroutine.resume trusts the answer before it sends.
StatusTruthful ==
    \A t \in Threads, c \in Coroutines :
        Running(t) /\ Exists(c) /\ ~Closed => CoStatus(t, c) = ChainStatus(c)

\* thread.go:49-52: on shutdown the goroutine exits "without running any Lua
\* code".
NoLuaAfterClose == Closed => \A c \in Coroutines : ~Running(c)

-----------------------------------------------------------------------------
(* Liveness, under FairSpec                                                *)

\* A resume that passes the gates starts or wakes its target: the message is
\* received and the mutex is free by then.
ControlReachesTarget ==
    \A t \in Threads, c \in Coroutines :
        pc[t] = "rsend" /\ call[t].to = c ~> Running(c) \/ Finished(c)

\* A yield, a return or an error gives control back to the resumer.
ControlReturns ==
    \A t \in Threads, c \in Coroutines :
        pc[t] = "rwait" /\ call[t].to = c /\ yieldCh[c] # NoMsg
            ~> Running(t)

\* State.Close ends every goroutine that was spawned.
CloseReclaims ==
    Closed ~> \A c \in Coroutines : Started(c) => pc[c] = "done"
=============================================================================
