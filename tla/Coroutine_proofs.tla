-------------------------- MODULE Coroutine_proofs --------------------------
(***************************************************************************)
(* Theorems about Coroutine, for any set of coroutines, any depth bound    *)
(* and any program: the types, the mutex discipline, and that at most one  *)
(* goroutine executes the VM; that resumeDepth is exact.  LinkInv says how *)
(* messages and calls link the threads, OrderInv that the links make one   *)
(* chain, ClosedInv what Close leaves; from these, that messages are       *)
(* disciplined, that coroutine.status is true, and that the scheduler      *)
(* implements CoroutineChain.                                              *)
(***************************************************************************)
EXTENDS Coroutine, Lemmas, FiniteSetTheorems, TLAPS

\* Where the main thread's goroutine can stand: it never takes the mutex and
\* never yields.
MainLabels == {"run", "rsend", "rwait", "closed"}

\* Where a thread inside Resume or ResumeError can stand.
InCall == {"rsend", "runlock", "rwait", "relock"}

\* The strengthening that makes TypeOK inductive: only the main thread stays
\* outside the mutex protocol, what a goroutine is about to send as its last
\* message is an answer, and a thread inside a call has a target.
TypeInv ==
    /\ TypeOK
    /\ pc[Main] \in MainLabels
    /\ \A c \in Coroutines : pc[c] = "fsend" => msg[c] \in YieldMsgs
    /\ \A t \in Threads : pc[t] \in InCall => call[t] \in Calls

USE DEF Threads

LEMMA TypeInit == Init => TypeInv
BY ThreadsAssumption DEF Init, TypeInv, TypeOK, MainLabels, InCall, Labels, NoMsg,
    ResumeMsgs, YieldMsgs

LEMMA TypeStep == TypeInv /\ [Next]_vars => TypeInv'
<1> SUFFICES ASSUME TypeInv, [Next]_vars PROVE TypeInv'
  OBVIOUS
<1> USE ThreadsAssumption DEF TypeInv, TypeOK, MainLabels, InCall, Labels, NoMsg,
        ResumeMsgs, YieldMsgs
<1>1. CASE UNCHANGED vars
  BY <1>1 DEF vars
<1>2. ASSUME NEW t \in Threads, NEW c \in Coroutines, NewThread(t, c)
      PROVE  TypeInv'
  BY <1>2 DEF NewThread
<1>3. ASSUME NEW t \in Threads, NEW c \in Coroutines, CoClose(t, c)
      PROVE  TypeInv'
  BY <1>3 DEF CoClose
<1>4. ASSUME NEW t \in Threads, NEW c \in Coroutines, Resume(t, c)
      PROVE  TypeInv'
  BY <1>4 DEF Resume, Calls, Running, Started, Exists
<1>5. ASSUME NEW t \in Threads, NEW c \in Coroutines, ResumeRefused(t, c)
      PROVE  TypeInv'
  BY <1>5 DEF ResumeRefused
<1>6. ASSUME NEW t \in Threads, NEW c \in Coroutines, ResumeError(t, c)
      PROVE  TypeInv'
  BY <1>6 DEF ResumeError, Calls, Running, Started, Exists
<1>7. ASSUME NEW t \in Threads, NEW r \in {"callback", "handler"},
             EnterRegion(t, r)
      PROVE  TypeInv'
  BY <1>7 DEF EnterRegion
<1>8. ASSUME NEW t \in Threads, LeaveRegion(t)
      PROVE  TypeInv'
  BY <1>8 DEF LeaveRegion
<1>9. ASSUME NEW t \in Threads, SendResume(t)
      PROVE  TypeInv'
  BY <1>9 DEF SendResume
<1>10. ASSUME NEW t \in Threads, UnlockForChild(t)
       PROVE  TypeInv'
  BY <1>10 DEF UnlockForChild
<1>11. ASSUME NEW t \in Threads, ReceiveYield(t)
       PROVE  TypeInv'
  BY <1>11 DEF ReceiveYield, Epilogue, StatusOf, Calls, NoCall
<1>12. ASSUME NEW t \in Threads, RelockAndReturn(t)
       PROVE  TypeInv'
  BY <1>12 DEF RelockAndReturn, Epilogue, StatusOf, Calls, NoCall
<1>13. ASSUME NEW c \in Coroutines, ReceiveFirst(c)
       PROVE  TypeInv'
  BY <1>13 DEF ReceiveFirst
<1>14. ASSUME NEW c \in Coroutines, StartBody(c)
       PROVE  TypeInv'
  BY <1>14 DEF StartBody
<1>15. ASSUME NEW c \in Coroutines, StartErr(c)
       PROVE  TypeInv'
  BY <1>15 DEF StartErr
<1>16. ASSUME NEW c \in Coroutines, UnlockAfterYield(c)
       PROVE  TypeInv'
  BY <1>16 DEF UnlockAfterYield
<1>17. ASSUME NEW c \in Coroutines, ReceiveNext(c)
       PROVE  TypeInv'
  BY <1>17 DEF ReceiveNext
<1>18. ASSUME NEW c \in Coroutines, Reenter(c)
       PROVE  TypeInv'
  BY <1>18 DEF Reenter
<1>19. ASSUME NEW c \in Coroutines, SendLast(c)
       PROVE  TypeInv'
  BY <1>19 DEF SendLast
<1>20. ASSUME NEW c \in Coroutines, UnlockLast(c)
       PROVE  TypeInv'
  BY <1>20 DEF UnlockLast
<1>21. ASSUME NEW c \in Coroutines, Yield(c)
       PROVE  TypeInv'
  BY <1>21 DEF Yield
<1>22. ASSUME NEW c \in Coroutines, Return(c)
       PROVE  TypeInv'
  BY <1>22 DEF Return
<1>23. ASSUME NEW c \in Coroutines, Fail(c)
       PROVE  TypeInv'
  BY <1>23 DEF Fail
<1>24. ASSUME NEW c \in Coroutines, ResumeFinished(c)
       PROVE  TypeInv'
  BY <1>24 DEF ResumeFinished
<1>25. CASE Close
  BY <1>25 DEF Close
<1>26. CASE Stopped
  BY <1>26, <1>1 DEF Stopped
<1>27. QED
  BY <1>1, <1>2, <1>3, <1>4, <1>5, <1>6, <1>7, <1>8, <1>9, <1>10, <1>11,
     <1>12, <1>13, <1>14, <1>15, <1>16, <1>17, <1>18, <1>19, <1>20, <1>21,
     <1>22, <1>23, <1>24, <1>25, <1>26, ZenonT(60)
    DEF Next, Program, GoStep, CoStep

\* Every variable keeps its type, whatever the program does.
THEOREM TypeCorrect == Spec => []TypeOK
<1>1. Spec => []TypeInv
  BY TypeInit, TypeStep, PTL DEF Spec
<1>2. TypeInv => TypeOK
  BY DEF TypeInv
<1>3. QED
  BY <1>1, <1>2, PTL

-----------------------------------------------------------------------------
(* The mutex                                                               *)

LEMMA LockStep ==
    TypeInv /\ LockDiscipline /\ [Next]_vars => LockDiscipline'
<1> SUFFICES ASSUME TypeInv, LockDiscipline, [Next]_vars
             PROVE  LockDiscipline'
  OBVIOUS
<1> USE ThreadsAssumption DEF TypeInv, TypeOK, MainLabels, LockDiscipline,
        Holding
<1>1. CASE UNCHANGED vars
  BY <1>1 DEF vars
<1>2. ASSUME NEW t \in Threads, NEW c \in Coroutines, NewThread(t, c)
      PROVE  LockDiscipline'
  BY <1>2 DEF NewThread
<1>3. ASSUME NEW t \in Threads, NEW c \in Coroutines, CoClose(t, c)
      PROVE  LockDiscipline'
  BY <1>3 DEF CoClose
<1>4. ASSUME NEW t \in Threads, NEW c \in Coroutines, Resume(t, c)
      PROVE  LockDiscipline'
  BY <1>4 DEF Resume, Running, Started, Exists
<1>5. ASSUME NEW t \in Threads, NEW c \in Coroutines, ResumeRefused(t, c)
      PROVE  LockDiscipline'
  BY <1>5 DEF ResumeRefused
<1>6. ASSUME NEW t \in Threads, NEW c \in Coroutines, ResumeError(t, c)
      PROVE  LockDiscipline'
  BY <1>6 DEF ResumeError, Running, Started, Exists
<1>7. ASSUME NEW t \in Threads, NEW r \in {"callback", "handler"}, EnterRegion(t, r)
      PROVE  LockDiscipline'
  BY <1>7 DEF EnterRegion
<1>8. ASSUME NEW t \in Threads, LeaveRegion(t)
      PROVE  LockDiscipline'
  BY <1>8 DEF LeaveRegion
<1>9. ASSUME NEW t \in Threads, SendResume(t)
      PROVE  LockDiscipline'
  BY <1>9 DEF SendResume
<1>10. ASSUME NEW t \in Threads, UnlockForChild(t)
      PROVE  LockDiscipline'
  BY <1>10 DEF UnlockForChild
<1>11. ASSUME NEW t \in Threads, ReceiveYield(t)
      PROVE  LockDiscipline'
  BY <1>11 DEF ReceiveYield
<1>12. ASSUME NEW t \in Threads, RelockAndReturn(t)
      PROVE  LockDiscipline'
  BY <1>12 DEF RelockAndReturn
<1>13. ASSUME NEW c \in Coroutines, ReceiveFirst(c)
      PROVE  LockDiscipline'
  BY <1>13 DEF ReceiveFirst
<1>14. ASSUME NEW c \in Coroutines, StartBody(c)
      PROVE  LockDiscipline'
  BY <1>14 DEF StartBody
<1>15. ASSUME NEW c \in Coroutines, StartErr(c)
      PROVE  LockDiscipline'
  BY <1>15 DEF StartErr
<1>16. ASSUME NEW c \in Coroutines, UnlockAfterYield(c)
      PROVE  LockDiscipline'
  BY <1>16 DEF UnlockAfterYield
<1>17. ASSUME NEW c \in Coroutines, ReceiveNext(c)
      PROVE  LockDiscipline'
  BY <1>17 DEF ReceiveNext
<1>18. ASSUME NEW c \in Coroutines, Reenter(c)
      PROVE  LockDiscipline'
  BY <1>18 DEF Reenter
<1>19. ASSUME NEW c \in Coroutines, SendLast(c)
      PROVE  LockDiscipline'
  BY <1>19 DEF SendLast
<1>20. ASSUME NEW c \in Coroutines, UnlockLast(c)
      PROVE  LockDiscipline'
  BY <1>20 DEF UnlockLast
<1>21. ASSUME NEW c \in Coroutines, Yield(c)
      PROVE  LockDiscipline'
  BY <1>21 DEF Yield, Running
<1>22. ASSUME NEW c \in Coroutines, Return(c)
      PROVE  LockDiscipline'
  BY <1>22 DEF Return, Running
<1>23. ASSUME NEW c \in Coroutines, Fail(c)
      PROVE  LockDiscipline'
  BY <1>23 DEF Fail, Running
<1>24. ASSUME NEW c \in Coroutines, ResumeFinished(c)
      PROVE  LockDiscipline'
  BY <1>24 DEF ResumeFinished
<1>25. CASE Close
  BY <1>25 DEF Close, Running
<1>26. CASE Stopped
  BY <1>26, <1>1 DEF Stopped
<1>27. QED
  BY <1>1, <1>2, <1>3, <1>4, <1>5, <1>6, <1>7, <1>8, <1>9, <1>10, <1>11,
     <1>12, <1>13, <1>14, <1>15, <1>16, <1>17, <1>18, <1>19, <1>20, <1>21,
     <1>22, <1>23, <1>24, <1>25, <1>26
     DEF Next, Program, GoStep, CoStep

\* The mutex is held from Lock to Unlock, on every path of every goroutine.
THEOREM MutexDiscipline == Spec => []LockDiscipline
<1>1. Init => LockDiscipline
  BY ThreadsAssumption DEF Init, LockDiscipline, Holding
<1>2. Spec => [](TypeInv /\ LockDiscipline)
  BY <1>1, TypeInit, TypeStep, LockStep, PTL DEF Spec
<1>3. QED
  BY <1>2, PTL

-----------------------------------------------------------------------------
(* Control is one token                                                    *)

\* Where a coroutine stands when its next step is to receive a resume.
AtReceive == {"recv", "recvErr", "yunlock", "parked"}

\* t has control: it executes, it is about to re-take the mutex, a resume is
\* on its way to it, or its answer is on its way to its resumer.
Control(t) ==
    \/ pc[t] \in {"run", "rsend", "fsend", "lock0", "lockErr", "lock", "relock"}
    \/ t \in Coroutines /\ resumeCh[t] # NoMsg /\ pc[t] \in AtReceive
    \/ t \in Coroutines /\ yieldCh[t] # NoMsg

\* A resume sent to a coroutine that is not going to receive it takes control
\* out of the system: nothing runs any more.
Stuck(c) == resumeCh[c] # NoMsg /\ pc[c] \notin AtReceive

ControlInv ==
    Closed \/
    /\ \A t, u \in Threads : Control(t) /\ Control(u) => t = u
    /\ \A c \in Coroutines : Stuck(c) => \A t \in Threads : ~Control(t)
    /\ \A c \in Coroutines : yieldCh[c] # NoMsg =>
         /\ pc[c] \in {"yunlock", "parked", "funlock", "done"}
         /\ resumeCh[c] = NoMsg

\* A thread never sees itself as suspended, so it never resumes itself.
LEMMA SuspendedIsOther ==
    ASSUME NEW t \in Threads, NEW c \in Coroutines,
           CoStatus(t, c) = "suspended"
    PROVE  t # c /\ ~Finished(c)
BY DEF CoStatus

LEMMA ControlStep ==
    TypeInv /\ ControlInv /\ [Next]_vars => ControlInv'
<1> SUFFICES ASSUME TypeInv, ControlInv, [Next]_vars
             PROVE  ControlInv'
  OBVIOUS
<1> USE ThreadsAssumption DEF TypeInv, TypeOK, MainLabels, InCall, Calls,
        ControlInv, Control, Stuck, AtReceive, Closed, NoMsg, ResumeMsgs,
        YieldMsgs
<1>1. CASE UNCHANGED vars
  BY <1>1 DEF vars
<1>2. ASSUME NEW t \in Threads, NEW c \in Coroutines, NewThread(t, c)
      PROVE  ControlInv'
  BY <1>2 DEF NewThread, Running
<1>3. ASSUME NEW t \in Threads, NEW c \in Coroutines, CoClose(t, c)
      PROVE  ControlInv'
  BY <1>3 DEF CoClose, Running
<1>4. ASSUME NEW t \in Threads, NEW c \in Coroutines, Resume(t, c)
      PROVE  ControlInv'
  <2>1. t # c /\ ~Finished(c)
    BY <1>4, SuspendedIsOther DEF Resume
  <2>2. pc' = [pc EXCEPT ![t] = "rsend",
                         ![c] = IF Started(c) THEN pc[c] ELSE "recv"]
    BY <1>4, <2>1 DEF Resume
  <2>3. pc[t] = "run" /\ UNCHANGED <<resumeCh, yieldCh>>
    BY <1>4 DEF Resume, Running
  <2>4. QED
    BY <2>1, <2>2, <2>3, SMTT(30) DEF Started, Finished
<1>5. ASSUME NEW t \in Threads, NEW c \in Coroutines, ResumeRefused(t, c)
      PROVE  ControlInv'
  BY <1>5 DEF ResumeRefused, Running
<1>6. ASSUME NEW t \in Threads, NEW c \in Coroutines, ResumeError(t, c)
      PROVE  ControlInv'
  BY <1>6 DEF ResumeError, Running, Started, Exists
<1>7. ASSUME NEW t \in Threads, NEW r \in {"callback", "handler"}, EnterRegion(t, r)
      PROVE  ControlInv'
  BY <1>7 DEF EnterRegion
<1>8. ASSUME NEW t \in Threads, LeaveRegion(t)
      PROVE  ControlInv'
  BY <1>8 DEF LeaveRegion
<1>9. ASSUME NEW t \in Threads, SendResume(t)
      PROVE  ControlInv'
  BY <1>9 DEF SendResume
<1>10. ASSUME NEW t \in Threads, UnlockForChild(t)
      PROVE  ControlInv'
  BY <1>10 DEF UnlockForChild
<1>11. ASSUME NEW t \in Threads, ReceiveYield(t)
      PROVE  ControlInv'
  BY <1>11 DEF ReceiveYield
<1>12. ASSUME NEW t \in Threads, RelockAndReturn(t)
      PROVE  ControlInv'
  BY <1>12 DEF RelockAndReturn
<1>13. ASSUME NEW c \in Coroutines, ReceiveFirst(c)
      PROVE  ControlInv'
  BY <1>13 DEF ReceiveFirst
<1>14. ASSUME NEW c \in Coroutines, StartBody(c)
      PROVE  ControlInv'
  BY <1>14 DEF StartBody
<1>15. ASSUME NEW c \in Coroutines, StartErr(c)
      PROVE  ControlInv'
  BY <1>15 DEF StartErr
<1>16. ASSUME NEW c \in Coroutines, UnlockAfterYield(c)
      PROVE  ControlInv'
  BY <1>16 DEF UnlockAfterYield
<1>17. ASSUME NEW c \in Coroutines, ReceiveNext(c)
      PROVE  ControlInv'
  BY <1>17 DEF ReceiveNext
<1>18. ASSUME NEW c \in Coroutines, Reenter(c)
      PROVE  ControlInv'
  BY <1>18 DEF Reenter
<1>19. ASSUME NEW c \in Coroutines, SendLast(c)
      PROVE  ControlInv'
  BY <1>19 DEF SendLast
<1>20. ASSUME NEW c \in Coroutines, UnlockLast(c)
      PROVE  ControlInv'
  BY <1>20 DEF UnlockLast
<1>21. ASSUME NEW c \in Coroutines, Yield(c)
      PROVE  ControlInv'
  BY <1>21 DEF Yield, Running
<1>22. ASSUME NEW c \in Coroutines, Return(c)
      PROVE  ControlInv'
  BY <1>22 DEF Return, Running
<1>23. ASSUME NEW c \in Coroutines, Fail(c)
      PROVE  ControlInv'
  BY <1>23 DEF Fail, Running
<1>24. ASSUME NEW c \in Coroutines, ResumeFinished(c)
      PROVE  ControlInv'
  BY <1>24 DEF ResumeFinished
<1>25. CASE Close
  BY <1>25 DEF Close, Running
<1>26. CASE Stopped
  BY <1>26, <1>1 DEF Stopped
<1>27. QED
  BY <1>1, <1>2, <1>3, <1>4, <1>5, <1>6, <1>7, <1>8, <1>9, <1>10, <1>11,
     <1>12, <1>13, <1>14, <1>15, <1>16, <1>17, <1>18, <1>19, <1>20, <1>21,
     <1>22, <1>23, <1>24, <1>25, <1>26, ZenonT(60)
    DEF Next, Program, GoStep, CoStep

\* At most one goroutine executes the VM, the main thread included.
THEOREM OneGoroutineExecutes == Spec => []MutualExclusion
<1>1. Init => LockDiscipline /\ ControlInv
  BY ThreadsAssumption DEF Init, LockDiscipline, Holding, ControlInv, Control,
     Stuck, AtReceive
<1>2. TypeInv /\ LockDiscipline /\ ControlInv => MutualExclusion
  <2> SUFFICES ASSUME TypeInv, LockDiscipline, ControlInv,
                      NEW t \in Threads, NEW u \in Threads,
                      Executing(t), Executing(u)
               PROVE  t = u
    BY DEF MutualExclusion
  <2>1. CASE t = Main \/ u = Main
    BY <2>1 DEF ControlInv, Control, Executing, Closed
  <2>2. CASE t \in Coroutines /\ u \in Coroutines
    BY <2>2 DEF LockDiscipline, Holding, Executing
  <2>3. QED
    BY <2>1, <2>2
<1>3. Spec => [](TypeInv /\ LockDiscipline /\ ControlInv)
  BY <1>1, TypeInit, TypeStep, LockStep, ControlStep, PTL DEF Spec
<1>4. QED
  BY <1>2, <1>3, PTL

-----------------------------------------------------------------------------
(* Resume chains                                                           *)

InResume == {t \in Threads : call[t].kind = "resume"}

\* A thread outside Resume and ResumeError has no call, and no coroutine was
\* already parked on a child when it entered Resume.
BookInv ==
    /\ \A t \in Threads : pc[t] \notin InCall => call[t] = NoCall
    /\ \A t \in Threads : call[t].prev = None
    /\ ChainBookkeeping

LEMMA ThreadsFinite == IsFiniteSet(Threads) /\ IsFiniteSet(InResume)
BY ThreadsAssumption, FS_AddElement, FS_Subset DEF InResume

LEMMA ResumeBook ==
    ASSUME TypeInv, BookInv, NEW t \in Threads, NEW c \in Coroutines,
           Resume(t, c)
    PROVE  BookInv'
<1> USE ThreadsAssumption DEF TypeInv, TypeOK
<1>1. t # c /\ ~Finished(c)
  BY SuspendedIsOther DEF Resume
<1>2. pc[t] = "run" /\ depth < MaxDepth /\ depth' = depth + 1
  BY BoundsAssumption DEF Resume, Running, GateClosed
<1>3. call[t] = NoCall /\ t \notin InResume
  BY <1>2 DEF BookInv, InCall, InResume, NoCall
<1>4. t # Main => parkedOn[t] = None
  BY <1>3 DEF BookInv, ChainBookkeeping, NoCall
<1>5. call' = [call EXCEPT ![t] = [kind |-> "resume", to |-> c, prev |-> None]]
  BY <1>4 DEF Resume
<1>6. pc' = [pc EXCEPT ![t] = "rsend",
                       ![c] = IF Started(c) THEN pc[c] ELSE "recv"]
  BY <1>1 DEF Resume
<1>7. \A u \in Threads : pc'[u] \notin InCall => call'[u] = NoCall
  BY <1>1, <1>5, <1>6, Zenon DEF BookInv, InCall, Started
<1>8. \A u \in Threads : call'[u].prev = None
  BY <1>5 DEF BookInv
<1>9. InResume' = InResume \cup {t}
  BY <1>5 DEF InResume
<1>10. depth' = Cardinality(InResume') /\ depth' <= MaxDepth
  <2>1. depth = Cardinality(InResume)
    BY DEF BookInv, ChainBookkeeping, InResume
  <2>2. Cardinality(InResume \cup {t}) = Cardinality(InResume) + 1
    BY <1>3, ThreadsFinite, FS_AddElement
  <2>3. QED
    BY <2>1, <2>2, <1>2, <1>9, BoundsAssumption
<1>11. \A d \in Coroutines :
         parkedOn'[d] = IF call'[d].kind = "resume" THEN call'[d].to ELSE None
  BY <1>5 DEF Resume, BookInv, ChainBookkeeping
<1>12. QED
  BY <1>7, <1>8, <1>10, <1>11 DEF BookInv, ChainBookkeeping, InResume

LEMMA EpilogueBook ==
    ASSUME TypeInv, BookInv, NEW t \in Threads, NEW m, pc[t] \in InCall,
           Epilogue(t, m), pc' = [pc EXCEPT ![t] = "run"]
    PROVE  BookInv'
<1> USE ThreadsAssumption DEF TypeInv, TypeOK
<1>1. call[t] \in Calls /\ call' = [call EXCEPT ![t] = NoCall]
  BY DEF Epilogue
<1>2. \A u \in Threads : pc'[u] \notin InCall => call'[u] = NoCall
  BY <1>1 DEF BookInv
<1>3. \A u \in Threads : call'[u].prev = None
  BY <1>1 DEF BookInv, NoCall
<1>4. InResume' = InResume \ {t}
  BY <1>1 DEF InResume, NoCall
<1>5. depth' = Cardinality(InResume')
  <2>1. depth = Cardinality(InResume)
    BY DEF BookInv, ChainBookkeeping, InResume
  <2>2. Cardinality(InResume \ {t}) =
          IF t \in InResume THEN Cardinality(InResume) - 1
          ELSE Cardinality(InResume)
    BY ThreadsFinite, FS_RemoveElement
  <2>3. depth' = IF t \in InResume THEN depth - 1 ELSE depth
    BY DEF Epilogue, InResume
  <2>4. Cardinality(InResume') = Cardinality(InResume \ {t})
    BY <1>4
  <2>5. QED
    BY <2>1, <2>2, <2>3, <2>4
<1>6. depth' <= MaxDepth
  BY BoundsAssumption DEF BookInv, ChainBookkeeping, Epilogue
<1>7. \A d \in Coroutines :
        parkedOn'[d] = IF call'[d].kind = "resume" THEN call'[d].to ELSE None
  BY <1>1 DEF Epilogue, BookInv, ChainBookkeeping, NoCall
<1>8. QED
  BY <1>2, <1>3, <1>5, <1>6, <1>7 DEF BookInv, ChainBookkeeping, InResume

LEMMA ReceiveYieldBook ==
    ASSUME TypeInv, BookInv, NEW t \in Threads, ReceiveYield(t)
    PROVE  BookInv'
<1>1. CASE t = Main
  <2>1. pc[t] \in InCall
    BY DEF ReceiveYield, InCall
  <2>2. /\ Epilogue(t, yieldCh[call[t].to])
        /\ pc' = [pc EXCEPT ![t] = "run"]
    BY <1>1 DEF ReceiveYield
  <2>3. QED
    BY <2>1, <2>2, EpilogueBook
<1>2. CASE t # Main
  BY <1>2 DEF ReceiveYield, TypeInv, TypeOK, BookInv, ChainBookkeeping, InCall
<1>3. QED
  BY <1>1, <1>2

LEMMA RelockBook ==
    ASSUME TypeInv, BookInv, NEW t \in Threads, RelockAndReturn(t)
    PROVE  BookInv'
<1>1. pc[t] \in InCall
  BY DEF RelockAndReturn, InCall
<1>2. Epilogue(t, msg[t]) /\ pc' = [pc EXCEPT ![t] = "run"]
  BY DEF RelockAndReturn
<1>3. QED
  BY <1>1, <1>2, EpilogueBook

LEMMA BookStep ==
    TypeInv /\ BookInv /\ [Next]_vars => BookInv'
<1> SUFFICES ASSUME TypeInv, BookInv, [Next]_vars
             PROVE  BookInv'
  OBVIOUS
<1> USE ThreadsAssumption DEF TypeInv, TypeOK, MainLabels, InCall, BookInv,
        ChainBookkeeping
<1>1. CASE UNCHANGED vars
  BY <1>1 DEF vars
<1>2. ASSUME NEW t \in Threads, NEW c \in Coroutines, NewThread(t, c)
      PROVE  BookInv'
  BY <1>2 DEF NewThread, Running
<1>3. ASSUME NEW t \in Threads, NEW c \in Coroutines, CoClose(t, c)
      PROVE  BookInv'
  BY <1>3 DEF CoClose, Running
<1>4. ASSUME NEW t \in Threads, NEW c \in Coroutines, Resume(t, c)
      PROVE  BookInv'
  BY <1>4, ResumeBook
<1>5. ASSUME NEW t \in Threads, NEW c \in Coroutines, ResumeRefused(t, c)
      PROVE  BookInv'
  BY <1>5 DEF ResumeRefused, Running
<1>6. ASSUME NEW t \in Threads, NEW c \in Coroutines, ResumeError(t, c)
      PROVE  BookInv'
  <2>1. t # c /\ ~Finished(c)
    BY <1>6, SuspendedIsOther DEF ResumeError
  <2>2. pc[t] = "run" /\ call[t] = NoCall
    BY <1>6 DEF ResumeError, Running
  <2>3. /\ call' = [call EXCEPT ![t] =
                      [kind |-> "error", to |-> c, prev |-> None]]
        /\ pc' = [pc EXCEPT ![t] = "rsend",
                            ![c] = IF Started(c) THEN pc[c] ELSE "recvErr"]
        /\ UNCHANGED <<depth, parkedOn>>
    BY <1>6, <2>1 DEF ResumeError
  <2>4. \A u \in Threads : pc'[u] \notin InCall => call'[u] = NoCall
    BY <2>1, <2>3, Zenon DEF Started
  <2>5. /\ \A u \in Threads : call'[u].prev = None
        /\ \A u \in Threads : call'[u].kind = "resume" <=>
                                call[u].kind = "resume"
        /\ \A d \in Coroutines : parkedOn'[d] =
              IF call'[d].kind = "resume" THEN call'[d].to ELSE None
    BY <2>2, <2>3 DEF NoCall
  <2>6. {u \in Threads : call'[u].kind = "resume"} =
        {u \in Threads : call[u].kind = "resume"}
    BY <2>5
  <2>7. QED
    BY <2>3, <2>4, <2>5, <2>6
<1>7. ASSUME NEW t \in Threads, NEW r \in {"callback", "handler"}, EnterRegion(t, r)
      PROVE  BookInv'
  BY <1>7 DEF EnterRegion, Running
<1>8. ASSUME NEW t \in Threads, LeaveRegion(t)
      PROVE  BookInv'
  BY <1>8 DEF LeaveRegion, Running
<1>9. ASSUME NEW t \in Threads, SendResume(t)
      PROVE  BookInv'
  BY <1>9 DEF SendResume
<1>10. ASSUME NEW t \in Threads, UnlockForChild(t)
      PROVE  BookInv'
  BY <1>10 DEF UnlockForChild
<1>11. ASSUME NEW t \in Threads, ReceiveYield(t)
      PROVE  BookInv'
  BY <1>11, ReceiveYieldBook
<1>12. ASSUME NEW t \in Threads, RelockAndReturn(t)
      PROVE  BookInv'
  BY <1>12, RelockBook
<1>13. ASSUME NEW c \in Coroutines, ReceiveFirst(c)
      PROVE  BookInv'
  BY <1>13 DEF ReceiveFirst
<1>14. ASSUME NEW c \in Coroutines, StartBody(c)
      PROVE  BookInv'
  BY <1>14 DEF StartBody
<1>15. ASSUME NEW c \in Coroutines, StartErr(c)
      PROVE  BookInv'
  BY <1>15 DEF StartErr
<1>16. ASSUME NEW c \in Coroutines, UnlockAfterYield(c)
      PROVE  BookInv'
  BY <1>16 DEF UnlockAfterYield
<1>17. ASSUME NEW c \in Coroutines, ReceiveNext(c)
      PROVE  BookInv'
  BY <1>17 DEF ReceiveNext
<1>18. ASSUME NEW c \in Coroutines, Reenter(c)
      PROVE  BookInv'
  BY <1>18 DEF Reenter
<1>19. ASSUME NEW c \in Coroutines, SendLast(c)
      PROVE  BookInv'
  BY <1>19 DEF SendLast
<1>20. ASSUME NEW c \in Coroutines, UnlockLast(c)
      PROVE  BookInv'
  BY <1>20 DEF UnlockLast
<1>21. ASSUME NEW c \in Coroutines, Yield(c)
      PROVE  BookInv'
  BY <1>21 DEF Yield, Running
<1>22. ASSUME NEW c \in Coroutines, Return(c)
      PROVE  BookInv'
  BY <1>22 DEF Return, Running
<1>23. ASSUME NEW c \in Coroutines, Fail(c)
      PROVE  BookInv'
  BY <1>23 DEF Fail, Running
<1>24. ASSUME NEW c \in Coroutines, ResumeFinished(c)
      PROVE  BookInv'
  BY <1>24 DEF ResumeFinished, Running
<1>25. CASE Close
  BY <1>25 DEF Close, Running
<1>26. CASE Stopped
  BY <1>26, <1>1 DEF Stopped
<1>27. QED
  BY <1>1, <1>2, <1>3, <1>4, <1>5, <1>6, <1>7, <1>8, <1>9, <1>10, <1>11,
     <1>12, <1>13, <1>14, <1>15, <1>16, <1>17, <1>18, <1>19, <1>20, <1>21,
     <1>22, <1>23, <1>24, <1>25, <1>26, ZenonT(60)
    DEF Next, Program, GoStep, CoStep

LEMMA BookInit == Init => BookInv
<1> SUFFICES ASSUME Init PROVE BookInv
  OBVIOUS
<1>1. {t \in Threads : call[t].kind = "resume"} = {}
  BY DEF Init, NoCall
<1>2. QED
  BY <1>1, FS_EmptySet, BoundsAssumption
     DEF Init, BookInv, ChainBookkeeping, NoCall

\* resumeDepth is the number of Resume calls in flight and stays under its
\* cap, and parkedOn is set exactly while its coroutine is inside Resume.
THEOREM ResumeDepthExact == Spec => []ChainBookkeeping
<1>1. Init => BookInv
  BY BookInit
<1>2. Spec => [](TypeInv /\ BookInv)
  BY <1>1, TypeInit, TypeStep, BookStep, PTL DEF Spec
<1>3. QED
  BY <1>2, PTL DEF BookInv
-----------------------------------------------------------------------------
(* Who waits for whom                                                      *)

\* A coroutine that no thread waits for: not resumed yet, parked or over, with
\* nothing on its way to it or from it.
AtRest     == {"unborn", "fresh", "yunlock", "parked", "funlock", "done"}
Empty(c)   == resumeCh[c] = NoMsg /\ yieldCh[c] = NoMsg
Resting(c) == pc[c] \in AtRest /\ Empty(c)

\* What a thread that is inside a call finds at the other end: its message is
\* not sent, sent, being worked on, answered, or the answer is received.
Active == InCall \cup {"lock0", "lockErr", "lock", "run", "fsend"}
Left   == {"yunlock", "parked", "funlock", "done"}

Link(t, c) ==
    \/ pc[t] = "rsend" /\ pc[c] \in AtReceive /\ Empty(c)
    \/ /\ pc[t] \in {"runlock", "rwait"}
       /\ \/ /\ pc[c] \in AtReceive /\ yieldCh[c] = NoMsg
             /\ resumeCh[c] \in {"args", "error"}
          \/ /\ pc[c] \in Active /\ Empty(c)
             /\ pc[c] = "lock" => msg[c] \in {"args", "error"}
          \/ pc[c] \in Left /\ resumeCh[c] = NoMsg /\ yieldCh[c] # NoMsg
    \/ pc[t] = "relock" /\ pc[c] \in Left /\ Empty(c)

Calling(t, c) == pc[t] \in InCall /\ call[t].to = c
Called(c)     == \E t \in Threads : Calling(t, c)

LinkInv ==
    Closed \/
    /\ \A t \in Threads, c \in Coroutines : Calling(t, c) => t # c /\ Link(t, c)
    /\ \A t, u \in Threads, c \in Coroutines : Calling(t, c) /\ Calling(u, c) => t = u
    /\ \A c \in Coroutines : Resting(c) \/ Called(c)
    /\ \A c \in Coroutines : call[c].kind # "error"

\* A coroutine that looks suspended to the running thread is.
SuspendedRests ==
    \A t \in Threads, c \in Coroutines :
        ~Closed /\ Running(t) /\ Exists(c) /\ CoStatus(t, c) = "suspended" =>
            Resting(c) /\ ~Called(c)

\* A step of a coroutine that is not inside a call.
LEMMA CalleeMoves ==
    ASSUME TypeInv, LinkInv, ~Closed, NEW d \in Coroutines,
           \A x \in Threads \ {d} : pc'[x] = pc[x] /\ msg'[x] = msg[x],
           \A x \in Coroutines \ {d} : resumeCh'[x] = resumeCh[x] /\ yieldCh'[x] = yieldCh[x],
           call' = call, pc[d] \notin InCall, pc'[d] \notin InCall,
           \A t \in Threads : Calling(t, d) /\ t # d => Link(t, d)',
           Resting(d) => Resting(d)' \/ Called(d)
    PROVE  LinkInv'
<1>1. \A t \in Threads, c \in Coroutines : Calling(t, c)' <=> Calling(t, c)
  BY DEF Calling
<1>2. \A c \in Coroutines : Called(c)' <=> Called(c)
  BY <1>1 DEF Called
<1>3. \A t \in Threads, c \in Coroutines : Calling(t, c) => t # c /\ Link(t, c)
  BY DEF LinkInv
<1>4. ASSUME NEW t \in Threads, NEW c \in Coroutines, Calling(t, c)
      PROVE  Link(t, c)'
  <2>1. CASE c = d
    BY <1>3, <1>4, <2>1
  <2>2. CASE c # d
    <3>1. t # d
      BY <1>4 DEF Calling
    <3>2. Link(t, c)
      BY <1>3, <1>4
    <3> QED
      BY <2>2, <3>1, <3>2 DEF Link, Empty, Threads
  <2> QED
    BY <2>1, <2>2
<1>5. ASSUME NEW c \in Coroutines PROVE Resting(c)' \/ Called(c)
  <2>1. Resting(c) \/ Called(c)
    BY DEF LinkInv
  <2> QED
    BY <2>1 DEF Resting, Empty, Threads
<1> QED
  BY <1>1, <1>2, <1>3, <1>4, <1>5 DEF LinkInv

\* A step of a thread inside of a call that leaves it inside.
LEMMA CallerMoves ==
    ASSUME TypeInv, LinkInv, ~Closed, NEW t \in Threads, NEW c \in Coroutines,
           Calling(t, c), pc'[t] \in InCall, call' = call,
           \A x \in Threads \ {t} : pc'[x] = pc[x] /\ msg'[x] = msg[x],
           \A x \in Coroutines \ {c} : resumeCh'[x] = resumeCh[x] /\ yieldCh'[x] = yieldCh[x],
           Link(t, c)'
    PROVE  LinkInv'
<1>1. \A u \in Threads, d \in Coroutines : Calling(u, d)' <=> Calling(u, d)
  BY DEF Calling
<1>2. \A d \in Coroutines : Called(d)' <=> Called(d)
  BY <1>1 DEF Called
<1>3. \A u \in Threads, d \in Coroutines : Calling(u, d) => u # d /\ Link(u, d)
  BY DEF LinkInv
<1>4. ASSUME NEW u \in Threads, NEW d \in Coroutines, Calling(u, d), u # t
      PROVE  Link(u, d)'
  <2>1. d # c /\ Link(u, d)
    BY <1>3, <1>4 DEF LinkInv
  <2>2. CASE d = t
    <3>1. pc[d] \in InCall
      BY <2>2 DEF Calling
    <3>2. pc[d] \notin AtReceive /\ pc[d] \notin Left /\ pc'[d] \in Active /\ pc'[d] # "lock"
      BY <2>2, <3>1 DEF InCall, AtReceive, Left, Active
    <3> QED
      BY <1>4, <2>1, <2>2, <3>2 DEF Link, Empty
  <2>3. CASE d # t
    BY <1>4, <2>1, <2>3 DEF Link, Empty, Threads
  <2> QED
    BY <2>2, <2>3
<1>5. ASSUME NEW d \in Coroutines PROVE Resting(d)' \/ Called(d)
  <2>1. Resting(d) \/ Called(d)
    BY DEF LinkInv
  <2>2. CASE d = c
    BY <2>2 DEF Called
  <2>3. CASE d = t
    <3>1. ~Resting(d)
      BY <2>3 DEF Calling, Resting, InCall, AtRest
    <3> QED
      BY <2>1, <3>1
  <2>4. CASE d # c /\ d # t
    BY <2>1, <2>4 DEF Resting, Empty, Threads
  <2> QED
    BY <2>1, <2>2, <2>3, <2>4
<1>6. \A d \in Coroutines : Calling(t, d) => d = c
  BY DEF Calling
<1>7. \A u \in Threads, d \in Coroutines : Calling(u, d)' => u # d /\ Link(u, d)'
  BY <1>1, <1>3, <1>4, <1>6
<1>8. /\ \A u, v \in Threads, d \in Coroutines : Calling(u, d)' /\ Calling(v, d)' => u = v
      /\ \A d \in Coroutines : call'[d].kind # "error"
  BY <1>1 DEF LinkInv
<1> QED
  BY <1>2, <1>5, <1>7, <1>8 DEF LinkInv

\* A call begins, for a coroutine that rests.
LEMMA CallBegins ==
    ASSUME TypeInv, LinkInv, ~Closed, NEW t \in Threads, NEW c \in Coroutines, t # c,
           Running(t), pc'[t] = "rsend", Resting(c), ~Called(c), pc'[c] \in AtReceive,
           t \in Coroutines => call'[t].kind # "error", call'[t].to = c,
           \A x \in Threads \ {t} : call'[x] = call[x],
           \A x \in Threads \ {t, c} : pc'[x] = pc[x],
           UNCHANGED <<msg, resumeCh, yieldCh>>
    PROVE  LinkInv'
<1>0. t \notin {c} /\ c \in Threads /\ pc[t] = "run"
  BY DEF Threads, Running
<1>1. \A u \in Threads \ {t}, d \in Coroutines : Calling(u, d)' <=> Calling(u, d)
  <2>1. pc[c] \notin InCall /\ pc'[c] \notin InCall
    BY DEF Resting, AtRest, InCall, AtReceive
  <2> QED
    BY <2>1 DEF Calling
<1>2. \A d \in Coroutines : ~Calling(t, d) /\ (Calling(t, d)' <=> d = c)
  BY <1>0 DEF Calling, InCall
<1>3. \A u \in Threads, d \in Coroutines : Calling(u, d) => u # d /\ Link(u, d)
  BY DEF LinkInv
<1>4. ASSUME NEW u \in Threads \ {t}, NEW d \in Coroutines, Calling(u, d)
      PROVE  Link(u, d)'
  <2>1. d # c /\ Link(u, d) /\ u # c
    BY <1>3, <1>4 DEF Called, Calling, Resting, AtRest, InCall
  <2>2. CASE d = t
    BY <1>0, <1>4, <2>1, <2>2 DEF Link, Empty, AtReceive, Left, Active, InCall
  <2>3. CASE d # t
    BY <1>4, <2>1, <2>3 DEF Link, Empty, Threads
  <2> QED
    BY <2>2, <2>3
<1>5. Link(t, c)'
  BY DEF Link, Resting, Empty
<1>6. ASSUME NEW d \in Coroutines PROVE Resting(d)' \/ Called(d)'
  <2>1. Resting(d) \/ Called(d)
    BY DEF LinkInv
  <2>2. CASE d = c
    BY <1>2, <2>2 DEF Called
  <2>3. CASE Called(d)
    BY <1>1, <1>2, <2>3 DEF Called
  <2>4. CASE d # c /\ Resting(d)
    <3>1. d # t
      BY <1>0, <2>4 DEF Resting, AtRest
    <3> QED
      BY <2>4, <3>1 DEF Resting, Empty, Threads
  <2> QED
    BY <2>1, <2>2, <2>3, <2>4
<1>7. \A u, v \in Threads, d \in Coroutines : Calling(u, d)' /\ Calling(v, d)' => u = v
  BY <1>1, <1>2 DEF LinkInv, Called
<1>8. \A u \in Threads, d \in Coroutines : Calling(u, d)' => u # d /\ Link(u, d)'
  BY <1>1, <1>2, <1>3, <1>4, <1>5
<1>9. \A d \in Coroutines : call'[d].kind # "error"
  BY DEF LinkInv, Threads
<1> QED
  BY <1>6, <1>7, <1>8, <1>9 DEF LinkInv

\* A call ends, and leaves its coroutine at rest.
LEMMA CallEnds ==
    ASSUME TypeInv, LinkInv, ~Closed, NEW t \in Threads, NEW c \in Coroutines,
           Calling(t, c), pc'[t] = "run", Resting(c)', call' = [call EXCEPT ![t] = NoCall],
           \A x \in Threads \ {t} : pc'[x] = pc[x] /\ msg'[x] = msg[x],
           \A x \in Coroutines \ {c} : resumeCh'[x] = resumeCh[x] /\ yieldCh'[x] = yieldCh[x]
    PROVE  LinkInv'
<1>0. call \in [Threads -> Calls \cup {NoCall}]
  BY DEF TypeInv, TypeOK
<1>1. \A u \in Threads, d \in Coroutines : Calling(u, d)' <=> Calling(u, d) /\ u # t
  BY <1>0 DEF Calling, InCall
<1>2. \A u \in Threads, d \in Coroutines : Calling(u, d) => u # d /\ Link(u, d)
  BY DEF LinkInv
<1>3. ASSUME NEW u \in Threads, NEW d \in Coroutines, Calling(u, d), u # t
      PROVE  Link(u, d)'
  <2>1. d # c /\ Link(u, d)
    BY <1>3 DEF LinkInv
  <2>2. CASE d = t
    <3>1. pc[d] \in InCall
      BY <2>2 DEF Calling
    <3>2. pc[d] \notin AtReceive /\ pc[d] \notin Left /\ pc'[d] \in Active /\ pc'[d] # "lock"
      BY <2>2, <3>1 DEF InCall, AtReceive, Left, Active
    <3> QED
      BY <1>3, <2>1, <2>2, <3>2 DEF Link, Empty
  <2>3. CASE d # t
    BY <1>3, <2>1, <2>3 DEF Link, Empty, Threads
  <2> QED
    BY <2>2, <2>3
<1>4. ASSUME NEW d \in Coroutines PROVE Resting(d)' \/ Called(d)'
  <2>1. Resting(d) \/ Called(d)
    BY DEF LinkInv
  <2>2. CASE d = c
    BY <2>2
  <2>3. CASE d # c /\ Called(d)
    <3>1. PICK u \in Threads : Calling(u, d)
      BY <2>3 DEF Called
    <3>2. u # t
      BY <2>3, <3>1 DEF Calling
    <3> QED
      BY <1>1, <3>1, <3>2 DEF Called
  <2>4. CASE d # c /\ Resting(d)
    <3>1. d # t
      BY <2>4 DEF Resting, AtRest, Calling, InCall
    <3> QED
      BY <2>4, <3>1 DEF Resting, Empty, Threads
  <2> QED
    BY <2>1, <2>2, <2>3, <2>4
<1>5. \A d \in Coroutines : call'[d].kind # "error"
  BY <1>0 DEF LinkInv, Threads, NoCall
<1> QED
  BY <1>1, <1>2, <1>3, <1>4, <1>5 DEF LinkInv

LEMMA LinkStep ==
    ASSUME ErrCallers \subseteq {Main}
    PROVE  TypeInv /\ BookInv /\ LinkInv /\ SuspendedRests /\ [Next]_vars => LinkInv'
<1> SUFFICES ASSUME TypeInv, BookInv, LinkInv, SuspendedRests, [Next]_vars, ~Closed'
             PROVE  LinkInv'
  BY DEF LinkInv
<1>0. /\ pc \in [Threads -> Labels] /\ msg \in [Threads -> ResumeMsgs \cup YieldMsgs \cup {NoMsg}]
      /\ resumeCh \in [Coroutines -> ResumeMsgs \cup {NoMsg}]
      /\ yieldCh \in [Coroutines -> YieldMsgs \cup {NoMsg}]
      /\ call \in [Threads -> Calls \cup {NoCall}]
      /\ Main \in Threads /\ Main \notin Coroutines
  BY ThreadsAssumption DEF TypeInv, TypeOK
<1>a. \A t \in Threads : pc[t] \in InCall => call[t].to \in Coroutines /\ Calling(t, call[t].to)
  BY DEF TypeInv, Calls, Calling
<1>b. \A t \in Threads, c \in Coroutines : Calling(t, c) => Closed \/ (Link(t, c) /\ t # c)
  BY DEF LinkInv
<1>1. CASE UNCHANGED vars
  BY <1>1 DEF vars, LinkInv, Closed, Calling, Called, Link, Resting, Empty
<1>2. ASSUME NEW t \in Threads, NEW c \in Coroutines, NewThread(t, c)
      PROVE  LinkInv'
  <2>1. /\ \A x \in Threads \ {c} : pc'[x] = pc[x] /\ msg'[x] = msg[x]
        /\ \A x \in Coroutines \ {c} : resumeCh'[x] = resumeCh[x] /\ yieldCh'[x] = yieldCh[x]
        /\ call' = call /\ pc[c] \notin InCall /\ pc'[c] \notin InCall /\ ~Closed
    BY <1>0, <1>2 DEF NewThread, Running, InCall, Closed
  <2>2. \A x \in Threads : Calling(x, c) /\ x # c => Link(x, c)'
    BY <1>0, <1>b, <1>2, <2>1 DEF NewThread, Running, Link, Empty, AtReceive, Left, Active,
       InCall, NoMsg, YieldMsgs, ResumeMsgs, TypeInv
  <2>3. Resting(c) => Resting(c)' \/ Called(c)
    BY <1>0, <1>2, <2>1 DEF NewThread, Running, Resting, Empty, AtRest, NoMsg, LinkInv, TypeInv
  <2> QED
    BY <2>1, <2>2, <2>3, CalleeMoves
<1>3. ASSUME NEW t \in Threads, NEW c \in Coroutines, CoClose(t, c)
      PROVE  LinkInv'
  BY <1>3 DEF CoClose, LinkInv, Closed, Calling, Called, Link, Resting, Empty
<1>4. ASSUME NEW t \in Threads, NEW c \in Coroutines, Resume(t, c)
      PROVE  LinkInv'
  <2>0. t # c /\ pc[t] = "run"
    BY <1>4, SuspendedIsOther DEF Resume, Running
  <2>a. pc'[Main] \in {"rsend", pc[Main]}
    BY <1>0, <1>4, <2>0 DEF Resume
  <2>1. /\ t # c /\ Running(t) /\ ~Closed /\ Resting(c) /\ ~Called(c)
    <3>1. ~Closed
      BY <1>0, <1>4, <2>0, <2>a DEF Resume, Closed
    <3> QED
      BY <1>4, <2>0, <3>1 DEF Resume, SuspendedRests
  <2>2. /\ pc' = [pc EXCEPT ![t] = "rsend", ![c] = IF Started(c) THEN pc[c] ELSE "recv"]
        /\ UNCHANGED <<msg, resumeCh, yieldCh>>
    BY <1>4, <2>1 DEF Resume
  <2>3. /\ pc'[t] = "rsend" /\ \A x \in Threads \ {t, c} : pc'[x] = pc[x]
        /\ pc'[c] \in AtReceive
    <3>1. Started(c) => pc[c] \in AtReceive
      BY <1>4, <2>1 DEF Resume, CoStatus, Finished, Started, Resting, AtRest, AtReceive
    <3> QED
      BY <1>0, <2>1, <2>2, <3>1 DEF AtReceive, Threads
  <2>4. /\ t \in Coroutines => call'[t].kind # "error"
        /\ call'[t].to = c /\ \A x \in Threads \ {t} : call'[x] = call[x]
    BY <1>0, <1>4 DEF Resume
  <2> QED
    BY <2>1, <2>2, <2>3, <2>4, CallBegins
<1>5. ASSUME NEW t \in Threads, NEW c \in Coroutines, ResumeRefused(t, c)
      PROVE  LinkInv'
  BY <1>5 DEF ResumeRefused, LinkInv, Closed, Calling, Called, Link, Resting, Empty
<1>6. ASSUME NEW t \in Threads, NEW c \in Coroutines, ResumeError(t, c)
      PROVE  LinkInv'
  <2>0. t # c /\ pc[t] = "run"
    BY <1>6, SuspendedIsOther DEF ResumeError, Running
  <2>a. pc'[Main] \in {"rsend", pc[Main]}
    BY <1>0, <1>6, <2>0 DEF ResumeError
  <2>1. /\ t # c /\ Running(t) /\ ~Closed /\ Resting(c) /\ ~Called(c)
    <3>1. ~Closed
      BY <1>0, <1>6, <2>0, <2>a DEF ResumeError, Closed
    <3> QED
      BY <1>6, <2>0, <3>1 DEF ResumeError, SuspendedRests
  <2>2. /\ pc' = [pc EXCEPT ![t] = "rsend", ![c] = IF Started(c) THEN pc[c] ELSE "recvErr"]
        /\ UNCHANGED <<msg, resumeCh, yieldCh>>
    BY <1>6, <2>1 DEF ResumeError
  <2>3. /\ pc'[t] = "rsend" /\ \A x \in Threads \ {t, c} : pc'[x] = pc[x]
        /\ pc'[c] \in AtReceive
    <3>1. Started(c) => pc[c] \in AtReceive
      BY <1>6, <2>1 DEF ResumeError, CoStatus, Finished, Started, Resting, AtRest, AtReceive
    <3> QED
      BY <1>0, <2>1, <2>2, <3>1 DEF AtReceive, Threads
  <2>4. /\ t \in Coroutines => call'[t].kind # "error"
        /\ call'[t].to = c /\ \A x \in Threads \ {t} : call'[x] = call[x]
    BY <1>0, <1>6 DEF ResumeError
  <2> QED
    BY <2>1, <2>2, <2>3, <2>4, CallBegins
<1>7. ASSUME NEW t \in Threads, NEW r \in {"callback", "handler"}, EnterRegion(t, r)
      PROVE  LinkInv'
  BY <1>7 DEF EnterRegion, LinkInv, Closed, Calling, Called, Link, Resting, Empty
<1>8. ASSUME NEW t \in Threads, LeaveRegion(t)
      PROVE  LinkInv'
  BY <1>8 DEF LeaveRegion, LinkInv, Closed, Calling, Called, Link, Resting, Empty
<1>9. ASSUME NEW t \in Threads, SendResume(t)
      PROVE  LinkInv'
  <2>0. PICK c \in Coroutines : c = call[t].to /\ Calling(t, c)
    BY <1>a, <1>9 DEF SendResume, InCall
  <2>a. ~Closed
    BY <1>0, <2>0, <1>9 DEF SendResume, Closed
  <2>1. c \in Coroutines /\ Calling(t, c) /\ Link(t, c) /\ ~Closed /\ t # c
    BY <1>b, <2>0, <2>a
  <2>2. /\ pc'[t] \in InCall /\ call' = call
        /\ \A x \in Threads \ {t} : pc'[x] = pc[x] /\ msg'[x] = msg[x]
        /\ \A x \in Coroutines \ {c} : resumeCh'[x] = resumeCh[x] /\ yieldCh'[x] = yieldCh[x]
    BY <1>0, <2>0, <1>9 DEF SendResume, InCall
  <2>3. Link(t, c)'
    BY <1>0, <2>0, <1>9, <2>1, <2>2 DEF SendResume, Link, Empty, AtReceive, InCall, Threads, NoMsg
  <2> QED
    BY <2>1, <2>2, <2>3, CallerMoves
<1>10. ASSUME NEW t \in Threads, UnlockForChild(t)
       PROVE  LinkInv'
  <2>0. PICK c \in Coroutines : c = call[t].to /\ Calling(t, c)
    BY <1>a, <1>10 DEF UnlockForChild, InCall
  <2>a. ~Closed
    BY <1>0, <2>0, <1>10 DEF UnlockForChild, Closed
  <2>1. c \in Coroutines /\ Calling(t, c) /\ Link(t, c) /\ ~Closed /\ t # c
    BY <1>b, <2>0, <2>a
  <2>2. /\ pc'[t] \in InCall /\ call' = call
        /\ \A x \in Threads \ {t} : pc'[x] = pc[x] /\ msg'[x] = msg[x]
        /\ \A x \in Coroutines \ {c} : resumeCh'[x] = resumeCh[x] /\ yieldCh'[x] = yieldCh[x]
    BY <1>0, <2>0, <1>10 DEF UnlockForChild, InCall
  <2>3. Link(t, c)'
    BY <1>0, <2>0, <1>10, <2>1, <2>2 DEF UnlockForChild, Link, Empty, AtReceive, InCall, Threads, NoMsg
  <2> QED
    BY <2>1, <2>2, <2>3, CallerMoves
<1>11. ASSUME NEW t \in Threads, ReceiveYield(t)
       PROVE  LinkInv'
  <2>0. PICK c \in Coroutines : c = call[t].to /\ Calling(t, c)
    BY <1>a, <1>11 DEF ReceiveYield, InCall
  <2>a. ~Closed
    BY <1>0, <2>0, <1>11 DEF ReceiveYield, Closed
  <2>1. c \in Coroutines /\ Calling(t, c) /\ Link(t, c) /\ ~Closed /\ t # c
    BY <1>b, <2>0, <2>a
  <2>2. /\ pc[c] \in Left /\ resumeCh[c] = NoMsg
        /\ yieldCh' = [yieldCh EXCEPT ![c] = NoMsg] /\ resumeCh' = resumeCh
    BY <1>11, <2>0, <2>1 DEF ReceiveYield, Link, Empty
  <2>3. /\ \A x \in Threads \ {t} : pc'[x] = pc[x] /\ msg'[x] = msg[x]
        /\ \A x \in Coroutines \ {c} : resumeCh'[x] = resumeCh[x] /\ yieldCh'[x] = yieldCh[x]
    BY <1>0, <2>0, <1>11, <2>2 DEF ReceiveYield
  <2>4. pc'[c] = pc[c] /\ Empty(c)'
    BY <1>0, <2>1, <2>2, <2>3 DEF Empty, Threads
  <2>5. CASE t = Main
    <3>1. pc'[t] = "run" /\ call' = [call EXCEPT ![t] = NoCall]
      BY <1>0, <2>0, <1>11, <2>5 DEF ReceiveYield, Epilogue
    <3>2. Resting(c)'
      BY <2>2, <2>4 DEF Resting, AtRest, Left
    <3> QED
      BY <2>1, <2>3, <3>1, <3>2, CallEnds
  <2>6. CASE t # Main
    <3>1. pc'[t] = "relock" /\ call' = call
      BY <1>0, <2>0, <1>11, <2>6 DEF ReceiveYield
    <3>2. Link(t, c)' /\ pc'[t] \in InCall
      BY <2>2, <2>4, <3>1 DEF Link, InCall
    <3> QED
      BY <2>1, <2>3, <3>1, <3>2, CallerMoves
  <2> QED
    BY <2>5, <2>6
<1>12. ASSUME NEW t \in Threads, RelockAndReturn(t)
       PROVE  LinkInv'
  <2>0. PICK c \in Coroutines : c = call[t].to /\ Calling(t, c)
    BY <1>a, <1>12 DEF RelockAndReturn, InCall
  <2>a. ~Closed
    BY <1>0, <2>0, <1>12 DEF RelockAndReturn, Closed
  <2>1. c \in Coroutines /\ Calling(t, c) /\ Link(t, c) /\ ~Closed /\ t # c
    BY <1>b, <2>0, <2>a
  <2>2. pc[c] \in Left /\ Empty(c) /\ UNCHANGED <<resumeCh, yieldCh>>
    BY <1>12, <2>0, <2>1 DEF RelockAndReturn, Link
  <2>3. /\ \A x \in Threads \ {t} : pc'[x] = pc[x] /\ msg'[x] = msg[x]
        /\ pc'[t] = "run" /\ call' = [call EXCEPT ![t] = NoCall]
    BY <1>0, <2>0, <1>12 DEF RelockAndReturn, Epilogue
  <2>4. Resting(c)'
    BY <1>0, <2>1, <2>2, <2>3 DEF Resting, Empty, AtRest, Left, Threads
  <2> QED
    BY <2>1, <2>2, <2>3, <2>4, CallEnds
<1>13. ASSUME NEW c \in Coroutines, ReceiveFirst(c)
       PROVE  LinkInv'
  <2>1. /\ \A x \in Threads \ {c} : pc'[x] = pc[x] /\ msg'[x] = msg[x]
        /\ \A x \in Coroutines \ {c} : resumeCh'[x] = resumeCh[x] /\ yieldCh'[x] = yieldCh[x]
        /\ call' = call /\ pc[c] \notin InCall /\ pc'[c] \notin InCall /\ ~Closed
    BY <1>0, <1>13 DEF ReceiveFirst, Running, InCall, Closed
  <2>2. \A t \in Threads : Calling(t, c) /\ t # c => Link(t, c)'
    BY <1>0, <1>b, <1>13, <2>1 DEF ReceiveFirst, Running, Link, Empty, AtReceive, Left, Active,
       InCall, NoMsg, YieldMsgs, ResumeMsgs, TypeInv
  <2>3. Resting(c) => Resting(c)' \/ Called(c)
    BY <1>0, <1>13, <2>1 DEF ReceiveFirst, Running, Resting, Empty, AtRest, NoMsg, LinkInv, TypeInv
  <2> QED
    BY <2>1, <2>2, <2>3, CalleeMoves
<1>14. ASSUME NEW c \in Coroutines, StartBody(c)
       PROVE  LinkInv'
  <2>1. /\ \A x \in Threads \ {c} : pc'[x] = pc[x] /\ msg'[x] = msg[x]
        /\ \A x \in Coroutines \ {c} : resumeCh'[x] = resumeCh[x] /\ yieldCh'[x] = yieldCh[x]
        /\ call' = call /\ pc[c] \notin InCall /\ pc'[c] \notin InCall /\ ~Closed
    BY <1>0, <1>14 DEF StartBody, Running, InCall, Closed
  <2>2. \A t \in Threads : Calling(t, c) /\ t # c => Link(t, c)'
    BY <1>0, <1>b, <1>14, <2>1 DEF StartBody, Running, Link, Empty, AtReceive, Left, Active,
       InCall, NoMsg, YieldMsgs, ResumeMsgs, TypeInv
  <2>3. Resting(c) => Resting(c)' \/ Called(c)
    BY <1>0, <1>14, <2>1 DEF StartBody, Running, Resting, Empty, AtRest, NoMsg, LinkInv, TypeInv
  <2> QED
    BY <2>1, <2>2, <2>3, CalleeMoves
<1>15. ASSUME NEW c \in Coroutines, StartErr(c)
       PROVE  LinkInv'
  <2>1. /\ \A x \in Threads \ {c} : pc'[x] = pc[x] /\ msg'[x] = msg[x]
        /\ \A x \in Coroutines \ {c} : resumeCh'[x] = resumeCh[x] /\ yieldCh'[x] = yieldCh[x]
        /\ call' = call /\ pc[c] \notin InCall /\ pc'[c] \notin InCall /\ ~Closed
    BY <1>0, <1>15 DEF StartErr, Running, InCall, Closed
  <2>2. \A t \in Threads : Calling(t, c) /\ t # c => Link(t, c)'
    BY <1>0, <1>b, <1>15, <2>1 DEF StartErr, Running, Link, Empty, AtReceive, Left, Active,
       InCall, NoMsg, YieldMsgs, ResumeMsgs, TypeInv
  <2>3. Resting(c) => Resting(c)' \/ Called(c)
    BY <1>0, <1>15, <2>1 DEF StartErr, Running, Resting, Empty, AtRest, NoMsg, LinkInv, TypeInv
  <2> QED
    BY <2>1, <2>2, <2>3, CalleeMoves
<1>16. ASSUME NEW c \in Coroutines, UnlockAfterYield(c)
       PROVE  LinkInv'
  <2>1. /\ \A x \in Threads \ {c} : pc'[x] = pc[x] /\ msg'[x] = msg[x]
        /\ \A x \in Coroutines \ {c} : resumeCh'[x] = resumeCh[x] /\ yieldCh'[x] = yieldCh[x]
        /\ call' = call /\ pc[c] \notin InCall /\ pc'[c] \notin InCall /\ ~Closed
    BY <1>0, <1>16 DEF UnlockAfterYield, Running, InCall, Closed
  <2>2. \A t \in Threads : Calling(t, c) /\ t # c => Link(t, c)'
    BY <1>0, <1>b, <1>16, <2>1 DEF UnlockAfterYield, Running, Link, Empty, AtReceive, Left, Active,
       InCall, NoMsg, YieldMsgs, ResumeMsgs, TypeInv
  <2>3. Resting(c) => Resting(c)' \/ Called(c)
    BY <1>0, <1>16, <2>1 DEF UnlockAfterYield, Running, Resting, Empty, AtRest, NoMsg, LinkInv, TypeInv
  <2> QED
    BY <2>1, <2>2, <2>3, CalleeMoves
<1>17. ASSUME NEW c \in Coroutines, ReceiveNext(c)
       PROVE  LinkInv'
  <2>1. /\ \A x \in Threads \ {c} : pc'[x] = pc[x] /\ msg'[x] = msg[x]
        /\ \A x \in Coroutines \ {c} : resumeCh'[x] = resumeCh[x] /\ yieldCh'[x] = yieldCh[x]
        /\ call' = call /\ pc[c] \notin InCall /\ pc'[c] \notin InCall /\ ~Closed
    BY <1>0, <1>17 DEF ReceiveNext, Running, InCall, Closed
  <2>2. \A t \in Threads : Calling(t, c) /\ t # c => Link(t, c)'
    BY <1>0, <1>b, <1>17, <2>1 DEF ReceiveNext, Running, Link, Empty, AtReceive, Left, Active,
       InCall, NoMsg, YieldMsgs, ResumeMsgs, TypeInv
  <2>3. Resting(c) => Resting(c)' \/ Called(c)
    BY <1>0, <1>17, <2>1 DEF ReceiveNext, Running, Resting, Empty, AtRest, NoMsg, LinkInv, TypeInv
  <2> QED
    BY <2>1, <2>2, <2>3, CalleeMoves
<1>18. ASSUME NEW c \in Coroutines, Reenter(c)
       PROVE  LinkInv'
  <2>1. /\ \A x \in Threads \ {c} : pc'[x] = pc[x] /\ msg'[x] = msg[x]
        /\ \A x \in Coroutines \ {c} : resumeCh'[x] = resumeCh[x] /\ yieldCh'[x] = yieldCh[x]
        /\ call' = call /\ pc[c] \notin InCall /\ pc'[c] \notin InCall /\ ~Closed
    BY <1>0, <1>18 DEF Reenter, Running, InCall, Closed
  <2>2. \A t \in Threads : Calling(t, c) /\ t # c => Link(t, c)'
    BY <1>0, <1>b, <1>18, <2>1 DEF Reenter, Running, Link, Empty, AtReceive, Left, Active,
       InCall, NoMsg, YieldMsgs, ResumeMsgs, TypeInv
  <2>3. Resting(c) => Resting(c)' \/ Called(c)
    BY <1>0, <1>18, <2>1 DEF Reenter, Running, Resting, Empty, AtRest, NoMsg, LinkInv, TypeInv
  <2> QED
    BY <2>1, <2>2, <2>3, CalleeMoves
<1>19. ASSUME NEW c \in Coroutines, SendLast(c)
       PROVE  LinkInv'
  <2>1. /\ \A x \in Threads \ {c} : pc'[x] = pc[x] /\ msg'[x] = msg[x]
        /\ \A x \in Coroutines \ {c} : resumeCh'[x] = resumeCh[x] /\ yieldCh'[x] = yieldCh[x]
        /\ call' = call /\ pc[c] \notin InCall /\ pc'[c] \notin InCall /\ ~Closed
    BY <1>0, <1>19 DEF SendLast, Running, InCall, Closed
  <2>2. \A t \in Threads : Calling(t, c) /\ t # c => Link(t, c)'
    BY <1>0, <1>b, <1>19, <2>1 DEF SendLast, Running, Link, Empty, AtReceive, Left, Active,
       InCall, NoMsg, YieldMsgs, ResumeMsgs, TypeInv
  <2>3. Resting(c) => Resting(c)' \/ Called(c)
    BY <1>0, <1>19, <2>1 DEF SendLast, Running, Resting, Empty, AtRest, NoMsg, LinkInv, TypeInv
  <2> QED
    BY <2>1, <2>2, <2>3, CalleeMoves
<1>20. ASSUME NEW c \in Coroutines, UnlockLast(c)
       PROVE  LinkInv'
  <2>1. /\ \A x \in Threads \ {c} : pc'[x] = pc[x] /\ msg'[x] = msg[x]
        /\ \A x \in Coroutines \ {c} : resumeCh'[x] = resumeCh[x] /\ yieldCh'[x] = yieldCh[x]
        /\ call' = call /\ pc[c] \notin InCall /\ pc'[c] \notin InCall /\ ~Closed
    BY <1>0, <1>20 DEF UnlockLast, Running, InCall, Closed
  <2>2. \A t \in Threads : Calling(t, c) /\ t # c => Link(t, c)'
    BY <1>0, <1>b, <1>20, <2>1 DEF UnlockLast, Running, Link, Empty, AtReceive, Left, Active,
       InCall, NoMsg, YieldMsgs, ResumeMsgs, TypeInv
  <2>3. Resting(c) => Resting(c)' \/ Called(c)
    BY <1>0, <1>20, <2>1 DEF UnlockLast, Running, Resting, Empty, AtRest, NoMsg, LinkInv, TypeInv
  <2> QED
    BY <2>1, <2>2, <2>3, CalleeMoves
<1>21. ASSUME NEW c \in Coroutines, Yield(c)
       PROVE  LinkInv'
  <2>1. /\ \A x \in Threads \ {c} : pc'[x] = pc[x] /\ msg'[x] = msg[x]
        /\ \A x \in Coroutines \ {c} : resumeCh'[x] = resumeCh[x] /\ yieldCh'[x] = yieldCh[x]
        /\ call' = call /\ pc[c] \notin InCall /\ pc'[c] \notin InCall /\ ~Closed
    BY <1>0, <1>21 DEF Yield, Running, InCall, Closed
  <2>2. \A t \in Threads : Calling(t, c) /\ t # c => Link(t, c)'
    BY <1>0, <1>b, <1>21, <2>1 DEF Yield, Running, Link, Empty, AtReceive, Left, Active,
       InCall, NoMsg, YieldMsgs, ResumeMsgs, TypeInv
  <2>3. Resting(c) => Resting(c)' \/ Called(c)
    BY <1>0, <1>21, <2>1 DEF Yield, Running, Resting, Empty, AtRest, NoMsg, LinkInv, TypeInv
  <2> QED
    BY <2>1, <2>2, <2>3, CalleeMoves
<1>22. ASSUME NEW c \in Coroutines, Return(c)
       PROVE  LinkInv'
  <2>1. /\ \A x \in Threads \ {c} : pc'[x] = pc[x] /\ msg'[x] = msg[x]
        /\ \A x \in Coroutines \ {c} : resumeCh'[x] = resumeCh[x] /\ yieldCh'[x] = yieldCh[x]
        /\ call' = call /\ pc[c] \notin InCall /\ pc'[c] \notin InCall /\ ~Closed
    BY <1>0, <1>22 DEF Return, Running, InCall, Closed
  <2>2. \A t \in Threads : Calling(t, c) /\ t # c => Link(t, c)'
    BY <1>0, <1>b, <1>22, <2>1 DEF Return, Running, Link, Empty, AtReceive, Left, Active,
       InCall, NoMsg, YieldMsgs, ResumeMsgs, TypeInv
  <2>3. Resting(c) => Resting(c)' \/ Called(c)
    BY <1>0, <1>22, <2>1 DEF Return, Running, Resting, Empty, AtRest, NoMsg, LinkInv, TypeInv
  <2> QED
    BY <2>1, <2>2, <2>3, CalleeMoves
<1>23. ASSUME NEW c \in Coroutines, Fail(c)
       PROVE  LinkInv'
  <2>1. /\ \A x \in Threads \ {c} : pc'[x] = pc[x] /\ msg'[x] = msg[x]
        /\ \A x \in Coroutines \ {c} : resumeCh'[x] = resumeCh[x] /\ yieldCh'[x] = yieldCh[x]
        /\ call' = call /\ pc[c] \notin InCall /\ pc'[c] \notin InCall /\ ~Closed
    BY <1>0, <1>23 DEF Fail, Running, InCall, Closed
  <2>2. \A t \in Threads : Calling(t, c) /\ t # c => Link(t, c)'
    BY <1>0, <1>b, <1>23, <2>1 DEF Fail, Running, Link, Empty, AtReceive, Left, Active,
       InCall, NoMsg, YieldMsgs, ResumeMsgs, TypeInv
  <2>3. Resting(c) => Resting(c)' \/ Called(c)
    BY <1>0, <1>23, <2>1 DEF Fail, Running, Resting, Empty, AtRest, NoMsg, LinkInv, TypeInv
  <2> QED
    BY <2>1, <2>2, <2>3, CalleeMoves
<1>24. ASSUME NEW c \in Coroutines, ResumeFinished(c)
       PROVE  LinkInv'
  BY <1>24 DEF ResumeFinished, LinkInv, Closed, Calling, Called, Link, Resting, Empty
<1>25. CASE Close
  BY <1>0, <1>25 DEF Close, Running, Closed
<1>26. CASE Stopped
  BY <1>1, <1>26 DEF Stopped
<1> QED
  BY <1>1, <1>2, <1>3, <1>4, <1>5, <1>6, <1>7, <1>8, <1>9, <1>10, <1>11, <1>12, <1>13, <1>14, <1>15, <1>16, <1>17, <1>18, <1>19, <1>20, <1>21, <1>22, <1>23, <1>24, <1>25, <1>26
     DEF Next, Program, GoStep, CoStep
-----------------------------------------------------------------------------
(* The order of the waiting threads                                        *)

\* The threads inside of a call, from the main thread on, each waiting for the
\* next, and then the one that none of them waits for any longer.
Ordered(n, ch) ==
    /\ ch[1] = Main
    /\ \A i, j \in 1 .. n : ch[i] = ch[j] => i = j
    /\ \A i \in 1 .. n - 1 : pc[ch[i]] \in InCall /\ call[ch[i]].to = ch[i + 1]
    /\ pc[ch[n]] \notin InCall
    /\ \A t \in Threads : pc[t] \in InCall => \E i \in 1 .. n - 1 : ch[i] = t

OrderInv ==
    Closed \/ \E n \in Nat \ {0} : \E ch \in [1 .. n -> Threads] : Ordered(n, ch)

\* The thread that has the VM is the last one,
LEMMA LastRuns ==
    ASSUME LinkInv, ~Closed, NEW n \in Nat \ {0}, NEW ch \in [1 .. n -> Threads],
           Ordered(n, ch), NEW t \in Threads, pc[t] \notin InCall,
           t \in Coroutines => ~Resting(t)
    PROVE  t = ch[n]
<1>1. CASE t = Main
  <2>1. 1 \in 1 .. n /\ n - 1 \in Nat
    OBVIOUS
  <2>2. ch[1] = t
    BY <1>1 DEF Ordered
  <2>3. ~(1 \in 1 .. n - 1)
    BY <2>2 DEF Ordered
  <2>4. n = 1
    BY <2>1, <2>3
  <2> QED
    BY <2>2, <2>4
<1>2. CASE t \in Coroutines
  <2>1. PICK u \in Threads : Calling(u, t)
    BY <1>2 DEF LinkInv, Called
  <2>2. PICK i \in 1 .. n - 1 : ch[i] = u
    BY <2>1 DEF Calling, Ordered
  <2>3. ch[i + 1] = t
    BY <2>1, <2>2 DEF Calling, Ordered
  <2>4. i + 1 \notin 1 .. n - 1
    BY <2>3 DEF Ordered
  <2>5. i + 1 = n
    BY <2>2, <2>4
  <2> QED
    BY <2>3, <2>5
<1> QED
  BY <1>1, <1>2 DEF Threads

\* and a coroutine that a thread waits for is on the way there.
LEMMA CalledIsOnTheWay ==
    ASSUME NEW n \in Nat \ {0}, NEW ch \in [1 .. n -> Threads], Ordered(n, ch),
           NEW c \in Coroutines, Called(c)
    PROVE  \E i \in 2 .. n : ch[i] = c /\ i - 1 \in 1 .. n - 1 /\ Calling(ch[i - 1], c)
<1>1. PICK u \in Threads : Calling(u, c)
  BY DEF Called
<1>2. PICK i \in 1 .. n - 1 : ch[i] = u
  BY <1>1 DEF Calling, Ordered
<1>3. ch[i + 1] = c
  BY <1>1, <1>2 DEF Calling, Ordered
<1>4. i + 1 \in 2 .. n /\ (i + 1) - 1 = i
  BY <1>2
<1> QED
  BY <1>1, <1>2, <1>3, <1>4

\* What the walk of CoStatus meets.
LEMMA ParkWalk ==
    ASSUME TypeInv, NEW c \in Coroutines
    PROVE  \E w :
              /\ w[1] = parkedOn[c]
              /\ \A k \in 2 .. MaxParkWalk :
                    w[k] = IF w[k - 1] = None THEN None ELSE parkedOn[w[k - 1]]
              /\ ParkChain(c) = {w[k] : k \in 1 .. MaxParkWalk} \ {None}
<1> DEFINE M == MaxParkWalk
           D == Coroutines \cup {None}
           Step(x) == IF x = None THEN None ELSE parkedOn[x]
           F == [k \in Int |-> [x \in D |-> Step(x)]]
           Loop(f) == f = [k \in 1 .. M |-> IF k = 1 THEN parkedOn[c] ELSE Step(f[k - 1])]
<1>1. M \in Int /\ 1 \in Int /\ 1 <= M
  BY BoundsAssumption
<1>2. /\ parkedOn[c] \in D /\ \A x \in D : Step(x) \in D
      /\ F \in [Int -> [D -> D]] /\ \A k \in Int, x \in D : F[k][x] = Step(x)
  BY DEF TypeInv, TypeOK
<1>3. ParkChain(c) = {(CHOOSE f : Loop(f))[k] : k \in 1 .. M} \ {None}
  BY DEF ParkChain
<1> HIDE DEF M, D, F, Step
<1>4. PICK f \in [1 .. M -> D] : IsLoopUp(f, 1, M, parkedOn[c], F)
  BY <1>1, <1>2, RecursionUp
<1>5. ASSUME NEW k \in 1 .. M
      PROVE  f[k] = IF k = 1 THEN parkedOn[c] ELSE Step(f[k - 1])
  <2>1. f[k] = IF k = 1 THEN parkedOn[c] ELSE F[k][f[k - 1]]
    BY <1>4 DEF IsLoopUp
  <2>2. k # 1 => f[k - 1] \in D
    BY <1>1, <1>4
  <2> QED
    BY <1>2, <2>1, <2>2
<1>6. f = [k \in 1 .. M |-> f[k]]
  BY <1>4
<1>7. Loop(f)
  BY <1>5, <1>6
<1> DEFINE w == CHOOSE g : Loop(g)
<1>8. Loop(w)
  BY <1>7
<1>9. ParkChain(c) = {w[k] : k \in 1 .. M} \ {None}
  BY <1>3
<1> HIDE DEF w
<1>10. \A k \in 1 .. M : w[k] = IF k = 1 THEN parkedOn[c] ELSE Step(w[k - 1])
  BY <1>8
<1>11. w[1] = parkedOn[c] /\ \A k \in 2 .. M : w[k] = Step(w[k - 1])
  BY <1>1, <1>10
<1> QED
  BY <1>9, <1>11 DEF Step, M

\* It gets as far as the thread that has the VM: the coroutines on the way are
\* inside of Resume, so there are no more of them than MaxDepth.
LEMMA WalkArrives ==
    ASSUME MaxDepth <= MaxParkWalk, TypeInv, BookInv, LinkInv, ~Closed,
           NEW n \in Nat \ {0}, NEW ch \in [1 .. n -> Threads], Ordered(n, ch),
           NEW i \in 2 .. n - 1
    PROVE  ch[n] \in ParkChain(ch[i])
<1>1. ASSUME NEW j \in 2 .. n - 1
      PROVE  ch[j] \in Coroutines \cap InResume /\ parkedOn[ch[j]] = ch[j + 1]
  <2>1. j \in 1 .. n /\ 1 \in 1 .. n /\ j # 1 /\ j \in 1 .. n - 1
    OBVIOUS
  <2>2. ch[j] \in Coroutines
    BY <2>1 DEF Ordered, Threads
  <2>3. pc[ch[j]] \in InCall /\ call[ch[j]].to = ch[j + 1]
    BY <2>1 DEF Ordered
  <2>4. call[ch[j]] \in Calls /\ call[ch[j]].kind # "error"
    BY <2>2, <2>3 DEF TypeInv, LinkInv, Threads
  <2>5. call[ch[j]].kind = "resume"
    BY <2>4 DEF Calls
  <2> QED
    BY <2>2, <2>3, <2>5 DEF InResume, BookInv, ChainBookkeeping, Threads
<1>2. n - i \in 1 .. MaxParkWalk
  <2>1. IsFiniteSet(2 .. n - 1) /\ Cardinality(2 .. n - 1) = n - 2
    BY FS_Interval
  <2>2. IsFiniteSet(InResume) /\ Cardinality(InResume) = depth /\ depth <= MaxDepth
    BY ThreadsFinite DEF BookInv, ChainBookkeeping, InResume
  <2>3. n - 2 <= depth
    <3>1. SUFFICES ASSUME depth < n - 2 PROVE FALSE
      BY DEF TypeInv, TypeOK
    <3> DEFINE f == [j \in 2 .. n - 1 |-> ch[j]]
    <3>2. f \in [2 .. n - 1 -> InResume] /\ \A j \in 2 .. n - 1 : f[j] = ch[j]
      BY <1>1
    <3>a. Cardinality(InResume) < Cardinality(2 .. n - 1)
      BY <2>1, <2>2, <3>1
    <3> HIDE DEF f
    <3>3. PICK x, y \in 2 .. n - 1 : x # y /\ f[x] = f[y]
      BY <2>1, <2>2, <3>2, <3>a, FS_PigeonHole
    <3>4. x \in 1 .. n /\ y \in 1 .. n /\ ch[x] = ch[y]
      BY <3>2, <3>3
    <3> QED
      BY <3>3, <3>4 DEF Ordered
  <2> QED
    BY <2>2, <2>3, BoundsAssumption DEF TypeInv, TypeOK
<1>3. PICK w :
         /\ w[1] = parkedOn[ch[i]]
         /\ \A k \in 2 .. MaxParkWalk :
               w[k] = IF w[k - 1] = None THEN None ELSE parkedOn[w[k - 1]]
         /\ ParkChain(ch[i]) = {w[k] : k \in 1 .. MaxParkWalk} \ {None}
  BY <1>1, ParkWalk
<1> DEFINE T == {k \in 1 .. n - i : w[k] = ch[i + k]}
<1>4. 1 <= n - i => 1 \in T
  BY <1>1, <1>3
<1>5. ASSUME NEW k \in 1 + 1 .. n - i, k - 1 \in T PROVE k \in T
  <2>1. /\ k \in 2 .. MaxParkWalk /\ k \in 1 .. n - i
        /\ i + (k - 1) \in 2 .. n - 1 /\ (i + (k - 1)) + 1 = i + k
    BY <1>2, BoundsAssumption
  <2>2. w[k - 1] = ch[i + (k - 1)]
    BY <1>5
  <2>3. ch[i + (k - 1)] # None /\ parkedOn[ch[i + (k - 1)]] = ch[i + k]
    BY <1>1, <2>1, ThreadsAssumption DEF Threads
  <2> QED
    BY <1>3, <2>1, <2>2, <2>3
<1>6. 1 \in Int /\ n - i \in Int
  OBVIOUS
<1> HIDE DEF T
<1>7. 1 .. n - i \subseteq T
  BY <1>4, <1>5, <1>6, UpwardInduction
<1>8. n - i \in T
  BY <1>2, <1>7
<1>9. w[n - i] = ch[n]
  <2>1. w[n - i] = ch[i + (n - i)] /\ i + (n - i) = n
    BY <1>8 DEF T
  <2> QED
    BY <2>1
<1>10. ch[n] # None
  BY ThreadsAssumption DEF Threads
<1> QED
  BY <1>2, <1>3, <1>9, <1>10

LEMMA SuspendedIsResting ==
    ASSUME MaxDepth <= MaxParkWalk
    PROVE  TypeInv /\ BookInv /\ LinkInv /\ OrderInv => SuspendedRests
<1> SUFFICES ASSUME TypeInv, BookInv, LinkInv, OrderInv, ~Closed, NEW t \in Threads,
                    NEW c \in Coroutines, Running(t), CoStatus(t, c) = "suspended"
             PROVE  Resting(c) /\ ~Called(c)
  BY DEF SuspendedRests
<1>1. PICK n \in Nat \ {0} : \E ch \in [1 .. n -> Threads] : Ordered(n, ch)
  BY DEF OrderInv
<1>2. PICK ch \in [1 .. n -> Threads] : Ordered(n, ch)
  BY <1>1
<1>3. t = ch[n]
  <2>1. pc[t] \notin InCall /\ (t \in Coroutines => ~Resting(t))
    BY DEF Running, InCall, Resting, AtRest
  <2> QED
    BY <1>2, <2>1, LastRuns
<1>4. ASSUME Called(c) PROVE FALSE
  <2>1. PICK i \in 2 .. n : ch[i] = c
    BY <1>2, <1>4, CalledIsOnTheWay
  <2>2. c # t
    BY SuspendedIsOther
  <2>3. i \in 2 .. n - 1 /\ i \in 1 .. n - 1
    BY <1>3, <2>1, <2>2
  <2>4. t \in ParkChain(c)
    BY <1>2, <1>3, <2>1, <2>3, WalkArrives
  <2>5. pc[c] \in InCall
    BY <1>2, <2>1, <2>3 DEF Ordered
  <2>6. Started(c) /\ ~Finished(c)
    BY <2>5 DEF Started, Finished, InCall
  <2> QED
    BY <2>2, <2>4, <2>6 DEF CoStatus
<1> QED
  BY <1>4 DEF LinkInv
\* Most steps leave who is inside of a call, and for whom, as it is.
LEMMA OrderSame ==
    ASSUME OrderInv, ~Closed,
           \A t \in Threads : /\ pc'[t] \in InCall <=> pc[t] \in InCall
                              /\ pc[t] \in InCall => call'[t].to = call[t].to
    PROVE  OrderInv'
<1>1. PICK n \in Nat \ {0} : \E ch \in [1 .. n -> Threads] : Ordered(n, ch)
  BY DEF OrderInv
<1>2. PICK ch \in [1 .. n -> Threads] : Ordered(n, ch)
  BY <1>1
<1>3. ch[n] \in Threads /\ \A i \in 1 .. n - 1 : ch[i] \in Threads
  OBVIOUS
<1>4. Ordered(n, ch)'
  BY <1>2, <1>3 DEF Ordered
<1> QED
  BY <1>4 DEF OrderInv

\* A call puts the coroutine behind the thread that has the VM,
LEMMA OrderGrows ==
    ASSUME LinkInv, OrderInv, ~Closed, NEW t \in Threads, NEW c \in Coroutines, t # c,
           Running(t), pc'[t] = "rsend", Resting(c), pc'[c] \in AtReceive,
           call'[t].to = c, \A x \in Threads \ {t} : call'[x] = call[x],
           \A x \in Threads \ {t, c} : pc'[x] = pc[x]
    PROVE  OrderInv'
<1>1. PICK n \in Nat \ {0} : \E ch \in [1 .. n -> Threads] : Ordered(n, ch)
  BY DEF OrderInv
<1>2. PICK ch \in [1 .. n -> Threads] : Ordered(n, ch)
  BY <1>1
<1>3. t = ch[n] /\ pc[t] \notin InCall /\ pc[c] \notin InCall /\ pc'[c] \notin InCall
  <2>1. /\ pc[t] \notin InCall /\ (t \in Coroutines => ~Resting(t))
        /\ pc[c] \notin InCall /\ pc'[c] \notin InCall
    BY DEF Running, InCall, Resting, AtRest, AtReceive
  <2> QED
    BY <1>2, <2>1, LastRuns
<1>4. \A i \in 1 .. n : ch[i] # c /\ (i # n => ch[i] # t /\ i \in 1 .. n - 1)
  BY <1>2, <1>3 DEF Ordered
<1> DEFINE m == n + 1
           dh == [i \in 1 .. m |-> IF i = m THEN c ELSE ch[i]]
<1>5. /\ m \in Nat \ {0} /\ dh \in [1 .. m -> Threads] /\ m - 1 = n
      /\ dh[m] = c /\ \A i \in 1 .. n : dh[i] = ch[i] /\ i \in 1 .. m
      /\ \A i \in 1 .. m : i # m => i \in 1 .. n
  BY DEF Threads
<1> HIDE DEF m, dh
<1>6. dh[1] = Main
  <2>1. 1 \in 1 .. n
    OBVIOUS
  <2> QED
    BY <1>2, <1>5, <2>1 DEF Ordered
<1>7. \A i, j \in 1 .. m : dh[i] = dh[j] => i = j
  BY <1>2, <1>4, <1>5 DEF Ordered
<1>8. ASSUME NEW i \in 1 .. m - 1
      PROVE  pc'[dh[i]] \in InCall /\ call'[dh[i]].to = dh[i + 1]
  <2>1. CASE i = n
    BY <1>3, <1>5, <2>1 DEF InCall, m
  <2>2. CASE i # n
    <3>1. i \in 1 .. n - 1 /\ i + 1 \in 1 .. n /\ i \in 1 .. n
      BY <1>5, <2>2
    <3>2. pc[ch[i]] \in InCall /\ call[ch[i]].to = ch[i + 1]
      BY <1>2, <3>1 DEF Ordered
    <3>3. ch[i] \in Threads \ {t, c}
      BY <1>4, <2>2, <3>1
    <3> QED
      BY <1>5, <3>1, <3>2, <3>3
  <2> QED
    BY <2>1, <2>2
<1>9. ASSUME NEW x \in Threads, pc'[x] \in InCall PROVE \E i \in 1 .. m - 1 : dh[i] = x
  <2>1. CASE x = t
    <3>1. n \in 1 .. m - 1 /\ n \in 1 .. n
      BY <1>5
    <3> QED
      BY <1>3, <1>5, <2>1, <3>1
  <2>2. CASE x # t
    <3>1. pc[x] \in InCall
      BY <1>3, <1>9, <2>2
    <3>2. PICK i \in 1 .. n - 1 : ch[i] = x
      BY <1>2, <3>1 DEF Ordered
    <3>3. i \in 1 .. m - 1 /\ i \in 1 .. n
      BY <1>5
    <3> QED
      BY <1>5, <3>2, <3>3
  <2> QED
    BY <2>1, <2>2
<1>10. Ordered(m, dh)'
  BY <1>3, <1>5, <1>6, <1>7, <1>8, <1>9 DEF Ordered
<1> QED
  BY <1>5, <1>10 DEF OrderInv

\* and when the call returns, the coroutine is the last one and is left off.
LEMMA OrderShrinks ==
    ASSUME TypeInv, OrderInv, ~Closed, NEW t \in Threads, NEW c \in Coroutines,
           Calling(t, c), pc[c] \notin InCall, pc'[t] = "run",
           \A x \in Threads \ {t} : pc'[x] = pc[x] /\ call'[x] = call[x]
    PROVE  OrderInv'
<1>1. PICK n \in Nat \ {0} : \E ch \in [1 .. n -> Threads] : Ordered(n, ch)
  BY DEF OrderInv
<1>2. PICK ch \in [1 .. n -> Threads] : Ordered(n, ch)
  BY <1>1
<1>3. PICK m \in 1 .. n - 1 : ch[m] = t
  BY <1>2 DEF Ordered, Calling
<1>4. ch[m + 1] = c /\ m + 1 \notin 1 .. n - 1
  BY <1>2, <1>3 DEF Ordered, Calling
<1>5. m + 1 = n /\ m = n - 1 /\ m \in Nat \ {0} /\ \A i \in 1 .. m - 1 : i \in 1 .. n - 1
  BY <1>3, <1>4
<1> DEFINE dh == [i \in 1 .. m |-> ch[i]]
<1>6. /\ dh \in [1 .. m -> Threads] /\ \A i \in 1 .. m : dh[i] = ch[i] /\ i \in 1 .. n
      /\ 1 \in 1 .. m /\ m \in 1 .. m
      /\ \A i \in 1 .. m - 1 : i \in 1 .. m /\ i + 1 \in 1 .. m /\ i # m
  BY <1>5
<1> HIDE DEF dh
<1>7. dh[1] = Main /\ \A i, j \in 1 .. m : dh[i] = dh[j] => i = j
  BY <1>2, <1>6 DEF Ordered
<1>8. ASSUME NEW i \in 1 .. m - 1
      PROVE  pc'[dh[i]] \in InCall /\ call'[dh[i]].to = dh[i + 1]
  <2>1. pc[ch[i]] \in InCall /\ call[ch[i]].to = ch[i + 1]
    BY <1>2, <1>5 DEF Ordered
  <2>2. ch[i] \in Threads \ {t}
    BY <1>3, <1>6, <1>7
  <2> QED
    BY <1>6, <2>1, <2>2
<1>9. pc'[dh[m]] \notin InCall
  BY <1>3, <1>6 DEF InCall
<1>10. ASSUME NEW x \in Threads, pc'[x] \in InCall PROVE \E i \in 1 .. m - 1 : dh[i] = x
  <2>1. x # t /\ pc[x] \in InCall
    BY <1>10 DEF InCall
  <2>2. PICK i \in 1 .. n - 1 : ch[i] = x
    BY <1>2, <2>1 DEF Ordered
  <2>3. i \in 1 .. m - 1
    BY <1>3, <1>5, <2>1, <2>2
  <2> QED
    BY <1>6, <2>2, <2>3
<1>11. Ordered(m, dh)'
  BY <1>7, <1>8, <1>9, <1>10 DEF Ordered
<1> QED
  BY <1>5, <1>6, <1>11 DEF OrderInv

LEMMA OrderStep ==
    TypeInv /\ LinkInv /\ SuspendedRests /\ OrderInv /\ [Next]_vars => OrderInv'
<1> SUFFICES ASSUME TypeInv, LinkInv, SuspendedRests, OrderInv, [Next]_vars, ~Closed'
             PROVE  OrderInv'
  BY DEF OrderInv
<1>0. /\ pc \in [Threads -> Labels] /\ call \in [Threads -> Calls \cup {NoCall}]
      /\ Main \in Threads /\ Main \notin Coroutines
  BY ThreadsAssumption DEF TypeInv, TypeOK
<1>a. \A t \in Threads : pc[t] \in InCall => call[t].to \in Coroutines /\ Calling(t, call[t].to)
  BY DEF TypeInv, Calls, Calling
<1>b. \A t \in Threads, c \in Coroutines : Calling(t, c) => Closed \/ (Link(t, c) /\ t # c)
  BY DEF LinkInv
<1>c. (\A t \in Threads : /\ pc'[t] \in InCall <=> pc[t] \in InCall
                          /\ pc[t] \in InCall => call'[t].to = call[t].to)
      /\ ~Closed => OrderInv'
  BY OrderSame
<1>1. CASE UNCHANGED vars
  BY <1>c, <1>1 DEF vars, Closed
<1>2. ASSUME NEW t \in Threads, NEW c \in Coroutines, NewThread(t, c)
      PROVE  OrderInv'
  BY <1>0, <1>c, <1>2 DEF NewThread, InCall, Closed, Running, Exists
<1>3. ASSUME NEW t \in Threads, NEW c \in Coroutines, CoClose(t, c)
      PROVE  OrderInv'
  BY <1>0, <1>c, <1>3 DEF CoClose, InCall, Closed, Running, Exists
<1>4. ASSUME NEW t \in Threads, NEW c \in Coroutines, Resume(t, c)
      PROVE  OrderInv'
  <2>0. t # c /\ pc[t] = "run"
    BY <1>4, SuspendedIsOther DEF Resume, Running
  <2>a. pc'[Main] \in {"rsend", pc[Main]}
    BY <1>0, <1>4, <2>0 DEF Resume
  <2>1. t # c /\ Running(t) /\ ~Closed /\ Resting(c)
    <3>1. ~Closed
      BY <1>0, <1>4, <2>0, <2>a DEF Resume, Closed
    <3> QED
      BY <1>4, <2>0, <3>1 DEF Resume, SuspendedRests
  <2>2. pc' = [pc EXCEPT ![t] = "rsend", ![c] = IF Started(c) THEN pc[c] ELSE "recv"]
    BY <1>4, <2>1 DEF Resume
  <2>3. /\ pc'[t] = "rsend" /\ \A x \in Threads \ {t, c} : pc'[x] = pc[x]
        /\ pc'[c] \in AtReceive
    <3>1. Started(c) => pc[c] \in AtReceive
      BY <1>4, <2>1 DEF Resume, CoStatus, Finished, Started, Resting, AtRest, AtReceive
    <3> QED
      BY <1>0, <2>1, <2>2, <3>1 DEF AtReceive, Threads
  <2>4. call'[t].to = c /\ \A x \in Threads \ {t} : call'[x] = call[x]
    BY <1>0, <1>4 DEF Resume
  <2> QED
    BY <2>1, <2>2, <2>3, <2>4, OrderGrows
<1>5. ASSUME NEW t \in Threads, NEW c \in Coroutines, ResumeRefused(t, c)
      PROVE  OrderInv'
  BY <1>0, <1>c, <1>5 DEF ResumeRefused, InCall, Closed, Running, Exists
<1>6. ASSUME NEW t \in Threads, NEW c \in Coroutines, ResumeError(t, c)
      PROVE  OrderInv'
  <2>0. t # c /\ pc[t] = "run"
    BY <1>6, SuspendedIsOther DEF ResumeError, Running
  <2>a. pc'[Main] \in {"rsend", pc[Main]}
    BY <1>0, <1>6, <2>0 DEF ResumeError
  <2>1. t # c /\ Running(t) /\ ~Closed /\ Resting(c)
    <3>1. ~Closed
      BY <1>0, <1>6, <2>0, <2>a DEF ResumeError, Closed
    <3> QED
      BY <1>6, <2>0, <3>1 DEF ResumeError, SuspendedRests
  <2>2. pc' = [pc EXCEPT ![t] = "rsend", ![c] = IF Started(c) THEN pc[c] ELSE "recvErr"]
    BY <1>6, <2>1 DEF ResumeError
  <2>3. /\ pc'[t] = "rsend" /\ \A x \in Threads \ {t, c} : pc'[x] = pc[x]
        /\ pc'[c] \in AtReceive
    <3>1. Started(c) => pc[c] \in AtReceive
      BY <1>6, <2>1 DEF ResumeError, CoStatus, Finished, Started, Resting, AtRest, AtReceive
    <3> QED
      BY <1>0, <2>1, <2>2, <3>1 DEF AtReceive, Threads
  <2>4. call'[t].to = c /\ \A x \in Threads \ {t} : call'[x] = call[x]
    BY <1>0, <1>6 DEF ResumeError
  <2> QED
    BY <2>1, <2>2, <2>3, <2>4, OrderGrows
<1>7. ASSUME NEW t \in Threads, NEW r \in {"callback", "handler"}, EnterRegion(t, r)
      PROVE  OrderInv'
  BY <1>0, <1>c, <1>7 DEF EnterRegion, InCall, Closed, Running, Exists
<1>8. ASSUME NEW t \in Threads, LeaveRegion(t)
      PROVE  OrderInv'
  BY <1>0, <1>c, <1>8 DEF LeaveRegion, InCall, Closed, Running, Exists
<1>9. ASSUME NEW t \in Threads, SendResume(t)
      PROVE  OrderInv'
  BY <1>0, <1>c, <1>9 DEF SendResume, InCall, Closed, Running, Exists
<1>10. ASSUME NEW t \in Threads, UnlockForChild(t)
      PROVE  OrderInv'
  BY <1>0, <1>c, <1>10 DEF UnlockForChild, InCall, Closed, Running, Exists
<1>11. ASSUME NEW t \in Threads, ReceiveYield(t)
      PROVE  OrderInv'
  <2>1. PICK c \in Coroutines : c = call[t].to /\ Calling(t, c)
    BY <1>a, <1>11 DEF ReceiveYield, InCall
  <2>2. ~Closed
    BY <1>0, <1>11 DEF ReceiveYield, Closed
  <2>3. Link(t, c) /\ t # c
    BY <1>b, <2>1, <2>2
  <2>4. pc[c] \notin InCall
    BY <1>11, <2>1, <2>3 DEF ReceiveYield, Link, Empty, Left, InCall
  <2>5. CASE t = Main
    <3>1. pc'[t] = "run" /\ \A x \in Threads \ {t} : pc'[x] = pc[x] /\ call'[x] = call[x]
      BY <1>0, <1>11, <2>5 DEF ReceiveYield, Epilogue
    <3> QED
      BY <2>1, <2>2, <2>4, <3>1, OrderShrinks
  <2>6. CASE t # Main
    BY <1>0, <1>c, <1>11, <2>2, <2>6 DEF ReceiveYield, InCall
  <2> QED
    BY <2>5, <2>6
<1>12. ASSUME NEW t \in Threads, RelockAndReturn(t)
      PROVE  OrderInv'
  <2>1. PICK c \in Coroutines : c = call[t].to /\ Calling(t, c)
    BY <1>a, <1>12 DEF RelockAndReturn, InCall
  <2>2. ~Closed
    BY <1>0, <1>12 DEF RelockAndReturn, Closed
  <2>3. Link(t, c) /\ t # c
    BY <1>b, <2>1, <2>2
  <2>4. pc[c] \notin InCall
    BY <1>12, <2>1, <2>3 DEF RelockAndReturn, Link, Empty, Left, InCall
  <2>5. pc'[t] = "run" /\ \A x \in Threads \ {t} : pc'[x] = pc[x] /\ call'[x] = call[x]
    BY <1>0, <1>12 DEF RelockAndReturn, Epilogue
  <2> QED
    BY <2>1, <2>2, <2>4, <2>5, OrderShrinks
<1>13. ASSUME NEW c \in Coroutines, ReceiveFirst(c)
      PROVE  OrderInv'
  BY <1>0, <1>c, <1>13 DEF ReceiveFirst, InCall, Closed, Running, Exists
<1>14. ASSUME NEW c \in Coroutines, StartBody(c)
      PROVE  OrderInv'
  BY <1>0, <1>c, <1>14 DEF StartBody, InCall, Closed, Running, Exists
<1>15. ASSUME NEW c \in Coroutines, StartErr(c)
      PROVE  OrderInv'
  BY <1>0, <1>c, <1>15 DEF StartErr, InCall, Closed, Running, Exists
<1>16. ASSUME NEW c \in Coroutines, UnlockAfterYield(c)
      PROVE  OrderInv'
  BY <1>0, <1>c, <1>16 DEF UnlockAfterYield, InCall, Closed, Running, Exists
<1>17. ASSUME NEW c \in Coroutines, ReceiveNext(c)
      PROVE  OrderInv'
  BY <1>0, <1>c, <1>17 DEF ReceiveNext, InCall, Closed, Running, Exists
<1>18. ASSUME NEW c \in Coroutines, Reenter(c)
      PROVE  OrderInv'
  BY <1>0, <1>c, <1>18 DEF Reenter, InCall, Closed, Running, Exists
<1>19. ASSUME NEW c \in Coroutines, SendLast(c)
      PROVE  OrderInv'
  BY <1>0, <1>c, <1>19 DEF SendLast, InCall, Closed, Running, Exists
<1>20. ASSUME NEW c \in Coroutines, UnlockLast(c)
      PROVE  OrderInv'
  BY <1>0, <1>c, <1>20 DEF UnlockLast, InCall, Closed, Running, Exists
<1>21. ASSUME NEW c \in Coroutines, Yield(c)
      PROVE  OrderInv'
  BY <1>0, <1>c, <1>21 DEF Yield, InCall, Closed, Running, Exists
<1>22. ASSUME NEW c \in Coroutines, Return(c)
      PROVE  OrderInv'
  BY <1>0, <1>c, <1>22 DEF Return, InCall, Closed, Running, Exists
<1>23. ASSUME NEW c \in Coroutines, Fail(c)
      PROVE  OrderInv'
  BY <1>0, <1>c, <1>23 DEF Fail, InCall, Closed, Running, Exists
<1>24. ASSUME NEW c \in Coroutines, ResumeFinished(c)
      PROVE  OrderInv'
  BY <1>0, <1>c, <1>24 DEF ResumeFinished, InCall, Closed, Running, Exists
<1>25. CASE Close
  BY <1>0, <1>25 DEF Close, Running, Closed
<1>26. CASE Stopped
  BY <1>1, <1>26 DEF Stopped
<1> QED
  BY <1>1, <1>2, <1>3, <1>4, <1>5, <1>6, <1>7, <1>8, <1>9, <1>10, <1>11,
     <1>12, <1>13, <1>14, <1>15, <1>16, <1>17, <1>18, <1>19, <1>20, <1>21,
     <1>22, <1>23, <1>24, <1>25, <1>26
     DEF Next, Program, GoStep, CoStep
\* What the chain of threads is, for a host that calls ResumeError only from
\* the main thread and a walk as long as the chain can get.
LEMMA ChainAlways ==
    ASSUME ErrCallers \subseteq {Main}, MaxDepth <= MaxParkWalk
    PROVE  Spec => [](TypeInv /\ BookInv /\ LinkInv /\ OrderInv)
<1>1. Init => LinkInv /\ OrderInv
  <2> SUFFICES ASSUME Init PROVE LinkInv /\ OrderInv
    OBVIOUS
  <2>1. \A t \in Threads : pc[t] \notin InCall
    BY DEF Init, InCall
  <2>2. \A c \in Coroutines : Resting(c) /\ call[c].kind # "error"
    BY ThreadsAssumption DEF Init, Resting, AtRest, Empty, NoCall
  <2>3. LinkInv
    BY <2>1, <2>2 DEF LinkInv, Calling
  <2> DEFINE ch == [i \in 1 .. 1 |-> Main]
  <2>4. ch \in [1 .. 1 -> Threads] /\ 1 \in Nat \ {0} /\ ch[1] = Main
        /\ \A i \in 1 .. 1 : i = 1
    BY DEF Threads
  <2> HIDE DEF ch
  <2>5. Ordered(1, ch)
    BY <2>1, <2>4 DEF Ordered
  <2> QED
    BY <2>3, <2>4, <2>5 DEF OrderInv
<1>2. TypeInv /\ BookInv /\ LinkInv /\ OrderInv /\ [Next]_vars
        => (TypeInv /\ BookInv /\ LinkInv /\ OrderInv)'
  BY TypeStep, BookStep, LinkStep, OrderStep, SuspendedIsResting
<1> QED
  BY <1>1, <1>2, TypeInit, BookInit, PTL DEF Spec

\* While the VM is open, a message finds its coroutine at its receive, exactly
\* one thread waits for the answer to it, and no send finds the buffer full,
\* for any number of coroutines and any depth of nested resumes.
THEOREM MessagesDisciplined ==
    ASSUME ErrCallers \subseteq {Main}, MaxDepth <= MaxParkWalk
    PROVE  Spec => []MessageDiscipline
<1>1. TypeInv /\ LinkInv => MessageDiscipline
  <2> SUFFICES ASSUME TypeInv, LinkInv, ~Closed PROVE MessageDiscipline
    BY DEF MessageDiscipline
  <2>1. \A t \in Threads, c \in Coroutines : Calling(t, c) => Link(t, c)
    BY DEF LinkInv
  <2>2. ASSUME NEW c \in Coroutines, ~Empty(c)
        PROVE  \E t \in Threads : WaitingFor(c) = {t} /\ Calling(t, c)
    <3>1. PICK t \in Threads : Calling(t, c)
      BY <2>2 DEF LinkInv, Resting, Called
    <3>2. pc[t] \in {"runlock", "rwait"}
      BY <2>1, <2>2, <3>1 DEF Link
    <3>3. \A u \in WaitingFor(c) : Calling(u, c)
      BY DEF WaitingFor, Calling, InCall
    <3>4. \A u \in WaitingFor(c) : u = t
      BY <3>1, <3>3 DEF LinkInv, WaitingFor
    <3>5. t \in WaitingFor(c)
      BY <3>1, <3>2 DEF WaitingFor, Calling
    <3> QED
      BY <3>1, <3>4, <3>5
  <2>3. ASSUME NEW c \in Coroutines, ~Empty(c) PROVE Cardinality(WaitingFor(c)) = 1
    BY <2>2, <2>3, FS_Singleton
  <2>4. ASSUME NEW c \in Coroutines, resumeCh[c] # NoMsg
        PROVE  pc[c] \in {"recv", "recvErr", "yunlock", "parked"} /\ yieldCh[c] = NoMsg
    <3>1. PICK t \in Threads : Calling(t, c)
      BY <2>2, <2>4 DEF Empty
    <3> QED
      BY <2>1, <2>4, <3>1 DEF Link, Empty, AtReceive
  <2>5. ASSUME NEW t \in Threads, pc[t] = "rsend" PROVE resumeCh[call[t].to] = NoMsg
    <3>1. call[t].to \in Coroutines /\ Calling(t, call[t].to)
      BY <2>5 DEF TypeInv, Calls, Calling, InCall
    <3> QED
      BY <2>1, <2>5, <3>1 DEF Link, Empty
  <2>6. ASSUME NEW t \in Threads, Executing(t), t # Main PROVE yieldCh[t] = NoMsg
    <3>1. t \in Coroutines /\ ~Resting(t)
      BY <2>6 DEF Executing, Resting, AtRest, Threads
    <3>2. PICK u \in Threads : Calling(u, t)
      BY <3>1 DEF LinkInv, Called
    <3> QED
      BY <2>1, <2>6, <3>1, <3>2 DEF Link, Empty, Executing, AtReceive, Left
  <2> QED
    BY <2>3, <2>4, <2>5, <2>6 DEF MessageDiscipline, Empty
<1> QED
  BY <1>1, ChainAlways, PTL

\* What coroutine.status answers is where the coroutine really stands, in a
\* chain of any length: the walk of CoStatus is longer than resumeDepth gets.
THEOREM StatusAlwaysTruthful ==
    ASSUME ErrCallers \subseteq {Main}, MaxDepth <= MaxParkWalk
    PROVE  Spec => []StatusTruthful
<1>1. TypeInv /\ BookInv /\ LinkInv /\ OrderInv => StatusTruthful
  <2> SUFFICES ASSUME TypeInv, BookInv, LinkInv, OrderInv, NEW t \in Threads,
                      NEW c \in Coroutines, Running(t), Exists(c), ~Closed
               PROVE  CoStatus(t, c) = ChainStatus(c)
    BY DEF StatusTruthful
  <2>1. PICK n \in Nat \ {0} : \E ch \in [1 .. n -> Threads] : Ordered(n, ch)
    BY DEF OrderInv
  <2>2. PICK ch \in [1 .. n -> Threads] : Ordered(n, ch)
    BY <2>1
  <2>3. t = ch[n]
    <3>1. pc[t] \notin InCall /\ (t \in Coroutines => ~Resting(t))
      BY DEF Running, InCall, Resting, AtRest
    <3> QED
      BY <2>2, <3>1, LastRuns
  <2>4. \A u \in Threads, d \in Coroutines : Calling(u, d) => Link(u, d)
    BY DEF LinkInv
  <2>5. CASE c = t
    BY <2>5 DEF CoStatus, ChainStatus, Running, Finished
  <2>6. CASE c # t /\ Called(c)
    <3>1. PICK i \in 2 .. n : ch[i] = c
      BY <2>2, <2>6, CalledIsOnTheWay
    <3>2. i \in 2 .. n - 1 /\ i \in 1 .. n - 1 /\ i + 1 \in 2 .. n
      BY <2>3, <2>6, <3>1
    <3>3. t \in ParkChain(c)
      BY <2>2, <2>3, <3>1, <3>2, WalkArrives
    <3>4. pc[c] \in InCall /\ call[c].to = ch[i + 1]
      BY <2>2, <3>1, <3>2 DEF Ordered
    <3> DEFINE d == call[c].to
    <3>5. d \in Coroutines /\ Calling(c, d)
      BY <3>4 DEF TypeInv, Calls, Calling, Threads
    <3>6. Link(c, d)
      BY <2>4, <3>5 DEF Threads
    <3>7. pc[d] = "run" \/ pc[d] \in InCall
      <4>1. CASE i + 1 = n
        BY <2>3, <3>4, <4>1 DEF Running
      <4>2. CASE i + 1 # n
        <5>1. i + 1 \in 1 .. n - 1
          BY <3>2, <4>2
        <5> QED
          BY <2>2, <3>4, <5>1 DEF Ordered
      <4> QED
        BY <4>1, <4>2
    <3>8. pc[c] \in {"runlock", "rwait"} /\ yieldCh[d] = NoMsg
      BY <3>6, <3>7 DEF Link, Empty, AtReceive, Left, InCall
    <3>9. CoStatus(t, c) = "normal"
      BY <2>6, <3>3, <3>8 DEF CoStatus, Started, Finished
    <3> QED
      BY <3>8, <3>9 DEF ChainStatus
  <2>7. CASE c # t /\ ~Called(c)
    <3>1. Resting(c)
      BY <2>7 DEF LinkInv
    <3>2. parkedOn[c] = None
      <4>1. pc[c] \notin InCall
        BY <3>1 DEF Resting, AtRest, InCall
      <4>2. call[c] = NoCall
        BY <4>1 DEF BookInv, Threads
      <4> QED
        BY <4>2 DEF BookInv, ChainBookkeeping, NoCall
    <3>3. ParkChain(c) = {}
      <4>1. PICK w :
               /\ w[1] = parkedOn[c]
               /\ \A k \in 2 .. MaxParkWalk :
                     w[k] = IF w[k - 1] = None THEN None ELSE parkedOn[w[k - 1]]
               /\ ParkChain(c) = {w[k] : k \in 1 .. MaxParkWalk} \ {None}
        BY ParkWalk
      <4> DEFINE T == {k \in 1 .. MaxParkWalk : w[k] = None}
      <4>2. 1 <= MaxParkWalk => 1 \in T
        BY <3>2, <4>1, BoundsAssumption
      <4>3. ASSUME NEW k \in 1 + 1 .. MaxParkWalk, k - 1 \in T PROVE k \in T
        <5>1. k \in 2 .. MaxParkWalk /\ k \in 1 .. MaxParkWalk
          BY BoundsAssumption
        <5> QED
          BY <4>1, <4>3, <5>1
      <4>4. 1 \in Int /\ MaxParkWalk \in Int
        BY BoundsAssumption
      <4> HIDE DEF T
      <4>5. 1 .. MaxParkWalk \subseteq T
        BY <4>2, <4>3, <4>4, UpwardInduction
      <4>6. \A k \in 1 .. MaxParkWalk : w[k] = None
        BY <4>5 DEF T
      <4> QED
        BY <4>1, <4>6
    <3>4. CoStatus(t, c) = IF Finished(c) THEN "dead" ELSE "suspended"
      BY <2>7, <3>3 DEF CoStatus
    <3>5. ChainStatus(c) = IF pc[c] \in {"funlock", "done"} THEN "dead" ELSE "suspended"
      BY <3>1 DEF Exists, Resting, AtRest, Empty, ChainStatus, NoMsg
    <3> QED
      BY <3>1, <3>4, <3>5 DEF Finished, Resting, AtRest
  <2> QED
    BY <2>5, <2>6, <2>7
<1> QED
  BY <1>1, ChainAlways, PTL
-----------------------------------------------------------------------------
(* The chain of Lua threads                                                *)

\* After Close no coroutine runs or will: each is parked or over, or on its
\* way out with the shutdown message, if no pcall of its body can stop it.
ClosedInv ==
    Closed =>
        /\ HostCloses
        /\ \A c \in Coroutines :
              /\ yieldCh[c] = NoMsg /\ resumeCh[c] \in {NoMsg, "shutdown"}
              /\ pc[c] \in AtRest \/ (pc[c] = "lock" /\ msg[c] = "shutdown")

\* The main thread closes the VM when no thread waits for another.
LEMMA AllRest ==
    ASSUME TypeInv, LinkInv, OrderInv, ~Closed, Running(Main)
    PROVE  \A c \in Coroutines : Resting(c)
<1>1. PICK n \in Nat \ {0} : \E ch \in [1 .. n -> Threads] : Ordered(n, ch)
  BY DEF OrderInv
<1>2. PICK ch \in [1 .. n -> Threads] : Ordered(n, ch)
  BY <1>1
<1>3. Main \in Threads /\ pc[Main] \notin InCall /\ Main \notin Coroutines
  BY ThreadsAssumption DEF Running, InCall
<1>4. ch[1] = Main /\ 1 \in 1 .. n /\ ~(1 \in 1 .. n - 1)
  BY <1>2, <1>3 DEF Ordered
<1>5. n = 1 /\ ~(\E i \in 1 .. n - 1 : TRUE)
  BY <1>4
<1>6. \A t \in Threads : pc[t] \notin InCall
  BY <1>2, <1>5 DEF Ordered
<1>7. \A c \in Coroutines : ~Called(c)
  BY <1>6 DEF Called, Calling
<1> QED
  BY <1>7 DEF LinkInv

LEMMA ClosedStep ==
    ASSUME UsesPcall = {} \/ ~HostCloses
    PROVE  TypeInv /\ LinkInv /\ OrderInv /\ ClosedInv /\ [Next]_vars => ClosedInv'
<1> SUFFICES ASSUME TypeInv, LinkInv, OrderInv, ClosedInv, [Next]_vars, Closed'
             PROVE  ClosedInv'
  BY DEF ClosedInv
<1>0. /\ pc \in [Threads -> Labels] /\ msg \in [Threads -> ResumeMsgs \cup YieldMsgs \cup {NoMsg}]
      /\ resumeCh \in [Coroutines -> ResumeMsgs \cup {NoMsg}]
      /\ yieldCh \in [Coroutines -> YieldMsgs \cup {NoMsg}]
      /\ Main \in Threads /\ Main \notin Coroutines
  BY ThreadsAssumption DEF TypeInv, TypeOK
<1>a. ASSUME Closed
      PROVE  /\ HostCloses /\ UsesPcall = {}
             /\ \A t \in Threads : pc[t] \notin InCall /\ pc[t] # "run"
  BY <1>0, <1>a DEF ClosedInv, Closed, AtRest, InCall, Threads
<1>b. \A t \in Threads : pc[t] \in InCall \/ pc[t] = "run" => ~Closed
  BY <1>a
<1>1. CASE UNCHANGED vars
  BY <1>1 DEF vars, ClosedInv, Closed
<1>2. ASSUME NEW t \in Threads, NEW c \in Coroutines, NewThread(t, c)
      PROVE  ClosedInv'
  BY <1>0, <1>b, <1>2 DEF NewThread, Running, Exists, Closed, InCall
<1>3. ASSUME NEW t \in Threads, NEW c \in Coroutines, CoClose(t, c)
      PROVE  ClosedInv'
  BY <1>0, <1>b, <1>3 DEF CoClose, Running, Exists, Closed, InCall
<1>4. ASSUME NEW t \in Threads, NEW c \in Coroutines, Resume(t, c)
      PROVE  ClosedInv'
  BY <1>0, <1>b, <1>4 DEF Resume, Running, Exists, Closed, InCall
<1>5. ASSUME NEW t \in Threads, NEW c \in Coroutines, ResumeRefused(t, c)
      PROVE  ClosedInv'
  BY <1>0, <1>b, <1>5 DEF ResumeRefused, Running, Exists, Closed, InCall
<1>6. ASSUME NEW t \in Threads, NEW c \in Coroutines, ResumeError(t, c)
      PROVE  ClosedInv'
  BY <1>0, <1>b, <1>6 DEF ResumeError, Running, Exists, Closed, InCall
<1>7. ASSUME NEW t \in Threads, NEW r \in {"callback", "handler"}, EnterRegion(t, r)
      PROVE  ClosedInv'
  BY <1>0, <1>b, <1>7 DEF EnterRegion, Running, Exists, Closed, InCall
<1>8. ASSUME NEW t \in Threads, LeaveRegion(t)
      PROVE  ClosedInv'
  BY <1>0, <1>b, <1>8 DEF LeaveRegion, Running, Exists, Closed, InCall
<1>9. ASSUME NEW t \in Threads, SendResume(t)
      PROVE  ClosedInv'
  BY <1>0, <1>b, <1>9 DEF SendResume, Running, Exists, Closed, InCall
<1>10. ASSUME NEW t \in Threads, UnlockForChild(t)
      PROVE  ClosedInv'
  BY <1>0, <1>b, <1>10 DEF UnlockForChild, Running, Exists, Closed, InCall
<1>11. ASSUME NEW t \in Threads, ReceiveYield(t)
      PROVE  ClosedInv'
  BY <1>0, <1>b, <1>11 DEF ReceiveYield, Running, Exists, Closed, InCall
<1>12. ASSUME NEW t \in Threads, RelockAndReturn(t)
      PROVE  ClosedInv'
  BY <1>0, <1>b, <1>12 DEF RelockAndReturn, Running, Exists, Closed, InCall
<1>13. ASSUME NEW c \in Coroutines, ReceiveFirst(c)
      PROVE  ClosedInv'
  BY <1>0, <1>13 DEF ReceiveFirst, ClosedInv, Closed, AtRest
<1>14. ASSUME NEW c \in Coroutines, StartBody(c)
      PROVE  ClosedInv'
  BY <1>0, <1>14 DEF StartBody, ClosedInv, Closed, AtRest
<1>15. ASSUME NEW c \in Coroutines, StartErr(c)
      PROVE  ClosedInv'
  BY <1>0, <1>15 DEF StartErr, ClosedInv, Closed, AtRest
<1>16. ASSUME NEW c \in Coroutines, UnlockAfterYield(c)
      PROVE  ClosedInv'
  BY <1>0, <1>a, <1>16 DEF UnlockAfterYield, CanCatch, ClosedInv, Closed, AtRest, NoMsg, Threads
<1>17. ASSUME NEW c \in Coroutines, ReceiveNext(c)
      PROVE  ClosedInv'
  BY <1>0, <1>a, <1>17 DEF ReceiveNext, CanCatch, ClosedInv, Closed, AtRest, NoMsg, Threads
<1>18. ASSUME NEW c \in Coroutines, Reenter(c)
      PROVE  ClosedInv'
  BY <1>0, <1>a, <1>18, ZenonT(60) DEF Reenter, CanCatch, ClosedInv, Closed, AtRest, NoMsg, Threads
<1>19. ASSUME NEW c \in Coroutines, SendLast(c)
      PROVE  ClosedInv'
  BY <1>0, <1>19 DEF SendLast, ClosedInv, Closed, AtRest
<1>20. ASSUME NEW c \in Coroutines, UnlockLast(c)
      PROVE  ClosedInv'
  BY <1>0, <1>a, <1>20 DEF UnlockLast, CanCatch, ClosedInv, Closed, AtRest, NoMsg, Threads
<1>21. ASSUME NEW c \in Coroutines, Yield(c)
      PROVE  ClosedInv'
  BY <1>0, <1>b, <1>21 DEF Yield, Running, Exists, Closed, InCall
<1>22. ASSUME NEW c \in Coroutines, Return(c)
      PROVE  ClosedInv'
  BY <1>0, <1>b, <1>22 DEF Return, Running, Exists, Closed, InCall
<1>23. ASSUME NEW c \in Coroutines, Fail(c)
      PROVE  ClosedInv'
  BY <1>0, <1>b, <1>23 DEF Fail, Running, Exists, Closed, InCall
<1>24. ASSUME NEW c \in Coroutines, ResumeFinished(c)
      PROVE  ClosedInv'
  BY <1>0, <1>b, <1>24 DEF ResumeFinished, Running, Exists, Closed, InCall
<1>25. CASE Close
  <2>1. \A c \in Coroutines : Resting(c)
    BY <1>0, <1>25, AllRest DEF Close, Running, Closed
  <2>2. /\ HostCloses /\ UNCHANGED <<yieldCh, msg>>
        /\ \A c \in Coroutines : pc'[c] = pc[c]
        /\ \A c \in Coroutines : resumeCh'[c] \in {resumeCh[c], "shutdown"}
    BY <1>0, <1>25 DEF Close, Threads
  <2> QED
    BY <2>1, <2>2 DEF Resting, Empty, ClosedInv
<1>26. CASE Stopped
  BY <1>1, <1>26 DEF Stopped
<1> QED
  BY <1>1, <1>2, <1>3, <1>4, <1>5, <1>6, <1>7, <1>8, <1>9, <1>10, <1>11,
     <1>12, <1>13, <1>14, <1>15, <1>16, <1>17, <1>18, <1>19, <1>20, <1>21,
     <1>22, <1>23, <1>24, <1>25, <1>26
     DEF Next, Program, GoStep, CoStep
\* The state of the chain that the mapping sees.
ChainSt    == [t \in Threads |-> ChainStatus(t)]
ChainLinks == [t \in Threads |-> ChainChild(t)]
ChainStep  == [Chain!Next]_<<ChainSt, ChainLinks>>

\* What the mapping reads of a thread.
Same(x) ==
    /\ pc'[x] = pc[x] /\ call'[x] = call[x]
    /\ x \in Coroutines => resumeCh'[x] = resumeCh[x] /\ msg'[x] = msg[x]
    /\ pc[x] \in {"runlock", "rwait"} => yieldCh'[call[x].to] = yieldCh[call[x].to]

LEMMA SameStays ==
    ASSUME TypeInv, NEW x \in Threads, Same(x)
    PROVE  ChainStatus(x)' = ChainStatus(x) /\ ChainChild(x)' = ChainChild(x)
<1>1. x \notin Coroutines => pc[x] \in MainLabels
  BY DEF TypeInv, Threads
<1>2. ChainStatus(x)' = ChainStatus(x)
  BY <1>1 DEF Same, ChainStatus, MainLabels
<1> QED
  BY <1>2 DEF Same, ChainChild

\* A step that one thread takes and the chain does not see.
LEMMA Unseen ==
    ASSUME TypeInv, NEW d \in Threads, \A x \in Threads \ {d} : Same(x),
           ChainStatus(d)' = ChainStatus(d), ChainChild(d)' = ChainChild(d)
    PROVE  ChainStep
<1>1. \A x \in Threads : ChainStatus(x)' = ChainStatus(x) /\ ChainChild(x)' = ChainChild(x)
  BY SameStays
<1>2. ChainSt' = ChainSt /\ ChainLinks' = ChainLinks
  BY <1>1 DEF ChainSt, ChainLinks
<1> QED
  BY <1>2 DEF ChainStep

\* A coroutine gives control back to the one thread that waits for it.
LEMMA Leaves ==
    ASSUME TypeInv, LinkInv, ~Closed, NEW c \in Coroutines,
           pc[c] \in {"run", "fsend"}, NEW how \in {"suspended", "dead"},
           \A x \in Threads \ {c} : pc'[x] = pc[x] /\ msg'[x] = msg[x],
           call' = call, UNCHANGED resumeCh, NEW m, m # NoMsg,
           yieldCh' = [yieldCh EXCEPT ![c] = m], ChainStatus(c)' = how
    PROVE  ChainStep
<1>0. yieldCh \in [Coroutines -> YieldMsgs \cup {NoMsg}] /\ c \in Threads
  BY DEF TypeInv, TypeOK, Threads
<1>1. PICK t \in Threads : Calling(t, c)
  BY DEF LinkInv, Called, Resting, AtRest
<1>2. t # c /\ Link(t, c)
  BY <1>1 DEF LinkInv
<1>3. pc[t] \in {"runlock", "rwait"} /\ call[t].to = c /\ yieldCh[c] = NoMsg
  BY <1>1, <1>2 DEF Link, Empty, AtReceive, Left, Calling
<1>4. \A x \in Threads \ {c, t} : Same(x)
  <2>1. \A x \in Threads \ {c, t} : pc[x] \in {"runlock", "rwait"} =>
           call[x].to # c /\ call[x].to \in Coroutines
    BY <1>1 DEF LinkInv, Calling, InCall, TypeInv, Calls
  <2> QED
    BY <1>0, <2>1 DEF Same
<1>5. ChainStatus(c) = "running" /\ ChainStatus(t) = "normal" /\ ChainStatus(t)' = "running"
  BY <1>0, <1>2, <1>3 DEF ChainStatus
<1>6. /\ ChainChild(t) = c /\ ChainChild(t)' = None
      /\ ChainChild(c) = None /\ ChainChild(c)' = None
  BY <1>3, <1>5 DEF ChainChild
<1>7. ChainSt' = [ChainSt EXCEPT ![c] = how, ![t] = "running"]
  BY <1>2, <1>4, <1>5, SameStays DEF ChainSt
<1>8. ChainLinks' = [ChainLinks EXCEPT ![t] = None]
  BY <1>2, <1>4, <1>6, SameStays DEF ChainLinks
<1>9. ChainSt[c] = "running" /\ ChainLinks[t] = c
  BY <1>0, <1>5, <1>6 DEF ChainSt, ChainLinks
<1>10. Chain!Leave(c, t, how)
  BY <1>7, <1>8, <1>9 DEF Chain!Leave, ChainSt, ChainLinks
<1> QED
  BY <1>10 DEF ChainStep, Chain!Next, Chain!Threads, Threads

LEMMA ChainStepTaken ==
    ASSUME UsesPcall = {} \/ ~HostCloses, ErrCallers \subseteq {Main},
           TypeInv, BookInv, LinkInv, OrderInv, SuspendedRests, ClosedInv, [Next]_vars
    PROVE  ChainStep
<1>0. /\ pc \in [Threads -> Labels] /\ msg \in [Threads -> ResumeMsgs \cup YieldMsgs \cup {NoMsg}]
      /\ resumeCh \in [Coroutines -> ResumeMsgs \cup {NoMsg}]
      /\ yieldCh \in [Coroutines -> YieldMsgs \cup {NoMsg}]
      /\ call \in [Threads -> Calls \cup {NoCall}]
      /\ Main \in Threads /\ Main \notin Coroutines
  BY ThreadsAssumption DEF TypeInv, TypeOK
<1>a. \A t \in Threads : pc[t] \in InCall \/ pc[t] = "run" => ~Closed
  BY <1>0 DEF ClosedInv, Closed, AtRest, InCall, Threads
<1>b. \A c \in Coroutines : Closed => /\ yieldCh[c] = NoMsg /\ resumeCh[c] \in {NoMsg, "shutdown"}
                                      /\ pc[c] \in AtRest \/ (pc[c] = "lock" /\ msg[c] = "shutdown")
                                      /\ UsesPcall = {}
  BY DEF ClosedInv
<1>c. \A t \in Threads : pc[t] \in InCall =>
         /\ call[t].to \in Coroutines /\ Calling(t, call[t].to)
         /\ t # call[t].to /\ Link(t, call[t].to)
         /\ \A u \in Threads : Calling(u, call[t].to) => u = t
  BY <1>a DEF TypeInv, Calls, Calling, LinkInv
<1>d. \A c \in Coroutines : ~Closed /\ resumeCh[c] # NoMsg =>
         resumeCh[c] \in {"args", "error"} /\ pc[c] \in AtReceive
  <2>1. \A t \in Threads, c \in Coroutines : ~Closed /\ Calling(t, c) => Link(t, c)
    BY DEF LinkInv
  <2> QED
    BY <2>1 DEF LinkInv, Resting, Called, Link, Empty
<1>e. \A x \in Threads : pc[x] \in {"runlock", "rwait"} => call[x].to \in Coroutines
  BY <1>c DEF InCall
<1>1. ASSUME UNCHANGED <<pc, call, msg, resumeCh, yieldCh>> PROVE ChainStep
  <2>1. \A x \in Threads : Same(x)
    BY <1>1 DEF Same
  <2> QED
    BY <1>0, <2>1, SameStays, Unseen
<1>2. ASSUME NEW t \in Threads, NEW c \in Coroutines, NewThread(t, c)
      PROVE  ChainStep
  <2>1. \A x \in Threads \ {c} : Same(x)
    BY <1>0, <1>2 DEF NewThread, Same
  <2>2. /\ ChainStatus(t) = "running" /\ ChainStatus(c) = "unborn"
        /\ ChainStatus(c)' = "suspended" /\ c \in Threads
    BY <1>0, <1>2 DEF NewThread, Running, ChainStatus, Threads
  <2>3. ChainChild(c) = None /\ ChainChild(c)' = None
    BY <2>2 DEF ChainChild
  <2>4. ChainSt' = [ChainSt EXCEPT ![c] = "suspended"]
    BY <2>1, <2>2, SameStays DEF ChainSt
  <2>5. ChainLinks' = ChainLinks
    BY <2>1, <2>2, <2>3, SameStays DEF ChainLinks
  <2>6. Chain!Create(t, c)
    BY <2>2, <2>4, <2>5 DEF Chain!Create, ChainSt, ChainLinks
  <2> QED
    BY <2>6 DEF ChainStep, Chain!Next, Chain!Threads, Threads
<1>3. ASSUME NEW t \in Threads, NEW c \in Coroutines, CoClose(t, c)
      PROVE  ChainStep
  BY <1>1, <1>3 DEF CoClose
<1>4. ASSUME NEW t \in Threads, NEW c \in Coroutines, Resume(t, c)
      PROVE  ChainStep
  <2>1. t # c /\ pc[t] = "run" /\ Resting(c) /\ c \in Threads
    BY <1>a, <1>4, SuspendedIsOther DEF Resume, Running, SuspendedRests, Threads
  <2>2. /\ pc' = [pc EXCEPT ![t] = "rsend", ![c] = IF Started(c) THEN pc[c] ELSE "recv"]
        /\ \A x \in Threads \ {t} : call'[x] = call[x]
        /\ UNCHANGED <<msg, resumeCh, yieldCh>>
    BY <1>0, <1>4, <2>1 DEF Resume
  <2>3. \A x \in Threads \ {t, c} : Same(x)
    BY <1>0, <2>2 DEF Same
  <2>4. ChainStatus(t) = "running" /\ ChainStatus(t)' = "running"
    BY <1>0, <2>1, <2>2 DEF ChainStatus
  <2>5. ChainStatus(c) = "suspended" /\ ChainStatus(c)' = "suspended"
    <3>1. pc[c] = "fresh" \/ pc[c] \in {"yunlock", "parked"}
      BY <1>4, <2>1 DEF Resume, Exists, CoStatus, Finished, Resting, AtRest
    <3>2. pc'[c] \in {"recv", "recvErr", "yunlock", "parked"} /\ resumeCh'[c] = NoMsg
      BY <1>0, <2>1, <2>2, <3>1 DEF Started, Resting, Empty
    <3> QED
      BY <2>1, <3>1, <3>2 DEF ChainStatus, Resting, Empty, NoMsg
  <2>6. \A x \in Threads : ChainStatus(x)' = ChainStatus(x) /\ ChainChild(x)' = ChainChild(x)
    BY <2>3, <2>4, <2>5, SameStays DEF ChainChild
  <2>7. ChainSt' = ChainSt /\ ChainLinks' = ChainLinks
    BY <2>6 DEF ChainSt, ChainLinks
  <2> QED
    BY <2>7 DEF ChainStep
<1>5. ASSUME NEW t \in Threads, NEW c \in Coroutines, ResumeRefused(t, c)
      PROVE  ChainStep
  BY <1>1, <1>5 DEF ResumeRefused
<1>6. ASSUME NEW t \in Threads, NEW c \in Coroutines, ResumeError(t, c)
      PROVE  ChainStep
  <2>1. t # c /\ pc[t] = "run" /\ Resting(c) /\ c \in Threads
    BY <1>a, <1>6, SuspendedIsOther DEF ResumeError, Running, SuspendedRests, Threads
  <2>2. /\ pc' = [pc EXCEPT ![t] = "rsend", ![c] = IF Started(c) THEN pc[c] ELSE "recvErr"]
        /\ \A x \in Threads \ {t} : call'[x] = call[x]
        /\ UNCHANGED <<msg, resumeCh, yieldCh>>
    BY <1>0, <1>6, <2>1 DEF ResumeError
  <2>3. \A x \in Threads \ {t, c} : Same(x)
    BY <1>0, <2>2 DEF Same
  <2>4. ChainStatus(t) = "running" /\ ChainStatus(t)' = "running"
    BY <1>0, <2>1, <2>2 DEF ChainStatus
  <2>5. ChainStatus(c) = "suspended" /\ ChainStatus(c)' = "suspended"
    <3>1. pc[c] = "fresh" \/ pc[c] \in {"yunlock", "parked"}
      BY <1>6, <2>1 DEF ResumeError, Exists, CoStatus, Finished, Resting, AtRest
    <3>2. pc'[c] \in {"recv", "recvErr", "yunlock", "parked"} /\ resumeCh'[c] = NoMsg
      BY <1>0, <2>1, <2>2, <3>1 DEF Started, Resting, Empty
    <3> QED
      BY <2>1, <3>1, <3>2 DEF ChainStatus, Resting, Empty, NoMsg
  <2>6. \A x \in Threads : ChainStatus(x)' = ChainStatus(x) /\ ChainChild(x)' = ChainChild(x)
    BY <2>3, <2>4, <2>5, SameStays DEF ChainChild
  <2>7. ChainSt' = ChainSt /\ ChainLinks' = ChainLinks
    BY <2>6 DEF ChainSt, ChainLinks
  <2> QED
    BY <2>7 DEF ChainStep
<1>7. ASSUME NEW t \in Threads, NEW r \in {"callback", "handler"}, EnterRegion(t, r)
      PROVE  ChainStep
  BY <1>1, <1>7 DEF EnterRegion
<1>8. ASSUME NEW t \in Threads, LeaveRegion(t)
      PROVE  ChainStep
  BY <1>1, <1>8 DEF LeaveRegion
<1>9. ASSUME NEW t \in Threads, SendResume(t)
      PROVE  ChainStep
  <2>1. PICK c \in Coroutines : c = call[t].to /\ t # c /\ Link(t, c) /\ Calling(t, c)
                                /\ \A u \in Threads : Calling(u, c) => u = t
    BY <1>c, <1>9 DEF SendResume, InCall
  <2>2. /\ pc[c] \in AtReceive /\ yieldCh[c] = NoMsg /\ resumeCh[c] = NoMsg
        /\ resumeCh'[c] \in {"args", "error"} /\ yieldCh' = yieldCh /\ call' = call
        /\ pc'[t] \in {"rwait", "runlock"} /\ pc'[c] = pc[c] /\ pc[t] = "rsend"
        /\ c \in Threads
    BY <1>0, <1>9, <2>1 DEF SendResume, Link, Empty, Threads
  <2>3. \A x \in Threads \ {t, c} : Same(x)
    BY <1>0, <1>9, <2>1 DEF SendResume, Same
  <2>4. /\ ChainStatus(t) = "running" /\ ChainStatus(t)' = "normal"
        /\ ChainStatus(c) = "suspended" /\ ChainStatus(c)' = "running"
    BY <2>1, <2>2 DEF ChainStatus, AtReceive, NoMsg
  <2>5. /\ ChainChild(t)' = c /\ ChainChild(c) = None /\ ChainChild(c)' = None
    BY <2>1, <2>2, <2>4 DEF ChainChild
  <2>6. ChainSt' = [ChainSt EXCEPT ![t] = "normal", ![c] = "running"]
    BY <2>1, <2>2, <2>3, <2>4, SameStays DEF ChainSt
  <2>7. ChainLinks' = [ChainLinks EXCEPT ![t] = c]
    BY <2>1, <2>2, <2>3, <2>5, SameStays DEF ChainLinks
  <2>8. Chain!Resume(t, c)
    BY <2>2, <2>4, <2>6, <2>7 DEF Chain!Resume, ChainSt, ChainLinks
  <2> QED
    BY <2>8 DEF ChainStep, Chain!Next, Chain!Threads, Threads
<1>10. ASSUME NEW t \in Threads, UnlockForChild(t)
      PROVE  ChainStep
  <2>1. \A x \in Threads \ {t} : Same(x)
    BY <1>0, <1>e, <1>10 DEF UnlockForChild, Same, Running
  <2>2. /\ pc[t] = "runlock" /\ pc'[t] = "rwait" /\ UNCHANGED <<call, yieldCh>>
    BY <1>0, <1>10 DEF UnlockForChild
  <2>3. ChainStatus(t)' = ChainStatus(t)
    BY <2>2 DEF ChainStatus
  <2> QED
    BY <2>1, <2>2, <2>3, Unseen DEF ChainChild
<1>11. ASSUME NEW t \in Threads, ReceiveYield(t)
      PROVE  ChainStep
  <2>1. PICK c \in Coroutines : c = call[t].to /\ \A u \in Threads : Calling(u, c) => u = t
    BY <1>c, <1>11 DEF ReceiveYield, InCall
  <2>2. /\ yieldCh' = [yieldCh EXCEPT ![c] = NoMsg] /\ resumeCh' = resumeCh
        /\ \A x \in Threads \ {t} : pc'[x] = pc[x] /\ msg'[x] = msg[x] /\ call'[x] = call[x]
    BY <1>0, <1>11, <2>1 DEF ReceiveYield, Epilogue
  <2>3. \A x \in Threads \ {t} : pc[x] \in {"runlock", "rwait"} => call[x].to # c
    BY <2>1 DEF Calling, InCall
  <2>4. \A x \in Threads \ {t} : Same(x)
    BY <1>0, <1>e, <2>1, <2>2, <2>3 DEF Same, Threads
  <2>5. ChainStatus(t) = "running" /\ ChainStatus(t)' = "running"
    <3>1. pc[t] = "rwait" /\ yieldCh[call[t].to] # NoMsg /\ pc'[t] \in {"run", "relock"}
      BY <1>0, <1>11 DEF ReceiveYield
    <3> QED
      BY <3>1 DEF ChainStatus
  <2> QED
    BY <2>4, <2>5, Unseen DEF ChainChild
<1>12. ASSUME NEW t \in Threads, RelockAndReturn(t)
      PROVE  ChainStep
  <2>1. \A x \in Threads \ {t} : Same(x)
    BY <1>0, <1>e, <1>12 DEF RelockAndReturn, Same, Epilogue
  <2>2. pc[t] = "relock" /\ pc'[t] = "run"
    BY <1>0, <1>12 DEF RelockAndReturn
  <2>3. ChainStatus(t) = "running" /\ ChainStatus(t)' = "running"
    BY <2>2 DEF ChainStatus
  <2> QED
    BY <2>1, <2>3, Unseen DEF ChainChild
<1>13. ASSUME NEW c \in Coroutines, ReceiveFirst(c)
      PROVE  ChainStep
  <2>1. \A x \in Threads \ {c} : Same(x)
    BY <1>0, <1>e, <1>13 DEF ReceiveFirst, Same, Running
  <2>2. c \in Threads /\ UNCHANGED <<call, yieldCh>>
    BY <1>13 DEF ReceiveFirst, Threads
  <2>3. ChainStatus(c)' = ChainStatus(c) /\ ChainStatus(c) # "normal"
    BY <1>0, <1>b, <1>d, <1>13 DEF ReceiveFirst, Running, ChainStatus, AtReceive, AtRest, NoMsg, Threads, InCall
  <2> QED
    BY <2>1, <2>2, <2>3, Unseen DEF ChainChild
<1>14. ASSUME NEW c \in Coroutines, StartBody(c)
      PROVE  ChainStep
  <2>1. \A x \in Threads \ {c} : Same(x)
    BY <1>0, <1>e, <1>14 DEF StartBody, Same, Running
  <2>2. c \in Threads /\ UNCHANGED <<call, yieldCh>>
    BY <1>14 DEF StartBody, Threads
  <2>3. ChainStatus(c)' = ChainStatus(c) /\ ChainStatus(c) # "normal"
    BY <1>0, <1>b, <1>d, <1>14 DEF StartBody, Running, ChainStatus, AtReceive, AtRest, NoMsg, Threads, InCall
  <2> QED
    BY <2>1, <2>2, <2>3, Unseen DEF ChainChild
<1>15. ASSUME NEW c \in Coroutines, StartErr(c)
      PROVE  ChainStep
  <2>1. \A x \in Threads \ {c} : Same(x)
    BY <1>0, <1>e, <1>15 DEF StartErr, Same, Running
  <2>2. c \in Threads /\ UNCHANGED <<call, yieldCh>>
    BY <1>15 DEF StartErr, Threads
  <2>3. ChainStatus(c)' = ChainStatus(c) /\ ChainStatus(c) # "normal"
    BY <1>0, <1>b, <1>d, <1>15 DEF StartErr, Running, ChainStatus, AtReceive, AtRest, NoMsg, Threads, InCall
  <2> QED
    BY <2>1, <2>2, <2>3, Unseen DEF ChainChild
<1>16. ASSUME NEW c \in Coroutines, UnlockAfterYield(c)
      PROVE  ChainStep
  <2>1. \A x \in Threads \ {c} : Same(x)
    BY <1>0, <1>e, <1>16 DEF UnlockAfterYield, Same, Running
  <2>2. c \in Threads /\ UNCHANGED <<call, yieldCh>>
    BY <1>16 DEF UnlockAfterYield, Threads
  <2>3. ChainStatus(c)' = ChainStatus(c) /\ ChainStatus(c) # "normal"
    BY <1>0, <1>b, <1>d, <1>16 DEF UnlockAfterYield, Running, ChainStatus, AtReceive, AtRest, NoMsg, Threads, InCall
  <2> QED
    BY <2>1, <2>2, <2>3, Unseen DEF ChainChild
<1>17. ASSUME NEW c \in Coroutines, ReceiveNext(c)
      PROVE  ChainStep
  <2>1. \A x \in Threads \ {c} : Same(x)
    BY <1>0, <1>e, <1>17 DEF ReceiveNext, Same, Running
  <2>2. c \in Threads /\ UNCHANGED <<call, yieldCh>>
    BY <1>17 DEF ReceiveNext, Threads
  <2>3. ChainStatus(c)' = ChainStatus(c) /\ ChainStatus(c) # "normal"
    BY <1>0, <1>b, <1>d, <1>17 DEF ReceiveNext, Running, ChainStatus, AtReceive, AtRest, NoMsg, Threads, InCall
  <2> QED
    BY <2>1, <2>2, <2>3, Unseen DEF ChainChild
<1>18. ASSUME NEW c \in Coroutines, Reenter(c)
      PROVE  ChainStep
  <2>1. \A x \in Threads \ {c} : Same(x)
    BY <1>0, <1>e, <1>18 DEF Reenter, Same, Running
  <2>2. c \in Threads /\ pc[c] = "lock" /\ UNCHANGED <<call, resumeCh, yieldCh>>
    BY <1>18 DEF Reenter, Threads
  <2>3. CASE ~Closed
    <3>1. PICK t \in Threads : Calling(t, c) /\ Link(t, c)
      BY <2>2, <2>3 DEF LinkInv, Called, Resting, AtRest
    <3>2. msg[c] \in {"args", "error"}
      BY <2>2, <3>1 DEF Link, AtReceive, Left
    <3>3. pc'[c] \in {"run", "fsend"}
      BY <1>0, <1>18, <2>2, <3>2 DEF Reenter
    <3>4. ChainStatus(c) = "running" /\ ChainStatus(c)' = "running"
      BY <2>2, <3>2, <3>3 DEF ChainStatus
    <3> QED
      BY <2>1, <2>2, <3>4, Unseen DEF ChainChild
  <2>4. CASE Closed
    <3>1. msg[c] = "shutdown" /\ UsesPcall = {}
      BY <1>b, <2>2, <2>4 DEF AtRest
    <3>2. pc'[c] = "funlock"
      BY <1>0, <1>18, <2>2, <3>1 DEF Reenter, CanCatch
    <3>3. ChainStatus(c) = "suspended" /\ ChainStatus(c)' = "dead"
      BY <2>2, <3>1, <3>2 DEF ChainStatus
    <3>4. ChainStatus(Main) = "stopped"
      BY <2>4 DEF Closed, ChainStatus
    <3>5. ChainSt' = [ChainSt EXCEPT ![c] = "dead"] /\ ChainLinks' = ChainLinks
      BY <2>1, <2>2, <3>3, SameStays DEF ChainSt, ChainLinks, ChainChild
    <3>6. Chain!Reclaim(c)
      BY <1>0, <2>2, <3>3, <3>4, <3>5 DEF Chain!Reclaim, ChainSt, ChainLinks
    <3> QED
      BY <3>6 DEF ChainStep, Chain!Next
  <2> QED
    BY <2>3, <2>4
<1>19. ASSUME NEW c \in Coroutines, SendLast(c)
      PROVE  ChainStep
  <2>1. /\ pc[c] \in {"run", "fsend"} /\ call' = call /\ UNCHANGED resumeCh
        /\ \A x \in Threads \ {c} : pc'[x] = pc[x] /\ msg'[x] = msg[x]
        /\ yieldCh' = [yieldCh EXCEPT ![c] = msg[c]] /\ c \in Threads
    BY <1>0, <1>19 DEF SendLast, Running, Threads
  <2>2. ~Closed /\ msg[c] # NoMsg
    BY <1>b, <1>19, <2>1 DEF SendLast, AtRest, NoMsg, TypeInv, YieldMsgs
  <2>3. ChainStatus(c)' = "dead"
    <3>1. resumeCh[c] = NoMsg
      BY <1>d, <2>1, <2>2 DEF AtReceive
    <3>2. pc'[c] = "funlock" /\ resumeCh'[c] = NoMsg
      BY <1>0, <1>19, <2>1, <3>1 DEF SendLast
    <3> QED
      BY <3>2 DEF ChainStatus, NoMsg
  <2> QED
    BY <2>1, <2>2, <2>3, Leaves
<1>20. ASSUME NEW c \in Coroutines, UnlockLast(c)
      PROVE  ChainStep
  <2>1. \A x \in Threads \ {c} : Same(x)
    BY <1>0, <1>e, <1>20 DEF UnlockLast, Same, Running
  <2>2. c \in Threads /\ UNCHANGED <<call, yieldCh>>
    BY <1>20 DEF UnlockLast, Threads
  <2>3. ChainStatus(c)' = ChainStatus(c) /\ ChainStatus(c) # "normal"
    BY <1>0, <1>b, <1>d, <1>20 DEF UnlockLast, Running, ChainStatus, AtReceive, AtRest, NoMsg, Threads, InCall
  <2> QED
    BY <2>1, <2>2, <2>3, Unseen DEF ChainChild
<1>21. ASSUME NEW c \in Coroutines, Yield(c)
      PROVE  ChainStep
  <2>1. /\ pc[c] \in {"run", "fsend"} /\ call' = call /\ UNCHANGED resumeCh
        /\ \A x \in Threads \ {c} : pc'[x] = pc[x] /\ msg'[x] = msg[x]
        /\ yieldCh' = [yieldCh EXCEPT ![c] = "yield"] /\ c \in Threads
    BY <1>0, <1>21 DEF Yield, Running, Threads
  <2>2. ~Closed /\ "yield" # NoMsg
    BY <1>b, <1>21, <2>1 DEF Yield, AtRest, NoMsg, TypeInv, YieldMsgs
  <2>3. ChainStatus(c)' = "suspended"
    <3>1. resumeCh[c] = NoMsg
      BY <1>d, <2>1, <2>2 DEF AtReceive
    <3>2. pc'[c] = "yunlock" /\ resumeCh'[c] = NoMsg
      BY <1>0, <1>21, <2>1, <3>1 DEF Yield
    <3> QED
      BY <3>2 DEF ChainStatus, NoMsg
  <2> QED
    BY <2>1, <2>2, <2>3, Leaves
<1>22. ASSUME NEW c \in Coroutines, Return(c)
      PROVE  ChainStep
  <2>1. \A x \in Threads \ {c} : Same(x)
    BY <1>0, <1>e, <1>22 DEF Return, Same, Running
  <2>2. c \in Threads /\ UNCHANGED <<call, yieldCh>>
    BY <1>22 DEF Return, Threads
  <2>3. ChainStatus(c)' = ChainStatus(c) /\ ChainStatus(c) # "normal"
    BY <1>0, <1>b, <1>d, <1>22 DEF Return, Running, ChainStatus, AtReceive, AtRest, NoMsg, Threads, InCall
  <2> QED
    BY <2>1, <2>2, <2>3, Unseen DEF ChainChild
<1>23. ASSUME NEW c \in Coroutines, Fail(c)
      PROVE  ChainStep
  <2>1. \A x \in Threads \ {c} : Same(x)
    BY <1>0, <1>e, <1>23 DEF Fail, Same, Running
  <2>2. c \in Threads /\ UNCHANGED <<call, yieldCh>>
    BY <1>23 DEF Fail, Threads
  <2>3. ChainStatus(c)' = ChainStatus(c) /\ ChainStatus(c) # "normal"
    BY <1>0, <1>b, <1>d, <1>23 DEF Fail, Running, ChainStatus, AtReceive, AtRest, NoMsg, Threads, InCall
  <2> QED
    BY <2>1, <2>2, <2>3, Unseen DEF ChainChild
<1>24. ASSUME NEW c \in Coroutines, ResumeFinished(c)
      PROVE  ChainStep
  BY <1>1, <1>24 DEF ResumeFinished
<1>25. CASE Close
  <2>1. ~Closed /\ \A c \in Coroutines : Resting(c)
    BY <1>0, <1>25, AllRest DEF Close, Running, Closed
  <2>2. /\ pc[Main] = "run" /\ pc'[Main] = "closed" /\ UNCHANGED <<yieldCh, msg, call>>
        /\ \A c \in Coroutines : pc'[c] = pc[c]
        /\ \A c \in Coroutines : resumeCh'[c] \in {resumeCh[c], "shutdown"}
    BY <1>0, <1>25 DEF Close, Running, Threads
  <2>3. \A c \in Coroutines : ChainStatus(c)' = ChainStatus(c) /\ ChainStatus(c) # "normal"
    BY <2>1, <2>2 DEF Resting, Empty, AtRest, ChainStatus, NoMsg
  <2>4. ChainStatus(Main) = "running" /\ ChainStatus(Main)' = "stopped"
    BY <2>2 DEF ChainStatus
  <2>5. ChainSt' = [ChainSt EXCEPT ![Main] = "stopped"] /\ ChainLinks' = ChainLinks
    BY <2>3, <2>4 DEF ChainSt, ChainLinks, ChainChild, Threads
  <2>6. Chain!Stop
    BY <1>0, <2>4, <2>5 DEF Chain!Stop, ChainSt, ChainLinks
  <2> QED
    BY <2>6 DEF ChainStep, Chain!Next
<1>26. CASE Stopped \/ UNCHANGED vars
  BY <1>1, <1>26 DEF Stopped, vars
<1> QED
  BY <1>1, <1>2, <1>3, <1>4, <1>5, <1>6, <1>7, <1>8, <1>9, <1>10, <1>11,
     <1>12, <1>13, <1>14, <1>15, <1>16, <1>17, <1>18, <1>19, <1>20, <1>21,
     <1>22, <1>23, <1>24, <1>25, <1>26
     DEF Next, Program, GoStep, CoStep

\* The goroutines, channels and the mutex implement the chain of Lua threads:
\* each coroutine created, resumed, suspended or finished by a step of theirs
\* is so by a step of the chain, and every other step is invisible there, for
\* a program without a pcall around a yield if the host closes the VM (what
\* such a pcall does with the shutdown is a finding of its own).
THEOREM SchedulerImplementsChain ==
    ASSUME ErrCallers \subseteq {Main}, MaxDepth <= MaxParkWalk,
           UsesPcall = {} \/ ~HostCloses
    PROVE  Spec => ImplementsChain
<1> DEFINE Inv == TypeInv /\ BookInv /\ LinkInv /\ OrderInv
<1>1. Init => Chain!Init /\ ClosedInv
  <2> SUFFICES ASSUME Init PROVE Chain!Init /\ ClosedInv
    OBVIOUS
  <2>1. \A t \in Threads : /\ ChainStatus(t) = IF t = Main THEN "running" ELSE "unborn"
                           /\ ChainChild(t) = None
    BY DEF Init, ChainStatus, ChainChild
  <2>2. ~Closed
    BY DEF Init, Closed, Threads
  <2> QED
    BY <2>1, <2>2 DEF Chain!Init, Chain!Threads, ClosedInv, Threads
<1>2. Inv /\ ClosedInv /\ [Next]_vars => ChainStep
  BY ChainStepTaken, SuspendedIsResting
<1>3. Inv /\ ClosedInv /\ [Next]_vars => ClosedInv'
  BY ClosedStep
<1>4. Spec => []Inv
  BY ChainAlways
<1> QED
  BY <1>1, <1>2, <1>3, <1>4, PTL DEF Spec, ImplementsChain, Chain!Spec, ChainStep,
     ChainSt, ChainLinks
=============================================================================
