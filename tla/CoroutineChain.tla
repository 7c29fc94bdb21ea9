--------------------------- MODULE CoroutineChain ---------------------------
(***************************************************************************)
(* What Lua promises about coroutines, with no goroutine, channel or mutex *)
(* in sight: the threads that are not suspended form a chain, each waiting *)
(* for the one it resumed, and only the last one runs.  Resume appends a   *)
(* suspended coroutine to the chain, and a yield, a return or an error     *)
(* takes the last one off and gives control back to the thread that        *)
(* resumed it.  Coroutine.tla implements this specification.               *)
(***************************************************************************)
CONSTANTS Main, Coroutines, None

VARIABLES st,     \* unborn, suspended, running, normal, dead (Main: stopped)
          child   \* the coroutine a normal thread has resumed

Threads == Coroutines \cup {Main}

Init == /\ st = [t \in Threads |-> IF t = Main THEN "running" ELSE "unborn"]
        /\ child = [t \in Threads |-> None]

Create(t, c) ==
    /\ st[t] = "running" /\ st[c] = "unborn"
    /\ st' = [st EXCEPT ![c] = "suspended"]
    /\ UNCHANGED child

Resume(t, c) ==
    /\ st[t] = "running" /\ st[c] = "suspended"
    /\ st' = [st EXCEPT ![t] = "normal", ![c] = "running"]
    /\ child' = [child EXCEPT ![t] = c]

\* c leaves the chain: suspended by a yield, dead by a return or an error.
Leave(c, t, how) ==
    /\ st[c] = "running" /\ child[t] = c
    /\ st' = [st EXCEPT ![c] = how, ![t] = "running"]
    /\ child' = [child EXCEPT ![t] = None]

\* The host closes the VM; what is still suspended may then be reclaimed, and
\* nothing runs again.
Stop ==
    /\ st[Main] = "running"
    /\ st' = [st EXCEPT ![Main] = "stopped"]
    /\ UNCHANGED child

Reclaim(c) ==
    /\ st[Main] = "stopped" /\ st[c] = "suspended"
    /\ st' = [st EXCEPT ![c] = "dead"]
    /\ UNCHANGED child

Next ==
    \/ \E c \in Coroutines, t \in Threads :
         \/ Create(t, c) \/ Resume(t, c)
         \/ \E how \in {"suspended", "dead"} : Leave(c, t, how)
    \/ Stop
    \/ \E c \in Coroutines : Reclaim(c)

Spec == Init /\ [][Next]_<<st, child>>
=============================================================================
