------------------------------ MODULE TableMap ------------------------------
(***************************************************************************)
(* What a Lua table promises: a finite map from keys to values, where an   *)
(* absent key reads as nil, and a traversal with next that visits every    *)
(* entry that stays exactly once, with its current value, as long as the   *)
(* program assigns only to keys that are present.  Table.tla implements    *)
(* this specification.                                                     *)
(***************************************************************************)
EXTENDS Integers

CONSTANTS IntKeys,  \* the integer keys
          NameKeys, \* the other keys
          Vals,     \* the values other than nil
          Nil

Keys == IntKeys \cup NameKeys

VARIABLES entries,  \* the map
          busy,     \* whether an operation has not returned yet
          at,       \* the traversal: where it stands and what it returned
          seen      \* the keys the traversal has visited

vars == <<entries, busy, at, seen>>

Idle    == [mode |-> "idle", key |-> Nil, val |-> Nil]
Started == [mode |-> "on", key |-> Nil, val |-> Nil]
Done    == [mode |-> "done", key |-> Nil, val |-> Nil]
Stop    == at' = Idle /\ seen' = {}

Init == /\ entries = [k \in Keys |-> Nil] /\ busy = FALSE
        /\ at = Idle /\ seen = {}

\* An operation takes effect when it is called.
Called   == ~busy /\ busy' \in BOOLEAN
Returned == busy /\ busy' = FALSE /\ UNCHANGED <<entries, at, seen>>

\* Assigning to an absent key ends the traversal: what it would do is not
\* defined.
Put(k, v) ==
    /\ Called
    /\ entries' = [entries EXCEPT ![k] = v]
    /\ IF entries[k] = Nil THEN Stop ELSE UNCHANGED <<at, seen>>

\* The list items of a constructor.
PutList(first, last) ==
    /\ Called /\ Stop
    /\ entries' \in [Keys -> Vals \cup {Nil}]
    /\ \A k \in Keys : k \notin first .. last => entries'[k] = entries[k]

Clear == Called /\ Stop /\ entries' = [k \in Keys |-> Nil]

Begin == Called /\ at' = Started /\ seen' = {} /\ UNCHANGED entries

Visit(k) ==
    /\ ~busy /\ at.mode = "on" /\ k \notin seen
    /\ entries[k] # Nil
    /\ at' = [mode |-> "on", key |-> k, val |-> entries[k]]
    /\ seen' = seen \cup {k}
    /\ UNCHANGED <<entries, busy>>

Finish ==
    /\ ~busy /\ at.mode = "on"
    /\ \A k \in Keys : entries[k] # Nil => k \in seen
    /\ at' = Done /\ seen' = {}
    /\ UNCHANGED <<entries, busy>>

\* The program leaves the traversal, to go on with a copy.
Leave == Called /\ Stop /\ UNCHANGED entries

Next ==
    \/ \E k \in Keys : \/ \E v \in Vals \cup {Nil} : Put(k, v)
                      \/ Visit(k)
    \/ \E first, last \in IntKeys : PutList(first, last)
    \/ Clear
    \/ Begin
    \/ Finish
    \/ Leave
    \/ Returned

Spec == Init /\ [][Next]_vars
=============================================================================
