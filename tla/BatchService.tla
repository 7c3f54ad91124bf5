---------------------------- MODULE BatchService ----------------------------
(***************************************************************************)
(* What a pool of workers promises the sweep controller that hands it a    *)
(* batch of tasks (crates/nec_worker/src/pool.rs), with no threads, no     *)
(* cursor, no retry loop and no order among the workers.                   *)
(*                                                                         *)
(* A call opens a set of tasks.  A task gets one outcome, once.  Workers   *)
(* are only ever lost.  A worker said to have died, or gone silent, with a *)
(* task is charged to it, and a task charged Budget times is blamed in the *)
(* very step of the last charge: no answer can charge it again.  A worker  *)
(* lost without that being said is charged to nobody.  A task is given up  *)
(* for want of workers only when there is none left.                       *)
(***************************************************************************)
EXTENDS Naturals

CONSTANTS Workers,     \* the workers a pool is built from
          Tasks,       \* the task indices of a call
          Budget       \* workers one task may be charged

VARIABLES open,        \* the tasks of the call in progress
          result,      \* the outcome of each task, "none" while it has none
          live,        \* the workers not yet lost
          charged      \* the workers charged to each task

vars == <<open, result, live, charged>>

Final == {"ok", "task", "blamed", "lost"}

Pending(i) == i \in open /\ result[i] = "none"

TypeOK == /\ open \subseteq Tasks
          /\ result \in [Tasks -> Final \cup {"none"}]
          /\ live \subseteq Workers
          /\ charged \in [Tasks -> 0 .. Budget]

Init == /\ open = {}
        /\ result = [i \in Tasks |-> "none"]
        /\ live \in SUBSET Workers
        /\ charged = [i \in Tasks |-> 0]

\* A call opens its tasks.
Open(S) == /\ open = {}
           /\ open' = S
           /\ result' = [i \in Tasks |-> "none"]
           /\ charged' = [i \in Tasks |-> 0]
           /\ UNCHANGED live

\* A batch on an empty pool may lose every task at once.
Refuse(S) == /\ open = {} /\ live = {}
             /\ result' = [i \in Tasks |-> IF i \in S THEN "lost" ELSE "none"]
             /\ charged' = [i \in Tasks |-> 0]
             /\ UNCHANGED <<open, live>>

\* A live worker settles a task, with a result or with a fault of the task's own.
Settle(i) == /\ Pending(i) /\ live # {}
             /\ \E o \in {"ok", "task"} : result' = [result EXCEPT ![i] = o]
             /\ UNCHANGED <<open, live, charged>>

\* A worker is lost as "unreachable": no task is charged.
LoseUncharged(w) == /\ open # {} /\ w \in live
               /\ live' = live \ {w}
               /\ UNCHANGED <<open, result, charged>>

\* A worker is lost as having had a task, which is charged, and blamed at the budget.
LoseCharged(w, i) ==
    /\ w \in live /\ Pending(i)
    /\ live' = live \ {w}
    /\ charged' = [charged EXCEPT ![i] = @ + 1]
    /\ result' = IF charged[i] + 1 >= Budget
                 THEN [result EXCEPT ![i] = "blamed"] ELSE result
    /\ UNCHANGED open

GiveUp(i) == /\ Pending(i) /\ live = {}
             /\ result' = [result EXCEPT ![i] = "lost"]
             /\ UNCHANGED <<open, live, charged>>

\* The call returns once every one of its tasks has an outcome.
Close == /\ open # {}
         /\ \A i \in open : result[i] # "none"
         /\ open' = {}
         /\ UNCHANGED <<result, live, charged>>

Next == \/ \E S \in SUBSET Tasks : Open(S) \/ Refuse(S)
        \/ \E i \in Tasks : Settle(i) \/ GiveUp(i)
        \/ \E w \in Workers : LoseUncharged(w) \/ \E i \in Tasks : LoseCharged(w, i)
        \/ Close

Spec == Init /\ [][Next]_vars
=============================================================================
