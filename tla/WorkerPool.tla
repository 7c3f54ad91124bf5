----------------------------- MODULE WorkerPool -----------------------------
(***************************************************************************)
(* WorkerPool (crates/nec_worker/src/pool.rs): the pool a distributed      *)
(* sweep dispatches its tasks to.                                          *)
(*                                                                         *)
(* A call is dispatch (one task) or dispatch_batch (1..n).  A batch runs   *)
(* in two phases: one thread per worker pulls task indices from an atomic  *)
(* cursor until they run out or the worker fails; then the calling thread  *)
(* retries, one by one, the tasks left without an outcome                  *)
(* (dispatch_with_strikes).  A worker's answer to a dispatch is one step;  *)
(* WorkerHandle.tla models what happens inside it.                            *)
(*                                                                         *)
(* charged, deaths and evicted are history variables: how many times each  *)
(* task of the call was answered "worker", how many workers were really    *)
(* lost after they had been given it, whatever was answered, and which     *)
(* workers never connected or answered "unreachable" or "worker".          *)
(***************************************************************************)
EXTENDS Integers, Sequences, FiniteSets, SequencesExt

CONSTANTS Workers,         \* the hosts a pool can hold
          MaxTasks,        \* bound: tasks in one batch
          MaxCalls,        \* bound: calls made on one pool
          MaxDiedHolding,  \* MAX_DIED_HOLDING
          Answers          \* what each worker's handle may answer a dispatch

Tasks == 1 .. MaxTasks

\* DispatchError's three variants and Ok, and whether the worker was lost after it had
\* been given the task.
Answer == [out : {"ok", "task", "unreachable", "worker"}, killed : {0, 1}]

ASSUME PoolAssumption == /\ IsFiniteSet(Workers)
                         /\ MaxTasks \in Nat
                         /\ MaxCalls \in Nat
                         /\ MaxDiedHolding \in Nat /\ MaxDiedHolding >= 2
                         /\ Answers \in [Workers -> SUBSET Answer]

VARIABLES phase,       \* "idle", "pulling" (the thread scope), "retrying", "closed"
          calls,       \* calls made so far
          pool,        \* self.workers
          nextWorker,  \* self.next_worker, counted from 0 as in the code
          n,           \* tasks.len()
          cursor,      \* the index the next fetch_add returns, counted from 1
          running,     \* the workers whose thread has not returned
          holding,     \* the task a thread has in dispatch, 0 for none
          survivors,   \* workers whose thread ran out of tasks, in that order
          orphaned,    \* the tasks whose worker failed, with their strikes
          slots,       \* the outcome of each task
          strikes,     \* the strikes map; 0 stands for an absent key
          todo,        \* the tasks still to retry
          try,         \* dispatch_with_strikes: its task, iterations left, idx
          charged, deaths, evicted,
          shut         \* the workers shut down with the pool

callVars  == <<phase, calls, n>>
batchVars == <<cursor, running, holding, survivors, orphaned>>
retryVars == <<strikes, todo, try>>
history   == <<charged, deaths, evicted>>
vars == <<callVars, pool, nextWorker, batchVars, slots, retryVars, history, shut>>

NoTry == [task |-> 0, left |-> 0, idx |-> 0]

PoolOrders ==
    UNION {{s \in [1 .. k -> Workers] : \A a, b \in 1 .. k : s[a] = s[b] => a = b}
             : k \in 0 .. Cardinality(Workers)}

TypeOK == /\ phase \in {"idle", "pulling", "retrying", "closed"}
          /\ calls \in 0 .. MaxCalls
          /\ pool \in Seq(Workers)
          /\ nextWorker \in Nat
          /\ n \in 0 .. MaxTasks
          /\ cursor \in Nat
          /\ running \subseteq Workers
          /\ holding \in [Workers -> 0 .. MaxTasks]
          /\ survivors \in Seq(Workers)
          /\ orphaned \subseteq Tasks \X {0, 1}
          /\ slots \in [Tasks -> {"none", "ok", "task", "blamed", "lost"}]
          /\ strikes \in [Tasks -> Nat]
          /\ todo \subseteq Tasks
          /\ try \in [task : 0 .. MaxTasks, left : Nat, idx : Nat]
          /\ charged \in [Tasks -> Nat] /\ deaths \in [Tasks -> Nat]
          /\ evicted \subseteq Workers /\ shut \subseteq Workers

\* new_ssh_skip_failures / new_local: the hosts that connected, in some order.
Init == /\ phase = "idle" /\ calls = 0 /\ n = 0
        /\ pool \in PoolOrders
        /\ nextWorker = 0
        /\ cursor = 1 /\ running = {} /\ holding = [w \in Workers |-> 0]
        /\ survivors = <<>> /\ orphaned = {}
        /\ slots = [i \in Tasks |-> "none"]
        /\ strikes = [i \in Tasks |-> 0] /\ todo = {} /\ try = NoTry
        /\ charged = [i \in Tasks |-> 0] /\ deaths = [i \in Tasks |-> 0]
        /\ evicted = Workers \ ToSet(pool)
        /\ shut = {}
-----------------------------------------------------------------------------
(* Calls                                                                   *)

NewCall == /\ phase = "idle" /\ calls < MaxCalls
           /\ calls' = calls + 1
           /\ charged' = [i \in Tasks |-> 0] /\ deaths' = [i \in Tasks |-> 0]
           /\ strikes' = [i \in Tasks |-> 0]

\* dispatch_batch on no task, or on an empty pool: every task is an error.
BatchRefused(k) ==
    /\ NewCall /\ (k = 0 \/ pool = <<>>)
    /\ n' = k
    /\ slots' = [i \in Tasks |-> IF i <= k THEN "lost" ELSE "none"]
    /\ UNCHANGED <<phase, pool, nextWorker, batchVars, todo, try, evicted, shut>>

\* dispatch_batch: the pool is taken, and every worker gets a thread.
BatchStart(k) ==
    /\ NewCall /\ k > 0 /\ pool # <<>>
    /\ n' = k /\ phase' = "pulling"
    /\ slots' = [i \in Tasks |-> "none"]
    /\ cursor' = 1 /\ running' = ToSet(pool) /\ pool' = <<>>
    /\ survivors' = <<>> /\ orphaned' = {}
    /\ UNCHANGED <<nextWorker, holding, todo, try, evicted, shut>>

\* dispatch: one task, straight to dispatch_with_strikes with no strike.
DispatchStart ==
    /\ NewCall /\ MaxTasks > 0
    /\ n' = 1 /\ phase' = "retrying" /\ todo' = {1}
    /\ slots' = [i \in Tasks |-> "none"]
    /\ UNCHANGED <<pool, nextWorker, batchVars, try, evicted, shut>>
-----------------------------------------------------------------------------
(* The worker threads of a batch                                           *)

\* Mutant: the cursor is read and not advanced.
AfterClaimUnmoved == cursor

\* cursor.fetch_add(1)
AfterClaim == cursor + 1

\* Mutant: a thread whose fetch_add ran past the end drops its worker.
LeaveDropping(w) == survivors

\* A thread that finds no task left keeps its worker.
Leave(w) == Append(survivors, w)

Busy(w) == w \in running /\ holding[w] # 0

Pull(w) ==
    /\ w \in running /\ holding[w] = 0
    /\ cursor' = AfterClaim
    /\ IF cursor > n
       THEN /\ survivors' = Leave(w)
            /\ running' = running \ {w}
            /\ UNCHANGED holding
       ELSE /\ holding' = [holding EXCEPT ![w] = cursor]
            /\ UNCHANGED <<running, survivors>>
    /\ UNCHANGED <<callVars, pool, nextWorker, orphaned, slots, retryVars, history, shut>>

\* What an answer adds to the history of its task.
Costs(i, a) ==
    /\ charged' = [charged EXCEPT ![i] = IF a.out = "worker" THEN @ + 1 ELSE @]
    /\ deaths' = [deaths EXCEPT ![i] = @ + a.killed]

\* Ok and Task faults settle the task; the worker pulls again.
ThreadSettles(w, a) ==
    /\ Busy(w) /\ a.out \in {"ok", "task"}
    /\ slots' = [slots EXCEPT ![holding[w]] = a.out]
    /\ Costs(holding[w], a)
    /\ holding' = [holding EXCEPT ![w] = 0]
    /\ UNCHANGED <<callVars, pool, nextWorker, cursor, running, survivors, orphaned,
                   retryVars, evicted, shut>>

\* Mutants: a death is orphaned without a strike; an unreachable worker costs one too.
StrikeOfForgiving(out) == 0
StrikeOfAnyFault(out) == 1

StrikeOf(out) == IF out = "worker" THEN 1 ELSE 0

\* Unreachable and Worker faults orphan the task; the worker is gone.
ThreadFails(w, a) ==
    /\ Busy(w) /\ a.out \in {"unreachable", "worker"}
    /\ orphaned' = orphaned \cup {<<holding[w], StrikeOf(a.out)>>}
    /\ Costs(holding[w], a)
    /\ running' = running \ {w} /\ holding' = [holding EXCEPT ![w] = 0]
    /\ evicted' = evicted \cup {w}
    /\ UNCHANGED <<callVars, pool, nextWorker, cursor, survivors, slots, retryVars, shut>>
-----------------------------------------------------------------------------
(* After the scope: retries on the calling thread                          *)

\* Mutants: tasks nobody reached are forgotten; every task of the batch is
\* retried; the indices start at 0.
RetrySetOrphansOnly == {i \in 1 .. n : \E s \in {0, 1} : <<i, s>> \in orphaned}
RetrySetAll == 1 .. n
RetrySetFromZero == 0 .. n - 1

\* Tasks nobody reached and tasks whose worker failed.
RetrySet == {i \in 1 .. n : slots[i] = "none" \/ \E s \in {0, 1} : <<i, s>> \in orphaned}

\* Every thread of the scope has returned.
ScopeEnded == running = {}

Join == /\ phase = "pulling" /\ ScopeEnded
        /\ phase' = "retrying"
        /\ pool' = survivors /\ survivors' = <<>>
        /\ nextWorker' = 0
        /\ strikes' = [i \in Tasks |-> IF <<i, 1>> \in orphaned THEN 1 ELSE 0]
        /\ todo' = RetrySet
        /\ UNCHANGED <<calls, n, cursor, running, holding, orphaned, slots, try,
                       history, shut>>

\* The call to dispatch_with_strikes ends with outcome o.
Outcome(o) == /\ slots' = [slots EXCEPT ![try.task] = o]
              /\ todo' = todo \ {try.task}
              /\ try' = NoTry

\* Mutant: the loop runs once too few.
AttemptsShort == Len(pool) - 1

\* initial_len: one iteration per worker of the pool.
Attempts == Len(pool)

\* dispatch_with_strikes is entered for the first task left to retry.
TryStart ==
    /\ phase = "retrying" /\ try.task = 0 /\ todo # {}
    /\ \E i \in todo :
         /\ \A j \in todo : i <= j
         /\ IF pool = <<>>
            THEN /\ slots' = [slots EXCEPT ![i] = "lost"]
                 /\ todo' = todo \ {i}
                 /\ UNCHANGED try
            ELSE /\ try' = [task |-> i, left |-> Attempts, idx |-> nextWorker % Len(pool)]
                 /\ UNCHANGED <<slots, todo>>
    /\ UNCHANGED <<callVars, pool, nextWorker, batchVars, strikes, history, shut>>

Trying == try.task # 0 /\ try.left > 0 /\ pool # <<>>
At == try.idx % Len(pool)
Tried == pool[At + 1]

TrySettles(a) ==
    /\ Trying /\ a.out \in {"ok", "task"}
    /\ Outcome(a.out)
    /\ nextWorker' = (At + 1) % Len(pool)
    /\ Costs(try.task, a)
    /\ UNCHANGED <<callVars, pool, batchVars, strikes, evicted, shut>>

\* The element after the evicted one has moved into its place.
AfterEviction == [try EXCEPT !.left = @ - 1, !.idx = At]

TryUnreachable(a) ==
    /\ Trying /\ a.out = "unreachable"
    /\ pool' = RemoveAt(pool, At + 1)
    /\ evicted' = evicted \cup {Tried}
    /\ try' = AfterEviction
    /\ Costs(try.task, a)
    /\ UNCHANGED <<callVars, nextWorker, batchVars, slots, strikes, todo, shut>>

OutOfStrikes(s) == s >= MaxDiedHolding

TryDied(a) ==
    /\ Trying /\ a.out = "worker"
    /\ pool' = RemoveAt(pool, At + 1)
    /\ evicted' = evicted \cup {Tried}
    /\ strikes' = [strikes EXCEPT ![try.task] = @ + 1]
    /\ Costs(try.task, a)
    /\ IF OutOfStrikes(strikes[try.task] + 1)
       THEN Outcome("blamed") /\ nextWorker' = 0
       ELSE try' = AfterEviction /\ UNCHANGED <<slots, todo, nextWorker>>
    /\ UNCHANGED <<callVars, batchVars, shut>>

TryExhausted ==
    /\ try.task # 0 /\ (try.left = 0 \/ pool = <<>>)
    /\ Outcome("lost")
    /\ UNCHANGED <<callVars, pool, nextWorker, batchVars, strikes, history, shut>>

Return == /\ phase = "retrying" /\ todo = {} /\ try.task = 0
          /\ phase' = "idle"
          /\ UNCHANGED <<calls, n, pool, nextWorker, batchVars, slots, retryVars,
                         history, shut>>

\* shutdown_all, and Drop: every worker still in the pool is told to exit.
ShutdownAll == /\ phase = "idle"
               /\ phase' = "closed"
               /\ shut' = ToSet(pool) /\ pool' = <<>>
               /\ UNCHANGED <<calls, n, nextWorker, batchVars, slots, retryVars, history>>
-----------------------------------------------------------------------------
Thread(w) == \/ Pull(w)
             \/ \E a \in Answers[w] : ThreadSettles(w, a) \/ ThreadFails(w, a)

Try == /\ Trying
       /\ \E a \in Answers[Tried] : TrySettles(a) \/ TryUnreachable(a) \/ TryDied(a)

Caller == Join \/ TryStart \/ Try \/ TryExhausted \/ Return

Call == DispatchStart \/ \E k \in 0 .. MaxTasks : BatchRefused(k) \/ BatchStart(k)

Next == Call \/ Caller \/ ShutdownAll \/ \E w \in Workers : Thread(w)

Spec == Init /\ [][Next]_vars

\* Every thread is scheduled, and every dispatch answers within its deadline.
Fairness == WF_vars(Caller) /\ \A w \in Workers : WF_vars(Thread(w))

FairSpec == Spec /\ Fairness
-----------------------------------------------------------------------------
(* Properties                                                              *)

\* A worker is lost only by failing: at every moment each worker that has not
\* failed is in exactly one of the pool, the running threads, the survivors and
\* the workers shut down with the pool, and once only.  (FND-117: a task's own
\* fault used to evict its worker.)
NoWorkerLostOrDuplicated ==
    LET placed == <<ToSet(pool), running, ToSet(survivors), evicted, shut>> IN
    /\ UNION {placed[k] : k \in 1 .. 5} = Workers
    /\ \A j, k \in 1 .. 5 : j # k => placed[j] \cap placed[k] = {}
    /\ IsInjective(pool) /\ IsInjective(survivors)

\* No two threads ever hold the same task, and a task in the hands of a thread
\* has neither an outcome nor an entry among the orphans.
OneHolderPerTask ==
    \A w \in running : holding[w] # 0 =>
        /\ \A v \in running : holding[v] = holding[w] => v = w
        /\ slots[holding[w]] = "none"
        /\ \A s \in {0, 1} : <<holding[w], s>> \notin orphaned

\* The strike budget (FND-102): over both phases of a call a task is answered "worker" at
\* most MAX_DIED_HOLDING times, and it is blamed when, and only when, it has been.
StrikesWithinBudget ==
    \A i \in Tasks : /\ charged[i] <= MaxDiedHolding
                     /\ slots[i] = "blamed" <=> charged[i] = MaxDiedHolding

\* A task is refused to the rest of the pool only after it has really cost the pool
\* MAX_DIED_HOLDING processes that had been given it: not for hosts that were not there
\* (FND-176), and not for a worker that kept quiet about a task it never got.
BlamedOnlyForDeaths == \A i \in Tasks : slots[i] = "blamed" => deaths[i] >= MaxDiedHolding

\* MAX_DIED_HOLDING's "how many workers may die HOLDING one task before the task is
\* blamed", of the processes really lost.  The code breaks it: over ssh a dispatch that
\* loses two counts one strike, and one that loses any may answer "unreachable", as it
\* may locally when its write timed out.
DeathsWithinBudget == \A i \in Tasks : deaths[i] <= MaxDiedHolding

\* A task comes back without an outcome of its own ("all workers in pool failed",
\* "worker pool is empty") only when not one worker is left: the retry loop's
\* bound and its moving index skip nobody.
GivenUpOnlyWithNoWorkerLeft ==
    (\E i \in Tasks : slots[i] = "lost") => \/ n = 0
                                            \/ pool = <<>> /\ running = {} /\ survivors = <<>>

\* When a call has returned every one of its tasks has an outcome: the
\* "task was never dispatched" fallback is dead code.
ReturnedComplete == phase \in {"idle", "closed"} => \A i \in 1 .. n : slots[i] # "none"

\* Every call returns: a deadline on every dispatch, a bounded retry loop.
EveryCallReturns == phase \in {"pulling", "retrying"} ~> phase = "idle"

\* The pool keeps the promise of BatchService: one outcome per task, once; blame in
\* the step of the "worker" answer that spends the budget; giving up only on an empty
\* pool.
Service == INSTANCE BatchService
    WITH open <- IF phase \in {"pulling", "retrying"} THEN 1 .. n ELSE {},
         result <- slots,
         live <- Workers \ evicted,
         Budget <- MaxDiedHolding
ImplementsService == Service!Spec
=============================================================================
