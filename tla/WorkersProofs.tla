---------------------------- MODULE WorkersProofs ----------------------------
(***************************************************************************)
(* Proofs about distributed solving: the pool, the loop, and both of them  *)
(* and a handle together.                                                  *)
(*                                                                         *)
(* Of the pool (WorkerPool), for every set of workers, every number of     *)
(* tasks and calls, and every strike budget of at least two: the types;    *)
(* then the inductive invariant of the holders of a task, what a call      *)
(* leaves behind, and the strike budget, in parts that are proved each     *)
(* from those before: what each phase of a call excludes (PhaseInv), what  *)
(* lies ahead of the cursor (HoldingInv), what is still to retry           *)
(* (OutcomeInv), that the strikes count the "worker" answers (StrikeInv),  *)
(* where each worker is (PlaceInv).                                        *)
(*                                                                         *)
(* Then that the pool keeps the promise of BatchService, whatever its      *)
(* handles answer: a thread's claim, its leaving, and the join are         *)
(* invisible; an answer is the service's Settle, LoseUncharged or          *)
(* LoseCharged; a task given up is its GiveUp.  That needs one more part   *)
(* (TaskInv): a task in a thread's hands, orphaned or still to retry is    *)
(* open and has no outcome.  Of the workers really lost it says only that  *)
(* a blamed task cost its budget of them, if a "worker" answer stands for  *)
(* one: no other theorem about the pool assumes anything of the answers.   *)
(*                                                                         *)
(* Of a worker's own loop (WorkerLoop), for any lines of any lengths but   *)
(* the exact maximum.  What is proved of a handle alone is in              *)
(* WorkerHandleProofs.  It all holds of every behaviour of MCWorkers.      *)
(***************************************************************************)
EXTENDS MCWorkers, SequenceTheorems, TLAPS

\* Vec::remove keeps a sequence of workers a sequence of workers, one shorter.
LEMMA RemoveAtType ==
    ASSUME NEW S, NEW s \in Seq(S), NEW k \in 1 .. Len(s)
    PROVE  /\ RemoveAt(s, k) \in Seq(S)
           /\ Len(RemoveAt(s, k)) = Len(s) - 1
           /\ \A j \in 1 .. Len(s) - 1 :
                RemoveAt(s, k)[j] = IF j < k THEN s[j] ELSE s[j + 1]
<1> DEFINE front == SubSeq(s, 1, k - 1)
           back == SubSeq(s, k + 1, Len(s))
<1>1. front \in Seq(S) /\ Len(front) = k - 1
      /\ \A j \in 1 .. k - 1 : front[j] = s[j]
  BY LenProperties
<1>2. back \in Seq(S) /\ Len(back) = Len(s) - k
      /\ \A j \in 1 .. Len(s) - k : back[j] = s[j + k]
  BY LenProperties
<1>3. RemoveAt(s, k) = front \o back
  BY DEF RemoveAt
<1> HIDE DEF front, back
<1>4. Len(s) \in Nat
  BY LenProperties
<1>5. /\ front \o back \in Seq(S)
      /\ Len(front \o back) = Len(front) + Len(back)
      /\ \A j \in 1 .. Len(front) + Len(back) :
           (front \o back)[j] = IF j <= Len(front) THEN front[j] ELSE back[j - Len(front)]
  BY <1>1, <1>2, ConcatProperties
<1>6. QED BY <1>1, <1>2, <1>3, <1>4, <1>5

\* A pool order is a sequence of workers.
LEMMA PoolOrdersType == ASSUME NEW s \in PoolOrders PROVE s \in Seq(Workers)
<1>1. PICK k \in 0 .. Cardinality(Workers) : s \in [1 .. k -> Workers]
  BY DEF PoolOrders
<1>2. CASE k \in Nat
  BY <1>1, <1>2, IsASeq
<1>3. QED BY <1>1, <1>2

\* The retry loop's record keeps its type when it moves on after an eviction.
LEMMA RetryMovesOn ==
    ASSUME NEW T, NEW t \in [task : T, left : Nat, idx : Nat], NEW i \in Nat, t.left # 0
    PROVE  [t EXCEPT !.left = @ - 1, !.idx = i] \in [task : T, left : Nat, idx : Nat]
<1>1. t.left - 1 \in Nat /\ t.task \in T
  OBVIOUS
<1>2. [t EXCEPT !.left = t.left - 1] \in [task : T, left : Nat, idx : Nat]
  BY <1>1
<1>3. [t EXCEPT !.left = t.left - 1, !.idx = i]
        = [[t EXCEPT !.left = t.left - 1] EXCEPT !.idx = i]
  OBVIOUS
<1> QED BY <1>2, <1>3

\* What an answer adds to the history keeps its type.
LEMMA CostsType ==
    ASSUME NEW i \in Tasks, NEW a, a.killed \in Nat, Costs(i, a),
           charged \in [Tasks -> Nat], deaths \in [Tasks -> Nat]
    PROVE  charged' \in [Tasks -> Nat] /\ deaths' \in [Tasks -> Nat]
<1>1. charged' = [charged EXCEPT ![i] = IF a.out = "worker" THEN charged[i] + 1 ELSE charged[i]]
      /\ deaths' = [deaths EXCEPT ![i] = deaths[i] + a.killed]
  BY DEF Costs
<1>2. charged[i] + 1 \in Nat /\ charged[i] \in Nat /\ deaths[i] + a.killed \in Nat
  OBVIOUS
<1> QED BY <1>1, <1>2

\* Every variable keeps its type: in particular the retry loop's index stays a
\* natural number and its task one of the batch's, whatever is evicted.
THEOREM TypeCorrect == Spec => []TypeOK
<1> USE PoolAssumption
<1>1. Init => TypeOK
  <2> SUFFICES ASSUME Init PROVE TypeOK
    OBVIOUS
  <2>1. pool \in Seq(Workers)
    BY PoolOrdersType DEF Init
  <2>2. try \in [task : 0 .. MaxTasks, left : Nat, idx : Nat]
    BY DEF Init, NoTry
  <2>3. survivors \in Seq(Workers)
    BY EmptySeq DEF Init
  <2> QED BY <2>1, <2>2, <2>3 DEF Init, TypeOK, Tasks
<1>2. TypeOK /\ [Next]_vars => TypeOK'
  <2> SUFFICES ASSUME TypeOK, [Next]_vars PROVE TypeOK'
    OBVIOUS
  <2> USE DEF TypeOK, Tasks, callVars, batchVars, retryVars, history
  <2>1. ASSUME NEW k \in 0 .. MaxTasks, BatchRefused(k) PROVE TypeOK'
    BY <2>1 DEF BatchRefused, NewCall
  <2>2. ASSUME NEW k \in 0 .. MaxTasks, BatchStart(k) PROVE TypeOK'
    <3>1. ToSet(pool) \subseteq Workers /\ <<>> \in Seq(Workers)
      BY EmptySeq, ElementOfSeq, LenProperties DEF ToSet
    <3>2. /\ calls' \in 0 .. MaxCalls /\ n' \in 0 .. MaxTasks /\ cursor' \in Nat
          /\ phase' = "pulling" /\ pool' = <<>> /\ survivors' = <<>> /\ orphaned' = {}
          /\ running' = ToSet(pool)
      BY <2>2 DEF BatchStart, NewCall
    <3>3. /\ charged' \in [Tasks -> Nat] /\ deaths' \in [Tasks -> Nat]
          /\ strikes' \in [Tasks -> Nat]
          /\ slots' \in [Tasks -> {"none", "ok", "task", "blamed", "lost"}]
      BY <2>2 DEF BatchStart, NewCall
    <3>4. UNCHANGED <<nextWorker, holding, todo, try, evicted, shut>>
      BY <2>2 DEF BatchStart
    <3> QED BY <3>1, <3>2, <3>3, <3>4
  <2>3. CASE DispatchStart
    BY <2>3 DEF DispatchStart, NewCall
  <2>4. ASSUME NEW w \in Workers, Pull(w) PROVE TypeOK'
    <3>1. Append(survivors, w) \in Seq(Workers)
      BY AppendProperties
    <3>2. survivors' \in Seq(Workers) /\ running' \subseteq Workers
      BY <2>4, <3>1 DEF Pull, Leave
    <3>3. cursor' \in Nat
      BY <2>4 DEF Pull, AfterClaim
    <3>4. cursor > n \/ cursor \in 0 .. MaxTasks
      OBVIOUS
    <3>5. holding' \in [Workers -> 0 .. MaxTasks]
      BY <2>4, <3>4 DEF Pull
    <3>6. UNCHANGED <<phase, calls, n, pool, nextWorker, orphaned, slots, strikes, todo,
                      try, charged, deaths, evicted, shut>>
      BY <2>4 DEF Pull
    <3> QED BY <3>2, <3>3, <3>5, <3>6
  <2>5. ASSUME NEW w \in Workers, NEW a \in Answers[w], ThreadSettles(w, a) PROVE TypeOK'
    <3>1. a.killed \in Nat /\ a.out \in {"ok", "task"} /\ holding[w] \in Tasks
      BY <2>5 DEF ThreadSettles, Busy, Answer
    <3>2. slots' \in [Tasks -> {"none", "ok", "task", "blamed", "lost"}]
      BY <2>5, <3>1 DEF ThreadSettles
    <3>3. charged' \in [Tasks -> Nat] /\ deaths' \in [Tasks -> Nat]
      BY <2>5, <3>1, CostsType DEF ThreadSettles
    <3>4. holding' \in [Workers -> 0 .. MaxTasks]
      BY <2>5 DEF ThreadSettles
    <3>5. UNCHANGED <<phase, calls, n, pool, nextWorker, cursor, running, survivors,
                      orphaned, strikes, todo, try, evicted, shut>>
      BY <2>5 DEF ThreadSettles
    <3> QED BY <3>2, <3>3, <3>4, <3>5
  <2>6. ASSUME NEW w \in Workers, NEW a \in Answers[w], ThreadFails(w, a) PROVE TypeOK'
    <3>1. a.killed \in Nat /\ holding[w] \in Tasks /\ StrikeOf(a.out) \in {0, 1}
      BY <2>6 DEF ThreadFails, Busy, Answer, StrikeOf
    <3>2. orphaned' \subseteq Tasks \X {0, 1}
      BY <2>6, <3>1 DEF ThreadFails
    <3>3. charged' \in [Tasks -> Nat] /\ deaths' \in [Tasks -> Nat]
      BY <2>6, <3>1, CostsType DEF ThreadFails
    <3>4. holding' \in [Workers -> 0 .. MaxTasks]
      BY <2>6 DEF ThreadFails
    <3>5. running' \subseteq Workers /\ evicted' \subseteq Workers
      BY <2>6 DEF ThreadFails
    <3>6. UNCHANGED <<phase, calls, n, pool, nextWorker, cursor, survivors, slots,
                      strikes, todo, try, shut>>
      BY <2>6 DEF ThreadFails
    <3> QED BY <3>2, <3>3, <3>4, <3>5, <3>6
  <2>7. CASE Join
    <3>1. RetrySet \subseteq Tasks /\ <<>> \in Seq(Workers)
      BY EmptySeq DEF RetrySet
    <3> QED BY <2>7, <3>1 DEF Join
  <2>8. CASE TryStart
    <3>1. PICK i \in todo : IF pool = <<>>
            THEN /\ slots' = [slots EXCEPT ![i] = "lost"]
                 /\ todo' = todo \ {i}
                 /\ UNCHANGED try
            ELSE /\ try' = [task |-> i, left |-> Attempts, idx |-> nextWorker % Len(pool)]
                 /\ UNCHANGED <<slots, todo>>
      BY <2>8 DEF TryStart
    <3>2. CASE pool = <<>>
      BY <2>8, <3>1, <3>2 DEF TryStart
    <3>3. CASE pool # <<>>
      <4>1. Len(pool) \in Nat /\ Len(pool) > 0
        BY <3>3, LenProperties, EmptySeq
      <4>2. nextWorker % Len(pool) \in Nat
        BY <4>1
      <4>3. try' \in [task : 0 .. MaxTasks, left : Nat, idx : Nat]
        BY <3>1, <3>3, <4>1, <4>2 DEF Attempts
      <4>4. UNCHANGED <<slots, todo>>
        BY <3>1, <3>3
      <4>5. UNCHANGED <<phase, calls, n, pool, nextWorker, cursor, running, holding,
                        survivors, orphaned, strikes, charged, deaths, evicted, shut>>
        BY <2>8 DEF TryStart
      <4> QED BY <4>3, <4>4, <4>5
    <3> QED BY <3>2, <3>3
  <2>9. ASSUME Trying, NEW a \in Answers[Tried],
               TrySettles(a) \/ TryUnreachable(a) \/ TryDied(a)
        PROVE TypeOK'
    <3>1. Len(pool) \in Nat /\ Len(pool) > 0
      BY <2>9, LenProperties, EmptySeq DEF Trying
    <3>2. At \in 0 .. Len(pool) - 1 /\ At + 1 \in 1 .. Len(pool)
      BY <3>1 DEF At
    <3>3. Tried \in Workers
      BY <3>2, ElementOfSeq DEF Tried
    <3>4. a.killed \in Nat /\ a \in Answer
      BY <2>9, <3>3 DEF Answer
    <3>5. RemoveAt(pool, At + 1) \in Seq(Workers)
      BY <3>2, RemoveAtType
    <3>6. AfterEviction \in [task : 0 .. MaxTasks, left : Nat, idx : Nat]
      <4>1. try.left \in Nat \ {0} /\ At \in Nat
        BY <2>9, <3>2 DEF Trying
      <4> QED BY <4>1, RetryMovesOn DEF AfterEviction
    <3>7. NoTry \in [task : 0 .. MaxTasks, left : Nat, idx : Nat]
      BY DEF NoTry
    <3>8. (At + 1) % Len(pool) \in Nat
      BY <3>1, <3>2
    <3>9. try.task \in Tasks
      BY <2>9 DEF Trying
    <3>10. CASE TrySettles(a)
      <4>1. try' \in [task : 0 .. MaxTasks, left : Nat, idx : Nat] /\ todo' \subseteq Tasks
            /\ nextWorker' \in Nat
        BY <3>7, <3>8, <3>10 DEF TrySettles, Outcome
      <4>2. slots' \in [Tasks -> {"none", "ok", "task", "blamed", "lost"}]
        BY <3>9, <3>10 DEF TrySettles, Outcome
      <4>3. charged' \in [Tasks -> Nat] /\ deaths' \in [Tasks -> Nat]
        BY <3>4, <3>9, <3>10, CostsType DEF TrySettles
      <4>4. UNCHANGED <<phase, calls, n, pool, cursor, running, holding, survivors,
                        orphaned, strikes, evicted, shut>>
        BY <3>10 DEF TrySettles
      <4> QED BY <4>1, <4>2, <4>3, <4>4
    <3>11. CASE TryUnreachable(a)
      <4>1. pool' \in Seq(Workers) /\ evicted' \subseteq Workers
            /\ try' \in [task : 0 .. MaxTasks, left : Nat, idx : Nat]
        BY <3>3, <3>5, <3>6, <3>11 DEF TryUnreachable
      <4>2. charged' \in [Tasks -> Nat] /\ deaths' \in [Tasks -> Nat]
        BY <3>4, <3>9, <3>11, CostsType DEF TryUnreachable
      <4>3. UNCHANGED <<phase, calls, n, nextWorker, cursor, running, holding, survivors,
                        orphaned, slots, strikes, todo, shut>>
        BY <3>11 DEF TryUnreachable
      <4> QED BY <4>1, <4>2, <4>3
    <3>12. CASE TryDied(a)
      <4>1. pool' \in Seq(Workers) /\ evicted' \subseteq Workers
        BY <3>3, <3>5, <3>12 DEF TryDied
      <4>7. nextWorker' \in Nat /\ todo' \subseteq Tasks
        <5>1. nextWorker' \in {0, nextWorker} /\ todo' \subseteq todo
          BY <3>12 DEF TryDied, Outcome
        <5> QED BY <5>1
      <4>2. try' \in [task : 0 .. MaxTasks, left : Nat, idx : Nat]
        BY <3>6, <3>7, <3>12 DEF TryDied, Outcome
      <4>3. slots' \in [Tasks -> {"none", "ok", "task", "blamed", "lost"}]
        BY <3>9, <3>12 DEF TryDied, Outcome
      <4>4. charged' \in [Tasks -> Nat] /\ deaths' \in [Tasks -> Nat]
        BY <3>4, <3>9, <3>12, CostsType DEF TryDied
      <4>5. strikes' \in [Tasks -> Nat]
        BY <3>9, <3>12 DEF TryDied
      <4>6. UNCHANGED <<phase, calls, n, cursor, running, holding, survivors, orphaned, shut>>
        BY <3>12 DEF TryDied
      <4> QED BY <4>1, <4>2, <4>3, <4>4, <4>5, <4>6, <4>7
    <3> QED BY <2>9, <3>10, <3>11, <3>12
  <2>10. CASE TryExhausted
    <3>1. try' = NoTry /\ todo' \subseteq Tasks
      BY <2>10 DEF TryExhausted, Outcome
    <3>4. NoTry \in [task : 0 .. MaxTasks, left : Nat, idx : Nat]
      BY DEF NoTry
    <3>2. slots' \in [Tasks -> {"none", "ok", "task", "blamed", "lost"}]
      BY <2>10 DEF TryExhausted, Outcome
    <3>3. UNCHANGED <<phase, calls, n, pool, nextWorker, cursor, running, holding,
                      survivors, orphaned, strikes, charged, deaths, evicted, shut>>
      BY <2>10 DEF TryExhausted
    <3> QED BY <3>1, <3>2, <3>3, <3>4
  <2>11. CASE Return
    BY <2>11 DEF Return
  <2>12. CASE ShutdownAll
    <3>1. ToSet(pool) \subseteq Workers /\ <<>> \in Seq(Workers)
      BY EmptySeq, ElementOfSeq, LenProperties DEF ToSet
    <3> QED BY <2>12, <3>1 DEF ShutdownAll
  <2>13. CASE UNCHANGED vars
    BY <2>13 DEF vars
  <2> QED
    BY <2>1, <2>2, <2>3, <2>4, <2>5, <2>6, <2>7, <2>8, <2>9, <2>10, <2>11, <2>12, <2>13
       DEF Next, Call, Caller, Thread, Try
<1>3. QED BY <1>1, <1>2, PTL DEF Spec
-----------------------------------------------------------------------------
PhaseInv ==
    /\ running # {} => phase = "pulling"
    /\ phase = "pulling" => pool = <<>>
    /\ phase # "pulling" => survivors = <<>>
    /\ try.task # 0 => phase = "retrying" /\ try.task \in todo /\ try.left = Len(pool)

\* Task i has no outcome and is not an orphan.
Untouched(i) == slots[i] = "none" /\ <<i, 0>> \notin orphaned /\ <<i, 1>> \notin orphaned

HoldingInv ==
    /\ \A w \in Workers : holding[w] # 0 =>
         w \in running /\ holding[w] < cursor /\ Untouched(holding[w])
    /\ \A v, w \in Workers : holding[w] # 0 /\ holding[v] = holding[w] => v = w
    /\ phase = "pulling" => cursor > 0 /\ \A i \in Tasks : i >= cursor => Untouched(i)

OutcomeInv ==
    /\ phase = "pulling" => \A i \in Tasks : slots[i] \in {"none", "ok", "task"}
    /\ phase = "retrying" => \A i \in 1 .. n : slots[i] = "none" => i \in todo
    /\ phase \in {"idle", "closed"} => \A i \in 1 .. n : slots[i] # "none"
    /\ (\E i \in Tasks : slots[i] = "lost") => pool = <<>>

StrikeInv ==
    /\ phase = "pulling" =>
         \A i \in Tasks : charged[i] = IF <<i, 1>> \in orphaned THEN 1 ELSE 0
    /\ phase # "pulling" => \A i \in Tasks : charged[i] = strikes[i]
    /\ phase = "retrying" => \A i \in todo : charged[i] < MaxDiedHolding
    /\ StrikesWithinBudget

\* A "worker" answer stands for a process lost with the task: what a local handle
\* promises (AnswerContract in WorkerHandle), and an ssh handle does not.
DeathsAreDeaths == \A w \in Workers : \A a \in Answers[w] : a.out = "worker" => a.killed = 1

\* The phases of a call exclude each other's work, and the retry loop has as many
\* iterations left as the pool has workers.
LEMMA PhaseStep == TypeOK /\ PhaseInv /\ [Next]_vars => PhaseInv'
<1> SUFFICES ASSUME TypeOK, PhaseInv, [Next]_vars PROVE PhaseInv'
  OBVIOUS
<1> USE DEF PhaseInv, callVars, batchVars, retryVars, history
<1>1. ASSUME NEW k \in 0 .. MaxTasks, BatchRefused(k) PROVE PhaseInv'
  BY <1>1 DEF BatchRefused, NewCall
<1>2. ASSUME NEW k \in 0 .. MaxTasks, BatchStart(k) PROVE PhaseInv'
  BY <1>2 DEF BatchStart, NewCall
<1>3. CASE DispatchStart
  BY <1>3 DEF DispatchStart, NewCall
<1>4. ASSUME NEW w \in Workers, Pull(w) PROVE PhaseInv'
  BY <1>4 DEF Pull
<1>5. ASSUME NEW w \in Workers, NEW a \in Answers[w], ThreadSettles(w, a) PROVE PhaseInv'
  BY <1>5 DEF ThreadSettles, Busy
<1>6. ASSUME NEW w \in Workers, NEW a \in Answers[w], ThreadFails(w, a) PROVE PhaseInv'
  BY <1>6 DEF ThreadFails, Busy
<1>7. CASE Join
  BY <1>7 DEF Join, ScopeEnded
<1>8. CASE TryStart
  BY <1>8 DEF TryStart, Attempts
<1>9. ASSUME Trying, NEW a \in Answers[Tried],
             TrySettles(a) \/ TryUnreachable(a) \/ TryDied(a)
      PROVE PhaseInv'
  <2>1. CASE TrySettles(a)
    BY <1>9, <2>1 DEF TrySettles, Trying, Outcome, NoTry
  <2>2. Len(pool) \in Nat /\ Len(pool) > 0
    BY <1>9, LenProperties, EmptySeq DEF Trying, TypeOK
  <2>3. At + 1 \in 1 .. Len(pool) /\ pool \in Seq(Workers)
    BY <1>9, <2>2 DEF At, Trying, TypeOK
  <2>4. Len(RemoveAt(pool, At + 1)) = Len(pool) - 1
    BY <2>3, RemoveAtType
  <2>5. AfterEviction.task = try.task /\ AfterEviction.left = try.left - 1
    BY DEF AfterEviction, TypeOK
  <2>6. CASE TryUnreachable(a)
    BY <1>9, <2>4, <2>5, <2>6 DEF TryUnreachable, Trying
  <2>7. CASE TryDied(a)
    BY <1>9, <2>4, <2>5, <2>7 DEF TryDied, Trying, Outcome, NoTry
  <2> QED BY <1>9, <2>1, <2>6, <2>7
<1>10. CASE TryExhausted
  BY <1>10 DEF TryExhausted, Outcome, NoTry
<1>11. CASE Return
  BY <1>11 DEF Return
<1>12. CASE ShutdownAll
  BY <1>12 DEF ShutdownAll
<1>13. CASE UNCHANGED vars
  BY <1>13 DEF vars
<1> QED
  BY <1>1, <1>2, <1>3, <1>4, <1>5, <1>6, <1>7, <1>8, <1>9, <1>10, <1>11, <1>12, <1>13
     DEF Next, Call, Caller, Thread, Try

\* What a thread holds lies behind the cursor and is untouched; what lies ahead of
\* the cursor is untouched by everyone.
LEMMA HoldingStep == TypeOK /\ PhaseInv /\ HoldingInv /\ [Next]_vars => HoldingInv'
<1> SUFFICES ASSUME TypeOK, PhaseInv, HoldingInv, [Next]_vars PROVE HoldingInv'
  OBVIOUS
<1> USE PoolAssumption DEF HoldingInv, Untouched, callVars, batchVars, retryVars, history
<1>a. phase # "pulling" => \A w \in Workers : holding[w] = 0
  BY DEF PhaseInv
<1>b. \A w \in Workers : holding[w] # 0 => holding[w] \in Tasks
  BY DEF TypeOK, Tasks
<1>c. \A w \in Workers : holding[w] # 0 => holding[w] \in Nat /\ holding[w] < cursor
  <2> SUFFICES ASSUME NEW w \in Workers, holding[w] # 0
               PROVE  holding[w] \in Nat /\ holding[w] < cursor
    OBVIOUS
  <2>1. holding[w] < cursor
    OBVIOUS
  <2>2. holding[w] \in Nat
    BY <1>b DEF Tasks
  <2> QED BY <2>1, <2>2
<1>1. ASSUME NEW k \in 0 .. MaxTasks, BatchRefused(k) PROVE HoldingInv'
  BY <1>1, <1>a DEF BatchRefused, NewCall
<1>2. ASSUME NEW k \in 0 .. MaxTasks, BatchStart(k) PROVE HoldingInv'
  <2>1. \A w \in Workers : holding'[w] = 0
    BY <1>2, <1>a DEF BatchStart, NewCall
  <2>2. cursor' = 1 /\ orphaned' = {} /\ \A i \in Tasks : slots'[i] = "none"
    BY <1>2 DEF BatchStart
  <2> QED BY <2>1, <2>2
<1>3. CASE DispatchStart
  BY <1>3, <1>a DEF DispatchStart, NewCall
<1>4. ASSUME NEW w \in Workers, Pull(w) PROVE HoldingInv'
  <2>0. phase = "pulling" /\ cursor > 0 /\ cursor \in Nat /\ holding[w] = 0
    BY <1>4 DEF Pull, PhaseInv, TypeOK
  <2>1. cursor' = cursor + 1 /\ UNCHANGED <<phase, slots, orphaned>>
    BY <1>4 DEF Pull, AfterClaim
  <2>2. CASE cursor > n
    <3>1. UNCHANGED holding /\ running' = running \ {w}
      BY <1>4, <2>2 DEF Pull
    <3>2. \A v \in Workers : holding'[v] # 0 => v \in running' /\ holding'[v] < cursor'
      <4> SUFFICES ASSUME NEW v \in Workers, holding[v] # 0
                   PROVE  v \in running' /\ holding[v] < cursor'
        BY <3>1
      <4>1. v # w /\ v \in running
        BY <2>0
      <4>2. holding[v] \in Nat /\ holding[v] < cursor
        BY <1>c
      <4> QED BY <2>0, <2>1, <3>1, <4>1, <4>2
    <3> QED BY <2>0, <2>1, <3>1, <3>2 DEF Tasks
  <2>3. CASE ~(cursor > n)
    <3>1. holding' = [holding EXCEPT ![w] = cursor] /\ running' = running
      BY <1>4, <2>3 DEF Pull
    <3>2. cursor \in Tasks
      BY <2>0, <2>3 DEF TypeOK, Tasks
    <3>3. holding'[w] = cursor /\ \A v \in Workers : v # w => holding'[v] = holding[v]
      BY <3>1 DEF TypeOK
    <3>4. w \in running /\ Untouched(cursor)
      BY <1>4, <2>0, <3>2 DEF Pull
    <3>5. (\A v \in Workers : holding[v] # 0 =>
             v \in running /\ holding[v] < cursor /\ Untouched(holding[v]))'
      <4> SUFFICES ASSUME NEW v \in Workers, holding'[v] # 0
                   PROVE  (v \in running /\ holding[v] < cursor /\ Untouched(holding[v]))'
        OBVIOUS
      <4>1. CASE v = w
        BY <2>0, <2>1, <3>1, <3>3, <3>4, <4>1
      <4>2. CASE v # w
        BY <2>0, <2>1, <3>1, <3>3, <4>2, <1>c
      <4> QED BY <4>1, <4>2
    <3>6. \A v \in Workers : v # w /\ holding[v] # 0 => holding[v] # cursor
      BY <2>0, <1>c
    <3>7. \A u, v \in Workers : holding'[v] # 0 /\ holding'[u] = holding'[v] => u = v
      BY <2>0, <3>2, <3>3, <3>6 DEF Tasks
    <3> QED BY <2>0, <2>1, <3>5, <3>7 DEF Tasks
  <2> QED BY <2>2, <2>3
<1>5. ASSUME NEW w \in Workers, NEW a \in Answers[w], ThreadSettles(w, a) PROVE HoldingInv'
  <2>1. /\ slots' = [slots EXCEPT ![holding[w]] = a.out]
        /\ holding' = [holding EXCEPT ![w] = 0]
        /\ UNCHANGED <<phase, cursor, running, orphaned>>
        /\ w \in running /\ holding[w] # 0
    BY <1>5 DEF ThreadSettles, Busy
  <2>2. \A i : i # holding[w] /\ i \in Tasks => slots'[i] = slots[i]
    BY <2>1, <1>b DEF TypeOK
  <2>3. holding'[w] = 0 /\ \A v \in Workers : v # w => holding'[v] = holding[v]
    BY <2>1 DEF TypeOK
  <2>4. holding[w] < cursor /\ cursor \in Nat /\ holding[w] \in Tasks
    BY <2>1, <1>b DEF TypeOK
  <2>5. (\A v \in Workers : holding[v] # 0 =>
           v \in running /\ holding[v] < cursor /\ Untouched(holding[v]))'
    BY <2>1, <2>2, <2>3, <1>b
  <2>6. \A i \in Tasks : i >= cursor => Untouched(i)'
    <3> SUFFICES ASSUME NEW i \in Tasks, i >= cursor PROVE Untouched(i)'
      BY <2>1
    <3>1. i # holding[w]
      BY <2>4 DEF Tasks
    <3>2. phase = "pulling"
      BY <2>1 DEF PhaseInv
    <3> QED BY <2>1, <2>2, <3>1, <3>2
  <2> QED BY <2>1, <2>3, <2>4, <2>5, <2>6
<1>6. ASSUME NEW w \in Workers, NEW a \in Answers[w], ThreadFails(w, a) PROVE HoldingInv'
  <2>1. /\ orphaned' = orphaned \cup {<<holding[w], StrikeOf(a.out)>>}
        /\ holding' = [holding EXCEPT ![w] = 0]
        /\ running' = running \ {w}
        /\ UNCHANGED <<phase, cursor, slots>>
        /\ w \in running /\ holding[w] # 0
    BY <1>6 DEF ThreadFails, Busy
  <2>2. \A i : i # holding[w] => \A s \in {0, 1} : <<i, s>> \in orphaned' => <<i, s>> \in orphaned
    BY <2>1
  <2>3. holding'[w] = 0 /\ \A v \in Workers : v # w => holding'[v] = holding[v]
    BY <2>1 DEF TypeOK
  <2>4. holding[w] < cursor /\ cursor \in Nat /\ holding[w] \in Tasks
    BY <2>1, <1>b DEF TypeOK
  <2>5. (\A v \in Workers : holding[v] # 0 =>
           v \in running /\ holding[v] < cursor /\ Untouched(holding[v]))'
    BY <2>1, <2>2, <2>3
  <2>6. \A i \in Tasks : i >= cursor => Untouched(i)'
    <3> SUFFICES ASSUME NEW i \in Tasks, i >= cursor PROVE Untouched(i)'
      BY <2>1
    <3>1. i # holding[w]
      BY <2>4 DEF Tasks
    <3>2. phase = "pulling"
      BY <2>1 DEF PhaseInv
    <3> QED BY <2>1, <2>2, <3>1, <3>2
  <2> QED BY <2>1, <2>3, <2>4, <2>5, <2>6
<1>7. CASE Join
  BY <1>7, <1>a DEF Join, ScopeEnded
<1>8. CASE TryStart
  BY <1>8, <1>a DEF TryStart
<1>9. ASSUME Trying, NEW a \in Answers[Tried],
             TrySettles(a) \/ TryUnreachable(a) \/ TryDied(a)
      PROVE HoldingInv'
  <2>1. phase = "retrying" /\ UNCHANGED <<phase, holding>>
    BY <1>9 DEF PhaseInv, Trying, TrySettles, TryUnreachable, TryDied
  <2> QED BY <2>1, <1>a
<1>10. CASE TryExhausted
  BY <1>10, <1>a DEF TryExhausted, PhaseInv
<1>11. CASE Return
  BY <1>11, <1>a DEF Return
<1>12. CASE ShutdownAll
  BY <1>12, <1>a DEF ShutdownAll
<1>13. CASE UNCHANGED vars
  BY <1>13 DEF vars
<1> QED
  BY <1>1, <1>2, <1>3, <1>4, <1>5, <1>6, <1>7, <1>8, <1>9, <1>10, <1>11, <1>12, <1>13
     DEF Next, Call, Caller, Thread, Try

\* A task without an outcome is ahead of the cursor, in a thread's hands, an orphan,
\* or still to retry; one that was given up found the pool empty.
LEMMA OutcomeStep ==
    TypeOK /\ PhaseInv /\ OutcomeInv /\ [Next]_vars => OutcomeInv'
<1> SUFFICES ASSUME TypeOK, PhaseInv, OutcomeInv, [Next]_vars PROVE OutcomeInv'
  OBVIOUS
<1> USE PoolAssumption DEF OutcomeInv, callVars, batchVars, retryVars, history
<1>a. 1 .. n \subseteq Tasks /\ slots \in [Tasks -> {"none", "ok", "task", "blamed", "lost"}]
  BY DEF TypeOK, Tasks
<1>b. try.task # 0 => try.task \in todo /\ phase = "retrying"
  BY DEF PhaseInv
<1>c. todo \subseteq Tasks
  BY DEF TypeOK
<1>1. ASSUME NEW k \in 0 .. MaxTasks, BatchRefused(k) PROVE OutcomeInv'
  <2>1. /\ phase = "idle" /\ phase' = phase /\ n' = k /\ pool' = pool
        /\ k = 0 \/ pool = <<>>
        /\ slots' = [i \in Tasks |-> IF i <= k THEN "lost" ELSE "none"]
    BY <1>1 DEF BatchRefused, NewCall
  <2>2. \A i \in 1 .. n' : slots'[i] = "lost"
    BY <2>1, PoolAssumption DEF Tasks
  <2>3. (\E i \in Tasks : slots'[i] = "lost") => pool' = <<>>
    BY <2>1 DEF Tasks
  <2> QED BY <2>1, <2>2, <2>3
<1>2. ASSUME NEW k \in 0 .. MaxTasks, BatchStart(k) PROVE OutcomeInv'
  BY <1>2 DEF BatchStart, NewCall
<1>3. CASE DispatchStart
  BY <1>3 DEF DispatchStart, NewCall, Tasks
<1>4. ASSUME NEW w \in Workers, Pull(w) PROVE OutcomeInv'
  BY <1>4 DEF Pull
<1>5. ASSUME NEW w \in Workers, NEW a \in Answers[w], ThreadSettles(w, a) PROVE OutcomeInv'
  <2>1. /\ phase = "pulling" /\ UNCHANGED <<phase, n, pool>>
        /\ slots' = [slots EXCEPT ![holding[w]] = a.out] /\ a.out \in {"ok", "task"}
    BY <1>5 DEF ThreadSettles, Busy, PhaseInv
  <2>2. \A i \in Tasks : slots'[i] \in {"none", "ok", "task"}
    BY <2>1, <1>a
  <2> QED BY <2>1, <2>2
<1>6. ASSUME NEW w \in Workers, NEW a \in Answers[w], ThreadFails(w, a) PROVE OutcomeInv'
  BY <1>6 DEF ThreadFails
<1>7. CASE Join
  BY <1>7, <1>a DEF Join, RetrySet
<1>8. CASE TryStart
  <2>1. PICK i \in todo : IF pool = <<>>
          THEN /\ slots' = [slots EXCEPT ![i] = "lost"]
               /\ todo' = todo \ {i}
               /\ UNCHANGED try
          ELSE /\ try' = [task |-> i, left |-> Attempts, idx |-> nextWorker % Len(pool)]
               /\ UNCHANGED <<slots, todo>>
    BY <1>8 DEF TryStart
  <2>2. phase = "retrying" /\ UNCHANGED <<phase, n, pool>>
    BY <1>8 DEF TryStart
  <2>3. CASE pool = <<>>
    <3>1. \A j \in 1 .. n : slots'[j] = "none" => j \in todo'
      BY <2>1, <2>2, <2>3, <1>a, <1>c
    <3> QED BY <2>2, <2>3, <3>1
  <2>4. CASE pool # <<>>
    BY <2>1, <2>2, <2>4
  <2> QED BY <2>3, <2>4
<1>9. ASSUME Trying, NEW a \in Answers[Tried],
             TrySettles(a) \/ TryUnreachable(a) \/ TryDied(a)
      PROVE OutcomeInv'
  <2>1. /\ try.task # 0 /\ pool # <<>> /\ phase = "retrying" /\ UNCHANGED <<phase, n>>
        /\ \A i \in Tasks : slots[i] # "lost"
    BY <1>9, <1>b DEF Trying, TrySettles, TryUnreachable, TryDied
  <2>2. CASE UNCHANGED <<slots, todo>>
    BY <2>1, <2>2
  <2>3. ASSUME NEW o \in {"ok", "task", "blamed"}, Outcome(o) PROVE OutcomeInv'
    <3>1. slots' = [slots EXCEPT ![try.task] = o] /\ todo' = todo \ {try.task}
      BY <2>3 DEF Outcome
    <3>2. \A i \in Tasks : slots'[i] # "lost" /\ (slots'[i] = "none" => slots[i] = "none" /\ i # try.task)
      BY <2>1, <3>1, <1>a, <1>b, <1>c
    <3> QED BY <2>1, <3>1, <3>2, <1>a
  <2>4. \/ UNCHANGED <<slots, todo>>
        \/ \E o \in {"ok", "task", "blamed"} : Outcome(o)
    BY <1>9 DEF TrySettles, TryUnreachable, TryDied
  <2> QED BY <2>2, <2>3, <2>4
<1>10. CASE TryExhausted
  <2>1. /\ try.task # 0 /\ phase = "retrying" /\ UNCHANGED <<phase, n, pool>>
        /\ slots' = [slots EXCEPT ![try.task] = "lost"] /\ todo' = todo \ {try.task}
    BY <1>10, <1>b DEF TryExhausted, Outcome
  <2>2. pool = <<>>
    <3>1. try.left = 0 => Len(pool) = 0
      BY <2>1 DEF PhaseInv
    <3>2. pool \in Seq(Workers)
      BY DEF TypeOK
    <3> QED BY <1>10, <3>1, <3>2, EmptySeq DEF TryExhausted
  <2>3. \A i \in Tasks : slots'[i] = "none" => slots[i] = "none" /\ i # try.task
    BY <2>1, <1>a, <1>b, <1>c
  <2> QED BY <2>1, <2>2, <2>3, <1>a
<1>11. CASE Return
  BY <1>11 DEF Return
<1>12. CASE ShutdownAll
  BY <1>12 DEF ShutdownAll
<1>13. CASE UNCHANGED vars
  BY <1>13 DEF vars
<1> QED
  BY <1>1, <1>2, <1>3, <1>4, <1>5, <1>6, <1>7, <1>8, <1>9, <1>10, <1>11, <1>12, <1>13
     DEF Next, Call, Caller, Thread, Try

\* The strikes are the "worker" answers: in the first phase an orphan's strike is its
\* only one, and the second goes on counting from there.
LEMMA StrikeStep == TypeOK /\ PhaseInv /\ HoldingInv /\ StrikeInv /\ [Next]_vars => StrikeInv'
<1> SUFFICES ASSUME TypeOK, PhaseInv, HoldingInv, StrikeInv, [Next]_vars PROVE StrikeInv'
  OBVIOUS
<1> USE PoolAssumption
        DEF StrikeInv, StrikesWithinBudget, callVars, batchVars, retryVars, history
<1>a. /\ charged \in [Tasks -> Nat] /\ strikes \in [Tasks -> Nat]
      /\ slots \in [Tasks -> {"none", "ok", "task", "blamed", "lost"}] /\ todo \subseteq Tasks
  BY DEF TypeOK
<1>b. try.task # 0 => phase = "retrying" /\ try.task \in todo
  BY DEF PhaseInv
<1>c. 0 < MaxDiedHolding /\ 1 < MaxDiedHolding /\ MaxDiedHolding \in Nat
  OBVIOUS
<1>1. ASSUME NEW k \in 0 .. MaxTasks, BatchRefused(k) PROVE StrikeInv'
  BY <1>1, <1>c DEF BatchRefused, NewCall
<1>2. ASSUME NEW k \in 0 .. MaxTasks, BatchStart(k) PROVE StrikeInv'
  BY <1>2, <1>c DEF BatchStart, NewCall
<1>3. CASE DispatchStart
  <2>1. /\ phase' = "retrying" /\ todo' = {1} /\ 1 \in Tasks
        /\ charged' = [i \in Tasks |-> 0] /\ strikes' = [i \in Tasks |-> 0]
        /\ slots' = [i \in Tasks |-> "none"]
    BY <1>3 DEF DispatchStart, NewCall, Tasks
  <2> QED BY <2>1, <1>c
<1>4. ASSUME NEW w \in Workers, Pull(w) PROVE StrikeInv'
  BY <1>4 DEF Pull
<1>5. ASSUME NEW w \in Workers, NEW a \in Answers[w], ThreadSettles(w, a) PROVE StrikeInv'
  <2> DEFINE t == holding[w]
  <2>1. a.out \in {"ok", "task"} /\ t \in Tasks /\ phase = "pulling"
        /\ UNCHANGED <<phase, orphaned>> /\ slots' = [slots EXCEPT ![t] = a.out]
    BY <1>5 DEF ThreadSettles, Busy, PhaseInv, TypeOK, Tasks
  <2>2. charged' = charged
    BY <1>5, <1>a, <2>1 DEF ThreadSettles, Costs
  <2>3. \A i \in Tasks : charged[i] < MaxDiedHolding
    BY <1>c, <2>1
  <2>4. \A i \in Tasks : slots'[i] # "blamed"
    BY <1>a, <1>c, <2>1, <2>3
  <2> HIDE DEF t
  <2> QED BY <1>a, <2>1, <2>2, <2>3, <2>4
<1>6. ASSUME NEW w \in Workers, NEW a \in Answers[w], ThreadFails(w, a) PROVE StrikeInv'
  <2> DEFINE t == holding[w]
             s == StrikeOf(a.out)
  <2>1. t \in Tasks /\ phase = "pulling" /\ UNCHANGED <<phase, slots>>
    BY <1>6 DEF ThreadFails, Busy, PhaseInv, TypeOK, Tasks
  <2>2. <<t, 1>> \notin orphaned
    BY <1>6 DEF ThreadFails, Busy, HoldingInv, Untouched
  <2>3. charged[t] = 0
    BY <2>1, <2>2
  <2>4. s \in {0, 1} /\ s = IF a.out = "worker" THEN 1 ELSE 0
    BY DEF StrikeOf
  <2>5. charged' = [charged EXCEPT ![t] = s]
    <3>1. charged' = [charged EXCEPT ![t] = IF a.out = "worker" THEN charged[t] + 1 ELSE charged[t]]
      BY <1>6 DEF ThreadFails, Costs
    <3>2. (IF a.out = "worker" THEN charged[t] + 1 ELSE charged[t]) = s
      BY <2>3, <2>4
    <3> QED BY <3>1, <3>2
  <2>6. orphaned' = orphaned \cup {<<t, s>>}
    BY <1>6 DEF ThreadFails
  <2> HIDE DEF t, s
  <2>7. \A i \in Tasks : charged'[i] = IF <<i, 1>> \in orphaned' THEN 1 ELSE 0
    <3> SUFFICES ASSUME NEW i \in Tasks
                 PROVE  charged'[i] = IF <<i, 1>> \in orphaned' THEN 1 ELSE 0
      OBVIOUS
    <3>1. CASE i = t
      <4>1. charged'[i] = s
        BY <1>a, <2>1, <2>5, <3>1
      <4>2. <<i, 1>> \in orphaned' <=> s = 1
        BY <2>2, <2>6, <3>1
      <4> QED BY <2>4, <4>1, <4>2
    <3>2. CASE i # t
      <4>1. charged'[i] = charged[i]
        BY <1>a, <2>5, <3>2
      <4>2. <<i, 1>> \in orphaned' <=> <<i, 1>> \in orphaned
        BY <2>6, <3>2
      <4> QED BY <2>1, <4>1, <4>2
    <3> QED BY <3>1, <3>2
  <2>8. \A i \in Tasks : charged[i] < MaxDiedHolding /\ charged'[i] < MaxDiedHolding
    BY <1>c, <2>1, <2>7
  <2>9. \A i \in Tasks : slots'[i] # "blamed"
    BY <1>a, <1>c, <2>1, <2>8
  <2>10. StrikesWithinBudget'
    <3>1. \A i \in Tasks : charged'[i] <= MaxDiedHolding /\ charged'[i] # MaxDiedHolding
      <4> SUFFICES ASSUME NEW i \in Tasks
                   PROVE  charged'[i] <= MaxDiedHolding /\ charged'[i] # MaxDiedHolding
        OBVIOUS
      <4>1. charged'[i] \in {0, 1}
        BY <2>7
      <4> QED BY <1>c, <4>1
    <3> QED BY <2>9, <3>1
  <2> QED BY <2>1, <2>7, <2>10
<1>7. CASE Join
  <2>1. /\ phase = "pulling" /\ phase' = "retrying" /\ UNCHANGED <<charged, slots>>
        /\ strikes' = [i \in Tasks |-> IF <<i, 1>> \in orphaned THEN 1 ELSE 0]
        /\ todo' \subseteq Tasks
    BY <1>7 DEF Join, RetrySet, TypeOK, Tasks
  <2>2. \A i \in Tasks : charged[i] < MaxDiedHolding
    BY <2>1, <1>c
  <2> QED BY <2>1, <2>2
<1>8. CASE TryStart
  <2>1. phase = "retrying" /\ UNCHANGED <<phase, charged, strikes>>
    BY <1>8 DEF TryStart
  <2>2. todo' \subseteq todo /\ \A i \in Tasks : slots'[i] = "blamed" <=> slots[i] = "blamed"
    BY <1>8, <1>a, <1>c, <2>1 DEF TryStart
  <2> QED BY <2>1, <2>2
<1>9. ASSUME Trying, NEW a \in Answers[Tried],
             TrySettles(a) \/ TryUnreachable(a) \/ TryDied(a)
      PROVE StrikeInv'
  <2> DEFINE t == try.task
  <2>1. /\ t \in todo /\ t \in Tasks /\ phase = "retrying" /\ phase' = phase
        /\ charged[t] = strikes[t] /\ charged[t] < MaxDiedHolding
        /\ charged' = [charged EXCEPT ![t] = IF a.out = "worker" THEN charged[t] + 1
                                                                 ELSE charged[t]]
    BY <1>9, <1>a, <1>b DEF Trying, TrySettles, TryUnreachable, TryDied, Costs
  <2>2. slots[t] # "blamed"
    BY <1>a, <1>c, <2>1
  <2>3. CASE TrySettles(a) \/ TryUnreachable(a)
    <3>1. a.out # "worker" /\ UNCHANGED strikes /\ todo' \subseteq todo
      BY <2>3 DEF TrySettles, TryUnreachable, Outcome
    <3>2. \A i \in Tasks : slots'[i] = "blamed" <=> slots[i] = "blamed"
      BY <2>2, <2>3, <1>a DEF TrySettles, TryUnreachable, Outcome
    <3>3. charged' = charged
      BY <1>a, <2>1, <3>1
    <3> QED BY <2>1, <3>1, <3>2, <3>3
  <2>4. CASE TryDied(a)
    <3>1. /\ charged' = [charged EXCEPT ![t] = charged[t] + 1]
          /\ strikes' = [strikes EXCEPT ![t] = strikes[t] + 1]
      BY <2>1, <2>4 DEF TryDied
    <3>2. \/ /\ strikes[t] + 1 >= MaxDiedHolding
             /\ slots' = [slots EXCEPT ![t] = "blamed"] /\ todo' = todo \ {t}
          \/ ~(strikes[t] + 1 >= MaxDiedHolding) /\ UNCHANGED <<slots, todo>>
      BY <2>4 DEF TryDied, OutOfStrikes, Outcome
    <3> HIDE DEF t
    <3>3. charged'[t] = charged[t] + 1 /\ strikes'[t] = charged[t] + 1 /\ charged[t] \in Nat
      BY <1>a, <2>1, <3>1
    <3>4. \A i \in Tasks : i # t => charged'[i] = charged[i] /\ strikes'[i] = strikes[i]
      BY <1>a, <3>1
    <3>5. \A i \in Tasks : charged'[i] = strikes'[i]
      BY <2>1, <3>3, <3>4
    <3>6. \A i \in Tasks : charged'[i] <= MaxDiedHolding
      BY <1>c, <2>1, <3>3, <3>4
    <3>7. \A i \in todo' : charged'[i] < MaxDiedHolding
      BY <1>a, <1>c, <2>1, <3>2, <3>3, <3>4
    <3>8. \A i \in Tasks : slots'[i] = "blamed" <=> charged'[i] = MaxDiedHolding
      <4> SUFFICES ASSUME NEW i \in Tasks
                   PROVE  slots'[i] = "blamed" <=> charged'[i] = MaxDiedHolding
        OBVIOUS
      <4>1. CASE i # t
        BY <1>a, <3>2, <3>4, <4>1
      <4>2. CASE i = t
        BY <1>a, <1>c, <2>1, <2>2, <3>2, <3>3, <4>2
      <4> QED BY <4>1, <4>2
    <3> QED BY <2>1, <3>5, <3>6, <3>7, <3>8
  <2> QED BY <1>9, <2>3, <2>4
<1>10. CASE TryExhausted
  <2>1. phase = "retrying" /\ UNCHANGED <<phase, charged, strikes>> /\ todo' \subseteq todo
    BY <1>10, <1>b DEF TryExhausted, Outcome
  <2>2. slots[try.task] # "blamed"
    BY <1>10, <1>a, <1>b, <1>c DEF TryExhausted
  <2>3. \A i \in Tasks : slots'[i] = "blamed" <=> slots[i] = "blamed"
    BY <1>10, <1>a, <2>2 DEF TryExhausted, Outcome
  <2> QED BY <2>1, <2>3
<1>11. CASE Return
  BY <1>11 DEF Return
<1>12. CASE ShutdownAll
  BY <1>12 DEF ShutdownAll
<1>13. CASE UNCHANGED vars
  BY <1>13 DEF vars
<1> QED
  BY <1>1, <1>2, <1>3, <1>4, <1>5, <1>6, <1>7, <1>8, <1>9, <1>10, <1>11, <1>12, <1>13
     DEF Next, Call, Caller, Thread, Try

-----------------------------------------------------------------------------
\* The parts of the invariant hold at the start.
LEMMA InvInit == Init => PhaseInv /\ HoldingInv /\ OutcomeInv /\ StrikeInv
<1> SUFFICES ASSUME Init PROVE PhaseInv /\ HoldingInv /\ OutcomeInv /\ StrikeInv
  OBVIOUS
<1> USE PoolAssumption DEF Init
<1>1. PhaseInv
  BY DEF PhaseInv, NoTry
<1>2. HoldingInv
  BY DEF HoldingInv
<1>3. OutcomeInv
  <2>1. 1 .. n = {}
    OBVIOUS
  <2>2. \A i \in Tasks : slots[i] = "none"
    OBVIOUS
  <2> QED BY <2>1, <2>2 DEF OutcomeInv
<1>4. StrikeInv
  BY DEF StrikeInv, StrikesWithinBudget
<1> QED BY <1>1, <1>2, <1>3, <1>4

\* The first three parts hold throughout, whatever the handles answer.
THEOREM PoolInvariant == Spec => [](PhaseInv /\ HoldingInv /\ OutcomeInv)
BY TypeCorrect, InvInit, PhaseStep, HoldingStep, OutcomeStep, PTL DEF Spec

\* No task is ever in the hands of two threads, and one that is has neither an
\* outcome nor an entry among the orphans (dispatch_batch's cursor and its locks).
THEOREM HoldersExclusive == Spec => []OneHolderPerTask
<1>1. TypeOK /\ HoldingInv => OneHolderPerTask
  BY DEF TypeOK, HoldingInv, Untouched, OneHolderPerTask
<1> QED BY <1>1, TypeCorrect, PoolInvariant, PTL

\* dispatch_with_strikes gives a task up only when not one worker is left: the
\* iterations it has left are the workers the pool has left.
THEOREM GivenUpOnEmptyPool == Spec => []GivenUpOnlyWithNoWorkerLeft
<1>1. PhaseInv /\ OutcomeInv => GivenUpOnlyWithNoWorkerLeft
  BY DEF PhaseInv, OutcomeInv, GivenUpOnlyWithNoWorkerLeft
<1> QED BY <1>1, PoolInvariant, PTL

\* A call that has returned left every one of its tasks an outcome: the fallback of
\* dispatch_batch's last map is dead code.
THEOREM CompleteOnReturn == Spec => []ReturnedComplete
<1>1. OutcomeInv => ReturnedComplete
  BY DEF OutcomeInv, ReturnedComplete
<1> QED BY <1>1, PoolInvariant, PTL

\* Whatever the handles answer, over both phases of a call a task is answered "worker" at
\* most MAX_DIED_HOLDING times, and it is blamed when, and only when, it has been.
THEOREM StrikeBudget == Spec => []StrikesWithinBudget
<1>1. StrikeInv => StrikesWithinBudget
  BY DEF StrikeInv
<1> QED BY <1>1, StrikeStep, TypeCorrect, InvInit, PoolInvariant, PTL DEF Spec

\* A strike is a process lost with the task.
StrikesAreDeaths == \A i \in Tasks : charged[i] <= deaths[i]

\* An answer that says "worker" of a process that is lost keeps strikes deaths.
LEMMA CostsPaid ==
    ASSUME TypeOK, StrikesAreDeaths, NEW i \in Tasks, NEW a \in Answer, Costs(i, a),
           a.out = "worker" => a.killed = 1
    PROVE  StrikesAreDeaths'
<1>1. /\ charged' = [charged EXCEPT ![i] = IF a.out = "worker" THEN charged[i] + 1 ELSE charged[i]]
      /\ deaths' = [deaths EXCEPT ![i] = deaths[i] + a.killed]
  BY DEF Costs
<1>2. a.killed \in {0, 1}
  BY DEF Answer
<1>3. \A j \in Tasks : charged[j] \in Nat /\ deaths[j] \in Nat /\ charged[j] <= deaths[j]
  BY DEF TypeOK, StrikesAreDeaths
<1>4. /\ charged'[i] = IF a.out = "worker" THEN charged[i] + 1 ELSE charged[i]
      /\ deaths'[i] = deaths[i] + a.killed
  BY <1>1 DEF TypeOK
<1>5. \A j \in Tasks : j # i => charged'[j] = charged[j] /\ deaths'[j] = deaths[j]
  BY <1>1 DEF TypeOK
<1>6. charged'[i] <= deaths'[i]
  BY <1>2, <1>3, <1>4
<1> QED BY <1>3, <1>5, <1>6 DEF StrikesAreDeaths

\* If a "worker" answer stands for a process lost with the task, as it does of a local
\* handle and does not of an ssh one, a task refused to the rest of the pool has really
\* cost it MAX_DIED_HOLDING of them.
THEOREM BlameIsDeserved == ASSUME DeathsAreDeaths PROVE Spec => []BlamedOnlyForDeaths
<1>1. Init => StrikesAreDeaths
  BY PoolAssumption DEF Init, StrikesAreDeaths, Tasks
<1>2. TypeOK /\ PhaseInv /\ StrikesAreDeaths /\ [Next]_vars => StrikesAreDeaths'
  <2> SUFFICES ASSUME TypeOK, PhaseInv, StrikesAreDeaths, [Next]_vars PROVE StrikesAreDeaths'
    OBVIOUS
  <2> USE PoolAssumption DEF history
  <2>1. ASSUME NewCall PROVE StrikesAreDeaths'
    BY <2>1 DEF NewCall, StrikesAreDeaths, Tasks
  <2>2. ASSUME UNCHANGED <<charged, deaths>> PROVE StrikesAreDeaths'
    BY <2>2 DEF StrikesAreDeaths
  <2>3. ASSUME NEW w \in Workers, NEW a \in Answers[w], NEW i \in Tasks, Costs(i, a)
        PROVE  StrikesAreDeaths'
    <3>1. a \in Answer
      BY DEF Answer
    <3>2. a.out = "worker" => a.killed = 1
      BY DEF DeathsAreDeaths
    <3> QED BY <2>3, <3>1, <3>2, CostsPaid
  <2>4. CASE Call
    BY <2>1, <2>4 DEF Call, DispatchStart, BatchRefused, BatchStart
  <2>5. ASSUME NEW w \in Workers, Thread(w) PROVE StrikesAreDeaths'
    <3>1. CASE Pull(w)
      BY <2>2, <3>1 DEF Pull
    <3>2. ASSUME NEW a \in Answers[w], ThreadSettles(w, a) \/ ThreadFails(w, a)
          PROVE  StrikesAreDeaths'
      <4>1. holding[w] \in Tasks /\ Costs(holding[w], a)
        BY <3>2 DEF ThreadSettles, ThreadFails, Busy, TypeOK, Tasks
      <4> QED BY <2>3, <4>1
    <3> QED BY <2>5, <3>1, <3>2 DEF Thread
  <2>6. CASE Try
    <3>1. Trying /\ try.task \in Tasks
      BY <2>6 DEF Try, Trying, TypeOK, Tasks
    <3>2. Tried \in Workers
      <4>1. Len(pool) \in Nat /\ Len(pool) > 0 /\ pool \in Seq(Workers) /\ try.idx \in Nat
        BY <3>1, LenProperties, EmptySeq DEF Trying, TypeOK
      <4>2. At + 1 \in 1 .. Len(pool)
        BY <4>1 DEF At
      <4> QED BY <4>1, <4>2, ElementOfSeq DEF Tried
    <3>3. PICK a \in Answers[Tried] : Costs(try.task, a)
      BY <2>6 DEF Try, TrySettles, TryUnreachable, TryDied
    <3> QED BY <2>3, <3>1, <3>2, <3>3
  <2>7. CASE Join \/ TryStart \/ TryExhausted \/ Return \/ ShutdownAll \/ UNCHANGED vars
    BY <2>2, <2>7 DEF Join, TryStart, TryExhausted, Return, ShutdownAll, vars
  <2> QED BY <2>4, <2>5, <2>6, <2>7 DEF Next, Caller
<1>3. TypeOK /\ StrikesWithinBudget /\ StrikesAreDeaths => BlamedOnlyForDeaths
  BY PoolAssumption DEF TypeOK, StrikesWithinBudget, StrikesAreDeaths, BlamedOnlyForDeaths
<1> QED BY <1>1, <1>2, <1>3, TypeCorrect, PoolInvariant, StrikeBudget, PTL DEF Spec
-----------------------------------------------------------------------------
(* Where the workers are                                                   *)

\* Vec::push of a worker that is not there.
LEMMA PushOne ==
    ASSUME NEW S, NEW s \in Seq(S), NEW x \in S, IsInjective(s), x \notin ToSet(s)
    PROVE  /\ ToSet(Append(s, x)) = ToSet(s) \cup {x}
           /\ IsInjective(Append(s, x))
<1>1. Len(s) \in Nat /\ DOMAIN s = 1 .. Len(s) /\ DOMAIN Append(s, x) = 1 .. Len(s) + 1
  BY AppendProperties, LenProperties
<1>2. /\ \A i \in 1 .. Len(s) : Append(s, x)[i] = s[i]
      /\ Append(s, x)[Len(s) + 1] = x
  BY AppendProperties
<1>3. 1 .. Len(s) + 1 = 1 .. Len(s) \cup {Len(s) + 1}
  BY <1>1
<1>4. ToSet(Append(s, x)) = ToSet(s) \cup {x}
  BY <1>1, <1>2, <1>3 DEF ToSet
<1>5. IsInjective(Append(s, x))
  BY <1>1, <1>2, <1>3 DEF IsInjective, ToSet
<1> QED BY <1>4, <1>5

\* Vec::remove of one of distinct workers: that one goes, and no other.
LEMMA RemoveOne ==
    ASSUME NEW S, NEW s \in Seq(S), NEW k \in 1 .. Len(s), IsInjective(s)
    PROVE  /\ ToSet(RemoveAt(s, k)) = ToSet(s) \ {s[k]}
           /\ IsInjective(RemoveAt(s, k))
<1> DEFINE r == RemoveAt(s, k)
<1>1. /\ Len(s) \in Nat /\ r \in Seq(S) /\ Len(r) = Len(s) - 1
      /\ \A j \in 1 .. Len(s) - 1 : r[j] = IF j < k THEN s[j] ELSE s[j + 1]
  BY RemoveAtType, LenProperties
<1>2. DOMAIN s = 1 .. Len(s) /\ DOMAIN r = 1 .. Len(s) - 1
  BY <1>1, LenProperties
<1> HIDE DEF r
<1>3. \A i, j \in 1 .. Len(s) : s[i] = s[j] => i = j
  BY <1>2 DEF IsInjective
<1>4. IsInjective(r)
  <2> SUFFICES ASSUME NEW i \in 1 .. Len(s) - 1, NEW j \in 1 .. Len(s) - 1, r[i] = r[j]
               PROVE  i = j
    BY <1>2 DEF IsInjective
  <2>1. CASE i < k /\ j < k
    BY <1>1, <1>3, <2>1, SMTT(30)
  <2>2. CASE i < k /\ ~(j < k)
    BY <1>1, <1>3, <2>2, SMTT(30)
  <2>3. CASE ~(i < k) /\ j < k
    BY <1>1, <1>3, <2>3, SMTT(30)
  <2>4. CASE ~(i < k) /\ ~(j < k)
    BY <1>1, <1>3, <2>4, SMTT(30)
  <2> QED BY <2>1, <2>2, <2>3, <2>4
<1>5. ToSet(r) \subseteq ToSet(s) \ {s[k]}
  <2> SUFFICES ASSUME NEW j \in 1 .. Len(s) - 1 PROVE r[j] \in ToSet(s) \ {s[k]}
    BY <1>2 DEF ToSet
  <2> DEFINE i == IF j < k THEN j ELSE j + 1
  <2>1. i \in 1 .. Len(s) /\ i # k
    BY <1>1
  <2>2. r[j] = s[i]
    BY <1>1
  <2> HIDE DEF i
  <2>3. s[i] # s[k]
    BY <1>3, <2>1
  <2> QED BY <1>2, <2>1, <2>2, <2>3 DEF ToSet
<1>6. ToSet(s) \ {s[k]} \subseteq ToSet(r)
  <2> SUFFICES ASSUME NEW i \in 1 .. Len(s), s[i] # s[k] PROVE s[i] \in ToSet(r)
    BY <1>2 DEF ToSet
  <2>1. CASE i < k
    <3>1. i \in 1 .. Len(s) - 1 /\ r[i] = s[i]
      BY <1>1, <2>1
    <3> QED BY <1>2, <3>1 DEF ToSet
  <2>2. CASE i > k
    <3>1. i - 1 \in 1 .. Len(s) - 1 /\ ~(i - 1 < k) /\ (i - 1) + 1 = i
      BY <1>1, <2>2
    <3>2. r[i - 1] = s[i]
      BY <1>1, <3>1
    <3> QED BY <1>2, <3>1, <3>2 DEF ToSet
  <2> QED BY <2>1, <2>2
<1> QED BY <1>4, <1>5, <1>6 DEF r

Disjoint(A, B) == A \cap B = {}

\* NoWorkerLostOrDuplicated spelled out, and when a worker is shut down.
PlaceInv ==
    /\ ToSet(pool) \cup running \cup ToSet(survivors) \cup evicted \cup shut = Workers
    /\ Disjoint(ToSet(pool), running) /\ Disjoint(ToSet(pool), ToSet(survivors))
    /\ Disjoint(ToSet(pool), evicted) /\ Disjoint(ToSet(pool), shut)
    /\ Disjoint(running, ToSet(survivors)) /\ Disjoint(running, evicted)
    /\ Disjoint(running, shut) /\ Disjoint(ToSet(survivors), evicted)
    /\ Disjoint(ToSet(survivors), shut) /\ Disjoint(evicted, shut)
    /\ IsInjective(pool) /\ IsInjective(survivors)
    /\ phase # "closed" => shut = {}

\* Every step that takes a worker from one place puts it in another.
LEMMA PlaceStep == TypeOK /\ PhaseInv /\ PlaceInv /\ [Next]_vars => PlaceInv'
<1> SUFFICES ASSUME TypeOK, PhaseInv, PlaceInv, [Next]_vars PROVE PlaceInv'
  OBVIOUS
<1> USE DEF PlaceInv, Disjoint, callVars, batchVars, retryVars, history
<1>a. pool \in Seq(Workers) /\ survivors \in Seq(Workers)
  BY DEF TypeOK
<1>b. ToSet(<<>>) = {} /\ IsInjective(<<>>)
  BY DEF ToSet, IsInjective
<1>1. ASSUME NEW k \in 0 .. MaxTasks, BatchRefused(k) PROVE PlaceInv'
  BY <1>1 DEF BatchRefused, NewCall
<1>2. ASSUME NEW k \in 0 .. MaxTasks, BatchStart(k) PROVE PlaceInv'
  <2>1. /\ running = {} /\ survivors = <<>> /\ shut = {}
        /\ running' = ToSet(pool) /\ pool' = <<>> /\ survivors' = <<>>
        /\ UNCHANGED <<evicted, shut>>
    BY <1>2 DEF BatchStart, NewCall, PhaseInv
  <2> QED BY <2>1, <1>b
<1>3. CASE DispatchStart
  BY <1>3 DEF DispatchStart, NewCall
<1>4. ASSUME NEW w \in Workers, Pull(w) PROVE PlaceInv'
  <2>1. CASE UNCHANGED <<running, survivors>>
    BY <1>4, <2>1 DEF Pull
  <2>2. CASE survivors' = Append(survivors, w) /\ running' = running \ {w}
    <3>1. w \in running /\ w \notin ToSet(survivors)
      BY <1>4 DEF Pull
    <3>2. /\ ToSet(survivors') = ToSet(survivors) \cup {w}
          /\ IsInjective(survivors')
      BY <2>2, <3>1, <1>a, PushOne
    <3>3. UNCHANGED <<phase, pool, evicted, shut>>
      BY <1>4 DEF Pull
    <3> QED BY <2>2, <3>1, <3>2, <3>3
  <2> QED BY <1>4, <2>1, <2>2 DEF Pull, Leave
<1>5. ASSUME NEW w \in Workers, NEW a \in Answers[w], ThreadSettles(w, a) PROVE PlaceInv'
  BY <1>5 DEF ThreadSettles
<1>6. ASSUME NEW w \in Workers, NEW a \in Answers[w], ThreadFails(w, a) PROVE PlaceInv'
  <2>1. /\ w \in running /\ running' = running \ {w} /\ evicted' = evicted \cup {w}
        /\ UNCHANGED <<phase, pool, survivors, shut>>
    BY <1>6 DEF ThreadFails, Busy
  <2> QED BY <2>1
<1>7. CASE Join
  <2>1. /\ pool = <<>> /\ pool' = survivors /\ survivors' = <<>>
        /\ phase # "closed" /\ UNCHANGED <<running, evicted, shut>>
    BY <1>7 DEF Join, PhaseInv
  <2> QED BY <2>1, <1>b
<1>8. CASE TryStart
  BY <1>8 DEF TryStart
<1>9. ASSUME Trying, NEW a \in Answers[Tried],
             TrySettles(a) \/ TryUnreachable(a) \/ TryDied(a)
      PROVE PlaceInv'
  <2>1. CASE TrySettles(a)
    BY <2>1 DEF TrySettles
  <2>2. CASE TryUnreachable(a) \/ TryDied(a)
    <3>1. Len(pool) \in Nat /\ Len(pool) > 0 /\ try.idx \in Nat
      BY <1>9, <1>a, LenProperties, EmptySeq DEF Trying, TypeOK
    <3>2. At + 1 \in 1 .. Len(pool)
      BY <3>1 DEF At
    <3>3. ToSet(pool') = ToSet(pool) \ {Tried} /\ IsInjective(pool')
      BY <1>a, <2>2, <3>2, RemoveOne DEF TryUnreachable, TryDied, Tried
    <3>4. Tried \in ToSet(pool)
      BY <1>a, <3>2, LenProperties DEF Tried, ToSet
    <3>5. evicted' = evicted \cup {Tried} /\ UNCHANGED <<phase, running, survivors, shut>>
      BY <2>2 DEF TryUnreachable, TryDied
    <3> QED BY <3>3, <3>4, <3>5
  <2> QED BY <1>9, <2>1, <2>2
<1>10. CASE TryExhausted
  BY <1>10 DEF TryExhausted
<1>11. CASE Return
  BY <1>11 DEF Return
<1>12. CASE ShutdownAll
  <2>1. /\ shut = {} /\ shut' = ToSet(pool) /\ pool' = <<>>
        /\ phase' = "closed" /\ UNCHANGED <<running, survivors, evicted>>
    BY <1>12 DEF ShutdownAll
  <2> QED BY <2>1, <1>b
<1>13. CASE UNCHANGED vars
  BY <1>13 DEF vars
<1> QED
  BY <1>1, <1>2, <1>3, <1>4, <1>5, <1>6, <1>7, <1>8, <1>9, <1>10, <1>11, <1>12, <1>13
     DEF Next, Call, Caller, Thread, Try

\* The hosts that connected are in the pool, the others are out of it.
LEMMA PlaceInit == Init => PlaceInv
<1> SUFFICES ASSUME Init PROVE PlaceInv
  OBVIOUS
<1>1. PICK k \in 0 .. Cardinality(Workers) :
        pool \in [1 .. k -> Workers] /\ \A a, b \in 1 .. k : pool[a] = pool[b] => a = b
  BY DEF Init, PoolOrders
<1>2. ToSet(pool) \subseteq Workers /\ IsInjective(pool)
  BY <1>1 DEF ToSet, IsInjective
<1>3. ToSet(<<>>) = {} /\ IsInjective(<<>>)
  BY DEF ToSet, IsInjective
<1> QED BY <1>2, <1>3 DEF Init, PlaceInv, Disjoint

\* A worker is lost to the pool only by failing, and is nowhere twice (FND-117).
THEOREM WorkersConserved == Spec => []NoWorkerLostOrDuplicated
<1>1. PlaceInv => NoWorkerLostOrDuplicated
  <2> SUFFICES ASSUME PlaceInv PROVE NoWorkerLostOrDuplicated
    OBVIOUS
  <2> DEFINE placed == <<ToSet(pool), running, ToSet(survivors), evicted, shut>>
  <2>1. /\ placed[1] = ToSet(pool) /\ placed[2] = running /\ placed[3] = ToSet(survivors)
        /\ placed[4] = evicted /\ placed[5] = shut
    OBVIOUS
  <2> HIDE DEF placed
  <2>2. 1 .. 5 = {1, 2, 3, 4, 5}
    OBVIOUS
  <2>3. UNION {placed[k] : k \in 1 .. 5}
          = placed[1] \cup placed[2] \cup placed[3] \cup placed[4] \cup placed[5]
    BY <2>2
  <2>4. \A j, k \in {1, 2, 3, 4, 5} : j # k => placed[j] \cap placed[k] = {}
    BY <2>1 DEF PlaceInv, Disjoint
  <2> QED BY <2>1, <2>2, <2>3, <2>4 DEF PlaceInv, NoWorkerLostOrDuplicated, placed
<1> QED BY <1>1, TypeCorrect, PoolInvariant, PlaceInit, PlaceStep, PTL DEF Spec
-----------------------------------------------------------------------------
TaskInv ==
    /\ phase \in {"pulling", "retrying"} => n > 0
    /\ \A w \in Workers : holding[w] <= n
    /\ phase = "pulling" =>
         \A i \in Tasks : \A s \in {0, 1} : <<i, s>> \in orphaned => slots[i] = "none"
    /\ phase = "retrying" => \A i \in todo : i <= n /\ slots[i] = "none"

Inv == /\ TypeOK /\ PhaseInv /\ HoldingInv /\ OutcomeInv /\ StrikeInv
       /\ PlaceInv /\ TaskInv

\* Every task still in work is one of the call's, and has no outcome.
LEMMA TaskStep == TypeOK /\ PhaseInv /\ HoldingInv /\ TaskInv /\ [Next]_vars => TaskInv'
<1> SUFFICES ASSUME TypeOK, PhaseInv, HoldingInv, TaskInv, [Next]_vars PROVE TaskInv'
  OBVIOUS
<1> USE PoolAssumption DEF TaskInv, callVars, batchVars, retryVars, history
<1>a. phase # "pulling" => \A w \in Workers : holding[w] = 0
  BY DEF PhaseInv, HoldingInv
<1>b. /\ n \in Nat /\ cursor \in Nat /\ todo \subseteq Tasks /\ 1 .. n \subseteq Tasks
      /\ slots \in [Tasks -> {"none", "ok", "task", "blamed", "lost"}]
      /\ holding \in [Workers -> Nat]
  BY DEF TypeOK, Tasks
<1>c. try.task # 0 => phase = "retrying" /\ try.task \in todo
  BY DEF PhaseInv
<1>1. ASSUME NEW k \in 0 .. MaxTasks, BatchRefused(k) PROVE TaskInv'
  BY <1>1, <1>a DEF BatchRefused, NewCall
<1>2. ASSUME NEW k \in 0 .. MaxTasks, BatchStart(k) PROVE TaskInv'
  BY <1>2, <1>a DEF BatchStart, NewCall
<1>3. CASE DispatchStart
  BY <1>3, <1>a DEF DispatchStart, NewCall, Tasks
<1>4. ASSUME NEW w \in Workers, Pull(w) PROVE TaskInv'
  <2>1. \A v \in Workers : holding'[v] <= n
    BY <1>4, <1>b DEF Pull
  <2> QED BY <1>4, <2>1 DEF Pull
<1>5. ASSUME NEW w \in Workers, NEW a \in Answers[w], ThreadSettles(w, a) PROVE TaskInv'
  <2>1. /\ slots' = [slots EXCEPT ![holding[w]] = a.out]
        /\ holding' = [holding EXCEPT ![w] = 0]
        /\ UNCHANGED <<phase, n, orphaned, todo>>
        /\ phase = "pulling" /\ Untouched(holding[w])
    BY <1>5 DEF ThreadSettles, Busy, PhaseInv, HoldingInv
  <2>2. \A v \in Workers : holding'[v] <= n
    BY <2>1, <1>b
  <2>3. \A i \in Tasks : \A s \in {0, 1} : <<i, s>> \in orphaned => slots'[i] = "none"
    <3> SUFFICES ASSUME NEW i \in Tasks, NEW s \in {0, 1}, <<i, s>> \in orphaned
                 PROVE  slots'[i] = "none"
      OBVIOUS
    <3>1. i # holding[w] /\ slots[i] = "none"
      BY <2>1 DEF Untouched
    <3> QED BY <2>1, <3>1, <1>b
  <2> QED BY <2>1, <2>2, <2>3
<1>6. ASSUME NEW w \in Workers, NEW a \in Answers[w], ThreadFails(w, a) PROVE TaskInv'
  <2>1. /\ orphaned' = orphaned \cup {<<holding[w], StrikeOf(a.out)>>}
        /\ holding' = [holding EXCEPT ![w] = 0]
        /\ UNCHANGED <<phase, n, slots, todo>>
        /\ phase = "pulling" /\ slots[holding[w]] = "none"
    BY <1>6 DEF ThreadFails, Busy, PhaseInv, HoldingInv, Untouched
  <2>2. \A v \in Workers : holding'[v] <= n
    BY <2>1, <1>b
  <2>3. \A i \in Tasks : \A s \in {0, 1} : <<i, s>> \in orphaned' => slots[i] = "none"
    BY <2>1
  <2> QED BY <2>1, <2>2, <2>3
<1>7. CASE Join
  <2>1. /\ phase = "pulling" /\ phase' = "retrying" /\ todo' = RetrySet
        /\ UNCHANGED <<n, holding, slots>>
    BY <1>7 DEF Join
  <2>2. \A i \in RetrySet : i <= n /\ slots[i] = "none"
    BY <2>1, <1>b DEF RetrySet
  <2> QED BY <2>1, <2>2
<1>8. CASE TryStart
  <2>1. PICK i \in todo : IF pool = <<>>
          THEN slots' = [slots EXCEPT ![i] = "lost"] /\ todo' = todo \ {i}
          ELSE UNCHANGED <<slots, todo>>
    BY <1>8 DEF TryStart
  <2>2. phase = "retrying" /\ UNCHANGED <<phase, n, holding>>
    BY <1>8 DEF TryStart
  <2>3. \A j \in todo' : j <= n /\ slots'[j] = "none"
    BY <2>1, <2>2, <1>b
  <2> QED BY <2>2, <2>3
<1>9. ASSUME Trying, NEW a \in Answers[Tried],
             TrySettles(a) \/ TryUnreachable(a) \/ TryDied(a)
      PROVE TaskInv'
  <2>1. phase = "retrying" /\ UNCHANGED <<phase, n, holding>>
    BY <1>9, <1>c DEF Trying, TrySettles, TryUnreachable, TryDied
  <2>2. \/ UNCHANGED <<slots, todo>>
        \/ \E o \in {"ok", "task", "blamed"} : Outcome(o)
    BY <1>9 DEF TrySettles, TryUnreachable, TryDied
  <2>3. \A j \in todo' : j <= n /\ slots'[j] = "none"
    BY <2>1, <2>2, <1>b DEF Outcome
  <2> QED BY <2>1, <2>3
<1>10. CASE TryExhausted
  <2>1. /\ phase = "retrying" /\ UNCHANGED <<phase, n, holding>>
        /\ slots' = [slots EXCEPT ![try.task] = "lost"] /\ todo' = todo \ {try.task}
    BY <1>10, <1>c DEF TryExhausted, Outcome
  <2>2. \A j \in todo' : j <= n /\ slots'[j] = "none"
    BY <2>1, <1>b
  <2> QED BY <2>1, <2>2
<1>11. CASE Return
  BY <1>11 DEF Return
<1>12. CASE ShutdownAll
  BY <1>12 DEF ShutdownAll
<1>13. CASE UNCHANGED vars
  BY <1>13 DEF vars
<1> QED
  BY <1>1, <1>2, <1>3, <1>4, <1>5, <1>6, <1>7, <1>8, <1>9, <1>10, <1>11, <1>12, <1>13
     DEF Next, Call, Caller, Thread, Try

\* Once a call has no worker left in the pool and no thread, every worker is evicted.
LEMMA NoneLive ==
    ASSUME PhaseInv, PlaceInv, phase # "closed", phase # "pulling", pool = <<>>
    PROVE  Workers \ evicted = {}
<1>1. running = {} /\ survivors = <<>> /\ shut = {}
  BY DEF PhaseInv, PlaceInv
<1>2. ToSet(<<>>) = {}
  BY DEF ToSet
<1> QED BY <1>1, <1>2 DEF PlaceInv

\* A call: a batch is refused or opened, or one task goes straight to the retries.
LEMMA CallSimulates == ASSUME Inv, Call PROVE Service!Next
<1> USE PoolAssumption DEF Inv, NewCall, callVars, batchVars, retryVars, history
<1>1. ASSUME NEW S \in SUBSET Tasks, Service!Open(S) \/ Service!Refuse(S)
      PROVE  Service!Next
  BY <1>1 DEF Service!Next
<1>2. CASE DispatchStart
  <2>1. Service!Open({1})
    BY <1>2 DEF DispatchStart, Service!Open
  <2> QED BY <1>1, <1>2, <2>1 DEF DispatchStart, Tasks
<1>3. ASSUME NEW k \in 0 .. MaxTasks, BatchStart(k) PROVE Service!Next
  <2>1. Service!Open(1 .. k)
    BY <1>3 DEF BatchStart, Service!Open
  <2>2. 1 .. k \in SUBSET Tasks
    BY DEF Tasks
  <2> QED BY <1>1, <2>1, <2>2
<1>4. ASSUME NEW k \in 0 .. MaxTasks, BatchRefused(k) PROVE Service!Next
  <2>1. /\ phase = "idle" /\ (k = 0 \/ pool = <<>>)
        /\ slots' = [i \in Tasks |-> IF i <= k THEN "lost" ELSE "none"]
        /\ charged' = [i \in Tasks |-> 0] /\ UNCHANGED <<phase, evicted>>
    BY <1>4 DEF BatchRefused
  <2>2. CASE k = 0
    <3>1. slots' = [i \in Tasks |-> "none"]
      BY <2>1, <2>2 DEF Tasks
    <3>2. Service!Open({})
      BY <2>1, <3>1 DEF Service!Open
    <3> QED BY <1>1, <3>2
  <2>3. CASE pool = <<>>
    <3>1. Workers \ evicted = {}
      BY <2>1, <2>3, NoneLive
    <3>2. slots' = [i \in Tasks |-> IF i \in 1 .. k THEN "lost" ELSE "none"]
      BY <2>1 DEF Tasks
    <3>3. Service!Refuse(1 .. k)
      BY <2>1, <3>1, <3>2 DEF Service!Refuse
    <3>4. 1 .. k \in SUBSET Tasks
      BY DEF Tasks
    <3> QED BY <1>1, <3>3, <3>4
  <2> QED BY <2>1, <2>2, <2>3
<1> QED BY <1>2, <1>3, <1>4 DEF Call

\* A thread of the batch: its claims and its leaving are invisible; its answer
\* settles its task, or loses its worker, charged to the task or to nobody.
LEMMA ThreadSimulates ==
    ASSUME Inv, NEW w \in Workers, Thread(w)
    PROVE  Service!Next \/ UNCHANGED Service!vars
<1> USE PoolAssumption DEF Inv, callVars, batchVars, retryVars, history
<1>1. CASE Pull(w)
  BY <1>1 DEF Pull, Service!vars
<1>2. ASSUME NEW a \in Answers[w], ThreadSettles(w, a) \/ ThreadFails(w, a)
      PROVE  Service!Next
  <2> DEFINE i == holding[w]
  <2>1. /\ w \in running /\ i # 0 /\ i <= n /\ phase = "pulling" /\ n > 0
        /\ slots[i] = "none" /\ <<i, 1>> \notin orphaned
    BY <1>2 DEF ThreadSettles, ThreadFails, Busy, PhaseInv, HoldingInv, Untouched, TaskInv
  <2>2. i \in 1 .. n /\ i \in Tasks
    BY <2>1 DEF TypeOK, Tasks
  <2>3. w \in Workers \ evicted
    BY <2>1 DEF PlaceInv, Disjoint
  <2>4. charged' = [charged EXCEPT ![i] = IF a.out = "worker" THEN @ + 1 ELSE @]
    BY <1>2 DEF ThreadSettles, ThreadFails, Costs
  <2>5. charged[i] = 0 /\ charged \in [Tasks -> Nat]
    BY <2>1, <2>2 DEF StrikeInv, TypeOK
  <2>6. UNCHANGED <<phase, n>>
    BY <1>2 DEF ThreadSettles, ThreadFails
  <2>7. Service!Pending(i)
    BY <2>1, <2>2 DEF Service!Pending
  <2>8. CASE ThreadSettles(w, a)
    <3>1. /\ slots' = [slots EXCEPT ![i] = a.out] /\ a.out \in {"ok", "task"}
          /\ evicted' = evicted
      BY <2>8 DEF ThreadSettles
    <3>2. charged' = charged
      BY <2>2, <2>4, <2>5, <3>1
    <3>3. Service!Settle(i)
      BY <2>3, <2>6, <2>7, <3>1, <3>2 DEF Service!Settle
    <3> QED BY <2>2, <3>3 DEF Service!Next
  <2>9. CASE ThreadFails(w, a)
    <3>1. slots' = slots /\ evicted' = evicted \cup {w} /\ a.out \in {"unreachable", "worker"}
      BY <2>9 DEF ThreadFails
    <3>2. Workers \ evicted' = (Workers \ evicted) \ {w}
      BY <3>1
    <3>3. CASE a.out = "unreachable"
      <4>1. charged' = charged
        BY <2>2, <2>4, <2>5, <3>3
      <4>2. Service!LoseUncharged(w)
        BY <2>1, <2>2, <2>3, <2>6, <3>1, <3>2, <4>1 DEF Service!LoseUncharged
      <4> QED BY <4>2 DEF Service!Next
    <3>4. CASE a.out = "worker"
      <4>1. charged' = [charged EXCEPT ![i] = @ + 1]
        BY <2>4, <3>4
      <4>2. ~(charged[i] + 1 >= MaxDiedHolding)
        BY <2>5
      <4>3. Service!LoseCharged(w, i)
        BY <2>3, <2>6, <2>7, <3>1, <3>2, <4>1, <4>2 DEF Service!LoseCharged
      <4> QED BY <2>2, <4>3 DEF Service!Next
    <3> QED BY <3>1, <3>3, <3>4
  <2> QED BY <1>2, <2>8, <2>9
<1> QED BY <1>1, <1>2 DEF Thread

\* The retry loop: an answer settles the task, or loses the worker tried, charged to
\* nobody or to the task, which is blamed with the last charge the budget allows.
LEMMA TrySimulates ==
    ASSUME Inv, Try
    PROVE  Service!Next
<1> USE PoolAssumption DEF Inv, callVars, batchVars, retryVars, history
<1> DEFINE i == try.task
           w == Tried
<1>1. Trying
  BY DEF Try
<1>2. /\ phase = "retrying" /\ n > 0 /\ i \in todo /\ i <= n /\ i \in Tasks
      /\ slots[i] = "none" /\ i \in 1 .. n
  <2>1. phase = "retrying" /\ i \in todo
    BY <1>1 DEF Trying, PhaseInv
  <2>2. n > 0 /\ i <= n /\ slots[i] = "none"
    BY <2>1 DEF TaskInv
  <2>3. i \in Tasks /\ n \in Nat
    BY <2>1 DEF TypeOK
  <2>4. i \in 1 .. n
    BY <2>2, <2>3 DEF Tasks
  <2> QED BY <2>1, <2>2, <2>3, <2>4
<1>3. w \in ToSet(pool) /\ w \in Workers
  <2>1. pool \in Seq(Workers) /\ Len(pool) \in Nat /\ Len(pool) > 0 /\ try.idx \in Nat
    BY <1>1, LenProperties, EmptySeq DEF Trying, TypeOK
  <2>2. At + 1 \in 1 .. Len(pool)
    BY <2>1 DEF At
  <2> QED BY <2>1, <2>2, LenProperties, ElementOfSeq DEF Tried, ToSet
<1>4. w \in Workers \ evicted
  BY <1>3 DEF PlaceInv, Disjoint
<1>5. PICK a \in Answers[w] : TrySettles(a) \/ TryUnreachable(a) \/ TryDied(a)
  BY DEF Try
<1>6. charged' = [charged EXCEPT ![i] = IF a.out = "worker" THEN @ + 1 ELSE @]
  BY <1>5 DEF TrySettles, TryUnreachable, TryDied, Costs
<1>7. charged \in [Tasks -> Nat] /\ charged[i] = strikes[i]
  BY <1>2 DEF StrikeInv, TypeOK
<1>8. UNCHANGED <<phase, n>>
  BY <1>5 DEF TrySettles, TryUnreachable, TryDied
<1>9. Service!Pending(i)
  BY <1>2 DEF Service!Pending
<1>10. CASE TrySettles(a)
  <2>1. /\ slots' = [slots EXCEPT ![i] = a.out] /\ a.out \in {"ok", "task"}
        /\ evicted' = evicted
    BY <1>10 DEF TrySettles, Outcome
  <2>2. charged' = charged
    BY <1>2, <1>6, <1>7, <2>1
  <2>3. Service!Settle(i)
    BY <1>4, <1>8, <1>9, <2>1, <2>2 DEF Service!Settle
  <2> QED BY <1>2, <2>3 DEF Service!Next
<1>11. CASE TryUnreachable(a)
  <2>1. slots' = slots /\ evicted' = evicted \cup {w} /\ a.out = "unreachable"
    BY <1>11 DEF TryUnreachable
  <2>2. Workers \ evicted' = (Workers \ evicted) \ {w} /\ charged' = charged
    BY <1>2, <1>6, <1>7, <2>1
  <2>3. Service!LoseUncharged(w)
    BY <1>2, <1>4, <1>8, <2>1, <2>2 DEF Service!LoseUncharged
  <2> QED BY <1>3, <2>3 DEF Service!Next
<1>12. CASE TryDied(a)
  <2>1. /\ evicted' = evicted \cup {w} /\ a.out = "worker"
        /\ slots' = IF strikes[i] + 1 >= MaxDiedHolding
                    THEN [slots EXCEPT ![i] = "blamed"] ELSE slots
    BY <1>12 DEF TryDied, OutOfStrikes, Outcome
  <2>2. /\ Workers \ evicted' = (Workers \ evicted) \ {w}
        /\ charged' = [charged EXCEPT ![i] = @ + 1]
    BY <1>6, <2>1
  <2>3. Service!LoseCharged(w, i)
    BY <1>4, <1>7, <1>8, <1>9, <2>1, <2>2 DEF Service!LoseCharged
  <2> QED BY <1>2, <1>3, <2>3 DEF Service!Next
<1> QED BY <1>5, <1>10, <1>11, <1>12

\* The caller's other steps: the join and the choice of the next task are invisible,
\* a task is given up only when no worker is live, and the call closes complete.
LEMMA CallerSimulates ==
    ASSUME Inv, Join \/ TryStart \/ TryExhausted \/ Return
    PROVE  Service!Next \/ UNCHANGED Service!vars
<1> USE PoolAssumption DEF Inv, callVars, batchVars, retryVars, history
<1>1. CASE Join
  BY <1>1 DEF Join, Service!vars
<1>2. ASSUME NEW i \in todo, phase = "retrying", pool = <<>>,
             slots' = [slots EXCEPT ![i] = "lost"], UNCHANGED <<phase, n, charged, evicted>>
      PROVE  Service!Next
  <2>1. i \in Tasks /\ i \in 1 .. n /\ slots[i] = "none"
    BY <1>2 DEF TaskInv, TypeOK, Tasks
  <2>2. Workers \ evicted = {}
    BY <1>2, NoneLive
  <2>3. Service!GiveUp(i)
    BY <1>2, <2>1, <2>2 DEF Service!GiveUp, Service!Pending
  <2> QED BY <2>1, <2>3 DEF Service!Next
<1>3. CASE TryStart
  <2>1. PICK i \in todo : IF pool = <<>>
          THEN slots' = [slots EXCEPT ![i] = "lost"]
          ELSE UNCHANGED slots
    BY <1>3 DEF TryStart
  <2>2. phase = "retrying" /\ UNCHANGED <<phase, n, charged, evicted>>
    BY <1>3 DEF TryStart
  <2> QED BY <1>2, <2>1, <2>2 DEF Service!vars
<1>4. CASE TryExhausted
  <2>1. /\ phase = "retrying" /\ try.task \in todo /\ try.left = Len(pool)
        /\ slots' = [slots EXCEPT ![try.task] = "lost"]
        /\ UNCHANGED <<phase, n, charged, evicted>>
    BY <1>4 DEF TryExhausted, Outcome, PhaseInv
  <2>2. pool = <<>>
    BY <1>4, <2>1, EmptySeq DEF TryExhausted, TypeOK
  <2> QED BY <1>2, <2>1, <2>2
<1>5. CASE Return
  <2>1. /\ phase = "retrying" /\ phase' = "idle" /\ todo = {}
        /\ UNCHANGED <<slots, charged, evicted>>
    BY <1>5 DEF Return
  <2>2. 1 .. n # {} /\ \A i \in 1 .. n : slots[i] # "none"
    <3>1. n \in Nat /\ n > 0 /\ 1 \in 1 .. n
      BY <2>1 DEF TaskInv, TypeOK
    <3>2. \A i \in 1 .. n : slots[i] # "none"
      BY <2>1 DEF OutcomeInv
    <3> QED BY <3>1, <3>2
  <2>3. Service!Close
    BY <2>1, <2>2 DEF Service!Close
  <2> QED BY <2>3 DEF Service!Next
<1> QED BY <1>1, <1>3, <1>4, <1>5

\* dispatch and dispatch_batch keep the promise of BatchService: one outcome per
\* task, once; workers only lost, and charged to the task they are said to have died with;
\* blame in the very step of the last such answer; giving up only when no worker is left.
\* It assumes nothing of the answers: it says who is charged, not that a process died.
THEOREM PoolImplementsService == Spec => ImplementsService
<1>1. Spec => []Inv
  <2>1. Init => TaskInv
    BY PoolAssumption DEF Init, TaskInv
  <2>2. Spec => []StrikeInv
    BY StrikeStep, TypeCorrect, InvInit, PoolInvariant, PTL DEF Spec
  <2>3. Spec => []PlaceInv
    BY TypeCorrect, PoolInvariant, PlaceInit, PlaceStep, PTL DEF Spec
  <2>4. Spec => []TaskInv
    BY <2>1, TypeCorrect, PoolInvariant, TaskStep, PTL DEF Spec
  <2> QED BY <2>2, <2>3, <2>4, TypeCorrect, PoolInvariant, PTL DEF Inv
<1>2. Init => Service!Init
  BY PoolAssumption DEF Init, Service!Init
<1>3. Inv /\ [Next]_vars => [Service!Next]_(Service!vars)
  <2> SUFFICES ASSUME Inv, [Next]_vars PROVE Service!Next \/ UNCHANGED Service!vars
    OBVIOUS
  <2>1. CASE Call
    BY <2>1, CallSimulates
  <2>2. ASSUME NEW w \in Workers, Thread(w)
        PROVE  Service!Next \/ UNCHANGED Service!vars
    BY <2>2, ThreadSimulates
  <2>3. CASE Try
    BY <2>3, TrySimulates
  <2>4. CASE Join \/ TryStart \/ TryExhausted \/ Return
    BY <2>4, CallerSimulates
  <2>5. CASE ShutdownAll
    BY <2>5 DEF ShutdownAll, Service!vars, callVars, batchVars, retryVars, history
  <2>6. CASE UNCHANGED vars
    BY <2>6 DEF vars, callVars, batchVars, retryVars, history, Service!vars
  <2> QED BY <2>1, <2>2, <2>3, <2>4, <2>5, <2>6 DEF Next, Caller
<1> QED BY <1>1, <1>2, <1>3, PTL DEF Spec, ImplementsService, Service!Spec
-----------------------------------------------------------------------------

\* The lines behind which stdin begins: read, or read as far as their refusal.
Consumed == Len(sent) - Len(in)

\* What stdin holds is the last lines written, in order: all of them whole but for the
\* one being drained, and each ended by a newline but for the last before EOF.
LinesInOrder ==
    /\ Len(in) <= Len(sent)
    /\ \A i \in 1 .. Len(in) :
         /\ in[i].line = Consumed + i
         /\ in[i].nl = 0 => eof /\ i = Len(in)
         /\ i > 1 \/ loopPc = "read" => in[i].whole
         /\ in[i].whole => in[i].size = sent[in[i].line].size

\* The line being drained is over-long, and stdin holds the rest of it, or nothing at EOF.
Draining ==
    loopPc = "drain" =>
        /\ long \in 1 .. Len(sent) /\ sent[long].size > MAX_LINE_BYTES
        /\ long = IF in = <<>> THEN Len(sent) ELSE Consumed + 1
        /\ in = <<>> => eof

\* No line before the next is a shutdown, unless the loop has stopped.
NoShutdown == loopPc # "stopped" => ~Loop!BehindShutdown(Consumed + 1)

\* Each line read, and owed an answer, has its own, in the order of the lines.
Answered ==
    /\ Loop!OneReplyPerLine
    /\ Loop!RefusedForLength
    /\ \A i \in 1 .. Len(replies) : /\ replies[i].line <= Consumed
                                    /\ loopPc = "drain" => replies[i].line < long
    /\ loopPc # "stopped" =>
         \A k \in Loop!Owed : k <= Consumed /\ ~(loopPc = "drain" /\ k = long)
                                => \E i \in 1 .. Len(replies) : replies[i].line = k

LoopInv == Loop!TypeOK /\ LinesInOrder /\ Draining /\ NoShutdown /\ Answered
-----------------------------------------------------------------------------
(* What the steps of the loop do to the queue, the lines and the answers   *)

Line == [size : Lengths, kind : Kinds]
Piece == [line : 1 .. MaxLines, size : Nat, nl : {0, 1}, whole : BOOLEAN]
Reply == [line : 1 .. MaxLines, code : Loop!Codes]

\* The next line: its number, its end and, unless it is being drained, its size.
LEMMA NextPiece ==
    ASSUME Loop!TypeOK, LinesInOrder, in # <<>>
    PROVE  /\ Len(in) \in Nat \ {0} /\ Len(sent) \in Nat
           /\ Head(in) = in[1] /\ Head(in) \in Piece
           /\ Head(in).line = Consumed + 1 /\ Consumed + 1 \in 1 .. Len(sent)
           /\ Head(in).nl = 0 => eof /\ Len(in) = 1
           /\ Head(in).whole => Head(in).size = sent[Consumed + 1].size
           /\ loopPc = "read" => Head(in).whole
           /\ Loop!Bytes(Head(in)) \in Nat
           /\ Loop!Bytes(Head(in)) = Head(in).size + Head(in).nl
<1>1. in \in Seq(Piece) /\ sent \in Seq(Line)
  BY DEF Loop!TypeOK, Piece, Line
<1>2. /\ Len(in) \in Nat \ {0} /\ Len(sent) \in Nat /\ Head(in) = in[1] /\ in[1] \in Piece
  BY <1>1
<1>3. 1 \in 1 .. Len(in)
  BY <1>2
<1>4. /\ in[1].line = Consumed + 1 /\ Len(in) <= Len(sent)
      /\ in[1].nl = 0 => eof /\ 1 = Len(in)
      /\ loopPc = "read" => in[1].whole
      /\ in[1].whole => in[1].size = sent[in[1].line].size
  BY <1>3 DEF LinesInOrder
<1>5. Consumed + 1 \in 1 .. Len(sent)
  BY <1>2, <1>4 DEF Consumed
<1>6. /\ in[1].size \in Nat /\ in[1].nl \in {0, 1}
  BY <1>2 DEF Piece
<1> QED BY <1>2, <1>4, <1>5, <1>6 DEF Loop!Bytes

\* A read takes the next line off the queue, or leaves its rest at the head.
LEMMA BehindFacts ==
    ASSUME Loop!TypeOK, LinesInOrder, in # <<>>,
           NEW k \in Nat, k <= Loop!Bytes(Head(in)), Loop!Behind(k) = in'
    PROVE  /\ in' \in Seq(Piece)
           /\ k = Loop!Bytes(Head(in)) =>
                Len(in') = Len(in) - 1 /\ \A i \in 1 .. Len(in) - 1 : in'[i] = in[i + 1]
           /\ k # Loop!Bytes(Head(in)) =>
                /\ Len(in') = Len(in) /\ \A i \in 2 .. Len(in) : in'[i] = in[i]
                /\ in'[1].line = Head(in).line /\ in'[1].nl = Head(in).nl /\ ~in'[1].whole
<1>1. /\ Len(in) \in Nat \ {0} /\ Head(in) = in[1] /\ in[1] \in Piece
      /\ Loop!Bytes(Head(in)) \in Nat
      /\ Loop!Bytes(Head(in)) = Head(in).size + Head(in).nl
  BY NextPiece
<1>2. in \in Seq(Piece)
  BY DEF Loop!TypeOK, Piece
<1>3. /\ Tail(in) \in Seq(Piece) /\ Len(Tail(in)) = Len(in) - 1
      /\ \A i \in 1 .. Len(in) - 1 : Tail(in)[i] = in[i + 1]
  BY <1>1, <1>2, HeadTailProperties
<1>4. CASE k = Loop!Bytes(Head(in))
  BY <1>3, <1>4 DEF Loop!Behind
<1>5. CASE k # Loop!Bytes(Head(in))
  <2> DEFINE p == [Head(in) EXCEPT !.size = @ - k, !.whole = FALSE]
  <2>1. /\ p \in Piece /\ p.line = Head(in).line /\ p.nl = Head(in).nl /\ ~p.whole
    <3>1. Head(in).size - k \in Nat
      <4>1. Head(in).size \in Nat /\ Head(in).nl \in {0, 1}
        BY <1>1 DEF Piece
      <4> QED BY <1>1, <1>5, <4>1
    <3> QED BY <1>1, <3>1 DEF Piece
  <2>2. in' = <<p>> \o Tail(in)
    BY <1>5 DEF Loop!Behind
  <2> HIDE DEF p
  <2>3. <<p>> \in Seq(Piece) /\ Len(<<p>>) = 1 /\ <<p>>[1] = p
    BY <2>1
  <2>4. /\ <<p>> \o Tail(in) \in Seq(Piece)
        /\ Len(<<p>> \o Tail(in)) = Len(<<p>>) + Len(Tail(in))
        /\ \A i \in 1 .. Len(<<p>>) + Len(Tail(in)) :
             (<<p>> \o Tail(in))[i] = IF i <= Len(<<p>>) THEN <<p>>[i]
                                      ELSE Tail(in)[i - Len(<<p>>)]
    BY <1>3, <2>3, ConcatProperties
  <2>5. in'[1] = p /\ Len(in') = Len(in) /\ in' \in Seq(Piece)
    BY <1>1, <1>3, <2>2, <2>3, <2>4
  <2>6. ASSUME NEW i \in 2 .. Len(in) PROVE in'[i] = in[i]
    <3>1. in'[i] = Tail(in)[i - 1]
      BY <1>1, <1>3, <2>2, <2>3, <2>4
    <3> QED BY <1>1, <1>3, <3>1
  <2> QED BY <1>5, <2>1, <2>5, <2>6
<1> QED BY <1>4, <1>5

\* One more line, and nothing of the earlier ones changed: nor what they are owed.
LEMMA OwedGrows ==
    ASSUME Loop!TypeOK, NEW x \in Line, sent' = Append(sent, x)
    PROVE  /\ Len(sent) \in Nat /\ sent' \in Seq(Line) /\ Len(sent') = Len(sent) + 1
           /\ \A k \in 1 .. Len(sent) : sent'[k] = sent[k]
           /\ \A k \in 1 .. Len(sent) + 1 : Loop!BehindShutdown(k)' <=> Loop!BehindShutdown(k)
           /\ \A k \in 1 .. Len(sent) : k \in Loop!Owed' <=> k \in Loop!Owed
<1>1. sent \in Seq(Line)
  BY DEF Loop!TypeOK, Line
<1>2. /\ Len(sent) \in Nat /\ sent' \in Seq(Line) /\ Len(sent') = Len(sent) + 1
      /\ \A k \in 1 .. Len(sent) : sent'[k] = sent[k]
  BY <1>1, AppendProperties
<1>3. ASSUME NEW k \in 1 .. Len(sent) + 1
      PROVE  Loop!BehindShutdown(k)' <=> Loop!BehindShutdown(k)
  <2>1. \A j \in 1 .. k - 1 : sent'[j] = sent[j]
    BY <1>2
  <2> QED BY <2>1 DEF Loop!BehindShutdown
<1>4. ASSUME NEW k \in 1 .. Len(sent) PROVE k \in Loop!Owed' <=> k \in Loop!Owed
  <2>1. k \in 1 .. Len(sent') /\ k \in 1 .. Len(sent) + 1 /\ sent'[k] = sent[k]
    BY <1>2
  <2>2. Loop!BehindShutdown(k)' <=> Loop!BehindShutdown(k)
    BY <1>3, <2>1
  <2> QED BY <2>1, <2>2 DEF Loop!Owed
<1> QED BY <1>2, <1>3, <1>4
\* A line has a length.
LEMMA LineSize ==
    ASSUME Loop!LoopAssumption, Loop!TypeOK, NEW l \in 1 .. Len(sent)
    PROVE  sent[l] \in Line /\ sent[l].size \in Nat
<1>1. sent \in Seq(Line)
  BY DEF Loop!TypeOK, Line
<1>2. sent[l] \in Line
  BY <1>1
<1> QED BY <1>2 DEF Line, Loop!LoopAssumption

\* An answer names a line.
LEMMA ReplyLines ==
    ASSUME Loop!TypeOK
    PROVE  /\ replies \in Seq(Reply) /\ Len(replies) \in Nat
           /\ \A i \in 1 .. Len(replies) : replies[i] \in Reply /\ replies[i].line \in Int
<1>1. replies \in Seq(Reply)
  BY DEF Loop!TypeOK, Reply
<1>2. \A i \in 1 .. Len(replies) : replies[i] \in Reply
  BY <1>1
<1>3. \A x \in Reply : x.line \in Int
  BY DEF Reply
<1> QED BY <1>1, <1>2, <1>3

\* One more answer, behind those there were.
LEMMA OneMoreReply ==
    ASSUME Loop!TypeOK, NEW l \in 1 .. MaxLines, NEW c \in Loop!Codes,
           replies' = Append(replies, [line |-> l, code |-> c])
    PROVE  /\ Len(replies) \in Nat /\ replies' \in Seq(Reply) /\ Len(replies') = Len(replies) + 1
           /\ replies'[Len(replies) + 1].line = l /\ replies'[Len(replies) + 1].code = c
           /\ \A i \in 1 .. Len(replies) : replies'[i] = replies[i]
           /\ \A i \in 1 .. Len(replies) : replies[i] \in Reply
<1>1. replies \in Seq(Reply)
  BY DEF Loop!TypeOK, Reply
<1>2. [line |-> l, code |-> c] \in Reply
  BY DEF Reply
<1> QED BY <1>1, <1>2, AppendProperties

\* An answer to line l, the first that has none, when every line before is read.
LEMMA AnsweredUpTo ==
    ASSUME LoopInv, NEW l \in Loop!Owed, NEW c \in Loop!Codes, l \in 1 .. MaxLines,
           replies' = Append(replies, [line |-> l, code |-> c]),
           \A i \in 1 .. Len(replies) : replies[i].line < l,
           sent[l].size > MAX_LINE_BYTES => c = "resource_exhausted",
           UNCHANGED sent
    PROVE  /\ Loop!OneReplyPerLine' /\ Loop!RefusedForLength'
           /\ \A i \in 1 .. Len(replies') : replies'[i].line <= l
           /\ \A k \in Loop!Owed : (\E i \in 1 .. Len(replies) : replies[i].line = k) \/ k = l
                                  => \E i \in 1 .. Len(replies') : replies'[i].line = k
<1>1. /\ Len(replies) \in Nat /\ Len(replies') = Len(replies) + 1
      /\ replies'[Len(replies) + 1].line = l /\ replies'[Len(replies) + 1].code = c
      /\ \A i \in 1 .. Len(replies) : replies'[i] = replies[i] /\ replies[i] \in Reply
  BY OneMoreReply DEF LoopInv
<1>2. Loop!Owed' = Loop!Owed
  BY DEF Loop!Owed, Loop!BehindShutdown
<1>3. /\ \A i, j \in 1 .. Len(replies) : i < j => replies[i].line < replies[j].line
      /\ \A i \in 1 .. Len(replies) : replies[i].line \in Loop!Owed
      /\ \A i \in 1 .. Len(replies) :
           sent[replies[i].line].size > MAX_LINE_BYTES => replies[i].code = "resource_exhausted"
  BY DEF LoopInv, Answered, Loop!OneReplyPerLine, Loop!RefusedForLength
<1>4. \A i \in 1 .. Len(replies') : i \in 1 .. Len(replies) \/ i = Len(replies) + 1
  BY <1>1
<1>5. Loop!OneReplyPerLine'
  <2>1. ASSUME NEW i \in 1 .. Len(replies'), NEW j \in 1 .. Len(replies'), i < j
        PROVE  replies'[i].line < replies'[j].line
    <3>1. i \in 1 .. Len(replies)
      BY <1>1, <2>1
    <3>2. CASE j \in 1 .. Len(replies)
      BY <1>1, <1>3, <2>1, <3>1, <3>2
    <3>3. CASE j = Len(replies) + 1
      BY <1>1, <3>1, <3>3
    <3> QED BY <1>4, <3>2, <3>3
  <2>2. ASSUME NEW i \in 1 .. Len(replies') PROVE replies'[i].line \in Loop!Owed
    BY <1>1, <1>3, <1>4
  <2> QED BY <1>2, <2>1, <2>2 DEF Loop!OneReplyPerLine
<1>6. Loop!RefusedForLength'
  BY <1>1, <1>3, <1>4 DEF Loop!RefusedForLength
<1>7. \A i \in 1 .. Len(replies') : replies'[i].line <= l
  <2>1. l \in Int /\ \A i \in 1 .. Len(replies) : replies[i].line \in Int
    BY <1>1 DEF Reply
  <2> QED BY <1>1, <1>4, <2>1
<1>8. ASSUME NEW k \in Loop!Owed,
             (\E i \in 1 .. Len(replies) : replies[i].line = k) \/ k = l
      PROVE  \E i \in 1 .. Len(replies') : replies'[i].line = k
  <2>1. CASE k = l
    <3>1. Len(replies) + 1 \in 1 .. Len(replies')
      BY <1>1
    <3> QED BY <1>1, <2>1, <3>1
  <2>2. ASSUME NEW i \in 1 .. Len(replies), replies[i].line = k
        PROVE  \E j \in 1 .. Len(replies') : replies'[j].line = k
    <3>1. i \in 1 .. Len(replies')
      BY <1>1
    <3> QED BY <1>1, <2>2, <3>1
  <2> QED BY <1>8, <2>1, <2>2
<1> QED BY <1>5, <1>6, <1>7, <1>8
-----------------------------------------------------------------------------
\* The steps of the loop, and of the controller's end of its pipe, keep the invariant.
\* A line of exactly the maximum would not: the byte behind it is its newline, and the
\* loop takes the next line for its rest.

\* The controller writes a line, whole or cut short before its newline.
LEMMA WrittenStep ==
    ASSUME Loop!LoopAssumption, LoopInv,
           NEW size \in Lengths, NEW kind \in Kinds, NEW nl \in {0, 1},
           Loop!Written(size, kind, nl), nl = 0 => eof', eof' \in BOOLEAN
    PROVE  LoopInv'
<1> DEFINE x == [size |-> size, kind |-> kind]
           p == [line |-> Len(sent) + 1, size |-> size, nl |-> nl, whole |-> TRUE]
<1>1. /\ sent' = Append(sent, x) /\ x \in Line /\ ~eof /\ Len(sent) < MaxLines
      /\ in' = Append(in, p) /\ UNCHANGED <<loopPc, buf, long, replies>>
  BY DEF Loop!Written, Line
<1>2. /\ Len(sent) \in Nat /\ sent' \in Seq(Line) /\ Len(sent') = Len(sent) + 1
      /\ sent'[Len(sent) + 1] = x
      /\ \A k \in 1 .. Len(sent) : sent'[k] = sent[k]
      /\ \A k \in 1 .. Len(sent) + 1 : Loop!BehindShutdown(k)' <=> Loop!BehindShutdown(k)
      /\ \A k \in 1 .. Len(sent) : k \in Loop!Owed' <=> k \in Loop!Owed
  <2>1. sent \in Seq(Line)
    BY DEF LoopInv, Loop!TypeOK, Line
  <2> HIDE DEF x
  <2> QED BY <1>1, <2>1, OwedGrows, AppendProperties DEF LoopInv
<1>3. /\ p \in Piece /\ p.line = Len(sent) + 1 /\ p.size = size /\ p.nl = nl /\ p.whole
  BY <1>1, <1>2 DEF Piece, Loop!LoopAssumption
<1> HIDE DEF p
<1>4. in \in Seq(Piece)
  BY DEF LoopInv, Loop!TypeOK, Piece
<1>5. /\ Len(in) \in Nat /\ in' \in Seq(Piece) /\ Len(in') = Len(in) + 1 /\ in'[Len(in) + 1] = p
      /\ \A i \in 1 .. Len(in) : in'[i] = in[i] /\ in[i] \in Piece
  BY <1>1, <1>3, <1>4, AppendProperties
<1>6. Consumed' = Consumed /\ Consumed \in Nat /\ Len(in) <= Len(sent)
  BY <1>2, <1>5 DEF Consumed, LoopInv, LinesInOrder
<1>7. Loop!TypeOK'
  BY <1>1, <1>2, <1>5 DEF LoopInv, Loop!TypeOK, Line, Piece
<1>8. LinesInOrder'
  <2>1. ASSUME NEW i \in 1 .. Len(in'), i \in 1 .. Len(in)
        PROVE  /\ in'[i].line = Consumed + i
               /\ in'[i].nl # 0
               /\ i > 1 \/ loopPc' = "read" => in'[i].whole
               /\ in'[i].whole => in'[i].size = sent'[in'[i].line].size
    <3>1. /\ in[i].line = Consumed + i /\ in[i].nl # 0
          /\ i > 1 \/ loopPc = "read" => in[i].whole
          /\ in[i].whole => in[i].size = sent[in[i].line].size
      BY <1>1, <2>1 DEF LoopInv, LinesInOrder
    <3>2. Consumed + i \in 1 .. Len(sent)
      BY <1>2, <1>5, <1>6, <2>1 DEF Consumed
    <3> QED BY <1>1, <1>2, <1>5, <2>1, <3>1, <3>2
  <2>2. /\ in'[Len(in) + 1].line = Consumed + (Len(in) + 1)
        /\ in'[Len(in) + 1].size = sent'[in'[Len(in) + 1].line].size
    BY <1>2, <1>3, <1>5 DEF Consumed
  <2>3. \A i \in 1 .. Len(in') : i \in 1 .. Len(in) \/ i = Len(in) + 1
    BY <1>5
  <2>4. Len(in') <= Len(sent')
    BY <1>2, <1>5, <1>6
  <2>5. in'[Len(in) + 1].whole /\ in'[Len(in) + 1].nl = nl
    BY <1>3, <1>5
  <2> QED BY <1>5, <1>6, <2>1, <2>2, <2>3, <2>4, <2>5 DEF LinesInOrder
<1>9. Draining'
  <2>1. CASE loopPc = "drain"
    <3>1. /\ long \in 1 .. Len(sent) /\ sent[long].size > MAX_LINE_BYTES /\ in # <<>>
          /\ long = Consumed + 1
      BY <1>1, <2>1 DEF LoopInv, Draining
    <3>2. in' # <<>>
      BY <1>5
    <3> QED BY <1>1, <1>2, <1>6, <3>1, <3>2 DEF Draining
  <2> QED BY <1>1, <2>1 DEF Draining
<1>10. NoShutdown'
  BY <1>1, <1>2, <1>5, <1>6 DEF LoopInv, NoShutdown, Consumed
<1>11. Answered'
  <2>1. /\ \A i, j \in 1 .. Len(replies) : i < j => replies[i].line < replies[j].line
        /\ \A i \in 1 .. Len(replies) : /\ replies[i].line \in Loop!Owed
                                        /\ replies[i].line <= Consumed
                                        /\ loopPc = "drain" => replies[i].line < long
        /\ \A i \in 1 .. Len(replies) :
             sent[replies[i].line].size > MAX_LINE_BYTES => replies[i].code = "resource_exhausted"
        /\ loopPc # "stopped" =>
             \A k \in Loop!Owed : k <= Consumed /\ ~(loopPc = "drain" /\ k = long)
                                   => \E i \in 1 .. Len(replies) : replies[i].line = k
    BY DEF LoopInv, Answered, Loop!OneReplyPerLine, Loop!RefusedForLength
  <2>2. \A i \in 1 .. Len(replies) : replies[i].line \in 1 .. Len(sent)
    BY <2>1 DEF Loop!Owed
  <2>3. \A k \in Loop!Owed' : k <= Consumed => k \in Loop!Owed
    BY <1>2, <1>5, <1>6 DEF Loop!Owed, Consumed
  <2>4. Loop!OneReplyPerLine' /\ Loop!RefusedForLength'
    BY <1>1, <1>2, <2>1, <2>2 DEF Loop!OneReplyPerLine, Loop!RefusedForLength
  <2> QED BY <1>1, <1>6, <2>1, <2>3, <2>4 DEF Answered
<1> QED BY <1>7, <1>8, <1>9, <1>10, <1>11 DEF LoopInv

\* The controller closes its end.
LEMMA CloseStep == ASSUME LoopInv, Loop!Close PROVE LoopInv'
<1>1. eof' = TRUE /\ UNCHANGED <<sent, in, loopPc, buf, long, replies>>
  BY DEF Loop!Close
<1>2. Loop!TypeOK' /\ LinesInOrder' /\ Draining' /\ NoShutdown'
  BY <1>1 DEF LoopInv, Loop!TypeOK, LinesInOrder, Draining, NoShutdown, Consumed,
     Loop!BehindShutdown
<1>3. Answered'
  BY <1>1 DEF LoopInv, Answered, Consumed, Loop!OneReplyPerLine, Loop!RefusedForLength,
     Loop!Owed, Loop!BehindShutdown
<1> QED BY <1>2, <1>3 DEF LoopInv
\* A read keeps the queue in order, and the next line is the next.
LEMMA QueueMoves ==
    ASSUME Loop!TypeOK, LinesInOrder, in # <<>>, UNCHANGED <<sent, eof>>,
           NEW k \in Nat, k <= Loop!Bytes(Head(in)), in' = Loop!Behind(k),
           k # Loop!Bytes(Head(in)) => loopPc' # "read"
    PROVE  /\ LinesInOrder' /\ in' \in Seq(Piece)
           /\ k = Loop!Bytes(Head(in)) =>
                Consumed' = Consumed + 1 /\ (Head(in).nl = 0 => in' = <<>> /\ eof)
           /\ k # Loop!Bytes(Head(in)) => Consumed' = Consumed /\ in' # <<>>
<1>1. /\ Len(in) \in Nat \ {0} /\ Len(sent) \in Nat
      /\ Head(in) = in[1] /\ Head(in).line = Consumed + 1
      /\ Head(in).nl = 0 => eof /\ Len(in) = 1
  BY NextPiece
<1>2. /\ in' \in Seq(Piece)
      /\ k = Loop!Bytes(Head(in)) =>
           Len(in') = Len(in) - 1 /\ \A i \in 1 .. Len(in) - 1 : in'[i] = in[i + 1]
      /\ k # Loop!Bytes(Head(in)) =>
           /\ Len(in') = Len(in) /\ \A i \in 2 .. Len(in) : in'[i] = in[i]
           /\ in'[1].line = Head(in).line /\ in'[1].nl = Head(in).nl /\ ~in'[1].whole
  BY BehindFacts
<1>3. /\ Len(in) <= Len(sent)
      /\ \A i \in 1 .. Len(in) :
           /\ in[i].line = Consumed + i
           /\ in[i].nl = 0 => eof /\ i = Len(in)
           /\ i > 1 => in[i].whole
           /\ in[i].whole => in[i].size = sent[in[i].line].size
  BY DEF LinesInOrder
<1>4. CASE k = Loop!Bytes(Head(in))
  <2>1. Len(in') = Len(in) - 1 /\ \A i \in 1 .. Len(in) - 1 : in'[i] = in[i + 1]
    BY <1>2, <1>4
  <2>2. Consumed' = Consumed + 1
    BY <1>1, <2>1 DEF Consumed
  <2>3. ASSUME NEW i \in 1 .. Len(in')
        PROVE  /\ in'[i].line = Consumed' + i
               /\ in'[i].nl = 0 => eof /\ i = Len(in')
               /\ in'[i].whole
               /\ in'[i].size = sent[in'[i].line].size
    <3>1. i + 1 \in 1 .. Len(in) /\ in'[i] = in[i + 1] /\ i + 1 > 1
      BY <1>1, <2>1
    <3>2. Consumed \in Int
      BY <1>1 DEF Consumed
    <3> QED BY <1>1, <1>3, <2>1, <2>2, <3>1, <3>2
  <2>4. LinesInOrder'
    BY <1>1, <1>3, <2>1, <2>3 DEF LinesInOrder
  <2>5. Len(in) = 1 => in' = <<>>
    BY <1>2, <2>1
  <2> QED BY <1>1, <1>2, <1>4, <2>2, <2>4, <2>5
<1>5. CASE k # Loop!Bytes(Head(in))
  <2>1. /\ Len(in') = Len(in) /\ \A i \in 2 .. Len(in) : in'[i] = in[i]
        /\ in'[1].line = Head(in).line /\ in'[1].nl = Head(in).nl /\ ~in'[1].whole
    BY <1>2, <1>5
  <2>2. Consumed' = Consumed
    BY <2>1 DEF Consumed
  <2>3. ASSUME NEW i \in 1 .. Len(in')
        PROVE  /\ in'[i].line = Consumed' + i
               /\ in'[i].nl = 0 => eof /\ i = Len(in')
               /\ i > 1 => in'[i].whole
               /\ in'[i].whole => in'[i].size = sent[in'[i].line].size
    <3>1. CASE i = 1
      BY <1>1, <2>1, <2>2, <3>1
    <3>2. CASE i \in 2 .. Len(in)
      BY <1>1, <1>3, <2>1, <2>2, <3>2
    <3> QED BY <1>1, <2>1, <3>1, <3>2
  <2>4. LinesInOrder'
    BY <1>3, <1>5, <2>1, <2>3 DEF LinesInOrder
  <2>5. in' # <<>>
    BY <1>1, <2>1
  <2> QED BY <1>2, <1>5, <2>2, <2>4, <2>5
<1> QED BY <1>4, <1>5

\* The loop reads a line, or the beginning of one that is over-long.
LEMMA ReadStep ==
    ASSUME Loop!LoopAssumption, MAX_LINE_BYTES \notin Lengths, LoopInv, Loop!Read
    PROVE  LoopInv'
<1> DEFINE M == MAX_LINE_BYTES
           m == Consumed + 1
           k == Loop!Taken(MAX_LINE_BYTES + 1)
<1>1. /\ loopPc = "read" /\ in # <<>> /\ buf' = k /\ in' = Loop!Behind(k)
      /\ UNCHANGED <<sent, eof>>
      /\ k > M => loopPc' = "drain" /\ long' = Head(in).line /\ UNCHANGED replies
      /\ ~(k > M) => Loop!Message /\ UNCHANGED long
  BY DEF Loop!Read, Loop!OverLong
<1>2. /\ Len(sent) \in Nat /\ Head(in) \in Piece /\ Head(in).line = m /\ m \in 1 .. Len(sent)
      /\ Head(in).nl = 0 => eof /\ Len(in) = 1
      /\ Head(in).whole /\ Head(in).size = sent[m].size
      /\ Loop!Bytes(Head(in)) \in Nat
      /\ Loop!Bytes(Head(in)) = Head(in).size + Head(in).nl
  BY <1>1, NextPiece DEF LoopInv
<1>3. /\ M \in Nat \ {0} /\ k \in Nat /\ k <= Loop!Bytes(Head(in)) /\ k <= M + 1
      /\ k = Loop!Bytes(Head(in)) \/ k = M + 1
  BY <1>2 DEF Loop!LoopAssumption, Loop!Taken
<1>4. /\ sent \in Seq(Line) /\ sent[m].size \in Lengths /\ sent[m].size \in Nat
      /\ sent[m].kind \in Kinds /\ m \in 1 .. MaxLines
  <2>1. sent \in Seq(Line)
    BY DEF LoopInv, Loop!TypeOK, Line
  <2>2. sent[m] \in Line
    BY <1>2, <2>1
  <2>3. Head(in).line \in 1 .. MaxLines
    BY <1>2 DEF Piece
  <2> QED BY <1>2, <2>1, <2>2, <2>3 DEF Line, Loop!LoopAssumption
<1>5. Head(in).size \in Nat /\ Head(in).nl \in {0, 1}
  BY <1>2 DEF Piece
<1>6. /\ Consumed \in Nat
      /\ ~Loop!BehindShutdown(m)
      /\ Loop!OneReplyPerLine /\ Loop!RefusedForLength
      /\ \A i \in 1 .. Len(replies) : replies[i].line <= Consumed
      /\ \A j \in Loop!Owed : j <= Consumed => \E i \in 1 .. Len(replies) : replies[i].line = j
  <2>1. Len(in) \in Nat /\ Len(in) <= Len(sent)
    BY DEF LoopInv, LinesInOrder, Loop!TypeOK
  <2>2. Consumed \in Nat
    BY <1>2, <2>1 DEF Consumed
  <2> QED BY <1>1, <2>2 DEF LoopInv, NoShutdown, Answered
<1>7. Loop!Owed' = Loop!Owed /\ \A j : Loop!BehindShutdown(j)' <=> Loop!BehindShutdown(j)
  BY <1>1 DEF Loop!Owed, Loop!BehindShutdown
<1>8. CASE k > M
  <2>1. k = M + 1 /\ Head(in).size > M
    <3>1. Head(in).size # M
      BY <1>2, <1>4
    <3> QED BY <1>2, <1>3, <1>5, <1>8, <3>1
  <2>2. /\ loopPc' = "drain" /\ long' = m /\ replies' = replies
    BY <1>1, <1>2, <1>8
  <2>3. /\ LinesInOrder' /\ in' \in Seq(Piece)
        /\ k = Loop!Bytes(Head(in)) =>
             Consumed' = Consumed + 1 /\ (Head(in).nl = 0 => in' = <<>> /\ eof)
        /\ k # Loop!Bytes(Head(in)) => Consumed' = Consumed /\ in' # <<>>
    BY <1>1, <1>3, <2>2, QueueMoves DEF LoopInv
  <2>4. k = Loop!Bytes(Head(in)) => Head(in).nl = 0
    BY <1>2, <1>5, <2>1, <1>3
  <2>5. Loop!TypeOK'
    BY <1>1, <1>2, <1>3, <1>4, <2>1, <2>2, <2>3 DEF LoopInv, Loop!TypeOK, Piece
  <2>6. Draining'
    <3>1. in' = <<>> => Len(in') = 0
      OBVIOUS
    <3>2. in' = <<>> => m = Len(sent)
      BY <1>1, <1>2, <2>3, <3>1 DEF Consumed
    <3> QED BY <1>1, <1>2, <2>1, <2>2, <2>3, <2>4, <3>2 DEF Draining
  <2>7. NoShutdown'
    <3>1. CASE k = Loop!Bytes(Head(in))
      <4>1. Consumed' + 1 = m + 1
        BY <1>6, <2>3, <3>1
      <4>2. \A j \in 1 .. (m + 1) - 1 : j \in 1 .. m - 1 \/ j = m
        BY <1>6
      <4> QED BY <1>2, <1>4, <1>6, <1>7, <2>1, <4>1, <4>2, <1>1
              DEF NoShutdown, Loop!BehindShutdown, Loop!LoopAssumption
    <3>2. CASE k # Loop!Bytes(Head(in))
      BY <1>6, <1>7, <2>3, <3>2 DEF NoShutdown
    <3> QED BY <3>1, <3>2
  <2>8. Answered'
    <3>1. Loop!OneReplyPerLine' /\ Loop!RefusedForLength'
      BY <1>1, <1>6, <1>7, <2>2 DEF Loop!OneReplyPerLine, Loop!RefusedForLength
    <3>2. Consumed' \in {Consumed, Consumed + 1}
      BY <2>3
    <3>3. \A i \in 1 .. Len(replies) : replies[i].line \in Int
      BY ReplyLines DEF LoopInv
    <3>4. \A i \in 1 .. Len(replies) : replies[i].line <= Consumed' /\ replies[i].line < m
      BY <1>6, <3>2, <3>3
    <3>5. \A j \in Loop!Owed : j <= Consumed' /\ j # m => j <= Consumed
      <4>1. \A j \in Loop!Owed : j \in Int
        BY DEF Loop!Owed
      <4> QED BY <1>6, <3>2, <4>1
    <3> QED BY <1>6, <1>7, <2>2, <3>1, <3>4, <3>5 DEF Answered
  <2> QED BY <2>3, <2>5, <2>6, <2>7, <2>8 DEF LoopInv
<1>9. CASE ~(k > M)
  <2>1. k = Loop!Bytes(Head(in)) /\ Head(in).size <= M /\ k \in 0 .. M + 1
    BY <1>2, <1>3, <1>5, <1>9
  <2>2. /\ LinesInOrder' /\ in' \in Seq(Piece) /\ Consumed' = m
    BY <1>1, <1>3, <2>1, QueueMoves DEF LoopInv
  <2> DEFINE kind == sent[m].kind
  <2>3. /\ long' = long /\ buf' = Loop!Bytes(Head(in))
        /\ kind = "blank" => UNCHANGED <<loopPc, replies>>
        /\ kind = "shutdown" => loopPc' = "stopped" /\ UNCHANGED replies
        /\ kind \notin {"blank", "shutdown"} => Loop!ProcessTask(m, kind)
    BY <1>1, <1>2, <1>9, <2>1 DEF Loop!Message
  <2>4. sent[m].size <= M /\ ~(sent[m].size > M)
    BY <1>2, <1>4, <2>1, <1>3
  <2>5. m \in Loop!Owed <=> kind \notin {"blank", "shutdown"}
    BY <1>2, <1>6, <2>4 DEF Loop!Owed
  <2> HIDE DEF kind
  <2>6. CASE kind \notin {"blank", "shutdown"}
    <3>1. /\ loopPc' = "read"
          /\ \E c \in Loop!Codes : replies' = Append(replies, [line |-> m, code |-> c])
      <4>1. kind \in {"undecodable", "refused", "solved", "nonfinite", "panics"}
        BY <1>4, <2>6 DEF Loop!LoopAssumption, kind
      <4> QED BY <2>3, <2>6, <4>1 DEF Loop!ProcessTask, Loop!Codes
    <3>2. PICK c \in Loop!Codes : replies' = Append(replies, [line |-> m, code |-> c])
      BY <3>1
    <3>3. \A i \in 1 .. Len(replies) : replies[i].line < m
      <4>1. \A i \in 1 .. Len(replies) : replies[i].line \in Int
        BY ReplyLines DEF LoopInv
      <4> QED BY <1>6, <4>1
    <3>4. /\ Loop!OneReplyPerLine' /\ Loop!RefusedForLength'
          /\ \A i \in 1 .. Len(replies') : replies'[i].line <= m
          /\ \A j \in Loop!Owed : (\E i \in 1 .. Len(replies) : replies[i].line = j) \/ j = m
                                 => \E i \in 1 .. Len(replies') : replies'[i].line = j
      <4> HIDE DEF m, k
      <4> QED BY <1>1, <1>4, <2>4, <2>5, <2>6, <3>2, <3>3, AnsweredUpTo
    <3>5. replies' \in Seq(Reply)
      BY <1>4, <3>2, OneMoreReply DEF LoopInv
    <3>6. Loop!TypeOK'
      BY <1>1, <2>1, <2>2, <2>3, <3>1, <3>5 DEF LoopInv, Loop!TypeOK, Piece, Reply
    <3>7. NoShutdown'
      <4>1. \A j \in 1 .. (m + 1) - 1 : j \in 1 .. m - 1 \/ j = m
        BY <1>6
      <4> QED BY <1>1, <1>6, <2>2, <2>6, <4>1 DEF NoShutdown, Loop!BehindShutdown, kind
    <3>8. Answered'
      <4>1. \A j \in Loop!Owed : j <= m => j <= Consumed \/ j = m
        <5>1. \A j \in Loop!Owed : j \in Int
          BY DEF Loop!Owed
        <5> QED BY <1>6, <5>1
      <4> QED BY <1>6, <1>7, <2>2, <3>1, <3>4, <4>1 DEF Answered
    <3> QED BY <2>2, <3>1, <3>6, <3>7, <3>8 DEF LoopInv, Draining
  <2>7. CASE kind \in {"blank", "shutdown"}
    <3>1. /\ replies' = replies /\ m \notin Loop!Owed
          /\ loopPc' = IF kind = "blank" THEN "read" ELSE "stopped"
      BY <1>1, <2>3, <2>5, <2>7
    <3>2. Loop!TypeOK'
      BY <1>1, <2>1, <2>2, <2>3, <3>1 DEF LoopInv, Loop!TypeOK, Piece
    <3>3. NoShutdown'
      <4>1. \A j \in 1 .. (m + 1) - 1 : j \in 1 .. m - 1 \/ j = m
        BY <1>6
      <4> QED BY <1>1, <1>6, <2>2, <2>7, <3>1, <4>1 DEF NoShutdown, Loop!BehindShutdown, kind
    <3>4. Answered'
      <4>1. \A j \in Loop!Owed : j <= m => j <= Consumed
        <5>1. \A j \in Loop!Owed : j \in Int
          BY DEF Loop!Owed
        <5> QED BY <1>6, <3>1, <5>1
      <4>2. \A i \in 1 .. Len(replies) : replies[i].line <= m
        <5>1. \A i \in 1 .. Len(replies) : replies[i].line \in Int
          BY ReplyLines DEF LoopInv
        <5> QED BY <1>6, <5>1
      <4>3. Loop!OneReplyPerLine' /\ Loop!RefusedForLength'
        BY <1>1, <1>6, <1>7, <3>1 DEF Loop!OneReplyPerLine, Loop!RefusedForLength
      <4> QED BY <1>6, <1>7, <2>2, <3>1, <4>1, <4>2, <4>3 DEF Answered
    <3> QED BY <2>2, <3>1, <3>2, <3>3, <3>4 DEF LoopInv, Draining
  <2> QED BY <2>6, <2>7
<1> QED BY <1>8, <1>9
\* The refusal answers the long line, once the last of it is read.
LEMMA RefuseStep ==
    ASSUME Loop!LoopAssumption, LoopInv, loopPc = "drain", Loop!Refuse, UNCHANGED <<sent, eof>>,
           in' \in Seq(Piece), LinesInOrder', Consumed' = long, buf' \in 0 .. MAX_LINE_BYTES + 1
    PROVE  LoopInv'
<1>1. /\ loopPc' = "read" /\ long' = 0
      /\ replies' = Append(replies, [line |-> long, code |-> "resource_exhausted"])
  BY DEF Loop!Refuse
<1>2. /\ long \in 1 .. Len(sent) /\ sent[long].size > MAX_LINE_BYTES
      /\ long = IF in = <<>> THEN Len(sent) ELSE Consumed + 1
  BY DEF LoopInv, Draining
<1>3. /\ Len(sent) \in Nat /\ Consumed \in Nat /\ long \in {Consumed, Consumed + 1}
  <2>1. Len(sent) \in Nat /\ Len(in) \in Nat /\ Len(in) <= Len(sent)
    BY DEF LoopInv, LinesInOrder, Loop!TypeOK
  <2>2. in = <<>> => Len(in) = 0
    OBVIOUS
  <2> QED BY <1>2, <2>1, <2>2 DEF Consumed
<1>4. long \in 1 .. MaxLines
  BY <1>2 DEF LoopInv, Loop!TypeOK
<1>5. ~Loop!BehindShutdown(long) /\ ~Loop!BehindShutdown(long + 1)
  <2>1. \A j \in 1 .. (Consumed + 1) - 1 : ~(sent[j].kind = "shutdown" /\ sent[j].size <= MAX_LINE_BYTES)
    BY DEF LoopInv, NoShutdown, Loop!BehindShutdown
  <2>2. ~(sent[long].size <= MAX_LINE_BYTES)
    <3>1. sent[long].size \in Nat
      BY <1>2, LineSize DEF LoopInv
    <3> QED BY <1>2, <3>1 DEF Loop!LoopAssumption
  <2>3. \A j \in 1 .. (long + 1) - 1 : j \in 1 .. (Consumed + 1) - 1 \/ j = long
    BY <1>3
  <2>4. \A j \in 1 .. long - 1 : j \in 1 .. (long + 1) - 1
    BY <1>2
  <2> QED BY <2>1, <2>2, <2>3, <2>4 DEF Loop!BehindShutdown
<1>6. long \in Loop!Owed
  BY <1>2, <1>5 DEF Loop!Owed
<1>7. /\ \A i \in 1 .. Len(replies) : replies[i].line < long
      /\ \A j \in Loop!Owed : j <= Consumed /\ j # long
                             => \E i \in 1 .. Len(replies) : replies[i].line = j
  BY DEF LoopInv, Answered
<1>8. /\ Loop!OneReplyPerLine' /\ Loop!RefusedForLength'
      /\ \A i \in 1 .. Len(replies') : replies'[i].line <= long
      /\ \A j \in Loop!Owed : (\E i \in 1 .. Len(replies) : replies[i].line = j) \/ j = long
                             => \E i \in 1 .. Len(replies') : replies'[i].line = j
  BY <1>1, <1>4, <1>6, <1>7, AnsweredUpTo DEF Loop!Codes
<1>9. replies' \in Seq(Reply)
  BY <1>1, <1>4, OneMoreReply DEF LoopInv, Loop!Codes
<1>10. Loop!TypeOK'
  BY <1>1, <1>9 DEF LoopInv, Loop!TypeOK, Loop!LoopAssumption, Piece, Reply
<1>11. NoShutdown'
  BY <1>5 DEF NoShutdown, Loop!BehindShutdown
<1>12. Answered'
  <2>1. Loop!Owed' = Loop!Owed /\ \A j \in Loop!Owed : j \in Int
    BY DEF Loop!Owed, Loop!BehindShutdown
  <2>2. \A j \in Loop!Owed : j <= long => j = long \/ (j <= Consumed /\ j # long)
    BY <1>3, <2>1
  <2> QED BY <1>1, <1>7, <1>8, <2>1, <2>2 DEF Answered
<1> QED BY <1>1, <1>10, <1>11, <1>12 DEF LoopInv, Draining

\* The loop drains a chunk of a long line.
LEMMA DrainStep == ASSUME Loop!LoopAssumption, LoopInv, Loop!Drain PROVE LoopInv'
<1> DEFINE M == MAX_LINE_BYTES
           k == Loop!Taken(MAX_LINE_BYTES)
<1>1. /\ loopPc = "drain" /\ in # <<>> /\ buf' = k /\ in' = Loop!Behind(k)
      /\ UNCHANGED <<sent, eof>>
      /\ Loop!ChunkEndsLine(k) => Loop!Refuse
      /\ ~Loop!ChunkEndsLine(k) => UNCHANGED <<loopPc, long, replies>>
  BY DEF Loop!Drain
<1>2. /\ Len(sent) \in Nat /\ Head(in) \in Piece
      /\ Head(in).nl = 0 => eof /\ Len(in) = 1
      /\ Loop!Bytes(Head(in)) \in Nat
      /\ Consumed + 1 \in 1 .. Len(sent)
  BY <1>1, NextPiece DEF LoopInv
<1>3. /\ M \in Nat \ {0} /\ k \in Nat /\ k <= Loop!Bytes(Head(in)) /\ k <= M
      /\ k = Loop!Bytes(Head(in)) \/ k = M
      /\ k \in 0 .. M + 1
  BY <1>2 DEF Loop!LoopAssumption, Loop!Taken
<1>4. long = Consumed + 1
  BY <1>1 DEF LoopInv, Draining
<1>5. CASE Loop!ChunkEndsLine(k)
  <2>1. k = Loop!Bytes(Head(in))
    BY <1>3, <1>5 DEF Loop!ChunkEndsLine
  <2>2. LinesInOrder' /\ in' \in Seq(Piece) /\ Consumed' = long
    BY <1>1, <1>3, <1>4, <2>1, QueueMoves DEF LoopInv
  <2>3. buf' \in 0 .. M + 1
    BY <1>1, <1>3
  <2> QED BY <1>1, <1>5, <2>2, <2>3, RefuseStep
<1>6. CASE ~Loop!ChunkEndsLine(k)
  <2>1. UNCHANGED <<loopPc, long, replies>>
    BY <1>1, <1>6
  <2>2. k = Loop!Bytes(Head(in)) => Head(in).nl = 0
    BY <1>2, <1>6 DEF Loop!ChunkEndsLine, Piece
  <2>3. /\ LinesInOrder' /\ in' \in Seq(Piece)
        /\ k = Loop!Bytes(Head(in)) => Consumed' = Consumed + 1 /\ in' = <<>> /\ eof
        /\ k # Loop!Bytes(Head(in)) => Consumed' = Consumed /\ in' # <<>>
    BY <1>1, <1>3, <2>1, <2>2, QueueMoves DEF LoopInv
  <2>4. Loop!TypeOK'
    <3>1. buf' \in 0 .. M + 1
      BY <1>1, <1>3
    <3> QED BY <1>1, <2>1, <2>3, <3>1 DEF LoopInv, Loop!TypeOK, Piece
  <2>5. Draining'
    <3>1. in' = <<>> => Len(in') = 0
      OBVIOUS
    <3>2. in' = <<>> => long = Len(sent)
      BY <1>1, <1>2, <1>4, <2>3, <3>1 DEF Consumed
    <3> QED BY <1>1, <1>4, <2>1, <2>3, <3>2 DEF LoopInv, Draining
  <2>6. Consumed \in Nat /\ Consumed' \in {Consumed, Consumed + 1}
    <3>1. Len(in) \in Nat /\ Len(in) <= Len(sent)
      BY DEF LoopInv, LinesInOrder, Loop!TypeOK
    <3> QED BY <1>2, <2>3, <3>1 DEF Consumed
  <2>7. NoShutdown'
    <3>1. \A j \in 1 .. (Consumed + 1) - 1 : ~(sent[j].kind = "shutdown" /\ sent[j].size <= M)
      BY <1>1 DEF LoopInv, NoShutdown, Loop!BehindShutdown
    <3>2. ~(sent[long].size <= M)
      <4>1. long \in 1 .. Len(sent) /\ sent[long].size > M
        BY <1>1 DEF LoopInv, Draining
      <4>2. sent[long].size \in Nat
        BY <4>1, LineSize DEF LoopInv
      <4> QED BY <1>3, <4>1, <4>2
    <3>3. ASSUME NEW j \in 1 .. (Consumed' + 1) - 1
          PROVE  j \in 1 .. (Consumed + 1) - 1 \/ j = long
      <4>1. CASE Consumed' = Consumed
        BY <2>6, <4>1
      <4>2. CASE Consumed' = Consumed + 1
        BY <1>4, <2>6, <4>2
      <4> QED BY <2>6, <4>1, <4>2
    <3> QED BY <1>1, <3>1, <3>2, <3>3 DEF NoShutdown, Loop!BehindShutdown
  <2>8. Answered'
    <3>1. Loop!Owed' = Loop!Owed /\ \A j \in Loop!Owed : j \in Int
      BY <1>1 DEF Loop!Owed, Loop!BehindShutdown
    <3>2. \A j \in Loop!Owed : j <= Consumed' /\ j # long => j <= Consumed
      BY <1>4, <2>6, <3>1
    <3>3. /\ \A i \in 1 .. Len(replies) : replies[i].line <= Consumed /\ replies[i].line < long
          /\ \A j \in Loop!Owed : j <= Consumed /\ j # long
                                 => \E i \in 1 .. Len(replies) : replies[i].line = j
          /\ Loop!OneReplyPerLine /\ Loop!RefusedForLength
      BY <1>1 DEF LoopInv, Answered
    <3>4. \A i \in 1 .. Len(replies) : replies[i].line <= Consumed'
      <4>1. \A i \in 1 .. Len(replies) : replies[i].line \in Int
        BY ReplyLines DEF LoopInv
      <4> QED BY <2>6, <3>3, <4>1
    <3>5. Loop!OneReplyPerLine' /\ Loop!RefusedForLength'
      BY <1>1, <2>1, <3>1, <3>3 DEF Loop!OneReplyPerLine, Loop!RefusedForLength
    <3> QED BY <1>1, <2>1, <3>1, <3>2, <3>3, <3>4, <3>5 DEF Answered
  <2> QED BY <2>3, <2>4, <2>5, <2>7, <2>8 DEF LoopInv
<1> QED BY <1>5, <1>6

\* Nothing is left to read: the loop stops, or refuses the long line that ended at EOF.
LEMMA EofStep ==
    ASSUME Loop!LoopAssumption, LoopInv, Loop!ReadEof \/ Loop!DrainEof PROVE LoopInv'
<1>1. CASE Loop!ReadEof
  <2>1. /\ loopPc' = "stopped" /\ loopPc = "read" /\ buf' = 0
        /\ UNCHANGED <<sent, in, eof, long, replies>>
    BY <1>1 DEF Loop!ReadEof
  <2>2. Loop!TypeOK'
    BY <2>1 DEF LoopInv, Loop!TypeOK, Loop!LoopAssumption
  <2>3. LinesInOrder' /\ Draining' /\ NoShutdown'
    BY <2>1 DEF LoopInv, LinesInOrder, Draining, NoShutdown, Consumed
  <2>4. Answered'
    BY <2>1 DEF LoopInv, Answered, Consumed, Loop!OneReplyPerLine, Loop!RefusedForLength,
       Loop!Owed, Loop!BehindShutdown
  <2> QED BY <2>2, <2>3, <2>4 DEF LoopInv
<1>2. CASE Loop!DrainEof
  <2>1. /\ loopPc = "drain" /\ in = <<>> /\ buf' = 0 /\ Loop!Refuse /\ loopPc' = "read"
        /\ UNCHANGED <<sent, in, eof>>
    BY <1>2 DEF Loop!DrainEof, Loop!Refuse
  <2>2. in' \in Seq(Piece) /\ buf' \in 0 .. MAX_LINE_BYTES + 1
    BY <2>1 DEF LoopInv, Loop!TypeOK, Piece, Loop!LoopAssumption
  <2>3. Consumed' = long
    <3>1. Len(in') = 0 /\ long = Len(sent) /\ Len(sent) \in Nat
      BY <2>1 DEF LoopInv, Draining, Loop!TypeOK
    <3> QED BY <2>1, <3>1 DEF Consumed
  <2>4. LinesInOrder'
    <3>1. Len(in') = 0 /\ Len(sent') \in Nat
      BY <2>1 DEF LoopInv, Loop!TypeOK
    <3> QED BY <3>1 DEF LinesInOrder
  <2> QED BY <2>1, <2>2, <2>3, <2>4, RefuseStep
<1> QED BY <1>1, <1>2
-----------------------------------------------------------------------------
\* Answers come in the order of their lines, one to a line that is owed one; a line over
\* the maximum gets the refusal and nothing else; and between two reads the worker owes
\* nothing for what it has read: if no line is of exactly the maximum.
LEMMA LoopAnswers ==
    ASSUME MAX_LINE_BYTES \notin Lengths
    PROVE  Loop!Spec => [](Loop!TypeOK /\ Loop!OneReplyPerLine /\ Loop!RefusedForLength
                            /\ Loop!NothingSwallowed)
<1>1. Loop!Init => LoopInv
  <2> SUFFICES ASSUME Loop!Init PROVE LoopInv
    OBVIOUS
  <2>1. /\ sent = <<>> /\ in = <<>> /\ eof = FALSE /\ loopPc = "read" /\ buf = 0 /\ long = 0
        /\ replies = <<>>
    BY DEF Loop!Init
  <2>2. Len(sent) = 0 /\ Len(in) = 0 /\ Len(replies) = 0 /\ Consumed = 0
    BY <2>1 DEF Consumed
  <2>3. Loop!TypeOK
    <3>1. <<>> \in Seq(Line) /\ <<>> \in Seq(Piece) /\ <<>> \in Seq(Reply)
      OBVIOUS
    <3>2. 0 \in 0 .. MAX_LINE_BYTES + 1 /\ 0 \in 0 .. MaxLines
      BY WorkersAssumption DEF Loop!LoopAssumption
    <3> QED BY <2>1, <3>1, <3>2 DEF Loop!TypeOK, Line, Piece, Reply
  <2>4. LinesInOrder /\ Draining /\ NoShutdown
    BY <2>1, <2>2 DEF LinesInOrder, Draining, NoShutdown, Loop!BehindShutdown
  <2>5. Answered
    BY <2>2 DEF Answered, Loop!OneReplyPerLine, Loop!RefusedForLength, Loop!Owed
  <2> QED BY <2>3, <2>4, <2>5 DEF LoopInv
<1>2. LoopInv /\ [Loop!Next]_(Loop!vars) => LoopInv'
  <2> SUFFICES ASSUME LoopInv, [Loop!Next]_(Loop!vars) PROVE LoopInv'
    OBVIOUS
  <2>1. ASSUME NEW size \in Lengths, NEW kind \in Kinds, Loop!Write(size, kind)
        PROVE  LoopInv'
    <3>1. Loop!Written(size, kind, 1) /\ eof' = eof
      BY <2>1 DEF Loop!Write
    <3>2. eof' \in BOOLEAN
      BY <3>1 DEF LoopInv, Loop!TypeOK
    <3> QED BY <3>1, <3>2, WrittenStep, WorkersAssumption
  <2>2. ASSUME NEW size \in Lengths, NEW kind \in Kinds, Loop!WriteCutShort(size, kind)
        PROVE  LoopInv'
    BY <2>2, WrittenStep, WorkersAssumption DEF Loop!WriteCutShort
  <2>3. CASE UNCHANGED Loop!vars
    <3>1. UNCHANGED <<sent, in, eof, loopPc, buf, long, replies>>
      BY <2>3 DEF Loop!vars
    <3>2. Loop!TypeOK' /\ LinesInOrder' /\ Draining' /\ NoShutdown'
      BY <3>1 DEF LoopInv, Loop!TypeOK, LinesInOrder, Draining, NoShutdown, Consumed,
         Loop!BehindShutdown
    <3>3. Answered'
      BY <3>1 DEF LoopInv, Answered, Consumed, Loop!OneReplyPerLine, Loop!RefusedForLength,
         Loop!Owed, Loop!BehindShutdown
    <3> QED BY <3>2, <3>3 DEF LoopInv
  <2> QED BY <2>1, <2>2, <2>3, CloseStep, ReadStep, DrainStep, EofStep, WorkersAssumption
          DEF Loop!Next, Loop!Worker, Loop!Controller
<1>3. LoopInv => /\ Loop!TypeOK /\ Loop!OneReplyPerLine /\ Loop!RefusedForLength
                 /\ Loop!NothingSwallowed
  <2> SUFFICES ASSUME LoopInv PROVE Loop!NothingSwallowed
    BY DEF LoopInv, Answered
  <2> SUFFICES ASSUME loopPc = "read", NEW j \in Loop!Owed
               PROVE  \/ \E i \in 1 .. Len(replies) : replies[i].line = j
                      \/ \E i \in 1 .. Len(in) : in[i].line = j
    BY DEF Loop!NothingSwallowed
  <2>1. j \in 1 .. Len(sent) /\ Len(sent) \in Nat /\ Len(in) \in Nat
    BY DEF Loop!Owed, LoopInv, Loop!TypeOK
  <2>2. CASE j <= Consumed
    BY <2>2 DEF LoopInv, Answered
  <2>3. CASE ~(j <= Consumed)
    <3>1. j - Consumed \in 1 .. Len(in) /\ Consumed + (j - Consumed) = j
      BY <2>1, <2>3 DEF Consumed
    <3> QED BY <3>1 DEF LoopInv, LinesInOrder
  <2> QED BY <2>2, <2>3
<1> QED BY <1>1, <1>2, <1>3, PTL DEF Loop!Spec
-----------------------------------------------------------------------------
\* What either end does is what it may do alone.
LEMMA EndsAsAlone == WorkersSpec => Handle!Spec /\ Loop!Spec
<1>1. WorkersInit => Handle!Init /\ Loop!Init
  BY DEF WorkersInit
<1>2. [WorkersNext]_allVars => [Handle!Next]_(Handle!vars) /\ [Loop!Next]_(Loop!vars)
  BY DEF WorkersNext, PoolStep, HandleStep, LoopStep, allVars, handleVars, loopVars,
     Handle!vars, Loop!vars
<1> QED BY <1>1, <1>2, PTL DEF WorkersSpec, Handle!Spec, Loop!Spec

\* A line taken for a task's answer is its answer, whatever died, was mended or came late;
\* and what a local handle's answer says of the worker process lost with the task is so,
\* unless the write of the task's line timed out: then, as over ssh, one may be lost that
\* the answer does not say, and over ssh two.
THEOREM HandlesAnswerHonestly == WorkersSpec => []AnswerContract
<1>1. Handle!ResultIsForItsTask /\ Handle!QuietBetweenDispatches /\ Handle!AnswerContract
        /\ Handle!OneDeadlinePerDispatch /\ Handle!RetiredLeavesNoChild => AnswerContract
  BY DEF AnswerContract
<1> QED BY <1>1, EndsAsAlone, Handle!HandleKeepsContract, WorkersAssumption, PTL

\* Each line that is owed an answer gets one, in order, and nothing read is forgotten:
\* if no line is of exactly the maximum, which the loop mistakes for a longer one.
THEOREM LoopRepliesOnce ==
    ASSUME MAX_LINE_BYTES \notin Lengths PROVE WorkersSpec => []OneReplyPerLine
<1>1. Loop!OneReplyPerLine /\ Loop!RefusedForLength /\ Loop!NothingSwallowed => OneReplyPerLine
  BY DEF OneReplyPerLine
<1> QED BY <1>1, EndsAsAlone, LoopAnswers, PTL

\* Nor does either end of a pipe change what is proved of the pool: a task has one holder, no
\* worker is lost or there twice, a task is given up with no worker left only, and every
\* call returns complete.
THEOREM PoolAsAlone ==
    WorkersSpec => [](TypeOK /\ OneHolderPerTask /\ NoWorkerLostOrDuplicated
                       /\ GivenUpOnlyWithNoWorkerLeft /\ ReturnedComplete)
<1>1. WorkersInit => Init
  BY DEF WorkersInit
<1>2. [WorkersNext]_allVars => [Next]_vars
  BY DEF WorkersNext, PoolStep, HandleStep, LoopStep, allVars
<1>3. WorkersSpec => Spec
  BY <1>1, <1>2, PTL DEF WorkersSpec, Spec
<1> QED BY <1>3, TypeCorrect, HoldersExclusive, WorkersConserved, GivenUpOnEmptyPool,
           CompleteOnReturn, PTL

\* Every variable of the pool and of both ends of the pipe keeps its type.
THEOREM WorkersTypeCorrect ==
    ASSUME MAX_LINE_BYTES \notin Lengths PROVE WorkersSpec => []WorkersTypeOK
<1>1. TypeOK /\ Handle!TypeOK /\ Loop!TypeOK => WorkersTypeOK
  BY DEF WorkersTypeOK
<1> QED BY <1>1, PoolAsAlone, EndsAsAlone, LoopAnswers, Handle!HandleKeepsContract,
           WorkersAssumption, PTL
=============================================================================
