----------------------------- MODULE GpuDevice -----------------------------
(***************************************************************************)
(* The one GPU device a process shares (nec_accel, wgpu_device.rs): the    *)
(* cache that builds it, remembers a failure until its backoff has passed, *)
(* and discards the device when a dispatch on it fails.  Whoever wants the *)
(* device asks the cache, then waits for its dispatch; a failure of either *)
(* sends that solve to the CPU.                                            *)
(*                                                                         *)
(* The driver may fail, and heal, at any time.  Time passes in Tick, by    *)
(* the second, and a request of the driver takes none (a build costs about *)
(* 0.35 s); an age counts no further than the longest backoff, a count of  *)
(* failures no further than the backoff grows (MaxFailures).               *)
(***************************************************************************)
EXTENDS Integers, FiniteSetsExt

CONSTANTS Users,             \* the threads that solve on the device
          MAX_BACKOFF,       \* seconds: 60 in the code
          GPU_WAIT_TIMEOUT,  \* seconds: 120 in the code
          MaxFailures, None

Doubled[n \in Nat] == IF n = 0 THEN 1 ELSE 2 * Doubled[n - 1]
backoff(failures) == Min({Doubled[Max({failures - 1, 0})], MAX_BACKOFF})

DeviceAssumption == /\ MAX_BACKOFF \in Nat \ {0} /\ GPU_WAIT_TIMEOUT \in Nat \ {0}
                    /\ MaxFailures \in Nat \ {0} /\ backoff(MaxFailures) = MAX_BACKOFF
                    /\ None \notin {"shared", "old", "lost"}

VARIABLES cache,     \* GPU_CACHE: untried, ready or failed
          building,  \* who asks the driver, holding GPU_CACHE
          held,      \* what a thread waits on: None, the "shared" device, or one the cache
                     \* has forgotten, which works ("old") or does not ("lost")
          waited,    \* seconds it has waited
          driver,    \* whether the driver is well
          dead,      \* whether the shared device is lost or hung
          standing,  \* history: devices built and blamed by nobody
          missed,    \* history: failures in a row, counted anew at a hang
          dying      \* history: failures in a row

vars == <<cache, building, held, waited, driver, dead, standing, missed, dying>>

retry_due(failures, age) == age >= backoff(failures)
One(n) == Min({n + 1, MaxFailures})
Older(age) == Min({age + 1, MAX_BACKOFF + 1})

\* A device that stood for longer than the longest backoff starts the count again.
failures_after_loss(failures, age) == IF age > MAX_BACKOFF THEN 1 ELSE One(failures)

Cached(st, failures, age) == [st |-> st, failures |-> failures, age |-> age]

InitWith(Drivers) ==
    /\ cache = Cached("untried", 0, 0)
    /\ building = {}
    /\ held = [u \in Users |-> None] /\ waited = [u \in Users |-> 0]
    /\ driver \in Drivers /\ dead = FALSE
    /\ standing = 0 /\ missed = 0 /\ dying = 0

Init == InitWith(BOOLEAN)

\* Whoever waits on the device the cache forgets waits on.
Orphaned == [u \in Users |-> IF held[u] # "shared" THEN held[u]
                             ELSE IF dead THEN "lost" ELSE "old"]

Idle(u) == held[u] = None /\ u \notin building

LockFree == building = {}
-----------------------------------------------------------------------------
(* shared_gpu_context: decided and built under one guard.                   *)

AskReady(u) == /\ Idle(u) /\ LockFree /\ cache.st = "ready"
               /\ held' = [held EXCEPT ![u] = "shared"]
               /\ waited' = [waited EXCEPT ![u] = 0]
               /\ UNCHANGED <<cache, building, driver, dead, standing, missed, dying>>

\* Within its backoff a failure is returned without asking the driver.
AskFailed(u) == /\ Idle(u) /\ LockFree /\ cache.st = "failed"
                /\ ~retry_due(cache.failures, cache.age)
                /\ UNCHANGED vars

AskBuilds(u) == /\ Idle(u) /\ LockFree
                /\ \/ cache.st = "untried"
                   \/ cache.st = "failed" /\ retry_due(cache.failures, cache.age)
                /\ building' = building \cup {u}
                /\ UNCHANGED <<cache, held, waited, driver, dead, standing, missed, dying>>

\* The failures before the build are carried.
Built(u) == /\ u \in building /\ driver
            /\ cache' = Cached("ready", cache.failures, 0)
            /\ building' = building \ {u}
            /\ held' = [Orphaned EXCEPT ![u] = "shared"]
            /\ dead' = FALSE /\ standing' = standing + 1
            /\ UNCHANGED <<waited, driver, missed, dying>>

BuildFails(u) == /\ u \in building /\ ~driver
                 /\ cache' = Cached("failed", One(cache.failures), 0)
                 /\ building' = building \ {u}
                 /\ missed' = One(missed) /\ dying' = One(dying)
                 /\ UNCHANGED <<held, waited, driver, dead, standing>>
-----------------------------------------------------------------------------
(* A dispatch, and await_map behind it.                                     *)

\* The device did the work: a result, or one the host refuses or cannot map.
Answered(u) == /\ \/ held[u] = "old"
                  \/ held[u] = "shared" /\ ~dead
               /\ held' = [held EXCEPT ![u] = None]
               /\ waited' = [waited EXCEPT ![u] = 0]
               /\ missed' = 0 /\ dying' = 0
               /\ UNCHANGED <<cache, building, driver, dead, standing>>

\* A mutant: a device lost under a dispatch is forgotten, not counted.
InvalidatedUntried == Cached("untried", 0, 0)

\* invalidate_gpu_context, for whichever device the caller waited on.
Invalidated == CASE cache.st = "ready" ->
                        Cached("failed", failures_after_loss(cache.failures, cache.age), 0)
                 [] cache.st = "failed" -> Cached("failed", One(cache.failures), 0)
                 [] OTHER -> Cached("failed", 1, 0)

Hanging == \E v \in Users : held[v] # None /\ waited[v] > MAX_BACKOFF

\* The wait panicked, a lost device, or ran out, a hung one.
Blame(u) == /\ \/ held[u] = "lost"
               \/ held[u] = "shared" /\ dead
            /\ LockFree
            /\ cache' = Invalidated
            /\ held' = [Orphaned EXCEPT ![u] = None]
            /\ waited' = [waited EXCEPT ![u] = 0]
            /\ standing' = 0 /\ dead' = FALSE
            /\ missed' = IF Hanging THEN 1 ELSE One(missed)
            /\ dying' = One(dying)
            /\ UNCHANGED <<building, driver>>

\* A fault that is a reset takes the devices with it.
DriverFails == /\ driver /\ driver' = FALSE
               /\ \E reset \in BOOLEAN :
                     /\ dead' = (dead \/ (reset /\ standing > 0))
                     /\ held' = [u \in Users |-> IF reset /\ held[u] = "old" THEN "lost"
                                                 ELSE held[u]]
               /\ UNCHANGED <<cache, building, waited, standing, missed, dying>>

DriverHeals == /\ ~driver /\ driver' = TRUE
               /\ UNCHANGED <<cache, building, held, waited, dead, standing, missed, dying>>

\* No dispatch is waited for longer than the timeout (FND-196).
Tick == /\ LockFree
        /\ \A u \in Users : held[u] # None => waited[u] < GPU_WAIT_TIMEOUT
        /\ cache' = [cache EXCEPT !.age = Older(@)]
        /\ waited' = [u \in Users |-> IF held[u] = None THEN 0 ELSE waited[u] + 1]
        /\ UNCHANGED <<building, held, driver, dead, standing, missed, dying>>

Ask(u) == AskReady(u) \/ AskFailed(u) \/ AskBuilds(u)
Step(u) == Ask(u) \/ Built(u) \/ BuildFails(u) \/ Answered(u) \/ Blame(u)
Next == \/ \E u \in Users : Step(u)
        \/ DriverFails \/ DriverHeals \/ Tick

\* A thread that solves goes on solving, the driver returns from each request and the
\* clock goes on.  The driver owes nobody its health.
Fairness == WF_vars(Tick) /\ \A u \in Users : WF_vars(Step(u))
Spec == Init /\ [][Next]_vars /\ Fairness
-----------------------------------------------------------------------------
TypeOK == /\ cache \in [st : {"untried", "ready", "failed"}, failures : 0 .. MaxFailures,
                        age : 0 .. MAX_BACKOFF + 1]
          /\ building \subseteq Users
          /\ held \in [Users -> {None, "shared", "old", "lost"}]
          /\ waited \in [Users -> 0 .. GPU_WAIT_TIMEOUT]
          /\ driver \in BOOLEAN /\ dead \in BOOLEAN
          /\ standing \in Nat /\ missed \in 0 .. MaxFailures /\ dying \in 0 .. MaxFailures

Asks == building' \ building # {}

\* However many threads want the device at once, one is built, and the next only after
\* somebody blamed it; and the driver is asked again no sooner than the failures in a row
\* have earned, hangs apart (FND-186, FND-234).
BacksOff == /\ standing' <= 1
            /\ Asks /\ missed > 0 => retry_due(missed, cache.age)
DeviceBacksOff == [][BacksOff]_vars

\* "A device that dies at every dispatch - each of which can wait out GPU_WAIT_TIMEOUT -
\* is not rebuilt at every point" (wgpu_device.rs:447): it backs off like any other.
HungDeviceBacksOff == [][Asks /\ dying > 0 => retry_due(dying, cache.age)]_vars

\* Once the driver stays well, so does the shared device: no failure is for good.
HealedDeviceServes == <>[]driver => <>[](cache.st = "ready" /\ ~dead)
=============================================================================
