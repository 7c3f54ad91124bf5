---------------------------- MODULE Calibration ----------------------------
(***************************************************************************)
(* Measuring a host's CPU/GPU crossover, by several fnec processes at once *)
(* (apps/nec-cli/src/exec_calibration.rs): `fnec calibrate`, and the offer *)
(* an interactive run without --exec makes before it picks CPU or GPU.     *)
(*                                                                         *)
(* What they share is three files: the calibration, known by the host key  *)
(* it was measured for, the lock <target>.lock, and the marker of a        *)
(* declined offer.  Every call on a file is a step of its own.  A process  *)
(* may be killed at any point, and leaves its lock.                        *)
(*                                                                         *)
(* robbed is a history variable: a lock has been removed while the process *)
(* that made it was still measuring.                                       *)
(***************************************************************************)
EXTENDS Integers

CONSTANTS Procs,
          Asked,        \* the processes that make the offer; the others calibrate
          Host, Other,  \* this host's key, and that of another GPU, driver or CPU
          None,
          Outlasts      \* whether a measurement may take longer than STALE_LOCK

CalibrationAssumption == /\ Asked \subseteq Procs /\ Outlasts \in BOOLEAN
                         /\ Host # Other /\ None \notin {Host, Other} \cup Procs
                         /\ "half" \notin {Host, Other, None}
                         /\ None \notin [owner : Procs \cup {None}, old : BOOLEAN]

VARIABLES cal,      \* the calibration on disk: its key, "half" written, or None
          lock,     \* None, or who made it (None: a process gone before) and its age
          declined, \* the key an offer was declined for, or None
          pc, tries,
          loaded,   \* what loaded() cached, per process
          fresh,    \* the calibration maybe_offer returned, or None
          exec,     \* the mode picked
          robbed

vars == <<cal, lock, declined, pc, tries, loaded, fresh, exec, robbed>>

Keys == {Host, Other}
Steps == {"load", "offer", "ask", "decline", "take", "stat", "remove", "measure",
          "write", "unmark", "drop", "pick", "done", "dead"}

TypeOK == /\ cal \in Keys \cup {None, "half"}
          /\ lock \in [owner : Procs \cup {None}, old : BOOLEAN] \cup {None}
          /\ declined \in Keys \cup {None}
          /\ pc \in [Procs -> Steps]
          /\ tries \in [Procs -> 0 .. 2]
          /\ loaded \in [Procs -> Keys \cup {None}]
          /\ fresh \in [Procs -> {Host, None}]
          /\ exec \in [Procs -> {"cpu", "gpu", None}]
          /\ robbed \in BOOLEAN

InitWith(cals, locks, declines) ==
        /\ cal \in cals /\ lock \in locks /\ declined \in declines
        /\ pc = [p \in Procs |-> IF p \in Asked THEN "load" ELSE "take"]
        /\ tries = [p \in Procs |-> 0]
        /\ loaded = [p \in Procs |-> None]
        /\ fresh = [p \in Procs |-> None]
        /\ exec = [p \in Procs |-> None]
        /\ robbed = FALSE

\* The files as an earlier run left them, a crashed one's lock among them.
Init == InitWith(Keys \cup {None}, {None, [owner |-> None, old |-> TRUE]}, Keys \cup {None})

-----------------------------------------------------------------------------
\* p at step from goes on to step to.
Goes(p, from, to) == pc[p] = from /\ pc' = [pc EXCEPT ![p] = to]

\* A calibration that could not be measured ends `fnec calibrate`, and leaves a run
\* to pick with what it had.
Without(p) == IF p \in Asked THEN "pick" ELSE "done"

\* loaded: the file is read once per process.
Load(p) == /\ Goes(p, "load", "offer")
           /\ loaded' = [loaded EXCEPT ![p] = cal]
           /\ UNCHANGED <<cal, lock, declined, tries, fresh, exec, robbed>>

\* offer: nothing is asked where the calibration is this host's, nor where this
\* host's key was declined.
Offers(p) == declined # Host /\ loaded[p] # Host

Offer(p) == /\ Goes(p, "offer", IF Offers(p) THEN "ask" ELSE "pick")
            /\ UNCHANGED <<cal, lock, declined, tries, loaded, fresh, exec, robbed>>

\* The user's answer, which may be long in coming.
Answer(p) == /\ \E to \in {"take", "decline"} : Goes(p, "ask", to)
             /\ UNCHANGED <<cal, lock, declined, tries, loaded, fresh, exec, robbed>>

\* A "no" is remembered for this host's key.
Decline(p) == /\ Goes(p, "decline", "pick")
              /\ declined' = Host
              /\ UNCHANGED <<cal, lock, tries, loaded, fresh, exec, robbed>>

\* Mutant: the lock file is opened, not created exclusively.
LockOpened == TRUE

\* CalibrationLock::take creates the lock exclusively; where there is one already its
\* age is asked next.
LockFree == lock = None

TakeLock(p) == /\ Goes(p, "take", IF LockFree THEN "measure" ELSE "stat")
               /\ tries' = [tries EXCEPT ![p] = @ + 1]
               /\ lock' = IF LockFree THEN [owner |-> p, old |-> FALSE] ELSE lock
               /\ UNCHANGED <<cal, declined, loaded, fresh, exec, robbed>>

StatLock(p) == /\ Goes(p, "stat", IF lock # None /\ lock.old THEN "remove" ELSE Without(p))
               /\ UNCHANGED <<cal, lock, declined, tries, loaded, fresh, exec, robbed>>

Holding == {p \in Procs : pc[p] \in {"measure", "write", "unmark", "drop"}}

\* remove_file, whichever lock is there by now; two tries in all.
Remove(p) == /\ lock' = None
             /\ robbed' = (robbed \/ (lock # None /\ lock.owner \in Holding \ {p}))

RemoveStale(p) == /\ Goes(p, "remove", IF tries[p] < 2 THEN "take" ELSE Without(p))
                  /\ Remove(p)
                  /\ UNCHANGED <<cal, declined, tries, loaded, fresh, exec>>

\* The measurement: whole runs of this binary, which may fail.
Measure(p) == /\ \E to \in {"write", "drop"} : Goes(p, "measure", to)
              /\ UNCHANGED <<cal, lock, declined, tries, loaded, fresh, exec, robbed>>

\* write_atomically: a temporary file named by the process, then a rename; the write
\* may fail and leave the calibration as it was.
Renamed(p) == cal' = Host /\ Goes(p, "write", "unmark")
WriteFails(p) == cal' = cal /\ Goes(p, "write", "drop")

Write(p) == /\ Renamed(p) \/ WriteFails(p)
            /\ UNCHANGED <<lock, declined, tries, loaded, fresh, exec, robbed>>

\* A successful calibration removes any decline marker.
Unmark(p) == /\ Goes(p, "unmark", "drop")
             /\ declined' = None
             /\ fresh' = [fresh EXCEPT ![p] = Host]
             /\ UNCHANGED <<cal, lock, tries, loaded, exec, robbed>>

\* The lock is removed when measure_and_write returns, with a result or without.
Released(p) == Remove(p)

DropLock(p) == /\ Goes(p, "drop", Without(p))
               /\ Released(p)
               /\ UNCHANGED <<cal, declined, tries, loaded, fresh, exec>>

\* What main hands to the pick: the calibration just measured, else the cached one.
PickFrom(p) == IF fresh[p] # None THEN fresh[p] ELSE loaded[p]

\* auto_select_execution_mode: without a calibration the CPU; past its threshold the
\* device is asked for this host's key, and another's calibration is no evidence.
Pick(p) == /\ Goes(p, "pick", "done")
           /\ \E mode \in {"cpu"} \cup (IF PickFrom(p) = Host THEN {"gpu"} ELSE {}) :
                 exec' = [exec EXCEPT ![p] = mode]
           /\ UNCHANGED <<cal, lock, declined, tries, loaded, fresh, robbed>>

\* The process is killed, and Drop does not run.
Crash(p) == /\ pc[p] \notin {"done", "dead"} /\ Goes(p, pc[p], "dead")
            /\ UNCHANGED <<cal, lock, declined, tries, loaded, fresh, exec, robbed>>

\* Fifteen minutes pass on a lock that is still there.
Ages == /\ lock # None /\ ~lock.old
        /\ Outlasts \/ lock.owner \notin Holding
        /\ lock' = [owner |-> lock.owner, old |-> TRUE]
        /\ UNCHANGED <<cal, declined, pc, tries, loaded, fresh, exec, robbed>>

Step(p) == \/ Load(p) \/ Offer(p) \/ Answer(p) \/ Decline(p)
           \/ TakeLock(p) \/ StatLock(p) \/ RemoveStale(p)
           \/ Measure(p) \/ Write(p) \/ Unmark(p) \/ DropLock(p) \/ Pick(p)

Next == (\E p \in Procs : Step(p) \/ Crash(p)) \/ Ages

Spec == Init /\ [][Next]_vars
-----------------------------------------------------------------------------
\* Two calibrations at once would time each other's load: two hold the lock only where
\* a take-over removed that of a process that was still measuring.
MeasuresAlone == ~robbed => \A p, q \in Holding : p = q

\* What "two calibrations at once would time each other's CPU load" (exec_calibration.rs:247)
\* has the lock for, with nothing excepted.
\* Does not hold of the code (README, "Divergences without a run").
NeverTwoMeasure == \A p, q \in Procs : pc[p] = "measure" /\ pc[q] = "measure" => p = q

\* A lock on disk is that of a process that is measuring, that was killed, or that
\* was gone before: every way out of a calibration releases it.
LockIsReleased == lock # None =>
                    lock.owner \in Holding \cup {None} \cup {p \in Procs : pc[p] = "dead"}

\* No process reads half a calibration, whenever another is killed writing one.
ReadsWhole == \A p \in Procs : loaded[p] # "half"
=============================================================================
