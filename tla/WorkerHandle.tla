---------------------------- MODULE WorkerHandle ----------------------------
(***************************************************************************)
(* One worker handle: LocalWorkerHandle (controller.rs), SshWorkerHandle   *)
(* (ssh_worker.rs) and the WorkerPipe both talk through (pipe.rs), with    *)
(* the worker process on the other end, all in crates/nec_worker/src.      *)
(*                                                                         *)
(* A dispatch hands one line to the writer thread, waits for its ack, then *)
(* waits for one line back, all within a deadline.  Over ssh a broken      *)
(* write and an EOF are each mended once by a new connection, which gets a *)
(* deadline of its own.  Time is not modelled: a deadline may expire at    *)
(* any wait.  The writer goes on with a line whose caller has given up, so *)
(* a write that timed out may still arrive.  A handle whose dispatch ends  *)
(* in "unreachable" or "worker" is dropped by the pool, which kills its    *)
(* child (Retire).                                                         *)
(*                                                                         *)
(* The child of a local handle IS the worker; the child of an ssh handle   *)
(* is ssh, which connects lazily and ends after the remote process.        *)
(***************************************************************************)
EXTENDS Integers, Sequences

CONSTANT MaxDispatch   \* bound: dispatches on one handle

HandleAssumption == MaxDispatch \in Nat

TaskIds == 1 .. MaxDispatch
Shutdown == 0           \* the {"cmd":"shutdown"} line

Sending == {"send", "mend", "again"}  \* waiting for the writer's ack
Waiting == {"await", "last"}          \* waiting for a result line
Busy == Sending \cup Waiting

VARIABLES ssh,       \* TRUE for an SshWorkerHandle, FALSE for a LocalWorkerHandle
          pc,        \* where the caller is in dispatch or shutdown
          task,      \* the task of the current, or last, dispatch
          conn,      \* the current connection
          reply,     \* the last dispatch's answer, and the task its line was for
          read,      \* tasks some worker process has read
          lost,      \* connections that ended while they had the current task
          expired    \* deadlines the current dispatch has let run out

vars == <<ssh, pc, task, conn, reply, read, lost, expired>>

(* child: "connecting", "up" or "gone"; exit: who ended it ("none", "ssh" for
   status 255, "own" otherwise); job: the line in the writer thread's hands, not
   yet written to its end ("queued"), "written", or its ack not taken yet ("ok",
   "broken"); worker: "absent", "live" or "dead"; holds: the task the worker is
   solving; wire: lines written and not read; lines: result lines the reader
   thread has put in the channel; has: a line reached a live worker here, and its
   result has not been taken.                                              *)
Jobs == {"none", "queued", "written", "ok", "broken"}
Connection ==
    [child : {"connecting", "up", "gone"}, exit : {"none", "ssh", "own"},
     job : Jobs, worker : {"absent", "live", "dead"}, holds : 0 .. MaxDispatch,
     wire : Seq(0 .. MaxDispatch), lines : Seq([for : TaskIds, good : BOOLEAN]),
     has : BOOLEAN]

Outs == {"ok", "task", "unreachable", "worker"}

TypeOK == /\ ssh \in BOOLEAN
          /\ pc \in Busy \cup {"idle", "failed", "closing", "retired"}
          /\ task \in 0 .. MaxDispatch
          /\ conn \in Connection
          /\ reply \in [out : Outs \cup {"none"}, from : 0 .. MaxDispatch]
          /\ read \subseteq TaskIds
          /\ lost \in 0 .. 3
          /\ expired \in 0 .. 3

\* connect / spawn, and WorkerPipe::new: a child with both threads running, and a
\* line for the writer or none.
Fresh(j) ==
         [child  |-> IF ssh THEN "connecting" ELSE "up",
          exit   |-> "none",
          job    |-> j,
          worker |-> IF ssh THEN "absent" ELSE "live",
          holds  |-> 0, wire |-> <<>>, lines |-> <<>>, has |-> FALSE]

NoReply == [out |-> "none", from |-> 0]

Init == /\ ssh \in BOOLEAN
        /\ pc = "idle" /\ task = 0 /\ conn = Fresh("none") /\ reply = NoReply
        /\ read = {} /\ lost = 0 /\ expired = 0

\* The line goes to the writer thread.
Queued(c) == [c EXCEPT !.job = "queued"]

Killed == [conn EXCEPT !.child = "gone", !.exit = "own", !.worker = "dead"]
-----------------------------------------------------------------------------
(* The caller: dispatch                                                    *)

Dispatch == /\ pc = "idle" /\ task < MaxDispatch
            /\ pc' = "send" /\ task' = task + 1
            /\ reply' = NoReply /\ lost' = 0 /\ expired' = 0
            /\ conn' = Queued(conn) /\ UNCHANGED read

\* The request does not serialise: a task fault, nothing is sent.
DispatchUnserialisable ==
    /\ pc = "idle" /\ task < MaxDispatch
    /\ task' = task + 1 /\ lost' = 0 /\ expired' = 0
    /\ reply' = [out |-> "task", from |-> task + 1]
    /\ UNCHANGED <<pc, conn, read>>

Answer(o) == reply' = [out |-> o, from |-> task]
Fail(o) == pc' = "failed" /\ Answer(o)

\* SendError::reconnects, over ssh: a broken write may be mended, a timeout not.
Reconnects(e) == ssh /\ e = "broken"

\* A connection that had the task is given up.
Charge == lost' = IF conn.has THEN lost + 1 ELSE lost

(* reconnect: the old child is killed, a new one is spawned, and the line is
   handed to the new writer; a spawn that fails is Unreachable.            *)
Reconnect(next) ==
    \/ pc' = next /\ conn' = Fresh("queued") /\ Charge /\ UNCHANGED reply
    \/ Fail("unreachable") /\ conn' = Killed /\ UNCHANGED lost

\* The ack of a line written whole, its newline last.
Sent == /\ pc \in Sending /\ conn.job = "ok"
        /\ pc' = IF pc = "again" THEN "last" ELSE "await"
        /\ conn' = [conn EXCEPT !.job = "none"]
        /\ UNCHANGED <<task, reply, read, lost, expired>>

\* The ack of a write the pipe broke under.
SendBroken ==
    /\ pc \in Sending /\ conn.job = "broken"
    /\ IF pc = "send" /\ Reconnects("broken")
       THEN Reconnect("mend")
       ELSE /\ Fail("unreachable") /\ conn' = [conn EXCEPT !.job = "none"]
            /\ UNCHANGED lost
    /\ UNCHANGED <<task, read, expired>>

\* No ack within the deadline: the line stays in the writer's hands, wholly written
\* or not, and nobody waits for its ack any more.
SendTimesOut ==
    /\ pc \in Sending /\ conn.job \in {"queued", "written"}
    /\ IF pc = "send" /\ Reconnects("timeout")
       THEN Reconnect("mend")
       ELSE Fail("unreachable") /\ UNCHANGED <<conn, lost>>
    /\ expired' = expired + 1
    /\ UNCHANGED <<task, read>>

\* A complete line: a result, or one the controller cannot use.
Received == /\ pc \in Waiting /\ conn.lines # <<>>
            /\ LET line == Head(conn.lines) IN
               reply' = [out |-> IF line.good THEN "ok" ELSE "task", from |-> line.for]
            /\ pc' = "idle"
            /\ conn' = [conn EXCEPT !.lines = Tail(@), !.has = FALSE]
            /\ UNCHANGED <<task, read, lost, expired>>

\* Mutant: silence is taken for the task's own fault, and the worker is kept.
TimesOutKeepingWorker == pc' = "idle" /\ Answer("task")

\* Silence is the worker's fault.
TimesOut == Fail("worker")

ReceiveTimesOut == /\ pc \in Waiting /\ conn.lines = <<>>
                   /\ TimesOut
                   /\ expired' = expired + 1
                   /\ UNCHANGED <<task, conn, read, lost>>

\* who_closed_it: ssh's own exit status means no host was reached; a status that is
\* not there within the grace says nothing, and the EOF is a death.  (The child of
\* a local handle has no such status: its EOF is always a death.)
WhoClosedIt == IF conn.exit = "ssh" THEN {"unreachable", "worker"} ELSE {"worker"}

\* Over ssh the first EOF of a dispatch is mended by a reconnect.
MayResend == ssh /\ pc = "await"

\* The channel is disconnected: the reader thread met EOF.
ReceiveEof ==
    /\ pc \in Waiting /\ conn.lines = <<>> /\ conn.child = "gone"
    /\ IF MayResend
       THEN Reconnect("again")
       ELSE /\ \E o \in WhoClosedIt : Fail(o)
            /\ UNCHANGED <<conn, lost>>
    /\ UNCHANGED <<task, read, expired>>

\* The pool drops a failed handle: Drop kills the child.
Retire == /\ pc = "failed"
          /\ pc' = "retired" /\ conn' = Killed /\ Charge
          /\ UNCHANGED <<task, reply, read, expired>>
-----------------------------------------------------------------------------
(* The caller: shutdown                                                    *)

\* The shutdown line goes to the writer; how its write ends is ignored.
ShutdownStart == /\ pc = "idle" /\ pc' = "closing" /\ conn' = Queued(conn)
                 /\ UNCHANGED <<task, reply, read, lost, expired>>

\* try_wait sees the child gone, or the grace ends and the child is killed.
ShutdownEnds == /\ pc = "closing" /\ pc' = "retired"
                /\ conn' = IF conn.child = "gone" THEN conn ELSE Killed
                /\ UNCHANGED <<task, reply, read, lost, expired>>
-----------------------------------------------------------------------------
(* The writer thread, the worker process and the connection                *)

Environment == UNCHANGED <<pc, task, reply, lost, expired>>

Line == IF pc = "closing" THEN Shutdown ELSE task

\* An ack nobody waits for any more is dropped.
Acked(ack) == IF pc \in Sending THEN ack ELSE "none"

WriterWrites ==
    /\ conn.job = "queued" /\ conn.child # "gone"
    /\ conn' = [conn EXCEPT !.job = "written", !.wire = Append(@, Line),
                            !.has = conn.worker = "live"]
    /\ UNCHANGED read /\ Environment

WriterAcks ==
    /\ conn.job = "written"
    /\ conn' = [conn EXCEPT !.job = Acked("ok")]
    /\ UNCHANGED read /\ Environment

\* The pipe breaks before the line is out.
WriterFails ==
    /\ conn.job = "queued" /\ conn.child = "gone"
    /\ conn' = [conn EXCEPT !.job = Acked("broken")]
    /\ UNCHANGED read /\ Environment

SshConnects == /\ conn.child = "connecting"
               /\ conn' = [conn EXCEPT !.child = "up", !.worker = "live",
                                       !.has = conn.wire # <<>>]
               /\ UNCHANGED read /\ Environment

\* is_shutdown
IsShutdown(t) == t = Shutdown

WorkerReads ==
    /\ conn.worker = "live" /\ conn.holds = 0 /\ conn.wire # <<>>
    /\ LET t == Head(conn.wire) IN
       IF IsShutdown(t)
       THEN /\ conn' = [conn EXCEPT !.wire = Tail(@), !.worker = "dead",
                                    !.child = IF ssh THEN @ ELSE "gone",
                                    !.exit = IF ssh THEN @ ELSE "own"]
            /\ UNCHANGED read
       ELSE /\ conn' = [conn EXCEPT !.wire = Tail(@), !.holds = t]
            /\ read' = read \cup {t}
    /\ Environment

\* One result line per task line, usable or not.
WorkerAnswers ==
    /\ conn.worker = "live" /\ conn.holds # 0
    /\ \E g \in BOOLEAN :
         conn' = [conn EXCEPT !.holds = 0,
                              !.lines = Append(@, [for |-> conn.holds, good |-> g])]
    /\ UNCHANGED read /\ Environment

\* OOM, abort, kill: the process ends without a line.
WorkerDies ==
    /\ conn.worker = "live"
    /\ conn' = [conn EXCEPT !.worker = "dead", !.holds = 0,
                            !.child = IF ssh THEN @ ELSE "gone",
                            !.exit = IF ssh THEN @ ELSE "own"]
    /\ UNCHANGED read /\ Environment

\* ssh ends after the remote process, with its status.
SshEnds == /\ ssh /\ conn.child = "up" /\ conn.worker = "dead"
           /\ conn' = [conn EXCEPT !.child = "gone", !.exit = "own"]
           /\ UNCHANGED read /\ Environment

\* ssh itself fails, to connect or in mid-session: status 255.
SshFails == /\ ssh /\ conn.child # "gone"
            /\ conn' = [conn EXCEPT !.child = "gone", !.exit = "ssh", !.worker = "dead",
                                    !.holds = 0]
            /\ UNCHANGED read /\ Environment
-----------------------------------------------------------------------------
Caller == /\ \/ Sent \/ SendBroken \/ SendTimesOut \/ Received
             \/ ReceiveTimesOut \/ ReceiveEof \/ Retire \/ ShutdownEnds
          /\ UNCHANGED ssh

Others == /\ \/ Dispatch \/ DispatchUnserialisable \/ ShutdownStart
             \/ WriterWrites \/ WriterAcks \/ WriterFails
             \/ SshConnects \/ WorkerReads \/ WorkerAnswers \/ WorkerDies
             \/ SshEnds \/ SshFails
          /\ UNCHANGED ssh

Next == Caller \/ Others

Spec == Init /\ [][Next]_vars

-----------------------------------------------------------------------------
(* Properties                                                              *)

\* A result line the caller takes for its task's is that task's: no line of an
\* earlier dispatch (late, or sent twice over a reconnect) is ever taken for it,
\* though neither handle compares task_id.
ResultIsForItsTask == reply.out # "none" => reply.from = task

\* Between dispatches a handle the pool keeps is quiet: no line is with the writer or
\* on its way in either direction, and the worker holds nothing (single task in flight).
QuietBetweenDispatches ==
    pc = "idle" => /\ conn.job = "none" /\ conn.wire = <<>>
                   /\ conn.holds = 0 /\ conn.lines = <<>>

\* A dispatch lets at most one deadline run out, however often it reconnects
\* (FND-102, FND-244).
OneDeadlinePerDispatch == expired <= 1

\* What an answer says of the task, once a failed handle is dropped.  Locally a result
\* or a task's own fault costs no process, and "worker" exactly one that had been given
\* the task.  A write that broke was read by nobody; one that timed out may have been
\* read, and its process killed with it, without the answer saying so.  Over ssh a
\* dispatch may cost up to two processes, whatever it answers; one that ends in a result
\* costs at most one.
AnswerContract ==
    reply.out # "none" /\ pc # "failed" =>
        IF ssh
        THEN lost <= IF reply.out \in {"ok", "task"} THEN 1 ELSE 2
        ELSE /\ reply.out \in {"ok", "task"} => lost = 0
             /\ reply.out = "worker" => lost = 1
             /\ reply.out = "unreachable" =>
                  IF expired = 0 THEN lost = 0 /\ task \notin read ELSE lost <= 1

\* SendError's "every case means the line was not delivered": no worker process ever
\* reads a task whose dispatch ends in "unreachable".  The code breaks it: the line of a
\* write that timed out is still with the writer, or already at the worker.
UnreachableNeverDelivered == reply.out = "unreachable" => task \notin read

\* A handle given up, by eviction or by shutdown, leaves no child behind.
RetiredLeavesNoChild == pc = "retired" => conn.child = "gone"

\* Every dispatch returns and every shutdown ends, whatever the worker does.
DispatchReturns == pc \in Busy ~> pc \in {"idle", "failed", "retired"}
ShutdownBounded == pc = "closing" ~> pc = "retired"
=============================================================================
