----------------------------- MODULE MCWorkers -----------------------------
(***************************************************************************)
(* Distributed solving, for TLC: a pool of workers (WorkerPool), and the   *)
(* two ends of one worker's pipe: the controller's handle (WorkerHandle,   *)
(* which takes the worker for a process that answers each line once or     *)
(* dies) and the worker's own loop (WorkerLoop, which shows that it does,  *)
(* whatever bytes it is sent).  A behaviour is one of the three and leaves *)
(* the others as they started; the pool takes from a handle the answers    *)
(* that AnswerContract allows.                                             *)
(***************************************************************************)
EXTENDS MCWorkerPool

CONSTANTS MaxDispatch,                             \* WorkerHandle
          MAX_LINE_BYTES, Lengths, Kinds, MaxLines \* WorkerLoop

VARIABLES part,
          ssh, pc, task, conn, reply, read, lost, expired,
          sent, in, eof, loopPc, buf, long, replies

handleVars == <<ssh, pc, task, conn, reply, read, lost, expired>>
loopVars == <<sent, in, eof, loopPc, buf, long, replies>>
allVars == <<part, vars, handleVars, loopVars>>

Handle == INSTANCE WorkerHandleProofs
Loop == INSTANCE WorkerLoop WITH pc <- loopPc

ASSUME WorkersAssumption == Handle!HandleAssumption /\ Loop!LoopAssumption

\* The pool's first order and a handle's kind are choices of the behaviours they matter to.
WorkersInit ==
    /\ part \in {"pool", "handle", "loop"}
    /\ Init /\ Handle!Init /\ Loop!Init
    /\ part # "handle" => ~ssh
    /\ part # "pool" => pool = CHOOSE s \in PoolOrders : TRUE

PoolStep == part = "pool" /\ Next /\ UNCHANGED <<part, handleVars, loopVars>>
HandleStep == part = "handle" /\ Handle!Next /\ UNCHANGED <<part, vars, loopVars>>
LoopStep == part = "loop" /\ Loop!Next /\ UNCHANGED <<part, vars, handleVars>>

WorkersNext == PoolStep \/ HandleStep \/ LoopStep

PoolCaller == part = "pool" /\ Caller /\ UNCHANGED <<part, handleVars, loopVars>>
PoolThread(w) == part = "pool" /\ Thread(w) /\ UNCHANGED <<part, handleVars, loopVars>>
CallerStep == part = "handle" /\ Handle!Caller /\ UNCHANGED <<part, vars, loopVars>>
WorkerStep == part = "loop" /\ Loop!Worker /\ UNCHANGED <<part, vars, handleVars>>

\* The pool's threads are scheduled, every wait of a handle's caller is bounded, and no
\* solve of the worker runs for ever; the process at the other end owes neither anything.
WorkersSpec == /\ WorkersInit /\ [][WorkersNext]_allVars
               /\ WF_allVars(PoolCaller) /\ \A w \in Workers : WF_allVars(PoolThread(w))
               /\ WF_allVars(CallerStep) /\ WF_allVars(WorkerStep)
-----------------------------------------------------------------------------
\* The pool and both ends of the pipe hold what their types say, in particular a retry's
\* index stays inside the shrinking pool and a line read inside the reader's maximum.
WorkersTypeOK == TypeOK /\ Handle!TypeOK /\ Loop!TypeOK

\* A result line the caller takes for its task's is that task's, though neither handle
\* compares task_id: between dispatches no line is on its way and the worker holds
\* nothing.  A local handle's "worker" - the pool charges its budget by it - is one process
\* that had the task, a result or a task's own fault none, and a broken write one nobody
\* read; only a write that timed out says nothing of either, and over ssh a dispatch may
\* lose two.  A dispatch lets at most one deadline run out, however often it reconnects
\* (FND-102, FND-244); and a handle given up, by eviction or by shutdown, leaves no child
\* behind.
AnswerContract ==
    /\ Handle!ResultIsForItsTask /\ Handle!QuietBetweenDispatches
    /\ Handle!AnswerContract /\ Handle!OneDeadlinePerDispatch /\ Handle!RetiredLeavesNoChild

\* Answers come in the order of their lines, one to a line that is owed one, a line over
\* the documented maximum gets the refusal and nothing else, and between two reads the
\* worker owes nothing for what it has read: the task behind a long line is answered.
OneReplyPerLine == Loop!OneReplyPerLine /\ Loop!RefusedForLength /\ Loop!NothingSwallowed

\* Every call of the pool returns; every dispatch returns and every shutdown ends, whatever
\* the worker does; and every line that is owed an answer gets it, whatever the controller
\* does.
NobodyWaitsForEver == /\ EveryCallReturns
                      /\ Handle!DispatchReturns
                      /\ Handle!ShutdownBounded
                      /\ Loop!EveryLineAnswered
=============================================================================
