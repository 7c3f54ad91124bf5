-------------------------- MODULE WorkerHandleProofs --------------------------
(***************************************************************************)
(* Proofs about WorkerHandle, for any number of dispatches, whatever the   *)
(* worker, the connection and the clock do between any two steps.          *)
(***************************************************************************)
EXTENDS WorkerHandle, TLAPS

Quiet == conn.wire = <<>> /\ conn.holds = 0 /\ conn.lines = <<>>

\* At most one line of the task is on its way: written, being solved, or answered.
OneLine ==
    \/ Quiet
    \/ conn.wire = <<task>> /\ conn.holds = 0 /\ conn.lines = <<>>
    \/ conn.wire = <<>> /\ conn.holds = task /\ conn.lines = <<>>
    \/ conn.wire = <<>> /\ conn.holds = 0
       /\ \E g \in BOOLEAN : conn.lines = <<[for |-> task, good |-> g]>>

ClosingLine ==
    \/ Quiet
    \/ conn.wire = <<Shutdown>> /\ conn.holds = 0 /\ conn.lines = <<>>

\* What may be with the writer and on the connection at each point of the caller: a line
\* not yet written is nowhere else.
Lines == /\ conn.job \in {"queued", "broken"} /\ pc # "retired" => Quiet /\ ~conn.has
         /\ pc = "idle" => conn.job = "none" /\ Quiet /\ ~conn.has
         /\ pc \in Sending => conn.job # "none"
         /\ pc \in Waiting => conn.job = "none"
         /\ pc \in Busy \cup {"failed"} => OneLine /\ task # 0
         /\ pc = "closing" => ClosingLine

\* A connection that is gone has no worker; a local child is its worker, and has the
\* line once it is written; and only ssh mends.
Ends == /\ conn.child = "gone" => conn.worker = "dead"
        /\ ~ssh => /\ conn.child # "connecting" /\ conn.exit # "ssh"
                   /\ pc \notin {"mend", "again", "last"}
                   /\ conn.child # "gone" => conn.worker = "live"
                   /\ pc = "send" => (conn.has <=> conn.job \in {"written", "ok"})
                   /\ pc = "await" => conn.has

\* How many deadlines and connections a dispatch may have used up by each point.
Charges == /\ pc \in Busy => expired = 0 /\ reply.out = "none"
           /\ expired <= 1
           /\ pc \in {"send", "mend", "await"} => lost = 0
           /\ pc \in {"again", "last", "idle", "failed"} => lost <= 1
           /\ ~ssh /\ pc = "failed" => lost = 0
           /\ lost <= 2

\* Which tasks a worker can have read, and what a failed local handle had delivered.
Reads == /\ \A t \in read : t <= task
         /\ ~ssh /\ pc = "send" /\ ~conn.has => task \notin read
         /\ pc = "failed" => reply.out \in {"worker", "unreachable"}
         /\ ~ssh /\ pc = "failed" =>
              /\ reply.out = "worker" => conn.has
              /\ reply.out = "unreachable" /\ expired = 0 =>
                   conn.job = "none" /\ Quiet /\ ~conn.has /\ task \notin read

IInv == /\ TypeOK /\ Lines /\ Ends /\ Charges /\ Reads
        /\ ResultIsForItsTask /\ AnswerContract /\ RetiredLeavesNoChild
-----------------------------------------------------------------------------
\* A sequence of one.
LEMMA One ==
    ASSUME NEW S, NEW a \in S
    PROVE  /\ <<a>> \in Seq(S) /\ <<>> \in Seq(S) /\ <<a>> # <<>>
           /\ Head(<<a>>) = a /\ Tail(<<a>>) = <<>> /\ Append(<<>>, a) = <<a>>
OBVIOUS

\* No lines, and no task, are of their types.
LEMMA Empty ==
    ASSUME HandleAssumption
    PROVE  /\ 0 \in 0 .. MaxDispatch
           /\ <<>> \in Seq(0 .. MaxDispatch) /\ <<>> \in Seq([for : TaskIds, good : BOOLEAN])
BY DEF HandleAssumption

\* The connection the caller goes on with, or leaves.
LEMMA ConnFacts ==
    ASSUME HandleAssumption, TypeOK
    PROVE  /\ \A j \in Jobs :
                /\ Fresh(j) \in Connection /\ Fresh(j).job = j
                /\ Fresh(j).wire = <<>> /\ Fresh(j).holds = 0 /\ Fresh(j).lines = <<>>
                /\ ~Fresh(j).has
                /\ Fresh(j).child = (IF ssh THEN "connecting" ELSE "up")
                /\ Fresh(j).worker = (IF ssh THEN "absent" ELSE "live")
                /\ Fresh(j).exit = "none"
           /\ Killed \in Connection /\ Killed.child = "gone" /\ Killed.worker = "dead"
           /\ Killed.exit = "own" /\ Killed.job = conn.job /\ Killed.has = conn.has
           /\ Killed.wire = conn.wire /\ Killed.holds = conn.holds /\ Killed.lines = conn.lines
           /\ Queued(conn) \in Connection /\ Queued(conn).job = "queued"
           /\ Queued(conn).child = conn.child /\ Queued(conn).worker = conn.worker
           /\ Queued(conn).exit = conn.exit /\ Queued(conn).has = conn.has
           /\ Queued(conn).wire = conn.wire /\ Queued(conn).holds = conn.holds
           /\ Queued(conn).lines = conn.lines
<1>1. ASSUME NEW j \in Jobs
      PROVE  /\ Fresh(j) \in Connection /\ Fresh(j).job = j
             /\ Fresh(j).wire = <<>> /\ Fresh(j).holds = 0 /\ Fresh(j).lines = <<>>
             /\ ~Fresh(j).has
             /\ Fresh(j).child = (IF ssh THEN "connecting" ELSE "up")
             /\ Fresh(j).worker = (IF ssh THEN "absent" ELSE "live")
             /\ Fresh(j).exit = "none"
  <2>1. Fresh(j) \in Connection
    BY Empty DEF Fresh, Connection
  <2> QED BY <2>1 DEF Fresh
<1>2. /\ Killed \in Connection /\ Killed.child = "gone" /\ Killed.worker = "dead"
      /\ Killed.exit = "own" /\ Killed.job = conn.job /\ Killed.has = conn.has
      /\ Killed.wire = conn.wire /\ Killed.holds = conn.holds /\ Killed.lines = conn.lines
  BY DEF Killed, Connection, TypeOK
<1>3. /\ Queued(conn) \in Connection /\ Queued(conn).job = "queued"
      /\ Queued(conn).child = conn.child /\ Queued(conn).worker = conn.worker
      /\ Queued(conn).exit = conn.exit /\ Queued(conn).has = conn.has
      /\ Queued(conn).wire = conn.wire /\ Queued(conn).holds = conn.holds
      /\ Queued(conn).lines = conn.lines
  BY DEF Queued, Connection, TypeOK, Jobs
<1> QED BY <1>1, <1>2, <1>3
-----------------------------------------------------------------------------
\* Every step of dispatch, reconnect and shutdown keeps the invariant.
LEMMA CallerStep ==
    ASSUME HandleAssumption, IInv, Caller PROVE IInv'
<1> USE DEF HandleAssumption
<1>1. /\ conn \in Connection /\ task \in 0 .. MaxDispatch /\ lost \in 0 .. 2 /\ expired \in 0 .. 1
      /\ conn.has \in BOOLEAN /\ TypeOK /\ ssh' = ssh
  BY DEF IInv, TypeOK, Connection, Charges, Caller
<1>2. CASE Sent
  <2>1. /\ pc \in Sending /\ conn.job = "ok" /\ OneLine /\ task # 0
        /\ pc' = (IF pc = "again" THEN "last" ELSE "await")
        /\ UNCHANGED <<task, reply, read, lost, expired>>
    BY <1>2 DEF Sent, IInv, Lines, Busy
  <2>2. conn' = [conn EXCEPT !.job = "none"]
    BY <1>2 DEF Sent
  <2>3. /\ conn' \in Connection /\ conn'.job = "none"
        /\ conn'.wire = conn.wire /\ conn'.holds = conn.holds /\ conn'.lines = conn.lines
        /\ conn'.child = conn.child /\ conn'.worker = conn.worker /\ conn'.exit = conn.exit
        /\ conn'.has = conn.has
    BY <1>1, <2>2 DEF Connection, Jobs
  <2>4. TypeOK'
    BY <1>1, <2>1, <2>3 DEF TypeOK, Waiting, Busy
  <2>5. Lines'
    BY <2>1, <2>3 DEF Lines, OneLine, Quiet, Sending, Waiting, Busy
  <2>6. Ends'
    BY <1>1, <2>1, <2>3 DEF IInv, Ends, Sending
  <2>7. Charges' /\ Reads'
    BY <1>1, <2>1 DEF IInv, Charges, Reads, Sending, Waiting, Busy
  <2>8. ResultIsForItsTask' /\ AnswerContract' /\ RetiredLeavesNoChild'
    BY <2>1 DEF IInv, Charges, ResultIsForItsTask, AnswerContract, RetiredLeavesNoChild, Busy
  <2> QED BY <2>4, <2>5, <2>6, <2>7, <2>8 DEF IInv
\* A new connection takes the place of one that broke before the line was out, or ended.
<1>3. ASSUME ssh, NEW next \in {"mend", "again"}, Charge, lost = 0, conn.has => next = "again",
             pc \in Busy, pc' = next, conn' = Fresh("queued"),
             UNCHANGED <<task, reply, read, expired>>
      PROVE  IInv'
  <2>1. lost' \in 0 .. 1 /\ (next = "mend" => lost' = 0)
    BY <1>1, <1>3 DEF Charge
  <2>2. /\ conn' \in Connection /\ conn'.job = "queued"
        /\ conn'.wire = <<>> /\ conn'.holds = 0 /\ conn'.lines = <<>> /\ ~conn'.has
        /\ conn'.child = "connecting" /\ conn'.worker = "absent"
    BY <1>1, <1>3, ConnFacts DEF Jobs
  <2>3. TypeOK'
    BY <1>1, <1>3, <2>1, <2>2 DEF TypeOK, Busy, Sending
  <2>4. task # 0 /\ expired = 0 /\ reply.out = "none"
    BY <1>3 DEF IInv, Lines, Charges
  <2>5. Lines' /\ Ends'
    BY <1>1, <1>3, <2>2, <2>4
       DEF Lines, Ends, OneLine, Quiet, Sending, Waiting, Busy
  <2>6. Charges' /\ Reads'
    BY <1>1, <1>3, <2>1, <2>4 DEF IInv, Charges, Reads
  <2> QED BY <1>3, <2>3, <2>4, <2>5, <2>6
          DEF IInv, ResultIsForItsTask, AnswerContract, RetiredLeavesNoChild
\* A dispatch ends in a fault of the worker's; what became of the line stays as it is.
<1>4. ASSUME pc \in Busy, NEW o \in {"worker", "unreachable"}, Fail(o),
             UNCHANGED <<task, read, lost>>, expired' \in 0 .. 1, conn' \in Connection,
             conn'.wire = conn.wire, conn'.holds = conn.holds, conn'.lines = conn.lines,
             conn'.has = conn.has, conn'.job \in {conn.job, "none"},
             \/ conn'.child = conn.child /\ conn'.worker = conn.worker /\ conn'.exit = conn.exit
             \/ conn'.child = "gone" /\ conn'.worker = "dead" /\ conn'.exit = "own",
             ~ssh => /\ o = "worker" => conn.has
                     /\ o = "unreachable" /\ expired' = 0 =>
                          conn'.job = "none" /\ Quiet /\ ~conn.has /\ task \notin read
      PROVE  IInv'
  <2>1. pc' = "failed" /\ reply'.out = o /\ reply'.from = task
    BY <1>4 DEF Fail, Answer
  <2>2. reply' \in [out : Outs \cup {"none"}, from : 0 .. MaxDispatch]
    BY <1>1, <1>4 DEF Fail, Answer, Outs
  <2>3. TypeOK'
    BY <1>1, <1>4, <2>1, <2>2 DEF TypeOK
  <2>4. OneLine /\ task # 0 /\ expired = 0 /\ lost \in 0 .. 1 /\ (~ssh => lost = 0)
    BY <1>1, <1>4 DEF IInv, Lines, Charges, Ends, Busy, Sending, Waiting
  <2>5. Lines'
    BY <1>4, <2>1, <2>4 DEF IInv, Lines, OneLine, Quiet, Busy, Sending, Waiting
  <2>6. Ends'
    BY <1>1, <1>4, <2>1 DEF IInv, Ends
  <2>7. Charges'
    BY <1>1, <1>4, <2>1, <2>4 DEF Charges, Busy, Sending, Waiting
  <2>8. Reads'
    <3>1. \A t \in read' : t <= task'
      BY <1>4 DEF IInv, Reads
    <3> QED BY <1>1, <1>4, <2>1, <3>1 DEF Reads, Quiet
  <2> QED BY <1>4, <2>1, <2>3, <2>5, <2>6, <2>7, <2>8
          DEF IInv, ResultIsForItsTask, AnswerContract, RetiredLeavesNoChild
<1>5. CASE SendBroken
  <2>1. /\ pc \in Sending /\ pc \in Busy /\ conn.job = "broken" /\ Quiet /\ ~conn.has
        /\ expired = 0 /\ UNCHANGED <<task, read, expired>>
    BY <1>5 DEF SendBroken, IInv, Lines, Charges, Sending, Busy
  <2>2. CASE pc = "send" /\ Reconnects("broken") /\ Reconnect("mend")
    <3>1. ssh /\ lost = 0
      BY <2>2 DEF Reconnects, IInv, Charges
    <3>2. CASE pc' = "mend" /\ conn' = Fresh("queued") /\ Charge /\ UNCHANGED reply
      BY <1>3, <2>1, <3>1, <3>2
    <3>3. CASE Fail("unreachable") /\ conn' = Killed /\ UNCHANGED lost
      BY <1>1, <1>4, <2>1, <3>1, <3>3, ConnFacts
    <3> QED BY <2>2, <3>2, <3>3 DEF Reconnect
  <2>3. CASE Fail("unreachable") /\ conn' = [conn EXCEPT !.job = "none"] /\ UNCHANGED lost
    <3>1. /\ conn' \in Connection /\ conn'.job = "none"
          /\ conn'.wire = conn.wire /\ conn'.holds = conn.holds /\ conn'.lines = conn.lines
          /\ conn'.child = conn.child /\ conn'.worker = conn.worker /\ conn'.exit = conn.exit
          /\ conn'.has = conn.has
      BY <1>1, <2>3 DEF Connection, Jobs
    <3>2. ~ssh => task \notin read
      BY <2>1 DEF IInv, Ends, Reads, Sending
    <3> QED BY <1>1, <1>4, <2>1, <2>3, <3>1, <3>2
  <2> QED BY <1>5, <2>2, <2>3 DEF SendBroken
<1>6. CASE SendTimesOut
  <2>1. /\ pc \in Busy /\ conn' = conn /\ Fail("unreachable") /\ UNCHANGED <<task, read, lost>>
        /\ expired' = expired + 1
    BY <1>6 DEF SendTimesOut, Reconnects, Busy
  <2>2. expired = 0
    BY <2>1 DEF IInv, Charges
  <2> QED BY <1>1, <1>4, <2>1, <2>2
<1>7. CASE Received
  <2>1. /\ pc \in Waiting /\ conn.lines # <<>> /\ conn.job = "none" /\ pc' = "idle"
        /\ UNCHANGED <<task, read, lost, expired>>
    BY <1>7 DEF Received, IInv, Lines
  <2>2. /\ conn.wire = <<>> /\ conn.holds = 0 /\ task # 0
        /\ \E g \in BOOLEAN : conn.lines = <<[for |-> task, good |-> g]>>
    BY <2>1 DEF IInv, Lines, OneLine, Quiet, Waiting, Busy
  <2>3. PICK g \in BOOLEAN : conn.lines = <<[for |-> task, good |-> g]>>
    BY <2>2
  <2>4. Head(conn.lines) = [for |-> task, good |-> g] /\ Tail(conn.lines) = <<>>
    BY <2>3
  <2>5. reply' = [out |-> IF g THEN "ok" ELSE "task", from |-> task]
    BY <1>7, <2>4 DEF Received
  <2>6. /\ reply'.out \in {"ok", "task"} /\ reply'.from = task
        /\ reply' \in [out : Outs \cup {"none"}, from : 0 .. MaxDispatch]
    BY <1>1, <2>5 DEF Outs
  <2>7. conn' = [conn EXCEPT !.lines = <<>>, !.has = FALSE]
    BY <1>7, <2>4 DEF Received
  <2>8. /\ conn' \in Connection /\ conn'.job = "none"
        /\ conn'.wire = <<>> /\ conn'.holds = 0 /\ conn'.lines = <<>> /\ ~conn'.has
        /\ conn'.child = conn.child /\ conn'.worker = conn.worker /\ conn'.exit = conn.exit
    <3>1. conn' \in Connection
      BY <1>1, <2>2, <2>7, Empty DEF Connection
    <3>2. /\ conn'.wire = <<>> /\ conn'.holds = 0 /\ conn'.lines = <<>> /\ ~conn'.has
          /\ conn'.child = conn.child /\ conn'.worker = conn.worker /\ conn'.exit = conn.exit
          /\ conn'.job = "none"
      BY <1>1, <2>1, <2>2, <2>7 DEF Connection
    <3> QED BY <3>1, <3>2
  <2>9. TypeOK'
    BY <1>1, <2>1, <2>6, <2>8 DEF TypeOK
  <2>10. Lines' /\ Ends'
    BY <1>1, <2>1, <2>8 DEF IInv, Lines, Ends, Quiet, Busy, Sending, Waiting
  <2>11. lost <= 1 /\ (~ssh => lost = 0)
    BY <1>1, <2>1 DEF IInv, Charges, Ends, Waiting
  <2>12. Charges' /\ Reads'
    <3>1. Charges'
      BY <1>1, <2>1, <2>11 DEF Charges, Busy, Sending, Waiting
    <3>2. Reads'
      BY <1>1, <2>1 DEF IInv, Reads
    <3> QED BY <3>1, <3>2
  <2>13. AnswerContract'
    BY <1>1, <2>1, <2>6, <2>11 DEF AnswerContract
  <2> QED BY <2>1, <2>6, <2>9, <2>10, <2>12, <2>13
          DEF IInv, ResultIsForItsTask, RetiredLeavesNoChild
<1>8. CASE ReceiveTimesOut
  <2>1. /\ pc \in Waiting /\ pc \in Busy /\ conn' = conn /\ Fail("worker")
        /\ expired' = expired + 1 /\ UNCHANGED <<task, read, lost>>
    BY <1>8 DEF ReceiveTimesOut, TimesOut, Busy
  <2>2. expired = 0 /\ (~ssh => conn.has)
    BY <2>1 DEF IInv, Charges, Ends, Waiting
  <2> QED BY <1>1, <1>4, <2>1, <2>2
<1>9. CASE ReceiveEof
  <2>1. pc \in Waiting /\ pc \in Busy /\ UNCHANGED <<task, read, expired>> /\ expired = 0
    BY <1>9 DEF ReceiveEof, IInv, Charges, Busy
  <2>2. CASE MayResend /\ Reconnect("again")
    <3>1. ssh /\ lost = 0
      BY <2>2 DEF MayResend, IInv, Charges
    <3>2. CASE pc' = "again" /\ conn' = Fresh("queued") /\ Charge /\ UNCHANGED reply
      BY <1>3, <2>1, <3>1, <3>2
    <3>3. CASE Fail("unreachable") /\ conn' = Killed /\ UNCHANGED lost
      BY <1>1, <1>4, <2>1, <3>1, <3>3, ConnFacts
    <3> QED BY <2>2, <3>2, <3>3 DEF Reconnect
  <2>3. CASE ~MayResend
    <3>1. PICK o \in WhoClosedIt : Fail(o) /\ UNCHANGED <<conn, lost>>
      BY <1>9, <2>3 DEF ReceiveEof
    <3>2. o \in {"worker", "unreachable"}
      BY DEF WhoClosedIt
    <3>3. ~ssh => o = "worker" /\ conn.has
      BY <2>1 DEF WhoClosedIt, IInv, Ends, Waiting
    <3> QED BY <1>1, <1>4, <2>1, <3>1, <3>2, <3>3
  <2> QED BY <1>9, <2>2, <2>3 DEF ReceiveEof
<1>10. CASE Retire
  <2>1. /\ pc = "failed" /\ pc' = "retired" /\ conn' = Killed /\ Charge
        /\ UNCHANGED <<task, reply, read, expired>>
    BY <1>10 DEF Retire
  <2>2. lost' \in 0 .. 2 /\ (~ssh => lost' = IF conn.has THEN 1 ELSE 0)
    BY <1>1, <2>1 DEF Charge, IInv, Charges
  <2>3. TypeOK'
    BY <1>1, <2>1, <2>2, ConnFacts DEF TypeOK
  <2>4. AnswerContract'
    BY <1>1, <2>1, <2>2 DEF IInv, Reads, Charges, AnswerContract
  <2>5. Lines' /\ Ends'
    BY <1>1, <2>1, ConnFacts DEF IInv, Lines, Ends, Busy, Sending, Waiting
  <2>6. Charges' /\ Reads'
    BY <1>1, <2>1, <2>2 DEF IInv, Charges, Reads, Busy, Sending, Waiting
  <2> QED BY <1>1, <2>1, <2>3, <2>4, <2>5, <2>6, ConnFacts
          DEF IInv, ResultIsForItsTask, RetiredLeavesNoChild
<1>11. CASE ShutdownEnds
  <2>1. /\ pc = "closing" /\ pc' = "retired" /\ conn' \in {conn, Killed}
        /\ conn'.child = "gone" /\ conn'.worker = "dead"
        /\ UNCHANGED <<task, reply, read, lost, expired>>
    BY <1>1, <1>11, ConnFacts DEF ShutdownEnds, IInv, Ends
  <2>2. conn' \in Connection /\ (conn'.exit = "ssh" => ssh)
    BY <1>1, <2>1, ConnFacts DEF IInv, Ends
  <2>3. TypeOK'
    BY <1>1, <2>1, <2>2 DEF TypeOK
  <2>4. Lines' /\ Ends' /\ Charges' /\ Reads'
    BY <1>1, <2>1, <2>2 DEF IInv, Lines, Ends, Charges, Reads, Busy, Sending, Waiting
  <2> QED BY <1>1, <2>1, <2>3, <2>4
          DEF IInv, ResultIsForItsTask, AnswerContract, RetiredLeavesNoChild
<1> QED BY <1>2, <1>5, <1>6, <1>7, <1>8, <1>9, <1>10, <1>11 DEF Caller
-----------------------------------------------------------------------------
\* What only the process at the other end does: the caller, and what it has
\* answered, stay as they are.
LEMMA EnvironmentKeeps ==
    ASSUME HandleAssumption, IInv, Environment, UNCHANGED ssh, conn' \in Connection,
           Lines', Ends', conn.child = "gone" => conn'.child = "gone",
           \/ /\ read' = read /\ (~ssh /\ conn.has => conn'.has)
              /\ ~ssh /\ conn.job = "none" /\ Quiet =>
                   /\ conn'.job = "none" /\ conn'.has = conn.has
                   /\ conn'.wire = <<>> /\ conn'.holds = 0 /\ conn'.lines = <<>>
           \/ /\ pc \in Busy \cup {"failed"} /\ ~Quiet /\ read' = read \cup {task}
              /\ conn'.has = conn.has /\ (~ssh /\ pc = "send" => conn.has)
    PROVE  IInv'
<1>1. UNCHANGED <<ssh, pc, task, reply, lost, expired>>
  BY DEF Environment
<1>2. TypeOK'
  <2>1. read' = read \/ (task # 0 /\ read' = read \cup {task})
    BY DEF IInv, Lines
  <2>2. task # 0 => task \in TaskIds
    BY DEF IInv, TypeOK, TaskIds, HandleAssumption
  <2>3. read' \subseteq TaskIds
    BY <2>1, <2>2 DEF IInv, TypeOK
  <2> QED BY <1>1, <2>3 DEF IInv, TypeOK
<1>3. Charges' /\ ResultIsForItsTask' /\ RetiredLeavesNoChild'
  BY <1>1 DEF IInv, Charges, ResultIsForItsTask, RetiredLeavesNoChild
<1>4. Reads'
  <2>1. \A t \in read' : t <= task'
    BY <1>1 DEF IInv, TypeOK, Reads
  <2>2. conn.has \in BOOLEAN /\ conn'.has \in BOOLEAN
    BY DEF IInv, TypeOK, Connection
  <2> QED BY <1>1, <2>1, <2>2 DEF IInv, Reads, Quiet
<1>5. AnswerContract'
  BY <1>1 DEF IInv, AnswerContract, Charges
<1> QED BY <1>2, <1>3, <1>4, <1>5 DEF IInv

\* So does every step of the worker, of its connection and of the clock.
LEMMA OthersStep ==
    ASSUME HandleAssumption, IInv, Others PROVE IInv'
<1> USE DEF HandleAssumption
<1>1. /\ conn \in Connection /\ task \in 0 .. MaxDispatch /\ lost \in 0 .. 2 /\ expired \in 0 .. 1
      /\ conn.has \in BOOLEAN /\ TypeOK /\ ssh' = ssh
  BY DEF IInv, TypeOK, Connection, Charges, Others
<1>2. CASE Dispatch
  <2>1. /\ pc = "idle" /\ pc' = "send" /\ task' = task + 1 /\ task' \in 0 .. MaxDispatch
        /\ reply' = NoReply /\ lost' = 0 /\ expired' = 0 /\ read' = read
    BY <1>1, <1>2 DEF Dispatch
  <2>2. /\ conn' \in Connection /\ conn'.job = "queued"
        /\ conn'.wire = <<>> /\ conn'.holds = 0 /\ conn'.lines = <<>> /\ ~conn'.has
        /\ conn'.child = conn.child /\ conn'.worker = conn.worker /\ conn'.exit = conn.exit
    BY <1>1, <1>2, <2>1, ConnFacts DEF Dispatch, IInv, Lines, Quiet
  <2>3. TypeOK'
    BY <1>1, <2>1, <2>2 DEF TypeOK, NoReply, Busy, Sending
  <2>4. Lines' /\ Ends'
    BY <1>1, <2>1, <2>2 DEF IInv, Lines, Ends, OneLine, Quiet, Busy, Sending, Waiting
  <2>5. Charges' /\ Reads'
    BY <1>1, <2>1, <2>2 DEF IInv, TypeOK, TaskIds, Charges, Reads, NoReply
  <2> QED BY <1>1, <2>1, <2>3, <2>4, <2>5
          DEF NoReply, IInv, ResultIsForItsTask, AnswerContract, RetiredLeavesNoChild
<1>3. CASE DispatchUnserialisable
  <2>1. TypeOK'
    BY <1>1, <1>3 DEF TypeOK, DispatchUnserialisable, Outs
  <2>2. Reads'
    BY <1>1, <1>3 DEF IInv, TypeOK, TaskIds, Reads, DispatchUnserialisable
  <2>3. ResultIsForItsTask' /\ AnswerContract'
    BY <1>1, <1>3 DEF DispatchUnserialisable, ResultIsForItsTask, AnswerContract
  <2> QED BY <1>1, <1>3, <2>1, <2>2, <2>3
          DEF DispatchUnserialisable, IInv, Lines, Ends, Charges, RetiredLeavesNoChild, OneLine,
              ClosingLine, Quiet, Busy, Sending, Waiting
<1>4. CASE ShutdownStart
  <2>1. /\ pc = "idle" /\ pc' = "closing" /\ UNCHANGED <<task, reply, read, lost, expired>>
    BY <1>4 DEF ShutdownStart
  <2>2. /\ conn' \in Connection /\ conn'.job = "queued"
        /\ conn'.wire = <<>> /\ conn'.holds = 0 /\ conn'.lines = <<>> /\ ~conn'.has
        /\ conn'.child = conn.child /\ conn'.worker = conn.worker /\ conn'.exit = conn.exit
    BY <1>1, <1>4, <2>1, ConnFacts DEF ShutdownStart, IInv, Lines, Quiet
  <2>3. TypeOK'
    BY <1>1, <2>1, <2>2 DEF TypeOK
  <2>4. Lines' /\ Ends'
    BY <1>1, <2>1, <2>2 DEF IInv, Lines, ClosingLine, Ends, Quiet, Busy, Sending, Waiting
  <2> QED BY <1>1, <2>1, <2>3, <2>4
          DEF IInv, Charges, Reads, ResultIsForItsTask, AnswerContract, RetiredLeavesNoChild,
              Busy, Sending, Waiting
<1>12. CASE WriterWrites
  <2>1. /\ conn.job = "queued" /\ conn.child # "gone" /\ read' = read /\ Environment
        /\ pc # "retired" /\ Quiet /\ ~conn.has
    BY <1>12 DEF WriterWrites, IInv, Lines, RetiredLeavesNoChild
  <2>2. pc \in Sending \cup {"failed", "closing"} /\ (pc # "closing" => task # 0)
    BY <2>1 DEF IInv, TypeOK, Lines, Busy, Waiting
  <2>3. PICK w : w = <<Line>> /\ w \in Seq(0 .. MaxDispatch) /\ Append(<<>>, Line) = w
    <3>1. Line \in 0 .. MaxDispatch
      BY <1>1 DEF Line, Shutdown
    <3> QED BY <3>1, One
  <2>4. conn' = [conn EXCEPT !.job = "written", !.wire = w, !.has = conn.worker = "live"]
    BY <1>12, <2>1, <2>3 DEF WriterWrites, Quiet
  <2>5. /\ conn' \in Connection /\ conn'.job = "written" /\ conn'.has = (conn.worker = "live")
        /\ conn'.wire = w /\ conn'.holds = 0 /\ conn'.lines = <<>>
        /\ conn'.child = conn.child /\ conn'.worker = conn.worker /\ conn'.exit = conn.exit
    BY <1>1, <2>1, <2>3, <2>4 DEF Connection, Jobs, Quiet
  <2>6. Lines'
    <3>1. UNCHANGED <<pc, task>>
      BY <2>1 DEF Environment
    <3> QED BY <2>2, <2>3, <2>5, <3>1
            DEF Lines, OneLine, ClosingLine, Line, Busy, Sending, Waiting
  <2>7. Ends'
    BY <1>1, <2>1, <2>2, <2>5 DEF Environment, IInv, Ends, Sending
  <2> QED BY <1>1, <2>1, <2>5, <2>6, <2>7, EnvironmentKeeps
<1>13. ASSUME NEW j \in {"none", "ok", "broken"}, conn' = [conn EXCEPT !.job = j],
              conn.job \in {"queued", "written"}, read' = read, Environment,
              j = "none" <=> pc \notin Sending,
              j = "ok" => conn.job = "written", j = "broken" => conn.job = "queued"
       PROVE  IInv'
  <2>1. /\ conn' \in Connection /\ conn'.job = j
        /\ conn'.wire = conn.wire /\ conn'.holds = conn.holds /\ conn'.lines = conn.lines
        /\ conn'.child = conn.child /\ conn'.worker = conn.worker /\ conn'.exit = conn.exit
        /\ conn'.has = conn.has
    BY <1>1, <1>13 DEF Connection, Jobs
  <2>2. Lines'
    <3>1. pc # "idle" /\ pc \notin Waiting /\ UNCHANGED <<pc, task>>
      BY <1>13 DEF Environment, IInv, Lines
    <3> QED BY <1>13, <2>1, <3>1
            DEF IInv, Lines, OneLine, ClosingLine, Quiet, Busy, Sending, Waiting
  <2>3. Ends'
    BY <1>1, <1>13, <2>1 DEF Environment, IInv, Ends, Sending
  <2> QED BY <1>1, <1>13, <2>1, <2>2, <2>3, EnvironmentKeeps
<1>14. CASE WriterAcks
  BY <1>13, <1>14 DEF WriterAcks, Acked
<1>15. CASE WriterFails
  BY <1>13, <1>15 DEF WriterFails, Acked
<1>5. CASE SshConnects
  <2>1. /\ conn.child = "connecting" /\ read' = read /\ Environment /\ ssh
        /\ conn' = [conn EXCEPT !.child = "up", !.worker = "live", !.has = conn.wire # <<>>]
    BY <1>5 DEF SshConnects, IInv, Ends
  <2>2. /\ conn' \in Connection
        /\ conn'.child = "up" /\ conn'.worker = "live" /\ conn'.has = (conn.wire # <<>>)
        /\ conn'.wire = conn.wire /\ conn'.holds = conn.holds /\ conn'.lines = conn.lines
        /\ conn'.job = conn.job
    BY <1>1, <2>1 DEF Connection
  <2>3. Lines'
    BY <2>1, <2>2 DEF Environment, IInv, Lines, OneLine, ClosingLine, Quiet
  <2>4. Ends'
    BY <1>1, <2>1, <2>2 DEF Ends
  <2> QED BY <1>1, <2>1, <2>2, <2>3, <2>4, EnvironmentKeeps DEF Quiet
<1>6. CASE WorkerReads
  <2>1. /\ conn.worker = "live" /\ conn.holds = 0 /\ conn.wire # <<>> /\ Environment
        /\ conn.child # "gone" /\ pc # "retired"
    BY <1>6 DEF WorkerReads, IInv, Ends, RetiredLeavesNoChild
  <2>2. CASE pc = "closing"
    <3>1. conn.wire = <<Shutdown>> /\ conn.lines = <<>> /\ conn.job \notin {"queued", "broken"}
      BY <2>1, <2>2 DEF IInv, Lines, ClosingLine, Quiet
    <3>2. Head(conn.wire) = Shutdown /\ Tail(conn.wire) = <<>>
      BY <3>1 DEF Shutdown
    <3>3. /\ conn' = [conn EXCEPT !.wire = <<>>, !.worker = "dead",
                                 !.child = IF ssh THEN @ ELSE "gone",
                                 !.exit = IF ssh THEN @ ELSE "own"]
          /\ read' = read
      BY <1>6, <3>2 DEF WorkerReads, IsShutdown
    <3>4. /\ conn' \in Connection
          /\ conn'.wire = <<>> /\ conn'.holds = 0 /\ conn'.lines = <<>> /\ conn'.worker = "dead"
          /\ conn'.job = conn.job /\ conn'.has = conn.has
          /\ conn'.child = (IF ssh THEN conn.child ELSE "gone")
          /\ conn'.exit = (IF ssh THEN conn.exit ELSE "own")
      <4>1. conn' \in Connection
        BY <1>1, <2>1, <3>1, <3>3, Empty DEF Connection
      <4>2. /\ conn'.wire = <<>> /\ conn'.holds = 0 /\ conn'.lines = <<>> /\ conn'.worker = "dead"
            /\ conn'.job = conn.job /\ conn'.has = conn.has
            /\ conn'.child = (IF ssh THEN conn.child ELSE "gone")
            /\ conn'.exit = (IF ssh THEN conn.exit ELSE "own")
        BY <1>1, <2>1, <3>1, <3>3 DEF Connection
      <4> QED BY <4>1, <4>2
    <3>5. Lines' /\ Ends'
      BY <1>1, <2>1, <2>2, <3>4
         DEF Environment, IInv, Lines, ClosingLine, Quiet, Ends, Busy, Sending, Waiting
    <3> QED BY <1>1, <2>1, <3>3, <3>4, <3>5, EnvironmentKeeps DEF Quiet
  <2>3. CASE pc # "closing"
    <3>1. /\ pc \in Busy \cup {"failed"} /\ task # 0 /\ conn.job \notin {"queued", "broken"}
          /\ conn.wire = <<task>> /\ conn.lines = <<>>
      BY <1>1, <2>1, <2>3 DEF IInv, TypeOK, Lines, OneLine, Quiet, Busy, Sending, Waiting
    <3>2. Head(conn.wire) = task /\ Tail(conn.wire) = <<>>
      BY <1>1, <3>1
    <3>3. conn' = [conn EXCEPT !.wire = <<>>, !.holds = task] /\ read' = read \cup {task}
      BY <1>6, <3>1, <3>2 DEF WorkerReads, IsShutdown, Shutdown
    <3>4. /\ conn' \in Connection
          /\ conn'.wire = <<>> /\ conn'.holds = task /\ conn'.lines = <<>>
          /\ conn'.worker = conn.worker /\ conn'.child = conn.child /\ conn'.exit = conn.exit
          /\ conn'.has = conn.has /\ conn'.job = conn.job
      <4>1. conn' \in Connection
        BY <1>1, <2>1, <3>1, <3>3, Empty DEF Connection
      <4>2. /\ conn'.wire = <<>> /\ conn'.holds = task /\ conn'.lines = <<>>
            /\ conn'.worker = conn.worker /\ conn'.child = conn.child /\ conn'.exit = conn.exit
            /\ conn'.has = conn.has /\ conn'.job = conn.job
        BY <1>1, <2>1, <3>1, <3>3 DEF Connection
      <4> QED BY <4>1, <4>2
    <3>5. Lines' /\ Ends'
      BY <1>1, <2>1, <3>1, <3>4
         DEF Environment, IInv, Lines, OneLine, Quiet, Ends, Busy, Sending, Waiting
    <3>6. ~Quiet /\ (~ssh /\ pc = "send" => conn.has)
      BY <1>1, <2>1, <3>1 DEF IInv, TypeOK, Connection, Jobs, Lines, Ends, Quiet, Sending
    <3> QED BY <1>1, <2>1, <3>1, <3>3, <3>4, <3>5, <3>6, EnvironmentKeeps
  <2> QED BY <2>2, <2>3
<1>7. CASE WorkerAnswers
  <2>1. PICK g \in BOOLEAN :
          conn' = [conn EXCEPT !.holds = 0, !.lines = Append(@, [for |-> conn.holds, good |-> g])]
    BY <1>7 DEF WorkerAnswers
  <2>2. /\ conn.worker = "live" /\ conn.holds # 0 /\ read' = read /\ Environment
        /\ conn.child # "gone" /\ pc # "retired"
    BY <1>7 DEF WorkerAnswers, IInv, Ends, RetiredLeavesNoChild
  <2>3. /\ pc \in Busy \cup {"failed"} /\ conn.holds = task /\ conn.job \notin {"queued", "broken"}
        /\ conn.wire = <<>> /\ conn.lines = <<>>
    BY <1>1, <2>2 DEF IInv, TypeOK, Lines, OneLine, ClosingLine, Quiet, Busy, Sending, Waiting
  <2>4. PICK l : /\ l = <<[for |-> task, good |-> g]>>
                 /\ l \in Seq([for : TaskIds, good : BOOLEAN])
                 /\ Append(<<>>, [for |-> task, good |-> g]) = l
    <3>1. [for |-> task, good |-> g] \in [for : TaskIds, good : BOOLEAN]
      BY <1>1, <2>2, <2>3 DEF TaskIds
    <3> QED BY <3>1, One
  <2>5. conn' = [conn EXCEPT !.holds = 0, !.lines = l]
    BY <2>1, <2>3, <2>4
  <2>6. /\ conn' \in Connection
        /\ conn'.wire = <<>> /\ conn'.holds = 0 /\ conn'.lines = l
        /\ conn'.worker = conn.worker /\ conn'.child = conn.child /\ conn'.exit = conn.exit
        /\ conn'.has = conn.has /\ conn'.job = conn.job
    <3>1. conn' \in Connection
      BY <1>1, <2>3, <2>4, <2>5, Empty DEF Connection
    <3>2. /\ conn'.wire = <<>> /\ conn'.holds = 0 /\ conn'.lines = l
          /\ conn'.worker = conn.worker /\ conn'.child = conn.child /\ conn'.exit = conn.exit
          /\ conn'.has = conn.has /\ conn'.job = conn.job
      BY <1>1, <2>3, <2>4, <2>5 DEF Connection
    <3> QED BY <3>1, <3>2
  <2>7. Lines' /\ Ends'
    BY <1>1, <2>2, <2>3, <2>4, <2>6
       DEF Environment, IInv, Lines, OneLine, Quiet, Ends, Busy, Sending, Waiting
  <2> QED BY <1>1, <2>2, <2>6, <2>7, EnvironmentKeeps DEF Quiet
<1>8. ASSUME conn' \in Connection, read' = read, Environment,
             conn'.wire = conn.wire, conn'.holds \in {conn.holds, 0}, conn'.lines = conn.lines,
             conn'.has = conn.has, conn'.job = conn.job, conn'.worker = "dead",
             conn'.child \in {conn.child, "gone"}, ~ssh => conn'.child = "gone",
             ~ssh => conn'.exit = "own"
      PROVE  IInv'
  <2>1. Lines'
    BY <1>1, <1>8 DEF Environment, IInv, Lines, OneLine, ClosingLine, Quiet
  <2>2. Ends'
    BY <1>1, <1>8 DEF Environment, IInv, Ends
  <2> QED BY <1>1, <1>8, <2>1, <2>2, EnvironmentKeeps DEF Quiet
<1>9. CASE WorkerDies
  <2>1. /\ conn' \in Connection
        /\ conn'.wire = conn.wire /\ conn'.holds = 0 /\ conn'.lines = conn.lines
        /\ conn'.has = conn.has /\ conn'.job = conn.job /\ conn'.worker = "dead"
        /\ conn'.child = (IF ssh THEN conn.child ELSE "gone")
        /\ conn'.exit = (IF ssh THEN conn.exit ELSE "own")
    <3>1. conn' \in Connection
      BY <1>1, <1>9, Empty DEF WorkerDies, Connection
    <3>2. /\ conn'.wire = conn.wire /\ conn'.holds = 0 /\ conn'.lines = conn.lines
          /\ conn'.has = conn.has /\ conn'.job = conn.job /\ conn'.worker = "dead"
          /\ conn'.child = (IF ssh THEN conn.child ELSE "gone")
          /\ conn'.exit = (IF ssh THEN conn.exit ELSE "own")
      BY <1>1, <1>9 DEF WorkerDies, Connection
    <3> QED BY <3>1, <3>2
  <2> QED BY <1>8, <1>9, <2>1 DEF WorkerDies
<1>10. CASE SshEnds
  <2>1. /\ conn' \in Connection
        /\ conn'.wire = conn.wire /\ conn'.holds = conn.holds /\ conn'.lines = conn.lines
        /\ conn'.has = conn.has /\ conn'.job = conn.job /\ conn'.worker = "dead" /\ conn'.child = "gone"
    BY <1>1, <1>10 DEF SshEnds, Connection
  <2> QED BY <1>8, <1>10, <2>1 DEF SshEnds
<1>11. CASE SshFails
  <2>1. /\ conn' \in Connection
        /\ conn'.wire = conn.wire /\ conn'.holds = 0 /\ conn'.lines = conn.lines
        /\ conn'.has = conn.has /\ conn'.job = conn.job /\ conn'.worker = "dead" /\ conn'.child = "gone"
    <3>1. conn' \in Connection
      BY <1>1, <1>11, Empty DEF SshFails, Connection
    <3>2. /\ conn'.wire = conn.wire /\ conn'.holds = 0 /\ conn'.lines = conn.lines
          /\ conn'.has = conn.has /\ conn'.job = conn.job /\ conn'.worker = "dead" /\ conn'.child = "gone"
      BY <1>1, <1>11 DEF SshFails, Connection
    <3> QED BY <3>1, <3>2
  <2> QED BY <1>8, <1>11, <2>1 DEF SshFails
<1> QED BY <1>2, <1>3, <1>4, <1>5, <1>6, <1>7, <1>9, <1>10, <1>11, <1>12, <1>14, <1>15 DEF Others
-----------------------------------------------------------------------------
\* A line taken for a task's answer is its answer; between dispatches nothing is with the
\* writer or on its way; at most one deadline of a dispatch runs out; locally "worker" is
\* one process lost, any other answer none, and a broken write one nobody read, writes
\* that timed out excepted; and a handle given up leaves no child.
THEOREM HandleKeepsContract ==
    ASSUME HandleAssumption
    PROVE  Spec => [](TypeOK /\ ResultIsForItsTask /\ QuietBetweenDispatches
                       /\ OneDeadlinePerDispatch /\ AnswerContract /\ RetiredLeavesNoChild)
<1>1. Init => IInv
  <2> SUFFICES ASSUME Init PROVE IInv
    OBVIOUS
  <2>1. /\ Fresh("none") \in Connection /\ Fresh("none").job = "none"
        /\ Fresh("none").wire = <<>> /\ Fresh("none").holds = 0 /\ Fresh("none").lines = <<>>
        /\ ~Fresh("none").has /\ Fresh("none").exit = "none"
        /\ Fresh("none").child = (IF ssh THEN "connecting" ELSE "up")
        /\ Fresh("none").worker = (IF ssh THEN "absent" ELSE "live")
    <3>1. Fresh("none") \in Connection
      BY Empty DEF Fresh, Connection, Jobs
    <3> QED BY <3>1 DEF Fresh
  <2>2. /\ ssh \in BOOLEAN /\ pc = "idle" /\ task = 0 /\ conn = Fresh("none")
        /\ reply = NoReply /\ read = {} /\ lost = 0 /\ expired = 0
    BY DEF Init
  <2>3. TypeOK
    BY <2>1, <2>2 DEF TypeOK, NoReply, HandleAssumption
  <2>4. Lines /\ Ends
    BY <2>1, <2>2 DEF Lines, Ends, OneLine, Quiet, Busy, Sending, Waiting
  <2> QED BY <2>2, <2>3, <2>4
          DEF IInv, Charges, Reads, ResultIsForItsTask, AnswerContract,
              RetiredLeavesNoChild, NoReply, Busy, Sending, Waiting
<1>2. IInv /\ [Next]_vars => IInv'
  <2> SUFFICES ASSUME IInv, [Next]_vars PROVE IInv'
    OBVIOUS
  <2>1. CASE UNCHANGED vars
    <3>1. TypeOK' /\ Ends' /\ Charges' /\ Reads'
      BY <2>1 DEF vars, IInv, TypeOK, Ends, Charges, Reads, Quiet
    <3>2. Lines'
      BY <2>1 DEF vars, IInv, Lines, OneLine, ClosingLine, Quiet
    <3>3. ResultIsForItsTask' /\ AnswerContract' /\ RetiredLeavesNoChild'
      BY <2>1 DEF vars, IInv, ResultIsForItsTask, AnswerContract, RetiredLeavesNoChild
    <3> QED BY <3>1, <3>2, <3>3 DEF IInv
  <2> QED BY <2>1, CallerStep, OthersStep DEF Next
<1>3. IInv => /\ TypeOK /\ ResultIsForItsTask /\ QuietBetweenDispatches
              /\ OneDeadlinePerDispatch /\ AnswerContract /\ RetiredLeavesNoChild
  BY DEF IInv, Lines, Quiet, QuietBetweenDispatches, Charges, OneDeadlinePerDispatch
<1> QED BY <1>1, <1>2, <1>3, PTL DEF Spec
=============================================================================
