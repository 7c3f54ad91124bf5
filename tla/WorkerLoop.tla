----------------------------- MODULE WorkerLoop -----------------------------
(***************************************************************************)
(* run_worker_stdio (crates/nec_worker/src/worker.rs): the loop a worker   *)
(* process runs on its stdin and stdout, and the framing it enforces.      *)
(*                                                                         *)
(* A line is its length in bytes, the newline not counted, and what it     *)
(* says.  A read takes at most MAX_LINE_BYTES + 1 bytes and stops behind a *)
(* newline; the rest of an over-long line is drained in chunks.  Only the  *)
(* last line before EOF can lack its newline (a controller that died in    *)
(* the middle of a write).                                                 *)
(***************************************************************************)
EXTENDS Integers, Sequences, FiniteSets, SequencesExt

CONSTANTS MAX_LINE_BYTES,
          Lengths,   \* the lengths a line may have
          Kinds,     \* what a line may say
          MaxLines   \* bound: lines written to one worker

LoopAssumption ==
    /\ MAX_LINE_BYTES \in Nat \ {0} /\ MaxLines \in Nat
    /\ Lengths \subseteq Nat
    /\ Kinds \subseteq {"blank", "shutdown", "undecodable", "refused", "solved",
                        "nonfinite", "panics"}

VARIABLES sent,     \* the lines written to the worker, in order
          in,       \* what stdin still holds: the unread part of each line
          eof,      \* stdin ends behind in
          pc,       \* "read", "drain", "stopped"
          buf,      \* buf.len() or sink.len() after the last read
          long,     \* the over-long line being drained
          replies   \* what was written to stdout

vars == <<sent, in, eof, pc, buf, long, replies>>

Codes == {"ok", "parse_error", "unsupported_config", "singular_matrix", "internal",
          "resource_exhausted"}

TypeOK == /\ sent \in Seq([size : Lengths, kind : Kinds])
          /\ in \in Seq([line : 1 .. MaxLines, size : Nat, nl : {0, 1}, whole : BOOLEAN])
          /\ eof \in BOOLEAN
          /\ pc \in {"read", "drain", "stopped"}
          /\ buf \in 0 .. MAX_LINE_BYTES + 1
          /\ long \in 0 .. MaxLines
          /\ replies \in Seq([line : 1 .. MaxLines, code : Codes])

Init == /\ sent = <<>> /\ in = <<>> /\ eof = FALSE
        /\ pc = "read" /\ buf = 0 /\ long = 0
        /\ replies = <<>>
-----------------------------------------------------------------------------
(* The controller's end of the pipe                                        *)

Written(size, kind, nl) ==
    /\ ~eof /\ Len(sent) < MaxLines
    /\ sent' = Append(sent, [size |-> size, kind |-> kind])
    /\ in' = Append(in, [line |-> Len(sent) + 1, size |-> size, nl |-> nl, whole |-> TRUE])
    /\ UNCHANGED <<pc, buf, long, replies>>

Write(size, kind) == Written(size, kind, 1) /\ UNCHANGED eof

\* The controller dies after the line's last byte, before its newline.
WriteCutShort(size, kind) == size > 0 /\ Written(size, kind, 0) /\ eof' = TRUE

Close == /\ ~eof
         /\ eof' = TRUE
         /\ UNCHANGED <<sent, in, pc, buf, long, replies>>
-----------------------------------------------------------------------------
(* The worker                                                              *)

Bytes(piece) == piece.size + piece.nl

\* Read::take(limit).read_until(b'\n'): how many bytes come out.
Taken(limit) == IF Bytes(Head(in)) < limit THEN Bytes(Head(in)) ELSE limit

\* What stdin holds behind those bytes.
Behind(k) == IF k = Bytes(Head(in))
             THEN Tail(in)
             ELSE <<[Head(in) EXCEPT !.size = @ - k, !.whole = FALSE]>> \o Tail(in)

\* Mutant: a panic unwinds out of main with nothing written.
ProcessTaskUncaught(line, kind) ==
    IF kind = "panics"
    THEN pc' = "stopped" /\ UNCHANGED replies
    ELSE pc' = "read" /\ replies' = Append(replies, [line |-> line, code |-> "ok"])

\* process_task_caught: one result line for whatever the task line says.
ProcessTask(line, kind) ==
    /\ pc' = "read"
    /\ \E code \in CASE kind = "solved"      -> {"ok"}
                     [] kind = "nonfinite"   -> {"singular_matrix"}
                     [] kind = "panics"      -> {"internal"}
                     [] kind = "undecodable" -> {"parse_error"}
                     [] kind = "refused"     -> Codes \ {"ok", "internal"} :
         replies' = Append(replies, [line |-> line, code |-> code])

\* A read of at most MAX_LINE_BYTES bytes is a message.  Part of a line is no JSON.
Message == LET piece == Head(in)
               kind  == IF piece.whole /\ buf' = Bytes(piece)
                        THEN sent[piece.line].kind
                        ELSE "undecodable"
           IN CASE kind = "blank"    -> UNCHANGED <<pc, replies>>
                [] kind = "shutdown" -> pc' = "stopped" /\ UNCHANGED replies
                [] OTHER             -> ProcessTask(piece.line, kind)

OverLong(k) == k > MAX_LINE_BYTES

Read == /\ pc = "read" /\ in # <<>>
        /\ buf' = Taken(MAX_LINE_BYTES + 1)
        /\ in' = Behind(buf')
        /\ IF OverLong(buf')
           THEN pc' = "drain" /\ long' = Head(in).line /\ UNCHANGED replies
           ELSE Message /\ UNCHANGED long
        /\ UNCHANGED <<sent, eof>>

ReadEof == /\ pc = "read" /\ in = <<>> /\ eof
           /\ pc' = "stopped" /\ buf' = 0
           /\ UNCHANGED <<sent, in, eof, long, replies>>

\* The refusal, and back to the top of the loop.
Refuse == /\ pc' = "read" /\ long' = 0
          /\ replies' = Append(replies, [line |-> long, code |-> "resource_exhausted"])

\* Mutant: one chunk is read and the rest of the line is left.
ChunkEndsLineOnce(k) == TRUE

\* The chunk ended with the newline, or was cut short by EOF.
ChunkEndsLine(k) == \/ k = Bytes(Head(in)) /\ Head(in).nl = 1
                    \/ k < MAX_LINE_BYTES

Drain == /\ pc = "drain" /\ in # <<>>
         /\ buf' = Taken(MAX_LINE_BYTES)
         /\ in' = Behind(buf')
         /\ IF ChunkEndsLine(buf') THEN Refuse ELSE UNCHANGED <<pc, long, replies>>
         /\ UNCHANGED <<sent, eof>>

DrainEof == /\ pc = "drain" /\ in = <<>> /\ eof
            /\ buf' = 0
            /\ Refuse
            /\ UNCHANGED <<sent, in, eof>>
-----------------------------------------------------------------------------
Worker == Read \/ ReadEof \/ Drain \/ DrainEof

Controller == \/ \E size \in Lengths, kind \in Kinds :
                   Write(size, kind) \/ WriteCutShort(size, kind)
              \/ Close

Next == Worker \/ Controller

Spec == Init /\ [][Next]_vars

\* The process is scheduled and no solve runs for ever; the controller owes nothing.
FairSpec == Spec /\ WF_vars(Worker)
-----------------------------------------------------------------------------
(* Properties                                                              *)

BehindShutdown(k) == \E j \in 1 .. k - 1 : sent[j].kind = "shutdown" /\ sent[j].size <= MAX_LINE_BYTES

\* The lines a controller is owed an answer to.
Owed == {k \in 1 .. Len(sent) :
           /\ ~BehindShutdown(k)
           /\ sent[k].size > MAX_LINE_BYTES \/ sent[k].kind \notin {"blank", "shutdown"}}

\* Answers come in the order of their lines and never two for one line: the tail
\* of an over-long line is not answered as if it were a message.
OneReplyPerLine ==
    /\ \A i, j \in 1 .. Len(replies) : i < j => replies[i].line < replies[j].line
    /\ \A i \in 1 .. Len(replies) : replies[i].line \in Owed

\* A line over the documented maximum gets the refusal and nothing else: no part of
\* it reaches process_task.
RefusedForLength ==
    \A i \in 1 .. Len(replies) :
        sent[replies[i].line].size > MAX_LINE_BYTES => replies[i].code = "resource_exhausted"

\* Between two reads the worker owes nothing for what it has read: one refusal for
\* a long line, one result for the task behind it.
NothingSwallowed ==
    pc = "read" => Owed \subseteq {replies[i].line : i \in 1 .. Len(replies)}
                                  \cup {in[i].line : i \in 1 .. Len(in)}

\* Every line that is owed an answer gets it: neither a panic nor a long line,
\* nor a controller that died in the middle of one, leaves it unanswered.
EveryLineAnswered ==
    \A k \in 1 .. MaxLines : k \in Owed ~> \E i \in 1 .. Len(replies) : replies[i].line = k
=============================================================================
