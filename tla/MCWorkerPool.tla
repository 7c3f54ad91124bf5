---------------------------- MODULE MCWorkerPool ----------------------------
(* Small pools for TLC: what the handles of a pool may answer a dispatch.   *)
EXTENDS WorkerPool, TLC

Says(o, k) == [out |-> o, killed |-> k]

\* LocalWorkerHandle: "worker" is one process that had the task; "unreachable" may be
\* one too, if its write timed out (WorkerHandle!AnswerContract).
LocalAnswers == [w \in Workers |->
    {Says("ok", 0), Says("task", 0), Says("worker", 1)}
        \cup {Says("unreachable", k) : k \in {0, 1}}]

\* SshWorkerHandle: besides, "worker" may be said of a host that never read the task.
\* (A dispatch that costs two processes is left out: one is enough to break the budget.)
SshAnswers == [w \in Workers |->
    {Says("ok", 0), Says("task", 0)}
        \cup {Says(o, k) : o \in {"unreachable", "worker"}, k \in {0, 1}}]

Symmetry == Permutations(Workers)
=============================================================================
