----------------------------- MODULE MCRunTrace -----------------------------
(* Bounds for RunTrace: queue operations, the reconciliation of a Worker,  *)
(* the second transaction of a request to resume (neither is retried by    *)
(* the decorator) and a cancellation.                                      *)
EXTENDS RunTrace

CONSTANTS q1, q2, reconcile, resume, cancel

OneQueueOp == {q1}
TwoQueueOps == {q1, q2}
MCRunOp == {reconcile, resume, cancel}
MCEarlyReader == {resume}
MCTouches == [o \in RunOp |-> IF o = cancel THEN QueueOp ELSE {}]
MCAttempts == [o \in QueueOp \cup RunOp |-> IF o \in {reconcile, resume} THEN 1 ELSE 2]
=============================================================================
