------------------------ MODULE ExecutionQueueProofs ------------------------
(***************************************************************************)
(* Proofs about ExecutionQueue, for any number of tasks, slots, workers,   *)
(* tokens, attempts and faults.                                            *)
(***************************************************************************)
EXTENDS ExecutionQueue, TLAPS

-----------------------------------------------------------------------------
(* Types of the values that the actions build.                               *)

\* The empty row and the empty job are a row and a job.
LEMMA EmptyTypes == NoRow \in Row /\ NoJob \in ClaimedTask
  BY DEF NoRow, Row, NoJob, ClaimedTask

\* A change of status gives a row.
LEMMA StatusType ==
    ASSUME NEW row \in Row, NEW status \in ExecutionTaskStatus
    PROVE  [row EXCEPT !.status = status] \in Row
  BY DEF Row

\* Giving a row back, with the lease cleared, gives a row.
LEMMA ReleasedType ==
    ASSUME NEW row \in Row, NEW status \in ExecutionTaskStatus
    PROVE  Released(row, status) \in Row
  BY DEF Row, Released

\* A claim gives a row.
LEMMA ClaimedType ==
    ASSUME NEW row \in Row, NEW w \in Worker, NEW k \in Token
    PROVE  [row EXCEPT !.status = "claimed", !.locked_by = w, !.lease_token = k] \in Row
  BY DEF Row, ExecutionTaskStatus

\* The start of an attempt gives a row.
LEMMA StartedType ==
    ASSUME NEW row \in Row, NEW n \in Nat
    PROVE  [row EXCEPT !.status = "running", !.attempt = n] \in Row
  BY DEF Row, ExecutionTaskStatus

\* What claim() hands to the slot is a job.
LEMMA JobType ==
    /\ \A t \in Task : [NoJob EXCEPT !.task = t] \in ClaimedTask
    /\ \A j \in ClaimedTask, k \in Token, n \in Nat :
          [j EXCEPT !.token = k, !.attempt = n] \in ClaimedTask
  BY DEF NoJob, ClaimedTask

\* The attempt of a row is a number; a job names a task or None.
LEMMA FieldTypes ==
    /\ \A row \in Row : row.attempt \in Nat /\ row.lease_token \in Token \cup {None}
    /\ \A j \in ClaimedTask : /\ j.task \in Task \cup {None} /\ j.attempt \in Nat
                             /\ j.token \in Token \cup {None}
  BY DEF Row, ClaimedTask

\* A slot that goes idle or on to its reconciliation keeps the types.
LEMMA GoToType ==
    ASSUME TypeOK, NEW s \in Slot, NEW p \in {"idle", "reconcile"}, GoTo(s, p)
    PROVE  /\ pc' \in [Slot -> {"idle", "lookup", "claimed", "starting", "executing", "reconcile"}]
           /\ job' \in [Slot -> ClaimedTask]
           /\ seen' \in [Slot -> Row]
           /\ seenNode' \in [Slot -> NodeRunStatus]
  <1> USE EmptyTypes
  <1> QED BY DEF TypeOK, GoTo, NodeRunStatus

\* Replacing the row of one task keeps the types: so does a step that names a
\* task that does not exist, because EXCEPT leaves the function alone.
LEMMA RowReplaced ==
    ASSUME NEW rows \in [Task -> Row], NEW t, NEW row, t \in Task => row \in Row
    PROVE  [rows EXCEPT ![t] = row] \in [Task -> Row]
  OBVIOUS

\* The transactions of the scheduler keep the types.
LEMMA SchedulerType ==
    ASSUME TypeOK, SchedulerEffect
    PROVE  run' \in WorkflowRunStatus /\ node' \in [Task -> NodeRunStatus] /\ task' \in [Task -> Row]
  <1>1. PICK submitted, skipped, passed, rejected, cancelled :
           /\ run' \in WorkflowRunStatus
           /\ task' = Rows(submitted, cancelled)
           /\ node' = NodeStatuses(submitted, skipped, passed, rejected, cancelled)
    BY DEF SchedulerEffect
  <1>2. Rows(submitted, cancelled) \in [Task -> Row]
    <2> SUFFICES ASSUME NEW t \in Task
                 PROVE  (IF t \in submitted THEN [task[t] EXCEPT !.status = "pending"]
                         ELSE IF t \in cancelled /\ Open(task[t])
                              THEN [task[t] EXCEPT !.status = "cancelled"]
                              ELSE task[t]) \in Row
      BY DEF Rows
    <2>1. task[t] \in Row
      BY DEF TypeOK
    <2>2. [task[t] EXCEPT !.status = "pending"] \in Row
      BY <2>1, StatusType DEF ExecutionTaskStatus
    <2>3. [task[t] EXCEPT !.status = "cancelled"] \in Row
      BY <2>1, StatusType DEF ExecutionTaskStatus
    <2> QED BY <2>1, <2>2, <2>3
  <1>3. NodeStatuses(submitted, skipped, passed, rejected, cancelled) \in [Task -> NodeRunStatus]
    <2> SUFFICES ASSUME NEW t \in Task
                 PROVE  (CASE t \in submitted -> "queued"
                           [] t \in skipped -> "skipped"
                           [] t \in passed -> "completed"
                           [] t \in rejected -> "failed"
                           [] t \in cancelled -> "cancelled"
                           [] OTHER -> node[t]) \in NodeRunStatus
      BY DEF NodeStatuses
    <2> QED BY DEF TypeOK, NodeRunStatus
  <1> QED BY <1>1, <1>2, <1>3

-----------------------------------------------------------------------------
(* Type correctness *)

\* Replacing the status of one node keeps the types.
LEMMA NodeReplaced ==
    ASSUME NEW nodes \in [Task -> NodeRunStatus], NEW t, NEW status,
           t \in Task => status \in NodeRunStatus
    PROVE  [nodes EXCEPT ![t] = status] \in [Task -> NodeRunStatus]
  OBVIOUS

\* A report writes a row and a node status and ends the slot's job.
LEMMA WriteType ==
    ASSUME TypeOK, NEW s \in Slot, NEW row, NEW status, NEW p \in {"idle", "reconcile"},
           job[s].task \in Task => row \in Row,
           job[s].task \in Task => status \in NodeRunStatus,
           Write(s, row, status, p)
    PROVE  TypeOK'
  <1>1. task' \in [Task -> Row]
    BY RowReplaced DEF TypeOK, Write
  <1>2. node' \in [Task -> NodeRunStatus]
    BY NodeReplaced DEF TypeOK, Write
  <1>3. GoTo(s, p) /\ UNCHANGED <<run, ttl, faults>>
    BY DEF Write
  <1> QED BY <1>1, <1>2, <1>3, GoToType DEF TypeOK

\* A slot that goes idle or on to its reconciliation, and changes nothing else.
LEMMA LeaveType ==
    ASSUME TypeOK, NEW s \in Slot, NEW p \in {"idle", "reconcile"}, GoTo(s, p),
           UNCHANGED <<run, node, task, ttl>>, faults' \in 0..MaxFaults
    PROVE  TypeOK'
  BY GoToType DEF TypeOK

\* The types of the values a slot reports from.
LEMMA JobRow ==
    ASSUME TypeOK, NEW s \in Slot, job[s].task \in Task
    PROVE  task[job[s].task] \in Row /\ node[job[s].task] \in NodeRunStatus
  BY DEF TypeOK

\* Every step of a slot's code keeps the types.  That the slot knows a task
\* between its lookup and its report (SlotShape) is needed for the fields it
\* copies from the row of that task.
LEMMA SlotStepType ==
    ASSUME TypeOK, SlotShape, NEW s \in Slot, SlotStep(s)
    PROVE  TypeOK'
  <1> USE QueueAssumption
  <1>a. pc[s] \in {"lookup", "claimed", "starting", "executing"} => job[s].task \in Task
    BY DEF SlotShape
  <1>1. CASE ClaimLookup(s)
    <2>1. PICK t \in Task : job' = [job EXCEPT ![s] = [NoJob EXCEPT !.task = t]]
      BY <1>1 DEF ClaimLookup
    <2>2. job' \in [Slot -> ClaimedTask]
      BY <2>1, JobType DEF TypeOK
    <2> QED BY <1>1, <2>2 DEF ClaimLookup, TypeOK
  <1>2. CASE Claim(s)
    <2>1. PICK k \in Token :
             /\ task' = [task EXCEPT ![job[s].task] =
                           [@ EXCEPT !.status = "claimed", !.locked_by = WorkerOf[s],
                                     !.lease_token = k]]
             /\ ttl' = [ttl EXCEPT ![k] = LeaseTicks]
             /\ job' = [job EXCEPT ![s] =
                           [@ EXCEPT !.token = k, !.attempt = task[job[s].task].attempt]]
      BY <1>2 DEF Claim, FreshToken
    <2>2. job[s].task \in Task
      BY <1>2, <1>a DEF Claim
    <2>3. task[job[s].task] \in Row /\ task[job[s].task].attempt \in Nat /\ WorkerOf[s] \in Worker
      BY <2>2, JobRow, FieldTypes
    <2>4. task' \in [Task -> Row]
      BY <2>1, <2>3, ClaimedType DEF TypeOK
    <2>5. job' \in [Slot -> ClaimedTask]
      BY <2>1, <2>3, JobType DEF TypeOK
    <2>6. ttl' \in [Token -> 0..LeaseTicks]
      BY <2>1 DEF TypeOK
    <2> QED BY <1>2, <2>4, <2>5, <2>6 DEF Claim, TypeOK
  <1>3. CASE ClaimLost(s)
    BY <1>3, LeaveType DEF ClaimLost, TypeOK
  <1>4. CASE StartRead(s)
    <2>1. task[job[s].task] \in Row /\ node[job[s].task] \in NodeRunStatus
      BY <1>4, <1>a, JobRow DEF StartRead
    <2> QED BY <1>4, <2>1 DEF StartRead, TypeOK
  <1>5. CASE StartLost(s)
    BY <1>5, LeaveType DEF StartLost, TypeOK
  <1>6. CASE Start(s)
    <2>1. task[job[s].task] \in Row /\ job[s].task \in Task
      BY <1>6, <1>a, JobRow DEF Start
    <2>2. seen[s].attempt + 1 \in Nat
      BY FieldTypes DEF TypeOK
    <2>3. task' \in [Task -> Row]
      BY <1>6, <2>1, <2>2, StartedType DEF Start, TypeOK
    <2>4. node' \in [Task -> NodeRunStatus]
      BY <1>6, <2>1 DEF Start, TypeOK, NodeRunStatus
    <2>5. seen' \in [Slot -> Row] /\ seenNode' \in [Slot -> NodeRunStatus]
      BY <1>6, EmptyTypes DEF Start, TypeOK, NodeRunStatus
    <2> QED BY <1>6, <2>3, <2>4, <2>5 DEF Start, TypeOK
  <1>7. CASE StartReleased(s)
    <2>1. task[job[s].task] \in Row
      BY <1>7, <1>a, JobRow DEF StartReleased
    <2>2. task' \in [Task -> Row]
      BY <1>7, <2>1, ReleasedType DEF StartReleased, TypeOK, ExecutionTaskStatus
    <2> QED BY <1>7, <2>2, GoToType DEF StartReleased, TypeOK
  <1>8. CASE StartCancelled(s)
    <2>1. task[job[s].task] \in Row
      BY <1>8, <1>a, JobRow DEF StartCancelled
    <2>2. task' \in [Task -> Row]
      BY <1>8, <2>1, StatusType DEF StartCancelled, TypeOK, ExecutionTaskStatus
    <2>3. node' \in [Task -> NodeRunStatus]
      BY <1>8, <1>a DEF StartCancelled, TypeOK, NodeRunStatus
    <2> QED BY <1>8, <2>2, <2>3, GoToType DEF StartCancelled, TypeOK
  <1>9. ASSUME Reporting(s)
        PROVE  task[job[s].task] \in Row /\ node[job[s].task] \in NodeRunStatus
    BY <1>9, <1>a, JobRow DEF Reporting
  <1>10. CASE complete(s)
    BY <1>10, <1>9, WriteType, StatusType DEF complete, ExecutionTaskStatus, NodeRunStatus
  <1>11. CASE fail(s)
    BY <1>11, <1>9, WriteType, StatusType DEF fail, ExecutionTaskStatus, NodeRunStatus
  <1>12. CASE wait_node(s)
    BY <1>12, <1>9, WriteType, StatusType DEF wait_node, ExecutionTaskStatus, NodeRunStatus
  <1>13. CASE schedule_retry(s)
    BY <1>13, <1>9, WriteType, ReleasedType DEF schedule_retry, ExecutionTaskStatus, NodeRunStatus
  <1>14. CASE ReportRefused(s)
    BY <1>14, LeaveType DEF ReportRefused, TypeOK
  <1>15. CASE renew_lease(s)
    <2>1. ttl' = [ttl EXCEPT ![job[s].token] = LeaseTicks] /\ LeaseTicks \in 0..LeaseTicks
      BY <1>15 DEF renew_lease
    <2>2. ttl' \in [Token -> 0..LeaseTicks]
      BY <2>1 DEF TypeOK
    <2> QED BY <1>15, <2>2 DEF renew_lease, TypeOK, slotVars
  <1> QED BY <1>1, <1>2, <1>3, <1>4, <1>5, <1>6, <1>7, <1>8, <1>10, <1>11, <1>12, <1>13,
             <1>14, <1>15 DEF SlotStep

\* So does every other step of the queue.
LEMMA OtherStepType ==
    ASSUME TypeOK,
           \/ \E s \in Slot : ReconcileAfter(s) \/ Abort(s)
           \/ \E k \in Token : LeaseAges(k)
           \/ recover_expired \/ promote_due_retries \/ SchedulerStep
    PROVE  TypeOK'
  <1> USE QueueAssumption
  <1>1. ASSUME NEW s \in Slot, ReconcileAfter(s) PROVE TypeOK'
    BY <1>1, SchedulerType, GoToType DEF ReconcileAfter, TypeOK
  <1>2. ASSUME NEW s \in Slot, Abort(s) PROVE TypeOK'
    BY <1>2, LeaveType DEF Abort, TypeOK
  <1>3. ASSUME NEW k \in Token, LeaseAges(k) PROVE TypeOK'
    <2>1. ttl' \in [Token -> 0..LeaseTicks]
      BY <1>3 DEF LeaseAges, TypeOK
    <2>2. faults' \in 0..MaxFaults
      BY <1>3 DEF LeaseAges, TypeOK
    <2> QED BY <1>3, <2>1, <2>2 DEF LeaseAges, TypeOK, slotVars
  <1>4. CASE recover_expired
    <2>1. task' \in [Task -> Row]
      BY <1>4, ReleasedType DEF recover_expired, TypeOK, ExecutionTaskStatus
    <2> QED BY <1>4, <2>1 DEF recover_expired, TypeOK, slotVars
  <1>5. CASE promote_due_retries
    <2>a. PICK due : task' = [t \in Task |-> IF t \in due
                                            THEN [task[t] EXCEPT !.status = "pending"] ELSE task[t]]
      BY <1>5 DEF promote_due_retries
    <2>b. \A t \in Task : task[t] \in Row /\ [task[t] EXCEPT !.status = "pending"] \in Row
      BY StatusType DEF TypeOK, ExecutionTaskStatus
    <2>1. task' \in [Task -> Row]
      BY <2>a, <2>b
    <2>2. node' \in [Task -> NodeRunStatus]
      BY <1>5 DEF promote_due_retries, TypeOK, NodeRunStatus
    <2> QED BY <1>5, <2>1, <2>2 DEF promote_due_retries, TypeOK, slotVars
  <1>6. CASE SchedulerStep
    BY <1>6, SchedulerType DEF SchedulerStep, TypeOK, slotVars
  <1> QED BY <1>1, <1>2, <1>3, <1>4, <1>5, <1>6

-----------------------------------------------------------------------------
(* What the steps do, field by field.                                        *)

\* The fields of an empty row and of an empty job.
LEMMA EmptyFields ==
    /\ NoRow.status = "absent" /\ NoRow.lease_token = None /\ NoRow.attempt = 0
    /\ NoJob.task = None /\ NoJob.token = None /\ NoJob.attempt = 0
  BY DEF NoRow, NoJob

\* The fields after a change of status.
LEMMA StatusFields ==
    ASSUME NEW row \in Row, NEW status
    PROVE  /\ [row EXCEPT !.status = status].status = status
           /\ [row EXCEPT !.status = status].locked_by = row.locked_by
           /\ [row EXCEPT !.status = status].lease_token = row.lease_token
           /\ [row EXCEPT !.status = status].attempt = row.attempt
  BY DEF Row

\* The fields after a release.
LEMMA ReleasedFields ==
    ASSUME NEW row \in Row, NEW status
    PROVE  /\ Released(row, status).status = status
           /\ Released(row, status).lease_token = None
           /\ Released(row, status).attempt = row.attempt
  BY DEF Row, Released

\* The fields after a claim.
LEMMA ClaimedFields ==
    ASSUME NEW row \in Row, NEW w, NEW k
    PROVE  LET r == [row EXCEPT !.status = "claimed", !.locked_by = w, !.lease_token = k]
           IN  /\ r.status = "claimed" /\ r.locked_by = w
               /\ r.lease_token = k /\ r.attempt = row.attempt
  BY DEF Row

\* The fields after the start of an attempt.
LEMMA StartedFields ==
    ASSUME NEW row \in Row, NEW n
    PROVE  LET r == [row EXCEPT !.status = "running", !.attempt = n]
           IN  /\ r.status = "running" /\ r.locked_by = row.locked_by
               /\ r.lease_token = row.lease_token /\ r.attempt = n
  BY DEF Row

\* The fields of a job after a lookup and after a claim.
LEMMA JobFields ==
    /\ \A t : [NoJob EXCEPT !.task = t].task = t /\ [NoJob EXCEPT !.task = t].token = None
    /\ \A j \in ClaimedTask : \A k, n :
          /\ [j EXCEPT !.token = k, !.attempt = n].task = j.task
          /\ [j EXCEPT !.token = k, !.attempt = n].token = k
          /\ [j EXCEPT !.token = k, !.attempt = n].attempt = n
  BY DEF NoJob, ClaimedTask

\* A slot that forgets its task; the other slots keep their state.
LEMMA GoToEffect ==
    ASSUME TypeOK, NEW s \in Slot, NEW p, GoTo(s, p)
    PROVE  /\ pc'[s] = p /\ job'[s] = NoJob
           /\ \A x \in Slot \ {s} : /\ pc'[x] = pc[x] /\ job'[x] = job[x]
                                    /\ seen'[x] = seen[x] /\ seenNode'[x] = seenNode[x]
  BY DEF TypeOK, GoTo

-----------------------------------------------------------------------------
(* Fencing: the rows and the slots, whatever the run and the nodes say.      *)

\* What a row is worth now.
LEMMA FaultsPaidNow ==
    ASSUME TypeOK, Fencing, NEW t \in Task
    PROVE  Paid(t) /\ task[t].attempt \in Nat /\ MaxAttempts[t] \in Nat /\ faults \in Nat
  BY FieldTypes, QueueAssumption DEF Fencing, FaultsPaid, TypeOK

\* A slot that leaves while nobody touches the rows.  What is left to show of the
\* fencing are the faults, which the slot may have had to account for.
LEMMA LeaveFences ==
    ASSUME TypeOK, Fencing, NEW s \in Slot, NEW p \in {"idle", "reconcile"}, GoTo(s, p),
           UNCHANGED <<task, ttl>>, faults' \in {faults, faults + 1}, FaultsPaid'
    PROVE  Fencing'
  <1> USE DEF Fencing
  <1>0. /\ pc'[s] = p /\ job'[s].task = None /\ job'[s].token = None
        /\ \A x \in Slot \ {s} : /\ pc'[x] = pc[x] /\ job'[x] = job[x]
                                 /\ seen'[x] = seen[x] /\ seenNode'[x] = seenNode[x]
    BY GoToEffect, EmptyFields
  <1>1. LeaseShape'
    BY DEF LeaseShape, Held
  <1>2. SlotShape'
    BY <1>0 DEF SlotShape
  <1>3. TokensUnique'
    BY <1>0 DEF TokensUnique
  <1>4. RowFollowsSlot'
    BY <1>0 DEF RowFollowsSlot
  <1>5. SnapshotHolds'
    BY <1>0 DEF SnapshotHolds, Snapshot
  <1>6. AttemptOrder'
    BY <1>0 DEF AttemptOrder
  <1>7. AttemptsDistinct'
    BY <1>0 DEF AttemptsDistinct
  <1>8. ClaimsPaid'
    <2> SUFFICES ASSUME NEW x \in Slot, pc'[x] \in {"claimed", "starting"}
                 PROVE  job'[x].attempt < MaxAttempts[job'[x].task] + faults'
      BY DEF ClaimsPaid
    <2>1. x # s /\ job'[x] = job[x] /\ job[x].task \in Task /\ pc[x] \in {"claimed", "starting"}
      BY <1>0 DEF SlotShape
    <2>2. job[x].attempt \in Nat /\ MaxAttempts[job[x].task] \in Nat /\ faults \in Nat
      BY <2>1, FieldTypes, QueueAssumption DEF TypeOK
    <2> QED BY <2>1, <2>2 DEF ClaimsPaid
  <1> QED BY <1>1, <1>2, <1>3, <1>4, <1>5, <1>6, <1>7, <1>8

\* A slot without a lease that owes an attempt leaves; the rows stay paid for.
LEMMA LeavePaid ==
    ASSUME TypeOK, Fencing, NEW s \in Slot, NEW p, GoTo(s, p), UNCHANGED <<task, ttl, faults>>,
           \A t \in Task : /\ task[t].status = "running" /\ task[t].lease_token = job[s].token
                           /\ ttl[job[s].token] > 0
                           => job[s].token = None
    PROVE  FaultsPaid'
  <1> USE DEF Fencing
  <1> SUFFICES ASSUME NEW t \in Task PROVE Paid(t)'
    BY DEF FaultsPaid
  <1>1. Paid(t)
    BY DEF FaultsPaid
  <1>2. \A x \in Slot \ {s} : job'[x] = job[x]
    BY GoToEffect
  <1>3. CASE task[t].status = "running"
    <2>1. task[t].lease_token # None
      BY <1>3 DEF LeaseShape, Held
    <2>2. Working(task[t].lease_token) /\ ttl[task[t].lease_token] > 0
             => Working(task[t].lease_token)'
      BY <1>2, <1>3, <2>1 DEF Working
    <2> QED BY <1>1, <1>3, <2>2 DEF Paid
  <1>4. CASE task[t].status # "running"
    BY <1>1, <1>4 DEF Paid
  <1> QED BY <1>3, <1>4

\* claim(): the lookup changes only what the slot knows.
LEMMA ClaimLookupFences ==
    ASSUME TypeOK, Fencing, NEW s \in Slot, ClaimLookup(s)
    PROVE  Fencing'
  <1> USE DEF Fencing
  <1>1. PICK t0 \in Task : job' = [job EXCEPT ![s] = [NoJob EXCEPT !.task = t0]]
    BY DEF ClaimLookup
  <1>2. /\ pc'[s] = "lookup" /\ job'[s].task \in Task /\ job'[s].token = None
        /\ \A x \in Slot \ {s} : pc'[x] = pc[x] /\ job'[x] = job[x]
        /\ pc[s] = "idle"
        /\ UNCHANGED <<task, ttl, seen, faults>>
    BY <1>1, JobFields DEF ClaimLookup, TypeOK
  <1>3. job[s].token = None
    BY <1>2 DEF SlotShape
  <1>4. LeaseShape'
    BY <1>2 DEF LeaseShape, Held
  <1>5. SlotShape'
    BY <1>2 DEF SlotShape
  <1>6. TokensUnique'
    BY <1>2 DEF TokensUnique
  <1>7. RowFollowsSlot'
    BY <1>2 DEF RowFollowsSlot
  <1>8. SnapshotHolds'
    BY <1>2 DEF SnapshotHolds, Snapshot
  <1>9. AttemptOrder' /\ ClaimsPaid'
    BY <1>2 DEF AttemptOrder, ClaimsPaid
  <1>10. AttemptsDistinct'
    BY <1>2 DEF AttemptsDistinct
  <1>11. FaultsPaid'
    <2>1. \A t \in Task : Working(task[t].lease_token) /\ task[t].lease_token # None
                           => Working(task[t].lease_token)'
      BY <1>2, <1>3 DEF Working
    <2> QED BY <1>2, <2>1 DEF FaultsPaid, Paid, LeaseShape, Held
  <1> QED BY <1>4, <1>5, <1>6, <1>7, <1>8, <1>9, <1>10, <1>11

\* What a claim does to the row and to the slot.
LEMMA ClaimEffect ==
    ASSUME TypeOK, Fencing, NEW s \in Slot, Claim(s)
    PROVE  \E k \in FreshToken :
             LET T == job[s].task IN
             /\ T \in Task /\ task[T].status = "pending" /\ task[T].attempt \in Nat
             /\ task'[T].status = "claimed" /\ task'[T].locked_by = WorkerOf[s]
             /\ task'[T].lease_token = k /\ task'[T].attempt = task[T].attempt
             /\ \A t \in Task \ {T} : task'[t] = task[t]
             /\ pc'[s] = "claimed" /\ pc[s] = "lookup"
             /\ job'[s].task = T /\ job'[s].token = k /\ job'[s].attempt = task[T].attempt
             /\ \A x \in Slot \ {s} : pc'[x] = pc[x] /\ job'[x] = job[x]
             /\ UNCHANGED <<run, node, seen, seenNode, faults>>
             /\ ttl'[k] = LeaseTicks /\ \A i \in Token \ {k} : ttl'[i] = ttl[i]
  <1> DEFINE T == job[s].task
  <1>1. PICK k \in FreshToken :
           /\ task' = [task EXCEPT ![T] = [@ EXCEPT !.status = "claimed",
                                         !.locked_by = WorkerOf[s], !.lease_token = k]]
           /\ ttl' = [ttl EXCEPT ![k] = LeaseTicks]
           /\ job' = [job EXCEPT ![s] = [@ EXCEPT !.token = k, !.attempt = task[T].attempt]]
    BY DEF Claim
  <1>2. T \in Task /\ task[T].status = "pending" /\ task[T] \in Row /\ task[T].attempt \in Nat
    BY FieldTypes DEF Claim, Claimable, Fencing, SlotShape, TypeOK
  <1>3. /\ task'[T].status = "claimed" /\ task'[T].locked_by = WorkerOf[s]
        /\ task'[T].lease_token = k /\ task'[T].attempt = task[T].attempt
        /\ \A t \in Task \ {T} : task'[t] = task[t]
    BY <1>1, <1>2, ClaimedFields DEF TypeOK
  <1>4. job[s] \in ClaimedTask /\ job'[s] = [job[s] EXCEPT !.token = k, !.attempt = task[T].attempt]
    BY <1>1 DEF TypeOK
  <1>5. job'[s].task = T /\ job'[s].token = k /\ job'[s].attempt = task[T].attempt
    BY <1>4, JobFields
  <1>6. /\ pc'[s] = "claimed" /\ pc[s] = "lookup"
        /\ \A x \in Slot \ {s} : pc'[x] = pc[x] /\ job'[x] = job[x]
        /\ UNCHANGED <<run, node, seen, seenNode, faults>>
    BY <1>1 DEF Claim, TypeOK
  <1>7. ttl'[k] = LeaseTicks /\ \A i \in Token \ {k} : ttl'[i] = ttl[i]
    BY <1>1 DEF TypeOK, FreshToken
  <1> QED BY <1>2, <1>3, <1>5, <1>6, <1>7

\* A claim takes a token that occurs nowhere, so nobody else's lease changes.
LEMMA ClaimFences ==
    ASSUME TypeOK, Fencing, NEW s \in Slot, Claim(s)
    PROVE  Fencing'
  <1> USE DEF Fencing
  <1> USE QueueAssumption
  <1> DEFINE T == job[s].task
  <1>1. PICK k \in FreshToken :
             /\ T \in Task /\ task[T].status = "pending" /\ task[T].attempt \in Nat
             /\ task'[T].status = "claimed" /\ task'[T].locked_by = WorkerOf[s]
             /\ task'[T].lease_token = k /\ task'[T].attempt = task[T].attempt
             /\ \A t \in Task \ {T} : task'[t] = task[t]
             /\ pc'[s] = "claimed" /\ pc[s] = "lookup"
             /\ job'[s].task = T /\ job'[s].token = k /\ job'[s].attempt = task[T].attempt
             /\ \A x \in Slot \ {s} : pc'[x] = pc[x] /\ job'[x] = job[x]
             /\ UNCHANGED <<run, node, seen, seenNode, faults>>
             /\ ttl'[k] = LeaseTicks /\ \A i \in Token \ {k} : ttl'[i] = ttl[i]
    BY ClaimEffect
  <1>2. /\ k \in Token /\ k # None
        /\ \A t \in Task : task[t].lease_token # k
        /\ \A x \in Slot : job[x].token # k /\ seen[x].lease_token # k
    BY <1>1 DEF FreshToken
  <1>3. task[T].lease_token = None /\ job[s].token = None
    BY <1>1 DEF LeaseShape, SlotShape
  <1>4. LeaseShape'
    BY <1>1, <1>2 DEF LeaseShape, Held
  <1>5. SlotShape'
    BY <1>1, <1>2 DEF SlotShape
  <1>6. TokensUnique'
    BY <1>1, <1>2 DEF TokensUnique
  <1>7. RowFollowsSlot'
    BY <1>1, <1>2 DEF RowFollowsSlot, SlotShape
  <1>8. SnapshotHolds'
    <2> SUFFICES ASSUME NEW x \in Slot, pc'[x] = "starting" PROVE Snapshot(x)'
      BY DEF SnapshotHolds, Snapshot
    <2>1. x # s /\ job[x].token \in Token \ {k} /\ job[x].task \in Task
      BY <1>1, <1>2, FieldTypes DEF SlotShape, TypeOK
    <2>2. Snapshot(x)
      BY DEF SnapshotHolds
    <2> QED BY <1>1, <1>2, <1>3, <2>1, <2>2 DEF Snapshot
  <1>9. AttemptOrder'
    <2>1. \A t \in Task : task'[t].attempt = task[t].attempt /\ task[t].attempt \in Nat
      BY <1>1, FieldTypes DEF TypeOK
    <2> QED BY <1>1, <2>1 DEF AttemptOrder, SlotShape
  <1>10. AttemptsDistinct'
    BY <1>1 DEF AttemptsDistinct
  <1>11. Paid(T)
    BY <1>1 DEF FaultsPaid
  <1>12. ClaimsPaid'
    BY <1>1, <1>11 DEF ClaimsPaid, Paid
  <1>13. FaultsPaid'
    <2> SUFFICES ASSUME NEW t \in Task PROVE Paid(t)'
      BY DEF FaultsPaid
    <2>1. Paid(t)
      BY DEF FaultsPaid
    <2>2. CASE t = T
      BY <1>1, <2>1, <2>2 DEF Paid
    <2>3. CASE t # T /\ task[t].status = "running"
      <3>1. task[t].lease_token \in Token \ {k}
        BY <1>2, <2>3, FieldTypes DEF LeaseShape, Held, TypeOK
      <3>2. Working(task[t].lease_token) => Working(task[t].lease_token)'
        BY <1>1, <1>3, <2>3, <3>1 DEF Working
      <3> QED BY <1>1, <2>1, <2>3, <3>1, <3>2 DEF Paid, Working
    <2>4. CASE t # T /\ task[t].status # "running"
      BY <1>1, <2>1, <2>4 DEF Paid
    <2> QED BY <2>2, <2>3, <2>4
  <1> QED BY <1>4, <1>5, <1>6, <1>7, <1>8, <1>9, <1>10, <1>12, <1>13

\* A lost candidate changes nothing but the slot.
LEMMA ClaimLostFences ==
    ASSUME TypeOK, Fencing, NEW s \in Slot, ClaimLost(s)
    PROVE  Fencing'
  <1>1. FaultsPaid'
    <2>1. job[s].token = None
      BY DEF ClaimLost, Fencing, SlotShape
    <2> QED BY <2>1, LeavePaid DEF ClaimLost
  <1> QED BY <1>1, LeaveFences DEF ClaimLost

\* start(): the snapshot is the current row, so it holds for now.
LEMMA StartReadFences ==
    ASSUME TypeOK, Fencing, NEW s \in Slot, StartRead(s)
    PROVE  Fencing'
  <1> USE DEF Fencing
  <1> DEFINE T == job[s].task
  <1>1. /\ pc[s] = "claimed" /\ pc'[s] = "starting" /\ seen'[s] = task[T]
        /\ \A x \in Slot \ {s} : pc'[x] = pc[x] /\ seen'[x] = seen[x]
        /\ UNCHANGED <<task, ttl, job, faults>>
    BY DEF StartRead, TypeOK
  <1>2. T \in Task /\ job[s].token # None
    BY <1>1 DEF SlotShape
  <1>3. LeaseShape' /\ TokensUnique'
    BY <1>1 DEF LeaseShape, Held, TokensUnique
  <1>4. SlotShape'
    BY <1>1 DEF SlotShape
  <1>5. RowFollowsSlot'
    BY <1>1 DEF RowFollowsSlot
  <1>6. AttemptOrder' /\ ClaimsPaid'
    BY <1>1 DEF AttemptOrder, ClaimsPaid
  <1>7. AttemptsDistinct'
    BY <1>1 DEF AttemptsDistinct
  <1>8. FaultsPaid'
    BY <1>1 DEF FaultsPaid, Paid, Working
  <1>9. SnapshotHolds'
    <2> SUFFICES ASSUME NEW x \in Slot PROVE Snapshot(x)'
      BY DEF SnapshotHolds
    <2>1. CASE x # s
      BY <1>1, <2>1 DEF SnapshotHolds, Snapshot
    <2>2. CASE x = s
      BY <1>1, <1>2, <2>2 DEF Snapshot, RowFollowsSlot
    <2> QED BY <2>1, <2>2
  <1> QED BY <1>3, <1>4, <1>5, <1>6, <1>7, <1>8, <1>9

\* A slot whose lease is gone leaves.
LEMMA StartLostFences ==
    ASSUME TypeOK, Fencing, NEW s \in Slot, StartLost(s)
    PROVE  Fencing'
  <1>1. FaultsPaid'
    <2>1. \A t \in Task : task[t].lease_token = job[s].token => task[t].status # "running"
      BY DEF StartLost, Fencing, SlotShape, TokensUnique, RowFollowsSlot
    <2> QED BY <2>1, LeavePaid DEF StartLost
  <1> QED BY <1>1, LeaveFences DEF StartLost

\* While start() holds its claim by an unexpired lease, the row is the one it
\* claimed, or a cancelled one: what it saw before the lock is still true.
LEMMA OwnedSnapshot ==
    ASSUME TypeOK, Fencing, NEW s \in Slot, pc[s] = "starting", owns(seen[s], s)
    PROVE  /\ job[s].task \in Task /\ job[s].token \in Token /\ job[s].token # None
           /\ task[job[s].task] \in Row /\ job[s].attempt \in Nat
           /\ seen[s].lease_token = job[s].token
           /\ seen[s].status = "claimed" /\ seen[s].attempt = job[s].attempt
           /\ task[job[s].task].lease_token = job[s].token
           /\ task[job[s].task].locked_by = WorkerOf[s]
           /\ task[job[s].task].status \in {"claimed", "cancelled"}
           /\ task[job[s].task].attempt = job[s].attempt
           /\ job[s].attempt < MaxAttempts[job[s].task] + faults
  <1> USE DEF Fencing
  <1>1. job[s].task \in Task /\ job[s].token \in Token /\ job[s].token # None
    BY FieldTypes DEF SlotShape, TypeOK
  <1>2. /\ seen[s].lease_token = job[s].token /\ ttl[job[s].token] > 0
        /\ seen[s].status \notin {"completed", "failed", "cancelled"}
    BY DEF owns, Open, EXECUTION_TASK_TERMINAL
  <1>3. Snapshot(s)
    BY DEF SnapshotHolds
  <1>4. ttl[job[s].token] # 0
    BY <1>1, <1>2 DEF TypeOK
  <1>5. task[job[s].task].lease_token = job[s].token /\ seen[s].status = "claimed"
    BY <1>2, <1>3, <1>4 DEF Snapshot
  <1>6. task[job[s].task] \in Row /\ job[s].attempt \in Nat
    BY <1>1, FieldTypes DEF TypeOK
  <1>7. job[s].attempt < MaxAttempts[job[s].task] + faults
    BY DEF ClaimsPaid
  <1> QED BY <1>1, <1>2, <1>3, <1>5, <1>6, <1>7 DEF Snapshot, RowFollowsSlot, TokensUnique, SlotShape

\* What the start of an attempt does to the row and to the slot.
LEMMA StartEffect ==
    ASSUME TypeOK, Fencing, NEW s \in Slot, Start(s)
    PROVE  LET T == job[s].task IN
           /\ pc[s] = "starting" /\ owns(seen[s], s) /\ run = "running" /\ ttl[job[s].token] > 0
           /\ task'[T].status = "running" /\ task'[T].attempt = job[s].attempt + 1
           /\ task'[T].lease_token = job[s].token /\ task'[T].locked_by = WorkerOf[s]
           /\ \A t \in Task \ {T} : task'[t] = task[t] /\ node'[t] = node[t]
           /\ pc'[s] = "executing"
           /\ \A x \in Slot \ {s} : /\ pc'[x] = pc[x] /\ seen'[x] = seen[x]
                                    /\ seenNode'[x] = seenNode[x]
           /\ UNCHANGED <<run, ttl, job, faults>>
  <1> DEFINE T == job[s].task
  <1>1. pc[s] = "starting" /\ owns(seen[s], s) /\ run = "running" /\ ttl[job[s].token] > 0
    BY DEF Start, owns
  <1>2. /\ T \in Task /\ task[T] \in Row /\ seen[s].attempt = job[s].attempt
        /\ task[T].lease_token = job[s].token /\ task[T].locked_by = WorkerOf[s]
    BY <1>1, OwnedSnapshot
  <1>3. /\ task'[T].status = "running" /\ task'[T].attempt = job[s].attempt + 1
        /\ task'[T].lease_token = job[s].token /\ task'[T].locked_by = WorkerOf[s]
        /\ \A t \in Task \ {T} : task'[t] = task[t]
    BY <1>2, StartedFields DEF Start, TypeOK
  <1>4. \A t \in Task \ {T} : node'[t] = node[t]
    BY <1>2 DEF Start, TypeOK
  <1>5. /\ pc'[s] = "executing"
        /\ \A x \in Slot \ {s} : pc'[x] = pc[x] /\ seen'[x] = seen[x] /\ seenNode'[x] = seenNode[x]
        /\ UNCHANGED <<run, ttl, job, faults>>
    BY DEF Start, TypeOK
  <1> QED BY <1>1, <1>3, <1>4, <1>5

\* The start of an attempt: no other execution of the task has its number.  The
\* row may have been cancelled since the snapshot: it is then started all the same.
LEMMA StartFences ==
    ASSUME TypeOK, Fencing, NEW s \in Slot, Start(s)
    PROVE  Fencing'
  <1> USE DEF Fencing
  <1> DEFINE T == job[s].task
  <1>1. /\ pc[s] = "starting" /\ owns(seen[s], s) /\ ttl[job[s].token] > 0
        /\ task'[T].status = "running" /\ task'[T].attempt = job[s].attempt + 1
        /\ task'[T].lease_token = job[s].token /\ task'[T].locked_by = WorkerOf[s]
        /\ \A t \in Task \ {T} : task'[t] = task[t]
        /\ pc'[s] = "executing"
        /\ \A x \in Slot \ {s} : pc'[x] = pc[x] /\ seen'[x] = seen[x]
        /\ UNCHANGED <<ttl, job, faults>>
    BY StartEffect
  <1>2. /\ T \in Task /\ job[s].token \in Token /\ job[s].token # None
        /\ task[T].lease_token = job[s].token /\ task[T].attempt = job[s].attempt
        /\ job[s].attempt \in Nat /\ job[s].attempt < MaxAttempts[T] + faults
    BY <1>1, OwnedSnapshot
  <1>3. LeaseShape'
    BY <1>1, <1>2 DEF LeaseShape, Held
  <1>4. SlotShape'
    BY <1>1 DEF SlotShape
  <1>5. TokensUnique'
    BY <1>1, <1>2 DEF TokensUnique
  <1>6. RowFollowsSlot'
    BY <1>1, <1>2 DEF RowFollowsSlot, TokensUnique, SlotShape
  <1>7. SnapshotHolds'
    <2> SUFFICES ASSUME NEW x \in Slot, pc'[x] = "starting" PROVE Snapshot(x)'
      BY DEF SnapshotHolds, Snapshot
    <2>1. x # s /\ job[x].token # job[s].token /\ job[x].task \in Task
      BY <1>1, <1>2 DEF SlotShape, TokensUnique
    <2>2. Snapshot(x)
      BY DEF SnapshotHolds
    <2> QED BY <1>1, <1>2, <2>1, <2>2 DEF Snapshot
  <1>8. /\ \A t \in Task : task[t].attempt \in Nat
        /\ \A x \in Slot : job[x].attempt \in Nat
    BY FieldTypes DEF TypeOK
  <1>9. AttemptOrder'
    BY <1>1, <1>2, <1>8 DEF AttemptOrder, SlotShape
  <1>10. AttemptsDistinct'
    BY <1>1, <1>2, <1>8 DEF AttemptsDistinct, AttemptOrder
  <1>11. ClaimsPaid'
    BY <1>1 DEF ClaimsPaid
  <1>12. FaultsPaid'
    <2> SUFFICES ASSUME NEW t \in Task PROVE Paid(t)'
      BY DEF FaultsPaid
    <2>1. Paid(t) /\ MaxAttempts[t] \in Nat /\ faults \in Nat
      BY QueueAssumption DEF FaultsPaid, TypeOK
    <2>2. CASE t = T
      <3>1. task'[t].lease_token = job'[s].token /\ ttl'[task'[t].lease_token] > 0
        BY <1>1, <2>2
      <3> QED BY <1>1, <1>2, <2>1, <2>2, <3>1 DEF Paid, Working
    <2>3. CASE t # T
      BY <1>1, <2>1, <2>3 DEF Paid, Working
    <2> QED BY <2>2, <2>3
  <1> QED BY <1>3, <1>4, <1>5, <1>6, <1>7, <1>9, <1>10, <1>11, <1>12

\* Reports, and the two other ways in which a slot ends its own lease: the holder
\* of a lease replaces its row by one without the lease, or by a terminal one,
\* and forgets its task.  What is left to show is that the row is paid for.
LEMMA HandBack ==
    ASSUME TypeOK, Fencing, NEW s \in Slot, NEW p \in {"idle", "reconcile"}, GoTo(s, p),
           NEW row, job[s].task \in Task, job[s].token # None,
           task[job[s].task].lease_token = job[s].token,
           task' = [task EXCEPT ![job[s].task] = row],
           row.attempt = task[job[s].task].attempt,
           \/ row.lease_token = None /\ row.status \in {"pending", "retry_wait"}
           \/ /\ row.lease_token = job[s].token /\ row.status \in EXECUTION_TASK_TERMINAL
              /\ row.locked_by = task[job[s].task].locked_by,
           UNCHANGED <<ttl, faults>>,
           \A t \in Task : t = job[s].task => Paid(t)'
    PROVE  Fencing'
  <1> USE DEF Fencing
  <1> DEFINE T == job[s].task
  <1>0. /\ pc'[s] = p /\ job'[s].task = None /\ job'[s].token = None
        /\ \A x \in Slot \ {s} : /\ pc'[x] = pc[x] /\ job'[x] = job[x] /\ seen'[x] = seen[x]
    BY GoToEffect, EmptyFields
  <1>1. task'[T] = row /\ \A t \in Task \ {T} : task'[t] = task[t]
    BY DEF TypeOK
  <1>2. \A x \in Slot \ {s} : job[x].token = None \/ job[x].token # job[s].token
    BY DEF TokensUnique
  <1>3. LeaseShape'
    BY <1>1 DEF LeaseShape, Held, EXECUTION_TASK_TERMINAL
  <1>4. SlotShape'
    BY <1>0 DEF SlotShape
  <1>5. TokensUnique'
    BY <1>0, <1>1, <1>2 DEF TokensUnique
  <1>6. RowFollowsSlot'
    BY <1>0, <1>1, <1>2 DEF RowFollowsSlot, TokensUnique
  <1>7. SnapshotHolds'
    <2> SUFFICES ASSUME NEW x \in Slot, pc'[x] = "starting" PROVE Snapshot(x)'
      BY DEF SnapshotHolds, Snapshot
    <2>1. x # s /\ job[x].token # job[s].token /\ job[x].token # None /\ job[x].task \in Task
      BY <1>0, <1>2 DEF SlotShape
    <2>2. Snapshot(x)
      BY DEF SnapshotHolds
    <2> QED BY <1>0, <1>1, <2>1, <2>2 DEF Snapshot
  <1>8. \A t \in Task : task'[t].attempt = task[t].attempt
    BY <1>1
  <1>9. AttemptOrder' /\ ClaimsPaid'
    BY <1>0, <1>8 DEF AttemptOrder, ClaimsPaid, SlotShape
  <1>10. AttemptsDistinct'
    BY <1>0 DEF AttemptsDistinct
  <1>11. ASSUME NEW t \in Task \ {T} PROVE Paid(t)'
    <2>1. Paid(t) /\ task'[t] = task[t]
      BY <1>1 DEF FaultsPaid
    <2>2. CASE task[t].status = "running"
      <3>1. task[t].lease_token # job[s].token
        BY DEF TokensUnique
      <3>2. Working(task[t].lease_token) => Working(task[t].lease_token)'
        BY <1>0, <2>1, <3>1 DEF Working
      <3> QED BY <2>1, <2>2, <3>2 DEF Paid
    <2>3. CASE task[t].status # "running"
      BY <2>1, <2>3 DEF Paid
    <2> QED BY <2>2, <2>3
  <1>12. FaultsPaid'
    BY <1>11 DEF FaultsPaid
  <1> QED BY <1>3, <1>4, <1>5, <1>6, <1>7, <1>9, <1>10, <1>12

\* A run that is not RUNNING any more takes the task back from start().
LEMMA StartReleasedFences ==
    ASSUME TypeOK, Fencing, NEW s \in Slot, StartReleased(s)
    PROVE  Fencing'
  <1> DEFINE T == job[s].task
             row == Released(task[T], "pending")
  <1>1. /\ T \in Task /\ job[s].token # None /\ task[T].lease_token = job[s].token
        /\ task[T] \in Row /\ task[T].attempt = job[s].attempt
        /\ job[s].attempt < MaxAttempts[T] + faults
    BY OwnedSnapshot DEF StartReleased
  <1>2. task' = [task EXCEPT ![T] = row] /\ GoTo(s, "idle") /\ UNCHANGED <<ttl, faults>>
    BY DEF StartReleased
  <1>3. row.status = "pending" /\ row.lease_token = None /\ row.attempt = task[T].attempt
    BY <1>1, ReleasedFields
  <1> HIDE DEF row
  <1>4. task'[T] = row
    BY <1>1, <1>2 DEF TypeOK
  <1>5. \A t \in Task : t = T => Paid(t)'
    BY <1>1, <1>2, <1>3, <1>4, FaultsPaidNow DEF Paid
  <1> QED BY <1>1, <1>2, <1>3, <1>5, HandBack

\* start() in a run that has ended cancels the task.
LEMMA StartCancelledFences ==
    ASSUME TypeOK, Fencing, NEW s \in Slot, StartCancelled(s)
    PROVE  Fencing'
  <1> DEFINE T == job[s].task
             row == [task[T] EXCEPT !.status = "cancelled"]
  <1>1. /\ T \in Task /\ job[s].token # None /\ task[T].lease_token = job[s].token
        /\ task[T] \in Row
    BY OwnedSnapshot DEF StartCancelled
  <1>2. task' = [task EXCEPT ![T] = row] /\ GoTo(s, "idle") /\ UNCHANGED <<ttl, faults>>
    BY DEF StartCancelled
  <1>3. /\ row.status = "cancelled" /\ row.locked_by = task[T].locked_by
        /\ row.lease_token = task[T].lease_token /\ row.attempt = task[T].attempt
    BY <1>1, StatusFields
  <1> HIDE DEF row
  <1>4. task'[T] = row
    BY <1>1, <1>2 DEF TypeOK
  <1>5. \A t \in Task : t = T => Paid(t)'
    BY <1>1, <1>2, <1>3, <1>4, FaultsPaidNow DEF Paid
  <1> QED BY <1>1, <1>2, <1>3, <1>5, HandBack DEF EXECUTION_TASK_TERMINAL

\* A slot that reports under a good lease reports the attempt of its row.
LEMMA ReportingRow ==
    ASSUME TypeOK, Fencing, NEW s \in Slot, Reporting(s)
    PROVE  /\ job[s].task \in Task /\ job[s].token # None
           /\ task[job[s].task] \in Row
           /\ task[job[s].task].lease_token = job[s].token
           /\ task[job[s].task].status = "running"
           /\ task[job[s].task].attempt = job[s].attempt + 1
  <1> USE DEF Fencing
  <1>1. /\ job[s].task \in Task /\ job[s].token # None
        /\ task[job[s].task].lease_token = job[s].token
        /\ task[job[s].task].status # "cancelled"
    BY DEF Reporting, owns, SlotShape, Open, EXECUTION_TASK_TERMINAL
  <1>2. /\ task[job[s].task].status = "running"
        /\ task[job[s].task].attempt = job[s].attempt + 1
    BY <1>1 DEF Reporting, RowFollowsSlot
  <1> QED BY <1>1, <1>2 DEF TypeOK

\* complete(), fail() and wait_node() end the task.
LEMMA ReportFences ==
    ASSUME TypeOK, Fencing, NEW s \in Slot, complete(s) \/ fail(s) \/ wait_node(s)
    PROVE  Fencing'
  <1> DEFINE T == job[s].task
  <1>1. PICK status \in {"completed", "failed"} :
          /\ task' = [task EXCEPT ![T] = [task[T] EXCEPT !.status = status]]
          /\ GoTo(s, "reconcile") /\ UNCHANGED <<ttl, faults>> /\ Reporting(s)
    BY DEF complete, fail, wait_node, Write
  <1> DEFINE row == [task[T] EXCEPT !.status = status]
  <1>2. /\ T \in Task /\ job[s].token # None /\ task[T] \in Row
        /\ task[T].lease_token = job[s].token
    BY <1>1, ReportingRow
  <1>3. /\ row.status = status /\ row.locked_by = task[T].locked_by
        /\ row.lease_token = task[T].lease_token /\ row.attempt = task[T].attempt
    BY <1>2, StatusFields
  <1>4. task' = [task EXCEPT ![T] = row]
    BY <1>1
  <1> HIDE DEF row
  <1>5. task'[T] = row
    BY <1>2, <1>4 DEF TypeOK
  <1>6. \A t \in Task : t = T => Paid(t)'
    BY <1>1, <1>2, <1>3, <1>5, FaultsPaidNow DEF Paid
  <1> QED BY <1>1, <1>2, <1>3, <1>4, <1>6, HandBack DEF EXECUTION_TASK_TERMINAL

\* schedule_retry() only gives back a task that has an attempt left.
LEMMA RetryFences ==
    ASSUME TypeOK, Fencing, NEW s \in Slot, schedule_retry(s)
    PROVE  Fencing'
  <1> DEFINE T == job[s].task
             row == Released(task[T], "retry_wait")
  <1>1. /\ T \in Task /\ job[s].token # None /\ task[T] \in Row
        /\ task[T].lease_token = job[s].token /\ task[T].attempt = job[s].attempt + 1
    BY ReportingRow DEF schedule_retry
  <1>2. /\ task' = [task EXCEPT ![T] = row] /\ GoTo(s, "idle")
        /\ UNCHANGED <<ttl, faults>> /\ job[s].attempt + 1 < MaxAttempts[T]
    BY DEF schedule_retry, Write, MayRetry
  <1>3. row.status = "retry_wait" /\ row.lease_token = None /\ row.attempt = task[T].attempt
    BY <1>1, ReleasedFields
  <1> HIDE DEF row
  <1>4. task'[T] = row
    BY <1>1, <1>2 DEF TypeOK
  <1>5. \A t \in Task : t = T => Paid(t)'
    BY <1>1, <1>2, <1>3, <1>4, FaultsPaidNow DEF Paid
  <1> QED BY <1>1, <1>2, <1>3, <1>5, HandBack

\* A report that is refused: the row under the slot's token, if there is one,
\* has an expired lease, and the fault of that has been counted.
LEMMA RefusedFences ==
    ASSUME TypeOK, Fencing, NEW s \in Slot, ReportRefused(s)
    PROVE  Fencing'
  <1>1. PICK p \in {"idle", "reconcile"} : GoTo(s, p)
    BY DEF ReportRefused
  <1>2. ASSUME NEW t \in Task, task[t].status = "running", task[t].lease_token = job[s].token,
               ttl[job[s].token] > 0
        PROVE  job[s].token = None
    BY <1>2 DEF ReportRefused, owns, Open, EXECUTION_TASK_TERMINAL, Fencing, TokensUnique
  <1>3. FaultsPaid'
    BY <1>1, <1>2, LeavePaid DEF ReportRefused
  <1> QED BY <1>1, <1>3, LeaveFences DEF ReportRefused

\* A step that only changes the time left of one lease, and perhaps counts a
\* fault, keeps everything that does not speak of time or faults.
LEMMA TimeFences ==
    ASSUME TypeOK, Fencing, UNCHANGED <<task, slotVars>>, faults' \in {faults, faults + 1},
           SnapshotHolds', FaultsPaid'
    PROVE  Fencing'
  <1> USE DEF Fencing, slotVars
  <1>1. LeaseShape' /\ SlotShape' /\ TokensUnique'
    BY DEF LeaseShape, Held, SlotShape, TokensUnique
  <1>2. RowFollowsSlot'
    BY DEF RowFollowsSlot
  <1>3. AttemptOrder' /\ AttemptsDistinct'
    BY DEF AttemptOrder, AttemptsDistinct
  <1>4. ClaimsPaid'
    <2> SUFFICES ASSUME NEW x \in Slot, pc[x] \in {"claimed", "starting"}
                 PROVE  job[x].attempt < MaxAttempts[job[x].task] + faults'
      BY DEF ClaimsPaid
    <2>1. job[x].attempt \in Nat /\ MaxAttempts[job[x].task] \in Nat /\ faults \in Nat
      BY FieldTypes, QueueAssumption DEF SlotShape, TypeOK
    <2> QED BY <2>1 DEF ClaimsPaid
  <1> QED BY <1>1, <1>2, <1>3, <1>4

\* A renewal is made by the holder of the row, so no lost lease comes back.
LEMMA RenewFences ==
    ASSUME TypeOK, Fencing, NEW s \in Slot, renew_lease(s)
    PROVE  Fencing'
  <1> USE DEF Fencing
  <1> DEFINE K == job[s].token
  <1>1. /\ UNCHANGED <<task, slotVars, faults>> /\ pc[s] = "executing"
        /\ ttl' = [ttl EXCEPT ![K] = LeaseTicks] /\ ttl[K] > 0
    BY DEF renew_lease, Reporting, owns
  <1>2. K \in Token /\ K # None
    BY <1>1, FieldTypes DEF SlotShape, TypeOK
  <1>3. ttl'[K] > 0 /\ \A k \in Token \ {K} : ttl'[k] = ttl[k]
    BY <1>1, <1>2, QueueAssumption DEF TypeOK
  <1>4. SnapshotHolds'
    <2> SUFFICES ASSUME NEW x \in Slot, pc[x] = "starting" PROVE Snapshot(x)'
      BY <1>1 DEF SnapshotHolds, Snapshot, slotVars
    <2>1. job[x].token \in Token \ {K}
      BY <1>1, <1>2, FieldTypes DEF SlotShape, TokensUnique, TypeOK
    <2> QED BY <1>1, <1>3, <2>1 DEF SnapshotHolds, Snapshot, slotVars
  <1>5. FaultsPaid'
    <2> SUFFICES ASSUME NEW t \in Task PROVE Paid(t)'
      BY DEF FaultsPaid
    <2>1. Paid(t)
      BY DEF FaultsPaid
    <2>2. CASE task[t].status = "running"
      <3>1. task[t].lease_token \in Token
        BY <2>2, FieldTypes DEF LeaseShape, Held, TypeOK
      <3>2. ttl[task[t].lease_token] > 0 => ttl'[task[t].lease_token] > 0
        BY <1>3, <3>1
      <3> QED BY <1>1, <2>1, <2>2, <3>2 DEF Paid, Working, slotVars
    <2>3. CASE task[t].status # "running"
      BY <1>1, <2>1, <2>3 DEF Paid
    <2> QED BY <2>2, <2>3
  <1> QED BY <1>1, <1>4, <1>5, TimeFences

\* A lease runs down; when it expires under a working slot a fault is counted.
LEMMA LeaseAgesFences ==
    ASSUME TypeOK, Fencing, NEW k \in Token, LeaseAges(k)
    PROVE  Fencing'
  <1> USE DEF Fencing
  <1>1. /\ UNCHANGED <<task, slotVars>> /\ ttl[k] > 0
        /\ ttl' = [ttl EXCEPT ![k] = @ - 1]
        /\ IF ttl[k] = 1 /\ Working(k) THEN faults' = faults + 1 ELSE faults' = faults
    BY DEF LeaseAges
  <1>2. /\ ttl'[k] = ttl[k] - 1 /\ \A i \in Token \ {k} : ttl'[i] = ttl[i]
        /\ ttl[k] \in Nat /\ faults \in Nat /\ faults' \in Nat
    BY <1>1, QueueAssumption DEF TypeOK
  <1>3. SnapshotHolds'
    <2> SUFFICES ASSUME NEW x \in Slot, pc[x] = "starting" PROVE Snapshot(x)'
      BY <1>1 DEF SnapshotHolds, Snapshot, slotVars
    <2>1. job[x].token \in Token /\ ttl[job[x].token] \in Nat
      BY FieldTypes, QueueAssumption DEF SlotShape, TypeOK
    <2>2. ttl[job[x].token] = 0 => ttl'[job[x].token] = 0
      BY <1>1, <1>2, <2>1
    <2> QED BY <1>1, <2>2 DEF SnapshotHolds, Snapshot, slotVars
  <1>4. FaultsPaid'
    <2> SUFFICES ASSUME NEW t \in Task PROVE Paid(t)'
      BY DEF FaultsPaid
    <2>1. Paid(t) /\ task[t].attempt \in Nat /\ MaxAttempts[t] \in Nat
      BY FieldTypes, QueueAssumption DEF FaultsPaid, TypeOK
    <2>2. faults' >= faults
      BY <1>1, <1>2
    <2>3. CASE task[t].status = "running"
      <3>1. task[t].lease_token \in Token
        BY <2>3, FieldTypes DEF LeaseShape, Held, TypeOK
      <3>2. Working(task[t].lease_token)' <=> Working(task[t].lease_token)
        BY <1>1 DEF Working, slotVars
      <3>3. CASE Working(task[t].lease_token) /\ ttl[task[t].lease_token] > 0
        <4>1. CASE task[t].lease_token = k /\ ttl[k] = 1
          BY <1>1, <1>2, <2>1, <2>3, <3>3, <4>1 DEF Paid
        <4>2. CASE ~ (task[t].lease_token = k /\ ttl[k] = 1)
          <5>1. ttl'[task[t].lease_token] > 0
            BY <1>1, <1>2, <3>1, <3>3, <4>2
          <5> QED BY <1>1, <1>2, <2>1, <2>2, <2>3, <3>2, <3>3, <5>1 DEF Paid
        <4> QED BY <4>1, <4>2
      <3>4. CASE ~ (Working(task[t].lease_token) /\ ttl[task[t].lease_token] > 0)
        BY <1>1, <1>2, <2>1, <2>2, <2>3, <3>4 DEF Paid
      <3> QED BY <3>3, <3>4
    <2>4. CASE task[t].status # "running"
      BY <1>1, <1>2, <2>1, <2>2, <2>4 DEF Paid
    <2> QED BY <2>3, <2>4
  <1> QED BY <1>1, <1>3, <1>4, TimeFences

\* A slot that dies is a fault, whatever it was doing.
LEMMA AbortFences ==
    ASSUME TypeOK, Fencing, NEW s \in Slot, Abort(s)
    PROVE  Fencing'
  <1>1. GoTo(s, "idle") /\ faults' = faults + 1 /\ UNCHANGED <<run, node, task, ttl>>
    BY DEF Abort
  <1>2. FaultsPaid'
    <2> SUFFICES ASSUME NEW t \in Task PROVE Paid(t)'
      BY DEF FaultsPaid
    <2>1. Paid(t) /\ task[t].attempt \in Nat /\ MaxAttempts[t] \in Nat /\ faults \in Nat
      BY FaultsPaidNow
    <2>2. task[t].attempt < MaxAttempts[t] + (faults + 1)
      BY <2>1 DEF Paid
    <2> QED BY <1>1, <2>1, <2>2 DEF Paid
  <1> QED BY <1>1, <1>2, LeaveFences

\* What recovery does to a row.
LEMMA RecoverEffect ==
    ASSUME TypeOK, recover_expired, NEW t \in Task
    PROVE  \/ ~ Expired(t) /\ task'[t] = task[t]
           \/ /\ Expired(t) /\ task'[t].status = "pending" /\ task'[t].lease_token = None
              /\ task'[t].attempt = task[t].attempt
  BY ReleasedFields DEF recover_expired, TypeOK

\* Recovery only takes rows whose lease has expired, and their faults have been
\* counted.
LEMMA RecoverFences ==
    ASSUME TypeOK, Fencing, recover_expired
    PROVE  Fencing'
  <1> USE DEF Fencing
  <1>1. UNCHANGED <<ttl, pc, job, seen, faults>>
    BY DEF recover_expired, slotVars
  <1>2. ASSUME NEW t \in Task, ~ Expired(t) PROVE task'[t] = task[t]
    BY <1>2, RecoverEffect
  <1>3. ASSUME NEW t \in Task, Expired(t)
        PROVE  /\ task'[t].status = "pending" /\ task'[t].lease_token = None
               /\ task'[t].attempt = task[t].attempt
    BY <1>3, RecoverEffect
  <1>4. \A t \in Task : task'[t].attempt = task[t].attempt
    BY <1>2, <1>3
  <1>5. LeaseShape'
    BY <1>2, <1>3 DEF LeaseShape, Held
  <1>6. SlotShape'
    BY <1>1 DEF SlotShape
  <1>7. TokensUnique'
    BY <1>1, <1>2, <1>3 DEF TokensUnique
  <1>8. RowFollowsSlot'
    BY <1>1, <1>2, <1>3 DEF RowFollowsSlot, SlotShape
  <1>9. SnapshotHolds'
    <2> SUFFICES ASSUME NEW x \in Slot, pc[x] = "starting" PROVE Snapshot(x)'
      BY <1>1 DEF SnapshotHolds, Snapshot
    <2>1. Snapshot(x) /\ job[x].task \in Task /\ job[x].token # None
      BY DEF SnapshotHolds, SlotShape
    <2>2. CASE Expired(job[x].task)
      BY <1>1, <1>3, <2>1, <2>2 DEF Snapshot, Expired
    <2>3. CASE ~ Expired(job[x].task)
      BY <1>1, <1>2, <2>1, <2>3 DEF Snapshot
    <2> QED BY <2>2, <2>3
  <1>10. AttemptOrder' /\ AttemptsDistinct' /\ ClaimsPaid'
    BY <1>1, <1>4 DEF AttemptOrder, AttemptsDistinct, ClaimsPaid, SlotShape
  <1>11. FaultsPaid'
    <2> SUFFICES ASSUME NEW t \in Task PROVE Paid(t)'
      BY DEF FaultsPaid
    <2>1. Paid(t)
      BY DEF FaultsPaid
    <2>2. CASE Expired(t)
      BY <1>1, <1>3, <2>1, <2>2 DEF Paid, Expired, Held
    <2>3. CASE ~ Expired(t)
      BY <1>1, <1>2, <2>1, <2>3 DEF Paid, Working
    <2> QED BY <2>2, <2>3
  <1> QED BY <1>5, <1>6, <1>7, <1>8, <1>9, <1>10, <1>11

\* What the promotion of due retries does to a row and its node.
LEMMA PromoteEffect ==
    ASSUME TypeOK, LeaseShape, promote_due_retries, NEW t \in Task
    PROVE  \/ task'[t] = task[t] /\ node'[t] = node[t]
           \/ /\ task[t].status = "retry_wait" /\ task[t].lease_token = None
              /\ task'[t].status = "pending" /\ task'[t].lease_token = None
              /\ task'[t].attempt = task[t].attempt /\ node'[t] = "queued"
  <1>1. PICK due \in SUBSET {x \in Task : task[x].status = "retry_wait"} :
           /\ task' = [x \in Task |-> IF x \in due THEN [task[x] EXCEPT !.status = "pending"]
                                                   ELSE task[x]]
           /\ node' = [x \in Task |-> IF x \in due THEN "queued" ELSE node[x]]
    BY DEF promote_due_retries
  <1>2. CASE t \in due
    <2>1. task[t].status = "retry_wait" /\ task[t].lease_token = None /\ task[t] \in Row
      BY <1>1, <1>2 DEF TypeOK, LeaseShape
    <2>2. task'[t] = [task[t] EXCEPT !.status = "pending"] /\ node'[t] = "queued"
      BY <1>1, <1>2
    <2> QED BY <2>1, <2>2, StatusFields
  <1>3. CASE t \notin due
    BY <1>1, <1>3
  <1> QED BY <1>2, <1>3

\* Due retries go back to the queue with the attempts they have.
LEMMA PromoteFences ==
    ASSUME TypeOK, Fencing, promote_due_retries
    PROVE  Fencing'
  <1> USE DEF Fencing
  <1>1. UNCHANGED <<ttl, pc, job, seen, faults>>
    BY DEF promote_due_retries, slotVars
  <1>2. \A t \in Task :
          \/ task'[t] = task[t]
          \/ /\ task[t].status = "retry_wait" /\ task[t].lease_token = None
             /\ task'[t].status = "pending" /\ task'[t].lease_token = None
             /\ task'[t].attempt = task[t].attempt
    BY PromoteEffect
  <1>3. \A t \in Task : /\ task'[t].attempt = task[t].attempt
                        /\ task'[t].lease_token = task[t].lease_token
    BY <1>2
  <1>4. LeaseShape'
    BY <1>2 DEF LeaseShape, Held
  <1>5. SlotShape'
    BY <1>1 DEF SlotShape
  <1>6. TokensUnique'
    BY <1>1, <1>2 DEF TokensUnique
  <1>7. RowFollowsSlot'
    BY <1>1, <1>2 DEF RowFollowsSlot, SlotShape
  <1>8. SnapshotHolds'
    BY <1>1, <1>3 DEF SnapshotHolds, Snapshot, SlotShape
  <1>9. AttemptOrder' /\ AttemptsDistinct' /\ ClaimsPaid'
    BY <1>1, <1>3 DEF AttemptOrder, AttemptsDistinct, ClaimsPaid, SlotShape
  <1>10. FaultsPaid'
    <2> SUFFICES ASSUME NEW t \in Task PROVE Paid(t)'
      BY DEF FaultsPaid
    <2>1. Paid(t) /\ task[t].attempt \in Nat /\ MaxAttempts[t] \in Nat /\ faults \in Nat
      BY FaultsPaidNow
    <2>2. CASE task'[t] = task[t]
      BY <1>1, <2>1, <2>2 DEF Paid, Working
    <2>3. CASE task'[t] # task[t]
      <3>1. task[t].status = "retry_wait" /\ task'[t].status = "pending"
            /\ task'[t].attempt = task[t].attempt
        BY <1>2, <2>3
      <3> QED BY <1>1, <2>1, <3>1 DEF Paid
    <2> QED BY <2>2, <2>3
  <1> QED BY <1>4, <1>5, <1>6, <1>7, <1>8, <1>9, <1>10

\* A slot's own code, one step.
LEMMA SlotStepFences ==
    ASSUME TypeOK, Fencing, NEW s \in Slot, SlotStep(s)
    PROVE  Fencing'
  <1>1. CASE ClaimLookup(s) \/ Claim(s) \/ ClaimLost(s)
    BY <1>1, ClaimLookupFences, ClaimFences, ClaimLostFences
  <1>2. CASE StartRead(s) \/ StartLost(s) \/ Start(s) \/ StartReleased(s) \/ StartCancelled(s)
    BY <1>2, StartReadFences, StartLostFences, StartFences, StartReleasedFences,
       StartCancelledFences
  <1>3. CASE complete(s) \/ fail(s) \/ wait_node(s) \/ schedule_retry(s) \/ ReportRefused(s)
             \/ renew_lease(s)
    BY <1>3, ReportFences, RetryFences, RefusedFences, RenewFences
  <1> QED BY <1>1, <1>2, <1>3 DEF SlotStep

\* Faults, time and recovery.
LEMMA OtherStepFences ==
    ASSUME TypeOK, Fencing,
           \/ \E s \in Slot : Abort(s)
           \/ \E k \in Token : LeaseAges(k)
           \/ recover_expired \/ promote_due_retries
    PROVE  Fencing'
  BY AbortFences, LeaseAgesFences, RecoverFences, PromoteFences

\* Whatever else a transaction writes: to the rows of the queue it adds tasks
\* without a lease, and cancels open ones with the lease they have.
OnlyAddsOrCancels ==
    \A t \in Task :
        \/ task'[t] = task[t]
        \/ /\ task[t].status = "absent" /\ task'[t].status = "pending"
           /\ task'[t].lease_token = task[t].lease_token /\ task'[t].attempt = task[t].attempt
        \/ /\ Open(task[t]) /\ task'[t].status = "cancelled"
           /\ task'[t].lease_token = task[t].lease_token
           /\ task'[t].locked_by = task[t].locked_by
           /\ task'[t].attempt = task[t].attempt

\* Slots that keep what they do, or leave without a lease.
SlotsKeepOrLeave ==
    \A x \in Slot : /\ job'[x].token = job[x].token
                    /\ pc'[x] \in {"idle", "reconcile"} => pc[x] \in {"idle", "reconcile"}
                    /\ pc'[x] \notin {"idle", "reconcile"} =>
                          /\ pc'[x] = pc[x] /\ job'[x] = job[x]
                          /\ seen'[x] = seen[x] /\ seenNode'[x] = seenNode[x]

\* The transactions of the scheduler, of the API and of the recovery loops.
LEMMA WriterFences ==
    ASSUME TypeOK, Fencing, OnlyAddsOrCancels, SlotsKeepOrLeave, UNCHANGED <<ttl, faults>>
    PROVE  Fencing'
  <1> USE DEF Fencing, SlotsKeepOrLeave
  <1>1. ASSUME NEW t \in Task
        PROVE  /\ task'[t].attempt = task[t].attempt
               /\ task'[t].lease_token = task[t].lease_token
               /\ task'[t].lease_token # None => task'[t].locked_by = task[t].locked_by
               /\ \/ task'[t].status = task[t].status
                  \/ /\ task[t].status = "absent" /\ task'[t].status = "pending"
                     /\ task[t].lease_token = None
                  \/ task'[t].status = "cancelled"
    BY DEF LeaseShape, OnlyAddsOrCancels
  <1>2. LeaseShape'
    BY <1>1 DEF LeaseShape, Held
  <1>3. SlotShape'
    BY DEF SlotShape
  <1>4. TokensUnique'
    <2>1. \A s1, s2 \in Slot : job'[s1].token # None /\ job'[s1].token = job'[s2].token => s1 = s2
      BY DEF TokensUnique
    <2>2. \A t1, t2 \in Task :
            task'[t1].lease_token # None /\ task'[t1].lease_token = task'[t2].lease_token => t1 = t2
      BY <1>1 DEF TokensUnique
    <2>3. \A s \in Slot, t \in Task :
            job'[s].token # None /\ task'[t].lease_token = job'[s].token
               => t = job'[s].task /\ task'[t].locked_by = WorkerOf[s]
      <3>1. \A s \in Slot : job'[s].token # None => job'[s] = job[s]
        BY <1>3 DEF SlotShape
      <3> QED BY <1>1, <3>1 DEF TokensUnique
    <2> QED BY <2>1, <2>2, <2>3 DEF TokensUnique
  <1>5. RowFollowsSlot'
    <2> SUFFICES ASSUME NEW s \in Slot, job[s].token # None,
                        task'[job[s].task].lease_token = job[s].token
                 PROVE  /\ pc[s] \in {"claimed", "starting"} =>
                             /\ task'[job[s].task].status \in {"claimed", "cancelled"}
                             /\ task'[job[s].task].attempt = job[s].attempt
                        /\ pc[s] = "executing" =>
                             /\ task'[job[s].task].status \in {"running", "cancelled"}
                             /\ task'[job[s].task].attempt = job[s].attempt + 1
      BY <1>3 DEF RowFollowsSlot, SlotShape
    <2>1. job[s].task \in Task
      BY DEF SlotShape
    <2> QED BY <1>1, <2>1 DEF RowFollowsSlot
  <1>6. SnapshotHolds'
    <2> SUFFICES ASSUME NEW x \in Slot, pc[x] = "starting", pc'[x] = "starting" PROVE Snapshot(x)'
      BY DEF SnapshotHolds, Snapshot
    <2>1. Snapshot(x) /\ job[x].task \in Task
      BY DEF SnapshotHolds, SlotShape
    <2>2. task'[job[x].task].lease_token = task[job[x].task].lease_token
      BY <1>1, <2>1
    <2> QED BY <2>1, <2>2 DEF Snapshot
  <1>7. AttemptOrder' /\ AttemptsDistinct' /\ ClaimsPaid'
    BY <1>1 DEF AttemptOrder, AttemptsDistinct, ClaimsPaid, SlotShape
  <1>8. FaultsPaid'
    <2> SUFFICES ASSUME NEW t \in Task PROVE Paid(t)'
      BY DEF FaultsPaid
    <2>1. Paid(t)
      BY DEF FaultsPaid
    <2>2. \A k : Working(k)' <=> Working(k)
      BY DEF Working
    <2> QED BY <1>1, <2>1, <2>2 DEF Paid
  <1> QED BY <1>2, <1>3, <1>4, <1>5, <1>6, <1>7, <1>8

\* The owner of a good lease reports the attempt that the row counts, and the
\* budget is kept.
LEMMA FencingTells == TypeOK /\ Fencing => OwnerIsCurrent /\ AttemptsDistinct /\ AttemptBudget
  <1> SUFFICES ASSUME TypeOK, Fencing PROVE OwnerIsCurrent /\ AttemptsDistinct /\ AttemptBudget
    OBVIOUS
  <1>1. OwnerIsCurrent
    BY ReportingRow DEF OwnerIsCurrent, Reporting
  <1>2. AttemptsDistinct /\ AttemptBudget
    BY DEF Fencing, FaultsPaid, Paid, AttemptBudget
  <1> QED BY <1>1, <1>2

-----------------------------------------------------------------------------
(* Agreement: the rows of the tasks, of their nodes and of the run.          *)

\* A step that touches none of these rows, and after which every slot that is
\* starting was starting before.
LEMMA IdleAgrees ==
    ASSUME IInv, UNCHANGED <<run, node, task>>,
           \A x \in Slot : pc'[x] = "starting" =>
              /\ pc[x] = "starting" /\ job'[x] = job[x]
              /\ seen'[x] = seen[x] /\ seenNode'[x] = seenNode[x]
    PROVE  Agreement'
  <1> USE DEF IInv, QueueInv, Agreement
  <1>1. RunGovernsTasks' /\ TaskNodeAgreement'
    BY DEF RunGovernsTasks, TaskNodeAgreement, Agrees
  <1>2. NodeSnapshotHolds'
    BY DEF NodeSnapshotHolds, NodeSnapshot
  <1> QED BY <1>1, <1>2

\* The slot that changes the row of its task and perhaps the node: no other slot
\* that is starting holds that row.
LEMMA OwnRowAgrees ==
    ASSUME IInv, NEW s \in Slot, NEW T \in Task, UNCHANGED run,
           \A t \in Task \ {T} : task'[t] = task[t] /\ node'[t] = node[t],
           pc'[s] # "starting",
           \A x \in Slot \ {s} : /\ pc'[x] = pc[x] /\ job'[x] = job[x]
                                 /\ seen'[x] = seen[x] /\ seenNode'[x] = seenNode[x],
           \A x \in Slot \ {s} : job[x].token # None => task'[T].lease_token # job[x].token,
           Agrees(T)',
           run = "created" => task'[T].status = "absent",
           task'[T].status = "cancelled" => run \in WORKFLOW_RUN_TERMINAL
    PROVE  Agreement'
  <1> USE DEF IInv, QueueInv, Agreement, Fencing
  <1>1. RunGovernsTasks'
    BY DEF RunGovernsTasks
  <1>2. TaskNodeAgreement'
    <2>1. \A t \in Task \ {T} : Agrees(t)'
      BY DEF TaskNodeAgreement, Agrees
    <2> QED BY <2>1 DEF TaskNodeAgreement
  <1>3. NodeSnapshotHolds'
    <2> SUFFICES ASSUME NEW x \in Slot, pc'[x] = "starting" PROVE NodeSnapshot(x)'
      BY DEF NodeSnapshotHolds, NodeSnapshot
    <2>1. x # s /\ job[x].token # None /\ job[x].task \in Task
      BY DEF SlotShape
    <2>2. NodeSnapshot(x)
      BY DEF NodeSnapshotHolds
    <2> QED BY <2>1, <2>2 DEF NodeSnapshot
  <1> QED BY <1>1, <1>2, <1>3

\* A claim leaves the node alone.
LEMMA ClaimAgrees ==
    ASSUME IInv, NEW s \in Slot, Claim(s)
    PROVE  Agreement'
  <1> USE DEF IInv, QueueInv
  <1>0. PICK T \in Task : T = job[s].task
    BY ClaimEffect
  <1>1. PICK k \in FreshToken :
             /\ T \in Task /\ task[T].status = "pending"
             /\ task'[T].status = "claimed" /\ task'[T].lease_token = k
             /\ \A t \in Task \ {T} : task'[t] = task[t]
             /\ pc'[s] = "claimed"
             /\ \A x \in Slot \ {s} : pc'[x] = pc[x] /\ job'[x] = job[x]
             /\ UNCHANGED <<run, node, seen, seenNode>>
    BY <1>0, ClaimEffect
  <1>2. Agrees(T)'
    BY <1>1 DEF Agreement, TaskNodeAgreement, Agrees
  <1>3. run # "created"
    BY DEF Claim, Claimable
  <1> QED BY <1>1, <1>2, <1>3, OwnRowAgrees DEF FreshToken

\* The snapshot that start() takes is the current row of its task and its node.
LEMMA StartReadAgrees ==
    ASSUME IInv, NEW s \in Slot, StartRead(s)
    PROVE  Agreement'
  <1> USE DEF IInv, QueueInv, Agreement
  <1> DEFINE T == job[s].task
  <1>1. /\ pc[s] = "claimed" /\ pc'[s] = "starting"
        /\ seen'[s] = task[T] /\ seenNode'[s] = node[T]
        /\ \A x \in Slot \ {s} : pc'[x] = pc[x] /\ seen'[x] = seen[x] /\ seenNode'[x] = seenNode[x]
        /\ UNCHANGED <<run, node, task, job>>
    BY DEF StartRead, TypeOK
  <1>2. T \in Task
    BY <1>1 DEF Fencing, SlotShape
  <1>3. RunGovernsTasks' /\ TaskNodeAgreement'
    BY <1>1 DEF RunGovernsTasks, TaskNodeAgreement, Agrees
  <1>4. NodeSnapshotHolds'
    <2> SUFFICES ASSUME NEW x \in Slot PROVE NodeSnapshot(x)'
      BY DEF NodeSnapshotHolds
    <2>1. CASE x # s
      BY <1>1, <2>1 DEF NodeSnapshotHolds, NodeSnapshot
    <2>2. CASE x = s
      BY <1>1, <1>2, <2>2 DEF NodeSnapshot, TaskNodeAgreement, Agrees
    <2> QED BY <2>1, <2>2
  <1> QED BY <1>3, <1>4

\* What start() saw of the node, while it holds its claim by an unexpired lease.
LEMMA OwnedNode ==
    ASSUME IInv, NEW s \in Slot, pc[s] = "starting", owns(seen[s], s)
    PROVE  /\ seenNode[s] \in {"queued", "running"}
           /\ task[job[s].task].status = "claimed" => seenNode[s] = node[job[s].task]
  <1>1. /\ seen[s].lease_token = job[s].token /\ seen[s].status = "claimed"
        /\ task[job[s].task].lease_token = job[s].token
    BY OwnedSnapshot DEF IInv, QueueInv
  <1>2. NodeSnapshot(s)
    BY DEF IInv, QueueInv, Agreement, NodeSnapshotHolds
  <1> QED BY <1>1, <1>2 DEF NodeSnapshot

\* Nobody else holds the row that carries the slot's token.
LEMMA SoleHolder ==
    ASSUME TypeOK, Fencing, NEW s \in Slot, job[s].token # None
    PROVE  \A x \in Slot \ {s} : job[x].token # None => job[s].token # job[x].token
  BY DEF Fencing, TokensUnique

\* The start of an attempt, in a run that is still RUNNING.
LEMMA StartAgrees ==
    ASSUME IInv, NEW s \in Slot, Start(s)
    PROVE  Agreement'
  <1> USE DEF IInv, QueueInv
  <1>0. PICK T \in Task : T = job[s].task
    BY OwnedSnapshot DEF Start
  <1>1. /\ pc[s] = "starting" /\ owns(seen[s], s) /\ run = "running"
        /\ task'[T].status = "running" /\ task'[T].lease_token = job[s].token
        /\ \A t \in Task \ {T} : task'[t] = task[t] /\ node'[t] = node[t]
        /\ pc'[s] = "executing"
        /\ \A x \in Slot \ {s} : /\ pc'[x] = pc[x] /\ seen'[x] = seen[x]
                                 /\ seenNode'[x] = seenNode[x]
        /\ UNCHANGED <<run, job>>
    BY <1>0, StartEffect
  <1>2. /\ T \in Task /\ job[s].token # None /\ task[T].status \in {"claimed", "cancelled"}
    BY <1>0, <1>1, OwnedSnapshot
  <1>3. task[T].status = "claimed"
    BY <1>1, <1>2 DEF Agreement, RunGovernsTasks, WORKFLOW_RUN_TERMINAL
  <1>4. seenNode[s] = node[T]
    BY <1>0, <1>1, <1>3, OwnedNode
  <1>5. node'[T] = "running"
    BY <1>0, <1>2, <1>4 DEF Start, TypeOK
  <1>6. Agrees(T)'
    BY <1>1, <1>5 DEF Agrees
  <1>7. \A x \in Slot \ {s} : job[x].token # None => task'[T].lease_token # job[x].token
    BY <1>1, <1>2, SoleHolder
  <1> QED BY <1>1, <1>2, <1>6, <1>7, OwnRowAgrees

\* The holder of a lease changes its row and its node and forgets its task.
LEMMA HandBackAgrees ==
    ASSUME IInv, NEW s \in Slot, NEW p \in {"idle", "reconcile"}, GoTo(s, p), UNCHANGED run,
           NEW row, job[s].task \in Task, job[s].token # None,
           task' = [task EXCEPT ![job[s].task] = row],
           row.lease_token \in {None, job[s].token},
           run = "created" => row.status = "absent",
           row.status = "cancelled" => run \in WORKFLOW_RUN_TERMINAL,
           \A t \in Task \ {job[s].task} : node'[t] = node[t],
           \A t \in Task : t = job[s].task => Agrees(t)'
    PROVE  Agreement'
  <1> USE DEF IInv, QueueInv
  <1>1. task'[job[s].task] = row /\ \A t \in Task \ {job[s].task} : task'[t] = task[t]
    BY DEF TypeOK
  <1>2. /\ pc'[s] # "starting"
        /\ \A x \in Slot \ {s} : /\ pc'[x] = pc[x] /\ job'[x] = job[x]
                                 /\ seen'[x] = seen[x] /\ seenNode'[x] = seenNode[x]
    BY GoToEffect
  <1>3. \A x \in Slot \ {s} : job[x].token # None => row.lease_token # job[x].token
    BY SoleHolder
  <1>4. PICK T \in Task : T = job[s].task
    OBVIOUS
  <1>5. task'[T] = row /\ Agrees(T)' /\ \A t \in Task \ {T} : task'[t] = task[t] /\ node'[t] = node[t]
    BY <1>1, <1>4
  <1> QED BY <1>2, <1>3, <1>5, OwnRowAgrees

\* A run that was never started has no work.
LEMMA WorkIsStarted ==
    ASSUME IInv, NEW t \in Task, task[t].status # "absent"
    PROVE  run # "created"
  BY DEF IInv, QueueInv, Agreement, RunGovernsTasks

\* A run that is not RUNNING any more takes the task back from start().
LEMMA StartReleasedAgrees ==
    ASSUME IInv, NEW s \in Slot, StartReleased(s)
    PROVE  Agreement'
  <1> USE DEF IInv, QueueInv
  <1> DEFINE T == job[s].task
             row == Released(task[T], "pending")
  <1>1. /\ T \in Task /\ job[s].token # None /\ task[T] \in Row
        /\ task[T].status \in {"claimed", "cancelled"}
    BY OwnedSnapshot DEF StartReleased
  <1>2. task[T].status = "claimed" /\ run # "created"
    BY <1>1 DEF StartReleased, Agreement, RunGovernsTasks, WORKFLOW_RUN_TERMINAL
  <1>3. task' = [task EXCEPT ![T] = row] /\ GoTo(s, "idle") /\ UNCHANGED <<run, node>>
    BY DEF StartReleased
  <1>4. row.status = "pending" /\ row.lease_token = None
    BY <1>1, ReleasedFields
  <1> HIDE DEF row
  <1>5. task'[T] = row
    BY <1>1, <1>3 DEF TypeOK
  <1>6. node[T] \in {"queued", "running"}
    BY <1>1, <1>2 DEF Agreement, TaskNodeAgreement, Agrees
  <1>7. \A t \in Task : t = T => Agrees(t)'
    BY <1>3, <1>4, <1>5, <1>6 DEF Agrees
  <1> QED BY <1>1, <1>2, <1>3, <1>4, <1>7, HandBackAgrees

\* start() in a run that has ended cancels the task and its node.
LEMMA StartCancelledAgrees ==
    ASSUME IInv, NEW s \in Slot, StartCancelled(s)
    PROVE  Agreement'
  <1> USE DEF IInv, QueueInv
  <1> DEFINE T == job[s].task
             row == [task[T] EXCEPT !.status = "cancelled"]
  <1>1. /\ T \in Task /\ job[s].token # None /\ task[T].lease_token = job[s].token
        /\ task[T].status \in {"claimed", "cancelled"} /\ task[T] \in Row
    BY OwnedSnapshot DEF StartCancelled
  <1>2. seenNode[s] \in {"queued", "running"}
    BY OwnedNode DEF StartCancelled
  <1>3. task' = [task EXCEPT ![T] = row] /\ GoTo(s, "idle") /\ UNCHANGED run
    BY DEF StartCancelled
  <1>4. row.status = "cancelled" /\ row.lease_token = task[T].lease_token
    BY <1>1, StatusFields
  <1> HIDE DEF row
  <1>5. node'[T] = "cancelled" /\ \A t \in Task \ {T} : node'[t] = node[t]
    BY <1>1, <1>2 DEF StartCancelled, TypeOK, is_node_run_terminal, NODE_RUN_TERMINAL
  <1>6. task'[T] = row
    BY <1>1, <1>3 DEF TypeOK
  <1>7. run \in WORKFLOW_RUN_TERMINAL
    BY <1>1, WorkIsStarted
       DEF StartCancelled, TypeOK, WorkflowRunStatus, WORKFLOW_RUN_TERMINAL
  <1>8. \A t \in Task : t = T => Agrees(t)'
    BY <1>4, <1>5, <1>6 DEF Agrees
  <1>9. run # "created"
    BY <1>7 DEF WORKFLOW_RUN_TERMINAL
  <1> QED BY <1>1, <1>3, <1>4, <1>5, <1>7, <1>8, <1>9, HandBackAgrees

\* The node of a task that is reported under a good lease runs.
LEMMA ReportingNode ==
    ASSUME IInv, NEW s \in Slot, Reporting(s)
    PROVE  node[job[s].task] = "running"
  BY ReportingRow DEF IInv, QueueInv, Agreement, TaskNodeAgreement, Agrees

\* What one report writes: the row, kept under its token or released, and the
\* status of the node that goes with it.
LEMMA WriteAgrees ==
    ASSUME IInv, NEW s \in Slot, Reporting(s), NEW row, NEW status, NEW p \in {"idle", "reconcile"},
           Write(s, row, status, p),
           row.lease_token \in {None, job[s].token},
           \/ row.status = "completed" /\ status \in {"completed", "waiting"}
           \/ row.status = "failed" /\ status = "failed"
           \/ row.status = "retry_wait" /\ status = "retrying"
    PROVE  Agreement'
  <1> USE DEF IInv, QueueInv
  <1> DEFINE T == job[s].task
  <1>1. /\ T \in Task /\ job[s].token # None /\ task[T] \in Row
        /\ task[T].lease_token = job[s].token /\ task[T].status = "running"
    BY ReportingRow
  <1>2. /\ task' = [task EXCEPT ![T] = row] /\ node' = [node EXCEPT ![T] = status]
        /\ GoTo(s, p) /\ UNCHANGED run
    BY DEF Write
  <1>3. /\ task'[T] = row /\ node'[T] = status
        /\ \A t \in Task \ {T} : node'[t] = node[t]
    BY <1>1, <1>2 DEF TypeOK
  <1>4. \A t \in Task : t = T => Agrees(t)'
    BY <1>3 DEF Agrees
  <1>5. run # "created"
    BY <1>1, WorkIsStarted
  <1> QED BY <1>1, <1>2, <1>3, <1>4, <1>5, HandBackAgrees

\* The reports.
LEMMA ReportAgrees ==
    ASSUME IInv, NEW s \in Slot, complete(s) \/ fail(s) \/ wait_node(s) \/ schedule_retry(s)
    PROVE  Agreement'
  <1> DEFINE T == job[s].task
             done == [task[T] EXCEPT !.status = "completed"]
             failed == [task[T] EXCEPT !.status = "failed"]
             again == Released(task[T], "retry_wait")
  <1>1. /\ Reporting(s) /\ task[T] \in Row /\ task[T].lease_token = job[s].token
        /\ node[T] = "running"
    BY ReportingRow, ReportingNode
       DEF complete, fail, wait_node, schedule_retry, IInv, QueueInv
  <1>2. /\ done.status = "completed" /\ done.lease_token = job[s].token
        /\ failed.status = "failed" /\ failed.lease_token = job[s].token
    BY <1>1, StatusFields
  <1>3. again.status = "retry_wait" /\ again.lease_token = None
    BY <1>1, ReleasedFields
  <1>4. CASE complete(s)
    <2>1. Write(s, done, "completed", "reconcile")
      BY <1>4 DEF complete
    <2> HIDE DEF done
    <2> QED BY <1>1, <1>2, <2>1, WriteAgrees
  <1>5. CASE fail(s)
    <2>1. Write(s, failed, "failed", "reconcile")
      BY <1>1, <1>5 DEF fail, is_node_run_terminal, NODE_RUN_TERMINAL
    <2> HIDE DEF failed
    <2> QED BY <1>1, <1>2, <2>1, WriteAgrees
  <1>6. CASE wait_node(s)
    <2>1. Write(s, done, "waiting", "reconcile")
      BY <1>6 DEF wait_node
    <2> HIDE DEF done
    <2> QED BY <1>1, <1>2, <2>1, WriteAgrees
  <1>7. CASE schedule_retry(s)
    <2>1. Write(s, again, "retrying", "idle")
      BY <1>7 DEF schedule_retry
    <2> HIDE DEF again
    <2> QED BY <1>1, <1>3, <2>1, WriteAgrees
  <1> QED BY <1>4, <1>5, <1>6, <1>7

\* A recovered task goes back with the status its node has.
LEMMA RecoverAgrees ==
    ASSUME IInv, recover_expired
    PROVE  Agreement'
  <1> USE DEF IInv, QueueInv, Agreement
  <1>1. UNCHANGED <<run, node, pc, job, seen, seenNode>>
    BY DEF recover_expired, slotVars
  <1>2. \A t \in Task : \/ task'[t] = task[t]
                        \/ /\ task[t].status \in {"claimed", "running"}
                           /\ task'[t].status = "pending"
    BY RecoverEffect DEF Expired, Held
  <1>3. RunGovernsTasks'
    BY <1>1, <1>2 DEF RunGovernsTasks
  <1>4. TaskNodeAgreement'
    <2> SUFFICES ASSUME NEW t \in Task PROVE Agrees(t)'
      BY DEF TaskNodeAgreement
    <2>1. Agrees(t)
      BY DEF TaskNodeAgreement
    <2>2. CASE task'[t] = task[t]
      BY <1>1, <2>1, <2>2 DEF Agrees
    <2>3. CASE task[t].status \in {"claimed", "running"} /\ task'[t].status = "pending"
      BY <1>1, <2>1, <2>3 DEF Agrees
    <2> QED BY <1>2, <2>2, <2>3
  <1>5. NodeSnapshotHolds'
    <2> SUFFICES ASSUME NEW x \in Slot, pc[x] = "starting" PROVE NodeSnapshot(x)'
      BY <1>1 DEF NodeSnapshotHolds, NodeSnapshot
    <2>1. NodeSnapshot(x) /\ job[x].task \in Task
      BY DEF NodeSnapshotHolds, Fencing, SlotShape
    <2> QED BY <1>1, <1>2, <2>1 DEF NodeSnapshot
  <1> QED BY <1>3, <1>4, <1>5

\* A due retry is queued together with its node.
LEMMA PromoteAgrees ==
    ASSUME IInv, promote_due_retries
    PROVE  Agreement'
  <1> USE DEF IInv, QueueInv, Agreement
  <1>1. UNCHANGED <<run, pc, job, seen, seenNode>>
    BY DEF promote_due_retries, slotVars
  <1>2. \A t \in Task : \/ task'[t] = task[t] /\ node'[t] = node[t]
                        \/ /\ task[t].status = "retry_wait" /\ task'[t].status = "pending"
                           /\ node'[t] = "queued"
    BY PromoteEffect DEF Fencing
  <1>3. RunGovernsTasks'
    BY <1>1, <1>2 DEF RunGovernsTasks
  <1>4. TaskNodeAgreement'
    BY <1>2 DEF TaskNodeAgreement, Agrees
  <1>5. NodeSnapshotHolds'
    <2> SUFFICES ASSUME NEW x \in Slot, pc[x] = "starting" PROVE NodeSnapshot(x)'
      BY <1>1 DEF NodeSnapshotHolds, NodeSnapshot
    <2>1. NodeSnapshot(x) /\ job[x].task \in Task
      BY DEF NodeSnapshotHolds, Fencing, SlotShape
    <2> QED BY <1>1, <1>2, <2>1 DEF NodeSnapshot
  <1> QED BY <1>3, <1>4, <1>5

-----------------------------------------------------------------------------
(* The scheduler and the API *)

\* What a transaction of the scheduler does to one task and its node.
LEMMA SchedulerRow ==
    ASSUME IInv, SchedulerEffect, NEW t \in Task
    PROVE  \/ task'[t] = task[t] /\ node'[t] = node[t]
           \/ /\ task[t].status = "absent" /\ node[t] = "pending" /\ run \in {"running", "waiting"}
              /\ task'[t].status = "pending" /\ task'[t].lease_token = task[t].lease_token
              /\ task'[t].attempt = task[t].attempt /\ node'[t] = "queued"
           \/ /\ task[t].status = "absent" /\ node[t] = "pending" /\ run \in {"running", "waiting"}
              /\ task'[t] = task[t] /\ node'[t] = "skipped"
           \/ /\ task[t].status = "completed" /\ node[t] = "waiting" /\ run \in {"running", "waiting"}
              /\ task'[t] = task[t] /\ node'[t] \in {"completed", "failed"}
           \/ /\ run' \in {"failed", "cancelled"} /\ ~ is_node_run_terminal(node[t])
              /\ ~ Open(task[t]) /\ task'[t] = task[t] /\ node'[t] = "cancelled"
           \/ /\ run' \in {"failed", "cancelled"} /\ ~ is_node_run_terminal(node[t])
              /\ Open(task[t]) /\ task'[t].status = "cancelled" /\ node'[t] = "cancelled"
              /\ task'[t].lease_token = task[t].lease_token
              /\ task'[t].locked_by = task[t].locked_by
              /\ task'[t].attempt = task[t].attempt
  <1>1. PICK submitted \in SUBSET Unscheduled, passed \in SUBSET Decidable :
        \E skipped \in SUBSET (Unscheduled \ submitted),
           rejected \in SUBSET (Decidable \ passed) :
        \E cancelled \in SUBSET (Cancellable(run') \ (submitted \cup skipped \cup passed \cup rejected)) :
           /\ task' = Rows(submitted, cancelled)
           /\ node' = NodeStatuses(submitted, skipped, passed, rejected, cancelled)
    BY DEF SchedulerEffect
  <1>2. PICK skipped \in SUBSET (Unscheduled \ submitted),
             rejected \in SUBSET (Decidable \ passed) :
        \E cancelled \in SUBSET (Cancellable(run') \ (submitted \cup skipped \cup passed \cup rejected)) :
           /\ task' = Rows(submitted, cancelled)
           /\ node' = NodeStatuses(submitted, skipped, passed, rejected, cancelled)
    BY <1>1
  <1>3. PICK cancelled \in SUBSET (Cancellable(run') \ (submitted \cup skipped \cup passed \cup rejected)) :
           /\ task' = Rows(submitted, cancelled)
           /\ node' = NodeStatuses(submitted, skipped, passed, rejected, cancelled)
    BY <1>2
  <1>4. task[t] \in Row
    BY DEF IInv, TypeOK
  <1>5. CASE t \in submitted
    <2>1. /\ t \notin skipped /\ t \notin passed /\ t \notin rejected /\ t \notin cancelled
          /\ task[t].status = "absent" /\ node[t] = "pending" /\ run \in {"running", "waiting"}
      BY <1>5 DEF Unscheduled, Decidable
    <2>2. task'[t] = [task[t] EXCEPT !.status = "pending"]
      BY <1>3, <1>5 DEF Rows
    <2>3. node'[t] = "queued"
      BY <1>3, <1>5, <2>1 DEF NodeStatuses
    <2>4. /\ task'[t].status = "pending" /\ task'[t].lease_token = task[t].lease_token
          /\ task'[t].attempt = task[t].attempt
      BY <1>4, <2>2, StatusFields
    <2> QED BY <2>1, <2>3, <2>4
  <1>6. CASE t \in skipped
    <2>1. /\ t \notin submitted /\ t \notin passed /\ t \notin rejected /\ t \notin cancelled
          /\ task[t].status = "absent" /\ node[t] = "pending" /\ run \in {"running", "waiting"}
      BY <1>6 DEF Unscheduled, Decidable
    <2>2. task'[t] = task[t]
      BY <1>3, <2>1 DEF Rows
    <2>3. node'[t] = "skipped"
      BY <1>3, <1>6, <2>1 DEF NodeStatuses
    <2> QED BY <2>1, <2>2, <2>3
  <1>7. CASE t \in passed \cup rejected
    <2>1. /\ t \notin submitted /\ t \notin skipped /\ t \notin cancelled
          /\ task[t].status = "completed" /\ node[t] = "waiting" /\ run \in {"running", "waiting"}
      BY <1>7 DEF Unscheduled, Decidable
    <2>2. task'[t] = task[t]
      BY <1>3, <2>1 DEF Rows
    <2>3. node'[t] \in {"completed", "failed"}
      BY <1>3, <1>7, <2>1 DEF NodeStatuses
    <2> QED BY <2>1, <2>2, <2>3
  <1>8. CASE t \in cancelled
    <2>1. /\ t \notin submitted /\ t \notin skipped /\ t \notin passed /\ t \notin rejected
          /\ run' \in {"failed", "cancelled"} /\ ~ is_node_run_terminal(node[t])
      BY <1>8 DEF Cancellable
    <2>2. node'[t] = "cancelled"
      BY <1>3, <1>8, <2>1 DEF NodeStatuses
    <2>3. task'[t] = IF Open(task[t]) THEN [task[t] EXCEPT !.status = "cancelled"] ELSE task[t]
      BY <1>3, <1>8, <2>1 DEF Rows
    <2> QED BY <1>4, <2>1, <2>2, <2>3, StatusFields
  <1>9. CASE t \notin submitted \cup skipped \cup passed \cup rejected \cup cancelled
    <2>1. task'[t] = task[t]
      BY <1>3, <1>9 DEF Rows
    <2>2. node'[t] = node[t]
      BY <1>3, <1>9 DEF NodeStatuses
    <2> QED BY <2>1, <2>2
  <1> QED BY <1>5, <1>6, <1>7, <1>8, <1>9

\* The transition table: nothing goes back to CREATED and nothing leaves a
\* terminal status.
LEMMA RunMoves ==
    ASSUME IInv, SchedulerEffect
    PROVE  /\ run' = "created" => run = "created"
           /\ run \in WORKFLOW_RUN_TERMINAL => run' = run
  BY DEF SchedulerEffect, transition_workflow_run, WORKFLOW_RUN_TRANSITIONS, WORKFLOW_RUN_TERMINAL

\* The scheduler's transactions, made by a slot that reconciles or by no slot.
LEMMA SchedulerKeeps ==
    ASSUME IInv, SchedulerEffect, UNCHANGED <<ttl, faults>>, SlotsKeepOrLeave
    PROVE  QueueInv'
  <1> USE DEF IInv, QueueInv, Agreement
  <1>1. Fencing'
    <2>1. OnlyAddsOrCancels
      BY SchedulerRow DEF OnlyAddsOrCancels
    <2> QED BY <2>1, WriterFences
  <1>2. \A t \in Task : \/ task'[t].status = task[t].status
                        \/ /\ task[t].status = "absent" /\ task'[t].status = "pending"
                           /\ run \in {"running", "waiting"}
                        \/ task'[t].status = "cancelled" /\ run' \in {"failed", "cancelled"}
    BY SchedulerRow
  <1>3. RunGovernsTasks'
    BY <1>2, RunMoves DEF RunGovernsTasks, WORKFLOW_RUN_TERMINAL
  <1>4. TaskNodeAgreement'
    <2> SUFFICES ASSUME NEW t \in Task PROVE Agrees(t)'
      BY DEF TaskNodeAgreement
    <2>1. Agrees(t)
      BY DEF TaskNodeAgreement
    <2>2. CASE task'[t] = task[t] /\ node'[t] = node[t]
      BY <2>1, <2>2 DEF Agrees
    <2>3. CASE task'[t].status = "pending" /\ node'[t] = "queued"
      BY <2>3 DEF Agrees
    <2>4. CASE task'[t].status = "absent" /\ node'[t] = "skipped"
      BY <2>4 DEF Agrees
    <2>5. CASE task'[t].status = "completed" /\ node'[t] \in {"completed", "failed"}
      BY <2>5 DEF Agrees
    <2>6. CASE ~ Open(task[t]) /\ task'[t] = task[t] /\ node'[t] = "cancelled"
               /\ ~ is_node_run_terminal(node[t])
      BY <2>1, <2>6 DEF Agrees, Open, EXECUTION_TASK_TERMINAL, is_node_run_terminal, NODE_RUN_TERMINAL
    <2>7. CASE task'[t].status = "cancelled" /\ node'[t] = "cancelled"
      BY <2>7 DEF Agrees
    <2> QED BY <2>2, <2>3, <2>4, <2>5, <2>6, <2>7, SchedulerRow
  <1>5. NodeSnapshotHolds'
    <2> SUFFICES ASSUME NEW x \in Slot, pc'[x] = "starting" PROVE NodeSnapshot(x)'
      BY DEF NodeSnapshotHolds, NodeSnapshot
    <2>1. /\ pc[x] = "starting" /\ job'[x] = job[x]
          /\ seen'[x] = seen[x] /\ seenNode'[x] = seenNode[x]
      BY DEF SlotsKeepOrLeave
    <2>2. NodeSnapshot(x) /\ job[x].task \in Task
      BY <2>1 DEF NodeSnapshotHolds, Fencing, SlotShape
    <2>3. task'[job[x].task].status = "claimed"
            => task'[job[x].task] = task[job[x].task] /\ node'[job[x].task] = node[job[x].task]
      BY <2>2, SchedulerRow DEF Open, EXECUTION_TASK_TERMINAL
    <2> QED BY <2>1, <2>2, <2>3 DEF NodeSnapshot
  <1> QED BY <1>1, <1>3, <1>4, <1>5

\* A slot that reconciles has given up its lease.
LEMMA ReconcileLeaves ==
    ASSUME TypeOK, SlotShape, NEW s \in Slot, pc[s] = "reconcile", GoTo(s, "idle")
    PROVE  SlotsKeepOrLeave
  <1>1. job[s].token = None
    BY DEF SlotShape
  <1>2. /\ pc'[s] = "idle" /\ job'[s].token = None
        /\ \A x \in Slot \ {s} : /\ pc'[x] = pc[x] /\ job'[x] = job[x]
                                 /\ seen'[x] = seen[x] /\ seenNode'[x] = seenNode[x]
    BY GoToEffect, EmptyFields
  <1> QED BY <1>1, <1>2 DEF SlotsKeepOrLeave

\* The two ways in which the scheduler runs: _reconcile_after of a slot, and a
\* transaction of the API or of a recovery loop.
LEMMA SchedulerStepKeeps ==
    ASSUME IInv, SchedulerStep \/ \E s \in Slot : ReconcileAfter(s)
    PROVE  QueueInv'
  <1>1. SchedulerEffect /\ UNCHANGED <<ttl, faults>>
    BY DEF SchedulerStep, ReconcileAfter
  <1>2. SlotsKeepOrLeave
    <2>1. CASE SchedulerStep
      BY <2>1 DEF SchedulerStep, slotVars, SlotsKeepOrLeave
    <2>2. ASSUME NEW s \in Slot, ReconcileAfter(s) PROVE SlotsKeepOrLeave
      BY <2>2, ReconcileLeaves DEF ReconcileAfter, IInv, QueueInv, Fencing
    <2> QED BY <2>1, <2>2
  <1> QED BY <1>1, <1>2, SchedulerKeeps

-----------------------------------------------------------------------------
(* The theorems *)

\* The invariant holds before the run starts.
LEMMA InitInv == Init => IInv
  <1> SUFFICES ASSUME Init PROVE IInv
    OBVIOUS
  <1>1. TypeOK
    BY EmptyTypes, QueueAssumption DEF Init, TypeOK, WorkflowRunStatus, NodeRunStatus
  <1>2. /\ \A t \in Task : /\ task[t].status = "absent" /\ task[t].lease_token = None
                           /\ task[t].attempt = 0 /\ node[t] = "pending"
        /\ \A s \in Slot : pc[s] = "idle" /\ job[s].token = None
        /\ run = "created" /\ faults = 0
    BY EmptyFields DEF Init
  <1>3. LeaseShape /\ SlotShape /\ TokensUnique
    BY <1>2 DEF LeaseShape, Held, SlotShape, TokensUnique
  <1>4. RowFollowsSlot /\ SnapshotHolds /\ NodeSnapshotHolds /\ RunGovernsTasks
    BY <1>2 DEF RowFollowsSlot, SnapshotHolds, Snapshot, NodeSnapshotHolds, NodeSnapshot,
                RunGovernsTasks
  <1>5. TaskNodeAgreement
    BY <1>2 DEF TaskNodeAgreement, Agrees
  <1>6. AttemptOrder /\ AttemptsDistinct /\ ClaimsPaid
    BY <1>2 DEF AttemptOrder, AttemptsDistinct, ClaimsPaid
  <1>7. FaultsPaid
    BY <1>2, QueueAssumption DEF FaultsPaid, Paid
  <1> QED BY <1>1, <1>3, <1>4, <1>5, <1>6, <1>7 DEF IInv, QueueInv, Fencing, Agreement

\* Every step keeps the types, given that a slot past its lookup knows a task.
LEMMA NextType == IInv /\ [Next]_vars => TypeOK'
  <1> SUFFICES ASSUME IInv, [Next]_vars PROVE TypeOK'
    OBVIOUS
  <1>1. TypeOK /\ SlotShape
    BY DEF IInv, QueueInv, Fencing
  <1>2. ASSUME NEW s \in Slot, SlotStep(s) PROVE TypeOK'
    BY <1>1, <1>2, SlotStepType
  <1>3. CASE \/ \E s \in Slot : ReconcileAfter(s) \/ Abort(s)
             \/ \E k \in Token : LeaseAges(k)
             \/ recover_expired \/ promote_due_retries \/ SchedulerStep
    BY <1>1, <1>3, OtherStepType
  <1>4. CASE UNCHANGED vars
    BY <1>1, <1>4 DEF TypeOK, vars
  <1> QED BY <1>2, <1>3, <1>4 DEF Next

\* A step that leaves every variable alone.
LEMMA StutterFences ==
    ASSUME TypeOK, Fencing, UNCHANGED vars
    PROVE  Fencing'
  <1>1. UNCHANGED <<task, slotVars>> /\ faults' = faults /\ UNCHANGED <<ttl, pc, job, seen>>
    BY DEF vars, slotVars
  <1>2. SnapshotHolds' /\ FaultsPaid'
    BY <1>1 DEF Fencing, SnapshotHolds, Snapshot, FaultsPaid, Paid, Working
  <1> QED BY <1>1, <1>2, TimeFences

\* A slot's own code keeps the rows in agreement: one case for each action.
LEMMA SlotStepAgrees ==
    ASSUME IInv, NEW s \in Slot, SlotStep(s)
    PROVE  Agreement'
  <1>1. CASE ClaimLookup(s)
    <2>1. UNCHANGED <<run, node, task, seen, seenNode>>
      BY <1>1 DEF ClaimLookup
    <2>2. pc'[s] = "lookup" /\ \A x \in Slot \ {s} : pc'[x] = pc[x] /\ job'[x] = job[x]
      BY <1>1 DEF ClaimLookup, IInv, TypeOK
    <2> QED BY <2>1, <2>2, IdleAgrees
  <1>2. CASE ClaimLost(s) \/ StartLost(s) \/ ReportRefused(s)
    <2>1. PICK p \in {"idle", "reconcile"} : GoTo(s, p) /\ UNCHANGED <<run, node, task>>
      BY <1>2 DEF ClaimLost, StartLost, ReportRefused
    <2> QED BY <2>1, GoToEffect, IdleAgrees DEF IInv
  <1>3. CASE renew_lease(s)
    BY <1>3, IdleAgrees DEF renew_lease, slotVars
  <1>4. CASE Claim(s)
    BY <1>4, ClaimAgrees
  <1>5. CASE StartRead(s)
    BY <1>5, StartReadAgrees
  <1>6. CASE Start(s)
    BY <1>6, StartAgrees
  <1>7. CASE StartReleased(s) \/ StartCancelled(s)
    BY <1>7, StartReleasedAgrees, StartCancelledAgrees
  <1>8. CASE complete(s) \/ fail(s) \/ wait_node(s) \/ schedule_retry(s)
    BY <1>8, ReportAgrees
  <1> QED BY <1>1, <1>2, <1>3, <1>4, <1>5, <1>6, <1>7, <1>8 DEF SlotStep

\* Every step keeps the rest of the invariant.
LEMMA NextInv == IInv /\ [Next]_vars => QueueInv'
  <1> SUFFICES ASSUME IInv, [Next]_vars PROVE QueueInv'
    OBVIOUS
  <1>a. TypeOK /\ Fencing
    BY DEF IInv, QueueInv
  <1>1. ASSUME NEW s \in Slot, SlotStep(s) PROVE QueueInv'
    BY <1>a, <1>1, SlotStepFences, SlotStepAgrees DEF QueueInv
  <1>2. CASE \E s \in Slot : Abort(s)
    <2>1. PICK s \in Slot : GoTo(s, "idle") /\ UNCHANGED <<run, node, task>>
      BY <1>2 DEF Abort
    <2>2. Agreement'
      BY <1>a, <2>1, GoToEffect, IdleAgrees
    <2> QED BY <1>a, <1>2, <2>2, OtherStepFences DEF QueueInv
  <1>3. CASE \E k \in Token : LeaseAges(k)
    <2>1. Agreement'
      BY <1>3, IdleAgrees DEF LeaseAges, slotVars
    <2> QED BY <1>a, <1>3, <2>1, OtherStepFences DEF QueueInv
  <1>4. CASE recover_expired \/ promote_due_retries
    BY <1>a, <1>4, OtherStepFences, RecoverAgrees, PromoteAgrees DEF QueueInv
  <1>5. CASE SchedulerStep \/ \E s \in Slot : ReconcileAfter(s)
    BY <1>5, SchedulerStepKeeps
  <1>6. CASE UNCHANGED vars
    <2>1. Agreement'
      BY <1>6, IdleAgrees DEF vars
    <2> QED BY <1>a, <1>6, <2>1, StutterFences DEF QueueInv
  <1> QED BY <1>1, <1>2, <1>3, <1>4, <1>5, <1>6 DEF Next

\* The inductive invariant.
THEOREM Inductive == Spec => []IInv
  <1>1. IInv /\ [Next]_vars => IInv'
    BY NextType, NextInv DEF IInv
  <1> QED BY <1>1, InitInv, PTL DEF Spec

\* Every column and every local variable of a slot keeps its type: claim() and
\* start() never work on a task they have forgotten.
THEOREM TypeCorrect == Spec => []TypeOK
  BY Inductive, PTL DEF IInv

\* Leases, snapshots, attempts and faults fit together in every reachable state
\* of mysql.py and workflow_worker.py.
THEOREM QueueInvariant == Spec => []QueueInv
  BY Inductive, PTL DEF IInv

\* An execution task and its node run never contradict each other.
THEOREM TasksAgreeWithNodes == Spec => []TaskNodeAgreement
  BY QueueInvariant, PTL DEF QueueInv, Agreement

\* Two executions of one task never carry the same attempt number.
THEOREM AttemptNumbersDistinct == Spec => []AttemptsDistinct
  BY QueueInvariant, PTL DEF QueueInv, Fencing

\* The owner of a good lease reports the attempt that the row counts.
THEOREM OwnersAreCurrent == Spec => []OwnerIsCurrent
  <1>1. IInv => OwnerIsCurrent
    BY FencingTells DEF IInv, QueueInv
  <1> QED BY <1>1, Inductive, PTL

\* The retry budget: nothing but lost leases takes a task beyond max_attempts.
THEOREM BudgetKept == Spec => []AttemptBudget
  <1>1. IInv => AttemptBudget
    BY FencingTells DEF IInv, QueueInv
  <1> QED BY <1>1, Inductive, PTL

-----------------------------------------------------------------------------
(* Action properties *)

\* Slots that publish nothing: they write a row of theirs with a status that is
\* no result, or no row at all.
LEMMA SlotWrites ==
    ASSUME TypeOK, NEW s \in Slot, SlotStep(s), NEW t \in Task
    PROVE  \/ task'[t] = task[t]
           \/ t = job[s].task /\ task'[t].status \in {"claimed", "running", "pending", "cancelled"}
           \/ t = job[s].task /\ Reporting(s) /\ pc'[s] \in {"idle", "reconcile"}
  <1>1. CASE ClaimLookup(s) \/ ClaimLost(s) \/ StartRead(s) \/ StartLost(s) \/ ReportRefused(s)
             \/ renew_lease(s)
    BY <1>1 DEF ClaimLookup, ClaimLost, StartRead, StartLost, ReportRefused, renew_lease
  <1>2. CASE Claim(s)
    <2>1. PICK k \in FreshToken :
            task' = [task EXCEPT ![job[s].task] =
                       [@ EXCEPT !.status = "claimed", !.locked_by = WorkerOf[s], !.lease_token = k]]
      BY <1>2 DEF Claim
    <2>2. task[t] \in Row
      BY DEF TypeOK
    <2> QED BY <2>1, <2>2, ClaimedFields DEF TypeOK
  <1>3. CASE Start(s)
    <2>1. task[t] \in Row
      BY DEF TypeOK
    <2> QED BY <1>3, <2>1, StartedFields DEF Start, TypeOK
  <1>4. CASE StartReleased(s)
    <2>1. task[t] \in Row
      BY DEF TypeOK
    <2> QED BY <1>4, <2>1, ReleasedFields DEF StartReleased, TypeOK
  <1>5. CASE StartCancelled(s)
    <2>1. task[t] \in Row
      BY DEF TypeOK
    <2> QED BY <1>5, <2>1, StatusFields DEF StartCancelled, TypeOK
  <1>6. CASE complete(s) \/ fail(s) \/ wait_node(s) \/ schedule_retry(s)
    <2>1. Reporting(s) /\ (GoTo(s, "idle") \/ GoTo(s, "reconcile"))
      BY <1>6 DEF complete, fail, wait_node, schedule_retry, Write
    <2>2. pc'[s] \in {"idle", "reconcile"}
      BY <2>1, GoToEffect
    <2>3. t # job[s].task => task'[t] = task[t]
      BY <1>6 DEF complete, fail, wait_node, schedule_retry, Write, TypeOK
    <2> QED BY <2>1, <2>2, <2>3
  <1> QED BY <1>1, <1>2, <1>3, <1>4, <1>5, <1>6 DEF SlotStep

\* The slot that publishes the result of a task under the row's unexpired lease.
PublishedBy(s, t) ==
    /\ pc[s] = "executing" /\ pc'[s] # "executing"
    /\ job[s].task = t
    /\ job[s].token = task[t].lease_token
    /\ ttl[job[s].token] > 0
    /\ job[s].attempt + 1 = task[t].attempt

\* A slot's own code, one step.
LEMMA SlotStepFenced ==
    ASSUME TypeOK, Fencing, NEW s \in Slot, SlotStep(s), NEW t \in Task, Published(t)
    PROVE  PublishedBy(s, t)
  <1>1. t = job[s].task /\ Reporting(s) /\ pc'[s] \in {"idle", "reconcile"}
    BY SlotWrites DEF Published
  <1> QED BY <1>1, ReportingRow DEF Reporting, owns, PublishedBy

\* Nothing else publishes.
LEMMA OthersPublishNothing ==
    ASSUME TypeOK, Fencing, NEW t \in Task,
           \/ \E s \in Slot : Abort(s)
           \/ \E k \in Token : LeaseAges(k)
           \/ recover_expired \/ promote_due_retries
           \/ OnlyAddsOrCancels
    PROVE  ~ Published(t)
  <1>1. CASE (\E s \in Slot : Abort(s)) \/ (\E k \in Token : LeaseAges(k))
    BY <1>1 DEF Abort, LeaseAges, Published
  <1>2. CASE recover_expired
    BY <1>2, RecoverEffect DEF Published
  <1>3. CASE promote_due_retries
    BY <1>3, PromoteEffect DEF Fencing, Published
  <1>4. CASE OnlyAddsOrCancels
    BY <1>4 DEF OnlyAddsOrCancels, Published
  <1> QED BY <1>1, <1>2, <1>3, <1>4

\* The fencing of one step.
LEMMA StepFenced ==
    ASSUME IInv, Next, NEW t \in Task, Published(t)
    PROVE  \E s \in Slot : PublishedBy(s, t)
  <1>a. TypeOK /\ Fencing
    BY DEF IInv, QueueInv
  <1>1. ASSUME NEW s \in Slot, SlotStep(s) PROVE PublishedBy(s, t)
    BY <1>a, <1>1, SlotStepFenced
  <1>2. CASE \/ \E s \in Slot : Abort(s)
             \/ \E k \in Token : LeaseAges(k)
             \/ recover_expired \/ promote_due_retries
    BY <1>a, <1>2, OthersPublishNothing
  <1>3. CASE SchedulerStep \/ \E s \in Slot : ReconcileAfter(s)
    <2>1. SchedulerEffect
      BY <1>3 DEF SchedulerStep, ReconcileAfter
    <2>2. OnlyAddsOrCancels
      BY <2>1, SchedulerRow DEF OnlyAddsOrCancels
    <2> QED BY <1>a, <2>2, OthersPublishNothing
  <1> QED BY <1>1, <1>2, <1>3 DEF Next

\* A result is written only by the slot that holds the row's unexpired lease,
\* and it is the result of the attempt the row counts last.
THEOREM ResultsFenced == Spec => PublishFenced
  <1>1. IInv /\ [Next]_vars =>
           [\A t \in Task : Published(t) => \E s \in Slot : PublishedBy(s, t)]_vars
    BY StepFenced
  <1> QED BY <1>1, Inductive, PTL DEF Spec, PublishFenced, PublishedBy

\* What a step of a slot does to a node: nothing, or the write of the owner of
\* the node's task, which the agreement of the two rows says is not over.
LEMMA SlotNodes ==
    ASSUME IInv, NEW s \in Slot, SlotStep(s), NEW t \in Task
    PROVE  node'[t] = node[t] \/ ~ is_node_run_terminal(node[t])
  <1> USE DEF IInv, QueueInv
  <1>1. CASE ClaimLookup(s) \/ Claim(s) \/ ClaimLost(s) \/ StartRead(s) \/ StartLost(s)
             \/ StartReleased(s) \/ ReportRefused(s) \/ renew_lease(s)
    BY <1>1 DEF ClaimLookup, Claim, ClaimLost, StartRead, StartLost, StartReleased,
                ReportRefused, renew_lease
  <1>2. CASE Start(s) \/ StartCancelled(s)
    <2>1. pc[s] = "starting" /\ owns(seen[s], s)
      BY <1>2 DEF Start, StartCancelled
    <2>2. /\ task[job[s].task].status \in {"claimed", "cancelled"}
          /\ task[job[s].task].lease_token = job[s].token /\ job[s].task \in Task
      BY <2>1, OwnedSnapshot DEF owns
    <2>3. \A x \in Task : x # job[s].task => node'[x] = node[x]
      BY <1>2 DEF Start, StartCancelled, TypeOK
    <2>4. CASE task[job[s].task].status = "claimed"
      BY <2>2, <2>3, <2>4 DEF Agreement, TaskNodeAgreement, Agrees,
                                   is_node_run_terminal, NODE_RUN_TERMINAL
    <2>5. CASE task[job[s].task].status = "cancelled"
      <3>1. run \in WORKFLOW_RUN_TERMINAL /\ node[job[s].task] = "cancelled"
        BY <2>2, <2>5 DEF Agreement, RunGovernsTasks, TaskNodeAgreement, Agrees
      <3>2. StartCancelled(s)
        BY <1>2, <3>1 DEF Start, WORKFLOW_RUN_TERMINAL
      <3>3. node'[job[s].task] = "cancelled"
        BY <2>2, <3>1, <3>2 DEF StartCancelled, TypeOK
      <3> QED BY <2>3, <3>1, <3>3
    <2> QED BY <2>2, <2>4, <2>5
  <1>3. CASE complete(s) \/ fail(s) \/ wait_node(s) \/ schedule_retry(s)
    <2>1. Reporting(s)
      BY <1>3 DEF complete, fail, wait_node, schedule_retry
    <2>2. node[job[s].task] = "running"
      BY <2>1, ReportingNode
    <2>3. t # job[s].task => node'[t] = node[t]
      BY <1>3 DEF complete, fail, wait_node, schedule_retry, Write, TypeOK
    <2> QED BY <2>2, <2>3 DEF is_node_run_terminal, NODE_RUN_TERMINAL
  <1> QED BY <1>1, <1>2, <1>3 DEF SlotStep

\* A slot writes no row that has a terminal status already, except that a slot
\* which was starting when its run was cancelled cancels the row once more.
LEMMA SlotTasks ==
    ASSUME IInv, NEW s \in Slot, SlotStep(s), NEW t \in Task,
           is_execution_task_terminal(task[t].status)
    PROVE  task'[t].status = task[t].status
  <1> USE DEF IInv, QueueInv, is_execution_task_terminal, EXECUTION_TASK_TERMINAL
  <1>1. CASE task'[t] = task[t]
    BY <1>1
  <1>2. CASE t = job[s].task /\ Reporting(s)
    BY <1>2, ReportingRow
  <1>3. CASE t = job[s].task /\ ~ Reporting(s) /\ task'[t] # task[t]
    <2>1. Claim(s) \/ Start(s) \/ StartReleased(s) \/ StartCancelled(s)
      BY <1>3 DEF SlotStep, ClaimLookup, ClaimLost, StartRead, StartLost, ReportRefused,
                  renew_lease, complete, fail, wait_node, schedule_retry
    <2>2. ~ Claim(s)
      BY <1>3 DEF Claim, Claimable
    <2>3. pc[s] = "starting" /\ owns(seen[s], s)
      BY <2>1, <2>2 DEF Start, StartReleased, StartCancelled
    <2>4. task[t].status \in {"claimed", "cancelled"} /\ task[t] \in Row
      BY <1>3, <2>3, OwnedSnapshot DEF owns, TypeOK
    <2>5. run \in WORKFLOW_RUN_TERMINAL
      BY <2>4 DEF Agreement, RunGovernsTasks
    <2>6. StartCancelled(s)
      BY <2>1, <2>2, <2>5 DEF Start, StartReleased, WORKFLOW_RUN_TERMINAL
    <2>7. task'[t] = [task[t] EXCEPT !.status = "cancelled"]
      BY <1>3, <2>6 DEF StartCancelled, TypeOK
    <2> QED BY <2>4, <2>7, StatusFields
  <1> QED BY <1>1, <1>2, <1>3, SlotWrites

\* What one step leaves alone: the statuses that are terminal.
LEMMA StepStable ==
    ASSUME IInv, Next, NEW t \in Task
    PROVE  /\ is_execution_task_terminal(task[t].status) => task'[t].status = task[t].status
           /\ is_node_run_terminal(node[t]) => node'[t] = node[t]
  <1> DEFINE Stable ==
        /\ is_execution_task_terminal(task[t].status) => task'[t].status = task[t].status
        /\ is_node_run_terminal(node[t]) => node'[t] = node[t]
  <1> USE DEF is_execution_task_terminal, EXECUTION_TASK_TERMINAL,
              is_node_run_terminal, NODE_RUN_TERMINAL
  <1>1. ASSUME NEW s \in Slot, SlotStep(s) PROVE Stable
    BY <1>1, SlotNodes, SlotTasks
  <1>2. CASE (\E s \in Slot : Abort(s)) \/ (\E k \in Token : LeaseAges(k))
    BY <1>2 DEF Abort, LeaseAges
  <1>3. CASE recover_expired
    BY <1>3 DEF recover_expired, Expired, Held
  <1>4. CASE promote_due_retries
    <2>1. PICK due \in SUBSET {x \in Task : task[x].status = "retry_wait"} :
            /\ task' = [x \in Task |-> IF x \in due THEN [task[x] EXCEPT !.status = "pending"]
                                                    ELSE task[x]]
            /\ node' = [x \in Task |-> IF x \in due THEN "queued" ELSE node[x]]
      BY <1>4 DEF promote_due_retries
    <2>2. t \in due => node[t] = "retrying" /\ task[t].status = "retry_wait"
      BY DEF IInv, QueueInv, Agreement, TaskNodeAgreement, Agrees
    <2> QED BY <2>1, <2>2
  <1>5. CASE SchedulerStep \/ \E s \in Slot : ReconcileAfter(s)
    <2>1. SchedulerEffect
      BY <1>5 DEF SchedulerStep, ReconcileAfter
    <2> QED BY <2>1, SchedulerRow DEF Open
  <1> QED BY <1>1, <1>2, <1>3, <1>4, <1>5 DEF Next

\* No step takes a task or a node out of a terminal status, whatever a slot read
\* before it locked the rows.
THEOREM TerminalsStable == Spec => TerminalStable
  <1>1. IInv /\ [Next]_vars =>
          [\A t \in Task :
              /\ is_execution_task_terminal(task[t].status) => task'[t].status = task[t].status
              /\ is_node_run_terminal(node[t]) => node'[t] = node[t]]_vars
    BY StepStable
  <1> QED BY <1>1, Inductive, PTL DEF Spec, TerminalStable

=============================================================================
