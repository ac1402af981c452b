------------------------ MODULE LeasedWorkProofs -------------------------
(* ExecutionQueue implements LeasedWork: every step of the queue is, for each  *)
(* task, one of the steps that the abstract specification allows, or none.     *)
EXTENDS ExecutionQueueProofs

\* What the refinement mapping reads off the two rows of a task.
LEMMA Mapped ==
    ASSUME NEW t \in Task
    PROVE  /\ task[t].status \in {"claimed", "running"}
                => WorkPhase[t] = "held" /\ WorkHolder[t] = task[t].lease_token
           /\ task[t].status \in {"pending", "retry_wait"}
                => WorkPhase[t] = "open" /\ WorkHolder[t] = None
           /\ task[t].status = "absent" /\ node[t] = "pending"
                => WorkPhase[t] = "none" /\ WorkHolder[t] = None
           /\ task[t].status = "absent" /\ node[t] # "pending"
                => WorkPhase[t] = "closed" /\ WorkHolder[t] = None
           /\ task[t].status \in {"completed", "failed", "cancelled"}
                => WorkPhase[t] = "closed" /\ WorkHolder[t] = None
           /\ node[t] \in {"completed", "failed", "skipped", "cancelled", "waiting"}
                => WorkOutcome[t] = node[t]
           /\ node[t] \notin {"completed", "failed", "skipped", "cancelled", "waiting"}
                => WorkOutcome[t] = "none"
  BY DEF WorkPhase, WorkHolder, WorkOutcome, Held, NODE_RUN_TERMINAL

\* The same in the next state.
LEMMA MappedNext ==
    ASSUME NEW t \in Task
    PROVE  /\ task'[t].status \in {"claimed", "running"}
                => WorkPhase'[t] = "held" /\ WorkHolder'[t] = task'[t].lease_token
           /\ task'[t].status \in {"pending", "retry_wait"}
                => WorkPhase'[t] = "open" /\ WorkHolder'[t] = None
           /\ task'[t].status = "absent" /\ node'[t] = "pending"
                => WorkPhase'[t] = "none" /\ WorkHolder'[t] = None
           /\ task'[t].status = "absent" /\ node'[t] # "pending"
                => WorkPhase'[t] = "closed" /\ WorkHolder'[t] = None
           /\ task'[t].status \in {"completed", "failed", "cancelled"}
                => WorkPhase'[t] = "closed" /\ WorkHolder'[t] = None
           /\ node'[t] \in {"completed", "failed", "skipped", "cancelled", "waiting"}
                => WorkOutcome'[t] = node'[t]
           /\ node'[t] \notin {"completed", "failed", "skipped", "cancelled", "waiting"}
                => WorkOutcome'[t] = "none"
  BY DEF WorkPhase, WorkHolder, WorkOutcome, Held, NODE_RUN_TERMINAL

\* A held task has a token, and none but it has that token.
LEMMA HoldersApart ==
    ASSUME IInv, NEW v \in Task, NEW k, k # None, \A t \in Task : task[t].lease_token # k
    PROVE  WorkHolder[v] # k
  BY DEF WorkHolder

-----------------------------------------------------------------------------
\* What one step of the queue may do to the two rows of a task.
Kept(t) ==
    /\ task'[t].status = task[t].status /\ task'[t].lease_token = task[t].lease_token
    /\ node'[t] = node[t]

Inserted(t) ==
    /\ task[t].status = "absent" /\ node[t] = "pending"
    /\ task'[t].status = "pending" /\ node'[t] = "queued"

Granted(t) ==
    /\ task[t].status = "pending" /\ task'[t].status = "claimed" /\ node'[t] = node[t]
    /\ task'[t].lease_token \in Token
    /\ \A v \in Task : task[v].lease_token # task'[t].lease_token

Started(t) ==
    /\ task[t].status = "claimed" /\ task'[t].status = "running"
    /\ task'[t].lease_token = task[t].lease_token

GivenBack(t) ==
    /\ task[t].status \in {"claimed", "running"} /\ task'[t].status \in {"pending", "retry_wait"}

Reported(t) ==
    /\ task[t].status = "running" /\ task'[t].status \in {"completed", "failed"}
    /\ node'[t] \in {"completed", "failed", "waiting"}

Promoted(t) ==
    task[t].status = "retry_wait" /\ task'[t].status = "pending"

Cancelled(t) ==
    /\ task[t].status \in {"pending", "claimed", "running", "retry_wait"}
    /\ task'[t].status = "cancelled"

PassedOver(t) ==
    /\ task[t].status = "absent" /\ task'[t].status = "absent"
    /\ node[t] = "pending" /\ node'[t] \in {"skipped", "cancelled"}

Decided(t) ==
    /\ task[t].status = "completed" /\ task'[t].status = "completed"
    /\ node[t] = "waiting" /\ node'[t] \in {"completed", "failed", "cancelled"}

Effect(t) ==
    \/ Kept(t) \/ Inserted(t) \/ Granted(t) \/ Started(t) \/ GivenBack(t)
    \/ Reported(t) \/ Promoted(t) \/ Cancelled(t) \/ PassedOver(t) \/ Decided(t)

\* Each of these effects is an abstract step of the item.
LEMMA EffectIsAbstract ==
    ASSUME IInv, IInv', NEW t \in Task, Effect(t)
    PROVE  \/ Work!Same(t) \/ Work!Offer(t) \/ Work!Grant(t) \/ Work!Revoke(t)
           \/ Work!Publish(t) \/ Work!Withdraw(t) \/ Work!Decide(t)
  <1>1. Agrees(t) /\ Agrees(t)'
    BY DEF IInv, QueueInv, Agreement, TaskNodeAgreement
  <1>2. task[t] \in Row /\ task'[t] \in Row
    BY DEF IInv, TypeOK
  <1>3. CASE Kept(t)
    <2>1. task[t].status \in {"absent", "pending", "claimed", "running", "retry_wait", "completed", "failed", "cancelled"}
      BY <1>2 DEF Row, ExecutionTaskStatus
    <2> QED BY <1>3, <2>1, Mapped, MappedNext DEF Kept, Work!Same
  <1>4. CASE Inserted(t)
    BY <1>4, Mapped, MappedNext DEF Inserted, Work!Offer
  <1>5. CASE Granted(t)
    <2>1. WorkPhase[t] = "open" /\ WorkPhase'[t] = "held" /\ WorkHolder'[t] = task'[t].lease_token
      BY <1>5, Mapped, MappedNext DEF Granted
    <2>2. node'[t] \in {"queued", "running"}
      BY <1>1, <1>5 DEF Granted, Agrees
    <2>3. WorkOutcome'[t] = "none"
      BY <2>2, MappedNext
    <2>4. task'[t].lease_token \in Token /\ task'[t].lease_token # None
      BY <1>5, QueueAssumption DEF Granted
    <2>5. \A v \in Task : WorkHolder[v] # task'[t].lease_token
      BY <1>5, <2>4, HoldersApart DEF Granted
    <2> QED BY <2>1, <2>3, <2>4, <2>5 DEF Work!Grant
  <1>6. CASE Started(t)
    <2>1. node[t] \in {"queued", "running"} /\ node'[t] = "running"
      BY <1>1, <1>6 DEF Started, Agrees
    <2> QED BY <1>6, <2>1, Mapped, MappedNext DEF Started, Work!Same
  <1>7. CASE GivenBack(t)
    <2>1. node'[t] \in {"queued", "running", "retrying"}
      BY <1>1, <1>7 DEF GivenBack, Agrees
    <2> QED BY <1>7, <2>1, Mapped, MappedNext DEF GivenBack, Work!Revoke
  <1>8. CASE Reported(t)
    <2>1. node[t] = "running"
      BY <1>1, <1>8 DEF Reported, Agrees
    <2> QED BY <1>8, <2>1, Mapped, MappedNext DEF Reported, Work!Publish, NODE_RUN_TERMINAL
  <1>9. CASE Promoted(t)
    <2>1. node[t] = "retrying" /\ node'[t] \in {"queued", "running"}
      BY <1>1, <1>9 DEF Promoted, Agrees
    <2> QED BY <1>9, <2>1, Mapped, MappedNext DEF Promoted, Work!Same
  <1>10. CASE Cancelled(t)
    <2>1. node[t] \in {"queued", "running", "retrying"} /\ node'[t] = "cancelled"
      BY <1>1, <1>10 DEF Cancelled, Agrees
    <2> QED BY <1>10, <2>1, Mapped, MappedNext DEF Cancelled, Work!Withdraw, NODE_RUN_TERMINAL
  <1>11. CASE PassedOver(t)
    BY <1>11, Mapped, MappedNext DEF PassedOver, Work!Withdraw, NODE_RUN_TERMINAL
  <1>12. CASE Decided(t)
    BY <1>12, Mapped, MappedNext DEF Decided, Work!Decide, NODE_RUN_TERMINAL
  <1> QED BY <1>3, <1>4, <1>5, <1>6, <1>7, <1>8, <1>9, <1>10, <1>11, <1>12 DEF Effect

-----------------------------------------------------------------------------
(* Every step of the queue has one of these effects on every task.             *)

\* A step of a slot.
LEMMA SlotEffect ==
    ASSUME IInv, NEW s \in Slot, SlotStep(s), NEW t \in Task
    PROVE  Effect(t)
  <1> USE DEF IInv, QueueInv, Agreement
  <1>0. task[t] \in Row
    BY DEF TypeOK
  <1>1. CASE ClaimLookup(s) \/ ClaimLost(s) \/ StartRead(s) \/ StartLost(s) \/ ReportRefused(s)
             \/ renew_lease(s)
    BY <1>1 DEF ClaimLookup, ClaimLost, StartRead, StartLost, ReportRefused, renew_lease, Effect, Kept
  <1>2. CASE Claim(s)
    <2>1. PICK k \in FreshToken :
            task' = [task EXCEPT ![job[s].task] =
                       [@ EXCEPT !.status = "claimed", !.locked_by = WorkerOf[s], !.lease_token = k]]
      BY <1>2 DEF Claim
    <2>2. node' = node
      BY <1>2 DEF Claim
    <2>3. CASE t # job[s].task
      BY <2>1, <2>2, <2>3 DEF TypeOK, Effect, Kept
    <2>4. CASE t = job[s].task
      <3>1. task[t].status = "pending"
        BY <1>2, <2>4 DEF Claim, Claimable
      <3>2. task'[t] = [task[t] EXCEPT !.status = "claimed", !.locked_by = WorkerOf[s], !.lease_token = k]
        BY <2>1, <2>4 DEF TypeOK
      <3>3. task'[t].status = "claimed" /\ task'[t].lease_token = k
        BY <1>0, <3>2, ClaimedFields
      <3>4. k \in Token /\ \A v \in Task : task[v].lease_token # k
        BY DEF FreshToken
      <3> QED BY <2>2, <3>1, <3>3, <3>4 DEF Effect, Granted
    <2> QED BY <2>3, <2>4
  <1>3. CASE Start(s) \/ StartReleased(s) \/ StartCancelled(s)
    <2>1. pc[s] = "starting" /\ owns(seen[s], s)
      BY <1>3 DEF Start, StartReleased, StartCancelled
    <2>2. job[s].task \in Task /\ task[job[s].task].status \in {"claimed", "cancelled"}
      BY <2>1, OwnedSnapshot
    <2>3. CASE t # job[s].task
      BY <1>3, <2>3 DEF Start, StartReleased, StartCancelled, TypeOK, Effect, Kept
    <2>4. CASE t = job[s].task /\ Start(s)
      <3>1. task[t].status = "claimed"
        BY <2>2, <2>4 DEF Start, RunGovernsTasks, WORKFLOW_RUN_TERMINAL
      <3>2. task'[t] = [task[t] EXCEPT !.status = "running", !.attempt = seen[s].attempt + 1]
        BY <2>4 DEF Start, TypeOK
      <3>3. task'[t].status = "running" /\ task'[t].lease_token = task[t].lease_token
        BY <1>0, <3>2, StartedFields
      <3> QED BY <3>1, <3>3 DEF Effect, Started
    <2>5. CASE t = job[s].task /\ StartReleased(s)
      <3>1. task[t].status = "claimed"
        BY <2>2, <2>5 DEF StartReleased, RunGovernsTasks, WORKFLOW_RUN_TERMINAL
      <3>2. task'[t] = Released(task[t], "pending")
        BY <2>5 DEF StartReleased, TypeOK
      <3>3. task'[t].status = "pending"
        BY <1>0, <3>2, ReleasedFields
      <3> QED BY <3>1, <3>3 DEF Effect, GivenBack
    <2>6. CASE t = job[s].task /\ StartCancelled(s)
      <3>1. task'[t] = [task[t] EXCEPT !.status = "cancelled"]
        BY <2>6 DEF StartCancelled, TypeOK
      <3>2. task'[t].status = "cancelled" /\ task'[t].lease_token = task[t].lease_token
        BY <1>0, <3>1, StatusFields
      <3>3. CASE task[t].status = "claimed"
        BY <3>2, <3>3 DEF Effect, Cancelled
      <3>4. CASE task[t].status = "cancelled"
        <4>1. node[t] = "cancelled"
          BY <3>4 DEF TaskNodeAgreement, Agrees
        <4>2. node'[t] = "cancelled"
          BY <2>6, <4>1 DEF StartCancelled, TypeOK
        <4> QED BY <3>2, <3>4, <4>1, <4>2 DEF Effect, Kept
      <3> QED BY <2>2, <2>6, <3>3, <3>4
    <2> QED BY <1>3, <2>3, <2>4, <2>5, <2>6
  <1>4. CASE complete(s) \/ fail(s) \/ wait_node(s) \/ schedule_retry(s)
    <2>1. Reporting(s)
      BY <1>4 DEF complete, fail, wait_node, schedule_retry
    <2>2. /\ job[s].task \in Task /\ task[job[s].task].status = "running"
          /\ node[job[s].task] = "running" /\ task[job[s].task] \in Row
      BY <2>1, ReportingRow, ReportingNode
    <2>3. CASE t # job[s].task
      BY <1>4, <2>3 DEF complete, fail, wait_node, schedule_retry, Write, TypeOK, Effect, Kept
    <2>4. CASE t = job[s].task /\ (complete(s) \/ fail(s) \/ wait_node(s))
      <3>1. PICK p \in {"completed", "failed"} : task'[t] = [task[t] EXCEPT !.status = p]
        BY <2>2, <2>4 DEF complete, fail, wait_node, Write, TypeOK
      <3>2. task'[t].status \in {"completed", "failed"}
        BY <1>0, <3>1, StatusFields
      <3>3. node'[t] \in {"completed", "failed", "waiting"}
        BY <2>2, <2>4 DEF complete, fail, wait_node, Write, TypeOK, is_node_run_terminal, NODE_RUN_TERMINAL
      <3> QED BY <2>2, <2>4, <3>2, <3>3 DEF Effect, Reported
    <2>5. CASE t = job[s].task /\ schedule_retry(s)
      <3>1. task'[t] = Released(task[t], "retry_wait")
        BY <2>2, <2>5 DEF schedule_retry, Write, TypeOK
      <3>2. task'[t].status = "retry_wait"
        BY <1>0, <3>1, ReleasedFields
      <3> QED BY <2>2, <2>5, <3>2 DEF Effect, GivenBack
    <2> QED BY <1>4, <2>3, <2>4, <2>5
  <1> QED BY <1>1, <1>2, <1>3, <1>4 DEF SlotStep

\* A transaction of the scheduler or of the API.
LEMMA SchedulerEffects ==
    ASSUME IInv, SchedulerEffect, NEW t \in Task
    PROVE  Effect(t)
  <1> USE DEF IInv, QueueInv, Agreement
  <1>1. Agrees(t) /\ task[t] \in Row
    BY DEF TaskNodeAgreement, TypeOK
  <1>2. task[t].status \in {"absent", "pending", "claimed", "running", "retry_wait", "completed", "failed", "cancelled"}
    BY <1>1 DEF Row, ExecutionTaskStatus
  <1>3. CASE ~ is_node_run_terminal(node[t]) /\ ~ Open(task[t]) /\ task'[t] = task[t] /\ node'[t] = "cancelled"
    <2>1. task[t].status \in {"absent", "completed", "failed", "cancelled"}
      BY <1>2, <1>3 DEF Open, EXECUTION_TASK_TERMINAL
    <2>2. \/ task[t].status = "absent" /\ node[t] = "pending"
          \/ task[t].status = "completed" /\ node[t] = "waiting"
      BY <1>1, <1>3, <2>1 DEF Agrees, is_node_run_terminal, NODE_RUN_TERMINAL
    <2> QED BY <1>3, <2>2 DEF Effect, PassedOver, Decided
  <1>4. CASE Open(task[t]) /\ task'[t].status = "cancelled"
    <2>1. task[t].status \in {"pending", "claimed", "running", "retry_wait"}
      BY <1>2, <1>4 DEF Open, EXECUTION_TASK_TERMINAL
    <2> QED BY <1>4, <2>1 DEF Effect, Cancelled
  <1>5. CASE task'[t] = task[t] /\ node'[t] = node[t]
    BY <1>5 DEF Effect, Kept
  <1>6. CASE task[t].status = "absent" /\ node[t] = "pending" /\ task'[t].status = "pending" /\ node'[t] = "queued"
    BY <1>6 DEF Effect, Inserted
  <1>7. CASE task[t].status = "absent" /\ node[t] = "pending" /\ task'[t] = task[t] /\ node'[t] = "skipped"
    BY <1>7 DEF Effect, PassedOver
  <1>8. CASE /\ task[t].status = "completed" /\ node[t] = "waiting"
             /\ task'[t] = task[t] /\ node'[t] \in {"completed", "failed"}
    BY <1>8 DEF Effect, Decided
  <1> QED BY <1>3, <1>4, <1>5, <1>6, <1>7, <1>8, SchedulerRow

\* Any step.
LEMMA StepEffect ==
    ASSUME IInv, [Next]_vars, NEW t \in Task
    PROVE  Effect(t)
  <1>0. task[t] \in Row
    BY DEF IInv, TypeOK
  <1>1. ASSUME NEW s \in Slot, SlotStep(s) PROVE Effect(t)
    BY <1>1, SlotEffect
  <1>2. CASE (\E s \in Slot : Abort(s)) \/ (\E k \in Token : LeaseAges(k)) \/ UNCHANGED vars
    BY <1>2 DEF Abort, LeaseAges, vars, Effect, Kept
  <1>3. CASE recover_expired
    <2>1. CASE Expired(t)
      <3>1. task'[t] = Released(task[t], "pending")
        BY <1>3, <2>1 DEF recover_expired
      <3>2. task'[t].status = "pending"
        BY <1>0, <3>1, ReleasedFields
      <3> QED BY <2>1, <3>2 DEF Expired, Held, Effect, GivenBack
    <2>2. CASE ~ Expired(t)
      BY <1>3, <2>2 DEF recover_expired, Effect, Kept
    <2> QED BY <2>1, <2>2
  <1>4. CASE promote_due_retries
    <2>1. PICK due \in SUBSET {x \in Task : task[x].status = "retry_wait"} :
            /\ task' = [x \in Task |-> IF x \in due THEN [task[x] EXCEPT !.status = "pending"]
                                                    ELSE task[x]]
            /\ node' = [x \in Task |-> IF x \in due THEN "queued" ELSE node[x]]
      BY <1>4 DEF promote_due_retries
    <2>2. CASE t \in due
      <3>1. task[t].status = "retry_wait" /\ task'[t].status = "pending"
        BY <1>0, <2>1, <2>2, StatusFields
      <3> QED BY <3>1 DEF Effect, Promoted
    <2>3. CASE t \notin due
      BY <2>1, <2>3 DEF Effect, Kept
    <2> QED BY <2>2, <2>3
  <1>5. CASE SchedulerStep \/ \E s \in Slot : ReconcileAfter(s)
    <2>1. SchedulerEffect
      BY <1>5 DEF SchedulerStep, ReconcileAfter
    <2> QED BY <2>1, SchedulerEffects
  <1> QED BY <1>1, <1>2, <1>3, <1>4, <1>5 DEF Next

-----------------------------------------------------------------------------
\* The queue implements LeasedWork for every set of tasks, slots and tokens:
\* one holder at a time, and an outcome that is written once, by the holder, in
\* the transaction in which the task leaves the queue.
THEOREM QueueImplementsLeasedWork == Spec => ImplementsLeasedWork
  <1>1. Init => Work!Init
    <2> SUFFICES ASSUME Init PROVE Work!Init
      OBVIOUS
    <2>1. \A t \in Task : task[t].status = "absent" /\ node[t] = "pending"
      BY EmptyFields DEF Init, NoRow
    <2>2. \A t \in Task : WorkPhase[t] = "none" /\ WorkHolder[t] = None /\ WorkOutcome[t] = "none"
      BY <2>1, Mapped
    <2> QED BY <2>2 DEF Work!Init, WorkPhase, WorkHolder, WorkOutcome
  <1>2. IInv /\ IInv' /\ [Next]_vars => [Work!Next]_Work!vars
    <2> SUFFICES ASSUME IInv, IInv', [Next]_vars PROVE Work!Next
      OBVIOUS
    <2> QED BY StepEffect, EffectIsAbstract DEF Work!Next
  <1> QED BY <1>1, <1>2, Inductive, PTL DEF Spec, ImplementsLeasedWork, Work!Spec
=============================================================================
