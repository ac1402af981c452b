--------------------------- MODULE ExecutionQueue ---------------------------
(***************************************************************************)
(* The durable execution queue of one WorkflowRun: the execution_tasks     *)
(* rows, the status of the node_runs they execute, the status of the run,  *)
(* and the Worker slots that claim, start, execute and report tasks        *)
(* (infrastructure/execution_backend/mysql.py, workers/workflow_worker.py).*)
(*                                                                         *)
(* Every database transaction is one step, except that a read a            *)
(* transaction makes before it takes its row locks is a step of its own:   *)
(* the candidate lookup of claim() and the db.get() of start(), whose      *)
(* object stays in the identity map and hides the row read under the lock. *)
(*                                                                         *)
(* The scheduler and the API share these rows.  SchedulerEffect states     *)
(* what one of their transactions may do to them; module WorkflowRuntime   *)
(* models those transactions and shows that they stay within it.           *)
(***************************************************************************)
EXTENDS Naturals, FiniteSets, RuntimeStates

CONSTANTS
    Task,         \* execution_tasks.id; UNIQUE(node_run_id): also names its NodeRun
    Parking,      \* tasks of human and wait nodes, parked rather than executed
    MaxAttempts,  \* max_attempts of each task
    Slot,         \* concurrency slots of all Worker processes
    Worker,       \* worker ids
    WorkerOf,     \* the worker a slot belongs to
    Token,        \* lease tokens (uuid4); one that occurs nowhere counts as new
    None,         \* SQL NULL
    LeaseTicks,   \* length of a lease
    MaxFaults     \* bound on slot aborts and on leases lost under a live slot

ASSUME QueueAssumption ==
    /\ Parking \subseteq Task
    /\ MaxAttempts \in [Task -> Nat \ {0}]
    /\ WorkerOf \in [Slot -> Worker]
    /\ None \notin Task \cup Worker \cup Token
    /\ LeaseTicks \in Nat \ {0}
    /\ MaxFaults \in Nat

VARIABLES
    run,      \* workflow_runs.status
    node,     \* node_runs.status, by the task of the node
    task,     \* the execution_tasks rows
    ttl,      \* time left until lease_expires_at of the lease with a token
    pc,       \* where each slot is in claim() and _process_task
    job,      \* the ClaimedTask of each slot
    seen,     \* the row that start() loaded before it locked it
    seenNode, \* the status of the node in the same snapshot
    faults    \* faults so far

slotVars == <<pc, job, seen, seenNode>>
vars == <<run, node, task, ttl, pc, job, seen, seenNode, faults>>

-----------------------------------------------------------------------------
\* An execution_tasks row; "absent" until the scheduler inserts it.
Row == [status: ExecutionTaskStatus \cup {"absent"},
        locked_by: Worker \cup {None},
        lease_token: Token \cup {None},
        attempt: Nat]

NoRow == [status |-> "absent", locked_by |-> None, lease_token |-> None, attempt |-> 0]

\* The ClaimedTask of a slot; its attempt number is the one at claim time.
ClaimedTask == [task: Task \cup {None}, token: Token \cup {None}, attempt: Nat]

NoJob == [task |-> None, token |-> None, attempt |-> 0]

TypeOK ==
    /\ run \in WorkflowRunStatus
    /\ node \in [Task -> NodeRunStatus]
    /\ task \in [Task -> Row]
    /\ ttl \in [Token -> 0..LeaseTicks]
    /\ pc \in [Slot -> {"idle", "lookup", "claimed", "starting", "executing", "reconcile"}]
    /\ job \in [Slot -> ClaimedTask]
    /\ seen \in [Slot -> Row]
    /\ seenNode \in [Slot -> NodeRunStatus]
    /\ faults \in 0..MaxFaults

Init ==
    /\ run = "created"
    /\ node = [t \in Task |-> "pending"]
    /\ task = [t \in Task |-> NoRow]
    /\ ttl = [k \in Token |-> 0]
    /\ pc = [s \in Slot |-> "idle"]
    /\ job = [s \in Slot |-> NoJob]
    /\ seen = [s \in Slot |-> NoRow]
    /\ seenNode = [s \in Slot |-> "pending"]
    /\ faults = 0

-----------------------------------------------------------------------------
Open(row) == row.status \notin EXECUTION_TASK_TERMINAL \cup {"absent"}

Held(row) == row.status \in {"claimed", "running"}

\* Mutant: the lease token stays on the row.
Released_keeps_token(row, status) == [row EXCEPT !.status = status, !.locked_by = None]

Released(row, status) ==
    [row EXCEPT !.status = status, !.locked_by = None, !.lease_token = None]

\* Mutants of owns: any lease of the same worker will do; an expired lease will do.
owns_any_token(row, s) ==
    /\ Open(row)
    /\ row.locked_by = WorkerOf[s]
    /\ row.lease_token # None
    /\ ttl[row.lease_token] > 0

owns_expired(row, s) ==
    /\ Open(row)
    /\ row.locked_by = WorkerOf[s]
    /\ row.lease_token = job[s].token
    /\ job[s].token # None

\* MySQLExecutionBackend._owns, for the row as the transaction sees it.
owns(row, s) ==
    /\ Open(row)
    /\ row.locked_by = WorkerOf[s]
    /\ row.lease_token = job[s].token
    /\ job[s].token # None
    /\ ttl[job[s].token] > 0

FreshToken ==
    Token \ ({task[t].lease_token : t \in Task}
             \cup {job[s].token : s \in Slot}
             \cup {seen[s].lease_token : s \in Slot})

\* Slot s forgets its task and goes on at p.
GoTo(s, p) ==
    /\ pc' = [pc EXCEPT ![s] = p]
    /\ job' = [job EXCEPT ![s] = NoJob]
    /\ seen' = [seen EXCEPT ![s] = NoRow]
    /\ seenNode' = [seenNode EXCEPT ![s] = "pending"]

-----------------------------------------------------------------------------
(* claim() *)

\* The candidate lookup takes no lock and keeps no row: only the id survives.
ClaimLookup(s) ==
    /\ pc[s] = "idle"
    /\ run = "running"
    /\ \E t \in Task :
          /\ task[t].status = "pending"
          /\ job' = [job EXCEPT ![s] = [NoJob EXCEPT !.task = t]]
    /\ pc' = [pc EXCEPT ![s] = "lookup"]
    /\ UNCHANGED <<run, node, task, ttl, seen, seenNode, faults>>

\* Mutant: the candidate is not checked again under the locks.
Claimable_unchecked(t) == task[t].status # "absent"

Claimable(t) == run = "running" /\ task[t].status = "pending"

\* Both predicates are checked again under the run lock and the task lock.
Claim(s) ==
    /\ pc[s] = "lookup"
    /\ Claimable(job[s].task)
    /\ \E k \in FreshToken :
          /\ task' = [task EXCEPT ![job[s].task] =
                         [@ EXCEPT !.status = "claimed", !.locked_by = WorkerOf[s],
                                   !.lease_token = k]]
          /\ ttl' = [ttl EXCEPT ![k] = LeaseTicks]
          /\ job' = [job EXCEPT ![s] =
                        [@ EXCEPT !.token = k, !.attempt = task[job[s].task].attempt]]
    /\ pc' = [pc EXCEPT ![s] = "claimed"]
    /\ UNCHANGED <<run, node, seen, seenNode, faults>>

ClaimLost(s) ==
    /\ pc[s] = "lookup"
    /\ ~ Claimable(job[s].task)
    /\ GoTo(s, "idle")
    /\ UNCHANGED <<run, node, task, ttl, faults>>

-----------------------------------------------------------------------------
(* start() *)

\* candidate = db.get(ExecutionTask, task_id): the snapshot is taken here, and
\* the NodeRun read later in the transaction comes from it too.
StartRead(s) ==
    /\ pc[s] = "claimed"
    /\ pc' = [pc EXCEPT ![s] = "starting"]
    /\ seen' = [seen EXCEPT ![s] = task[job[s].task]]
    /\ seenNode' = [seenNode EXCEPT ![s] = node[job[s].task]]
    /\ UNCHANGED <<run, node, task, ttl, job, faults>>

\* The lease is gone: start() returns False and the slot is free again.
StartLost(s) ==
    /\ pc[s] = "starting"
    /\ ~ owns(seen[s], s)
    /\ GoTo(s, "idle")
    /\ UNCHANGED <<run, node, task, ttl, faults>>

\* Mutant: the attempt is not counted.
Start_uncounted(s) ==
    /\ pc[s] = "starting"
    /\ owns(seen[s], s)
    /\ run = "running"
    /\ transition_execution_task(seen[s].status, "running")
    /\ task' = [task EXCEPT ![job[s].task] = [@ EXCEPT !.status = "running"]]
    /\ node' = [node EXCEPT ![job[s].task] = "running"]
    /\ pc' = [pc EXCEPT ![s] = "executing"]
    /\ seen' = [seen EXCEPT ![s] = NoRow]
    /\ seenNode' = [seenNode EXCEPT ![s] = "pending"]
    /\ UNCHANGED <<run, ttl, job, faults>>

\* Mutant: the run is not checked under its lock.
Start_any_run(s) ==
    /\ pc[s] = "starting"
    /\ owns(seen[s], s)
    /\ transition_execution_task(seen[s].status, "running")
    /\ seenNode[s] = "running" \/ transition_node_run(seenNode[s], "running")
    /\ task' = [task EXCEPT ![job[s].task] =
                   [@ EXCEPT !.status = "running", !.attempt = seen[s].attempt + 1]]
    /\ node' = [node EXCEPT ![job[s].task] = IF seenNode[s] = "running" THEN @ ELSE "running"]
    /\ pc' = [pc EXCEPT ![s] = "executing"]
    /\ seen' = [seen EXCEPT ![s] = NoRow]
    /\ seenNode' = [seenNode EXCEPT ![s] = "pending"]
    /\ UNCHANGED <<run, ttl, job, faults>>

\* The columns written are computed from the object of the snapshot.
Start(s) ==
    /\ pc[s] = "starting"
    /\ owns(seen[s], s)
    /\ run = "running"
    /\ transition_execution_task(seen[s].status, "running")
    /\ seenNode[s] = "running" \/ transition_node_run(seenNode[s], "running")
    /\ task' = [task EXCEPT ![job[s].task] =
                   [@ EXCEPT !.status = "running", !.attempt = seen[s].attempt + 1]]
    /\ node' = [node EXCEPT ![job[s].task] = IF seenNode[s] = "running" THEN @ ELSE "running"]
    /\ pc' = [pc EXCEPT ![s] = "executing"]
    /\ seen' = [seen EXCEPT ![s] = NoRow]
    /\ seenNode' = [seenNode EXCEPT ![s] = "pending"]
    /\ UNCHANGED <<run, ttl, job, faults>>

\* _release_or_cancel_for_run_state: a paused or waiting run keeps its task.
StartReleased(s) ==
    /\ pc[s] = "starting"
    /\ owns(seen[s], s)
    /\ run \in {"paused", "waiting"}
    /\ transition_execution_task(seen[s].status, "pending")
    /\ task' = [task EXCEPT ![job[s].task] = Released(@, "pending")]
    /\ GoTo(s, "idle")
    /\ UNCHANGED <<run, node, ttl, faults>>

\* _release_or_cancel_for_run_state: any other status cancels task and node.
StartCancelled(s) ==
    /\ pc[s] = "starting"
    /\ owns(seen[s], s)
    /\ run \notin {"running", "paused", "waiting"}
    /\ transition_execution_task(seen[s].status, "cancelled")
    /\ task' = [task EXCEPT ![job[s].task] = [@ EXCEPT !.status = "cancelled"]]
    /\ node' = [node EXCEPT ![job[s].task] =
                   IF is_node_run_terminal(seenNode[s]) THEN @ ELSE "cancelled"]
    /\ GoTo(s, "idle")
    /\ UNCHANGED <<run, ttl, faults>>

-----------------------------------------------------------------------------
(* Execution and its result.  While a slot executes it holds no transaction, *)
(* so anything may happen to the row before it reports.                      *)

Reporting(s) == pc[s] = "executing" /\ owns(task[job[s].task], s)

\* The row and the node status one report writes, and where the slot goes next.
Write(s, row, nodeStatus, p) ==
    /\ transition_execution_task(task[job[s].task].status, row.status)
    /\ task' = [task EXCEPT ![job[s].task] = row]
    /\ node' = [node EXCEPT ![job[s].task] = nodeStatus]
    /\ GoTo(s, p)
    /\ UNCHANGED <<run, ttl, faults>>

complete(s) ==
    /\ Reporting(s)
    /\ job[s].task \notin Parking
    /\ transition_node_run(node[job[s].task], "completed")
    /\ Write(s, [task[job[s].task] EXCEPT !.status = "completed"], "completed", "reconcile")

\* Also the report of an unresolved context reference and of a refused artifact.
fail(s) ==
    /\ Reporting(s)
    /\ \/ is_node_run_terminal(node[job[s].task])
       \/ transition_node_run(node[job[s].task], "failed")
    /\ Write(s, [task[job[s].task] EXCEPT !.status = "failed"],
             IF is_node_run_terminal(node[job[s].task]) THEN node[job[s].task] ELSE "failed",
             "reconcile")

wait_node(s) ==
    /\ Reporting(s)
    /\ job[s].task \in Parking
    /\ transition_node_run(node[job[s].task], "waiting")
    /\ Write(s, [task[job[s].task] EXCEPT !.status = "completed"], "waiting", "reconcile")

\* Mutant: one attempt too many.
MayRetry_off_by_one(s) == job[s].attempt < MaxAttempts[job[s].task]

\* The attempt copied at claim time does not count the attempt under way.
MayRetry(s) == job[s].attempt + 1 < MaxAttempts[job[s].task]

schedule_retry(s) ==
    /\ Reporting(s)
    /\ job[s].task \notin Parking
    /\ MayRetry(s)
    /\ node[job[s].task] = "retrying" \/ transition_node_run(node[job[s].task], "retrying")
    /\ Write(s, Released(task[job[s].task], "retry_wait"), "retrying", "idle")

\* The report finds the lease lost and writes nothing; the worker ignores that
\* and reconciles the run all the same, except after schedule_retry.
ReportRefused(s) ==
    /\ pc[s] = "executing"
    /\ ~ owns(task[job[s].task], s)
    /\ \/ GoTo(s, "reconcile")
       \/ job[s].task \notin Parking /\ MayRetry(s) /\ GoTo(s, "idle")
    /\ UNCHANGED <<run, node, task, ttl, faults>>

\* The renewal task of a slot that executes; parked nodes have none.
renew_lease(s) ==
    /\ Reporting(s)
    /\ job[s].task \notin Parking
    /\ ttl' = [ttl EXCEPT ![job[s].token] = LeaseTicks]
    /\ UNCHANGED <<run, node, task, slotVars, faults>>

-----------------------------------------------------------------------------
(* Time, faults and recovery *)

\* Some slot still works under the lease with token k.
Working(k) == \E s \in Slot : job[s].token = k

\* Time passes for a lease.  Its expiry under a live slot (a stalled process, a
\* failing renewal) is a fault; the expiry of an abandoned lease is not.
LeaseAges(k) ==
    /\ ttl[k] > 0
    /\ \E t \in Task : Held(task[t]) /\ task[t].lease_token = k
    /\ IF ttl[k] = 1 /\ Working(k)
       THEN faults < MaxFaults /\ faults' = faults + 1
       ELSE UNCHANGED faults
    /\ ttl' = [ttl EXCEPT ![k] = @ - 1]
    /\ UNCHANGED <<run, node, task, slotVars>>

\* The process dies, or _process_task ends with an unexpected exception.
Abort(s) ==
    /\ pc[s] # "idle"
    /\ faults < MaxFaults
    /\ faults' = faults + 1
    /\ GoTo(s, "idle")
    /\ UNCHANGED <<run, node, task, ttl>>

\* Mutant: only tasks that were claimed and never started are recovered.
Expired_claimed_only(t) ==
    task[t].status = "claimed" /\ task[t].lease_token # None /\ ttl[task[t].lease_token] = 0

Expired(t) == Held(task[t]) /\ task[t].lease_token # None /\ ttl[task[t].lease_token] = 0

\* One transaction returns every expired task to the queue; the node keeps its
\* status and no event is written.
recover_expired ==
    /\ \E t \in Task : Expired(t)
    /\ task' = [t \in Task |-> IF Expired(t) THEN Released(task[t], "pending") ELSE task[t]]
    /\ UNCHANGED <<run, node, ttl, slotVars, faults>>

\* Mutant: only tasks whose nodes are QUEUED are promoted.
promote_due_retries_queued_only ==
    \E due \in SUBSET {t \in Task : task[t].status = "retry_wait" /\ node[t] = "queued"} :
        /\ due # {}
        /\ task' = [t \in Task |-> IF t \in due THEN [task[t] EXCEPT !.status = "pending"]
                                                ELSE task[t]]
        /\ UNCHANGED <<run, node, ttl, slotVars, faults>>

\* The retries whose available_at has passed, whatever the status of the run.
promote_due_retries ==
    \E due \in SUBSET {t \in Task : task[t].status = "retry_wait"} :
        /\ due # {}
        /\ \A t \in due : node[t] = "queued" \/ transition_node_run(node[t], "queued")
        /\ task' = [t \in Task |-> IF t \in due THEN [task[t] EXCEPT !.status = "pending"]
                                                ELSE task[t]]
        /\ node' = [t \in Task |-> IF t \in due THEN "queued" ELSE node[t]]
        /\ UNCHANGED <<run, ttl, slotVars, faults>>

-----------------------------------------------------------------------------
(* The other writers of these rows: what a scheduler or API transaction that  *)
(* leaves the run in status r may do to its tasks and nodes.                  *)

Unscheduled ==
    {t \in Task : /\ run \in {"running", "waiting"}
                  /\ task[t].status = "absent" /\ node[t] = "pending"}

\* Parked nodes: a person decides, or the timer elapses.
Decidable ==
    {t \in Task : /\ run \in {"running", "waiting"}
                  /\ task[t].status = "completed" /\ node[t] = "waiting"}

Cancellable(r) ==
    {t \in Task : r \in {"failed", "cancelled"} /\ ~ is_node_run_terminal(node[t])}

\* The rows after the transaction.  A new row has the column defaults of NoRow.
Rows(submitted, cancelled) ==
    [t \in Task |->
        IF t \in submitted THEN [task[t] EXCEPT !.status = "pending"]
        ELSE IF t \in cancelled /\ Open(task[t]) THEN [task[t] EXCEPT !.status = "cancelled"]
        ELSE task[t]]

NodeStatuses(submitted, skipped, passed, rejected, cancelled) ==
    [t \in Task |->
        CASE t \in submitted -> "queued"
          [] t \in skipped -> "skipped"
          [] t \in passed -> "completed"
          [] t \in rejected -> "failed"
          [] t \in cancelled -> "cancelled"
          [] OTHER -> node[t]]

SchedulerEffect ==
    \E r \in WorkflowRunStatus :
        /\ r = run \/ transition_workflow_run(run, r)
        /\ run' = r
        /\ \E submitted \in SUBSET Unscheduled, passed \in SUBSET Decidable :
           \E skipped \in SUBSET (Unscheduled \ submitted),
              rejected \in SUBSET (Decidable \ passed) :
           \E cancelled \in SUBSET (Cancellable(r) \ (submitted \cup skipped \cup passed \cup rejected)) :
              /\ task' = Rows(submitted, cancelled)
              /\ node' = NodeStatuses(submitted, skipped, passed, rejected, cancelled)

\* A transaction of the API or of a recovery loop.
SchedulerStep ==
    /\ SchedulerEffect
    /\ UNCHANGED <<ttl, slotVars, faults>>

\* _reconcile_after: the slot's last transaction for the task.
ReconcileAfter(s) ==
    /\ pc[s] = "reconcile"
    /\ SchedulerEffect
    /\ GoTo(s, "idle")
    /\ UNCHANGED <<ttl, faults>>

-----------------------------------------------------------------------------
\* What the code of one slot does, without the reconciliation.
SlotStep(s) ==
    \/ ClaimLookup(s) \/ Claim(s) \/ ClaimLost(s)
    \/ StartRead(s) \/ StartLost(s) \/ Start(s) \/ StartReleased(s) \/ StartCancelled(s)
    \/ complete(s) \/ fail(s) \/ wait_node(s) \/ schedule_retry(s) \/ ReportRefused(s)
    \/ renew_lease(s)

Next ==
    \/ \E s \in Slot : SlotStep(s) \/ ReconcileAfter(s) \/ Abort(s)
    \/ \E k \in Token : LeaseAges(k)
    \/ recover_expired
    \/ promote_due_retries
    \/ SchedulerStep

Spec == Init /\ [][Next]_vars

-----------------------------------------------------------------------------
(* Safety *)

\* The status of a task and the status of its node run, two rows that every
\* handler of the queue updates one after the other, never contradict each
\* other: so no transition_node_run() call of an owner ever raises, and a task
\* that lease recovery puts back (leaving its node RUNNING) can start again.
Agrees(t) ==
    CASE task[t].status = "absent" -> node[t] \in {"pending", "skipped", "cancelled"}
      [] task[t].status = "pending" -> node[t] \in {"queued", "running"}
      [] task[t].status = "claimed" -> node[t] \in {"queued", "running"}
      [] task[t].status = "running" -> node[t] = "running"
      [] task[t].status = "retry_wait" -> node[t] = "retrying"
      [] task[t].status = "completed" -> node[t] \in {"completed", "waiting", "failed", "cancelled"}
      [] task[t].status = "failed" -> node[t] = "failed"
      [] OTHER -> node[t] = "cancelled"

TaskNodeAgreement == \A t \in Task : Agrees(t)

\* A slot whose lease is good when it reports works on the attempt that the row
\* records, although it only knows the attempt number it copied at claim time:
\* the retry decision "task.attempt + 1 < max_attempts" counts correctly.
OwnerIsCurrent ==
    \A s \in Slot :
        pc[s] = "executing" /\ owns(task[job[s].task], s)
            => /\ task[job[s].task].status = "running"
               /\ task[job[s].task].attempt = job[s].attempt + 1

\* Two executions of one task, an abandoned one and its successor, never carry
\* the same attempt number (it is sent to agents as context.attempt).
AttemptsDistinct ==
    \A s1, s2 \in Slot :
        (/\ s1 # s2
         /\ pc[s1] = "executing" /\ pc[s2] = "executing"
         /\ job[s1].task = job[s2].task)
            => job[s1].attempt # job[s2].attempt

\* A task waits for a retry only while its budget has an attempt left, and only
\* lost leases take it beyond max_attempts (recover_expired checks no budget).
AttemptBudget ==
    \A t \in Task :
        /\ task[t].status = "retry_wait" => task[t].attempt < MaxAttempts[t]
        /\ task[t].attempt <= MaxAttempts[t] + faults

\* The step in which task t gets a result.
Published(t) ==
    /\ task[t].status # task'[t].status
    /\ task'[t].status \in {"completed", "failed", "retry_wait"}

\* Fencing: a result is written only by the slot whose lease is the row's and
\* has not expired, and it is the result of the attempt the row counts last.
PublishFenced ==
    [][\A t \in Task : Published(t) =>
          \E s \in Slot :
              /\ pc[s] = "executing" /\ pc'[s] # "executing"
              /\ job[s].task = t
              /\ job[s].token = task[t].lease_token
              /\ ttl[job[s].token] > 0
              /\ job[s].attempt + 1 = task[t].attempt]_vars

\* Whatever a slot read before it locked a row, a task or a node that reached a
\* terminal status keeps it.
TerminalStable ==
    [][\A t \in Task :
          /\ is_execution_task_terminal(task[t].status) => task'[t].status = task[t].status
          /\ is_node_run_terminal(node[t]) => node'[t] = node[t]]_vars

-----------------------------------------------------------------------------
(* The inductive invariant behind the safety properties.                      *)

\* A row carries a lease exactly while it is held, apart from the lease that
\* complete, fail and cancel leave on a terminal row.
LeaseShape ==
    \A t \in Task :
        /\ Held(task[t]) => task[t].lease_token # None
        /\ task[t].status \in {"absent", "pending", "retry_wait"} => task[t].lease_token = None

\* A slot knows a task from its lookup to its report, and a token from its
\* claim to its report.
SlotShape ==
    \A s \in Slot :
        /\ pc[s] \in {"lookup", "claimed", "starting", "executing"} => job[s].task \in Task
        /\ pc[s] \in {"claimed", "starting", "executing"} <=> job[s].token # None

\* No two slots and no two rows share a token, and the row that carries the
\* token of a slot is the row of the slot's task.
TokensUnique ==
    /\ \A s1, s2 \in Slot : job[s1].token # None /\ job[s1].token = job[s2].token => s1 = s2
    /\ \A t1, t2 \in Task :
          task[t1].lease_token # None /\ task[t1].lease_token = task[t2].lease_token => t1 = t2
    /\ \A s \in Slot, t \in Task :
          job[s].token # None /\ task[t].lease_token = job[s].token
              => t = job[s].task /\ task[t].locked_by = WorkerOf[s]

\* The row that carries the token of a slot is where the slot left it, unless
\* the run ended and the row was cancelled.
RowFollowsSlot ==
    \A s \in Slot :
        job[s].token # None /\ task[job[s].task].lease_token = job[s].token =>
            /\ pc[s] \in {"claimed", "starting"} =>
                  /\ task[job[s].task].status \in {"claimed", "cancelled"}
                  /\ task[job[s].task].attempt = job[s].attempt
            /\ pc[s] = "executing" =>
                  /\ task[job[s].task].status \in {"running", "cancelled"}
                  /\ task[job[s].task].attempt = job[s].attempt + 1

\* What start() saw of its own row is still true under the lock, unless the
\* lease expired or the row was cancelled in between.
Snapshot(s) ==
    pc[s] = "starting" /\ seen[s].lease_token = job[s].token =>
        /\ seen[s].status \in {"claimed", "cancelled"}
        /\ seen[s].attempt = job[s].attempt
        /\ ttl[job[s].token] = 0 \/ task[job[s].task].lease_token = job[s].token

SnapshotHolds == \A s \in Slot : Snapshot(s)

\* The attempts of a task only grow, and executions are numbered apart.
AttemptOrder ==
    \A s \in Slot :
        /\ pc[s] \in {"claimed", "starting"} => job[s].attempt <= task[job[s].task].attempt
        /\ pc[s] = "executing" => job[s].attempt < task[job[s].task].attempt

\* An attempt beyond the budget has a fault of its own to blame: the fault is
\* counted when the lease is lost, before the task can be started again.
Paid(t) ==
    /\ task[t].status = "retry_wait" => task[t].attempt < MaxAttempts[t]
    /\ task[t].status \in {"absent", "pending", "claimed"}
          => task[t].attempt < MaxAttempts[t] + faults
    /\ task[t].status = "running" /\ ~ (Working(task[t].lease_token) /\ ttl[task[t].lease_token] > 0)
          => task[t].attempt < MaxAttempts[t] + faults
    /\ task[t].attempt <= MaxAttempts[t] + faults

FaultsPaid == \A t \in Task : Paid(t)

\* So has the attempt that a slot is about to start, also when it starts a row
\* that was cancelled after the snapshot.
ClaimsPaid ==
    \A s \in Slot : pc[s] \in {"claimed", "starting"}
        => job[s].attempt < MaxAttempts[job[s].task] + faults

\* The fencing of the rows by their leases.  It does not speak of the run or of
\* the nodes, and holds whatever a scheduler transaction makes of those two.
Fencing ==
    /\ LeaseShape /\ SlotShape /\ TokensUnique
    /\ RowFollowsSlot /\ SnapshotHolds
    /\ AttemptOrder /\ AttemptsDistinct /\ FaultsPaid /\ ClaimsPaid

\* What start() saw of the node of a row it claimed is still true while the row
\* is claimed.
NodeSnapshot(s) ==
    pc[s] = "starting" /\ seen[s].lease_token = job[s].token /\ seen[s].status = "claimed" =>
        /\ seenNode[s] \in {"queued", "running"}
        /\ (/\ task[job[s].task].status = "claimed"
            /\ task[job[s].task].lease_token = job[s].token)
              => seenNode[s] = node[job[s].task]

NodeSnapshotHolds == \A s \in Slot : NodeSnapshot(s)

\* Tasks exist only once their run has started, and are cancelled only when
\* it ends.
RunGovernsTasks ==
    \A t \in Task : /\ run = "created" => task[t].status = "absent"
                    /\ task[t].status = "cancelled" => run \in WORKFLOW_RUN_TERMINAL

\* Task, node and run agree, also in what a slot has read.
Agreement == NodeSnapshotHolds /\ RunGovernsTasks /\ TaskNodeAgreement

QueueInv == Fencing /\ Agreement

\* The inductive invariant: with the types, leases, snapshots, attempts and the
\* statuses of task, node and run fit together in every state, whatever dies.
IInv == TypeOK /\ QueueInv

-----------------------------------------------------------------------------
(* Refinement.  The phase and the holder of an item are read off the task     *)
(* row and its outcome off the node run, so that the abstract specification   *)
(* also says that the two rows change hands together.                         *)

WorkPhase == [t \in Task |->
    CASE Held(task[t]) -> "held"
      [] task[t].status \in {"pending", "retry_wait"} -> "open"
      [] task[t].status = "absent" /\ node[t] = "pending" -> "none"
      [] OTHER -> "closed"]

WorkHolder == [t \in Task |-> IF Held(task[t]) THEN task[t].lease_token ELSE None]

WorkOutcome == [t \in Task |->
    IF node[t] \in NODE_RUN_TERMINAL \cup {"waiting"} THEN node[t] ELSE "none"]

Work == INSTANCE LeasedWork WITH
    Work <- Task, Lease <- Token, NoLease <- None, Final <- NODE_RUN_TERMINAL,
    Dropped <- {"skipped", "cancelled"},
    phase <- WorkPhase, holder <- WorkHolder, outcome <- WorkOutcome

\* The queue implements LeasedWork: at-least-once execution under leases, with
\* an outcome that only the current holder publishes and nobody revises.
ImplementsLeasedWork == Work!Spec

-----------------------------------------------------------------------------
(* The steps that a slot which holds a task takes by itself, once its process *)
(* is alive and its execution ends (connectors have timeouts).                *)

Proceed(s) ==
    \/ Claim(s) \/ ClaimLost(s)
    \/ StartRead(s) \/ StartLost(s) \/ Start(s) \/ StartReleased(s) \/ StartCancelled(s)
    \/ complete(s) \/ fail(s) \/ wait_node(s) \/ schedule_retry(s) \/ ReportRefused(s)

=============================================================================
