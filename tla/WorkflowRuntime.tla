-------------------------- MODULE WorkflowRuntime --------------------------
(***************************************************************************)
(* The transactions that share the rows of ExecutionQueue: the scheduler   *)
(* (runtime/scheduler), the run and human-node operations of the API       *)
(* (domain/runs/service.py) and the reconciliation of the recovery loop    *)
(* (runtime/recovery), composed with the Worker slots, for one run of one  *)
(* workflow graph.                                                         *)
(*                                                                         *)
(* Sessions run under REPEATABLE READ with autoflush off.  A plain SELECT  *)
(* sees the snapshot of the transaction's first plain SELECT; a locking    *)
(* SELECT sees the current row, but hands out the object already in the    *)
(* identity map; an UPDATE writes the columns that differ from the loaded  *)
(* object.  The steps below are cut where another transaction can commit   *)
(* between the snapshot and the lock.                                      *)
(***************************************************************************)
EXTENDS ExecutionQueue

CONSTANTS
    Input,      \* data/input nodes: COMPLETED from the creation of the run
    Edge,       \* [src, dst, handle] records
    Kind,       \* what the node of a task is
    Client,     \* API requests under way at the same time
    Op,         \* the operations the clients use
    Recoverer   \* recovery loops, one per Worker process

ASSUME GraphAssumption ==
    /\ Input \cap Task = {}
    /\ Edge \subseteq [src: Input \cup Task, dst: Task, handle: {"true", "false", "out"}]
    /\ \A t \in Task : \E e \in Edge : e.dst = t
    /\ Kind \in [Task -> {"plain", "condition", "approval", "form", "timer"}]
    /\ Parking = {t \in Task : Kind[t] \in {"approval", "form", "timer"}}
    /\ Client \cap Recoverer = {}
    /\ Op \subseteq {"start", "pause", "resume", "cancel", "decide"}

VARIABLES
    choice,   \* the branch each condition selects when it is evaluated
    elapsed,  \* timers whose resume_at has passed
    at,       \* where each client and each recovery loop is
    call,     \* the operation and the node of a client's request
    view      \* what the snapshot of its transaction shows

actorVars == <<at, call, view>>
runtimeVars == <<vars, choice, elapsed, actorVars>>

Condition == {t \in Task : Kind[t] = "condition"}
Actor == Client \cup Recoverer

Known == {t \in Task : task[t].status # "absent"}

\* The columns a scheduler transaction reads: the run, the nodes and which of
\* the nodes have a task.
View == [run |-> run, node |-> node, known |-> Known]

NoView == [run |-> "created", node |-> [t \in Task |-> "pending"], known |-> {}]
NoCall == [op |-> "none", node |-> None]

RuntimeTypeOK ==
    /\ TypeOK
    /\ choice \in [Condition -> {"true", "false"}]
    /\ elapsed \subseteq Task
    /\ at \in [Actor -> {"idle", "read", "committed", "snapshot", "dead"}]
    /\ call \in [Actor -> [op: Op \cup {"none"}, node: Task \cup {None}]]
    /\ view \in [Actor -> [run: WorkflowRunStatus, node: [Task -> NodeRunStatus],
                           known: SUBSET Task]]

\* create_run: the run and its node runs are committed together.
RuntimeInit ==
    /\ Init
    /\ choice \in [Condition -> {"true", "false"}]
    /\ elapsed = {}
    /\ at = [a \in Actor |-> "idle"]
    /\ call = [a \in Actor |-> NoCall]
    /\ view = [a \in Actor |-> NoView]

-----------------------------------------------------------------------------
(* The scheduler, as functions of the node statuses n a transaction sees.     *)

StatusOf(n, x) == IF x \in Input THEN "completed" ELSE n[x]

\* Mutant: the handle of the edge is not compared with the selected branch.
_edge_is_active_any_handle(e, n) == StatusOf(n, e.src) # "skipped"

_edge_is_active(e, n) ==
    /\ StatusOf(n, e.src) # "skipped"
    /\ e.src \in Condition /\ n[e.src] = "completed" => e.handle = choice[e.src]

Incoming(t) == {e \in Edge : e.dst = t}

\* Mutant: a join fires with its first completed branch.
find_ready_nodes_any(n) ==
    {t \in Task :
        /\ n[t] = "pending"
        /\ \E e \in Incoming(t) : _edge_is_active(e, n) /\ StatusOf(n, e.src) = "completed"}

find_ready_nodes(n) ==
    {t \in Task :
        /\ n[t] = "pending"
        /\ \E e \in Incoming(t) : _edge_is_active(e, n)
        /\ \A e \in Incoming(t) : _edge_is_active(e, n) => StatusOf(n, e.src) = "completed"}

Skip(n, S) == [t \in Task |-> IF t \in S THEN "skipped" ELSE n[t]]

\* The fixed-point loop: the smallest set of PENDING nodes that contains every
\* node without an active incoming edge once the nodes of the set are SKIPPED.
mark_unreachable_condition_nodes(n) ==
    LET pending == {t \in Task : n[t] = "pending"}
        Stable(S) == \A t \in pending \ S : \E e \in Incoming(t) : _edge_is_active(e, Skip(n, S))
        unreachable == {t \in pending : \A S \in SUBSET pending : Stable(S) => t \in S}
    IN  Skip(n, unreachable)

derive_workflow_state(n) ==
    IF \E t \in Task : n[t] = "failed" THEN "failed"
    ELSE IF \A t \in Task : is_node_run_terminal(n[t]) THEN "completed"
    ELSE IF /\ \E t \in Task : n[t] = "waiting"
            /\ ~ \E t \in Task : n[t] \in {"queued", "running", "retrying"}
            /\ find_ready_nodes(n) = {} THEN "waiting"
    ELSE "running"

(* A transaction in memory: the run and the nodes as changed so far, the      *)
(* tasks to insert and the tasks to cancel.                                   *)

Begin(v) == [run |-> v.run, node |-> v.node, add |-> {}, drop |-> {}]

\* The existence pre-check asks the snapshot, which shows no unflushed insert.
schedule_ready_nodes(m, v) ==
    LET marked == mark_unreachable_condition_nodes(m.node)
        submitted == find_ready_nodes(marked) \ v.known
    IN  IF m.run # "running" THEN m
        ELSE [m EXCEPT !.node = [t \in Task |-> IF t \in submitted THEN "queued" ELSE marked[t]],
                       !.add = @ \cup submitted]

\* Mutant: a WAITING run is not looked at.
promote_due_waits_running_only(m) ==
    [m EXCEPT !.node = [t \in Task |-> IF /\ m.run = "running"
                                          /\ m.node[t] = "waiting" /\ Kind[t] = "timer"
                                          /\ t \in elapsed
                                       THEN "completed" ELSE m.node[t]]]

promote_due_waits(m) ==
    [m EXCEPT !.node = [t \in Task |-> IF /\ m.node[t] = "waiting" /\ Kind[t] = "timer"
                                          /\ t \in elapsed
                                       THEN "completed" ELSE m.node[t]]]

\* The tasks are read with FOR UPDATE, so they are the current rows; an insert
\* that is still unflushed is not among them.
cancel_run_tasks(m) ==
    LET open == {t \in Task : Open(task[t])}
    IN  [m EXCEPT !.drop = open,
                  !.node = [t \in Task |->
                      IF \/ t \in open /\ ~ is_node_run_terminal(m.node[t])
                         \/ m.node[t] = "pending"
                      THEN "cancelled" ELSE m.node[t]]]

\* Mutant: a PAUSED run is treated as a RUNNING one.
reconcile_run_paused(v) ==
    LET w == IF v.run = "paused" THEN [v EXCEPT !.run = "running"] ELSE v
        scheduled == schedule_ready_nodes(promote_due_waits(Begin(w)), v)
    IN  IF v.run \in WORKFLOW_RUN_TERMINAL THEN Begin(v)
        ELSE [scheduled EXCEPT !.run = IF v.run = "paused" THEN v.run
                                       ELSE derive_workflow_state(scheduled.node)]

\* Mutant: missed scheduling is not repaired.
reconcile_run_no_schedule(v) ==
    LET promoted == promote_due_waits(Begin(v))
    IN  IF v.run \in WORKFLOW_RUN_TERMINAL \cup {"paused"} THEN Begin(v)
        ELSE [promoted EXCEPT !.run = derive_workflow_state(promoted.node)]

reconcile_run(v) ==
    LET scheduled == schedule_ready_nodes(promote_due_waits(Begin(v)), v)
        derived == derive_workflow_state(scheduled.node)
        m == [scheduled EXCEPT !.run = derived]
    IN  IF v.run = "cancelled" THEN cancel_run_tasks(Begin(v))
        ELSE IF v.run \in {"completed", "failed", "paused"} THEN Begin(v)
        ELSE IF derived = "failed" THEN cancel_run_tasks(m)
        ELSE IF derived = "running" THEN schedule_ready_nodes(m, v)
        ELSE m

\* transition_workflow_run raises, or the INSERT meets UNIQUE(node_run_id).
Raises(v, m) ==
    \/ m.run # v.run /\ ~ transition_workflow_run(v.run, m.run)
    \/ \E t \in m.add : task[t].status # "absent"

Commit(v, m) ==
    /\ run' = IF m.run # v.run THEN m.run ELSE run
    /\ node' = [t \in Task |-> IF m.node[t] # v.node[t] THEN m.node[t] ELSE node[t]]
    /\ task' = [t \in Task |-> IF t \in m.add THEN [NoRow EXCEPT !.status = "pending"]
                               ELSE IF t \in m.drop THEN [task[t] EXCEPT !.status = "cancelled"]
                               ELSE task[t]]

\* The end of a transaction: it commits, or it raises and is rolled back.
Finish(v, m) ==
    IF Raises(v, m) THEN UNCHANGED <<run, node, task>> ELSE Commit(v, m)

-----------------------------------------------------------------------------
(* The Worker's own reconciliation: its first read takes the run lock, so it  *)
(* sees current rows.                                                         *)

_reconcile_after(s) ==
    /\ pc[s] = "reconcile"
    /\ Finish(View, reconcile_run(View))
    /\ GoTo(s, "idle")
    /\ UNCHANGED <<ttl, faults, choice, elapsed, actorVars>>

-----------------------------------------------------------------------------
(* The API.  The rows that only the queue changes stay as they are.           *)

QueueIdle == UNCHANGED <<ttl, slotVars, faults, choice, elapsed>>

pause_run(c) ==
    /\ at[c] = "idle" /\ "pause" \in Op
    /\ transition_workflow_run(run, "paused")
    /\ run' = "paused"
    /\ UNCHANGED <<node, task, actorVars>>
    /\ QueueIdle

\* Mutant: the tasks are forgotten.
cancel_run_nodes_only(c) ==
    /\ at[c] = "idle" /\ "cancel" \in Op
    /\ ~ is_workflow_run_terminal(run)
    /\ run' = "cancelled"
    /\ node' = [t \in Task |-> IF is_node_run_terminal(node[t]) THEN node[t] ELSE "cancelled"]
    /\ UNCHANGED <<task, actorVars>>
    /\ QueueIdle

\* Mutant: a run that has ended can still be cancelled.
cancel_run_any(c) ==
    /\ at[c] = "idle" /\ "cancel" \in Op
    /\ run' = "cancelled"
    /\ UNCHANGED <<node, task, actorVars>>
    /\ QueueIdle

\* Nodes and tasks are cancelled in the transaction that holds the run lock.
cancel_run(c) ==
    /\ at[c] = "idle" /\ "cancel" \in Op
    /\ ~ is_workflow_run_terminal(run)
    /\ LET all == [Begin(View) EXCEPT !.run = "cancelled",
                      !.node = [t \in Task |-> IF is_node_run_terminal(node[t])
                                               THEN node[t] ELSE "cancelled"]]
       IN  Commit(View, cancel_run_tasks(all))
    /\ UNCHANGED actorVars
    /\ QueueIdle

\* The first transaction of start_run and of resume_run.
begin_running(c, op) ==
    /\ at[c] = "idle" /\ op \in Op
    /\ transition_workflow_run(run, "running")
    /\ run' = "running"
    /\ at' = [at EXCEPT ![c] = "committed"]
    /\ call' = [call EXCEPT ![c] = [op |-> op, node |-> None]]
    /\ UNCHANGED <<node, task, view>>
    /\ QueueIdle

start_run(c) == begin_running(c, "start")
resume_run(c) == begin_running(c, "resume")

\* The db.get() of _lock_node_run.  A request for a node that is not WAITING at
\* this point is refused with 409 and changes nothing.
_lock_node_run(c) ==
    /\ at[c] = "idle" /\ "decide" \in Op
    /\ \E t \in Task :
          /\ Kind[t] \in {"approval", "form"} /\ node[t] = "waiting"
          /\ call' = [call EXCEPT ![c] = [op |-> "decide", node |-> t]]
    /\ at' = [at EXCEPT ![c] = "read"]
    /\ view' = [view EXCEPT ![c] = View]
    /\ UNCHANGED <<run, node, task>>
    /\ QueueIdle

\* approve_node_run, reject_node_run and submit_node_run: the run is read under
\* its lock, but _require_waiting looks at the node of the identity map.
_require_waiting(c) == view[c].node[call[c].node] = "waiting"

\* Mutant: the status of the run is not checked.
decide_any_run(c) ==
    /\ at[c] = "read"
    /\ _require_waiting(c)
    /\ node' = [node EXCEPT ![call[c].node] = "completed"]
    /\ at' = [at EXCEPT ![c] = "committed"]
    /\ UNCHANGED <<run, task, call, view>>
    /\ QueueIdle

decide(c) ==
    /\ at[c] = "read"
    /\ run \in {"running", "waiting"}
    /\ _require_waiting(c)
    /\ \E outcome \in IF Kind[call[c].node] = "approval" THEN {"completed", "failed"}
                                                        ELSE {"completed"} :
          node' = [node EXCEPT ![call[c].node] = outcome]
    /\ at' = [at EXCEPT ![c] = "committed"]
    /\ UNCHANGED <<run, task, call, view>>
    /\ QueueIdle

\* The request ends: WORKFLOW_RUN_NOT_ACTIONABLE, an invalid form, or the end
\* of the API process between two transactions.
abandon(c) ==
    /\ at[c] \in {"read", "committed", "snapshot"}
    /\ at' = [at EXCEPT ![c] = "idle"]
    /\ call' = [call EXCEPT ![c] = NoCall]
    /\ view' = [view EXCEPT ![c] = NoView]
    /\ UNCHANGED <<run, node, task>>
    /\ QueueIdle

\* The second transaction begins with the reload of the expired run object,
\* before the scheduler locks the run: the run and the nodes come from here.
second_begin(c) ==
    /\ at[c] = "committed"
    /\ at' = [at EXCEPT ![c] = "snapshot"]
    /\ view' = [view EXCEPT ![c] = View]
    /\ UNCHANGED <<run, node, task, call>>
    /\ QueueIdle

second_commit(c) ==
    /\ at[c] = "snapshot"
    /\ Finish(view[c], IF call[c].op = "start" THEN schedule_ready_nodes(Begin(view[c]), view[c])
                                               ELSE reconcile_run(view[c]))
    /\ at' = [at EXCEPT ![c] = "idle"]
    /\ call' = [call EXCEPT ![c] = NoCall]
    /\ view' = [view EXCEPT ![c] = NoView]
    /\ QueueIdle

-----------------------------------------------------------------------------
(* run_execution_recovery: the SELECT of the active runs fixes the snapshot,  *)
(* then each run is locked and reconciled.  The run is loaded under the lock, *)
(* its nodes and the existence of its tasks come from the snapshot.           *)

recovery_begin(a) ==
    /\ at[a] = "idle"
    /\ run \in {"running", "paused", "waiting"}
    /\ at' = [at EXCEPT ![a] = "snapshot"]
    /\ view' = [view EXCEPT ![a] = View]
    /\ UNCHANGED <<run, node, task, call>>
    /\ QueueIdle

\* An exception leaves run_worker: the Worker process ends.
recovery_commit(a) ==
    /\ at[a] = "snapshot"
    /\ LET v == [view[a] EXCEPT !.run = run]
           m == reconcile_run(v)
       IN  /\ Finish(v, m)
           /\ at' = [at EXCEPT ![a] = IF Raises(v, m) THEN "dead" ELSE "idle"]
    /\ view' = [view EXCEPT ![a] = NoView]
    /\ UNCHANGED call
    /\ QueueIdle

\* Any other exception of the turn: a database error in recover_expired, in
\* promote_due_retries or in a reconciliation that its retries do not absorb.
recovery_raises(a) ==
    /\ at[a] \in {"idle", "snapshot"}
    /\ at' = [at EXCEPT ![a] = "dead"]
    /\ view' = [view EXCEPT ![a] = NoView]
    /\ UNCHANGED <<run, node, task, call>>
    /\ QueueIdle

\* resume_at of a parked wait node passes.
timer_elapses(t) ==
    /\ Kind[t] = "timer" /\ node[t] = "waiting" /\ t \notin elapsed
    /\ elapsed' = elapsed \cup {t}
    /\ UNCHANGED <<vars, choice, actorVars>>

-----------------------------------------------------------------------------
ClientStep(c) ==
    \/ start_run(c) \/ pause_run(c) \/ resume_run(c) \/ cancel_run(c)
    \/ _lock_node_run(c) \/ decide(c)
    \/ second_begin(c) \/ second_commit(c) \/ abandon(c)

\* The steps of the queue that are not the scheduler's.
QueueStep ==
    /\ \/ \E s \in Slot : SlotStep(s) \/ Abort(s)
       \/ \E k \in Token : LeaseAges(k)
       \/ recover_expired
       \/ promote_due_retries
    /\ UNCHANGED <<choice, elapsed, actorVars>>

RuntimeNext ==
    \/ QueueStep
    \/ \E s \in Slot : _reconcile_after(s)
    \/ \E c \in Client : ClientStep(c)
    \/ \E a \in Recoverer : recovery_begin(a) \/ recovery_commit(a) \/ recovery_raises(a)
    \/ \E t \in Task : timer_elapses(t)

RuntimeSpec == RuntimeInit /\ [][RuntimeNext]_runtimeVars

-----------------------------------------------------------------------------
(* Safety *)

\* The edges that are not behind an unselected branch, and the nodes they
\* reach: the smallest set of tasks closed under them.
Selected == {e \in Edge : e.src \in Condition => e.handle = choice[e.src]}

OnPath ==
    {t \in Task : \A S \in SUBSET Task :
        (\A e \in Selected : e.src \in Input \cup S => e.dst \in S) => t \in S}

\* Join barrier: a task exists only for a node on the selected path, and only
\* once every predecessor that is on that path too is COMPLETED, whatever the
\* order in which branches finish, skip and reconcile.
OnlySelectedRun ==
    \A t \in Task : task[t].status # "absent" =>
        /\ t \in OnPath
        /\ \A e \in Selected : e.dst = t /\ e.src \in OnPath => node[e.src] = "completed"

\* A COMPLETED run executed exactly the selected path and skipped the rest.
CompletedRunIsExact ==
    run = "completed" =>
        \A t \in Task : node[t] = (IF t \in OnPath THEN "completed" ELSE "skipped")

\* A COMPLETED or CANCELLED run leaves no open task and no open node.
EndedRunSettled ==
    run \in {"completed", "cancelled"} =>
        \A t \in Task : /\ is_node_run_terminal(node[t])
                        /\ ~ Open(task[t])

\* Statuses that may be shown for the nodes of the graph: only nodes on the
\* selected path were ever submitted, and none of these was skipped.
ShowsPath(n, known) ==
    \A t \in Task :
        /\ t \in known \/ n[t] \notin {"pending", "skipped", "cancelled"} => t \in OnPath
        /\ n[t] = "skipped" => t \notin OnPath

\* A slot, and a person who decides, work on a node that was submitted; a row
\* that was never inserted has no columns.
WorkIsKnown ==
    /\ \A s \in Slot :
          pc[s] \in {"lookup", "claimed", "starting", "executing"} => job[s].task \in Known
    /\ \A p \in Actor : at[p] = "read" => call[p].node \in Task
    /\ \A t \in Task : task[t].status = "absent" => task[t] = NoRow

\* The rows and every snapshot, however old, agree with the selected path.
PathKept ==
    /\ ShowsPath(node, Known)
    /\ \A p \in Actor : ShowsPath(view[p].node, view[p].known)

\* Nobody works on a run that was not started, and nodes are cancelled only
\* when their run ends.
RunGovernsNodes ==
    /\ \A s \in Slot : pc[s] # "idle" => run # "created"
    /\ \A p \in Actor : at[p] \in {"read", "committed", "snapshot"} => run # "created"
    /\ \A t \in Task : node[t] = "cancelled" => run \in {"failed", "cancelled"}

\* The rows, snapshots and sessions are well formed, the rows are fenced by
\* their leases and everything agrees with the selected path, whatever snapshot
\* a transaction has decided on and whatever it has overtaken.
PathInv == RuntimeTypeOK /\ Fencing /\ WorkIsKnown /\ PathKept

\* Besides, the nodes and tasks agree with their run, and an ended run is settled.
RuntimeInv == PathInv /\ RunGovernsNodes /\ EndedRunSettled

\* docs/execution-queue-worker.md: "PAUSED / WAITING / CANCELLED / COMPLETED /
\* FAILED 的 run 不调度新 Task".  While the run is PAUSED nothing is scheduled,
\* skipped or woken, although slots report their results, timers elapse and
\* the recovery loop reconciles from a snapshot taken before the pause.  (A pause
\* that overtakes the second transaction of start_run is not covered: with two
\* clients that transaction schedules from its stale run, as in RunTerminalStable.)
PausedIsFrozen ==
    [][run = "paused" /\ run' = "paused" =>
          \A t \in Task : /\ task[t].status = "absent" => task'[t].status = "absent"
                          /\ node[t] \in {"pending", "waiting"} => node'[t] = node[t]]_runtimeVars

\* The transactions of the scheduler and of the API stay within what the queue
\* expects of them: every step is a step of ExecutionQueue.
ImplementsQueue == Spec

\* docs/workflow-runtime-state-machine.md: a terminal run status is never left.
RunTerminalStable == [][is_workflow_run_terminal(run) => run' = run]_runtimeVars

-----------------------------------------------------------------------------
(* Liveness.  The loop of a Worker runs recovery at a fixed interval and polls *)
(* for tasks, until an exception of a recovery turn, which nothing catches,    *)
(* ends the loop and with it the claims of its slots; a slot that has a task   *)
(* is awaited and still reports.  Fairness is owed only while the loop lives.  *)
(* Time passes.  Nothing is assumed of the clients: a request may end between  *)
(* its two transactions.                                                       *)

QueueAlone(A) == A /\ UNCHANGED <<choice, elapsed, actorVars>>

\* The turns of a recovery loop and of a slot that reconciles, named by the
\* control state they change: no other step changes it, and a reconciliation
\* is possible whenever it is due, because it commits or is rolled back.
RecoveryTurn(a) ==
    \/ /\ at[a] = "idle" /\ run \in {"running", "paused", "waiting"}
       /\ \E p \in {"snapshot", "dead"} : at' = [at EXCEPT ![a] = p]
    \/ /\ at[a] = "snapshot"
       /\ \E p \in {"idle", "dead"} : at' = [at EXCEPT ![a] = p]

ReconcileTurn(s) == pc[s] = "reconcile" /\ pc' = [pc EXCEPT ![s] = "idle"]

\* No recovery loop is left; every Worker process still has its loop.
NoRecovery == \A a \in Recoverer : at[a] = "dead"
EveryLoopRuns == \A a \in Recoverer : at[a] # "dead"

RuntimeFairness ==
    /\ \A s \in Slot : /\ WF_runtimeVars(QueueAlone(Proceed(s)))
                       /\ WF_runtimeVars(EveryLoopRuns /\ QueueAlone(ClaimLookup(s)))
                       /\ WF_pc(ReconcileTurn(s))
    /\ \A k \in Token : WF_runtimeVars(QueueAlone(LeaseAges(k) /\ ~ Working(k)))
    /\ WF_runtimeVars(~ NoRecovery /\ QueueAlone(recover_expired))
    /\ WF_runtimeVars(~ NoRecovery /\ QueueAlone(promote_due_retries))
    /\ \A a \in Recoverer : WF_at(RecoveryTurn(a))
    /\ \A t \in Task : WF_runtimeVars(timer_elapses(t))

RuntimeFairSpec == RuntimeSpec /\ RuntimeFairness

\* A run that has started does not stay RUNNING for ever, even if the request
\* that started it died between its two transactions or a slot died before its
\* reconciliation, as long as a recovery loop is alive.
RunProgresses == run = "running" ~> (run # "running" \/ NoRecovery)

\* A timer that has elapsed does not keep its node WAITING in an active run.
TimersFire ==
    \A t \in Task :
        t \in elapsed /\ node[t] = "waiting"
            ~> (node[t] # "waiting" \/ run \in {"paused", "failed"} \/ NoRecovery)

\* No task stays with one lease for ever: its holder reports or gives it back,
\* or, after a crash, the recovery loop takes the lease away; this needs a loop
\* that is still alive.
LeasesEnd ==
    \A t \in Task, k \in Token :
        (Held(task[t]) /\ task[t].lease_token = k)
            ~> (~ (Held(task[t]) /\ task[t].lease_token = k) \/ NoRecovery)

\* A queued or retrying task of a run that stays RUNNING is claimed, unless an
\* exception has ended the loop of a Worker.
PendingIsClaimed ==
    \A t \in Task :
        task[t].status \in {"pending", "retry_wait"}
            ~> (Held(task[t]) \/ run # "running" \/ ~ EveryLoopRuns)

=============================================================================
