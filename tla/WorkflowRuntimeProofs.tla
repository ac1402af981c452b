----------------------- MODULE WorkflowRuntimeProofs -----------------------
(***************************************************************************)
(* Proofs about WorkflowRuntime, for every graph and any number of tasks,  *)
(* slots, clients, recovery loops and faults.                              *)
(***************************************************************************)
EXTENDS WorkflowRuntime, ExecutionQueueProofs

-----------------------------------------------------------------------------
(* The selected path *)

\* The path is closed under the selected edges.
LEMMA PathClosed ==
    /\ OnPath \subseteq Task
    /\ \A e \in Selected : e.src \in Input \cup OnPath => e.dst \in OnPath
  <1>1. ASSUME NEW e \in Selected, e.src \in Input \cup OnPath PROVE e.dst \in OnPath
    <2>1. e.dst \in Task
      BY GraphAssumption DEF Selected
    <2>2. ASSUME NEW S \in SUBSET Task,
                 \A x \in Selected : x.src \in Input \cup S => x.dst \in S
          PROVE  e.dst \in S
      <3>1. e.src \in Input \cup S
        BY <1>1, <2>2 DEF OnPath
      <3> QED BY <2>2, <3>1
    <2> QED BY <2>1, <2>2 DEF OnPath
  <1> QED BY <1>1 DEF OnPath

\* A node on the path is reached from an input or from another node on it:
\* without such an edge the path would be closed without the node.
LEMMA PathReached ==
    ASSUME NEW t \in OnPath
    PROVE  \E e \in Selected : e.dst = t /\ e.src \in Input \cup OnPath
  <1> SUFFICES ASSUME \A e \in Selected : ~ (e.dst = t /\ e.src \in Input \cup OnPath)
               PROVE  FALSE
    OBVIOUS
  <1> DEFINE S == OnPath \ {t}
  <1>1. S \in SUBSET Task
    BY PathClosed
  <1>2. \A e \in Selected : e.src \in Input \cup S => e.dst \in S
    BY PathClosed
  <1> HIDE DEF S
  <1>3. t \in S
    BY <1>1, <1>2 DEF OnPath
  <1> QED BY <1>3 DEF S

\* What the scheduler may be shown.
Statuses == [Task -> NodeRunStatus]

\* mark_unreachable_condition_nodes skips pending nodes off the path and nothing
\* else: the pending nodes off the path are a stable set, and it skips the least.
LEMMA MarkKeepsPath ==
    ASSUME NEW n \in Statuses, \A t \in Task : n[t] = "skipped" => t \notin OnPath
    PROVE  /\ mark_unreachable_condition_nodes(n) \in Statuses
           /\ \A t \in Task :
                 \/ mark_unreachable_condition_nodes(n)[t] = n[t]
                 \/ /\ n[t] = "pending" /\ t \notin OnPath
                    /\ mark_unreachable_condition_nodes(n)[t] = "skipped"
  <1> DEFINE pending == {t \in Task : n[t] = "pending"}
             Stable(S) == \A t \in pending \ S : \E e \in Incoming(t) : _edge_is_active(e, Skip(n, S))
             unreachable == {t \in pending : \A S \in SUBSET pending : Stable(S) => t \in S}
             off == pending \ OnPath
  <1>1. mark_unreachable_condition_nodes(n) = Skip(n, unreachable)
    BY DEF mark_unreachable_condition_nodes
  <1>2. Stable(off)
    <2> SUFFICES ASSUME NEW t \in pending \ off
                 PROVE  \E e \in Incoming(t) : _edge_is_active(e, Skip(n, off))
      OBVIOUS
    <2>1. PICK e \in Selected : e.dst = t /\ e.src \in Input \cup OnPath
      BY PathReached
    <2>2. e \in Incoming(t)
      BY <2>1 DEF Incoming, Selected
    <2>3. StatusOf(Skip(n, off), e.src) # "skipped"
      BY <2>1, PathClosed DEF StatusOf, Skip
    <2>4. _edge_is_active(e, Skip(n, off))
      BY <2>1, <2>3 DEF _edge_is_active, Selected
    <2> QED BY <2>2, <2>4
  <1>3. unreachable \subseteq off
    <2>1. off \in SUBSET pending
      OBVIOUS
    <2> HIDE DEF off, Stable
    <2> QED BY <1>2, <2>1
  <1>4. \A t \in Task : t \in unreachable => n[t] = "pending" /\ t \notin OnPath
    BY <1>3
  <1> HIDE DEF unreachable, off, pending
  <1>5. Skip(n, unreachable) \in Statuses
    BY DEF Skip, Statuses, NodeRunStatus
  <1>6. \A t \in Task : \/ Skip(n, unreachable)[t] = n[t]
                        \/ /\ n[t] = "pending" /\ t \notin OnPath
                           /\ Skip(n, unreachable)[t] = "skipped"
    BY <1>4 DEF Skip
  <1> QED BY <1>1, <1>5, <1>6

\* A node that is ready is on the path, and its predecessors on the path are
\* completed: an active edge leaves a completed node that is on the path.
LEMMA ReadyIsOnPath ==
    ASSUME NEW n \in Statuses, ShowsPath(n, {}), NEW t \in find_ready_nodes(n)
    PROVE  /\ t \in OnPath /\ n[t] = "pending"
           /\ \A e \in Selected : e.dst = t /\ e.src \in OnPath => n[e.src] = "completed"
  <1>1. t \in Task /\ n[t] = "pending"
    BY DEF find_ready_nodes
  <1>2. PICK e \in Incoming(t) : _edge_is_active(e, n)
    BY DEF find_ready_nodes
  <1>3. /\ e \in Edge /\ e.dst = t /\ e.src \in Input \cup Task
        /\ StatusOf(n, e.src) = "completed"
    BY <1>2, GraphAssumption DEF find_ready_nodes, Incoming
  <1>4. e.src \in Input \cup OnPath
    BY <1>3 DEF StatusOf, ShowsPath
  <1>5. e \in Selected
    BY <1>2, <1>3, GraphAssumption DEF Selected, _edge_is_active, StatusOf, Condition
  <1>6. t \in OnPath
    BY <1>3, <1>4, <1>5, PathClosed
  <1>7. ASSUME NEW x \in Selected, x.dst = t, x.src \in OnPath
        PROVE  n[x.src] = "completed"
    <2>1. x \in Incoming(t) /\ x.src \in Task /\ x.src \notin Input
      BY <1>7, GraphAssumption, PathClosed DEF Incoming, Selected
    <2>2. _edge_is_active(x, n)
      BY <1>7, <2>1 DEF _edge_is_active, StatusOf, ShowsPath, Selected
    <2>3. StatusOf(n, x.src) = "completed"
      BY <2>1, <2>2 DEF find_ready_nodes
    <2> QED BY <2>1, <2>3 DEF StatusOf
  <1> QED BY <1>1, <1>6, <1>7

-----------------------------------------------------------------------------
(* A transaction in memory.                                                  *)

Transaction == [run: WorkflowRunStatus, node: Statuses, add: SUBSET Task, drop: SUBSET Task]
Snapshots == [run: WorkflowRunStatus, node: Statuses, known: SUBSET Task]

\* What the scheduler does to a node between the snapshot v and the draft m:
\* nothing, it skips it, submits it or lets its timer fire.
Scheduled(v, m, t) ==
    \/ m.node[t] = v.node[t] /\ t \notin m.add
    \/ /\ v.node[t] = "pending" /\ m.node[t] = "skipped"
       /\ t \notin OnPath /\ t \notin m.add
    \/ /\ v.node[t] = "pending" /\ m.node[t] = "queued"
       /\ t \in OnPath /\ t \in m.add /\ t \notin v.known
       /\ \A e \in Selected : e.dst = t /\ e.src \in OnPath => m.node[e.src] = "completed"
    \/ v.node[t] = "waiting" /\ m.node[t] = "completed" /\ t \notin m.add

Draft(v, m) ==
    /\ m \in Transaction /\ m.drop = {}
    /\ \A t \in Task : Scheduled(v, m, t)

\* The fields of a transaction.
LEMMA TransactionFields ==
    ASSUME NEW m \in Transaction
    PROVE  /\ m.run \in WorkflowRunStatus /\ m.node \in Statuses
           /\ m.add \in SUBSET Task /\ m.drop \in SUBSET Task
  BY DEF Transaction

\* The assignment of a run status.
LEMMA RunSet ==
    ASSUME NEW m \in Transaction, NEW r \in WorkflowRunStatus
    PROVE  LET s == [m EXCEPT !.run = r]
           IN  /\ s \in Transaction /\ s.run = r /\ s.node = m.node
               /\ s.add = m.add /\ s.drop = m.drop
  BY DEF Transaction

\* The assignment of node statuses.
LEMMA NodesSet ==
    ASSUME NEW m \in Transaction, NEW n \in Statuses
    PROVE  LET s == [m EXCEPT !.node = n]
           IN  /\ s \in Transaction /\ s.run = m.run /\ s.node = n
               /\ s.add = m.add /\ s.drop = m.drop
  BY DEF Transaction

\* The fields of a snapshot.
LEMMA SnapshotFields ==
    ASSUME NEW v \in Snapshots
    PROVE  /\ v.run \in WorkflowRunStatus /\ v.node \in Statuses /\ v.known \in SUBSET Task
           /\ Begin(v) \in Transaction /\ Begin(v).run = v.run /\ Begin(v).node = v.node
           /\ Begin(v).add = {} /\ Begin(v).drop = {}
  BY DEF Snapshots, Begin, Transaction

\* A draft agrees with the path if its snapshot does.
LEMMA DraftShowsPath ==
    ASSUME NEW v \in Snapshots, ShowsPath(v.node, v.known), NEW m, Draft(v, m)
    PROVE  ShowsPath(m.node, {})
  BY DEF ShowsPath, Draft, Scheduled

\* A transaction that has only begun is a draft, and so is one whose timers fired.
LEMMA PromotedDraft ==
    ASSUME NEW v \in Snapshots
    PROVE  /\ Draft(v, Begin(v))
           /\ Draft(v, promote_due_waits(Begin(v)))
           /\ promote_due_waits(Begin(v)).run = v.run
  <1>1. Draft(v, Begin(v))
    BY SnapshotFields DEF Draft, Scheduled
  <1> DEFINE n == [t \in Task |-> IF /\ Begin(v).node[t] = "waiting" /\ Kind[t] = "timer"
                                     /\ t \in elapsed
                                  THEN "completed" ELSE Begin(v).node[t]]
  <1>2. n \in Statuses
    BY SnapshotFields DEF Statuses, NodeRunStatus
  <1>3. promote_due_waits(Begin(v)) = [Begin(v) EXCEPT !.node = n]
    BY DEF promote_due_waits
  <1>4. \A t \in Task : n[t] = v.node[t] \/ (v.node[t] = "waiting" /\ n[t] = "completed")
    BY SnapshotFields
  <1> HIDE DEF n
  <1>5. /\ promote_due_waits(Begin(v)) \in Transaction
        /\ promote_due_waits(Begin(v)).run = v.run
        /\ promote_due_waits(Begin(v)).node = n
        /\ promote_due_waits(Begin(v)).add = {}
        /\ promote_due_waits(Begin(v)).drop = {}
    BY <1>2, <1>3, SnapshotFields, NodesSet
  <1>6. Draft(v, promote_due_waits(Begin(v)))
    BY <1>4, <1>5 DEF Draft, Scheduled
  <1> QED BY <1>1, <1>5, <1>6

\* schedule_ready_nodes takes a draft to a draft.
LEMMA ScheduledDraft ==
    ASSUME NEW v \in Snapshots, ShowsPath(v.node, v.known), NEW m, Draft(v, m)
    PROVE  Draft(v, schedule_ready_nodes(m, v))
  <1> DEFINE marked == mark_unreachable_condition_nodes(m.node)
             submitted == find_ready_nodes(marked) \ v.known
             n == [t \in Task |-> IF t \in submitted THEN "queued" ELSE marked[t]]
             A == m.add \cup submitted
             s == schedule_ready_nodes(m, v)
  <1>1. m \in Transaction /\ m.drop = {} /\ m.node \in Statuses /\ m.add \in SUBSET Task
    BY TransactionFields DEF Draft
  <1>2. ShowsPath(m.node, {})
    BY DraftShowsPath
  <1>3. /\ marked \in Statuses
        /\ \A t \in Task : \/ marked[t] = m.node[t]
                           \/ m.node[t] = "pending" /\ t \notin OnPath /\ marked[t] = "skipped"
    <2>1. \A t \in Task : m.node[t] = "skipped" => t \notin OnPath
      BY <1>2 DEF ShowsPath
    <2> QED BY <1>1, <2>1, MarkKeepsPath
  <1>4. s = IF m.run # "running" THEN m ELSE [m EXCEPT !.node = n, !.add = A]
    <2>1. [m EXCEPT !.add = @ \cup submitted, !.node = n] = [m EXCEPT !.node = n, !.add = A]
      BY <1>1 DEF Transaction
    <2> QED BY <1>1, <2>1 DEF schedule_ready_nodes, Transaction
  <1> HIDE DEF marked, s
  <1>5. ShowsPath(marked, {})
    BY <1>2, <1>3 DEF ShowsPath
  <1>6. \A t \in submitted :
           /\ t \in OnPath /\ t \in Task /\ marked[t] = "pending" /\ t \notin v.known
           /\ \A e \in Selected : e.dst = t /\ e.src \in OnPath => marked[e.src] = "completed"
    BY <1>3, <1>5, ReadyIsOnPath, PathClosed
  <1> HIDE DEF submitted
  <1>7. n \in Statuses /\ A \in SUBSET Task
    BY <1>1, <1>3, <1>6 DEF Statuses, NodeRunStatus
  <1>8. CASE m.run # "running"
    BY <1>4, <1>8 DEF s
  <1>9. CASE m.run = "running"
    <2>1. s \in Transaction /\ s.run = m.run /\ s.node = n /\ s.add = A /\ s.drop = {}
      <3> HIDE DEF n, A
      <3>1. s = [m EXCEPT !.node = n, !.add = A]
        BY <1>4, <1>9
      <3>2. LET x == [m EXCEPT !.node = n, !.add = A]
            IN  /\ x \in Transaction /\ x.run = m.run /\ x.node = n
                /\ x.add = A /\ x.drop = m.drop
        BY <1>1, <1>7 DEF Transaction
      <3> QED BY <1>1, <3>1, <3>2
    <2>2. \A x \in OnPath : marked[x] = "completed" => n[x] = "completed"
      BY <1>6, PathClosed
    <2>3. \A x \in OnPath : m.node[x] = "completed" => n[x] = "completed"
      BY <1>3, <2>2, PathClosed
    <2>4. ASSUME NEW t \in Task PROVE Scheduled(v, s, t)
      <3>1. Scheduled(v, m, t)
        BY DEF Draft
      <3>2. CASE t \in submitted
        <4>1. n[t] = "queued" /\ t \in A /\ m.node[t] = "pending"
          BY <1>3, <1>6, <3>2
        <4>2. v.node[t] = "pending"
          BY <3>1, <4>1 DEF Scheduled
        <4> QED BY <1>6, <2>1, <2>2, <3>2, <4>1, <4>2 DEF Scheduled
      <3>3. CASE t \notin submitted /\ marked[t] = m.node[t]
        <4>1. n[t] = m.node[t] /\ (t \in A <=> t \in m.add)
          BY <3>3
        <4> QED BY <2>1, <2>3, <3>1, <4>1 DEF Scheduled
      <3>4. CASE /\ t \notin submitted
                 /\ m.node[t] = "pending" /\ t \notin OnPath /\ marked[t] = "skipped"
        <4>1. v.node[t] = "pending" /\ t \notin m.add
          BY <3>1, <3>4 DEF Scheduled
        <4> QED BY <2>1, <3>4, <4>1 DEF Scheduled
      <3> QED BY <1>3, <3>2, <3>3, <3>4
    <2> QED BY <1>9, <2>1, <2>4 DEF Draft, s
  <1> QED BY <1>8, <1>9

\* Besides, a transaction that fails or cancels the run cancels nodes.
Cancelled(v, m, t) ==
    m.node[t] = "cancelled" /\ ~ is_node_run_terminal(v.node[t]) /\ t \notin m.add

\* What a transaction that does not raise has done to its snapshot.
Result(v, m) ==
    /\ m \in Transaction
    /\ \A t \in Task : Scheduled(v, m, t) \/ Cancelled(v, m, t)
    /\ \/ m.drop = {} /\ \A t \in Task : Scheduled(v, m, t)
       \/ /\ m.run \in {"failed", "cancelled"} /\ m.drop = {t \in Task : Open(task[t])}
          /\ \A t \in m.drop : is_node_run_terminal(m.node[t])

\* cancel_run_tasks, when none of the tasks to insert exists.
LEMMA CancelResult ==
    ASSUME NEW v \in Snapshots, NEW m, Draft(v, m), m.run \in {"failed", "cancelled"},
           \A t \in m.add : task[t].status = "absent"
    PROVE  /\ Result(v, cancel_run_tasks(m))
           /\ cancel_run_tasks(m).run = m.run /\ cancel_run_tasks(m).add = m.add
  <1> DEFINE open == {t \in Task : Open(task[t])}
             n == [t \in Task |-> IF \/ t \in open /\ ~ is_node_run_terminal(m.node[t])
                                     \/ m.node[t] = "pending"
                                  THEN "cancelled" ELSE m.node[t]]
             s == cancel_run_tasks(m)
  <1>1. m \in Transaction /\ m.node \in Statuses
    BY TransactionFields DEF Draft
  <1>2. s = [m EXCEPT !.drop = open, !.node = n]
    BY <1>1 DEF cancel_run_tasks, Transaction
  <1>3. n \in Statuses
    BY <1>1 DEF Statuses, NodeRunStatus
  <1>4. s \in Transaction /\ s.run = m.run /\ s.node = n /\ s.add = m.add /\ s.drop = open
    <2>1. open \in SUBSET Task
      OBVIOUS
    <2> HIDE DEF n, open, s
    <2> QED BY <1>1, <1>2, <1>3, <2>1 DEF Transaction
  <1>5. ASSUME NEW t \in Task
        PROVE  /\ Scheduled(v, s, t) \/ Cancelled(v, s, t)
               /\ t \in open => is_node_run_terminal(n[t])
    <2>1. Scheduled(v, m, t)
      BY DEF Draft
    <2>2. t \in open => t \notin m.add
      BY DEF Open
    <2>3. \A x \in Task : m.node[x] = "completed" => n[x] = "completed"
      BY DEF is_node_run_terminal, NODE_RUN_TERMINAL
    <2>4. t \in open => is_node_run_terminal(n[t])
      BY DEF is_node_run_terminal, NODE_RUN_TERMINAL
    <2>5. CASE n[t] = m.node[t]
      BY <1>4, <2>1, <2>3, <2>4, <2>5, PathClosed DEF Scheduled
    <2>6. CASE n[t] # m.node[t]
      <3>1. /\ n[t] = "cancelled" /\ m.node[t] \notin {"skipped", "completed"}
            /\ ~ is_node_run_terminal(m.node[t])
        BY <2>6 DEF is_node_run_terminal, NODE_RUN_TERMINAL
      <3>2. t \notin m.add
        BY <2>1, <2>2, <2>6 DEF Scheduled
      <3>3. m.node[t] = v.node[t]
        BY <2>1, <3>1, <3>2 DEF Scheduled
      <3> QED BY <1>4, <2>4, <3>1, <3>2, <3>3 DEF Cancelled
    <2> QED BY <2>5, <2>6
  <1>6. s.drop = open /\ \A t \in s.drop : is_node_run_terminal(s.node[t])
    BY <1>4, <1>5
  <1> QED BY <1>4, <1>5, <1>6 DEF Result

\* A draft with nothing cancelled is a result.
LEMMA DraftResult ==
    ASSUME NEW v, NEW m, Draft(v, m)
    PROVE  Result(v, m)
  BY DEF Draft, Result

\* The derived status is one of four.
LEMMA Derived ==
    \A n \in Statuses : derive_workflow_state(n) \in {"failed", "completed", "waiting", "running"}
  BY DEF derive_workflow_state

\* reconcile_run, from any snapshot that agrees with the path.
LEMMA ReconcileResult ==
    ASSUME NEW v \in Snapshots, ShowsPath(v.node, v.known), ~ Raises(v, reconcile_run(v))
    PROVE  Result(v, reconcile_run(v))
  <1> DEFINE scheduled == schedule_ready_nodes(promote_due_waits(Begin(v)), v)
             derived == derive_workflow_state(scheduled.node)
             d == [scheduled EXCEPT !.run = derived]
             m == reconcile_run(v)
  <1>1. Draft(v, scheduled) /\ scheduled \in Transaction /\ scheduled.node \in Statuses
    BY PromotedDraft, ScheduledDraft, TransactionFields DEF Draft
  <1>2. derived \in {"failed", "completed", "waiting", "running"}
    BY <1>1, Derived
  <1>3. \A t \in m.add : task[t].status = "absent"
    BY DEF Raises
  <1>4. m = IF v.run = "cancelled" THEN cancel_run_tasks(Begin(v))
            ELSE IF v.run \in {"completed", "failed", "paused"} THEN Begin(v)
            ELSE IF derived = "failed" THEN cancel_run_tasks(d)
            ELSE IF derived = "running" THEN schedule_ready_nodes(d, v)
            ELSE d
    BY DEF reconcile_run
  <1> HIDE DEF scheduled, derived, m
  <1>5. d.run = derived /\ Draft(v, d)
    <2>1. derived \in WorkflowRunStatus
      BY <1>2 DEF WorkflowRunStatus
    <2>2. /\ d \in Transaction /\ d.run = derived /\ d.node = scheduled.node
          /\ d.add = scheduled.add /\ d.drop = scheduled.drop
      BY <1>1, <2>1, RunSet
    <2> QED BY <1>1, <2>2 DEF Draft, Scheduled
  <1> HIDE DEF d
  <1>6. CASE v.run = "cancelled"
    <2>1. m = cancel_run_tasks(Begin(v))
      BY <1>4, <1>6
    <2>2. Draft(v, Begin(v)) /\ Begin(v).run = "cancelled" /\ Begin(v).add = {}
      BY <1>6, PromotedDraft, SnapshotFields
    <2> QED BY <2>1, <2>2, CancelResult DEF m
  <1>7. CASE v.run \in {"completed", "failed", "paused"}
    <2>1. m = Begin(v)
      BY <1>4, <1>7
    <2> QED BY <2>1, PromotedDraft, DraftResult DEF m
  <1>8. CASE v.run \notin {"cancelled", "completed", "failed", "paused"}
    <2>1. CASE derived = "failed"
      <3>1. m = cancel_run_tasks(d)
        BY <1>4, <1>8, <2>1
      <3>2. m.add = d.add
        BY <1>5, <3>1 DEF cancel_run_tasks, Draft, Transaction
      <3> QED BY <1>3, <1>5, <2>1, <3>1, <3>2, CancelResult DEF m
    <2>2. CASE derived = "running"
      <3>1. m = schedule_ready_nodes(d, v)
        BY <1>4, <1>8, <2>2
      <3> QED BY <1>5, <3>1, ScheduledDraft, DraftResult DEF m
    <2>3. CASE derived \in {"completed", "waiting"}
      <3>1. m = d
        BY <1>4, <1>8, <2>3
      <3> QED BY <1>5, <3>1, DraftResult DEF m
    <2> QED BY <1>2, <2>1, <2>2, <2>3
  <1> QED BY <1>6, <1>7, <1>8

-----------------------------------------------------------------------------
(* What the steps of the queue do, without any assumption on the statuses.   *)

Busy == {"lookup", "claimed", "starting", "executing"}

\* The row and the node of a task that exists may be written; nothing is skipped.
SlotRow(t) ==
    /\ task'[t].status = "absent" <=> task[t].status = "absent"
    /\ task[t].status = "absent" => task'[t] = task[t]
    /\ node'[t] = node[t] \/ (t \in Known /\ node'[t] # "skipped")

\* What the code of a slot does to the rows and to the slots.
LEMMA SlotRows ==
    ASSUME PathInv, NEW s \in Slot, SlotStep(s)
    PROVE  /\ \A t \in Task : SlotRow(t)
           /\ pc'[s] \in Busy => job'[s].task \in Known
           /\ pc'[s] \in {"claimed", "starting", "executing"} <=> job'[s].token # None
           /\ \A x \in Slot \ {s} : pc'[x] = pc[x] /\ job'[x] = job[x]
  <1> DEFINE u == job[s].task
             Slots == /\ pc'[s] \in Busy => job'[s].task \in Known
                      /\ pc'[s] \in {"claimed", "starting", "executing"} <=> job'[s].token # None
                      /\ \A x \in Slot \ {s} : pc'[x] = pc[x] /\ job'[x] = job[x]
  <1>0. TypeOK
    BY DEF PathInv, RuntimeTypeOK
  <1>a. pc[s] \in Busy => u \in Known /\ u \in Task
    BY DEF PathInv, WorkIsKnown, Busy, Known
  <1>b. pc[s] \in {"claimed", "starting", "executing"} <=> job[s].token # None
    BY DEF PathInv, Fencing, SlotShape
  <1>c. \A t \in Task : task[t] \in Row
    BY <1>0 DEF TypeOK
  <1>d. \A p : GoTo(s, p) /\ p \in {"idle", "reconcile"} => Slots
    BY <1>0, GoToEffect, EmptyFields DEF Busy
  <1>1. CASE ClaimLookup(s)
    <2>1. PICK t \in Task : task[t].status = "pending"
                            /\ job' = [job EXCEPT ![s] = [NoJob EXCEPT !.task = t]]
      BY <1>1 DEF ClaimLookup
    <2>2. /\ pc'[s] = "lookup" /\ job'[s].task = t /\ job'[s].token = None
          /\ \A x \in Slot \ {s} : pc'[x] = pc[x] /\ job'[x] = job[x]
      <3>1. pc' = [pc EXCEPT ![s] = "lookup"]
        BY <1>1 DEF ClaimLookup
      <3>2. pc'[s] = "lookup" /\ \A x \in Slot \ {s} : pc'[x] = pc[x]
        BY <1>0, <3>1 DEF TypeOK
      <3>3. job'[s] = [NoJob EXCEPT !.task = t] /\ \A x \in Slot \ {s} : job'[x] = job[x]
        BY <1>0, <2>1 DEF TypeOK
      <3> QED BY <3>2, <3>3, JobFields
    <2> QED BY <1>1, <2>1, <2>2 DEF ClaimLookup, Known, SlotRow
  <1>2. CASE Claim(s)
    <2>1. PICK k \in Token :
             /\ task' = [task EXCEPT ![u] = [@ EXCEPT !.status = "claimed", !.locked_by = WorkerOf[s],
                                                      !.lease_token = k]]
             /\ job' = [job EXCEPT ![s] = [@ EXCEPT !.token = k, !.attempt = task[u].attempt]]
      BY <1>2 DEF Claim, FreshToken
    <2>2. u \in Task /\ u \in Known
      BY <1>2, <1>a DEF Claim, Busy
    <2>3. /\ pc'[s] = "claimed" /\ job'[s].task = u /\ job'[s].token = k /\ k # None
          /\ \A x \in Slot \ {s} : pc'[x] = pc[x] /\ job'[x] = job[x]
      <3>1. job[s] \in ClaimedTask /\ k # None
        BY <1>0, QueueAssumption DEF TypeOK
      <3>2. /\ pc'[s] = "claimed" /\ job'[s] = [job[s] EXCEPT !.token = k, !.attempt = task[u].attempt]
            /\ \A x \in Slot \ {s} : pc'[x] = pc[x] /\ job'[x] = job[x]
        BY <1>0, <1>2, <2>1 DEF Claim, TypeOK
      <3>3. job'[s].task = u /\ job'[s].token = k
        BY <3>1, <3>2, JobFields
      <3> QED BY <3>1, <3>2, <3>3
    <2>4. task'[u].status = "claimed" /\ \A t \in Task \ {u} : task'[t] = task[t]
      BY <1>0, <1>c, <2>1, <2>2, ClaimedFields DEF TypeOK
    <2>5. \A t \in Task : SlotRow(t)
      BY <1>2, <2>2, <2>4 DEF Claim, Known, SlotRow
    <2>6. Slots
      BY <2>2, <2>3
    <2> QED BY <2>5, <2>6
  <1>3. CASE ClaimLost(s) \/ StartLost(s) \/ ReportRefused(s)
    <2>1. GoTo(s, "idle") \/ GoTo(s, "reconcile")
      BY <1>3 DEF ClaimLost, StartLost, ReportRefused
    <2>2. Slots
      BY <2>1, <1>d
    <2>3. UNCHANGED <<node, task>>
      BY <1>3 DEF ClaimLost, StartLost, ReportRefused
    <2> QED BY <2>2, <2>3 DEF SlotRow
  <1>4. CASE StartRead(s)
    BY <1>0, <1>4, <1>a, <1>b DEF StartRead, TypeOK, Busy, SlotRow
  <1>5. CASE Start(s)
    <2>1. u \in Task /\ u \in Known /\ job[s].token # None
      BY <1>5, <1>a, <1>b DEF Start, Busy
    <2>2. task'[u].status = "running" /\ \A t \in Task \ {u} : task'[t] = task[t]
      BY <1>0, <1>5, <1>c, <2>1, StartedFields DEF Start, TypeOK
    <2>3. /\ node'[u] \in {node[u], "running"} /\ \A t \in Task \ {u} : node'[t] = node[t]
      BY <1>0, <1>5, <2>1 DEF Start, TypeOK
    <2>4. \A t \in Task : SlotRow(t)
      BY <2>1, <2>2, <2>3 DEF Known, SlotRow
    <2>5. Slots
      BY <1>0, <1>5, <2>1 DEF Start, TypeOK
    <2> QED BY <2>4, <2>5
  <1>6. CASE StartReleased(s)
    <2>1. u \in Task /\ u \in Known
      BY <1>6, <1>a DEF StartReleased, Busy
    <2>2. task'[u].status = "pending" /\ \A t \in Task \ {u} : task'[t] = task[t]
      BY <1>0, <1>6, <1>c, <2>1, ReleasedFields DEF StartReleased, TypeOK
    <2>3. \A t \in Task : SlotRow(t)
      BY <1>6, <2>1, <2>2 DEF StartReleased, Known, SlotRow
    <2>4. Slots
      BY <1>6, <1>d DEF StartReleased
    <2> QED BY <2>3, <2>4
  <1>7. CASE StartCancelled(s)
    <2>1. u \in Task /\ u \in Known
      BY <1>7, <1>a DEF StartCancelled, Busy
    <2>2. task'[u].status = "cancelled" /\ \A t \in Task \ {u} : task'[t] = task[t]
      BY <1>0, <1>7, <1>c, <2>1, StatusFields DEF StartCancelled, TypeOK
    <2>3. /\ node'[u] \in {node[u], "cancelled"} /\ \A t \in Task \ {u} : node'[t] = node[t]
      BY <1>0, <1>7, <2>1 DEF StartCancelled, TypeOK
    <2>4. \A t \in Task : SlotRow(t)
      BY <2>1, <2>2, <2>3 DEF Known, SlotRow
    <2>5. Slots
      BY <1>7, <1>d DEF StartCancelled
    <2> QED BY <2>4, <2>5
  <1>8. CASE complete(s) \/ fail(s) \/ wait_node(s) \/ schedule_retry(s)
    <2>1. u \in Task /\ u \in Known /\ task[u] \in Row
      BY <1>8, <1>a, <1>c DEF complete, fail, wait_node, schedule_retry, Reporting, Busy
    <2>2. PICK row, status, p :
             /\ Write(s, row, status, p) /\ p \in {"idle", "reconcile"}
             /\ row.status # "absent" /\ status \in {node[u], "completed", "failed", "waiting", "retrying"}
      <3>1. CASE complete(s)
        <4>1. Write(s, [task[u] EXCEPT !.status = "completed"], "completed", "reconcile")
          BY <3>1 DEF complete
        <4>2. ([task[u] EXCEPT !.status = "completed"]).status # "absent"
          BY <2>1, StatusFields
        <4> QED BY <4>1, <4>2
      <3>2. CASE fail(s)
        <4>1. Write(s, [task[u] EXCEPT !.status = "failed"], IF is_node_run_terminal(node[u]) THEN node[u] ELSE "failed", "reconcile")
          BY <3>2 DEF fail
        <4>2. ([task[u] EXCEPT !.status = "failed"]).status # "absent"
          BY <2>1, StatusFields
        <4> QED BY <4>1, <4>2
      <3>3. CASE wait_node(s)
        <4>1. Write(s, [task[u] EXCEPT !.status = "completed"], "waiting", "reconcile")
          BY <3>3 DEF wait_node
        <4>2. ([task[u] EXCEPT !.status = "completed"]).status # "absent"
          BY <2>1, StatusFields
        <4> QED BY <4>1, <4>2
      <3>4. CASE schedule_retry(s)
        <4>1. Write(s, Released(task[u], "retry_wait"), "retrying", "idle")
          BY <3>4 DEF schedule_retry
        <4>2. (Released(task[u], "retry_wait")).status # "absent"
          BY <2>1, ReleasedFields
        <4> QED BY <4>1, <4>2
      <3> QED BY <1>8, <3>1, <3>2, <3>3, <3>4
    <2>3. /\ task'[u].status # "absent" /\ \A t \in Task \ {u} : task'[t] = task[t]
          /\ node'[u] = status /\ \A t \in Task \ {u} : node'[t] = node[t]
      BY <1>0, <2>1, <2>2 DEF Write, TypeOK
    <2>4. \A t \in Task : SlotRow(t)
      BY <2>1, <2>2, <2>3 DEF Known, SlotRow
    <2>5. Slots
      BY <1>d, <2>2 DEF Write
    <2> QED BY <2>4, <2>5
  <1>9. CASE renew_lease(s)
    BY <1>9, <1>a, <1>b DEF renew_lease, slotVars, SlotRow
  <1> QED BY <1>1, <1>2, <1>3, <1>4, <1>5, <1>6, <1>7, <1>8, <1>9 DEF SlotStep

-----------------------------------------------------------------------------
(* The parts of PathInv that a step keeps: rows, slots and actors.           *)

RowsKept ==
    /\ run' \in WorkflowRunStatus /\ node' \in Statuses /\ task' \in [Task -> Row]
    /\ \A t \in Task :
          /\ task[t].status # "absent" => task'[t].status # "absent"
          /\ task'[t].status = "absent" => task'[t] = NoRow
          /\ task'[t].status # "absent" => t \in OnPath
          /\ node'[t] \notin {"pending", "skipped", "cancelled"} => t \in OnPath
          /\ node'[t] = "skipped" => t \notin OnPath

SlotsKept ==
    /\ ttl' \in [Token -> 0..LeaseTicks]
    /\ pc' \in [Slot -> {"idle", "lookup", "claimed", "starting", "executing", "reconcile"}]
    /\ job' \in [Slot -> ClaimedTask]
    /\ seen' \in [Slot -> Row]
    /\ seenNode' \in [Slot -> NodeRunStatus]
    /\ faults' \in 0..MaxFaults
    /\ \A s \in Slot : pc'[s] \in Busy => job'[s].task \in Known

\* PathInv without the fencing of the rows, which has its own proof.
PathShape == RuntimeTypeOK /\ WorkIsKnown /\ PathKept

Places == {"idle", "read", "committed", "snapshot", "dead"}
Calls == [op: Op \cup {"none"}, node: Task \cup {None}]

ActorsKept ==
    /\ choice' = choice /\ elapsed' \subseteq Task
    /\ at' \in [Actor -> Places] /\ call' \in [Actor -> Calls] /\ view' \in [Actor -> Snapshots]
    /\ \A p \in Actor : /\ at'[p] = "read" => call'[p].node \in Task
                        /\ ShowsPath(view'[p].node, view'[p].known)

\* PathInv in these terms.
LEMMA PathFacts ==
    ASSUME PathInv
    PROVE  /\ TypeOK /\ Fencing /\ SlotShape /\ View \in Snapshots /\ View.run = run
           /\ View.node = node /\ View.known = Known /\ node \in Statuses
           /\ ShowsPath(node, Known) /\ choice \in [Condition -> {"true", "false"}]
           /\ elapsed \subseteq Task /\ at \in [Actor -> Places]
           /\ call \in [Actor -> Calls] /\ view \in [Actor -> Snapshots]
           /\ \A p \in Actor : /\ view[p] \in Snapshots
                               /\ ShowsPath(view[p].node, view[p].known)
                               /\ at[p] = "read" => call[p].node \in Task
           /\ \A s \in Slot : pc[s] \in Busy => job[s].task \in Known
           /\ \A t \in Task : task[t] \in Row /\ (task[t].status = "absent" => task[t] = NoRow)
  <1>1. /\ TypeOK /\ Fencing /\ SlotShape /\ node \in Statuses
        /\ run \in WorkflowRunStatus
    BY DEF PathInv, RuntimeTypeOK, TypeOK, Statuses, Fencing
  <1>2. /\ choice \in [Condition -> {"true", "false"}] /\ elapsed \subseteq Task
        /\ at \in [Actor -> Places] /\ call \in [Actor -> Calls]
    BY DEF PathInv, RuntimeTypeOK, Places, Calls
  <1>3. view \in [Actor -> Snapshots]
    BY DEF PathInv, RuntimeTypeOK, Snapshots, Statuses
  <1>4. /\ View \in Snapshots /\ View.run = run /\ View.node = node /\ View.known = Known
    BY <1>1 DEF View, Snapshots, Known
  <1>5. /\ ShowsPath(node, Known)
        /\ \A p \in Actor : ShowsPath(view[p].node, view[p].known)
    BY DEF PathInv, PathKept
  <1>6. /\ \A p \in Actor : at[p] = "read" => call[p].node \in Task
        /\ \A s \in Slot : pc[s] \in Busy => job[s].task \in Known
        /\ \A t \in Task : task[t].status = "absent" => task[t] = NoRow
    BY DEF PathInv, WorkIsKnown, Busy
  <1>7. \A t \in Task : task[t] \in Row
    BY <1>1 DEF TypeOK
  <1> QED BY <1>1, <1>2, <1>3, <1>4, <1>5, <1>6, <1>7

\* The path is fixed when the run is created.
LEMMA PathStays ==
    ASSUME choice' = choice
    PROVE  Selected' = Selected /\ OnPath' = OnPath
  BY DEF Selected, OnPath

\* A step that keeps the three parts keeps the path.
LEMMA PathParts ==
    ASSUME PathInv, RowsKept, SlotsKept, ActorsKept
    PROVE  PathShape'
  <1>1. OnPath' = OnPath
    BY PathStays DEF ActorsKept
  <1>2. RuntimeTypeOK'
    <2>1. TypeOK'
      BY DEF RowsKept, SlotsKept, TypeOK, Statuses
    <2>2. view' \in [Actor -> [run: WorkflowRunStatus, node: [Task -> NodeRunStatus], known: SUBSET Task]]
      BY DEF ActorsKept, Snapshots, Statuses
    <2> QED BY <2>1, <2>2, PathFacts DEF RuntimeTypeOK, ActorsKept, Places, Calls
  <1>3. WorkIsKnown'
    BY DEF RowsKept, SlotsKept, ActorsKept, WorkIsKnown, Busy, Known
  <1>4. ShowsPath(node, Known)'
    BY <1>1 DEF RowsKept, ShowsPath, Known
  <1>5. \A p \in Actor : ShowsPath(view[p].node, view[p].known)'
    BY <1>1 DEF ActorsKept, ShowsPath
  <1> QED BY <1>2, <1>3, <1>4, <1>5 DEF PathShape, PathKept

\* Nothing happens to the rows.
LEMMA RowsIdle ==
    ASSUME PathInv, run' \in WorkflowRunStatus, UNCHANGED <<node, task>>
    PROVE  RowsKept
  <1>1. TypeOK /\ node \in Statuses
    BY PathFacts
  <1> QED BY <1>1, PathFacts DEF RowsKept, TypeOK, ShowsPath, Known

\* Nothing happens to the slots.
LEMMA SlotsIdle ==
    ASSUME PathInv, UNCHANGED <<ttl, slotVars, faults>>
    PROVE  SlotsKept
  <1>1. UNCHANGED <<pc, job, seen, seenNode>>
    BY DEF slotVars
  <1> QED BY <1>1, PathFacts DEF SlotsKept, TypeOK

\* Nothing happens to the actors.
LEMMA ActorsIdle ==
    ASSUME PathInv, UNCHANGED <<choice, elapsed, actorVars>>
    PROVE  ActorsKept
  <1>1. UNCHANGED <<at, call, view>>
    BY DEF actorVars
  <1> QED BY <1>1, PathFacts DEF ActorsKept

\* One actor goes on, with a snapshot that agrees with the path.
LEMMA ActorMoves ==
    ASSUME PathInv, UNCHANGED <<choice, elapsed>>, NEW p \in Actor,
           NEW x \in Places, at' = [at EXCEPT ![p] = x],
           NEW k \in Calls, x = "read" => k.node \in Task, call' = [call EXCEPT ![p] = k],
           NEW w \in Snapshots, ShowsPath(w.node, w.known), view' = [view EXCEPT ![p] = w]
    PROVE  ActorsKept
  <1>1. at' \in [Actor -> Places] /\ call' \in [Actor -> Calls] /\ view' \in [Actor -> Snapshots]
    BY PathFacts
  <1>2. /\ at'[p] = x /\ call'[p] = k /\ view'[p] = w
        /\ \A q \in Actor \ {p} : at'[q] = at[q] /\ call'[q] = call[q] /\ view'[q] = view[q]
    BY PathFacts
  <1> QED BY <1>1, <1>2, PathFacts DEF ActorsKept

\* A commit writes what the transaction did to its snapshot over the rows as
\* they are now: however old the snapshot is, the rows agree with the path.
LEMMA CommitKeepsRows ==
    ASSUME PathInv, NEW v \in Snapshots, ShowsPath(v.node, v.known), NEW m, Result(v, m), Commit(v, m)
    PROVE  RowsKept
  <1>1. m \in Transaction /\ m.run \in WorkflowRunStatus /\ m.node \in Statuses
    BY TransactionFields DEF Result
  <1>2. run' \in WorkflowRunStatus
    BY <1>1, PathFacts DEF Commit, TypeOK
  <1>3. node' \in Statuses
    BY <1>1, PathFacts DEF Commit, Statuses
  <1>4. [NoRow EXCEPT !.status = "pending"] \in Row
        /\ [NoRow EXCEPT !.status = "pending"].status = "pending"
    BY EmptyTypes, StatusType, StatusFields DEF ExecutionTaskStatus
  <1>5. ASSUME NEW t \in Task
        PROVE  /\ task'[t] \in Row
               /\ task[t].status # "absent" => task'[t].status # "absent"
               /\ task'[t].status = "absent" => task'[t] = NoRow
               /\ task'[t].status # "absent" => t \in OnPath
    <2>1. task[t] \in Row /\ (task[t].status = "absent" => task[t] = NoRow)
      BY PathFacts
    <2>2. task[t].status # "absent" => t \in OnPath
      BY PathFacts DEF ShowsPath, Known
    <2>3. CASE t \in m.add
      <3>1. t \in OnPath
        BY <2>3 DEF Result, Scheduled, Cancelled
      <3> QED BY <1>4, <2>3, <3>1 DEF Commit
    <2>4. CASE t \notin m.add /\ t \in m.drop
      <3>1. Open(task[t])
        BY <2>4 DEF Result
      <3>2. task'[t] = [task[t] EXCEPT !.status = "cancelled"]
        BY <2>4 DEF Commit
      <3>3. /\ [task[t] EXCEPT !.status = "cancelled"] \in Row
            /\ [task[t] EXCEPT !.status = "cancelled"].status = "cancelled"
        BY <2>1, StatusType, StatusFields DEF ExecutionTaskStatus
      <3> QED BY <2>2, <3>1, <3>2, <3>3 DEF Open
    <2>5. CASE t \notin m.add /\ t \notin m.drop
      BY <2>1, <2>2, <2>5 DEF Commit
    <2> QED BY <2>3, <2>4, <2>5
  <1>6. task' \in [Task -> Row]
    <2>1. task' = [t \in Task |-> task'[t]]
      BY DEF Commit
    <2> QED BY <1>5, <2>1
  <1>7. ASSUME NEW t \in Task
        PROVE  /\ node'[t] \notin {"pending", "skipped", "cancelled"} => t \in OnPath
               /\ node'[t] = "skipped" => t \notin OnPath
    <2>1. node'[t] = IF m.node[t] # v.node[t] THEN m.node[t] ELSE node[t]
      BY DEF Commit
    <2>2. CASE m.node[t] = v.node[t]
      BY <2>1, <2>2, PathFacts DEF ShowsPath
    <2>3. CASE m.node[t] # v.node[t]
      BY <2>1, <2>3 DEF Result, Scheduled, Cancelled, ShowsPath
    <2> QED BY <2>2, <2>3
  <1> QED BY <1>2, <1>3, <1>5, <1>6, <1>7 DEF RowsKept

\* The same, whether the transaction commits or is rolled back.
LEMMA FinishKeepsRows ==
    ASSUME PathInv, NEW v \in Snapshots, ShowsPath(v.node, v.known), NEW m,
           ~ Raises(v, m) => Result(v, m), Finish(v, m)
    PROVE  RowsKept
  <1>1. CASE Raises(v, m)
    <2>1. UNCHANGED <<run, node, task>>
      BY <1>1 DEF Finish
    <2> QED BY <2>1, RowsIdle, PathFacts DEF TypeOK
  <1>2. CASE ~ Raises(v, m)
    BY <1>2, CommitKeepsRows DEF Finish
  <1> QED BY <1>1, <1>2

\* What cancel_run does to the rows as they are.
LEMMA CancelRunResult ==
    ASSUME PathInv
    PROVE  LET all == [Begin(View) EXCEPT !.run = "cancelled",
                          !.node = [t \in Task |-> IF is_node_run_terminal(node[t])
                                                   THEN node[t] ELSE "cancelled"]]
               m == cancel_run_tasks(all)
           IN  Result(View, m) /\ m.add = {}
  <1> DEFINE n == [t \in Task |-> IF is_node_run_terminal(node[t]) THEN node[t] ELSE "cancelled"]
             all == [Begin(View) EXCEPT !.run = "cancelled", !.node = n]
             m == cancel_run_tasks(all)
             open == {t \in Task : Open(task[t])}
             n2 == [t \in Task |-> IF \/ t \in open /\ ~ is_node_run_terminal(all.node[t])
                                      \/ all.node[t] = "pending"
                                   THEN "cancelled" ELSE all.node[t]]
  <1>1. /\ Begin(View) \in Transaction /\ Begin(View).add = {} /\ View.node = node
        /\ node \in Statuses
    BY PathFacts, SnapshotFields
  <1>2. n \in Statuses
    BY <1>1 DEF Statuses, NodeRunStatus
  <1>3. all \in Transaction /\ all.run = "cancelled" /\ all.node = n /\ all.add = {}
    <2> HIDE DEF n
    <2> QED BY <1>1, <1>2 DEF Transaction, WorkflowRunStatus
  <1>4. m = [all EXCEPT !.drop = open, !.node = n2]
    BY DEF cancel_run_tasks
  <1>5. \A t \in Task : /\ n2[t] = n[t] /\ is_node_run_terminal(n[t])
                        /\ n[t] = node[t] \/ (n[t] = "cancelled" /\ ~ is_node_run_terminal(node[t]))
    BY <1>3 DEF is_node_run_terminal, NODE_RUN_TERMINAL
  <1>6. n2 = n
    <2>1. n2 = [t \in Task |-> n2[t]] /\ n = [t \in Task |-> n[t]]
      OBVIOUS
    <2> HIDE DEF n, n2
    <2> QED BY <1>5, <2>1
  <1>7. m \in Transaction /\ m.run = "cancelled" /\ m.node = n /\ m.add = {} /\ m.drop = open
    <2>1. open \in SUBSET Task
      OBVIOUS
    <2> HIDE DEF all, n, n2, open, m
    <2> QED BY <1>2, <1>3, <1>4, <1>6, <2>1 DEF Transaction
  <1>8. \A t \in Task : Scheduled(View, m, t) \/ Cancelled(View, m, t)
    BY <1>1, <1>5, <1>7 DEF Scheduled, Cancelled
  <1>9. Result(View, m)
    BY <1>5, <1>7, <1>8 DEF Result
  <1> QED BY <1>7, <1>9

-----------------------------------------------------------------------------
(* Every step keeps PathInv.                                                 *)

\* The snapshot of nobody.
LEMMA NoViewShowsPath == NoView \in Snapshots /\ ShowsPath(NoView.node, NoView.known)
  BY DEF NoView, Snapshots, Statuses, ShowsPath, WorkflowRunStatus, NodeRunStatus

\* A slot that forgets its task.
LEMMA SlotLeaves ==
    ASSUME PathInv, NEW s \in Slot, NEW p \in {"idle", "reconcile"}, GoTo(s, p),
           ttl' \in [Token -> 0..LeaseTicks], faults' \in 0..MaxFaults
    PROVE  SlotsKept
  <1>1. TypeOK /\ SlotShape
    BY PathFacts
  <1>2. /\ pc'[s] = p /\ job'[s].token = None
        /\ \A x \in Slot \ {s} : pc'[x] = pc[x] /\ job'[x] = job[x]
    BY <1>1, GoToEffect, EmptyFields
  <1>3. \A x \in Slot : pc'[x] \in Busy => job'[x].task \in Known
    BY <1>2, PathFacts DEF Busy
  <1> QED BY <1>1, <1>3, GoToType DEF SlotsKept

\* The code of a slot.
LEMMA SlotStepKeepsPath ==
    ASSUME PathInv, NEW s \in Slot, SlotStep(s), UNCHANGED <<choice, elapsed, actorVars>>
    PROVE  PathShape'
  <1>1. TypeOK /\ SlotShape
    BY PathFacts
  <1>2. TypeOK'
    BY <1>1, SlotStepType
  <1>3. RowsKept
    <2>1. \A t \in Task : /\ task[t].status # "absent" => t \in OnPath
                          /\ node[t] \notin {"pending", "skipped", "cancelled"} => t \in OnPath
                          /\ node[t] = "skipped" => t \notin OnPath
                          /\ task[t].status = "absent" => task[t] = NoRow
      BY PathFacts DEF ShowsPath, Known
    <2>2. \A t \in Task : SlotRow(t)
      BY SlotRows
    <2>3. \A t \in Known : t \in OnPath
      BY <2>1 DEF Known
    <2>4. run' \in WorkflowRunStatus /\ node' \in Statuses /\ task' \in [Task -> Row]
      BY <1>2 DEF TypeOK, Statuses
    <2> QED BY <2>1, <2>2, <2>3, <2>4 DEF RowsKept, SlotRow
  <1>4. \A x \in Slot : pc'[x] \in Busy => job'[x].task \in Known
    BY SlotRows, PathFacts
  <1>5. SlotsKept
    BY <1>2, <1>4 DEF SlotsKept, TypeOK
  <1> QED BY <1>3, <1>5, ActorsIdle, PathParts

\* Time, faults and the recovery of leases and retries.
LEMMA OtherStepKeepsPath ==
    ASSUME PathInv, UNCHANGED <<choice, elapsed, actorVars>>,
           \/ \E s \in Slot : Abort(s)
           \/ \E k \in Token : LeaseAges(k)
           \/ recover_expired \/ promote_due_retries
    PROVE  PathShape'
  <1>1. TypeOK /\ SlotShape
    BY PathFacts
  <1>2. TypeOK'
    BY <1>1, OtherStepType
  <1>3. \A t \in Task : /\ task[t].status # "absent" => t \in OnPath
                        /\ node[t] \notin {"pending", "skipped", "cancelled"} => t \in OnPath
                        /\ node[t] = "skipped" => t \notin OnPath
                        /\ task[t].status = "absent" => task[t] = NoRow
                        /\ task[t] \in Row
    BY PathFacts DEF ShowsPath, Known
  <1>4. ActorsKept
    BY ActorsIdle
  <1>5. ASSUME NEW s \in Slot, Abort(s) PROVE PathShape'
    <2>1. SlotsKept
      BY <1>2, <1>5, SlotLeaves DEF Abort, TypeOK
    <2>2. RowsKept
      BY <1>2, <1>5, RowsIdle DEF Abort, TypeOK
    <2> QED BY <1>4, <2>1, <2>2, PathParts
  <1>6. ASSUME UNCHANGED slotVars PROVE SlotsKept
    <2>1. UNCHANGED <<pc, job>>
      BY <1>6 DEF slotVars
    <2> QED BY <1>2, <2>1, PathFacts DEF SlotsKept, TypeOK
  <1>7. ASSUME NEW k \in Token, LeaseAges(k) PROVE PathShape'
    <2>1. RowsKept
      BY <1>2, <1>7, RowsIdle DEF LeaseAges, TypeOK
    <2>2. SlotsKept
      BY <1>6, <1>7 DEF LeaseAges
    <2> QED BY <1>4, <2>1, <2>2, PathParts
  <1>8. CASE recover_expired
    <2>1. \A t \in Task : \/ task'[t] = task[t]
                          \/ task[t].status # "absent" /\ task'[t].status = "pending"
      BY <1>3, <1>8, ReleasedFields DEF recover_expired, Expired, Held
    <2>2. RowsKept
      BY <1>2, <1>3, <1>8, <2>1 DEF RowsKept, TypeOK, Statuses, recover_expired
    <2>3. SlotsKept
      BY <1>6, <1>8 DEF recover_expired
    <2> QED BY <1>4, <2>2, <2>3, PathParts
  <1>9. CASE promote_due_retries
    <2>1. PICK due \in SUBSET {t \in Task : task[t].status = "retry_wait"} :
             /\ task' = [t \in Task |-> IF t \in due THEN [task[t] EXCEPT !.status = "pending"]
                                                     ELSE task[t]]
             /\ node' = [t \in Task |-> IF t \in due THEN "queued" ELSE node[t]]
      BY <1>9 DEF promote_due_retries
    <2>2. \A t \in Task : \/ task'[t] = task[t] /\ node'[t] = node[t]
                          \/ /\ task[t].status # "absent" /\ task'[t].status = "pending"
                             /\ node'[t] = "queued"
      BY <1>3, <2>1, StatusFields
    <2>3. RowsKept
      BY <1>2, <1>3, <2>2 DEF RowsKept, TypeOK, Statuses
    <2>4. SlotsKept
      BY <1>6, <1>9 DEF promote_due_retries
    <2> QED BY <1>4, <2>3, <2>4, PathParts
  <1> QED BY <1>5, <1>7, <1>8, <1>9

\* The reconciliation of a slot.
LEMMA ReconcileKeepsPath ==
    ASSUME PathInv, NEW s \in Slot, _reconcile_after(s)
    PROVE  PathShape'
  <1>1. /\ Finish(View, reconcile_run(View)) /\ GoTo(s, "idle")
        /\ UNCHANGED <<ttl, faults, choice, elapsed, actorVars>>
    BY DEF _reconcile_after
  <1>2. View \in Snapshots /\ ShowsPath(View.node, View.known)
    BY PathFacts
  <1>3. RowsKept
    BY <1>1, <1>2, ReconcileResult, FinishKeepsRows
  <1>4. SlotsKept
    BY <1>1, SlotLeaves, PathFacts DEF TypeOK
  <1> QED BY <1>1, <1>3, <1>4, ActorsIdle, PathParts

\* The run of a snapshot that is read again under the lock.
LEMMA SnapshotRun ==
    ASSUME NEW v \in Snapshots, NEW r \in WorkflowRunStatus
    PROVE  LET w == [v EXCEPT !.run = r]
           IN  w \in Snapshots /\ w.run = r /\ w.node = v.node /\ w.known = v.known
  BY DEF Snapshots

\* What start_run schedules in its second transaction.
LEMMA StartResult ==
    ASSUME NEW v \in Snapshots, ShowsPath(v.node, v.known)
    PROVE  Result(v, schedule_ready_nodes(Begin(v), v))
  <1>1. Draft(v, Begin(v))
    BY PromotedDraft
  <1> QED BY <1>1, ScheduledDraft, DraftResult

\* The operations that leave the nodes and the tasks alone.
LEMMA QuietKeepsPath ==
    ASSUME PathInv, NEW c \in Client,
           \/ pause_run(c) \/ start_run(c) \/ resume_run(c) \/ _lock_node_run(c)
           \/ second_begin(c) \/ abandon(c)
    PROVE  PathShape'
  <1> c \in Actor
    BY DEF Actor
  <1>1. /\ UNCHANGED <<node, task>> /\ QueueIdle
        /\ run' \in {run, "paused", "running"}
    BY DEF pause_run, start_run, resume_run, begin_running, _lock_node_run, second_begin, abandon
  <1>2. RowsKept
    <2>1. run' \in WorkflowRunStatus
      BY <1>1, PathFacts DEF TypeOK, WorkflowRunStatus
    <2> QED BY <1>1, <2>1, RowsIdle
  <1>3. SlotsKept
    BY <1>1, SlotsIdle DEF QueueIdle
  <1>4. /\ at = [at EXCEPT ![c] = at[c]] /\ call = [call EXCEPT ![c] = call[c]]
        /\ view = [view EXCEPT ![c] = view[c]] /\ call[c] \in Calls /\ NoCall \in Calls
        /\ view[c] \in Snapshots /\ ShowsPath(view[c].node, view[c].known)
    BY PathFacts DEF Calls, NoCall
  <1>5. View \in Snapshots /\ ShowsPath(View.node, View.known)
    BY PathFacts
  <1>6. UNCHANGED <<choice, elapsed>>
    BY <1>1 DEF QueueIdle
  <1>7. ActorsKept
    <2>1. CASE pause_run(c)
      BY <1>6, <2>1, ActorsIdle DEF pause_run
    <2>2. CASE start_run(c) \/ resume_run(c)
      <3>1. PICK op \in Op : call' = [call EXCEPT ![c] = [op |-> op, node |-> None]]
        BY <2>2 DEF start_run, resume_run, begin_running
      <3>2. [op |-> op, node |-> None] \in Calls
        BY DEF Calls
      <3>3. at' = [at EXCEPT ![c] = "committed"] /\ view' = [view EXCEPT ![c] = view[c]]
        BY <1>4, <2>2 DEF start_run, resume_run, begin_running
      <3> QED BY <1>4, <1>6, <3>1, <3>2, <3>3, ActorMoves DEF Places
    <2>3. CASE _lock_node_run(c)
      <3>1. PICK t \in Task : call' = [call EXCEPT ![c] = [op |-> "decide", node |-> t]]
        BY <2>3 DEF _lock_node_run
      <3>2. [op |-> "decide", node |-> t] \in Calls /\ [op |-> "decide", node |-> t].node \in Task
        BY <2>3 DEF Calls, _lock_node_run
      <3>3. at' = [at EXCEPT ![c] = "read"] /\ view' = [view EXCEPT ![c] = View]
        BY <2>3 DEF _lock_node_run
      <3> HIDE DEF View
      <3> QED BY <1>5, <1>6, <3>1, <3>2, <3>3, ActorMoves DEF Places
    <2>4. CASE second_begin(c)
      <3>1. /\ at' = [at EXCEPT ![c] = "snapshot"] /\ view' = [view EXCEPT ![c] = View]
            /\ call' = [call EXCEPT ![c] = call[c]]
        BY <1>4, <2>4 DEF second_begin
      <3> QED BY <1>4, <1>5, <1>6, <3>1, ActorMoves DEF Places
    <2>5. CASE abandon(c)
      <3>1. /\ at' = [at EXCEPT ![c] = "idle"] /\ view' = [view EXCEPT ![c] = NoView]
            /\ call' = [call EXCEPT ![c] = NoCall]
        BY <2>5 DEF abandon
      <3> QED BY <1>4, <1>6, <3>1, ActorMoves, NoViewShowsPath DEF Places
    <2> QED BY <2>1, <2>2, <2>3, <2>4, <2>5
  <1> QED BY <1>2, <1>3, <1>7, PathParts

\* cancel_run.
LEMMA CancelKeepsPath ==
    ASSUME PathInv, NEW c \in Client, cancel_run(c)
    PROVE  PathShape'
  <1>1. SlotsKept /\ ActorsKept
    BY SlotsIdle, ActorsIdle DEF cancel_run, QueueIdle
  <1>2. View \in Snapshots /\ ShowsPath(View.node, View.known)
    BY PathFacts
  <1>3. PICK m : Result(View, m) /\ Commit(View, m)
    BY CancelRunResult DEF cancel_run
  <1>4. RowsKept
    BY <1>2, <1>3, CommitKeepsRows
  <1> QED BY <1>1, <1>4, PathParts

\* A person decides: the node was WAITING in the snapshot, so it is on the path.
LEMMA DecideKeepsPath ==
    ASSUME PathInv, NEW c \in Client, decide(c)
    PROVE  PathShape'
  <1> c \in Actor
    BY DEF Actor
  <1> DEFINE t == call[c].node
  <1>1. SlotsKept
    BY SlotsIdle DEF decide, QueueIdle
  <1>2. t \in Task /\ t \in OnPath
    BY PathFacts DEF decide, _require_waiting, ShowsPath
  <1>3. PICK outcome \in {"completed", "failed"} : node' = [node EXCEPT ![t] = outcome]
    BY DEF decide
  <1>4. RowsKept
    <2>1. node' \in Statuses
      BY <1>3, PathFacts DEF Statuses, NodeRunStatus
    <2>2. node'[t] = outcome /\ \A x \in Task \ {t} : node'[x] = node[x]
      BY <1>2, <1>3, PathFacts DEF Statuses
    <2>3. UNCHANGED <<run, task>> /\ run \in WorkflowRunStatus /\ task \in [Task -> Row]
      BY PathFacts DEF decide, TypeOK
    <2>4. \A x \in Task : /\ task[x].status # "absent" => x \in OnPath
                          /\ node[x] \notin {"pending", "skipped", "cancelled"} => x \in OnPath
                          /\ node[x] = "skipped" => x \notin OnPath
                          /\ task[x].status = "absent" => task[x] = NoRow
      BY PathFacts DEF ShowsPath, Known
    <2> QED BY <1>2, <2>1, <2>2, <2>3, <2>4 DEF RowsKept
  <1>5. ActorsKept
    <2>1. /\ call' = [call EXCEPT ![c] = call[c]] /\ view' = [view EXCEPT ![c] = view[c]]
          /\ at' = [at EXCEPT ![c] = "committed"] /\ UNCHANGED <<choice, elapsed>>
      BY PathFacts DEF decide, QueueIdle
    <2> QED BY <2>1, PathFacts, ActorMoves DEF Places
  <1> QED BY <1>1, <1>4, <1>5, PathParts

\* The second transaction of start_run, resume_run and the decisions.
LEMMA SecondKeepsPath ==
    ASSUME PathInv, NEW c \in Client, second_commit(c)
    PROVE  PathShape'
  <1> c \in Actor
    BY DEF Actor
  <1>1. SlotsKept
    BY SlotsIdle DEF second_commit, QueueIdle
  <1>2. view[c] \in Snapshots /\ ShowsPath(view[c].node, view[c].known)
    BY PathFacts
  <1>3. RowsKept
    <2>1. CASE call[c].op = "start"
      <3>1. Finish(view[c], schedule_ready_nodes(Begin(view[c]), view[c]))
        BY <2>1 DEF second_commit
      <3> QED BY <1>2, <3>1, StartResult, FinishKeepsRows
    <2>2. CASE call[c].op # "start"
      <3>1. Finish(view[c], reconcile_run(view[c]))
        BY <2>2 DEF second_commit
      <3> QED BY <1>2, <3>1, ReconcileResult, FinishKeepsRows
    <2> QED BY <2>1, <2>2
  <1>4. ActorsKept
    <2>1. /\ at' = [at EXCEPT ![c] = "idle"] /\ call' = [call EXCEPT ![c] = NoCall]
          /\ view' = [view EXCEPT ![c] = NoView] /\ UNCHANGED <<choice, elapsed>>
      BY DEF second_commit, QueueIdle
    <2>2. NoCall \in Calls
      BY DEF NoCall, Calls
    <2> QED BY <2>1, <2>2, NoViewShowsPath, ActorMoves DEF Places
  <1> QED BY <1>1, <1>3, <1>4, PathParts

\* The recovery loop.
LEMMA RecoveryKeepsPath ==
    ASSUME PathInv, NEW a \in Recoverer,
           recovery_begin(a) \/ recovery_commit(a) \/ recovery_raises(a)
    PROVE  PathShape'
  <1> a \in Actor
    BY DEF Actor
  <1>1. SlotsKept /\ UNCHANGED <<choice, elapsed>>
    BY SlotsIdle DEF recovery_begin, recovery_commit, recovery_raises, QueueIdle
  <1>2. call' = [call EXCEPT ![a] = call[a]] /\ call[a] \in Calls
    BY PathFacts DEF recovery_begin, recovery_commit, recovery_raises
  <1>3. CASE recovery_begin(a)
    <2>1. RowsKept
      BY <1>3, RowsIdle, PathFacts DEF recovery_begin, TypeOK
    <2>2. /\ at' = [at EXCEPT ![a] = "snapshot"] /\ view' = [view EXCEPT ![a] = View]
          /\ View \in Snapshots /\ ShowsPath(View.node, View.known)
      BY <1>3, PathFacts DEF recovery_begin
    <2>3. ActorsKept
      BY <1>1, <1>2, <2>2, ActorMoves DEF Places
    <2> QED BY <1>1, <2>1, <2>3, PathParts
  <1>4. CASE recovery_commit(a)
    <2> DEFINE v == [view[a] EXCEPT !.run = run]
               m == reconcile_run(v)
    <2>1. v \in Snapshots /\ ShowsPath(v.node, v.known)
      BY PathFacts, SnapshotRun DEF TypeOK
    <2>2. Finish(v, m)
      BY <1>4 DEF recovery_commit
    <2> HIDE DEF v
    <2>3. RowsKept
      BY <2>1, <2>2, ReconcileResult, FinishKeepsRows
    <2>4. PICK x \in Places : x # "read" /\ at' = [at EXCEPT ![a] = x]
      BY <1>4 DEF recovery_commit, Places
    <2>5. view' = [view EXCEPT ![a] = NoView]
      BY <1>4 DEF recovery_commit
    <2>6. ActorsKept
      BY <1>1, <1>2, <2>4, <2>5, NoViewShowsPath, ActorMoves
    <2> QED BY <1>1, <2>3, <2>6, PathParts
  <1>5. CASE recovery_raises(a)
    <2>1. RowsKept
      BY <1>5, RowsIdle, PathFacts DEF recovery_raises, TypeOK
    <2>2. at' = [at EXCEPT ![a] = "dead"] /\ view' = [view EXCEPT ![a] = NoView]
      BY <1>5 DEF recovery_raises
    <2>3. ActorsKept
      BY <1>1, <1>2, <2>2, NoViewShowsPath, ActorMoves DEF Places
    <2> QED BY <1>1, <2>1, <2>3, PathParts
  <1> QED BY <1>3, <1>4, <1>5

\* The rows and every snapshot agree with the path after every step.
LEMMA NextKeepsPath == PathInv /\ [RuntimeNext]_runtimeVars => PathShape'
  <1> SUFFICES ASSUME PathInv, [RuntimeNext]_runtimeVars PROVE PathShape'
    OBVIOUS
  <1>1. CASE QueueStep
    <2>1. UNCHANGED <<choice, elapsed, actorVars>>
      BY <1>1 DEF QueueStep
    <2>2. ASSUME NEW s \in Slot, SlotStep(s) PROVE PathShape'
      BY <2>1, <2>2, SlotStepKeepsPath
    <2>3. ASSUME \/ \E s \in Slot : Abort(s)
                 \/ \E k \in Token : LeaseAges(k)
                 \/ recover_expired \/ promote_due_retries
          PROVE  PathShape'
      BY <2>1, <2>3, OtherStepKeepsPath
    <2> QED BY <1>1, <2>2, <2>3 DEF QueueStep
  <1>2. ASSUME NEW s \in Slot, _reconcile_after(s) PROVE PathShape'
    BY <1>2, ReconcileKeepsPath
  <1>3. ASSUME NEW c \in Client, ClientStep(c) PROVE PathShape'
    BY <1>3, QuietKeepsPath, CancelKeepsPath, DecideKeepsPath, SecondKeepsPath DEF ClientStep
  <1>4. ASSUME NEW a \in Recoverer,
               recovery_begin(a) \/ recovery_commit(a) \/ recovery_raises(a)
        PROVE  PathShape'
    BY <1>4, RecoveryKeepsPath
  <1>5. ASSUME NEW t \in Task, timer_elapses(t) PROVE PathShape'
    <2>1. RowsKept /\ SlotsKept
      BY <1>5, RowsIdle, SlotsIdle, PathFacts DEF timer_elapses, vars, slotVars, TypeOK
    <2>2. ActorsKept
      BY <1>5, PathFacts DEF timer_elapses, actorVars, ActorsKept
    <2> QED BY <2>1, <2>2, PathParts
  <1>6. CASE UNCHANGED runtimeVars
    <2>1. RowsKept /\ SlotsKept /\ ActorsKept
      BY <1>6, RowsIdle, SlotsIdle, ActorsIdle, PathFacts DEF runtimeVars, vars, slotVars, TypeOK
    <2> QED BY <2>1, PathParts
  <1> QED BY <1>1, <1>2, <1>3, <1>4, <1>5, <1>6 DEF RuntimeNext

-----------------------------------------------------------------------------
(* Every step keeps the fencing of the rows.  What a transaction decided on   *)
(* may be old; the rows it writes are the current ones.                      *)

\* A commit inserts tasks that do not exist and cancels tasks that are open.
LEMMA CommitWrites ==
    ASSUME PathInv, NEW v, NEW m, Result(v, m), Commit(v, m),
           \A t \in m.add : task[t].status = "absent"
    PROVE  OnlyAddsOrCancels
  <1> SUFFICES ASSUME NEW t \in Task, task'[t] # task[t]
               PROVE  \/ /\ task[t].status = "absent" /\ task'[t].status = "pending"
                         /\ task'[t].lease_token = task[t].lease_token
                         /\ task'[t].attempt = task[t].attempt
                      \/ /\ Open(task[t]) /\ task'[t].status = "cancelled"
                         /\ task'[t].lease_token = task[t].lease_token
                         /\ task'[t].locked_by = task[t].locked_by
                         /\ task'[t].attempt = task[t].attempt
    BY DEF OnlyAddsOrCancels
  <1>1. task[t] \in Row /\ (task[t].status = "absent" => task[t] = NoRow)
    BY PathFacts
  <1>2. CASE t \in m.add
    <2>1. task[t] = NoRow /\ task'[t] = [task[t] EXCEPT !.status = "pending"]
      BY <1>1, <1>2 DEF Commit
    <2> QED BY <1>1, <1>2, <2>1, StatusFields
  <1>3. CASE t \notin m.add
    <2>1. t \in m.drop /\ task'[t] = [task[t] EXCEPT !.status = "cancelled"]
      BY <1>3 DEF Commit
    <2>2. Open(task[t])
      BY <2>1 DEF Result
    <2> QED BY <1>1, <2>1, <2>2, StatusFields
  <1> QED BY <1>2, <1>3

\* The same, whether the transaction commits or is rolled back.
LEMMA FinishWrites ==
    ASSUME PathInv, NEW v, NEW m, ~ Raises(v, m) => Result(v, m), Finish(v, m)
    PROVE  OnlyAddsOrCancels
  <1>1. CASE Raises(v, m)
    BY <1>1 DEF Finish, OnlyAddsOrCancels
  <1>2. CASE ~ Raises(v, m)
    BY <1>2, CommitWrites DEF Finish, Raises
  <1> QED BY <1>1, <1>2

\* What the other writers do to the rows and the slots.
OtherWriter == OnlyAddsOrCancels /\ SlotsKeepOrLeave /\ UNCHANGED <<ttl, faults>>

\* The requests of the clients and the recovery loops.
LEMMA ActorWrites ==
    ASSUME PathInv,
           \/ \E c \in Client : ClientStep(c)
           \/ \E a \in Recoverer : recovery_begin(a) \/ recovery_commit(a) \/ recovery_raises(a)
    PROVE  OtherWriter
  <1>1. QueueIdle
    BY DEF ClientStep, start_run, pause_run, resume_run, begin_running, cancel_run,
           _lock_node_run, decide, second_begin, second_commit, abandon,
           recovery_begin, recovery_commit, recovery_raises
  <1>2. SlotsKeepOrLeave /\ UNCHANGED <<ttl, faults>>
    BY <1>1 DEF QueueIdle, slotVars, SlotsKeepOrLeave
  <1>3. CASE \/ \E c \in Client : \/ start_run(c) \/ pause_run(c) \/ resume_run(c) \/ _lock_node_run(c)
                                 \/ decide(c) \/ second_begin(c) \/ abandon(c)
             \/ \E a \in Recoverer : recovery_begin(a) \/ recovery_raises(a)
    <2>1. UNCHANGED task
      BY <1>3 DEF start_run, pause_run, resume_run, begin_running, _lock_node_run, decide,
                  second_begin, abandon, recovery_begin, recovery_raises
    <2> QED BY <1>2, <2>1 DEF OtherWriter, OnlyAddsOrCancels
  <1>4. ASSUME NEW c \in Client, cancel_run(c) PROVE OtherWriter
    <2>1. PICK m : Result(View, m) /\ m.add = {} /\ Commit(View, m)
      BY <1>4, CancelRunResult DEF cancel_run
    <2> QED BY <1>2, <2>1, CommitWrites DEF OtherWriter
  <1>5. ASSUME NEW c \in Client, second_commit(c) PROVE OtherWriter
    <2>1. c \in Actor /\ view[c] \in Snapshots /\ ShowsPath(view[c].node, view[c].known)
      BY PathFacts DEF Actor
    <2>2. PICK m : (~ Raises(view[c], m) => Result(view[c], m)) /\ Finish(view[c], m)
      BY <1>5, <2>1, StartResult, ReconcileResult DEF second_commit
    <2> QED BY <1>2, <2>2, FinishWrites DEF OtherWriter
  <1>6. ASSUME NEW a \in Recoverer, recovery_commit(a) PROVE OtherWriter
    <2> DEFINE v == [view[a] EXCEPT !.run = run]
    <2>1. v \in Snapshots /\ ShowsPath(v.node, v.known)
      BY PathFacts, SnapshotRun DEF Actor, TypeOK
    <2>2. Finish(v, reconcile_run(v))
      BY <1>6 DEF recovery_commit
    <2> HIDE DEF v
    <2> QED BY <1>2, <2>1, <2>2, ReconcileResult, FinishWrites DEF OtherWriter
  <1> QED BY <1>3, <1>4, <1>5, <1>6 DEF ClientStep

\* The reconciliation of a slot.
LEMMA SlotReconcileWrites ==
    ASSUME PathInv, NEW s \in Slot, _reconcile_after(s)
    PROVE  OtherWriter
  <1>1. /\ Finish(View, reconcile_run(View)) /\ GoTo(s, "idle") /\ pc[s] = "reconcile"
        /\ UNCHANGED <<ttl, faults>>
    BY DEF _reconcile_after
  <1>2. OnlyAddsOrCancels
    BY <1>1, PathFacts, ReconcileResult, FinishWrites
  <1>3. SlotsKeepOrLeave
    BY <1>1, PathFacts, ReconcileLeaves
  <1> QED BY <1>1, <1>2, <1>3 DEF OtherWriter

\* Every step of the composition is one of four, as far as the queue sees it.
LEMMA StepKinds ==
    ASSUME PathInv, [RuntimeNext]_runtimeVars
    PROVE  \/ \E s \in Slot : SlotStep(s)
           \/ \/ \E s \in Slot : Abort(s)
              \/ \E k \in Token : LeaseAges(k)
              \/ recover_expired \/ promote_due_retries
           \/ OtherWriter
           \/ UNCHANGED vars
  BY ActorWrites, SlotReconcileWrites DEF RuntimeNext, QueueStep, timer_elapses, runtimeVars

\* The fencing survives transactions that overtake each other.
LEMMA NextFences == PathInv /\ [RuntimeNext]_runtimeVars => Fencing'
  <1> SUFFICES ASSUME PathInv, [RuntimeNext]_runtimeVars PROVE Fencing'
    OBVIOUS
  <1>1. TypeOK /\ Fencing
    BY PathFacts
  <1>2. CASE \E s \in Slot : SlotStep(s)
    BY <1>1, <1>2, SlotStepFences
  <1>3. CASE \/ \E s \in Slot : Abort(s)
             \/ \E k \in Token : LeaseAges(k)
             \/ recover_expired \/ promote_due_retries
    BY <1>1, <1>3, OtherStepFences
  <1>4. CASE OtherWriter
    BY <1>1, <1>4, WriterFences DEF OtherWriter
  <1>5. CASE UNCHANGED vars
    BY <1>1, <1>5, StutterFences
  <1> QED BY <1>2, <1>3, <1>4, <1>5, StepKinds

\* A run that was just created has no tasks and no snapshots.
LEMMA PathInit == RuntimeInit => PathInv
  <1> SUFFICES ASSUME RuntimeInit PROVE PathInv
    OBVIOUS
  <1>1. IInv /\ \A t \in Task : node[t] = "pending" /\ task[t] = NoRow
    BY InitInv DEF RuntimeInit, Init
  <1>2. RuntimeTypeOK
    BY <1>1 DEF IInv, RuntimeInit, RuntimeTypeOK, NoCall, NoView, WorkflowRunStatus, NodeRunStatus
  <1>3. WorkIsKnown
    BY <1>1 DEF RuntimeInit, Init, WorkIsKnown
  <1>4. PathKept
    BY <1>1, NoViewShowsPath, EmptyFields DEF RuntimeInit, PathKept, ShowsPath, Known
  <1> QED BY <1>1, <1>2, <1>3, <1>4 DEF PathInv, IInv, QueueInv

\* Whatever branches a run takes and however old the snapshots are that the
\* scheduler, the API and the recovery loops decide on: a task is inserted only
\* for a node that the conditions select, and no node they select is skipped.
THEOREM PathsKept == RuntimeSpec => []PathInv
  <1>1. PathInv /\ [RuntimeNext]_runtimeVars => PathInv'
    BY NextKeepsPath, NextFences DEF PathInv, PathShape
  <1> QED BY <1>1, PathInit, PTL DEF RuntimeSpec

\* Under the scheduler and the API as they are, requests that overtake each other
\* included: a slot whose lease is good reports the attempt that the row counts.
THEOREM OwnersStayCurrent == RuntimeSpec => []OwnerIsCurrent
  <1>1. PathInv => OwnerIsCurrent
    BY PathFacts, FencingTells
  <1> QED BY <1>1, PathsKept, PTL

\* ... two executions of one task never carry the same attempt number ...
THEOREM AttemptsStayDistinct == RuntimeSpec => []AttemptsDistinct
  <1>1. PathInv => AttemptsDistinct
    BY PathFacts, FencingTells
  <1> QED BY <1>1, PathsKept, PTL

\* ... nothing but lost leases takes a task beyond max_attempts, not even a task
\* that was cancelled and that a slot starts from the row it read before ...
THEOREM BudgetStaysKept == RuntimeSpec => []AttemptBudget
  <1>1. PathInv => AttemptBudget
    BY PathFacts, FencingTells
  <1> QED BY <1>1, PathsKept, PTL

\* ... and a result is written only by the slot with the row's unexpired lease.
THEOREM ResultsStayFenced == RuntimeSpec => PublishFenced
  <1>1. ASSUME PathInv, [RuntimeNext]_runtimeVars, NEW t \in Task, Published(t)
        PROVE  \E s \in Slot : PublishedBy(s, t)
    <2>1. TypeOK /\ Fencing
      BY <1>1, PathFacts
    <2>2. CASE \E s \in Slot : SlotStep(s)
      BY <1>1, <2>1, <2>2, SlotStepFenced
    <2>3. CASE UNCHANGED vars
      BY <1>1, <2>3 DEF vars, Published
    <2>4. CASE \/ \E s \in Slot : Abort(s)
               \/ \E k \in Token : LeaseAges(k)
               \/ recover_expired \/ promote_due_retries
               \/ OtherWriter
      BY <1>1, <2>1, <2>4, OthersPublishNothing DEF OtherWriter
    <2> QED BY <1>1, <2>2, <2>3, <2>4, StepKinds
  <1>2. PathInv /\ [RuntimeNext]_runtimeVars =>
           [\A t \in Task : Published(t) => \E s \in Slot : PublishedBy(s, t)]_vars
    BY <1>1
  <1> QED BY <1>2, PathsKept, PTL DEF RuntimeSpec, PublishFenced, PublishedBy

=============================================================================
