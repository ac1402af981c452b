# Relayvia: TLA+ specifications

Relayvia runs workflow graphs (input, condition, agent, service, coding, human
and timer nodes) on a MySQL-backed queue with Python Workers. This directory
holds TLA+ modules of its runtime, the TLC configurations that check them on
small instances, and TLAPS proofs. Paths below are relative to
`src/backend/app/` unless they begin with `src/`.

## 1. Inventory

| Component | State it keeps | Operations | What makes it correct |
|---|---|---|---|
| State machines (`runtime/state_machine`, `domain/execution/state_machine.py`) | none: three enumerations and their transition tables | `transition_*`, `is_*_terminal` | every status change goes through a table; terminal statuses have no exit |
| Execution queue (`infrastructure/execution_backend/mysql.py`) | `execution_tasks`: status, `locked_by`, `lease_token`, `lease_expires_at`, `attempt`, `max_attempts`, `available_at` | claim, start, complete, fail, wait_node, schedule_retry, renew_lease, recover_expired, promote_due_retries | a result is written only by the current lease; task and node rows agree; retries respect the budget |
| Server Worker (`workers/workflow_worker.py`) | slots in memory: the `ClaimedTask` being executed, a renewal task | poll, claim, start, resolve, execute, report, reconcile; recovery at an interval | no task is lost when it dies at any line; late reports do nothing |
| Scheduler (`runtime/scheduler`) | none of its own: `workflow_runs.status`, `node_runs.status`, new task rows | reconcile_run, schedule_ready_nodes, promote_due_waits, cancel_run_tasks | exactly the selected path runs, joins wait, the run status follows the nodes, fail-fast |
| Recovery (`runtime/recovery`) | none | recover_expired, promote_due_retries, reconcile every active run | repairs what a crash left; harmless when there is nothing to repair |
| Run and human-node API (`domain/runs/service.py`) | the run and node rows | create, start, pause, resume, cancel, approve, reject, submit | legal from any interleaving with Workers and other requests; terminal is terminal; a node is decided once |
| Sessions (`infrastructure/database`) | identity map, REPEATABLE READ snapshot, autoflush off | commit, rollback, retry of deadlock victims | the row that is checked is the row that is written |
| Runner protocol (`domain/runners/service.py`) and Runner process (`runners/runner.py`) | `runners` rows, lease fields of Runner tasks; the Runner's monitor and submission loop | register, rotate, revoke, claim, heartbeat, submit, retry | a Runner that lost its lease cannot publish; a repeated submission is answered, not applied twice |
| Workspaces (`domain/workspaces`) | `workspaces.status` | create, finalize, release, claim and complete cleanup | one cleanup at a time decides; nothing stays IN_USE for ever |
| Run events and SSE (`domain/runs/events.py`, `api/routes/trace.py`) | append-only `run_events`; a cursor per stream | append, list, stream | every event is delivered once and in order |
| Artifacts (`domain/artifacts`, `infrastructure/artifact_storage`) | `artifacts` rows, bytes in storage | reserve, upload, validate, finalize, fail | a READY row has bytes; bytes without a row are removed |
| Graph and validation (`domain/workflows`, `runtime/validation`) | workflow definitions, drafts, versions | edit, validate, publish | only graphs the scheduler can finish are published |
| Context resolver, executor, connectors (`runtime/context`, `runtime/executor`, `connectors`) | none | resolve references, call HTTP or an agent, evaluate a condition | references resolve only to completed predecessors |
| Registries (`domain/agents`, `domain/services`, `domain/credentials`) | agents, services, actions, credentials | create, update, delete | names are unique, nothing in use is deleted, a run starts only with a registry it can execute |
| API plumbing, `src/frontend` | none of the runtime | request handling, display | - |

How they interact: everything meets in the database. A request or a Worker
opens a transaction, locks the run, then its tasks and nodes, changes them and
commits. Runners talk to the API over HTTP, with requests and answers that can be
lost; browsers follow a run over an SSE stream. What makes this hard is

* **two transactions per operation**: start, resume and the three decisions
  commit the change first and reconcile in a second transaction, and so does a
  Worker slot after a report; the process may die in between;
* **reads before locks**: a `SELECT ... FOR UPDATE` returns the object that is
  already in the identity map, so a value read before the lock survives it, and
  the plain SELECTs of one transaction all show the snapshot of the first;
* **leases**: a slot that stalls loses its lease while it still executes, and
  its successor may belong to the same Worker process and have the same worker id;
* **recovery** runs in every Worker, concurrently with everything else, from a
  snapshot that may be old when it gets the lock;
* **two stores**: artifact bytes and worktrees live outside the database, so a
  row and what it describes are changed in separate steps;
* **ids before commits**: an event's id is drawn at its insert and the event is
  visible at its commit, in another order;
* **validation far from execution**: a graph is judged when it is published, with
  rules that are separate from the code that later schedules and executes it.

The hazards that follow from this are listed, each at its line, in
`PROJECT.json`.

## 2. Modules

```
RuntimeStates                      status sets and transition tables
   |
ExecutionQueue ------------------> LeasedWork           (implements)
   |        \
   |         ExecutionQueueProofs                       (theorems)
   |           LeasedWorkProofs                         (theorem: the refinement)
   |         MCExecutionQueue
WorkflowRuntime -----------------> ExecutionQueue!Spec  (implements)
   |        \
   |         WorkflowRuntimeProofs                      (theorems; uses ExecutionQueueProofs)
MCWorkflowRuntime

RuntimeStates <- RunnerProtocol -> LeasedWork           (implements)
                   \
                    RunnerProtocolProofs                (theorems)
ArtifactStore                      uploads, storage, references
   \
    ArtifactStoreProofs            (theorems)
RunTrace                           events, row locks, deadlocks, the stream
   \
    RunTraceProofs                 (theorems)
ControlPlane                       registries, workflows, versions, run creation
   \
    ControlPlaneProofs             (theorems)
GraphRules <- GraphRun             validation; execution of what it accepts
                 \
                  GraphRunProofs   (theorems)
```

Each component module has an MC module of the same name that fixes its instance.

**RuntimeStates** holds the enumerations and tables of the two state-machine
files; a `transition_x(from, to)` is TRUE when the code's function returns and
FALSE when it raises.

**ExecutionQueue** models one run's task rows with the status of their nodes
and of the run. UNIQUE(node_run_id) lets a task name its node.

| Variable | Code |
|---|---|
| `run`, `node`, `task` | `workflow_runs.status`, `node_runs.status`, the `execution_tasks` row |
| `ttl` | time left until `lease_expires_at`, per token; only its sign is read |
| `pc`, `job` | where a slot is in `claim` and `_process_task`, and its `ClaimedTask` |
| `seen`, `seenNode` | the objects `start` loaded before it locked the row |
| `faults` | bound on slot deaths and on leases lost under a live slot |

A transaction is one step, with two exceptions: the candidate lookup of `claim`
and the `db.get` of `start` take no lock and are steps of their own
(`ClaimLookup`, `StartRead`). `start` then works on the object it loaded:
`owns(seen[s], s)`, the attempt and the transitions are computed from `seen`,
while the update touches the row as it is now. Reports (`complete`, `fail`,
`wait_node`, `schedule_retry`) lock first and see the current row. What an
executor returns is a free choice among the reports. `LeaseAges` is time passing
for one lease; losing a lease under a slot that is alive is a counted fault,
the expiry of an abandoned lease is not. Tokens are uuid4 values: a claim takes
one that occurs in no row and no slot. Which slots share a worker id is a
parameter; the instances give all slots one id, the case in which only the
token tells executions apart.

`SchedulerEffect` is the contract with the other writers: a transaction of the
scheduler or of the API submits unscheduled nodes of an active run, skips them,
decides parked nodes of an active run, cancels open work when the run fails or is
cancelled, and moves the run along its table. It is as loose as the queue can
bear; WorkflowRuntime is checked to stay within it (`ImplementsQueue`).

**LeasedWork** is the promise of the queue without workers or clocks: an item is
offered once, held by one lease at a time, may be revoked and granted again, and
gets its outcome once, in the step in which it leaves the queue, and from its
holder unless it is skipped or cancelled. The refinement mapping reads phase and holder off the task row and the
outcome off the node row, so that it also says the two rows change together.

**WorkflowRuntime** replaces `SchedulerEffect` by the transactions themselves.
The scheduler's functions (`find_ready_nodes`, `_edge_is_active`,
`mark_unreachable_condition_nodes`, `derive_workflow_state`,
`schedule_ready_nodes`, `promote_due_waits`, `cancel_run_tasks`,
`reconcile_run`) are operators on a transaction in memory: the run and node
statuses as changed so far, the tasks to insert and the tasks to cancel.
`Commit` writes the columns that differ from the loaded object, `Raises` is an
illegal transition or a duplicate `node_run_id`, and `Finish` commits or rolls
back. The fixed-point loop that skips unreachable nodes is stated as the least
set it computes. Actors are clients, recovery loops and slots:

| Action | Code |
|---|---|
| `pause_run`, `cancel_run` | one transaction that locks first |
| `start_run`, `resume_run`, `decide` | first transaction; `decide` checks the node that `_lock_node_run` loaded before its lock |
| `second_begin`, `second_commit` | the second transaction: reload of the expired run (this fixes the snapshot), then lock and reconcile (`start_run`: schedule) |
| `abandon` | a refused request, or the API process dies |
| `recovery_begin`, `recovery_commit` | SELECT of the active runs, then lock and reconcile; an exception ends the Worker |
| `recovery_raises` | any other exception of `run_execution_recovery`, which `run_worker` awaits outside a `try`: the Worker ends |
| `_reconcile_after` | a slot's reconciliation, whose first read takes the lock |
| `timer_elapses` | `resume_at` passes |

Abstracted: outputs and error payloads, event rows (they only append), priority
and `available_at` (any pending task may be claimed, any retry may be due), the
graph's node configuration. A condition's outcome is fixed at the start by
`choice`, read only once the condition has completed.

**RunnerProtocol** models a task that a Runner executes in a git worktree, from
both sides: `domain/runners/service.py` and `domain/workspaces/service.py` with
their routes, and `runners/runner.py`.

| Variable | Code |
|---|---|
| `run`, `node`, `task`, `ws`, `reg` | the rows of the run, its node, its task, its workspace and the Runners |
| `disk` | the Runners that have the worktree on disk |
| `slot` | `_run_claimed_task`: where a slot is, its token, attempt, cancel flag, result and submission tries |
| `hb`, `beat`, `rel` | what a task heartbeat, a Runner heartbeat and a release request read before their commit |
| `cl` | the cleanup the main loop is busy with |

A request whose handler reads before it locks is two actions (`claim_read` and
`runner_claim`, `heartbeat_task_read` and `runner_task_heartbeat`,
`heartbeat_read` and `heartbeat_runner`, `release_read` and `release_workspace`),
and what it read stays in its variable, as in the session. A request or an answer
that is lost is an action of its own (`claim_lost`, `submit_lost`); the Runner's
three submission attempts are `TryAgain`. `upload_fails` ends a slot whose patch
cannot be stored, `RunnerDies` forgets every slot and keeps the disk. The
scheduler and the recovery loop appear only as far as they touch these rows.

**ArtifactStore** models the three transactions of a Runner's upload (reserve,
content, finalise or fail), the write to storage between them, and a Worker that
registers the artifacts of a result and commits before it reports. `bytes` is the
content in storage (none, partial, full), `row` the artifact's status, `req` the
content request inside the API process, `worker` the candidates still to register
and what was flushed, `refs` the artifacts a node's output names, `stuck` the
objects whose deletion the storage refused. The handler of the content endpoint also
covers the finalisation: `finalize_raises` is its commit or the refresh after it
failing, and `revoked` records the uploads in the second case, whose object is
deleted although their row was committed as ready. Faults (counted) are storage
errors, an exception of the finalisation, a dead API process, a dead Worker and a
lost lease. `session_close` is what
SQLAlchemy does when a `with session_factory()` block is left by an exception.

**RunTrace** models the transactions that append to `run_events` by the row locks
they take: a queue operation locks its task, inserts (which draws the id) and then
waits, for the foreign key, for a shared lock on the run; an operation on the run
locks the run, then tasks, then inserts. The second transaction of an API request
(`EarlyReader`) has loaded the run before it locks it (`load_run`): it checks the
object it loaded, works on a run that has ended meanwhile, and may write an active
status over the end. Recovery selects only ids and loads each run under its lock.
`Deadlocked` is a cycle of waits, and any
of its members may be the victim; `retry_mysql_transaction` runs it again up to
its limit, with its session rolled back. The stream polls pages behind its cursor,
emits, returns when the run has ended and the page is empty, may be disconnected
and resumes from Last-Event-ID.

**ControlPlane** models the tables of agents, services, actions, credentials, the
workflow with its versions, and runs, as one record `db`, and every operation on
them as two steps: the first SELECT, which fixes what the request sees and on
which it checks, and the commit, which writes the changed columns over what the
tables hold by then and which unique keys and foreign keys may refuse. A graph is
the set of rows it names and whether the other rules accept it. `create_version`
locks the workflow row.

**GraphRules** is `runtime/validation`: the graph index with its searches and
Kahn's algorithm, and the identity, topology, node, context and schema rules, each
as the set of issue codes it reports. All loops of the code that go on while they
find something new (the three searches, Kahn's queue, the search of the pairing rule,
the scheduler's marking of unreachable nodes) are one operator, `Saturate`, given
what a round finds; a round takes everything that is new at once, where the code
takes one node, which does not change the result. The expression of a condition is a table
of its clauses in document order, each with the numbers of its own clauses, so that
its evaluation is a recursive function on the table. **GraphRun** takes every graph of the
instance through validation (`reject`, or `create_run`) and executes it: the
scheduler's functions on real graphs and outputs, resolution of references,
evaluation of conditions with Python's comparison rules, input and output schemas,
retry settings, the payload a Runner is given, and the answers of calls. Where the
code checks a value it is chosen from its schema (`Answers`), where nobody checks it
may be of any type (`Unchecked`): the output of a coding Agent, the input of a run
whose schema is not of type object, the default of a variable. `sanitize_output`
redacts a field with a sensitive name and may replace a whole output by a note that it was
too large (32000 bytes, where a response may have 1 MB). A reference has one segment
that validation looks at and, below it, others that only the resolver follows
(`member`). Values are typed pairs, so that a boolean, a number, a string, an empty
string, a list and null are told apart as the code does. Of a JSON Schema, `type`,
`required`, `additionalProperties` and the types of the properties are modelled.
`GraphsAreDocuments` says of the graphs only that their lists are lists, hence
finite, and that an expression is a tree.

## 3. Runs

| Run | Instance | Checks |
|---|---|---|
| `queue_leases` | a task with 2 attempts and one that parks, 2 slots of one Worker, 2 faults, 3 tokens | `IInv`, `OwnerIsCurrent`, `AttemptsDistinct`, `AttemptBudget`, `PublishFenced`, `TerminalStable`, `ImplementsLeasedWork` |
| `runtime_requests` | condition with an approval branch and a join; one request at a time, all operations; 1 slot, 1 fault | `RuntimeInv`, `ImplementsQueue`, `RunTerminalStable` |
| `runtime_branches` | condition and parallel branch with a join; 2 slots, a recovery loop with stale snapshots | `OnlySelectedRun`, `CompletedRunIsExact` |
| `runtime_liveness` | timer, then an ordinary node with 2 attempts; start, pause, resume, 1 slot, 1 fault, 2 tokens, a recovery loop that may end; fair | `PausedIsFrozen`, `RunProgresses`, `TimersFire`, `LeasesEnd`, `PendingIsClaimed` |
| `runner_protocol` | one Runner with 2 slots, a worktree node with 2 attempts, 3 tokens, 1 fault, 1 operator request; fair | `OwnerHasLastAttempt`, `ProtocolInv`, `ResultFenced`, `RunnerImplementsLeasedWork`, `RunnerLeasesEnd`, `CleanupEnds` |
| `artifact_upload` | 3 artifacts, 2 attempts of a Runner's task beside a Worker's result, 2 faults, a finalisation that raises among them; fair | `ArtifactInv`, `ReferencedIsReadable`, `UploadSettles` |
| `run_trace` | a queue operation, a reconciliation, a resumption on a run loaded early, a cancellation that touches the task; pages of one event, 1 disconnection; fair | `RecordedOnce`, `TraceInv`, `OperationsEnd`, `StreamEnds` |
| `control_plane` | 2 agents, a service with an action, a credential, one name, three graphs; 2 concurrent requests, 4 in all | `ControlInv`, `RunIsExecutable`, `VersionIsDraft` |
| `graph_run` | nine families of graphs, legal and not, of up to five nodes (two of six and eight), every input and answer of the value domain; fair | `ReachabilityExact`, `CompletedHasOutput`, `RefsSettled`, `OutputAfterMerge`, `GraphInv`, `MappedInputFits`, `RunEnds` |

The `...Inv` invariants are conjunctions of named parts, with the module's type
invariant first. `IInv` is `Fencing`, which speaks of rows, leases and slots only, and
`Agreement`, which relates them to the nodes and the run; `PathInv` is `Fencing` with
`PathKept` (a task only on the selected path, no node of it skipped) and `WorkIsKnown`,
and `RuntimeInv` adds `RunGovernsNodes` and `EndedRunSettled`; `ProtocolInv` has
`CleanupAfterResult`; `ArtifactInv` `ReadyHasContent`, `AnsweredIsReady` and
`FailedHasNoContent`; `TraceInv` `InOrderOnce`, `RunEventsNotSkipped` and
`EndsWithLastStatus`; `ControlInv` `NamesUnique`, `CredentialsKept`,
`VersionsKeepWorkflow` and `CurrentIsLatest`; all of these with the parts that make
them inductive (section 4); `GraphInv` `ScheduleInv`, `OneBranchSelected` and
`ConditionEvaluates`.

Some properties state what is true with an exception that the code has, and name it:

* `RunProgresses`, `TimersFire` and `LeasesEnd` hold until the last Worker was ended by
  an exception in recovery (`NoRecovery`), `PendingIsClaimed` until one was
  (`EveryLoopRuns`): the property does not say which Worker's slots a task needs.
* `ReadyHasContent` and `ReferencedIsReadable` leave out the uploads that are
  `revoked`: the finalisation committed and raised then. `AnsweredIsReady` says that
  no upload a Runner was told of is among them.
* `EndsWithLastStatus` is about the events up to the first one that a transaction
  with a stale run committed after the end (`Overtaken`): the stream may return
  before those.
* `MappedInputFits` lists when a resolved input may miss its schema although
  validation did not warn: the schema of the capability is not of type object and so
  was not looked at; the type of a source could not be told; or the source is not
  `Reliable`, because the type that validation went by is one that nothing in the code
  enforces (the output of a coding Agent; a path below its first segment; a variable
  whose default has another type; an input without an enforced schema; a field that is
  redacted, or lost when the output is truncated).
* `RunEnds` names the one way to stand still (`Stalled`): a ready node of a Runner is
  passed over at every reconciliation, because a reference of it has no value or, for a
  tool, because its command resolves to a value that is blank or no string. Other nodes may be parked
  beside it, and the run stays RUNNING.

`OutputAfterMerge` says of the pairing rule of parallel and merge nodes what is true
of it. The obvious reading, that no Output below a Parallel is produced before one of
its Merges was executed, is false: with two Merges that the conditions choose between
and an Output that the Data Input also feeds past the Parallel, the edge from the
Merge that is cut off becomes inactive and the Output completes while the other
Merge is still waiting. The family `Detours` is this graph, with and without the
detour. What holds is that an Output fed through the Parallel only comes after a
Merge, and that a run completes only with one of the Merges executed.

What they show. The Server Worker and the Runner keep one promise, `LeasedWork`,
though the Runner's protocol has a different shape: it starts at the claim, renews
without looking at the expiry, and repeats submissions whose answer was lost.
`RunnerLeasesEnd` holds although a late heartbeat revives an expired lease, because
a slot's command has a timeout. `OperationsEnd` holds although queue operations and
cancellations lock in opposite orders, because a victim gives up its locks before
it tries again. `RunEventsNotSkipped` is what remains of completeness for the stream
(finding `stream_complete`): the events of operations on the run are safe behind
the run's lock, those of queue operations are not; `EndsWithLastStatus` says that a
stream that returned has delivered all of the former that it could have. `RunIsExecutable` holds although
reference checks of deletions and checks of agent configurations race with other
requests, because `create_run` checks again. `RunEnds` says that what the validator
accepts ends, waits, or is stuck in the one way above; that a reference is legal
although its node may be skipped is among the causes.

Bounds and why they suffice. Fencing needs an abandoned execution beside its
successor: two slots and one lost lease; the second fault lets the successor be
lost as well. Two attempts separate "retry" from "exhausted"; the runtime runs,
whose graphs are larger, give most nodes one. In `queue_leases` two slots and two
rows can keep all three tokens busy, which delays a claim and nothing else; in
`runtime_liveness` the one slot always finds a fresh token, or a pending task
would be seen to starve. The queue invariants
are proved for all values of these constants (section 4). The graphs of the runtime
runs contain each case of the scheduler: both branches of a condition, a skipped
node, a node reached both directly from a condition and through a branch, a join, a
parked branch beside a running one, a timer. One worktree is enough for
`runner_protocol`, since a workspace belongs to one node; one operator request lets
each of disable, rotate, revoke, cancel, pause and release meet every step of a
slot. A deadlock needs two transactions; a second queue operation only adds a second
cycle of the same kind and is left to `stream_complete`; pages of one event make every
page boundary happen. One early reader overtakes the cancellation or is overtaken. Two requests are every race of
a check with a write, and four in all let a workflow be created, published and run
against the result of a race. `graph_run` takes all digraphs on four nodes with up
to five edges, and all forward graphs on five nodes for each assignment of node
kinds; conditions, references, mappings, sources whose type nothing enforces, commands
beside a parked node and configurations vary in families of their own on a fixed shape (its safety properties are proved for all graphs). Symmetry (tokens, slots, clients) is used in safety runs
only. `CHECK_DEADLOCK FALSE` is right: a run that has ended is meant to stop, and
requests are bounded.

Fairness. A slot that is alive makes progress (connector calls and commands have
timeouts, the steps around them are database calls) and idle slots poll; an
abandoned lease runs out, since `lease_expires_at` is an absolute time; every Worker
calls `run_execution_recovery` at a fixed interval, which gives weak fairness to
`recover_expired` and `promote_due_retries` as long as a recovery loop is alive
(`~ NoRecovery`), to the turns of each loop, and to the claims of slots as long as no
Worker was ended (`EveryLoopRuns`), since the loop that recovers is the one that claims;
timers elapse. A
Runner's main loop heartbeats, polls and cleans up. An accepted content request is
run to its end by the event loop; lock waits are served and InnoDB resolves
deadlocks; the stream's generator polls and an EventSource reconnects. The lease of
a live slot, the clients, the operators and the persons who decide get no fairness.
Weak fairness is enough because each of these steps stays enabled until it is taken,
or the property's right-hand side holds. The fairness of the recovery turn and of a
slot's reconciliation is stated on the control variable they alone change.
The liveness properties of the queue are stated in WorkflowRuntime, where the loops
are, with the same conditions. `UploadSettles` starts when the bounded
faults are used up, `CleanupEnds` leaves out a Runner that may no longer talk to
the control plane.

### Findings

Each is a run that TLC refutes; `PROJECT.json` quotes the document or comment.

* `run_terminal`: a cancellation that commits between the reload and the lock of a
  request's second transaction is overwritten by the derived status. The same
  window lets the second transaction of `start_run` submit tasks into a run that
  was paused meanwhile (`PausedIsFrozen` with two clients).
* `stream_complete`: an event whose transaction commits after a larger id has been
  streamed is never delivered, and the stream ends as complete.
* `rollback_compensated`: the bytes of a first candidate stay in storage when the
  registration of a second one raises, because the compensation waits for a
  rollback event and the session is closed instead.

Departures that the models exhibit and no run asserts:

* a node parked in WAITING has a COMPLETED task, so `cancel_run_tasks` passes it by
  and it stays WAITING in a FAILED run; and a task submitted in the transaction
  that fails the run is invisible to its cancellation and stays PENDING;
* beyond the instances of the runtime runs, a transaction that was overtaken
  between its first read and its lock writes what the queue does not expect: the
  second transaction of `resume_run` cancels a node that a slot's reconciliation has
  skipped meanwhile (two slots), and a reconciliation that saw RUNNING completes a
  run that is WAITING by then, or cancels a node that has completed (a timer, two
  recovery loops). This is why only part of what the runtime runs check is proved
  (section 4);
* an exception in recovery, which is awaited outside any `try`, ends a Worker, and one
  run that always raises ends every Worker in turn;
* a finalisation whose refresh raises after its commit deletes the object of a ready
  row, which a Worker's result may name by then, and marks it failed;
* an event of a transaction that works on a stale run is inserted after the end of the
  run, and a stream may have returned before it;
* a run is stuck in RUNNING when the config of a tool has a reference without a value or
  a command without text, or the input of any Runner's node has such a reference
  (`Stalled`); a coding Agent whose config does not resolve, or whose task has no text,
  is queued for a Worker instead, which fails it as unsupported;
* types that validation relies on are not enforced: the output schema of a coding
  Agent, the default of a variable, what lies below the first segment of a path, a
  schema without `"type": "object"`; and redaction or truncation of an output can
  remove what its schema promised;
* two concurrent decisions on one node are both applied, because the status is
  checked on the object loaded before the row lock;
* recovery from an overtaken snapshot can hit UNIQUE(node_run_id), which ends its
  Worker, or put a run whose nodes have ended back to WAITING, which it cannot leave;
* a Runner heartbeat that read its row before an operator disabled the Runner
  writes ONLINE over it;
* a claim moves the node by the status it read before the lock: with three or more
  attempts the node can stay QUEUED under a RUNNING task until the next result;
* a task that is cancelled before its Runner reports leaves its workspace IN_USE or
  CREATING, which `release_workspace` refuses; and a slot that learns of its
  cancellation late discards the worktree although a successor of the same Runner
  works in it;
* an error of the claim request ends the Runner's main loop;
* `cycle_nodes` also returns what lies downstream of a cycle, where its docstring
  says the nodes that take part in one; `has_cycle`, which is what the rules use, is
  exact;
* `build_validation_context` leaves out the path and query schemas of actions that
  `_registry_context` includes, so publication and run creation validate against
  different contexts.

## 4. Proofs

`ExecutionQueueProofs` proves, for every set of tasks, slots, workers and tokens,
every `MaxAttempts`, lease length and number of faults satisfying
`QueueAssumption`:

| Theorem | Statement |
|---|---|
| `Inductive` | `Spec => []IInv`, `IInv == TypeOK /\ QueueInv`, `QueueInv == Fencing /\ Agreement` |
| `TypeCorrect`, `QueueInvariant`, `TasksAgreeWithNodes`, `OwnersAreCurrent`, `AttemptNumbersDistinct`, `BudgetKept` | the parts of `IInv` and what follows from it |
| `ResultsFenced` | `Spec => PublishFenced` |
| `TerminalsStable` | `Spec => TerminalStable` |

None of the safety properties is inductive alone, and neither is `TypeOK`: that a
slot writes a row of `Task` needs `SlotShape`, which says where a slot knows a
task. `QueueInv` has two parts. `Fencing` speaks of the task rows, the leases and the
slots, and no step needs more than it and the types to keep it, whatever happens to
nodes and run: this is what lets `WorkflowRuntimeProofs` use it. `Agreement` adds the
nodes and the run. The conjuncts depend on each other as follows.

* `LeaseShape` and `TokensUnique` make the token identify one slot and one row, so
  that `owns` names *the* holder although all slots may share a worker id.
* `RowFollowsSlot` then says in which status and attempt a holder finds its row;
  `OwnerIsCurrent` follows, and with it fencing.
* `Snapshot` carries this over the gap between `start`'s read and its lock, and
  `NodeSnapshot` does so for the node: what the slot saw is still its status if the row
  is still claimed by it. That is why the stale object of `start` is harmless here,
  while the stale objects of the API are not.
* `RunGovernsTasks` excludes a cancelled task in a run that can still start tasks.
* `TaskNodeAgreement` is needed for the transitions of reports to be legal.
* `AttemptOrder` gives `AttemptsDistinct`: an abandoned execution's attempt stays
  below the row's.
* `Paid` is the budget with its accounting: an attempt beyond `max_attempts` has
  a lost lease of its own, counted before the task can start again. `ClaimsPaid` says
  the same of the attempt a slot is about to start, which matters when it starts a row
  that was cancelled after it read it.

The proof has one lemma per action for `Fencing` (`...Fences`) and one for `Agreement`
(`...Agrees`); the scheduler's contract is one lemma for all its transactions.

`LeasedWorkProofs` proves `QueueImplementsLeasedWork`: `Spec => ImplementsLeasedWork`,
from the same assumption. It has two halves. Every step of the queue has, on each
task, one of ten effects on its two rows (inserted, granted, started, given back,
reported, promoted, cancelled, passed over, decided, or none), which needs `IInv`
because a slot writes from what it read earlier: without `OwnedSnapshot`, `start`
could take a row that has another holder. And each effect is an abstract step, which
needs `TaskNodeAgreement` before and after the step, since the outcome is read off
the node and the phase off the task.

`ArtifactStoreProofs` proves, for every number of artifacts, attempts and faults and
every set of candidate lists satisfying `ArtifactAssumption`:

| Theorem | Statement |
|---|---|
| `RowsAgreeWithStorage` | `Spec => []ArtifactInv` |
| `ReferencesReadable` | `Spec => []ReferencedIsReadable` |

Both leave out the uploads that are `revoked`, and `ArtifactInv` says with
`AnsweredIsReady` that no answered upload is one. That a ready row has its content is
not inductive: finalising trusts what the
content request saved some transactions earlier. `RequestsFit` says how far the
content has come at each point of a request and that its row is still staging, or is
ready and being undone;
`SlotsApart` that no other attempt works on the same id, and that nothing has been
sent for an upload whose request is still to come, so a request starts without
content; `TransactionApart` that the ids of the Worker's open transaction have no
row and cannot be mistaken for an upload, so a compensation deletes no committed
content; `ReferencesFinished` that what was referable when it was checked still is
when the report is written, a transaction later. The lemmas group the actions by
what they touch: the slot, the content request, its end, the Worker's registration,
its rollback and its commit.

`RunnerProtocolProofs` proves, for every number of Runners, slots, tokens, attempts,
faults and operator requests satisfying `RunnerAssumption`:

| Theorem | Statement |
|---|---|
| `ProtocolHolds` | `Spec => []ProtocolInv` |
| `OwnersHaveLastAttempt` | `Spec => []OwnerHasLastAttempt` |
| `RunnerResultsFenced` | `Spec => ResultFenced` |
| `ProtocolImplementsLeasedWork` | `Spec => RunnerImplementsLeasedWork` |

`CleanupAfterResult` alone is not inductive: a release decides by the path of the
workspace, and that a path is known only from the final result is
`WorkspaceFollowsTask`. That part also says why a claim may leave the Runner column
alone: the Runner it read is still there. Fencing rests on `SlotsWork` (a slot that
submits has a token and an attempt the row has counted), `LeaseFollowsRow` (the row
has a token only while it is held or has ended, so whoever matches it in a status
that is not terminal is the running holder) and `AttemptsApart`. `NodeFollowsTask`
gives the outcomes of the refinement. Most steps are covered by one frame lemma: no
slot gets a new token or attempt (`Carried`) and the rows keep their owner
(`RowsFrame`); the claim, the submission and the scheduler's steps have proofs of
their own. In particular a heartbeat that renews a row which meanwhile belongs to
another lease, or to nobody, is harmless, since it changes no owner.

`RunTraceProofs` proves, for every set of operations and of tasks they touch, every
number of attempts and disconnections and every page size satisfying
`TraceAssumption`:

| Theorem | Statement |
|---|---|
| `TraceSafe` | `Spec => []TraceInv` |
| `EventsRecordedOnce` | `Spec => []RecordedOnce` |

That the stream skips no event of an operation on the run follows from the order of
ids: `RunLockHeld` says who holds the run's lock at which point of a transaction,
exclusively or shared and never both, so that nobody else commits while an operation
on the run has drawn an id and not yet committed it (`RunIdIsNewest`). Whatever
becomes visible with a smaller id therefore does so before the cursor can pass it.
`CursorFits` ties the cursor to what the client has received and says that a page
has no gap for these events, whatever its size; `CommittedRows` that the trace is
exactly what the finished operations drew, which gives `RecordedOnce`: an attempt
that was a deadlock's victim has left nothing. `EndsWithLastStatus` needs in addition
that an ended run gets no further operation but those of transactions that had loaded
it before (`RunLockHeld`), and that it becomes active again only through one of them
(`CommittedRows`).

`ControlPlaneProofs` proves, for every set of resources, credentials, names, graphs
and requests:

| Theorem | Statement |
|---|---|
| `ControlSafe` | `Spec => []ControlInv` |
| `RunsExecutable` | `Spec => []RunIsExecutable` |
| `VersionsFrozen` | `Spec => VersionIsDraft` |

The assumptions say that agents, services and actions are different rows
(`ControlAssumption`) and that the null value is none (`RowAssumption`). A request
decides on what it read one step before it writes. `Session` records what of that
decision cannot become false: the values it will write, and for `create_run` the
snapshot it found executable, which is the one it stores. `VersionLocked` is the row
lock of `create_version`: as long as it is open no other request changes draft or
versions, so that the number it computed is still the next one and the draft it
validated is the draft. `CurrentIsLatest` then follows by counting, and
`ServicesAreHttp` is needed because only an agent's connector asks for a Runner.

`WorkflowRuntimeProofs` proves, for every graph, every assignment of node kinds and
any number of slots, clients and recovery loops satisfying `GraphAssumption` and
`QueueAssumption`:

| Theorem | Statement |
|---|---|
| `PathsKept` | `RuntimeSpec => []PathInv` |
| `OwnersStayCurrent` | `RuntimeSpec => []OwnerIsCurrent` |
| `AttemptsStayDistinct` | `RuntimeSpec => []AttemptsDistinct` |
| `BudgetStaysKept` | `RuntimeSpec => []AttemptBudget` |
| `ResultsStayFenced` | `RuntimeSpec => PublishFenced` |

None has a hypothesis: they hold for requests, slots and recovery loops that overtake
each other between their first read and their lock, as the code lets them.

`PathsKept`: however old the snapshot is that a request or a recovery loop decides on, it inserts a task only for a node on the path the
conditions select and skips only nodes beside it. A branch, once chosen, is chosen
for good, and an old snapshot shows less of the choice, never another one: `PathKept`
says this of the rows and of every snapshot, `WorkIsKnown` that a slot or a decision
works only on a node that has a task. The two facts about the scheduler are that a
node is on the path if one of its active edges comes from a completed node, and that
the least set of `mark_unreachable_condition_nodes` lies in every set closed under
its rule, in particular in the complement of the path.

The other four are the queue's guarantees in the composition. They do not follow from
the theorems of `ExecutionQueueProofs`: those are about `Spec`, whose scheduler obeys
the contract `SchedulerEffect`, and an overtaken transaction may break that contract
(section 3, departures). What it cannot break is `Fencing`. A scheduler's transaction
writes a task row in two ways only: it inserts the row of a node that has none
(UNIQUE(node_run_id) refuses the other case, `Raises`), and it cancels a row that was open in
its snapshot, leaving token and attempt alone; `ActorWrites` says so for every actor.
`WriterFences` proves that any such step keeps `Fencing`, and a slot's steps keep it by
the lemmas of `ExecutionQueueProofs`, which do not use the nodes or the run. `PathInv`
joins this with the path; `WorkIsKnown` also says that a row that was never inserted
has no token and no attempt. A step of a slot publishes under its lease
(`SlotStepFenced`) and no other step writes a result.

`GraphRunProofs` proves, for every set of graphs satisfying `GraphsAreDocuments`, of
any size and shape, and for every decision of the conditions, answer of the
capabilities and order of the executions:

| Theorem | Statement |
|---|---|
| `RunInvariant` | `Spec => [](RunInv /\ ConditionEvaluates /\ MappedInputFits)` |
| `GraphReachabilityExact` | `Spec => []ReachabilityExact` |
| `GraphCompletedHasOutput`, `GraphRefsSettled`, `GraphOutputAfterMerge` | `Spec => []CompletedHasOutput`, `[]RefsSettled`, `[]OutputAfterMerge` |
| `GraphSafety` | `Spec => []GraphInv` |
| `GraphMappedInputFits` | `Spec => []MappedInputFits` |

The provers cannot do an induction over a graph or an expression. Its place is taken
by minimal counterexamples, from the well-foundedness of strict inclusion on finite
sets and of `<` on the naturals, in four steps.

* *Loops.* `LoopExists` and `Saturated`: if a round only adds what is new, and never
  less than from a smaller set, the recursive function of `Saturate` is well defined
  and returns the least set to which a round adds nothing. `Explored` and `Drained`
  instantiate it for the searches and for Kahn's queue.
* *Graphs.* A path is a member of the least closed set (`Reach`). `Sink`: in an acyclic
  graph, any set of nodes has one without a successor in the set, namely one that
  reaches least. With it `CycleExact` shows that Kahn's queue empties the graph iff
  nothing reaches itself; `Indegree` is the counting that connects degrees with sets.
* *Runs.* `RunInv` says that the run is one of an accepted graph and that its rows are
  `Consistent`: a node that left PENDING still has an active edge and its active edges
  come from COMPLETED nodes, a SKIPPED one has no active edge. This is kept although
  conditions complete later and skip nodes, because whether an edge
  is active is settled once its source has ended (`Carry`). `RowInv` adds which rows have outputs, of which schema, and
  which errors. The properties follow from `RunInv` and the facts on graphs:
  `AncestorsSettled` (the predecessors of a node that runs have ended, and the ended
  nodes are closed under predecessors), `NextCompleted` (in a COMPLETED run a completed node
  that is no Output has a completed successor, so the last completed node is an
  Output) and `BeforeMerge` for the join.
* *Values.* `VerdictExists` and `EvaluateIs` make the evaluation of an expression well
  defined, clause by clause from the last; `ExpressionRaises` takes the last clause
  that raises, which must be a comparison. `SourceConforms` says that the type that
  validation inferred for a source is the type of the value it resolves to if the
  source is `Reliable`: the run's input and the outputs it refers to were checked
  against their schemas, and neither redaction nor truncation touched the field.

The attempt found the false form of `OutputAfterMerge` (section 3) and two
operators of the model whose alternatives overlapped.

Only model-checked: liveness (fairness and ENABLED are beyond the prover), and what
WorkflowRuntime says of nodes and run together: `OnlySelectedRun` (its join barrier),
`CompletedRunIsExact`, `RuntimeInv` (`RunGovernsNodes`, `EndedRunSettled`),
`ImplementsQueue`, `RunTerminalStable` and `PausedIsFrozen`. With two clients and all
operations at once the overtaken transactions break them (finding `run_terminal`), so they
are not theorems of `RuntimeSpec`; the instances of `runtime_requests`,
`runtime_branches` and `runtime_liveness` show in which they hold.

## 5. Not modelled

* `MySQLExecutionBackend.submit` and `.cancel` have no caller.
* Values that no state depends on: messages, timestamps, hostnames, versions and
  metadata, priorities and `available_at`; the rest of the payload sent to a Runner; the
  secret inside a credential; the redaction of secrets inside a string.
* Calls to the outside: the HTTP request with its URL policy, subprocesses and git,
  connection tests and health checks. Their result is a free choice. The split of a
  service's mapping into path, query and body is part of the request.
* Strings that mix text with references: they resolve as their parts do. Of JSON Schema,
  everything but `type`, `required`, `additionalProperties` and the properties' types.
* Encryption, address policy, HTTP plumbing and the frontend hold no state of the
  runtime.
* Object storage is a map from keys to contents; the S3 client's own protocol is
  external.
* Migrations, settings and the examples are configuration.

`PROJECT.json` gives the reason for each component.

## 6. What could follow

If the API's second transactions and the recovery loop lock the run before they read,
`ImplementsQueue` can be proved of `RuntimeSpec` and the theorems of the queue carry over
to the runtime, terminal statuses and exactness of completed runs included. A stricter pairing rule, which asks
each branch of a Parallel to end in the same Merge, would allow the simple form of
`OutputAfterMerge`.
