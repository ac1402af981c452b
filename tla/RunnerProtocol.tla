--------------------------- MODULE RunnerProtocol ---------------------------
(***************************************************************************)
(* The pull protocol between the control plane and its local Runners       *)
(* (domain/runners, api/routes/runners.py, runners/runner.py), for the one *)
(* task of a tool or coding node, and the Workspace of that node           *)
(* (domain/workspaces) with the Git worktree it stands for.                *)
(*                                                                         *)
(* A Runner claims (which also starts) the task, prepares the worktree,    *)
(* runs the command while a monitor sends task heartbeats, discards the    *)
(* worktree of a cancelled command, and submits the result up to three     *)
(* times.  Requests and answers may be lost.  A request that reads a row   *)
(* before it locks it is two steps: the object read first stays in the     *)
(* identity map of the session.                                            *)
(***************************************************************************)
EXTENDS Naturals, RuntimeStates

CONSTANTS
    Runner,       \* runners.id
    Exec,         \* concurrency slots of all Runner processes
    RunnerOf,     \* the Runner a slot belongs to
    Token,        \* lease tokens (uuid4); one that occurs nowhere counts as new
    None,         \* SQL NULL
    Target,       \* execution_tasks.runner_id: the Runner the node asks for, or None
    MaxAttempts,  \* max_attempts of the task
    Local,        \* TRUE: workspace strategy "local", FALSE: "worktree"
    MaxFaults,    \* bound on lost requests and answers, crashes, stalls, failing cleanups
    MaxAdmin      \* bound on operator requests: enable, disable, rotate, revoke, release, pause

ASSUME RunnerAssumption ==
    /\ RunnerOf \in [Exec -> Runner]
    /\ None \notin Runner \cup Token
    /\ Target \in Runner \cup {None}
    /\ MaxAttempts \in Nat \ {0}
    /\ Local \in BOOLEAN
    /\ MaxFaults \in Nat /\ MaxAdmin \in Nat

VARIABLES
    run,    \* workflow_runs.status
    node,   \* node_runs.status of the node
    task,   \* the execution_tasks row
    ws,     \* the workspaces row
    disk,   \* the Runners on whose disk the worktree of the branch exists
    reg,    \* the runners rows
    beat,   \* the status a Runner heartbeat read before its commit
    slot,   \* the claimed task of each slot: _run_claimed_task
    hb,     \* the task heartbeat of each slot, between its read and its commit
    cl,     \* the cleanup the main loop of each Runner is busy with
    rel,    \* the status a release request read before its commit
    faults, admin

background == <<beat, cl, rel>>

rows == <<run, node, task, ws>>
vars == <<run, node, task, ws, disk, reg, beat, slot, hb, cl, rel, faults, admin>>

-----------------------------------------------------------------------------
WorkspaceStatus ==
    {"creating", "ready", "in_use", "failed", "releasing", "cleaning", "cleanup_failed", "released"}

RunnerStatus == {"online", "offline", "disabled"}

\* active: lease_expires_at lies in the future.
Row == [status: ExecutionTaskStatus \cup {"absent"}, locked_by: Runner \cup {None},
        lease_token: Token \cup {None}, active: BOOLEAN, attempt: Nat]

\* stale: a CLEANING row that was last updated more than a lease ago.
Workspace == [status: WorkspaceStatus \cup {"absent"}, runner: Runner \cup {None}, path: BOOLEAN, stale: BOOLEAN]

\* auth: auth_token_hash is the hash of the token in the Runner's identity file;
\* seen: last_seen_at is recent enough.
RunnerRow == [status: RunnerStatus \cup {"absent"}, seen: BOOLEAN, auth: BOOLEAN]

\* What a claim read before it locked the rows.
Snapshot == [ws: Workspace, node: NodeRunStatus]

Phase == {"idle", "claiming", "prepare", "executing", "discard", "reporting", "submitting"}

\* What execute_task returns: success, a retryable exit status, another failure,
\* a failure before the workspace was prepared, or a cancelled command.
Result == {"ok", "exit_nonzero", "error", "no_path", "cancelled"}

SlotState == [pc: Phase, token: Token \cup {None}, attempt: Nat, seen: Snapshot \cup {None},
              cancel: BOOLEAN, result: Result \cup {None}, clean: BOOLEAN, tries: 0..2]

Idle == [pc |-> "idle", token |-> None, attempt |-> 0, seen |-> None, cancel |-> FALSE,
         result |-> None, clean |-> FALSE, tries |-> 0]

\* What a task heartbeat saw of its task: locked_by and lease_token are its own
\* (ours), and the status is RUNNING.
Beat == [token: Token \cup {None}, ours: BOOLEAN, running: BOOLEAN]

NoBeat == [token |-> None, ours |-> FALSE, running |-> FALSE]

ProtocolTypeOK ==
    /\ run \in WorkflowRunStatus
    /\ node \in NodeRunStatus
    /\ task \in Row
    /\ ws \in Workspace
    /\ disk \subseteq Runner
    /\ reg \in [Runner -> RunnerRow]
    /\ beat \in [Runner -> RunnerStatus \cup {None}]
    /\ slot \in [Exec -> SlotState]
    /\ hb \in [Exec -> Beat]
    /\ cl \in [Runner -> {None, "removing", "removed", "failed"}]
    /\ rel \in WorkspaceStatus \cup {None}
    /\ faults \in 0..MaxFaults /\ admin \in 0..MaxAdmin

Init ==
    /\ run = "running"
    /\ node = "pending"
    /\ task = [status |-> "absent", locked_by |-> None, lease_token |-> None,
               active |-> FALSE, attempt |-> 0]
    /\ ws = [status |-> "absent", runner |-> None, path |-> FALSE, stale |-> FALSE]
    /\ disk = {}
    /\ reg = [r \in Runner |-> [status |-> "absent", seen |-> FALSE, auth |-> FALSE]]
    /\ beat = [r \in Runner |-> None]
    /\ slot = [e \in Exec |-> Idle]
    /\ hb = [e \in Exec |-> NoBeat]
    /\ cl = [r \in Runner |-> None]
    /\ rel = None
    /\ faults = 0 /\ admin = 0

Fault == faults < MaxFaults /\ faults' = faults + 1

Admin == admin < MaxAdmin /\ admin' = admin + 1

-----------------------------------------------------------------------------
(* Registration and liveness of a Runner *)

authenticate_runner(r) == reg[r].status # "absent" /\ reg[r].auth

runner_online(r) == reg[r].status # "disabled" /\ reg[r].seen

\* A new row; the Runner saves the token it gets back.
Enrolled == [status |-> "online", seen |-> TRUE, auth |-> TRUE]

register_runner(r) ==
    /\ reg[r].status = "absent"
    /\ reg' = [reg EXCEPT ![r] = Enrolled]
    /\ UNCHANGED <<rows, disk, beat, slot, hb, cl, rel, faults, admin>>

\* A heartbeat, or a registration with a known identity: the row is read and
\* its status checked without a lock (one that finds the Runner online and
\* recently seen changes nothing and is left out) ...
heartbeat_read(r) ==
    /\ authenticate_runner(r)
    /\ beat[r] = None
    /\ reg[r].status # "disabled"
    /\ ~ (reg[r].status = "online" /\ reg[r].seen)
    /\ beat' = [beat EXCEPT ![r] = reg[r].status]
    /\ UNCHANGED <<rows, disk, reg, slot, hb, cl, rel, faults, admin>>

\* ... and the flush writes the status column only if it read another one.
heartbeat_runner(r) ==
    /\ beat[r] # None
    /\ reg' = [reg EXCEPT ![r].status = IF beat[r] = "online" THEN @ ELSE "online",
                          ![r].seen = TRUE]
    /\ beat' = [beat EXCEPT ![r] = None]
    /\ UNCHANGED <<rows, disk, slot, hb, cl, rel, faults, admin>>

\* No heartbeat for runner_offline_seconds.
GoesQuiet(r) ==
    /\ reg[r].seen
    /\ Fault
    /\ reg' = [reg EXCEPT ![r].seen = FALSE]
    /\ UNCHANGED <<rows, disk, beat, slot, hb, cl, rel, admin>>

set_runner_enabled(r) ==
    /\ reg[r].status # "absent"
    /\ Admin
    /\ \E status \in {"offline", "disabled"} : reg' = [reg EXCEPT ![r].status = status]
    /\ UNCHANGED <<rows, disk, beat, slot, hb, cl, rel, faults>>

\* The new token goes to the operator, not to the Runner.
rotate_runner_token(r) ==
    /\ reg[r].status # "absent"
    /\ Admin
    /\ reg' = [reg EXCEPT ![r].auth = FALSE]
    /\ UNCHANGED <<rows, disk, beat, slot, hb, cl, rel, faults>>

revoke_runner(r) ==
    /\ reg[r].status # "absent"
    /\ Admin
    /\ reg' = [reg EXCEPT ![r].auth = FALSE, ![r].status = "disabled"]
    /\ UNCHANGED <<rows, disk, beat, slot, hb, cl, rel, faults>>

-----------------------------------------------------------------------------
(* Claim, which also starts the task *)

Goto(e, fields) == slot' = [slot EXCEPT ![e] = fields]

FreshToken ==
    Token \ ({task.lease_token} \cup {slot[e].token : e \in Exec} \cup {hb[e].token : e \in Exec})

\* run_runner makes one request at a time.
MainLoopFree(r) == cl[r] = None /\ \A e \in Exec : RunnerOf[e] = r => slot[e].pc # "claiming"

\* post_claim and the candidate lookup: the Runner, the task and the workspace
\* as this snapshot shows them.
claim_read(e) ==
    LET r == RunnerOf[e] IN
    /\ slot[e].pc = "idle" /\ MainLoopFree(r)
    /\ authenticate_runner(r)
    /\ reg[r].status # "disabled"
    /\ runner_online(r)
    /\ run = "running" /\ task.status = "pending" /\ Target \in {None, r}
    /\ Goto(e, [Idle EXCEPT !.pc = "claiming", !.seen = [ws |-> ws, node |-> node]])
    /\ UNCHANGED <<rows, disk, reg, background, hb, faults, admin>>

\* Mutant: the status is not checked again under the locks.
Claimable_unchecked == TRUE

Claimable == run = "running" /\ task.status = "pending"

\* Mutant: an attempt after a lost lease is not counted again.
NextAttempt_lost == IF node = "running" THEN task.attempt ELSE task.attempt + 1

NextAttempt == task.attempt + 1

\* CLAIMED and RUNNING in one transaction; the attempt counts at once.  Of the
\* node and the workspace, the columns that differ from the snapshot are written.
runner_claim(e) ==
    /\ slot[e].pc = "claiming"
    /\ Claimable
    /\ FreshToken # {}
    /\ LET k == CHOOSE k \in FreshToken : TRUE IN
          /\ task' = [status |-> "running", locked_by |-> RunnerOf[e], lease_token |-> k,
                      active |-> TRUE, attempt |-> NextAttempt]
          /\ \/ /\ Goto(e, [Idle EXCEPT !.pc = "prepare", !.token = k, !.attempt = NextAttempt])
                /\ UNCHANGED faults
             \/ Fault /\ Goto(e, Idle)          \* the answer is lost
    /\ node' = IF slot[e].seen.node = "running" THEN node ELSE "running"
    /\ ws' = [ws EXCEPT !.status = IF slot[e].seen.ws.status = "in_use" THEN @ ELSE "in_use",
                        !.runner = IF slot[e].seen.ws.runner = RunnerOf[e] THEN @ ELSE RunnerOf[e]]
    /\ UNCHANGED <<run, disk, reg, background, hb, admin>>

claim_lost(e) ==
    /\ slot[e].pc = "claiming"
    /\ ~ Claimable
    /\ Goto(e, Idle)
    /\ UNCHANGED <<rows, disk, reg, background, hb, faults, admin>>

-----------------------------------------------------------------------------
(* Execution: execute_task, and _monitor_task beside it *)

\* An existing worktree of the branch is used again.
prepare_workspace(e) ==
    /\ slot[e].pc = "prepare"
    /\ \/ /\ Goto(e, [slot[e] EXCEPT !.pc = "executing"])
          /\ disk' = IF Local THEN disk ELSE disk \cup {RunnerOf[e]}
       \/ /\ Goto(e, [slot[e] EXCEPT !.pc = "submitting", !.result = "no_path"])
          /\ UNCHANGED disk
    /\ UNCHANGED <<rows, reg, background, hb, faults, admin>>

\* The command ends by itself or times out, even if a cancellation is known.
execute_task(e) ==
    /\ slot[e].pc = "executing"
    /\ \E result \in {"ok", "exit_nonzero", "error"} :
          Goto(e, [slot[e] EXCEPT !.pc = "submitting", !.result = result])
    /\ UNCHANGED <<rows, disk, reg, background, hb, faults, admin>>

\* The process group is killed.
execute_cancelled(e) ==
    /\ slot[e].pc = "executing"
    /\ slot[e].cancel
    /\ Goto(e, [slot[e] EXCEPT !.pc = "discard", !.result = "cancelled"])
    /\ UNCHANGED <<rows, disk, reg, background, hb, faults, admin>>

\* _run_claimed_task removes the worktree of a cancelled command ...
cleanup_cancelled(e) ==
    /\ slot[e].pc = "discard"
    /\ \/ /\ Goto(e, [slot[e] EXCEPT !.pc = "reporting", !.clean = TRUE])
          /\ disk' = disk \ {RunnerOf[e]}
          /\ UNCHANGED faults
       \/ /\ Fault
          /\ Goto(e, [slot[e] EXCEPT !.pc = "reporting"])
          /\ UNCHANGED disk
    /\ UNCHANGED <<rows, reg, background, hb, admin>>

Monitored(e) ==
    slot[e].pc \in {"prepare", "executing", "discard", "reporting", "submitting"} /\ ~ slot[e].cancel

\* db.get before the locks.
heartbeat_task_read(e) ==
    /\ Monitored(e)
    /\ hb[e] = NoBeat
    /\ authenticate_runner(RunnerOf[e])
    /\ hb' = [hb EXCEPT ![e] =
                [token |-> slot[e].token,
                 ours |-> task.locked_by = RunnerOf[e] /\ task.lease_token = slot[e].token,
                 running |-> task.status = "running"]]
    /\ UNCHANGED <<rows, disk, reg, background, slot, faults, admin>>

\* A rejected token (401) counts as a cancellation.
heartbeat_task_denied(e) ==
    /\ Monitored(e)
    /\ ~ authenticate_runner(RunnerOf[e])
    /\ Goto(e, [slot[e] EXCEPT !.cancel = TRUE])
    /\ UNCHANGED <<rows, disk, reg, background, hb, faults, admin>>

\* The Runner should stop: not its task any more (409), or cancel_requested.
CancelSignal(e) == ~ hb[e].ours \/ ~ hb[e].running \/ is_workflow_run_terminal(run)

\* Only lease_expires_at is written, whatever became of the row meanwhile.
RenewedRow(e) == [task EXCEPT !.active = TRUE]

\* The run is read under its lock, the task is the object read before.
runner_task_heartbeat(e) ==
    LET told == CancelSignal(e) /\ Monitored(e) /\ slot[e].token = hb[e].token IN
    /\ hb[e] # NoBeat
    /\ hb' = [hb EXCEPT ![e] = NoBeat]
    /\ task' = IF CancelSignal(e) THEN task ELSE RenewedRow(e)
    /\ reg' = [reg EXCEPT ![RunnerOf[e]].seen = @ \/ hb[e].ours]
    /\ \/ /\ slot' = [slot EXCEPT ![e].cancel = @ \/ told]
          /\ UNCHANGED faults
       \/ told /\ Fault /\ UNCHANGED slot        \* the answer is lost
    /\ UNCHANGED <<run, node, ws, disk, background, admin>>

-----------------------------------------------------------------------------
(* Workspaces: cleanup by the Runner, release by the operator *)

CleanupPending == ws.status \in {"cleaning", "releasing", "in_use"}

Cleaned(ok) == [ws EXCEPT !.status = IF ok THEN "released" ELSE "cleanup_failed", !.stale = FALSE]

\* The report of r is accepted; a repeated success changes nothing.
complete_workspace_cleanup(r, ok) ==
    /\ authenticate_runner(r)
    /\ ws.runner = r
    /\ \/ CleanupPending /\ ws' = Cleaned(ok)
       \/ ~ CleanupPending /\ ws.status = "released" /\ ok /\ UNCHANGED ws

CleanupRefused(r, ok) ==
    ~ /\ authenticate_runner(r)
      /\ ws.runner = r
      /\ CleanupPending \/ (ws.status = "released" /\ ok)

\* ... and reports it.  An error of this request ends the slot without a
\* submission: it is refused, its answer is lost, or it never arrives.
report_cancelled(e) ==
    /\ slot[e].pc = "reporting"
    /\ \/ /\ complete_workspace_cleanup(RunnerOf[e], slot[e].clean)
          /\ \/ Goto(e, [slot[e] EXCEPT !.pc = "submitting"]) /\ UNCHANGED faults
             \/ Fault /\ Goto(e, Idle)
       \/ /\ CleanupRefused(RunnerOf[e], slot[e].clean)
          /\ Goto(e, Idle)
          /\ UNCHANGED <<ws, faults>>
       \/ Fault /\ Goto(e, Idle) /\ UNCHANGED ws
    /\ UNCHANGED <<run, node, task, disk, reg, background, hb, admin>>

\* Mutant: a cleanup that another process began is never taken over.
CleanupDue_releasing(r) == ws.runner = r /\ ws.status = "releasing"

CleanupDue(r) ==
    /\ ws.runner = r
    /\ ws.status = "releasing" \/ (ws.status = "cleaning" /\ ws.stale)

\* The main loop of r asks for a cleanup; without a path there is nothing to do.
claim_workspace_cleanup(r) ==
    /\ MainLoopFree(r)
    /\ authenticate_runner(r) /\ reg[r].status # "disabled"
    /\ CleanupDue(r)
    /\ ws' = [ws EXCEPT !.status = "cleaning", !.stale = FALSE]
    /\ cl' = [cl EXCEPT ![r] = IF ws.path THEN "removing" ELSE None]
    /\ UNCHANGED <<run, node, task, disk, reg, beat, rel, slot, hb, faults, admin>>

cleanup_workspace(r) ==
    /\ cl[r] = "removing"
    /\ \/ /\ disk' = disk \ {r}
          /\ cl' = [cl EXCEPT ![r] = "removed"]
          /\ UNCHANGED faults
       \/ /\ Fault
          /\ cl' = [cl EXCEPT ![r] = "failed"]
          /\ UNCHANGED disk
    /\ UNCHANGED <<rows, reg, beat, rel, slot, hb, admin>>

\* The report, or its loss; errors of the request are swallowed by the loop.
report_cleanup(r) ==
    /\ cl[r] \in {"removed", "failed"}
    /\ cl' = [cl EXCEPT ![r] = None]
    /\ \/ complete_workspace_cleanup(r, cl[r] = "removed") /\ UNCHANGED faults
       \/ CleanupRefused(r, cl[r] = "removed") /\ UNCHANGED <<ws, faults>>
       \/ Fault /\ UNCHANGED ws
    /\ UNCHANGED <<run, node, task, disk, reg, beat, rel, slot, hb, admin>>

\* A cleanup nobody is busy with was claimed more than a lease ago.
CleanupStale ==
    /\ ws.status = "cleaning" /\ ~ ws.stale
    /\ \A r \in Runner : cl[r] = None
    /\ ws' = [ws EXCEPT !.stale = TRUE]
    /\ UNCHANGED <<run, node, task, disk, reg, background, slot, hb, faults, admin>>

release_read ==
    /\ rel = None
    /\ ws.status \in {"ready", "failed", "cleanup_failed"}
    /\ Admin
    /\ rel' = ws.status
    /\ UNCHANGED <<rows, disk, reg, beat, cl, slot, hb, faults>>

ReleaseTarget == IF Local \/ ~ ws.path THEN "released" ELSE "releasing"

\* release_workspace takes no lock: it decides on the status it read.
release_workspace ==
    /\ rel # None
    /\ rel' = None
    /\ ws' = [ws EXCEPT !.status = ReleaseTarget]
    /\ UNCHANGED <<run, node, task, disk, reg, beat, cl, slot, hb, faults, admin>>

-----------------------------------------------------------------------------
(* Submission *)

\* Mutant: the expiry is not checked.
owns_expired(e) ==
    /\ task.status \notin EXECUTION_TASK_TERMINAL
    /\ task.locked_by = RunnerOf[e]
    /\ task.lease_token = slot[e].token

owns(e) ==
    /\ task.status \notin EXECUTION_TASK_TERMINAL
    /\ task.locked_by = RunnerOf[e]
    /\ task.lease_token = slot[e].token
    /\ task.active

should_retry(e) == slot[e].result = "exit_nonzero" /\ task.attempt < MaxAttempts

\* The task and the node after the result of slot e.
Outcome(e) ==
    CASE slot[e].result = "ok" -> [task |-> "completed", node |-> "completed"]
      [] should_retry(e) -> [task |-> "retry_wait", node |-> "retrying"]
      [] OTHER -> [task |-> "failed", node |-> "failed"]

\* Mutant: the path decides before the result.
_sync_workspace_result_path(e) ==
    [ws EXCEPT !.path = @ \/ slot[e].result # "no_path",
               !.status = IF slot[e].result # "ok" THEN "releasing"
                          ELSE IF Local THEN "released" ELSE "releasing"]

\* The metadata of a result names the path, unless the preparation failed.
_sync_workspace_result(e) ==
    LET path == ws.path \/ slot[e].result # "no_path" IN
    [ws EXCEPT !.path = path,
               !.status = IF ~ path \/ slot[e].result # "ok" THEN "failed"
                          ELSE IF Local THEN "released" ELSE "releasing"]

Accepts(e) ==
    /\ authenticate_runner(RunnerOf[e])
    /\ ~ is_workflow_run_terminal(run)
    /\ owns(e)
    /\ transition_execution_task(task.status, Outcome(e).task)
    /\ transition_node_run(node, Outcome(e).node) \/ (node = Outcome(e).node /\ node # "completed")

\* The transaction of runner_submit.
Applied(e) ==
    /\ task' = IF should_retry(e)
               THEN [task EXCEPT !.status = "retry_wait", !.locked_by = None,
                                 !.lease_token = None, !.active = FALSE]
               ELSE [task EXCEPT !.status = Outcome(e).task]
    /\ node' = Outcome(e).node
    /\ ws' = IF should_retry(e) THEN ws ELSE _sync_workspace_result(e)

\* The client repeats the request after an error of the transport, twice.
TryAgain(e) ==
    /\ Fault
    /\ Goto(e, IF slot[e].tries = 2 THEN Idle ELSE [slot[e] EXCEPT !.tries = @ + 1])

\* Accepted, and the answer arrives or is lost.
runner_submit(e) ==
    /\ slot[e].pc = "submitting"
    /\ Accepts(e)
    /\ Applied(e)
    /\ (Goto(e, Idle) /\ UNCHANGED faults) \/ TryAgain(e)
    /\ UNCHANGED <<run, disk, reg, background, hb, admin>>

\* 409 or 401: the result is dropped.
submit_refused(e) ==
    /\ slot[e].pc = "submitting"
    /\ ~ Accepts(e)
    /\ Goto(e, Idle)
    /\ UNCHANGED <<rows, disk, reg, background, hb, faults, admin>>

submit_lost(e) ==
    /\ slot[e].pc = "submitting"
    /\ TryAgain(e)
    /\ UNCHANGED <<rows, disk, reg, background, hb, admin>>

\* The upload of the patch fails before the submission: the slot ends
\* (ArtifactStore models the upload itself).
upload_fails(e) ==
    /\ slot[e].pc = "submitting" /\ slot[e].tries = 0
    /\ slot[e].result = "ok" /\ ~ Local
    /\ Fault
    /\ Goto(e, Idle)
    /\ UNCHANGED <<rows, disk, reg, background, hb, admin>>

-----------------------------------------------------------------------------
(* The rest of the control plane, as far as it touches these rows: module    *)
(* WorkflowRuntime models it in full.                                         *)

create_workspace == [ws EXCEPT !.status = "creating", !.runner = Target]

\* schedule_ready_nodes submits the task with the workspace of its node.
_attach_workspace ==
    /\ run = "running" /\ task.status = "absent" /\ node = "pending"
    /\ task' = [task EXCEPT !.status = "pending"]
    /\ node' = "queued"
    /\ ws' = create_workspace
    /\ UNCHANGED <<run, disk, reg, background, slot, hb, faults, admin>>

Served == <<disk, reg, background, slot, hb>>

cancel_run ==
    /\ ~ is_workflow_run_terminal(run)
    /\ Admin
    /\ run' = "cancelled"
    /\ task' = IF is_execution_task_terminal(task.status) \/ task.status = "absent" THEN task
               ELSE [task EXCEPT !.status = "cancelled"]
    /\ node' = IF is_node_run_terminal(node) THEN node ELSE "cancelled"
    /\ UNCHANGED <<ws, Served, faults>>

pause_run == run = "running" /\ Admin /\ run' = "paused" /\ UNCHANGED <<node, task, ws, Served, faults>>

resume_run == run = "paused" /\ run' = "running" /\ UNCHANGED <<node, task, ws, Served, faults, admin>>

reconcile_run ==
    /\ run = "running" /\ node \in {"completed", "failed"}
    /\ run' = node
    /\ UNCHANGED <<node, task, ws, Served, faults, admin>>

Working(k) == \E e \in Exec : slot[e].token = k

\* A lease that a live slot keeps renewing runs out only by a fault.
LeaseExpires ==
    /\ task.status = "running" /\ task.active
    /\ IF Working(task.lease_token) THEN Fault ELSE UNCHANGED faults
    /\ task' = [task EXCEPT !.active = FALSE]
    /\ UNCHANGED <<run, node, ws, Served, admin>>

\* Mutant: the task is kept for a Runner that still sends heartbeats.
recover_expired_offline ==
    /\ task.status = "running" /\ ~ task.active
    /\ ~ runner_online(task.locked_by)
    /\ task' = [task EXCEPT !.status = "pending", !.locked_by = None, !.lease_token = None]
    /\ UNCHANGED <<run, node, ws, Served, faults, admin>>

recover_expired ==
    /\ task.status = "running" /\ ~ task.active
    /\ task' = [task EXCEPT !.status = "pending", !.locked_by = None, !.lease_token = None]
    /\ UNCHANGED <<run, node, ws, Served, faults, admin>>

promote_due_retries ==
    /\ task.status = "retry_wait"
    /\ task' = [task EXCEPT !.status = "pending"]
    /\ node' = "queued"
    /\ UNCHANGED <<run, ws, Served, faults, admin>>

\* The Runner process dies and is started again; its disk survives.
RunnerDies(r) ==
    /\ Fault
    /\ \E e \in Exec : RunnerOf[e] = r /\ slot[e].pc # "idle"
    /\ slot' = [e \in Exec |-> IF RunnerOf[e] = r THEN Idle ELSE slot[e]]
    /\ cl' = [cl EXCEPT ![r] = None]
    /\ UNCHANGED <<rows, disk, reg, beat, rel, hb, admin>>

-----------------------------------------------------------------------------
\* What a slot does on the way from a claim to its submission.
Proceed(e) ==
    \/ runner_claim(e) \/ claim_lost(e) \/ prepare_workspace(e)
    \/ execute_task(e) \/ execute_cancelled(e) \/ cleanup_cancelled(e) \/ report_cancelled(e)
    \/ runner_submit(e) \/ submit_refused(e)

Monitor(e) == heartbeat_task_read(e) \/ heartbeat_task_denied(e) \/ runner_task_heartbeat(e)

Cleanup(r) == claim_workspace_cleanup(r) \/ cleanup_workspace(r) \/ report_cleanup(r)

Heartbeat(r) == register_runner(r) \/ heartbeat_read(r) \/ heartbeat_runner(r)

Operator ==
    \/ \E r \in Runner : set_runner_enabled(r) \/ rotate_runner_token(r) \/ revoke_runner(r)
    \/ release_read \/ release_workspace
    \/ cancel_run \/ pause_run \/ resume_run

Next ==
    \/ \E e \in Exec : claim_read(e) \/ Proceed(e) \/ Monitor(e) \/ submit_lost(e) \/ upload_fails(e)
    \/ \E r \in Runner : Heartbeat(r) \/ Cleanup(r) \/ GoesQuiet(r) \/ RunnerDies(r)
    \/ Operator
    \/ _attach_workspace \/ reconcile_run \/ LeaseExpires \/ recover_expired \/ promote_due_retries \/ CleanupStale

Spec == Init /\ [][Next]_vars

\* Runners poll, commands end (they have a timeout), leases and cleanups age,
\* and a Worker's recovery loop runs.
Fairness ==
    /\ \A e \in Exec : WF_vars(claim_read(e)) /\ WF_vars(Proceed(e))
    /\ \A r \in Runner : WF_vars(Heartbeat(r)) /\ WF_vars(Cleanup(r))
    /\ WF_vars(LeaseExpires /\ UNCHANGED faults)
    /\ WF_vars(recover_expired) /\ WF_vars(promote_due_retries) /\ WF_vars(CleanupStale)

FairSpec == Spec /\ Fairness

-----------------------------------------------------------------------------
(* Properties *)

\* A slot that still owns the task when it submits works on the attempt that the
\* row counts, and no two slots of the fleet ever work on the same attempt,
\* although an abandoned execution of a Runner lives on beside its successor.
OwnerHasLastAttempt ==
    \A e \in Exec : slot[e].token # None =>
        /\ owns(e) => task.status = "running" /\ task.attempt = slot[e].attempt
        /\ slot[e].attempt <= task.attempt
        /\ \A f \in Exec \ {e} : slot[f].attempt # slot[e].attempt

\* The worktree is given up for removal by the main loop only after the task
\* ended, with the path and the Runner that the removal needs; otherwise the
\* cleanup would be claimed again for ever.
CleanupAfterResult ==
    ws.status \in {"releasing", "cleaning"} =>
        /\ is_execution_task_terminal(task.status)
        /\ ws.path /\ ws.runner # None /\ ~ Local

\* A slot has a token and an attempt from its claim to its end, and no attempt
\* is beyond the one the row counts.
SlotsWork ==
    \A e \in Exec :
        /\ slot[e].pc \in {"idle", "claiming"} <=> slot[e].token = None
        /\ slot[e].token = None => slot[e].attempt = 0
        /\ slot[e].token # None => slot[e].attempt \in 1 .. task.attempt

\* No two executions of the task have one attempt number.
AttemptsApart ==
    \A e, f \in Exec : e # f /\ slot[e].token # None => slot[e].attempt # slot[f].attempt

\* The row has a token exactly while it is held or has ended, and the slot with
\* that token works on the row's last attempt.
LeaseFollowsRow ==
    /\ task.status \in {"absent", "pending", "retry_wait"} => task.lease_token = None
    /\ task.status = "running" => task.lease_token # None
    /\ task.status # "claimed"
    /\ \A e \in Exec :
          slot[e].token # None /\ slot[e].token = task.lease_token => slot[e].attempt = task.attempt

\* The task has ended exactly if its node has.
NodeFollowsTask ==
    /\ task.status = "absent" => node \in {"pending", "cancelled"}
    /\ task.status \in {"pending", "running", "retry_wait"} => ~ is_node_run_terminal(node)
    /\ is_execution_task_terminal(task.status) => is_node_run_terminal(node)

\* A path is known only from the final result, and a Runner from the first claim;
\* a claim that read the Runner of the workspace read one that is still there.
WorkspaceFollowsTask ==
    /\ ws.path => is_execution_task_terminal(task.status) /\ ws.runner # None
    /\ task.lease_token # None => ws.runner # None
    /\ \A e \in Exec : slot[e].pc = "claiming" =>
          /\ task.status # "absent"
          /\ slot[e].seen.ws.runner = RunnerOf[e] => ws.runner # None

\* The rows, the leases and the slots of the Runners fit together, and a worktree
\* is given up only after its result: the inductive invariant.
ProtocolInv ==
    /\ ProtocolTypeOK
    /\ SlotsWork /\ AttemptsApart /\ LeaseFollowsRow
    /\ NodeFollowsTask /\ WorkspaceFollowsTask /\ CleanupAfterResult

\* A result reaches the node only from the slot whose lease is the row's and has
\* not expired, and for the attempt the row counts last: a late answer, a
\* repeated submission or a revived lease never publishes an old attempt.
ResultFenced ==
    [][node' # node /\ node' \in {"completed", "failed", "retrying"} =>
          \E e \in Exec : /\ slot[e].pc = "submitting" /\ slot[e].token = task.lease_token
                          /\ task.active /\ slot[e].attempt = task.attempt]_vars

\* The abstract view of the task and its node.
WorkPhase == [w \in {"task"} |->
    CASE task.status \in {"claimed", "running"} -> "held"
      [] task.status \in {"pending", "retry_wait"} -> "open"
      [] task.status = "absent" /\ node = "pending" -> "none"
      [] OTHER -> "closed"]

WorkHolder == [w \in {"task"} |-> IF task.status = "running" THEN task.lease_token ELSE None]

WorkOutcome == [w \in {"task"} |-> IF is_node_run_terminal(node) THEN node ELSE "none"]

Work == INSTANCE LeasedWork WITH
    Work <- {"task"}, Lease <- Token, NoLease <- None, Final <- NODE_RUN_TERMINAL,
    Dropped <- {"skipped", "cancelled"},
    phase <- WorkPhase, holder <- WorkHolder, outcome <- WorkOutcome

\* The Runner protocol keeps the promise of the queue, LeasedWork, that the
\* Worker keeps (ExecutionQueue): one holder at a time, one outcome, from it.  The
\* submission that a Runner repeats after a lost answer therefore changes nothing.
RunnerImplementsLeasedWork == Work!Spec

\* No lease lasts for ever: not when the answer of the claim is lost, the Runner
\* dies, its token is revoked, or a late heartbeat revives an expired lease.
RunnerLeasesEnd == task.status = "running" ~> task.status # "running"

CanClean(r) == authenticate_runner(r) /\ reg[r].status # "disabled"

\* A worktree that is to be released is removed, or its removal is reported as
\* failed, as long as its Runner may talk to the control plane.
CleanupEnds ==
    ws.status = "releasing" ~>
        (ws.status \in {"released", "cleanup_failed"} \/ \E r \in Runner : ws.runner = r /\ ~ CanClean(r))
=============================================================================
