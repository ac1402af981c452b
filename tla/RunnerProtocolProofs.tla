------------------------ MODULE RunnerProtocolProofs ------------------------
(* Proofs about RunnerProtocol, for every number of Runners, slots, tokens,    *)
(* attempts, faults and operator requests.                                     *)
EXTENDS RunnerProtocol, TLAPS

\* One more fault or request stays within its bound.
LEMMA Bounds ==
    /\ faults \in 0 .. MaxFaults /\ Fault => faults' \in 0 .. MaxFaults
    /\ admin \in 0 .. MaxAdmin /\ Admin => admin' \in 0 .. MaxAdmin
  BY RunnerAssumption DEF Fault, Admin

\* The fields of an idle slot.
LEMMA IdleFields ==
    Idle \in SlotState /\ Idle.pc = "idle" /\ Idle.token = None /\ Idle.attempt = 0
  BY DEF Idle, SlotState, Phase

-----------------------------------------------------------------------------
\* The phases of a slot that holds a task.
Busy == {"prepare", "executing", "discard", "reporting", "submitting"}

\* What a step that claims nothing does to a slot: the slot ends, or goes on with
\* the same attempt, or waits for the same claim.
Carried(e) ==
    \/ slot'[e] = Idle
    \/ /\ slot'[e].token = slot[e].token /\ slot'[e].attempt = slot[e].attempt
       /\ \/ slot'[e].pc = slot[e].pc /\ slot'[e].seen = slot[e].seen
          \/ slot[e].pc \in Busy /\ slot'[e].pc \in Busy

\* The slots keep to their attempts.
LEMMA SlotsKept ==
    ASSUME ProtocolInv, \A e \in Exec : Carried(e), task'.attempt = task.attempt
    PROVE  SlotsWork' /\ AttemptsApart'
  <1>1. SlotsWork'
    <2> SUFFICES ASSUME NEW e \in Exec
                 PROVE  /\ slot'[e].pc \in {"idle", "claiming"} <=> slot'[e].token = None
                        /\ slot'[e].token = None => slot'[e].attempt = 0
                        /\ slot'[e].token # None => slot'[e].attempt \in 1 .. task'.attempt
      BY DEF SlotsWork
    <2>1. /\ slot[e].pc \in {"idle", "claiming"} <=> slot[e].token = None
          /\ slot[e].token = None => slot[e].attempt = 0
          /\ slot[e].token # None => slot[e].attempt \in 1 .. task.attempt
      BY DEF ProtocolInv, SlotsWork
    <2>2. CASE slot'[e] = Idle
      BY <2>2, IdleFields
    <2>3. CASE slot'[e] # Idle
      BY <2>1, <2>3 DEF Carried, Busy
    <2> QED BY <2>2, <2>3
  <1>2. AttemptsApart'
    <2> SUFFICES ASSUME NEW e \in Exec, NEW f \in Exec, e # f, slot'[e].token # None
                 PROVE  slot'[e].attempt # slot'[f].attempt
      BY DEF AttemptsApart
    <2>1. slot[e].token # None /\ slot'[e].attempt = slot[e].attempt
      BY IdleFields DEF Carried
    <2>2. slot[e].attempt \in 1 .. task.attempt /\ slot[e].attempt # slot[f].attempt
      BY <2>1 DEF ProtocolInv, SlotsWork, AttemptsApart
    <2>3. slot'[f].attempt \in {0, slot[f].attempt}
      BY IdleFields DEF Carried
    <2>4. slot[e].attempt # 0
      BY <2>2
    <2> QED BY <2>1, <2>2, <2>3, <2>4
  <1> QED BY <1>1, <1>2

\* The slot with the row's token keeps the row's attempt.
LEMMA OwnerKept ==
    ASSUME ProtocolInv, \A e \in Exec : Carried(e), task'.attempt = task.attempt,
           task'.lease_token \in {task.lease_token, None}
    PROVE  \A e \in Exec : slot'[e].token # None /\ slot'[e].token = task'.lease_token
                              => slot'[e].attempt = task'.attempt
  <1> SUFFICES ASSUME NEW e \in Exec, slot'[e].token # None, slot'[e].token = task'.lease_token
               PROVE  slot'[e].attempt = task'.attempt
    OBVIOUS
  <1>1. slot'[e].token = slot[e].token /\ slot'[e].attempt = slot[e].attempt
    BY IdleFields DEF Carried
  <1> QED BY <1>1 DEF ProtocolInv, LeaseFollowsRow

\* The claims that have read their rows stay covered.
LEMMA ClaimsKept ==
    ASSUME ProtocolInv, \A e \in Exec : Carried(e), task.status # "absent" => task'.status # "absent",
           ws.runner # None => ws'.runner # None
    PROVE  \A e \in Exec : slot'[e].pc = "claiming" =>
              /\ task'.status # "absent"
              /\ slot'[e].seen.ws.runner = RunnerOf[e] => ws'.runner # None
  <1> SUFFICES ASSUME NEW e \in Exec, slot'[e].pc = "claiming"
               PROVE  /\ task'.status # "absent"
                      /\ slot'[e].seen.ws.runner = RunnerOf[e] => ws'.runner # None
    OBVIOUS
  <1>1. slot[e].pc = "claiming" /\ slot'[e].seen = slot[e].seen
    BY IdleFields DEF Carried, Busy
  <1> QED BY <1>1 DEF ProtocolInv, WorkspaceFollowsTask

\* What the steps that decide nothing about the task may do to the rows: a
\* workspace is given up only if its path is known.
RowsFrame ==
    /\ task'.status = task.status /\ task'.lease_token = task.lease_token /\ task'.attempt = task.attempt
    /\ node' = node
    /\ ws'.path = ws.path /\ ws'.runner = ws.runner
    /\ ws'.status \in {"releasing", "cleaning"} => ws.status \in {"releasing", "cleaning"} \/ (ws.path /\ ~ Local)

\* Such a step keeps the invariant.
LEMMA FrameKeeps ==
    ASSUME ProtocolInv, ProtocolTypeOK', \A e \in Exec : Carried(e), RowsFrame
    PROVE  ProtocolInv'
  <1> USE DEF RowsFrame
  <1>1. SlotsWork' /\ AttemptsApart'
    BY SlotsKept
  <1>2. LeaseFollowsRow'
    BY OwnerKept DEF ProtocolInv, LeaseFollowsRow
  <1>3. NodeFollowsTask'
    BY DEF ProtocolInv, NodeFollowsTask
  <1>4. WorkspaceFollowsTask'
    BY ClaimsKept DEF ProtocolInv, WorkspaceFollowsTask
  <1>5. CleanupAfterResult'
    BY DEF ProtocolInv, CleanupAfterResult, WorkspaceFollowsTask
  <1> QED BY <1>1, <1>2, <1>3, <1>4, <1>5 DEF ProtocolInv

\* Nothing but bookkeeping beside the rows and the slots.
LEMMA NothingKeeps ==
    ASSUME ProtocolInv, ProtocolTypeOK', UNCHANGED <<node, task, ws, slot>>
    PROVE  ProtocolInv'
  <1>1. (\A e \in Exec : Carried(e)) /\ RowsFrame
    BY DEF Carried, RowsFrame
  <1> QED BY <1>1, FrameKeeps

-----------------------------------------------------------------------------
(* Registration, heartbeats and operators.                                     *)

\* Steps of the registration and of the operator change no row of the task.
LEMMA RegistrySteps ==
    ASSUME ProtocolInv, NEW r \in Runner,
           Heartbeat(r) \/ GoesQuiet(r) \/ set_runner_enabled(r) \/ rotate_runner_token(r) \/ revoke_runner(r)
    PROVE  ProtocolInv'
  <1>1. ProtocolTypeOK
    BY DEF ProtocolInv
  <1>2. reg[r] \in RunnerRow /\ beat[r] \in RunnerStatus \cup {None}
    BY <1>1 DEF ProtocolTypeOK
  <1>3. UNCHANGED <<run, node, task, ws, disk, slot, hb, cl, rel>>
    BY DEF Heartbeat, register_runner, heartbeat_read, heartbeat_runner, GoesQuiet,
           set_runner_enabled, rotate_runner_token, revoke_runner, rows
  <1>4. beat' \in [Runner -> RunnerStatus \cup {None}]
    BY <1>1, <1>2 DEF ProtocolTypeOK, Heartbeat, register_runner, heartbeat_read, heartbeat_runner, GoesQuiet,
           set_runner_enabled, rotate_runner_token, revoke_runner, authenticate_runner, RunnerRow
  <1>5. faults' \in 0 .. MaxFaults /\ admin' \in 0 .. MaxAdmin
    BY <1>1, Bounds DEF ProtocolTypeOK, Heartbeat, register_runner, heartbeat_read, heartbeat_runner, GoesQuiet,
           set_runner_enabled, rotate_runner_token, revoke_runner
  <1>6. reg' \in [Runner -> RunnerRow]
    <2>1. CASE register_runner(r)
      BY <1>1, <2>1 DEF register_runner, ProtocolTypeOK, RunnerRow, Enrolled, RunnerStatus
    <2>2. CASE heartbeat_read(r)
      BY <1>1, <2>2 DEF heartbeat_read, ProtocolTypeOK
    <2>3. CASE heartbeat_runner(r)
      BY <1>1, <1>2, <2>3 DEF heartbeat_runner, ProtocolTypeOK, RunnerRow, RunnerStatus
    <2>4. CASE GoesQuiet(r)
      <3>1. reg' = [reg EXCEPT ![r].seen = FALSE]
        BY <2>4 DEF GoesQuiet
      <3> QED BY <1>1, <1>2, <3>1 DEF ProtocolTypeOK, RunnerRow
    <2>5. CASE rotate_runner_token(r)
      <3>1. reg' = [reg EXCEPT ![r].auth = FALSE]
        BY <2>5 DEF rotate_runner_token
      <3> QED BY <1>1, <1>2, <3>1 DEF ProtocolTypeOK, RunnerRow
    <2>6. CASE set_runner_enabled(r)
      <3>1. PICK status \in {"offline", "disabled"} : reg' = [reg EXCEPT ![r].status = status]
        BY <2>6 DEF set_runner_enabled
      <3> QED BY <1>1, <1>2, <3>1 DEF ProtocolTypeOK, RunnerRow, RunnerStatus
    <2>7. CASE revoke_runner(r)
      <3>1. reg' = [reg EXCEPT ![r].auth = FALSE, ![r].status = "disabled"]
        BY <2>7 DEF revoke_runner
      <3> QED BY <1>1, <1>2, <3>1 DEF ProtocolTypeOK, RunnerRow, RunnerStatus
    <2> QED BY <2>1, <2>2, <2>3, <2>4, <2>5, <2>6, <2>7 DEF Heartbeat
  <1>7. ProtocolTypeOK'
    BY <1>1, <1>3, <1>4, <1>5, <1>6 DEF ProtocolTypeOK
  <1> QED BY <1>3, <1>7, NothingKeeps

-----------------------------------------------------------------------------
(* The steps of a slot.                                                        *)

\* The fields of a slot that goes on.
LEMMA SlotFields ==
    ASSUME NEW s \in SlotState, NEW p \in Busy
    PROVE  /\ [s EXCEPT !.pc = p] \in SlotState
           /\ [s EXCEPT !.pc = p].pc = p
           /\ [s EXCEPT !.pc = p].token = s.token /\ [s EXCEPT !.pc = p].attempt = s.attempt
           /\ [s EXCEPT !.pc = p, !.clean = TRUE] \in SlotState
           /\ [s EXCEPT !.pc = p, !.clean = TRUE].pc = p
           /\ [s EXCEPT !.pc = p, !.clean = TRUE].token = s.token
           /\ [s EXCEPT !.pc = p, !.clean = TRUE].attempt = s.attempt
           /\ [s EXCEPT !.cancel = TRUE] \in SlotState
           /\ [s EXCEPT !.cancel = TRUE].pc = s.pc /\ [s EXCEPT !.cancel = TRUE].seen = s.seen
           /\ [s EXCEPT !.cancel = TRUE].token = s.token /\ [s EXCEPT !.cancel = TRUE].attempt = s.attempt
  BY DEF SlotState, Busy, Phase

\* The same when the submission is repeated.
LEMMA TriesFields ==
    ASSUME NEW s \in SlotState, s.tries # 2
    PROVE  /\ [s EXCEPT !.tries = @ + 1] \in SlotState
           /\ [s EXCEPT !.tries = @ + 1].pc = s.pc /\ [s EXCEPT !.tries = @ + 1].seen = s.seen
           /\ [s EXCEPT !.tries = @ + 1].token = s.token
           /\ [s EXCEPT !.tries = @ + 1].attempt = s.attempt
  BY DEF SlotState

\* A slot that ends or goes on carries its attempt; the other slots keep theirs.
LEMMA SlotMove ==
    ASSUME slot \in [Exec -> SlotState], NEW e \in Exec, NEW s \in SlotState, Goto(e, s),
           \/ s = Idle
           \/ /\ s.token = slot[e].token /\ s.attempt = slot[e].attempt
              /\ \/ s.pc = slot[e].pc /\ s.seen = slot[e].seen
                 \/ slot[e].pc \in Busy /\ s.pc \in Busy
    PROVE  slot' \in [Exec -> SlotState] /\ \A f \in Exec : Carried(f)
  <1>1. slot' \in [Exec -> SlotState] /\ slot'[e] = s /\ \A f \in Exec \ {e} : slot'[f] = slot[f]
    BY DEF Goto
  <1>2. Carried(e)
    BY <1>1 DEF Carried
  <1>3. \A f \in Exec \ {e} : Carried(f)
    BY <1>1 DEF Carried
  <1> QED BY <1>1, <1>2, <1>3

\* A slot that ends.
LEMMA SlotEnds ==
    ASSUME slot \in [Exec -> SlotState], NEW e \in Exec, Goto(e, Idle)
    PROVE  slot' \in [Exec -> SlotState] /\ \A f \in Exec : Carried(f)
  BY IdleFields, SlotMove

\* A submission that is repeated, or given up.
LEMMA SlotTriesAgain ==
    ASSUME slot \in [Exec -> SlotState], NEW e \in Exec, TryAgain(e)
    PROVE  slot' \in [Exec -> SlotState] /\ \A f \in Exec : Carried(f)
  <1>1. CASE slot[e].tries = 2
    BY <1>1, SlotEnds DEF TryAgain
  <1>2. CASE slot[e].tries # 2
    <2> DEFINE s == [slot[e] EXCEPT !.tries = @ + 1]
    <2>1. /\ s \in SlotState /\ s.token = slot[e].token /\ s.attempt = slot[e].attempt
          /\ s.pc = slot[e].pc /\ s.seen = slot[e].seen
      BY <1>2, TriesFields
    <2>2. Goto(e, s)
      BY <1>2 DEF TryAgain
    <2> HIDE DEF s
    <2> QED BY <2>1, <2>2, SlotMove
  <1> QED BY <1>1, <1>2

\* What happens to the slot in each step of its execution.
LEMMA SlotProceeds ==
    ASSUME ProtocolTypeOK, NEW e \in Exec,
           \/ claim_lost(e) \/ prepare_workspace(e) \/ execute_task(e) \/ execute_cancelled(e)
           \/ cleanup_cancelled(e) \/ report_cancelled(e) \/ heartbeat_task_denied(e)
           \/ submit_refused(e) \/ submit_lost(e) \/ upload_fails(e)
    PROVE  slot' \in [Exec -> SlotState] /\ \A f \in Exec : Carried(f)
  <1>1. slot \in [Exec -> SlotState] /\ slot[e] \in SlotState
    BY DEF ProtocolTypeOK
  <1>2. CASE claim_lost(e) \/ submit_refused(e) \/ upload_fails(e)
    BY <1>1, <1>2, SlotEnds DEF claim_lost, submit_refused, upload_fails
  <1>3. CASE submit_lost(e)
    BY <1>1, <1>3, SlotTriesAgain DEF submit_lost
  <1>4. ASSUME NEW p \in Busy, NEW q \in Result, slot[e].pc \in Busy,
               \/ Goto(e, [slot[e] EXCEPT !.pc = p])
               \/ Goto(e, [slot[e] EXCEPT !.pc = p, !.result = q])
               \/ Goto(e, [slot[e] EXCEPT !.pc = p, !.clean = TRUE])
        PROVE  slot' \in [Exec -> SlotState] /\ \A f \in Exec : Carried(f)
    <2>1. CASE Goto(e, [slot[e] EXCEPT !.pc = p])
      <3> DEFINE s == [slot[e] EXCEPT !.pc = p]
      <3>1. s \in SlotState /\ s.token = slot[e].token /\ s.attempt = slot[e].attempt /\ s.pc \in Busy
        BY <1>1, SlotFields
      <3>2. Goto(e, s)
        BY <2>1
      <3> HIDE DEF s
      <3> QED BY <1>1, <1>4, <3>1, <3>2, SlotMove
    <2>2. CASE Goto(e, [slot[e] EXCEPT !.pc = p, !.result = q])
      <3> DEFINE s == [slot[e] EXCEPT !.pc = p, !.result = q]
      <3>1. s \in SlotState /\ s.token = slot[e].token /\ s.attempt = slot[e].attempt /\ s.pc = p
        BY <1>1 DEF SlotState, Busy, Phase
      <3>2. Goto(e, s)
        BY <2>2
      <3> HIDE DEF s
      <3> QED BY <1>1, <1>4, <3>1, <3>2, SlotMove
    <2>3. CASE Goto(e, [slot[e] EXCEPT !.pc = p, !.clean = TRUE])
      <3> DEFINE s == [slot[e] EXCEPT !.pc = p, !.clean = TRUE]
      <3>1. s \in SlotState /\ s.token = slot[e].token /\ s.attempt = slot[e].attempt /\ s.pc \in Busy
        BY <1>1, SlotFields
      <3>2. Goto(e, s)
        BY <2>3
      <3> HIDE DEF s
      <3> QED BY <1>1, <1>4, <3>1, <3>2, SlotMove
    <2> QED BY <1>4, <2>1, <2>2, <2>3
  <1>5. CASE prepare_workspace(e)
    <2>1. slot[e].pc \in Busy
      BY <1>5 DEF prepare_workspace, Busy
    <2>2. CASE Goto(e, [slot[e] EXCEPT !.pc = "executing"])
      BY <1>4, <2>1, <2>2 DEF Result, Busy
    <2>3. CASE Goto(e, [slot[e] EXCEPT !.pc = "submitting", !.result = "no_path"])
      BY <1>4, <2>1, <2>3 DEF Result, Busy
    <2> QED BY <1>5, <2>2, <2>3 DEF prepare_workspace
  <1>6. CASE execute_task(e)
    <2>1. slot[e].pc \in Busy
      BY <1>6 DEF execute_task, Busy
    <2>2. PICK q \in {"ok", "exit_nonzero", "error"} : Goto(e, [slot[e] EXCEPT !.pc = "submitting", !.result = q])
      BY <1>6 DEF execute_task
    <2> QED BY <1>4, <2>1, <2>2 DEF Result, Busy
  <1>7. CASE execute_cancelled(e)
    BY <1>4, <1>7 DEF execute_cancelled, Result, Busy
  <1>8. CASE cleanup_cancelled(e)
    <2>1. slot[e].pc \in Busy
      BY <1>8 DEF cleanup_cancelled, Busy
    <2>2. CASE Goto(e, [slot[e] EXCEPT !.pc = "reporting", !.clean = TRUE])
      BY <1>4, <2>1, <2>2 DEF Result, Busy
    <2>3. CASE Goto(e, [slot[e] EXCEPT !.pc = "reporting"])
      BY <1>4, <2>1, <2>3 DEF Result, Busy
    <2> QED BY <1>8, <2>2, <2>3 DEF cleanup_cancelled
  <1>9. CASE report_cancelled(e)
    <2>1. slot[e].pc \in Busy
      BY <1>9 DEF report_cancelled, Busy
    <2>2. CASE Goto(e, [slot[e] EXCEPT !.pc = "submitting"])
      BY <1>4, <2>1, <2>2 DEF Result, Busy
    <2>3. CASE Goto(e, Idle)
      BY <1>1, <2>3, SlotEnds
    <2> QED BY <1>9, <2>2, <2>3 DEF report_cancelled
  <1>10. CASE heartbeat_task_denied(e)
    <2> DEFINE s == [slot[e] EXCEPT !.cancel = TRUE]
    <2>1. /\ s \in SlotState /\ s.token = slot[e].token /\ s.attempt = slot[e].attempt
          /\ s.pc = slot[e].pc /\ s.seen = slot[e].seen
      BY <1>1, SlotFields DEF Busy
    <2>2. Goto(e, s)
      BY <1>10 DEF heartbeat_task_denied
    <2> HIDE DEF s
    <2> QED BY <1>1, <2>1, <2>2, SlotMove
  <1> QED BY <1>2, <1>3, <1>5, <1>6, <1>7, <1>8, <1>9, <1>10

\* The steps of a slot that touch no row.
LEMMA SlotSteps ==
    ASSUME ProtocolInv, NEW e \in Exec,
           \/ claim_lost(e) \/ prepare_workspace(e) \/ execute_task(e) \/ execute_cancelled(e)
           \/ cleanup_cancelled(e) \/ heartbeat_task_denied(e)
           \/ submit_refused(e) \/ submit_lost(e) \/ upload_fails(e)
    PROVE  ProtocolInv'
  <1>1. ProtocolTypeOK
    BY DEF ProtocolInv
  <1>2. slot' \in [Exec -> SlotState] /\ \A f \in Exec : Carried(f)
    BY <1>1, SlotProceeds
  <1>3. UNCHANGED <<run, node, task, ws, reg, beat, hb, cl, rel, admin>>
    BY DEF claim_lost, prepare_workspace, execute_task, execute_cancelled, cleanup_cancelled,
           heartbeat_task_denied, submit_refused, submit_lost, upload_fails, rows, background
  <1>4. disk' \subseteq Runner
    BY <1>1, RunnerAssumption
       DEF ProtocolTypeOK, claim_lost, prepare_workspace, execute_task, execute_cancelled, cleanup_cancelled,
           heartbeat_task_denied, submit_refused, submit_lost, upload_fails
  <1>5. faults' \in 0 .. MaxFaults
    BY <1>1, Bounds
       DEF ProtocolTypeOK, claim_lost, prepare_workspace, execute_task, execute_cancelled, cleanup_cancelled,
           heartbeat_task_denied, submit_refused, submit_lost, upload_fails, TryAgain
  <1>6. ProtocolTypeOK'
    BY <1>1, <1>2, <1>3, <1>4, <1>5 DEF ProtocolTypeOK
  <1>7. RowsFrame
    BY <1>3 DEF RowsFrame
  <1> QED BY <1>2, <1>6, <1>7, FrameKeeps

\* A task heartbeat reads the row.
LEMMA HeartbeatReadStep ==
    ASSUME ProtocolInv, NEW e \in Exec, heartbeat_task_read(e)
    PROVE  ProtocolInv'
  <1>1. ProtocolTypeOK
    BY DEF ProtocolInv
  <1> DEFINE b == [token |-> slot[e].token,
                   ours |-> task.locked_by = RunnerOf[e] /\ task.lease_token = slot[e].token,
                   running |-> task.status = "running"]
  <1>2. hb' = [hb EXCEPT ![e] = b]
    BY DEF heartbeat_task_read
  <1>3. slot[e].token \in Token \cup {None}
    BY <1>1 DEF ProtocolTypeOK, SlotState
  <1>4. b \in Beat
    BY <1>3 DEF Beat
  <1>5. UNCHANGED <<run, node, task, ws, disk, reg, beat, slot, cl, rel, faults, admin>>
    BY DEF heartbeat_task_read, rows, background
  <1> HIDE DEF b
  <1>6. ProtocolTypeOK'
    BY <1>1, <1>2, <1>4, <1>5 DEF ProtocolTypeOK
  <1> QED BY <1>5, <1>6, NothingKeeps

\* A process that dies takes its slots with it.
LEMMA RunnerDiesStep ==
    ASSUME ProtocolInv, NEW r \in Runner, RunnerDies(r)
    PROVE  ProtocolInv'
  <1>1. ProtocolTypeOK
    BY DEF ProtocolInv
  <1>2. slot' \in [Exec -> SlotState]
    BY <1>1, IdleFields DEF RunnerDies, ProtocolTypeOK
  <1>3. \A e \in Exec : Carried(e)
    BY DEF RunnerDies, Carried
  <1>4. UNCHANGED <<run, node, task, ws, disk, reg, beat, hb, rel, admin>>
    BY DEF RunnerDies, rows
  <1>5. faults' \in 0 .. MaxFaults /\ cl' \in [Runner -> {None, "removing", "removed", "failed"}]
    BY <1>1, Bounds DEF ProtocolTypeOK, RunnerDies
  <1>6. ProtocolTypeOK'
    BY <1>1, <1>2, <1>4, <1>5 DEF ProtocolTypeOK
  <1>7. RowsFrame
    BY <1>4 DEF RowsFrame
  <1> QED BY <1>3, <1>6, <1>7, FrameKeeps

-----------------------------------------------------------------------------
(* The claim.                                                                  *)

\* The fields of a slot that has looked at the rows.
LEMMA ClaimingFields ==
    ASSUME NEW s \in SlotState, NEW v \in Snapshot
    PROVE  /\ [s EXCEPT !.pc = "claiming", !.seen = v] \in SlotState
           /\ [s EXCEPT !.pc = "claiming", !.seen = v].pc = "claiming"
           /\ [s EXCEPT !.pc = "claiming", !.seen = v].seen = v
           /\ [s EXCEPT !.pc = "claiming", !.seen = v].token = s.token
           /\ [s EXCEPT !.pc = "claiming", !.seen = v].attempt = s.attempt
  BY DEF SlotState, Phase

\* The first look of a claim at the rows.
LEMMA ClaimReadStep ==
    ASSUME ProtocolInv, NEW e \in Exec, claim_read(e)
    PROVE  ProtocolInv'
  <1>1. ProtocolTypeOK
    BY DEF ProtocolInv
  <1> DEFINE v == [ws |-> ws, node |-> node]
             s == [Idle EXCEPT !.pc = "claiming", !.seen = v]
  <1>2. v \in Snapshot /\ v.ws = ws
    BY <1>1 DEF ProtocolTypeOK, Snapshot
  <1> HIDE DEF v
  <1>3. s \in SlotState /\ s.pc = "claiming" /\ s.token = None /\ s.attempt = 0 /\ s.seen = v
    BY <1>2, IdleFields, ClaimingFields
  <1>4. slot' = [slot EXCEPT ![e] = s] /\ task.status = "pending"
    BY DEF claim_read, Goto, v
  <1> HIDE DEF s
  <1>5. slot' \in [Exec -> SlotState] /\ slot'[e] = s /\ \A f \in Exec \ {e} : slot'[f] = slot[f]
    BY <1>1, <1>3, <1>4 DEF ProtocolTypeOK
  <1>6. UNCHANGED <<run, node, task, ws, disk, reg, beat, hb, cl, rel, faults, admin>>
    BY DEF claim_read, rows, background
  <1>7. ProtocolTypeOK'
    BY <1>1, <1>5, <1>6 DEF ProtocolTypeOK
  <1>8. SlotsWork'
    BY <1>3, <1>5, <1>6 DEF ProtocolInv, SlotsWork
  <1>9. AttemptsApart'
    <2> SUFFICES ASSUME NEW f \in Exec, NEW g \in Exec, f # g, slot'[f].token # None
                 PROVE  slot'[f].attempt # slot'[g].attempt
      BY DEF AttemptsApart
    <2>1. f # e /\ slot'[f] = slot[f]
      BY <1>3, <1>5
    <2>2. slot[f].attempt \in 1 .. task.attempt /\ slot[f].attempt # slot[g].attempt
      BY <2>1 DEF ProtocolInv, SlotsWork, AttemptsApart
    <2>3. slot[f].attempt # 0
      BY <2>2
    <2>4. CASE g = e
      BY <1>3, <1>5, <2>1, <2>3, <2>4
    <2>5. CASE g # e
      BY <1>5, <2>1, <2>2, <2>5
    <2> QED BY <2>4, <2>5
  <1>10. LeaseFollowsRow'
    <2>1. LeaseFollowsRow
      BY DEF ProtocolInv
    <2>2. \A f \in Exec : slot'[f].token # None => slot'[f] = slot[f]
      BY <1>3, <1>5
    <2>3. ASSUME NEW f \in Exec, slot'[f].token # None, slot'[f].token = task'.lease_token
          PROVE  slot'[f].attempt = task'.attempt
      BY <1>6, <2>1, <2>2, <2>3 DEF LeaseFollowsRow
    <2> QED BY <1>6, <2>1, <2>3 DEF LeaseFollowsRow
  <1>11. NodeFollowsTask' /\ CleanupAfterResult'
    BY <1>6 DEF ProtocolInv, NodeFollowsTask, CleanupAfterResult
  <1>12. WorkspaceFollowsTask'
    <2>1. RunnerOf[e] # None
      BY RunnerAssumption
    <2>2. slot'[e].seen.ws.runner = RunnerOf[e] => ws.runner # None
      BY <1>2, <1>3, <1>5, <2>1
    <2>3. ASSUME NEW f \in Exec, slot'[f].pc = "claiming"
          PROVE  /\ task'.status # "absent"
                 /\ slot'[f].seen.ws.runner = RunnerOf[f] => ws'.runner # None
      <3>1. CASE f = e
        BY <1>4, <1>6, <2>2, <3>1
      <3>2. CASE f # e
        BY <1>5, <1>6, <2>3, <3>2 DEF ProtocolInv, WorkspaceFollowsTask
      <3> QED BY <3>1, <3>2
    <2> QED BY <1>6, <2>3 DEF ProtocolInv, WorkspaceFollowsTask
  <1> QED BY <1>7, <1>8, <1>9, <1>10, <1>11, <1>12 DEF ProtocolInv

\* The claim under the locks: a token that occurs nowhere, and an attempt beyond
\* those of all slots.
LEMMA ClaimStep ==
    ASSUME ProtocolInv, NEW e \in Exec, runner_claim(e)
    PROVE  ProtocolInv'
  <1>1. ProtocolTypeOK /\ task \in Row /\ ws \in Workspace /\ slot \in [Exec -> SlotState] /\ RunnerOf[e] \in Runner
    BY RunnerAssumption DEF ProtocolInv, ProtocolTypeOK
  <1> DEFINE k == CHOOSE x \in FreshToken : TRUE
             n == task.attempt + 1
             s == [Idle EXCEPT !.pc = "prepare", !.token = k, !.attempt = n]
  <1>2. k \in FreshToken
    BY DEF runner_claim
  <1>3. /\ task' = [status |-> "running", locked_by |-> RunnerOf[e], lease_token |-> k,
                    active |-> TRUE, attempt |-> n]
        /\ \/ Goto(e, s) /\ UNCHANGED faults
           \/ Fault /\ Goto(e, Idle)
    BY DEF runner_claim, NextAttempt
  <1> HIDE DEF k
  <1>4. k \in Token /\ k # None /\ \A f \in Exec : slot[f].token # k
    BY <1>2, RunnerAssumption DEF FreshToken
  <1>5. n \in Nat /\ n > task.attempt /\ task.attempt \in Nat
    BY <1>1 DEF Row
  <1> HIDE DEF n
  <1>6. s \in SlotState /\ s.pc = "prepare" /\ s.token = k /\ s.attempt = n
    BY <1>4, <1>5, IdleFields DEF SlotState, Phase
  <1> HIDE DEF s
  <1>7. /\ task' \in Row /\ task'.status = "running" /\ task'.lease_token = k /\ task'.attempt = n
    BY <1>1, <1>3, <1>4, <1>5 DEF Row, ExecutionTaskStatus
  <1>8. /\ slot' \in [Exec -> SlotState] /\ slot'[e] \in {s, Idle}
        /\ \A f \in Exec \ {e} : slot'[f] = slot[f]
        /\ faults' \in 0 .. MaxFaults
    BY <1>1, <1>3, <1>6, IdleFields, Bounds DEF Goto, ProtocolTypeOK
  <1>9. UNCHANGED <<run, disk, reg, beat, hb, cl, rel, admin>>
    BY DEF runner_claim, background
  <1>10. slot[e].pc = "claiming" /\ task.status = "pending"
    BY DEF runner_claim, Claimable
  <1>11. node' \in NodeRunStatus /\ ~ is_node_run_terminal(node')
    <2>1. node \in NodeRunStatus /\ ~ is_node_run_terminal(node)
      BY <1>1, <1>10 DEF ProtocolInv, NodeFollowsTask, ProtocolTypeOK
    <2>2. node' \in {node, "running"}
      BY DEF runner_claim
    <2> QED BY <2>1, <2>2 DEF NodeRunStatus, is_node_run_terminal, NODE_RUN_TERMINAL
  <1> DEFINE st == IF slot[e].seen.ws.status = "in_use" THEN ws.status ELSE "in_use"
             o == IF slot[e].seen.ws.runner = RunnerOf[e] THEN ws.runner ELSE RunnerOf[e]
  <1>12. /\ ws' = [ws EXCEPT !.status = st, !.runner = o]
         /\ st \in {ws.status, "in_use"}
         /\ o = RunnerOf[e] \/ (o = ws.runner /\ slot[e].seen.ws.runner = RunnerOf[e])
    <2>1. ws' = [ws EXCEPT !.status = st, !.runner = o]
      BY Zenon DEF runner_claim
    <2> QED BY <2>1
  <1> HIDE DEF st, o
  <1>13. o \in Runner
    BY <1>1, <1>10, <1>12, RunnerAssumption DEF ProtocolInv, WorkspaceFollowsTask, Workspace
  <1>14. ws' \in Workspace /\ ws'.status = st /\ ws'.runner = o /\ ws'.path = ws.path
    BY <1>1, <1>12, <1>13 DEF Workspace, WorkspaceStatus
  <1>15. ~ ws.path /\ ws.status \notin {"releasing", "cleaning"}
    BY <1>10 DEF ProtocolInv, WorkspaceFollowsTask, CleanupAfterResult, is_execution_task_terminal,
                 EXECUTION_TASK_TERMINAL
  <1>16. ProtocolTypeOK'
    BY <1>1, <1>7, <1>8, <1>9, <1>11, <1>14 DEF ProtocolTypeOK
  <1>17. \A f \in Exec : slot[f].attempt \in Nat /\ slot[f].attempt <= task.attempt /\ slot[f].attempt # n
    <2> SUFFICES ASSUME NEW f \in Exec
                 PROVE  slot[f].attempt \in Nat /\ slot[f].attempt <= task.attempt /\ slot[f].attempt # n
      OBVIOUS
    <2>1. slot[f].attempt = 0 \/ slot[f].attempt \in 1 .. task.attempt
      BY DEF ProtocolInv, SlotsWork
    <2> QED BY <1>5, <2>1
  <1>18. SlotsWork'
    <2> SUFFICES ASSUME NEW f \in Exec
                 PROVE  /\ slot'[f].pc \in {"idle", "claiming"} <=> slot'[f].token = None
                        /\ slot'[f].token = None => slot'[f].attempt = 0
                        /\ slot'[f].token # None => slot'[f].attempt \in 1 .. task'.attempt
      BY DEF SlotsWork
    <2>1. CASE f # e
      <3>1. /\ slot[f].pc \in {"idle", "claiming"} <=> slot[f].token = None
            /\ slot[f].token = None => slot[f].attempt = 0
            /\ slot[f].token # None => slot[f].attempt \in 1 .. task.attempt
        BY DEF ProtocolInv, SlotsWork
      <3> QED BY <1>5, <1>7, <1>8, <2>1, <3>1
    <2>2. CASE f = e /\ slot'[e] = s
      BY <1>4, <1>5, <1>6, <1>7, <2>2
    <2>3. CASE f = e /\ slot'[e] = Idle
      BY <2>3, IdleFields
    <2> QED BY <1>8, <2>1, <2>2, <2>3
  <1>19. AttemptsApart'
    <2> SUFFICES ASSUME NEW f \in Exec, NEW g \in Exec, f # g, slot'[f].token # None
                 PROVE  slot'[f].attempt # slot'[g].attempt
      BY DEF AttemptsApart
    <2>1. CASE f = e
      <3>1. slot'[f].attempt = n /\ slot'[g] = slot[g]
        BY <1>6, <1>8, <2>1, IdleFields
      <3> QED BY <1>17, <3>1
    <2>2. CASE f # e
      <3>1. slot'[f] = slot[f] /\ slot[f].attempt \in 1 .. task.attempt /\ slot[f].attempt # slot[g].attempt
        BY <1>8, <2>2 DEF ProtocolInv, SlotsWork, AttemptsApart
      <3>2. slot'[g].attempt \in {slot[g].attempt, n, 0}
        BY <1>6, <1>8, IdleFields
      <3>3. slot[f].attempt # 0
        BY <3>1
      <3> QED BY <1>17, <3>1, <3>2, <3>3
    <2> QED BY <2>1, <2>2
  <1>20. LeaseFollowsRow'
    <2>1. ASSUME NEW f \in Exec, slot'[f].token # None, slot'[f].token = task'.lease_token
          PROVE  slot'[f].attempt = task'.attempt
      <3>1. f = e
        BY <1>4, <1>7, <1>8, <2>1
      <3> QED BY <1>6, <1>7, <1>8, <2>1, <3>1, IdleFields
    <2> QED BY <1>4, <1>7, <2>1 DEF LeaseFollowsRow
  <1>21. NodeFollowsTask'
    BY <1>7, <1>11 DEF NodeFollowsTask, is_execution_task_terminal, EXECUTION_TASK_TERMINAL
  <1>22. WorkspaceFollowsTask' /\ CleanupAfterResult'
    <2>1. o # None /\ ~ ws'.path /\ task'.status = "running" /\ ws'.runner = o
      BY <1>7, <1>13, <1>14, <1>15, RunnerAssumption
    <2>2. ws'.status \notin {"releasing", "cleaning"}
      BY <1>12, <1>14, <1>15
    <2> QED BY <2>1, <2>2 DEF WorkspaceFollowsTask, CleanupAfterResult
  <1> QED BY <1>16, <1>18, <1>19, <1>20, <1>21, <1>22 DEF ProtocolInv

-----------------------------------------------------------------------------
(* The task heartbeat and the workspace.                                       *)

\* A heartbeat renews the lease of whatever the row is now; that changes no owner.
LEMMA HeartbeatStep ==
    ASSUME ProtocolInv, NEW e \in Exec, runner_task_heartbeat(e)
    PROVE  ProtocolInv'
  <1>1. ProtocolTypeOK /\ task \in Row /\ slot \in [Exec -> SlotState] /\ slot[e] \in SlotState
    BY DEF ProtocolInv, ProtocolTypeOK
  <1>2. UNCHANGED <<run, node, ws, disk, beat, cl, rel, admin>> /\ hb' = [hb EXCEPT ![e] = NoBeat]
    BY DEF runner_task_heartbeat, background
  <1>3. task' = task \/ task' = [task EXCEPT !.active = TRUE]
    BY DEF runner_task_heartbeat, RenewedRow
  <1>4. /\ task' \in Row /\ task'.status = task.status /\ task'.lease_token = task.lease_token
        /\ task'.attempt = task.attempt
    BY <1>1, <1>3 DEF Row
  <1>5. reg' \in [Runner -> RunnerRow]
    <2> DEFINE r == RunnerOf[e]
               b == reg[r].seen \/ hb[e].ours
    <2>1. r \in Runner /\ b \in BOOLEAN
      BY <1>1, RunnerAssumption DEF ProtocolTypeOK, RunnerRow, Beat
    <2>2. reg' = [reg EXCEPT ![r].seen = b]
      BY Zenon DEF runner_task_heartbeat
    <2> HIDE DEF r, b
    <2>3. reg[r] \in RunnerRow /\ reg \in [Runner -> RunnerRow]
      BY <1>1, <2>1 DEF ProtocolTypeOK
    <2> QED BY <2>1, <2>2, <2>3 DEF RunnerRow
  <1>6. faults' \in 0 .. MaxFaults
    BY <1>1, Bounds DEF ProtocolTypeOK, runner_task_heartbeat
  <1>7. slot' \in [Exec -> SlotState] /\ \A f \in Exec : Carried(f)
    <2> DEFINE told == CancelSignal(e) /\ Monitored(e) /\ slot[e].token = hb[e].token
               c == slot[e].cancel \/ told
               s == [slot[e] EXCEPT !.cancel = c]
    <2>1. UNCHANGED slot \/ slot' = [slot EXCEPT ![e].cancel = c]
      BY Zenon DEF runner_task_heartbeat
    <2>2. c \in BOOLEAN
      BY <1>1 DEF SlotState
    <2> HIDE DEF c
    <2>3. /\ s \in SlotState /\ s.token = slot[e].token /\ s.attempt = slot[e].attempt
          /\ s.pc = slot[e].pc /\ s.seen = slot[e].seen
      BY <1>1, <2>2 DEF SlotState
    <2>4. UNCHANGED slot \/ Goto(e, s)
      BY <2>1 DEF Goto
    <2> HIDE DEF s
    <2>5. CASE UNCHANGED slot
      BY <1>1, <2>5 DEF Carried
    <2>6. CASE Goto(e, s)
      BY <1>1, <2>3, <2>6, SlotMove
    <2> QED BY <2>4, <2>5, <2>6
  <1>8. NoBeat \in Beat
    BY DEF NoBeat, Beat
  <1>9. ProtocolTypeOK'
    BY <1>1, <1>2, <1>4, <1>5, <1>6, <1>7, <1>8 DEF ProtocolTypeOK
  <1>10. RowsFrame
    BY <1>2, <1>4 DEF RowsFrame
  <1> QED BY <1>7, <1>9, <1>10, FrameKeeps

\* A report of a cleanup gives no workspace up.
LEMMA ReportFrame ==
    ASSUME ws \in Workspace, NEW r \in Runner, NEW ok \in BOOLEAN, complete_workspace_cleanup(r, ok)
    PROVE  /\ ws' \in Workspace /\ ws'.path = ws.path /\ ws'.runner = ws.runner
           /\ ws'.status \in {"releasing", "cleaning"} => ws.status \in {"releasing", "cleaning"}
  <1>1. CASE UNCHANGED ws
    BY <1>1
  <1>2. CASE ws' = Cleaned(ok)
    <2> DEFINE p == IF ok THEN "released" ELSE "cleanup_failed"
    <2>1. p \in {"released", "cleanup_failed"} /\ ws' = [ws EXCEPT !.status = p, !.stale = FALSE]
      BY <1>2 DEF Cleaned
    <2> HIDE DEF p
    <2>2. p \in WorkspaceStatus
      BY <2>1 DEF WorkspaceStatus
    <2> QED BY <2>1, <2>2 DEF Workspace
  <1> QED BY <1>1, <1>2 DEF complete_workspace_cleanup

\* The steps of the workspace: it is given up only with a path, that is after
\* the final result of its task.
LEMMA WorkspaceSteps ==
    ASSUME ProtocolInv,
           \/ \E e \in Exec : report_cancelled(e)
           \/ \E r \in Runner : Cleanup(r)
           \/ CleanupStale \/ release_read \/ release_workspace
    PROVE  ProtocolInv'
  <1>1. ProtocolTypeOK /\ ws \in Workspace
    BY DEF ProtocolInv, ProtocolTypeOK
  <1>2. UNCHANGED <<run, node, task, reg, beat, hb>>
    BY DEF report_cancelled, Cleanup, claim_workspace_cleanup, cleanup_workspace, report_cleanup,
           CleanupStale, release_read, release_workspace, rows, background
  <1>3. slot' \in [Exec -> SlotState] /\ \A f \in Exec : Carried(f)
    <2>1. CASE \E e \in Exec : report_cancelled(e)
      BY <1>1, <2>1, SlotProceeds
    <2>2. CASE UNCHANGED slot
      BY <1>1, <2>2 DEF Carried, ProtocolTypeOK
    <2> QED BY <2>1, <2>2 DEF Cleanup, claim_workspace_cleanup, cleanup_workspace, report_cleanup,
                              CleanupStale, release_read, release_workspace
  <1>4. /\ disk' \subseteq Runner /\ faults' \in 0 .. MaxFaults /\ admin' \in 0 .. MaxAdmin
        /\ cl' \in [Runner -> {None, "removing", "removed", "failed"}]
        /\ rel' \in WorkspaceStatus \cup {None}
    <2>1. CASE \E e \in Exec : report_cancelled(e)
      BY <1>1, <2>1, Bounds DEF ProtocolTypeOK, report_cancelled, background
    <2>2. CASE \E r \in Runner : Cleanup(r)
      BY <1>1, <2>2, Bounds DEF ProtocolTypeOK, Cleanup, claim_workspace_cleanup, cleanup_workspace, report_cleanup
    <2>3. CASE CleanupStale \/ release_read \/ release_workspace
      BY <1>1, <2>3, Bounds DEF ProtocolTypeOK, CleanupStale, release_read, release_workspace, background,
                                WorkspaceStatus
    <2> QED BY <2>1, <2>2, <2>3
  <1>5. /\ ws' \in Workspace /\ ws'.path = ws.path /\ ws'.runner = ws.runner
        /\ ws'.status \in {"releasing", "cleaning"} => ws.status \in {"releasing", "cleaning"} \/ (ws.path /\ ~ Local)
    <2>1. CASE UNCHANGED ws
      BY <1>1, <2>1
    <2>2. ASSUME NEW r \in Runner, NEW ok \in BOOLEAN, complete_workspace_cleanup(r, ok)
          PROVE  /\ ws' \in Workspace /\ ws'.path = ws.path /\ ws'.runner = ws.runner
                 /\ ws'.status \in {"releasing", "cleaning"} => ws.status \in {"releasing", "cleaning"}
      BY <1>1, <2>2, ReportFrame
    <2>3. ASSUME NEW e \in Exec, report_cancelled(e), ~ UNCHANGED ws
          PROVE  /\ ws' \in Workspace /\ ws'.path = ws.path /\ ws'.runner = ws.runner
                 /\ ws'.status \in {"releasing", "cleaning"} => ws.status \in {"releasing", "cleaning"}
      <3>1. RunnerOf[e] \in Runner /\ slot[e].clean \in BOOLEAN
        BY <1>1, RunnerAssumption DEF ProtocolTypeOK, SlotState
      <3>2. complete_workspace_cleanup(RunnerOf[e], slot[e].clean)
        BY <2>3 DEF report_cancelled
      <3> QED BY <2>2, <3>1, <3>2
    <2>4. ASSUME NEW r \in Runner, report_cleanup(r), ~ UNCHANGED ws
          PROVE  /\ ws' \in Workspace /\ ws'.path = ws.path /\ ws'.runner = ws.runner
                 /\ ws'.status \in {"releasing", "cleaning"} => ws.status \in {"releasing", "cleaning"}
      <3>1. complete_workspace_cleanup(r, cl[r] = "removed")
        BY <2>4 DEF report_cleanup
      <3>2. (cl[r] = "removed") \in BOOLEAN
        OBVIOUS
      <3> QED BY <2>2, <3>1, <3>2
    <2>5. ASSUME NEW r \in Runner, claim_workspace_cleanup(r)
          PROVE  /\ ws' \in Workspace /\ ws'.path = ws.path /\ ws'.runner = ws.runner
                 /\ ws.status \in {"releasing", "cleaning"}
      <3>1. ws' = [ws EXCEPT !.status = "cleaning", !.stale = FALSE] /\ ws.status \in {"releasing", "cleaning"}
        BY <2>5 DEF claim_workspace_cleanup, CleanupDue
      <3> QED BY <1>1, <3>1 DEF Workspace, WorkspaceStatus
    <2>6. ASSUME NEW r \in Runner, cleanup_workspace(r)
          PROVE  UNCHANGED ws
      BY <2>6 DEF cleanup_workspace, rows
    <2>7. CASE CleanupStale
      <3>1. ws' = [ws EXCEPT !.stale = TRUE]
        BY <2>7 DEF CleanupStale
      <3> QED BY <1>1, <3>1 DEF Workspace
    <2>8. CASE release_read
      BY <2>1, <2>8 DEF release_read, rows
    <2>9. CASE release_workspace
      <3>1. ws' = [ws EXCEPT !.status = ReleaseTarget]
        BY <2>9 DEF release_workspace
      <3>2. ReleaseTarget \in {"released", "releasing"} /\ (ReleaseTarget = "releasing" => ws.path /\ ~ Local)
        BY <1>1, RunnerAssumption DEF ReleaseTarget, Workspace
      <3>3. ReleaseTarget \in WorkspaceStatus
        BY <3>2 DEF WorkspaceStatus
      <3>4. ws' \in Workspace /\ ws'.path = ws.path /\ ws'.runner = ws.runner /\ ws'.status = ReleaseTarget
        BY <1>1, <3>1, <3>3 DEF Workspace
      <3> QED BY <3>2, <3>4
    <2> QED BY <2>1, <2>3, <2>4, <2>5, <2>6, <2>7, <2>8, <2>9 DEF Cleanup
  <1>6. ProtocolTypeOK'
    BY <1>1, <1>2, <1>3, <1>4, <1>5 DEF ProtocolTypeOK
  <1>7. RowsFrame
    BY <1>2, <1>5 DEF RowsFrame
  <1> QED BY <1>3, <1>6, <1>7, FrameKeeps

-----------------------------------------------------------------------------
(* The result.                                                                 *)

\* A slot that owns the row holds it and works on its last attempt.
LEMMA OwnerHolds ==
    ASSUME ProtocolInv, NEW e \in Exec, slot[e].token # None, owns(e)
    PROVE  /\ task.status = "running" /\ task.active
           /\ task.lease_token = slot[e].token /\ task.attempt = slot[e].attempt
  <1>1. /\ task.lease_token = slot[e].token /\ task.active
        /\ task.status \notin EXECUTION_TASK_TERMINAL
    BY DEF owns
  <1>2. task.status \in ExecutionTaskStatus \cup {"absent"}
    BY DEF ProtocolInv, ProtocolTypeOK, Row
  <1>3. task.status = "running"
    BY <1>1, <1>2 DEF ProtocolInv, LeaseFollowsRow, ExecutionTaskStatus, EXECUTION_TASK_TERMINAL
  <1>4. task.attempt = slot[e].attempt
    BY <1>1 DEF ProtocolInv, LeaseFollowsRow
  <1> QED BY <1>1, <1>3, <1>4

\* A slot that submits has a token.
LEMMA SubmitterHasToken ==
    ASSUME ProtocolInv, NEW e \in Exec, slot[e].pc = "submitting"
    PROVE  slot[e].token # None
  BY DEF ProtocolInv, SlotsWork

\* Both outcomes of the transaction.
LEMMA AppliedRow ==
    ASSUME ProtocolInv, NEW e \in Exec, slot[e].pc = "submitting", Accepts(e), Applied(e)
    PROVE  /\ task' \in Row /\ task'.attempt = task.attempt
           /\ \/ /\ task'.status = "retry_wait" /\ task'.lease_token = None
                 /\ node' = "retrying" /\ ws' = ws
              \/ /\ task'.status \in {"completed", "failed"} /\ task'.lease_token = task.lease_token
                 /\ node' \in {"completed", "failed"}
                 /\ ws' \in Workspace /\ ws'.runner = ws.runner
                 /\ ws'.status \in {"releasing", "cleaning"} => ws'.path /\ ~ Local
  <1>1. task \in Row /\ ws \in Workspace
    BY DEF ProtocolInv, ProtocolTypeOK
  <1>2. CASE should_retry(e)
    <2>1. slot[e].result # "ok"
      BY <1>2 DEF should_retry
    <2>2. Outcome(e) = [task |-> "retry_wait", node |-> "retrying"]
      BY <1>2, <2>1 DEF Outcome
    <2>3. task' = [task EXCEPT !.status = "retry_wait", !.locked_by = None, !.lease_token = None, !.active = FALSE]
      BY <1>2 DEF Applied
    <2>4. node' = "retrying" /\ ws' = ws
      BY <1>2, <2>2 DEF Applied
    <2>5. task' \in Row /\ task'.attempt = task.attempt /\ task'.status = "retry_wait" /\ task'.lease_token = None
      BY <1>1, <2>3 DEF Row, ExecutionTaskStatus
    <2> QED BY <2>4, <2>5
  <1>3. CASE ~ should_retry(e)
    <2>1. Outcome(e).task \in {"completed", "failed"} /\ Outcome(e).node \in {"completed", "failed"}
      BY <1>3 DEF Outcome
    <2>2. task' = [task EXCEPT !.status = Outcome(e).task] /\ node' = Outcome(e).node
          /\ ws' = _sync_workspace_result(e)
      BY <1>3 DEF Applied
    <2>3. Outcome(e).task \in ExecutionTaskStatus
      BY <2>1 DEF ExecutionTaskStatus
    <2>4. /\ task' \in Row /\ task'.attempt = task.attempt /\ task'.status = Outcome(e).task
          /\ task'.lease_token = task.lease_token
      BY <1>1, <2>2, <2>3 DEF Row
    <2> DEFINE path == ws.path \/ slot[e].result # "no_path"
               st == IF ~ path \/ slot[e].result # "ok" THEN "failed" ELSE IF Local THEN "released" ELSE "releasing"
    <2>5. ws' = [ws EXCEPT !.path = path, !.status = st]
      BY <2>2 DEF _sync_workspace_result
    <2>6. path \in BOOLEAN /\ st \in {"failed", "released", "releasing"} /\ (st = "releasing" => path /\ ~ Local)
      BY <1>1, RunnerAssumption DEF Workspace
    <2> HIDE DEF path, st
    <2>7. ws' \in Workspace /\ ws'.runner = ws.runner /\ ws'.path = path /\ ws'.status = st
      BY <1>1, <2>5, <2>6 DEF Workspace, WorkspaceStatus
    <2> QED BY <2>1, <2>2, <2>4, <2>6, <2>7
  <1> QED BY <1>2, <1>3

\* An accepted submission, answered or not.
LEMMA SubmitStep ==
    ASSUME ProtocolInv, NEW e \in Exec, runner_submit(e)
    PROVE  ProtocolInv'
  <1>1. ProtocolTypeOK /\ slot \in [Exec -> SlotState]
    BY DEF ProtocolInv, ProtocolTypeOK
  <1>2. slot[e].pc = "submitting" /\ Accepts(e) /\ Applied(e) /\ owns(e)
    BY DEF runner_submit, Accepts
  <1>3. task.status = "running" /\ slot[e].token # None /\ task.lease_token = slot[e].token
    BY <1>2, SubmitterHasToken, OwnerHolds
  <1>4. /\ slot' \in [Exec -> SlotState] /\ \A f \in Exec : Carried(f)
        /\ faults' \in 0 .. MaxFaults
    <2>1. CASE Goto(e, Idle) /\ UNCHANGED faults
      BY <1>1, <2>1, SlotEnds DEF ProtocolTypeOK
    <2>2. CASE TryAgain(e)
      <3>1. Fault
        BY <2>2 DEF TryAgain
      <3> QED BY <1>1, <2>2, <3>1, SlotTriesAgain, Bounds DEF ProtocolTypeOK
    <2> QED BY <2>1, <2>2 DEF runner_submit
  <1>5. UNCHANGED <<run, disk, reg, beat, hb, cl, rel, admin>>
    BY DEF runner_submit, background
  <1>6. ws.runner # None /\ ~ ws.path /\ ws.status \notin {"releasing", "cleaning"}
    BY <1>3 DEF ProtocolInv, WorkspaceFollowsTask, CleanupAfterResult, is_execution_task_terminal,
                EXECUTION_TASK_TERMINAL
  <1>7. CASE /\ task' \in Row /\ task'.attempt = task.attempt
             /\ task'.status = "retry_wait" /\ task'.lease_token = None
             /\ node' = "retrying" /\ ws' = ws
    <2>1. ProtocolTypeOK'
      BY <1>1, <1>4, <1>5, <1>7 DEF ProtocolTypeOK, NodeRunStatus
    <2>2. SlotsWork' /\ AttemptsApart'
      BY <1>4, <1>7, SlotsKept
    <2>3. LeaseFollowsRow'
      BY <1>4, <1>7, OwnerKept DEF LeaseFollowsRow
    <2>4. NodeFollowsTask'
      BY <1>7 DEF NodeFollowsTask, is_node_run_terminal, NODE_RUN_TERMINAL, is_execution_task_terminal,
                  EXECUTION_TASK_TERMINAL
    <2>5. WorkspaceFollowsTask' /\ CleanupAfterResult'
      BY <1>4, <1>6, <1>7, ClaimsKept DEF WorkspaceFollowsTask, CleanupAfterResult
    <2> QED BY <2>1, <2>2, <2>3, <2>4, <2>5 DEF ProtocolInv
  <1>8. CASE /\ task' \in Row /\ task'.attempt = task.attempt
             /\ task'.status \in {"completed", "failed"} /\ task'.lease_token = task.lease_token
             /\ node' \in {"completed", "failed"}
             /\ ws' \in Workspace /\ ws'.runner = ws.runner
             /\ ws'.status \in {"releasing", "cleaning"} => ws'.path /\ ~ Local
    <2>1. ProtocolTypeOK'
      BY <1>1, <1>4, <1>5, <1>8 DEF ProtocolTypeOK, NodeRunStatus
    <2>2. SlotsWork' /\ AttemptsApart'
      BY <1>4, <1>8, SlotsKept
    <2>3. LeaseFollowsRow'
      BY <1>4, <1>8, OwnerKept DEF LeaseFollowsRow
    <2>4. NodeFollowsTask' /\ is_execution_task_terminal(task'.status)
      BY <1>8 DEF NodeFollowsTask, is_node_run_terminal, NODE_RUN_TERMINAL, is_execution_task_terminal,
                  EXECUTION_TASK_TERMINAL
    <2>5. WorkspaceFollowsTask' /\ CleanupAfterResult'
      BY <1>4, <1>6, <1>8, <2>4, ClaimsKept DEF WorkspaceFollowsTask, CleanupAfterResult
    <2> QED BY <2>1, <2>2, <2>3, <2>4, <2>5 DEF ProtocolInv
  <1> QED BY <1>2, <1>7, <1>8, AppliedRow

-----------------------------------------------------------------------------
(* The rest of the control plane.                                              *)

\* Submission of the task, its cancellation, expiry, recovery and retry.
LEMMA SchedulerSteps ==
    ASSUME ProtocolInv,
           \/ _attach_workspace \/ cancel_run \/ pause_run \/ resume_run \/ reconcile_run
           \/ LeaseExpires \/ recover_expired \/ promote_due_retries
    PROVE  ProtocolInv'
  <1>1. ProtocolTypeOK /\ task \in Row /\ ws \in Workspace /\ node \in NodeRunStatus
    BY DEF ProtocolInv, ProtocolTypeOK
  <1>2. UNCHANGED <<disk, reg, beat, cl, rel, slot, hb>>
    BY DEF _attach_workspace, cancel_run, pause_run, resume_run, reconcile_run, LeaseExpires,
           recover_expired, promote_due_retries, background, Served
  <1>3. \A f \in Exec : Carried(f)
    BY <1>2 DEF Carried
  <1>4. faults' \in 0 .. MaxFaults /\ admin' \in 0 .. MaxAdmin /\ run' \in WorkflowRunStatus
    BY <1>1, Bounds DEF _attach_workspace, cancel_run, pause_run, resume_run, reconcile_run, LeaseExpires,
           recover_expired, promote_due_retries, ProtocolTypeOK, WorkflowRunStatus
  <1>5. CASE pause_run \/ resume_run \/ reconcile_run
    <2>1. UNCHANGED <<node, task, ws>>
      BY <1>5 DEF pause_run, resume_run, reconcile_run
    <2>2. ProtocolTypeOK'
      BY <1>1, <1>2, <1>4, <2>1 DEF ProtocolTypeOK
    <2> QED BY <1>2, <2>1, <2>2, NothingKeeps
  <1>6. CASE LeaseExpires
    <2>1. task' = [task EXCEPT !.active = FALSE] /\ UNCHANGED <<node, ws>>
      BY <1>6 DEF LeaseExpires
    <2>2. /\ task' \in Row /\ task'.status = task.status /\ task'.lease_token = task.lease_token
          /\ task'.attempt = task.attempt
      BY <1>1, <2>1 DEF Row
    <2>3. ProtocolTypeOK'
      BY <1>1, <1>2, <1>4, <2>1, <2>2 DEF ProtocolTypeOK
    <2>4. RowsFrame
      BY <2>1, <2>2 DEF RowsFrame
    <2> QED BY <1>3, <2>3, <2>4, FrameKeeps
  <1>7. CASE recover_expired
    <2>1. /\ task' = [task EXCEPT !.status = "pending", !.locked_by = None, !.lease_token = None]
          /\ task.status = "running" /\ UNCHANGED <<node, ws>>
      BY <1>7 DEF recover_expired
    <2>2. task' \in Row /\ task'.status = "pending" /\ task'.lease_token = None /\ task'.attempt = task.attempt
      BY <1>1, <2>1 DEF Row, ExecutionTaskStatus
    <2>3. ProtocolTypeOK'
      BY <1>1, <1>2, <1>4, <2>1, <2>2 DEF ProtocolTypeOK
    <2>4. SlotsWork' /\ AttemptsApart'
      BY <1>3, <2>2, SlotsKept
    <2>5. LeaseFollowsRow'
      BY <1>3, <2>2, OwnerKept DEF LeaseFollowsRow
    <2>6. NodeFollowsTask'
      BY <2>1, <2>2 DEF ProtocolInv, NodeFollowsTask, is_execution_task_terminal, EXECUTION_TASK_TERMINAL
    <2>7. ~ ws.path /\ ws.status \notin {"releasing", "cleaning"}
      BY <2>1 DEF ProtocolInv, WorkspaceFollowsTask, CleanupAfterResult, is_execution_task_terminal,
                  EXECUTION_TASK_TERMINAL
    <2>8. WorkspaceFollowsTask' /\ CleanupAfterResult'
      BY <1>3, <2>1, <2>2, <2>7, ClaimsKept DEF WorkspaceFollowsTask, CleanupAfterResult
    <2> QED BY <2>3, <2>4, <2>5, <2>6, <2>8 DEF ProtocolInv
  <1>8. CASE promote_due_retries
    <2>1. task' = [task EXCEPT !.status = "pending"] /\ task.status = "retry_wait" /\ node' = "queued" /\ ws' = ws
      BY <1>8 DEF promote_due_retries
    <2>2. /\ task' \in Row /\ task'.status = "pending" /\ task'.lease_token = task.lease_token
          /\ task'.attempt = task.attempt
      BY <1>1, <2>1 DEF Row, ExecutionTaskStatus
    <2>3. ProtocolTypeOK'
      BY <1>1, <1>2, <1>4, <2>1, <2>2 DEF ProtocolTypeOK, NodeRunStatus
    <2>4. SlotsWork' /\ AttemptsApart'
      BY <1>3, <2>2, SlotsKept
    <2>5. task.lease_token = None
      BY <2>1 DEF ProtocolInv, LeaseFollowsRow
    <2>6. LeaseFollowsRow'
      BY <1>3, <2>2, <2>5, OwnerKept DEF LeaseFollowsRow
    <2>7. NodeFollowsTask'
      BY <2>1, <2>2 DEF NodeFollowsTask, is_execution_task_terminal, EXECUTION_TASK_TERMINAL,
                        is_node_run_terminal, NODE_RUN_TERMINAL
    <2>8. ~ ws.path /\ ws.status \notin {"releasing", "cleaning"}
      BY <2>1 DEF ProtocolInv, WorkspaceFollowsTask, CleanupAfterResult, is_execution_task_terminal,
                  EXECUTION_TASK_TERMINAL
    <2>9. WorkspaceFollowsTask' /\ CleanupAfterResult'
      BY <1>3, <2>1, <2>2, <2>5, <2>8, ClaimsKept DEF WorkspaceFollowsTask, CleanupAfterResult
    <2> QED BY <2>3, <2>4, <2>6, <2>7, <2>9 DEF ProtocolInv
  <1>9. CASE _attach_workspace
    <2>1. /\ task' = [task EXCEPT !.status = "pending"] /\ task.status = "absent" /\ node' = "queued"
          /\ ws' = [ws EXCEPT !.status = "creating", !.runner = Target]
      BY <1>9 DEF _attach_workspace, create_workspace
    <2>2. /\ task' \in Row /\ task'.status = "pending" /\ task'.lease_token = task.lease_token
          /\ task'.attempt = task.attempt
      BY <1>1, <2>1 DEF Row, ExecutionTaskStatus
    <2>3. ws' \in Workspace /\ ws'.status = "creating" /\ ws'.path = ws.path
      BY <1>1, <2>1, RunnerAssumption DEF Workspace, WorkspaceStatus
    <2>4. ProtocolTypeOK'
      BY <1>1, <1>2, <1>4, <2>1, <2>2, <2>3 DEF ProtocolTypeOK, NodeRunStatus
    <2>5. SlotsWork' /\ AttemptsApart'
      BY <1>3, <2>2, SlotsKept
    <2>6. task.lease_token = None
      BY <2>1 DEF ProtocolInv, LeaseFollowsRow
    <2>7. LeaseFollowsRow'
      BY <1>3, <2>2, <2>6, OwnerKept DEF LeaseFollowsRow
    <2>8. NodeFollowsTask'
      BY <2>1, <2>2 DEF NodeFollowsTask, is_execution_task_terminal, EXECUTION_TASK_TERMINAL,
                        is_node_run_terminal, NODE_RUN_TERMINAL
    <2>9. ~ ws.path /\ \A f \in Exec : slot[f].pc # "claiming"
      BY <2>1 DEF ProtocolInv, WorkspaceFollowsTask, is_execution_task_terminal, EXECUTION_TASK_TERMINAL
    <2>10. WorkspaceFollowsTask' /\ CleanupAfterResult'
      BY <1>2, <2>2, <2>3, <2>6, <2>9 DEF WorkspaceFollowsTask, CleanupAfterResult
    <2> QED BY <2>4, <2>5, <2>7, <2>8, <2>10 DEF ProtocolInv
  <1>10. CASE cancel_run
    <2>1. /\ ws' = ws
          /\ node' = IF is_node_run_terminal(node) THEN node ELSE "cancelled"
      BY <1>10 DEF cancel_run
    <2>2. CASE UNCHANGED task /\ (is_execution_task_terminal(task.status) \/ task.status = "absent")
      <3>1. ProtocolTypeOK'
        BY <1>1, <1>2, <1>4, <2>1, <2>2 DEF ProtocolTypeOK, NodeRunStatus
      <3>2. SlotsWork' /\ AttemptsApart' /\ LeaseFollowsRow' /\ WorkspaceFollowsTask' /\ CleanupAfterResult'
        BY <1>2, <2>1, <2>2 DEF ProtocolInv, SlotsWork, AttemptsApart, LeaseFollowsRow,
                                WorkspaceFollowsTask, CleanupAfterResult
      <3>3. NodeFollowsTask'
        BY <2>1, <2>2 DEF ProtocolInv, NodeFollowsTask, is_node_run_terminal, NODE_RUN_TERMINAL,
                          is_execution_task_terminal, EXECUTION_TASK_TERMINAL
      <3> QED BY <3>1, <3>2, <3>3 DEF ProtocolInv
    <2>3. CASE task' = [task EXCEPT !.status = "cancelled"]
      <3>1. /\ task' \in Row /\ task'.status = "cancelled" /\ task'.lease_token = task.lease_token
            /\ task'.attempt = task.attempt
        BY <1>1, <2>3 DEF Row, ExecutionTaskStatus
      <3>2. ProtocolTypeOK'
        BY <1>1, <1>2, <1>4, <2>1, <3>1 DEF ProtocolTypeOK, NodeRunStatus
      <3>3. SlotsWork' /\ AttemptsApart'
        BY <1>3, <3>1, SlotsKept
      <3>4. LeaseFollowsRow'
        BY <1>3, <3>1, OwnerKept DEF LeaseFollowsRow
      <3>5. NodeFollowsTask' /\ is_execution_task_terminal(task'.status)
        BY <2>1, <3>1 DEF NodeFollowsTask, is_node_run_terminal, NODE_RUN_TERMINAL,
                          is_execution_task_terminal, EXECUTION_TASK_TERMINAL
      <3>6. WorkspaceFollowsTask'
        BY <1>3, <2>1, <3>1, <3>5, ClaimsKept DEF ProtocolInv, WorkspaceFollowsTask
      <3>7. CleanupAfterResult'
        BY <2>1, <3>5 DEF ProtocolInv, CleanupAfterResult
      <3> QED BY <3>2, <3>3, <3>4, <3>5, <3>6, <3>7 DEF ProtocolInv
    <2> QED BY <1>10, <2>2, <2>3 DEF cancel_run
  <1> QED BY <1>5, <1>6, <1>7, <1>8, <1>9, <1>10

-----------------------------------------------------------------------------
(* The theorems.                                                               *)

\* Initially no task exists and every slot is idle.
LEMMA InitInv == Init => ProtocolInv
  <1> SUFFICES ASSUME Init PROVE ProtocolInv
    OBVIOUS
  <1>1. task.status = "absent" /\ task.lease_token = None /\ task.attempt = 0
        /\ ws.status = "absent" /\ ws.runner = None /\ ws.path = FALSE /\ node = "pending"
    BY DEF Init
  <1>2. \A e \in Exec : slot[e].pc = "idle" /\ slot[e].token = None /\ slot[e].attempt = 0
    BY IdleFields DEF Init
  <1>3. task \in Row /\ ws \in Workspace
    BY DEF Init, Row, Workspace
  <1>4. reg \in [Runner -> RunnerRow] /\ hb \in [Exec -> Beat]
    BY DEF Init, RunnerRow, Beat, NoBeat
  <1>5. ProtocolTypeOK
    BY <1>3, <1>4, IdleFields, RunnerAssumption DEF Init, ProtocolTypeOK, WorkflowRunStatus, NodeRunStatus
  <1>6. SlotsWork /\ AttemptsApart /\ LeaseFollowsRow
    BY <1>1, <1>2 DEF SlotsWork, AttemptsApart, LeaseFollowsRow
  <1>7. NodeFollowsTask /\ WorkspaceFollowsTask /\ CleanupAfterResult
    BY <1>1, <1>2 DEF NodeFollowsTask, WorkspaceFollowsTask, CleanupAfterResult,
                      is_execution_task_terminal, EXECUTION_TASK_TERMINAL
  <1> QED BY <1>5, <1>6, <1>7 DEF ProtocolInv

\* One case for each group of actions.
LEMMA StepInv == ProtocolInv /\ [Next]_vars => ProtocolInv'
  <1> SUFFICES ASSUME ProtocolInv, [Next]_vars PROVE ProtocolInv'
    OBVIOUS
  <1>1. ASSUME NEW e \in Exec,
               claim_read(e) \/ Proceed(e) \/ Monitor(e) \/ submit_lost(e) \/ upload_fails(e)
        PROVE  ProtocolInv'
    BY <1>1, ClaimReadStep, ClaimStep, SlotSteps, WorkspaceSteps, SubmitStep, HeartbeatReadStep, HeartbeatStep
       DEF Proceed, Monitor
  <1>2. ASSUME NEW r \in Runner, Heartbeat(r) \/ Cleanup(r) \/ GoesQuiet(r) \/ RunnerDies(r)
        PROVE  ProtocolInv'
    BY <1>2, RegistrySteps, WorkspaceSteps, RunnerDiesStep
  <1>3. CASE Operator
    BY <1>3, RegistrySteps, WorkspaceSteps, SchedulerSteps DEF Operator
  <1>4. CASE _attach_workspace \/ reconcile_run \/ LeaseExpires \/ recover_expired \/ promote_due_retries
    BY <1>4, SchedulerSteps
  <1>5. CASE CleanupStale
    BY <1>5, WorkspaceSteps
  <1>6. CASE UNCHANGED vars
    <2>1. ProtocolTypeOK'
      BY <1>6 DEF vars, ProtocolInv, ProtocolTypeOK
    <2> QED BY <1>6, <2>1, NothingKeeps DEF vars
  <1> QED BY <1>1, <1>2, <1>3, <1>4, <1>5, <1>6 DEF Next

\* The rows, the leases and the slots of any number of Runners fit together, and
\* a worktree is given up for removal only after the final result of its task.
THEOREM ProtocolHolds == Spec => []ProtocolInv
  BY InitInv, StepInv, PTL DEF Spec

\* A slot that owns the row has its last attempt, and no attempt is worked on by
\* two slots of the fleet.
THEOREM OwnersHaveLastAttempt == Spec => []OwnerHasLastAttempt
  <1>1. ProtocolInv => OwnerHasLastAttempt
    <2> SUFFICES ASSUME ProtocolInv, NEW e \in Exec, slot[e].token # None
                 PROVE  /\ owns(e) => task.status = "running" /\ task.attempt = slot[e].attempt
                        /\ slot[e].attempt <= task.attempt
                        /\ \A f \in Exec \ {e} : slot[f].attempt # slot[e].attempt
      BY DEF OwnerHasLastAttempt
    <2>1. owns(e) => task.status = "running" /\ task.attempt = slot[e].attempt
      BY OwnerHolds
    <2>2. slot[e].attempt <= task.attempt
      <3>1. task.attempt \in Nat /\ slot[e].attempt \in 1 .. task.attempt
        BY DEF ProtocolInv, ProtocolTypeOK, Row, SlotsWork
      <3> QED BY <3>1
    <2>3. \A f \in Exec \ {e} : slot[f].attempt # slot[e].attempt
      BY DEF ProtocolInv, AttemptsApart
    <2> QED BY <2>1, <2>2, <2>3
  <1> QED BY <1>1, ProtocolHolds, PTL

\* Only an accepted submission writes a result to the node.
LEMMA ResultWriter ==
    ASSUME Next, node' # node, node' \in {"completed", "failed", "retrying"}
    PROVE  \E e \in Exec : runner_submit(e)
  <1>1. ASSUME NEW e \in Exec,
               claim_read(e) \/ Proceed(e) \/ Monitor(e) \/ submit_lost(e) \/ upload_fails(e)
        PROVE  runner_submit(e)
    <2>1. CASE runner_claim(e)
      BY <2>1 DEF runner_claim
    <2>2. CASE claim_read(e) \/ claim_lost(e) \/ prepare_workspace(e) \/ execute_task(e) \/ execute_cancelled(e)
               \/ cleanup_cancelled(e) \/ report_cancelled(e) \/ submit_refused(e)
               \/ Monitor(e) \/ submit_lost(e) \/ upload_fails(e)
      BY <2>2 DEF claim_read, claim_lost, prepare_workspace, execute_task, execute_cancelled, cleanup_cancelled,
                  report_cancelled, submit_refused, submit_lost, upload_fails, Monitor, heartbeat_task_read,
                  heartbeat_task_denied, runner_task_heartbeat, rows
    <2> QED BY <1>1, <2>1, <2>2 DEF Proceed
  <1>2. ASSUME NEW r \in Runner, Heartbeat(r) \/ Cleanup(r) \/ GoesQuiet(r) \/ RunnerDies(r)
        PROVE  FALSE
    BY <1>2 DEF Heartbeat, register_runner, heartbeat_read, heartbeat_runner, Cleanup, claim_workspace_cleanup,
                cleanup_workspace, report_cleanup, GoesQuiet, RunnerDies, rows
  <1>3. CASE Operator
    BY <1>3 DEF Operator, set_runner_enabled, rotate_runner_token, revoke_runner, release_read, release_workspace,
                cancel_run, pause_run, resume_run, rows
  <1>4. CASE _attach_workspace \/ reconcile_run \/ LeaseExpires \/ recover_expired \/ promote_due_retries \/ CleanupStale
    BY <1>4 DEF _attach_workspace, reconcile_run, LeaseExpires, recover_expired, promote_due_retries, CleanupStale
  <1> QED BY <1>1, <1>2, <1>3, <1>4 DEF Next

\* A result is published only under a lease that is the row's and active, for the
\* last attempt, whatever requests are late, lost or repeated.
THEOREM RunnerResultsFenced == Spec => ResultFenced
  <1> DEFINE Fenced == node' # node /\ node' \in {"completed", "failed", "retrying"} =>
          \E e \in Exec : /\ slot[e].pc = "submitting" /\ slot[e].token = task.lease_token
                          /\ task.active /\ slot[e].attempt = task.attempt
  <1>1. ProtocolInv /\ [Next]_vars => [Fenced]_vars
    <2> SUFFICES ASSUME ProtocolInv, Next, node' # node, node' \in {"completed", "failed", "retrying"}
                 PROVE  \E e \in Exec : /\ slot[e].pc = "submitting" /\ slot[e].token = task.lease_token
                                        /\ task.active /\ slot[e].attempt = task.attempt
      OBVIOUS
    <2>1. PICK e \in Exec : runner_submit(e)
      BY ResultWriter
    <2>2. slot[e].pc = "submitting" /\ owns(e)
      BY <2>1 DEF runner_submit, Accepts
    <2> QED BY <2>2, SubmitterHasToken, OwnerHolds
  <1> QED BY <1>1, ProtocolHolds, PTL DEF Spec, ResultFenced

-----------------------------------------------------------------------------
(* The refinement.                                                             *)

\* What the refinement mapping reads off the task and its node.
LEMMA Mapped ==
    /\ task.status = "running" => WorkPhase["task"] = "held" /\ WorkHolder["task"] = task.lease_token
    /\ task.status \in {"pending", "retry_wait"} => WorkPhase["task"] = "open" /\ WorkHolder["task"] = None
    /\ task.status = "absent" /\ node = "pending" => WorkPhase["task"] = "none" /\ WorkHolder["task"] = None
    /\ task.status = "absent" /\ node # "pending" => WorkPhase["task"] = "closed" /\ WorkHolder["task"] = None
    /\ is_execution_task_terminal(task.status) => WorkPhase["task"] = "closed" /\ WorkHolder["task"] = None
    /\ is_node_run_terminal(node) => WorkOutcome["task"] = node
    /\ ~ is_node_run_terminal(node) => WorkOutcome["task"] = "none"
  BY DEF WorkPhase, WorkHolder, WorkOutcome, is_execution_task_terminal, EXECUTION_TASK_TERMINAL

\* The same in the next state.
LEMMA MappedNext ==
    /\ task'.status = "running" => WorkPhase'["task"] = "held" /\ WorkHolder'["task"] = task'.lease_token
    /\ task'.status \in {"pending", "retry_wait"} => WorkPhase'["task"] = "open" /\ WorkHolder'["task"] = None
    /\ task'.status = "absent" /\ node' = "pending" => WorkPhase'["task"] = "none" /\ WorkHolder'["task"] = None
    /\ task'.status = "absent" /\ node' # "pending" => WorkPhase'["task"] = "closed" /\ WorkHolder'["task"] = None
    /\ is_execution_task_terminal(task'.status) => WorkPhase'["task"] = "closed" /\ WorkHolder'["task"] = None
    /\ is_node_run_terminal(node') => WorkOutcome'["task"] = node'
    /\ ~ is_node_run_terminal(node') => WorkOutcome'["task"] = "none"
  BY DEF WorkPhase, WorkHolder, WorkOutcome, is_execution_task_terminal, EXECUTION_TASK_TERMINAL

\* What one step may do to the task and its node.
Kept == task'.status = task.status /\ task'.lease_token = task.lease_token /\ node' = node

Inserted == task.status = "absent" /\ node = "pending" /\ task'.status = "pending"

Granted == task.status = "pending" /\ task'.status = "running" /\ task'.lease_token \in Token

GivenBack == task.status = "running" /\ task'.status \in {"pending", "retry_wait"}

Reported ==
    /\ task.status = "running" /\ is_execution_task_terminal(task'.status)
    /\ node' \in {"completed", "failed"}

Promoted == task.status = "retry_wait" /\ task'.status = "pending"

Dropped ==
    /\ task.status \in {"pending", "running", "retry_wait"}
    /\ is_execution_task_terminal(task'.status) /\ node' = "cancelled"

PassedOver == task.status = "absent" /\ task'.status = "absent" /\ node = "pending" /\ node' = "cancelled"

Effect == Kept \/ Inserted \/ Granted \/ GivenBack \/ Reported \/ Promoted \/ Dropped \/ PassedOver

\* The states of the task and the node that ProtocolInv allows together.
LEMMA NodeOfTask ==
    ASSUME ProtocolInv
    PROVE  /\ task.status \in {"absent", "pending", "running", "retry_wait"} \/ is_execution_task_terminal(task.status)
           /\ task.status = "absent" => node \in {"pending", "cancelled"}
           /\ task.status \in {"pending", "running", "retry_wait"} => ~ is_node_run_terminal(node)
           /\ is_execution_task_terminal(task.status) => is_node_run_terminal(node)
  <1>1. task.status \in ExecutionTaskStatus \cup {"absent"}
    BY DEF ProtocolInv, ProtocolTypeOK, Row
  <1>2. LeaseFollowsRow /\ NodeFollowsTask
    BY DEF ProtocolInv
  <1> QED BY <1>1, <1>2 DEF LeaseFollowsRow, NodeFollowsTask, ExecutionTaskStatus, is_execution_task_terminal,
                            EXECUTION_TASK_TERMINAL

\* Each of these effects is a step that LeasedWork allows.
LEMMA EffectIsAbstract ==
    ASSUME ProtocolInv, ProtocolInv', Effect
    PROVE  \/ Work!Same("task") \/ Work!Offer("task") \/ Work!Grant("task") \/ Work!Revoke("task")
           \/ Work!Publish("task") \/ Work!Withdraw("task") \/ Work!Decide("task")
  <1>1. /\ task'.status = "absent" => node' \in {"pending", "cancelled"}
        /\ task'.status \in {"pending", "running", "retry_wait"} => ~ is_node_run_terminal(node')
        /\ is_execution_task_terminal(task'.status) => is_node_run_terminal(node')
    BY DEF ProtocolInv, NodeFollowsTask
  <1>2. is_node_run_terminal("cancelled") /\ ~ is_node_run_terminal("pending")
    BY DEF is_node_run_terminal, NODE_RUN_TERMINAL
  <1>3. CASE Kept
    BY <1>3, NodeOfTask, Mapped, MappedNext DEF Kept, Work!Same
  <1>4. CASE Inserted
    BY <1>1, <1>4, MappedNext, Mapped DEF Inserted, Work!Offer
  <1>5. CASE Granted
    <2>1. WorkPhase["task"] = "open" /\ WorkHolder["task"] = None
      BY <1>5, Mapped DEF Granted
    <2>2. WorkPhase'["task"] = "held" /\ WorkHolder'["task"] = task'.lease_token /\ WorkOutcome'["task"] = "none"
      BY <1>1, <1>5, MappedNext DEF Granted
    <2>3. task'.lease_token \in Token /\ task'.lease_token # None
      BY <1>5, RunnerAssumption DEF Granted
    <2> QED BY <2>1, <2>2, <2>3 DEF Work!Grant
  <1>6. CASE GivenBack
    BY <1>1, <1>6, Mapped, MappedNext DEF GivenBack, Work!Revoke
  <1>7. CASE Reported
    <2>1. WorkPhase["task"] = "held" /\ WorkOutcome["task"] = "none"
      BY <1>7, NodeOfTask, Mapped DEF Reported
    <2>2. WorkPhase'["task"] = "closed" /\ WorkHolder'["task"] = None /\ WorkOutcome'["task"] \in {"completed", "failed"}
      BY <1>1, <1>7, MappedNext DEF Reported
    <2> QED BY <2>1, <2>2 DEF Work!Publish, NODE_RUN_TERMINAL
  <1>8. CASE Dropped
    <2>1. WorkPhase["task"] \in {"held", "open"} /\ WorkOutcome["task"] = "none"
      BY <1>8, NodeOfTask, Mapped DEF Dropped
    <2>2. WorkPhase'["task"] = "closed" /\ WorkHolder'["task"] = None /\ WorkOutcome'["task"] = "cancelled"
      BY <1>1, <1>8, MappedNext DEF Dropped
    <2> QED BY <2>1, <2>2 DEF Work!Withdraw
  <1>9. CASE Promoted
    BY <1>1, <1>9, NodeOfTask, Mapped, MappedNext DEF Promoted, Work!Same
  <1>10. CASE PassedOver
    <2>1. WorkPhase["task"] = "none" /\ WorkOutcome["task"] = "none"
      BY <1>2, <1>10, Mapped DEF PassedOver
    <2>2. WorkPhase'["task"] = "closed" /\ WorkHolder'["task"] = None /\ WorkOutcome'["task"] = "cancelled"
      BY <1>2, <1>10, MappedNext DEF PassedOver
    <2> QED BY <2>1, <2>2 DEF Work!Withdraw
  <1> QED BY <1>3, <1>4, <1>5, <1>6, <1>7, <1>8, <1>9, <1>10 DEF Effect

\* Every step has one of these effects.
LEMMA StepEffect ==
    ASSUME ProtocolInv, [Next]_vars
    PROVE  Effect
  <1>1. task \in Row
    BY DEF ProtocolInv, ProtocolTypeOK
  <1>2. CASE UNCHANGED <<task, node>>
    BY <1>2 DEF Effect, Kept
  <1>3. ASSUME NEW e \in Exec,
               claim_read(e) \/ Proceed(e) \/ Monitor(e) \/ submit_lost(e) \/ upload_fails(e)
        PROVE  Effect
    <2>1. CASE runner_claim(e)
      <3> DEFINE k == CHOOSE x \in FreshToken : TRUE
      <3>1. k \in Token
        BY <2>1 DEF runner_claim, FreshToken
      <3>2. /\ task' = [status |-> "running", locked_by |-> RunnerOf[e], lease_token |-> k,
                        active |-> TRUE, attempt |-> NextAttempt]
            /\ task.status = "pending"
        BY <2>1 DEF runner_claim, Claimable
      <3> HIDE DEF k
      <3> QED BY <3>1, <3>2 DEF Effect, Granted
    <2>2. CASE runner_submit(e)
      <3>1. slot[e].pc = "submitting" /\ Accepts(e) /\ Applied(e) /\ owns(e)
        BY <2>2 DEF runner_submit, Accepts
      <3>2. task.status = "running"
        BY <3>1, SubmitterHasToken, OwnerHolds
      <3> QED BY <3>1, <3>2, AppliedRow
              DEF Effect, GivenBack, Reported, is_execution_task_terminal, EXECUTION_TASK_TERMINAL
    <2>3. CASE runner_task_heartbeat(e)
      <3>1. node' = node /\ (task' = task \/ task' = [task EXCEPT !.active = TRUE])
        BY <2>3 DEF runner_task_heartbeat, RenewedRow
      <3>2. task'.status = task.status /\ task'.lease_token = task.lease_token
        BY <1>1, <3>1 DEF Row
      <3> QED BY <3>1, <3>2 DEF Effect, Kept
    <2>4. CASE claim_read(e) \/ claim_lost(e) \/ prepare_workspace(e) \/ execute_task(e) \/ execute_cancelled(e)
               \/ cleanup_cancelled(e) \/ report_cancelled(e) \/ submit_refused(e)
               \/ heartbeat_task_read(e) \/ heartbeat_task_denied(e) \/ submit_lost(e) \/ upload_fails(e)
      BY <1>2, <2>4 DEF claim_read, claim_lost, prepare_workspace, execute_task, execute_cancelled,
                  cleanup_cancelled, report_cancelled, submit_refused, submit_lost, upload_fails,
                  heartbeat_task_read, heartbeat_task_denied, rows
    <2> QED BY <1>3, <2>1, <2>2, <2>3, <2>4 DEF Proceed, Monitor
  <1>4. ASSUME NEW r \in Runner, Heartbeat(r) \/ Cleanup(r) \/ GoesQuiet(r) \/ RunnerDies(r)
        PROVE  Effect
    BY <1>2, <1>4 DEF Heartbeat, register_runner, heartbeat_read, heartbeat_runner, Cleanup,
                claim_workspace_cleanup, cleanup_workspace, report_cleanup, GoesQuiet, RunnerDies, rows
  <1>5. CASE cancel_run
    <2>1. /\ task.status \in {"absent", "pending", "running", "retry_wait"} \/ is_execution_task_terminal(task.status)
          /\ task.status = "absent" => node \in {"pending", "cancelled"}
          /\ task.status \in {"pending", "running", "retry_wait"} => ~ is_node_run_terminal(node)
          /\ is_execution_task_terminal(task.status) => is_node_run_terminal(node)
      BY NodeOfTask
    <2>2. node' = IF is_node_run_terminal(node) THEN node ELSE "cancelled"
      BY <1>5 DEF cancel_run
    <2>3. CASE is_execution_task_terminal(task.status)
      BY <1>2, <1>5, <2>1, <2>2, <2>3 DEF cancel_run
    <2>4. CASE task.status = "absent"
      <3>1. task' = task /\ node' = "cancelled"
        BY <1>5, <2>1, <2>2, <2>4 DEF cancel_run, is_node_run_terminal, NODE_RUN_TERMINAL
      <3> QED BY <2>1, <2>4, <3>1 DEF Effect, Kept, PassedOver
    <2>5. CASE task.status \in {"pending", "running", "retry_wait"}
      <3>1. task' = [task EXCEPT !.status = "cancelled"] /\ node' = "cancelled"
        BY <1>5, <2>1, <2>2, <2>5 DEF cancel_run, is_execution_task_terminal, EXECUTION_TASK_TERMINAL
      <3>2. task'.status = "cancelled"
        BY <1>1, <3>1 DEF Row
      <3> QED BY <2>5, <3>1, <3>2 DEF Effect, Dropped, is_execution_task_terminal, EXECUTION_TASK_TERMINAL
    <2> QED BY <2>1, <2>3, <2>4, <2>5
  <1>6. CASE Operator
    BY <1>2, <1>5, <1>6 DEF Operator, set_runner_enabled, rotate_runner_token, revoke_runner, release_read,
                release_workspace, pause_run, resume_run, rows
  <1>7. CASE _attach_workspace
    <2>1. /\ task' = [task EXCEPT !.status = "pending"] /\ task.status = "absent" /\ node = "pending"
      BY <1>7 DEF _attach_workspace
    <2>2. task'.status = "pending"
      BY <1>1, <2>1 DEF Row
    <2> QED BY <2>1, <2>2 DEF Effect, Inserted
  <1>8. CASE LeaseExpires
    <2>1. task' = [task EXCEPT !.active = FALSE] /\ node' = node
      BY <1>8 DEF LeaseExpires
    <2>2. task'.status = task.status /\ task'.lease_token = task.lease_token
      BY <1>1, <2>1 DEF Row
    <2> QED BY <2>1, <2>2 DEF Effect, Kept
  <1>9. CASE recover_expired
    <2>1. /\ task' = [task EXCEPT !.status = "pending", !.locked_by = None, !.lease_token = None]
          /\ task.status = "running"
      BY <1>9 DEF recover_expired
    <2>2. task'.status = "pending"
      BY <1>1, <2>1 DEF Row
    <2> QED BY <2>1, <2>2 DEF Effect, GivenBack
  <1>10. CASE promote_due_retries
    <2>1. task' = [task EXCEPT !.status = "pending"] /\ task.status = "retry_wait"
      BY <1>10 DEF promote_due_retries
    <2>2. task'.status = "pending"
      BY <1>1, <2>1 DEF Row
    <2> QED BY <2>1, <2>2 DEF Effect, Promoted
  <1>11. CASE reconcile_run \/ CleanupStale \/ UNCHANGED vars
    BY <1>2, <1>11 DEF reconcile_run, CleanupStale, vars
  <1> QED BY <1>3, <1>4, <1>6, <1>7, <1>8, <1>9, <1>10, <1>11 DEF Next

\* The Runner protocol implements LeasedWork for any number of Runners, slots,
\* tokens and attempts: one holder at a time, and one outcome, from the holder or
\* by the cancellation of the run.
THEOREM ProtocolImplementsLeasedWork == Spec => RunnerImplementsLeasedWork
  <1>1. Init => Work!Init
    <2> SUFFICES ASSUME Init PROVE Work!Init
      OBVIOUS
    <2>1. task.status = "absent" /\ node = "pending" /\ ~ is_node_run_terminal(node)
      BY DEF Init, is_node_run_terminal, NODE_RUN_TERMINAL
    <2>2. WorkPhase["task"] = "none" /\ WorkHolder["task"] = None /\ WorkOutcome["task"] = "none"
      BY <2>1, Mapped
    <2> QED BY <2>2 DEF Work!Init, WorkPhase, WorkHolder, WorkOutcome
  <1>2. ProtocolInv /\ ProtocolInv' /\ [Next]_vars => [Work!Next]_Work!vars
    <2> SUFFICES ASSUME ProtocolInv, ProtocolInv', [Next]_vars PROVE Work!Next
      OBVIOUS
    <2> QED BY StepEffect, EffectIsAbstract DEF Work!Next
  <1> QED BY <1>1, <1>2, ProtocolHolds, PTL DEF Spec, RunnerImplementsLeasedWork, Work!Spec
=============================================================================
