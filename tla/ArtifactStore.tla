--------------------------- MODULE ArtifactStore ----------------------------
(***************************************************************************)
(* Artifacts (domain/artifacts, api/routes/artifacts.py, the upload        *)
(* endpoints of api/routes/runners.py): rows in the database, contents in  *)
(* a storage outside every transaction.                                    *)
(*                                                                         *)
(* A Runner slot creates a staging row, sends the content and submits the  *)
(* references; a server Worker registers the candidates of a result in one *)
(* transaction.  Everything belongs to one Workflow Run, in which the      *)
(* Runner and the Worker execute parallel nodes, so a Worker's result may  *)
(* name an Artifact the Runner is still uploading.                         *)
(***************************************************************************)
EXTENDS Naturals, Sequences, FiniteSets

CONSTANTS
    Art,         \* artifacts.id: uuids, in the order they are drawn
    Lease,       \* lease tokens of the Runner's task, 1 .. number of attempts
    PerResult,   \* Artifacts in the result of a Runner command
    Candidates,  \* the candidate lists a Worker's result may carry
    MaxFaults,   \* bound on process crashes, lost answers and storage failures
    None

\* What a candidate offers: a content, one over the limit, a local_path, an
\* http(s) URI, an artifact:// URI, or neither content nor uri.
CandidateKind == {"bytes", "large", "path", "external", "ref", "other"}

ASSUME ArtifactAssumption ==
    /\ Art \subseteq Nat \ {0} /\ IsFiniteSet(Art)
    /\ Lease \subseteq Nat \ {0}
    /\ PerResult \in Nat /\ MaxFaults \in Nat
    /\ Candidates \subseteq Seq(CandidateKind)
    /\ None \notin Art

VARIABLES
    row,     \* metadata_json.upload_status of each row; "stored" and "external" have none
    sized,   \* the rows whose size is not NULL
    bytes,   \* the content in storage: "none", "partial" or "full"
    stuck,   \* history: the Artifacts whose content the storage failed to delete
    revoked, \* history: the Artifacts whose finalisation was committed and then raised
    task,    \* the Runner's task: its status and lease token
    slot,    \* upload_artifact of each attempt: the id in its hands and the ids uploaded
    req,     \* the content request of each Artifact
    worker,  \* the Worker: candidates still to register, ids flushed, and references
    refs,    \* node_runs.artifact_refs_json
    faults

vars == <<row, sized, bytes, stuck, revoked, task, slot, req, worker, refs, faults>>

-----------------------------------------------------------------------------
\* A row is absent ("none"), an upload, or registered by a Worker.
Artifact == {"none", "staging", "ready", "failed", "stored", "external"}

\* "flushed": the row exists in the Worker's open transaction only.
WorkerState == [pc: {"idle", "registering", "registered"}, todo: Seq(CandidateKind),
                flushed: SUBSET Art, external: SUBSET Art, refs: SUBSET Art]

SlotState == [pc: {"idle", "staged", "sent", "submitting", "gone"}, art: Art \cup {None},
              uploaded: SUBSET Art]

NoWork == [pc |-> "idle", todo |-> <<>>, flushed |-> {}, external |-> {}, refs |-> {}]
NoSlot == [pc |-> "idle", art |-> None, uploaded |-> {}]

Init ==
    /\ row = [a \in Art |-> "none"]
    /\ sized = {}
    /\ bytes = [a \in Art |-> "none"]
    /\ stuck = {}
    /\ revoked = {}
    /\ task = [status |-> "queued", lease |-> None]
    /\ slot = [k \in Lease |-> NoSlot]
    /\ req = [a \in Art |-> "none"]
    /\ worker = NoWork
    /\ refs = {}
    /\ faults = 0

Fault == faults < MaxFaults /\ faults' = faults + 1

\* uuid4: an id that no row, no content and no process has ever used.
used == {a \in Art : row[a] # "none" \/ bytes[a] # "none"} \cup worker.flushed \cup worker.external
NewId(a) == a \in Art \ used /\ \A b \in Art \ used : a <= b

-----------------------------------------------------------------------------
(* The storage.  save_bytes and save_stream overwrite, delete is           *)
(* idempotent; any of them may fail half way.                              *)

save_stream(a) == bytes' = [bytes EXCEPT ![a] = "full"]
save_bytes(a) == bytes' = [bytes EXCEPT ![a] = "full"]
open(a) == bytes[a] # "none"
delete(a) == bytes' = [bytes EXCEPT ![a] = "none"]

\* GET /artifacts/{id}/content succeeds: a size, and a content to open.
get_artifact_content(a) == a \in sized /\ open(a)

-----------------------------------------------------------------------------
(* The Runner's task, from the queue: claimed with a new token, lost when  *)
(* its lease is recovered.                                                 *)

\* The task is claimed with a new lease token.
claim(k) ==
    /\ task.status = "queued" /\ slot[k] = NoSlot
    /\ \A j \in Lease : slot[j] = NoSlot => k <= j
    /\ task' = [status |-> "running", lease |-> k]
    /\ slot' = [slot EXCEPT ![k].pc = "staged"]
    /\ UNCHANGED <<row, sized, bytes, stuck, revoked, req, worker, refs, faults>>

\* The lease expires and recovery requeues the task while the slot goes on.
LeaseLost ==
    /\ task.status = "running"
    /\ Fault
    /\ task' = [status |-> "queued", lease |-> None]
    /\ UNCHANGED <<row, sized, bytes, stuck, revoked, slot, req, worker, refs>>

\* status, locked_by and lease_token; the expiry of the lease is not asked.
holds(k) == task.status = "running" /\ task.lease = k

\* POST artifact-uploads: the staging row; the answer may be lost, and a slot
\* whose request fails drops its result (upload_artifact raises).
create_runner_artifact_upload(k) ==
    /\ slot[k].pc = "staged" /\ slot[k].art = None
    /\ Cardinality(slot[k].uploaded) < PerResult
    /\ holds(k)
    /\ \E a \in Art :
         /\ NewId(a)
         /\ row' = [row EXCEPT ![a] = "staging"]
         /\ \/ slot' = [slot EXCEPT ![k].art = a] /\ faults' = faults
            \/ slot' = [slot EXCEPT ![k].pc = "gone"] /\ Fault
    /\ UNCHANGED <<sized, bytes, stuck, revoked, task, req, worker, refs>>

\* 409: the task is no longer this slot's, or the content request was refused.
upload_refused(k) ==
    /\ slot[k].pc = "staged" /\ ~holds(k)
    /\ slot' = [slot EXCEPT ![k].pc = "gone"]
    /\ UNCHANGED <<row, sized, bytes, stuck, revoked, task, req, worker, refs, faults>>

\* The content request passes the ownership check and the staging check.
validate_runner_artifact_upload(k) ==
    LET a == slot[k].art IN
    /\ slot[k].pc = "staged" /\ a # None
    /\ holds(k) /\ row[a] = "staging"
    /\ req' = [req EXCEPT ![a] = "validated"]
    /\ slot' = [slot EXCEPT ![k].pc = "sent"]
    /\ UNCHANGED <<row, sized, bytes, stuck, revoked, task, worker, refs, faults>>

\* The body arrived and was copied to storage.
content_saved(a) ==
    /\ req[a] = "validated"
    /\ save_stream(a)
    /\ req' = [req EXCEPT ![a] = "saved"]
    /\ UNCHANGED <<row, sized, stuck, revoked, task, slot, worker, refs, faults>>

\* A declared length over the limit is refused before anything is read.
content_too_large(a) ==
    /\ req[a] = "validated"
    /\ req' = [req EXCEPT ![a] = "failing"]
    /\ Fault
    /\ UNCHANGED <<row, sized, bytes, stuck, revoked, task, slot, worker, refs>>

\* The client disconnects, the body grows over the limit, or the copy fails
\* half way: the handler of the exception runs.
content_raises(a) ==
    /\ req[a] = "validated"
    /\ \E b \in {"none", "partial"} : bytes' = [bytes EXCEPT ![a] = b]
    /\ Fault
    /\ req' = [req EXCEPT ![a] = "deleting"]
    /\ UNCHANGED <<row, sized, stuck, revoked, task, slot, worker, refs>>

\* The finalisation raises inside the same try: its commit failed, or the commit
\* succeeded and the refresh after it did not.  The handler deletes the object
\* in either case.
finalize_raises(a) ==
    /\ req[a] = "saved"
    /\ Fault
    /\ req' = [req EXCEPT ![a] = "deleting"]
    /\ \/ UNCHANGED <<row, sized, revoked>>
       \/ /\ row' = [row EXCEPT ![a] = "ready"]
          /\ sized' = sized \cup {a}
          /\ revoked' = revoked \cup {a}
    /\ UNCHANGED <<bytes, stuck, task, slot, worker, refs>>

\* Defect: the row is finalized before its content is copied.
finalize_runner_artifact_upload_early(a) ==
    /\ req[a] = "validated"
    /\ row' = [row EXCEPT ![a] = "ready"]
    /\ sized' = sized \cup {a}
    /\ req' = [req EXCEPT ![a] = "validated"]
    /\ UNCHANGED <<bytes, stuck, revoked, task, slot, worker, refs, faults>>

\* The row becomes ready, with the stored size, and the slot has its reference;
\* if the answer is lost the slot drops its result.
finalize_runner_artifact_upload(a) ==
    /\ req[a] = "saved"
    /\ row' = [row EXCEPT ![a] = "ready"]
    /\ sized' = sized \cup {a}
    /\ req' = [req EXCEPT ![a] = "none"]
    /\ \E k \in Lease :
         /\ slot[k].pc = "sent" /\ slot[k].art = a
         /\ \/ slot' = [slot EXCEPT ![k].pc = "staged", ![k].art = None, ![k].uploaded = @ \cup {a}]
               /\ faults' = faults
            \/ slot' = [slot EXCEPT ![k].pc = "gone"] /\ Fault
    /\ UNCHANGED <<bytes, stuck, revoked, task, worker, refs>>

\* The exception handler deletes the object; a failing delete is swallowed.
content_deleted(a) ==
    /\ req[a] = "deleting"
    /\ \/ delete(a) /\ UNCHANGED <<stuck, faults>>
       \/ bytes' = bytes /\ stuck' = stuck \cup {a} /\ Fault
    /\ req' = [req EXCEPT ![a] = "failing"]
    /\ UNCHANGED <<row, sized, revoked, task, slot, worker, refs>>

\* Defect: the failure is answered but not recorded.
fail_runner_artifact_upload_unrecorded(a) ==
    /\ req[a] = "failing"
    /\ req' = [req EXCEPT ![a] = "none"]
    /\ slot' = [k \in Lease |-> IF slot[k].art = a THEN [slot[k] EXCEPT !.pc = "gone"] ELSE slot[k]]
    /\ UNCHANGED <<row, sized, bytes, stuck, revoked, task, worker, refs, faults>>

\* The row is marked failed and the error goes back to the slot.
fail_runner_artifact_upload(a) ==
    /\ req[a] = "failing"
    /\ row' = [row EXCEPT ![a] = "failed"]
    /\ req' = [req EXCEPT ![a] = "none"]
    /\ slot' = [k \in Lease |-> IF slot[k].art = a THEN [slot[k] EXCEPT !.pc = "gone"] ELSE slot[k]]
    /\ UNCHANGED <<sized, bytes, stuck, revoked, task, worker, refs, faults>>

\* The API process dies inside a content request.
api_crashes(a) ==
    /\ req[a] # "none"
    /\ Fault
    /\ req' = [req EXCEPT ![a] = "none"]
    /\ slot' = [k \in Lease |-> IF slot[k].art = a THEN [slot[k] EXCEPT !.pc = "gone"] ELSE slot[k]]
    /\ UNCHANGED <<row, sized, bytes, stuck, revoked, task, worker, refs>>

\* Defect: any row of the Run may be referenced.
Referable_any(a) == row[a] # "none"

\* A reference candidate: an existing row of the Run, not an unfinished upload.
Referable(a) == row[a] \in {"ready", "stored", "external"}

\* The submission registers the references of the result with the NodeRun.
submit_result(k) ==
    /\ slot[k].pc = "staged" /\ slot[k].art = None
    /\ Cardinality(slot[k].uploaded) = PerResult
    /\ slot' = [slot EXCEPT ![k].pc = "gone"]
    /\ IF holds(k) /\ \A a \in slot[k].uploaded : Referable(a)
       THEN /\ refs' = refs \cup slot[k].uploaded
            /\ task' = [status |-> "done", lease |-> None]
       ELSE UNCHANGED <<refs, task>>
    /\ UNCHANGED <<row, sized, bytes, stuck, revoked, req, worker, faults>>

-----------------------------------------------------------------------------
(* The server Worker: register_artifact_candidates in one transaction.     *)

\* A successful result with artifacts opens the session.
worker_result ==
    /\ worker = NoWork
    /\ \E c \in Candidates : worker' = [NoWork EXCEPT !.pc = "registering", !.todo = c]
    /\ UNCHANGED <<row, sized, bytes, stuck, revoked, task, slot, req, refs, faults>>

Registering(kind) ==
    /\ worker.pc = "registering" /\ worker.todo # <<>>
    /\ Head(worker.todo) = kind

\* The content is stored before the row is flushed.
register_artifact_bytes ==
    /\ Registering("bytes")
    /\ \E a \in Art :
         /\ NewId(a)
         /\ save_bytes(a)
         /\ worker' = [worker EXCEPT !.todo = Tail(@), !.flushed = @ \cup {a}, !.refs = @ \cup {a}]
    /\ UNCHANGED <<row, sized, stuck, revoked, task, slot, req, refs, faults>>

\* An http(s) URI: a row without content.
register_external_artifact ==
    /\ Registering("external")
    /\ \E a \in Art :
         /\ NewId(a)
         /\ worker' = [worker EXCEPT !.todo = Tail(@), !.external = @ \cup {a}, !.refs = @ \cup {a}]
    /\ UNCHANGED <<row, sized, bytes, stuck, revoked, task, slot, req, refs, faults>>

\* An artifact:// URI of the same Run.
reference_candidate ==
    /\ Registering("ref")
    /\ \E a \in Art :
         /\ Referable(a)
         /\ worker' = [worker EXCEPT !.todo = Tail(@), !.refs = @ \cup {a}]
    /\ UNCHANGED <<row, sized, bytes, stuck, revoked, task, slot, req, refs, faults>>

\* Neither content nor uri: the candidate is passed over.
ignored_candidate ==
    /\ Registering("other")
    /\ worker' = [worker EXCEPT !.todo = Tail(@)]
    /\ UNCHANGED <<row, sized, bytes, stuck, revoked, task, slot, req, refs, faults>>

\* Session.close(): the connection is rolled back, but the after_rollback event
\* belongs to Session.rollback() alone, so the listeners do not run.
session_close == bytes' = bytes

\* The listener of every object stored in a transaction that is rolled back.
after_rollback == bytes' = [a \in Art |-> IF a \in worker.flushed THEN "none" ELSE bytes[a]]

\* A flush fails (which rolls the Session back): the object just stored is
\* deleted by register_artifact_bytes, the earlier ones by their listeners.
flush_fails ==
    /\ Registering("bytes")
    /\ Fault
    /\ after_rollback
    /\ worker' = NoWork
    /\ UNCHANGED <<row, sized, stuck, revoked, task, slot, req, refs>>

\* A local_path, too large a content, an unknown or unfinished reference: the
\* RelayviaError leaves the `with` block, which closes the session.
register_raises ==
    /\ \/ Registering("large") \/ Registering("path")
       \/ Registering("ref") /\ \E a \in Art : ~Referable(a)
    /\ session_close
    /\ worker' = NoWork
    /\ UNCHANGED <<row, sized, stuck, revoked, task, slot, req, refs, faults>>

\* db.commit(): the rows of the transaction become visible.
worker_commits ==
    /\ worker.pc = "registering" /\ worker.todo = <<>>
    /\ row' = [a \in Art |-> CASE a \in worker.flushed -> "stored"
                               [] a \in worker.external -> "external"
                               [] OTHER -> row[a]]
    /\ sized' = sized \cup worker.flushed
    /\ worker' = [worker EXCEPT !.pc = "registered", !.flushed = {}, !.external = {}]
    /\ UNCHANGED <<bytes, stuck, revoked, task, slot, req, refs, faults>>

\* backend.complete in a later transaction: accepted, or refused (lease lost).
worker_completes ==
    /\ worker.pc = "registered"
    /\ \/ refs' = refs \cup worker.refs /\ faults' = faults
       \/ refs' = refs /\ Fault
    /\ worker' = NoWork
    /\ UNCHANGED <<row, sized, bytes, stuck, revoked, task, slot, req>>

\* The Worker process dies; the database rolls its transaction back.
worker_crashes ==
    /\ worker # NoWork
    /\ Fault
    /\ worker' = NoWork
    /\ UNCHANGED <<row, sized, bytes, stuck, revoked, task, slot, req, refs>>

-----------------------------------------------------------------------------
Upload(k) ==
    \/ claim(k)
    \/ create_runner_artifact_upload(k)
    \/ upload_refused(k)
    \/ validate_runner_artifact_upload(k)
    \/ submit_result(k)

Content(a) ==
    \/ content_saved(a)
    \/ content_too_large(a)
    \/ content_raises(a)
    \/ finalize_raises(a)
    \/ finalize_runner_artifact_upload(a)
    \/ content_deleted(a)
    \/ fail_runner_artifact_upload(a)

Worker ==
    \/ worker_result
    \/ register_artifact_bytes
    \/ register_external_artifact
    \/ reference_candidate
    \/ ignored_candidate
    \/ flush_fails
    \/ register_raises
    \/ worker_commits
    \/ worker_completes

Next ==
    \/ \E k \in Lease : Upload(k)
    \/ \E a \in Art : Content(a) \/ api_crashes(a)
    \/ LeaseLost
    \/ Worker
    \/ worker_crashes

Spec == Init /\ [][Next]_vars

\* A request that the API has accepted is run to its end by the event loop.
FairSpec == Spec /\ \A a \in Art : WF_vars(Content(a))

-----------------------------------------------------------------------------
\* Types of the tables, the storage and the processes.
ArtifactTypeOK ==
    /\ row \in [Art -> Artifact]
    /\ sized \subseteq Art
    /\ bytes \in [Art -> {"none", "partial", "full"}]
    /\ stuck \subseteq Art
    /\ revoked \subseteq Art
    /\ task.status \in {"queued", "running", "done"} /\ task.lease \in Lease \cup {None}
    /\ slot \in [Lease -> SlotState]
    /\ req \in [Art -> {"none", "validated", "saved", "deleting", "failing"}]
    /\ worker \in WorkerState
    /\ refs \subseteq Art
    /\ faults \in 0 .. MaxFaults

(* Whatever fails while it is uploaded, an Artifact is "ready" or          *)
(* "stored" only with its whole content in storage and its size recorded:  *)
(* the exception handler of the content endpoint deletes the object of a   *)
(* committed row in one case only, when the finalisation itself raised     *)
(* after its commit, and such an upload was never answered.                *)
ReadyHasContent ==
    \A a \in Art \ revoked : row[a] \in {"ready", "stored"} => bytes[a] = "full" /\ a \in sized

(* An Artifact that a NodeRun references can be downloaded, or is          *)
(* external: register_artifact_candidates keeps a Worker's result from     *)
(* naming an upload that is still staging, or has failed.  The code does   *)
(* not keep it for a revoked upload, which a Worker's result may name      *)
(* while the handler of its content request is about to delete it.         *)
ReferencedIsReadable ==
    \A a \in refs \ revoked : row[a] = "external" \/ (get_artifact_content(a) /\ bytes[a] = "full")

(* An upload that was answered stays ready: what a slot will refer to in    *)
(* its own result is never revoked.                                        *)
AnsweredIsReady ==
    \A k \in Lease : \A a \in slot[k].uploaded : row[a] = "ready" /\ a \notin revoked

(* A failed upload leaves nothing in storage, however far its content got, *)
(* unless the storage refused to delete it.                                *)
FailedHasNoContent ==
    \A a \in Art \ stuck : row[a] = "failed" => bytes[a] = "none"

(* What a content request in progress knows: its row is still staging, but  *)
(* for a revoked one that is being undone, and the content has come as far  *)
(* as the request has.                                                      *)
RequestsFit ==
    \A a \in Art :
        /\ req[a] # "none" => row[a] = (IF a \in revoked THEN "ready" ELSE "staging")
        /\ a \in revoked => req[a] \in {"none", "deleting", "failing"}
                           /\ row[a] \in {"ready", "failed"}
        /\ req[a] = "validated" => bytes[a] = "none"
        /\ req[a] = "saved" => bytes[a] = "full"
        /\ req[a] = "failing" => bytes[a] = "none" \/ a \in stuck

(* No two attempts upload under one id, and nothing has been sent for an    *)
(* upload whose content request is still to come.                          *)
SlotsApart ==
    \A k \in Lease : slot[k].art # None =>
        /\ row[slot[k].art] # "none"
        /\ \A j \in Lease \ {k} : slot[j].art # slot[k].art
        /\ slot[k].pc = "staged" => req[slot[k].art] = "none" /\ bytes[slot[k].art] = "none"

(* The ids of the Worker's open transaction have no committed row, and      *)
(* those with a content have all of it.                                    *)
TransactionApart ==
    /\ \A a \in worker.flushed : row[a] = "none" /\ bytes[a] = "full"
    /\ \A a \in worker.external : row[a] = "none" /\ a \notin worker.flushed
    /\ worker.pc # "registering" => worker.flushed = {} /\ worker.external = {}

(* References name finished Artifacts, or those of the open transaction.    *)
ReferencesFinished ==
    /\ \A a \in refs : Referable(a) \/ a \in revoked
    /\ \A a \in worker.refs : Referable(a) \/ a \in revoked \/ a \in worker.flushed \cup worker.external

(* The rows agree with the storage whatever fails, and the requests, slots  *)
(* and transactions in progress keep apart: the inductive invariant.       *)
ArtifactInv ==
    /\ ArtifactTypeOK
    /\ ReadyHasContent /\ FailedHasNoContent
    /\ AnsweredIsReady /\ RequestsFit /\ SlotsApart /\ TransactionApart
    /\ ReferencesFinished

(* A content request that passed validation settles the row once faults    *)
(* stop: whatever went wrong before, it becomes ready or failed and does   *)
(* not stay staging.                                                       *)
UploadSettles ==
    \A a \in Art : (req[a] # "none" /\ faults = MaxFaults) ~> row[a] \in {"ready", "failed"}

(* An object whose row was not committed is deleted again when the         *)
(* transaction that stored it ends ("Compensate if the caller's later      *)
(* Node/Task update rolls back", service.py:70): with no crash and no      *)
(* storage failure, content without a row belongs to an open transaction.  *)
RolledBackIsDeleted ==
    \A a \in Art : bytes[a] # "none" => row[a] # "none" \/ a \in worker.flushed
=============================================================================
