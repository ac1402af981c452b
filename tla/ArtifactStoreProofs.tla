------------------------ MODULE ArtifactStoreProofs -------------------------
(* Proofs about ArtifactStore: the rows of artifacts and the contents in       *)
(* storage agree, for every number of artifacts, attempts and faults and every *)
(* list of candidates.                                                         *)
EXTENDS ArtifactStore, TLAPS

\* What the proofs need of the constants.
LEMMA Constants == Art \subseteq Nat /\ None \notin Art /\ MaxFaults \in Nat
  BY ArtifactAssumption

\* Initially there is neither a row nor a content.
LEMMA InitInv == Init => ArtifactInv
  <1> SUFFICES ASSUME Init PROVE ArtifactInv
    OBVIOUS
  <1> USE Constants DEF Init, NoWork, NoSlot
  <1>1. ArtifactTypeOK
    BY DEF ArtifactTypeOK, Artifact, SlotState, WorkerState
  <1>2. ReadyHasContent /\ FailedHasNoContent /\ AnsweredIsReady /\ RequestsFit
    BY DEF ReadyHasContent, FailedHasNoContent, AnsweredIsReady, RequestsFit
  <1>3. SlotsApart /\ TransactionApart /\ ReferencesFinished
    BY DEF SlotsApart, TransactionApart, ReferencesFinished
  <1> QED BY <1>1, <1>2, <1>3 DEF ArtifactInv

\* The records of the slots, and the function of all of them, keep their types
\* under the updates the steps make.
LEMMA SlotUpdates ==
    ASSUME slot \in [Lease -> SlotState], NEW k \in Lease
    PROVE  /\ slot[k].art \in Art \cup {None} /\ slot[k].uploaded \subseteq Art
           /\ \A p \in {"idle", "staged", "sent", "submitting", "gone"} :
                /\ [slot[k] EXCEPT !.pc = p] \in SlotState
                /\ [slot EXCEPT ![k].pc = p] \in [Lease -> SlotState]
                /\ [slot EXCEPT ![k].pc = p][k].pc = p
                /\ [slot EXCEPT ![k].pc = p][k].art = slot[k].art
                /\ [slot EXCEPT ![k].pc = p][k].uploaded = slot[k].uploaded
                /\ \A j \in Lease \ {k} : [slot EXCEPT ![k].pc = p][j] = slot[j]
           /\ \A a \in Art :
                /\ [slot EXCEPT ![k].art = a] \in [Lease -> SlotState]
                /\ [slot EXCEPT ![k].art = a][k].art = a
                /\ [slot EXCEPT ![k].art = a][k].pc = slot[k].pc
                /\ \A j \in Lease \ {k} : [slot EXCEPT ![k].art = a][j] = slot[j]
  BY DEF SlotState

\* One more fault stays within the bound.
LEMMA FaultType == faults \in 0 .. MaxFaults /\ Fault => faults' \in 0 .. MaxFaults
  BY Constants DEF Fault

\* SlotsApart survives a step that gives no slot an id, keeps the rows of the
\* ids in their hands, and sends nothing for those that wait to send.
LEMMA ApartKept ==
    ASSUME SlotsApart,
           \A j \in Lease : slot'[j].art # None =>
             /\ slot'[j].art = slot[j].art
             /\ row'[slot[j].art] # "none"
             /\ slot'[j].pc = "staged" =>
                  /\ slot[j].pc = "staged"
                  /\ req'[slot[j].art] = req[slot[j].art]
                  /\ bytes'[slot[j].art] = bytes[slot[j].art]
    PROVE  SlotsApart'
  <1> SUFFICES ASSUME NEW k \in Lease, slot'[k].art # None
               PROVE  /\ row'[slot'[k].art] # "none"
                      /\ \A j \in Lease \ {k} : slot'[j].art # slot'[k].art
                      /\ slot'[k].pc = "staged" => req'[slot'[k].art] = "none" /\ bytes'[slot'[k].art] = "none"
    BY DEF SlotsApart
  <1>1. slot'[k].art = slot[k].art /\ row'[slot[k].art] # "none"
    OBVIOUS
  <1>2. ASSUME NEW j \in Lease \ {k}, slot'[j].art = slot'[k].art PROVE FALSE
    <2>1. slot'[j].art = slot[j].art
      BY <1>2
    <2>2. slot[j].art # slot[k].art
      BY <1>1 DEF SlotsApart
    <2> QED BY <1>1, <1>2, <2>1, <2>2
  <1>3. ASSUME slot'[k].pc = "staged" PROVE req'[slot'[k].art] = "none" /\ bytes'[slot'[k].art] = "none"
    <2>1. slot[k].pc = "staged" /\ req'[slot[k].art] = req[slot[k].art] /\ bytes'[slot[k].art] = bytes[slot[k].art]
      BY <1>3
    <2>2. req[slot[k].art] = "none" /\ bytes[slot[k].art] = "none"
      BY <1>1, <2>1 DEF SlotsApart
    <2> QED BY <1>1, <2>1, <2>2
  <1> QED BY <1>1, <1>2, <1>3

\* AnsweredIsReady survives a step that adds no answer and leaves the rows of
\* finished uploads as they are.
LEMMA AnsweredKept ==
    ASSUME AnsweredIsReady, slot \in [Lease -> SlotState],
           \A k \in Lease : slot'[k].uploaded \subseteq slot[k].uploaded,
           \A a \in Art : row[a] = "ready" /\ a \notin revoked => row'[a] = "ready" /\ a \notin revoked'
    PROVE  AnsweredIsReady'
  <1> SUFFICES ASSUME NEW k \in Lease, NEW a \in slot'[k].uploaded
               PROVE  row'[a] = "ready" /\ a \notin revoked'
    BY DEF AnsweredIsReady
  <1>1. a \in slot[k].uploaded /\ a \in Art
    BY SlotUpdates
  <1> QED BY <1>1 DEF AnsweredIsReady

-----------------------------------------------------------------------------
(* The Runner's side.                                                          *)

\* Steps that begin or give up a slot.
LEMMA SlotSteps ==
    ASSUME ArtifactInv, NEW k \in Lease, claim(k) \/ upload_refused(k)
    PROVE  ArtifactInv'
  <1> USE Constants DEF claim, upload_refused, ArtifactInv
  <1>1. ArtifactTypeOK'
    BY DEF ArtifactTypeOK, Artifact, SlotState, NoSlot
  <1>2. ReadyHasContent' /\ FailedHasNoContent' /\ RequestsFit'
    BY DEF ReadyHasContent, FailedHasNoContent, RequestsFit
  <1>3. AnsweredIsReady'
    <2>1. slot \in [Lease -> SlotState]
      BY DEF ArtifactTypeOK
    <2>2. slot' = [slot EXCEPT ![k].pc = "staged"] \/ slot' = [slot EXCEPT ![k].pc = "gone"]
      OBVIOUS
    <2>3. \A j \in Lease : slot'[j].uploaded = slot[j].uploaded
      <3> HIDE DEF claim, upload_refused, ArtifactInv
      <3> QED BY <2>1, <2>2 DEF SlotState
    <2>4. UNCHANGED <<row, revoked>>
      OBVIOUS
    <2> QED BY <2>1, <2>3, <2>4, AnsweredKept
  <1>4. SlotsApart'
    <2>1. slot \in [Lease -> SlotState] /\ SlotsApart
      BY DEF ArtifactTypeOK
    <2>2. PICK p \in {"staged", "gone"} :
            /\ slot' = [slot EXCEPT ![k].pc = p]
            /\ slot[k].art = None \/ (slot[k].pc = "staged" /\ p = "gone")
            /\ UNCHANGED <<row, req, bytes>>
      <3>1. CASE claim(k)
        <4>1. slot[k].art = None /\ slot' = [slot EXCEPT ![k].pc = "staged"] /\ UNCHANGED <<row, req, bytes>>
          BY <3>1 DEF NoSlot
        <4> WITNESS "staged" \in {"staged", "gone"}
        <4> QED BY <4>1
      <3>2. CASE upload_refused(k)
        <4>1. slot[k].pc = "staged" /\ slot' = [slot EXCEPT ![k].pc = "gone"] /\ UNCHANGED <<row, req, bytes>>
          BY <3>2
        <4> WITNESS "gone" \in {"staged", "gone"}
        <4> QED BY <4>1
      <3> QED BY <3>1, <3>2
    <2>3. \A j \in Lease : /\ slot'[j].art = slot[j].art
                            /\ slot'[j].pc = "staged" => slot[j].pc = "staged" \/ slot[j].art = None
      BY <2>1, <2>2, SlotUpdates
    <2> QED BY <2>1, <2>2, <2>3, ApartKept DEF SlotsApart
  <1>5. TransactionApart' /\ ReferencesFinished'
    BY DEF TransactionApart, ReferencesFinished, Referable
  <1> QED BY <1>1, <1>2, <1>3, <1>4, <1>5

\* A new staging row has an id that nobody uses.
LEMMA CreateStep ==
    ASSUME ArtifactInv, NEW k \in Lease, create_runner_artifact_upload(k)
    PROVE  ArtifactInv'
  <1> USE Constants DEF ArtifactInv
  <1>1. PICK a \in Art :
          /\ NewId(a)
          /\ row' = [row EXCEPT ![a] = "staging"]
          /\ \/ slot' = [slot EXCEPT ![k].art = a] /\ faults' = faults
             \/ slot' = [slot EXCEPT ![k].pc = "gone"] /\ Fault
    BY DEF create_runner_artifact_upload
  <1>2. /\ slot[k].pc = "staged" /\ slot[k].art = None
        /\ UNCHANGED <<sized, bytes, stuck, revoked, task, req, worker, refs>>
    BY DEF create_runner_artifact_upload
  <1>3. row[a] = "none" /\ bytes[a] = "none" /\ a \notin worker.flushed /\ a \notin worker.external
    BY <1>1 DEF NewId, used
  <1>4. req[a] = "none" /\ \A j \in Lease : slot[j].art # a
    <2>1. req[a] = "none"
      BY <1>3 DEF RequestsFit
    <2>2. a # None
      OBVIOUS
    <2> QED BY <1>3, <2>1, <2>2 DEF SlotsApart
  <1>5. ArtifactTypeOK'
    BY <1>1, <1>2 DEF ArtifactTypeOK, Artifact, SlotState, Fault
  <1>6. ReadyHasContent' /\ FailedHasNoContent' /\ AnsweredIsReady' /\ RequestsFit'
    <2>1. slot \in [Lease -> SlotState]
      BY DEF ArtifactTypeOK
    <2>2. \A j \in Lease : slot'[j].uploaded = slot[j].uploaded
      <3> HIDE DEF ArtifactInv
      <3>1. CASE slot' = [slot EXCEPT ![k].art = a]
        BY <2>1, <3>1 DEF SlotState
      <3>2. CASE slot' = [slot EXCEPT ![k].pc = "gone"]
        BY <2>1, <3>2, SlotUpdates
      <3> QED BY <1>1, <3>1, <3>2
    <2>3. \A b \in Art : row[b] = "ready" /\ b \notin revoked => row'[b] = "ready" /\ b \notin revoked'
      BY <1>1, <1>2, <1>3 DEF ArtifactTypeOK
    <2>4. AnsweredIsReady'
      BY <2>1, <2>2, <2>3, AnsweredKept
    <2> QED BY <1>1, <1>2, <1>3, <1>4, <2>4 DEF ReadyHasContent, FailedHasNoContent, RequestsFit, ArtifactTypeOK
  <1>7. SlotsApart'
    <2>1. /\ slot \in [Lease -> SlotState] /\ a # None /\ row \in [Art -> Artifact]
          /\ \A j \in Lease : slot[j].art \in Art \cup {None}
      BY SlotUpdates DEF ArtifactTypeOK
    <2>2. \A b \in Art : row[b] # "none" => row'[b] # "none"
      BY <1>1, <2>1
    <2>3. CASE slot' = [slot EXCEPT ![k].art = a]
      <3>1. slot'[k].art = a /\ \A j \in Lease \ {k} : slot'[j] = slot[j]
        BY <2>1, <2>3, SlotUpdates
      <3>2. row'[a] = "staging"
        BY <1>1, <2>1
      <3> SUFFICES ASSUME NEW j \in Lease, slot'[j].art # None
                   PROVE  /\ row'[slot'[j].art] # "none"
                          /\ \A i \in Lease \ {j} : slot'[i].art # slot'[j].art
                          /\ slot'[j].pc = "staged" => req'[slot'[j].art] = "none" /\ bytes'[slot'[j].art] = "none"
        BY DEF SlotsApart
      <3>3. CASE j = k
        BY <1>2, <1>3, <1>4, <3>1, <3>2, <3>3
      <3>4. CASE j # k
        <4>1. /\ slot'[j] = slot[j] /\ slot[j].art \in Art /\ row'[slot[j].art] # "none"
          BY <2>1, <2>2, <3>1, <3>4 DEF SlotsApart
        <4>2. \A i \in Lease \ {j} : slot'[i].art # slot[j].art
          BY <1>4, <3>1, <4>1 DEF SlotsApart
        <4> QED BY <1>2, <4>1, <4>2 DEF SlotsApart
      <3> QED BY <3>3, <3>4
    <2>4. CASE slot' = [slot EXCEPT ![k].pc = "gone"]
      <3>1. \A j \in Lease : slot'[j].art = slot[j].art /\ (slot'[j].pc = "staged" => slot[j].pc = "staged")
        BY <2>1, <2>4, SlotUpdates
      <3>2. \A j \in Lease : slot'[j].art # None => row'[slot[j].art] # "none"
        BY <2>1, <2>2, <3>1 DEF SlotsApart
      <3> QED BY <1>2, <3>1, <3>2, ApartKept
    <2> QED BY <1>1, <2>3, <2>4
  <1>8. TransactionApart' /\ ReferencesFinished'
    BY <1>1, <1>2, <1>3 DEF TransactionApart, ReferencesFinished, Referable, ArtifactTypeOK, WorkerState
  <1> QED BY <1>5, <1>6, <1>7, <1>8

\* The content request starts on a staging row without content.
LEMMA ValidateStep ==
    ASSUME ArtifactInv, NEW k \in Lease, validate_runner_artifact_upload(k)
    PROVE  ArtifactInv'
  <1> USE Constants DEF ArtifactInv, validate_runner_artifact_upload
  <1>1. slot[k].art \in Art
    BY DEF ArtifactTypeOK, SlotState
  <1>2. ArtifactTypeOK'
    BY <1>1 DEF ArtifactTypeOK, SlotState
  <1>3. ReadyHasContent' /\ FailedHasNoContent' /\ AnsweredIsReady'
    BY DEF ReadyHasContent, FailedHasNoContent, AnsweredIsReady, ArtifactTypeOK, SlotState
  <1>4. RequestsFit'
    BY <1>1 DEF RequestsFit, SlotsApart, ArtifactTypeOK
  <1>5. SlotsApart'
    BY <1>1 DEF SlotsApart, ArtifactTypeOK, SlotState
  <1>6. TransactionApart' /\ ReferencesFinished'
    BY DEF TransactionApart, ReferencesFinished, Referable
  <1> QED BY <1>2, <1>3, <1>4, <1>5, <1>6

\* The submission adds finished uploads to the references.
LEMMA SubmitStep ==
    ASSUME ArtifactInv, NEW k \in Lease, submit_result(k)
    PROVE  ArtifactInv'
  <1> USE Constants DEF ArtifactInv, submit_result
  <1>1. slot[k].uploaded \subseteq Art
    BY DEF ArtifactTypeOK, SlotState
  <1>2. ArtifactTypeOK'
    BY <1>1 DEF ArtifactTypeOK, SlotState
  <1>3. ReadyHasContent' /\ FailedHasNoContent' /\ AnsweredIsReady' /\ RequestsFit'
    BY DEF ReadyHasContent, FailedHasNoContent, AnsweredIsReady, RequestsFit
  <1>4. SlotsApart'
    BY DEF SlotsApart, ArtifactTypeOK, SlotState
  <1>5. TransactionApart' /\ ReferencesFinished'
    BY DEF TransactionApart, ReferencesFinished, Referable
  <1> QED BY <1>2, <1>3, <1>4, <1>5

-----------------------------------------------------------------------------
(* The content request.                                                        *)

\* A request works on the row and the content of its own upload only.
LEMMA ContentSteps ==
    ASSUME ArtifactInv, NEW a \in Art,
           content_saved(a) \/ content_too_large(a) \/ content_raises(a) \/ content_deleted(a)
    PROVE  ArtifactInv'
  <1> USE Constants DEF ArtifactInv
  <1>1. /\ req[a] # "none" /\ a \notin worker.flushed
        /\ row[a] = (IF a \in revoked THEN "ready" ELSE "staging")
        /\ UNCHANGED <<row, sized, revoked, task, slot, worker, refs>>
        /\ stuck \subseteq stuck' /\ stuck' \subseteq stuck \cup {a}
    BY DEF content_saved, content_too_large, content_raises, content_deleted, RequestsFit, TransactionApart
  <1>2. /\ \A b \in Art \ {a} : bytes'[b] = bytes[b] /\ req'[b] = req[b]
        /\ req'[a] # "none"
        /\ req'[a] = "saved" => bytes'[a] = "full"
        /\ req'[a] = "failing" => bytes'[a] = "none" \/ a \in stuck'
        /\ req'[a] # "validated"
        /\ a \in revoked => req'[a] = "failing"
    BY DEF content_saved, content_too_large, content_raises, content_deleted, save_stream, delete,
           RequestsFit, ArtifactTypeOK
  <1>3. ArtifactTypeOK'
    <2>1. faults' \in 0 .. MaxFaults
      BY FaultType DEF content_saved, content_too_large, content_raises, content_deleted, ArtifactTypeOK
    <2>2. PICK b \in {"none", "partial", "full"} : bytes' = [bytes EXCEPT ![a] = b] \/ bytes' = bytes
      BY DEF content_saved, content_too_large, content_raises, content_deleted, save_stream, delete
    <2>3. PICK q \in {"saved", "deleting", "failing"} : req' = [req EXCEPT ![a] = q]
      BY DEF content_saved, content_too_large, content_raises, content_deleted
    <2> QED BY <1>1, <2>1, <2>2, <2>3 DEF ArtifactTypeOK
  <1>4. ReadyHasContent' /\ FailedHasNoContent'
    BY <1>1, <1>2 DEF ReadyHasContent, FailedHasNoContent
  <1>5. RequestsFit'
    BY <1>1, <1>2 DEF RequestsFit
  <1>6. AnsweredIsReady'
    BY <1>1, AnsweredKept DEF ArtifactTypeOK
  <1>7. SlotsApart'
    <2>1. \A j \in Lease : slot[j].art \in Art \cup {None}
      BY SlotUpdates DEF ArtifactTypeOK
    <2>2. \A j \in Lease : slot[j].art # None /\ slot[j].pc = "staged" => slot[j].art \in Art \ {a}
      BY <1>1, <2>1 DEF SlotsApart
    <2> QED BY <1>1, <1>2, <2>1, <2>2, ApartKept DEF SlotsApart
  <1>8. TransactionApart'
    BY <1>1, <1>2 DEF TransactionApart, ArtifactTypeOK, WorkerState
  <1>9. ReferencesFinished'
    BY <1>1 DEF ReferencesFinished, Referable
  <1> QED BY <1>3, <1>4, <1>5, <1>6, <1>7, <1>8, <1>9

\* The finalisation raises before its commit, and the row stays staging, or
\* after it, and the row is ready but revoked.
LEMMA FinalizeRaisesStep ==
    ASSUME ArtifactInv, NEW a \in Art, finalize_raises(a)
    PROVE  ArtifactInv'
  <1> USE Constants DEF ArtifactInv
  <1>1. /\ req[a] = "saved" /\ row[a] = "staging" /\ bytes[a] = "full" /\ a \notin revoked
        /\ a \notin worker.flushed /\ a \notin worker.external
        /\ UNCHANGED <<bytes, stuck, task, slot, worker, refs>>
        /\ req' = [req EXCEPT ![a] = "deleting"]
    BY DEF finalize_raises, RequestsFit, TransactionApart
  <1>2. \/ UNCHANGED <<row, sized, revoked>>
        \/ /\ row' = [row EXCEPT ![a] = "ready"]
           /\ sized' = sized \cup {a}
           /\ revoked' = revoked \cup {a}
    BY DEF finalize_raises
  <1>3. /\ row' \in [Art -> Artifact] /\ revoked \subseteq revoked' /\ revoked' \subseteq revoked \cup {a}
        /\ sized \subseteq sized' /\ sized' \subseteq Art
        /\ \A b \in Art \ {a} : row'[b] = row[b]
        /\ row'[a] = (IF a \in revoked' THEN "ready" ELSE "staging")
    BY <1>1, <1>2 DEF ArtifactTypeOK, Artifact
  <1>4. ArtifactTypeOK'
    <2>1. faults' \in 0 .. MaxFaults
      BY FaultType DEF finalize_raises, ArtifactTypeOK
    <2> QED BY <1>1, <1>3, <2>1 DEF ArtifactTypeOK
  <1>5. ReadyHasContent' /\ FailedHasNoContent'
    BY <1>1, <1>3 DEF ReadyHasContent, FailedHasNoContent
  <1>6. RequestsFit'
    BY <1>1, <1>3 DEF RequestsFit, ArtifactTypeOK
  <1>7. AnsweredIsReady'
    BY <1>1, <1>3, AnsweredKept DEF ArtifactTypeOK
  <1>8. SlotsApart'
    <2>1. \A j \in Lease : slot[j].art \in Art \cup {None}
      BY SlotUpdates DEF ArtifactTypeOK
    <2>2. \A j \in Lease : slot[j].art # None /\ slot[j].pc = "staged" => slot[j].art \in Art \ {a}
      BY <1>1, <2>1 DEF SlotsApart
    <2>3. \A j \in Lease : slot[j].art # None => row'[slot[j].art] # "none"
      BY <1>3, <2>1 DEF SlotsApart
    <2> QED BY <1>1, <2>1, <2>2, <2>3, ApartKept DEF ArtifactTypeOK
  <1>9. TransactionApart'
    BY <1>1, <1>3 DEF TransactionApart, ArtifactTypeOK, WorkerState
  <1>10. ReferencesFinished'
    <2>1. \A b \in Art : Referable(b) => Referable(b)'
      BY <1>1, <1>3 DEF Referable
    <2> QED BY <1>1, <1>3, <2>1 DEF ReferencesFinished, ArtifactTypeOK, WorkerState
  <1> QED BY <1>4, <1>5, <1>6, <1>7, <1>8, <1>9, <1>10

\* The row of a request ends: as ready with its content, or as failed without.
LEMMA EndSteps ==
    ASSUME ArtifactInv, NEW a \in Art,
           finalize_runner_artifact_upload(a) \/ fail_runner_artifact_upload(a) \/ api_crashes(a)
    PROVE  ArtifactInv'
  <1> USE Constants DEF ArtifactInv
  <1>1. /\ req[a] # "none" /\ a \notin worker.flushed /\ a \notin worker.external
        /\ row[a] = (IF a \in revoked THEN "ready" ELSE "staging")
        /\ UNCHANGED <<bytes, stuck, revoked, task, worker, refs>>
        /\ req' = [req EXCEPT ![a] = "none"]
        /\ sized \subseteq sized' /\ sized' \subseteq sized \cup {a}
    BY DEF finalize_runner_artifact_upload, fail_runner_artifact_upload, api_crashes, RequestsFit,
           TransactionApart
  <1>2. /\ row' \in [Art -> Artifact]
        /\ \A b \in Art \ {a} : row'[b] = row[b]
        /\ \/ row'[a] = row[a]
           \/ row'[a] = "ready" /\ bytes[a] = "full" /\ a \in sized' /\ a \notin revoked
           \/ row'[a] = "failed" /\ (bytes[a] = "none" \/ a \in stuck)
    <2>1. row \in [Art -> Artifact]
      BY DEF ArtifactTypeOK
    <2>2. CASE finalize_runner_artifact_upload(a)
      BY <2>1, <2>2 DEF finalize_runner_artifact_upload, RequestsFit, Artifact
    <2>3. CASE fail_runner_artifact_upload(a)
      BY <2>1, <2>3 DEF fail_runner_artifact_upload, RequestsFit, Artifact
    <2>4. CASE api_crashes(a)
      BY <1>1, <2>1, <2>4 DEF api_crashes
    <2> QED BY <2>2, <2>3, <2>4
  <1>3. /\ slot' \in [Lease -> SlotState] /\ faults' \in 0 .. MaxFaults
        /\ \A k \in Lease :
             /\ slot'[k].art = slot[k].art \/ slot'[k].art = None
             /\ slot'[k].art # None /\ slot'[k].pc = "staged" => slot[k].pc = "staged" /\ slot[k].art # a
    <2>1. CASE finalize_runner_artifact_upload(a)
      <3>1. PICK k \in Lease :
              /\ slot[k].pc = "sent" /\ slot[k].art = a
              /\ \/ /\ slot' = [slot EXCEPT ![k].pc = "staged", ![k].art = None, ![k].uploaded = @ \cup {a}]
                    /\ faults' = faults
                 \/ slot' = [slot EXCEPT ![k].pc = "gone"] /\ Fault
        BY <2>1 DEF finalize_runner_artifact_upload
      <3>2. \A j \in Lease \ {k} : slot[j].art # a
        BY <3>1 DEF SlotsApart
      <3>3. slot \in [Lease -> SlotState] /\ faults' \in 0 .. MaxFaults
        BY <3>1, FaultType DEF ArtifactTypeOK
      <3>4. CASE slot' = [slot EXCEPT ![k].pc = "staged", ![k].art = None, ![k].uploaded = @ \cup {a}]
        <4>1. slot' \in [Lease -> SlotState] /\ slot'[k].art = None /\ \A j \in Lease \ {k} : slot'[j] = slot[j]
          <5> DEFINE s == [slot[k] EXCEPT !.pc = "staged", !.art = None, !.uploaded = @ \cup {a}]
          <5>1. s \in SlotState /\ s.art = None
            BY <3>3 DEF SlotState
          <5>2. slot' = [slot EXCEPT ![k] = s]
            BY <3>4
          <5> HIDE DEF s
          <5> QED BY <3>3, <5>1, <5>2
        <4> QED BY <3>2, <3>3, <4>1
      <3>5. CASE slot' = [slot EXCEPT ![k].pc = "gone"]
        <4>1. /\ slot' \in [Lease -> SlotState] /\ slot'[k].art = slot[k].art /\ slot'[k].pc = "gone"
              /\ \A j \in Lease \ {k} : slot'[j] = slot[j]
          BY <3>3, <3>5, SlotUpdates
        <4> QED BY <3>2, <3>3, <4>1
      <3> QED BY <3>1, <3>4, <3>5
    <2>2. CASE fail_runner_artifact_upload(a) \/ api_crashes(a)
      BY <2>2 DEF fail_runner_artifact_upload, api_crashes, ArtifactTypeOK, SlotState, Fault
    <2> QED BY <2>1, <2>2
  <1>4. ArtifactTypeOK'
    BY <1>1, <1>2, <1>3 DEF ArtifactTypeOK
  <1>5. ReadyHasContent' /\ FailedHasNoContent' /\ RequestsFit'
    BY <1>1, <1>2 DEF ReadyHasContent, FailedHasNoContent, RequestsFit, ArtifactTypeOK
  <1>9. AnsweredIsReady'
    <2>1. ASSUME NEW k \in Lease, NEW b \in slot[k].uploaded
          PROVE  row'[b] = "ready" /\ b \notin revoked'
      <3>1. b \in Art /\ row[b] = "ready" /\ b \notin revoked
        <4>1. slot \in [Lease -> SlotState]
          BY DEF ArtifactTypeOK
        <4>2. slot[k].uploaded \subseteq Art
          BY <4>1, SlotUpdates
        <4> QED BY <4>2 DEF AnsweredIsReady
      <3> QED BY <1>1, <1>2, <3>1
    <2>2. ASSUME NEW k \in Lease, NEW b \in slot'[k].uploaded
          PROVE  row'[b] = "ready" /\ b \notin revoked'
      <3>1. CASE b \in slot[k].uploaded
        BY <2>1, <3>1
      <3>2. CASE b \notin slot[k].uploaded
        <4>1. b = a /\ finalize_runner_artifact_upload(a)
          <5>1. slot \in [Lease -> SlotState]
            BY DEF ArtifactTypeOK
          <5>2. fail_runner_artifact_upload(a) \/ api_crashes(a) => slot'[k].uploaded = slot[k].uploaded
            BY <5>1 DEF fail_runner_artifact_upload, api_crashes, SlotState
          <5>3. finalize_runner_artifact_upload(a) => slot'[k].uploaded \subseteq slot[k].uploaded \cup {a}
            <6> SUFFICES ASSUME finalize_runner_artifact_upload(a)
                         PROVE  slot'[k].uploaded \subseteq slot[k].uploaded \cup {a}
              OBVIOUS
            <6>1. PICK j \in Lease :
                    \/ slot' = [slot EXCEPT ![j].pc = "staged", ![j].art = None, ![j].uploaded = @ \cup {a}]
                    \/ slot' = [slot EXCEPT ![j].pc = "gone"]
              BY DEF finalize_runner_artifact_upload
            <6> QED BY <5>1, <6>1 DEF SlotState
          <5> QED BY <3>2, <5>2, <5>3
        <4>2. req[a] = "saved" /\ row' = [row EXCEPT ![a] = "ready"]
          BY <4>1 DEF finalize_runner_artifact_upload
        <4>3. a \notin revoked
          BY <4>2 DEF RequestsFit
        <4>4. row'[a] = "ready"
          BY <4>2 DEF ArtifactTypeOK
        <4> QED BY <1>1, <4>1, <4>3, <4>4
      <3> QED BY <3>1, <3>2
    <2> QED BY <2>2 DEF AnsweredIsReady
  <1>6. SlotsApart'
    <2>1. \A j \in Lease : slot[j].art \in Art \cup {None}
      BY SlotUpdates DEF ArtifactTypeOK
    <2>2. \A j \in Lease : slot'[j].art # None => row'[slot[j].art] # "none"
      BY <1>2, <1>3, <2>1 DEF SlotsApart
    <2>3. \A j \in Lease : slot'[j].art # None /\ slot'[j].pc = "staged" => req'[slot[j].art] = req[slot[j].art]
      BY <1>1, <1>3, <2>1 DEF ArtifactTypeOK
    <2>4. \A j \in Lease : slot'[j].art # None =>
            /\ slot'[j].art = slot[j].art
            /\ slot'[j].pc = "staged" => slot[j].pc = "staged"
      BY <1>3
    <2> QED BY <1>1, <2>2, <2>3, <2>4, ApartKept
  <1>7. TransactionApart'
    BY <1>1, <1>2 DEF TransactionApart, ArtifactTypeOK, WorkerState
  <1>8. ReferencesFinished'
    BY <1>1, <1>2 DEF ReferencesFinished, Referable, ArtifactTypeOK, WorkerState
  <1> QED BY <1>4, <1>5, <1>6, <1>7, <1>8, <1>9

-----------------------------------------------------------------------------
(* The Worker's side.                                                          *)

\* The rest of a candidate list is one.
LEMMA Rest == ArtifactTypeOK /\ worker.todo # <<>> => Tail(worker.todo) \in Seq(CandidateKind)
  BY DEF ArtifactTypeOK, WorkerState

\* Registration draws new ids and stores whole contents.
LEMMA RegisterSteps ==
    ASSUME ArtifactInv, worker_result \/ register_artifact_bytes \/ register_external_artifact
                        \/ reference_candidate \/ ignored_candidate
    PROVE  ArtifactInv'
  <1> USE Constants DEF ArtifactInv
  <1>1. /\ UNCHANGED <<row, sized, stuck, revoked, task, slot, req, refs, faults>>
    BY DEF worker_result, register_artifact_bytes, register_external_artifact, reference_candidate, ignored_candidate
  <1>2. /\ worker' \in WorkerState /\ bytes' \in [Art -> {"none", "partial", "full"}]
        /\ \A b \in Art : bytes'[b] = bytes[b] \/ (bytes[b] = "none" /\ row[b] = "none" /\ b \in worker'.flushed)
        /\ TransactionApart' /\ ReferencesFinished'
    <2> USE <1>1
    <2>1. worker \in WorkerState /\ bytes \in [Art -> {"none", "partial", "full"}]
      BY DEF ArtifactTypeOK
    <2>2. CASE worker_result
      <3>1. PICK c \in Candidates :
              worker' = [pc |-> "registering", todo |-> c, flushed |-> {}, external |-> {}, refs |-> {}]
        BY <2>2 DEF worker_result, NoWork
      <3>2. worker' \in WorkerState
        BY <3>1, ArtifactAssumption DEF WorkerState
      <3>3. TransactionApart' /\ ReferencesFinished'
        BY <3>1 DEF TransactionApart, ReferencesFinished, Referable
      <3> QED BY <2>1, <2>2, <3>2, <3>3 DEF worker_result
    <2>3. CASE register_artifact_bytes
      <3>1. PICK a \in Art :
              /\ NewId(a) /\ bytes' = [bytes EXCEPT ![a] = "full"]
              /\ worker' = [worker EXCEPT !.todo = Tail(@), !.flushed = @ \cup {a}, !.refs = @ \cup {a}]
        BY <2>3 DEF register_artifact_bytes, save_bytes
      <3>2. worker.pc = "registering" /\ Tail(worker.todo) \in Seq(CandidateKind)
        BY <2>3, Rest DEF register_artifact_bytes, Registering
      <3>3. /\ worker' \in WorkerState
            /\ worker'.pc = "registering" /\ worker'.external = worker.external
            /\ worker'.flushed = worker.flushed \cup {a} /\ worker'.refs = worker.refs \cup {a}
        BY <2>1, <3>1, <3>2 DEF WorkerState
      <3>4. row[a] = "none" /\ bytes[a] = "none" /\ a \notin worker.flushed /\ a \notin worker.external
        BY <3>1 DEF NewId, used
      <3>5. bytes' \in [Art -> {"none", "partial", "full"}] /\ bytes'[a] = "full" /\ \A b \in Art \ {a} : bytes'[b] = bytes[b]
        BY <2>1, <3>1
      <3>6. worker.flushed \subseteq Art
        BY <2>1 DEF WorkerState
      <3>7. TransactionApart'
        BY <3>3, <3>4, <3>5, <3>6 DEF TransactionApart
      <3>8. ReferencesFinished'
        BY <3>3 DEF ReferencesFinished, Referable
      <3> QED BY <3>3, <3>4, <3>5, <3>7, <3>8
    <2>4. CASE register_external_artifact
      <3>1. PICK a \in Art :
              /\ NewId(a) /\ bytes' = bytes
              /\ worker' = [worker EXCEPT !.todo = Tail(@), !.external = @ \cup {a}, !.refs = @ \cup {a}]
        BY <2>4 DEF register_external_artifact
      <3>2. worker.pc = "registering" /\ Tail(worker.todo) \in Seq(CandidateKind)
        BY <2>4, Rest DEF register_external_artifact, Registering
      <3>3. /\ worker' \in WorkerState
            /\ worker'.pc = "registering" /\ worker'.external = worker.external \cup {a}
            /\ worker'.flushed = worker.flushed /\ worker'.refs = worker.refs \cup {a}
        BY <2>1, <3>1, <3>2 DEF WorkerState
      <3>4. row[a] = "none" /\ a \notin worker.flushed
        BY <3>1 DEF NewId, used
      <3>5. TransactionApart'
        BY <3>1, <3>3, <3>4 DEF TransactionApart
      <3>6. ReferencesFinished'
        BY <3>3 DEF ReferencesFinished, Referable
      <3> QED BY <2>1, <3>1, <3>3, <3>5, <3>6
    <2>5. CASE reference_candidate \/ ignored_candidate
      <3>1. PICK R \in SUBSET Art :
              /\ bytes' = bytes /\ \A a \in R : Referable(a)
              /\ worker' = [worker EXCEPT !.todo = Tail(@), !.refs = @ \cup R]
        <4>1. CASE reference_candidate
          <5>1. PICK a \in Art : Referable(a) /\ worker' = [worker EXCEPT !.todo = Tail(@), !.refs = @ \cup {a}]
            BY <4>1 DEF reference_candidate
          <5> WITNESS {a} \in SUBSET Art
          <5> QED BY <4>1, <5>1 DEF reference_candidate
        <4>2. CASE ignored_candidate
          <5>1. worker' = [worker EXCEPT !.todo = Tail(@), !.refs = @ \cup {}]
            BY <2>1, <4>2 DEF ignored_candidate, WorkerState
          <5> WITNESS {} \in SUBSET Art
          <5> QED BY <4>2, <5>1 DEF ignored_candidate
        <4> QED BY <2>5, <4>1, <4>2
      <3>2. worker.pc = "registering" /\ Tail(worker.todo) \in Seq(CandidateKind)
        BY <2>5, Rest DEF reference_candidate, ignored_candidate, Registering
      <3>3. /\ worker' \in WorkerState
            /\ worker'.pc = "registering" /\ worker'.external = worker.external
            /\ worker'.flushed = worker.flushed /\ worker'.refs = worker.refs \cup R
        BY <2>1, <3>1, <3>2 DEF WorkerState
      <3>4. TransactionApart'
        BY <3>1, <3>3 DEF TransactionApart
      <3>5. ReferencesFinished'
        BY <3>1, <3>3 DEF ReferencesFinished, Referable
      <3> QED BY <2>1, <3>1, <3>3, <3>4, <3>5
    <2> QED BY <2>2, <2>3, <2>4, <2>5
  <1>4. ArtifactTypeOK'
    BY <1>1, <1>2 DEF ArtifactTypeOK
  <1>5. ReadyHasContent' /\ FailedHasNoContent' /\ AnsweredIsReady' /\ RequestsFit'
    BY <1>1, <1>2 DEF ReadyHasContent, FailedHasNoContent, AnsweredIsReady, RequestsFit
  <1>6. SlotsApart'
    BY <1>1, <1>2 DEF SlotsApart, ArtifactTypeOK, SlotState
  <1> QED BY <1>2, <1>4, <1>5, <1>6

\* The Worker's transaction is given up, with or without its contents.
LEMMA GiveUpSteps ==
    ASSUME ArtifactInv, flush_fails \/ register_raises \/ worker_crashes \/ worker_completes
    PROVE  ArtifactInv'
  <1> USE Constants DEF ArtifactInv
  <1>1. /\ UNCHANGED <<row, sized, stuck, revoked, task, slot, req>> /\ worker' = NoWork
        /\ faults' \in 0 .. MaxFaults
    BY DEF flush_fails, register_raises, worker_crashes, worker_completes, Fault, ArtifactTypeOK
  <1>2. /\ bytes' \in [Art -> {"none", "partial", "full"}]
        /\ \A b \in Art : bytes'[b] = bytes[b] \/ (bytes'[b] = "none" /\ row[b] = "none")
    BY DEF flush_fails, register_raises, worker_crashes, worker_completes, after_rollback, session_close,
           ArtifactTypeOK, TransactionApart
  <1>3. /\ refs' \subseteq Art /\ \A a \in refs' : Referable(a) \/ a \in revoked
    BY DEF flush_fails, register_raises, worker_crashes, worker_completes, ArtifactTypeOK, WorkerState,
           TransactionApart, ReferencesFinished
  <1>4. ArtifactTypeOK'
    BY <1>1, <1>2, <1>3 DEF ArtifactTypeOK, NoWork, WorkerState
  <1>5. ReadyHasContent' /\ FailedHasNoContent' /\ AnsweredIsReady' /\ RequestsFit'
    BY <1>1, <1>2 DEF ReadyHasContent, FailedHasNoContent, AnsweredIsReady, RequestsFit
  <1>6. SlotsApart'
    BY <1>1, <1>2 DEF SlotsApart, ArtifactTypeOK, SlotState
  <1>7. TransactionApart' /\ ReferencesFinished'
    BY <1>1, <1>3 DEF TransactionApart, ReferencesFinished, NoWork, Referable
  <1> QED BY <1>4, <1>5, <1>6, <1>7

\* The commit gives rows to the ids of the transaction.
LEMMA CommitStep ==
    ASSUME ArtifactInv, worker_commits
    PROVE  ArtifactInv'
  <1> USE Constants DEF ArtifactInv, worker_commits
  <1>1. \A b \in Art :
          /\ b \in worker.flushed => row'[b] = "stored" /\ row[b] = "none" /\ bytes[b] = "full" /\ b \in sized'
          /\ b \in worker.external => row'[b] = "external" /\ row[b] = "none"
          /\ b \notin worker.flushed \cup worker.external => row'[b] = row[b]
    BY DEF TransactionApart, ArtifactTypeOK, WorkerState
  <1>2. row' \in [Art -> Artifact]
    BY DEF ArtifactTypeOK, Artifact
  <1>3. ArtifactTypeOK'
    BY <1>2 DEF ArtifactTypeOK, WorkerState
  <1>4. ReadyHasContent' /\ FailedHasNoContent' /\ RequestsFit'
    BY <1>1 DEF ReadyHasContent, FailedHasNoContent, RequestsFit
  <1>8. AnsweredIsReady'
    <2>1. \A b \in Art : row[b] = "ready" => row'[b] = "ready"
      BY <1>1
    <2>2. slot \in [Lease -> SlotState]
      BY DEF ArtifactTypeOK
    <2> QED BY <2>1, <2>2 DEF AnsweredIsReady, SlotState
  <1>5. SlotsApart'
    BY <1>1 DEF SlotsApart, ArtifactTypeOK, SlotState
  <1>6. TransactionApart'
    BY DEF TransactionApart, ArtifactTypeOK, WorkerState
  <1>7. ReferencesFinished'
    BY <1>1 DEF ReferencesFinished, Referable, ArtifactTypeOK, WorkerState
  <1> QED BY <1>3, <1>4, <1>5, <1>6, <1>7, <1>8

-----------------------------------------------------------------------------
\* Every step preserves the invariant.
LEMMA NextInv == ArtifactInv /\ [Next]_vars => ArtifactInv'
  <1> SUFFICES ASSUME ArtifactInv, [Next]_vars PROVE ArtifactInv'
    OBVIOUS
  <1>1. ASSUME NEW k \in Lease, Upload(k) PROVE ArtifactInv'
    BY <1>1, SlotSteps, CreateStep, ValidateStep, SubmitStep DEF Upload
  <1>2. ASSUME NEW a \in Art, Content(a) \/ api_crashes(a) PROVE ArtifactInv'
    BY <1>2, ContentSteps, FinalizeRaisesStep, EndSteps DEF Content
  <1>3. CASE LeaseLost
    <2> USE <1>3 DEF LeaseLost, Fault, ArtifactInv
    <2>1. ArtifactTypeOK'
      BY ArtifactAssumption DEF ArtifactTypeOK
    <2>2. ReadyHasContent' /\ FailedHasNoContent' /\ AnsweredIsReady' /\ RequestsFit' /\ SlotsApart'
      BY DEF ReadyHasContent, FailedHasNoContent, AnsweredIsReady, RequestsFit, SlotsApart
    <2>3. TransactionApart' /\ ReferencesFinished'
      BY DEF TransactionApart, ReferencesFinished, Referable
    <2> QED BY <2>1, <2>2, <2>3
  <1>4. CASE Worker \/ worker_crashes
    BY <1>4, RegisterSteps, GiveUpSteps, CommitStep DEF Worker
  <1>5. CASE UNCHANGED vars
    <2> USE <1>5 DEF vars, ArtifactInv
    <2>1. ArtifactTypeOK'
      BY DEF ArtifactTypeOK
    <2>2. ReadyHasContent' /\ FailedHasNoContent' /\ AnsweredIsReady' /\ RequestsFit' /\ SlotsApart'
      BY DEF ReadyHasContent, FailedHasNoContent, AnsweredIsReady, RequestsFit, SlotsApart
    <2>3. TransactionApart' /\ ReferencesFinished'
      BY DEF TransactionApart, ReferencesFinished, Referable
    <2> QED BY <2>1, <2>2, <2>3
  <1> QED BY <1>1, <1>2, <1>3, <1>4, <1>5 DEF Next

\* Rows and contents agree in every state: an artifact is ready or stored only
\* with its content, and failed only without (finalize_runner_artifact_upload and
\* the exception handler of the content endpoint), except for an upload whose
\* finalisation raised after its commit; an answered upload is never one of these.
THEOREM RowsAgreeWithStorage == Spec => []ArtifactInv
  BY InitInv, NextInv, PTL DEF Spec

\* What a NodeRun references can be read, but for a revoked upload that another
\* node's result named (register_artifact_candidates).
THEOREM ReferencesReadable == Spec => []ReferencedIsReadable
  <1>1. ArtifactInv => ReferencedIsReadable
    BY DEF ArtifactInv, ReferencesFinished, ReferencedIsReadable, ReadyHasContent, Referable,
           get_artifact_content, open, ArtifactTypeOK
  <1> QED BY <1>1, RowsAgreeWithStorage, PTL
=============================================================================
