-------------------------- MODULE MCArtifactStore ---------------------------
(* Bounds for ArtifactStore: three ids, two attempts of the Runner's task. *)
EXTENDS ArtifactStore

MCArt == 1 .. 3
MCLease == 1 .. 2
MCCandidates == {<<"bytes", "ref">>, <<"external", "other", "bytes">>, <<"bytes", "large">>, <<"path">>}
=============================================================================
