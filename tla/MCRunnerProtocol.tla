-------------------------- MODULE MCRunnerProtocol --------------------------
(* Instances of RunnerProtocol. *)
EXTENDS RunnerProtocol, TLC

CONSTANTS r1, r2, e1, e2, k1, k2, k3, k4

OneRunner == {r1}
TwoRunners == {r1, r2}
TwoExecs == {e1, e2}
SameRunner == [e \in Exec |-> r1]
Apart == (e1 :> r1 @@ e2 :> r2)
ThreeTokens == {k1, k2, k3}
FourTokens == {k1, k2, k3, k4}
=============================================================================
