-------------------------- MODULE MCExecutionQueue --------------------------
(* Instances of ExecutionQueue: slots s1 and s2 belong to one Worker process, *)
(* so only the lease token tells their claims apart.                          *)
EXTENDS ExecutionQueue, TLC

CONSTANTS t1, t2, s1, s2, w1, k1, k2, k3

\* t1 is executed and may be retried once, t2 is a human or wait node.
TwoTasks == {t1, t2}
ParkingTask == {t2}
Attempts == (t1 :> 2 @@ t2 :> 1)
TwoSlots == {s1, s2}
OneWorker == {w1}
SlotOwner == [s \in Slot |-> w1]
ThreeTokens == {k1, k2, k3}
Symmetric == Permutations(Token) \cup Permutations(Slot)
=============================================================================
