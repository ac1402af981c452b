------------------------- MODULE MCWorkflowRuntime -------------------------
(* Instances of WorkflowRuntime: small graphs, one or two requests at a time. *)
EXTENDS WorkflowRuntime, TLC

CONSTANTS in, a, b, d, out, s1, s2, w1, k1, k2, k3, k4, k5, c1, c2, r1, r2

Link(x, y) == [src |-> x, dst |-> y, handle |-> "out"]
Branch(x, h, y) == [src |-> x, dst |-> y, handle |-> h]

Inputs == {in}
OneSlot == {s1}
TwoSlots == {s1, s2}
OneWorker == {w1}
SlotOwner == [s \in Slot |-> w1]
TwoTokens == {k1, k2}
ThreeTokens == {k1, k2, k3}
FourTokens == {k1, k2, k3, k4}
FiveTokens == {k1, k2, k3, k4, k5}
Symmetric == Permutations(Token) \cup Permutations(Slot) \cup Permutations(Client)
OnceEach == [t \in Task |-> 1]
OneClient == {c1}
TwoClients == {c1, c2}
NoRecoverer == {}
OneRecoverer == {r1}
AllOps == {"start", "pause", "resume", "cancel", "decide"}
PauseOps == {"start", "pause", "resume"}
StartOnly == {"start"}
StartDecideCancel == {"start", "decide", "cancel"}

\* in -> a; a -true-> b -> out; a -false-> d -> out; d is skipped or run.
DiamondTasks == {a, b, d, out}
DiamondParking == {d}
DiamondKind == (a :> "condition" @@ b :> "plain" @@ d :> "approval" @@ out :> "plain")
DiamondEdges ==
    {Link(in, a), Branch(a, "true", b), Branch(a, "false", d), Link(b, out), Link(d, out)}

\* in -> a (approval) -> out; in -> b -> out: a parked branch beside a running one.
ParallelTasks == {a, b, out}
ParallelParking == {a}
ParallelKind == (a :> "approval" @@ b :> "plain" @@ out :> "plain")
ParallelEdges == {Link(in, a), Link(in, b), Link(a, out), Link(b, out)}

\* in -> a (timer) -> out.
TimerTasks == {a, out}
TimerParking == {a}
TimerAttempts == (a :> 1 @@ out :> 2)
TimerKind == (a :> "timer" @@ out :> "plain")
TimerEdges == {Link(in, a), Link(a, out)}

\* in -> a (condition) -true-> b -> out and -false-> out; in -> d -> out.
ForkTasks == {a, b, d, out}
ForkParking == {}
ForkKind == (a :> "condition" @@ b :> "plain" @@ d :> "plain" @@ out :> "plain")
ForkEdges ==
    {Link(in, a), Branch(a, "true", b), Branch(a, "false", out), Link(b, out),
     Link(in, d), Link(d, out)}
=============================================================================
