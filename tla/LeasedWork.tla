----------------------------- MODULE LeasedWork -----------------------------
(***************************************************************************)
(* What the execution queue promises, without workers, clocks or retries:  *)
(* an item of work is offered once, is granted to one holder at a time,    *)
(* may be revoked and granted again (at-least-once execution), and gets    *)
(* its outcome once: in the very step in which it leaves the queue, and    *)
(* only from its current holder, unless it is dropped.  An outcome may be  *)
(* "waiting" for a decision that is taken later; any other is final.       *)
(***************************************************************************)
CONSTANTS Work, Lease, NoLease,
          Final,     \* the outcomes that never change
          Dropped    \* those of work that is no longer wanted

VARIABLES phase,    \* "none", "open", "held" or "closed"
          holder,   \* the lease of a held item
          outcome   \* "none", "waiting" or a final outcome

vars == <<phase, holder, outcome>>

Init ==
    /\ phase = [w \in Work |-> "none"]
    /\ holder = [w \in Work |-> NoLease]
    /\ outcome = [w \in Work |-> "none"]

Same(w) == phase'[w] = phase[w] /\ holder'[w] = holder[w] /\ outcome'[w] = outcome[w]

Offer(w) ==
    /\ phase[w] = "none" /\ phase'[w] = "open"
    /\ holder'[w] = NoLease
    /\ outcome'[w] = "none"

\* A lease is never shared, neither with the past holder nor between items.
Grant(w) ==
    /\ phase[w] = "open" /\ phase'[w] = "held"
    /\ holder'[w] \in Lease
    /\ \A v \in Work : holder[v] # holder'[w]
    /\ outcome'[w] = "none"

Revoke(w) ==
    /\ phase[w] = "held" /\ phase'[w] = "open"
    /\ holder'[w] = NoLease
    /\ outcome'[w] = "none"

Publish(w) ==
    /\ phase[w] = "held" /\ phase'[w] = "closed"
    /\ holder'[w] = NoLease
    /\ outcome[w] = "none" /\ outcome'[w] \in (Final \ Dropped) \cup {"waiting"}

\* The work is no longer wanted: skipped, or cancelled with its run.
Withdraw(w) ==
    /\ phase[w] # "closed" /\ phase'[w] = "closed"
    /\ holder'[w] = NoLease
    /\ outcome[w] = "none" /\ outcome'[w] \in Dropped

Decide(w) ==
    /\ phase[w] = "closed" /\ phase'[w] = "closed"
    /\ holder'[w] = NoLease
    /\ outcome[w] = "waiting" /\ outcome'[w] \in Final

\* One transaction may concern several items.
Next ==
    \A w \in Work :
        Same(w) \/ Offer(w) \/ Grant(w) \/ Revoke(w) \/ Publish(w) \/ Withdraw(w) \/ Decide(w)

Spec == Init /\ [][Next]_vars
=============================================================================
