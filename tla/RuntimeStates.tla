--------------------------- MODULE RuntimeStates ---------------------------
(***************************************************************************)
(* The three status enumerations of Relayvia and the transition tables     *)
(* that guard every change of a status column: WorkflowRun and NodeRun     *)
(* (runtime/state_machine) and ExecutionTask (domain/execution).  A table  *)
(* is the relation of its legal (current, target) pairs; a transition_*    *)
(* call of the code is membership in the relation, and an illegal call     *)
(* raises and rolls the transaction back.                                  *)
(***************************************************************************)

WorkflowRunStatus ==
    {"created", "running", "waiting", "paused", "completed", "failed", "cancelled"}

WORKFLOW_RUN_TERMINAL == {"completed", "failed", "cancelled"}

WORKFLOW_RUN_TRANSITIONS ==
    ({"created"} \X {"running", "cancelled"})
    \cup ({"running"} \X {"waiting", "paused", "completed", "failed", "cancelled"})
    \cup ({"waiting"} \X {"running", "paused", "failed", "cancelled"})
    \cup ({"paused"} \X {"running", "cancelled"})

NodeRunStatus ==
    {"pending", "queued", "running", "waiting", "retrying",
     "completed", "failed", "skipped", "cancelled"}

NODE_RUN_TERMINAL == {"completed", "failed", "skipped", "cancelled"}

NODE_RUN_TRANSITIONS ==
    ({"pending"} \X {"queued", "skipped", "cancelled"})
    \cup ({"queued"} \X {"running", "cancelled"})
    \cup ({"running"} \X {"completed", "failed", "waiting", "retrying", "cancelled"})
    \cup ({"waiting"} \X {"running", "completed", "failed", "cancelled"})
    \cup ({"retrying"} \X {"queued", "failed", "cancelled"})

ExecutionTaskStatus ==
    {"pending", "claimed", "running", "retry_wait", "completed", "failed", "cancelled"}

EXECUTION_TASK_TERMINAL == {"completed", "failed", "cancelled"}

EXECUTION_TASK_TRANSITIONS ==
    ({"pending"} \X {"claimed", "cancelled"})
    \cup ({"claimed"} \X {"running", "pending", "cancelled"})
    \cup ({"running"} \X {"completed", "retry_wait", "failed", "cancelled", "pending"})
    \cup ({"retry_wait"} \X {"pending", "failed", "cancelled"})

transition_workflow_run(current, target) == <<current, target>> \in WORKFLOW_RUN_TRANSITIONS

transition_node_run(current, target) == <<current, target>> \in NODE_RUN_TRANSITIONS

transition_execution_task(current, target) == <<current, target>> \in EXECUTION_TASK_TRANSITIONS

is_workflow_run_terminal(status) == status \in WORKFLOW_RUN_TERMINAL

is_node_run_terminal(status) == status \in NODE_RUN_TERMINAL

is_execution_task_terminal(status) == status \in EXECUTION_TASK_TERMINAL
=============================================================================
