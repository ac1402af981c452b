------------------------------ MODULE GraphRun ------------------------------
(***************************************************************************)
(* What the validation engine promises the runtime: a graph is validated,  *)
(* frozen as a Version and run.  The scheduler (runtime/scheduler), the    *)
(* context resolver (runtime/context) and the executor (runtime/executor)  *)
(* work on the very graph that GraphRules accepted, with every output the  *)
(* called capabilities can return and every decision of the conditions.    *)
(* The queue between them is ExecutionQueue's business: here a queued node *)
(* is executed in one step, and reconciliation belongs to that step.       *)
(***************************************************************************)
EXTENDS GraphRules

CONSTANT Graphs     \* the graphs that clients submit

\* Nodes, edges and the clauses of an expression are lists, and an expression is
\* a finite tree: the clauses of a clause come after it.
ASSUME GraphsAreDocuments ==
    \A g \in Graphs :
        /\ g.nodes \in Seq(Range(g.nodes)) /\ g.edges \in Seq(Range(g.edges))
        /\ \A n \in Range(g.nodes) :
              /\ n.expr \in Seq(Range(n.expr))
              /\ \A i \in DOMAIN n.expr : n.expr[i].clauses \in Seq(i + 1 .. Len(n.expr))

VARIABLES
    graph,
    phase,      \* draft, invalid (no draft at all), rejected (no Version), or the Run's status
    input,      \* WorkflowRun.input_json
    status,     \* NodeRun.status
    output,     \* NodeRun.output_json
    error,      \* NodeRun.error_json's code
    attempt     \* calls of the node's capability

vars == <<graph, phase, input, status, output, error, attempt>>

-----------------------------------------------------------------------------
(* Values: a JSON class and a size; 0 is false or empty.  A whole number   *)
(* may come as an integer or as a float.                                   *)

Values ==
    [integer |-> {<<"int", 0>>, <<"int", 1>>}, number |-> {<<"frac", 0>>, <<"whole", 1>>},
     string |-> {<<"str", 0>>, <<"str", 1>>}, boolean |-> {<<"bool", 1>>},
     array |-> {<<"arr", 0>>, <<"arr", 1>>}, object |-> {<<"obj", 1>>}, null |-> {<<"null", 0>>}]

\* JSON Schema's type, as jsonschema checks it.
conforms(v, type) ==
    CASE type = "integer" -> v[1] \in {"int", "whole"}
      [] type = "number" -> v[1] \in {"int", "whole", "frac"}
      [] type = "string" -> v[1] = "str"
      [] type = "boolean" -> v[1] = "bool"
      [] type = "array" -> v[1] = "arr"
      [] type = "object" -> v[1] = "obj"
      [] type = "null" -> v[1] = "null"
      [] OTHER -> TRUE

\* Draft7Validator(schema).iter_errors(value) is empty.
validate_payload(value, schema) ==
    /\ schema.required \subseteq DOMAIN value
    /\ schema.closed => DOMAIN value \subseteq DOMAIN schema.type
    /\ \A f \in DOMAIN value \cap DOMAIN schema.type : conforms(value[f], schema.type[f])

\* What a capability may answer, up to its schema: any subset of the declared
\* fields that has the required ones.
Answers(schema) ==
    UNION {{v \in [F -> UNION {Values[t] : t \in {schema.type[f] : f \in F}}] : validate_payload(v, schema)} :
              F \in {F \in SUBSET DOMAIN schema.type : schema.required \subseteq F}}

\* What may come where nobody checks: the declared fields, of any type.
Unchecked(schema) ==
    UNION {[F -> UNION {Values[t] : t \in DOMAIN Values}] : F \in SUBSET DOMAIN schema.type}

\* _validate_run_input: only a schema with "type": "object" is enforced.
RunInputs(schema) == IF schema.object THEN Answers(schema) ELSE Unchecked(schema)

\* _is_sensitive_key.
Sensitive(f) == f = "token"

\* sanitize_output: a sensitive field is redacted; of an output that is too large
\* only a note is kept.
sanitize_output(o) ==
    {[f \in DOMAIN o |-> IF Sensitive(f) THEN <<"str", 1>> ELSE o[f]], [f \in {"trace"} |-> <<"str", 1>>]}

-----------------------------------------------------------------------------
(* ContextResolver                                                         *)

None == <<"none", 0>>

\* _navigate below a field: an object that is not empty has a number as member k.
member(v, rest) ==
    CASE rest = "" -> v
      [] rest = "k" /\ v = <<"obj", 1>> -> <<"int", 1>>
      [] OTHER -> None

\* The value of a reference, or None where UnresolvedContextReference is raised.
resolve_reference(r, in, out) ==
    CASE r.scope \in {"literal", "none"} -> r.value
      [] r.scope = "input" -> IF r.field \in DOMAIN in THEN member(in[r.field], r.rest) ELSE None
      [] r.scope = "variables" ->
            IF r.field \in DOMAIN graph.variables THEN member(graph.variables[r.field].default, r.rest) ELSE None
      [] r.scope = "run" -> IF r.field \in {"id", "status", "created_at"} THEN member(<<"str", 1>>, r.rest) ELSE None
      [] r.scope = "node" -> IF r.field \in DOMAIN out[r.node] THEN member(out[r.node][r.field], r.rest) ELSE None
      [] OTHER -> None

Resolves(S, in, out) == \A r \in S : resolve_reference(r, in, out) # None

resolve(mapping, in, out) == [f \in DOMAIN mapping |-> resolve_reference(mapping[f], in, out)]

-----------------------------------------------------------------------------
(* Conditions                                                              *)

Numeric(v) == v[1] \in {"int", "whole", "frac", "bool"}
Magnitude(v) == IF v[1] = "frac" THEN 2 * v[2] + 1 ELSE 2 * v[2]
Equal(v, w) == IF Numeric(v) /\ Numeric(w) THEN Magnitude(v) = Magnitude(w) ELSE v = w

\* Python orders two numbers, two strings and two lists.
Ordered(v, w) == (Numeric(v) /\ Numeric(w)) \/ (v[1] = w[1] /\ v[1] \in {"str", "arr"})
Less(v, w) == IF Numeric(v) THEN Magnitude(v) < Magnitude(w) ELSE v[2] < w[2]

\* right in left: a substring, an element, a key.
Searchable(v, w) ==
    \/ v[1] = "str" /\ w[1] = "str"
    \/ v[1] = "arr"
    \/ v[1] = "obj" /\ w[1] \notin {"arr", "obj"}
In(w, v) ==
    CASE v[1] = "str" -> w[2] <= v[2]
      [] v[1] = "arr" -> v[2] = 1 /\ Equal(w, <<"int", 1>>)
      [] OTHER -> v[2] = 1 /\ w = <<"str", 1>>

Verdict(defined, b) == IF defined THEN (IF b THEN "true" ELSE "false") ELSE "raise"

\* None is empty, and so is what has a length of 0; a scalar is not.
is_empty(v) == v[1] = "null" \/ (v[1] \in {"str", "arr", "obj"} /\ v[2] = 0)

\* _compare: a TypeError where Python cannot compare the operands.
compare(v, op, w) ==
    CASE op = "==" -> Verdict(TRUE, Equal(v, w))
      [] op = "!=" -> Verdict(TRUE, ~Equal(v, w))
      [] op = ">" -> Verdict(Ordered(v, w), Less(w, v))
      [] op = ">=" -> Verdict(Ordered(v, w), ~Less(v, w))
      [] op = "<" -> Verdict(Ordered(v, w), Less(v, w))
      [] op = "<=" -> Verdict(Ordered(v, w), ~Less(w, v))
      [] op = "contains" -> Verdict(Searchable(v, w), In(w, v))
      [] op = "not_contains" -> Verdict(Searchable(v, w), ~In(w, v))
      [] op = "is_empty" -> Verdict(TRUE, is_empty(v))
      [] op = "is_not_empty" -> Verdict(TRUE, ~is_empty(v))
      [] OTHER -> "raise"

\* all and any stop at the first clause that decides, or raises; value is that of
\* each operand, which is resolved with the rest of config before.
evaluate_expression(expr, value) ==
    LET verdict[i \in DOMAIN expr] ==
            LET x == expr[i]
                goOn == IF x.shape = "and" THEN "true" ELSE "false"
                stops == {k \in DOMAIN x.clauses : verdict[x.clauses[k]] # goOn}
            IN  IF x.shape = "compare" THEN compare(value[x.left], x.op, value[x.right])
                ELSE IF x.clauses = <<>> THEN "raise"
                ELSE IF stops = {} THEN goOn ELSE verdict[x.clauses[Min(stops)]]
    IN  verdict[1]

-----------------------------------------------------------------------------
(* Scheduler                                                               *)

edge_is_active(e, st, out) ==
    /\ st[e.src] # "skipped"
    /\ kind(graph, e.src) = "condition" /\ st[e.src] = "completed" =>
         LET selected == out[e.src]["selected_branch"]
         IN  selected \notin {"true", "false"} \/ e.handle = selected

find_ready_nodes(st, out) ==
    {x \in ids(graph) :
        LET active == {e \in incoming_edges(graph, x) : edge_is_active(e, st, out)}
        IN  st[x] = "pending" /\ active # {} /\ \A e \in active : st[e.src] = "completed"}

Skip(st, S) == [x \in ids(graph) |-> IF x \in S THEN "skipped" ELSE st[x]]

\* The fixed-point loop: the nodes it makes SKIPPED.
mark_unreachable_condition_nodes(st, out) ==
    Saturate([S \in SUBSET ids(graph) |->
                 {x \in ids(graph) \ S :
                     /\ st[x] = "pending" /\ incoming_edges(graph, x) # {}
                     /\ \A e \in incoming_edges(graph, x) : ~edge_is_active(e, Skip(st, S), out)}])

OnRunner(x) == kind(graph, x) \in {"tool", "codex"}

\* _resolve_tool_config and _resolve_agent_task: there is a payload for a Runner
\* once config resolves to a command that is a string and not blank.
runner_payload(x, in, out) ==
    LET n == node(graph, x)
        command == resolve_reference(n.command, in, out)
    IN  /\ OnRunner(x) /\ Resolves(config_refs(n), in, out)
        /\ command[1] = "str" /\ command[2] # 0

\* A tool without a payload, and any Runner node whose input does not resolve, is
\* left PENDING for a later reconciliation.
dispatchable(x, in, out) ==
    /\ kind(graph, x) = "tool" => runner_payload(x, in, out)
    /\ runner_payload(x, in, out) => Resolves(Range(node(graph, x).mapping), in, out)

\* QUEUED is "dispatched" when the task is for a Runner, "queued" when it is for a
\* Worker: also that of a coding Agent without a payload.
schedule_ready_nodes(st, in, out) ==
    LET marked == Skip(st, mark_unreachable_condition_nodes(st, out))
        submitted == {x \in find_ready_nodes(marked, out) : dispatchable(x, in, out)}
    IN  [x \in ids(graph) |-> IF x \notin submitted THEN marked[x]
                              ELSE IF runner_payload(x, in, out) THEN "dispatched" ELSE "queued"]

Terminal == {"completed", "failed", "skipped"}

derive_workflow_state(st, out) ==
    IF \E x \in ids(graph) : st[x] = "failed" THEN "failed"
    ELSE IF \A x \in ids(graph) : st[x] \in Terminal THEN "completed"
    ELSE IF /\ \E x \in ids(graph) : st[x] = "waiting"
            /\ \A x \in ids(graph) : st[x] \notin {"queued", "dispatched"}
            /\ find_ready_nodes(st, out) = {} THEN "waiting"
    ELSE "running"

\* max_attempts: an explicit max_retries of the graph, else the policy of a
\* Service's action, else a single attempt.
retry_settings_for_node(n) ==
    CASE n.retry >= 0 -> n.retry + 1
      [] n.retry < 0 /\ n.kind = "service" -> n.policy + 1
      [] OTHER -> 1

-----------------------------------------------------------------------------
(* The Run                                                                 *)

Init ==
    /\ graph \in Graphs
    /\ phase = "draft"
    /\ input = <<>> /\ status = <<>> /\ output = <<>> /\ error = <<>> /\ attempt = <<>>

\* POST or PUT of a draft, then of a Version: the contract, then the rules.
reject ==
    /\ phase = "draft"
    /\ \/ ~validate_graph_contract(graph) /\ phase' = "invalid"
       \/ /\ validate_graph_contract(graph) /\ validate_graph(graph) # {}
          /\ phase' = "rejected"
    /\ UNCHANGED <<graph, input, status, output, error, attempt>>

Entry == CHOOSE x \in entry_node_ids(graph) : TRUE

\* create_run and start_run: the Data Input node is COMPLETED with the input.
create_run ==
    /\ phase = "draft"
    /\ validate_graph_contract(graph) /\ validate_graph(graph) = {}
    /\ \E in \in RunInputs(node(graph, Entry).out) :
         LET out == [x \in ids(graph) |-> IF x = Entry THEN in ELSE <<>>]
             st == [x \in ids(graph) |-> IF x = Entry THEN "completed" ELSE "pending"]
         IN  /\ input' = in
             /\ output' = out
             /\ status' = schedule_ready_nodes(st, in, out)
    /\ phase' = "running"
    /\ error' = [x \in ids(graph) |-> "none"]
    /\ attempt' = [x \in ids(graph) |-> 0]
    /\ UNCHANGED graph

\* The end of a step on node x, and the reconciliation that follows it.
Settle(x, s, o, code) ==
    /\ output' = [output EXCEPT ![x] = o]
    /\ status' = schedule_ready_nodes([status EXCEPT ![x] = s], input, output')
    /\ phase' = derive_workflow_state(status', output')
    /\ error' = [error EXCEPT ![x] = code]
    /\ UNCHANGED <<graph, input>>

Fail(x, code) == Settle(x, "failed", <<>>, code) /\ UNCHANGED attempt

Executes(x, kinds) ==
    /\ phase \in {"running", "waiting"} /\ status[x] = "queued" /\ kind(graph, x) \in kinds

AllRefs(n) == Range(n.mapping) \cup config_refs(n)

Resolved(x) == Resolves(AllRefs(node(graph, x)), input, output)

\* Defect: only the input mapping is resolved inside the try.
unresolved_mapping(x) ==
    /\ phase \in {"running", "waiting"} /\ status[x] = "queued"
    /\ ~Resolves(Range(node(graph, x).mapping), input, output)
    /\ Fail(x, "UNRESOLVED_CONTEXT_REFERENCE")

\* _build_execution_context raises UnresolvedContextReference.
unresolved(x) ==
    /\ phase \in {"running", "waiting"} /\ status[x] = "queued" /\ ~Resolved(x)
    /\ Fail(x, "UNRESOLVED_CONTEXT_REFERENCE")

\* What the operands of the Condition x resolve to.
OperandValues(x) ==
    [r \in operands(Range(node(graph, x).expr)) |-> resolve_reference(r, input, output)]

ResolvedInput(x) == resolve(node(graph, x).mapping, input, output)

\* The input is checked against the capability's schema before the call.
input_mismatch(x) ==
    /\ Executes(x, {"agent", "service"}) /\ Resolved(x)
    /\ ~validate_payload(ResolvedInput(x), node(graph, x).schema)
    /\ Fail(x, "EXECUTION_SCHEMA_MISMATCH")

Calls(x) ==
    /\ Executes(x, {"agent", "service"}) /\ Resolved(x)
    /\ validate_payload(ResolvedInput(x), node(graph, x).schema)
    /\ attempt' = [attempt EXCEPT ![x] = @ + 1]

\* A 2xx answer that has the output schema; it is sanitized after that check.
call_succeeds(x) ==
    /\ Calls(x)
    /\ \E a \in Answers(node(graph, x).out) :
         \E o \in sanitize_output(a) : Settle(x, "completed", o, "none")

\* A timeout, a refused connection or a status in retry_on_status: again, while
\* attempts are left.
call_retryable(x) ==
    /\ Calls(x)
    /\ IF attempt[x] + 1 < retry_settings_for_node(node(graph, x))
       THEN UNCHANGED <<graph, phase, input, status, output, error>>
       ELSE Settle(x, "failed", <<>>, "HTTP_ERROR")

\* Another status, an answer that is too large or does not have the schema.
call_rejected(x) == Calls(x) /\ Settle(x, "failed", <<>>, "HTTP_REJECTED")

execute_condition(x) ==
    /\ Executes(x, {"condition"}) /\ Resolved(x)
    /\ LET verdict == evaluate_expression(node(graph, x).expr, OperandValues(x))
       IN  IF verdict = "raise" THEN Fail(x, "CONDITION_EVALUATION_FAILED")
           ELSE /\ Settle(x, "completed", [f \in {"selected_branch"} |-> IF verdict = "true" THEN "true" ELSE "false"], "none")
                /\ UNCHANGED attempt

\* parallel, merge, transform and output: deterministic.
execute_graph_node(x) ==
    /\ Executes(x, {"parallel", "merge", "transform", "output"}) /\ Resolved(x)
    /\ \E o \in sanitize_output(ResolvedInput(x)) : Settle(x, "completed", o, "none")
    /\ UNCHANGED attempt

\* The task of a coding Agent that was queued without a payload: a Worker takes it.
unsupported_connector(x) ==
    /\ Executes(x, {"codex"}) /\ Resolved(x)
    /\ Fail(x, "UNSUPPORTED_AGENT_CONNECTOR")

\* The report of a Runner: an output that nobody checks against the schema, an
\* error to retry while attempts are left, or an error that ends the node.
runner_executes(x) ==
    /\ phase \in {"running", "waiting"} /\ status[x] = "dispatched"
    /\ attempt' = [attempt EXCEPT ![x] = @ + 1]
    /\ \/ \E o \in Unchecked(node(graph, x).out) : Settle(x, "completed", o, "none")
       \/ /\ attempt[x] + 1 < retry_settings_for_node(node(graph, x))
          /\ UNCHANGED <<graph, phase, input, status, output, error>>
       \/ Settle(x, "failed", <<>>, "RUNNER_FAILED")

\* _waiting_for: the node is parked.
park(x) ==
    /\ Executes(x, {"approval", "form", "wait"}) /\ Resolved(x)
    /\ Settle(x, "waiting", <<>>, "none")
    /\ UNCHANGED attempt

\* approve, submit_input or the timer; reject.
resume(x) ==
    /\ phase \in {"running", "waiting"} /\ status[x] = "waiting"
    /\ \/ Settle(x, "completed", <<>>, "none") /\ UNCHANGED attempt
       \/ kind(graph, x) = "approval" /\ Fail(x, "REJECTED")

work(x) ==
    \/ unresolved(x) \/ input_mismatch(x)
    \/ call_succeeds(x) \/ call_retryable(x) \/ call_rejected(x)
    \/ execute_condition(x) \/ execute_graph_node(x) \/ unsupported_connector(x) \/ runner_executes(x) \/ park(x)

Next == reject \/ create_run \/ \E x \in DOMAIN status : work(x) \/ resume(x)

NodeIds == UNION {ids(g) : g \in Graphs}

\* Workers and Runners keep claiming; nobody has to answer an approval.
Fairness == \A x \in NodeIds : WF_vars(x \in DOMAIN status /\ work(x))

Spec == Init /\ [][Next]_vars
FairSpec == Spec /\ Fairness

-----------------------------------------------------------------------------
\* Types of the Run's rows.
GraphTypeOK ==
    /\ phase \in {"draft", "invalid", "rejected", "running", "waiting", "completed", "failed"}
    /\ phase \in {"running", "waiting", "completed", "failed"} =>
         /\ status \in [ids(graph) -> {"pending", "queued", "dispatched", "waiting"} \cup Terminal]
         /\ DOMAIN output = ids(graph) /\ DOMAIN error = ids(graph)
         /\ attempt \in [ids(graph) -> Nat]

\* The pairs with a path between them: y is in every set of nodes that has the
\* successors of x and those of its own members.
Reaches(g) ==
    LET after == After(g)
        closed == {S \in SUBSET ids(g) : \A z \in S : after[z] \subseteq S}
    IN  {r \in ids(g) \X ids(g) : \A S \in closed : after[r[1]] \subseteq S => r[2] \in S}

(* The three searches of GraphIndex and the Kahn sort compute what their   *)
(* names say, on every graph: cyclic, with self-connections, with double   *)
(* edges.                                                                  *)
ReachabilityExact ==
    phase = "draft" /\ validate_graph_contract(graph) =>
        LET reaches == Reaches(graph) IN
        /\ \A x \in ids(graph) :
             /\ descendants(graph, x) = {y \in ids(graph) \ {x} : <<x, y>> \in reaches}
             /\ ancestors(graph, x) = {y \in ids(graph) \ {x} : <<y, x>> \in reaches}
             /\ reachable_from(graph, {x}) = {x} \cup {y \in ids(graph) : <<x, y>> \in reaches}
        /\ has_cycle(graph) <=> \E x \in ids(graph) : <<x, x>> \in reaches

(* A Run that COMPLETED has produced a Data Output, whatever the conditions *)
(* selected: no accepted branch runs dry.                                   *)
CompletedHasOutput ==
    phase = "completed" => \E x \in output_node_ids(graph) : status[x] = "completed"

(* When a node is queued, every node that its checked references name has   *)
(* ended: the ancestor rule and the scheduler agree on what is upstream.    *)
RefsSettled ==
    \A x \in DOMAIN status : status[x] \notin {"pending", "skipped"} =>
        \A r \in reference_bearing_values(node(graph, x)) : r.scope = "node" => status[r.node] \in Terminal

\* What the Data Input reaches on a path that does not touch p.
Around(g, p) == Explore(After(g), {p}, entry_node_ids(g))

(* A Parallel that has a Merge after it gives no Output before one of those *)
(* Merges was executed: an Output that is fed through the Parallel only     *)
(* comes after the join, and a Run with a bypassed join does not COMPLETE.  *)
(* (An Output that the Data Input also feeds past the Parallel may come     *)
(* earlier, when the conditions cut its own Merge off.)                     *)
OutputAfterMerge ==
    \A p, x \in DOMAIN status :
        /\ kind(graph, p) = "parallel" /\ status[p] = "completed"
        /\ kind(graph, x) = "output" /\ status[x] = "completed"
        /\ phase = "completed" \/ x \notin Around(graph, p)
        /\ parallel_merge_descendants(graph, p) # {}
        => \E m \in parallel_merge_descendants(graph, p) : status[m] = "completed"

(* A Condition that was evaluated activates exactly one of its edges, the   *)
(* one its expression decides on the values it read: outputs that arrive    *)
(* later do not make the choice another one, and a comparison that raises   *)
(* does not choose.                                                         *)
OneBranchSelected ==
    \A x \in DOMAIN status :
        kind(graph, x) = "condition" /\ status[x] = "completed" =>
            /\ Cardinality({e \in outgoing_edges(graph, x) : edge_is_active(e, status, output)}) = 1
            /\ output[x]["selected_branch"] = evaluate_expression(node(graph, x).expr, OperandValues(x))

\* Python can compare the operands with the operator.
Comparable(leaf) ==
    LET v == resolve_reference(leaf.left, input, output)
        w == resolve_reference(leaf.right, input, output)
    IN  /\ leaf.op \in {">", ">=", "<", "<="} => Ordered(v, w)
        /\ leaf.op \in {"contains", "not_contains"} => Searchable(v, w)

(* An accepted expression fails at run time only on operands that cannot be *)
(* compared: validation and evaluation agree on shapes and operators.       *)
ConditionEvaluates ==
    \A x \in DOMAIN status :
        error[x] = "CONDITION_EVALUATION_FAILED" => \E leaf \in Range(node(graph, x).expr) : leaf.shape = "compare" /\ ~Comparable(leaf)

\* x could run: every edge into it that is active comes from a COMPLETED node.
Ran(x, st, out) ==
    /\ \E e \in incoming_edges(graph, x) : edge_is_active(e, st, out)
    /\ \A e \in incoming_edges(graph, x) : edge_is_active(e, st, out) => st[e.src] = "completed"

\* x can no longer run: no edge into it is active.
Cut(x, st, out) ==
    /\ incoming_edges(graph, x) # {}
    /\ \A e \in incoming_edges(graph, x) : ~edge_is_active(e, st, out)

(* What the scheduler keeps to although conditions complete and nodes are   *)
(* skipped later: a node that left PENDING still had the right to run, and  *)
(* a SKIPPED one still has no active edge; only COMPLETED nodes have an     *)
(* output, an error ends the Run, and a COMPLETED Run has no loose ends.    *)
ScheduleInv ==
    phase \in {"running", "waiting", "completed", "failed"} =>
        /\ status[Entry] = "completed"
        /\ \A x \in ids(graph) :
             /\ status[x] \notin {"pending", "skipped"} /\ x # Entry => Ran(x, status, output)
             /\ status[x] = "skipped" => Cut(x, status, output)
             /\ status[x] # "completed" => output[x] = <<>>
             /\ error[x] # "none" => phase = "failed"
             /\ phase = "completed" => status[x] \in {"completed", "skipped"}

(* The rows are well formed and scheduled soundly, and an accepted          *)
(* Condition either selects one branch or fails for its operands.           *)
GraphInv == GraphTypeOK /\ ScheduleInv /\ OneBranchSelected /\ ConditionEvaluates

\* The value of a source has the type that validation goes by: of a literal, of a
\* variable whose default has its type, of a field of an input that is enforced,
\* and of a field of a called HTTP capability that sanitize_output does not touch.
Reliable(v) ==
    CASE v.scope = "literal" -> TRUE
      [] v.scope = "variables" -> conforms(graph.variables[v.field].default, graph.variables[v.field].type)
      [] v.scope = "input" -> v.rest = "" /\ node(graph, Entry).out.object
      [] v.scope = "node" -> /\ kind(graph, v.node) \in {"agent", "service"}
                             /\ v.rest = "" /\ v.field # "trace" /\ ~Sensitive(v.field)
      [] OTHER -> FALSE

(* The input of a called capability fails its schema at run time only if    *)
(* validation warned of a narrowing, did not look at the schema, could not  *)
(* tell the type of a source, or went by a type that nothing enforces: of a *)
(* coding Agent's output, below the first segment of a path, of a variable  *)
(* with another default, of an input without "type": "object", of a field   *)
(* that is redacted or truncated.                                           *)
MappedInputFits ==
    \A x \in DOMAIN status :
        error[x] = "EXECUTION_SCHEMA_MISMATCH" =>
            \/ warnings(graph) # {}
            \/ ~node(graph, x).schema.object
            \/ \E v \in Range(node(graph, x).mapping) : mapping_source_type(graph, v) = "unknown" \/ ~Reliable(v)

(* The one reason for a RUNNING Run to stand still, with nothing for a      *)
(* Worker or a Runner to do: a ready node is a Runner's and the scheduler   *)
(* passes it over, because a reference of it has no value or its command is *)
(* no text.  Other nodes may be parked beside it.                           *)
Stalled ==
    /\ \A x \in DOMAIN status : status[x] \notin {"queued", "dispatched"}
    /\ \E x \in find_ready_nodes(status, output) : OnRunner(x) /\ ~dispatchable(x, input, output)

(* Every Run ends, waits for a person or a timer, or stands still for the   *)
(* one reason that the scheduler has to pass a node over.                   *)
RunEnds == phase = "running" ~> (phase # "running" \/ Stalled)
=============================================================================
