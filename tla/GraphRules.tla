----------------------------- MODULE GraphRules -----------------------------
(***************************************************************************)
(* The validation engine for Workflow Graph 1.0 (runtime/validation) and   *)
(* the contract a draft meets before it (domain/workflows/graph.py), as    *)
(* operators on a graph.                                                   *)
(*                                                                         *)
(* A graph is a record of lists, as in the JSON document:                  *)
(*   nodes      [id, kind, config, command, mapping, extra, hidden,        *)
(*               schema, out, expr, retry, policy]                         *)
(*   edges      [id, src, dst, handle]                                     *)
(*   variables  a [type, default] for each name                            *)
(* kind is the subtype where the type alone does not tell; agent is an     *)
(* HTTP Agent, codex an Agent that a Runner executes.  command is what a   *)
(* Runner executes: the command of a tool, the task_template of an Agent.  *)
(* mapping gives a value to each field, extra holds the other references   *)
(* that the rules look at (further ones of task_template) and hidden those *)
(* they do not, although the resolver resolves them (the rest of config).  *)
(* A value is a literal or a reference [scope, node, field, rest, value],  *)
(* field the first segment of its path and rest the others ("" if none).   *)
(* schema and out are the JSON Schemas of the node's input and output,     *)
(* [object, closed, required, type]: whether it says "type": "object",     *)
(* additionalProperties, required and the types of its properties.         *)
(*                                                                         *)
(* expr is the expression of a Condition, << >> where there is none: its   *)
(* clauses in the order of the document, the expression itself first, each *)
(* [shape, op, left, right, clauses] with the numbers of its own clauses.  *)
(***************************************************************************)
EXTENDS Integers, Sequences, FiniteSets, FiniteSetsExt, SequencesExt

Issue(condition, code) == IF condition THEN {code} ELSE {}

-----------------------------------------------------------------------------
(* GraphIndex                                                              *)

ids(g) == {n.id : n \in Range(g.nodes)}

\* nodes_by_id: the last node with the id.
node(g, x) == g.nodes[Max({i \in DOMAIN g.nodes : g.nodes[i].id = x})]

kind(g, x) == node(g, x).kind

incoming_edges(g, x) == {e \in Range(g.edges) : e.dst = x}

outgoing_edges(g, x) == {e \in Range(g.edges) : e.src = x}

Before(g) == [x \in ids(g) |-> {e.src : e \in incoming_edges(g, x)}]

After(g) == [x \in ids(g) |-> {e.dst : e \in outgoing_edges(g, x)}]

\* A loop that goes on while it finds something new, a round at a time.
Saturate(new) ==
    LET loop[S \in DOMAIN new] == IF new[S] = {} THEN S ELSE loop[S \cup new[S]]
    IN  loop[{}]

\* The loop of the searches: what is found from the nodes seen, but not without.
Explore(next, without, stack) ==
    Saturate([seen \in SUBSET DOMAIN next |->
                 (stack \cup UNION {next[x] : x \in seen}) \ (seen \cup without)])

ancestors(g, x) == Explore(Before(g), {x}, Before(g)[x])

\* Defect: only the direct successors.
descendants_direct(g, x) == After(g)[x] \ {x}

descendants(g, x) == Explore(After(g), {x}, After(g)[x])

reachable_from(g, S) == Explore(After(g), {}, S)

\* What is left of the indegree of x: an edge from a node taken off no longer counts.
indegree(g, done, x) ==
    Cardinality(incoming_edges(g, x)) - Cardinality({e \in incoming_edges(g, x) : e.src \in done})

\* Kahn's loop: the nodes that are taken off the queue.
Drain(g) == Saturate([done \in SUBSET ids(g) |-> {x \in ids(g) \ done : indegree(g, done, x) = 0}])

cycle_nodes(g) == {x \in ids(g) : indegree(g, Drain(g), x) > 0}

has_cycle(g) == cycle_nodes(g) # {}

entry_node_ids(g) == {x \in ids(g) : kind(g, x) = "input"}

output_node_ids(g) == {x \in ids(g) : kind(g, x) = "output"}

-----------------------------------------------------------------------------
(* Contract, identity and topology                                         *)

Unique(s) == \A i, j \in DOMAIN s : s[i].id = s[j].id => i = j

\* The operands of some clauses of an expression.
operands(clauses) == {c.left : c \in clauses} \cup {c.right : c \in clauses}

\* config, where the references of command, extra, hidden and the expression are.
config_refs(n) == {n.command} \cup n.extra \cup n.hidden \cup operands(Range(n.expr))

\* References of every field, scanned or not.
NodeRefs(n) == {r.node : r \in {v \in Range(n.mapping) \cup config_refs(n) : v.scope = "node"}}

\* What parse_workflow_graph raises on: such a graph is not even a draft.
validate_graph_contract(g) ==
    /\ Unique(g.nodes) /\ Unique(g.edges)
    /\ \A e \in Range(g.edges) : e.src \in ids(g) /\ e.dst \in ids(g)
    /\ \A n \in Range(g.nodes) : NodeRefs(n) \subseteq ids(g)

Connection(e) == <<e.src, e.dst, e.handle>>

validate_identity(g) ==
    Issue(~Unique(g.nodes), "DUPLICATE_NODE_ID") \cup Issue(~Unique(g.edges), "DUPLICATE_EDGE_ID") \cup
    Issue(\E e \in Range(g.edges) : e.src \notin ids(g), "INVALID_EDGE_SOURCE") \cup
    Issue(\E e \in Range(g.edges) : e.dst \notin ids(g), "INVALID_EDGE_TARGET") \cup
    Issue(\E e \in Range(g.edges) : e.src = e.dst, "SELF_CONNECTION") \cup
    Issue(\E i, j \in DOMAIN g.edges : i # j /\ Connection(g.edges[i]) = Connection(g.edges[j]), "DUPLICATE_CONNECTION")

entry_rule(g) ==
    Issue(Cardinality(entry_node_ids(g)) = 0, "MISSING_INPUT_NODE") \cup
    Issue(Cardinality(entry_node_ids(g)) > 1, "MULTIPLE_INPUT_NODES") \cup
    Issue(/\ Cardinality(entry_node_ids(g)) = 1
          /\ \E x \in entry_node_ids(g) : incoming_edges(g, x) # {}, "INVALID_INPUT_NODE_EDGE")

output_rule(g) ==
    Issue(output_node_ids(g) = {}, "MISSING_OUTPUT_NODE") \cup
    Issue(\E x \in output_node_ids(g) : outgoing_edges(g, x) # {}, "INVALID_OUTPUT_NODE_EDGE")

OneEntryDag(g) == Cardinality(entry_node_ids(g)) = 1 /\ ~has_cycle(g)

unreachable_rule(g) ==
    Issue(OneEntryDag(g) /\ ids(g) \ reachable_from(g, entry_node_ids(g)) # {}, "UNREACHABLE_NODE")

\* Defect: a node that reaches no Output is accepted.
dead_end_rule_none(g) == {}

\* Logic nodes are left to the rules on their branches.
dead_end_rule(g) ==
    LET backwards == output_node_ids(g) \cup UNION {ancestors(g, x) : x \in output_node_ids(g)}
        stuck == {x \in reachable_from(g, entry_node_ids(g)) \ backwards :
                    kind(g, x) \notin {"input", "output", "condition", "parallel", "merge"}}
    IN  Issue(output_node_ids(g) # {} /\ OneEntryDag(g) /\ stuck # {}, "DEAD_END_BRANCH")

parallel_rule(g) ==
    Issue(\E x \in ids(g) : /\ kind(g, x) = "parallel"
                            /\ \/ Cardinality(outgoing_edges(g, x)) < 2
                               \/ Cardinality(incoming_edges(g, x)) # 1, "INVALID_PARALLEL")

merge_rule(g) ==
    Issue(\E x \in ids(g) : /\ kind(g, x) = "merge"
                            /\ \/ node(g, x).config = "bad"
                               \/ Cardinality(incoming_edges(g, x)) < 2
                               \/ Cardinality(outgoing_edges(g, x)) # 1, "INVALID_MERGE")

\* What is reached from the Parallel without going on past a Merge.
MergeFree(g, p) ==
    Explore([x \in ids(g) |-> IF kind(g, x) = "merge" THEN {} ELSE After(g)[x]], {}, After(g)[p])

\* Defect: a branch may bypass the join.
pairing_rule_none(g) == {}

pairing_rule(g) ==
    Issue(/\ ~has_cycle(g)
          /\ \E p \in ids(g) :
                /\ kind(g, p) = "parallel"
                /\ \E m \in descendants(g, p) : kind(g, m) = "merge"
                /\ MergeFree(g, p) \cap output_node_ids(g) # {}, "INVALID_PARALLEL_MERGE_STRUCTURE")

validate_topology(g) ==
    entry_rule(g) \cup output_rule(g) \cup Issue(has_cycle(g), "UNSUPPORTED_CYCLE") \cup
    unreachable_rule(g) \cup dead_end_rule(g) \cup parallel_rule(g) \cup merge_rule(g) \cup pairing_rule(g)

-----------------------------------------------------------------------------
(* Node configuration and conditions                                       *)

ConditionOperator == {"==", "!=", ">", ">=", "<", "<=", "contains", "not_contains", "is_empty", "is_not_empty"}

\* ConditionExpression and _validate_expression: a comparison with a left value
\* and a known operator, or a non-empty list of valid clauses.
validate_expression(expr) ==
    /\ expr # <<>>
    /\ \A x \in Range(expr) :
          \/ x.shape \in {"and", "or"} /\ x.clauses # <<>>
          \/ x.shape = "compare" /\ x.left.scope # "none" /\ x.op \in ConditionOperator

Branches(g, x, h) == {e \in outgoing_edges(g, x) : e.handle = h}

\* Defect: the branches of a Condition are not looked at.
validate_condition_expression(g, x) == Issue(~validate_expression(node(g, x).expr), "INVALID_CONDITION")

\* Exactly one edge per handle, and no other edge.
validate_condition(g, x) ==
    Issue(~validate_expression(node(g, x).expr), "INVALID_CONDITION") \cup
    Issue(/\ node(g, x).expr # <<>>
          /\ \/ \E e \in outgoing_edges(g, x) : e.handle \notin {"true", "false"}
             \/ \E h \in {"true", "false"} : Cardinality(Branches(g, x, h)) # 1, "INVALID_CONDITION_BRANCH")

\* The code for a bad configuration of a tool, human or data node.
ConfigIssue ==
    [k \in {"tool", "approval", "form", "input", "transform", "output"} |->
        CASE k \in {"tool", "approval"} -> "MISSING_REQUIRED_CONFIG"
          [] k = "form" -> "INVALID_HUMAN_CONFIG"
          [] k = "input" -> "INVALID_DATA_INPUT"
          [] k = "transform" -> "INVALID_TRANSFORM_CONFIG"
          [] k = "output" -> "INVALID_DATA_OUTPUT"]

validate_logic(g, x) ==
    CASE kind(g, x) = "condition" -> validate_condition(g, x)
      [] kind(g, x) = "wait" -> Issue(node(g, x).config = "bad", "INVALID_WAIT_CONFIG")
      [] kind(g, x) = "router" -> {"UNSUPPORTED_NODE_EXECUTION"}
      [] OTHER -> {}

validate_nodes(g) ==
    UNION {IF kind(g, x) \in DOMAIN ConfigIssue THEN Issue(node(g, x).config = "bad", ConfigIssue[kind(g, x)])
           ELSE validate_logic(g, x) : x \in ids(g)}

-----------------------------------------------------------------------------
(* Context references and schemas                                          *)

\* The values the rules scan: not the command of a tool, and of an expression
\* only its own left and right.
reference_bearing_values(n) ==
    {v \in Range(n.mapping) \cup n.extra \cup (IF n.kind \in {"agent", "codex"} THEN {n.command} ELSE {})
              \cup operands({n.expr[i] : i \in DOMAIN n.expr \cap {1}}) :
        v.scope \notin {"literal", "none"}}

output_provider_kind(g, x) ==
    CASE kind(g, x) \in {"agent", "codex", "service"} -> "schema"
      [] kind(g, x) = "transform" -> "transform"
      [] OTHER -> "none"

\* additionalProperties is false and the field is not among the properties.
closed_object_missing_field(schema, f) == schema.closed /\ f \notin DOMAIN schema.type

parallel_merge_descendants(g, p) == {m \in descendants(g, p) : kind(g, m) = "merge"}

is_parallel_sibling(g, x, target) ==
    \E p \in ancestors(g, x) :
        /\ kind(g, p) = "parallel" /\ target \in descendants(g, p)
        /\ \A m \in parallel_merge_descendants(g, p) : target \notin descendants(g, m)

\* Defect: any other node may be referenced.
upstream_any(g, x, target) == TRUE

upstream(g, x, target) == target \in ancestors(g, x)

\* _validate_reference from the provider on.
validate_upstream(g, x, r) ==
    IF output_provider_kind(g, r.node) = "none" THEN {"INVALID_OUTPUT_REFERENCE"}
    ELSE IF ~has_cycle(g) /\ ~upstream(g, x, r.node)
         THEN {IF is_parallel_sibling(g, x, r.node) THEN "INVALID_PARALLEL_DATA_DEPENDENCY" ELSE "INVALID_DATA_DEPENDENCY"}
    ELSE IF output_provider_kind(g, r.node) = "transform"
         THEN Issue(r.field \notin DOMAIN node(g, r.node).mapping, "INVALID_OUTPUT_REFERENCE")
    ELSE Issue(closed_object_missing_field(node(g, r.node).out, r.field), "INVALID_OUTPUT_REFERENCE")

validate_workflow_input(g, r) ==
    Issue(\E x \in entry_node_ids(g) : /\ Cardinality(entry_node_ids(g)) = 1
                                       /\ closed_object_missing_field(node(g, x).out, r.field), "UNKNOWN_WORKFLOW_INPUT")

validate_reference(g, x, r) ==
    CASE r.scope = "variables" -> Issue(r.rest # "" \/ r.field \notin DOMAIN g.variables, "UNKNOWN_VARIABLE")
      [] r.scope = "input" -> validate_workflow_input(g, r)
      [] r.scope = "run" -> {}
      [] OTHER -> IF r.node \notin ids(g) THEN {"UNKNOWN_CONTEXT_NODE"}
                  ELSE IF r.node = x THEN {"INVALID_CONTEXT_REFERENCE"}
                  ELSE validate_upstream(g, x, r)

validate_context(g) ==
    UNION {UNION {validate_reference(g, x, r) : r \in reference_bearing_values(node(g, x))} : x \in ids(g)}

\* The first segment of a path decides, whatever lies below it.
field_type(schema, f) == IF f \in DOMAIN schema.type THEN schema.type[f] ELSE "unknown"

reference_type(g, r) ==
    CASE r.scope = "variables" /\ r.rest = "" /\ r.field \in DOMAIN g.variables -> g.variables[r.field].type
      [] r.scope = "input" /\ Cardinality(entry_node_ids(g)) = 1 ->
            field_type(node(g, CHOOSE x \in entry_node_ids(g) : TRUE).out, r.field)
      [] r.scope = "node" /\ r.node \in ids(g) /\ output_provider_kind(g, r.node) = "schema" ->
            field_type(node(g, r.node).out, r.field)
      [] OTHER -> "unknown"

\* The type of a literal, from its class in Python.
literal_type(v) ==
    CASE v[1] = "bool" -> "boolean"
      [] v[1] = "int" -> "integer"
      [] v[1] \in {"whole", "frac"} -> "number"
      [] v[1] = "obj" -> "object"
      [] v[1] = "arr" -> "array"
      [] v[1] = "null" -> "null"
      [] v[1] = "str" -> "string"
      [] OTHER -> "unknown"

\* Defect: a bool is taken for the int it also is in Python.
mapping_source_type_bool(g, v) ==
    IF v.scope = "literal" THEN (IF v.value[1] = "bool" THEN "integer" ELSE literal_type(v.value)) ELSE reference_type(g, v)

mapping_source_type(g, v) == IF v.scope = "literal" THEN literal_type(v.value) ELSE reference_type(g, v)

check_compatibility(source, target) ==
    CASE source = target -> "compatible"
      [] source = "integer" /\ target = "number" -> "compatible"
      [] source = "number" /\ target = "integer" -> "narrowing"
      [] OTHER -> "incompatible"

\* The verdict on each mapped field whose two types are known.
Verdicts(g, n) ==
    {check_compatibility(mapping_source_type(g, n.mapping[f]), n.schema.type[f]) :
        f \in {f \in DOMAIN n.mapping \cap DOMAIN n.schema.type :
                  n.schema.object /\ mapping_source_type(g, n.mapping[f]) # "unknown"}}

\* A schema without "type": "object" is not looked at.
validate_mapping(g, n) ==
    Issue(n.schema.object /\ ~(n.schema.required \subseteq DOMAIN n.mapping), "MISSING_REQUIRED_INPUT") \cup
    Issue(n.schema.object /\ n.schema.closed /\ ~(DOMAIN n.mapping \subseteq DOMAIN n.schema.type),
          "UNKNOWN_INPUT_FIELD") \cup
    Issue("incompatible" \in Verdicts(g, n), "SCHEMA_TYPE_MISMATCH")

Called(g) == {n \in Range(g.nodes) : n.kind \in {"agent", "codex", "service"}}

validate_schema(g) == UNION {validate_mapping(g, n) : n \in Called(g)}

warnings(g) == UNION {Issue("narrowing" \in Verdicts(g, n), "SCHEMA_TYPE_MISMATCH") : n \in Called(g)}

\* The errors of every rule; a Version needs that there are none.
validate_graph(g) ==
    IF g.nodes = <<>> THEN {"GRAPH_EMPTY"}
    ELSE validate_identity(g) \cup validate_topology(g) \cup validate_nodes(g) \cup
         validate_context(g) \cup validate_schema(g)
=============================================================================
