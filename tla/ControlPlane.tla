---------------------------- MODULE ControlPlane ----------------------------
(***************************************************************************)
(* The registries (domain/agents, domain/services, domain/credentials),    *)
(* the Workflow with its draft and its Versions (domain/workflows) and the *)
(* creation of a Run (domain/runs/service.py).                             *)
(*                                                                         *)
(* Every request reads in a REPEATABLE READ transaction, checks what it    *)
(* read, and commits later: reading and committing are two steps, and      *)
(* other requests commit in between.  A commit writes only the columns     *)
(* that the request changed, and fails where a unique key or a foreign key *)
(* of the tables would break.  Only create_version locks what it reads.    *)
(***************************************************************************)
EXTENDS Naturals, FiniteSets, FiniteSetsExt

CONSTANTS
    Agent, Service, Action,  \* ids of the registry rows
    ServiceOf,               \* service_actions.service_id
    Credential,              \* ids of credentials
    Name,                    \* names, equal up to case
    Graph,                   \* graphs: the registry rows they name, and whether the other
                             \* validation rules pass
    Request,                 \* concurrent requests
    MaxRequests,             \* bound on all requests
    None

Resource == Agent \cup Service \cup Action

ASSUME ControlAssumption ==
    /\ Agent \cap Service = {} /\ Agent \cap Action = {} /\ Service \cap Action = {}
    /\ ServiceOf \in [Action -> Service]
    /\ Graph \subseteq [refs: SUBSET Resource, sound: BOOLEAN]
    /\ MaxRequests \in Nat
    /\ None \notin Resource \cup Credential \cup Name
    /\ \A g \in Graph : \A x \in g.refs \cap Action : ServiceOf[x] \in g.refs

VARIABLES
    db,     \* the committed tables
    req,    \* each request: its operation, arguments and the snapshot it read
    count

vars == <<db, req, count>>

-----------------------------------------------------------------------------
\* A row of agents, services or service_actions; whether its endpoint and its
\* runner_id are set.
Row == [name: Name, enabled: BOOLEAN, connector: {"http", "codex", "custom"}, endpoint: BOOLEAN, runner: BOOLEAN,
        credential: Credential \cup {None}]

WorkflowRow == [status: {"draft", "active", "archived"}, draft: Graph, current: Nat]

WorkflowVersion == [version: Nat \ {0}, graph: Graph]

\* A Run keeps the Version's graph and the registry rows it will call.
WorkflowRun(u) ==
    /\ [version |-> u.version, graph |-> u.graph] \in WorkflowVersion
    /\ DOMAIN u.snapshot \subseteq Resource
    /\ \A r \in DOMAIN u.snapshot : u.snapshot[r] \in Row

Tables(t) ==
    /\ DOMAIN t = {"res", "credentials", "runner", "workflow", "versions", "runs"}
    /\ t.res \in [Resource -> Row \cup {None}]
    /\ t.credentials \subseteq Credential
    /\ t.runner \in BOOLEAN
    /\ t.workflow \in WorkflowRow \cup {None}
    /\ t.versions \subseteq WorkflowVersion
    /\ \A u \in t.runs : WorkflowRun(u)

\* A missing row is no row.
ASSUME RowAssumption == None \notin Row /\ None \notin WorkflowRow

Kind(r) == IF r \in Agent THEN Agent ELSE IF r \in Service THEN Service ELSE {x \in Action : ServiceOf[x] = ServiceOf[r]}

Idle == [op |-> "none"]

\* One Agent that a first Workflow may name, and nothing else.
Init ==
    /\ \E a \in Agent, n \in Name, c \in {"http", "codex"} :
         db = [res |-> [r \in Resource |->
                          IF r = a THEN [name |-> n, enabled |-> TRUE, connector |-> c, endpoint |-> c = "http",
                                          runner |-> c = "codex", credential |-> None] ELSE None],
               credentials |-> Credential, runner |-> TRUE,
               workflow |-> None, versions |-> {}, runs |-> {}]
    /\ req = [p \in Request |-> Idle]
    /\ count = 0

\* The first SELECT of a request; what it read stays in its session.
Read(p, op, x, y) ==
    /\ req[p] = Idle /\ count < MaxRequests
    /\ count' = count + 1
    /\ req' = [req EXCEPT ![p] = [op |-> op, x |-> x, y |-> y, snap |-> db]]
    /\ UNCHANGED db

\* The commit; a request that the database refuses changes nothing.
Commit(p, op, allowed, new) ==
    /\ req[p].op = op
    /\ db' = IF allowed THEN new ELSE db
    /\ req' = [req EXCEPT ![p] = Idle]
    /\ UNCHANGED count

\* SELECT ... FOR UPDATE of the Workflow: until it ends, nobody else writes it.
locked == \E p \in Request : req[p].op = "create_version"

-----------------------------------------------------------------------------
(* Registry resources.                                                     *)

\* No other row of the kind has the name.
ensure_name_available(t, r, n) == \A x \in Kind(r) \ {r} : t.res[x] # None => t.res[x].name # n

\* The unique index on the name, checked by the database at commit.
UniqueKey(t, r, n) == ensure_name_available(t, r, n)

\* get_credential_or_none: an unknown credential is refused.
credential_found(t, c) == c = None \/ c \in t.credentials

\* No Agent and no Service uses the credential: asked by delete_credential and,
\* as a foreign key with ON DELETE RESTRICT, by the database.
CredentialFree(t, c) == \A r \in Resource : t.res[r] # None => t.res[r].credential # c

\* An http row has an endpoint, a codex row a Runner.
validate_config(row) ==
    /\ row.connector = "http" => row.endpoint
    /\ row.connector = "codex" => row.runner

NewRow(n, c, k) ==
    [name |-> n, enabled |-> TRUE, connector |-> k, endpoint |-> k = "http", runner |-> k = "codex", credential |-> c]

Insert(p, op) ==
    LET r == req[p].x
        row == req[p].y
    IN  /\ req[p].op = op
        /\ Commit(p, op, db.res[r] = None /\ UniqueKey(db, r, row.name) /\ credential_found(db, row.credential),
                  [db EXCEPT !.res[r] = row])

\* POST /agents: name, configuration and credential are checked, then inserted.
create_agent(p) ==
    \/ \E r \in Agent, n \in Name, c \in Credential \cup {None}, k \in {"http", "codex", "custom"} :
         /\ db.res[r] = None
         /\ ensure_name_available(db, r, n) /\ validate_config(NewRow(n, c, k)) /\ credential_found(db, c)
         /\ Read(p, "create_agent", r, NewRow(n, c, k))
    \/ Insert(p, "create_agent")

\* POST /services.
create_service(p) ==
    \/ \E r \in Service, n \in Name, c \in Credential \cup {None} :
         /\ db.res[r] = None
         /\ ensure_name_available(db, r, n) /\ credential_found(db, c)
         /\ Read(p, "create_service", r, NewRow(n, c, "http"))
    \/ Insert(p, "create_service")

\* POST /services/{id}/actions: the foreign key needs the Service at commit.
create_action(p) ==
    \/ \E r \in Action, n \in Name :
         /\ db.res[r] = None /\ db.res[ServiceOf[r]] # None
         /\ ensure_name_available(db, r, n)
         /\ Read(p, "create_action", r, NewRow(n, None, "http"))
    \/ /\ req[p].op = "create_action"
       /\ Commit(p, "create_action",
                 db.res[ServiceOf[req[p].x]] # None /\ UniqueKey(db, req[p].x, req[p].y.name),
                 [db EXCEPT !.res[req[p].x] = req[p].y])

\* The columns of a row that a request changed, over the row as it is now.
Changed(now, old, new) == [f \in DOMAIN new |-> IF new[f] # old[f] THEN new[f] ELSE now[f]]

Update(p, op) ==
    /\ req[p].op = op
    /\ LET r == req[p].x
           new == req[p].y
       IN  IF db.res[r] = None THEN Commit(p, op, FALSE, db)
           ELSE LET row == Changed(db.res[r], req[p].snap.res[r], new) IN
                Commit(p, op, UniqueKey(db, r, row.name) /\ credential_found(db, row.credential),
                       [db EXCEPT !.res[r] = row])

\* PATCH /agents/{id}: another name, credential or connector (which clears the
\* endpoint of a connector that is not http), or (de)activation.
update_agent(p) ==
    \/ \E r \in Agent :
         /\ db.res[r] # None
         /\ \E new \in {[db.res[r] EXCEPT !.name = n] : n \in Name}
                  \cup {[db.res[r] EXCEPT !.credential = c] : c \in Credential \cup {None}}
                  \cup {row \in Row :
                           /\ row = [db.res[r] EXCEPT !.connector = row.connector, !.endpoint = row.endpoint,
                                                      !.runner = row.runner]
                           /\ row.endpoint => row.connector = "http"}
                  \cup {[db.res[r] EXCEPT !.enabled = ~@]} :
              /\ new # db.res[r]
              /\ ensure_name_available(db, r, new.name) /\ validate_config(new)
              /\ credential_found(db, new.credential)
              /\ Read(p, "update_agent", r, new)
    \/ Update(p, "update_agent")

\* PATCH /services/{id}.
update_service(p) ==
    \/ \E r \in Service :
         /\ db.res[r] # None
         /\ \E new \in {[db.res[r] EXCEPT !.credential = c] : c \in Credential \cup {None}}
                  \cup {[db.res[r] EXCEPT !.enabled = ~@]} :
              /\ new # db.res[r] /\ credential_found(db, new.credential)
              /\ Read(p, "update_service", r, new)
    \/ Update(p, "update_service")

\* PATCH /services/{id}/actions/{id}.
update_action(p) ==
    \/ \E r \in Action :
         /\ db.res[r] # None
         /\ Read(p, "update_action", r, [db.res[r] EXCEPT !.enabled = ~@])
    \/ Update(p, "update_action")

\* A draft or a Version names the row.
is_resource_referenced(t, r) ==
    \/ t.workflow # None /\ r \in t.workflow.draft.refs
    \/ \E v \in t.versions : r \in v.graph.refs

ensure_resource_not_referenced(p, op, r) ==
    /\ db.res[r] # None /\ ~is_resource_referenced(db, r)
    /\ Read(p, op, r, None)

Delete(p, op, gone) ==
    /\ req[p].op = op
    /\ Commit(p, op, db.res[req[p].x] # None,
              [db EXCEPT !.res = [r \in Resource |-> IF r \in gone THEN None ELSE db.res[r]]])

\* DELETE /agents/{id}: refused while a Workflow names the Agent.
delete_agent(p) ==
    \/ \E r \in Agent : ensure_resource_not_referenced(p, "delete_agent", r)
    \/ Delete(p, "delete_agent", {req[p].x})

\* DELETE /services/{id}: the actions go with the Service.
delete_service(p) ==
    \/ \E r \in Service : ensure_resource_not_referenced(p, "delete_service", r)
    \/ Delete(p, "delete_service", {req[p].x} \cup {a \in Action : ServiceOf[a] = req[p].x})

\* DELETE /services/{id}/actions/{id}.
delete_action(p) ==
    \/ \E r \in Action : ensure_resource_not_referenced(p, "delete_action", r)
    \/ Delete(p, "delete_action", {req[p].x})

\* POST /credentials.
create_credential(p) ==
    \/ \E c \in Credential \ db.credentials : Read(p, "create_credential", c, None)
    \/ Commit(p, "create_credential", TRUE, [db EXCEPT !.credentials = @ \cup {req[p].x}])

\* DELETE /credentials/{id}: refused while a row uses it, when asked and at commit.
delete_credential(p) ==
    \/ \E c \in db.credentials : CredentialFree(db, c) /\ Read(p, "delete_credential", c, None)
    \/ /\ req[p].op = "delete_credential"
       /\ Commit(p, "delete_credential", CredentialFree(db, req[p].x),
                 [db EXCEPT !.credentials = @ \ {req[p].x}])

\* The Runner that codex Agents use comes and goes.
runner_changes ==
    /\ count < MaxRequests /\ count' = count + 1
    /\ db' = [db EXCEPT !.runner = ~@]
    /\ UNCHANGED req

-----------------------------------------------------------------------------
(* Workflow, draft and Versions.                                           *)

\* Every Agent, Service and Action a graph names exists.
validate_registry_references(t, g) == \A r \in g.refs : t.res[r] # None

\* POST /workflows.
create_workflow(p) ==
    \/ \E g \in Graph :
         /\ db.workflow = None /\ validate_registry_references(db, g)
         /\ Read(p, "create_workflow", g, None)
    \/ /\ req[p].op = "create_workflow"
       /\ Commit(p, "create_workflow", db.workflow = None,
                 [db EXCEPT !.workflow = [status |-> "draft", draft |-> req[p].x, current |-> 0]])

\* Defect: saving the draft writes the whole row as it was read.
SaveDraft_row(p) ==
    LET old == req[p].snap.workflow IN
    [db EXCEPT !.workflow = [old EXCEPT !.draft = req[p].x,
                                        !.status = IF @ = "archived" THEN "draft" ELSE @]]

\* The draft, and the status of a Workflow that was read as archived.
SaveDraft(p) ==
    [db EXCEPT !.workflow.draft = req[p].x,
               !.workflow.status = IF req[p].snap.workflow.status = "archived" THEN "draft" ELSE @]

\* PUT /workflows/{id}/graph.
update_draft_graph(p) ==
    \/ \E g \in Graph :
         /\ db.workflow # None /\ validate_registry_references(db, g)
         /\ Read(p, "update_draft", g, None)
    \/ /\ req[p].op = "update_draft" /\ ~locked
       /\ IF db.workflow = None THEN Commit(p, "update_draft", FALSE, db)
          ELSE Commit(p, "update_draft", TRUE, SaveDraft(p))

\* PATCH /workflows/{id} with a status.
update_workflow(p) ==
    \/ \E s \in {"draft", "active", "archived"} : db.workflow # None /\ Read(p, "update_workflow", s, None)
    \/ /\ req[p].op = "update_workflow" /\ ~locked
       /\ IF db.workflow = None THEN Commit(p, "update_workflow", FALSE, db)
          ELSE Commit(p, "update_workflow", req[p].x # req[p].snap.workflow.status,
                      [db EXCEPT !.workflow.status = req[p].x])

\* workflow_versions.workflow_id: ON DELETE RESTRICT.
RestrictDelete(t) == t.versions = {}

\* DELETE /workflows/{id}: archived if a Version was counted, else deleted.
delete_workflow(p) ==
    \/ db.workflow # None /\ Read(p, "delete_workflow", None, None)
    \/ /\ req[p].op = "delete_workflow" /\ ~locked
       /\ IF db.workflow = None THEN Commit(p, "delete_workflow", FALSE, db)
          ELSE IF req[p].snap.versions # {}
               THEN Commit(p, "delete_workflow", TRUE, [db EXCEPT !.workflow.status = "archived"])
               ELSE Commit(p, "delete_workflow", RestrictDelete(db), [db EXCEPT !.workflow = None])

\* The rows of the graph that exist ...
load_registry(t, g) == [r \in {r \in g.refs : t.res[r] # None} |-> t.res[r]]

\* ... and what the rules see of them.
registry_context(rows) == [r \in DOMAIN rows |-> [enabled |-> rows[r].enabled, connector |-> rows[r].connector]]

build_validation_context(t, g) == registry_context(load_registry(t, g))

\* An Agent exists, is enabled and has a connector that runs.
validate_agent(context, r) ==
    r \in DOMAIN context /\ context[r].enabled /\ context[r].connector \in {"http", "codex"}

\* A Service and its action exist and are enabled.
validate_service(context, r) == r \in DOMAIN context /\ context[r].enabled

validate_references(context, g) ==
    \A r \in g.refs : IF r \in Agent THEN validate_agent(context, r) ELSE validate_service(context, r)

\* The references, and the rules of module GraphRules.
validate_graph(context, g) == validate_references(context, g) /\ g.sound

validate_graph_with_context(t, g) == validate_graph(build_validation_context(t, g), g)

\* max(current_max, current_version) + 1
next_version(t) == Max({v.version : v \in t.versions} \cup {t.workflow.current}) + 1

\* Defect: the Workflow is read without a lock.
create_version_unlocked(p) ==
    \/ /\ db.workflow # None
       /\ validate_graph_with_context(db, db.workflow.draft)
       /\ Read(p, "create_unlocked", None, None)
    \/ LET n == next_version(req[p].snap)
           old == req[p].snap.workflow
       IN  /\ req[p].op = "create_unlocked"
           /\ IF db.workflow = None THEN Commit(p, "create_unlocked", FALSE, db)
              ELSE Commit(p, "create_unlocked", \A v \in db.versions : v.version # n,
                          [db EXCEPT !.versions = @ \cup {[version |-> n, graph |-> old.draft]},
                                     !.workflow.current = n, !.workflow.status = "active"])

\* POST /workflows/{id}/versions: the draft is locked, validated and frozen.
create_version(p) ==
    \/ /\ db.workflow # None /\ ~locked
       /\ validate_graph_with_context(db, db.workflow.draft)
       /\ Read(p, "create_version", None, None)
    \/ LET n == next_version(req[p].snap)
           old == req[p].snap.workflow
       IN  /\ req[p].op = "create_version"
           /\ Commit(p, "create_version", \A v \in db.versions : v.version # n,
                     [db EXCEPT !.versions = @ \cup {[version |-> n, graph |-> old.draft]},
                                !.workflow.current = n, !.workflow.status = "active"])

-----------------------------------------------------------------------------
(* Runs.                                                                   *)

\* An explicit Version, or the current one.
resolve_version(t, v) == v \in t.versions /\ t.workflow # None

\* Defect: readiness is not asked again after the Version was created.
check_run_readiness_skipped(t, g) == TRUE

\* The Version was valid once; the registry may have changed since.
check_run_readiness(t, g) == validate_references(registry_context(load_registry(t, g)), g)

\* A codex Agent names a Runner, and it is online.
validate_runner_targets(t, g) ==
    \A r \in g.refs \cap Agent :
        t.res[r] # None /\ t.res[r].connector = "codex" => t.res[r].runner /\ t.runner

\* The rows as the Run will call them, whatever becomes of them later.
build_execution_snapshot(rows) == rows

\* POST /workflows/{id}/runs.
create_run(p) ==
    \/ \E v \in db.versions :
         /\ resolve_version(db, v)
         /\ check_run_readiness(db, v.graph) /\ validate_runner_targets(db, v.graph)
         /\ Read(p, "create_run", v, None)
    \/ LET v == req[p].x IN
       /\ req[p].op = "create_run"
       /\ Commit(p, "create_run", v \in db.versions,
                 [db EXCEPT !.runs = @ \cup {[version |-> v.version, graph |-> v.graph,
                                              snapshot |-> build_execution_snapshot(load_registry(req[p].snap, v.graph))]}])

-----------------------------------------------------------------------------
Registry(p) ==
    \/ create_agent(p) \/ update_agent(p) \/ delete_agent(p)
    \/ create_service(p) \/ update_service(p) \/ delete_service(p)
    \/ create_action(p) \/ update_action(p) \/ delete_action(p)
    \/ create_credential(p) \/ delete_credential(p)

Definitions(p) ==
    \/ create_workflow(p) \/ update_workflow(p) \/ delete_workflow(p)
    \/ update_draft_graph(p) \/ create_version(p) \/ create_run(p)

Next ==
    \/ \E p \in Request : Registry(p) \/ Definitions(p)
    \/ runner_changes

Spec == Init /\ [][Next]_vars

-----------------------------------------------------------------------------
\* Types of the tables.
ControlTypeOK ==
    /\ Tables(db)
    /\ DOMAIN req = Request
    /\ count \in 0 .. MaxRequests

(* Two concurrent requests never give two rows of a kind the same name:    *)
(* ensure_name_available reads before it writes, the index decides.        *)
NamesUnique ==
    \A r, s \in Resource :
        r # s /\ s \in Kind(r) /\ db.res[r] # None /\ db.res[s] # None => db.res[r].name # db.res[s].name

(* A credential that an Agent or a Service uses exists, although           *)
(* delete_credential asks before the row that uses it is committed.        *)
CredentialsKept ==
    \A r \in Resource : db.res[r] # None => credential_found(db, db.res[r].credential)

\* A Version always has its Workflow: delete_workflow counts before it deletes.
VersionsKeepWorkflow == db.versions # {} => db.workflow # None

(* Versions are numbered 1 .. n without a gap or a duplicate, and          *)
(* current_version names the last one, whatever drafts are saved, archived *)
(* or published at the same time.                                          *)
CurrentIsLatest ==
    /\ IsFiniteSet(db.versions)
    /\ {v.version : v \in db.versions} = 1 .. Cardinality(db.versions)
    /\ db.workflow # None => db.workflow.current = Cardinality(db.versions)

(* Every row a graph names is there, enabled and, for a codex Agent, with  *)
(* a Runner.                                                               *)
Executable(rows, g) ==
    /\ DOMAIN rows = g.refs
    /\ \A r \in g.refs : rows[r].enabled /\ (rows[r].connector = "codex" => rows[r].runner)

\* Only an Agent has a connector of its own.
ServicesAreHttp == \A r \in Resource \ Agent : db.res[r] # None => db.res[r].connector = "http"

\* What a request checked when it read, of what it will write.
Session(q) ==
    /\ q.op \in {"create_agent", "create_service", "create_action",
                 "update_agent", "update_service", "update_action"} =>
          q.x \in Resource /\ q.y \in Row /\ (q.x \notin Agent => q.y.connector = "http")
    /\ q.op = "create_action" => q.y.credential = None
    /\ q.op = "create_credential" => q.x \in Credential
    /\ q.op \in {"create_workflow", "update_draft"} => q.x \in Graph
    /\ q.op = "update_workflow" => q.x \in {"draft", "active", "archived"}
    /\ q.op = "create_run" =>
          q.x \in WorkflowVersion /\ Tables(q.snap) /\ Executable(load_registry(q.snap, q.x.graph), q.x.graph)

(* What create_version read under the lock stays what it is: no other      *)
(* request publishes, saves, archives or deletes meanwhile.                *)
VersionLocked ==
    \A p \in Request : req[p].op = "create_version" =>
        /\ \A o \in Request : req[o].op = "create_version" => o = p
        /\ db.workflow # None
        /\ req[p].snap.workflow = db.workflow /\ req[p].snap.versions = db.versions

(* The tables stay consistent although every request checks before it      *)
(* writes: names, credentials, Workflows and version numbers.              *)
ControlInv ==
    /\ ControlTypeOK /\ NamesUnique /\ CredentialsKept /\ ServicesAreHttp
    /\ VersionsKeepWorkflow /\ CurrentIsLatest /\ VersionLocked
    /\ \A p \in Request : Session(req[p])

(* A Run is created from a Version, with every row its graph names in its  *)
(* execution snapshot, enabled and, for a codex Agent, with a Runner.  A   *)
(* deletion that raced the draft leaves a dangling reference, and two      *)
(* PATCHes that were each valid can leave a codex Agent without a Runner:  *)
(* neither gets into a Run.                                                *)
RunIsExecutable ==
    \A u \in db.runs :
        /\ [version |-> u.version, graph |-> u.graph] \in db.versions
        /\ Executable(u.snapshot, u.graph)

(* The step that creates a Version freezes the draft as it is at that      *)
(* moment: no saved draft slips between validating and freezing.  A        *)
(* Version or a Run that exists is never changed or removed.               *)
VersionIsDraft ==
    [][/\ \A v \in db'.versions \ db.versions : v.graph = db.workflow.draft
       /\ db.versions \subseteq db'.versions /\ db.runs \subseteq db'.runs]_vars
=============================================================================
