------------------------- MODULE ControlPlaneProofs -------------------------
(* Proofs about ControlPlane: the tables stay consistent and a Run gets only *)
(* rows it can call, for every registry, set of graphs and number of         *)
(* concurrent requests.                                                      *)
EXTENDS ControlPlane, FiniteSetTheorems, TLAPS

Fields == {"name", "enabled", "connector", "endpoint", "runner", "credential"}

\* The columns of a row, and a row made of columns.
LEMMA RowFields ==
    ASSUME NEW row \in Row
    PROVE  /\ DOMAIN row = Fields
           /\ row.name \in Name /\ row.connector \in {"http", "codex", "custom"}
           /\ row.enabled \in BOOLEAN /\ row.endpoint \in BOOLEAN /\ row.runner \in BOOLEAN
           /\ row.credential \in Credential \cup {None}
  BY DEF Row, Fields

LEMMA ChangedIsRow ==
    ASSUME NEW now \in Row, NEW old, NEW new \in Row
    PROVE  /\ Changed(now, old, new) \in Row
           /\ Changed(now, old, new).connector \in {now.connector, new.connector}
  <1> DEFINE c == Changed(now, old, new)
             pick(f) == IF new[f] # old[f] THEN new[f] ELSE now[f]
  <1>1. c = [f \in Fields |-> pick(f)]
    BY RowFields DEF Changed
  <1>2. c = [name |-> pick("name"), enabled |-> pick("enabled"), connector |-> pick("connector"),
             endpoint |-> pick("endpoint"), runner |-> pick("runner"), credential |-> pick("credential")]
    BY <1>1 DEF Fields
  <1>3. /\ pick("name") \in Name /\ pick("enabled") \in BOOLEAN /\ pick("endpoint") \in BOOLEAN
        /\ pick("runner") \in BOOLEAN /\ pick("credential") \in Credential \cup {None}
        /\ pick("connector") \in {"http", "codex", "custom"} /\ pick("connector") \in {now.connector, new.connector}
    BY RowFields
  <1> HIDE DEF pick
  <1> QED BY <1>2, <1>3 DEF Row

\* What the proofs need of the constants: a name clashes in both directions.
LEMMA Constants ==
    /\ Agent \subseteq Resource /\ Service \subseteq Resource /\ Action \subseteq Resource
    /\ Agent \cap Service = {} /\ Agent \cap Action = {} /\ Service \cap Action = {}
    /\ MaxRequests \in Nat /\ None \notin Row /\ None \notin WorkflowRow
    /\ \A x \in Action : ServiceOf[x] \in Service
    /\ \A r, s \in Resource : s \in Kind(r) => r \in Kind(s)
  <1>1. \A r, s \in Resource : s \in Kind(r) => r \in Kind(s)
    BY ControlAssumption DEF Kind, Resource
  <1> QED BY <1>1, ControlAssumption, RowAssumption DEF Resource

\* The tables, one by one.
LEMMA TableFacts ==
    ASSUME NEW t, Tables(t)
    PROVE  /\ t.res \in [Resource -> Row \cup {None}]
           /\ \A r \in Resource : t.res[r] # None => t.res[r] \in Row
           /\ t.credentials \subseteq Credential
           /\ t.workflow # None => t.workflow \in WorkflowRow
           /\ t.versions \subseteq WorkflowVersion
  BY DEF Tables

\* The registry rows are replaced, the other tables stay.
LEMMA ResUpdate ==
    ASSUME Tables(db), NEW v \in [Resource -> Row \cup {None}], db' = [db EXCEPT !.res = v]
    PROVE  /\ Tables(db') /\ db'.res = v /\ db'.credentials = db.credentials /\ db'.workflow = db.workflow
           /\ db'.versions = db.versions /\ db'.runs = db.runs
  BY DEF Tables

\* One Agent, no Workflow and no request.
LEMMA InitInv == Init => ControlInv /\ RunIsExecutable
  <1> SUFFICES ASSUME Init PROVE ControlInv /\ RunIsExecutable
    OBVIOUS
  <1>1. PICK a \in Agent, n \in Name, c \in {"http", "codex"} :
         db = [res |-> [r \in Resource |->
                          IF r = a THEN [name |-> n, enabled |-> TRUE, connector |-> c, endpoint |-> c = "http",
                                          runner |-> c = "codex", credential |-> None] ELSE None],
               credentials |-> Credential, runner |-> TRUE,
               workflow |-> None, versions |-> {}, runs |-> {}]
    BY DEF Init
  <1> DEFINE row == [name |-> n, enabled |-> TRUE, connector |-> c, endpoint |-> c = "http",
                     runner |-> c = "codex", credential |-> None]
  <1>2. row \in Row /\ row.credential = None
    BY DEF Row
  <1>3. /\ db.res = [r \in Resource |-> IF r = a THEN row ELSE None]
        /\ db.credentials = Credential /\ db.runner = TRUE /\ db.workflow = None /\ db.versions = {} /\ db.runs = {}
        /\ DOMAIN db = {"res", "credentials", "runner", "workflow", "versions", "runs"}
    BY <1>1
  <1> HIDE DEF row
  <1>4. ControlTypeOK
    <2>1. Tables(db)
      BY <1>2, <1>3 DEF Tables
    <2> QED BY <2>1, Constants DEF Init, ControlTypeOK
  <1>5. NamesUnique /\ ServicesAreHttp
    BY <1>3 DEF NamesUnique, ServicesAreHttp
  <1>6. CredentialsKept
    BY <1>2, <1>3 DEF CredentialsKept, credential_found
  <1>7. VersionsKeepWorkflow /\ CurrentIsLatest
    <2>1. IsFiniteSet({}) /\ Cardinality({}) = 0
      BY FS_EmptySet
    <2>2. {v.version : v \in {}} = 1 .. 0
      OBVIOUS
    <2> QED BY <2>1, <2>2, <1>3 DEF VersionsKeepWorkflow, CurrentIsLatest
  <1>8. \A p \in Request : Session(req[p]) /\ req[p].op = "none"
    BY DEF Init, Idle, Session
  <1>9. VersionLocked
    BY <1>8 DEF VersionLocked
  <1>10. RunIsExecutable
    BY <1>3 DEF RunIsExecutable
  <1> QED BY <1>4, <1>5, <1>6, <1>7, <1>8, <1>9, <1>10 DEF ControlInv

-----------------------------------------------------------------------------
(* The two halves of a request.                                             *)

\* Reading changes nothing but the session, whose arguments were just checked.
LEMMA ReadStep ==
    ASSUME ControlInv, NEW p \in Request, NEW op, NEW x, NEW y, Read(p, op, x, y),
           Session([op |-> op, x |-> x, y |-> y, snap |-> db]),
           op = "create_version" => ~locked /\ db.workflow # None
    PROVE  ControlInv'
  <1> DEFINE q == [op |-> op, x |-> x, y |-> y, snap |-> db]
  <1>1. /\ req' = [req EXCEPT ![p] = q] /\ db' = db /\ count' = count + 1 /\ count < MaxRequests
    BY DEF Read
  <1>2. q.op = op /\ q.snap = db /\ DOMAIN req = Request /\ count \in 0 .. MaxRequests
    BY DEF ControlInv, ControlTypeOK
  <1> HIDE DEF q
  <1>3. req'[p] = q /\ \A o \in Request \ {p} : req'[o] = req[o]
    BY <1>1, <1>2
  <1>4. ControlTypeOK'
    BY <1>1, <1>2, Constants DEF ControlInv, ControlTypeOK
  <1>5. NamesUnique' /\ CredentialsKept' /\ ServicesAreHttp' /\ VersionsKeepWorkflow' /\ CurrentIsLatest'
    BY <1>1 DEF ControlInv, NamesUnique, CredentialsKept, ServicesAreHttp, VersionsKeepWorkflow, CurrentIsLatest
  <1>6. \A o \in Request : Session(req'[o])
    <2>1. Session(q)
      BY DEF q
    <2> QED BY <2>1, <1>3 DEF ControlInv
  <1>7. VersionLocked'
    BY <1>1, <1>2, <1>3 DEF ControlInv, VersionLocked, locked
  <1> QED BY <1>4, <1>5, <1>6, <1>7 DEF ControlInv

\* Whether the Workflow and its Versions are as they were.
DefinitionsKept == db'.workflow = db.workflow /\ db'.versions = db.versions

\* A commit ends the session; the Workflow does not move under a create_version.
LEMMA CommitStep ==
    ASSUME ControlInv, NEW p \in Request, req' = [req EXCEPT ![p] = Idle], count' = count,
           Tables(db'), NamesUnique', CredentialsKept', ServicesAreHttp', VersionsKeepWorkflow', CurrentIsLatest',
           DefinitionsKept \/ ~locked \/ req[p].op = "create_version"
    PROVE  ControlInv'
  <1>1. DOMAIN req = Request /\ Idle.op = "none"
    BY DEF ControlInv, ControlTypeOK, Idle
  <1>2. req'[p] = Idle /\ \A o \in Request \ {p} : req'[o] = req[o]
    BY <1>1
  <1>3. ControlTypeOK'
    BY <1>1 DEF ControlInv, ControlTypeOK
  <1>4. \A o \in Request : Session(req'[o])
    <2>1. Session(Idle)
      BY DEF Session, Idle
    <2> QED BY <2>1, <1>2 DEF ControlInv
  <1>5. VersionLocked'
    <2>1. CASE DefinitionsKept
      BY <2>1, <1>1, <1>2 DEF DefinitionsKept, ControlInv, VersionLocked
    <2>2. CASE ~locked \/ req[p].op = "create_version"
      <3>1. \A o \in Request \ {p} : req[o].op # "create_version"
        BY <2>2 DEF locked, ControlInv, VersionLocked
      <3> QED BY <3>1, <1>1, <1>2 DEF VersionLocked
    <2> QED BY <2>1, <2>2
  <1> QED BY <1>3, <1>4, <1>5 DEF ControlInv

\* A request that the database refuses.
LEMMA RefusedCommit ==
    ASSUME ControlInv, NEW p \in Request, req' = [req EXCEPT ![p] = Idle], count' = count, db' = db
    PROVE  ControlInv'
  <1>1. /\ Tables(db') /\ NamesUnique' /\ CredentialsKept' /\ ServicesAreHttp'
        /\ VersionsKeepWorkflow' /\ CurrentIsLatest' /\ DefinitionsKept
    BY DEF ControlInv, ControlTypeOK, NamesUnique, CredentialsKept, ServicesAreHttp, VersionsKeepWorkflow,
           CurrentIsLatest, DefinitionsKept
  <1> QED BY <1>1, CommitStep

\* A commit that leaves the Workflow and its Versions alone.
LEMMA RegistryCommit ==
    ASSUME ControlInv, NEW p \in Request, req' = [req EXCEPT ![p] = Idle], count' = count,
           Tables(db'), NamesUnique', CredentialsKept', ServicesAreHttp', DefinitionsKept
    PROVE  ControlInv'
  <1>1. VersionsKeepWorkflow' /\ CurrentIsLatest'
    BY DEF ControlInv, DefinitionsKept, VersionsKeepWorkflow, CurrentIsLatest
  <1> QED BY <1>1, CommitStep

-----------------------------------------------------------------------------
(* Commits of the registries.                                               *)

\* The row that is written has a free name and a credential that exists.
LEMMA SetRow ==
    ASSUME ControlInv, NEW p \in Request, NEW r \in Resource, NEW row \in Row,
           req' = [req EXCEPT ![p] = Idle], count' = count, db' = [db EXCEPT !.res[r] = row],
           UniqueKey(db, r, row.name), credential_found(db, row.credential),
           r \notin Agent => row.connector = "http"
    PROVE  ControlInv' /\ db'.versions = db.versions /\ db'.runs = db.runs
  <1> DEFINE res == [db.res EXCEPT ![r] = row]
  <1>1. Tables(db) /\ db.res \in [Resource -> Row \cup {None}]
    BY DEF ControlInv, ControlTypeOK, Tables
  <1>2. res \in [Resource -> Row \cup {None}] /\ res[r] = row /\ \A s \in Resource \ {r} : res[s] = db.res[s]
    BY <1>1
  <1>3. db' = [db EXCEPT !.res = res]
    OBVIOUS
  <1> HIDE DEF res
  <1>4. /\ Tables(db') /\ db'.res = res /\ db'.credentials = db.credentials
        /\ db'.versions = db.versions /\ db'.runs = db.runs /\ DefinitionsKept
    BY <1>1, <1>2, <1>3, ResUpdate DEF DefinitionsKept
  <1>5. NamesUnique'
    <2> SUFFICES ASSUME NEW s \in Resource, NEW u \in Resource,
                        s # u, u \in Kind(s), res[s] # None, res[u] # None
                 PROVE  res[s].name # res[u].name
      BY <1>4 DEF NamesUnique
    <2>1. CASE s = r
      BY <2>1, <1>2 DEF UniqueKey, ensure_name_available
    <2>2. CASE u = r
      <3>1. s \in Kind(r)
        BY <2>2, Constants
      <3> QED BY <2>2, <3>1, <1>2 DEF UniqueKey, ensure_name_available
    <2>3. CASE s # r /\ u # r
      BY <2>3, <1>2 DEF ControlInv, NamesUnique
    <2> QED BY <2>1, <2>2, <2>3
  <1>6. CredentialsKept'
    BY <1>2, <1>4 DEF ControlInv, CredentialsKept, credential_found
  <1>7. ServicesAreHttp'
    BY <1>2, <1>4 DEF ControlInv, ServicesAreHttp
  <1> QED BY <1>4, <1>5, <1>6, <1>7, RegistryCommit

\* Rows that go take nothing with them that others need.
LEMMA DropRows ==
    ASSUME ControlInv, NEW p \in Request, NEW gone,
           req' = [req EXCEPT ![p] = Idle], count' = count,
           db' = [db EXCEPT !.res = [r \in Resource |-> IF r \in gone THEN None ELSE db.res[r]]]
    PROVE  ControlInv' /\ db'.versions = db.versions /\ db'.runs = db.runs
  <1> DEFINE res == [r \in Resource |-> IF r \in gone THEN None ELSE db.res[r]]
  <1>1. Tables(db) /\ db.res \in [Resource -> Row \cup {None}]
    BY DEF ControlInv, ControlTypeOK, Tables
  <1>2. res \in [Resource -> Row \cup {None}] /\ \A s \in Resource : res[s] # None => res[s] = db.res[s]
    BY <1>1
  <1>3. db' = [db EXCEPT !.res = res]
    OBVIOUS
  <1> HIDE DEF res
  <1>4. /\ Tables(db') /\ db'.res = res /\ db'.credentials = db.credentials
        /\ db'.versions = db.versions /\ db'.runs = db.runs /\ DefinitionsKept
    BY <1>1, <1>2, <1>3, ResUpdate DEF DefinitionsKept
  <1>5. NamesUnique'
    BY <1>2, <1>4 DEF ControlInv, NamesUnique
  <1>6. CredentialsKept'
    BY <1>2, <1>4 DEF ControlInv, CredentialsKept, credential_found
  <1>7. ServicesAreHttp'
    BY <1>2, <1>4 DEF ControlInv, ServicesAreHttp
  <1> QED BY <1>4, <1>5, <1>6, <1>7, RegistryCommit

\* A credential that appears, or that no row uses and goes.
LEMMA SetCredentials ==
    ASSUME ControlInv, NEW p \in Request, NEW creds \in SUBSET Credential,
           req' = [req EXCEPT ![p] = Idle], count' = count, db' = [db EXCEPT !.credentials = creds],
           \A r \in Resource : db.res[r] # None => db.res[r].credential = None \/ db.res[r].credential \in creds
    PROVE  ControlInv' /\ db'.versions = db.versions /\ db'.runs = db.runs
  <1>1. Tables(db)
    BY DEF ControlInv, ControlTypeOK
  <1>2. /\ Tables(db') /\ db'.res = db.res /\ db'.credentials = creds
        /\ db'.versions = db.versions /\ db'.runs = db.runs /\ DefinitionsKept
    BY <1>1 DEF DefinitionsKept, Tables
  <1>3. NamesUnique' /\ ServicesAreHttp'
    BY <1>2 DEF ControlInv, NamesUnique, ServicesAreHttp
  <1>4. CredentialsKept'
    BY <1>2 DEF CredentialsKept, credential_found
  <1> QED BY <1>2, <1>3, <1>4, RegistryCommit

\* What a step of a request may do to Versions and Runs, when it does not publish
\* or start one.
Kept == ControlInv' /\ db'.versions = db.versions /\ db'.runs = db.runs

\* A step that only reads, or that the database refuses.
LEMMA ReadKept ==
    ASSUME ControlInv, NEW p \in Request, NEW op, NEW x, NEW y, Read(p, op, x, y),
           Session([op |-> op, x |-> x, y |-> y, snap |-> db]), op # "create_version"
    PROVE  Kept
  <1>1. db' = db
    BY DEF Read
  <1>2. ControlInv'
    BY ReadStep
  <1> QED BY <1>1, <1>2 DEF Kept

\* A new row has the columns it was given.
LEMMA NewRowFields ==
    ASSUME NEW n \in Name, NEW c \in Credential \cup {None}, NEW k \in {"http", "codex", "custom"}
    PROVE  NewRow(n, c, k) \in Row /\ NewRow(n, c, k).connector = k /\ NewRow(n, c, k).credential = c
  BY DEF NewRow, Row

\* A PATCH of a Service: its credential, or whether it is enabled.
LEMMA ServicePatch ==
    ASSUME NEW row \in Row,
           NEW new \in {[row EXCEPT !.credential = c] : c \in Credential \cup {None}} \cup {[row EXCEPT !.enabled = ~@]}
    PROVE  new \in Row /\ new.connector = row.connector
  <1> DEFINE Linked(c) == [row EXCEPT !.credential = c]
             toggled == [row EXCEPT !.enabled = ~@]
  <1>1. \A c \in Credential \cup {None} : Linked(c) \in Row /\ Linked(c).connector = row.connector
    BY DEF Row
  <1>2. toggled \in Row /\ toggled.connector = row.connector
    BY DEF Row
  <1>3. new \in {Linked(c) : c \in Credential \cup {None}} \cup {toggled}
    OBVIOUS
  <1> HIDE DEF Linked, toggled
  <1> QED BY <1>1, <1>2, <1>3

\* The insert of an Agent or of a Service.
LEMMA InsertStep ==
    ASSUME ControlInv, NEW p \in Request, NEW op \in {"create_agent", "create_service"}, Insert(p, op)
    PROVE  Kept
  <1> DEFINE r == req[p].x
             row == req[p].y
             allowed == db.res[r] = None /\ UniqueKey(db, r, row.name) /\ credential_found(db, row.credential)
  <1>1. /\ req[p].op = op /\ req' = [req EXCEPT ![p] = Idle] /\ count' = count
        /\ db' = IF allowed THEN [db EXCEPT !.res[r] = row] ELSE db
    BY DEF Insert, Commit
  <1>2. r \in Resource /\ row \in Row /\ (r \notin Agent => row.connector = "http")
    BY <1>1 DEF ControlInv, Session
  <1>3. CASE allowed
    <2>1. UniqueKey(db, r, row.name) /\ credential_found(db, row.credential) /\ db' = [db EXCEPT !.res[r] = row]
      BY <1>1, <1>3
    <2> HIDE DEF r, row
    <2> QED BY <2>1, <1>1, <1>2, SetRow DEF Kept
  <1>4. CASE ~allowed
    BY <1>1, <1>4, RefusedCommit DEF Kept
  <1> QED BY <1>3, <1>4

\* The update of a row, column by column.
LEMMA UpdateStep ==
    ASSUME ControlInv, NEW p \in Request, NEW op \in {"update_agent", "update_service", "update_action"}, Update(p, op)
    PROVE  Kept
  <1> DEFINE r == req[p].x
             new == req[p].y
             row == Changed(db.res[r], req[p].snap.res[r], new)
             allowed == UniqueKey(db, r, row.name) /\ credential_found(db, row.credential)
  <1>1. req[p].op = op /\ req' = [req EXCEPT ![p] = Idle] /\ count' = count
    BY DEF Update, Commit
  <1>2. r \in Resource /\ new \in Row /\ (r \notin Agent => new.connector = "http")
    BY <1>1 DEF ControlInv, Session
  <1>3. CASE db.res[r] = None
    BY <1>1, <1>3, RefusedCommit DEF Kept, Update, Commit
  <1>4. CASE db.res[r] # None
    <2>1. db' = IF allowed THEN [db EXCEPT !.res[r] = row] ELSE db
      BY <1>4 DEF Update, Commit
    <2>2. db.res[r] \in Row
      BY <1>2, <1>4, TableFacts DEF ControlInv, ControlTypeOK
    <2>3. row \in Row /\ row.connector \in {db.res[r].connector, new.connector}
      BY <2>2, <1>2, ChangedIsRow
    <2>4. r \notin Agent => row.connector = "http"
      BY <2>3, <1>2, <1>4 DEF ControlInv, ServicesAreHttp
    <2>5. CASE allowed
      <3>1. UniqueKey(db, r, row.name) /\ credential_found(db, row.credential) /\ db' = [db EXCEPT !.res[r] = row]
        BY <2>1, <2>5
      <3> HIDE DEF r, row
      <3> QED BY <3>1, <2>3, <2>4, <1>1, <1>2, SetRow DEF Kept
    <2>6. CASE ~allowed
      BY <2>1, <2>6, <1>1, RefusedCommit DEF Kept
    <2> QED BY <2>5, <2>6
  <1> QED BY <1>3, <1>4

\* The deletion of rows.
LEMMA DeleteStep ==
    ASSUME ControlInv, NEW p \in Request, NEW op, NEW gone, Delete(p, op, gone)
    PROVE  Kept
  <1>1. /\ req' = [req EXCEPT ![p] = Idle] /\ count' = count
        /\ \/ db' = [db EXCEPT !.res = [r \in Resource |-> IF r \in gone THEN None ELSE db.res[r]]]
           \/ db' = db
    BY DEF Delete, Commit
  <1>2. CASE db' = db
    BY <1>1, <1>2, RefusedCommit DEF Kept
  <1>3. CASE db' = [db EXCEPT !.res = [r \in Resource |-> IF r \in gone THEN None ELSE db.res[r]]]
    BY <1>1, <1>3, DropRows DEF Kept
  <1> QED BY <1>1, <1>2, <1>3

\* Agents.
LEMMA AgentSteps ==
    ASSUME ControlInv, NEW p \in Request, create_agent(p) \/ update_agent(p) \/ delete_agent(p)
    PROVE  Kept
  <1>1. CASE create_agent(p)
    <2>1. CASE Insert(p, "create_agent")
      BY <2>1, InsertStep
    <2>2. ASSUME NEW r \in Agent, NEW n \in Name, NEW c \in Credential \cup {None}, NEW k \in {"http", "codex", "custom"},
                 Read(p, "create_agent", r, NewRow(n, c, k))
          PROVE  Kept
      <3> DEFINE q == [op |-> "create_agent", x |-> r, y |-> NewRow(n, c, k), snap |-> db]
      <3>1. r \in Resource /\ NewRow(n, c, k) \in Row
        BY Constants, NewRowFields
      <3>2. Session(q)
        BY <3>1 DEF Session
      <3> QED BY <2>2, <3>2, ReadKept
    <2> QED BY <1>1, <2>1, <2>2 DEF create_agent
  <1>2. CASE update_agent(p)
    <2>1. CASE Update(p, "update_agent")
      BY <2>1, UpdateStep
    <2>2. ASSUME NEW r \in Agent, NEW new \in Row, Read(p, "update_agent", r, new) PROVE Kept
      <3> DEFINE q == [op |-> "update_agent", x |-> r, y |-> new, snap |-> db]
      <3>1. Session(q)
        BY Constants DEF Session
      <3> QED BY <2>2, <3>1, ReadKept
    <2>3. ASSUME NEW r \in Agent, db.res[r] # None
          PROVE  /\ {[db.res[r] EXCEPT !.name = n] : n \in Name} \subseteq Row
                 /\ {[db.res[r] EXCEPT !.credential = c] : c \in Credential \cup {None}} \subseteq Row
                 /\ {[db.res[r] EXCEPT !.enabled = ~@]} \subseteq Row
      <3>1. db.res[r] \in Row
        BY <2>3, Constants, TableFacts DEF ControlInv, ControlTypeOK
      <3>2. \A n \in Name : [db.res[r] EXCEPT !.name = n] \in Row
        BY <3>1 DEF Row
      <3>3. \A c \in Credential \cup {None} : [db.res[r] EXCEPT !.credential = c] \in Row
        BY <3>1 DEF Row
      <3>5. [db.res[r] EXCEPT !.enabled = ~@] \in Row
        BY <3>1 DEF Row
      <3> QED BY <3>2, <3>3, <3>5, Zenon
    <2> QED BY <1>2, <2>1, <2>2, <2>3, Zenon DEF update_agent
  <1>3. CASE delete_agent(p)
    <2>1. CASE Delete(p, "delete_agent", {req[p].x})
      BY <2>1, DeleteStep
    <2>2. ASSUME NEW r \in Agent, ensure_resource_not_referenced(p, "delete_agent", r) PROVE Kept
      <3>1. Read(p, "delete_agent", r, None)
        BY <2>2 DEF ensure_resource_not_referenced
      <3>2. Session([op |-> "delete_agent", x |-> r, y |-> None, snap |-> db])
        BY DEF Session
      <3> QED BY <3>1, <3>2, ReadKept
    <2> QED BY <1>3, <2>1, <2>2 DEF delete_agent
  <1> QED BY <1>1, <1>2, <1>3

\* Services.
LEMMA ServiceSteps ==
    ASSUME ControlInv, NEW p \in Request, create_service(p) \/ update_service(p) \/ delete_service(p)
    PROVE  Kept
  <1>1. CASE create_service(p)
    <2>1. CASE Insert(p, "create_service")
      BY <2>1, InsertStep
    <2>2. ASSUME NEW r \in Service, NEW n \in Name, NEW c \in Credential \cup {None},
                 Read(p, "create_service", r, NewRow(n, c, "http"))
          PROVE  Kept
      <3> DEFINE q == [op |-> "create_service", x |-> r, y |-> NewRow(n, c, "http"), snap |-> db]
      <3>1. r \in Resource /\ NewRow(n, c, "http") \in Row /\ NewRow(n, c, "http").connector = "http"
        BY Constants, NewRowFields
      <3>2. Session(q)
        BY <3>1 DEF Session
      <3> QED BY <2>2, <3>2, ReadKept
    <2> QED BY <1>1, <2>1, <2>2 DEF create_service
  <1>2. CASE update_service(p)
    <2>1. CASE Update(p, "update_service")
      BY <2>1, UpdateStep
    <2>2. ASSUME NEW r \in Service, db.res[r] # None,
                 NEW new \in {[db.res[r] EXCEPT !.credential = c] : c \in Credential \cup {None}}
                  \cup {[db.res[r] EXCEPT !.enabled = ~@]},
                 Read(p, "update_service", r, new)
          PROVE  Kept
      <3> DEFINE q == [op |-> "update_service", x |-> r, y |-> new, snap |-> db]
      <3>1. r \in Resource /\ r \notin Agent /\ db.res[r] \in Row
        BY <2>2, Constants, TableFacts DEF ControlInv, ControlTypeOK
      <3>2. db.res[r].connector = "http"
        BY <2>2, <3>1 DEF ControlInv, ServicesAreHttp
      <3>3. new \in Row /\ new.connector = "http"
        BY <3>1, <3>2, ServicePatch
      <3>4. Session(q)
        BY <3>1, <3>3 DEF Session
      <3> QED BY <2>2, <3>4, ReadKept
    <2> QED BY <1>2, <2>1, <2>2 DEF update_service
  <1>3. CASE delete_service(p)
    <2>1. CASE Delete(p, "delete_service", {req[p].x} \cup {a \in Action : ServiceOf[a] = req[p].x})
      BY <2>1, DeleteStep
    <2>2. ASSUME NEW r \in Service, ensure_resource_not_referenced(p, "delete_service", r) PROVE Kept
      <3>1. Read(p, "delete_service", r, None)
        BY <2>2 DEF ensure_resource_not_referenced
      <3>2. Session([op |-> "delete_service", x |-> r, y |-> None, snap |-> db])
        BY DEF Session
      <3> QED BY <3>1, <3>2, ReadKept
    <2> QED BY <1>3, <2>1, <2>2 DEF delete_service
  <1> QED BY <1>1, <1>2, <1>3

\* Actions of Services: an action has no credential of its own.
LEMMA ActionSteps ==
    ASSUME ControlInv, NEW p \in Request, create_action(p) \/ update_action(p) \/ delete_action(p)
    PROVE  Kept
  <1>1. CASE create_action(p)
    <2>1. ASSUME NEW r \in Action, NEW n \in Name, Read(p, "create_action", r, NewRow(n, None, "http"))
          PROVE  Kept
      <3> DEFINE q == [op |-> "create_action", x |-> r, y |-> NewRow(n, None, "http"), snap |-> db]
      <3>1. /\ r \in Resource /\ NewRow(n, None, "http") \in Row
            /\ NewRow(n, None, "http").connector = "http" /\ NewRow(n, None, "http").credential = None
        BY Constants, NewRowFields
      <3>2. Session(q)
        BY <3>1 DEF Session
      <3> QED BY <2>1, <3>2, ReadKept
    <2>2. ASSUME req[p].op = "create_action",
                 Commit(p, "create_action",
                        db.res[ServiceOf[req[p].x]] # None /\ UniqueKey(db, req[p].x, req[p].y.name),
                        [db EXCEPT !.res[req[p].x] = req[p].y])
          PROVE  Kept
      <3> DEFINE r == req[p].x
                 row == req[p].y
                 allowed == db.res[ServiceOf[r]] # None /\ UniqueKey(db, r, row.name)
      <3>1. /\ req' = [req EXCEPT ![p] = Idle] /\ count' = count
            /\ db' = IF allowed THEN [db EXCEPT !.res[r] = row] ELSE db
        BY <2>2 DEF Commit
      <3>2. r \in Resource /\ row \in Row /\ (r \notin Agent => row.connector = "http") /\ credential_found(db, row.credential)
        BY <2>2 DEF ControlInv, Session, credential_found
      <3>3. CASE allowed
        <4>1. UniqueKey(db, r, row.name) /\ db' = [db EXCEPT !.res[r] = row]
          BY <3>1, <3>3
        <4> HIDE DEF r, row
        <4> QED BY <4>1, <3>1, <3>2, SetRow DEF Kept
      <3>4. CASE ~allowed
        BY <3>1, <3>4, RefusedCommit DEF Kept
      <3> QED BY <3>3, <3>4
    <2> QED BY <1>1, <2>1, <2>2 DEF create_action
  <1>2. CASE update_action(p)
    <2>1. CASE Update(p, "update_action")
      BY <2>1, UpdateStep
    <2>2. ASSUME NEW r \in Action, db.res[r] # None, Read(p, "update_action", r, [db.res[r] EXCEPT !.enabled = ~@])
          PROVE  Kept
      <3> DEFINE new == [db.res[r] EXCEPT !.enabled = ~@]
                 q == [op |-> "update_action", x |-> r, y |-> new, snap |-> db]
      <3>1. r \in Resource /\ r \notin Agent /\ db.res[r] \in Row
        BY <2>2, Constants, TableFacts DEF ControlInv, ControlTypeOK
      <3>2. db.res[r].connector = "http"
        BY <2>2, <3>1 DEF ControlInv, ServicesAreHttp
      <3>3. new \in Row /\ new.connector = "http"
        BY <3>1, <3>2 DEF Row
      <3>4. Read(p, "update_action", r, new)
        BY <2>2
      <3> HIDE DEF new
      <3>5. Session(q)
        BY <3>1, <3>3 DEF Session
      <3> QED BY <3>4, <3>5, ReadKept
    <2> QED BY <1>2, <2>1, <2>2 DEF update_action
  <1>3. CASE delete_action(p)
    <2>1. CASE Delete(p, "delete_action", {req[p].x})
      BY <2>1, DeleteStep
    <2>2. ASSUME NEW r \in Action, ensure_resource_not_referenced(p, "delete_action", r) PROVE Kept
      <3>1. Read(p, "delete_action", r, None)
        BY <2>2 DEF ensure_resource_not_referenced
      <3>2. Session([op |-> "delete_action", x |-> r, y |-> None, snap |-> db])
        BY DEF Session
      <3> QED BY <3>1, <3>2, ReadKept
    <2> QED BY <1>3, <2>1, <2>2 DEF delete_action
  <1> QED BY <1>1, <1>2, <1>3

\* Credentials: the foreign key keeps one that a row uses.
LEMMA CredentialSteps ==
    ASSUME ControlInv, NEW p \in Request, create_credential(p) \/ delete_credential(p)
    PROVE  Kept
  <1>0. /\ db.credentials \subseteq Credential
        /\ \A r \in Resource : db.res[r] # None =>
              db.res[r].credential = None \/ db.res[r].credential \in db.credentials
    BY DEF ControlInv, ControlTypeOK, Tables, CredentialsKept, credential_found
  <1>1. CASE create_credential(p)
    <2>1. ASSUME NEW c \in Credential, Read(p, "create_credential", c, None) PROVE Kept
      <3>1. Session([op |-> "create_credential", x |-> c, y |-> None, snap |-> db])
        BY DEF Session
      <3> QED BY <2>1, <3>1, ReadKept
    <2>2. ASSUME Commit(p, "create_credential", TRUE, [db EXCEPT !.credentials = @ \cup {req[p].x}]) PROVE Kept
      <3> DEFINE creds == db.credentials \cup {req[p].x}
      <3>1. /\ req' = [req EXCEPT ![p] = Idle] /\ count' = count /\ req[p].op = "create_credential"
            /\ db' = [db EXCEPT !.credentials = creds]
        BY <2>2 DEF Commit
      <3>2. req[p].x \in Credential
        BY <3>1 DEF ControlInv, Session
      <3>3. /\ creds \in SUBSET Credential
            /\ \A r \in Resource : db.res[r] # None => db.res[r].credential = None \/ db.res[r].credential \in creds
        BY <3>2, <1>0
      <3> HIDE DEF creds
      <3> QED BY <3>1, <3>3, SetCredentials DEF Kept
    <2> QED BY <1>1, <2>1, <2>2 DEF create_credential
  <1>2. CASE delete_credential(p)
    <2>1. ASSUME NEW c \in Credential, Read(p, "delete_credential", c, None) PROVE Kept
      <3>1. Session([op |-> "delete_credential", x |-> c, y |-> None, snap |-> db])
        BY DEF Session
      <3> QED BY <2>1, <3>1, ReadKept
    <2>2. ASSUME Commit(p, "delete_credential", CredentialFree(db, req[p].x), [db EXCEPT !.credentials = @ \ {req[p].x}])
          PROVE  Kept
      <3> DEFINE creds == db.credentials \ {req[p].x}
      <3>1. /\ req' = [req EXCEPT ![p] = Idle] /\ count' = count
            /\ db' = IF CredentialFree(db, req[p].x) THEN [db EXCEPT !.credentials = creds] ELSE db
        BY <2>2 DEF Commit
      <3>2. CASE CredentialFree(db, req[p].x)
        <4>1. /\ creds \in SUBSET Credential /\ db' = [db EXCEPT !.credentials = creds]
              /\ \A r \in Resource : db.res[r] # None => db.res[r].credential = None \/ db.res[r].credential \in creds
          BY <3>1, <3>2, <1>0 DEF CredentialFree
        <4> HIDE DEF creds
        <4> QED BY <4>1, <3>1, SetCredentials DEF Kept
      <3>3. CASE ~CredentialFree(db, req[p].x)
        BY <3>1, <3>3, RefusedCommit DEF Kept
      <3> QED BY <3>2, <3>3
    <2> QED BY <1>0, <1>2, <2>1, <2>2 DEF delete_credential
  <1> QED BY <1>1, <1>2

-----------------------------------------------------------------------------
(* Commits of the Workflow, its Versions and Runs.                          *)

\* The columns of a Workflow.
LEMMA WorkflowFields ==
    ASSUME NEW w \in WorkflowRow
    PROVE  /\ w.draft \in Graph /\ w.current \in Nat /\ w.status \in {"draft", "active", "archived"}
           /\ \A g \in Graph, s \in {"draft", "active", "archived"}, n \in Nat :
                /\ [w EXCEPT !.draft = g, !.status = s] \in WorkflowRow
                /\ [w EXCEPT !.draft = g, !.status = s].current = w.current
                /\ [w EXCEPT !.status = s] \in WorkflowRow /\ [w EXCEPT !.status = s].current = w.current
                /\ [w EXCEPT !.current = n, !.status = s] \in WorkflowRow
                /\ [w EXCEPT !.current = n, !.status = s].current = n
  BY DEF WorkflowRow

\* The Workflow row is replaced, the other tables stay.
LEMMA WorkflowUpdate ==
    ASSUME Tables(db), NEW v \in WorkflowRow \cup {None}, db' = [db EXCEPT !.workflow = v]
    PROVE  /\ Tables(db') /\ db'.workflow = v /\ db'.credentials = db.credentials /\ db'.res = db.res
           /\ db'.versions = db.versions /\ db'.runs = db.runs
  BY DEF Tables

\* A commit that writes the Workflow and not its Versions: nobody publishes at
\* that moment, and the Workflow goes only if it has no Version.
LEMMA SetWorkflow ==
    ASSUME ControlInv, NEW p \in Request, NEW v \in WorkflowRow \cup {None},
           req' = [req EXCEPT ![p] = Idle], count' = count, db' = [db EXCEPT !.workflow = v], ~locked,
           v = None => db.versions = {},
           v # None => v.current = Cardinality(db.versions)
    PROVE  Kept
  <1>1. Tables(db)
    BY DEF ControlInv, ControlTypeOK
  <1>2. /\ Tables(db') /\ db'.workflow = v /\ db'.credentials = db.credentials /\ db'.res = db.res
        /\ db'.versions = db.versions /\ db'.runs = db.runs
    BY <1>1, WorkflowUpdate
  <1>3. NamesUnique' /\ CredentialsKept' /\ ServicesAreHttp'
    BY <1>2 DEF ControlInv, NamesUnique, CredentialsKept, credential_found, ServicesAreHttp
  <1>4. VersionsKeepWorkflow' /\ CurrentIsLatest'
    BY <1>2 DEF ControlInv, VersionsKeepWorkflow, CurrentIsLatest
  <1> QED BY <1>2, <1>3, <1>4, CommitStep DEF Kept

\* POST, PATCH, PUT and DELETE of the Workflow.
LEMMA WorkflowSteps ==
    ASSUME ControlInv, NEW p \in Request,
           create_workflow(p) \/ update_workflow(p) \/ delete_workflow(p) \/ update_draft_graph(p)
    PROVE  Kept
  <1>0. /\ db.workflow # None => db.workflow \in WorkflowRow /\ db.workflow.current = Cardinality(db.versions)
        /\ db.workflow = None => db.versions = {}
    BY TableFacts DEF ControlInv, ControlTypeOK, CurrentIsLatest, VersionsKeepWorkflow
  <1>1. ASSUME NEW op \in {"create_workflow", "update_draft", "update_workflow", "delete_workflow"}, NEW x,
               Read(p, op, x, None),
               op \in {"create_workflow", "update_draft"} => x \in Graph,
               op = "update_workflow" => x \in {"draft", "active", "archived"}
        PROVE  Kept
    <2>1. Session([op |-> op, x |-> x, y |-> None, snap |-> db])
      BY <1>1 DEF Session
    <2> QED BY <1>1, <2>1, ReadKept
  <1>2. CASE create_workflow(p)
    <2>1. ASSUME req[p].op = "create_workflow",
                 Commit(p, "create_workflow", db.workflow = None,
                        [db EXCEPT !.workflow = [status |-> "draft", draft |-> req[p].x, current |-> 0]])
          PROVE  Kept
      <3> DEFINE w == [status |-> "draft", draft |-> req[p].x, current |-> 0]
      <3>1. /\ req' = [req EXCEPT ![p] = Idle] /\ count' = count
            /\ db' = IF db.workflow = None THEN [db EXCEPT !.workflow = w] ELSE db
        BY <2>1 DEF Commit
      <3>2. req[p].x \in Graph
        BY <2>1 DEF ControlInv, Session
      <3>3. w \in WorkflowRow /\ w.current = 0
        BY <3>2 DEF WorkflowRow
      <3> HIDE DEF w
      <3>4. CASE db.workflow = None
        <4>1. Cardinality(db.versions) = 0
          BY <3>4, <1>0, FS_EmptySet
        <4>2. ~locked
          BY <3>4 DEF locked, ControlInv, VersionLocked
        <4>3. w # None /\ db' = [db EXCEPT !.workflow = w]
          BY <3>1, <3>3, <3>4, Constants
        <4> QED BY <4>1, <4>2, <4>3, <3>1, <3>3, SetWorkflow
      <3>5. CASE db.workflow # None
        BY <3>1, <3>5, RefusedCommit DEF Kept
      <3> QED BY <3>4, <3>5
    <2>2. ASSUME NEW g \in Graph, Read(p, "create_workflow", g, None) PROVE Kept
      BY <2>2, <1>1
    <2> QED BY <1>2, <2>1, <2>2 DEF create_workflow
  <1>3. CASE update_workflow(p)
    <2>1. ASSUME NEW s \in {"draft", "active", "archived"}, Read(p, "update_workflow", s, None) PROVE Kept
      BY <2>1, <1>1
    <2>2. ASSUME req[p].op = "update_workflow", ~locked,
                 IF db.workflow = None THEN Commit(p, "update_workflow", FALSE, db)
                 ELSE Commit(p, "update_workflow", req[p].x # req[p].snap.workflow.status,
                             [db EXCEPT !.workflow.status = req[p].x])
          PROVE  Kept
      <3> DEFINE w == [db.workflow EXCEPT !.status = req[p].x]
      <3>1. req' = [req EXCEPT ![p] = Idle] /\ count' = count
        BY <2>2 DEF Commit
      <3>2. req[p].x \in {"draft", "active", "archived"}
        BY <2>2 DEF ControlInv, Session
      <3>3. db' = db \/ (db.workflow # None /\ db' = [db EXCEPT !.workflow = w])
        BY <2>2 DEF Commit
      <3>4. CASE db' = db
        BY <3>1, <3>4, RefusedCommit DEF Kept
      <3>5. CASE db.workflow # None /\ db' = [db EXCEPT !.workflow = w]
        <4>1. w \in WorkflowRow /\ w.current = Cardinality(db.versions)
          <5> DEFINE old == db.workflow
          <5>1. old \in WorkflowRow /\ old.current = Cardinality(db.versions)
            BY <3>5, <1>0
          <5> QED BY <5>1, <3>2 DEF WorkflowRow
        <4>2. w # None
          BY <4>1, Constants
        <4> HIDE DEF w
        <4> QED BY <4>1, <4>2, <3>1, <3>5, <2>2, SetWorkflow
      <3> QED BY <3>3, <3>4, <3>5
    <2> QED BY <1>3, <2>1, <2>2 DEF update_workflow
  <1>4. CASE update_draft_graph(p)
    <2>1. ASSUME NEW g \in Graph, Read(p, "update_draft", g, None) PROVE Kept
      BY <2>1, <1>1
    <2>2. ASSUME req[p].op = "update_draft", ~locked,
                 IF db.workflow = None THEN Commit(p, "update_draft", FALSE, db)
                 ELSE Commit(p, "update_draft", TRUE, SaveDraft(p))
          PROVE  Kept
      <3> DEFINE s == IF req[p].snap.workflow.status = "archived" THEN "draft" ELSE db.workflow.status
                 w == [db.workflow EXCEPT !.draft = req[p].x, !.status = s]
      <3>1. req' = [req EXCEPT ![p] = Idle] /\ count' = count
        BY <2>2 DEF Commit
      <3>2. req[p].x \in Graph
        BY <2>2 DEF ControlInv, Session
      <3>3. CASE db.workflow = None
        BY <2>2, <3>1, <3>3, RefusedCommit DEF Kept, Commit
      <3>4. CASE db.workflow # None
        <4>1. Tables(db) /\ db.workflow \in WorkflowRow /\ db.workflow.current = Cardinality(db.versions)
          BY <3>4, <1>0 DEF ControlInv, ControlTypeOK
        <4>2. db' = [db EXCEPT !.workflow = w]
          <5>1. db' = [db EXCEPT !.workflow.draft = req[p].x,
                                 !.workflow.status = IF req[p].snap.workflow.status = "archived" THEN "draft" ELSE @]
            BY <2>2, <3>4 DEF Commit, SaveDraft
          <5> QED BY <5>1, <4>1 DEF Tables, WorkflowRow
        <4>3. s \in {"draft", "active", "archived"}
          BY <4>1, WorkflowFields
        <4> HIDE DEF s
        <4>4. w \in WorkflowRow /\ w.current = Cardinality(db.versions)
          BY <4>1, <4>3, <3>2 DEF WorkflowRow
        <4>5. w # None
          BY <4>4, Constants
        <4> HIDE DEF w
        <4> QED BY <4>2, <4>4, <4>5, <3>1, <2>2, SetWorkflow
      <3> QED BY <3>3, <3>4
    <2> QED BY <1>4, <2>1, <2>2 DEF update_draft_graph
  <1>5. CASE delete_workflow(p)
    <2>1. CASE Read(p, "delete_workflow", None, None)
      BY <2>1, <1>1
    <2>2. ASSUME req[p].op = "delete_workflow", ~locked,
                 IF db.workflow = None THEN Commit(p, "delete_workflow", FALSE, db)
                 ELSE IF req[p].snap.versions # {}
                      THEN Commit(p, "delete_workflow", TRUE, [db EXCEPT !.workflow.status = "archived"])
                      ELSE Commit(p, "delete_workflow", RestrictDelete(db), [db EXCEPT !.workflow = None])
          PROVE  Kept
      <3> DEFINE w == [db.workflow EXCEPT !.status = "archived"]
      <3>1. req' = [req EXCEPT ![p] = Idle] /\ count' = count
        BY <2>2 DEF Commit
      <3>2. \/ db' = db
            \/ db.workflow # None /\ db' = [db EXCEPT !.workflow = w]
            \/ db.versions = {} /\ db' = [db EXCEPT !.workflow = None]
        BY <2>2 DEF Commit, RestrictDelete
      <3>3. CASE db' = db
        BY <3>1, <3>3, RefusedCommit DEF Kept
      <3>4. CASE db.workflow # None /\ db' = [db EXCEPT !.workflow = w]
        <4>1. w \in WorkflowRow /\ w.current = Cardinality(db.versions)
          <5> DEFINE old == db.workflow
          <5>1. old \in WorkflowRow /\ old.current = Cardinality(db.versions)
            BY <3>4, <1>0
          <5> QED BY <5>1 DEF WorkflowRow
        <4>2. w # None
          BY <4>1, Constants
        <4> HIDE DEF w
        <4> QED BY <4>1, <4>2, <3>1, <3>4, <2>2, SetWorkflow
      <3>5. CASE db.versions = {} /\ db' = [db EXCEPT !.workflow = None]
        BY <3>1, <3>5, <2>2, SetWorkflow
      <3> QED BY <3>2, <3>3, <3>4, <3>5
    <2> QED BY <1>5, <2>1, <2>2 DEF delete_workflow
  <1> QED BY <1>2, <1>3, <1>4, <1>5

\* The number after 1 .. k.
LEMMA NextNumber ==
    ASSUME NEW t, NEW k \in Nat, {v.version : v \in t.versions} = 1 .. k, t.workflow.current = k
    PROVE  next_version(t) = k + 1
  <1> DEFINE S == {v.version : v \in t.versions} \cup {t.workflow.current}
  <1>1. S = (1 .. k) \cup {k}
    OBVIOUS
  <1>2. k \in S /\ \A i \in S : i \in Nat /\ k >= i
    BY <1>1
  <1> HIDE DEF S
  <1>3. Max(S) \in S /\ \A i \in S : Max(S) >= i
    BY <1>2 DEF Max
  <1>4. Max(S) = k
    <2>1. Max(S) \in Nat /\ k >= Max(S) /\ Max(S) >= k
      BY <1>2, <1>3
    <2> QED BY <2>1
  <1> QED BY <1>4 DEF next_version, S

\* The Versions and the Workflow row are replaced, the other tables stay.
LEMMA VersionUpdate ==
    ASSUME Tables(db), NEW v \in WorkflowRow, NEW w \in SUBSET WorkflowVersion,
           db' = [db EXCEPT !.versions = w, !.workflow = v]
    PROVE  /\ Tables(db') /\ db'.workflow = v /\ db'.versions = w
           /\ db'.credentials = db.credentials /\ db'.res = db.res /\ db'.runs = db.runs
  BY DEF Tables

\* The commit of create_version: what it read under the lock is what it finds.
LEMMA VersionCommit ==
    ASSUME ControlInv, NEW p \in Request, req[p].op = "create_version",
           Commit(p, "create_version", \A v \in db.versions : v.version # next_version(req[p].snap),
                  [db EXCEPT !.versions = @ \cup {[version |-> next_version(req[p].snap),
                                                    graph |-> req[p].snap.workflow.draft]},
                             !.workflow.current = next_version(req[p].snap), !.workflow.status = "active"])
    PROVE  /\ ControlInv' /\ db'.runs = db.runs /\ db.versions \subseteq db'.versions
           /\ \A v \in db'.versions \ db.versions : v.graph = db.workflow.draft
  <1> DEFINE n == next_version(req[p].snap)
             k == Cardinality(db.versions)
             old == db.workflow
             new == [version |-> n, graph |-> old.draft]
             w == [old EXCEPT !.current = n, !.status = "active"]
             vs == db.versions \cup {new}
  <1>1. /\ req[p].snap.workflow = old /\ req[p].snap.versions = db.versions /\ old # None
    BY DEF ControlInv, VersionLocked
  <1>2. /\ Tables(db) /\ old \in WorkflowRow /\ db.versions \subseteq WorkflowVersion /\ old.draft \in Graph
        /\ IsFiniteSet(db.versions) /\ {v.version : v \in db.versions} = 1 .. k /\ old.current = k
    BY <1>1, TableFacts, WorkflowFields DEF ControlInv, ControlTypeOK, CurrentIsLatest
  <1>3. k \in Nat
    BY <1>2, FS_CardinalityType
  <1>4. n = k + 1
    <2> DEFINE t == req[p].snap
    <2>1. {v.version : v \in t.versions} = 1 .. k /\ t.workflow.current = k
      BY <1>1, <1>2
    <2> HIDE DEF t, k
    <2>2. next_version(t) = k + 1
      BY <2>1, <1>3, NextNumber
    <2> QED BY <2>2 DEF t
  <1> HIDE DEF n, k
  <1>5. /\ req' = [req EXCEPT ![p] = Idle] /\ count' = count
        /\ \/ db' = db
           \/ /\ \A v \in db.versions : v.version # n
              /\ db' = [db EXCEPT !.versions = @ \cup {[version |-> n, graph |-> req[p].snap.workflow.draft]},
                                   !.workflow.current = n, !.workflow.status = "active"]
    BY DEF Commit, n
  <1>6. CASE db' = db
    BY <1>5, <1>6, RefusedCommit
  <1>7. CASE /\ \A v \in db.versions : v.version # n
             /\ db' = [db EXCEPT !.versions = @ \cup {[version |-> n, graph |-> req[p].snap.workflow.draft]},
                                  !.workflow.current = n, !.workflow.status = "active"]
    <2>1. db' = [db EXCEPT !.versions = vs, !.workflow = w]
      BY <1>1, <1>2, <1>7 DEF Tables, WorkflowRow
    <2>2. /\ new \in WorkflowVersion /\ w \in WorkflowRow /\ w.current = n /\ new.version = n /\ new.graph = old.draft
          /\ new \notin db.versions
      <3>1. n \in Nat \ {0}
        BY <1>3, <1>4
      <3>2. new \in WorkflowVersion /\ new.version = n /\ new.graph = old.draft
        BY <3>1, <1>2 DEF WorkflowVersion
      <3>3. new \notin db.versions
        BY <3>2, <1>7
      <3>4. w \in WorkflowRow /\ w.current = n
        <4> HIDE DEF old
        <4> QED BY <3>1, <1>2 DEF WorkflowRow
      <3> QED BY <3>2, <3>3, <3>4
    <2>3. vs \in SUBSET WorkflowVersion
      BY <2>2, <1>2
    <2>4. IsFiniteSet(vs) /\ Cardinality(vs) = n
      <3> HIDE DEF new
      <3> QED BY <2>2, <1>2, <1>4, FS_AddElement DEF k
    <2>5. {v.version : v \in vs} = 1 .. n
      <3>1. {v.version : v \in vs} = {v.version : v \in db.versions} \cup {n}
        BY <2>2
      <3>2. (1 .. k) \cup {n} = 1 .. n
        BY <1>3, <1>4
      <3> HIDE DEF vs
      <3> QED BY <3>1, <3>2, <1>2
    <2>6. \A v \in vs \ db.versions : v.graph = old.draft
      BY <2>2
    <2>7. db.versions \subseteq vs /\ w # None
      BY <2>2, Constants
    <2> HIDE DEF w, vs
    <2>8. /\ Tables(db') /\ db'.workflow = w /\ db'.versions = vs
          /\ db'.credentials = db.credentials /\ db'.res = db.res /\ db'.runs = db.runs
      BY <2>1, <2>2, <2>3, <1>2, VersionUpdate
    <2>9. NamesUnique' /\ CredentialsKept' /\ ServicesAreHttp'
      BY <2>8 DEF ControlInv, NamesUnique, CredentialsKept, credential_found, ServicesAreHttp
    <2>10. VersionsKeepWorkflow' /\ CurrentIsLatest'
      BY <2>2, <2>4, <2>5, <2>7, <2>8 DEF VersionsKeepWorkflow, CurrentIsLatest
    <2>11. ControlInv'
      BY <2>8, <2>9, <2>10, <1>5, CommitStep
    <2> QED BY <2>6, <2>7, <2>8, <2>11
  <1> QED BY <1>5, <1>6, <1>7

\* A Version that is ready gives rows that can be called.
LEMMA ReadyIsExecutable ==
    ASSUME ControlInv, NEW v \in db.versions,
           check_run_readiness(db, v.graph), validate_runner_targets(db, v.graph)
    PROVE  v \in WorkflowVersion /\ Executable(load_registry(db, v.graph), v.graph)
  <1> DEFINE g == v.graph
             rows == load_registry(db, g)
             found == {r \in g.refs : db.res[r] # None}
             context == registry_context(rows)
  <1>1. v \in WorkflowVersion /\ g \in Graph
    BY TableFacts DEF ControlInv, ControlTypeOK, WorkflowVersion
  <1>2. g.refs \subseteq Resource
    BY <1>1, ControlAssumption
  <1>3. DOMAIN rows = found /\ \A r \in found : rows[r] = db.res[r]
    BY DEF load_registry
  <1>4. DOMAIN context = found /\ \A r \in found : /\ context[r].enabled = rows[r].enabled
                                                   /\ context[r].connector = rows[r].connector
    BY <1>3 DEF registry_context
  <1>5. \A r \in g.refs : r \in DOMAIN context /\ context[r].enabled
    BY DEF check_run_readiness, validate_references, validate_agent, validate_service
  <1> HIDE DEF rows, context
  <1>6. found = g.refs
    BY <1>4, <1>5
  <1>7. ASSUME NEW r \in g.refs, rows[r].connector = "codex" PROVE rows[r].runner
    <2>1. r \in Agent
      BY <1>2, <1>3, <1>6, <1>7 DEF ControlInv, ServicesAreHttp
    <2> QED BY <2>1, <1>3, <1>6, <1>7 DEF validate_runner_targets
  <1>8. \A r \in g.refs : rows[r].enabled
    BY <1>3, <1>4, <1>5, <1>6
  <1> QED BY <1>1, <1>3, <1>6, <1>7, <1>8 DEF Executable, rows

\* The Runs are replaced, the other tables stay.
LEMMA RunUpdate ==
    ASSUME Tables(db), NEW v, \A u \in v : WorkflowRun(u), db' = [db EXCEPT !.runs = v]
    PROVE  /\ Tables(db') /\ db'.runs = v /\ db'.workflow = db.workflow /\ db'.versions = db.versions
           /\ db'.credentials = db.credentials /\ db'.res = db.res
  BY DEF Tables

\* A Run that is good to have.
RunFits(u) == [version |-> u.version, graph |-> u.graph] \in db.versions /\ Executable(u.snapshot, u.graph)

\* The commit of create_run: the rows are those of the snapshot it checked.
LEMMA RunCommit ==
    ASSUME ControlInv, NEW p \in Request, req[p].op = "create_run",
           Commit(p, "create_run", req[p].x \in db.versions,
                  [db EXCEPT !.runs = @ \cup {[version |-> req[p].x.version, graph |-> req[p].x.graph,
                      snapshot |-> build_execution_snapshot(load_registry(req[p].snap, req[p].x.graph))]}])
    PROVE  /\ ControlInv' /\ db'.versions = db.versions /\ db.runs \subseteq db'.runs
           /\ \A u \in db'.runs \ db.runs : RunFits(u)
  <1> DEFINE v == req[p].x
             rows == load_registry(req[p].snap, v.graph)
             run == [version |-> v.version, graph |-> v.graph, snapshot |-> rows]
             runs == db.runs \cup {run}
  <1>1. v \in WorkflowVersion /\ Tables(req[p].snap) /\ Executable(rows, v.graph)
    BY DEF ControlInv, Session
  <1>2. /\ req' = [req EXCEPT ![p] = Idle] /\ count' = count
        /\ db' = db \/ (v \in db.versions /\ db' = [db EXCEPT !.runs = runs])
    BY DEF Commit, build_execution_snapshot
  <1>3. CASE db' = db
    BY <1>2, <1>3, RefusedCommit
  <1>4. CASE v \in db.versions /\ db' = [db EXCEPT !.runs = runs]
    <2>0. run.version = v.version /\ run.graph = v.graph /\ run.snapshot = rows
      OBVIOUS
    <2>1. [version |-> v.version, graph |-> v.graph] = v
      <3> HIDE DEF v
      <3> QED BY <1>1 DEF WorkflowVersion
    <2>2. DOMAIN rows \subseteq Resource /\ \A r \in DOMAIN rows : rows[r] \in Row
      <3>1. v.graph.refs \subseteq Resource
        <4> HIDE DEF v
        <4> QED BY <1>1, ControlAssumption DEF WorkflowVersion
      <3>2. \A r \in Resource : req[p].snap.res[r] # None => req[p].snap.res[r] \in Row
        BY <1>1, TableFacts
      <3> QED BY <3>1, <3>2 DEF load_registry
    <2> HIDE DEF v, rows, run
    <2>3. WorkflowRun(run)
      BY <2>0, <2>1, <2>2, <1>1 DEF WorkflowRun
    <2>4. RunFits(run)
      BY <2>0, <2>1, <1>1, <1>4 DEF RunFits
    <2>5. Tables(db) /\ \A u \in runs : WorkflowRun(u)
      BY <2>3 DEF ControlInv, ControlTypeOK, Tables
    <2> HIDE DEF runs
    <2>6. /\ Tables(db') /\ db'.runs = runs /\ db'.workflow = db.workflow /\ db'.versions = db.versions
          /\ db'.credentials = db.credentials /\ db'.res = db.res
      BY <2>5, <1>4, RunUpdate
    <2>7. NamesUnique' /\ CredentialsKept' /\ ServicesAreHttp' /\ DefinitionsKept
      BY <2>6 DEF ControlInv, NamesUnique, CredentialsKept, credential_found, ServicesAreHttp, DefinitionsKept
    <2>8. ControlInv'
      BY <2>6, <2>7, <1>2, RegistryCommit
    <2> QED BY <2>4, <2>6, <2>8 DEF runs
  <1> QED BY <1>2, <1>3, <1>4

\* The Runner comes or goes.
LEMMA RunnerStep ==
    ASSUME ControlInv, runner_changes
    PROVE  Kept
  <1>1. Tables(db) /\ count \in 0 .. MaxRequests /\ count < MaxRequests
    BY DEF ControlInv, ControlTypeOK, runner_changes
  <1>2. db' = [db EXCEPT !.runner = ~db.runner] /\ req' = req /\ count' = count + 1
    BY DEF runner_changes
  <1>3. /\ Tables(db') /\ db'.res = db.res /\ db'.credentials = db.credentials /\ db'.workflow = db.workflow
        /\ db'.versions = db.versions /\ db'.runs = db.runs
    BY <1>1, <1>2 DEF Tables
  <1>4. ControlTypeOK'
    BY <1>1, <1>2, <1>3, Constants DEF ControlInv, ControlTypeOK
  <1>5. NamesUnique' /\ CredentialsKept' /\ ServicesAreHttp' /\ VersionsKeepWorkflow' /\ CurrentIsLatest'
    BY <1>3 DEF ControlInv, NamesUnique, CredentialsKept, credential_found, ServicesAreHttp, VersionsKeepWorkflow,
                CurrentIsLatest
  <1>6. VersionLocked' /\ \A p \in Request : Session(req'[p])
    BY <1>2, <1>3 DEF ControlInv, VersionLocked
  <1> QED BY <1>3, <1>4, <1>5, <1>6 DEF ControlInv, Kept

-----------------------------------------------------------------------------
(* The theorems.                                                            *)

\* What every step does to the tables.
LEMMA ControlStep ==
    ASSUME ControlInv, [Next]_vars
    PROVE  /\ ControlInv'
           /\ db.versions \subseteq db'.versions /\ db.runs \subseteq db'.runs
           /\ \A v \in db'.versions \ db.versions : v.graph = db.workflow.draft
           /\ \A u \in db'.runs \ db.runs : RunFits(u)
  <1> DEFINE Goal == /\ ControlInv'
                     /\ db.versions \subseteq db'.versions /\ db.runs \subseteq db'.runs
                     /\ \A v \in db'.versions \ db.versions : v.graph = db.workflow.draft
                     /\ \A u \in db'.runs \ db.runs : RunFits(u)
  <1>0. Kept => Goal
    BY DEF Kept
  <1> HIDE DEF Goal
  <1>1. ASSUME NEW p \in Request, Registry(p) PROVE Goal
    BY <1>0, <1>1, AgentSteps, ServiceSteps, ActionSteps, CredentialSteps DEF Registry
  <1>2. ASSUME NEW p \in Request, Definitions(p) PROVE Goal
    <2>1. CASE create_workflow(p) \/ update_workflow(p) \/ delete_workflow(p) \/ update_draft_graph(p)
      BY <2>1, <1>0, WorkflowSteps
    <2>2. CASE create_version(p)
      <3>1. CASE db.workflow # None /\ ~locked /\ Read(p, "create_version", None, None)
        <4>1. Session([op |-> "create_version", x |-> None, y |-> None, snap |-> db])
          BY DEF Session
        <4>2. ControlInv'
          BY <3>1, <4>1, ReadStep
        <4>3. db' = db
          BY <3>1 DEF Read
        <4> QED BY <4>2, <4>3 DEF Goal
      <3>2. CASE LET n == next_version(req[p].snap)
                     old == req[p].snap.workflow
                 IN  /\ req[p].op = "create_version"
                     /\ Commit(p, "create_version", \A v \in db.versions : v.version # n,
                               [db EXCEPT !.versions = @ \cup {[version |-> n, graph |-> old.draft]},
                                          !.workflow.current = n, !.workflow.status = "active"])
        <4>1. /\ ControlInv' /\ db'.runs = db.runs /\ db.versions \subseteq db'.versions
              /\ \A v \in db'.versions \ db.versions : v.graph = db.workflow.draft
          BY <3>2, VersionCommit
        <4> QED BY <4>1 DEF Goal
      <3> QED BY <2>2, <3>1, <3>2 DEF create_version
    <2>3. CASE create_run(p)
      <3>1. ASSUME NEW v \in db.versions, check_run_readiness(db, v.graph), validate_runner_targets(db, v.graph),
                   Read(p, "create_run", v, None)
            PROVE  Goal
        <4> DEFINE q == [op |-> "create_run", x |-> v, y |-> None, snap |-> db]
        <4>1. v \in WorkflowVersion /\ Executable(load_registry(db, v.graph), v.graph) /\ Tables(db)
          BY <3>1, ReadyIsExecutable DEF ControlInv, ControlTypeOK
        <4>2. Session(q)
          BY <4>1 DEF Session
        <4>3. Kept
          BY <3>1, <4>2, ReadKept
        <4> QED BY <4>3, <1>0
      <3>2. CASE LET v == req[p].x IN
                 /\ req[p].op = "create_run"
                 /\ Commit(p, "create_run", v \in db.versions,
                           [db EXCEPT !.runs = @ \cup {[version |-> v.version, graph |-> v.graph,
                               snapshot |-> build_execution_snapshot(load_registry(req[p].snap, v.graph))]}])
        <4>1. /\ ControlInv' /\ db'.versions = db.versions /\ db.runs \subseteq db'.runs
              /\ \A u \in db'.runs \ db.runs : RunFits(u)
          BY <3>2, RunCommit
        <4> QED BY <4>1 DEF Goal
      <3> QED BY <2>3, <3>1, <3>2 DEF create_run
    <2> QED BY <1>2, <2>1, <2>2, <2>3 DEF Definitions
  <1>3. ASSUME runner_changes PROVE Goal
    BY <1>0, <1>3, RunnerStep
  <1>4. ASSUME UNCHANGED vars PROVE Goal
    <2>1. db' = db /\ req' = req /\ count' = count
      BY <1>4 DEF vars
    <2>2. ControlInv'
      BY <2>1 DEF ControlInv, ControlTypeOK, NamesUnique, CredentialsKept, ServicesAreHttp, VersionsKeepWorkflow,
                  CurrentIsLatest, VersionLocked
    <2> QED BY <2>1, <2>2 DEF Goal
  <1>5. Goal
    BY <1>1, <1>2, <1>3, <1>4 DEF Next
  <1> QED BY <1>5 DEF Goal

(* However the requests interleave between what they read and what they      *)
(* commit, names are unique, credentials in use exist, a Version has its     *)
(* Workflow and Versions are numbered 1 .. n (registry, workflow services).  *)
THEOREM ControlSafe == Spec => []ControlInv
  <1>1. ControlInv /\ [Next]_vars => ControlInv'
    BY ControlStep
  <1> QED BY <1>1, InitInv, PTL DEF Spec

(* Every Run that create_run commits was made from a Version and has in its  *)
(* snapshot every row its graph names, enabled and with a Runner if it needs *)
(* one, whatever was changed or deleted at the same time.                    *)
THEOREM RunsExecutable == Spec => []RunIsExecutable
  <1>1. ControlInv /\ RunIsExecutable /\ [Next]_vars => RunIsExecutable'
    <2> SUFFICES ASSUME ControlInv, RunIsExecutable, [Next]_vars, NEW u \in db'.runs
                 PROVE  /\ [version |-> u.version, graph |-> u.graph] \in db'.versions
                        /\ Executable(u.snapshot, u.graph)
      BY DEF RunIsExecutable
    <2>1. db.versions \subseteq db'.versions /\ \A x \in db'.runs \ db.runs : RunFits(x)
      BY ControlStep
    <2>2. RunFits(u)
      BY <2>1 DEF RunIsExecutable, RunFits
    <2> QED BY <2>1, <2>2 DEF RunFits
  <1> QED BY <1>1, ControlSafe, InitInv, PTL DEF Spec

(* create_version freezes the draft it validated, and Versions and Runs are  *)
(* never changed afterwards.                                                 *)
THEOREM VersionsFrozen == Spec => VersionIsDraft
  <1>1. ControlInv /\ [Next]_vars =>
          [/\ \A v \in db'.versions \ db.versions : v.graph = db.workflow.draft
           /\ db.versions \subseteq db'.versions /\ db.runs \subseteq db'.runs]_vars
    BY ControlStep
  <1> QED BY <1>1, ControlSafe, PTL DEF Spec, VersionIsDraft
=============================================================================
