------------------------------ MODULE RunTrace ------------------------------
(***************************************************************************)
(* The durable trace of one Workflow Run (domain/runs/events.py), the      *)
(* transactions that append to it, and the stream that follows it          *)
(* (api/routes/trace.py).                                                  *)
(*                                                                         *)
(* Every state change inserts its events in its own transaction.  An       *)
(* operation of the queue locks its task and inserts; the insert draws the *)
(* auto-increment id and then, for the foreign key, waits for a shared     *)
(* lock on the Run.  An operation on the Run locks the Run exclusively,    *)
(* then the tasks it touches, and inserts.  The second transaction of an   *)
(* API request has loaded the Run before it locks it, and checks and       *)
(* writes the object it loaded.  An event is visible once its transaction  *)
(* commits, in whatever order that is.  A transaction that                 *)
(* InnoDB kills to break a deadlock is retried by the decorator of         *)
(* infrastructure/database/retry.py.                                       *)
(***************************************************************************)
EXTENDS Naturals, Sequences, FiniteSets, SequencesExt

CONSTANTS
    QueueOp,         \* operations of the queue: start, complete, fail, ... of one task each
    RunOp,           \* operations on the Run: reconciliations and API requests
    EndingOp,        \* the operation that ends the Run: its event is the terminal one
    EarlyReader,     \* the operations on the Run that load it before they lock it
    Touches,         \* the tasks an operation on the Run locks: all of them for a cancellation
    Attempts,        \* how often the decorator runs the transaction of each operation
    PageSize,        \* LIMIT of a poll (50 in the code)
    MaxDisconnects,  \* bound on dropped connections
    None

ASSUME TraceAssumption ==
    /\ QueueOp \cap RunOp = {}
    /\ EndingOp \in RunOp
    /\ EarlyReader \subseteq RunOp \ {EndingOp}
    /\ Touches \in [RunOp -> SUBSET QueueOp]
    /\ Attempts \in [QueueOp \cup RunOp -> Nat \ {0}]
    /\ PageSize \in Nat \ {0}
    /\ MaxDisconnects \in Nat
    /\ None \notin QueueOp \cup RunOp

Op == QueueOp \cup RunOp

VARIABLES
    run,      \* workflow_runs.status: "running" or "cancelled"
    runLock,  \* the exclusive lock on the Run: an operation or None
    shared,   \* the holders of a shared lock on the Run
    rowLock,  \* the lock on the task row of each queue operation
    nextId,   \* AUTO_INCREMENT of run_events
    tx,       \* the transaction of each operation: its step, attempt and inserted event
    events,   \* the committed rows of run_events
    stream,   \* the generator of the SSE stream: its cursor and the page in its hands
    client,   \* the ids the client received, in order
    drops

vars == <<run, runLock, shared, rowLock, nextId, tx, events, stream, client, drops>>

-----------------------------------------------------------------------------
RunEvent == [id: Nat, by: Op]

Transaction == [pc: {"idle", "loaded", "row", "wait", "inserted", "done", "refused", "raised"},
                attempt: Nat, id: Nat]

Generator == [pc: {"poll", "emit", "return", "closed"}, last_id: Nat, page: SUBSET Nat]

Init ==
    /\ run = "running"
    /\ runLock = None
    /\ shared = {}
    /\ rowLock = [t \in QueueOp |-> None]
    /\ nextId = 1
    /\ tx = [o \in Op |-> [pc |-> "idle", attempt |-> 1, id |-> 0]]
    /\ events = {}
    /\ stream = [pc |-> "poll", last_id |-> 0, page |-> {}]
    /\ client = <<>>
    /\ drops = 0

reader == <<stream, client, drops>>

-----------------------------------------------------------------------------
(* Appending events.                                                       *)

\* The tasks that the end of the Run cancelled.
Cancelled == IF tx[EndingOp].pc = "done" THEN Touches[EndingOp] ELSE {}

\* SELECT ... FOR UPDATE of the task row; a task that was cancelled with the Run
\* refuses the operation, which does not look at the Run itself.
lock_task(o) ==
    /\ tx[o].pc = "idle" /\ o \in QueueOp
    /\ rowLock[o] = None
    /\ IF o \notin Cancelled
       THEN rowLock' = [rowLock EXCEPT ![o] = o] /\ tx' = [tx EXCEPT ![o].pc = "row"]
       ELSE rowLock' = rowLock /\ tx' = [tx EXCEPT ![o].pc = "refused"]
    /\ UNCHANGED <<run, runLock, shared, nextId, events, reader>>

\* Defect: the operations on the Run read it without a lock.
lock_run_unlocked(o) ==
    /\ tx[o].pc = "idle" /\ o \in RunOp
    /\ run = "running"
    /\ tx' = [tx EXCEPT ![o].pc = "row"]
    /\ UNCHANGED <<run, runLock, shared, rowLock, nextId, events, reader>>

\* The reload of the Run at the begin of a second transaction, without a lock.
load_run(o) ==
    /\ tx[o].pc = "idle" /\ o \in EarlyReader
    /\ tx' = [tx EXCEPT ![o].pc = IF run = "running" THEN "loaded" ELSE "refused"]
    /\ UNCHANGED <<run, runLock, shared, rowLock, nextId, events, reader>>

\* SELECT ... FOR UPDATE of the Run; a Run that has ended is left alone, unless
\* the object in the identity map still shows it active.
lock_run(o) ==
    /\ o \in RunOp
    /\ tx[o].pc = IF o \in EarlyReader THEN "loaded" ELSE "idle"
    /\ runLock = None /\ shared \subseteq {o}
    /\ IF run = "running" \/ o \in EarlyReader
       THEN runLock' = o /\ tx' = [tx EXCEPT ![o].pc = "row"]
       ELSE runLock' = runLock /\ tx' = [tx EXCEPT ![o].pc = "refused"]
    /\ UNCHANGED <<run, shared, rowLock, nextId, events, reader>>

\* INSERT INTO run_events: the id is drawn when the statement starts.
insert(o) ==
    /\ nextId' = nextId + 1
    /\ tx' = [tx EXCEPT ![o] = [@ EXCEPT !.pc = IF o \in QueueOp THEN "wait" ELSE "inserted", !.id = nextId]]

\* Defect: the event is committed by itself, before the state change.
record_event_autocommit(o) ==
    /\ tx[o].pc = "row" /\ o \in QueueOp
    /\ insert(o)
    /\ events' = events \cup {[id |-> nextId, by |-> o]}
    /\ UNCHANGED <<run, runLock, shared, rowLock, reader>>

\* A queue operation inserts its event.
record_event(o) ==
    /\ tx[o].pc = "row" /\ o \in QueueOp
    /\ insert(o)
    /\ UNCHANGED <<run, runLock, shared, rowLock, events, reader>>

\* ... and the foreign key waits for a shared lock on the Run.
share_run(o) ==
    /\ tx[o].pc = "wait" /\ runLock = None
    /\ shared' = shared \cup {o}
    /\ tx' = [tx EXCEPT ![o].pc = "inserted"]
    /\ UNCHANGED <<run, runLock, rowLock, nextId, events, reader>>

\* An operation on the Run locks the task rows after the Run, then inserts.
record_run_event(o) ==
    /\ tx[o].pc = "row" /\ o \in RunOp
    /\ \A t \in Touches[o] : rowLock[t] = None
    /\ rowLock' = [t \in QueueOp |-> IF t \in Touches[o] THEN o ELSE rowLock[t]]
    /\ insert(o)
    /\ UNCHANGED <<run, runLock, shared, events, reader>>

Release(o) ==
    /\ runLock' = IF runLock = o THEN None ELSE runLock
    /\ shared' = shared \ {o}
    /\ rowLock' = [t \in QueueOp |-> IF rowLock[t] = o THEN None ELSE rowLock[t]]

\* COMMIT: the event becomes visible together with the state change.  A stale
\* transaction may write an active status over the end of the Run.
commit(o) ==
    /\ tx[o].pc = "inserted"
    /\ events' = events \cup {[id |-> tx[o].id, by |-> o]}
    /\ \/ run' = IF o = EndingOp THEN "cancelled" ELSE run
       \/ o \in EarlyReader /\ run' = "running"
    /\ tx' = [tx EXCEPT ![o].pc = "done"]
    /\ Release(o)
    /\ UNCHANGED <<nextId, reader>>

\* A queue operation holds the task row that an operation on the Run waits
\* for, and waits for the Run.
Deadlocked(q, r) ==
    /\ q \in QueueOp /\ r \in RunOp
    /\ tx[q].pc = "wait" /\ runLock = r
    /\ tx[r].pc = "row" /\ q \in Touches[r] /\ rowLock[q] = q

\* Defect: the transaction is tried again without a rollback.
rollback_sessions_kept(o) == UNCHANGED <<runLock, shared, rowLock>>

\* Error 1213 rolls the transaction back, and with it its locks.
rollback_sessions(o) == Release(o)

\* The decorator runs the operation again, or raises after the last attempt.
retry_mysql_transaction(o) ==
    tx' = [tx EXCEPT ![o] = IF tx[o].attempt < Attempts[o]
                            THEN [pc |-> "idle", attempt |-> @.attempt + 1, id |-> 0]
                            ELSE [@ EXCEPT !.pc = "raised", !.id = 0]]

\* InnoDB kills one of the two.
deadlock_victim(o) ==
    /\ \E p \in Op : Deadlocked(o, p) \/ Deadlocked(p, o)
    /\ retry_mysql_transaction(o)
    /\ rollback_sessions(o)
    /\ UNCHANGED <<run, nextId, events, reader>>

-----------------------------------------------------------------------------
(* Following the trace.                                                    *)

\* WHERE id > last_id ...
after(last_id) == {e.id : e \in {x \in events : x.id > last_id}}

\* ... ORDER BY id LIMIT PageSize.
get_run_events(last_id) ==
    LET ids == after(last_id) IN {i \in ids : Cardinality({j \in ids : j < i}) < PageSize}

\* Defect: the stream of an ended Run stops after one page.
stream_poll_once ==
    /\ stream.pc = "poll"
    /\ LET page == get_run_events(stream.last_id) IN
       stream' = [stream EXCEPT !.page = page,
                                !.pc = IF run = "cancelled" THEN "return" ELSE IF page # {} THEN "emit" ELSE "poll"]
    /\ UNCHANGED <<run, runLock, shared, rowLock, nextId, tx, events, client, drops>>

\* One session, one snapshot: the events after the cursor and whether the Run
\* has ended.  Without events the generator returns, or sleeps and polls again.
stream_run_events ==
    /\ stream.pc = "poll"
    /\ LET page == get_run_events(stream.last_id)
           run_terminal == run = "cancelled"
       IN  stream' = [stream EXCEPT !.page = page,
                                    !.pc = IF page # {} THEN "emit" ELSE IF run_terminal THEN "return" ELSE "poll"]
    /\ UNCHANGED <<run, runLock, shared, rowLock, nextId, tx, events, client, drops>>

\* One frame: the cursor moves with the event that was sent.
stream_emit ==
    /\ stream.pc = "emit"
    /\ LET id == Min(stream.page) IN
       /\ client' = Append(client, id)
       /\ stream' = [stream EXCEPT !.last_id = id, !.page = @ \ {id},
                                   !.pc = IF stream.page = {id} THEN "poll" ELSE "emit"]
    /\ UNCHANGED <<run, runLock, shared, rowLock, nextId, tx, events, drops>>

\* The connection is lost, with the frame that was under way.
disconnect ==
    /\ stream.pc \in {"poll", "emit"} /\ drops < MaxDisconnects
    /\ drops' = drops + 1
    /\ stream' = [stream EXCEPT !.pc = "closed", !.page = {}]
    /\ UNCHANGED <<run, runLock, shared, rowLock, nextId, tx, events, client>>

\* The EventSource comes back with the id of the last frame it received.
parse_last_event_id == IF client = <<>> THEN 0 ELSE Last(client)

reconnect ==
    /\ stream.pc = "closed"
    /\ stream' = [stream EXCEPT !.pc = "poll", !.last_id = parse_last_event_id]
    /\ UNCHANGED <<run, runLock, shared, rowLock, nextId, tx, events, client, drops>>

-----------------------------------------------------------------------------
Write(o) ==
    \/ lock_task(o) \/ load_run(o) \/ lock_run(o)
    \/ record_event(o) \/ share_run(o) \/ record_run_event(o)
    \/ commit(o)
    \/ deadlock_victim(o)

Follow == stream_run_events \/ stream_emit \/ reconnect

Next == (\E o \in Op : Write(o)) \/ Follow \/ disconnect

Spec == Init /\ [][Next]_vars

\* Lock waits are served, InnoDB resolves deadlocks, the generator polls and
\* the EventSource reconnects.
FairSpec == Spec /\ (\A o \in Op : WF_vars(Write(o))) /\ WF_vars(Follow)

-----------------------------------------------------------------------------
received == ToSet(client)

\* Types of the rows, locks, transactions and of the generator.
TraceTypeOK ==
    /\ run \in {"running", "cancelled"}
    /\ runLock \in RunOp \cup {None}
    /\ shared \subseteq QueueOp
    /\ rowLock \in [QueueOp -> Op \cup {None}]
    /\ nextId \in Nat \ {0}
    /\ tx \in [Op -> Transaction]
    /\ events \subseteq RunEvent
    /\ stream \in Generator
    /\ client \in Seq(Nat)
    /\ drops \in 0 .. MaxDisconnects

(* An operation that is tried again after a deadlock still records its     *)
(* event once, and one that raised records none: no attempt leaves an      *)
(* event behind.                                                           *)
RecordedOnce ==
    \A o \in Op :
        LET mine == {e \in events : e.by = o} IN
        /\ Cardinality(mine) <= 1
        /\ tx[o].pc # "done" => mine = {}
        /\ tx[o].pc = "done" => mine # {}

(* The client sees ids grow and no id twice, across polls, pages and       *)
(* reconnections with Last-Event-ID.                                       *)
InOrderOnce ==
    \A i, j \in 1 .. Len(client) : i < j => client[i] < client[j]

(* An event of an operation on the Run is never skipped: the stream does   *)
(* not pass its id without delivering it, because the exclusive lock on    *)
(* the Run keeps later ids from becoming visible first.                    *)
RunEventsNotSkipped ==
    \A e \in events : e.by \in RunOp /\ e.id <= stream.last_id => e.id \in received

\* The event of a stale transaction that committed after the Run had ended.
Overtaken(x) == x.by \in EarlyReader /\ \E y \in events : y.by = EndingOp /\ y.id < x.id

(* A stream that returned has delivered the event that ended the Run and   *)
(* every event of an operation on the Run up to the first one, if any, of  *)
(* a stale transaction that was committed after the end: the status and    *)
(* the events of a poll come from one snapshot, and only such a            *)
(* transaction gives an ended Run further events of that kind.             *)
EndsWithLastStatus ==
    stream.pc = "return" =>
        /\ \E e \in events : e.by = EndingOp /\ e.id \in received
        /\ \A e \in events : e.by \in RunOp /\ e.id \notin received =>
              \E x \in events : Overtaken(x) /\ x.id <= e.id

(* The committed rows are those of the operations that are done, each with *)
(* the id it drew.  The Run ends with its ending operation, and is active   *)
(* again only when a stale transaction was committed after that.           *)
CommittedRows ==
    /\ events = {[id |-> tx[o].id, by |-> o] : o \in {x \in Op : tx[x].pc = "done"}}
    /\ \A o \in Op : tx[o].id < nextId /\ (tx[o].pc \in {"wait", "inserted"} => tx[o].id > 0)
    /\ run = "cancelled" => tx[EndingOp].pc = "done"
    /\ run = "running" /\ tx[EndingOp].pc = "done" => \E x \in events : Overtaken(x)

(* Who holds the Run: an operation on it exclusively, from its first read  *)
(* on, a queue operation shared, from its insert on; never both.  Only a   *)
(* stale transaction works on a Run that has ended.                        *)
RunLockHeld ==
    /\ runLock # None => shared = {}
    /\ run = "cancelled" => \A o \in RunOp \ EarlyReader : tx[o].pc \notin {"row", "inserted"}
    /\ \A o \in RunOp : tx[o].pc # "wait" /\ (tx[o].pc \in {"row", "inserted"} => runLock = o)
    /\ \A o \in QueueOp : tx[o].pc = "inserted" => o \in shared

(* While an operation on the Run holds an id, no later id is visible.      *)
RunIdIsNewest ==
    \A o \in RunOp, e \in events : tx[o].pc = "inserted" => e.id < tx[o].id

(* The cursor is the last id delivered, the page lies after it, and no     *)
(* event of the Run between the cursor and an id of the page is missing    *)
(* from the page.                                                          *)
CursorFits ==
    /\ stream.last_id = parse_last_event_id
    /\ received \cup stream.page \subseteq {e.id : e \in events}
    /\ \A i \in stream.page : i > stream.last_id
    /\ stream.pc = "emit" <=> stream.page # {}
    /\ \A e \in events, i \in stream.page :
          e.by \in RunOp /\ stream.last_id < e.id /\ e.id < i => e.id \in stream.page

(* The rows, locks and transactions are well formed; the stream delivers   *)
(* in order, once, never skips an event of the Run and never returns       *)
(* before the one that ended it.                                           *)
TraceInv ==
    /\ TraceTypeOK /\ CommittedRows /\ RunLockHeld /\ RunIdIsNewest
    /\ CursorFits /\ InOrderOnce /\ RunEventsNotSkipped /\ EndsWithLastStatus

(* No operation waits for ever: with deadlocks broken by the database and  *)
(* the attempts of the decorator, every operation commits, is refused or   *)
(* raises.                                                                 *)
OperationsEnd == \A o \in Op : <>(tx[o].pc \in {"done", "refused", "raised"})

\* The stream of a Run that has ended returns, also after reconnections, and not
\* before it has delivered the event that ended the Run, unless a stale
\* transaction makes the Run active again.
StreamEnds ==
    (run = "cancelled") ~> ((stream.pc = "return" /\ EndsWithLastStatus) \/ run = "running")

(* "All events emitted; the durable Trace is complete." (trace.py:113):    *)
(* a stream that returned has delivered every event of the trace.          *)
StreamIsComplete ==
    stream.pc = "return" => \A e \in events : e.id \in received
=============================================================================
