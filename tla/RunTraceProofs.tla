--------------------------- MODULE RunTraceProofs ---------------------------
(* Proofs about RunTrace: an operation that is tried again records its       *)
(* event once, and the stream delivers in order, without a repetition and    *)
(* without missing an event of the Run, for every set of operations, number  *)
(* of attempts, page size and number of lost connections.                    *)
EXTENDS RunTrace, FiniteSetTheorems, SequenceTheorems, TLAPS

\* What the proofs need of the constants.
LEMMA Constants ==
    /\ QueueOp \cap RunOp = {} /\ EndingOp \in RunOp /\ EndingOp \in Op
    /\ QueueOp \subseteq Op /\ RunOp \subseteq Op /\ None \notin Op
    /\ PageSize \in Nat \ {0} /\ MaxDisconnects \in Nat
    /\ \A o \in RunOp : Touches[o] \subseteq QueueOp
    /\ EarlyReader \subseteq RunOp /\ EndingOp \notin EarlyReader
  BY TraceAssumption DEF Op

-----------------------------------------------------------------------------
(* Sets of numbers and sequences of numbers.                                *)

\* A set of numbers that is not empty has a least element.
LEMMA MinOfNat ==
    ASSUME NEW S \in SUBSET Nat, S # {}
    PROVE  Min(S) \in S /\ \A y \in S : Min(S) <= y
  <1> DEFINE R == {ss \in Nat \X Nat : ss[1] < ss[2]}
  <1>0. IsWellFoundedOn(R, Nat)
    BY NatLessThanWellFounded, Zenon DEF OpToRel
  <1>1. \E x \in S : \A y \in S : ~(<<y, x>> \in R)
    <2> HIDE DEF R
    <2> QED BY <1>0, WFMin
  <1>2. \E x \in S : \A y \in S : x <= y
    <2>1. PICK x \in S : \A y \in S : ~(<<y, x>> \in R)
      BY <1>1
    <2>2. ASSUME NEW y \in S PROVE x <= y
      <3>1. x \in Nat /\ y \in Nat
        OBVIOUS
      <3>2. ~(<<y, x>>[1] < <<y, x>>[2])
        BY <2>1, <3>1
      <3> QED BY <3>1, <3>2
    <2> QED BY <2>2
  <1> QED BY <1>2 DEF Min

\* What the client has after one more frame.
LEMMA Appended ==
    ASSUME NEW s \in Seq(Nat), NEW i \in Nat
    PROVE  /\ Append(s, i) \in Seq(Nat) /\ Append(s, i) # << >>
           /\ Len(Append(s, i)) = Len(s) + 1 /\ Last(Append(s, i)) = i
           /\ \A k \in 1 .. Len(s) : Append(s, i)[k] = s[k]
           /\ ToSet(Append(s, i)) = ToSet(s) \cup {i}
  <1>1. /\ Append(s, i) \in Seq(Nat) /\ Append(s, i) # << >>
        /\ Len(Append(s, i)) = Len(s) + 1 /\ Append(s, i)[Len(s) + 1] = i
        /\ \A k \in 1 .. Len(s) : Append(s, i)[k] = s[k]
    BY AppendProperties
  <1>2. DOMAIN s = 1 .. Len(s) /\ DOMAIN Append(s, i) = 1 .. Len(s) + 1
    BY <1>1
  <1>3. ToSet(Append(s, i)) \subseteq ToSet(s) \cup {i}
    <2> SUFFICES ASSUME NEW k \in 1 .. Len(s) + 1 PROVE Append(s, i)[k] \in ToSet(s) \cup {i}
      BY <1>2 DEF ToSet
    <2>1. CASE k \in 1 .. Len(s)
      BY <2>1, <1>1, <1>2 DEF ToSet
    <2>2. CASE k = Len(s) + 1
      BY <2>2, <1>1
    <2> QED BY <2>1, <2>2
  <1>4. ToSet(s) \cup {i} \subseteq ToSet(Append(s, i))
    <2>1. \A k \in 1 .. Len(s) : s[k] \in ToSet(Append(s, i))
      BY <1>1, <1>2 DEF ToSet
    <2>2. i \in ToSet(Append(s, i))
      <3>1. Len(s) + 1 \in DOMAIN Append(s, i)
        BY <1>2
      <3> QED BY <3>1, <1>1 DEF ToSet
    <2> QED BY <2>1, <2>2, <1>2 DEF ToSet
  <1> QED BY <1>1, <1>3, <1>4 DEF Last

\* A page is a prefix of the ids after the cursor, and is empty only when there
\* are none.
LEMMA PageIsPrefix ==
    ASSUME NEW last_id \in Nat, IsFiniteSet(after(last_id)), after(last_id) \subseteq Nat
    PROVE  LET page == get_run_events(last_id) IN
           /\ page \subseteq after(last_id)
           /\ \A i \in page, j \in after(last_id) : j < i => j \in page
           /\ page = {} => after(last_id) = {}
  <1> DEFINE ids == after(last_id)
             below(i) == {j \in ids : j < i}
  <1> HIDE DEF ids
  <1>0. IsFiniteSet(ids) /\ ids \in SUBSET Nat /\ PageSize \in Nat \ {0}
    BY Constants DEF ids
  <1>1. get_run_events(last_id) = {i \in ids : Cardinality(below(i)) < PageSize}
    BY DEF get_run_events, ids
  <1>2. ASSUME NEW i \in ids, NEW j \in ids, j < i, Cardinality(below(i)) < PageSize
        PROVE  Cardinality(below(j)) < PageSize
    <2>1. IsFiniteSet(below(i)) /\ below(j) \in SUBSET below(i)
      <3>1. below(i) \in SUBSET ids
        OBVIOUS
      <3>2. IsFiniteSet(below(i))
        BY <3>1, <1>0, FS_Subset
      <3>3. ASSUME NEW k \in below(j) PROVE k \in below(i)
        BY <3>3, <1>0, <1>2
      <3> QED BY <3>2, <3>3
    <2> HIDE DEF below
    <2>2. Cardinality(below(j)) <= Cardinality(below(i)) /\ IsFiniteSet(below(j))
      BY <2>1, FS_Subset
    <2>3. Cardinality(below(j)) \in Nat /\ Cardinality(below(i)) \in Nat
      BY <2>1, <2>2, FS_CardinalityType
    <2> QED BY <2>2, <2>3, <1>2, <1>0
  <1>3. ASSUME ids # {} PROVE \E i \in ids : Cardinality(below(i)) < PageSize
    <2>1. Min(ids) \in ids /\ \A y \in ids : Min(ids) <= y
      BY <1>0, <1>3, MinOfNat
    <2>2. ASSUME NEW k \in below(Min(ids)) PROVE FALSE
      <3> DEFINE m == Min(ids)
      <3>1. m \in Nat /\ k \in Nat /\ k < m /\ m <= k
        BY <2>1, <1>0
      <3> HIDE DEF m
      <3> QED BY <3>1
    <2>3. below(Min(ids)) = {}
      BY <2>2
    <2>4. Cardinality(below(Min(ids))) < PageSize
      <3> HIDE DEF below
      <3> QED BY <2>3, <1>0, FS_EmptySet
    <2> QED BY <2>1, <2>4
  <1> QED BY <1>1, <1>2, <1>3 DEF ids

-----------------------------------------------------------------------------
(* The initial state.                                                       *)

\* Nothing is recorded, held or delivered.
LEMMA InitInv == Init => TraceInv
  <1> SUFFICES ASSUME Init PROVE TraceInv
    OBVIOUS
  <1> USE Constants DEF Init
  <1>1. TraceTypeOK
    BY DEF TraceTypeOK, Transaction, Generator, RunEvent
  <1>2. CommittedRows
    <2>1. {x \in Op : tx[x].pc = "done"} = {}
      OBVIOUS
    <2> QED BY <2>1 DEF CommittedRows
  <1>3. RunLockHeld /\ RunIdIsNewest
    BY DEF RunLockHeld, RunIdIsNewest
  <1>4. received = {}
    BY DEF received, ToSet
  <1>5. CursorFits /\ RunEventsNotSkipped /\ EndsWithLastStatus
    BY <1>4 DEF CursorFits, RunEventsNotSkipped, EndsWithLastStatus, parse_last_event_id
  <1>6. InOrderOnce
    BY DEF InOrderOnce
  <1> QED BY <1>1, <1>2, <1>3, <1>5, <1>6 DEF TraceInv

-----------------------------------------------------------------------------
(* Steps of the operations.                                                 *)

Pcs == {"idle", "loaded", "row", "wait", "inserted", "done", "refused", "raised"}

\* An operation that takes its next step keeps its attempt and its id, and no
\* other operation moves.
LEMMA PcMoves ==
    ASSUME TraceTypeOK, NEW o \in Op, NEW p \in Pcs, tx' = [tx EXCEPT ![o].pc = p]
    PROVE  /\ tx' \in [Op -> Transaction]
           /\ tx'[o].pc = p /\ tx'[o].id = tx[o].id
           /\ \A x \in Op \ {o} : tx'[x] = tx[x]
  <1>1. tx \in [Op -> Transaction]
    BY DEF TraceTypeOK
  <1>2. /\ [tx[o] EXCEPT !.pc = p] \in Transaction
        /\ [tx[o] EXCEPT !.pc = p].pc = p /\ [tx[o] EXCEPT !.pc = p].id = tx[o].id
    <2>1. tx[o] \in Transaction
      BY <1>1
    <2> QED BY <2>1 DEF Transaction, Pcs
  <1> QED BY <1>1, <1>2

\* The insert draws the next id.
LEMMA InsertMoves ==
    ASSUME TraceTypeOK, NEW o \in Op, insert(o)
    PROVE  /\ tx' \in [Op -> Transaction]
           /\ o \in QueueOp => tx'[o].pc = "wait"
           /\ o \notin QueueOp => tx'[o].pc = "inserted"
           /\ tx'[o].id = nextId /\ nextId' = nextId + 1
           /\ \A x \in Op \ {o} : tx'[x] = tx[x]
  <1> DEFINE p == IF o \in QueueOp THEN "wait" ELSE "inserted"
             new == [tx[o] EXCEPT !.pc = p, !.id = nextId]
  <1>1. tx \in [Op -> Transaction] /\ nextId \in Nat
    BY DEF TraceTypeOK
  <1>2. tx' = [tx EXCEPT ![o] = new] /\ nextId' = nextId + 1
    BY <1>1 DEF insert
  <1>3. new \in Transaction /\ new.pc = p /\ new.id = nextId
    <2>1. tx[o] \in Transaction
      BY <1>1
    <2> QED BY <2>1, <1>1 DEF Transaction
  <1> HIDE DEF new
  <1> QED BY <1>1, <1>2, <1>3

\* A step that neither enters nor leaves "done" leaves the committed rows to
\* the operations that are done.
LEMMA RowsFrame ==
    ASSUME TraceInv, NEW o \in Op, tx[o].pc # "done", tx'[o].pc # "done",
           tx' \in [Op -> Transaction], \A x \in Op \ {o} : tx'[x] = tx[x],
           events' = events, run' = run, nextId' \in {nextId, nextId + 1},
           tx'[o].id < nextId', tx'[o].pc \in {"wait", "inserted"} => tx'[o].id > 0
    PROVE  CommittedRows'
  <1>1. TraceTypeOK /\ CommittedRows
    BY DEF TraceInv
  <1>2. {x \in Op : tx'[x].pc = "done"} = {x \in Op : tx[x].pc = "done"}
    OBVIOUS
  <1>3. {[id |-> tx'[x].id, by |-> x] : x \in {y \in Op : tx'[y].pc = "done"}}
          = {[id |-> tx[x].id, by |-> x] : x \in {y \in Op : tx[y].pc = "done"}}
    OBVIOUS
  <1>4. events' = {[id |-> tx'[x].id, by |-> x] : x \in {y \in Op : tx'[y].pc = "done"}}
    BY <1>3, <1>1 DEF CommittedRows
  <1>5. ASSUME NEW x \in Op PROVE tx'[x].id < nextId' /\ (tx'[x].pc \in {"wait", "inserted"} => tx'[x].id > 0)
    <2>1. nextId \in Nat /\ tx[x] \in Transaction
      BY <1>1 DEF TraceTypeOK
    <2>2. tx[x].id \in Nat
      BY <2>1 DEF Transaction
    <2>3. CASE x = o
      BY <2>3
    <2>4. CASE x # o
      BY <2>1, <2>2, <2>4, <1>1 DEF CommittedRows
    <2> QED BY <2>3, <2>4
  <1>6. tx'[EndingOp].pc = "done" <=> tx[EndingOp].pc = "done"
    BY Constants
  <1>7. /\ run' = "cancelled" => tx'[EndingOp].pc = "done"
        /\ run' = "running" /\ tx'[EndingOp].pc = "done" => (\E x \in events : Overtaken(x))'
    BY <1>1, <1>6 DEF CommittedRows, Overtaken
  <1> QED BY <1>4, <1>5, <1>7 DEF CommittedRows

\* Who reads the trace does not notice a step that commits nothing.
LEMMA ReaderFrame ==
    ASSUME TraceInv, UNCHANGED <<events, reader>>
    PROVE  CursorFits' /\ InOrderOnce' /\ RunEventsNotSkipped' /\ EndsWithLastStatus'
  BY DEF TraceInv, reader, CursorFits, InOrderOnce, RunEventsNotSkipped, EndsWithLastStatus, Overtaken,
         received, parse_last_event_id

\* What TraceInv says of the operations before a step.
LEMMA OperationFacts ==
    ASSUME TraceInv
    PROVE  /\ TraceTypeOK /\ tx \in [Op -> Transaction] /\ nextId \in Nat \ {0} /\ shared \subseteq QueueOp
           /\ \A x \in Op : tx[x].id \in Nat /\ tx[x].id < nextId /\ tx[x].pc \in Pcs
           /\ \A e \in events : e.id \in Nat /\ e.id < nextId /\ e.by \in Op
           /\ runLock # None => shared = {}
           /\ run = "cancelled" => \A x \in RunOp \ EarlyReader : tx[x].pc \notin {"row", "inserted"}
           /\ \A x \in RunOp : tx[x].pc # "wait" /\ (tx[x].pc \in {"row", "inserted"} => runLock = x)
           /\ \A x \in QueueOp : tx[x].pc = "inserted" => x \in shared
           /\ \A x \in RunOp, e \in events : tx[x].pc = "inserted" => e.id < tx[x].id
  <1>1. TraceTypeOK /\ tx \in [Op -> Transaction] /\ nextId \in Nat \ {0} /\ shared \subseteq QueueOp
    BY DEF TraceInv, TraceTypeOK
  <1>2. \A x \in Op : tx[x].id \in Nat /\ tx[x].id < nextId /\ tx[x].pc \in Pcs
    BY <1>1 DEF TraceInv, CommittedRows, Transaction, Pcs
  <1>3. \A e \in events : e.id \in Nat /\ e.id < nextId /\ e.by \in Op
    <2> SUFFICES ASSUME NEW e \in events PROVE e.id \in Nat /\ e.id < nextId /\ e.by \in Op
      OBVIOUS
    <2>1. PICK x \in Op : e = [id |-> tx[x].id, by |-> x]
      BY DEF TraceInv, CommittedRows
    <2> QED BY <2>1, <1>2
  <1> QED BY <1>1, <1>2, <1>3 DEF TraceInv, RunLockHeld, RunIdIsNewest

\* A queue operation locks its task, or finds it cancelled.
LEMMA LockTask == ASSUME TraceInv, NEW o \in Op, lock_task(o) PROVE TraceInv'
  <1> DEFINE p == IF o \notin Cancelled THEN "row" ELSE "refused"
  <1>0. o \in QueueOp /\ tx[o].pc = "idle" /\ o \notin RunOp
    BY Constants DEF lock_task
  <1>1. tx' = [tx EXCEPT ![o].pc = p] /\ UNCHANGED <<run, runLock, shared, nextId, events, reader>>
    BY DEF lock_task
  <1>2. rowLock' \in [QueueOp -> Op \cup {None}]
    BY <1>0, Constants, OperationFacts DEF lock_task, TraceTypeOK
  <1>3. /\ tx' \in [Op -> Transaction] /\ tx'[o].pc = p /\ tx'[o].id = tx[o].id
        /\ \A x \in Op \ {o} : tx'[x] = tx[x]
    BY <1>1, PcMoves, OperationFacts DEF Pcs
  <1>4. TraceTypeOK'
    BY <1>1, <1>2, <1>3, OperationFacts DEF TraceTypeOK, reader
  <1>5. CommittedRows'
    <2>1. tx'[o].id < nextId' /\ tx'[o].pc # "done" /\ tx'[o].pc \notin {"wait", "inserted"}
      BY <1>1, <1>3, OperationFacts
    <2> QED BY <2>1, <1>0, <1>1, <1>3, RowsFrame
  <1>6. RunLockHeld'
    BY <1>0, <1>1, <1>3, OperationFacts, Constants DEF RunLockHeld
  <1>7. RunIdIsNewest'
    BY <1>0, <1>1, <1>3, OperationFacts, Constants DEF RunIdIsNewest
  <1> QED BY <1>1, <1>4, <1>5, <1>6, <1>7, ReaderFrame DEF TraceInv

\* A second transaction loads the Run, or finds it ended.
LEMMA LoadRun == ASSUME TraceInv, NEW o \in Op, load_run(o) PROVE TraceInv'
  <1> DEFINE p == IF run = "running" THEN "loaded" ELSE "refused"
  <1>0. o \in RunOp /\ tx[o].pc = "idle" /\ o \notin QueueOp
    BY Constants DEF load_run
  <1>1. tx' = [tx EXCEPT ![o].pc = p] /\ UNCHANGED <<run, runLock, rowLock, shared, nextId, events, reader>>
    BY DEF load_run
  <1>3. /\ tx' \in [Op -> Transaction] /\ tx'[o].pc = p /\ tx'[o].id = tx[o].id
        /\ \A x \in Op \ {o} : tx'[x] = tx[x]
    BY <1>1, PcMoves, OperationFacts DEF Pcs
  <1>4. TraceTypeOK'
    BY <1>1, <1>3, OperationFacts DEF TraceTypeOK, reader
  <1>5. CommittedRows'
    <2>1. tx'[o].id < nextId' /\ tx'[o].pc # "done" /\ tx'[o].pc \notin {"wait", "inserted"}
      BY <1>1, <1>3, OperationFacts
    <2> QED BY <2>1, <1>0, <1>1, <1>3, RowsFrame
  <1>6. RunLockHeld'
    BY <1>0, <1>1, <1>3, OperationFacts, Constants DEF RunLockHeld
  <1>7. RunIdIsNewest'
    BY <1>0, <1>1, <1>3, OperationFacts, Constants DEF RunIdIsNewest
  <1> QED BY <1>1, <1>4, <1>5, <1>6, <1>7, ReaderFrame DEF TraceInv

\* An operation on the Run locks it; only a stale one passes the end of the Run.
LEMMA LockRun == ASSUME TraceInv, NEW o \in Op, lock_run(o) PROVE TraceInv'
  <1> DEFINE p == IF run = "running" \/ o \in EarlyReader THEN "row" ELSE "refused"
  <1>0. o \in RunOp /\ tx[o].pc \in {"idle", "loaded"} /\ o \notin QueueOp /\ runLock = None /\ shared = {}
    BY Constants, OperationFacts DEF lock_run
  <1>1. tx' = [tx EXCEPT ![o].pc = p] /\ UNCHANGED <<run, rowLock, shared, nextId, events, reader>>
    BY DEF lock_run
  <1>2. runLock' = (IF run = "running" \/ o \in EarlyReader THEN o ELSE None)
    BY <1>0 DEF lock_run
  <1>3. /\ tx' \in [Op -> Transaction] /\ tx'[o].pc = p /\ tx'[o].id = tx[o].id
        /\ \A x \in Op \ {o} : tx'[x] = tx[x]
    BY <1>1, PcMoves, OperationFacts DEF Pcs
  <1>4. TraceTypeOK'
    BY <1>0, <1>1, <1>2, <1>3, OperationFacts DEF TraceTypeOK, reader
  <1>5. CommittedRows'
    <2>1. tx'[o].id < nextId' /\ tx'[o].pc # "done" /\ tx'[o].pc \notin {"wait", "inserted"}
      BY <1>1, <1>3, OperationFacts
    <2> QED BY <2>1, <1>0, <1>1, <1>3, RowsFrame
  <1>6. RunLockHeld'
    BY <1>0, <1>1, <1>2, <1>3, OperationFacts, Constants DEF RunLockHeld
  <1>7. RunIdIsNewest'
    BY <1>0, <1>1, <1>3, OperationFacts, Constants DEF RunIdIsNewest
  <1> QED BY <1>1, <1>4, <1>5, <1>6, <1>7, ReaderFrame DEF TraceInv

\* A queue operation draws its id; nobody sees it yet.
LEMMA RecordEvent == ASSUME TraceInv, NEW o \in Op, record_event(o) PROVE TraceInv'
  <1>0. o \in QueueOp /\ tx[o].pc = "row" /\ o \notin RunOp
    BY Constants DEF record_event
  <1>1. insert(o) /\ UNCHANGED <<run, runLock, shared, rowLock, events, reader>>
    BY DEF record_event
  <1>2. /\ tx' \in [Op -> Transaction] /\ tx'[o].pc = "wait" /\ tx'[o].id = nextId /\ nextId' = nextId + 1
        /\ \A x \in Op \ {o} : tx'[x] = tx[x]
    BY <1>0, <1>1, InsertMoves, OperationFacts
  <1>3. TraceTypeOK'
    BY <1>1, <1>2, OperationFacts DEF TraceTypeOK, reader
  <1>4. CommittedRows'
    <2>1. tx'[o].id < nextId' /\ tx'[o].pc # "done" /\ tx'[o].id > 0
      BY <1>2, OperationFacts
    <2> QED BY <2>1, <1>0, <1>1, <1>2, RowsFrame
  <1>5. RunLockHeld'
    BY <1>0, <1>1, <1>2, OperationFacts, Constants DEF RunLockHeld
  <1>6. RunIdIsNewest'
    BY <1>0, <1>1, <1>2, OperationFacts, Constants DEF RunIdIsNewest
  <1> QED BY <1>1, <1>3, <1>4, <1>5, <1>6, ReaderFrame DEF TraceInv

\* The foreign key shares the Run with other queue operations only.
LEMMA ShareRun == ASSUME TraceInv, NEW o \in Op, share_run(o) PROVE TraceInv'
  <1>0. o \in QueueOp /\ tx[o].pc = "wait" /\ o \notin RunOp /\ runLock = None
    BY Constants, OperationFacts DEF share_run, Op
  <1>1. /\ tx' = [tx EXCEPT ![o].pc = "inserted"] /\ shared' = shared \cup {o}
        /\ UNCHANGED <<run, runLock, rowLock, nextId, events, reader>>
    BY DEF share_run
  <1>3. /\ tx' \in [Op -> Transaction] /\ tx'[o].pc = "inserted" /\ tx'[o].id = tx[o].id
        /\ \A x \in Op \ {o} : tx'[x] = tx[x]
    BY <1>1, PcMoves, OperationFacts DEF Pcs
  <1>4. TraceTypeOK'
    BY <1>0, <1>1, <1>3, OperationFacts DEF TraceTypeOK, reader
  <1>5. CommittedRows'
    <2>1. tx'[o].id < nextId' /\ tx'[o].pc # "done" /\ tx'[o].id > 0
      BY <1>0, <1>1, <1>3, OperationFacts DEF TraceInv, CommittedRows
    <2> QED BY <2>1, <1>0, <1>1, <1>3, RowsFrame
  <1>6. RunLockHeld'
    BY <1>0, <1>1, <1>3, OperationFacts, Constants DEF RunLockHeld
  <1>7. RunIdIsNewest'
    BY <1>0, <1>1, <1>3, OperationFacts, Constants DEF RunIdIsNewest
  <1> QED BY <1>1, <1>4, <1>5, <1>6, <1>7, ReaderFrame DEF TraceInv

\* An operation on the Run draws an id above every id that is visible.
LEMMA RecordRunEvent == ASSUME TraceInv, NEW o \in Op, record_run_event(o) PROVE TraceInv'
  <1>0. o \in RunOp /\ tx[o].pc = "row" /\ o \notin QueueOp /\ runLock = o
    BY Constants, OperationFacts DEF record_run_event
  <1>1. insert(o) /\ UNCHANGED <<run, runLock, shared, events, reader>>
    BY DEF record_run_event
  <1>2. /\ tx' \in [Op -> Transaction] /\ tx'[o].pc = "inserted" /\ tx'[o].id = nextId /\ nextId' = nextId + 1
        /\ \A x \in Op \ {o} : tx'[x] = tx[x]
    BY <1>0, <1>1, InsertMoves, OperationFacts
  <1>3. TraceTypeOK'
    <2>1. rowLock' \in [QueueOp -> Op \cup {None}]
      BY OperationFacts DEF record_run_event, TraceTypeOK
    <2> QED BY <2>1, <1>1, <1>2, OperationFacts DEF TraceTypeOK, reader
  <1>4. CommittedRows'
    <2>1. tx'[o].id < nextId' /\ tx'[o].pc # "done" /\ tx'[o].id > 0
      BY <1>2, OperationFacts
    <2> QED BY <2>1, <1>0, <1>1, <1>2, RowsFrame
  <1>5. RunLockHeld'
    BY <1>0, <1>1, <1>2, OperationFacts, Constants DEF RunLockHeld
  <1>6. RunIdIsNewest'
    BY <1>0, <1>1, <1>2, OperationFacts, Constants DEF RunIdIsNewest
  <1> QED BY <1>1, <1>3, <1>4, <1>5, <1>6, ReaderFrame DEF TraceInv

\* Neither a commit nor a rollback takes a lock away from another operation.
LEMMA Released ==
    ASSUME TraceInv, NEW o \in Op, Release(o)
    PROVE  /\ rowLock' \in [QueueOp -> Op \cup {None}]
           /\ runLock' \in {runLock, None} /\ (runLock # o => runLock' = runLock)
           /\ shared' = shared \ {o}
  BY OperationFacts DEF Release, TraceTypeOK

\* The victim of a deadlock gives up what it inserted and held.
LEMMA DeadlockVictim == ASSUME TraceInv, NEW o \in Op, deadlock_victim(o) PROVE TraceInv'
  <1>0. tx[o].pc \in {"wait", "row"}
    BY DEF deadlock_victim, Deadlocked
  <1>1. Release(o) /\ retry_mysql_transaction(o) /\ UNCHANGED <<run, nextId, events, reader>>
    BY DEF deadlock_victim, rollback_sessions
  <1>2. /\ tx' \in [Op -> Transaction] /\ tx'[o].pc \in {"idle", "raised"} /\ tx'[o].id = 0
        /\ \A x \in Op \ {o} : tx'[x] = tx[x]
    <2> DEFINE new == IF tx[o].attempt < Attempts[o]
                      THEN [pc |-> "idle", attempt |-> tx[o].attempt + 1, id |-> 0]
                      ELSE [tx[o] EXCEPT !.pc = "raised", !.id = 0]
    <2>1. tx' = [tx EXCEPT ![o] = new] /\ tx[o] \in Transaction
      BY <1>1, OperationFacts DEF retry_mysql_transaction
    <2>2. new \in Transaction /\ new.pc \in {"idle", "raised"} /\ new.id = 0
      <3>1. [pc |-> "idle", attempt |-> tx[o].attempt + 1, id |-> 0] \in Transaction
        BY <2>1 DEF Transaction
      <3>2. [tx[o] EXCEPT !.pc = "raised", !.id = 0] \in Transaction
        BY <2>1 DEF Transaction
      <3>3. [tx[o] EXCEPT !.pc = "raised", !.id = 0].pc = "raised" /\ [tx[o] EXCEPT !.pc = "raised", !.id = 0].id = 0
        BY <2>1 DEF Transaction
      <3> QED BY <3>1, <3>2, <3>3
    <2> HIDE DEF new
    <2> QED BY <2>1, <2>2, OperationFacts
  <1>3. TraceTypeOK'
    BY <1>1, <1>2, Released, OperationFacts DEF TraceTypeOK, reader
  <1>4. CommittedRows'
    <2>1. tx'[o].id < nextId' /\ tx'[o].pc # "done" /\ tx'[o].pc \notin {"wait", "inserted"} /\ tx[o].pc # "done"
      BY <1>0, <1>1, <1>2, OperationFacts
    <2> QED BY <2>1, <1>1, <1>2, RowsFrame
  <1>5. RunLockHeld'
    BY <1>0, <1>1, <1>2, Released, OperationFacts, Constants DEF RunLockHeld
  <1>6. RunIdIsNewest'
    BY <1>0, <1>1, <1>2, OperationFacts, Constants DEF RunIdIsNewest
  <1> QED BY <1>1, <1>3, <1>4, <1>5, <1>6, ReaderFrame DEF TraceInv

\* The cursor stands at the start or at an event.
LEMMA CursorKnown ==
    ASSUME TraceInv
    PROVE  /\ stream.last_id \in Nat
           /\ stream.last_id = 0 \/ \E f \in events : f.id = stream.last_id
  <1>1. stream.last_id = parse_last_event_id /\ received \subseteq {e.id : e \in events}
    BY DEF TraceInv, CursorFits
  <1>2. client \in Seq(Nat) /\ stream \in Generator
    BY DEF TraceInv, TraceTypeOK
  <1>3. CASE client = << >>
    BY <1>1, <1>3 DEF parse_last_event_id
  <1>4. CASE client # << >>
    <2>1. Len(client) \in DOMAIN client
      BY <1>2, <1>4
    <2>2. Last(client) \in received
      BY <2>1 DEF Last, received, ToSet
    <2> QED BY <2>2, <1>1, <1>2, <1>4 DEF parse_last_event_id, Generator
  <1> QED BY <1>3, <1>4

\* An event stays overtaken as long as the trace only grows.
LEMMA StaysOvertaken ==
    ASSUME NEW x, Overtaken(x), events \subseteq events'
    PROVE  Overtaken(x)'
  BY DEF Overtaken

\* The event of a stale transaction that commits after the end of the Run is
\* overtaken: its id is above the one of the end.
LEMMA NewIsOvertaken ==
    ASSUME TraceInv, NEW o \in EarlyReader, tx[o].pc = "inserted", tx[EndingOp].pc = "done",
           events' = events \cup {[id |-> tx[o].id, by |-> o]}
    PROVE  \E x \in events' : x = [id |-> tx[o].id, by |-> o] /\ Overtaken(x)'
  <1>1. [id |-> tx[EndingOp].id, by |-> EndingOp] \in events
    BY Constants DEF TraceInv, CommittedRows
  <1>2. tx[EndingOp].id < tx[o].id
    BY <1>1, Constants, OperationFacts
  <1>3. \E y \in events' : y.by = EndingOp /\ y.id < tx[o].id
    BY <1>1, <1>2
  <1>4. PICK x : x = [id |-> tx[o].id, by |-> o]
    OBVIOUS
  <1>5. x \in events' /\ x.by \in EarlyReader /\ x.id = tx[o].id
    BY <1>4
  <1>6. Overtaken(x)'
    BY <1>3, <1>5 DEF Overtaken
  <1> QED BY <1>4, <1>5, <1>6

\* The commit of an operation makes its event visible.  The id of an event of
\* the Run is above every id that the stream has seen.
LEMMA CommitStep == ASSUME TraceInv, NEW o \in Op, commit(o) PROVE TraceInv'
  <1> DEFINE new == [id |-> tx[o].id, by |-> o]
  <1>0. tx[o].pc = "inserted" /\ tx[o].id \in Nat /\ tx[o].id < nextId /\ tx[o].id > 0
    BY OperationFacts DEF commit, TraceInv, CommittedRows
  <1>1. /\ tx' = [tx EXCEPT ![o].pc = "done"] /\ events' = events \cup {new}
        /\ run' = (IF o = EndingOp THEN "cancelled" ELSE run) \/ (o \in EarlyReader /\ run' = "running")
        /\ Release(o) /\ UNCHANGED <<nextId, reader>>
    BY DEF commit
  <1>2. /\ tx' \in [Op -> Transaction] /\ tx'[o].pc = "done" /\ tx'[o].id = tx[o].id
        /\ \A x \in Op \ {o} : tx'[x] = tx[x]
    BY <1>1, PcMoves, OperationFacts DEF Pcs
  <1>3. TraceTypeOK'
    <2>1. new \in RunEvent
      BY <1>0 DEF RunEvent
    <2> HIDE DEF new
    <2> QED BY <2>1, <1>1, <1>2, Released, OperationFacts DEF TraceTypeOK, reader
  <1>4. CommittedRows'
    <2> DEFINE done == {y \in Op : tx[y].pc = "done"}
    <2>1. {y \in Op : tx'[y].pc = "done"} = done \cup {o}
      BY <1>2
    <2>2. events = {[id |-> tx[x].id, by |-> x] : x \in done}
      BY DEF TraceInv, CommittedRows
    <2>3. {[id |-> tx'[x].id, by |-> x] : x \in done \cup {o}} = {[id |-> tx[x].id, by |-> x] : x \in done} \cup {new}
      <3>1. \A x \in done \cup {o} : tx'[x].id = tx[x].id
        BY <1>2
      <3> QED BY <3>1
    <2>4. events' = {[id |-> tx'[x].id, by |-> x] : x \in {y \in Op : tx'[y].pc = "done"}}
      BY <2>1, <2>2, <2>3, <1>1
    <2>5. \A x \in Op : tx'[x].id < nextId' /\ (tx'[x].pc \in {"wait", "inserted"} => tx'[x].id > 0)
      BY <1>1, <1>2, OperationFacts DEF TraceInv, CommittedRows
    <2>6. run' = "cancelled" => tx'[EndingOp].pc = "done"
      BY <1>1, <1>2, Constants DEF TraceInv, CommittedRows
    <2>7. ASSUME run' = "running", tx'[EndingOp].pc = "done" PROVE (\E x \in events : Overtaken(x))'
      <3>1. o # EndingOp /\ tx[EndingOp].pc = "done"
        BY <2>7, <1>1, <1>2, Constants
      <3>2. CASE run = "running"
        BY <3>1, <3>2, StaysOvertaken, <1>1 DEF TraceInv, CommittedRows
      <3>3. CASE run # "running"
        <4>1. o \in EarlyReader
          BY <3>1, <3>3, <2>7, <1>1
        <4> QED BY <4>1, <3>1, <1>0, <1>1, NewIsOvertaken
      <3> QED BY <3>2, <3>3
    <2> QED BY <2>4, <2>5, <2>6, <2>7 DEF CommittedRows
  <1>6. \A x \in RunOp \ {o} : tx[x].pc \notin {"row", "inserted"}
    <2> SUFFICES ASSUME NEW x \in RunOp, x # o, tx[x].pc \in {"row", "inserted"} PROVE FALSE
      OBVIOUS
    <2>1. runLock = x /\ shared = {} /\ x # None
      BY OperationFacts, Constants
    <2>2. CASE o \in RunOp
      BY <2>1, <2>2, <1>0, OperationFacts
    <2>3. CASE o \in QueueOp
      BY <2>1, <2>3, <1>0, OperationFacts
    <2> QED BY <2>2, <2>3 DEF Op
  <1>5. RunLockHeld'
    <2>1. run' = "cancelled" => \A x \in RunOp \ EarlyReader : tx'[x].pc \notin {"row", "inserted"}
      BY <1>2, <1>6, Constants
    <2> QED BY <2>1, <1>0, <1>1, <1>2, <1>6, Released, OperationFacts, Constants DEF RunLockHeld
  <1>7. RunIdIsNewest'
    BY <1>2, <1>6, Constants DEF RunIdIsNewest
  <1>8. o \in RunOp => \A e \in events : e.id < tx[o].id
    BY <1>0, OperationFacts
  <1>9. CursorFits'
    <2>1. received' = received /\ parse_last_event_id' = parse_last_event_id /\ stream' = stream
      BY <1>1 DEF reader, received, parse_last_event_id
    <2>2. {e.id : e \in events} \subseteq {e.id : e \in events'}
      BY <1>1
    <2>3. ASSUME NEW e \in events', NEW i \in stream.page, e.by \in RunOp, stream.last_id < e.id, e.id < i
          PROVE  e.id \in stream.page
      <3>1. CASE e \in events
        BY <3>1, <2>3 DEF TraceInv, CursorFits
      <3>2. CASE e = new
        <4>1. o \in RunOp /\ e.id = tx[o].id
          BY <3>2, <2>3
        <4>2. PICK f \in events : f.id = i
          BY DEF TraceInv, CursorFits
        <4> QED BY <4>1, <4>2, <1>8, <1>0, <2>3, OperationFacts
      <3> QED BY <3>1, <3>2, <1>1
    <2>4. /\ stream.last_id = parse_last_event_id
          /\ received \cup stream.page \subseteq {e.id : e \in events}
          /\ \A i \in stream.page : i > stream.last_id
          /\ stream.pc = "emit" <=> stream.page # {}
      BY DEF TraceInv, CursorFits
    <2> QED BY <2>1, <2>2, <2>3, <2>4 DEF CursorFits
  <1>10. InOrderOnce'
    BY <1>1 DEF TraceInv, InOrderOnce, reader
  <1>11. RunEventsNotSkipped'
    <2> SUFFICES ASSUME NEW e \in events', e.by \in RunOp, e.id <= stream.last_id PROVE e.id \in received
      BY <1>1 DEF RunEventsNotSkipped, reader, received
    <2>1. CASE e \in events
      BY <2>1 DEF TraceInv, RunEventsNotSkipped
    <2>2. CASE e = new
      <3>1. o \in RunOp /\ e.id = tx[o].id
        BY <2>2
      <3>2. stream.last_id = 0 \/ \E f \in events : f.id = stream.last_id
        BY CursorKnown
      <3> QED BY <3>1, <3>2, <1>8, <1>0, OperationFacts
    <2> QED BY <2>1, <2>2, <1>1
  <1>12. EndsWithLastStatus'
    <2> SUFFICES ASSUME stream.pc = "return"
                 PROVE  /\ \E e \in events' : e.by = EndingOp /\ e.id \in received
                        /\ \A e \in events' : e.by \in RunOp /\ e.id \notin received =>
                              \E x \in events' : Overtaken(x)' /\ x.id <= e.id
      BY <1>1 DEF EndsWithLastStatus, reader, received
    <2>1. /\ \E e \in events : e.by = EndingOp /\ e.id \in received
          /\ \A e \in events : e.by \in RunOp /\ e.id \notin received =>
                \E x \in events : Overtaken(x) /\ x.id <= e.id
      BY DEF TraceInv, EndsWithLastStatus
    <2>2. tx[EndingOp].pc = "done" /\ o # EndingOp
      <3>1. PICK e \in events : e.by = EndingOp
        BY <2>1
      <3>2. PICK x \in Op : e = [id |-> tx[x].id, by |-> x] /\ tx[x].pc = "done"
        BY <3>1 DEF TraceInv, CommittedRows
      <3> QED BY <3>1, <3>2, <1>0
    <2>3. ASSUME NEW e \in events', e.by \in RunOp, e.id \notin received
          PROVE  \E x \in events' : Overtaken(x)' /\ x.id <= e.id
      <3>1. CASE e \in events
        <4>1. PICK x \in events : Overtaken(x) /\ x.id <= e.id
          BY <3>1, <2>3, <2>1
        <4> QED BY <4>1, <1>1, StaysOvertaken
      <3>2. CASE e = new /\ o \in EarlyReader
        <4>1. \E x \in events' : x = new /\ Overtaken(x)'
          BY <3>2, <2>2, <1>0, <1>1, NewIsOvertaken
        <4>2. new.id <= new.id
          BY <1>0
        <4> QED BY <4>1, <4>2, <3>2
      <3>3. CASE e = new /\ o \notin EarlyReader
        <4>1. o \in RunOp /\ run = "running"
          BY <3>3, <2>3, <1>0, OperationFacts DEF TraceTypeOK
        <4>2. PICK x \in events : Overtaken(x)
          BY <4>1, <2>2 DEF TraceInv, CommittedRows
        <4>3. x.id <= e.id
          BY <4>1, <4>2, <3>3, <1>0, <1>8, OperationFacts
        <4> QED BY <4>2, <4>3, <1>1, StaysOvertaken
      <3> QED BY <3>1, <3>2, <3>3, <1>1
    <2> QED BY <2>1, <2>3, <1>1
  <1> QED BY <1>3, <1>4, <1>5, <1>7, <1>9, <1>10, <1>11, <1>12 DEF TraceInv

-----------------------------------------------------------------------------
(* Steps of the reader.                                                     *)

\* The operations do not notice the reader.
LEMMA WritersFrame ==
    ASSUME TraceInv, UNCHANGED <<run, runLock, shared, rowLock, nextId, tx, events>>
    PROVE  CommittedRows' /\ RunLockHeld' /\ RunIdIsNewest'
  BY DEF TraceInv, CommittedRows, Overtaken, RunLockHeld, RunIdIsNewest

\* A poll reads a page that starts right after the cursor, and the status of
\* the Run in the same snapshot.
LEMMA PollStep == ASSUME TraceInv, stream_run_events PROVE TraceInv'
  <1> DEFINE page == get_run_events(stream.last_id)
             ids == after(stream.last_id)
             p == IF page # {} THEN "emit" ELSE IF run = "cancelled" THEN "return" ELSE "poll"
  <1>0. stream.pc = "poll" /\ stream \in Generator /\ stream.last_id \in Nat
    BY OperationFacts DEF stream_run_events, TraceTypeOK, Generator
  <1>1. stream' = [stream EXCEPT !.page = page, !.pc = p]
    BY DEF stream_run_events
  <1>2. UNCHANGED <<run, runLock, shared, rowLock, nextId, tx, events, client, drops>>
    BY DEF stream_run_events
  <1>3. ids = {e.id : e \in {x \in events : x.id > stream.last_id}}
    BY DEF after
  <1>4. ids \subseteq Nat /\ IsFiniteSet(ids)
    <2>1. ids \in SUBSET Nat /\ nextId \in Nat /\ \A i \in ids : i <= nextId
      BY <1>3, OperationFacts
    <2> HIDE DEF ids
    <2> QED BY <2>1, FS_BoundedSetOfNaturals
  <1>5. page \subseteq ids /\ (\A i \in page, j \in ids : j < i => j \in page) /\ (page = {} => ids = {})
    BY <1>0, <1>4, PageIsPrefix
  <1> HIDE DEF page, ids
  <1>6. stream' \in Generator /\ stream'.pc = p /\ stream'.page = page /\ stream'.last_id = stream.last_id
    <2>1. page \in SUBSET Nat
      BY <1>4, <1>5
    <2> QED BY <2>1, <1>0, <1>1 DEF Generator
  <1>7. received' = received /\ parse_last_event_id' = parse_last_event_id
    BY <1>2 DEF received, parse_last_event_id
  <1>8. TraceTypeOK'
    BY <1>2, <1>6, OperationFacts DEF TraceTypeOK
  <1>9. CursorFits'
    <2>1. stream.last_id = parse_last_event_id /\ received \subseteq {e.id : e \in events}
      BY DEF TraceInv, CursorFits
    <2>2. page \subseteq {e.id : e \in events} /\ \A i \in page : i > stream.last_id
      BY <1>3, <1>5
    <2>3. \A e \in events, i \in page : e.by \in RunOp /\ stream.last_id < e.id /\ e.id < i => e.id \in page
      <3>1. \A e \in events : stream.last_id < e.id => e.id \in ids
        BY <1>0, <1>3, OperationFacts
      <3> QED BY <3>1, <1>5
    <2> QED BY <2>1, <2>2, <2>3, <1>2, <1>6, <1>7 DEF CursorFits
  <1>10. InOrderOnce' /\ RunEventsNotSkipped'
    BY <1>2, <1>6, <1>7 DEF TraceInv, InOrderOnce, RunEventsNotSkipped
  <1>11. EndsWithLastStatus'
    <2> SUFFICES ASSUME p = "return"
                 PROVE  /\ \E e \in events : e.by = EndingOp /\ e.id \in received
                        /\ \A e \in events : e.by \in RunOp => e.id \in received
      BY <1>2, <1>6, <1>7 DEF EndsWithLastStatus
    <2>1. ids = {} /\ run = "cancelled"
      BY <1>5
    <2>2. PICK e \in events : e = [id |-> tx[EndingOp].id, by |-> EndingOp]
      BY <2>1, Constants DEF TraceInv, CommittedRows
    <2>3. \A f \in events : f.id \in Nat
      BY OperationFacts
    <2>4. ASSUME NEW f \in events PROVE f.id <= stream.last_id
      <3>1. ~(f.id > stream.last_id)
        BY <2>1, <1>3
      <3> QED BY <3>1, <2>3, <1>0
    <2>5. \A f \in events : f.by \in RunOp => f.id \in received
      BY <2>4 DEF TraceInv, RunEventsNotSkipped
    <2> QED BY <2>2, <2>5, Constants
  <1> QED BY <1>2, <1>8, <1>9, <1>10, <1>11, WritersFrame DEF TraceInv

\* A frame carries the least id of the page: the cursor passes no event of the
\* Run that is not delivered.
LEMMA EmitStep == ASSUME TraceInv, stream_emit PROVE TraceInv'
  <1> DEFINE id == Min(stream.page)
             p == IF stream.page = {id} THEN "poll" ELSE "emit"
  <1>0. /\ stream.pc = "emit" /\ stream \in Generator /\ client \in Seq(Nat)
        /\ stream.page \in SUBSET Nat /\ stream.page # {} /\ stream.last_id \in Nat
    BY OperationFacts DEF stream_emit, TraceTypeOK, Generator, TraceInv, CursorFits
  <1>1. /\ stream' = [stream EXCEPT !.last_id = id, !.page = @ \ {id}, !.pc = p]
        /\ client' = Append(client, id)
    BY DEF stream_emit
  <1>2. UNCHANGED <<run, runLock, shared, rowLock, nextId, tx, events, drops>>
    BY DEF stream_emit
  <1>3. id \in stream.page /\ \A i \in stream.page : id <= i
    BY <1>0, MinOfNat
  <1> HIDE DEF id
  <1>4. id \in Nat
    BY <1>0, <1>3
  <1>5. stream' \in Generator /\ stream'.pc = p /\ stream'.page = stream.page \ {id} /\ stream'.last_id = id
    BY <1>0, <1>1, <1>4 DEF Generator
  <1>6. /\ client' \in Seq(Nat) /\ client' # << >> /\ Len(client') = Len(client) + 1 /\ Last(client') = id
        /\ \A k \in 1 .. Len(client) : client'[k] = client[k]
        /\ received' = received \cup {id}
    BY <1>0, <1>1, <1>4, Appended DEF received
  <1>7. TraceTypeOK'
    BY <1>2, <1>5, <1>6, OperationFacts DEF TraceTypeOK
  <1>8. /\ received \cup stream.page \subseteq {e.id : e \in events}
        /\ \A i \in stream.page : i > stream.last_id
        /\ \A e \in events, i \in stream.page :
              e.by \in RunOp /\ stream.last_id < e.id /\ e.id < i => e.id \in stream.page
    BY DEF TraceInv, CursorFits
  <1>9. CursorFits'
    <2>1. stream'.last_id = parse_last_event_id'
      BY <1>5, <1>6 DEF parse_last_event_id
    <2>2. received' \cup stream'.page \subseteq {e.id : e \in events'}
      BY <1>2, <1>3, <1>5, <1>6, <1>8
    <2>3. \A i \in stream'.page : i > stream'.last_id
      BY <1>0, <1>3, <1>4, <1>5
    <2>4. stream'.pc = "emit" <=> stream'.page # {}
      BY <1>3, <1>5
    <2>5. ASSUME NEW e \in events', NEW i \in stream'.page, e.by \in RunOp, stream'.last_id < e.id, e.id < i
          PROVE  e.id \in stream'.page
      <3>1. e \in events /\ e.id \in Nat /\ id < e.id /\ i \in stream.page
        BY <2>5, <1>2, <1>5, OperationFacts
      <3>2. stream.last_id < e.id
        BY <3>1, <1>0, <1>3, <1>4, <1>8
      <3>3. e.id \in stream.page /\ e.id # id
        BY <3>1, <3>2, <2>5, <1>4, <1>8
      <3> QED BY <3>3, <1>5
    <2> QED BY <2>1, <2>2, <2>3, <2>4, <2>5 DEF CursorFits
  <1>10. InOrderOnce'
    <2> SUFFICES ASSUME NEW i \in 1 .. Len(client'), NEW j \in 1 .. Len(client'), i < j
                 PROVE  client'[i] < client'[j]
      BY DEF InOrderOnce
    <2>0. Len(client) \in Nat
      BY <1>0
    <2>1. i \in 1 .. Len(client) /\ client'[i] = client[i] /\ client[i] \in Nat
      <3>1. Len(client') = Len(client) + 1
        BY <1>6
      <3>2. i \in 1 .. Len(client)
        BY <2>0, <3>1
      <3>3. client[i] \in Nat
        BY <3>2, <1>0
      <3> QED BY <3>2, <3>3, <1>6
    <2>2. CASE j \in 1 .. Len(client)
      BY <2>1, <2>2, <1>6 DEF TraceInv, InOrderOnce
    <2>3. CASE j = Len(client) + 1
      <3>1. client'[j] = id /\ client # << >>
        BY <2>0, <2>1, <2>3, <1>0, <1>6 DEF Last
      <3>2. stream.last_id = client[Len(client)]
        BY <3>1 DEF TraceInv, CursorFits, parse_last_event_id, Last
      <3>3. client[i] <= client[Len(client)]
        <4>1. CASE i = Len(client)
          BY <4>1, <2>1
        <4>2. CASE i < Len(client)
          <5>1. Len(client) \in 1 .. Len(client)
            BY <2>0, <2>1
          <5>2. client[i] < client[Len(client)]
            BY <4>2, <5>1, <2>1 DEF TraceInv, InOrderOnce
          <5> QED BY <5>1, <5>2, <2>1, <1>0
        <4> QED BY <4>1, <4>2, <2>0, <2>1
      <3> QED BY <3>1, <3>2, <3>3, <2>1, <1>0, <1>3, <1>4, <1>8
    <2> QED BY <2>0, <2>2, <2>3, <1>6
  <1>11. RunEventsNotSkipped'
    <2> SUFFICES ASSUME NEW e \in events, e.by \in RunOp, e.id <= id PROVE e.id \in received \cup {id}
      BY <1>2, <1>5, <1>6 DEF RunEventsNotSkipped
    <2>0. e.id \in Nat
      BY OperationFacts
    <2>1. CASE e.id <= stream.last_id
      BY <2>1 DEF TraceInv, RunEventsNotSkipped
    <2>2. CASE stream.last_id < e.id /\ e.id < id
      <3>1. e.id \in stream.page
        BY <2>2, <1>3, <1>8
      <3> QED BY <3>1, <2>0, <2>2, <1>3, <1>4
    <2>3. CASE e.id = id
      BY <2>3
    <2> QED BY <2>0, <2>1, <2>2, <2>3, <1>0, <1>4
  <1>12. EndsWithLastStatus'
    BY <1>5 DEF EndsWithLastStatus
  <1> QED BY <1>2, <1>7, <1>9, <1>10, <1>11, <1>12, WritersFrame DEF TraceInv

\* A lost connection takes the page with it, a new one starts where the client
\* stopped.
LEMMA ConnectionStep == ASSUME TraceInv, disconnect \/ reconnect PROVE TraceInv'
  <1> DEFINE page == IF disconnect THEN {} ELSE stream.page
             p == IF disconnect THEN "closed" ELSE "poll"
  <1>0. stream \in Generator /\ stream.last_id \in Nat /\ drops \in 0 .. MaxDisconnects
    BY OperationFacts DEF TraceTypeOK, Generator
  <1>1. stream.last_id = parse_last_event_id /\ (stream.pc # "emit" => stream.page = {})
    BY DEF TraceInv, CursorFits
  <1>2. UNCHANGED <<run, runLock, shared, rowLock, nextId, tx, events, client>>
    BY DEF disconnect, reconnect
  <1>3. stream' \in Generator /\ stream'.pc \in {"poll", "closed"} /\ stream'.page = {} /\ stream'.last_id = stream.last_id
    <2>1. CASE disconnect
      BY <2>1, <1>0 DEF disconnect, Generator
    <2>2. CASE reconnect
      BY <2>2, <1>0, <1>1 DEF reconnect, Generator
    <2> QED BY <2>1, <2>2
  <1>4. drops' \in 0 .. MaxDisconnects
    BY <1>0, Constants DEF disconnect, reconnect
  <1>5. received' = received /\ parse_last_event_id' = parse_last_event_id
    BY <1>2 DEF received, parse_last_event_id
  <1>6. TraceTypeOK'
    BY <1>2, <1>3, <1>4, OperationFacts DEF TraceTypeOK
  <1>7. CursorFits'
    <2>1. received \subseteq {e.id : e \in events}
      BY DEF TraceInv, CursorFits
    <2> QED BY <2>1, <1>1, <1>2, <1>3, <1>5 DEF CursorFits
  <1>8. InOrderOnce' /\ RunEventsNotSkipped' /\ EndsWithLastStatus'
    BY <1>2, <1>3, <1>5 DEF TraceInv, InOrderOnce, RunEventsNotSkipped, EndsWithLastStatus, Overtaken
  <1> QED BY <1>2, <1>6, <1>7, <1>8, WritersFrame DEF TraceInv

-----------------------------------------------------------------------------
(* The theorems.                                                            *)

(* The invariant is inductive: every step of every operation, of the stream *)
(* and of the connection keeps it.                                          *)
LEMMA TraceStep == TraceInv /\ [Next]_vars => TraceInv'
  <1> SUFFICES ASSUME TraceInv, [Next]_vars PROVE TraceInv'
    OBVIOUS
  <1>1. ASSUME NEW o \in Op, Write(o) PROVE TraceInv'
    BY <1>1, LockTask, LoadRun, LockRun, RecordEvent, ShareRun, RecordRunEvent, CommitStep, DeadlockVictim DEF Write
  <1>2. CASE Follow
    BY <1>2, PollStep, EmitStep, ConnectionStep DEF Follow
  <1>3. CASE disconnect
    BY <1>3, ConnectionStep
  <1>4. CASE UNCHANGED vars
    <2>1. TraceTypeOK'
      BY <1>4, OperationFacts DEF vars, TraceTypeOK
    <2> QED BY <2>1, <1>4, WritersFrame, ReaderFrame DEF vars, reader, TraceInv
  <1> QED BY <1>1, <1>2, <1>3, <1>4 DEF Next

(* The stream of get_run_events pages (trace.py) delivers the events in      *)
(* order and once, skips no event of an operation that locks the Run, and    *)
(* does not return before it delivered the one that ended the Run and all of *)
(* them up to the first one of a transaction that had loaded the Run before  *)
(* its end and locked it afterwards: for every number of operations, page    *)
(* size and number of lost connections.                                      *)
THEOREM TraceSafe == Spec => []TraceInv
  BY InitInv, TraceStep, PTL DEF Spec

(* However often retry_mysql_transaction runs an operation again, its event  *)
(* is in the trace exactly once when it is done and never otherwise.         *)
THEOREM EventsRecordedOnce == Spec => []RecordedOnce
  <1>1. TraceInv => RecordedOnce
    <2> SUFFICES ASSUME TraceInv, NEW o \in Op
                 PROVE  LET mine == {e \in events : e.by = o} IN
                        /\ Cardinality(mine) <= 1
                        /\ tx[o].pc # "done" => mine = {}
                        /\ tx[o].pc = "done" => mine # {}
      BY DEF RecordedOnce
    <2> DEFINE mine == {e \in events : e.by = o}
    <2>1. events = {[id |-> tx[x].id, by |-> x] : x \in {y \in Op : tx[y].pc = "done"}}
      BY DEF TraceInv, CommittedRows
    <2>2. CASE tx[o].pc = "done"
      <3>1. mine = {[id |-> tx[o].id, by |-> o]}
        BY <2>1, <2>2
      <3> HIDE DEF mine
      <3>2. Cardinality(mine) = 1
        BY <3>1, FS_Singleton
      <3>3. mine # {}
        BY <3>1
      <3> QED BY <2>2, <3>2, <3>3 DEF mine
    <2>3. CASE tx[o].pc # "done"
      <3>1. mine = {}
        BY <2>1, <2>3
      <3> HIDE DEF mine
      <3>2. Cardinality(mine) = 0
        BY <3>1, FS_EmptySet
      <3> QED BY <2>3, <3>1, <3>2 DEF mine
    <2> QED BY <2>2, <2>3
  <1> QED BY <1>1, TraceSafe, PTL
=============================================================================
