------------------------------- MODULE SQLite -------------------------------
(***************************************************************************)
(* The transaction and commit pipeline of src/sqlitecluster/SQLite.cpp:    *)
(* several SQLite connections (one per thread) on one database file,       *)
(* sharing one SharedData: the commit lock, commitCount, lastCommittedHash,*)
(* currentTransactionCount, the prepared/committed transaction maps, the   *)
(* WAL page count and the checkpoint coordinator thread spawned by the WAL *)
(* hook.  The storage engine below them is modelled only as far as the     *)
(* code depends on it: BEGIN CONCURRENT with a snapshot taken at the first *)
(* statement, COMMIT that may answer SQLITE_BUSY_SNAPSHOT when another     *)
(* commit happened after the snapshot, the journal tables, and the WAL     *)
(* (frames written, whether checkpoints copied them all back, restart).  *)
(*                                                                         *)
(* SHA-1 is abstracted as a collision-free hash: the hash of a commit is   *)
(* the sequence of the queries of every commit up to it, so that           *)
(* SHA1(prev || q) is Append(prev, q) and the empty string is <<>>.        *)
(***************************************************************************)
EXTENDS Integers, Sequences, FiniteSets, TLC

CONSTANTS
    NConn,                  \* connections 1..NConn; 1 is built by the file constructor, the rest are copies
    NJournalTables,         \* _journalNames.size(): "journal", "journal0000", ...
    MaxCommits,             \* bound on commitCount (model bound)
    MaxWrites,              \* bound on the writes kept in one _uncommittedQuery (model bound)
    MaxJournalSize,         \* _maxJournalSize
    DeleteLimit,            \* the LIMIT of the journal trimming DELETE
    FullCheckpointPageMin,  \* SQLite::fullCheckpointPageMin
    PagesPerCommit,         \* the WAL frame counts one COMMIT may append
    SizeTModulus,           \* 2^w, the range of size_t used by the journal striping index
    BeginCanFail,           \* whether BEGIN CONCURRENT may return an error
    JournalInsertCanFail,   \* whether the journal INSERT in prepare() may return an error
    ReplicationConsumer,    \* whether a replication thread calls popCommittedTransactions()
    DestroyEnabled,         \* whether the users of the connections destroy them (~SQLite)
    MaxCrashes              \* bound on the process crashes (model bound)

ASSUME /\ NConn \in Nat \ {0}
       /\ NJournalTables \in Nat \ {0}
       /\ {MaxCommits, MaxWrites, MaxJournalSize, DeleteLimit, FullCheckpointPageMin} \subseteq Nat \ {0}
       /\ PagesPerCommit \subseteq Nat \ {0}
       /\ SizeTModulus > NJournalTables
       /\ {BeginCanFail, JournalInsertCanFail, ReplicationConsumer, DestroyEnabled} \subseteq BOOLEAN
       /\ MaxCrashes \in Nat

Conn   == 1..NConn
NoConn == 0
Tables == 0..(NJournalTables - 1)     \* index into _journalNames; 0 is plain "journal"
NoSnap == -1

\* A query is what one transaction appends to _uncommittedQuery: the writes
\* of connection c are represented by c.
Query == UNION {[1..n -> Conn] : n \in 0..MaxWrites}

VARIABLES
    \* --- per connection (SQLite object) ---
    pc,                  \* where the thread using the connection is
    insideTransaction,   \* _insideTransaction
    mutexLocked,         \* _mutexLocked
    autoRolledBack,      \* _autoRolledBack
    uncommittedQuery,    \* _uncommittedQuery
    uncommittedHash,     \* _uncommittedHash
    dbCountAtStart,      \* _dbCountAtStart
    journalSize,         \* _journalSize
    \* --- per connection, inside the engine ---
    txnOpen,             \* the engine has an open transaction (autocommit off)
    snapVersion,         \* dbVersion at the transaction's snapshot, or NoSnap
    snapRows,            \* the journal rows visible in that snapshot
    pendingIns,          \* journal rows inserted by the open transaction
    pendingDel,          \* journal row ids deleted by the open transaction
    \* --- SharedData ---
    commitLock,          \* holder of commitLock, or NoConn
    commitCount,
    lastCommittedHash,
    currentTransactionCount,
    currentPageCount,    \* _currentPageCount
    checkpointThreadBusy,\* _checkpointThreadBusy
    preparedTxns,        \* _preparedTransactions: id -> [query, hash, dbCountAtStart]
    committedTxns,       \* _committedTransactions
    ckpt,                \* state of the checkpoint thread
    \* --- engine, shared ---
    db,                  \* committed journal rows [id, tbl, query, hash]
    dbVersion,           \* number of engine COMMITs
    wal,                 \* frames in the WAL
    backfilled,          \* every frame of the WAL has been copied into the database
    \* --- history ---
    shippedCount,        \* highest id handed out by popCommittedTransactions()
    \* --- lifetime ---
    alive,               \* the SQLite object has not been destroyed
    ckptOwner,           \* the connection whose _destructorMutex the checkpoint thread holds
    crashes

connVars   == <<pc, insideTransaction, mutexLocked, autoRolledBack, uncommittedQuery,
                uncommittedHash, dbCountAtStart, journalSize>>
engineVars == <<txnOpen, snapVersion, snapRows, pendingIns, pendingDel, db, dbVersion, wal, backfilled>>
sharedVars == <<commitLock, commitCount, lastCommittedHash, currentTransactionCount,
                currentPageCount, checkpointThreadBusy, preparedTxns, committedTxns, ckpt, shippedCount>>
lifeVars   == <<alive, ckptOwner, crashes>>
vars == <<connVars, engineVars, sharedVars, lifeVars>>

-----------------------------------------------------------------------------
(* Helpers                                                                 *)

MaxOf(S) == CHOOSE x \in S : \A y \in S : x >= y
MinOf(S) == CHOOSE x \in S : \A y \in S : x <= y
Ids(rows) == {r.id : r \in rows}

\* SToHex(SHashSHA1(lastCommittedHash + _uncommittedQuery)).
Hash(prev, q) == Append(prev, q)

\* The journal table a connection writes to.  The file constructor takes
\* _journalNames[0]; the copy constructor of the k-th copy (k = 0, 1, ...)
\* takes _journalNames[(nextJournalCount++ % size - 1) + 1], evaluated in
\* size_t arithmetic: the -1 wraps around when the remainder is 0.
StripedIndex(k) ==
    LET minusOne == ((k % NJournalTables) + SizeTModulus - 1) % SizeTModulus
    IN (minusOne + 1) % SizeTModulus
JournalIndex(c) == IF c = 1 THEN 0 ELSE StripedIndex(c - 2)

\* The commit lock and notifyWaitMutex.  The checkpoint thread holds
\* notifyWaitMutex across the restart checkpoint and blockNewTransactionsMutex
\* exclusively from the start of its loop to its end.
\* Mutant: prepare() does not wait for the commit lock.
CommitLockFreeFor_NoWait(c) == TRUE
CommitLockFreeFor(c) == commitLock \in {NoConn, c}
NotifyWaitMutexFree == ckpt # "restart"
BlockNewTransactionsHeld == ckpt \in {"check", "waiting", "restart", "exiting"}

\* blockNewTransactionsCV.notify_one(): the only waiter is the checkpoint thread.
NotifyCV == ckpt' = IF ckpt = "waiting" THEN "check" ELSE ckpt

\* The engine takes the snapshot of a BEGIN CONCURRENT transaction at its
\* first statement.
TakeSnapshot(c) ==
    /\ snapVersion' = [snapVersion EXCEPT ![c] = IF @ = NoSnap THEN dbVersion ELSE @]
    /\ snapRows' = [snapRows EXCEPT ![c] = IF snapVersion[c] = NoSnap THEN db ELSE @]

\* The journal rows the open transaction of c sees.
TxnView(c) == {r \in snapRows[c] \cup pendingIns[c] : r.id \notin pendingDel[c]}

\* The engine transaction of c ends (COMMIT, ROLLBACK or auto-rollback).
CloseEngineTxn(c) ==
    /\ txnOpen' = [txnOpen EXCEPT ![c] = FALSE]
    /\ snapVersion' = [snapVersion EXCEPT ![c] = NoSnap]
    /\ snapRows' = [snapRows EXCEPT ![c] = {}]
    /\ pendingIns' = [pendingIns EXCEPT ![c] = {}]
    /\ pendingDel' = [pendingDel EXCEPT ![c] = {}]

-----------------------------------------------------------------------------
Init ==
    /\ pc = [c \in Conn |-> "idle"]
    /\ insideTransaction = [c \in Conn |-> FALSE]
    /\ mutexLocked = [c \in Conn |-> FALSE]
    /\ autoRolledBack = [c \in Conn |-> FALSE]
    /\ uncommittedQuery = [c \in Conn |-> <<>>]
    /\ uncommittedHash = [c \in Conn |-> <<>>]
    /\ dbCountAtStart = [c \in Conn |-> 0]
    /\ journalSize = [c \in Conn |-> 0]          \* initializeJournalSize on an empty database
    /\ txnOpen = [c \in Conn |-> FALSE]
    /\ snapVersion = [c \in Conn |-> NoSnap]
    /\ snapRows = [c \in Conn |-> {}]
    /\ pendingIns = [c \in Conn |-> {}]
    /\ pendingDel = [c \in Conn |-> {}]
    /\ commitLock = NoConn
    /\ commitCount = 0                            \* initializeSharedData: MAX(id) of empty journals
    /\ lastCommittedHash = <<>>
    /\ currentTransactionCount = 0
    /\ currentPageCount = 0
    /\ checkpointThreadBusy = 0
    /\ preparedTxns = <<>>
    /\ committedTxns = <<>>
    /\ ckpt = "none"
    /\ db = {}
    /\ dbVersion = 0
    /\ wal = 0
    /\ backfilled = TRUE
    /\ shippedCount = 0
    /\ alive = [c \in Conn |-> TRUE]
    /\ ckptOwner = NoConn
    /\ crashes = 0

-----------------------------------------------------------------------------
(* Beginning a transaction                                                 *)

\* waitForCheckpoint(): a shared lock of blockNewTransactionsMutex, taken and
\* released at once; the callers of beginTransaction call it first.
WaitForCheckpoint(c) ==
    /\ pc[c] = "idle"
    /\ alive[c]
    /\ ~BlockNewTransactionsHeld
    /\ pc' = [pc EXCEPT ![c] = "waited"]
    /\ UNCHANGED <<lifeVars, insideTransaction, mutexLocked, autoRolledBack, uncommittedQuery,
                   uncommittedHash, dbCountAtStart, journalSize, engineVars, sharedVars>>

\* beginTransaction(type).  EXCLUSIVE takes the commit lock first; the count is
\* raised under notifyWaitMutex and the CV notified; BEGIN CONCURRENT may fail,
\* in which case the function returns false with the count already raised
\* (and, for EXCLUSIVE, the commit lock held).
BeginTransaction(c, exclusive) ==
    /\ pc[c] = "waited"
    /\ exclusive => commitLock = NoConn
    /\ NotifyWaitMutexFree
    /\ commitLock' = IF exclusive THEN c ELSE commitLock
    /\ mutexLocked' = [mutexLocked EXCEPT ![c] = exclusive]
    /\ currentTransactionCount' = currentTransactionCount + 1
    /\ NotifyCV
    /\ autoRolledBack' = [autoRolledBack EXCEPT ![c] = FALSE]
    /\ \E ok \in IF BeginCanFail THEN BOOLEAN ELSE {TRUE} :
          /\ insideTransaction' = [insideTransaction EXCEPT ![c] = ok]
          /\ txnOpen' = [txnOpen EXCEPT ![c] = ok]
          /\ pc' = [pc EXCEPT ![c] = IF ok THEN "intxn" ELSE "idle"]
    /\ dbCountAtStart' = [dbCountAtStart EXCEPT ![c] = commitCount]
    /\ UNCHANGED <<lifeVars, uncommittedQuery, uncommittedHash, journalSize, snapVersion, snapRows,
                   pendingIns, pendingDel, db, dbVersion, wal, backfilled,
                   commitCount, lastCommittedHash, currentPageCount, checkpointThreadBusy,
                   preparedTxns, committedTxns, shippedCount>>

-----------------------------------------------------------------------------
(* Writing                                                                 *)

\* _writeIdempotent(query): the statement runs in the engine (taking the
\* snapshot); the query is kept when it changed something.  While the
\* checkpoint thread is busy the progress handler may interrupt it
\* (_abandonForCheckpoint); the engine may then have rolled the transaction
\* back itself, which _checkInterruptErrors records in _autoRolledBack before
\* throwing checkpoint_required_error.
Write(c) ==
    /\ pc[c] = "intxn"
    /\ Len(uncommittedQuery[c]) < MaxWrites
    /\ \/ /\ \E changed \in BOOLEAN :
                uncommittedQuery' = [uncommittedQuery EXCEPT ![c] =
                                        IF changed THEN Append(@, c) ELSE @]
          /\ TakeSnapshot(c)
          /\ UNCHANGED <<pc, autoRolledBack, txnOpen, pendingIns, pendingDel>>
       \/ /\ checkpointThreadBusy > 0
          /\ pc' = [pc EXCEPT ![c] = "error"]
          /\ \E engineRolledBack \in BOOLEAN :
                /\ autoRolledBack' = [autoRolledBack EXCEPT ![c] = engineRolledBack]
                /\ IF engineRolledBack THEN CloseEngineTxn(c)
                   ELSE /\ TakeSnapshot(c)
                        /\ UNCHANGED <<txnOpen, pendingIns, pendingDel>>
          /\ UNCHANGED uncommittedQuery
    /\ UNCHANGED <<lifeVars, insideTransaction, mutexLocked, uncommittedHash, dbCountAtStart, journalSize,
                   db, dbVersion, wal, backfilled, sharedVars>>

-----------------------------------------------------------------------------
(* Rolling back                                                            *)

\* The body of rollback() up to the release of the commit lock: ROLLBACK
\* unless the engine already rolled back, the buffers cleared, the commit
\* lock released if held.  The count is lowered by the next step.
RollbackBody(c) ==
    /\ IF autoRolledBack[c]
       THEN UNCHANGED <<txnOpen, snapVersion, snapRows, pendingIns, pendingDel>>
       ELSE CloseEngineTxn(c)
    /\ autoRolledBack' = [autoRolledBack EXCEPT ![c] = FALSE]
    /\ insideTransaction' = [insideTransaction EXCEPT ![c] = FALSE]
    /\ uncommittedHash' = [uncommittedHash EXCEPT ![c] = <<>>]
    /\ uncommittedQuery' = [uncommittedQuery EXCEPT ![c] = <<>>]
    /\ mutexLocked' = [mutexLocked EXCEPT ![c] = FALSE]
    /\ commitLock' = IF mutexLocked[c] THEN NoConn ELSE commitLock
    /\ dbCountAtStart' = [dbCountAtStart EXCEPT ![c] = 0]
    /\ pc' = [pc EXCEPT ![c] = "rbDec"]

\* Mutant: rollback() lowers the count even outside a transaction.
Rollback_OutsideTxn(c) ==
    /\ pc[c] \in {"idle", "intxn", "prepared", "conflict", "error"}
    /\ RollbackBody(c)
    /\ UNCHANGED <<lifeVars, journalSize, db, dbVersion, wal, backfilled, commitCount, lastCommittedHash,
                   currentTransactionCount, currentPageCount, checkpointThreadBusy,
                   preparedTxns, committedTxns, ckpt, shippedCount>>

\* rollback() called by the user of the connection inside a transaction:
\* after a failed statement, a checkpoint or timeout exception, a commit
\* conflict, or to abandon a prepared transaction.
Rollback(c) ==
    /\ pc[c] \in {"intxn", "prepared", "conflict", "error"}
    /\ RollbackBody(c)
    /\ UNCHANGED <<lifeVars, journalSize, db, dbVersion, wal, backfilled, commitCount, lastCommittedHash,
                   currentTransactionCount, currentPageCount, checkpointThreadBusy,
                   preparedTxns, committedTxns, ckpt, shippedCount>>

\* currentTransactionCount-- under notifyWaitMutex.
RollbackDec(c) ==
    /\ pc[c] = "rbDec"
    /\ NotifyWaitMutexFree
    /\ currentTransactionCount' = currentTransactionCount - 1
    /\ pc' = [pc EXCEPT ![c] = "rbNotify"]
    /\ UNCHANGED <<lifeVars, insideTransaction, mutexLocked, autoRolledBack, uncommittedQuery,
                   uncommittedHash, dbCountAtStart, journalSize, engineVars,
                   commitLock, commitCount, lastCommittedHash, currentPageCount,
                   checkpointThreadBusy, preparedTxns, committedTxns, ckpt, shippedCount>>

\* Mutant: rollback() does not notify the CV.
RollbackNotify_NoNotify(c) ==
    /\ pc[c] = "rbNotify"
    /\ pc' = [pc EXCEPT ![c] = "idle"]
    /\ UNCHANGED <<lifeVars, insideTransaction, mutexLocked, autoRolledBack, uncommittedQuery,
                   uncommittedHash, dbCountAtStart, journalSize, engineVars, ckpt,
                   commitLock, commitCount, lastCommittedHash, currentTransactionCount,
                   currentPageCount, checkpointThreadBusy, preparedTxns, committedTxns, shippedCount>>

\* blockNewTransactionsCV.notify_one() after the mutex is released.
RollbackNotify(c) ==
    /\ pc[c] = "rbNotify"
    /\ NotifyCV
    /\ pc' = [pc EXCEPT ![c] = "idle"]
    /\ UNCHANGED <<lifeVars, insideTransaction, mutexLocked, autoRolledBack, uncommittedQuery,
                   uncommittedHash, dbCountAtStart, journalSize, engineVars,
                   commitLock, commitCount, lastCommittedHash, currentTransactionCount,
                   currentPageCount, checkpointThreadBusy, preparedTxns, committedTxns, shippedCount>>

-----------------------------------------------------------------------------
(* Preparing and committing                                                *)

\* prepare(): take the commit lock unless held, read commitCount and
\* lastCommittedHash, compute the new hash, record the prepared transaction
\* (insert_or_assign) and INSERT the journal row.  If the INSERT fails the
\* transaction is rolled back (rollback() inline) and false returned.
Prepare(c) ==
    /\ pc[c] = "intxn"
    /\ CommitLockFreeFor(c)
    /\ commitCount < MaxCommits
    /\ LET id   == commitCount + 1
           hash == Hash(lastCommittedHash, uncommittedQuery[c])
           row  == [id |-> id, tbl |-> JournalIndex(c), query |-> uncommittedQuery[c], hash |-> hash]
       IN /\ preparedTxns' = (id :> [query |-> uncommittedQuery[c], hash |-> hash,
                                     dbCountAtStart |-> dbCountAtStart[c]]) @@ preparedTxns
          /\ \/ /\ TakeSnapshot(c)
                /\ pendingIns' = [pendingIns EXCEPT ![c] = @ \cup {row}]
                /\ commitLock' = c
                /\ mutexLocked' = [mutexLocked EXCEPT ![c] = TRUE]
                /\ uncommittedHash' = [uncommittedHash EXCEPT ![c] = hash]
                /\ pc' = [pc EXCEPT ![c] = "prepared"]
                /\ UNCHANGED <<insideTransaction, autoRolledBack, uncommittedQuery,
                               dbCountAtStart, txnOpen, pendingDel>>
             \/ /\ JournalInsertCanFail
                /\ RollbackBody(c) \* commitLock' and mutexLocked' are its: taken, then released
    /\ UNCHANGED <<lifeVars, journalSize, db, dbVersion, wal, backfilled, commitCount, lastCommittedHash,
                   currentTransactionCount, currentPageCount, checkpointThreadBusy,
                   committedTxns, ckpt, shippedCount>>

\* The journal trimming at the start of commit(): when the journal would
\* exceed _maxJournalSize, delete up to DeleteLimit of the oldest rows of this
\* connection's table whose id < MAX(id) - _maxJournalSize, then recompute the
\* size as MAX(id) - MIN(id) of that table.
\*
\* Mutant: the DELETE uses id <= MAX(id) - _maxJournalSize.
TrimmedIds_OffByOne(c) ==
    LET own    == {r \in TxnView(c) : r.tbl = JournalIndex(c)}
        maxId  == MaxOf(Ids(own))
        old    == {r.id : r \in {s \in own : s.id <= maxId - MaxJournalSize}}
        oldest == {i \in old : Cardinality({j \in old : j < i}) < DeleteLimit}
    IN IF journalSize[c] + 1 > MaxJournalSize THEN oldest ELSE {}

TrimmedIds(c) ==
    LET own    == {r \in TxnView(c) : r.tbl = JournalIndex(c)}
        maxId  == MaxOf(Ids(own))
        old    == {r.id : r \in {s \in own : s.id < maxId - MaxJournalSize}}
        oldest == {i \in old : Cardinality({j \in old : j < i}) < DeleteLimit}
    IN IF journalSize[c] + 1 > MaxJournalSize THEN oldest ELSE {}

NewJournalSize(c) ==
    LET own == {r \in TxnView(c) : r.tbl = JournalIndex(c) /\ r.id \notin TrimmedIds(c)}
    IN IF journalSize[c] + 1 > MaxJournalSize
       THEN MaxOf(Ids(own)) - MinOf(Ids(own))
       ELSE journalSize[c] + 1

\* A COMMIT restarts the WAL from its first frame when every frame has been
\* backfilled and no other reader uses it.
WalRestarts(c) ==
    /\ wal > 0
    /\ backfilled
    /\ \A d \in Conn \ {c} : snapVersion[d] = NoSnap

\* _sqliteWALCallback(pageCount), run inside COMMIT: store the page count;
\* past fullCheckpointPageMin, fetch_add on _checkpointThreadBusy and start the
\* checkpoint thread unless it was already running.
\* The thread takes c's _destructorMutex with it (destructorLock); the owner
\* is recorded only where destruction is modelled.
WALHook(c, pageCount) ==
    /\ currentPageCount' = pageCount
    /\ IF pageCount >= FullCheckpointPageMin
       THEN /\ checkpointThreadBusy' = checkpointThreadBusy + 1
            /\ ckpt' = IF checkpointThreadBusy = 0 THEN "lockWait" ELSE ckpt
            /\ ckptOwner' = IF checkpointThreadBusy = 0 /\ DestroyEnabled THEN c ELSE ckptOwner
       ELSE UNCHANGED <<checkpointThreadBusy, ckpt, ckptOwner>>

\* commit() up to the answer of COMMIT.  SQLITE_OK: the engine applies the
\* transaction and calls the WAL hook.  SQLITE_BUSY_SNAPSHOT (possible only
\* when another COMMIT happened after the snapshot): the transaction stays
\* open with the commit lock held, and the caller must call rollback().
Commit(c) ==
    /\ pc[c] = "prepared"
    /\ LET dels == pendingDel[c] \cup TrimmedIds(c)
       IN \/ \E pages \in PagesPerCommit :
                /\ db' = {r \in db : ~(r.tbl = JournalIndex(c) /\ r.id \in dels)} \cup pendingIns[c]
                /\ dbVersion' = dbVersion + 1
                /\ wal' = IF WalRestarts(c) THEN pages ELSE wal + pages
                /\ backfilled' = FALSE
                /\ WALHook(c, wal')
                /\ CloseEngineTxn(c)
                /\ journalSize' = [journalSize EXCEPT ![c] = NewJournalSize(c)]
                /\ pc' = [pc EXCEPT ![c] = "committed"]
          \/ /\ dbVersion > snapVersion[c]
             /\ pendingDel' = [pendingDel EXCEPT ![c] = dels]
             /\ pc' = [pc EXCEPT ![c] = "conflict"]
             /\ UNCHANGED <<db, dbVersion, wal, backfilled, currentPageCount, checkpointThreadBusy,
                            ckpt, ckptOwner, txnOpen, snapVersion, snapRows, pendingIns, journalSize>>
    /\ UNCHANGED <<alive, crashes, insideTransaction, mutexLocked, autoRolledBack, uncommittedQuery, uncommittedHash,
                   dbCountAtStart, commitLock, commitCount, lastCommittedHash,
                   currentTransactionCount, preparedTxns, committedTxns, shippedCount>>

\* Mutant: incrementCommit moves the prepared transaction before commitCount++.
CommitPublish_ExtractFirst(c) ==
    /\ pc[c] = "committed"
    /\ commitCount' = commitCount + 1
    /\ committedTxns' = IF commitCount \in DOMAIN preparedTxns
                        THEN committedTxns @@ (commitCount :> preparedTxns[commitCount])
                        ELSE committedTxns
    /\ preparedTxns' = [i \in DOMAIN preparedTxns \ {commitCount} |-> preparedTxns[i]]
    /\ lastCommittedHash' = uncommittedHash[c]
    /\ insideTransaction' = [insideTransaction EXCEPT ![c] = FALSE]
    /\ uncommittedHash' = [uncommittedHash EXCEPT ![c] = <<>>]
    /\ uncommittedQuery' = [uncommittedQuery EXCEPT ![c] = <<>>]
    /\ commitLock' = NoConn
    /\ mutexLocked' = [mutexLocked EXCEPT ![c] = FALSE]
    /\ pc' = [pc EXCEPT ![c] = "commitDec"]
    /\ UNCHANGED <<lifeVars, autoRolledBack, dbCountAtStart, journalSize, engineVars, currentTransactionCount,
                   currentPageCount, checkpointThreadBusy, ckpt, shippedCount>>

\* Mutant: incrementCommit does not store lastCommittedHash.
CommitPublish_NoHash(c) ==
    /\ pc[c] = "committed"
    /\ LET id == commitCount + 1
       IN /\ commitCount' = id
          /\ committedTxns' = IF id \in DOMAIN preparedTxns
                              THEN committedTxns @@ (id :> preparedTxns[id])
                              ELSE committedTxns
          /\ preparedTxns' = [i \in DOMAIN preparedTxns \ {id} |-> preparedTxns[i]]
    /\ insideTransaction' = [insideTransaction EXCEPT ![c] = FALSE]
    /\ uncommittedHash' = [uncommittedHash EXCEPT ![c] = <<>>]
    /\ uncommittedQuery' = [uncommittedQuery EXCEPT ![c] = <<>>]
    /\ commitLock' = NoConn
    /\ mutexLocked' = [mutexLocked EXCEPT ![c] = FALSE]
    /\ pc' = [pc EXCEPT ![c] = "commitDec"]
    /\ UNCHANGED <<lifeVars, autoRolledBack, dbCountAtStart, journalSize, engineVars, currentTransactionCount,
                   currentPageCount, checkpointThreadBusy, ckpt, shippedCount, lastCommittedHash>>

\* commit() after SQLITE_OK: SharedData::incrementCommit (commitCount++, the
\* prepared transaction moved to the committed map, lastCommittedHash
\* published), the buffers cleared and the commit lock released.
CommitPublish(c) ==
    /\ pc[c] = "committed"
    /\ LET id == commitCount + 1
       IN /\ commitCount' = id
          /\ committedTxns' = IF id \in DOMAIN preparedTxns
                              THEN committedTxns @@ (id :> preparedTxns[id])
                              ELSE committedTxns
          /\ preparedTxns' = [i \in DOMAIN preparedTxns \ {id} |-> preparedTxns[i]]
    /\ lastCommittedHash' = uncommittedHash[c]
    /\ insideTransaction' = [insideTransaction EXCEPT ![c] = FALSE]
    /\ uncommittedHash' = [uncommittedHash EXCEPT ![c] = <<>>]
    /\ uncommittedQuery' = [uncommittedQuery EXCEPT ![c] = <<>>]
    /\ commitLock' = NoConn
    /\ mutexLocked' = [mutexLocked EXCEPT ![c] = FALSE]
    /\ pc' = [pc EXCEPT ![c] = "commitDec"]
    /\ UNCHANGED <<lifeVars, autoRolledBack, dbCountAtStart, journalSize, engineVars, currentTransactionCount,
                   currentPageCount, checkpointThreadBusy, ckpt, shippedCount>>

\* Mutant: commit() does not lower the count.
CommitDec_NoDecrement(c) ==
    /\ pc[c] = "commitDec"
    /\ NotifyWaitMutexFree
    /\ pc' = [pc EXCEPT ![c] = "commitNotify"]
    /\ UNCHANGED <<lifeVars, insideTransaction, mutexLocked, autoRolledBack, uncommittedQuery,
                   uncommittedHash, dbCountAtStart, journalSize, engineVars, currentTransactionCount,
                   commitLock, commitCount, lastCommittedHash, currentPageCount,
                   checkpointThreadBusy, preparedTxns, committedTxns, ckpt, shippedCount>>

\* currentTransactionCount-- under notifyWaitMutex.
CommitDec(c) ==
    /\ pc[c] = "commitDec"
    /\ NotifyWaitMutexFree
    /\ currentTransactionCount' = currentTransactionCount - 1
    /\ pc' = [pc EXCEPT ![c] = "commitNotify"]
    /\ UNCHANGED <<lifeVars, insideTransaction, mutexLocked, autoRolledBack, uncommittedQuery,
                   uncommittedHash, dbCountAtStart, journalSize, engineVars,
                   commitLock, commitCount, lastCommittedHash, currentPageCount,
                   checkpointThreadBusy, preparedTxns, committedTxns, ckpt, shippedCount>>

\* notify_one(), then the test of _checkpointThreadBusy that decides whether
\* to run a passive checkpoint.
CommitNotify(c) ==
    /\ pc[c] = "commitNotify"
    /\ NotifyCV
    /\ pc' = [pc EXCEPT ![c] = IF checkpointThreadBusy = 0 THEN "passive" ELSE "idle"]
    /\ dbCountAtStart' = [dbCountAtStart EXCEPT ![c] = 0]
    /\ UNCHANGED <<lifeVars, insideTransaction, mutexLocked, autoRolledBack, uncommittedQuery,
                   uncommittedHash, journalSize, engineVars,
                   commitLock, commitCount, lastCommittedHash, currentTransactionCount,
                   currentPageCount, checkpointThreadBusy, preparedTxns, committedTxns, shippedCount>>

\* sqlite3_wal_checkpoint_v2(PASSIVE) without the commit lock: copies as many
\* frames as the readers allow: all of them, or (a reader holding an old
\* snapshot) not all, which for the WAL restart is the same as none.
PassiveCheckpoint(c) ==
    /\ pc[c] = "passive"
    /\ backfilled' \in {backfilled, TRUE}
    /\ pc' = [pc EXCEPT ![c] = "idle"]
    /\ UNCHANGED <<lifeVars, insideTransaction, mutexLocked, autoRolledBack, uncommittedQuery,
                   uncommittedHash, dbCountAtStart, journalSize,
                   txnOpen, snapVersion, snapRows, pendingIns, pendingDel, db, dbVersion, wal,
                   sharedVars>>

-----------------------------------------------------------------------------
(* The checkpoint thread started by the WAL hook                           *)

\* Lock blockNewTransactionsMutex exclusively (the shared holders in
\* waitForCheckpoint() release it at once).
CheckpointLock ==
    /\ ckpt = "lockWait"
    /\ ckpt' = "check"
    /\ UNCHANGED <<lifeVars, connVars, engineVars, commitLock, commitCount, lastCommittedHash,
                   currentTransactionCount, currentPageCount, checkpointThreadBusy,
                   preparedTxns, committedTxns, shippedCount>>

\* Mutant: the checkpoint thread does not wait for the count to reach 0.
CheckpointCheck_NoWait ==
    /\ ckpt = "check"
    /\ IF currentPageCount < FullCheckpointPageMin \div 2
       THEN /\ ckpt' = "exiting"
       ELSE /\ ckpt' = "restart"
    /\ UNCHANGED <<lifeVars, connVars, engineVars, commitLock, commitCount, lastCommittedHash,
                   currentTransactionCount, currentPageCount, checkpointThreadBusy,
                   preparedTxns, committedTxns, shippedCount>>

\* One turn of the loop under notifyWaitMutex: leave the loop when a passive
\* checkpoint brought the page count under half the threshold; otherwise notify the
\* listeners and either go on to the restart checkpoint, still holding the
\* mutex, when no transaction is counted, or wait on the CV.
CheckpointCheck ==
    /\ ckpt = "check"
    /\ IF currentPageCount < FullCheckpointPageMin \div 2
       THEN /\ ckpt' = "exiting"
       ELSE /\ ckpt' = IF currentTransactionCount = 0 THEN "restart" ELSE "waiting"
    /\ UNCHANGED <<lifeVars, connVars, engineVars, commitLock, commitCount, lastCommittedHash,
                   currentTransactionCount, currentPageCount, checkpointThreadBusy,
                   preparedTxns, committedTxns, shippedCount>>

\* sqlite3_wal_checkpoint_v2(RESTART) copies every frame back, the listeners
\* are told checkpointComplete and the loop ends, releasing notifyWaitMutex.
CheckpointRestart ==
    /\ ckpt = "restart"
    /\ backfilled' = TRUE
    /\ ckpt' = "exiting"
    /\ UNCHANGED <<lifeVars, connVars, txnOpen, snapVersion, snapRows, pendingIns, pendingDel, db, dbVersion, wal,
                   commitLock, commitCount, lastCommittedHash, currentTransactionCount,
                   currentPageCount, checkpointThreadBusy, preparedTxns, committedTxns, shippedCount>>

\* After the loop: _checkpointThreadBusy.store(0) -- erasing any fetch_add a
\* WAL hook made since the loop ended -- and the thread returns, releasing
\* blockNewTransactionsMutex.
CheckpointExit ==
    /\ ckpt = "exiting"
    /\ ckpt' = "none"
    /\ checkpointThreadBusy' = 0
    /\ ckptOwner' = NoConn
    /\ UNCHANGED <<alive, crashes, connVars, engineVars, commitLock, commitCount, lastCommittedHash,
                   currentTransactionCount, currentPageCount, preparedTxns, committedTxns, shippedCount>>

\* std::condition_variable::wait may return without a notification.
CheckpointSpuriousWakeup ==
    /\ ckpt = "waiting"
    /\ ckpt' = "check"
    /\ UNCHANGED <<lifeVars, connVars, engineVars, commitLock, commitCount, lastCommittedHash,
                   currentTransactionCount, currentPageCount, checkpointThreadBusy,
                   preparedTxns, committedTxns, shippedCount>>

-----------------------------------------------------------------------------
(* A process crash and the constructors that rebuild the memory            *)

\* initializeSharedData: SELECT MAX(maxIDs) over the UNION of every journal
\* table's MAX(id); an empty journal gives 0.
RecoveredCommitCount(rows) == IF rows = {} THEN 0 ELSE MaxOf(Ids(rows))

\* Mutant: getCommit is asked for the id after the commit count.
RecoveredHash_NextId(rows, id) ==
    LET found == {r \in rows : r.id = id + 1}
    IN IF found = {} THEN <<>> ELSE (CHOOSE r \in found : TRUE).hash

\* getCommit(db, journalNames, id, ...): the hash of the row with that id in
\* any journal table, or "" when there is none.
RecoveredHash(rows, id) ==
    LET found == {r \in rows : r.id = id}
    IN IF found = {} THEN <<>> ELSE (CHOOSE r \in found : TRUE).hash

\* initializeJournalSize: MAX(id) - MIN(id) over the UNION of every journal
\* table; the copy constructor takes the file constructor's value.
RecoveredJournalSize(rows) == IF rows = {} THEN 0 ELSE MaxOf(Ids(rows)) - MinOf(Ids(rows))

\* SharedData::SharedData(): the counters at 0, no prepared or committed
\* transactions.
FreshSharedData ==
    /\ currentTransactionCount' = 0
    /\ currentPageCount' = 0
    /\ checkpointThreadBusy' = 0
    /\ preparedTxns' = <<>>
    /\ committedTxns' = <<>>

\* The process dies between any two steps.  The engine keeps the committed
\* rows and the WAL (frames not backfilled stay in it) and drops every open
\* transaction; every thread, the checkpoint thread included, is gone.  The
\* file constructor and its copies run again: a fresh SharedData (commit
\* count and hash from the journal, the counters and the page count 0, no
\* prepared or committed transactions), new handles with
\* initializeJournalSize's size.  The replication consumer starts over at
\* the recovered commit count.
Restart ==
    /\ crashes < MaxCrashes
    /\ crashes' = crashes + 1
    /\ pc' = [c \in Conn |-> "idle"]
    /\ insideTransaction' = [c \in Conn |-> FALSE]
    /\ mutexLocked' = [c \in Conn |-> FALSE]
    /\ autoRolledBack' = [c \in Conn |-> FALSE]
    /\ uncommittedQuery' = [c \in Conn |-> <<>>]
    /\ uncommittedHash' = [c \in Conn |-> <<>>]
    /\ dbCountAtStart' = [c \in Conn |-> 0]
    /\ journalSize' = [c \in Conn |-> RecoveredJournalSize(db)]
    /\ txnOpen' = [c \in Conn |-> FALSE]
    /\ snapVersion' = [c \in Conn |-> NoSnap]
    /\ snapRows' = [c \in Conn |-> {}]
    /\ pendingIns' = [c \in Conn |-> {}]
    /\ pendingDel' = [c \in Conn |-> {}]
    /\ commitLock' = NoConn
    /\ commitCount' = RecoveredCommitCount(db)
    /\ lastCommittedHash' = RecoveredHash(db, RecoveredCommitCount(db))
    /\ FreshSharedData
    /\ ckpt' = "none"
    /\ shippedCount' = RecoveredCommitCount(db)
    /\ alive' = [c \in Conn |-> TRUE]
    /\ ckptOwner' = NoConn
    /\ UNCHANGED <<db, dbVersion, wal, backfilled>>

-----------------------------------------------------------------------------
(* Destroying a connection                                                 *)

\* The owner of a connection destroys it between two of its calls: idle, or
\* with a transaction begun, prepared, or ended by an error or a conflict
\* but not yet rolled back.
BetweenCalls == {"idle", "waited", "intxn", "error", "prepared", "conflict"}

\* _destructorMutex is free unless the checkpoint thread started by c's WAL
\* hook still runs (it releases the lock when it returns).
DestructorMutexFree(c) == ~(ckpt # "none" /\ ckptOwner = c)

\* ~SQLite() is called; it first locks _destructorMutex.
DestroyBegin(c) ==
    /\ DestroyEnabled
    /\ alive[c]
    /\ pc[c] \in BetweenCalls
    /\ alive' = [alive EXCEPT ![c] = FALSE]
    /\ pc' = [pc EXCEPT ![c] = "destroying"]
    /\ UNCHANGED <<insideTransaction, mutexLocked, autoRolledBack, uncommittedQuery,
                   uncommittedHash, dbCountAtStart, journalSize, engineVars, sharedVars, ckptOwner, crashes>>

\* With the lock: rollback() when _uncommittedQuery is not empty, then
\* sqlite3_close, which ends an engine transaction still open without
\* touching SharedData.
Destructor(c) ==
    /\ pc[c] = "destroying"
    /\ DestructorMutexFree(c)
    /\ IF uncommittedQuery[c] # <<>>
       THEN RollbackBody(c)
       ELSE /\ CloseEngineTxn(c)
            /\ pc' = [pc EXCEPT ![c] = "idle"]
            /\ UNCHANGED <<insideTransaction, mutexLocked, autoRolledBack, uncommittedQuery,
                           uncommittedHash, dbCountAtStart, commitLock>>
    /\ UNCHANGED <<lifeVars, journalSize, db, dbVersion, wal, backfilled, commitCount, lastCommittedHash,
                   currentTransactionCount, currentPageCount, checkpointThreadBusy,
                   preparedTxns, committedTxns, ckpt, shippedCount>>

-----------------------------------------------------------------------------
(* The replication feed                                                    *)

\* popCommittedTransactions(): hand the committed map to the caller and clear it.
PopCommittedTransactions ==
    /\ DOMAIN committedTxns # {}
    /\ committedTxns' = <<>>
    /\ shippedCount' = MaxOf(DOMAIN committedTxns)
    /\ UNCHANGED <<lifeVars, connVars, engineVars, commitLock, commitCount, lastCommittedHash,
                   currentTransactionCount, currentPageCount, checkpointThreadBusy,
                   preparedTxns, ckpt>>

-----------------------------------------------------------------------------
ConnNext(c) ==
    \/ WaitForCheckpoint(c)
    \/ \E exclusive \in BOOLEAN : BeginTransaction(c, exclusive)
    \/ Write(c)
    \/ Prepare(c)
    \/ Commit(c)
    \/ CommitPublish(c)
    \/ CommitDec(c)
    \/ CommitNotify(c)
    \/ PassiveCheckpoint(c)
    \/ Rollback(c)
    \/ RollbackDec(c)
    \/ RollbackNotify(c)
    \/ DestroyBegin(c)
    \/ Destructor(c)

CheckpointNext ==
    \/ CheckpointLock
    \/ CheckpointCheck
    \/ CheckpointRestart
    \/ CheckpointSpuriousWakeup
    \/ CheckpointExit

Next ==
    \/ \E c \in Conn : ConnNext(c)
    \/ CheckpointNext
    \/ ReplicationConsumer /\ PopCommittedTransactions
    \/ Restart

Spec == Init /\ [][Next]_vars

\* The steps a thread takes on its own once started are weakly fair, and so
\* is the checkpoint thread; the user of a connection eventually ends every
\* transaction it opened (prepare, commit or rollback).  Beginning a
\* transaction, the replication consumer and spurious wakeups get no fairness.
FinishTransaction(c) == Prepare(c) \/ Commit(c) \/ Rollback(c)

Fairness ==
    /\ \A c \in Conn :
          /\ WF_vars(FinishTransaction(c))
          /\ WF_vars(CommitPublish(c) \/ CommitDec(c) \/ CommitNotify(c) \/ PassiveCheckpoint(c))
          /\ WF_vars(RollbackDec(c) \/ RollbackNotify(c))
          /\ WF_vars(Destructor(c))
    /\ WF_vars(CheckpointLock \/ CheckpointCheck \/ CheckpointRestart \/ CheckpointExit)

FairSpec == Spec /\ Fairness

-----------------------------------------------------------------------------
(* Properties                                                              *)

PcStates == {"idle", "waited", "intxn", "error", "prepared", "committed", "conflict",
             "commitDec", "commitNotify", "passive", "rbDec", "rbNotify", "destroying"}
Row == [id : 1..MaxCommits, tbl : Tables, query : Query, hash : Seq(Query)]

TypeOK ==
    /\ pc \in [Conn -> PcStates]
    /\ insideTransaction \in [Conn -> BOOLEAN]
    /\ mutexLocked \in [Conn -> BOOLEAN]
    /\ autoRolledBack \in [Conn -> BOOLEAN]
    /\ uncommittedQuery \in [Conn -> Query]
    /\ \A c \in Conn : uncommittedHash[c] \in Seq(Query)
    /\ dbCountAtStart \in [Conn -> 0..MaxCommits]
    /\ journalSize \in [Conn -> 0..MaxCommits]
    /\ txnOpen \in [Conn -> BOOLEAN]
    /\ snapVersion \in [Conn -> {NoSnap} \cup 0..MaxCommits]
    /\ \A c \in Conn : snapRows[c] \cup pendingIns[c] \subseteq Row
    /\ commitLock \in Conn \cup {NoConn}
    /\ commitCount \in 0..MaxCommits
    /\ lastCommittedHash \in Seq(Query)
    /\ currentTransactionCount \in 0..NConn
    /\ checkpointThreadBusy \in Nat
    /\ DOMAIN preparedTxns \subseteq 1..MaxCommits
    /\ DOMAIN committedTxns \subseteq 1..MaxCommits
    /\ ckpt \in {"none", "lockWait", "check", "waiting", "restart", "exiting"}
    /\ db \subseteq Row
    /\ backfilled \in BOOLEAN
    /\ alive \in [Conn -> BOOLEAN]
    /\ ckptOwner \in Conn \cup {NoConn}
    /\ crashes \in 0..MaxCrashes

\* The history the journal must agree with: the published hash, or the hash
\* of the commit the engine has applied but commit() has not yet published.
CommittedChain ==
    IF \E c \in Conn : pc[c] = "committed"
    THEN uncommittedHash[CHOOSE c \in Conn : pc[c] = "committed"]
    ELSE lastCommittedHash

\* Journal hash chain (prepare, commit): every journal row of every table is
\* the row of one commit of a single history -- its query is that commit's
\* query and its hash is SHA1 chained over every query up to it -- and no id
\* appears twice, although connections prepare concurrently, write to
\* different tables and may see COMMIT conflicts.
JournalMatchesHistory ==
    /\ \A r \in db :
          /\ r.id <= Len(CommittedChain)
          /\ r.query = CommittedChain[r.id]
          /\ r.hash = SubSeq(CommittedChain, 1, r.id)
    /\ \A r1, r2 \in db : r1.id = r2.id => r1 = r2

\* Journal trimming (commit): the DELETE of old rows keeps the newest commit
\* and the _maxJournalSize before it, whichever connection's table holds them
\* and although the DELETE runs on a snapshot that other commits may have
\* passed.  Counted over the history the database holds (CommittedChain).
RecentCommitsRetained ==
    LET n == Len(CommittedChain)
    IN \A i \in 1..n : i >= n - MaxJournalSize => i \in Ids(db)

\* Crash consistency (commit, incrementCommit, initializeSharedData,
\* getCommit): at every moment the published commitCount and
\* lastCommittedHash are what the constructors would rebuild from the
\* journal if the process died now -- the highest id of any table and that
\* row's hash -- one behind only while a commit the engine applied is being
\* published; across conflicts, trimming on old snapshots, the checkpoint
\* thread, destruction and earlier crashes.
PublishedMatchesJournal ==
    LET inFlight == IF \E c \in Conn : pc[c] = "committed" THEN 1 ELSE 0
        top      == IF db = {} THEN 0 ELSE MaxOf(Ids(db))
    IN /\ commitCount = top - inFlight
       /\ commitCount > 0 => \E r \in db : r.id = commitCount /\ r.hash = lastCommittedHash
       /\ commitCount = 0 => lastCommittedHash = <<>>

\* Replication feed (prepareTransactionInfo, incrementCommit,
\* popCommittedTransactions): every commit is handed out exactly once, in id
\* order, with the query and hash of the published history, and with the
\* dbCountAtStart of its transaction, which lies before it.
ReplicationFeedExact ==
    /\ DOMAIN committedTxns = (shippedCount + 1)..commitCount
    /\ \A i \in DOMAIN committedTxns :
          /\ committedTxns[i].query = lastCommittedHash[i]
          /\ committedTxns[i].hash = SubSeq(lastCommittedHash, 1, i)
          /\ committedTxns[i].dbCountAtStart < i

\* Checkpoint drain (checkpoint thread, beginTransaction): while the restart
\* checkpoint runs no connection has an engine transaction open, although
\* beginTransaction only waits on blockNewTransactionsMutex before it starts.
NoTransactionDuringRestart ==
    ckpt = "restart" => \A c \in Conn : ~txnOpen[c]

\* currentTransactionCount (beginTransaction, commit, rollback, prepare's
\* failure path): the count is the number of connections between the
\* increment in beginTransaction and the decrement in commit or rollback.
\* A connection waiting in its destructor still counts when it was inside a
\* transaction (the destructor is to roll it back).
CountedPcs == {"intxn", "error", "prepared", "committed", "conflict", "commitDec", "rbDec"}
Counted(c) == pc[c] \in CountedPcs \/ (pc[c] = "destroying" /\ insideTransaction[c])
TransactionCountMatches ==
    currentTransactionCount = Cardinality({c \in Conn : Counted(c)})

\* The checkpoint thread (WAL hook, commit, rollback): once started it
\* eventually ends, so that blockNewTransactionsMutex is released, provided
\* the users end their transactions.
CheckpointCompletes == ckpt # "none" ~> ckpt = "none"

\* Destruction (~SQLite, rollback, the checkpoint thread's destructorLock):
\* a connection whose destructor has been called is eventually closed with
\* its transaction ended -- rolled back, so that currentTransactionCount no
\* longer counts it -- although the checkpoint thread its own WAL hook
\* started holds _destructorMutex until it returns.
DestructorCompletes ==
    \A c \in Conn : pc[c] = "destroying" ~> (pc[c] = "idle" /\ ~insideTransaction[c])

\* Full checkpoints (WAL hook, checkpoint thread, commit's passive
\* checkpoint): once a commit leaves the WAL at fullCheckpointPageMin pages
\* or more, its frames are eventually copied back to the database -- by the
\* checkpoint thread the hook starts, or by the one already running -- even
\* when no further commit comes to call the hook again.
WalCheckpointedEventually ==
    (currentPageCount >= FullCheckpointPageMin /\ ~backfilled) ~> backfilled

\* Journal striping (copy constructor, prepare): spec section 4.1 says the
\* plain "journal" table is reserved for the connection built from the file
\* name, so no copied connection inserts its journal row there.
StripedJournalsAvoidPlain ==
    \A c \in Conn \ {1} : \A r \in pendingIns[c] : r.tbl # 0

\* SharedData implements CommitLog: lastCommittedHash is the history and
\* commitCount its length; every change appends exactly one query.
CL == INSTANCE CommitLog WITH Value <- Query, log <- lastCommittedHash, count <- commitCount
CommitLogSpec == CL!Spec
=============================================================================
