--------------------------- MODULE JournalRecovery ---------------------------
(***************************************************************************)
(* The journal of src/sqlitecluster/SQLite.cpp across process crashes.     *)
(*                                                                         *)
(* What survives a crash is the database file: the rows of the journal     *)
(* tables "journal", "journal0000", ... committed by the engine.  What is  *)
(* lost is everything in memory: SharedData (commitCount,                  *)
(* lastCommittedHash, the commit lock) and every connection (its prepared  *)
(* row, its _journalSize).  On restart the constructors rebuild the memory *)
(* from the file: initializeJournal finds the tables, initializeSharedData *)
(* takes commitCount = MAX(id) over all of them and lastCommittedHash from *)
(* getCommit(commitCount), and initializeJournalSize takes MAX(id) - MIN(id)*)
(* over all of them for every connection.                                  *)
(*                                                                         *)
(* Commits are serialised by the commit lock from prepare() to the end of  *)
(* commit(); the engine's snapshot conflicts and the checkpoint thread are *)
(* the business of SQLite.tla and left out here.  A query is the           *)
(* connection that committed it; a hash is the sequence of queries up to   *)
(* it (SHA-1 taken as collision-free).                                     *)
(***************************************************************************)
EXTENDS Naturals, Sequences, FiniteSets

CONSTANTS
    Conn,            \* the connections, the file constructor's and its copies
    TableOf,         \* TableOf[c]: index into _journalNames of c's _journalName
    NTables,         \* _journalNames.size()
    MaxJournalSize,  \* _maxJournalSize
    DeleteLimit,     \* the LIMIT of the trimming DELETE
    MaxCommits,      \* bound on the commits (model bound)
    MaxCrashes,      \* bound on the crashes (model bound)
    NoConn

ASSUME /\ TableOf \in [Conn -> 0..(NTables - 1)]
       /\ {MaxJournalSize, DeleteLimit, MaxCommits} \subseteq Nat \ {0}
       /\ MaxCrashes \in Nat

VARIABLES
    rows,               \* durable: the committed journal rows [id, tbl, hash]
    history,            \* durable: the queries the engine committed, in order (history)
    commitCount,        \* SharedData::commitCount
    lastCommittedHash,  \* SharedData::lastCommittedHash
    commitLock,         \* holder of SharedData::commitLock, or NoConn
    pc,                 \* "idle", "prepared" (row inserted, not committed), "committed"
    pending,            \* the journal row prepare() inserted in c's open transaction
    journalSize,        \* _journalSize of each connection
    crashes

vars == <<rows, history, commitCount, lastCommittedHash, commitLock, pc, pending,
          journalSize, crashes>>

NoRow == [id |-> 0, tbl |-> 0, hash |-> <<>>]
Ids(rs) == {r.id : r \in rs}
MaxId(rs) == IF rs = {} THEN 0 ELSE CHOOSE i \in Ids(rs) : \A j \in Ids(rs) : i >= j
MinId(rs) == IF rs = {} THEN 0 ELSE CHOOSE i \in Ids(rs) : \A j \in Ids(rs) : i <= j

-----------------------------------------------------------------------------
(* Restart: the initializers                                               *)

\* Mutant: the commit count is the number of journal rows.
RecoveredCommitCount_RowCount(rs) == Cardinality(rs)

\* initializeSharedData: SELECT MAX(maxIDs) over the UNION of
\* SELECT MAX(id) of every journal table; an empty journal gives 0.
RecoveredCommitCount(rs) == MaxId(rs)

\* Mutant: getCommit looks in the plain "journal" table only.
RecoveredHash_PlainTable(rs, id) ==
    LET found == {r \in rs : r.id = id /\ r.tbl = 0}
    IN IF found = {} THEN <<>> ELSE (CHOOSE r \in found : TRUE).hash

\* getCommit(db, journalNames, id, query, hash): the hash of the row with
\* that id in any journal table, or "" when there is none.
RecoveredHash(rs, id) ==
    LET found == {r \in rs : r.id = id}
    IN IF found = {} THEN <<>> ELSE (CHOOSE r \in found : TRUE).hash

\* initializeJournalSize: MAX(id) - MIN(id) over the UNION of all journal
\* tables (both 0 on an empty journal); the copies take it from the first.
RecoveredJournalSize(rs) == MaxId(rs) - MinId(rs)

\* The process dies at any point and the SQLite objects are built again.
\* The engine rolls back every open transaction; committed rows stay.
Restart ==
    /\ crashes < MaxCrashes
    /\ crashes' = crashes + 1
    /\ commitCount' = RecoveredCommitCount(rows)
    /\ lastCommittedHash' = RecoveredHash(rows, RecoveredCommitCount(rows))
    /\ journalSize' = [c \in Conn |-> RecoveredJournalSize(rows)]
    /\ commitLock' = NoConn
    /\ pc' = [c \in Conn |-> "idle"]
    /\ pending' = [c \in Conn |-> NoRow]
    /\ UNCHANGED <<rows, history>>

-----------------------------------------------------------------------------
(* Committing                                                              *)

\* prepare(): take the commit lock, hash lastCommittedHash with the query and
\* INSERT row commitCount + 1 into this connection's journal table.
Prepare(c) ==
    /\ pc[c] = "idle"
    /\ commitLock = NoConn
    /\ commitLock' = c
    /\ pending' = [pending EXCEPT ![c] = [id |-> commitCount + 1, tbl |-> TableOf[c],
                                           hash |-> Append(lastCommittedHash, c)]]
    /\ pc' = [pc EXCEPT ![c] = "prepared"]
    /\ UNCHANGED <<rows, history, commitCount, lastCommittedHash, journalSize, crashes>>

\* Mutant: rollback() does not release the commit lock.
Rollback_KeepsLock(c) ==
    /\ pc[c] = "prepared"
    /\ pending' = [pending EXCEPT ![c] = NoRow]
    /\ pc' = [pc EXCEPT ![c] = "idle"]
    /\ UNCHANGED <<rows, history, commitCount, lastCommittedHash, commitLock, journalSize, crashes>>

\* rollback() of a prepared transaction: the row is gone, the lock released.
Rollback(c) ==
    /\ pc[c] = "prepared"
    /\ commitLock' = NoConn
    /\ pending' = [pending EXCEPT ![c] = NoRow]
    /\ pc' = [pc EXCEPT ![c] = "idle"]
    /\ UNCHANGED <<rows, history, commitCount, lastCommittedHash, journalSize, crashes>>

\* The rows of c's journal table that its open transaction sees.
OwnTable(c) == {r \in rows : r.tbl = TableOf[c]} \cup {pending[c]}

\* The trimming DELETE of commit(): when _journalSize + 1 > _maxJournalSize,
\* the DeleteLimit oldest rows of c's table with id < MAX(id) - _maxJournalSize.
TrimmedIds(c) ==
    LET old == {i \in Ids(OwnTable(c)) : i + MaxJournalSize < MaxId(OwnTable(c))}
    IN IF journalSize[c] + 1 > MaxJournalSize
       THEN {i \in old : Cardinality({j \in old : j < i}) < DeleteLimit}
       ELSE {}

\* The new _journalSize: MAX(id) - MIN(id) of c's table after the DELETE, or
\* the old size + 1 when nothing was trimmed.
NewJournalSize(c) ==
    LET kept == {r \in OwnTable(c) : r.id \notin TrimmedIds(c)}
    IN IF journalSize[c] + 1 > MaxJournalSize
       THEN MaxId(kept) - MinId(kept)
       ELSE journalSize[c] + 1

\* commit() up to COMMIT: the DELETE and the prepared INSERT become durable
\* together.
Commit(c) ==
    /\ pc[c] = "prepared"
    /\ Len(history) < MaxCommits
    /\ rows' = {r \in rows : ~(r.tbl = TableOf[c] /\ r.id \in TrimmedIds(c))} \cup {pending[c]}
    /\ history' = Append(history, c)
    /\ journalSize' = [journalSize EXCEPT ![c] = NewJournalSize(c)]
    /\ pc' = [pc EXCEPT ![c] = "committed"]
    /\ UNCHANGED <<commitCount, lastCommittedHash, commitLock, pending, crashes>>

\* The rest of commit(): SharedData::incrementCommit publishes the count and
\* the hash, and the commit lock is released.
Publish(c) ==
    /\ pc[c] = "committed"
    /\ commitCount' = commitCount + 1
    /\ lastCommittedHash' = pending[c].hash
    /\ commitLock' = NoConn
    /\ pending' = [pending EXCEPT ![c] = NoRow]
    /\ pc' = [pc EXCEPT ![c] = "idle"]
    /\ UNCHANGED <<rows, history, journalSize, crashes>>

-----------------------------------------------------------------------------
Init ==
    /\ rows = {}
    /\ history = <<>>
    /\ commitCount = RecoveredCommitCount({})
    /\ lastCommittedHash = RecoveredHash({}, 0)
    /\ commitLock = NoConn
    /\ pc = [c \in Conn |-> "idle"]
    /\ pending = [c \in Conn |-> NoRow]
    /\ journalSize = [c \in Conn |-> RecoveredJournalSize({})]
    /\ crashes = 0

Next ==
    \/ Restart
    \/ \E c \in Conn : Prepare(c) \/ Rollback(c) \/ Commit(c) \/ Publish(c)

Spec == Init /\ [][Next]_vars

-----------------------------------------------------------------------------
(* Properties                                                              *)

TypeOK ==
    /\ commitCount \in 0..MaxCommits
    /\ commitLock \in Conn \cup {NoConn}
    /\ pc \in [Conn -> {"idle", "prepared", "committed"}]
    /\ journalSize \in [Conn -> 0..MaxCommits]
    /\ crashes \in 0..MaxCrashes
    \* the commit lock is held by the one connection between prepare and publish
    /\ \A c \in Conn : (pc[c] # "idle") = (commitLock = c)

\* The journal across restarts (prepare, commit, initializeSharedData): every
\* journal row, in whichever table, is the commit of its id -- ids are never
\* reused after a restart and each row's hash chains every earlier commit.
JournalIsChain ==
    \A r \in rows :
        /\ r.id \in 1..Len(history)
        /\ r.hash = SubSeq(history, 1, r.id)

\* The published state after a restart (initializeSharedData, getCommit,
\* incrementCommit): commitCount and lastCommittedHash name the last durable
\* commit, one behind only while a committed transaction is being published,
\* so the next prepare() chains onto the right hash.
PublishedIsDurable ==
    LET inFlight == IF \E c \in Conn : pc[c] = "committed" THEN 1 ELSE 0
    IN /\ commitCount = Len(history) - inFlight
       /\ lastCommittedHash = SubSeq(history, 1, commitCount)
=============================================================================
