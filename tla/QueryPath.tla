------------------------------ MODULE QueryPath ------------------------------
(***************************************************************************)
(* The statement path of one connection of src/sqlitecluster/SQLite.cpp:   *)
(* read() with its per-connection query cache, write(), writeIdempotent()  *)
(* and writeUnmodified() with the rewrite of denied queries, noop-update  *)
(* mode, and the authorizer callback (_authorize) that decides, for every  *)
(* action of a statement, whether it is allowed, ignored or denied, whether*)
(* the statement is deterministic, and whether it is to be rewritten.     *)
(*                                                                         *)
(* A statement is a model value; what the engine asks the authorizer about *)
(* it is the set Calls[q] of [action, d1, d2] records.  The data is        *)
(* abstracted to its history: the version committed by the other          *)
(* connections (dbVersion) and the statements this transaction applied    *)
(* (ownWrites).  A read returns its statement, the snapshot it reads, the  *)
(* transaction's own writes and the columns the authorizer blanked out.    *)
(***************************************************************************)
EXTENDS Naturals, Sequences, SequencesExt

CONSTANTS
    Statements,     \* the SQL statements the caller issues (model values)
    Calls,          \* Calls[q]: the authorizer calls the engine makes for q
    Modifies,       \* the statements that change rows when applied
    RewriteOf,      \* RewriteOf[q]: what the rewrite handler returns for q, or NoQuery
    NoQuery,        \* an empty _rewrittenQuery
    Whitelists,     \* the whitelists a caller may install: sets of <<table, column>>
    NoWhitelist,    \* whitelist == nullptr
    MaxCommits,     \* bound on the commits of other connections (model bound)
    MaxStatements   \* bound on the statements of one transaction (model bound)

\* The function names _authorize treats as non-deterministic.
NonDeterministicFunctions ==
    {"random", "date", "time", "datetime", "julianday", "strftime", "changes",
     "last_insert_rowid", "sqlite3_version"}

\* The authorizer action codes _authorize always denies in whitelist mode.
WhitelistDenied ==
    {"CREATE_INDEX", "CREATE_TABLE", "CREATE_TEMP_INDEX", "CREATE_TEMP_TABLE",
     "CREATE_TEMP_TRIGGER", "CREATE_TEMP_VIEW", "CREATE_TRIGGER", "CREATE_VIEW", "DELETE",
     "DROP_INDEX", "DROP_TABLE", "DROP_TEMP_INDEX", "DROP_TEMP_TABLE", "DROP_TEMP_TRIGGER",
     "DROP_TEMP_VIEW", "DROP_TRIGGER", "DROP_VIEW", "INSERT", "TRANSACTION", "UPDATE",
     "ATTACH", "DETACH", "ALTER_TABLE", "REINDEX", "CREATE_VTABLE", "DROP_VTABLE",
     "SAVEPOINT", "COPY", "RECURSIVE"}

\* What setUpdateNoopMode() sends and records: PRAGMA noop_update=ON/OFF.
NoopPragma(enabled) == [noop |-> enabled]
NoopPragmaCall == [action |-> "PRAGMA", d1 |-> "noop_update", d2 |-> "ON"]

VARIABLES
    dbVersion,           \* commits of the other connections (and of this one)
    insideTransaction,   \* _insideTransaction
    snapshot,            \* the version the open transaction reads, or -1 before its first statement
    ownWrites,           \* the statements the open transaction applied, in order
    uncommittedQuery,    \* _uncommittedQuery, as the sequence of appended statements
    queryCache,          \* _queryCache: statement -> result
    noopUpdateMode,      \* _noopUpdateMode
    engineNoop,          \* the engine's noop_update setting
    noopAtBegin,         \* history: engineNoop when the transaction began
    enableRewrite,       \* _enableRewrite
    rewrittenQuery,      \* _rewrittenQuery
    whitelist            \* the whitelist pointer

vars == <<dbVersion, insideTransaction, snapshot, ownWrites, uncommittedQuery, queryCache,
          noopUpdateMode, engineNoop, noopAtBegin, enableRewrite, rewrittenQuery, whitelist>>

-----------------------------------------------------------------------------
(* _authorize                                                              *)

\* The whitelist switch of _authorize for one call.
WhitelistVerdict(call) ==
    CASE call.action \in WhitelistDenied -> "DENY"
      [] call.action \in {"SELECT", "ANALYZE", "FUNCTION"} -> "OK"
      [] call.action = "PRAGMA" ->
            IF call.d1 = "schema_version" /\ call.d2 = "" THEN "OK" ELSE "DENY"
      [] call.action = "READ" ->
            IF <<call.d1, call.d2>> \in whitelist THEN "OK" ELSE "IGNORE"
      [] OTHER -> "DENY"

\* The rewrite handler fires on the first call of q when rewriting is on and
\* the rewritten query is not the one running.
RewriteFires(q, runningRewritten) ==
    enableRewrite /\ ~runningRewritten /\ RewriteOf[q] # NoQuery

\* _authorize(call) while the engine prepares q.
Authorize(q, call, runningRewritten) ==
    IF RewriteFires(q, runningRewritten) THEN "DENY"
    ELSE IF whitelist = NoWhitelist THEN "OK"
    ELSE WhitelistVerdict(call)

\* The engine refuses the statement (SQLITE_AUTH) when a call is denied.
Denied(q, runningRewritten) ==
    \E call \in Calls[q] : Authorize(q, call, runningRewritten) = "DENY"

\* _isDeterministicQuery after the authorizer saw q.
Deterministic(q) ==
    ~\E call \in Calls[q] : call.action = "FUNCTION" /\ call.d2 \in NonDeterministicFunctions

\* The columns the authorizer blanks out (SQLITE_IGNORE reads as NULL).
Ignored(q) == {call \in Calls[q] : Authorize(q, call, FALSE) = "IGNORE"}

-----------------------------------------------------------------------------
(* The engine                                                              *)

\* The snapshot a statement of the open transaction reads: taken at the
\* first statement after BEGIN CONCURRENT.
ReadVersion == IF ~insideTransaction THEN dbVersion
               ELSE IF snapshot = -1 THEN dbVersion ELSE snapshot

TakeSnapshot ==
    snapshot' = IF insideTransaction /\ snapshot = -1 THEN dbVersion ELSE snapshot

\* What a read of q returns; a non-deterministic function adds a value the
\* engine picks afresh at every run.
ReadResult(q, version, nonce) ==
    [stmt |-> q, version |-> version, own |-> IF insideTransaction THEN ownWrites ELSE <<>>,
     ignored |-> Ignored(q), nonce |-> nonce]

\* Applying a statement under a noop_update setting changes rows only when
\* the statement modifies rows and noop_update is off.
Changes(q, noop) == q \in Modifies /\ ~noop

\* What a replica that starts in noop mode m ends with after applying the
\* recorded statements of a transaction in order.
ReplayStep(st, x) ==
    IF x \in Statements
    THEN [st EXCEPT !.applied = IF Changes(x, st.noop) THEN Append(@, x) ELSE @]
    ELSE [st EXCEPT !.noop = x.noop]
Replay(log, m) == FoldLeft(ReplayStep, [noop |-> m, applied |-> <<>>], log).applied

EmptyCache == [q \in {} |-> NoQuery]

\* The authorizer call of BEGIN CONCURRENT and ROLLBACK.
TransactionCall == [action |-> "TRANSACTION", d1 |-> "", d2 |-> ""]

\* Under a whitelist the engine refuses BEGIN, ROLLBACK and the journal
\* INSERT of prepare(): all are in the always-denied list.
TransactionDenied == whitelist # NoWhitelist /\ WhitelistVerdict(TransactionCall) = "DENY"

Init ==
    /\ dbVersion = 0
    /\ insideTransaction = FALSE
    /\ snapshot = -1
    /\ ownWrites = <<>>
    /\ uncommittedQuery = <<>>
    /\ queryCache = EmptyCache
    /\ noopUpdateMode = FALSE
    /\ engineNoop = FALSE
    /\ noopAtBegin = FALSE
    /\ enableRewrite = FALSE
    /\ rewrittenQuery = NoQuery
    /\ whitelist = NoWhitelist

-----------------------------------------------------------------------------
(* Policy set by the caller                                                *)

\* enableRewrite(enable).
EnableRewrite(enable) ==
    /\ enableRewrite # enable
    /\ enableRewrite' = enable
    /\ UNCHANGED <<dbVersion, insideTransaction, snapshot, ownWrites, uncommittedQuery, queryCache,
                   noopUpdateMode, engineNoop, noopAtBegin, rewrittenQuery, whitelist>>

\* The public whitelist pointer, assigned by the caller at any time, inside
\* a transaction too: it is the only way statements run under a whitelist,
\* since BEGIN is refused under one.
SetWhitelist(w) ==
    /\ whitelist' = w
    /\ UNCHANGED <<dbVersion, insideTransaction, snapshot, ownWrites, uncommittedQuery, queryCache,
                   noopUpdateMode, engineNoop, noopAtBegin, enableRewrite, rewrittenQuery>>

\* Mutant: the PRAGMA is recorded outside a transaction too.
RecordNoopPragma_Always == TRUE

\* setUpdateNoopMode records the PRAGMA only inside a transaction.
RecordNoopPragma == insideTransaction

\* setUpdateNoopMode(enabled): nothing when unchanged; otherwise send PRAGMA
\* noop_update (its result is not checked: the authorizer denies it in
\* whitelist mode), set the flag, and record the PRAGMA for replication.
SetUpdateNoopMode(enabled) ==
    /\ noopUpdateMode # enabled
    /\ Len(uncommittedQuery) < MaxStatements
    /\ engineNoop' = IF whitelist = NoWhitelist \/ WhitelistVerdict(NoopPragmaCall) # "DENY"
                     THEN enabled ELSE engineNoop
    /\ noopUpdateMode' = enabled
    /\ uncommittedQuery' = IF RecordNoopPragma THEN Append(uncommittedQuery, NoopPragma(enabled))
                           ELSE uncommittedQuery
    /\ UNCHANGED <<dbVersion, insideTransaction, snapshot, ownWrites, queryCache, noopAtBegin,
                   enableRewrite, rewrittenQuery, whitelist>>

-----------------------------------------------------------------------------
(* Transactions                                                            *)

\* Another connection commits.
OtherCommit ==
    /\ dbVersion < MaxCommits
    /\ dbVersion' = dbVersion + 1
    /\ UNCHANGED <<insideTransaction, snapshot, ownWrites, uncommittedQuery, queryCache,
                   noopUpdateMode, engineNoop, noopAtBegin, enableRewrite, rewrittenQuery,
                   whitelist>>

\* beginTransaction(): _insideTransaction = !SQuery("BEGIN CONCURRENT"),
\* false when the whitelist refuses it; the cache is cleared either way.
BeginTransaction ==
    /\ ~insideTransaction
    /\ insideTransaction' = ~TransactionDenied
    /\ snapshot' = -1
    /\ ownWrites' = <<>>
    /\ queryCache' = EmptyCache
    /\ noopAtBegin' = engineNoop
    /\ UNCHANGED <<dbVersion, uncommittedQuery, noopUpdateMode, engineNoop, enableRewrite,
                   rewrittenQuery, whitelist>>

\* The end of commit() or rollback(): the buffers and the cache cleared.
EndTransactionVars(committed) ==
    /\ insideTransaction
    /\ dbVersion' = IF committed THEN dbVersion + 1 ELSE dbVersion
    /\ insideTransaction' = FALSE
    /\ snapshot' = -1
    /\ ownWrites' = <<>>
    /\ uncommittedQuery' = <<>>
    /\ queryCache' = EmptyCache
    /\ UNCHANGED <<noopUpdateMode, engineNoop, noopAtBegin, enableRewrite, rewrittenQuery,
                   whitelist>>

Commit == dbVersion < MaxCommits /\ ~TransactionDenied /\ EndTransactionVars(TRUE)

Rollback == ~TransactionDenied /\ EndTransactionVars(FALSE)

\* A SASSERT aborts the process; on restart the engine has rolled the open
\* transaction back and the connection is constructed afresh.
AbortedRestart ==
    /\ insideTransaction' = FALSE
    /\ snapshot' = -1
    /\ ownWrites' = <<>>
    /\ uncommittedQuery' = <<>>
    /\ queryCache' = EmptyCache
    /\ noopUpdateMode' = FALSE
    /\ engineNoop' = FALSE
    /\ enableRewrite' = FALSE
    /\ rewrittenQuery' = NoQuery
    /\ whitelist' = NoWhitelist
    /\ UNCHANGED <<dbVersion, noopAtBegin>>

\* commit() or rollback() under a whitelist: prepare's journal INSERT is
\* denied and its rollback(), like a direct one, sends a ROLLBACK that is
\* denied too, so SASSERT(!SQuery(..."ROLLBACK")) aborts.
AbortOnDeniedEnd ==
    /\ insideTransaction
    /\ TransactionDenied
    /\ AbortedRestart

-----------------------------------------------------------------------------
(* Statements                                                              *)

\* _rewrittenQuery after q was prepared: the handler's rewrite of q if it
\* fired, otherwise whatever an earlier statement left there.
RewrittenAfter(q) == IF RewriteFires(q, FALSE) THEN RewriteOf[q] ELSE rewrittenQuery

\* read(query, result), on a cache miss (a hit changes nothing but the
\* statistics): run the query with _isDeterministicQuery set; cache the
\* result if it succeeded and the authorizer saw no non-deterministic
\* function.  read() is used for statements that change no rows.
Read(q) ==
    /\ q \notin DOMAIN queryCache
    /\ q \notin Modifies
    /\ \E nonce \in IF Deterministic(q) THEN {0} ELSE {0, 1} :
          LET ok == ~Denied(q, FALSE)
          IN /\ queryCache' = IF ok /\ Deterministic(q)
                              THEN queryCache @@ (q :> ReadResult(q, ReadVersion, nonce))
                              ELSE queryCache
             /\ IF ok THEN TakeSnapshot ELSE UNCHANGED snapshot
    /\ rewrittenQuery' = RewrittenAfter(q)      \* the handler is consulted for reads too
    /\ UNCHANGED <<dbVersion, insideTransaction, ownWrites, uncommittedQuery, noopUpdateMode,
                   engineNoop, noopAtBegin, enableRewrite, whitelist>>

\* Mutant: _writeIdempotent does not clear the cache.
CacheAfterWrite_Kept == queryCache

\* _writeIdempotent clears the cache before the statement runs.
CacheAfterWrite == EmptyCache

\* _uncommittedQuery += usedRewrittenQuery ? _rewrittenQuery : query.
RecordedStatement(q, ran) == ran

\* The statement _writeIdempotent runs for q: with rewriting on, any
\* SQLITE_AUTH makes it run _rewrittenQuery.
RanStatement(q) == IF enableRewrite /\ Denied(q, FALSE) THEN RewrittenAfter(q) ELSE q

\* write(q) (not in noop mode), writeIdempotent(q) or writeUnmodified(q):
\* _writeIdempotent(q, alwaysKeepQueries).  The statement that ran is
\* applied if no authorizer call denied it, and recorded when it changed
\* rows or the caller keeps every query.
WriteStatement(q, kind) ==
    LET ran == RanStatement(q)
        runningRewritten == enableRewrite /\ Denied(q, FALSE)
        ok == ~Denied(ran, runningRewritten)
        changed == ok /\ Changes(ran, engineNoop)
    IN /\ insideTransaction
       /\ kind = "write" => ~noopUpdateMode
       /\ ran # NoQuery                      \* SASSERT(SEndsWith(_rewrittenQuery, ";"))
       /\ Len(uncommittedQuery) < MaxStatements
       /\ queryCache' = CacheAfterWrite
       /\ rewrittenQuery' = RewrittenAfter(q)
       /\ ownWrites' = IF changed THEN Append(ownWrites, ran) ELSE ownWrites
       /\ uncommittedQuery' = IF ok /\ (kind = "unmodified" \/ changed)
                              THEN Append(uncommittedQuery, RecordedStatement(q, ran))
                              ELSE uncommittedQuery
       /\ IF ok THEN TakeSnapshot ELSE UNCHANGED snapshot
       /\ UNCHANGED <<dbVersion, insideTransaction, noopUpdateMode, engineNoop, noopAtBegin,
                      enableRewrite, whitelist>>

\* The SASSERT on an empty _rewrittenQuery aborts the process; on restart
\* the engine has rolled the open transaction back and the connection is new.
AbortOnEmptyRewrite(q) ==
    /\ insideTransaction
    /\ RanStatement(q) = NoQuery
    /\ AbortedRestart

-----------------------------------------------------------------------------
Next ==
    \/ \E b \in BOOLEAN : EnableRewrite(b)
    \/ \E w \in Whitelists \cup {NoWhitelist} : SetWhitelist(w)
    \/ \E b \in BOOLEAN : SetUpdateNoopMode(b)
    \/ OtherCommit
    \/ BeginTransaction
    \/ Commit
    \/ Rollback
    \/ AbortOnDeniedEnd
    \/ \E q \in Statements : Read(q)
    \/ \E q \in Statements, kind \in {"write", "idempotent", "unmodified"} : WriteStatement(q, kind)
    \/ \E q \in Statements : AbortOnEmptyRewrite(q)

Spec == Init /\ [][Next]_vars

-----------------------------------------------------------------------------
(* Properties                                                              *)

TypeOK ==
    /\ dbVersion \in 0..MaxCommits
    /\ snapshot \in {-1} \cup 0..dbVersion
    /\ ownWrites \in Seq(Modifies)
    /\ DOMAIN queryCache \subseteq Statements \ Modifies
    /\ {insideTransaction, noopUpdateMode, engineNoop, noopAtBegin, enableRewrite} \subseteq BOOLEAN
    /\ rewrittenQuery \in Statements \cup {NoQuery}
    /\ whitelist \in Whitelists \cup {NoWhitelist}
    \* beginTransaction asserts _uncommittedQuery.empty()
    /\ ~insideTransaction => uncommittedQuery = <<>>

\* Query cache (read, _writeIdempotent): inside a transaction, every cached
\* result is what running the query now would read -- the query is
\* deterministic, and the transaction's snapshot and its own writes are
\* those it was cached under -- although writes of this connection and
\* commits of others happen in between.  The columns the whitelist blanks
\* out are those of the whitelist in force when the result was cached
\* (spec, testable property 6: a cached result is re-served until the next
\* write, commit or rollback).
CacheServesCurrent ==
    insideTransaction =>
        \A q \in DOMAIN queryCache :
            /\ Deterministic(q)
            /\ queryCache[q].version = ReadVersion
            /\ queryCache[q].own = ownWrites

\* Replication of a transaction (_writeIdempotent, setUpdateNoopMode): a
\* replica applying _uncommittedQuery from the noop mode the engine had at
\* BEGIN ends with exactly the rows this transaction changed, through
\* rewritten queries, noop mode changes and writeUnmodified.
ReplayMatches ==
    insideTransaction => Replay(uncommittedQuery, noopAtBegin) = ownWrites
=============================================================================
