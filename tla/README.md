# TLA+ models of Bedrock's SQLite layer

This directory holds TLA+ models of `src/sqlitecluster/SQLite.cpp`, the
repository's only source file. They are written from the code and checked
with TLC.

## The system

`SQLite.cpp` implements `SQLite`, a single database connection that one
thread uses. It also implements `SQLite::SharedData`, the state shared by
every connection opened on the same file. The parts are:

| Part | Code | What it does |
|---|---|---|
| Construction | `initializeSharedData`, `initializeJournal`, `initializeJournalSize`, both constructors (lines 15-216) | Opens the file and creates the journal tables `journal`, `journal0000`, .... Reads `commitCount` and `lastCommittedHash` back from the journals. Picks the journal table of a copied connection by striping over `nextJournalCount` (line 208). |
| Transaction lifecycle | `waitForCheckpoint`, `beginTransaction`, `_writeIdempotent`, `_checkInterruptErrors`, `prepare`, `commit`, `rollback` (lines 366-849) | Runs a `BEGIN CONCURRENT` transaction. `prepare` takes the shared commit lock, chains the SHA-1 hash and inserts the journal row. `commit` trims the journal, runs `COMMIT` and publishes the commit. It may instead answer `SQLITE_BUSY_SNAPSHOT`, still holding the lock, and leave the release to `rollback`. |
| Commit bookkeeping | `SharedData::incrementCommit`, `prepareTransactionInfo`, `commitTransactionInfo`, `popCommittedTransactions` (lines 1120-1142) | Keeps the commit count and the hash. Keeps a map of prepared transactions and a map of committed ones, which the replication layer drains. |
| Checkpoint coordinator | `_sqliteWALCallback` and the thread it starts (lines 251-334), `_progressHandlerCallback` (218-238), the passive checkpoint in `commit` (759-768) | Once the WAL reaches `fullCheckpointPageMin` pages, a thread does the following in order: 1. takes `blockNewTransactionsMutex` exclusively; 2. waits on a condition variable until `currentTransactionCount` is 0; 3. runs a RESTART checkpoint while holding `notifyWaitMutex`. While it waits, the progress handler interrupts running statements with `checkpoint_required_error`. |
| Interrupts and timing | `_progressHandlerCallback`, `_checkInterruptErrors`, `startTiming`, `resetTiming` | Turns a timeout or a checkpoint request into an exception. Records whether the engine rolled the transaction back itself. |
| Read path and query cache | `read`, `_queryCache` (lines 480-509) | Caches the result of a read the authorizer found deterministic. The cache is cleared by every write, `BEGIN`, commit and rollback. |
| Authorizer, rewriting, noop mode | `_authorize`, `_sqliteAuthorizerCallback`, `enableRewrite`, `setRewriteHandler`, `setUpdateNoopMode`, `write`, `writeIdempotent`, `writeUnmodified` (lines 555-623, 921-1071) | Judges every action of a statement: the rewrite handler may deny it so that `_writeIdempotent` runs `_rewrittenQuery` instead, non-deterministic functions mark the read uncacheable, and a whitelist denies writes and blanks unlisted columns. `setUpdateNoopMode` switches the engine's `noop_update` and records the PRAGMA for replication. |
| Schema helpers, tracing, logging, timing statistics | `verifyTable`, `verifyIndex`, `addColumn`, the trace and log callbacks, `getLastTransactionTiming` | Thin wrappers and observability. |

The threads interact only through `SharedData`:

- connections race for the commit lock;
- they all update `currentTransactionCount`;
- the WAL hook runs inside one connection's `COMMIT` and starts the checkpoint
  thread;
- that thread blocks every connection's `waitForCheckpoint` and waits for
  their transactions to end;
- the replication thread drains the committed-transactions map.

## Modules

| Module | Models |
|---|---|
| `CommitLog.tla` | The abstract promise of the commit pipeline: a history of queries that only grows by one query at a time, with a count equal to its length. |
| `SQLite.tla` | The connections, `SharedData`, the checkpoint thread, the replication consumer, and the storage engine below them, as far as the code depends on it. It also models the destruction of connections, and process crashes followed by the constructors (`Restart`). |
| `InterruptErrors.tla` | One connection's interrupt path: `startTiming`, `resetTiming`, `_progressHandlerCallback`, `_checkInterruptErrors`, and the resets in `beginTransaction` and `commit`/`rollback`. The clock (`now`) and `_checkpointThreadBusy` change at any moment. A statement is `RunStatement`, then either `ProgressHandler` (interrupt) or `StatementReturns`, then `CheckInterruptErrors`. The engine may auto-rollback an interrupted transaction. The setter of `_enableCheckpointInterrupt` lives in the header, which is not in the repository, so it is modelled from the spec. |
| `QueryPath.tla` | One connection's statement path: `read` with the query cache, `_writeIdempotent` behind `write`/`writeIdempotent`/`writeUnmodified` with the rewrite step, `setUpdateNoopMode`, `enableRewrite`, the whitelist pointer (`SetWhitelist`, which the caller may assign at any moment, inside a transaction too), and `_authorize` as operators (`WhitelistVerdict`, `Authorize`, `Denied`, `Deterministic`, `Ignored`). A statement is a model value and `Calls[q]` the authorizer calls the engine makes for it; the data is abstracted to the snapshot version and the statements the transaction applied. Other connections' commits are `OtherCommit`. Under a whitelist the authorizer denies `BEGIN CONCURRENT`, so `BeginTransaction` leaves `_insideTransaction` false. It also denies the journal `INSERT` of `prepare()` and `ROLLBACK`, so ending a transaction while a whitelist is installed trips the `SASSERT` on `ROLLBACK` (`AbortOnDeniedEnd`). The `SASSERT` on an empty `_rewrittenQuery` is `AbortOnEmptyRewrite`. In both cases the process dies, and the connection comes back fresh with its transaction rolled back (`AbortedRestart`). A replica's replay of `_uncommittedQuery` is `Replay`, a `FoldLeft` over the recorded statements. |
| `JournalRecovery.tla` | The journal across process crashes. The durable state is the committed rows of the journal tables. `Restart` drops everything in memory in one step. It then rebuilds `commitCount` with `initializeSharedData` (`MAX(id)` over the `UNION` of all tables), `lastCommittedHash` with `getCommit`, and every `_journalSize` with `initializeJournalSize`. Commits are serialised by the commit lock (prepare, engine `COMMIT` with the trimming `DELETE`, then `incrementCommit`), and a crash can fall between any two of these steps. The engine's conflicts and the checkpoint thread are left to `SQLite.tla`. |
| `MCSQLite.tla`, `MCQueryPath.tla`, `MCJournalRecovery.tla` | Definitions of the model constants for TLC. |

### The state of `SQLite.tla`

Each connection variable maps connection to value:

- `insideTransaction`, `mutexLocked`, `autoRolledBack`, `uncommittedQuery`,
  `uncommittedHash`, `dbCountAtStart` and `journalSize` are the members of the
  same names.
- `pc` is where the thread using the connection is.

The engine state is split in two:

- **Per connection:** `txnOpen`, the snapshot (`snapVersion`, `snapRows`) and
  the pending inserts and deletes (`pendingIns`, `pendingDel`).
- **Shared:** `db`, the committed journal rows of every table; `dbVersion`, a
  count of `COMMIT`s; and the WAL, as a frame count `wal` plus whether every
  frame has been backfilled.

The `SharedData` members keep their names. `ckpt` is the program counter of
the checkpoint thread:

- `lockWait`: waiting for the exclusive lock;
- `check`: one turn of the loop;
- `waiting`: on the condition variable;
- `restart`: running the RESTART checkpoint while holding `notifyWaitMutex`;
- `exiting`: out of the loop, still holding `blockNewTransactionsMutex`, with
  `_checkpointThreadBusy` not yet reset.

Two variables follow the connections' lifetime. `alive[c]` is false once
`~SQLite()` has been called. `ckptOwner` is the connection whose WAL hook
started the running checkpoint thread, whose `_destructorMutex` that thread
holds (the `destructorLock` moved into it). `ckptOwner` is recorded only when
`DestroyEnabled` is set, so the runs without destruction keep their state
space.

### Abstractions

**SHA-1.** The hash is modelled as collision-free. The hash of a commit is
the sequence of all queries up to and including it, so
`SHA1(prev + q) == Append(prev, q)`.

**Queries.** The query of a transaction is a sequence of the writes that
changed something. Each write is represented by its connection's id.

**Snapshots.** `BEGIN CONCURRENT` takes its snapshot at the first statement.
`COMMIT` can answer `SQLITE_BUSY_SNAPSHOT` only when another commit happened
after that snapshot. Real row conflicts are therefore over-approximated.

**WAL restart.** A `COMMIT` restarts the WAL only when every frame has been
backfilled and no other connection holds a snapshot. This is SQLite's rule.

### Actions

Every action covers a whole code path, up to the point where another thread
can observe an intermediate state. The decrement of `currentTransactionCount`
under `notifyWaitMutex` and the `notify_one` after the mutex is released are
separate steps (`CommitDec`/`CommitNotify`, `RollbackDec`/`RollbackNotify`),
because the checkpoint thread can run between them.

| Action | Code |
|---|---|
| `WaitForCheckpoint` | `waitForCheckpoint()`, the shared lock taken and released |
| `BeginTransaction(c, exclusive)` | `beginTransaction`. `BEGIN` may fail when `BeginCanFail` is set. |
| `Write(c)` | `_writeIdempotent` plus `_checkInterruptErrors`. The write either succeeds or, while the checkpoint thread is busy, is interrupted. An interrupted write may or may not have been rolled back by the engine. |
| `Prepare(c)` | `prepare`, including its inline `rollback()` when the journal `INSERT` fails |
| `Commit(c)` | The trimming `DELETE`, `COMMIT` and the WAL hook it calls (`WALHook`), or `SQLITE_BUSY_SNAPSHOT` |
| `CommitPublish`, `CommitDec`, `CommitNotify`, `PassiveCheckpoint` | The rest of `commit` after `SQLITE_OK` |
| `Rollback`, `RollbackDec`, `RollbackNotify` | `rollback` inside a transaction |
| `CheckpointLock`, `CheckpointCheck`, `CheckpointRestart`, `CheckpointSpuriousWakeup` | The checkpoint thread's loop |
| `CheckpointExit` | After the loop: `_checkpointThreadBusy.store(0)` and the thread's return, which releases `blockNewTransactionsMutex`. The thread is in state `exiting` between the loop's end and this step. |
| `DestroyBegin`, `Destructor` | `~SQLite()`, called between two calls of the connection (`BetweenCalls`), when `DestroyEnabled` is set. `DestroyBegin` is the call. `Destructor` runs once `_destructorMutex` is free (`DestructorMutexFree`). It goes through `rollback()` (`RollbackBody`, then `RollbackDec` and `RollbackNotify`) when `_uncommittedQuery` is not empty. Otherwise `sqlite3_close` ends the engine transaction and leaves `SharedData` alone. |
| `Restart` | A process crash at any step, then the constructors. The engine keeps the committed journal rows and the WAL, including frames not yet backfilled, and drops every open transaction and thread, the checkpoint thread included. `SharedData::SharedData()` (`FreshSharedData`), `initializeSharedData` (`RecoveredCommitCount`, `RecoveredHash`) and `initializeJournalSize` (`RecoveredJournalSize`) rebuild the memory. The replication consumer starts over at the recovered count. Bounded by `MaxCrashes`, which is 0 except in `MCSQLiteFeed.cfg`. |
| `PopCommittedTransactions` | `SharedData::popCommittedTransactions`, enabled when `ReplicationConsumer` is set |

`SQLite` refines `CommitLog` under this mapping:

```
INSTANCE CommitLog WITH Value <- Query, log <- lastCommittedHash, count <- commitCount
```

## Runs

| Run | cfg | Expect | Shows |
|---|---|---|---|
| `sqlite_safety` | `MCSQLite.cfg` | pass | With 2 connections and 3 commits, the following all hold: 1. the journal is one hash chain (`JournalMatchesHistory`); 2. trimming keeps the newest `_maxJournalSize + 1` commits (`RecentCommitsRetained`); 3. no transaction is open while the RESTART checkpoint runs (`NoTransactionDuringRestart`); 4. the transaction count is exact (`TransactionCountMatches`); 5. the implementation refines `CommitLog` (`CommitLogSpec`). These hold under conflicts, journal-insert failures and checkpoint interrupts. 2.6M distinct states, about 2 minutes. |
| `sqlite_feed_destroy_crash` | `MCSQLiteFeed.cfg` | pass | 2 connections and 2 commits, with a threshold of 2 frames so that the checkpoint thread runs and interrupts statements. A replication thread pops at any moment, connections are destroyed at any point between their calls, and the process may crash once at any step. Every commit is handed out exactly once, in order, with its query, hash and an earlier `dbCountAtStart` (`ReplicationFeedExact`). The journal stays one hash chain, including after the crash (`JournalMatchesHistory`). At every state, the published `commitCount` and `lastCommittedHash` are what the constructors would rebuild from the journal. The only exception is one commit behind, while a commit the engine applied is being published (`PublishedMatchesJournal`). So a crash at any point is invisible to the next process. The run does not check for deadlock: once every connection is destroyed, nothing runs (`sqlite_safety` checks for deadlock without destruction). 4.9M distinct states, about 2.5 minutes. |
| `sqlite_destroy` | `MCSQLiteDestroy.cfg` | violation | One connection, destroyed between its calls. The destructor must eventually return with the connection's transaction ended (`DestructorCompletes`). TLC's counterexample: begin, then destroy with nothing written; the destructor skips `rollback()` and the transaction stays counted. The same run has a second way to break the property, a deadlock. A commit past the threshold makes the connection's own WAL hook start the checkpoint thread. The connection then begins and writes, and is destroyed. The destructor waits for the thread, and the thread waits for the count to reach 0. |
| `sqlite_liveness` | `MCSQLiteLive.cfg` | pass | The checkpoint thread always finishes (`CheckpointCompletes`), under the fairness below. |
| `sqlite_wal_unattended` | `MCSQLiteWal.cfg` | violation | A transaction begun before the checkpoint thread locked out new ones commits between the end of the thread's loop and its `store(0)`. Its WAL hook starts no thread and its passive checkpoint is skipped, so the WAL stays past the threshold with nothing to copy it back (`WalCheckpointedEventually`). With the loop's end and `store(0)` made one step, the same run passes. |
| `sqlite_begin_failure` | `MCSQLiteBeginFail.cfg` | violation | A failed `BEGIN CONCURRENT` leaves `currentTransactionCount` raised forever. This breaks `TransactionCountMatches`, and a count that never returns to 0 would keep the checkpoint thread waiting for good. |
| `sqlite_journal_striping` | `MCSQLiteStriping.cfg` | violation | The copy constructor's index gives the plain `journal` table to the first copy (`StripedJournalsAvoidPlain`). |
| `journal_recovery` | `MCJournalRecovery.cfg` | pass | Three connections on two tables, as the striping assigns them, up to 6 commits and 3 crashes. No commit id is reused after a restart, and every row's hash chains all earlier commits (`JournalIsChain`). The recovered `commitCount` and `lastCommittedHash` name the last durable commit, one behind only while a commit is being published (`PublishedIsDurable`). The commit lock is held exactly between prepare and publish (`TypeOK`). 95k distinct states, about 5 seconds. |
| `interrupt_safety` | `MCInterruptErrors.cfg` | pass | Between statements of a transaction, `_autoRolledBack` is set exactly when the engine has closed the transaction (`AutoRollbackFlagExact`). |
| `query_path` | `MCQueryPath.cfg` | pass | Inside a transaction every cached read is deterministic and was read from the transaction's current snapshot and its own writes so far (`CacheServesCurrent`). This holds across rewrites, noop-mode switches, whitelists installed or removed at any moment and other connections' commits. The columns a whitelist blanks are those of the whitelist in force when the result was cached, which spec testable property 6 allows, so the property does not compare them. 279k distinct states, about 25 seconds. |
| `query_noop_replay` | `MCQueryPathNoop.cfg` | violation | A replica replaying `_uncommittedQuery` from the engine's noop mode at `BEGIN` should change exactly the rows the transaction changed (`ReplayMatches`). TLC's trace: begin, install a whitelist, `setUpdateNoopMode(true)` (the PRAGMA is denied but recorded), clear the whitelist, `writeIdempotent` changes a row. The replica, switched into noop mode, skips it. |
| `interrupt_timeout_masked` | `MCInterruptErrorsTimeout.cfg` | violation | A statement is interrupted for a checkpoint and its time limit passes before the check. It gets `checkpoint_required_error`, and `resetTiming()` has erased the limit (`TimeoutReported`). |

### Bounds

**Connections.** Two connections suffice for every race in the model: two
transactions racing for the commit lock, one conflicting with another's
commit, one interrupted while the other commits. Three connections are used
only where striping needs a third table.

**Commits.** Three commits are enough for trimming to delete a row
(`_maxJournalSize = 1`), and for a commit to run on a snapshot that an earlier
commit has passed.

**WAL threshold.** Commits append 1 or 2 frames. With a threshold of 4, the
checkpoint thread starts within the commit bound, and a restarted WAL falls
under half the threshold, so the early-exit branch also runs.

**Interrupts.** `InterruptErrors` uses a clock of 4 ticks and limits of 1
and 2. A limit can therefore pass before a statement, during it, or between
the interrupt and the check.

**Crashes.** `MCJournalRecovery` uses `_maxJournalSize = 1` and `DELETE ... LIMIT 1`, so trimming has deleted rows before the second crash. The newest row may then be in either table, and the row count differs from `MAX(id)`. These are the two ways a restart could go wrong. `SQLite.tla` allows one crash, in the feed run, at 2 commits. There it composes the crash with conflicts, the checkpoint thread, destruction and the feed. It leaves the larger numbers of commits and crashes to `JournalRecovery`.

**Statements.** `MCQueryPath` has five statements. `r1` reads a whitelisted column and `r2` calls `random()`. `w1`, `w2` and `w3` write, and the handler rewrites `w1` into `w2`. There are two whitelists, `{}` and `{<<"t","a">>}`. There are 2 commits of other connections and 3 statements per transaction. This is enough for a whitelist installed after a cached read or a rewrite, a denied noop PRAGMA followed by a write, a cached read followed by a write in the same transaction, and a noop switch between two writes.

**Striping.** `SizeTModulus = 2^16` stands for `size_t`. The wrap of the `- 1`
happens at any width.

### Fairness

The following steps are weakly fair, because the code runs them without
waiting on anything that a fair scheduler would withhold:

- the steps a thread takes on its own once a call has started (`CommitPublish`
  through `PassiveCheckpoint`, `RollbackDec`, `RollbackNotify`);
- the checkpoint thread's steps;
- the user's ending of a transaction it opened (prepare, commit or rollback).
  The callers in Bedrock always end one;
- a destructor that has been called, once `_destructorMutex` is free
  (`Destructor`).

Beginning a transaction, the replication consumer and spurious wakeups get no
fairness. Without a fair spurious wakeup, a lost `notify_one` shows up as a
liveness violation.

## Findings

1. **Failed BEGIN leaks the count and the lock** (`SQLite.cpp:392`).
   `beginTransaction` raises `currentTransactionCount` before `BEGIN
   CONCURRENT` runs, and for `EXCLUSIVE` it also takes the commit lock first.
   When `BEGIN` fails, it returns false with `_insideTransaction` false, so
   `rollback()` does nothing. Both the count and the lock leak.
2. **Striping index gives out the plain table** (`SQLite.cpp:208`). The
   expression `(n % size - 1) + 1` in `size_t` arithmetic equals `n % size`.
   The first copied connection therefore writes to `journal`, not to
   `journal0000`.

3. **Timeout masked by a checkpoint request** (`SQLite.cpp:532`).
   `_checkInterruptErrors` handles the timeout first, including
   `resetTiming()`. It then sets `errorCode = 2` when `_abandonForCheckpoint`
   is set. The timeout is reported as `checkpoint_required_error` and its
   limit is erased. This goes against the comment at lines 517-518: a retried
   command can keep getting checkpoint errors and never time out.

4. **Noop PRAGMA recorded though denied** (`SQLite.cpp:1059`).
   `setUpdateNoopMode` ignores the result of `PRAGMA noop_update`, sets
   `_noopUpdateMode` and records the PRAGMA. A whitelist installed inside the
   transaction makes the authorizer deny the PRAGMA, so the leader's engine
   stays out of noop mode while the recorded PRAGMA switches a replica into
   it. Once the whitelist pointer is cleared, `writeIdempotent` changes rows
   on the leader that the replica skips. The comment at lines 1062-1063 says
   the PRAGMA is saved so that it can be replicated.

5. **Lost checkpoint request** (`SQLite.cpp:330`). The checkpoint thread
   stores 0 into `_checkpointThreadBusy` only after its loop has ended. A
   transaction that began before the thread took `blockNewTransactionsMutex`
   can commit in between. Its WAL hook's `fetch_add` sees the thread busy and
   starts none. Its passive checkpoint is skipped for the same reason. Then
   `store(0)` erases the request. The WAL stays past `fullCheckpointPageMin`
   until a later commit calls the hook again.

6. **The destructor does not reliably end the transaction** (`SQLite.cpp:349`,
   `:353`). There are two defects:
   - `~SQLite()` calls `rollback()` only when `_uncommittedQuery` is not
     empty. A transaction that recorded nothing (reads only, writes that
     changed nothing, a prepared empty transaction) is closed by
     `sqlite3_close` with `currentTransactionCount` never lowered. After an
     `EXCLUSIVE` begin or a prepare, the commit lock is also never released.
   - The destructor locks `_destructorMutex` before it rolls back. The
     checkpoint thread that the connection's own WAL hook started holds that
     mutex until it returns, and it waits for the connection's transaction.
     Neither proceeds.

   Either way, the next checkpoint thread waits forever with new transactions
   blocked. Spec section 2 says the destructor rolls back any uncommitted
   transaction.

The following are listed as hazards without a property:

- Outside a transaction, the cache serves results older than other
  connections' commits, and inside one a result cached before a whitelist
  was installed is served without the whitelist's blanked columns. Spec
  test 1 and testable property 6 allow both: the cache lives until a write,
  commit or rollback.
- `_rewrittenQuery` is never cleared. With rewriting on, a statement that a
  whitelist installed mid-transaction denies runs the rewrite of an earlier
  statement (`SQLite.cpp:596`). That rewrite is itself checked by the same
  whitelist, so only a read-only one runs, and only `writeUnmodified`
  records it.
- The checkpoint listeners can get their notifications unpaired:
  - a loop turn that exits early, because the page count fell under half the
    threshold, sends `checkpointRequired` without a later
    `checkpointComplete` (`SQLite.cpp:298`);
  - a listener added during the RESTART checkpoint gets `checkpointComplete`
    without `checkpointRequired` (`:1098`).

  The listeners live outside this repository, so what an unpaired
  notification does to them is not in this code.

## Not modelled yet, and the plan

- **Out of scope:**
  - destroying a connection during a call (inside a WAL callback, say),
    which the code's own comment at line 273 calls unsafe;
  - the checkpoint listeners, which are caller-supplied callbacks;
  - the schema helpers, tracing, logging and timing statistics, which hold no
    state any property depends on.
