\* The replication feed, destruction and a crash: a consumer pops the
\* committed map at any time, connections are destroyed at any point between
\* their calls, and the process may crash once, while two connections commit,
\* conflict and roll back.  A threshold of two frames makes the checkpoint
\* thread run (and interrupt statements) within two commits.  Every
\* connection may be destroyed, after which nothing runs: no deadlock check
\* (MCSQLite.cfg checks it without destruction).
CONSTANTS
    NConn = 2
    NJournalTables = 2
    MaxCommits = 2
    MaxWrites = 1
    MaxJournalSize = 1
    DeleteLimit = 1
    FullCheckpointPageMin = 2
    PagesPerCommit <- MCPagesPerCommit
    SizeTModulus <- MCSizeTModulus
    BeginCanFail = FALSE
    JournalInsertCanFail = TRUE
    ReplicationConsumer = TRUE
    DestroyEnabled = TRUE
    MaxCrashes = 1

SPECIFICATION Spec

CHECK_DEADLOCK FALSE

INVARIANT ReplicationFeedExact
INVARIANT JournalMatchesHistory
INVARIANT PublishedMatchesJournal
