\* BEGIN CONCURRENT may fail: beginTransaction then returns false after
\* raising currentTransactionCount, and rollback() ignores a connection that
\* is not inside a transaction.
CONSTANTS
    NConn = 2
    NJournalTables = 2
    MaxCommits = 1
    MaxWrites = 1
    MaxJournalSize = 1
    DeleteLimit = 1
    FullCheckpointPageMin = 2
    PagesPerCommit <- MCPagesPerCommit
    SizeTModulus <- MCSizeTModulus
    BeginCanFail = TRUE
    JournalInsertCanFail = FALSE
    ReplicationConsumer = FALSE
    DestroyEnabled = FALSE
    MaxCrashes = 0

SPECIFICATION Spec

INVARIANT TransactionCountMatches
