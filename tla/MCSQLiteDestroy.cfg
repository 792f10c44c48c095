\* Destroying a connection inside a transaction: one connection, commits
\* that cross a threshold of two frames (so that its own WAL hook starts the
\* checkpoint thread), then a new transaction and the destructor.  Every
\* connection may be destroyed, after which nothing runs: no deadlock check;
\* the liveness property is what detects a destructor that never returns.
CONSTANTS
    NConn = 1
    NJournalTables = 2
    MaxCommits = 2
    MaxWrites = 1
    MaxJournalSize = 1
    DeleteLimit = 1
    FullCheckpointPageMin = 2
    PagesPerCommit <- MCPagesPerCommit
    SizeTModulus <- MCSizeTModulus
    BeginCanFail = FALSE
    JournalInsertCanFail = FALSE
    ReplicationConsumer = FALSE
    DestroyEnabled = TRUE
    MaxCrashes = 0

SPECIFICATION FairSpec

CHECK_DEADLOCK FALSE

PROPERTY DestructorCompletes
