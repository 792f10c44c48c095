\* The checkpoint thread ends: two connections, two commits, a threshold of
\* two frames so that the thread starts while the other connection may be
\* inside a transaction.
CONSTANTS
    NConn = 2
    NJournalTables = 2
    MaxCommits = 2
    MaxWrites = 1
    MaxJournalSize = 1
    DeleteLimit = 1
    FullCheckpointPageMin = 2
    PagesPerCommit <- MCPagesPerCommit
    SizeTModulus <- MCSizeTModulus
    BeginCanFail = FALSE
    JournalInsertCanFail = FALSE
    ReplicationConsumer = FALSE
    DestroyEnabled = FALSE
    MaxCrashes = 0

SPECIFICATION FairSpec

PROPERTY WalCheckpointedEventually
