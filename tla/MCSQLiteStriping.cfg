\* Three connections on three journal tables: the primary and two copies.
CONSTANTS
    NConn = 3
    NJournalTables = 3
    MaxCommits = 1
    MaxWrites = 1
    MaxJournalSize = 1
    DeleteLimit = 1
    FullCheckpointPageMin = 2
    PagesPerCommit <- MCPagesPerCommit
    SizeTModulus <- MCSizeTModulus
    BeginCanFail = FALSE
    JournalInsertCanFail = FALSE
    ReplicationConsumer = FALSE
    DestroyEnabled = FALSE
    MaxCrashes = 0

SPECIFICATION Spec

INVARIANT StripedJournalsAvoidPlain
