\* Two connections (both on the plain "journal" table, as the striping gives),
\* three commits, a checkpoint threshold crossed by the second or third
\* commit.  No replication consumer: the feed is checked by MCSQLiteFeed.cfg.
CONSTANTS
    NConn = 2
    NJournalTables = 2
    MaxCommits = 3
    MaxWrites = 1
    MaxJournalSize = 1
    DeleteLimit = 1
    FullCheckpointPageMin = 4
    PagesPerCommit <- MCPagesPerCommit
    SizeTModulus <- MCSizeTModulus
    BeginCanFail = FALSE
    JournalInsertCanFail = TRUE
    ReplicationConsumer = FALSE
    DestroyEnabled = FALSE
    MaxCrashes = 0

SPECIFICATION Spec

INVARIANT TypeOK
INVARIANT JournalMatchesHistory
INVARIANT RecentCommitsRetained
INVARIANT NoTransactionDuringRestart
INVARIANT TransactionCountMatches

PROPERTY CommitLogSpec
