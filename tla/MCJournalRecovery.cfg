\* Three connections on two journal tables as the striping assigns them
\* (c1 and c2 on "journal", c3 on "journal0000"), up to six commits and three
\* crashes: trimming with _maxJournalSize = 1 and LIMIT 1 has deleted rows
\* from both tables before the later crashes, so the newest row may be in
\* either table and the row count is below MAX(id).
CONSTANTS
    c1 = c1
    c2 = c2
    c3 = c3
    NoConn = NoConn
    Conn <- MCConn
    TableOf <- MCTableOf
    NTables = 2
    MaxJournalSize = 1
    DeleteLimit = 1
    MaxCommits = 6
    MaxCrashes = 3
SPECIFICATION Spec
INVARIANTS TypeOK JournalIsChain PublishedIsDurable
