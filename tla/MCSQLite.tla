----------------------------- MODULE MCSQLite -----------------------------
(* Model of two connections on one database file for TLC.                *)
EXTENDS SQLite

\* A COMMIT appends one or two WAL frames, so that fullCheckpointPageMin = 4
\* is crossed within the commit bound and a WAL restart (one frame) falls
\* under half of it.
MCPagesPerCommit == {1, 2}

\* size_t arithmetic of the striping index, at 16 bits: the wrap-around of
\* the -1 is the same at every width above log2(NJournalTables).
MCSizeTModulus == 2^16
=============================================================================
