------------------------- MODULE MCJournalRecovery -------------------------
(* Three connections on two journal tables: the file constructor's        *)
(* connection writes "journal"; the copy constructor's index               *)
(* (nextJournalCount++ % 2 - 1) + 1 gives the first copy "journal" too and *)
(* the second "journal0000".                                               *)
EXTENDS JournalRecovery, TLC

CONSTANTS c1, c2, c3

MCConn == {c1, c2, c3}
MCTableOf == (c1 :> 0) @@ (c2 :> 0) @@ (c3 :> 1)
=============================================================================
