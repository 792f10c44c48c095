------------------------------ MODULE CommitLog ------------------------------
(***************************************************************************)
(* What SharedData promises to the replication layer: commits are totally *)
(* ordered, each one appends exactly one query to the history, and the     *)
(* commit count is the length of that history.                            *)
(***************************************************************************)
EXTENDS Naturals, Sequences

CONSTANT Value          \* what one commit records

VARIABLES log, count

Init == log = <<>> /\ count = 0

CommitValue(v) ==
    /\ log' = Append(log, v)
    /\ count' = count + 1

Next == \E v \in Value : CommitValue(v)

Spec == Init /\ [][Next]_<<log, count>>
==============================================================================
