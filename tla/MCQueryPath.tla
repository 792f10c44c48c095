---------------------------- MODULE MCQueryPath ----------------------------
(* A small statement workload for QueryPath: a deterministic read of a     *)
(* whitelisted column, a read calling random(), two inserts of which the   *)
(* rewrite handler replaces the first by an update.                        *)
EXTENDS QueryPath

CONSTANTS r1, r2, w1, w2, w3

MCStatements == {r1, r2, w1, w2, w3}
MCModifies == {w1, w2, w3}

MCCalls ==
    [q \in MCStatements |->
        CASE q = r1 -> {[action |-> "SELECT", d1 |-> "", d2 |-> ""],
                        [action |-> "READ", d1 |-> "t", d2 |-> "a"]}
          [] q = r2 -> {[action |-> "SELECT", d1 |-> "", d2 |-> ""],
                        [action |-> "FUNCTION", d1 |-> "", d2 |-> "random"]}
          [] q = w1 -> {[action |-> "INSERT", d1 |-> "t", d2 |-> ""]}
          [] q = w2 -> {[action |-> "UPDATE", d1 |-> "t", d2 |-> ""]}
          [] q = w3 -> {[action |-> "INSERT", d1 |-> "u", d2 |-> ""]}]

MCRewriteOf == [q \in MCStatements |-> IF q = w1 THEN w2 ELSE NoQuery]

MCWhitelists == {{}, {<<"t", "a">>}}
=============================================================================
