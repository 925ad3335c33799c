----------------------------- MODULE MCPettyCash -----------------------------
(* PettyCash in two settings: calm, with two petty cashes in a row, and     *)
(* rough, with everything that can go wrong about a single one.             *)
EXTENDS PettyCash, TLC

InPlace == [queued |-> FALSE, crashes |-> FALSE, inboxOnly |-> TRUE,
            restaffing |-> FALSE, overlap |-> FALSE, replace |-> {TRUE}, rows |-> 2, steps |-> 3]
Rough == [queued |-> TRUE, crashes |-> TRUE, inboxOnly |-> FALSE,
          restaffing |-> TRUE, overlap |-> TRUE, replace |-> BOOLEAN, rows |-> 1, steps |-> 1]

SessionSymmetry == Permutations(Sessions)
CalmOrRough == {InPlace, Rough}
=============================================================================
