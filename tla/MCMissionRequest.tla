--------------------------- MODULE MCMissionRequest ---------------------------
(* MissionRequest in two settings: calm, with chains of two steps, and       *)
(* rough, with everything that can go wrong.                                 *)
EXTENDS MissionRequest, TLC

InPlace == [queued |-> FALSE, crashes |-> FALSE, inboxOnly |-> TRUE,
            restaffing |-> FALSE, overlap |-> FALSE, steps |-> 2]
Rough == [queued |-> TRUE, crashes |-> TRUE, inboxOnly |-> FALSE,
          restaffing |-> TRUE, overlap |-> TRUE, steps |-> 1]

SessionSymmetry == Permutations(Sessions)
CalmOrRough == {InPlace, Rough}
=============================================================================
