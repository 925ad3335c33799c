--------------------------- MODULE MCInternalRequest ---------------------------
(* Requests for a pen and some paper, and some of them in stock. *)
EXTENDS InternalRequest

PenAndPaper == {<<[key |-> "pen", qty |-> 1], [key |-> "paper", qty |-> 1]>>}
OneOrBoth == PenAndPaper \cup {<<[key |-> "paper", qty |-> 2]>>}
Some == [k \in Keys |-> IF k = "pen" THEN 2 ELSE 3]
=============================================================================
