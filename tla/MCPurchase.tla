------------------------------ MODULE MCPurchase ------------------------------
(* PurchaseWorkflow with two proformas, of which there is one only where     *)
(* goods enter the stock beside the chain.                                  *)
EXTENDS PurchaseWorkflow, TLC

Drawn == {p \in Proformas : proforma[p].state # "none"}
BesideWithOne == (beside \cap {"order", "receipt"} = {} /\ receipt = "none") \/ Cardinality(Drawn) <= 1

MCNext == Next /\ BesideWithOne'
MCSpec == Init /\ [][MCNext]_vars

ClickSymmetry == Permutations(Clicks)
=============================================================================
