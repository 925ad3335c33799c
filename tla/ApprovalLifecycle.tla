------------------------- MODULE ApprovalLifecycle -------------------------
(***************************************************************************)
(* What an approval workflow promises about its runs, whoever the users and *)
(* whatever the messages are.  A run is opened with a chain of steps.  An   *)
(* approval passes the lowest step still to do, and perhaps some directly   *)
(* after it; a rejection drops that step and goes back to the one before it *)
(* in the chain, or returns the run to its requester when there is none.    *)
(* The run is approved by the approval that leaves nothing to do, and runs  *)
(* are cancelled only while no step of them stands approved.                *)
(*                                                                          *)
(* WorkflowEngine implements this specification; the modules of the single  *)
(* business rows (PettyCash, ...) are built on it.                          *)
(***************************************************************************)
EXTENDS Integers

CONSTANTS Runs,    \* workflow instances
          Steps    \* step orders, a set of integers

VARIABLES outcome, \* outcome[r]: how far the run is
          chain,   \* chain[r]: the steps it was opened with
          todo,    \* todo[r]: those still to be decided
          passed   \* passed[r]: those that stand approved

Outcomes == {"none", "open", "returned", "approved", "cancelled"}

vars == <<outcome, chain, todo, passed>>

Init == /\ outcome = [r \in Runs |-> "none"]
        /\ chain = [r \in Runs |-> {}]
        /\ todo = [r \in Runs |-> {}]
        /\ passed = [r \in Runs |-> {}]

(* Open run r with the steps P. *)
Open(r, P) ==
    /\ outcome[r] = "none" /\ P # {}
    /\ outcome' = [outcome EXCEPT ![r] = "open"]
    /\ chain' = [chain EXCEPT ![r] = P]
    /\ todo' = [todo EXCEPT ![r] = P]
    /\ UNCHANGED passed

(* Approve a non-empty lowest part of the list. *)
Advance(r) ==
    /\ outcome[r] \in {"open", "returned"}
    /\ \E done \in SUBSET todo[r] :
          /\ done # {}
          /\ \A d \in done, t \in todo[r] \ done : d < t
          /\ outcome' = IF todo[r] = done
                        THEN [outcome EXCEPT ![r] = "approved"] ELSE outcome
          /\ todo' = [todo EXCEPT ![r] = @ \ done]
          /\ passed' = [passed EXCEPT ![r] = @ \cup done]
    /\ UNCHANGED chain

(* The step of the chain directly before s, if there is one. *)
Before(r, s) == {p \in chain[r] : p < s /\ \A q \in chain[r] : q < s => q <= p}

(* Reject the lowest step of the list. *)
SendBack(r) ==
    /\ outcome[r] \in {"open", "returned"}
    /\ \E s \in todo[r] :
          /\ \A t \in todo[r] : s <= t
          /\ outcome' = [outcome EXCEPT ![r] = IF Before(r, s) = {} THEN "returned" ELSE "open"]
          /\ todo' = [todo EXCEPT ![r] = (@ \ {s}) \cup Before(r, s)]
          /\ passed' = [passed EXCEPT ![r] = @ \ Before(r, s)]
    /\ UNCHANGED chain

(* Cancel the runs R of a row that is deleted. *)
Cancel(R) ==
    /\ \A r \in R : passed[r] = {}
    /\ outcome' = [r \in Runs |-> IF r \in R /\ outcome[r] # "none"
                                  THEN "cancelled" ELSE outcome[r]]
    /\ todo' = [r \in Runs |-> IF r \in R THEN {} ELSE todo[r]]
    /\ UNCHANGED <<chain, passed>>

Next == \/ \E r \in Runs : \/ \E P \in SUBSET Steps : Open(r, P)
                           \/ Advance(r)
                           \/ SendBack(r)
        \/ \E R \in SUBSET Runs : Cancel(R)

Spec == Init /\ [][Next]_vars
=============================================================================
