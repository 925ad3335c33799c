----------------------------- MODULE CoreProofs -----------------------------
(***************************************************************************)
(* Proofs about the core that the requests stand on.  WorkflowEngine and    *)
(* Visibility, for every number of users, steps, instances and decisions:   *)
(* the order of the steps and of the ends; what the approval log and the    *)
(* columns of an instance say of each other; that the engine implements the *)
(* approval lifecycle; and that whoever is shown a request may open it.     *)
(* Directory, Organization, WorkflowDefinitions and Listing, for every      *)
(* number of accounts, roles, departments, rows and requests that overlap:  *)
(* who has a role and is let in, that departments are a tree, which role a  *)
(* stored step asks, and that pages miss no row.  WorkflowFeed and          *)
(* AdHocTask, for every chain, number of handlers and failures: whoever is  *)
(* asked is told, and what waits is watched.                                *)
(***************************************************************************)
EXTENDS Visibility, Directory, Organization, WorkflowDefinitions, Listing,
        WorkflowFeed, AdHocTask, FiniteSetTheorems, WellFoundedInduction, TLAPS

(* The least element of a set of numbers.                                   *)
LEMMA MinOf ==
    ASSUME NEW S \in SUBSET Nat, S # {}
    PROVE  Min(S) \in S /\ \A y \in S : Min(S) <= y
  <1> DEFINE R == OpToRel(<, Nat)
  <1>1. PICK m \in S : \A y \in S : ~ (<<y, m>> \in R)
    <2>1. IsWellFoundedOn(R, Nat)
      BY NatLessThanWellFounded
    <2> HIDE DEF R
    <2>2. QED
      BY <2>1, WFMin
  <1>2. \A y \in S : ~ (y < m)
    BY <1>1 DEF OpToRel
  <1>9. \A y \in S : m <= y
    BY <1>2
  <1>3. \E x \in S : \A y \in S : x <= y
    BY <1>9
  <1>4. QED
    BY <1>3, Zenon DEF Min

-----------------------------------------------------------------------------
(* Types, the order of the steps, and the ends.                             *)

(* The order of steps is total, so a non-empty set of pending steps whose   *)
(* least element is s has nothing below s.                                  *)
LEMMA PendingStepIsLeast ==
    ASSUME NEW i \in Insts, NEW s \in PendingStep(i)
    PROVE  /\ s \in Orders /\ step[i][s] = "pending"
           /\ \A o \in Orders : step[i][o] = "pending" => s <= o
  BY DEF PendingStep, Lowest, Pending

(* Starting an instance keeps the columns it writes inside their domains.   *)
LEMMA BeginType ==
    ASSUME TypeOK, NEW i \in Insts, Begin(i)
    PROVE  /\ inst' \in [Insts -> InstStatus]
           /\ step' \in [Insts -> [Orders -> StepStatus]]
           /\ assignee' \in [Insts -> [Orders -> Users \cup {NoUser}]]
  <1>1. inst' \in [Insts -> InstStatus]
    BY DEF TypeOK, Begin, InstStatus
  <1>2. step' \in [Insts -> [Orders -> StepStatus]]
    <2>1. [o \in Orders |-> IF o \in Plan THEN "pending" ELSE "none"] \in [Orders -> StepStatus]
      BY DEF StepStatus
    <2>2. QED
      BY <2>1 DEF TypeOK, Begin
  <1>3. assignee' \in [Insts -> [Orders -> Users \cup {NoUser}]]
    <2>1. PICK a \in [Plan -> Users] :
            assignee' = [assignee EXCEPT ![i] =
                           [o \in Orders |-> IF o \in Plan THEN a[o] ELSE NoUser]]
      BY DEF Begin
    <2>2. [o \in Orders |-> IF o \in Plan THEN a[o] ELSE NoUser] \in [Orders -> Users \cup {NoUser}]
      OBVIOUS
    <2>3. QED
      BY <2>1, <2>2 DEF TypeOK
  <1>4. QED
    BY <1>1, <1>2, <1>3

(* Every handler keeps the columns inside their domains.                    *)
THEOREM EngineTypeOK == Spec => []TypeOK
  <1>1. Init => TypeOK
    BY DEF Init, TypeOK, InstStatus, StepStatus, Decision
  <1>2. TypeOK /\ [Next]_vars => TypeOK'
    <2> SUFFICES ASSUME TypeOK, [Next]_vars PROVE TypeOK'
      OBVIOUS
    <2>1. CASE Create
      BY <2>1, BeginType DEF Create, TypeOK, staff
    <2>2. CASE ConsumeStart
      <3>1. /\ inst' \in [Insts -> InstStatus]
            /\ step' \in [Insts -> [Orders -> StepStatus]]
            /\ assignee' \in [Insts -> [Orders -> Users \cup {NoUser}]]
        BY <2>2, BeginType DEF ConsumeStart, TypeOK
      <3>2. starts' \in Nat
        BY <2>2 DEF ConsumeStart, TypeOK
      <3>3. QED
        BY <2>2, <3>1, <3>2 DEF ConsumeStart, TypeOK, staff
    <2>3. ASSUME NEW i \in Insts, NEW u \in Users, Approve(i, u)
          PROVE  TypeOK'
      <3>1. PICK s \in PendingStep(i), a \in Resolutions(i) :
              LET skipped == AutoSkipped(i, s, u, a)
                  done == {s} \cup skipped
                  left == Pending(i) \ done
              IN /\ step' = [step EXCEPT ![i] =
                              [o \in Orders |-> IF o \in done THEN "approved" ELSE @[o]]]
                 /\ assignee' = [assignee EXCEPT ![i] =
                                  [o \in Orders |-> IF o \in skipped \cup Lowest(left)
                                                    THEN a[o] ELSE @[o]]]
                 /\ inst' = IF left = {} THEN [inst EXCEPT ![i] = "approved"] ELSE inst
                 /\ log' = log \cup Record(i, done, u, "approved")
                 /\ clock' = clock + 1
                 /\ UNCHANGED <<entity, starts, staff>>
        BY <2>3 DEF Approve
      <3> DEFINE skipped == AutoSkipped(i, s, u, a)
                 done == {s} \cup skipped
                 left == Pending(i) \ done
      <3>2. s \in Orders /\ done \subseteq Orders
        BY DEF PendingStep, Lowest, Pending, AutoSkipped
      <3>3. step' \in [Insts -> [Orders -> StepStatus]]
        BY <3>1 DEF TypeOK, StepStatus
      <3>4. a \in [Orders -> Users \cup {NoUser}]
        BY DEF Resolutions
      <3>5. assignee' \in [Insts -> [Orders -> Users \cup {NoUser}]]
        BY <3>1, <3>4 DEF TypeOK
      <3>6. inst' \in [Insts -> InstStatus]
        BY <3>1 DEF TypeOK, InstStatus
      <3>7. log' \subseteq Decision
        <4>1. Record(i, done, u, "approved") \subseteq Decision
          BY <3>2 DEF Record, Decision, TypeOK
        <4>2. QED
          BY <4>1, <3>1 DEF TypeOK
      <3>8. /\ entity' = entity /\ starts' = starts /\ clock' = clock + 1
            /\ active' = active /\ members' = members
        BY <3>1 DEF staff
      <3> HIDE DEF skipped, done, left
      <3>9. QED
        BY <3>3, <3>5, <3>6, <3>7, <3>8 DEF TypeOK
    <2>4. ASSUME NEW i \in Insts, NEW u \in Users, Reject(i, u)
          PROVE  TypeOK'
      <3>1. PICK s \in PendingStep(i) :
              LET prev == PrevStep(i, s)
              IN /\ step' = [step EXCEPT ![i] = AfterReject(i, s, prev)]
                 /\ inst' = [inst EXCEPT ![i] =
                               IF prev # {} THEN "in_progress" ELSE "returned"]
                 /\ log' = log \cup Record(i, {s}, u, "rejected")
                 /\ clock' = clock + 1
                 /\ UNCHANGED <<entity, assignee, starts, staff>>
        BY <2>4 DEF Reject
      <3>2. s \in Orders
        BY DEF PendingStep, Lowest, Pending
      <3>3. AfterReject(i, s, PrevStep(i, s)) \in [Orders -> StepStatus]
        BY DEF AfterReject, TypeOK, StepStatus
      <3>4. step' \in [Insts -> [Orders -> StepStatus]]
        BY <3>1, <3>3 DEF TypeOK
      <3>5. inst' \in [Insts -> InstStatus]
        BY <3>1 DEF TypeOK, InstStatus
      <3>6. Record(i, {s}, u, "rejected") \subseteq Decision
        BY <3>2 DEF Record, Decision, TypeOK
      <3>7. log' \subseteq Decision
        BY <3>1, <3>6 DEF TypeOK
      <3>8. /\ entity' = entity /\ starts' = starts /\ clock' = clock + 1
            /\ active' = active /\ members' = members /\ assignee' = assignee
        BY <3>1 DEF staff
      <3>9. QED
        BY <3>4, <3>5, <3>7, <3>8 DEF TypeOK
    <2>5. CASE Delete
      BY <2>5 DEF Delete, CancelledSteps, TypeOK, InstStatus, StepStatus, staff
    <2>6. ASSUME NEW u \in Users, ToggleAccount(u) \/ ToggleRole(u)
          PROVE  TypeOK'
      BY <2>6 DEF ToggleAccount, ToggleRole, TypeOK
    <2>7. CASE UNCHANGED vars
      BY <2>7 DEF vars, TypeOK
    <2>8. QED
      BY <2>1, <2>2, <2>3, <2>4, <2>5, <2>6, <2>7 DEF Next, Decide
  <1>3. QED
    BY <1>1, <1>2, PTL DEF Spec

-----------------------------------------------------------------------------
(* The inductive invariant behind the safety theorems: the three parts need *)
(* one another.  That an ended instance has nothing pending rests on the     *)
(* handlers touching a pending step only, that no step is stranded rests on  *)
(* the order discipline, and all of it on the types.                         *)
EngineInv == TypeOK /\ OrderDiscipline /\ NoStuckInstance /\ EndedIsSettled

(* A fresh instance has only pending steps and at least one of them; the     *)
(* others are left alone.                                                    *)
LEMMA BeginEffect ==
    ASSUME TypeOK, NEW i \in Insts, Begin(i)
    PROVE  /\ inst[i] = "absent" /\ inst' = [inst EXCEPT ![i] = "pending"]
           /\ \A j \in Insts : j # i => step'[j] = step[j]
           /\ \A o \in Orders : step'[i][o] \in {"pending", "none"}
           /\ \E o \in Orders : step'[i][o] = "pending"
  <1>1. inst[i] = "absent" /\ inst' = [inst EXCEPT ![i] = "pending"]
    BY DEF Begin, Fresh
  <1>2. step' = [step EXCEPT ![i] =
                   [o \in Orders |-> IF o \in Plan THEN "pending" ELSE "none"]]
    BY DEF Begin
  <1>3. Plan # {} /\ Plan \subseteq Orders
    BY DEF Begin, Plan
  <1>4. QED
    BY <1>1, <1>2, <1>3 DEF TypeOK

(* What approve_step does to the statuses: it approves a non-empty set of    *)
(* pending steps of one instance and the instance when none is left.         *)
LEMMA ApproveEffect ==
    ASSUME TypeOK, NEW i \in Insts, NEW u \in Users, Approve(i, u)
    PROVE  \E done \in SUBSET Pending(i) :
             /\ done # {}
             /\ \A d \in done, o \in Pending(i) \ done : d < o
             /\ step' = [step EXCEPT ![i] =
                           [o \in Orders |-> IF o \in done THEN "approved" ELSE step[i][o]]]
             /\ inst' = IF Pending(i) = done THEN [inst EXCEPT ![i] = "approved"] ELSE inst
             /\ UNCHANGED entity
  <1>1. PICK s \in PendingStep(i), a \in Resolutions(i) :
          LET skipped == AutoSkipped(i, s, u, a)
              done == {s} \cup skipped
              left == Pending(i) \ done
          IN /\ step' = [step EXCEPT ![i] =
                          [o \in Orders |-> IF o \in done THEN "approved" ELSE @[o]]]
             /\ inst' = IF left = {} THEN [inst EXCEPT ![i] = "approved"] ELSE inst
             /\ UNCHANGED entity
    BY DEF Approve
  <1> DEFINE done == {s} \cup AutoSkipped(i, s, u, a)
  <1>2. s \in Pending(i) /\ \A o \in Pending(i) : s <= o
    BY DEF PendingStep, Lowest
  <1>3. done \subseteq Pending(i)
    BY <1>2 DEF AutoSkipped
  <1>4. \A d \in done, o \in Pending(i) \ done : d < o
    <2> SUFFICES ASSUME NEW d \in done, NEW o \in Pending(i) \ done PROVE d < o
      OBVIOUS
    <2>1. d \in Int /\ o \in Int /\ s \in Int
      BY <1>2, <1>3, EngineAssumption DEF Pending, Orders
    <2>2. CASE d = s
      BY <1>2, <2>1, <2>2
    <2>3. CASE d \in AutoSkipped(i, s, u, a)
      <3>1. SUFFICES ASSUME o <= d PROVE FALSE
        BY <2>1
      <3>2. o \in Pending(i) \ {s}
        OBVIOUS
      <3>3. \A p \in Pending(i) \ {s} : p <= o => p \in Int /\ p <= d
        BY <2>1, <3>1, EngineAssumption DEF Pending, Orders
      <3>4. o \in AutoSkipped(i, s, u, a)
        BY <2>3, <3>2, <3>3 DEF AutoSkipped
      <3>5. QED
        BY <3>4
    <2>4. QED
      BY <2>2, <2>3
  <1>5. step' = [step EXCEPT ![i] =
                  [o \in Orders |-> IF o \in done THEN "approved" ELSE step[i][o]]]
    BY <1>1 DEF TypeOK
  <1>6. inst' = IF Pending(i) = done THEN [inst EXCEPT ![i] = "approved"] ELSE inst
    <2>1. Pending(i) \ done = {} <=> Pending(i) = done
      BY <1>3
    <2>2. QED
      BY <1>1, <2>1
  <1>7. UNCHANGED entity
    BY <1>1
  <1>8. done # {}
    OBVIOUS
  <1> HIDE DEF done
  <1>9. QED
    BY <1>3, <1>4, <1>5, <1>6, <1>7, <1>8

(* What reject_step does to the statuses: one step rejected, the one before   *)
(* it (if any) pending again.                                                *)
LEMMA RejectEffect ==
    ASSUME TypeOK, NEW i \in Insts, NEW u \in Users, Reject(i, u)
    PROVE  \E s \in PendingStep(i) :
             /\ step' = [step EXCEPT ![i] = AfterReject(i, s, PrevStep(i, s))]
             /\ inst' = [inst EXCEPT ![i] =
                           IF PrevStep(i, s) # {} THEN "in_progress" ELSE "returned"]
             /\ UNCHANGED entity
  BY DEF Reject

(* Starting an instance keeps the invariant.                                *)
LEMMA BeginKeepsInv ==
    ASSUME EngineInv, NEW i \in Insts, Begin(i)
    PROVE  OrderDiscipline' /\ NoStuckInstance' /\ EndedIsSettled'
  <1> USE DEF EngineInv
  <1>1. /\ inst[i] = "absent" /\ inst' = [inst EXCEPT ![i] = "pending"]
        /\ \A j \in Insts : j # i => step'[j] = step[j]
        /\ \A o \in Orders : step'[i][o] \in {"pending", "none"}
        /\ \E o \in Orders : step'[i][o] = "pending"
    BY BeginEffect
  <1>2. OrderDiscipline'
    BY <1>1 DEF OrderDiscipline
  <1>3. NoStuckInstance'
    BY <1>1 DEF NoStuckInstance, Pending, TypeOK
  <1>4. EndedIsSettled'
    BY <1>1 DEF EndedIsSettled, Pending, TypeOK
  <1>5. QED
    BY <1>2, <1>3, <1>4

(* Approving a step, with its auto-skips, keeps the invariant.               *)
LEMMA ApproveKeepsInv ==
    ASSUME EngineInv, NEW i \in Insts, NEW u \in Users, Approve(i, u)
    PROVE  OrderDiscipline' /\ NoStuckInstance' /\ EndedIsSettled'
  <1> USE DEF EngineInv
  <1>1. PICK done \in SUBSET Pending(i) :
          /\ done # {}
          /\ \A d \in done, o \in Pending(i) \ done : d < o
          /\ step' = [step EXCEPT ![i] =
                        [o \in Orders |-> IF o \in done THEN "approved" ELSE step[i][o]]]
          /\ inst' = IF Pending(i) = done THEN [inst EXCEPT ![i] = "approved"] ELSE inst
          /\ UNCHANGED entity
    BY ApproveEffect
  <1>2. \A j \in Insts : j # i => step'[j] = step[j]
    BY <1>1 DEF TypeOK
  <1>3. \A o \in Orders : step'[i][o] = IF o \in done THEN "approved" ELSE step[i][o]
    BY <1>1 DEF TypeOK
  <1>4. OrderDiscipline'
    <2> SUFFICES ASSUME NEW j \in Insts, NEW o \in Orders, NEW p \in Orders,
                        o < p, step'[j][p] = "approved", step'[j][o] = "pending"
                 PROVE  FALSE
      BY DEF OrderDiscipline
    <2>1. CASE j # i
      BY <2>1, <1>2 DEF OrderDiscipline
    <2>2. CASE j = i
      <3>1. o \notin done /\ o \in Pending(i)
        BY <2>2, <1>3 DEF Pending
      <3>2. CASE p \in done
        <4>1. p < o
          BY <1>1, <3>1, <3>2
        <4>2. QED
          BY <4>1, EngineAssumption DEF Orders
      <3>3. CASE p \notin done
        BY <2>2, <3>1, <3>3, <1>3 DEF OrderDiscipline, Pending
      <3>4. QED
        BY <3>2, <3>3
    <2>3. QED
      BY <2>1, <2>2
  <1>5. Pending(i)' = Pending(i) \ done
    BY <1>1, <1>3 DEF Pending
  <1>6. \A j \in Insts : j # i => Pending(j)' = Pending(j)
    BY <1>2 DEF Pending
  <1>7. inst[i] \in {"pending", "in_progress", "returned"}
    BY <1>1 DEF EndedIsSettled, TypeOK, InstStatus
  <1>8. NoStuckInstance'
    BY <1>1, <1>5, <1>6 DEF NoStuckInstance, TypeOK
  <1>9. EndedIsSettled'
    <2>1. ASSUME NEW j \in Insts, inst'[j] \in {"absent", "approved", "cancelled"}
          PROVE  Pending(j)' = {}
      BY <2>1, <1>1, <1>5, <1>6, <1>7 DEF EndedIsSettled, TypeOK
    <2>2. ASSUME NEW j \in Insts, inst'[j] = "approved"
          PROVE  \E o \in Orders : step'[j][o] = "approved"
      <3>1. CASE j = i
        BY <3>1, <1>1, <1>3 DEF Pending
      <3>2. CASE j # i
        BY <3>2, <2>2, <1>1, <1>2 DEF EndedIsSettled, TypeOK
      <3>3. QED
        BY <3>1, <3>2
    <2>3. QED
      BY <2>1, <2>2 DEF EndedIsSettled
  <1>10. QED
    BY <1>4, <1>8, <1>9

(* Rejecting a step keeps the invariant: the step before it becomes the only  *)
(* one pending below the rejected one, and nothing above it is approved.     *)
LEMMA RejectKeepsInv ==
    ASSUME EngineInv, NEW i \in Insts, NEW u \in Users, Reject(i, u)
    PROVE  OrderDiscipline' /\ NoStuckInstance' /\ EndedIsSettled'
  <1> USE DEF EngineInv
  <1>1. PICK s \in PendingStep(i) :
          /\ step' = [step EXCEPT ![i] = AfterReject(i, s, PrevStep(i, s))]
          /\ inst' = [inst EXCEPT ![i] =
                        IF PrevStep(i, s) # {} THEN "in_progress" ELSE "returned"]
          /\ UNCHANGED entity
    BY RejectEffect
  <1> DEFINE prev == PrevStep(i, s)
  <1>2. \A j \in Insts : j # i => step'[j] = step[j] /\ Pending(j)' = Pending(j)
    BY <1>1 DEF TypeOK, Pending
  <1>3. /\ s \in Orders /\ step[i][s] = "pending"
        /\ \A o \in Orders : step[i][o] = "pending" => s <= o
    BY PendingStepIsLeast
  <1>4. /\ s \notin prev /\ prev \subseteq Orders
        /\ \A p \in prev : p < s
        /\ \A p \in prev, o \in Orders : o < s /\ step[i][o] # "none" => o <= p
    BY <1>3, EngineAssumption DEF PrevStep, Created, Orders
  <1>5. \A o \in Orders : step'[i][o] = IF o = s THEN "rejected"
                                        ELSE IF o \in prev THEN "pending" ELSE step[i][o]
    <2>1. step'[i] = AfterReject(i, s, prev)
      BY <1>1 DEF TypeOK
    <2>2. QED
      BY <2>1, <1>4 DEF AfterReject
  <1> HIDE DEF prev
  <1>6. OrderDiscipline'
    <2> SUFFICES ASSUME NEW j \in Insts, NEW o \in Orders, NEW p \in Orders,
                        o < p, step'[j][p] = "approved", step'[j][o] = "pending"
                 PROVE  FALSE
      BY DEF OrderDiscipline
    <2>1. CASE j # i
      BY <2>1, <1>2 DEF OrderDiscipline
    <2>2. CASE j = i
      <3>1. step[i][p] = "approved" /\ p # s /\ p \notin prev
        BY <2>2, <1>5
      <3>2. o \in Int /\ p \in Int /\ s \in Int
        BY <1>3, EngineAssumption DEF Orders
      <3>3. CASE o \notin prev
        <4>1. o # s /\ step[i][o] = "pending"
          BY <2>2, <3>3, <1>5
        <4>2. QED
          BY <3>1, <4>1 DEF OrderDiscipline
      <3>4. CASE o \in prev
        <4>1. CASE p < s
          <5>1. p <= o
            BY <4>1, <3>4, <3>1, <1>4
          <5>2. QED
            BY <5>1, <3>2
        <4>2. CASE s < p
          BY <4>2, <3>1, <1>3 DEF OrderDiscipline
        <4>3. QED
          BY <4>1, <4>2, <3>1, <3>2
      <3>5. QED
        BY <3>3, <3>4
    <2>3. QED
      BY <2>1, <2>2
  <1>7. inst'[i] = (IF prev # {} THEN "in_progress" ELSE "returned")
        /\ \A j \in Insts : j # i => inst'[j] = inst[j]
    BY <1>1 DEF TypeOK, prev
  <1>8. prev # {} => Pending(i)' # {}
    BY <1>4, <1>5 DEF Pending
  <1>9. NoStuckInstance'
    BY <1>2, <1>7, <1>8 DEF NoStuckInstance
  <1>10. EndedIsSettled'
    BY <1>2, <1>7 DEF EndedIsSettled
  <1>11. QED
    BY <1>6, <1>9, <1>10

(* Deleting the row keeps the invariant: its instances are cancelled whole.   *)
LEMMA DeleteKeepsInv ==
    ASSUME EngineInv, Delete
    PROVE  OrderDiscipline' /\ NoStuckInstance' /\ EndedIsSettled'
  <1>1. \A i \in Insts, o \in Orders :
          /\ step[i][o] # "approved"
          /\ step'[i][o] = IF step[i][o] = "pending" THEN "cancelled" ELSE step[i][o]
    BY DEF Delete, Deletable, CancelledSteps
  <1>2. \A i \in Insts : inst'[i] \in {"absent", "cancelled"}
    BY DEF Delete, CancelledSteps
  <1>3. QED
    BY <1>1, <1>2 DEF OrderDiscipline, NoStuckInstance, EndedIsSettled, Pending, CancelledSteps

(* The inductive invariant holds of every behaviour of the engine.           *)
THEOREM EngineInvariant == Spec => []EngineInv
  <1>1. Init => EngineInv
    BY DEF Init, EngineInv, TypeOK, InstStatus, StepStatus, Decision,
           OrderDiscipline, NoStuckInstance, EndedIsSettled, Pending
  <1>2. EngineInv /\ TypeOK' /\ [Next]_vars => EngineInv'
    <2> SUFFICES ASSUME EngineInv, TypeOK', [Next]_vars
                 PROVE  OrderDiscipline' /\ NoStuckInstance' /\ EndedIsSettled'
      BY DEF EngineInv
    <2>1. CASE Create
      BY <2>1, BeginKeepsInv DEF Create
    <2>2. CASE ConsumeStart
      <3>1. CASE UNCHANGED <<inst, step, assignee>>
        BY <3>1 DEF EngineInv, OrderDiscipline, NoStuckInstance, EndedIsSettled, Pending
      <3>2. CASE \E i \in Insts : Begin(i)
        BY <3>2, BeginKeepsInv
      <3>3. QED
        BY <2>2, <3>1, <3>2 DEF ConsumeStart
    <2>3. ASSUME NEW i \in Insts, NEW u \in Users, Decide(i, u)
          PROVE  OrderDiscipline' /\ NoStuckInstance' /\ EndedIsSettled'
      BY <2>3, ApproveKeepsInv, RejectKeepsInv DEF Decide
    <2>4. CASE Delete
      BY <2>4, DeleteKeepsInv
    <2>5. CASE UNCHANGED <<inst, step>>
      BY <2>5 DEF EngineInv, OrderDiscipline, NoStuckInstance, EndedIsSettled, Pending
    <2>6. ASSUME NEW u \in Users, ToggleAccount(u) \/ ToggleRole(u)
          PROVE  UNCHANGED <<inst, step>>
      BY <2>6 DEF ToggleAccount, ToggleRole
    <2>7. UNCHANGED vars => UNCHANGED <<inst, step>>
      BY DEF vars
    <2>8. QED
      BY <2>1, <2>2, <2>3, <2>4, <2>5, <2>6, <2>7 DEF Next
  <1>3. QED
    BY <1>1, <1>2, EngineTypeOK, PTL DEF Spec

(* Nobody decides a step past one that is still waiting.                     *)
THEOREM EngineOrderDiscipline == Spec => []OrderDiscipline
  BY EngineInvariant, PTL DEF EngineInv

(* An instance under way always has a step to be decided.                    *)
THEOREM EngineNeverStuck == Spec => []NoStuckInstance
  BY EngineInvariant, PTL DEF EngineInv

(* Approved and cancelled instances never change again: nothing is pending   *)
(* in them, and an approved one keeps its row from being deleted.            *)
THEOREM EngineEndedIsFinal == Spec => EndedIsFinal
  <1> DEFINE Final == \A i \in Insts : inst[i] \in {"approved", "cancelled"} =>
                         inst'[i] = inst[i] /\ step'[i] = step[i]
  <1>1. EngineInv /\ [Next]_vars => [Final]_vars
    <2> SUFFICES ASSUME EngineInv, Next,
                        NEW i \in Insts, inst[i] \in {"approved", "cancelled"}
                 PROVE  inst'[i] = inst[i] /\ step'[i] = step[i]
      OBVIOUS
    <2>1. Pending(i) = {} /\ (inst[i] = "approved" => \E o \in Orders : step[i][o] = "approved")
      BY DEF EngineInv, EndedIsSettled
    <2>2. ASSUME NEW j \in Insts, Begin(j)
          PROVE  inst'[i] = inst[i] /\ step'[i] = step[i]
      BY <2>2, BeginEffect DEF EngineInv, TypeOK
    <2>3. ASSUME NEW j \in Insts, NEW u \in Users, Approve(j, u)
          PROVE  inst'[i] = inst[i] /\ step'[i] = step[i]
      <3>1. PICK done \in SUBSET Pending(j) :
              /\ done # {}
              /\ step' = [step EXCEPT ![j] =
                            [o \in Orders |-> IF o \in done THEN "approved" ELSE step[j][o]]]
              /\ inst' = IF Pending(j) = done THEN [inst EXCEPT ![j] = "approved"] ELSE inst
        BY <2>3, ApproveEffect DEF EngineInv
      <3>2. i # j
        BY <3>1, <2>1
      <3>3. QED
        BY <3>1, <3>2 DEF EngineInv, TypeOK
    <2>4. ASSUME NEW j \in Insts, NEW u \in Users, Reject(j, u)
          PROVE  inst'[i] = inst[i] /\ step'[i] = step[i]
      <3>1. PICK s \in PendingStep(j) :
              /\ step' = [step EXCEPT ![j] = AfterReject(j, s, PrevStep(j, s))]
              /\ inst' = [inst EXCEPT ![j] =
                            IF PrevStep(j, s) # {} THEN "in_progress" ELSE "returned"]
        BY <2>4, RejectEffect DEF EngineInv
      <3>2. i # j
        BY <3>1, <2>1 DEF PendingStep, Lowest
      <3>3. QED
        BY <3>1, <3>2 DEF EngineInv, TypeOK
    <2>5. ASSUME Delete
          PROVE  inst'[i] = inst[i] /\ step'[i] = step[i]
      <3>1. inst[i] = "cancelled"
        BY <2>5, <2>1 DEF Delete, Deletable
      <3>2. inst'[i] = inst[i]
        BY <2>5, <3>1 DEF Delete, CancelledSteps
      <3>3. step'[i] = [o \in Orders |-> step[i][o]]
        BY <2>5, <2>1 DEF Delete, CancelledSteps, Pending
      <3>4. QED
        BY <3>2, <3>3 DEF EngineInv, TypeOK
    <2>6. QED
      BY <2>2, <2>3, <2>4, <2>5
         DEF Next, Create, ConsumeStart, Decide, ToggleAccount, ToggleRole
  <1>2. QED
    BY <1>1, EngineInvariant, PTL DEF Spec, EndedIsFinal

-----------------------------------------------------------------------------
(* The inductive invariant.                                                 *)

(* Every decision of the log was taken before now, and one transaction      *)
(* records at most one decision of a step.                                  *)
LogIsLinear ==
    /\ \A d \in log : d.at < clock
    /\ \A d, e \in log : d.inst = e.inst /\ d.order = e.order /\ d.at = e.at => d = e

(* LogExplainsSteps, and a rejection too is by the user of the step.        *)
StepsExplained ==
    \A i \in Insts, o \in Orders : step[i][o] \in {"approved", "rejected"} =>
        \E d \in LastDecision(i, o) : d.verdict = step[i][o] /\ d.by = assignee[i][o]

(* An instance that was not started has no steps.                           *)
BlankUntilBegun ==
    \A i \in Insts, o \in Orders : inst[i] = "absent" => step[i][o] = "none"

HistoryInv ==
    /\ EngineInv /\ LogIsLinear /\ StepsExplained /\ BlankUntilBegun
    /\ ReturnedByFirstStep /\ ManualStepsActedOn

-----------------------------------------------------------------------------
(* Lemmas about the operators of the engine.                                *)

(* Step orders are bounded, so a non-empty set of them has a greatest one.  *)
LEMMA GreatestOrder ==
    ASSUME NEW S \in SUBSET Orders, S # {}
    PROVE  \E m \in S : \A p \in S : p <= m
  <1> DEFINE R == OpToRel(<, Nat)
             T == {NumSteps - p : p \in S}
  <1>1. IsWellFoundedOn(R, Nat)
    BY NatLessThanWellFounded
  <1>2. \A p \in S : p \in Nat /\ p <= NumSteps /\ NumSteps - p \in Nat
    BY EngineAssumption DEF Orders
  <1>3. T \subseteq Nat /\ T # {}
    BY <1>2
  <1>4. \A x, y \in Nat : y < x => <<y, x>> \in R
    BY DEF OpToRel
  <1> HIDE DEF R
  <1>5. PICK x \in T : \A y \in T : ~ (<<y, x>> \in R)
    <2> HIDE DEF T
    <2>1. QED
      BY <1>1, <1>3, WFMin
  <1>6. \A y \in T : x <= y
    <2> HIDE DEF T
    <2>1. x \in Nat /\ \A y \in T : y \in Nat /\ ~ (y < x)
      BY <1>3, <1>4, <1>5
    <2>2. QED
      BY <2>1
  <1>7. PICK m \in S : x = NumSteps - m
    OBVIOUS
  <1>8. \A p \in S : NumSteps - m <= NumSteps - p
    BY <1>6, <1>7
  <1>9. QED
    BY <1>2, <1>8, EngineAssumption

(* A rejection finds no previous step only at the lowest step created.      *)
LEMMA NoPrevStep ==
    ASSUME NEW i \in Insts, NEW s \in Created(i), PrevStep(i, s) = {}
    PROVE  s \in Lowest(Created(i))
  <1> DEFINE S == {p \in Created(i) : p < s}
  <1>1. S \subseteq Orders /\ s \in Orders
    BY DEF Created
  <1>2. S = {}
    <2>1. SUFFICES ASSUME S # {} PROVE FALSE
      OBVIOUS
    <2>2. PICK m \in S : \A p \in S : p <= m
      BY <1>1, <2>1, GreatestOrder
    <2>3. m \in PrevStep(i, s)
      BY <2>2 DEF PrevStep
    <2>4. QED
      BY <2>3
  <1>3. \A p \in Created(i) : p \in Int /\ s \in Int
    BY <1>1, EngineAssumption DEF Created, Orders
  <1>4. QED
    BY <1>2, <1>3 DEF Lowest

(* What a transaction that records decisions of the steps S does to the log: *)
(* they become the last decisions of these steps, and of no other.          *)
LEMMA RecordEffect ==
    ASSUME TypeOK, LogIsLinear,
           NEW i \in Insts, NEW S \in SUBSET Orders, NEW u \in Users,
           NEW verdict \in {"approved", "rejected"},
           log' = log \cup Record(i, S, u, verdict), clock' = clock + 1
    PROVE  /\ LogIsLinear'
           /\ \A j \in Insts, o \in Orders :
                 j # i \/ o \notin S => LastDecision(j, o)' = LastDecision(j, o)
           /\ \A o \in S : \E d \in LastDecision(i, o)' : d.verdict = verdict /\ d.by = u
  <1>1. \A d \in log : d \in Decision /\ d.at \in Nat /\ d.at < clock
    BY DEF TypeOK, LogIsLinear, Decision
  <1>2. \A d \in Record(i, S, u, verdict) :
           /\ d.inst = i /\ d.order \in S /\ d.by = u /\ d.verdict = verdict /\ d.at = clock
    BY DEF Record
  <1>3. clock \in Nat
    BY DEF TypeOK
  <1>4. LogIsLinear'
    <2>1. \A d \in log' : d.at < clock'
      BY <1>1, <1>2, <1>3
    <2>2. ASSUME NEW d \in log', NEW e \in log',
                 d.inst = e.inst, d.order = e.order, d.at = e.at
          PROVE  d = e
      <3>1. CASE d \in log /\ e \in log
        BY <2>2, <3>1 DEF LogIsLinear
      <3>2. CASE d \in Record(i, S, u, verdict) /\ e \in Record(i, S, u, verdict)
        BY <2>2, <3>2 DEF Record
      <3>3. CASE \/ d.at < clock /\ e.at = clock
                 \/ d.at = clock /\ e.at < clock
        BY <2>2, <3>3, <1>3
      <3>4. QED
        BY <3>1, <3>2, <3>3, <1>1, <1>2
    <2>3. QED
      BY <2>1, <2>2 DEF LogIsLinear
  <1>5. ASSUME NEW j \in Insts, NEW o \in Orders, j # i \/ o \notin S
        PROVE  LastDecision(j, o)' = LastDecision(j, o)
    <2>1. \A d : d \in log' /\ d.inst = j /\ d.order = o <=> d \in log /\ d.inst = j /\ d.order = o
      BY <1>2, <1>5
    <2>2. QED
      BY <2>1 DEF LastDecision
  <1>6. ASSUME NEW o \in S
        PROVE  \E d \in LastDecision(i, o)' : d.verdict = verdict /\ d.by = u
    <2> DEFINE d == [inst |-> i, order |-> o, by |-> u, verdict |-> verdict, at |-> clock]
    <2>1. d \in log'
      BY DEF Record
    <2>2. \A e \in log' : e.at <= d.at
      BY <1>1, <1>2, <1>3
    <2>3. d \in LastDecision(i, o)'
      BY <2>1, <2>2 DEF LastDecision
    <2>4. QED
      BY <2>3
  <1>7. QED
    BY <1>4, <1>5, <1>6

(* What approve_step records and reassigns: every step it completes ends up *)
(* with the user who approved, and no decided step changes hands.           *)
LEMMA ApproveRecorded ==
    ASSUME TypeOK, NEW i \in Insts, NEW u \in Users, Approve(i, u)
    PROVE  \E s \in PendingStep(i), done \in SUBSET Pending(i) :
             /\ s \in done /\ \A o \in done \ {s} : o \notin ManualSteps
             /\ step' = [step EXCEPT ![i] =
                           [o \in Orders |-> IF o \in done THEN "approved" ELSE step[i][o]]]
             /\ inst' \in {inst, [inst EXCEPT ![i] = "approved"]}
             /\ \A o \in done : assignee'[i][o] = u
             /\ \A j \in Insts, o \in Orders :
                   step[j][o] # "pending" => assignee'[j][o] = assignee[j][o]
             /\ log' = log \cup Record(i, done, u, "approved")
             /\ clock' = clock + 1
  <1>1. PICK s \in PendingStep(i), a \in Resolutions(i) :
          LET skipped == AutoSkipped(i, s, u, a)
              done == {s} \cup skipped
              left == Pending(i) \ done
          IN /\ CanAct(u, i, s)
             /\ step' = [step EXCEPT ![i] =
                           [o \in Orders |-> IF o \in done THEN "approved" ELSE @[o]]]
             /\ assignee' = [assignee EXCEPT ![i] =
                               [o \in Orders |-> IF o \in skipped \cup Lowest(left)
                                                 THEN a[o] ELSE @[o]]]
             /\ inst' = IF left = {} THEN [inst EXCEPT ![i] = "approved"] ELSE inst
             /\ log' = log \cup Record(i, done, u, "approved")
             /\ clock' = clock + 1
    BY DEF Approve
  <1> DEFINE skipped == AutoSkipped(i, s, u, a)
             done == {s} \cup skipped
             left == Pending(i) \ done
  <1>2. s \in Pending(i) /\ done \subseteq Pending(i) /\ Pending(i) \subseteq Orders
    BY DEF PendingStep, Lowest, Pending, AutoSkipped
  <1>3. \A o \in skipped : a[o] = u /\ o \notin ManualSteps
    <2> SUFFICES ASSUME NEW o \in skipped PROVE a[o] = u /\ o \notin ManualSteps
      OBVIOUS
    <2>1. o \in Pending(i) \ {s} /\ o <= o
      BY <1>2, EngineAssumption DEF AutoSkipped, Pending, Orders
    <2>2. QED
      BY <2>1 DEF AutoSkipped
  <1>4. s \notin skipped /\ s \notin Lowest(left) /\ Lowest(left) \subseteq Pending(i)
    BY DEF AutoSkipped, Lowest
  <1>5. \A o \in Orders : assignee'[i][o] = IF o \in skipped \cup Lowest(left)
                                             THEN a[o] ELSE assignee[i][o]
    BY <1>1 DEF TypeOK
  <1>6. \A j \in Insts : j # i => assignee'[j] = assignee[j]
    BY <1>1 DEF TypeOK
  <1>7. step' = [step EXCEPT ![i] =
                  [o \in Orders |-> IF o \in done THEN "approved" ELSE step[i][o]]]
    BY <1>1 DEF TypeOK
  <1>8. inst' \in {inst, [inst EXCEPT ![i] = "approved"]}
    BY <1>1
  <1>9. assignee[i][s] = u
    BY <1>1 DEF CanAct
  <1>10. log' = log \cup Record(i, done, u, "approved") /\ clock' = clock + 1
    BY <1>1
  <1> HIDE DEF skipped, left
  <1>11. \A o \in done : assignee'[i][o] = u
    BY <1>2, <1>3, <1>4, <1>5, <1>9
  <1>12. \A j \in Insts, o \in Orders :
           step[j][o] # "pending" => assignee'[j][o] = assignee[j][o]
    BY <1>2, <1>4, <1>5, <1>6 DEF Pending
  <1>13. \A o \in done \ {s} : o \notin ManualSteps
    BY <1>3
  <1> HIDE DEF done
  <1>14. s \in done
    BY DEF done
  <1>15. QED
    BY <1>2, <1>7, <1>8, <1>10, <1>11, <1>12, <1>13, <1>14

(* What reject_step records.                                                *)
LEMMA RejectRecorded ==
    ASSUME TypeOK, NEW i \in Insts, NEW u \in Users, Reject(i, u)
    PROVE  \E s \in PendingStep(i) :
             /\ assignee[i][s] = u
             /\ step' = [step EXCEPT ![i] = AfterReject(i, s, PrevStep(i, s))]
             /\ inst' = [inst EXCEPT ![i] =
                           IF PrevStep(i, s) # {} THEN "in_progress" ELSE "returned"]
             /\ log' = log \cup Record(i, {s}, u, "rejected")
             /\ clock' = clock + 1
             /\ UNCHANGED assignee
  BY DEF Reject, CanAct

-----------------------------------------------------------------------------
(* Every action keeps the invariant.                                        *)

HistoryKept ==
    LogIsLinear /\ StepsExplained /\ BlankUntilBegun /\ ReturnedByFirstStep /\ ManualStepsActedOn

(* Nothing was decided in an instance that only starts.                     *)
LEMMA BeginKeepsHistory ==
    ASSUME HistoryInv, NEW i \in Insts, Begin(i), UNCHANGED <<log, clock>>
    PROVE  HistoryKept'
  <1> USE DEF HistoryInv, EngineInv
  <1>1. /\ inst[i] = "absent" /\ inst' = [inst EXCEPT ![i] = "pending"]
        /\ \A j \in Insts : j # i => step'[j] = step[j]
        /\ \A o \in Orders : step'[i][o] \in {"pending", "none"}
    BY BeginEffect
  <1>2. \A j \in Insts : j # i => assignee'[j] = assignee[j] /\ inst'[j] = inst[j]
    BY <1>1 DEF Begin, TypeOK
  <1>3. inst'[i] = "pending"
    BY <1>1 DEF TypeOK
  <1>4. LogIsLinear' /\ ManualStepsActedOn'
    BY DEF LogIsLinear, ManualStepsActedOn
  <1>5. StepsExplained'
    BY <1>1, <1>2 DEF StepsExplained, LastDecision
  <1>6. BlankUntilBegun'
    BY <1>1, <1>2, <1>3 DEF BlankUntilBegun
  <1>7. ReturnedByFirstStep'
    BY <1>1, <1>2, <1>3 DEF ReturnedByFirstStep, Created, Lowest
  <1>8. QED
    BY <1>4, <1>5, <1>6, <1>7 DEF HistoryKept

(* An approval becomes the last decision of each step it completes, and     *)
(* touches no decided step, so the lowest step of a returned instance stays *)
(* rejected.                                                                *)
LEMMA ApproveKeepsHistory ==
    ASSUME HistoryInv, NEW i \in Insts, NEW u \in Users, Approve(i, u)
    PROVE  HistoryKept'
  <1> USE DEF HistoryInv, EngineInv
  <1>1. PICK s \in PendingStep(i), done \in SUBSET Pending(i) :
          /\ s \in done /\ \A o \in done \ {s} : o \notin ManualSteps
          /\ step' = [step EXCEPT ![i] =
                        [o \in Orders |-> IF o \in done THEN "approved" ELSE step[i][o]]]
          /\ inst' \in {inst, [inst EXCEPT ![i] = "approved"]}
          /\ \A o \in done : assignee'[i][o] = u
          /\ \A j \in Insts, o \in Orders :
                step[j][o] # "pending" => assignee'[j][o] = assignee[j][o]
          /\ log' = log \cup Record(i, done, u, "approved")
          /\ clock' = clock + 1
    BY ApproveRecorded
  <1>2. done \subseteq Orders /\ \A o \in done : step[i][o] = "pending" /\ s <= o
    BY <1>1 DEF Pending, PendingStep, Lowest
  <1>3. \A j \in Insts, o \in Orders :
          step'[j][o] = IF j = i /\ o \in done THEN "approved" ELSE step[j][o]
    BY <1>1 DEF TypeOK
  <1>4. /\ LogIsLinear'
        /\ \A j \in Insts, o \in Orders :
              j # i \/ o \notin done => LastDecision(j, o)' = LastDecision(j, o)
        /\ \A o \in done : \E d \in LastDecision(i, o)' : d.verdict = "approved" /\ d.by = u
    BY <1>1, <1>2, RecordEffect
  <1>5. StepsExplained'
    <2> SUFFICES ASSUME NEW j \in Insts, NEW o \in Orders, step'[j][o] \in {"approved", "rejected"}
                 PROVE  \E d \in LastDecision(j, o)' :
                           d.verdict = step'[j][o] /\ d.by = assignee'[j][o]
      BY DEF StepsExplained
    <2>1. CASE j = i /\ o \in done
      BY <2>1, <1>1, <1>3, <1>4
    <2>2. CASE ~ (j = i /\ o \in done)
      <3>1. step'[j][o] = step[j][o] /\ assignee'[j][o] = assignee[j][o]
        BY <2>2, <1>1, <1>3
      <3>2. \E d \in LastDecision(j, o) : d.verdict = step[j][o] /\ d.by = assignee[j][o]
        BY <3>1 DEF StepsExplained
      <3>3. QED
        BY <2>2, <3>1, <3>2, <1>4
    <2>3. QED
      BY <2>1, <2>2
  <1>6. inst[i] # "absent"
    BY <1>1, <1>2 DEF BlankUntilBegun
  <1>7. \A j \in Insts : inst'[j] = inst[j] \/ (j = i /\ inst'[j] = "approved")
    BY <1>1 DEF TypeOK
  <1>8. BlankUntilBegun'
    BY <1>3, <1>6, <1>7 DEF BlankUntilBegun
  <1>9. ReturnedByFirstStep'
    <2> SUFFICES ASSUME NEW j \in Insts, inst'[j] = "returned"
                 PROVE  \E o \in Lowest(Created(j))' : step'[j][o] = "rejected"
      BY DEF ReturnedByFirstStep
    <2>1. PICK o \in Lowest(Created(j)) : step[j][o] = "rejected"
      BY <1>7 DEF ReturnedByFirstStep
    <2>2. o \in Orders /\ step'[j][o] = "rejected"
      BY <2>1, <1>2, <1>3 DEF Lowest, Created
    <2>3. Created(j)' = Created(j)
      BY <1>2, <1>3 DEF Created
    <2>4. QED
      BY <2>1, <2>2, <2>3 DEF Lowest
  <1>10. ManualStepsActedOn'
    <2> SUFFICES ASSUME NEW d \in log', NEW e \in log',
                        d.inst = e.inst, d.at = e.at, d.order < e.order
                 PROVE  e.order \notin ManualSteps
      BY DEF ManualStepsActedOn
    <2>1. \A f \in log : f.at < clock /\ f.at \in Nat
      BY DEF LogIsLinear, TypeOK, Decision
    <2>2. \A f \in Record(i, done, u, "approved") : f.at = clock /\ f.order \in done
      BY DEF Record
    <2>3. CASE d \in log /\ e \in log
      BY <2>3 DEF ManualStepsActedOn
    <2>4. CASE d \in Record(i, done, u, "approved") /\ e \in Record(i, done, u, "approved")
      <3>1. d.order \in done /\ e.order \in done /\ s <= d.order
        BY <2>2, <2>4, <1>2
      <3>2. s \in Int /\ d.order \in Int /\ e.order \in Int
        <4>1. s \in Orders /\ d.order \in Orders /\ e.order \in Orders
          BY <3>1, <1>1, <1>2
        <4>2. QED
          BY <4>1, EngineAssumption DEF Orders
      <3>3. e.order # s
        BY <3>1, <3>2
      <3>4. QED
        BY <3>1, <3>3, <1>1
    <2>5. CASE \/ d.at < clock /\ e.at = clock
               \/ d.at = clock /\ e.at < clock
      BY <2>5 DEF TypeOK
    <2>6. QED
      BY <2>1, <2>2, <2>3, <2>4, <2>5, <1>1
  <1>11. QED
    BY <1>4, <1>5, <1>8, <1>9, <1>10 DEF HistoryKept

(* A rejection becomes the last decision of its step; the step it reopens   *)
(* is no longer decided, and it returns the instance only from the lowest.  *)
LEMMA RejectKeepsHistory ==
    ASSUME HistoryInv, NEW i \in Insts, NEW u \in Users, Reject(i, u)
    PROVE  HistoryKept'
  <1> USE DEF HistoryInv, EngineInv
  <1>1. PICK s \in PendingStep(i) :
          /\ assignee[i][s] = u
          /\ step' = [step EXCEPT ![i] = AfterReject(i, s, PrevStep(i, s))]
          /\ inst' = [inst EXCEPT ![i] =
                        IF PrevStep(i, s) # {} THEN "in_progress" ELSE "returned"]
          /\ log' = log \cup Record(i, {s}, u, "rejected")
          /\ clock' = clock + 1
          /\ UNCHANGED assignee
    BY RejectRecorded
  <1> DEFINE prev == PrevStep(i, s)
  <1>2. s \in Orders /\ step[i][s] = "pending"
    BY PendingStepIsLeast
  <1>3. s \notin prev /\ prev \subseteq Created(i) /\ Created(i) \subseteq Orders
    BY <1>2, EngineAssumption DEF PrevStep, Created, Orders
  <1>4. \A o \in Orders : step'[i][o] = IF o = s THEN "rejected"
                                        ELSE IF o \in prev THEN "pending" ELSE step[i][o]
    <2>1. step'[i] = AfterReject(i, s, prev)
      BY <1>1 DEF TypeOK
    <2>2. QED
      BY <2>1, <1>3 DEF AfterReject
  <1>5. \A j \in Insts : j # i => step'[j] = step[j] /\ inst'[j] = inst[j]
    BY <1>1 DEF TypeOK
  <1>6. inst'[i] = IF prev # {} THEN "in_progress" ELSE "returned"
    BY <1>1 DEF TypeOK
  <1>7. prev = {} => s \in Lowest(Created(i))
    BY <1>2, NoPrevStep DEF Created
  <1>8. Created(i)' = Created(i)
    BY <1>2, <1>3, <1>4 DEF Created
  <1> HIDE DEF prev
  <1>9. /\ LogIsLinear'
        /\ \A j \in Insts, o \in Orders :
              j # i \/ o \notin {s} => LastDecision(j, o)' = LastDecision(j, o)
        /\ \A o \in {s} : \E d \in LastDecision(i, o)' : d.verdict = "rejected" /\ d.by = u
    <2>1. TypeOK /\ LogIsLinear /\ {s} \in SUBSET Orders
      BY <1>2
    <2>2. log' = log \cup Record(i, {s}, u, "rejected") /\ clock' = clock + 1
      BY <1>1
    <2>3. QED
      BY <2>1, <2>2, RecordEffect
  <1>10. StepsExplained'
    <2> SUFFICES ASSUME NEW j \in Insts, NEW o \in Orders, step'[j][o] \in {"approved", "rejected"}
                 PROVE  \E d \in LastDecision(j, o)' :
                           d.verdict = step'[j][o] /\ d.by = assignee[j][o]
      BY <1>1 DEF StepsExplained
    <2>1. CASE j = i /\ o = s
      BY <2>1, <1>1, <1>4, <1>9
    <2>2. CASE ~ (j = i /\ o = s)
      <3>1. step'[j][o] = step[j][o]
        BY <2>2, <1>4, <1>5
      <3>2. \E d \in LastDecision(j, o) : d.verdict = step[j][o] /\ d.by = assignee[j][o]
        BY <3>1 DEF StepsExplained
      <3>3. QED
        BY <2>2, <3>1, <3>2, <1>9
    <2>3. QED
      BY <2>1, <2>2
  <1>11. BlankUntilBegun'
    BY <1>2, <1>5, <1>6 DEF BlankUntilBegun
  <1>12. ReturnedByFirstStep'
    <2> SUFFICES ASSUME NEW j \in Insts, inst'[j] = "returned"
                 PROVE  \E o \in Lowest(Created(j))' : step'[j][o] = "rejected"
      BY DEF ReturnedByFirstStep
    <2>1. CASE j = i
      BY <2>1, <1>2, <1>4, <1>6, <1>7, <1>8 DEF Lowest
    <2>2. CASE j # i
      BY <2>2, <1>5 DEF ReturnedByFirstStep, Lowest, Created
    <2>3. QED
      BY <2>1, <2>2
  <1>13. ManualStepsActedOn'
    <2> SUFFICES ASSUME NEW d \in log', NEW e \in log',
                        d.inst = e.inst, d.at = e.at, d.order < e.order
                 PROVE  e.order \notin ManualSteps
      BY DEF ManualStepsActedOn
    <2>1. \A f \in log : f.at < clock /\ f.at \in Nat
      BY DEF LogIsLinear, TypeOK, Decision
    <2>2. \A f \in Record(i, {s}, u, "rejected") : f.at = clock /\ f.order = s
      BY DEF Record
    <2>3. CASE d \in log /\ e \in log
      BY <2>3 DEF ManualStepsActedOn
    <2>4. CASE d.order = s /\ e.order = s
      BY <2>4, <1>2, EngineAssumption DEF Orders
    <2>5. CASE \/ d.at < clock /\ e.at = clock
               \/ d.at = clock /\ e.at < clock
      BY <2>5 DEF TypeOK
    <2>6. QED
      BY <2>1, <2>2, <2>3, <2>4, <2>5, <1>1
  <1>14. QED
    BY <1>9, <1>10, <1>11, <1>12, <1>13 DEF HistoryKept

(* Deleting the row decides nothing.                                        *)
LEMMA DeleteKeepsHistory ==
    ASSUME HistoryInv, Delete
    PROVE  HistoryKept'
  <1> USE DEF HistoryInv, EngineInv
  <1>1. \A i \in Insts, o \in Orders :
          step'[i][o] = IF step[i][o] = "pending" THEN "cancelled" ELSE step[i][o]
    BY DEF Delete, CancelledSteps
  <1>2. \A i \in Insts : /\ inst'[i] \in {"absent", "cancelled"}
                         /\ inst'[i] = "absent" => inst[i] = "absent"
    BY DEF Delete, CancelledSteps
  <1>3. UNCHANGED <<assignee, log, clock>>
    BY DEF Delete
  <1>4. StepsExplained'
    BY <1>1, <1>3 DEF StepsExplained, LastDecision
  <1>5. BlankUntilBegun'
    BY <1>1, <1>2 DEF BlankUntilBegun
  <1>6. ReturnedByFirstStep'
    BY <1>2 DEF ReturnedByFirstStep
  <1>7. LogIsLinear' /\ ManualStepsActedOn'
    BY <1>3 DEF LogIsLinear, ManualStepsActedOn
  <1>8. QED
    BY <1>4, <1>5, <1>6, <1>7 DEF HistoryKept

(* The log of decisions explains the steps of every instance: each status   *)
(* is that of its last decision, and nothing is decided before the instance *)
(* begins.                                                                  *)
THEOREM HistoryInvariant == Spec => []HistoryInv
  <1>1. Init => HistoryKept
    BY DEF Init, HistoryKept, LogIsLinear, StepsExplained, BlankUntilBegun,
           ReturnedByFirstStep, ManualStepsActedOn
  <1>2. HistoryInv /\ [Next]_vars => HistoryKept'
    <2> SUFFICES ASSUME HistoryInv, [Next]_vars PROVE HistoryKept'
      OBVIOUS
    <2>1. CASE Create
      BY <2>1, BeginKeepsHistory DEF Create
    <2>2. CASE UNCHANGED <<inst, step, assignee, log, clock>>
      BY <2>2 DEF HistoryInv, HistoryKept, LogIsLinear, StepsExplained, LastDecision,
                  BlankUntilBegun, ReturnedByFirstStep, Lowest, Created, ManualStepsActedOn
    <2>3. CASE ConsumeStart
      BY <2>2, <2>3, BeginKeepsHistory DEF ConsumeStart
    <2>4. ASSUME NEW i \in Insts, NEW u \in Users, Decide(i, u)
          PROVE  HistoryKept'
      BY <2>4, ApproveKeepsHistory, RejectKeepsHistory DEF Decide
    <2>5. CASE Delete
      BY <2>5, DeleteKeepsHistory
    <2>6. ASSUME NEW u \in Users, ToggleAccount(u) \/ ToggleRole(u)
          PROVE  UNCHANGED <<inst, step, assignee, log, clock>>
      BY <2>6 DEF ToggleAccount, ToggleRole
    <2>7. CASE UNCHANGED vars
      BY <2>2, <2>7 DEF vars
    <2>8. QED
      BY <2>1, <2>2, <2>3, <2>4, <2>5, <2>6, <2>7 DEF Next
  <1>3. EngineInv /\ HistoryKept <=> HistoryInv
    BY DEF HistoryInv, HistoryKept
  <1>4. QED
    BY <1>1, <1>2, <1>3, EngineInvariant, PTL DEF Spec

(* What became of an instance, its steps and its log add up, in every       *)
(* state the engine can reach.                                              *)
THEOREM EngineDecisionsAddUp == Spec => []DecisionsAddUp
  <1>1. HistoryInv => DecisionsAddUp
    <2> SUFFICES ASSUME HistoryInv PROVE LogExplainsSteps
      BY DEF HistoryInv, EngineInv, DecisionsAddUp
    <2>1. QED
      BY DEF HistoryInv, StepsExplained, LogExplainsSteps
  <1>2. QED
    BY <1>1, HistoryInvariant, PTL

-----------------------------------------------------------------------------
(* The engine implements ApprovalLifecycle, with the refinement mapping of   *)
(* WorkflowEngine.                                                          *)

Chain == [i \in Insts |-> Created(i)]
Todo == [i \in Insts |-> Pending(i)]
Done == [i \in Insts |-> Passed(i)]

(* A step that leaves the instances alone is a stutter of the lifecycle.    *)
LEMMA QuietRefines ==
    ASSUME UNCHANGED <<inst, step>>
    PROVE  UNCHANGED Lifecycle!vars
  BY DEF Lifecycle!vars, Outcome, Created, Pending, Passed

(* The creation of an instance opens a lifecycle.                           *)
LEMMA BeginRefines ==
    ASSUME HistoryInv, NEW i \in Insts, Begin(i)
    PROVE  Lifecycle!Open(i, Plan)
  <1> USE DEF HistoryInv, EngineInv
  <1>1. inst[i] = "absent" /\ inst' = [inst EXCEPT ![i] = "pending"] /\ Plan # {}
    BY DEF Begin, Fresh
  <1>2. step' = [step EXCEPT ![i] = [o \in Orders |-> IF o \in Plan THEN "pending" ELSE "none"]]
    BY DEF Begin
  <1>3. Plan \subseteq Orders
    BY DEF Plan
  <1>4. \A o \in Orders : step[i][o] = "none"
    BY <1>1 DEF BlankUntilBegun
  <1>5. \A j \in Insts : j # i => step'[j] = step[j]
    BY <1>2 DEF TypeOK
  <1>6. \A o \in Orders : step'[i][o] = IF o \in Plan THEN "pending" ELSE "none"
    BY <1>2 DEF TypeOK
  <1>7. Outcome[i] = "none" /\ Outcome' = [Outcome EXCEPT ![i] = "open"]
    BY <1>1 DEF Outcome, TypeOK
  <1>8. Chain' = [Chain EXCEPT ![i] = Plan]
    BY <1>3, <1>5, <1>6 DEF Chain, Created
  <1>9. Todo' = [Todo EXCEPT ![i] = Plan]
    BY <1>3, <1>5, <1>6 DEF Todo, Pending
  <1>10. Done' = Done
    BY <1>4, <1>5, <1>6 DEF Done, Passed
  <1>11. QED
    BY <1>1, <1>7, <1>8, <1>9, <1>10 DEF Lifecycle!Open, Chain, Todo, Done

(* An approval, with the steps it skips, advances the lifecycle.            *)
LEMMA ApproveRefines ==
    ASSUME HistoryInv, NEW i \in Insts, NEW u \in Users, Approve(i, u)
    PROVE  Lifecycle!Advance(i)
  <1> USE DEF HistoryInv, EngineInv
  <1>1. PICK done \in SUBSET Pending(i) :
          /\ done # {}
          /\ \A d \in done, o \in Pending(i) \ done : d < o
          /\ step' = [step EXCEPT ![i] =
                        [o \in Orders |-> IF o \in done THEN "approved" ELSE step[i][o]]]
          /\ inst' = IF Pending(i) = done THEN [inst EXCEPT ![i] = "approved"] ELSE inst
    BY ApproveEffect
  <1>2. done \subseteq Orders /\ \A o \in done : step[i][o] = "pending"
    BY DEF Pending
  <1>3. \A j \in Insts : j # i => step'[j] = step[j]
    BY <1>1 DEF TypeOK
  <1>4. \A o \in Orders : step'[i][o] = IF o \in done THEN "approved" ELSE step[i][o]
    BY <1>1 DEF TypeOK
  <1>5. inst[i] \in {"pending", "in_progress", "returned"}
    BY <1>1 DEF EndedIsSettled, TypeOK, InstStatus
  <1>6. Outcome[i] \in {"open", "returned"}
    BY <1>5 DEF Outcome
  <1>7. Outcome' = IF Pending(i) = done THEN [Outcome EXCEPT ![i] = "approved"] ELSE Outcome
    <2>1. CASE Pending(i) = done
      <3>1. inst' = [inst EXCEPT ![i] = "approved"]
        BY <2>1, <1>1
      <3>2. QED
        BY <3>1, <2>1 DEF Outcome, TypeOK
    <2>2. CASE Pending(i) # done
      BY <2>2, <1>1 DEF Outcome
    <2>3. QED
      BY <2>1, <2>2
  <1>8. Chain' = Chain
    BY <1>2, <1>3, <1>4 DEF Chain, Created
  <1>9. Todo' = [Todo EXCEPT ![i] = @ \ done]
    <2>1. Pending(i)' = Pending(i) \ done
      BY <1>4 DEF Pending
    <2>2. \A j \in Insts : j # i => Pending(j)' = Pending(j)
      BY <1>3 DEF Pending
    <2>3. QED
      BY <2>1, <2>2 DEF Todo
  <1>10. Done' = [Done EXCEPT ![i] = @ \cup done]
    <2>1. Passed(i)' = Passed(i) \cup done
      BY <1>2, <1>4 DEF Passed
    <2>2. \A j \in Insts : j # i => Passed(j)' = Passed(j)
      BY <1>3 DEF Passed
    <2>3. QED
      BY <2>1, <2>2 DEF Done
  <1>11. Todo[i] = Pending(i)
    BY DEF Todo
  <1>12. QED
    BY <1>1, <1>6, <1>7, <1>8, <1>9, <1>10, <1>11 DEF Lifecycle!Advance, Chain, Todo, Done

(* A rejection sends the lifecycle back by a step.                          *)
LEMMA RejectRefines ==
    ASSUME HistoryInv, NEW i \in Insts, NEW u \in Users, Reject(i, u)
    PROVE  Lifecycle!SendBack(i)
  <1> USE DEF HistoryInv, EngineInv
  <1>1. PICK s \in PendingStep(i) :
          /\ step' = [step EXCEPT ![i] = AfterReject(i, s, PrevStep(i, s))]
          /\ inst' = [inst EXCEPT ![i] =
                        IF PrevStep(i, s) # {} THEN "in_progress" ELSE "returned"]
    BY RejectEffect
  <1> DEFINE prev == PrevStep(i, s)
  <1>2. s \in Orders /\ step[i][s] = "pending" /\ s \in Pending(i)
    BY PendingStepIsLeast DEF Pending
  <1>3. s \notin prev /\ prev \subseteq Created(i) /\ Created(i) \subseteq Orders
    BY <1>2, EngineAssumption DEF PrevStep, Created, Orders
  <1>4. \A j \in Insts : j # i => step'[j] = step[j]
    BY <1>1 DEF TypeOK
  <1>5. \A o \in Orders : step'[i][o] = IF o = s THEN "rejected"
                                        ELSE IF o \in prev THEN "pending" ELSE step[i][o]
    <2>1. step'[i] = AfterReject(i, s, prev)
      BY <1>1 DEF TypeOK
    <2>2. QED
      BY <2>1, <1>3 DEF AfterReject
  <1>6. Outcome[i] \in {"open", "returned"}
    BY <1>2 DEF EndedIsSettled, TypeOK, InstStatus, Outcome
  <1>7. Outcome' = [Outcome EXCEPT ![i] = IF prev = {} THEN "returned" ELSE "open"]
    BY <1>1 DEF Outcome, TypeOK
  <1>8. Lifecycle!Before(i, s) = prev
    BY DEF Lifecycle!Before, PrevStep
  <1> HIDE DEF prev
  <1>9. Chain' = Chain
    BY <1>2, <1>3, <1>4, <1>5 DEF Chain, Created
  <1>10. Todo' = [Todo EXCEPT ![i] = (@ \ {s}) \cup prev]
    <2>1. Pending(i)' = (Pending(i) \ {s}) \cup prev
      BY <1>2, <1>3, <1>5 DEF Pending
    <2>2. \A j \in Insts : j # i => Pending(j)' = Pending(j)
      BY <1>4 DEF Pending
    <2>3. QED
      BY <2>1, <2>2 DEF Todo
  <1>11. Done' = [Done EXCEPT ![i] = @ \ prev]
    <2>1. Passed(i)' = Passed(i) \ prev
      BY <1>2, <1>3, <1>5 DEF Passed
    <2>2. \A j \in Insts : j # i => Passed(j)' = Passed(j)
      BY <1>4 DEF Passed
    <2>3. QED
      BY <2>1, <2>2 DEF Done
  <1>12. \A t \in Todo[i] : s <= t
    BY DEF Todo, PendingStep, Lowest
  <1>13. QED
    BY <1>2, <1>6, <1>7, <1>8, <1>9, <1>10, <1>11, <1>12
       DEF Lifecycle!SendBack, Chain, Todo, Done

(* The deletion of the row cancels the lifecycles of its instances.         *)
LEMMA DeleteRefines ==
    ASSUME HistoryInv, Delete
    PROVE  Lifecycle!Cancel(Insts)
  <1> USE DEF HistoryInv, EngineInv
  <1>1. \A i \in Insts, o \in Orders :
          /\ step[i][o] # "approved"
          /\ step'[i][o] = IF step[i][o] = "pending" THEN "cancelled" ELSE step[i][o]
    BY DEF Delete, Deletable, CancelledSteps
  <1>2. inst' = [i \in Insts |-> IF inst[i] = "absent" THEN "absent" ELSE "cancelled"]
    BY DEF Delete, CancelledSteps
  <1>3. Outcome' = [r \in Insts |-> IF r \in Insts /\ Outcome[r] # "none"
                                    THEN "cancelled" ELSE Outcome[r]]
    BY <1>2 DEF Outcome, TypeOK, InstStatus
  <1>4. Chain' = Chain
    BY <1>1 DEF Chain, Created
  <1>5. Todo' = [r \in Insts |-> IF r \in Insts THEN {} ELSE Todo[r]]
    BY <1>1 DEF Todo, Pending
  <1>6. Done' = Done /\ \A r \in Insts : Done[r] = {}
    BY <1>1 DEF Done, Passed
  <1>7. QED
    BY <1>3, <1>4, <1>5, <1>6 DEF Lifecycle!Cancel, Chain, Todo, Done

(* Whatever the users and the messages, the engine behaves as the approval  *)
(* lifecycle: the handlers of services/workflow*.py open, advance, send     *)
(* back and cancel, and do nothing else to an instance.                     *)
THEOREM EngineImplementsLifecycle == Spec => ImplementsLifecycle
  <1>1. Init => Lifecycle!Init
    BY DEF Init, Lifecycle!Init, Outcome, Created, Pending, Passed
  <1>2. HistoryInv /\ [Next]_vars => [Lifecycle!Next]_(Lifecycle!vars)
    <2> SUFFICES ASSUME HistoryInv, [Next]_vars
                 PROVE  Lifecycle!Next \/ UNCHANGED Lifecycle!vars
      OBVIOUS
    <2>1. ASSUME NEW i \in Insts, Begin(i)
          PROVE  Lifecycle!Next
      <3>1. Plan \in SUBSET Orders
        BY DEF Plan
      <3>2. QED
        BY <2>1, <3>1, BeginRefines DEF Lifecycle!Next
    <2>2. CASE Create
      BY <2>1, <2>2 DEF Create
    <2>3. CASE ConsumeStart
      BY <2>1, <2>3, QuietRefines DEF ConsumeStart
    <2>4. ASSUME NEW i \in Insts, NEW u \in Users, Decide(i, u)
          PROVE  Lifecycle!Next
      BY <2>4, ApproveRefines, RejectRefines DEF Decide, Lifecycle!Next
    <2>5. CASE Delete
      BY <2>5, DeleteRefines DEF Lifecycle!Next
    <2>6. ASSUME NEW u \in Users, ToggleAccount(u) \/ ToggleRole(u)
          PROVE  UNCHANGED <<inst, step>>
      BY <2>6 DEF ToggleAccount, ToggleRole
    <2>7. CASE UNCHANGED vars
      BY <2>7, QuietRefines DEF vars
    <2>8. QED
      BY <2>2, <2>3, <2>4, <2>5, <2>6, <2>7, QuietRefines DEF Next
  <1>3. QED
    BY <1>1, <1>2, HistoryInvariant, PTL DEF Spec, ImplementsLifecycle, Lifecycle!Spec

-----------------------------------------------------------------------------
(* Visibility.                                                              *)

(* Whoever decided a step, as approved_by or the log tells, is the user it  *)
(* is assigned to: the lists ask for one, the access check for the other.   *)
LEMMA DecidersAreAssigned ==
    ASSUME HistoryInv, NEW i \in Insts, NEW v, NEW o \in ApprovedBy(v, i)
    PROVE  o \in AssignedTo(v, i)
  <1> USE DEF HistoryInv
  <1>1. o \in Orders /\ step[i][o] \in {"approved", "rejected"} /\ o \in Created(i)
    BY DEF ApprovedBy, Created
  <1>2. PICK d \in LastDecision(i, o) : d.by = v
    BY DEF ApprovedBy
  <1>3. PICK e \in LastDecision(i, o) : e.by = assignee[i][o]
    BY <1>1 DEF StepsExplained
  <1>4. /\ d \in log /\ d.inst = i /\ d.order = o /\ e.at <= d.at
        /\ e \in log /\ e.inst = i /\ e.order = o /\ d.at <= e.at
    BY <1>2, <1>3 DEF LastDecision
  <1>5. d.at \in Nat /\ e.at \in Nat
    BY <1>4 DEF EngineInv, TypeOK, Decision
  <1>6. d.at = e.at
    BY <1>4, <1>5
  <1>7. d = e
    BY <1>4, <1>6 DEF LogIsLinear
  <1>8. QED
    BY <1>1, <1>2, <1>3, <1>7 DEF AssignedTo

(* To have had a part in an instance is to have been assigned one of its     *)
(* steps, and every kind of request takes that for a right to open it.      *)
LEMMA InvolvedAreAssigned ==
    ASSUME HistoryInv, NEW v \in Viewers, NEW i \in Insts
    PROVE  /\ ApprovedBy(v, i) # {} => AssignedTo(v, i) # {}
           /\ PartOf(v, i) # {} => AssignedTo(v, i) # {}
           /\ WaitsFor(v, i) # {} => AssignedTo(v, i) # {}
           /\ AssignedTo(v, i) # {} => ActableBy(v, i) # {}
  <1>1. v # NoUser
    BY EngineAssumption, VisibilityAssumption DEF Viewers
  <1>2. ApprovedBy(v, i) \subseteq AssignedTo(v, i)
    BY DecidersAreAssigned
  <1>3. PartOf(v, i) \subseteq AssignedTo(v, i)
    BY <1>2 DEF PartOf
  <1>4. WaitsFor(v, i) \subseteq AssignedTo(v, i)
    BY DEF WaitsFor
  <1>5. AssignedTo(v, i) \subseteq ActableBy(v, i)
    BY <1>1 DEF AssignedTo, ActableBy
  <1>6. QED
    BY <1>2, <1>3, <1>4, <1>5

(* Where every instance is asked, and for a payment or a document with one  *)
(* instance, whoever takes part in an instance may open the row.            *)
LEMMA InvolvedMayOpen ==
    ASSUME HistoryInv, entity = "live", NEW v \in Viewers, NEW i \in Begun,
           NEW kind \in Kinds, kind # "form",
           kind \in {"payment", "document"} => OneRun,
           IF kind = "purchase" THEN WaitsFor(v, i) \cup PartOf(v, i) # {}
                                ELSE AssignedTo(v, i) # {}
    PROVE  MayOpen(kind, v)
  <1>1. i \in Insts /\ Begun \subseteq Insts /\ Begun # {}
    BY DEF Begun
  <1>2. InvolvedBy(kind, v, i)
    BY <1>1, InvolvedAreAssigned DEF InvolvedBy
  <1>3. \A is \in Asked(kind) : i \in is
    <2>1. CASE kind = "payment"
      BY <2>1 DEF Asked, LatestBegun, OneRun
    <2>2. CASE kind = "document"
      BY <2>2 DEF Asked, OneRun
    <2>3. CASE kind \notin {"payment", "document"}
      BY <2>3 DEF Asked
    <2>4. QED
      BY <2>1, <2>2, <2>3
  <1>4. QED
    BY <1>1, <1>2, <1>3 DEF MayOpen

(* The lists of a kind show nobody what he may not open.                    *)
LEMMA ListedMayOpenStep ==
    ASSUME HistoryInv
    PROVE  ListedMayOpen
  <1> SUFFICES ASSUME NEW v \in Viewers, NEW kind \in Kinds, NEW scope \in Scopes,
                      Listed(kind, v, scope), kind \in {"payment", "document"} => OneRun
               PROVE  MayOpen(kind, v)
    BY DEF ListedMayOpen
  <1>1. /\ entity = "live" /\ kind # "form" /\ ScopeAllowed(kind, v, scope)
        /\ scope = "mine" => v = Requester
        /\ scope = "team" => LeadsRequester(v)
        /\ scope = "approver" => \E i \in Begun : WaitsFor(v, i) # {}
    BY DEF Listed
  <1>2. ASSUME NEW i \in Begun, WaitsFor(v, i) \cup PartOf(v, i) # {}
        PROVE  MayOpen(kind, v)
    <2>1. AssignedTo(v, i) # {}
      BY <1>2, InvolvedAreAssigned DEF Begun
    <2>2. QED
      BY <1>1, <1>2, <2>1, InvolvedMayOpen
  <1>3. ASSUME NEW i \in Begun, ApprovedBy(v, i) # {}
        PROVE  MayOpen(kind, v)
    BY <1>2, <1>3 DEF PartOf
  <1>4. CASE scope = "mine"
    BY <1>1, <1>4 DEF MayOpen, SeesRequester
  <1>5. CASE scope = "team"
    BY <1>1, <1>5 DEF ScopeAllowed, MayOpen, SeesRequester
  <1>6. CASE scope = "all"
    BY <1>1, <1>6 DEF ScopeAllowed, MayOpen, SeesRequester
  <1>7. CASE scope = "approver"
    BY <1>1, <1>2, <1>7
  <1>8. CASE scope = "participated"
    <2>1. CASE kind = "mission" /\ v = Requester
      BY <1>1, <2>1 DEF MayOpen, SeesRequester
    <2>2. CASE kind \in {"mission", "document"} /\ \E i \in Begun : ApprovedBy(v, i) # {}
      BY <1>3, <2>2
    <2>3. CASE kind \notin {"mission", "document"}
      <3>1. PICK i \in Begun : PartOf(v, i) # {}
        BY <1>8, <2>3 DEF Listed
      <3>2. QED
        BY <1>2, <3>1
    <2>4. QED
      BY <1>8, <2>1, <2>2, <2>3 DEF Listed
  <1>9. QED
    BY <1>4, <1>5, <1>6, <1>7, <1>8 DEF Scopes

(* The list of instances shows nobody what he may not open.                 *)
LEMMA TracedMayOpenStep ==
    ASSUME HistoryInv
    PROVE  TracedMayOpen
  <1> SUFFICES ASSUME NEW v \in Viewers, NEW i \in Begun, NEW scope \in Scopes,
                      Traced(v, i, scope), NEW kind \in Kinds,
                      ~ (scope = "team" /\ kind \in {"purchase", "form"}),
                      ~ (scope = "all" /\ (kind = "form" \/ entity # "live"))
               PROVE  MayOpenInstance(kind, v, i)
    BY DEF TracedMayOpen
  <1>1. i \in Insts
    BY DEF Begun
  <1>2. AssignedTo(v, i) # {} => MayOpenInstance(kind, v, i)
    BY DEF MayOpenInstance
  <1>3. WaitsFor(v, i) \cup PartOf(v, i) # {} => MayOpenInstance(kind, v, i)
    BY <1>1, <1>2, InvolvedAreAssigned
  <1>4. CASE scope = "mine"
    BY <1>2, <1>4 DEF Traced, MayOpenInstance
  <1>5. CASE scope = "team"
    BY <1>5 DEF Traced, MayOpenInstance, MayOpen, SeesRequester
  <1>6. CASE scope = "all"
    BY <1>6 DEF Traced, ScopeAllowed, MayOpenInstance, MayOpen, SeesRequester
  <1>7. CASE scope = "approver"
    BY <1>3, <1>7 DEF Traced
  <1>8. CASE scope = "participated"
    BY <1>3, <1>8 DEF Traced
  <1>9. QED
    BY <1>4, <1>5, <1>6, <1>7, <1>8 DEF Scopes

(* Whoever must decide a step finds its request, and may open it.           *)
LEMMA AskedFindItStep ==
    ASSUME HistoryInv
    PROVE  AskedFindIt
  <1> SUFFICES ASSUME NEW i \in Begun, entity = "live", NEW o \in PendingStep(i),
                      NEW v \in Users, CanAct(v, i, o)
               PROVE  /\ Traced(v, i, "approver")
                      /\ \A kind \in Kinds \ {"form"} :
                            /\ Listed(kind, v, "approver")
                            /\ MayOpen(kind, v) \/ (kind \in {"payment", "document"} /\ ~OneRun)
    BY DEF AskedFindIt
  <1>1. i \in Insts /\ v \in Viewers
    BY DEF Begun, Viewers
  <1>2. o \in WaitsFor(v, i)
    BY DEF WaitsFor, AssignedTo, Created, PendingStep, Lowest, Pending, CanAct
  <1>3. Traced(v, i, "approver")
    BY <1>2 DEF Traced, ScopeAllowed
  <1>4. \A kind \in Kinds \ {"form"} : Listed(kind, v, "approver")
    BY <1>2 DEF Listed, ScopeAllowed
  <1>5. ASSUME NEW kind \in Kinds \ {"form"}, kind \in {"payment", "document"} => OneRun
        PROVE  MayOpen(kind, v)
    <2>1. AssignedTo(v, i) # {} /\ WaitsFor(v, i) \cup PartOf(v, i) # {}
      BY <1>1, <1>2, InvolvedAreAssigned
    <2>2. QED
      BY <1>1, <1>5, <2>1, InvolvedMayOpen
  <1>6. QED
    BY <1>3, <1>4, <1>5

(* What the lists show, and what asks for a decision, may be opened, in     *)
(* every state of the engine.                                               *)
THEOREM EngineShownMayBeOpened == Spec => []ShownMayBeOpened
  <1>1. HistoryInv => ShownMayBeOpened
    BY ListedMayOpenStep, TracedMayOpenStep, AskedFindItStep DEF ShownMayBeOpened
  <1>2. QED
    BY <1>1, HistoryInvariant, PTL

-----------------------------------------------------------------------------
(* Accounts, roles and permissions.                                         *)

LoginStates == LoginRows \cup {NoLogin, UserGone}
RoleStates == [name : RoleNames, single : BOOLEAN] \cup {NoRole}
HeldStates == {"no", "active", "inactive"}
JobRows == [op : {"none", "assign", "create", "update", "replace"}, u : Accounts \cup {0}, r : Roles \cup {0},
            seen : LoginStates, row : LoginStates, off : SUBSET Roles, was : HeldStates,
            old : SUBSET (Roles \X Permissions), new : SUBSET (Roles \X Permissions)]

(* Types; what is about to be stored has a name, and an owner.              *)
DirectoryTyped ==
    /\ DirectoryTypeOK
    /\ admin \in [Admins -> JobRows]
    /\ \A a \in Admins : /\ admin[a].op \in {"create", "update"} => admin[a].row \in LoginRows
                         /\ admin[a].op = "update" => admin[a].seen \in LoginRows
                         /\ admin[a].op \in {"assign", "update"} => admin[a].u \in Accounts
                         /\ admin[a].op = "assign" => admin[a].r \in Roles

Sound ==
    /\ \A u, v \in UsersNow : user[u].name = user[v].name => u = v
    /\ \A r, s \in RolesNow : role[r].name = role[s].name => r = s
    /\ \A p, q \in PermissionsNow : permission[p] = permission[q] => p = q
    /\ \A u \in Accounts, r \in Roles : held[<<u, r>>] # "no" => u \in UsersNow /\ r \in RolesNow
    /\ granted \subseteq RolesNow \X PermissionsNow

(* One request at a time, and what it has read is still so: the role it     *)
(* gives is that of its holder already, or free.                            *)
Allowed(job) ==
    job.op \in {"assign", "create", "update"} /\ job.r # 0 =>
        \/ /\ job.op # "create" /\ job.was = "active" /\ held[<<job.u, job.r>>] = "active"
        \/ SlotAvailable(job.r, IF job.op = "create" THEN 0 ELSE job.u)
OneAdmin ==
    ~hurried => /\ \A a, b \in Admins : admin[a] # Unbusy /\ admin[b] # Unbusy => a = b
                /\ \A a \in Admins : Allowed(admin[a])

DirectoryInv == DirectoryTyped /\ Sound /\ hurried \in BOOLEAN /\ OneAdmin

(* The rows that stand for no account and for a deleted one are none.       *)
LEMMA LoginFacts ==
    /\ NoLogin \in LoginStates /\ UserGone \in LoginStates /\ LoginRows \subseteq LoginStates
    /\ NoLogin.name \notin Usernames /\ UserGone.name \notin Usernames
    /\ \A x \in LoginStates : x.name \in Usernames <=> x \in LoginRows
    /\ NoRole.name \notin RoleNames
    /\ 0 \notin Accounts /\ 0 \notin Roles
    /\ Unbusy \in JobRows /\ Unbusy.op = "none"
  <1>1. /\ NoLogin \in LoginStates /\ UserGone \in LoginStates /\ LoginRows \subseteq LoginStates
        /\ NoLogin.name \notin Usernames /\ UserGone.name \notin Usernames
    BY DirectoryAssumption DEF LoginStates, NoLogin, UserGone
  <1>2. \A x \in LoginStates : x.name \in Usernames <=> x \in LoginRows
    BY <1>1 DEF LoginStates, LoginRows
  <1>3. NoRole.name \notin RoleNames /\ 0 \notin Accounts /\ 0 \notin Roles
    BY DirectoryAssumption DEF NoRole
  <1>4. Unbusy \in JobRows /\ Unbusy.op = "none"
    BY <1>1 DEF Unbusy, JobRows, HeldStates
  <1> QED
    BY <1>1, <1>2, <1>3, <1>4

(* The next account, role and permission is one that is not there.          *)
LEMMA NextRows ==
    /\ (\E v \in Accounts : user[v] = NoLogin) =>
         LET u == Min({v \in Accounts : user[v] = NoLogin}) IN u \in Accounts /\ user[u] = NoLogin
    /\ RolesNow # Roles => Min(Roles \ RolesNow) \in Roles \ RolesNow
    /\ PermissionsNow # Permissions => Min(Permissions \ PermissionsNow) \in Permissions \ PermissionsNow
  <1>1. ASSUME NEW S \in SUBSET Nat, NEW T \in SUBSET S, T # S PROVE Min(S \ T) \in S \ T
    BY <1>1, MinOf
  <1>2. RolesNow \subseteq Roles /\ PermissionsNow \subseteq Permissions
    BY DEF RolesNow, PermissionsNow
  <1>3. ASSUME \E v \in Accounts : user[v] = NoLogin
        PROVE  LET u == Min({v \in Accounts : user[v] = NoLogin}) IN u \in Accounts /\ user[u] = NoLogin
    <2> DEFINE S == {v \in Accounts : user[v] = NoLogin}
    <2>1. S \in SUBSET Nat /\ S # {}
      BY <1>3, DirectoryAssumption
    <2>2. Min(S) \in S
      BY <2>1, MinOf
    <2> QED
      BY <2>2
  <1> QED
    BY <1>1, <1>2, <1>3, DirectoryAssumption

(* The first state: nothing is stored, nobody at work.                      *)
LEMMA DirectoryStart == DirectoryInit => DirectoryInv
  <1> SUFFICES ASSUME DirectoryInit PROVE DirectoryInv
    OBVIOUS
  <1> USE DEF DirectoryInit
  <1>1. UsersNow = {} /\ RolesNow = {} /\ PermissionsNow = {}
    BY LoginFacts DEF UsersNow, RolesNow, PermissionsNow
  <1>2. DirectoryTypeOK
    BY DEF DirectoryTypeOK, NoToken
  <1>3. DirectoryTyped
    BY <1>2, LoginFacts DEF DirectoryTyped
  <1>4. Sound
    BY <1>1 DEF Sound
  <1>5. OneAdmin
    BY LoginFacts DEF OneAdmin, Allowed
  <1> QED
    BY <1>3, <1>4, <1>5 DEF DirectoryInv

(* What an administrator has in mind, and how a job ends.                   *)
JobFits(job) ==
    /\ job \in JobRows
    /\ job.op \in {"create", "update"} => job.row \in LoginRows
    /\ job.op = "update" => job.seen \in LoginRows
    /\ job.op \in {"assign", "update"} => job.u \in Accounts
    /\ job.op = "assign" => job.r \in Roles

(* A request that has read gives its job a type.                            *)
LEMMA JobsTyped ==
    ASSUME DirectoryTyped, NEW a \in Admins, NEW job, JobFits(job),
           admin' = [admin EXCEPT ![a] = job], DirectoryTypeOK'
    PROVE  DirectoryTyped'
  BY DEF DirectoryTyped, JobFits

(* A request that has answered keeps nothing in mind.                       *)
LEMMA JobsEnd ==
    ASSUME DirectoryTyped, NEW a \in Admins, Answered(a), DirectoryTypeOK'
    PROVE  DirectoryTyped'
  <1>1. JobFits(Unbusy)
    BY LoginFacts DEF JobFits
  <1> QED
    BY <1>1, JobsTyped DEF Answered

(* What no request has in mind anew keeps its type.                         *)
LEMMA JobsStay ==
    ASSUME DirectoryTyped, UNCHANGED admin, DirectoryTypeOK'
    PROVE  DirectoryTyped'
  BY DEF DirectoryTyped

(* Who has which role after a commit.                                       *)
LEMMA HoldingTyped ==
    ASSUME DirectoryTypeOK, NEW u \in Accounts, NEW r \in Roles \cup {0}, NEW was, NEW off
    PROVE  Holding(u, r, was, off) \in [Accounts \X Roles -> HeldStates]
  BY DEF DirectoryTypeOK, HeldStates, Holding

(* After a commit somebody has a role who had it, or to whom it is given.   *)
LEMMA HoldingRow ==
    ASSUME NEW u, NEW r, NEW was, NEW off, NEW v \in Accounts, NEW x \in Roles
    PROVE  /\ Holding(u, r, was, off)[<<v, x>>] # "no" =>
                (held[<<v, x>>] # "no" \/ (v = u /\ x = r /\ was # "active") \/ (v = u /\ x \in off))
           /\ Holding(u, r, was, off)[<<v, x>>] = "active" =>
                (held[<<v, x>>] = "active" \/ (v = u /\ x = r /\ was # "active"))
  <1>1. Holding(u, r, was, off)[<<v, x>>] =
          IF <<v, x>> = <<u, r>> /\ was # "active" THEN "active"
          ELSE IF v = u /\ x \in off THEN "inactive" ELSE held[<<v, x>>]
    BY DEF Holding
  <1> QED
    BY <1>1

(* A commit that changes accounts and their roles.                          *)
LEMMA PeopleStored ==
    ASSUME DirectoryTyped, Sound, NEW u \in Accounts, NEW r \in Roles \cup {0}, NEW was, NEW off \in SUBSET Roles,
           NEW new \in LoginRows, user' = [user EXCEPT ![u] = new],
           held' = Holding(u, r, was, off), UNCHANGED <<role, access, visits>>,
           NameFree(new.name, u) \/ user[u].name = new.name,
           r # 0 /\ was # "active" => r \in RolesNow,
           \A x \in off : held[<<u, x>>] # "no"
    PROVE  DirectoryTypeOK' /\ Sound'
  <1>1. /\ DirectoryTypeOK /\ user \in [Accounts -> LoginStates]
        /\ held' \in [Accounts \X Roles -> HeldStates]
        /\ new \in LoginStates /\ new.name \in Usernames
    BY HoldingTyped DEF DirectoryTyped, DirectoryTypeOK, LoginRows, LoginStates
  <1>2. user' \in [Accounts -> LoginStates] /\ user'[u] = new /\ \A v \in Accounts : v # u => user'[v] = user[v]
    BY <1>1 DEF LoginStates
  <1>3. UsersNow' = UsersNow \cup {u}
    BY <1>1, <1>2 DEF UsersNow
  <1>4. RolesNow' = RolesNow /\ PermissionsNow' = PermissionsNow
    BY DEF RolesNow, PermissionsNow, access
  <1>5. DirectoryTypeOK'
    BY <1>1, <1>2 DEF DirectoryTypeOK, LoginStates, HeldStates, access, visits
  <1>6. ASSUME NEW v \in UsersNow', NEW w \in UsersNow', user'[v].name = user'[w].name PROVE v = w
    <2>1. \A x \in UsersNow : x # u => user[x].name # new.name
      BY DEF NameFree, Sound, UsersNow
    <2> QED
      BY <1>2, <1>3, <1>6, <2>1 DEF Sound, UsersNow
  <1>7. ASSUME NEW v \in Accounts, NEW x \in Roles, held'[<<v, x>>] # "no"
        PROVE  v \in UsersNow' /\ x \in RolesNow'
    <2>1. Holding(u, r, was, off)[<<v, x>>] # "no"
      BY <1>7
    <2>3. \/ held[<<v, x>>] # "no"
          \/ v = u /\ x = r /\ was # "active"
          \/ v = u /\ x \in off
      <3>2. Holding(u, r, was, off)[<<v, x>>] # "no" =>
              (held[<<v, x>>] # "no" \/ (v = u /\ x = r /\ was # "active") \/ (v = u /\ x \in off))
        BY HoldingRow
      <3> QED
        BY <2>1, <3>2
    <2>2. r \in Roles => r # 0
      BY LoginFacts
    <2> QED
      BY <1>3, <1>4, <2>3, <2>2 DEF Sound
  <1> QED
    BY <1>4, <1>5, <1>6, <1>7 DEF Sound, access

(* A commit that changes nobody's row is one that changes only held.        *)
LEMMA PeopleStep ==
    ASSUME DirectoryTyped, Sound, NEW a \in Admins, CommitAssign(a) \/ CommitCreateUser(a) \/ CommitUpdateUser(a)
    PROVE  DirectoryTyped' /\ Sound'
  <1> DEFINE job == admin[a]
  <1>1. /\ job \in JobRows
        /\ job.op \in {"create", "update"} => job.row \in LoginRows
        /\ job.op = "update" => job.seen \in LoginRows
        /\ job.op \in {"assign", "update"} => job.u \in Accounts
        /\ job.op = "assign" => job.r \in Roles
        /\ job.r \in Roles \cup {0} /\ job.off \in SUBSET Roles
    BY DEF DirectoryTyped, JobRows
  <1>2. Answered(a) /\ UNCHANGED <<role, access, visits>>
    BY DEF CommitAssign, CommitCreateUser, CommitUpdateUser
  <1>3. user \in [Accounts -> LoginStates] /\ 0 \notin Roles
    BY LoginFacts DEF DirectoryTyped, DirectoryTypeOK, LoginStates
  <1>4. ASSUME UNCHANGED <<user, held>> PROVE DirectoryTypeOK' /\ Sound'
    BY <1>2, <1>4 DEF DirectoryTyped, DirectoryTypeOK, Sound, access, visits, UsersNow, RolesNow, PermissionsNow
  <1> SUFFICES DirectoryTypeOK' /\ Sound'
    BY <1>2, JobsEnd
  <1>5. CASE CommitAssign(a)
    <2>1. CASE ~(job.u \in UsersNow /\ RowStands(job.u, job.r, job.was))
      BY <1>4, <1>5, <2>1 DEF CommitAssign
    <2>2. CASE job.u \in UsersNow /\ RowStands(job.u, job.r, job.was)
      <3> DEFINE u == job.u
                 new == user[u]
      <3>1. /\ user' = user /\ held' = Holding(job.u, job.r, job.was, {})
            /\ job.r # 0 /\ job.was # "active" => job.r \in RolesNow
        BY <1>5, <2>2 DEF CommitAssign, RowStands
      <3>2. u \in Accounts /\ new \in LoginRows /\ user[u].name = new.name
        BY <1>3, <2>2, LoginFacts DEF UsersNow
      <3>3. user' = [user EXCEPT ![u] = new]
        BY <1>3, <3>1, <3>2
      <3>4. held' = Holding(u, job.r, job.was, {})
        BY <3>1
      <3>6. {} \in SUBSET Roles /\ \A x \in {} : held[<<u, x>>] # "no"
        OBVIOUS
      <3>7. job.r # 0 /\ job.was # "active" => job.r \in RolesNow
        BY <3>1
      <3> HIDE DEF new, u
      <3> QED
        BY <1>1, <1>2, <3>2, <3>3, <3>4, <3>6, <3>7, PeopleStored
    <2> QED
      BY <2>1, <2>2
  <1>6. CASE CommitCreateUser(a)
    <2> DEFINE u == Min({v \in Accounts : user[v] = NoLogin})
    <2>1. /\ job.op = "create" /\ \E v \in Accounts : user[v] = NoLogin
          /\ IF NameFree(job.row.name, 0) /\ RowStands(u, job.r, "no")
             THEN user' = [user EXCEPT ![u] = job.row] /\ held' = Holding(u, job.r, "no", {})
             ELSE UNCHANGED <<user, held>>
      BY <1>6 DEF CommitCreateUser
    <2>2. u \in Accounts /\ user[u] = NoLogin
      BY <2>1, NextRows
    <2> HIDE DEF u
    <2>3. CASE UNCHANGED <<user, held>>
      BY <1>4, <2>3
    <2>4. CASE /\ NameFree(job.row.name, 0) /\ RowStands(u, job.r, "no")
               /\ user' = [user EXCEPT ![u] = job.row] /\ held' = Holding(u, job.r, "no", {})
      <3> DEFINE new == job.row
      <3>1. new \in LoginRows /\ job.r \in Roles \cup {0}
        BY <1>1, <2>1
      <3>2. NameFree(new.name, u) \/ user[u].name = new.name
        BY <2>4, LoginFacts DEF NameFree, UsersNow
      <3>3. job.r # 0 /\ "no" # "active" => job.r \in RolesNow
        BY <2>4 DEF RowStands
      <3>4. user' = [user EXCEPT ![u] = new]
        BY <2>4
      <3>6. {} \in SUBSET Roles /\ \A x \in {} : held[<<u, x>>] # "no"
        OBVIOUS
      <3>7. held' = Holding(u, job.r, "no", {})
        BY <2>4
      <3> HIDE DEF new, job
      <3> QED
        BY <1>2, <2>2, <3>7, <3>1, <3>2, <3>3, <3>4, <3>6, PeopleStored
    <2> QED
      BY <2>1, <2>3, <2>4
  <1>7. CASE CommitUpdateUser(a)
    <2> DEFINE u == job.u
               name == Kept(job.seen.name, job.row.name, user[u].name)
               live == Kept(job.seen.active, job.row.active, user[u].active)
    <2>1. /\ job.op = "update"
          /\ IF /\ u \in UsersNow /\ NameFree(job.row.name, u) /\ RowStands(u, job.r, job.was)
                /\ \A x \in job.off : held[<<u, x>>] # "no"
             THEN /\ user' = [user EXCEPT ![u].name = Kept(job.seen.name, job.row.name, @),
                                          ![u].active = Kept(job.seen.active, job.row.active, @)]
                  /\ held' = Holding(u, job.r, job.was, job.off)
             ELSE UNCHANGED <<user, held>>
      BY <1>7 DEF CommitUpdateUser
    <2>2. CASE UNCHANGED <<user, held>>
      BY <1>4, <2>2
    <2>3. CASE /\ u \in UsersNow /\ NameFree(job.row.name, u) /\ RowStands(u, job.r, job.was)
               /\ \A x \in job.off : held[<<u, x>>] # "no"
               /\ user' = [user EXCEPT ![u].name = Kept(job.seen.name, job.row.name, @),
                                       ![u].active = Kept(job.seen.active, job.row.active, @)]
               /\ held' = Holding(u, job.r, job.was, job.off)
      <3> DEFINE new == [user[u] EXCEPT !.name = name, !.active = live]
      <3>1. /\ u \in Accounts /\ user[u] \in LoginRows /\ job.row \in LoginRows
            /\ job.r \in Roles \cup {0} /\ job.off \in SUBSET Roles
        BY <1>1, <1>3, <2>1, <2>3, LoginFacts DEF UsersNow
      <3>2. name \in Usernames /\ live \in BOOLEAN /\ (name = job.row.name \/ name = user[u].name)
        BY <3>1 DEF LoginRows, Kept
      <3>3. user' = [user EXCEPT ![u] = new]
        <4> HIDE DEF job
        <4> QED
          BY <1>3, <2>3, <3>1
      <3>4. new \in LoginRows /\ new.name = name
        <4> HIDE DEF name, live
        <4> QED
          BY <3>1, <3>2 DEF LoginRows
      <3>5. NameFree(new.name, u) \/ user[u].name = new.name
        <4> HIDE DEF name, new, u
        <4> QED
          BY <2>3, <3>2, <3>4
      <3>6. job.r # 0 /\ job.was # "active" => job.r \in RolesNow
        BY <2>3 DEF RowStands
      <3>7. held' = Holding(u, job.r, job.was, job.off) /\ \A x \in job.off : held[<<u, x>>] # "no"
        BY <2>3
      <3> HIDE DEF name, live, u, new, job
      <3> QED
        BY <1>2, <3>1, <3>3, <3>4, <3>5, <3>6, <3>7, PeopleStored
    <2> QED
      BY <2>1, <2>2, <2>3
  <1> QED
    BY <1>5, <1>6, <1>7

(* A request has read, and will write.                                      *)
LEMMA TakesStep ==
    ASSUME DirectoryTyped, Sound, NEW a \in Admins,
           \/ \E u \in Accounts, r \in Roles : BeginAssign(a, u, r)
           \/ \E n \in Usernames, r \in Roles \cup {0} :
                BeginCreateUser(a, n, r) \/ \E u \in Accounts : BeginUpdateUser(a, u, n, r)
           \/ \E r \in Roles, new \in SUBSET Permissions : BeginReplace(a, r, new)
    PROVE  /\ DirectoryTyped' /\ Sound'
           /\ UNCHANGED <<people, hurried, let>> /\ Idle(a)
           /\ \E job \in JobRows : /\ Allowed(job) /\ admin' = [admin EXCEPT ![a] = job]
  <1>1. SUFFICES \E job \in JobRows : JobFits(job) /\ Allowed(job) /\ Takes(a, job)
    <2> PICK job \in JobRows : JobFits(job) /\ Allowed(job) /\ Takes(a, job)
      BY <1>1
    <2>1. /\ UNCHANGED <<people, access, visits, hurried>> /\ Idle(a) /\ admin' = [admin EXCEPT ![a] = job]
      BY DEF Takes
    <2>2. DirectoryTypeOK' /\ Sound'
      BY <2>1 DEF DirectoryTyped, DirectoryTypeOK, Sound, access, people, visits, UsersNow, RolesNow, PermissionsNow
    <2>3. DirectoryTyped'
      BY <2>1, <2>2, JobsTyped
    <2> QED
      BY <2>1, <2>2, <2>3 DEF visits
  <1>2. /\ DirectoryTypeOK /\ user \in [Accounts -> LoginStates] /\ held \in [Accounts \X Roles -> HeldStates]
        /\ "no" \in HeldStates /\ {} \in SUBSET Roles
    BY DEF DirectoryTyped, DirectoryTypeOK, LoginStates, HeldStates
  <1>3. ASSUME NEW u \in Accounts, NEW r \in Roles, BeginAssign(a, u, r)
        PROVE  \E job \in JobRows : JobFits(job) /\ Allowed(job) /\ Takes(a, job)
    <2> DEFINE job == [Unbusy EXCEPT !.op = "assign", !.u = u, !.r = r, !.was = Was(u, r)]
    <2>1. held[<<u, r>>] # "active" /\ MayHold(u, r) /\ Takes(a, job)
      BY <1>3 DEF BeginAssign
    <2>2. Was(u, r) \in HeldStates
      BY <1>2 DEF Was
    <2>3. job \in JobRows /\ job.op = "assign" /\ job.u = u /\ job.r = r
      BY <2>2, LoginFacts DEF Unbusy, JobRows
    <2> HIDE DEF job
    <2>4. JobFits(job)
      BY <2>3 DEF JobFits
    <2>5. SlotAvailable(r, u)
      BY <2>1 DEF MayHold
    <2>6. Allowed(job)
      BY <2>3, <2>5 DEF Allowed
    <2> QED
      BY <2>1, <2>3, <2>4, <2>6
  <1>4. ASSUME NEW n \in Usernames, NEW r \in Roles \cup {0}, BeginCreateUser(a, n, r)
        PROVE  \E job \in JobRows : JobFits(job) /\ Allowed(job) /\ Takes(a, job)
    <2>1. PICK live \in BOOLEAN :
            Takes(a, [Unbusy EXCEPT !.op = "create", !.r = r, !.row = [name |-> n, active |-> live]])
      BY <1>4 DEF BeginCreateUser
    <2> DEFINE new == [name |-> n, active |-> live]
               job == [Unbusy EXCEPT !.op = "create", !.r = r, !.row = new]
    <2>2. new \in LoginRows /\ new \in LoginStates
      BY DEF LoginRows, LoginStates
    <2>3. Takes(a, job)
      BY <2>1
    <2> HIDE DEF new
    <2>4. job \in JobRows /\ job.op = "create" /\ job.r = r /\ job.row = new
      BY <2>2, LoginFacts DEF Unbusy, JobRows
    <2> HIDE DEF job
    <2>5. JobFits(job)
      BY <2>2, <2>4 DEF JobFits
    <2>6. r # 0 => SlotAvailable(r, 0)
      BY <1>4 DEF BeginCreateUser
    <2>7. Allowed(job)
      BY <2>4, <2>6 DEF Allowed
    <2> QED
      BY <2>3, <2>4, <2>5, <2>7
  <1>5. ASSUME NEW u \in Accounts, NEW n \in Usernames, NEW r \in Roles \cup {0}, BeginUpdateUser(a, u, n, r)
        PROVE  \E job \in JobRows : JobFits(job) /\ Allowed(job) /\ Takes(a, job)
    <2>1. PICK live \in BOOLEAN :
            Takes(a, [Unbusy EXCEPT !.op = "update", !.u = u, !.r = r, !.seen = user[u],
                                    !.row = [name |-> n, active |-> live], !.was = Was(u, r),
                                    !.off = IF r = 0 THEN {} ELSE OthersActive(u, r)])
      BY <1>5 DEF BeginUpdateUser
    <2> DEFINE new == [name |-> n, active |-> live]
               was == Was(u, r)
               off == IF r = 0 THEN {} ELSE OthersActive(u, r)
               job == [Unbusy EXCEPT !.op = "update", !.u = u, !.r = r, !.seen = user[u],
                                     !.row = new, !.was = was, !.off = off]
    <2>2. new \in LoginRows /\ new \in LoginStates
      BY DEF LoginRows, LoginStates
    <2>3. Takes(a, job)
      BY <2>1
    <2>4. was \in HeldStates /\ off \in SUBSET Roles
      BY <1>2 DEF Was, OthersActive
    <2>5. user[u] \in LoginStates /\ user[u] \in LoginRows
      BY <1>2, <1>5, LoginFacts DEF BeginUpdateUser, UsersNow
    <2> HIDE DEF new, was, off
    <2>6. job \in JobRows /\ job.op = "update" /\ job.r = r /\ job.row = new /\ job.u = u /\ job.seen = user[u] /\ job.was = was
      BY <2>2, <2>4, <2>5, LoginFacts DEF Unbusy, JobRows
    <2> HIDE DEF job
    <2>7. JobFits(job)
      BY <2>2, <2>5, <2>6 DEF JobFits
    <2>8. r # 0 => r \in Roles /\ (held[<<u, r>>] = "active" \/ SlotAvailable(r, u)) /\ was = held[<<u, r>>]
      BY <1>5 DEF BeginUpdateUser, MayHold, Was, was
    <2>9. Allowed(job)
      BY <2>6, <2>8 DEF Allowed
    <2> QED
      BY <2>3, <2>6, <2>7, <2>9
  <1>6. ASSUME NEW r \in Roles, NEW new \in SUBSET Permissions, BeginReplace(a, r, new)
        PROVE  \E job \in JobRows : JobFits(job) /\ Allowed(job) /\ Takes(a, job)
    <2> DEFINE added == {<<r, p>> : p \in new}
               old == {g \in granted : g[1] = r}
               job == [Unbusy EXCEPT !.op = "replace", !.r = r, !.new = added, !.old = old]
    <2>1. Takes(a, job)
      BY <1>6 DEF BeginReplace
    <2>2. added \in SUBSET (Roles \X Permissions) /\ old \in SUBSET (Roles \X Permissions)
      BY <1>2 DEF DirectoryTypeOK
    <2> HIDE DEF added, old
    <2>3. job \in JobRows /\ job.op = "replace"
      BY <2>2, LoginFacts DEF Unbusy, JobRows
    <2> HIDE DEF job
    <2>4. JobFits(job) /\ Allowed(job)
      BY <2>3 DEF JobFits, Allowed
    <2> QED
      BY <2>1, <2>3, <2>4
  <1> QED
    BY <1>3, <1>4, <1>5, <1>6

(* Steps that take no job up and end none.                                  *)
AtOnce(a) ==
    \/ \E u \in Accounts : DeleteUser(a, u) \/ \E r \in Roles : RevokeRole(a, u, r)
    \/ \E n \in RoleNames, single \in BOOLEAN :
         CreateRole(a, n, single) \/ \E r \in Roles : UpdateRole(a, r, n, single)
    \/ \E r \in Roles :
         \/ DeleteRole(a, r)
         \/ \E p \in Permissions : AssignPermission(a, r, p) \/ UnassignPermission(a, r, p)
    \/ \E c \in Codes :
         CreatePermission(a, c) \/ \E p \in Permissions : UpdatePermission(a, p, c)
    \/ \E p \in Permissions : DeletePermission(a, p)

(* Accounts that go, and roles that are revoked.                            *)
LEMMA PeopleGo ==
    ASSUME DirectoryTyped, Sound, NEW a \in Admins, NEW u \in Accounts,
           DeleteUser(a, u) \/ \E r \in Roles : RevokeRole(a, u, r)
    PROVE  DirectoryTypeOK' /\ Sound'
  <1>1. /\ DirectoryTypeOK /\ user \in [Accounts -> LoginStates] /\ held \in [Accounts \X Roles -> HeldStates]
    BY DEF DirectoryTyped, DirectoryTypeOK, LoginStates, HeldStates
  <1>2. RolesNow' = RolesNow /\ PermissionsNow' = PermissionsNow /\ UNCHANGED <<role, permission, granted, token>>
    BY DEF DeleteUser, RevokeRole, access, visits, RolesNow, PermissionsNow
  <1>3. CASE DeleteUser(a, u)
    <2>1. /\ user' = [user EXCEPT ![u] = UserGone]
          /\ held' = [ur \in Accounts \X Roles |-> IF ur[1] = u THEN "no" ELSE held[ur]]
      BY <1>3 DEF DeleteUser
    <2>2. user' \in [Accounts -> LoginStates] /\ held' \in [Accounts \X Roles -> HeldStates]
      BY <1>1, <2>1, LoginFacts DEF HeldStates
    <2>3. UsersNow' = UsersNow \ {u}
      BY <1>1, <2>1, LoginFacts DEF UsersNow
    <2>4. DirectoryTypeOK'
      BY <1>1, <1>2, <2>2 DEF DirectoryTypeOK, LoginStates, HeldStates
    <2>5. \A v, w \in UsersNow' : user'[v].name = user'[w].name => v = w
      BY <1>1, <2>1, <2>3 DEF Sound, UsersNow
    <2>6. ASSUME NEW v \in Accounts, NEW x \in Roles, held'[<<v, x>>] # "no" PROVE v \in UsersNow' /\ x \in RolesNow'
      <3>1. held'[<<v, x>>] = IF v = u THEN "no" ELSE held[<<v, x>>]
        BY <2>1
      <3> QED
        BY <1>2, <2>3, <2>6, <3>1 DEF Sound
    <2> QED
      BY <1>2, <2>4, <2>5, <2>6 DEF Sound
  <1>4. CASE \E r \in Roles : RevokeRole(a, u, r)
    <2> PICK r \in Roles : RevokeRole(a, u, r)
      BY <1>4
    <2>1. user' = user /\ held[<<u, r>>] = "active" /\ held' = [held EXCEPT ![<<u, r>>] = "inactive"]
      BY DEF RevokeRole
    <2>2. held' \in [Accounts \X Roles -> HeldStates]
      BY <1>1, <2>1 DEF HeldStates
    <2>3. UsersNow' = UsersNow
      BY <2>1 DEF UsersNow
    <2>4. DirectoryTypeOK'
      BY <1>1, <1>2, <2>1, <2>2 DEF DirectoryTypeOK, LoginStates, HeldStates
    <2>6. ASSUME NEW v \in Accounts, NEW x \in Roles, held'[<<v, x>>] # "no" PROVE v \in UsersNow' /\ x \in RolesNow'
      <3>1. held[<<v, x>>] # "no"
        BY <1>1, <2>1, <2>6
      <3> QED
        BY <1>2, <2>3, <3>1 DEF Sound
    <2> QED
      BY <1>2, <2>1, <2>3, <2>4, <2>6 DEF Sound
  <1> QED
    BY <1>3, <1>4

(* Roles that come, are named anew and go.                                  *)
LEMMA RolesChange ==
    ASSUME DirectoryTyped, Sound, NEW a \in Admins,
           \/ \E n \in RoleNames, single \in BOOLEAN :
                CreateRole(a, n, single) \/ \E r \in Roles : UpdateRole(a, r, n, single)
           \/ \E r \in Roles : DeleteRole(a, r)
    PROVE  DirectoryTypeOK' /\ Sound'
  <1>1. /\ DirectoryTypeOK /\ role \in [Roles -> RoleStates] /\ held \in [Accounts \X Roles -> HeldStates]
        /\ granted \subseteq Roles \X Permissions
    BY DEF DirectoryTyped, DirectoryTypeOK, RoleStates, HeldStates
  <1>2. UsersNow' = UsersNow /\ PermissionsNow' = PermissionsNow /\ UNCHANGED <<user, permission, token>>
    BY DEF CreateRole, UpdateRole, DeleteRole, access, visits, UsersNow, PermissionsNow
  <1>3. \A x \in [name : RoleNames, single : BOOLEAN] : x \in RoleStates /\ x # NoRole
    BY LoginFacts DEF RoleStates
  <1>4. \A r \in RolesNow : r \in Roles /\ role[r] \in [name : RoleNames, single : BOOLEAN]
    BY <1>1 DEF RolesNow, RoleStates
  <1>5. ASSUME role' \in [Roles -> RoleStates], UNCHANGED <<held, granted>>, RolesNow \subseteq RolesNow',
               \A r, s \in RolesNow' : role'[r].name = role'[s].name => r = s
        PROVE  DirectoryTypeOK' /\ Sound'
    <2>1. DirectoryTypeOK'
      BY <1>1, <1>2, <1>5 DEF DirectoryTypeOK, RoleStates
    <2> QED
      BY <1>2, <1>5, <2>1 DEF Sound
  <1>6. CASE \E n \in RoleNames, single \in BOOLEAN : CreateRole(a, n, single)
    <2> PICK n \in RoleNames, single \in BOOLEAN : CreateRole(a, n, single)
      BY <1>6
    <2>1. UNCHANGED <<held, granted>>
      BY DEF CreateRole, access
    <2>2. CASE Named(n) # {}
      <3>1. role' = [r \in Roles |-> IF r \in Named(n) /\ single THEN [role[r] EXCEPT !.single = TRUE] ELSE role[r]]
        BY <2>2 DEF CreateRole
      <3>2. Named(n) \subseteq RolesNow
        BY DEF Named
      <3>3. \A r \in RolesNow : /\ [role[r] EXCEPT !.single = TRUE] \in [name : RoleNames, single : BOOLEAN]
                                /\ [role[r] EXCEPT !.single = TRUE].name = role[r].name
        BY <1>4
      <3>4. \A r \in Roles : /\ r \in RolesNow => role'[r].name = role[r].name /\ role'[r] \in [name : RoleNames, single : BOOLEAN]
                             /\ r \notin RolesNow => role'[r] = role[r]
        BY <1>4, <3>1, <3>2, <3>3
      <3>5. role' \in [Roles -> RoleStates]
        BY <1>1, <1>3, <3>1, <3>4
      <3>6. RolesNow' = RolesNow
        BY <1>3, <3>4 DEF RolesNow
      <3> QED
        BY <1>4, <1>5, <2>1, <3>4, <3>5, <3>6 DEF Sound
    <2>3. CASE Named(n) = {}
      <3> DEFINE m == Min(Roles \ RolesNow)
                 new == [name |-> n, single |-> single \/ n \in DEFAULT_SINGLETON_ROLE_NAMES]
      <3>1. role' = [role EXCEPT ![m] = new] /\ m \in Roles /\ m \notin RolesNow
        BY <2>3, NextRows DEF CreateRole
      <3>2. new \in [name : RoleNames, single : BOOLEAN] /\ new.name = n
        OBVIOUS
      <3> HIDE DEF m, new
      <3>3. role' \in [Roles -> RoleStates] /\ RolesNow' = RolesNow \cup {m}
        BY <1>1, <1>3, <3>1, <3>2 DEF RolesNow
      <3>4. \A r \in RolesNow : role[r].name # n
        BY <2>3 DEF Named
      <3> QED
        BY <1>1, <1>4, <1>5, <2>1, <3>1, <3>2, <3>3, <3>4 DEF Sound
    <2> QED
      BY <2>2, <2>3
  <1>7. CASE \E n \in RoleNames, single \in BOOLEAN, r \in Roles : UpdateRole(a, r, n, single)
    <2> PICK n \in RoleNames, single \in BOOLEAN, r \in Roles : UpdateRole(a, r, n, single)
      BY <1>7
    <2> DEFINE new == [name |-> n, single |-> single]
    <2>1. /\ r \in RolesNow /\ Named(n) \subseteq {r} /\ role' = [role EXCEPT ![r] = new]
          /\ UNCHANGED <<held, granted>>
      BY DEF UpdateRole, access
    <2>2. new \in [name : RoleNames, single : BOOLEAN] /\ new.name = n
      OBVIOUS
    <2> HIDE DEF new
    <2>3. role' \in [Roles -> RoleStates] /\ RolesNow' = RolesNow
      BY <1>1, <1>3, <2>1, <2>2 DEF RolesNow
    <2>4. \A s \in RolesNow : s # r => role[s].name # n
      BY <2>1 DEF Named
    <2> QED
      BY <1>1, <1>4, <1>5, <2>1, <2>2, <2>3, <2>4 DEF Sound
  <1>8. CASE \E r \in Roles : DeleteRole(a, r)
    <2> PICK r \in Roles : DeleteRole(a, r)
      BY <1>8
    <2>1. /\ r \in RolesNow /\ role' = [role EXCEPT ![r] = NoRole]
          /\ held' = [ur \in Accounts \X Roles |-> IF ur[2] = r THEN "no" ELSE held[ur]]
          /\ granted' = {g \in granted : g[1] # r}
      BY DEF DeleteRole
    <2>2. role' \in [Roles -> RoleStates] /\ held' \in [Accounts \X Roles -> HeldStates]
      BY <1>1, <2>1 DEF RoleStates, HeldStates
    <2>3. RolesNow' = RolesNow \ {r}
      BY <1>1, <2>1 DEF RolesNow
    <2>4. granted' \subseteq RolesNow' \X PermissionsNow'
      <3>1. \A g \in granted : g = <<g[1], g[2]>> /\ g[1] \in RolesNow /\ g[2] \in PermissionsNow
        BY DEF Sound
      <3> QED
        BY <1>2, <2>1, <2>3, <3>1
    <2>5. DirectoryTypeOK'
      BY <1>1, <1>2, <2>1, <2>2 DEF DirectoryTypeOK, RoleStates, HeldStates
    <2>6. ASSUME NEW v \in Accounts, NEW x \in Roles, held'[<<v, x>>] # "no" PROVE v \in UsersNow' /\ x \in RolesNow'
      <3>1. held'[<<v, x>>] = IF x = r THEN "no" ELSE held[<<v, x>>]
        BY <2>1
      <3> QED
        BY <1>2, <2>3, <2>6, <3>1 DEF Sound
    <2>7. \A s, t \in RolesNow' : role'[s].name = role'[t].name => s = t
      BY <1>1, <1>4, <2>1, <2>3 DEF Sound
    <2> QED
      BY <1>2, <2>4, <2>5, <2>6, <2>7 DEF Sound
  <1> QED
    BY <1>6, <1>7, <1>8

(* Permissions that come, change and go, and are given to roles.            *)
LEMMA PermissionsChange ==
    ASSUME DirectoryTyped, Sound, NEW a \in Admins,
           \/ \E r \in Roles, p \in Permissions : AssignPermission(a, r, p) \/ UnassignPermission(a, r, p)
           \/ \E c \in Codes : CreatePermission(a, c) \/ \E p \in Permissions : UpdatePermission(a, p, c)
           \/ \E p \in Permissions : DeletePermission(a, p)
    PROVE  DirectoryTypeOK' /\ Sound'
  <1>1. /\ DirectoryTypeOK /\ permission \in [Permissions -> Codes \cup {NoCode}] /\ NoCode \notin Codes
        /\ granted \subseteq Roles \X Permissions
    BY DirectoryAssumption DEF DirectoryTyped, DirectoryTypeOK, NoCode
  <1>2. UsersNow' = UsersNow /\ RolesNow' = RolesNow /\ UNCHANGED <<user, role, held, token>>
    BY DEF AssignPermission, UnassignPermission, CreatePermission, UpdatePermission, DeletePermission,
           people, visits, UsersNow, RolesNow
  <1>3. PermissionsNow \subseteq Permissions /\ RolesNow \subseteq Roles
    BY DEF PermissionsNow, RolesNow
  <1>4. ASSUME permission' \in [Permissions -> Codes \cup {NoCode}], granted' \subseteq RolesNow \X PermissionsNow',
               \A p, q \in PermissionsNow' : permission'[p] = permission'[q] => p = q
        PROVE  DirectoryTypeOK' /\ Sound'
    <2>1. PermissionsNow' \subseteq Permissions
      BY DEF PermissionsNow
    <2>2. granted' \subseteq Roles \X Permissions
      BY <1>3, <1>4, <2>1
    <2>3. DirectoryTypeOK'
      BY <1>1, <1>2, <1>4, <2>2 DEF DirectoryTypeOK
    <2> QED
      BY <1>2, <1>4, <2>3 DEF Sound
  <1>5. granted \subseteq RolesNow \X PermissionsNow
    BY DEF Sound
  <1>6. CASE \E r \in Roles, p \in Permissions : AssignPermission(a, r, p) \/ UnassignPermission(a, r, p)
    <2> PICK r \in Roles, p \in Permissions : AssignPermission(a, r, p) \/ UnassignPermission(a, r, p)
      BY <1>6
    <2>1. permission' = permission /\ PermissionsNow' = PermissionsNow
      BY DEF AssignPermission, UnassignPermission, PermissionsNow
    <2>2. granted' \subseteq RolesNow \X PermissionsNow
      BY <1>5 DEF AssignPermission, UnassignPermission
    <2> QED
      BY <1>1, <1>4, <2>1, <2>2 DEF Sound
  <1>7. CASE \E c \in Codes : CreatePermission(a, c)
    <2> PICK c \in Codes : CreatePermission(a, c)
      BY <1>7
    <2> DEFINE m == Min(Permissions \ PermissionsNow)
    <2>1. /\ permission' = [permission EXCEPT ![m] = c] /\ granted' = granted /\ CodeFree(c, 0)
          /\ m \in Permissions /\ m \notin PermissionsNow
      BY NextRows DEF CreatePermission
    <2> HIDE DEF m
    <2>2. permission' \in [Permissions -> Codes \cup {NoCode}] /\ PermissionsNow' = PermissionsNow \cup {m}
      BY <1>1, <2>1 DEF PermissionsNow
    <2>3. \A p \in PermissionsNow : permission[p] # c
      <3>1. PermissionsNow \ {0} = PermissionsNow
        BY DirectoryAssumption DEF PermissionsNow
      <3> QED
        BY <2>1, <3>1 DEF CodeFree
    <2> QED
      BY <1>1, <1>3, <1>4, <1>5, <2>1, <2>2, <2>3 DEF Sound
  <1>8. CASE \E c \in Codes, p \in Permissions : UpdatePermission(a, p, c)
    <2> PICK c \in Codes, p \in Permissions : UpdatePermission(a, p, c)
      BY <1>8
    <2>1. /\ permission' = [permission EXCEPT ![p] = c] /\ granted' = granted /\ CodeFree(c, p) /\ p \in PermissionsNow
      BY DEF UpdatePermission
    <2>2. permission' \in [Permissions -> Codes \cup {NoCode}] /\ PermissionsNow' = PermissionsNow
      BY <1>1, <2>1 DEF PermissionsNow
    <2>3. \A q \in PermissionsNow : q # p => permission[q] # c
      BY <2>1 DEF CodeFree
    <2> QED
      BY <1>1, <1>3, <1>4, <1>5, <2>1, <2>2, <2>3 DEF Sound
  <1>9. CASE \E p \in Permissions : DeletePermission(a, p)
    <2> PICK p \in Permissions : DeletePermission(a, p)
      BY <1>9
    <2>1. /\ permission' = [permission EXCEPT ![p] = NoCode] /\ granted' = {g \in granted : g[2] # p} /\ p \in PermissionsNow
      BY DEF DeletePermission
    <2>2. permission' \in [Permissions -> Codes \cup {NoCode}] /\ PermissionsNow' = PermissionsNow \ {p}
      BY <1>1, <2>1 DEF PermissionsNow
    <2>3. granted' \subseteq RolesNow \X PermissionsNow'
      BY <1>5, <2>1, <2>2
    <2> QED
      BY <1>1, <1>3, <1>4, <2>1, <2>2, <2>3 DEF Sound
  <1> QED
    BY <1>6, <1>7, <1>8, <1>9

(* The permissions of a role are replaced by permissions there are.         *)
LEMMA ReplaceStep ==
    ASSUME DirectoryTyped, Sound, NEW a \in Admins, CommitReplace(a)
    PROVE  DirectoryTyped' /\ Sound'
  <1>1. /\ Answered(a) /\ UNCHANGED <<user, role, held, permission, token>>
        /\ granted' = granted \/ (granted' \subseteq granted \cup admin[a].new /\ admin[a].new \subseteq RolesNow \X PermissionsNow)
    BY DEF CommitReplace, people, visits
  <1>2. UsersNow' = UsersNow /\ RolesNow' = RolesNow /\ PermissionsNow' = PermissionsNow
    BY <1>1 DEF UsersNow, RolesNow, PermissionsNow
  <1>3. granted' \subseteq RolesNow \X PermissionsNow
    BY <1>1 DEF Sound
  <1>4. RolesNow \X PermissionsNow \subseteq Roles \X Permissions
    BY DEF RolesNow, PermissionsNow
  <1>5. DirectoryTypeOK'
    BY <1>1, <1>3, <1>4 DEF DirectoryTyped, DirectoryTypeOK
  <1>6. Sound'
    BY <1>1, <1>2, <1>3 DEF Sound
  <1> QED
    BY <1>1, <1>5, <1>6, JobsEnd

(* Whoever logs in, or is let in, changes no row.                           *)
LEMMA TokenStep ==
    ASSUME DirectoryTyped, Sound,
           (\E u \in Accounts : Login(u)) \/ (\E need \in Needs : Request(need))
    PROVE  DirectoryTyped' /\ Sound'
  <1>1. UNCHANGED <<user, role, held, permission, granted, admin>>
    BY DEF Login, Request, people, access
  <1>2. token'.name \in Usernames \cup {"none"} /\ token'.claims \subseteq Codes
    <2>1. CASE \E u \in Accounts : Login(u)
      <3> PICK u \in Accounts : Login(u)
        BY <2>1
      <3>1. token' = [name |-> user[u].name, claims |-> PermissionsOf(u)] /\ user[u].name \in Usernames
        BY DEF Login, UsersNow
      <3>2. PermissionsOf(u) \subseteq Codes
        <4>1. \A g \in granted : g[2] \in PermissionsNow
          BY DEF Sound
        <4>2. \A p \in PermissionsNow : permission[p] \in Codes
          BY DEF DirectoryTyped, DirectoryTypeOK, PermissionsNow
        <4> QED
          BY <4>1, <4>2 DEF PermissionsOf
      <3> QED
        BY <3>1, <3>2
    <2>2. CASE \E need \in Needs : Request(need)
      BY <2>2 DEF Request, DirectoryTyped, DirectoryTypeOK
    <2> QED
      BY <2>1, <2>2
  <1>3. UsersNow' = UsersNow /\ RolesNow' = RolesNow /\ PermissionsNow' = PermissionsNow
    BY <1>1 DEF UsersNow, RolesNow, PermissionsNow
  <1>4. DirectoryTypeOK'
    BY <1>1, <1>2 DEF DirectoryTyped, DirectoryTypeOK
  <1>5. Sound'
    BY <1>1, <1>3 DEF Sound
  <1> QED
    BY <1>1, <1>4, <1>5, JobsStay

(* The steps of requests that look first, of those that do not, and of      *)
(* whoever comes with a token.                                              *)
LEMMA NextCases ==
    ASSUME DirectoryNext
    PROVE  \/ \E a \in Admins :
                \/ \E u \in Accounts, r \in Roles : BeginAssign(a, u, r)
                \/ \E n \in Usernames, r \in Roles \cup {0} :
                     BeginCreateUser(a, n, r) \/ \E u \in Accounts : BeginUpdateUser(a, u, n, r)
                \/ \E r \in Roles, new \in SUBSET Permissions : BeginReplace(a, r, new)
           \/ \E a \in Admins : CommitAssign(a) \/ CommitCreateUser(a) \/ CommitUpdateUser(a)
           \/ \E a \in Admins : CommitReplace(a)
           \/ \E a \in Admins : AtOnce(a)
           \/ (\E u \in Accounts : Login(u)) \/ (\E need \in Needs : Request(need))
  BY Zenon DEF DirectoryNext, AtOnce

(* A request that reads and writes at once leaves no others at work.        *)
LEMMA AtOnceStep ==
    ASSUME DirectoryTyped, Sound, NEW a \in Admins, AtOnce(a)
    PROVE  DirectoryTyped' /\ Sound' /\ Idle(a) /\ UNCHANGED admin
  <1>1. Idle(a) /\ UNCHANGED admin
    BY DEF AtOnce, DeleteUser, RevokeRole, CreateRole, UpdateRole, DeleteRole, AssignPermission,
           UnassignPermission, CreatePermission, UpdatePermission, DeletePermission
  <1>2. CASE \E u \in Accounts : DeleteUser(a, u) \/ \E r \in Roles : RevokeRole(a, u, r)
    BY <1>1, <1>2, PeopleGo, JobsStay
  <1>3. CASE \/ \E n \in RoleNames, single \in BOOLEAN :
                  CreateRole(a, n, single) \/ \E r \in Roles : UpdateRole(a, r, n, single)
             \/ \E r \in Roles : DeleteRole(a, r)
    BY <1>1, <1>3, RolesChange, JobsStay
  <1>4. CASE \/ \E r \in Roles, p \in Permissions : AssignPermission(a, r, p) \/ UnassignPermission(a, r, p)
             \/ \E c \in Codes : CreatePermission(a, c) \/ \E p \in Permissions : UpdatePermission(a, p, c)
             \/ \E p \in Permissions : DeletePermission(a, p)
    BY <1>1, <1>4, PermissionsChange, JobsStay
  <1> QED
    BY <1>2, <1>3, <1>4, Zenon DEF AtOnce

(* One request at a time: one that ends, and one that takes a job up.       *)
LEMMA OneAdminStep ==
    ASSUME DirectoryTyped, OneAdmin, Sound, DirectoryNext
    PROVE  OneAdmin' /\ hurried' = hurried
  <1>1. hurried' = hurried
    BY DEF DirectoryNext, BeginAssign, BeginCreateUser, BeginUpdateUser, BeginReplace, CommitAssign,
           CommitCreateUser, CommitUpdateUser, CommitReplace, DeleteUser, RevokeRole, CreateRole, UpdateRole,
           DeleteRole, AssignPermission, UnassignPermission, CreatePermission, UpdatePermission,
           DeletePermission, Login, Request, Takes
  <1> SUFFICES ASSUME ~hurried PROVE OneAdmin'
    BY <1>1 DEF OneAdmin
  <1>2. /\ \A a, b \in Admins : admin[a] # Unbusy /\ admin[b] # Unbusy => a = b
        /\ \A a \in Admins : Allowed(admin[a])
        /\ admin \in [Admins -> JobRows]
    BY DEF OneAdmin, DirectoryTyped
  <1>a. Allowed(Unbusy) /\ Allowed(Unbusy)'
    BY LoginFacts DEF Allowed
  <1>b. ASSUME NEW a \in Admins, Answered(a), admin[a].op # "none" PROVE OneAdmin'
    <2>1. \A b \in Admins : b # a => admin[b] = Unbusy
      BY <1>2, <1>b, LoginFacts
    <2>2. \A b \in Admins : admin'[b] = Unbusy
      BY <1>2, <1>b, <2>1 DEF Answered
    <2> QED
      BY <1>a, <2>2 DEF OneAdmin
  <1>c. ASSUME NEW a \in Admins, Idle(a) PROVE \A b \in Admins : admin[b] = Unbusy
    BY <1>c DEF Idle
  <1>3. CASE \E a \in Admins :
                \/ \E u \in Accounts, r \in Roles : BeginAssign(a, u, r)
                \/ \E n \in Usernames, r \in Roles \cup {0} :
                     BeginCreateUser(a, n, r) \/ \E u \in Accounts : BeginUpdateUser(a, u, n, r)
                \/ \E r \in Roles, new \in SUBSET Permissions : BeginReplace(a, r, new)
    <2> PICK a \in Admins :
                \/ \E u \in Accounts, r \in Roles : BeginAssign(a, u, r)
                \/ \E n \in Usernames, r \in Roles \cup {0} :
                     BeginCreateUser(a, n, r) \/ \E u \in Accounts : BeginUpdateUser(a, u, n, r)
                \/ \E r \in Roles, new \in SUBSET Permissions : BeginReplace(a, r, new)
      BY <1>3
    <2>1. /\ UNCHANGED <<people, hurried>> /\ Idle(a)
          /\ \E job \in JobRows : Allowed(job) /\ admin' = [admin EXCEPT ![a] = job]
      BY TakesStep
    <2> PICK job \in JobRows : Allowed(job) /\ admin' = [admin EXCEPT ![a] = job]
      BY <2>1
    <2>2. \A b \in Admins : admin'[b] = IF b = a THEN job ELSE Unbusy
      BY <1>2, <1>c, <2>1
    <2>3. Allowed(job)'
      BY <2>1 DEF people, Allowed, SlotAvailable, IsSingleton, Holders
    <2>4. \A b \in Admins : Allowed(admin[b])'
      <3> TAKE b \in Admins
      <3>1. CASE b = a
        <4>1. admin'[b] = job
          BY <2>2, <3>1
        <4> QED
          BY <2>3, <4>1 DEF Allowed
      <3>2. CASE b # a
        <4>1. admin'[b] = Unbusy
          BY <2>2, <3>2
        <4> QED
          BY <1>a, <4>1 DEF Allowed
      <3> QED
        BY <3>1, <3>2
    <2> QED
      BY <2>2, <2>4 DEF OneAdmin
  <1>4. CASE \E a \in Admins : CommitAssign(a) \/ CommitCreateUser(a) \/ CommitUpdateUser(a)
    BY <1>4, <1>b DEF CommitAssign, CommitCreateUser, CommitUpdateUser
  <1>5. CASE \E a \in Admins : CommitReplace(a)
    BY <1>5, <1>b DEF CommitReplace
  <1>6. CASE \E a \in Admins : AtOnce(a)
    <2>1. \A b \in Admins : admin'[b] = Unbusy
      BY <1>6, <1>c, AtOnceStep
    <2> QED
      BY <1>a, <2>1 DEF OneAdmin
  <1>7. CASE (\E u \in Accounts : Login(u)) \/ (\E need \in Needs : Request(need))
    <2>1. UNCHANGED <<people, admin>>
      BY <1>7 DEF Login, Request
    <2> QED
      BY <1>2, <2>1 DEF people, OneAdmin, Allowed, SlotAvailable, IsSingleton, Holders
  <1> QED
    BY <1>3, <1>4, <1>5, <1>6, <1>7, NextCases

(* Every step of accounts and roles keeps the invariant.                    *)
LEMMA DirectoryKept ==
    ASSUME DirectoryInv, [DirectoryNext]_directoryVars
    PROVE  DirectoryInv'
  <1>1. CASE DirectoryNext
    <2>1. DirectoryTyped' /\ Sound'
      BY <1>1, NextCases, TakesStep, PeopleStep, ReplaceStep, AtOnceStep, TokenStep DEF DirectoryInv
    <2> QED
      BY <1>1, <2>1, OneAdminStep DEF DirectoryInv
  <1>2. CASE UNCHANGED directoryVars
    <2> USE <1>2 DEF directoryVars
    <2>1. UsersNow' = UsersNow /\ RolesNow' = RolesNow /\ PermissionsNow' = PermissionsNow
      BY DEF UsersNow, RolesNow, PermissionsNow
    <2>2. DirectoryTyped'
      BY DEF DirectoryInv, DirectoryTyped, DirectoryTypeOK
    <2>3. Sound'
      BY <2>1 DEF DirectoryInv, Sound
    <2>4. OneAdmin'
      BY DEF DirectoryInv, OneAdmin, Allowed, SlotAvailable, IsSingleton, Holders
    <2> QED
      BY <2>2, <2>3, <2>4 DEF DirectoryInv
  <1> QED
    BY <1>1, <1>2

(* Accounts, roles and permissions keep their invariant.                    *)
THEOREM DirectoryInvariant == DirectorySpec => []DirectoryInv
  BY DirectoryStart, DirectoryKept, PTL DEF DirectorySpec

(* However requests overlap, names are of one account, role or permission,  *)
(* and whoever has a role, and whatever a role has, is there: the database  *)
(* refuses what the checks of the services have missed.                     *)
THEOREM NamesAndRolesHold == DirectorySpec => []DirectoryIsSound
  <1>1. DirectoryInv => DirectoryIsSound
    BY DEF DirectoryInv, DirectoryTyped, Sound, DirectoryIsSound
  <1> QED
    BY <1>1, DirectoryInvariant, PTL

(* One request at a time, a commit that gives a singleton role gives it to  *)
(* one whom it found to be its only holder, or to nobody else's loss.       *)
LEMMA SlotStep ==
    ASSUME DirectoryInv, DirectoryNext, ~hurried, NEW r \in Roles, IsSingleton(r), Holders(r)' \ Holders(r) # {}
    PROVE  Cardinality(Holders(r)') = 1
  <1> DEFINE Gives(a, u, q, was) ==
        \A v \in Accounts, x \in Roles : held'[<<v, x>>] = "active" /\ held[<<v, x>>] # "active" =>
            v = u /\ x = q /\ was # "active"
  <1>1. PICK v \in Accounts : held'[<<v, r>>] = "active" /\ held[<<v, r>>] # "active"
    BY DEF Holders
  <1>2. ASSUME UNCHANGED held PROVE FALSE
    BY <1>1, <1>2
  <1>3. DirectoryTyped /\ Sound /\ OneAdmin /\ held \in [Accounts \X Roles -> HeldStates]
    BY DEF DirectoryInv, DirectoryTyped, DirectoryTypeOK, HeldStates
  <1>4. ASSUME NEW u \in Accounts, NEW q \in Roles \cup {0}, NEW was, NEW off, held' = Holding(u, q, was, off),
               was = "active" \/ (SlotAvailable(q, u) \/ SlotAvailable(q, 0))
        PROVE  Cardinality(Holders(r)') = 1
    <2>1. v = u /\ r = q /\ was # "active"
      BY <1>1, <1>4, HoldingRow
    <2>2. Holders(r) \subseteq {u}
      <3>1. SlotAvailable(r, u) \/ SlotAvailable(r, 0)
        BY <1>4, <2>1
      <3>2. 0 \notin Accounts
        BY LoginFacts
      <3> QED
        BY <3>1, <3>2 DEF SlotAvailable, Holders
    <2>3. \A w \in Accounts : held'[<<w, r>>] = "active" => w = u
      <3> TAKE w \in Accounts
      <3>1. Holding(u, q, was, off)[<<w, r>>] = "active" =>
               (held[<<w, r>>] = "active" \/ (w = u /\ r = q /\ was # "active"))
        BY HoldingRow
      <3> QED
        BY <1>4, <2>2, <3>1 DEF Holders
    <2>4. Holders(r)' = {u}
      BY <1>1, <2>1, <2>3 DEF Holders
    <2> QED
      BY <2>4, FS_Singleton
  <1>5. CASE \E a \in Admins : CommitAssign(a) \/ CommitCreateUser(a) \/ CommitUpdateUser(a)
    <2> PICK a \in Admins : CommitAssign(a) \/ CommitCreateUser(a) \/ CommitUpdateUser(a)
      BY <1>5
    <2> DEFINE job == admin[a]
    <2>1. Allowed(job) /\ job \in JobRows
      BY <1>3 DEF OneAdmin, DirectoryTyped
    <2>2. job.r \in Roles \cup {0} /\ 0 \notin Roles
      BY <2>1, LoginFacts DEF JobRows
    <2>3. ASSUME job.r = 0, NEW u \in Accounts, NEW was, NEW off, held' = Holding(u, job.r, was, off) PROVE FALSE
      <3>1. Holding(u, job.r, was, off)[<<v, r>>] = "active" =>
              (held[<<v, r>>] = "active" \/ (v = u /\ r = job.r /\ was # "active"))
        BY HoldingRow
      <3> QED
        BY <1>1, <2>2, <2>3, <3>1
    <2>4. CASE CommitAssign(a)
      <3>1. job.op = "assign" /\ held' = Holding(job.u, job.r, job.was, {}) /\ job.u \in Accounts /\ job.r # 0
        BY <1>2, <2>2, <2>4 DEF CommitAssign, DirectoryInv, DirectoryTyped
      <3>2. job.was = "active" \/ SlotAvailable(job.r, job.u)
        BY <2>1, <3>1 DEF Allowed
      <3> HIDE DEF job
      <3> QED
        BY <1>4, <2>2, <3>1, <3>2
    <2>5. CASE CommitCreateUser(a)
      <3> DEFINE u == Min({w \in Accounts : user[w] = NoLogin})
      <3>1. job.op = "create" /\ held' = Holding(u, job.r, "no", {})
        BY <1>2, <2>5 DEF CommitCreateUser
      <3>2. u \in Accounts
        BY <2>5, NextRows DEF CommitCreateUser
      <3>3. job.r # 0 => SlotAvailable(job.r, 0)
        BY <2>1, <3>1 DEF Allowed
      <3> HIDE DEF u, job
      <3> QED
        BY <1>4, <2>2, <2>3, <3>1, <3>2, <3>3
    <2>6. CASE CommitUpdateUser(a)
      <3>1. job.op = "update" /\ held' = Holding(job.u, job.r, job.was, job.off) /\ job.u \in Accounts
        BY <1>2, <2>6 DEF CommitUpdateUser, DirectoryInv, DirectoryTyped
      <3>2. job.r # 0 => (job.was = "active" \/ SlotAvailable(job.r, job.u))
        BY <2>1, <3>1 DEF Allowed
      <3> HIDE DEF job
      <3> QED
        BY <1>4, <2>2, <2>3, <3>1, <3>2
    <2> QED
      BY <2>4, <2>5, <2>6
  <1>6. CASE \E a \in Admins : AtOnce(a)
    <2> PICK a \in Admins : AtOnce(a)
      BY <1>6
    <2>1. CASE \E u \in Accounts : DeleteUser(a, u)
      BY <1>1, <2>1 DEF DeleteUser
    <2>2. CASE \E u \in Accounts, q \in Roles : RevokeRole(a, u, q)
      BY <1>1, <1>3, <2>2 DEF RevokeRole
    <2>3. CASE \E q \in Roles : DeleteRole(a, q)
      BY <1>1, <2>3 DEF DeleteRole
    <2>4. CASE UNCHANGED held
      BY <1>2, <2>4
    <2> QED
      BY <2>1, <2>2, <2>3, <2>4, Zenon DEF AtOnce, CreateRole, UpdateRole, AssignPermission, UnassignPermission,
         CreatePermission, UpdatePermission, DeletePermission, people
  <1>7. CASE ~((\E a \in Admins : CommitAssign(a) \/ CommitCreateUser(a) \/ CommitUpdateUser(a))
               \/ \E a \in Admins : AtOnce(a))
    BY <1>2, <1>7, NextCases DEF BeginAssign, BeginCreateUser, BeginUpdateUser, BeginReplace, Takes,
       CommitReplace, Login, Request, people
  <1> QED
    BY <1>5, <1>6, <1>7

(* One request at a time, whoever is given a singleton role is the only one *)
(* who has it, on each of the three ways to give it.                        *)
THEOREM SlotIsTaken == DirectorySpec => SlotTaken
  <1>1. DirectoryInv /\ [DirectoryNext]_directoryVars =>
          [~hurried => \A r \in Roles : IsSingleton(r) /\ Holders(r)' \ Holders(r) # {} =>
                           Cardinality(Holders(r)') = 1]_directoryVars
    BY SlotStep
  <1>2. DirectorySpec =>
          [][~hurried => \A r \in Roles : IsSingleton(r) /\ Holders(r)' \ Holders(r) # {} =>
                             Cardinality(Holders(r)') = 1]_directoryVars
    BY <1>1, DirectoryInvariant, PTL DEF DirectorySpec
  <1> QED
    BY <1>2 DEF SlotTaken

(* A sequence with one element behind it.                                   *)
LEMMA Behind ==
    ASSUME NEW S, NEW f \in Seq(S), NEW x \in S, NEW n \in Nat, Len(f) = n
    PROVE  /\ f \o <<x>> \in Seq(S) /\ Len(f \o <<x>>) = n + 1
           /\ \A i \in 1..n : (f \o <<x>>)[i] = f[i]
           /\ (f \o <<x>>)[n + 1] = x
  OBVIOUS

(* Sequences as long as each other are the same when their elements are.    *)
LEMMA SameElements ==
    ASSUME NEW S, NEW s \in Seq(S), NEW t \in Seq(S), Len(s) = Len(t), \A i \in 1..Len(s) : s[i] = t[i]
    PROVE  s = t
  OBVIOUS

(* A code with a star at its end that matches is a beginning of the need,   *)
(* and the star.                                                            *)
LEMMA StarMatches ==
    ASSUME NEW code \in Codes, NEW need \in Needs, Len(code) > 1, Last(code) = "*", IsPrefix(Front(code), need)
    PROVE  Covers(code, need)
  <1> DEFINE n == Len(code) - 1
             f == Front(code)
             x == Last(code)
  <1>1. code \in Seq(STRING) /\ need \in Seq(STRING) /\ n \in Nat /\ n >= 1 /\ Len(code) = n + 1 /\ Len(need) \in Nat
    BY DirectoryAssumption
  <1>2. f = SubSeq(code, 1, n) /\ f \in Seq(STRING) /\ Len(f) = n /\ \A i \in 1..n : f[i] = code[i]
    BY <1>1 DEF Front
  <1>3. n <= Len(need) /\ SubSeq(f, 1, n) = SubSeq(need, 1, n)
    BY <1>2 DEF IsPrefix
  <1>4. x \in STRING /\ code[n + 1] = x
    BY <1>1 DEF Last
  <1> HIDE DEF n, f, x
  <1>5. SubSeq(f, 1, n) = f
    BY <1>1, <1>2
  <1>6. code = f \o <<x>>
    <2>1. /\ f \o <<x>> \in Seq(STRING) /\ Len(f \o <<x>>) = n + 1
          /\ \A i \in 1..n : (f \o <<x>>)[i] = f[i]
          /\ (f \o <<x>>)[n + 1] = x
      BY <1>1, <1>2, <1>4, Behind
    <2> DEFINE t == f \o <<x>>
    <2> HIDE DEF t
    <2>2. t \in Seq(STRING) /\ Len(t) = n + 1 /\ (\A i \in 1..n : t[i] = f[i]) /\ t[n + 1] = x
      BY <2>1 DEF t
    <2>3. \A i \in 1..Len(code) : code[i] = t[i]
      <3> TAKE i \in 1..Len(code)
      <3>1. i \in 1..n \/ i = n + 1
        BY <1>1
      <3> QED
        BY <3>1, <1>2, <1>4, <2>2
    <2>4. code = t
      BY <1>1, <2>2, <2>3, SameElements
    <2> QED
      BY <2>4 DEF t
  <1>7. f = SubSeq(need, 1, n)
    BY <1>3, <1>5
  <1>8. code = SubSeq(need, 1, n) \o <<x>> /\ n \in 0..Len(need)
    BY <1>1, <1>3, <1>6, <1>7
  <1>9. code = SubSeq(need, 1, n) \o <<"*">>
    BY <1>8 DEF x
  <1> QED
    BY <1>8, <1>9 DEF Covers

(* A permission that matches covers what is asked for.                      *)
LEMMA MatchesCover ==
    ASSUME NEW have \in SUBSET Codes, NEW need \in Needs, PermissionMatches(have, need)
    PROVE  \E code \in have : Covers(code, need)
  <1>1. CASE <<"*">> \in have
    <2>1. need \in Seq(STRING) /\ 0 \in 0..Len(need)
      BY DirectoryAssumption
    <2>2. <<"*">> = SubSeq(need, 1, 0) \o <<"*">>
      BY <2>1
    <2> QED
      BY <1>1, <2>1, <2>2 DEF Covers
  <1>2. CASE need \in have
    BY <1>2 DEF Covers
  <1>3. CASE \E code \in have : Len(code) > 1 /\ Last(code) = "*" /\ IsPrefix(Front(code), need)
    BY <1>3, StarMatches
  <1> QED
    BY <1>1, <1>2, <1>3 DEF PermissionMatches

(* Whoever is let in has an active account, and an active role with a       *)
(* permission for it, at that moment: not at the login that gave the token. *)
THEOREM AccessIsByRows == DirectorySpec => AccessFollowsRows
  <1>1. DirectoryInv /\ [DirectoryNext]_directoryVars =>
          [let' # let => Entitled(let'.who, let'.need)]_directoryVars
    <2> SUFFICES ASSUME DirectoryInv, DirectoryNext, let' # let PROVE Entitled(let'.who, let'.need)
      OBVIOUS
    <2>1. PICK need \in Needs : Request(need)
      <3>1. ASSUME NEW a \in Admins, AtOnce(a) PROVE let' = let
        BY <3>1 DEF AtOnce, DeleteUser, RevokeRole, CreateRole, UpdateRole, DeleteRole, AssignPermission,
           UnassignPermission, CreatePermission, UpdatePermission, DeletePermission, visits
      <3>2. ASSUME NEW a \in Admins,
                   \/ \E u \in Accounts, r \in Roles : BeginAssign(a, u, r)
                   \/ \E n \in Usernames, r \in Roles \cup {0} :
                        BeginCreateUser(a, n, r) \/ \E u \in Accounts : BeginUpdateUser(a, u, n, r)
                   \/ \E r \in Roles, new \in SUBSET Permissions : BeginReplace(a, r, new)
            PROVE  let' = let
        BY <3>2 DEF BeginAssign, BeginCreateUser, BeginUpdateUser, BeginReplace, Takes, visits
      <3>3. ASSUME NEW a \in Admins, CommitAssign(a) \/ CommitCreateUser(a) \/ CommitUpdateUser(a) \/ CommitReplace(a)
            PROVE  let' = let
        BY <3>3 DEF CommitAssign, CommitCreateUser, CommitUpdateUser, CommitReplace, visits
      <3>4. ASSUME NEW u \in Accounts, Login(u) PROVE let' = let
        BY <3>4 DEF Login
      <3> QED
        BY <3>1, <3>2, <3>3, <3>4, NextCases, Zenon
    <2>2. PICK u \in Bearer(token) : LetIn(u, token, need) /\ let' = [who |-> u, need |-> need]
      BY <2>1 DEF Request
    <2>3. user[u].active /\ PermissionMatches(PermissionsOf(u), need) /\ let'.who = u /\ let'.need = need
      BY <2>2 DEF LetIn
    <2>4. \A g \in granted : g = <<g[1], g[2]>> /\ g[1] \in Roles /\ g[2] \in PermissionsNow /\ permission[g[2]] \in Codes
      BY DEF DirectoryInv, Sound, RolesNow, PermissionsNow, DirectoryTyped, DirectoryTypeOK
    <2>5. PermissionsOf(u) \in SUBSET Codes
      BY <2>4 DEF PermissionsOf
    <2>6. PICK code \in PermissionsOf(u) : Covers(code, need)
      BY <2>3, <2>5, MatchesCover
    <2>7. PICK g \in granted : held[<<u, g[1]>>] = "active" /\ code = permission[g[2]]
      BY <2>6 DEF PermissionsOf
    <2>8. g[1] \in Roles /\ g[2] \in Permissions /\ <<g[1], g[2]>> \in granted
      BY <2>4, <2>7 DEF PermissionsNow
    <2>9. Covers(permission[g[2]], need)
      BY <2>6, <2>7
    <2> QED
      BY <2>3, <2>7, <2>8, <2>9 DEF Entitled
  <1>2. DirectorySpec => [][let' # let => Entitled(let'.who, let'.need)]_directoryVars
    BY <1>1, DirectoryInvariant, PTL DEF DirectorySpec
  <1> QED
    BY <1>2 DEF AccessFollowsRows

(* Who gets a role, and what it lets him do, are by the rows there are at   *)
(* that moment.                                                             *)
THEOREM RolesAreByRows == DirectorySpec => RolesAreHeld
  BY SlotIsTaken, AccessIsByRows, PTL DEF RolesAreHeld

-----------------------------------------------------------------------------
(* Who leads whom.                                                          *)

(* What is repeated N times stays in the set it works on.                   *)
LEMMA RepeatedStays ==
    ASSUME NEW S, NEW x \in S, NEW go \in [S -> S], NEW N \in Nat, NEW g,
           g[0] = x, \A n \in 1..N : g[n - 1] \in S => g[n] = go[g[n - 1]]
    PROVE  \A n \in 0..N : g[n] \in S
  <1> DEFINE bad == {n \in 0..N : g[n] \notin S}
  <1> SUFFICES ASSUME bad # {} PROVE FALSE
    OBVIOUS
  <1> DEFINE m == Min(bad)
  <1>1. m \in bad /\ \A y \in bad : m <= y
    BY MinOf
  <1> HIDE DEF m
  <1>2. m # 0 /\ m \in 1..N
    BY <1>1
  <1>3. m - 1 \in 0..N /\ m - 1 \notin bad
    BY <1>1, <1>2
  <1> QED
    BY <1>1, <1>2, <1>3

Repeats(f, S, x, go, N) == f \in [0..N -> S] /\ f[0] = x /\ \A n \in 1..N : f[n] = go[f[n - 1]]

Grows(f, S, x, by, N) == f \in [0..N -> S] /\ f[0] = x /\ \A n \in 1..N : f[n] = by[n][f[n - 1]]

(* There is a function that starts with x and goes on by the steps given.   *)
LEMMA GrownExists ==
    ASSUME NEW S, NEW x \in S, NEW N \in Nat, NEW by \in [1..N -> [S -> S]]
    PROVE  \E f : Grows(f, S, x, by, N)
  <1> DEFINE Good(k, f) == f \in [0..k -> S] /\ f[0] = x /\ \A n \in 1..k : f[n] = by[n][f[n - 1]]
             bad == {k \in 0..N : ~ \E f : Good(k, f)}
  <1>1. SUFFICES ASSUME bad # {} PROVE FALSE
    <2>1. N \notin bad
      BY <1>1
    <2>2. PICK f : Good(N, f)
      BY <2>1
    <2> QED
      BY <2>2 DEF Grows
  <1> DEFINE m == Min(bad)
  <1>9. bad \in SUBSET Nat /\ bad \subseteq 0..N
    OBVIOUS
  <1>2. m \in bad /\ \A y \in bad : m <= y
    <2> HIDE DEF bad
    <2> QED
      BY <1>1, <1>9, MinOf
  <1> HIDE DEF m
  <1>3. m # 0
    <2>1. Good(0, [n \in 0..0 |-> x])
      OBVIOUS
    <2> QED
      BY <1>2, <2>1
  <1>4. m - 1 \in 0..N /\ m - 1 \notin bad /\ m \in 1..N
    <2> HIDE DEF bad
    <2> QED
      BY <1>2, <1>3, <1>9
  <1>5. PICK f : Good(m - 1, f)
    BY <1>4
  <1> DEFINE h == [n \in 0..m |-> IF n = m THEN by[m][f[m - 1]] ELSE f[n]]
  <1>6. h \in [0..m -> S] /\ h[0] = x
    <2>1. by[m] \in [S -> S] /\ f[m - 1] \in S
      BY <1>4, <1>5
    <2>2. \A n \in 0..m : n # m => n \in 0..(m - 1)
      BY <1>4
    <2> QED
      BY <1>3, <1>4, <1>5, <2>1, <2>2
  <1>7. ASSUME NEW n \in 1..m PROVE h[n] = by[n][h[n - 1]]
    <2>1. n - 1 \in 0..m /\ n - 1 # m /\ h[n - 1] = f[n - 1]
      BY <1>4
    <2>2. CASE n = m
      BY <1>4, <2>1, <2>2
    <2>3. CASE n # m
      <3>1. n \in 1..(m - 1) /\ h[n] = f[n]
        BY <1>4, <2>3
      <3> QED
        BY <1>5, <2>1, <3>1
    <2> QED
      BY <2>2, <2>3
  <1> QED
    BY <1>2, <1>6, <1>7

(* One that goes on in the same way each time.                              *)
LEMMA RepeatedExists ==
    ASSUME NEW S, NEW x \in S, NEW go \in [S -> S], NEW N \in Nat
    PROVE  \E f : Repeats(f, S, x, go, N)
  <1> DEFINE by == [n \in 1..N |-> go]
  <1>1. by \in [1..N -> [S -> S]]
    OBVIOUS
  <1>2. PICK f : Grows(f, S, x, by, N)
    <2> HIDE DEF by
    <2> QED
      BY <1>1, GrownExists
  <1> QED
    BY <1>2 DEF Grows, Repeats

(* f makes a set of members of U grow N times, from x, by what go adds.     *)
Spreads(f, U, x, go, N) ==
    /\ IsFiniteSet(U) /\ N \in Nat /\ Cardinality(U) <= N
    /\ x \in SUBSET U /\ go \in [SUBSET U -> SUBSET U] /\ \A X \in SUBSET U : X \subseteq go[X]
    /\ f[0] = x /\ \A n \in 1..N : f[n - 1] \in SUBSET U => f[n] = go[f[n - 1]]

(* A set that grows has, after as many times as there are members to meet,  *)
(* all that its start leads to, and nothing else.                           *)
LEMMA SpreadIs ==
    ASSUME NEW f, NEW U, NEW x, NEW go, NEW N, Spreads(f, U, x, go, N)
    PROVE  /\ f[N] \in SUBSET U /\ x \subseteq f[N] /\ go[f[N]] = f[N]
           /\ \A S \in SUBSET U : x \subseteq S /\ (\A X \in SUBSET S : go[X] \subseteq S) => f[N] \subseteq S
  <1> DEFINE Z == SUBSET U
  <1>0. /\ IsFiniteSet(U) /\ N \in Nat /\ Cardinality(U) <= N
        /\ x \in Z /\ go \in [Z -> Z] /\ \A X \in Z : X \subseteq go[X]
        /\ f[0] = x /\ \A n \in 1..N : f[n - 1] \in Z => f[n] = go[f[n - 1]]
    BY DEF Spreads
  <1>10. N \in Nat /\ 0 \in 0..N /\ IsFiniteSet(U) /\ f[0] = x
    BY <1>0
  <1>1. ASSUME NEW S \in SUBSET U, x \subseteq S, \A X \in SUBSET S : go[X] \subseteq S
        PROVE  \A n \in 0..N : f[n] \in SUBSET S
    <2> DEFINE Y == SUBSET S
               on == [X \in Y |-> go[X]]
    <2>1. on \in [Y -> Y] /\ x \in Y
      BY <1>0, <1>1
    <2>2. \A n \in 1..N : f[n - 1] \in Y => f[n] = on[f[n - 1]]
      BY <1>0, <1>1
    <2> HIDE DEF Y, on
    <2>3. \A n \in 0..N : f[n] \in Y
      BY <1>10, <2>1, <2>2, RepeatedStays
    <2> QED
      BY <2>3 DEF Y
  <1>2. \A n \in 0..N : f[n] \in SUBSET U
    BY <1>0, <1>1
  <1>3. \A n \in 1..N : f[n] = go[f[n - 1]] /\ f[n - 1] \subseteq f[n] /\ n - 1 \in 0..N
    BY <1>0, <1>2
  <1> DEFINE Fine(k) == x \subseteq f[k] /\ (go[f[k]] = f[k] \/ Cardinality(f[k]) >= k)
             bad == {k \in 0..N : ~Fine(k)}
  <1>4. \A k \in 0..N : IsFiniteSet(f[k]) /\ Cardinality(f[k]) \in Nat
    BY <1>0, <1>2, FS_Subset, FS_CardinalityType
  <1>5. bad = {}
    <2> SUFFICES ASSUME bad # {} PROVE FALSE
      OBVIOUS
    <2> DEFINE m == Min(bad)
    <2>1. m \in bad /\ \A y \in bad : m <= y
      BY <1>10, MinOf
    <2> HIDE DEF m
    <2>2. m # 0
      <3>1. Cardinality(f[0]) >= 0
        BY <1>4, <1>10
      <3> QED
        BY <1>0, <2>1, <3>1
    <2>3. m \in 1..N /\ m - 1 \in 0..N /\ Fine(m - 1)
      BY <1>0, <2>1, <2>2
    <2> DEFINE A == f[m - 1]
               B == f[m]
    <2>4. B = go[A] /\ A \subseteq B /\ x \subseteq B /\ A \in SUBSET U /\ B \in SUBSET U
      BY <1>0, <1>2, <1>3, <2>3
    <2>5. IsFiniteSet(A) /\ IsFiniteSet(B) /\ Cardinality(A) \in Nat /\ Cardinality(B) \in Nat
      BY <1>0, <1>4, <2>3
    <2> HIDE DEF A, B
    <2>6. CASE go[A] = A
      BY <1>0, <2>1, <2>3, <2>4, <2>6 DEF A, B
    <2>7. CASE go[A] # A
      <3>1. Cardinality(A) <= Cardinality(B) /\ Cardinality(A) # Cardinality(B)
        BY <1>0, <2>4, <2>5, <2>7, FS_Subset
      <3>2. Cardinality(A) >= m - 1
        BY <2>3, <2>7 DEF A
      <3>3. Cardinality(B) >= m
        BY <2>3, <2>5, <3>1, <3>2
      <3> QED
        BY <1>0, <2>1, <2>4, <3>3 DEF B
    <2> QED
      BY <2>6, <2>7
  <1>6. N \in 0..N /\ Fine(N)
    BY <1>0, <1>5
  <1>7. go[f[N]] = f[N]
    <2>1. CASE Cardinality(f[N]) >= N
      <3>1. f[N] \subseteq U /\ Cardinality(f[N]) = Cardinality(U)
        <4>1. Cardinality(f[N]) <= Cardinality(U) /\ Cardinality(U) \in Nat
          BY <1>0, <1>2, <1>6, FS_Subset, FS_CardinalityType
        <4> QED
          BY <1>0, <1>2, <1>4, <1>6, <2>1, <4>1
      <3>2. f[N] = U
        BY <1>10, <3>1, FS_Subset
      <3>3. U \in Z /\ go[U] \in Z /\ U \subseteq go[U]
        BY <1>0
      <3> QED
        BY <3>2, <3>3
    <2> QED
      BY <1>6, <2>1
  <1> QED
    BY <1>0, <1>1, <1>2, <1>6, <1>7

(* The walk up from p, as in Over.                                          *)
Climb(dept, p) ==
    LET up[n \in 0..Cardinality(Departments)] ==
            IF n = 0 THEN {p} \ {0}
            ELSE up[n - 1] \cup ({dept[d].parent : d \in up[n - 1]} \ {0})
    IN up[Cardinality(Departments)]
Rooted(dept, p) == \E d \in Climb(dept, p) : dept[d].parent = 0

(* A walk that ends in a department ends in the same, or at its parent.     *)
Closed(dept, S) == \A d \in S : dept[d].parent \in S \cup {0}

(* The walk up finds the least set that holds p and the parents of all it   *)
(* holds: a longer one would meet more departments than there are.          *)
LEMMA ClimbIs ==
    ASSUME NEW Now \in SUBSET Departments, NEW dept, Closed(dept, Now), NEW p \in Now
    PROVE  /\ p \in Climb(dept, p) /\ Climb(dept, p) \subseteq Now /\ Closed(dept, Climb(dept, p))
           /\ \A S \in SUBSET Now : p \in S /\ Closed(dept, S) => Climb(dept, p) \subseteq S
  <1> DEFINE K == Cardinality(Departments)
             On(X) == X \cup ({dept[d].parent : d \in X} \ {0})
             U(f) == [n \in 0..K |-> IF n = 0 THEN {p} \ {0} ELSE On(f[n - 1])]
             up == CHOOSE f : f = U(f)
             Z == SUBSET Now
             go == [X \in Z |-> On(X)]
  <1>1. K \in Nat /\ IsFiniteSet(Now) /\ Cardinality(Now) <= K /\ {p} \ {0} = {p}
    BY OrganizationAssumption, FS_Subset, FS_CardinalityType
  <1>2. Climb(dept, p) = up[K]
    BY DEF Climb
  <1>3. go \in [Z -> Z] /\ {p} \in Z
    BY DEF Closed
  <1>4. \A X \in Z : go[X] = On(X) /\ X \subseteq go[X]
    OBVIOUS
  <1>5. \A X \in Z : Closed(dept, X) <=> On(X) = X
    BY DEF Closed
  <1> HIDE DEF K, On, Z, go
  <1>6. up = U(up)
    <2>1. PICK f : Repeats(f, Z, {p}, go, K)
      BY <1>1, <1>3, RepeatedExists
    <2>2. f = U(f)
      <3>1. ASSUME NEW n \in 0..K PROVE f[n] = U(f)[n]
        <4>1. CASE n = 0
          BY <1>1, <2>1, <4>1 DEF Repeats
        <4>2. CASE n # 0
          <5>1. n \in 1..K /\ n - 1 \in 0..K
            BY <1>1, <4>2
          <5>2. f[n] = go[f[n - 1]] /\ f[n - 1] \in Z
            BY <2>1, <5>1 DEF Repeats
          <5> QED
            BY <1>4, <4>2, <5>1, <5>2
        <4> QED
          BY <4>1, <4>2
      <3> QED
        BY <2>1, <3>1 DEF Repeats
    <2> HIDE DEF U
    <2> QED
      BY <2>2
  <1> HIDE DEF up
  <1>7. up[0] = {p} /\ \A n \in 1..K : up[n - 1] \in Z => up[n] = go[up[n - 1]]
    <2>1. DOMAIN up = 0..K /\ \A n \in 0..K : up[n] = U(up)[n]
      BY <1>6
    <2>2. 0 \in 0..K /\ \A n \in 1..K : n \in 0..K /\ n # 0
      BY <1>1
    <2>3. up[0] = {p}
      BY <1>1, <2>1, <2>2
    <2>4. ASSUME NEW n \in 1..K, up[n - 1] \in Z PROVE up[n] = go[up[n - 1]]
      BY <1>4, <2>1, <2>2, <2>4
    <2> QED
      BY <2>3, <2>4
  <1> HIDE DEF U
  <1>8. /\ up[K] \in Z /\ {p} \subseteq up[K] /\ go[up[K]] = up[K]
        /\ \A S \in Z : {p} \subseteq S /\ (\A X \in SUBSET S : go[X] \subseteq S) => up[K] \subseteq S
    <2>1. Spreads(up, Now, {p}, go, K)
      BY <1>1, <1>3, <1>4, <1>7 DEF Spreads, Z
    <2> QED
      BY <2>1, SpreadIs DEF Z
  <1>9. ASSUME NEW S \in SUBSET Now, p \in S, Closed(dept, S) PROVE up[K] \subseteq S
    <2>1. S \in Z /\ \A X \in SUBSET S : X \in Z /\ On(X) \subseteq S
      BY <1>9 DEF Z, Closed, On
    <2> QED
      BY <1>4, <1>8, <1>9, <2>1
  <1>10. p \in up[K] /\ up[K] \subseteq Now /\ Closed(dept, up[K])
    BY <1>4, <1>5, <1>8 DEF Z
  <1> QED
    BY <1>2, <1>9, <1>10

(* A department gets another parent, is new, or is removed: if what is      *)
(* above its new parent has a top, and not this one, all still have a top.  *)
LEMMA StillRooted ==
    ASSUME NEW Now \in SUBSET Departments, NEW Soon \in SUBSET Departments, NEW dept, NEW new, NEW d,
           Closed(dept, Now), Closed(new, Soon),
           \A x \in Soon \ {d} : x \in Now /\ new[x].parent = dept[x].parent,
           d \in Soon => \/ new[d].parent = 0
                         \/ d \in Now /\ new[d].parent = dept[d].parent
                         \/ /\ new[d].parent \in Now /\ d \notin Climb(dept, new[d].parent)
                            /\ Rooted(dept, new[d].parent),
           \A x \in Now : Rooted(dept, x)
    PROVE  \A x \in Soon : Rooted(new, x)
  <1> SUFFICES ASSUME NEW x \in Soon PROVE Rooted(new, x)
    OBVIOUS
  <1> DEFINE T == Climb(new, x)
  <1>1. x \in T /\ T \subseteq Soon /\ Closed(new, T)
    BY ClimbIs
  <1> HIDE DEF T
  <1>2. ASSUME NEW y \in T \cap Now, d \notin Climb(dept, y) PROVE Rooted(new, x)
    <2> DEFINE C == Climb(dept, y)
               S == T \cap C
    <2>1. y \in C /\ C \subseteq Now /\ Closed(dept, C) /\ \A Z \in SUBSET Now : y \in Z /\ Closed(dept, Z) => C \subseteq Z
      BY ClimbIs
    <2>2. d \notin C /\ Rooted(dept, y)
      BY <1>2
    <2>3. PICK r \in C : dept[r].parent = 0
      BY <2>2 DEF Rooted
    <2> HIDE DEF C
    <2>4. ASSUME NEW z \in S PROVE new[z].parent = dept[z].parent
      BY <1>1, <2>2
    <2>5. Closed(dept, S)
      BY <1>1, <2>1, <2>4 DEF Closed
    <2>6. C \subseteq S
      BY <2>1, <2>5
    <2>7. r \in T /\ new[r].parent = 0
      BY <2>3, <2>4, <2>6
    <2> QED
      BY <2>7 DEF Rooted, T
  <1>3. CASE d \notin T
    <2>1. T \subseteq Now /\ Closed(dept, T)
      BY <1>1, <1>3 DEF Closed
    <2>2. Climb(dept, x) \subseteq T
      BY <1>1, <2>1, ClimbIs
    <2> QED
      BY <1>1, <1>2, <1>3, <2>1, <2>2
  <1>4. CASE d \in T
    <2>1. d \in Soon
      BY <1>1, <1>4
    <2>2. CASE new[d].parent = 0
      BY <1>4, <2>2 DEF Rooted, T
    <2>3. CASE d \in Now /\ new[d].parent = dept[d].parent
      <3>1. \A z \in T : z \in Now /\ new[z].parent = dept[z].parent
        BY <1>1, <2>3
      <3>2. T \subseteq Now /\ Closed(dept, T) /\ x \in Now
        BY <1>1, <3>1 DEF Closed
      <3>3. Climb(dept, x) \subseteq T /\ Rooted(dept, x)
        BY <1>1, <3>2, ClimbIs
      <3>4. PICK r \in Climb(dept, x) : dept[r].parent = 0
        BY <3>3 DEF Rooted
      <3>5. r \in T /\ new[r].parent = 0
        BY <3>1, <3>3, <3>4
      <3> QED
        BY <3>5 DEF Rooted, T
    <2>4. CASE new[d].parent \in Now /\ d \notin Climb(dept, new[d].parent) /\ Rooted(dept, new[d].parent)
      <3>1. new[d].parent # 0
        BY <2>4, OrganizationAssumption
      <3>2. new[d].parent \in T \cap Now
        BY <1>1, <1>4, <2>4, <3>1 DEF Closed
      <3> QED
        BY <1>2, <2>4, <3>2
    <2> QED
      BY <2>1, <2>2, <2>3, <2>4
  <1> QED
    BY <1>3, <1>4

EmployeeRecords == [manager : Employees \cup {0, -1}, dept : Departments \cup {0}, active : BOOLEAN]
DepartmentRecords == [parent : Departments \cup {0, -1}, head : Employees \cup {0}]

(* Whoever and whatever is referred to is there.                            *)
OrganizationHolds ==
    /\ \A u \in Staff : /\ employee[u].manager # u /\ employee[u].manager \in Staff \cup {0}
                        /\ employee[u].dept \in DepartmentsNow \cup {0}
    /\ \A d \in DepartmentsNow : /\ department[d].parent \in DepartmentsNow \cup {0}
                                 /\ department[d].head \in Staff \cup {0}

(* One request at a time, and what it has read is still so: the parent it   *)
(* is about to write has a top above it, and is not below the department.   *)
Checked(job) ==
    /\ job.d \in DepartmentsNow /\ job.seen = department[job.d]
    /\ job.row.parent # job.seen.parent =>
         job.row.parent # 0 /\ ParentIsValid(job.d, job.row.parent)
OneOfficer ==
    ~harried => /\ \A o, p \in Officers : officer[o] # OffDuty /\ officer[p] # OffDuty => o = p
                /\ \A o \in Officers : officer[o] # OffDuty => Checked(officer[o])
                /\ \A d \in DepartmentsNow : Topped(d)

OrganizationInv ==
    /\ OrganizationTypeOK /\ OrganizationHolds /\ OneOfficer
    /\ harried \in BOOLEAN
    /\ officer \in [Officers -> [d : Departments \cup {0}, seen : DepartmentRecords, row : DepartmentRecords]]

(* The rows that stand for nobody and nothing.                              *)
LEMMA EmptyRows ==
    /\ NoEmployee \in EmployeeRecords /\ NoDepartment \in DepartmentRecords
    /\ 0 \notin Employees /\ 0 \notin Departments /\ -1 \notin Employees /\ -1 \notin Departments
    /\ OffDuty \in [d : Departments \cup {0}, seen : DepartmentRecords, row : DepartmentRecords] /\ OffDuty.d = 0
  BY OrganizationAssumption DEF NoEmployee, NoDepartment, EmployeeRecords, DepartmentRecords, OffDuty

(* Departments have their tops where the walk up finds them.                *)
LEMMA ToppedIsRooted ==
    ASSUME NEW d, d # 0
    PROVE  Over(d) = Climb(department, d) /\ (Topped(d) <=> Rooted(department, d))
  BY DEF Over, Climb, Topped, Rooted

(* The first state: nobody is hired, no department, nobody at work.         *)
LEMMA OrganizationStart == OrganizationInit => OrganizationInv
  <1> SUFFICES ASSUME OrganizationInit PROVE OrganizationInv
    OBVIOUS
  <1>1. Staff = {} /\ DepartmentsNow = {}
    BY DEF OrganizationInit, Staff, DepartmentsNow
  <1>2. OrganizationTypeOK
    BY EmptyRows DEF OrganizationInit, OrganizationTypeOK, EmployeeRecords, DepartmentRecords
  <1>3. OneOfficer
    BY <1>1 DEF OrganizationInit, OneOfficer
  <1> QED
    BY <1>1, <1>2, <1>3, EmptyRows DEF OrganizationInit, OrganizationInv, OrganizationHolds

(* Employees are hired, placed and dismissed; departments stay.             *)
LEMMA StaffStep ==
    ASSUME OrganizationInv, NEW o \in Officers,
           \/ \E m \in Employees \cup {0}, d \in Departments \cup {0}, serves \in BOOLEAN :
                Hire(o, m, d, serves) \/ \E u \in Employees : Place(o, u, m, d, serves)
           \/ \E u \in Employees : Dismiss(o, u)
    PROVE  OrganizationInv'
  <1>1. UNCHANGED <<department, officer, harried>>
    BY DEF Hire, Place, Dismiss
  <1>2. employee \in [Employees -> EmployeeRecords] /\ OrganizationHolds
    BY DEF OrganizationInv, OrganizationTypeOK, EmployeeRecords
  <1>3. DepartmentsNow' = DepartmentsNow /\ \A d : Topped(d)' <=> Topped(d)
    BY <1>1 DEF DepartmentsNow, Topped, Over
  <1>4. employee' \in [Employees -> EmployeeRecords] /\ OrganizationHolds'
    <2>1. ASSUME NEW u \in Employees, NEW rec \in EmployeeRecords, employee' = [employee EXCEPT ![u] = rec],
                 rec.manager \in Staff \cup {0}, rec.manager # u, rec.dept \in DepartmentsNow \cup {0}
          PROVE  employee' \in [Employees -> EmployeeRecords] /\ OrganizationHolds'
      <3>1. rec # NoEmployee
        BY <2>1, EmptyRows DEF NoEmployee, Staff
      <3>2. Staff' = Staff \cup {u}
        BY <1>2, <2>1, <3>1 DEF Staff
      <3>3. employee' \in [Employees -> EmployeeRecords]
        BY <1>2, <2>1
      <3>4. employee'[u] = rec /\ \A v \in Employees \ {u} : employee'[v] = employee[v]
        BY <1>2, <2>1
      <3>5. Staff \subseteq Employees
        BY DEF Staff
      <3> QED
        BY <1>1, <1>2, <1>3, <2>1, <3>2, <3>3, <3>4, <3>5 DEF OrganizationHolds
    <2>2. CASE \E m \in Employees \cup {0}, d \in Departments \cup {0}, serves \in BOOLEAN :
                 Hire(o, m, d, serves)
      <3> PICK m \in Employees \cup {0}, d \in Departments \cup {0}, serves \in BOOLEAN :
                 Hire(o, m, d, serves)
        BY <2>2
      <3> DEFINE u == Min(Employees \ Staff)
                 rec == [manager |-> m, dept |-> d, active |-> serves]
      <3>1. u \in Employees /\ u \notin Staff
        <4>1. Employees \ Staff \in SUBSET Nat /\ Employees \ Staff # {}
          BY OrganizationAssumption DEF Hire, Staff
        <4> QED
          BY <4>1, MinOf
      <3>2. employee' = [employee EXCEPT ![u] = rec] /\ m \in Staff \cup {0} /\ d \in DepartmentsNow \cup {0}
        BY DEF Hire
      <3> HIDE DEF u
      <3>3. m # u
        BY <3>1, <3>2, EmptyRows
      <3>4. rec \in EmployeeRecords /\ rec.manager = m /\ rec.dept = d
        BY DEF EmployeeRecords
      <3> HIDE DEF rec
      <3> QED
        BY <2>1, <3>1, <3>2, <3>3, <3>4
    <2>3. CASE \E m \in Employees \cup {0}, d \in Departments \cup {0}, serves \in BOOLEAN,
                  u \in Employees : Place(o, u, m, d, serves)
      <3> PICK m \in Employees \cup {0}, d \in Departments \cup {0}, serves \in BOOLEAN,
               u \in Employees : Place(o, u, m, d, serves)
        BY <2>3
      <3> DEFINE rec == [manager |-> m, dept |-> d, active |-> serves]
      <3>2. /\ employee' = [employee EXCEPT ![u] = rec] /\ m \in Staff \cup {0} /\ m # u
            /\ d \in DepartmentsNow \cup {0}
        BY DEF Place
      <3>4. rec \in EmployeeRecords /\ rec.manager = m /\ rec.dept = d
        BY DEF EmployeeRecords
      <3> HIDE DEF rec
      <3> QED
        BY <2>1, <3>2, <3>4
    <2>4. CASE \E u \in Employees : Dismiss(o, u)
      <3> PICK u \in Employees : Dismiss(o, u)
        BY <2>4
      <3>1. /\ employee' = [employee EXCEPT ![u] = NoEmployee] /\ u \in Staff /\ LedBy(u) = {} /\ HeadedBy(u) = {}
        BY DEF Dismiss, Dismissable
      <3>2. Staff' = Staff \ {u} /\ employee' \in [Employees -> EmployeeRecords]
        BY <1>2, <3>1, EmptyRows DEF Staff
      <3>3. \A v \in Staff : employee[v].manager # u
        BY <3>1 DEF LedBy
      <3>4. \A d \in DepartmentsNow : department[d].head # u
        BY <3>1 DEF HeadedBy
      <3>5. \A v \in Staff' : v \in Staff /\ v # u /\ employee'[v] = employee[v]
        BY <1>2, <3>1, <3>2 DEF Staff
      <3> QED
        BY <1>1, <1>2, <1>3, <3>2, <3>3, <3>4, <3>5 DEF OrganizationHolds
    <2> QED
      BY <2>2, <2>3, <2>4
  <1>5. OrganizationTypeOK'
    BY <1>1, <1>4 DEF OrganizationInv, OrganizationTypeOK, EmployeeRecords
  <1>6. OneOfficer'
    <2>1. \A job : Checked(job)' <=> Checked(job)
      BY <1>1, <1>3 DEF Checked, ParentIsValid, Over
    <2> QED
      BY <1>1, <1>3, <2>1 DEF OrganizationInv, OneOfficer
  <1> QED
    BY <1>1, <1>4, <1>5, <1>6 DEF OrganizationInv

(* An officer reads a department and what he may write.                     *)
LEMMA BeginStep ==
    ASSUME OrganizationInv, NEW o \in Officers, NEW d \in Departments, NEW p \in Departments \cup {0},
           NEW h \in Employees \cup {0}, BeginUpdateDepartment(o, d, p, h)
    PROVE  OrganizationInv'
  <1> DEFINE job == [d |-> d, seen |-> department[d], row |-> [parent |-> p, head |-> h]]
  <1>1. UNCHANGED <<employee, department, harried>> /\ officer' = [officer EXCEPT ![o] = job]
        /\ Ready(o) /\ d \in DepartmentsNow /\ (p # department[d].parent => p # 0 /\ ParentIsValid(d, p))
    BY DEF BeginUpdateDepartment
  <1>2. /\ employee' = employee /\ department \in [Departments -> DepartmentRecords]
        /\ officer \in [Officers -> [d : Departments \cup {0}, seen : DepartmentRecords, row : DepartmentRecords]]
    BY <1>1 DEF OrganizationInv, OrganizationTypeOK, DepartmentRecords
  <1>3. job \in [d : Departments \cup {0}, seen : DepartmentRecords, row : DepartmentRecords]
    BY <1>2 DEF DepartmentRecords
  <1>4. job.d = d /\ job.seen = department[d] /\ job.row.parent = p
    OBVIOUS
  <1> HIDE DEF job
  <1>5. /\ officer' \in [Officers -> [d : Departments \cup {0}, seen : DepartmentRecords, row : DepartmentRecords]]
        /\ officer'[o] = job /\ \A q \in Officers \ {o} : officer'[q] = officer[q]
    BY <1>1, <1>2, <1>3
  <1>6. DepartmentsNow' = DepartmentsNow /\ Staff' = Staff /\ \A x : Topped(x)' <=> Topped(x)
    BY <1>1 DEF DepartmentsNow, Staff, Topped, Over
  <1>7. OrganizationTypeOK' /\ OrganizationHolds'
    BY <1>1, <1>5, <1>6 DEF OrganizationInv, OrganizationTypeOK, OrganizationHolds
  <1>8. OneOfficer'
    <2> SUFFICES ASSUME ~harried
                 PROVE  /\ \A a, b \in Officers : officer'[a] # OffDuty /\ officer'[b] # OffDuty => a = b
                        /\ \A a \in Officers : officer'[a] # OffDuty => Checked(officer[a])'
                        /\ \A x \in DepartmentsNow : Topped(x)
      BY <1>1, <1>6 DEF OneOfficer
    <2>1. \A q \in Officers \ {o} : officer'[q] = OffDuty
      BY <1>1, <1>5 DEF Ready
    <2>2. Checked(job)
      BY <1>1, <1>4 DEF Checked
    <2>3. Checked(officer[o])'
      BY <1>1, <1>5, <1>6, <2>2 DEF Checked, ParentIsValid, Over
    <2> QED
      BY <2>1, <2>3 DEF OrganizationInv, OneOfficer
  <1> QED
    BY <1>1, <1>5, <1>7, <1>8 DEF OrganizationInv

(* One department is written, with a parent that was looked at: one request *)
(* at a time every department still has a top.                              *)
LEMMA DepartmentWritten ==
    ASSUME OrganizationInv, NEW d, UNCHANGED harried,
           \A x \in DepartmentsNow' \ {d} : x \in DepartmentsNow /\ department'[x] = department[x],
           OrganizationHolds',
           ~harried => \A q \in Officers : officer'[q] = OffDuty,
           ~harried /\ d \in DepartmentsNow' =>
              \/ department'[d].parent = 0
              \/ d \in DepartmentsNow /\ department'[d].parent = department[d].parent
              \/ /\ department'[d].parent \in DepartmentsNow /\ d \notin Over(department'[d].parent)
                 /\ Topped(department'[d].parent)
    PROVE  OneOfficer'
  <1> SUFFICES ASSUME ~harried PROVE \A x \in DepartmentsNow' : Topped(x)'
    BY DEF OneOfficer
  <1> DEFINE Now == DepartmentsNow
             Soon == DepartmentsNow'
             new == department'
  <1>1. Now \in SUBSET Departments /\ Soon \in SUBSET Departments /\ 0 \notin Departments
    BY EmptyRows DEF DepartmentsNow
  <1>2. Closed(department, Now) /\ Closed(new, Soon)
    BY DEF OrganizationInv, OrganizationHolds, Closed
  <1>3. \A x \in Now : Rooted(department, x)
    BY <1>1, ToppedIsRooted DEF OrganizationInv, OneOfficer
  <1>4. d \in Soon => \/ new[d].parent = 0
                      \/ d \in Now /\ new[d].parent = department[d].parent
                      \/ /\ new[d].parent \in Now /\ d \notin Climb(department, new[d].parent)
                         /\ Rooted(department, new[d].parent)
    BY <1>1, ToppedIsRooted
  <1>5. \A x \in Soon \ {d} : x \in Now /\ new[x].parent = department[x].parent
    OBVIOUS
  <1>6. \A x \in Soon : x # 0 /\ (Topped(x)' <=> Rooted(new, x))
    BY <1>1 DEF Over, Climb, Topped, Rooted
  <1> HIDE DEF Now, Soon, new
  <1>7. \A x \in Soon : Rooted(new, x)
    BY <1>1, <1>2, <1>3, <1>4, <1>5, StillRooted
  <1> QED
    BY <1>6, <1>7 DEF Soon

(* A new department, at the top or below one that is there.                 *)
LEMMA CreateStep ==
    ASSUME OrganizationInv, NEW o \in Officers, NEW p \in Departments \cup {0}, NEW h \in Employees \cup {0},
           CreateDepartment(o, p, h)
    PROVE  OrganizationInv'
  <1> DEFINE d == Min(Departments \ DepartmentsNow)
             rec == [parent |-> p, head |-> h]
  <1>1. d \in Departments /\ d \notin DepartmentsNow
    <2>1. Departments \ DepartmentsNow \in SUBSET Nat /\ Departments \ DepartmentsNow # {}
      BY OrganizationAssumption DEF CreateDepartment, DepartmentsNow
    <2> QED
      BY <2>1, MinOf
  <1>2. /\ department' = [department EXCEPT ![d] = rec] /\ p \in DepartmentsNow \cup {0} /\ h \in Staff \cup {0}
        /\ Ready(o) /\ UNCHANGED <<employee, officer, harried>>
    BY DEF CreateDepartment
  <1>3. rec \in DepartmentRecords /\ rec.parent = p /\ rec.head = h /\ rec # NoDepartment
    BY <1>2, EmptyRows DEF DepartmentRecords, NoDepartment, DepartmentsNow
  <1> HIDE DEF d, rec
  <1>4. department \in [Departments -> DepartmentRecords] /\ OrganizationHolds
    BY DEF OrganizationInv, OrganizationTypeOK, DepartmentRecords
  <1>5. /\ department' \in [Departments -> DepartmentRecords] /\ department'[d] = rec
        /\ \A x \in Departments \ {d} : department'[x] = department[x]
    BY <1>1, <1>2, <1>3, <1>4
  <1>6. DepartmentsNow' = DepartmentsNow \cup {d} /\ Staff' = Staff
    BY <1>1, <1>2, <1>3, <1>5 DEF DepartmentsNow, Staff
  <1>7. DepartmentsNow \subseteq Departments \ {d}
    BY <1>1 DEF DepartmentsNow
  <1>8. OrganizationHolds'
    BY <1>2, <1>3, <1>4, <1>5, <1>6, <1>7 DEF OrganizationHolds
  <1>9. ~harried => \A q \in Officers : officer'[q] = OffDuty
    BY <1>2 DEF Ready
  <1>10. ~harried /\ p # 0 => d \notin Over(p) /\ Topped(p)
    <2> SUFFICES ASSUME ~harried, p # 0 PROVE d \notin Over(p) /\ Topped(p)
      OBVIOUS
    <2>1. p \in DepartmentsNow /\ Topped(p)
      BY <1>2 DEF OrganizationInv, OneOfficer
    <2>2. DepartmentsNow \in SUBSET Departments /\ Closed(department, DepartmentsNow)
      BY <1>4 DEF OrganizationHolds, Closed, DepartmentsNow
    <2>3. Over(p) \subseteq DepartmentsNow
      BY <2>1, <2>2, ClimbIs, ToppedIsRooted
    <2> QED
      BY <1>1, <2>1, <2>3
  <1>11. OneOfficer'
    BY <1>2, <1>3, <1>5, <1>6, <1>7, <1>8, <1>9, <1>10, DepartmentWritten
  <1> QED
    BY <1>2, <1>5, <1>8, <1>11 DEF OrganizationInv, OrganizationTypeOK, DepartmentRecords

(* A department is written with the columns its officer has changed.        *)
LEMMA CommitStep ==
    ASSUME OrganizationInv, NEW o \in Officers, CommitUpdateDepartment(o)
    PROVE  OrganizationInv'
  <1> DEFINE d == officer[o].d
             seen == officer[o].seen
             rec == officer[o].row
             parent == Kept(seen.parent, rec.parent, department[d].parent)
             head == Kept(seen.head, rec.head, department[d].head)
             new == [parent |-> parent, head |-> head]
             stored == d \in DepartmentsNow /\ rec.parent \in DepartmentsNow \cup {0} /\ rec.head \in Staff \cup {0}
  <1>1. /\ department \in [Departments -> DepartmentRecords] /\ OrganizationHolds
        /\ officer \in [Officers -> [d : Departments \cup {0}, seen : DepartmentRecords, row : DepartmentRecords]]
    BY DEF OrganizationInv, OrganizationTypeOK, DepartmentRecords
  <1>2. /\ UNCHANGED <<employee, harried>> /\ officer' = [officer EXCEPT ![o] = OffDuty] /\ d # 0 /\ d \in Departments
        /\ (~stored => department' = department)
        /\ (stored => department' = [department EXCEPT ![d].parent = parent, ![d].head = head])
    BY <1>1 DEF CommitUpdateDepartment
  <1>3. /\ officer' \in [Officers -> [d : Departments \cup {0}, seen : DepartmentRecords, row : DepartmentRecords]]
        /\ officer'[o] = OffDuty /\ \A q \in Officers \ {o} : officer'[q] = officer[q]
    BY <1>1, <1>2, EmptyRows
  <1>4. ~harried => \A q \in Officers : officer'[q] = OffDuty
    <2>1. officer[o] # OffDuty
      BY <1>2, EmptyRows
    <2> QED
      BY <1>3, <2>1 DEF OrganizationInv, OneOfficer
  <1>5. Staff' = Staff
    BY <1>2 DEF Staff
  <1>6. CASE ~stored
    <2>1. DepartmentsNow' = DepartmentsNow /\ department' = department
      BY <1>2, <1>6 DEF DepartmentsNow
    <2>2. OrganizationHolds'
      BY <1>1, <1>2, <1>5, <2>1 DEF OrganizationHolds
    <2>3. OneOfficer'
      BY <1>2, <1>4, <2>1, <2>2, DepartmentWritten
    <2> QED
      BY <1>2, <1>3, <2>1, <2>2, <2>3 DEF OrganizationInv, OrganizationTypeOK
  <1>7. CASE stored
    <2>1. department[d] \in DepartmentRecords /\ rec \in DepartmentRecords /\ d \in DepartmentsNow
      BY <1>1, <1>2, <1>7
    <2>2. /\ parent \in {rec.parent, department[d].parent} /\ head \in {rec.head, department[d].head}
          /\ (parent # department[d].parent => rec.parent # seen.parent /\ parent = rec.parent)
      BY DEF Kept
    <2>3. parent \in DepartmentsNow \cup {0} /\ head \in Staff \cup {0}
      BY <1>1, <1>7, <2>1, <2>2 DEF OrganizationHolds
    <2>4. department' = [department EXCEPT ![d] = new]
      <3>1. department[d] = [parent |-> department[d].parent, head |-> department[d].head]
        BY <2>1 DEF DepartmentRecords
      <3>2. department' = [department EXCEPT ![d].parent = parent, ![d].head = head]
        BY <1>2, <1>7
      <3> HIDE DEF parent, head, stored
      <3> QED
        BY <1>1, <1>2, <3>1, <3>2
    <2>5. new \in DepartmentRecords /\ new # NoDepartment /\ new.parent = parent /\ new.head = head
      <3>1. parent \in Departments \cup {0} /\ head \in Employees \cup {0}
        BY <2>3 DEF DepartmentsNow, Staff
      <3> HIDE DEF parent, head
      <3> QED
        BY <3>1, EmptyRows DEF DepartmentRecords, NoDepartment
    <2> HIDE DEF new, parent, head, stored
    <2>6. /\ department' \in [Departments -> DepartmentRecords] /\ department'[d] = new
          /\ \A x \in Departments \ {d} : department'[x] = department[x]
      BY <1>1, <1>2, <2>4, <2>5
    <2>7. DepartmentsNow' = DepartmentsNow
      BY <1>2, <2>1, <2>5, <2>6 DEF DepartmentsNow
    <2>8. DepartmentsNow \subseteq Departments
      BY DEF DepartmentsNow
    <2>9. OrganizationHolds'
      BY <1>1, <1>2, <1>5, <2>3, <2>5, <2>6, <2>7, <2>8 DEF OrganizationHolds
    <2>10. ~harried => \/ parent = 0
                       \/ parent = department[d].parent
                       \/ parent \in DepartmentsNow /\ d \notin Over(parent) /\ Topped(parent)
      <3> SUFFICES ASSUME ~harried, parent # department[d].parent
                   PROVE  parent \in DepartmentsNow /\ d \notin Over(parent) /\ Topped(parent)
        OBVIOUS
      <3>1. Checked(officer[o])
        BY <1>2, EmptyRows DEF OrganizationInv, OneOfficer
      <3>2. parent # 0 /\ ParentIsValid(d, parent)
        BY <2>2, <3>1 DEF Checked
      <3> QED
        BY <3>2 DEF ParentIsValid
    <2>11. OneOfficer'
      BY <1>2, <1>4, <2>1, <2>5, <2>6, <2>7, <2>8, <2>9, <2>10, DepartmentWritten
    <2> QED
      BY <1>2, <1>3, <2>6, <2>9, <2>11 DEF OrganizationInv, OrganizationTypeOK, DepartmentRecords
  <1> QED
    BY <1>6, <1>7

(* A department that nothing refers to is removed.                          *)
LEMMA DeleteStep ==
    ASSUME OrganizationInv, NEW o \in Officers, NEW d \in Departments, DeleteDepartment(o, d)
    PROVE  OrganizationInv'
  <1>1. /\ department \in [Departments -> DepartmentRecords] /\ OrganizationHolds
    BY DEF OrganizationInv, OrganizationTypeOK, DepartmentRecords
  <1>2. /\ department' = [department EXCEPT ![d] = NoDepartment] /\ UNCHANGED <<employee, officer, harried>> /\ Ready(o)
        /\ \A c \in DepartmentsNow : department[c].parent # d
        /\ \A u \in Staff : employee[u].dept # d
    BY DEF DeleteDepartment
  <1>3. /\ department' \in [Departments -> DepartmentRecords]
        /\ \A x \in Departments \ {d} : department'[x] = department[x]
    BY <1>1, <1>2, EmptyRows
  <1>4. DepartmentsNow' = DepartmentsNow \ {d} /\ Staff' = Staff /\ DepartmentsNow \subseteq Departments
    BY <1>1, <1>2, <1>3 DEF DepartmentsNow, Staff
  <1>5. OrganizationHolds'
    BY <1>1, <1>2, <1>3, <1>4 DEF OrganizationHolds
  <1>6. ~harried => \A q \in Officers : officer'[q] = OffDuty
    BY <1>2 DEF Ready
  <1>7. OneOfficer'
    BY <1>2, <1>3, <1>4, <1>5, <1>6, DepartmentWritten
  <1> QED
    BY <1>2, <1>3, <1>5, <1>7 DEF OrganizationInv, OrganizationTypeOK, DepartmentRecords

(* Every step of the organization keeps the invariant.                      *)
LEMMA OrganizationKept == OrganizationInv /\ [OrganizationNext]_organizationVars => OrganizationInv'
  <1> SUFFICES ASSUME OrganizationInv, [OrganizationNext]_organizationVars PROVE OrganizationInv'
    OBVIOUS
  <1>1. CASE UNCHANGED organizationVars
    <2>1. UNCHANGED <<employee, department, officer, harried>>
      BY <1>1 DEF organizationVars
    <2>2. DepartmentsNow' = DepartmentsNow /\ Staff' = Staff /\ \A x : Topped(x)' <=> Topped(x)
      BY <2>1 DEF DepartmentsNow, Staff, Topped, Over
    <2>3. OrganizationTypeOK' /\ OrganizationHolds'
      BY <2>1, <2>2 DEF OrganizationInv, OrganizationTypeOK, OrganizationHolds
    <2>4. \A job : Checked(job)' <=> Checked(job)
      BY <2>1, <2>2 DEF Checked, ParentIsValid, Over
    <2>5. OneOfficer'
      BY <2>1, <2>2, <2>4 DEF OrganizationInv, OneOfficer
    <2> QED
      BY <2>1, <2>3, <2>5 DEF OrganizationInv
  <1>2. CASE OrganizationNext
    BY <1>2, StaffStep, BeginStep, CreateStep, CommitStep, DeleteStep DEF OrganizationNext
  <1> QED
    BY <1>1, <1>2

(* The organization keeps its invariant, however requests overlap.          *)
THEOREM OrganizationInvariant == OrganizationSpec => []OrganizationInv
  BY OrganizationStart, OrganizationKept, PTL DEF OrganizationSpec

(* A branch is the department it is asked for, and with each all below it,  *)
(* and nothing else.                                                        *)
LEMMA BelowIs ==
    ASSUME NEW d \in DepartmentsNow
    PROVE  /\ d \in Below(d) /\ Below(d) \subseteq DepartmentsNow
           /\ \A c \in DepartmentsNow : department[c].parent \in Below(d) => c \in Below(d)
           /\ \A S \in SUBSET DepartmentsNow :
                 d \in S /\ (\A c \in DepartmentsNow : department[c].parent \in S => c \in S) => Below(d) \subseteq S
  <1> DEFINE K == Cardinality(Departments)
             On(X) == X \cup {c \in DepartmentsNow : department[c].parent \in X}
             U(f) == [n \in 0..K |-> IF n = 0 THEN {d} ELSE On(f[n - 1])]
             down == CHOOSE f : f = U(f)
             Z == SUBSET DepartmentsNow
             go == [X \in Z |-> On(X)]
  <1>1. K \in Nat /\ IsFiniteSet(DepartmentsNow) /\ Cardinality(DepartmentsNow) <= K
    BY OrganizationAssumption, FS_Subset, FS_CardinalityType DEF DepartmentsNow
  <1>2. Below(d) = down[K]
    BY DEF Below
  <1>3. go \in [Z -> Z] /\ {d} \in Z
    BY DEF LedBy
  <1>4. \A X \in Z : go[X] = On(X) /\ X \subseteq go[X]
    OBVIOUS
  <1> HIDE DEF K, On, Z, go
  <1>5. down = U(down)
    <2>1. PICK f : Repeats(f, Z, {d}, go, K)
      BY <1>1, <1>3, RepeatedExists
    <2>2. f = U(f)
      <3>1. ASSUME NEW n \in 0..K PROVE f[n] = U(f)[n]
        <4>1. CASE n = 0
          BY <1>1, <2>1, <4>1 DEF Repeats
        <4>2. CASE n # 0
          <5>1. n \in 1..K /\ n - 1 \in 0..K
            BY <1>1, <4>2
          <5>2. f[n] = go[f[n - 1]] /\ f[n - 1] \in Z
            BY <2>1, <5>1 DEF Repeats
          <5> QED
            BY <1>4, <4>2, <5>1, <5>2
        <4> QED
          BY <4>1, <4>2
      <3> QED
        BY <2>1, <3>1 DEF Repeats
    <2> HIDE DEF U
    <2> QED
      BY <2>2
  <1> HIDE DEF down
  <1>6. down[0] = {d} /\ \A n \in 1..K : down[n - 1] \in Z => down[n] = go[down[n - 1]]
    <2>1. DOMAIN down = 0..K /\ \A n \in 0..K : down[n] = U(down)[n]
      BY <1>5
    <2>2. 0 \in 0..K /\ \A n \in 1..K : n \in 0..K /\ n # 0
      BY <1>1
    <2>3. down[0] = {d}
      BY <2>1, <2>2
    <2>4. ASSUME NEW n \in 1..K, down[n - 1] \in Z PROVE down[n] = go[down[n - 1]]
      BY <1>4, <2>1, <2>2, <2>4
    <2> QED
      BY <2>3, <2>4
  <1> HIDE DEF U
  <1>7. /\ down[K] \in Z /\ {d} \subseteq down[K] /\ go[down[K]] = down[K]
        /\ \A S \in Z : {d} \subseteq S /\ (\A X \in SUBSET S : go[X] \subseteq S) => down[K] \subseteq S
    <2>1. Spreads(down, DepartmentsNow, {d}, go, K)
      BY <1>1, <1>3, <1>4, <1>6 DEF Spreads, Z
    <2> QED
      BY <2>1, SpreadIs DEF Z
  <1>8. ASSUME NEW S \in SUBSET DepartmentsNow, \A X \in SUBSET S : On(X) \subseteq S, {d} \subseteq S
        PROVE  down[K] \subseteq S
    <2>1. S \in Z /\ \A X \in SUBSET S : X \in Z
      BY DEF Z
    <2>2. \A X \in SUBSET S : go[X] \subseteq S
      BY <1>4, <1>8, <2>1
    <2> QED
      BY <1>7, <1>8, <2>1, <2>2
  <1>9. down[K] \subseteq DepartmentsNow /\ On(down[K]) = down[K]
    BY <1>4, <1>7 DEF Z
  <1> QED
    BY <1>2, <1>7, <1>8, <1>9 DEF On

(* Those led through others are the active ones led, and with each the      *)
(* active ones he leads, and nobody else: also when the walk does not go on from its start again.     *)
LEMMA LedIs ==
    ASSUME NEW u
    PROVE  /\ ActiveLedBy(u) \subseteq LedThrough(u) /\ LedThrough(u) \subseteq Staff
           /\ \A v \in LedThrough(u) : ActiveLedBy(v) \subseteq LedThrough(u)
           /\ \A S \in SUBSET Staff :
                 ActiveLedBy(u) \subseteq S /\ (\A v \in S : ActiveLedBy(v) \subseteq S) => LedThrough(u) \subseteq S
  <1> DEFINE K == Cardinality(Employees)
             On(X) == X \cup UNION {ActiveLedBy(v) : v \in X \ {u}}
             U(f) == [n \in 0..K |-> IF n = 0 THEN ActiveLedBy(u) ELSE On(f[n - 1])]
             down == CHOOSE f : f = U(f)
             Z == SUBSET Staff
             go == [X \in Z |-> On(X)]
  <1>1. K \in Nat /\ IsFiniteSet(Staff) /\ Cardinality(Staff) <= K
    BY OrganizationAssumption, FS_Subset, FS_CardinalityType DEF Staff
  <1>2. LedThrough(u) = down[K]
    BY DEF LedThrough
  <1>3. go \in [Z -> Z] /\ ActiveLedBy(u) \in Z
    BY DEF ActiveLedBy, LedBy
  <1>4. \A X \in Z : go[X] = On(X) /\ X \subseteq go[X]
    OBVIOUS
  <1> HIDE DEF K, On, Z, go
  <1>5. down = U(down)
    <2>1. PICK f : Repeats(f, Z, ActiveLedBy(u), go, K)
      BY <1>1, <1>3, RepeatedExists
    <2>2. f = U(f)
      <3>1. ASSUME NEW n \in 0..K PROVE f[n] = U(f)[n]
        <4>1. CASE n = 0
          BY <1>1, <2>1, <4>1 DEF Repeats
        <4>2. CASE n # 0
          <5>1. n \in 1..K /\ n - 1 \in 0..K
            BY <1>1, <4>2
          <5>2. f[n] = go[f[n - 1]] /\ f[n - 1] \in Z
            BY <2>1, <5>1 DEF Repeats
          <5> QED
            BY <1>4, <4>2, <5>1, <5>2
        <4> QED
          BY <4>1, <4>2
      <3> QED
        BY <2>1, <3>1 DEF Repeats
    <2> HIDE DEF U
    <2> QED
      BY <2>2
  <1> HIDE DEF down
  <1>6. down[0] = ActiveLedBy(u) /\ \A n \in 1..K : down[n - 1] \in Z => down[n] = go[down[n - 1]]
    <2>1. DOMAIN down = 0..K /\ \A n \in 0..K : down[n] = U(down)[n]
      BY <1>5
    <2>2. 0 \in 0..K /\ \A n \in 1..K : n \in 0..K /\ n # 0
      BY <1>1
    <2>3. down[0] = ActiveLedBy(u)
      BY <2>1, <2>2
    <2>4. ASSUME NEW n \in 1..K, down[n - 1] \in Z PROVE down[n] = go[down[n - 1]]
      BY <1>4, <2>1, <2>2, <2>4
    <2> QED
      BY <2>3, <2>4
  <1> HIDE DEF U
  <1>7. /\ down[K] \in Z /\ ActiveLedBy(u) \subseteq down[K] /\ go[down[K]] = down[K]
        /\ \A S \in Z : ActiveLedBy(u) \subseteq S /\ (\A X \in SUBSET S : go[X] \subseteq S) => down[K] \subseteq S
    <2>1. Spreads(down, Staff, ActiveLedBy(u), go, K)
      BY <1>1, <1>3, <1>4, <1>6 DEF Spreads, Z
    <2> QED
      BY <2>1, SpreadIs DEF Z
  <1>8. ASSUME NEW S \in SUBSET Staff, \A X \in SUBSET S : On(X) \subseteq S, ActiveLedBy(u) \subseteq S
        PROVE  down[K] \subseteq S
    <2>1. S \in Z /\ \A X \in SUBSET S : X \in Z
      BY DEF Z
    <2>2. \A X \in SUBSET S : go[X] \subseteq S
      BY <1>4, <1>8, <2>1
    <2> QED
      BY <1>7, <1>8, <2>1, <2>2
  <1>9. down[K] \subseteq Staff /\ On(down[K]) = down[K]
    BY <1>4, <1>7 DEF Z
  <1> QED
    BY <1>2, <1>7, <1>8, <1>9 DEF On

(* No department is above where none is given.                              *)
LEMMA NoneOverNone == Over(0) = {}
  <1> DEFINE K == Cardinality(Departments)
             On(X) == X \cup ({department[d].parent : d \in X} \ {0})
             U(f) == [n \in 0..K |-> IF n = 0 THEN {0} \ {0} ELSE On(f[n - 1])]
             up == CHOOSE f : f = U(f)
  <1>1. K \in Nat
    BY OrganizationAssumption, FS_CardinalityType
  <1>2. Over(0) = up[K]
    BY DEF Over
  <1>3. On({}) = {}
    OBVIOUS
  <1> HIDE DEF K, On
  <1>4. up = U(up)
    <2> DEFINE f == [n \in 0..K |-> {}]
    <2>1. f = U(f)
      <3>1. ASSUME NEW n \in 0..K PROVE f[n] = U(f)[n]
        <4>1. CASE n = 0
          BY <4>1
        <4>2. CASE n # 0
          <5>1. n - 1 \in 0..K
            BY <1>1, <4>2
          <5> QED
            BY <1>3, <4>2, <5>1
        <4> QED
          BY <4>1, <4>2
      <3> QED
        BY <3>1
    <2> HIDE DEF U, f
    <2> QED
      BY <2>1
  <1> HIDE DEF up
  <1>5. DOMAIN up = 0..K /\ \A n \in 0..K : up[n] = U(up)[n]
    BY <1>4
  <1> DEFINE bad == {n \in 0..K : up[n] # {}}
  <1>6. bad = {}
    <2> SUFFICES ASSUME bad # {} PROVE FALSE
      OBVIOUS
    <2> DEFINE m == Min(bad)
    <2>1. m \in bad /\ \A y \in bad : m <= y
      BY <1>1, MinOf
    <2> HIDE DEF m
    <2>2. CASE m = 0
      BY <1>1, <1>5, <2>1, <2>2
    <2>3. CASE m # 0
      <3>1. m \in 0..K /\ m - 1 \in 0..K /\ up[m - 1] = {}
        BY <1>1, <2>1, <2>3
      <3>2. up[m] = {}
        BY <1>3, <1>5, <2>3, <3>1
      <3> QED
        BY <2>1, <3>2
    <2> QED
      BY <2>2, <2>3
  <1> QED
    BY <1>1, <1>2, <1>6

(* The walk down the branches and the walk up the parents meet the same.    *)
LEMMA BelowIsOver ==
    ASSUME \A c \in DepartmentsNow : department[c].parent \in DepartmentsNow \cup {0},
           NEW d \in DepartmentsNow, NEW e \in DepartmentsNow
    PROVE  e \in Below(d) <=> d \in Over(e)
  <1>1. Closed(department, DepartmentsNow) /\ DepartmentsNow \subseteq Departments /\ 0 \notin DepartmentsNow
    BY OrganizationAssumption DEF Closed, DepartmentsNow
  <1>2. ASSUME NEW x \in DepartmentsNow
        PROVE  /\ x \in Over(x) /\ Over(x) \subseteq DepartmentsNow /\ Closed(department, Over(x))
               /\ \A S \in SUBSET DepartmentsNow : x \in S /\ Closed(department, S) => Over(x) \subseteq S
    <2>1. Over(x) = Climb(department, x)
      BY DEF Over, Climb
    <2> QED
      BY <1>1, <2>1, ClimbIs
  <1>3. ASSUME e \in Below(d) PROVE d \in Over(e)
    <2> DEFINE S == {c \in DepartmentsNow : d \in Over(c)}
    <2>1. ASSUME NEW c \in DepartmentsNow, department[c].parent \in S PROVE c \in S
      <3> DEFINE p == department[c].parent
      <3>1. p \in DepartmentsNow /\ p # 0 /\ d \in Over(p)
        BY <1>1, <2>1
      <3>2. p \in Over(c)
        BY <1>2, <3>1 DEF Closed
      <3>3. Over(p) \subseteq Over(c)
        BY <1>2, <3>1, <3>2
      <3> QED
        BY <3>1, <3>3
    <2>2. d \in S
      BY <1>2
    <2>3. Below(d) \subseteq S
      BY <2>1, <2>2, BelowIs
    <2> QED
      BY <1>3, <2>3
  <1>4. ASSUME d \in Over(e) PROVE e \in Below(d)
    <2> DEFINE S == {x \in DepartmentsNow : e \in Below(x)}
    <2>1. ASSUME NEW x \in S PROVE department[x].parent \in S \cup {0}
      <3> DEFINE p == department[x].parent
      <3>1. SUFFICES ASSUME p # 0 PROVE p \in S
        OBVIOUS
      <3>2. p \in DepartmentsNow /\ p \in Below(p)
        BY <3>1, BelowIs
      <3>3. x \in Below(p) /\ Below(x) \subseteq Below(p)
        BY <3>2, BelowIs
      <3> QED
        BY <3>2, <3>3
    <2>2. e \in S /\ Closed(department, S)
      BY <2>1, BelowIs DEF Closed
    <2>3. Over(e) \subseteq S
      BY <1>2, <2>2
    <2> QED
      BY <1>4, <2>3
  <1> QED
    BY <1>3, <1>4

(* One level more of the chain of managers of u.                            *)
Lengthened(u, c) == LET below == IF c = <<>> THEN u ELSE c[Len(c)]
                   m == employee[below].manager
               IN IF m = 0 THEN c ELSE Append(c, m)
Upward(u) == [c \in Seq(Staff) |-> Lengthened(u, c)]
WalksUp(f, u) == Repeats(f, Seq(Staff), <<>>, Upward(u), Level)

ManagersThere == \A v \in Staff : employee[v].manager \in Staff \cup {0}

(* One level more leads to somebody who is there.                           *)
LEMMA UpwardIs ==
    ASSUME ManagersThere, NEW u \in Staff
    PROVE  Upward(u) \in [Seq(Staff) -> Seq(Staff)]
  <1>1. ASSUME NEW c \in Seq(Staff) PROVE Lengthened(u, c) \in Seq(Staff)
    <2> DEFINE below == IF c = <<>> THEN u ELSE c[Len(c)]
               m == employee[below].manager
    <2>1. below \in Staff
      OBVIOUS
    <2>2. m \in Staff \cup {0}
      BY <2>1 DEF ManagersThere
    <2>3. Lengthened(u, c) = IF m = 0 THEN c ELSE Append(c, m)
      BY DEF Lengthened
    <2> HIDE DEF m
    <2> QED
      BY <2>2, <2>3
  <1> QED
    BY <1>1 DEF Upward

(* The chain of managers is where such a walk ends.                         *)
LEMMA ChainIs ==
    ASSUME ManagersThere, NEW u \in Staff
    PROVE  \E f : WalksUp(f, u) /\ ManagerChain(u) = f[Level]
  <1> DEFINE S == Seq(Staff)
             U(f) == [n \in 0..Level |-> IF n = 0 THEN <<>> ELSE Lengthened(u, f[n - 1])]
             up == CHOOSE f : f = U(f)
  <1>1. ManagerChain(u) = up[Level]
    BY DEF ManagerChain, Lengthened
  <1>2. Level \in Nat /\ <<>> \in S
    BY OrganizationAssumption
  <1>3. Upward(u) \in [S -> S] /\ \A c \in S : Upward(u)[c] = Lengthened(u, c)
    BY UpwardIs DEF Upward
  <1> HIDE DEF S
  <1>4. PICK f : Repeats(f, S, <<>>, Upward(u), Level)
    BY <1>2, <1>3, RepeatedExists
  <1>5. f = U(f)
    <2>1. ASSUME NEW n \in 0..Level PROVE f[n] = U(f)[n]
      <3>1. CASE n = 0
        BY <1>2, <1>4, <3>1 DEF Repeats
      <3>2. CASE n # 0
        <4>1. n \in 1..Level /\ n - 1 \in 0..Level
          BY <1>2, <3>2
        <4>2. f[n] = Upward(u)[f[n - 1]] /\ f[n - 1] \in S
          BY <1>4, <4>1 DEF Repeats
        <4> QED
          BY <1>3, <3>2, <4>1, <4>2
      <3> QED
        BY <3>1, <3>2
    <2> QED
      BY <1>4, <2>1 DEF Repeats
  <1>6. up = U(up)
    <2> HIDE DEF U
    <2> QED
      BY <1>5
  <1> HIDE DEF up
  <1>7. up = [n \in 0..Level |-> up[n]] /\ \A n \in 0..Level : up[n] = U(up)[n]
    BY <1>6
  <1>8. up[0] = <<>> /\ \A n \in 1..Level : up[n] = Lengthened(u, up[n - 1])
    <2>1. 0 \in 0..Level /\ \A n \in 1..Level : n \in 0..Level /\ n # 0
      BY <1>2
    <2> QED
      BY <1>7, <2>1
  <1> HIDE DEF U
  <1>9. \A n \in 0..Level : up[n] \in S
    <2> DEFINE x == <<>>
               go == Upward(u)
    <2>1. x \in S /\ up[0] = x /\ go \in [S -> S]
      BY <1>2, <1>3, <1>8
    <2>2. \A n \in 1..Level : up[n - 1] \in S => up[n] = go[up[n - 1]]
      BY <1>3, <1>8
    <2> HIDE DEF x, go
    <2> QED
      BY <1>2, <2>1, <2>2, RepeatedStays
  <1>10. Repeats(up, S, <<>>, Upward(u), Level)
    <2>1. \A n \in 1..Level : n - 1 \in 0..Level
      BY <1>2
    <2>2. up \in [0..Level -> S]
      BY <1>7, <1>9
    <2>3. \A n \in 1..Level : up[n] = Upward(u)[up[n - 1]]
      BY <1>3, <1>8, <1>9, <2>1
    <2> QED
      BY <1>8, <2>2, <2>3 DEF Repeats
  <1> QED
    BY <1>1, <1>10 DEF WalksUp, S

(* The chain grows by one each time, until it reaches one without manager.  *)
LEMMA ChainGrows ==
    ASSUME ManagersThere, NEW u \in Staff, NEW f, WalksUp(f, u), NEW k \in 0..Level
    PROVE  f[k] \in Seq(Staff) /\ Len(f[k]) <= k /\ (Len(f[k]) = k \/ Upward(u)[f[k]] = f[k])
  <1>0. Level \in Nat
    BY OrganizationAssumption
  <1>1. /\ Level \in Nat /\ \A n \in 0..Level : f[n] \in Seq(Staff)
        /\ f[0] = <<>> /\ \A n \in 1..Level : f[n] = Upward(u)[f[n - 1]]
    BY OrganizationAssumption DEF WalksUp, Repeats
  <1> DEFINE Fine(n) == Len(f[n]) <= n /\ (Len(f[n]) = n \/ Upward(u)[f[n]] = f[n])
             bad == {n \in 0..Level : ~Fine(n)}
  <1>2. bad = {}
    <2> SUFFICES ASSUME bad # {} PROVE FALSE
      OBVIOUS
    <2> DEFINE m == Min(bad)
    <2>0. bad \in SUBSET Nat
      BY <1>0
    <2>1. m \in bad /\ \A y \in bad : m <= y
      <3> HIDE DEF bad
      <3> QED
        BY <2>0, MinOf
    <2> HIDE DEF m
    <2>2. m # 0
      BY <1>1, <2>1
    <2>3. m \in 1..Level /\ m - 1 \in 0..Level /\ Fine(m - 1)
      <3>1. m \in 0..Level /\ m - 1 \in 0..Level /\ m - 1 \notin bad
        <4>1. m \in 0..Level
          BY <2>1
        <4>2. m - 1 \in 0..Level /\ ~(m <= m - 1)
          BY <1>0, <2>2, <4>1
        <4> HIDE DEF bad
        <4> QED
          BY <2>1, <4>1, <4>2
      <3> QED
        BY <1>0, <2>2, <3>1
    <2> DEFINE c == f[m - 1]
    <2>4. f[m] = Upward(u)[c] /\ c \in Seq(Staff)
      BY <1>1, <2>3
    <2>5. CASE Upward(u)[c] = c
      BY <1>1, <2>1, <2>3, <2>4, <2>5
    <2>6. CASE Upward(u)[c] # c
      <3>1. Len(c) = m - 1
        BY <2>3, <2>6
      <3>2. PICK x : f[m] = Append(c, x)
        BY <2>4, <2>6 DEF Upward, Lengthened
      <3>3. Len(f[m]) = m
        BY <2>3, <2>4, <3>1, <3>2
      <3> QED
        BY <2>1, <2>3, <3>3
    <2> QED
      BY <2>5, <2>6
  <1> QED
    BY <1>1, <1>2

(* The chain of v is his manager, followed by the chain of the manager.     *)
LEMMA ChainThrough ==
    ASSUME ManagersThere, NEW v \in Staff, NEW w \in Staff, employee[v].manager = w, w # 0,
           NEW f, WalksUp(f, v), NEW g, WalksUp(g, w)
    PROVE  \A n \in 1..Level : f[n] = <<w>> \o g[n - 1]
  <1>0. Level \in Nat
    BY OrganizationAssumption
  <1>1. /\ Level \in Nat
        /\ f[0] = <<>> /\ \A n \in 1..Level : f[n] = Upward(v)[f[n - 1]]
        /\ g[0] = <<>> /\ \A n \in 1..Level : g[n] = Upward(w)[g[n - 1]]
        /\ \A n \in 0..Level : g[n] \in Seq(Staff) /\ f[n] \in Seq(Staff)
    BY OrganizationAssumption DEF WalksUp, Repeats
  <1>2. ASSUME NEW c \in Seq(Staff) PROVE Upward(v)[<<w>> \o c] = <<w>> \o Upward(w)[c]
    <2> DEFINE d == <<w>> \o c
               last == IF c = <<>> THEN w ELSE c[Len(c)]
               m == employee[last].manager
    <2>1. d \in Seq(Staff) /\ d # <<>> /\ d[Len(d)] = last
      <3>1. CASE c = <<>>
        BY <3>1
      <3>2. CASE c # <<>>
        <4>1. Len(d) = Len(c) + 1 /\ Len(c) \in 1..Len(c) /\ d[Len(d)] = c[Len(c)]
          BY <3>2
        <4> QED
          BY <3>2, <4>1
      <3> QED
        BY <3>1, <3>2
    <2>2. Upward(w)[c] = IF m = 0 THEN c ELSE Append(c, m)
      BY DEF Upward, Lengthened
    <2>3. Upward(v)[d] = IF m = 0 THEN d ELSE Append(d, m)
      BY <2>1 DEF Upward, Lengthened
    <2>4. last \in Staff
      OBVIOUS
    <2>5. m \in Staff \cup {0}
      BY <2>4 DEF ManagersThere
    <2> HIDE DEF m, last
    <2>6. m # 0 => Append(d, m) = <<w>> \o Append(c, m)
      BY <2>5
    <2> QED
      BY <2>2, <2>3, <2>6
  <1> DEFINE bad == {n \in 1..Level : f[n] # <<w>> \o g[n - 1]}
  <1>3. bad = {}
    <2> SUFFICES ASSUME bad # {} PROVE FALSE
      OBVIOUS
    <2> DEFINE m == Min(bad)
    <2>0. bad \in SUBSET Nat
      BY <1>0
    <2>1. m \in bad /\ \A y \in bad : m <= y
      <3> HIDE DEF bad
      <3> QED
        BY <2>0, MinOf
    <2> HIDE DEF m
    <2>2. CASE m = 1
      <3>1. 1 \in 1..Level /\ f[1] = Upward(v)[<<>>] /\ g[0] = <<>> /\ f[0] = <<>>
        <4>1. 1 \in 1..Level /\ 1 - 1 = 0
          BY <1>0, <2>1, <2>2
        <4> QED
          BY <1>1, <4>1
      <3>2. Upward(v)[<<>>] = Append(<<>>, w)
        BY DEF Upward, Lengthened
      <3>3. <<w>> \o <<>> = Append(<<>>, w)
        OBVIOUS
      <3> QED
        BY <2>1, <2>2, <3>1, <3>2, <3>3, 1 - 1 = 0
    <2>3. CASE m # 1
      <3>1. m \in 1..Level /\ m - 1 \in 1..Level /\ m - 1 \notin bad /\ m - 1 - 1 \in 0..Level
        BY <1>0, <2>1, <2>3
      <3>2. f[m - 1] = <<w>> \o g[m - 1 - 1] /\ g[m - 1 - 1] \in Seq(Staff)
        BY <1>1, <3>1
      <3>3. f[m] = <<w>> \o Upward(w)[g[m - 1 - 1]]
        BY <1>1, <1>2, <3>1, <3>2
      <3>4. g[m - 1] = Upward(w)[g[m - 1 - 1]]
        BY <1>1, <3>1
      <3> QED
        BY <2>1, <3>3, <3>4
    <2> QED
      BY <2>2, <2>3
  <1> QED
    BY <1>3

(* One of the managers of v is u, and v and all in between are active.      *)
Under(u, v, c) ==
    \E n \in 1..Len(c) : c[n] = u /\ AllActive({v} \cup {c[k] : k \in 1..(n - 1)})
WorksUnder(u, v) == Under(u, v, ManagerChain(v))

(* Each in the chain of v is the manager of the one before.                 *)
Linked(v, c) == \A n \in 1..Len(c) : c[n] = employee[IF n = 1 THEN v ELSE c[n - 1]].manager

LEMMA ChainIsLinked ==
    ASSUME ManagersThere, NEW v \in Staff
    PROVE  ManagerChain(v) \in Seq(Staff) /\ Linked(v, ManagerChain(v))
  <1> DEFINE S == {c \in Seq(Staff) : Linked(v, c)}
             go == [c \in S |-> Lengthened(v, c)]
  <1>2. ASSUME NEW c \in S PROVE Lengthened(v, c) \in S
    <2> DEFINE below == IF c = <<>> THEN v ELSE c[Len(c)]
               m == employee[below].manager
    <2>1. Lengthened(v, c) \in Seq(Staff)
      <3>1. c \in Seq(Staff)
        OBVIOUS
      <3>2. Upward(v)[c] = Lengthened(v, c)
        BY <3>1 DEF Upward
      <3> QED
        BY <3>1, <3>2, UpwardIs
    <2>2. Lengthened(v, c) = IF m = 0 THEN c ELSE Append(c, m)
      BY DEF Lengthened
    <2>3. ASSUME NEW n \in 1..Len(Append(c, m))
          PROVE  Append(c, m)[n] = employee[IF n = 1 THEN v ELSE Append(c, m)[n - 1]].manager
      <3>1. CASE n \in 1..Len(c)
        <4>1. Append(c, m)[n] = c[n] /\ (n # 1 => Append(c, m)[n - 1] = c[n - 1])
          BY <3>1
        <4> QED
          BY <3>1, <4>1 DEF Linked
      <3>2. CASE n = Len(c) + 1
        <4>1. Append(c, m)[n] = m
          BY <3>2
        <4>2. n # 1 => c # <<>> /\ Append(c, m)[n - 1] = c[Len(c)]
          BY <3>2
        <4>3. n = 1 => c = <<>>
          BY <3>2
        <4> QED
          BY <4>1, <4>2, <4>3
      <3> QED
        BY <3>1, <3>2
    <2>4. Linked(v, Append(c, m))
      BY <2>3 DEF Linked
    <2> HIDE DEF m
    <2> QED
      BY <2>1, <2>2, <2>4
  <1>3. PICK f : WalksUp(f, v) /\ ManagerChain(v) = f[Level]
    BY ChainIs
  <1>4. Level \in Nat /\ f[0] = <<>> /\ <<>> \in S
    BY OrganizationAssumption, <1>3 DEF WalksUp, Repeats, Linked
  <1>5. \A n \in 1..Level : f[n] = Lengthened(v, f[n - 1])
    <2>1. ASSUME NEW n \in 1..Level PROVE f[n] = Lengthened(v, f[n - 1])
      <3>1. n - 1 \in 0..Level
        BY <1>4
      <3>2. f[n] = Upward(v)[f[n - 1]] /\ f[n - 1] \in Seq(Staff)
        BY <1>3, <3>1 DEF WalksUp, Repeats
      <3> QED
        BY <3>2 DEF Upward
    <2> QED
      BY <2>1
  <1>6. go \in [S -> S] /\ \A n \in 1..Level : f[n - 1] \in S => f[n] = go[f[n - 1]]
    <2> HIDE DEF S
    <2> QED
      BY <1>2, <1>5
  <1>7. f[Level] \in S
    <2> DEFINE x == <<>>
    <2>1. x \in S /\ f[0] = x
      BY <1>4
    <2> HIDE DEF S, go, x
    <2>2. \A n \in 0..Level : f[n] \in S
      BY <1>4, <1>6, <2>1, RepeatedStays
    <2> QED
      BY <1>4, <2>2
  <1> QED
    BY <1>3, <1>7

(* Whoever has v in his chain of managers, with all in between active, is   *)
(* led through others.                                                      *)
LEMMA ChainLeads ==
    ASSUME ManagersThere, 0 \notin Staff, NEW v \in Staff, NEW u \in Staff, u # v, WorksUnder(u, v)
    PROVE  v \in LedThrough(u)
  <1> DEFINE T == {x \in Staff : x = v \/ v \in LedThrough(x)}
             c == ManagerChain(v)
  <1>1. ASSUME NEW x \in T, employee[x].active, employee[x].manager # 0
        PROVE  employee[x].manager \in T
    <2> DEFINE m == employee[x].manager
    <2>1. m \in Staff /\ x \in ActiveLedBy(m)
      BY <1>1 DEF ManagersThere, LedBy, ActiveLedBy
    <2>2. x \in LedThrough(m) /\ ActiveLedBy(x) \subseteq LedThrough(m)
      BY <2>1, LedIs
    <2>3. LedThrough(x) \subseteq LedThrough(m)
      <3>1. LedThrough(m) \subseteq Staff /\ \A y \in LedThrough(m) : ActiveLedBy(y) \subseteq LedThrough(m)
        BY LedIs
      <3> QED
        BY <2>2, <3>1, LedIs
    <2> QED
      BY <2>1, <2>2, <2>3
  <1>2. v \in T
    OBVIOUS
  <1>3. c \in Seq(Staff) /\ Linked(v, c)
    BY ChainIsLinked
  <1>4. PICK n \in 1..Len(c) : c[n] = u /\ AllActive({v} \cup {c[k] : k \in 1..(n - 1)})
    BY DEF WorksUnder, Under
  <1> HIDE DEF T, c
  <1>5. Len(c) \in Nat /\ n \in Nat /\ \A k \in 1..Len(c) : c[k] \in Staff
    BY <1>3
  <1> DEFINE bad == {k \in 1..n : c[k] \notin T}
  <1>6. bad = {}
    <2> SUFFICES ASSUME bad # {} PROVE FALSE
      OBVIOUS
    <2> DEFINE m == Min(bad)
    <2>0. bad \in SUBSET Nat
      BY <1>5
    <2>1. m \in bad /\ \A y \in bad : m <= y
      <3> HIDE DEF bad
      <3> QED
        BY <2>0, MinOf
    <2> HIDE DEF m
    <2>2. m \in 1..Len(c) /\ m <= n /\ c[m] \in Staff
      BY <1>4, <1>5, <2>1
    <2>3. c[m] = employee[IF m = 1 THEN v ELSE c[m - 1]].manager /\ c[m] # 0
      BY <1>3, <2>2 DEF Linked
    <2>4. CASE m = 1
      <3>1. employee[v].active
        BY <1>4 DEF AllActive
      <3> QED
        BY <1>1, <1>2, <2>1, <2>3, <2>4, <3>1
    <2>5. CASE m # 1
      <3>1. m - 1 \in 1..n /\ m - 1 \in 1..(n - 1) /\ ~(m <= m - 1)
        BY <1>5, <2>2, <2>5
      <3>2. c[m - 1] \in T
        BY <2>1, <3>1
      <3>3. employee[c[m - 1]].active
        BY <1>4, <3>1 DEF AllActive
      <3> QED
        BY <1>1, <2>1, <2>3, <2>5, <3>2, <3>3
    <2> QED
      BY <2>4, <2>5
  <1>7. u \in T
    <2>1. n \in 1..n
      BY <1>4, <1>5
    <2> QED
      BY <1>4, <1>6, <2>1
  <1> QED
    BY <1>7 DEF T

(* Whoever is led by u through others is active and has u in his chain of   *)
(* managers, all in between active, but where that is as long as it is      *)
(* listed.                                                                  *)
LEMMA LedHasChain ==
    ASSUME ManagersThere, 0 \notin Staff, NEW u \in Staff, NEW v \in LedThrough(u)
    PROVE  employee[v].active /\ (WorksUnder(u, v) \/ Len(ManagerChain(v)) = Level)
  <1> DEFINE S == {x \in Staff : employee[x].active /\ (WorksUnder(u, x) \/ Len(ManagerChain(x)) = Level)}
  <1>0. Level \in Nat
    BY OrganizationAssumption
  <1>1. ASSUME NEW w \in Staff, NEW x \in ActiveLedBy(w), w = u \/ w \in S PROVE x \in S
    <2>1. x \in Staff /\ employee[x].manager = w /\ w # 0 /\ employee[x].active
      BY DEF ActiveLedBy, LedBy
    <2>2. PICK f : WalksUp(f, x) /\ ManagerChain(x) = f[Level]
      BY <2>1, ChainIs
    <2>3. PICK g : WalksUp(g, w) /\ ManagerChain(w) = g[Level]
      BY ChainIs
    <2>4. \A n \in 1..Level : f[n] = <<w>> \o g[n - 1]
      BY <2>1, <2>2, <2>3, ChainThrough
    <2>5. CASE Level = 0
      <3>1. ManagerChain(x) = <<>>
        BY <2>2, <2>5 DEF WalksUp, Repeats
      <3> QED
        BY <2>1, <2>5, <3>1
    <2>6. CASE Level # 0
      <3>1. Level \in 1..Level /\ Level - 1 \in 0..Level /\ Level \in 0..Level
        BY <1>0, <2>6
      <3> DEFINE c == g[Level - 1]
                 d == f[Level]
      <3>2. /\ c \in Seq(Staff) /\ Len(c) <= Level - 1
            /\ Len(c) = Level - 1 \/ Upward(w)[c] = c
        BY <2>3, <3>1, ChainGrows
      <3>3. d = <<w>> \o c /\ d = ManagerChain(x) /\ ManagerChain(w) = Upward(w)[c]
        BY <2>2, <2>3, <2>4, <3>1 DEF WalksUp, Repeats
      <3> HIDE DEF c, d
      <3>4. Len(d) = Len(c) + 1 /\ d[1] = w /\ 1 \in 1..Len(d) /\ \A n \in 1..Len(c) : d[n + 1] = c[n] /\ n + 1 \in 1..Len(d)
        BY <3>2, <3>3
      <3>5. CASE w = u
        <4>1. {d[k] : k \in 1..(1 - 1)} = {}
          OBVIOUS
        <4>2. AllActive({x} \cup {d[k] : k \in 1..(1 - 1)})
          BY <2>1, <4>1 DEF AllActive
        <4> QED
          <5>1. Under(u, x, d)
            BY <3>4, <3>5, <4>2 DEF Under
          <5> QED
            BY <2>1, <3>3, <5>1 DEF WorksUnder
      <3>6. CASE Len(c) = Level - 1
        BY <1>0, <2>1, <3>3, <3>4, <3>6
      <3>7. CASE w # u /\ Upward(w)[c] = c
        <4>1. ManagerChain(w) = c /\ w \in S
          BY <1>1, <3>3, <3>7
        <4>2. CASE WorksUnder(u, w)
          <5>1. PICK n \in 1..Len(c) : c[n] = u /\ AllActive({w} \cup {c[k] : k \in 1..(n - 1)})
            BY <4>1, <4>2 DEF WorksUnder, Under
          <5>2. ASSUME NEW k \in 1..((n + 1) - 1) PROVE employee[d[k]].active
            <6>1. CASE k = 1
              BY <3>4, <5>1, <6>1 DEF AllActive
            <6>2. CASE k # 1
              <7>1. k - 1 \in 1..Len(c) /\ k - 1 \in 1..(n - 1) /\ (k - 1) + 1 = k
                BY <6>2
              <7>2. d[k] = c[k - 1]
                BY <3>4, <7>1
              <7> QED
                BY <5>1, <7>1, <7>2 DEF AllActive
            <6> QED
              BY <6>1, <6>2
          <5>3. AllActive({x} \cup {d[k] : k \in 1..((n + 1) - 1)})
            BY <2>1, <5>2 DEF AllActive
          <5>4. n + 1 \in 1..Len(d) /\ d[n + 1] = u
            BY <3>4, <5>1
          <5>5. Under(u, x, d)
            BY <5>3, <5>4 DEF Under
          <5> QED
            BY <2>1, <3>3, <5>5 DEF WorksUnder
        <4>3. CASE Len(ManagerChain(w)) = Level
          BY <1>0, <3>2, <4>1, <4>3
        <4> QED
          BY <4>1, <4>2, <4>3
      <3> QED
        BY <3>2, <3>5, <3>6, <3>7
    <2> QED
      BY <2>5, <2>6
  <1>2. ActiveLedBy(u) \subseteq S /\ \A w \in S : ActiveLedBy(w) \subseteq S
    <2> HIDE DEF S
    <2>1. S \subseteq Staff
      BY DEF S
    <2> QED
      BY <1>1, <2>1
  <1>3. LedThrough(u) \subseteq S
    BY <1>2, LedIs
  <1> QED
    BY <1>3

(* A chain of managers has nobody in it who is not there.                   *)
LEMMA ChainIsStaff ==
    ASSUME \A v \in Staff : employee[v].manager \in Staff \cup {0}, NEW u \in Staff
    PROVE  ManagerChain(u) \in Seq(Staff)
  <1>1. PICK f : WalksUp(f, u) /\ ManagerChain(u) = f[Level]
    BY ChainIs DEF ManagersThere
  <1>2. Level \in 0..Level
    BY OrganizationAssumption
  <1> QED
    BY <1>1, <1>2 DEF WalksUp, Repeats

(* However requests overlap, nobody is his own manager, and whoever is in a *)
(* position, in a chain of managers or at the head of a department is       *)
(* there: the services ask, and the foreign keys ask again.                 *)
THEOREM NobodyLeadsFromOutside == OrganizationSpec => []PlacesAreFilled
  <1>1. OrganizationInv => PlacesAreFilled
    <2> SUFFICES ASSUME OrganizationInv PROVE PlacesAreFilled
      OBVIOUS
    <2>1. OrganizationTypeOK /\ OrganizationHolds
      BY DEF OrganizationInv
    <2>2. ASSUME NEW u \in Staff PROVE Position(u) \subseteq Staff \cup {0}
      <3>1. HeadOver(u) \in Staff \cup {0}
        BY <2>1 DEF HeadOver, OrganizationHolds
      <3>2. ManagerChain(u) \in Seq(Staff) /\ employee[u].manager \in Staff \cup {0}
        BY <2>1, ChainIsStaff DEF OrganizationHolds
      <3>3. \A n \in 1..Len(ManagerChain(u)) : ManagerChain(u)[n] \in Staff
        BY <3>2
      <3> QED
        BY <3>1, <3>2, <3>3 DEF Position
    <2> QED
      BY <2>1, <2>2 DEF PlacesAreFilled, OrganizationHolds
  <1> QED
    BY <1>1, OrganizationInvariant, PTL

(* One request at a time the departments have no loop: each is in the tree  *)
(* that build_department_tree shows.                                        *)
THEOREM TreesAreShownWhole == OrganizationSpec => []TreeIsShown
  <1>1. OrganizationInv => TreeIsShown
    BY DEF OrganizationInv, OneOfficer, TreeIsShown, InTree
  <1> QED
    BY <1>1, OrganizationInvariant, PTL

(* Places are filled by those that are there, however requests overlap, and *)
(* seen by all, as long as they do not.                                     *)
THEOREM OrganizationHoldsTogether == OrganizationSpec => []OrganizationIsSound
  BY NobodyLeadsFromOutside, TreesAreShownWhole, PTL DEF OrganizationIsSound

(* A team are those who have its leader above them, by their departments or *)
(* by managers, with nobody in between who was deactivated, loops or not,   *)
(* and active ones only whose chain of managers is cut off: the two walks   *)
(* down that collect_team_member_user_ids makes, and the two up of          *)
(* get_manager_chain and the departments, agree so far.                     *)
THEOREM TeamsAreBelow == OrganizationSpec => []TeamIsBelow
  <1>1. OrganizationInv => TeamIsBelow
    <2> SUFFICES ASSUME OrganizationInv, NEW u \in Staff, NEW v \in Staff \ {u}
                 PROVE  /\ WorksUnder(u, v) \/ (\E d \in Over(employee[v].dept) : department[d].head = u) => v \in Team(u)
                        /\ v \in Team(u) => \/ WorksUnder(u, v) \/ (\E d \in Over(employee[v].dept) : department[d].head = u)
                                           \/ (employee[v].active /\ Len(ManagerChain(v)) = Level)
      BY DEF TeamIsBelow, WorksUnder, Under
    <2>1. /\ ManagersThere /\ 0 \notin Staff /\ 0 \notin DepartmentsNow
          /\ \A c \in DepartmentsNow : department[c].parent \in DepartmentsNow \cup {0}
      BY OrganizationAssumption DEF OrganizationInv, OrganizationHolds, ManagersThere, Staff, DepartmentsNow
    <2> DEFINE e == employee[v].dept
    <2>2. e \in DepartmentsNow \cup {0}
      BY DEF OrganizationInv, OrganizationHolds
    <2>3. (\E d \in Over(e) : department[d].head = u) <=> \E d \in HeadedBy(u) : e \in Below(d)
      <3>1. CASE e = 0
        <4>1. \A d \in HeadedBy(u) : Below(d) \subseteq DepartmentsNow
          BY BelowIs DEF HeadedBy
        <4> QED
          BY <2>1, <3>1, <4>1, NoneOverNone
      <3>2. CASE e \in DepartmentsNow
        <4>1. Over(e) = Climb(department, e) /\ Over(e) \subseteq DepartmentsNow
          <5>1. Closed(department, DepartmentsNow) /\ DepartmentsNow \subseteq Departments
            BY <2>1 DEF Closed, DepartmentsNow
          <5>2. Over(e) = Climb(department, e)
            BY DEF Over, Climb
          <5> QED
            BY <3>2, <5>1, <5>2, ClimbIs
        <4>2. \A d \in DepartmentsNow : e \in Below(d) <=> d \in Over(e)
          BY <2>1, <3>2, BelowIsOver
        <4> QED
          BY <4>1, <4>2 DEF HeadedBy
      <3> QED
        BY <2>2, <3>1, <3>2
    <2>4. WorksUnder(u, v) => v \in LedThrough(u)
      BY <2>1, ChainLeads
    <2>5. v \in LedThrough(u) =>
            employee[v].active /\ (WorksUnder(u, v) \/ Len(ManagerChain(v)) = Level)
      BY <2>1, LedHasChain
    <2>6. v \in Team(u) <=> v \in LedThrough(u) \/ \E d \in HeadedBy(u) : e \in Below(d)
      BY DEF Team
    <2> HIDE DEF e
    <2> QED
      BY <2>3, <2>4, <2>5, <2>6 DEF e
  <1> QED
    BY <1>1, OrganizationInvariant, PTL

-----------------------------------------------------------------------------
(* The definitions of chains.                                               *)

(* One word more of a step: the role it stands for, unless it is found.     *)
Found(ids, r) == IF r \in {0} \cup ToSet(ids) THEN ids ELSE Append(ids, r)

(* The roles found for the words of a step are roles that the words stand   *)
(* for, and the first of them is that of the first word, if it has one.     *)
LEMMA RolesFound ==
    ASSUME NEW T, 0 \notin T, NEW f \in [Readings -> T \cup {0}], NEW aliases \in Seq(Words)
    PROVE  /\ RoleIdsFor(aliases, f) \in Seq(T)
           /\ aliases # <<>> /\ f[Folded[aliases[1]]] # 0 =>
                RoleIdsFor(aliases, f) # <<>> /\ RoleIdsFor(aliases, f)[1] = f[Folded[aliases[1]]]
  <1> DEFINE L == Len(aliases)
             U(g) == [n \in 0..Len(aliases) |->
                        IF n = 0 THEN <<>>
                        ELSE IF f[Folded[aliases[n]]] \in {0} \cup ToSet(g[n - 1]) THEN g[n - 1]
                        ELSE Append(g[n - 1], f[Folded[aliases[n]]])]
             ids == CHOOSE g : g = U(g)
  <1>1. RoleIdsFor(aliases, f) = ids[L]
    BY DEF RoleIdsFor
  <1>2. L \in Nat /\ \A n \in 1..L : f[Folded[aliases[n]]] \in T \cup {0}
    <2>1. \A w \in Words : Folded[w] \in Readings
      BY DEF Readings
    <2> QED
      BY <2>1
  <1> DEFINE r(n) == f[Folded[aliases[n]]]
  <1>3. \A n \in 1..L : \A s \in Seq(T) : Found(s, r(n)) \in Seq(T)
    <2>1. \A v \in T \cup {0} : \A s \in Seq(T) : Found(s, v) \in Seq(T)
      BY DEF Found
    <2>2. \A n \in 1..L : r(n) \in T \cup {0}
      BY <1>2
    <2> HIDE DEF r
    <2> QED
      BY <2>1, <2>2
  <1>4. ids = U(ids)
    <2> DEFINE by == [n \in 1..L |-> [s \in Seq(T) |-> Found(s, r(n))]]
    <2>1. by \in [1..L -> [Seq(T) -> Seq(T)]] /\ <<>> \in Seq(T)
      <3> HIDE DEF r
      <3> QED
        BY <1>3
    <2>2. PICK g : Grows(g, Seq(T), <<>>, by, L)
      <3> HIDE DEF by, L
      <3> QED
        BY <1>2, <2>1, GrownExists
    <2>3. g = U(g)
      <3>1. ASSUME NEW n \in 0..L PROVE g[n] = U(g)[n]
        <4>1. CASE n = 0
          BY <1>2, <2>2, <4>1 DEF Grows
        <4>2. CASE n # 0
          <5>1. n \in 1..L /\ n - 1 \in 0..L
            BY <1>2, <4>2
          <5>2. g[n] = Found(g[n - 1], r(n))
            BY <2>2, <5>1 DEF Grows
          <5> QED
            BY <4>2, <5>1, <5>2 DEF Found
        <4> QED
          BY <4>1, <4>2
      <3> QED
        BY <2>2, <3>1 DEF Grows
    <2> HIDE DEF U
    <2> QED
      BY <2>3
  <1> HIDE DEF ids
  <1>5. /\ ids[0] = <<>>
        /\ \A n \in 1..L : ids[n] = Found(ids[n - 1], r(n))
    <2>1. DOMAIN ids = 0..L /\ \A n \in 0..L : ids[n] = U(ids)[n]
      BY <1>4
    <2>2. 0 \in 0..L /\ \A n \in 1..L : n \in 0..L /\ n # 0
      BY <1>2
    <2>3. ids[0] = <<>>
      BY <2>1, <2>2
    <2>4. ASSUME NEW n \in 1..L PROVE ids[n] = Found(ids[n - 1], r(n))
      BY <2>1, <2>2 DEF Found
    <2> QED
      BY <2>3, <2>4
  <1> HIDE DEF U
  <1> DEFINE Fine(n) == ids[n] \in Seq(T) /\ (n # 0 /\ r(1) # 0 => ids[n] # <<>> /\ ids[n][1] = r(1))
  <1>6. \A n \in 0..L : Fine(n)
    <2> DEFINE bad == {n \in 0..L : ~Fine(n)}
    <2> SUFFICES ASSUME bad # {} PROVE FALSE
      OBVIOUS
    <2> DEFINE m == Min(bad)
    <2>9. bad \in SUBSET Nat /\ bad \subseteq 0..L
      BY <1>2
    <2>1. m \in bad /\ \A y \in bad : m <= y
      <3> HIDE DEF bad
      <3> QED
        BY <2>9, MinOf
    <2> HIDE DEF m
    <2>2. m # 0
      <3>1. Fine(0)
        BY <1>5
      <3> QED
        BY <2>1, <3>1
    <2>3. m - 1 \in 0..L /\ m - 1 \notin bad /\ m \in 1..L
      <3> HIDE DEF bad
      <3> QED
        BY <1>2, <2>1, <2>2, <2>9
    <2>4. Fine(m - 1) /\ ids[m] = Found(ids[m - 1], r(m))
      BY <1>5, <2>3
    <2> DEFINE s == ids[m - 1]
               t == ids[m]
               v == r(m)
               u == r(1)
    <2>5. s \in Seq(T) /\ t = Found(s, v) /\ v \in T \cup {0} /\ t \in Seq(T)
      BY <1>2, <1>3, <2>3, <2>4
    <2>6. CASE m = 1
      <3>1. s = <<>> /\ v = u /\ ToSet(s) = {}
        BY <1>5, <2>6 DEF ToSet
      <3>2. u # 0 => t = Append(<<>>, u)
        BY <2>5, <3>1 DEF Found
      <3>3. u # 0 => t # <<>> /\ t[1] = u
        BY <3>2
      <3> QED
        BY <2>1, <2>5, <3>3
    <2>7. CASE m # 1
      <3>1. m - 1 # 0
        BY <2>3, <2>7
      <3>2. u # 0 => s # <<>> /\ s[1] = u
        BY <2>4, <3>1
      <3>3. u # 0 => t # <<>> /\ t[1] = u
        <4> HIDE DEF s, t, u, v
        <4>1. CASE t = s
          BY <3>2, <4>1
        <4>2. CASE t = Append(s, v)
          BY <2>5, <3>2, <4>2
        <4> QED
          BY <2>5, <4>1, <4>2 DEF Found
      <3> QED
        BY <2>1, <2>5, <3>3
    <2> QED
      BY <2>6, <2>7
  <1> HIDE DEF Fine
  <1>7. Fine(L)
    BY <1>2, <1>6
  <1>8. aliases # <<>> => L # 0
    OBVIOUS
  <1> QED
    BY <1>1, <1>7, <1>8 DEF Fine

(* What a word stands for is a role whose name or label reads like it, when *)
(* there is one.                                                            *)
LEMMA WordStands ==
    ASSUME NEW f \in Dictionaries
    PROVE  /\ f \in [Readings -> Titled \cup {0}] /\ 0 \notin Titled
           /\ \A x \in Readings : RolesRead(x) # {} => f[x] \in RolesRead(x)
  <1> DEFINE called == [x \in Readings |-> IF RolesRead(x) = {} THEN {0} ELSE RolesRead(x)]
             All == UNION {called[x] : x \in Readings}
  <1>1. f \in [Readings -> All] /\ \A x \in Readings : f[x] \in called[x]
    BY DEF Dictionaries
  <1>2. \A x \in Readings : called[x] \subseteq Titled \cup {0}
    BY DEF RolesRead
  <1>3. 0 \notin Titled
    BY DefinitionsAssumption DEF Titled
  <1>4. \A x \in Readings : RolesRead(x) # {} => called[x] = RolesRead(x)
    OBVIOUS
  <1> HIDE DEF called
  <1> QED
    BY <1>1, <1>2, <1>3, <1>4

(* Roles have different names; and what a step of the stored definition     *)
(* asks for first is the name of the role that was chosen for it.           *)
NamesApart == \A q, r \in Titled : title[q].name = title[r].name => q = r
AsksByName ==
    \A k \in DOMAIN meant :
        meant[k] # 0 => /\ meant[k] \in Titled /\ saved[k].aliases # <<>>
                        /\ saved[k].aliases[1] = title[meant[k]].name
DefinitionsInv == RunsAsDefined /\ NamesApart /\ AsksByName

(* The roles of the words of a step, and the words they are stored by.      *)
LEMMA StoredWords ==
    ASSUME DefinitionsTypeOK, NEW f \in Dictionaries, NEW aliases \in Seq(Words)
    PROVE  /\ RoleIdsFor(aliases, f) \in Seq(Titled)
           /\ Canonical(aliases, f) \in Seq(Words)
           /\ RoleIdsFor(aliases, f) # <<>> =>
                /\ RoleIdsFor(aliases, f)[1] \in Titled
                /\ Canonical(aliases, f) # <<>>
                /\ Canonical(aliases, f)[1] = title[RoleIdsFor(aliases, f)[1]].name
  <1> DEFINE ids == RoleIdsFor(aliases, f)
             names == Canonical(aliases, f)
  <1>1. ids \in Seq(Titled)
    BY WordStands, RolesFound
  <1>2. \A r \in Titled : title[r].name \in Words
    BY DEF DefinitionsTypeOK, Titled, Words
  <1>3. names = [k \in 1..Len(ids) |-> title[ids[k]].name]
    BY <1>1 DEF Canonical
  <1> HIDE DEF ids, names
  <1>4. names \in Seq(Words)
    BY <1>1, <1>2, <1>3
  <1>5. ASSUME ids # <<>> PROVE ids[1] \in Titled /\ names # <<>> /\ names[1] = title[ids[1]].name
    <2>1. Len(ids) \in Nat /\ 1 \in 1..Len(ids)
      BY <1>1, <1>5
    <2>2. names[1] = title[ids[1]].name /\ DOMAIN names # {}
      BY <1>3, <2>1
    <2> QED
      BY <1>1, <1>3, <2>1, <2>2
  <1> QED
    BY <1>1, <1>4, <1>5 DEF ids, names

(* The first state: nothing is named, stored or running.                    *)
LEMMA DefinitionsStart == DefinitionsInit => DefinitionsInv
  <1> SUFFICES ASSUME DefinitionsInit PROVE DefinitionsInv
    OBVIOUS
  <1>1. DefinitionsTypeOK
    <2>1. saved = <<>> /\ meant = <<>> /\ Len(saved) = 0 /\ 0 <= MaxSteps
      BY DefinitionsAssumption DEF DefinitionsInit, NothingDefined
    <2> QED
      BY <2>1 DEF DefinitionsInit, NothingDefined, DefinitionsTypeOK
  <1>2. Titled = {}
    BY DEF DefinitionsInit, Titled
  <1>3. chain = {} /\ meant = <<>>
    BY DEF DefinitionsInit, NothingDefined
  <1> QED
    BY <1>1, <1>2, <1>3 DEF DefinitionsInv, RunsAsDefined, NamesApart, AsksByName

(* What is stored are the steps given, each with the names of its roles.    *)
LEMMA UpsertStep ==
    ASSUME DefinitionsInv, NEW n \in 1..MaxSteps, NEW raw \in [1..n -> StepRows],
           NEW f \in Dictionaries, UpsertDefinition(raw, f)
    PROVE  DefinitionsInv'
  <1> USE DefinitionsAssumption
  <1>1. PICK rows \in Normalized(raw) :
          /\ \A k \in DOMAIN rows : RoleIdsFor(rows[k].aliases, f) # <<>>
          /\ saved' = [k \in DOMAIN rows |-> [rows[k] EXCEPT !.aliases = Canonical(@, f), !.at = k]]
          /\ meant' = [k \in DOMAIN rows |-> RoleIdsFor(rows[k].aliases, f)[1]]
    BY DEF UpsertDefinition
  <1>2. /\ edited' = (chain # {}) /\ title' = title /\ holder' = holder /\ working' = working
        /\ lead' = lead /\ chain' = chain
    BY DEF UpsertDefinition, staffing
  <1>3. n \in Nat /\ DOMAIN rows = 1..n /\ \A k \in 1..n : rows[k] \in StepRows
    <2>1. DOMAIN raw = 1..n /\ n \in Nat
      OBVIOUS
    <2>2. PICK s \in [DOMAIN raw -> DOMAIN raw] : rows = [k \in DOMAIN raw |-> raw[s[k]]]
      BY DEF Normalized
    <2> QED
      BY <2>1, <2>2
  <1>4. ASSUME NEW k \in 1..n
        PROVE  /\ RoleIdsFor(rows[k].aliases, f)[1] \in Titled
               /\ Canonical(rows[k].aliases, f) \in Seq(Words)
               /\ Canonical(rows[k].aliases, f) # <<>>
               /\ Canonical(rows[k].aliases, f)[1] = title[RoleIdsFor(rows[k].aliases, f)[1]].name
    <2>1. rows[k].aliases \in Seq(Words) /\ RoleIdsFor(rows[k].aliases, f) # <<>>
      BY <1>1, <1>3 DEF StepRows
    <2> QED
      BY <2>1, StoredWords DEF DefinitionsInv, RunsAsDefined
  <1> DEFINE words(k) == Canonical(rows[k].aliases, f)
             first(k) == RoleIdsFor(rows[k].aliases, f)[1]
             new(k) == [rows[k] EXCEPT !.aliases = words(k), !.at = k]
  <1>5. saved' = [k \in 1..n |-> new(k)] /\ meant' = [k \in 1..n |-> first(k)]
    BY <1>1, <1>3
  <1>6. \A k \in 1..n : first(k) \in Titled /\ words(k) \in Seq(Words) /\ words(k) # <<>> /\ words(k)[1] = title[first(k)].name
    BY <1>4
  <1> HIDE DEF words, first
  <1>7. \A k \in 1..n : new(k) \in StepRows /\ new(k).aliases = words(k)
    <2> SUFFICES ASSUME NEW k \in 1..n PROVE new(k) \in StepRows /\ new(k).aliases = words(k)
      OBVIOUS
    <2> DEFINE s == rows[k]
               w == words(k)
    <2>1. s \in StepRows /\ w \in Seq(Words) /\ k \in Nat
      BY <1>3, <1>6
    <2>2. new(k) = [s EXCEPT !.aliases = w, !.at = k]
      OBVIOUS
    <2> HIDE DEF s, w, new
    <2>3. new(k) \in StepRows /\ new(k).aliases = w
      BY <2>1, <2>2 DEF StepRows
    <2> QED
      BY <2>3 DEF w
  <1> HIDE DEF new
  <1>8. Titled' = Titled /\ Titled \subseteq RoleIds
    BY <1>2 DEF Titled
  <1>9. /\ saved' \in Seq(StepRows) /\ Len(saved') = n
        /\ meant' \in Seq(RoleIds \cup {0}) /\ Len(meant') = n
    <2>1. n \in Nat /\ \A k \in 1..n : new(k) \in StepRows /\ first(k) \in RoleIds \cup {0}
      BY <1>3, <1>6, <1>7, <1>8
    <2>2. saved' \in Seq(StepRows) /\ Len(saved') = n
      BY <1>5, <2>1
    <2>3. meant' \in Seq(RoleIds \cup {0}) /\ Len(meant') = n
      BY <1>5, <2>1
    <2> QED
      BY <2>2, <2>3
  <1>10. n <= MaxSteps
    OBVIOUS
  <1>11. DefinitionsTypeOK'
    BY <1>2, <1>9, <1>10 DEF DefinitionsInv, RunsAsDefined, DefinitionsTypeOK
  <1>12. RunsAsDefined'
    BY <1>2, <1>11 DEF RunsAsDefined
  <1>13. NamesApart'
    BY <1>2, <1>8 DEF DefinitionsInv, NamesApart
  <1>14. AsksByName'
    <2>1. DOMAIN meant' = 1..n
      BY <1>5
    <2>2. \A k \in 1..n : meant'[k] = first(k) /\ saved'[k].aliases = words(k)
      BY <1>5, <1>7
    <2> QED
      BY <1>2, <1>6, <1>8, <2>1, <2>2 DEF AsksByName
  <1> QED
    BY <1>12, <1>13, <1>14 DEF DefinitionsInv

(* A role takes a name that no other has: what was chosen for a step stays, *)
(* or is forgotten with the name.                                           *)
LEMMA NameStep ==
    ASSUME DefinitionsInv, NEW r \in RoleIds, NEW name \in Names, NEW label \in Words, NameRole(r, name, label)
    PROVE  DefinitionsInv'
  <1> USE DefinitionsAssumption
  <1> DEFINE new == [name |-> name, label |-> label]
  <1>1. /\ title' = [title EXCEPT ![r] = new]
        /\ \A q \in Titled \ {r} : title[q].name # name
        /\ meant' = IF name = title[r].name THEN meant
                    ELSE [k \in DOMAIN meant |-> IF meant[k] = r THEN 0 ELSE meant[k]]
    BY DEF NameRole
  <1>2. holder' = holder /\ working' = working /\ lead' = lead /\ saved' = saved /\ chain' = chain /\ edited' = edited
    BY DEF NameRole, staffing
  <1>3. DefinitionsTypeOK /\ title \in [RoleIds -> [name : Names, label : Words] \cup {Untitled}]
    BY DEF DefinitionsInv, RunsAsDefined, DefinitionsTypeOK
  <1>4. new # Untitled /\ new \in [name : Names, label : Words] /\ new.name = name /\ new.label = label
    BY DEF Untitled
  <1> HIDE DEF new
  <1>5. /\ title'[r] = new /\ \A q \in RoleIds \ {r} : title'[q] = title[q]
        /\ title' \in [RoleIds -> [name : Names, label : Words] \cup {Untitled}]
    BY <1>1, <1>3, <1>4
  <1>6. r \in Titled' /\ \A q \in RoleIds \ {r} : q \in Titled' <=> q \in Titled
    BY <1>4, <1>5 DEF Titled
  <1>7. meant \in Seq(RoleIds \cup {0}) /\ Len(meant) = Len(saved)
    BY <1>3 DEF DefinitionsTypeOK
  <1>8. /\ meant' \in Seq(RoleIds \cup {0}) /\ Len(meant') = Len(meant)
        /\ DOMAIN meant' = DOMAIN meant
        /\ \A k \in DOMAIN meant : meant'[k] # 0 => meant'[k] = meant[k] /\ (meant[k] = r => name = title[r].name)
    <2>1. CASE name = title[r].name
      BY <1>1, <1>7, <2>1
    <2>2. CASE name # title[r].name
      <3> DEFINE m(k) == IF meant[k] = r THEN 0 ELSE meant[k]
      <3>1. meant' = [k \in 1..Len(meant) |-> m(k)] /\ \A k \in 1..Len(meant) : m(k) \in RoleIds \cup {0}
        BY <1>1, <1>7, <2>2
      <3>2. \A k \in DOMAIN meant : m(k) # 0 => m(k) = meant[k] /\ meant[k] # r
        BY <1>7
      <3>3. Len(meant) \in Nat /\ DOMAIN meant = 1..Len(meant)
        BY <1>7
      <3> HIDE DEF m
      <3> QED
        BY <3>1, <3>2, <3>3
    <2> QED
      BY <2>1, <2>2
  <1>9. DefinitionsTypeOK'
    BY <1>2, <1>3, <1>5, <1>7, <1>8 DEF DefinitionsTypeOK
  <1>10. RunsAsDefined'
    BY <1>2, <1>9 DEF DefinitionsInv, RunsAsDefined, StepConfigAtOrder, StepsConfig
  <1>11. NamesApart'
    <2> SUFFICES ASSUME NEW p \in Titled', NEW q \in Titled', title'[p].name = title'[q].name PROVE p = q
      BY DEF NamesApart
    <2>1. p \in RoleIds /\ q \in RoleIds
      BY DEF Titled
    <2> QED
      BY <1>1, <1>4, <1>5, <1>6, <2>1 DEF DefinitionsInv, NamesApart
  <1>13. AsksByName'
    <2> SUFFICES ASSUME NEW k \in DOMAIN meant', meant'[k] # 0
                 PROVE  /\ meant'[k] \in Titled' /\ saved'[k].aliases # <<>>
                        /\ saved'[k].aliases[1] = title'[meant'[k]].name
      BY DEF AsksByName
    <2>1. k \in DOMAIN meant /\ meant'[k] = meant[k] /\ (meant[k] = r => name = title[r].name)
      BY <1>8
    <2>2. meant[k] \in Titled /\ saved[k].aliases # <<>> /\ saved[k].aliases[1] = title[meant[k]].name
      BY <2>1 DEF DefinitionsInv, AsksByName
    <2>3. meant[k] \in RoleIds
      BY <2>2 DEF Titled
    <2>4. title'[meant[k]].name = title[meant[k]].name /\ meant[k] \in Titled'
      BY <1>4, <1>5, <1>6, <2>1, <2>2, <2>3
    <2> QED
      BY <1>2, <2>1, <2>2, <2>4
  <1> QED
    BY <1>10, <1>11, <1>13 DEF DefinitionsInv

(* A role that is deleted is nobody's, and no step's.                       *)
LEMMA RemoveStep ==
    ASSUME DefinitionsInv, NEW r \in RoleIds, RemoveRole(r)
    PROVE  DefinitionsInv'
  <1> USE DefinitionsAssumption
  <1>1. /\ title' = [title EXCEPT ![r] = Untitled] /\ holder' = {h \in holder : h[2] # r}
        /\ meant' = [k \in DOMAIN meant |-> IF meant[k] = r THEN 0 ELSE meant[k]]
    BY DEF RemoveRole
  <1>2. working' = working /\ lead' = lead /\ saved' = saved /\ chain' = chain /\ edited' = edited
    BY DEF RemoveRole
  <1>3. DefinitionsTypeOK /\ title \in [RoleIds -> [name : Names, label : Words] \cup {Untitled}]
    BY DEF DefinitionsInv, RunsAsDefined, DefinitionsTypeOK
  <1>5. /\ title'[r] = Untitled /\ \A q \in RoleIds \ {r} : title'[q] = title[q]
        /\ title' \in [RoleIds -> [name : Names, label : Words] \cup {Untitled}]
    BY <1>1, <1>3
  <1>6. Titled' = Titled \ {r} /\ Titled \subseteq RoleIds
    BY <1>5 DEF Titled
  <1>7. meant \in Seq(RoleIds \cup {0}) /\ Len(meant) = Len(saved) /\ DOMAIN meant = 1..Len(meant)
    BY <1>3 DEF DefinitionsTypeOK
  <1>8. /\ meant' \in Seq(RoleIds \cup {0}) /\ Len(meant') = Len(meant)
        /\ DOMAIN meant' = DOMAIN meant
        /\ \A k \in DOMAIN meant : meant'[k] # 0 => meant'[k] = meant[k] /\ meant[k] # r
    <2> DEFINE m(k) == IF meant[k] = r THEN 0 ELSE meant[k]
    <2>1. meant' = [k \in 1..Len(meant) |-> m(k)] /\ \A k \in 1..Len(meant) : m(k) \in RoleIds \cup {0}
      BY <1>1, <1>7
    <2>2. \A k \in DOMAIN meant : m(k) # 0 => m(k) = meant[k] /\ meant[k] # r
      BY <1>7
    <2>3. Len(meant) \in Nat
      BY <1>7
    <2> HIDE DEF m
    <2> QED
      BY <1>7, <2>1, <2>2, <2>3
  <1>9. DefinitionsTypeOK'
    <2>1. holder' \subseteq Persons \X RoleIds
      BY <1>1, <1>3 DEF DefinitionsTypeOK
    <2> QED
      BY <1>2, <1>3, <1>5, <1>7, <1>8, <2>1 DEF DefinitionsTypeOK
  <1>10. RunsAsDefined'
    BY <1>2, <1>9 DEF DefinitionsInv, RunsAsDefined, StepConfigAtOrder, StepsConfig
  <1>11. \A q \in Titled' : q \in Titled /\ title'[q] = title[q]
    BY <1>5, <1>6
  <1>12. NamesApart'
    BY <1>11 DEF DefinitionsInv, NamesApart
  <1>13. AsksByName'
    <2> SUFFICES ASSUME NEW k \in DOMAIN meant', meant'[k] # 0
                 PROVE  /\ meant'[k] \in Titled' /\ saved'[k].aliases # <<>>
                        /\ saved'[k].aliases[1] = title'[meant'[k]].name
      BY DEF AsksByName
    <2>1. k \in DOMAIN meant /\ meant'[k] = meant[k] /\ meant[k] # r
      BY <1>8
    <2>2. meant[k] \in Titled /\ saved[k].aliases # <<>> /\ saved[k].aliases[1] = title[meant[k]].name
      BY <2>1 DEF DefinitionsInv, AsksByName
    <2>3. meant[k] \in Titled' /\ title'[meant[k]] = title[meant[k]]
      BY <1>6, <1>11, <2>1, <2>2
    <2> QED
      BY <1>2, <2>1, <2>2, <2>3
  <1> QED
    BY <1>10, <1>12, <1>13 DEF DefinitionsInv

(* What is said of names, words and steps that run is not about who works   *)
(* where.                                                                   *)
LEMMA RestaffStep ==
    ASSUME DefinitionsInv, Restaff
    PROVE  DefinitionsInv'
  <1>1. title' = title /\ saved' = saved /\ meant' = meant /\ chain' = chain /\ edited' = edited
    BY DEF Restaff
  <1>2. DefinitionsTypeOK
    BY DEF DefinitionsInv, RunsAsDefined
  <1>3. Titled' = Titled /\ Titled \subseteq RoleIds
    BY <1>1 DEF Titled
  <1>4. holder' \subseteq Persons \X RoleIds /\ working' \subseteq Persons
        /\ lead' \in [manager : Persons \cup {0}, head : Persons \cup {0}]
    <2>1. CASE \E p \in Persons, r \in Titled : holder' = SymDiff(holder, {<<p, r>>}) /\ UNCHANGED <<working, lead>>
      BY <1>2, <1>3, <2>1 DEF DefinitionsTypeOK, SymDiff
    <2>2. CASE \E p \in Persons : working' = SymDiff(working, {p}) /\ UNCHANGED <<holder, lead>>
      BY <1>2, <2>2 DEF DefinitionsTypeOK, SymDiff
    <2>3. CASE \E p \in Persons \cup {0} : /\ lead' \in {[lead EXCEPT !.manager = p], [lead EXCEPT !.head = p]}
                                           /\ UNCHANGED <<holder, working>>
      BY <1>2, <2>3 DEF DefinitionsTypeOK
    <2> QED
      BY <2>1, <2>2, <2>3 DEF Restaff
  <1>5. DefinitionsTypeOK'
    BY <1>1, <1>2, <1>4 DEF DefinitionsTypeOK
  <1>6. RunsAsDefined'
    BY <1>1, <1>5 DEF DefinitionsInv, RunsAsDefined, StepConfigAtOrder, StepsConfig
  <1>7. NamesApart' /\ AsksByName'
    BY <1>1, <1>3 DEF DefinitionsInv, NamesApart, AsksByName
  <1> QED
    BY <1>6, <1>7 DEF DefinitionsInv

(* What is stored, or else the default, is a sequence of steps.             *)
LEMMA ConfigTyped ==
    ASSUME DefinitionsTypeOK
    PROVE  /\ StepsConfig \in Seq(StepRows) /\ StepsConfig # <<>> /\ 1 \in DOMAIN StepsConfig
           /\ \A k \in DOMAIN StepsConfig : StepsConfig[k].aliases \in Seq(Words)
           /\ ToAsk \subseteq DOMAIN StepsConfig
  <1>1. StepsConfig \in Seq(StepRows) /\ StepsConfig # <<>>
    BY DefinitionsAssumption DEF DefinitionsTypeOK, StepsConfig
  <1> DEFINE config == StepsConfig
  <1>2. \A k \in DOMAIN config : config[k] \in StepRows
    BY <1>1
  <1>3. \A k \in DOMAIN config : config[k].aliases \in Seq(Words)
    BY <1>2 DEF StepRows
  <1>4. 1 \in DOMAIN config
    BY <1>1
  <1> QED
    BY <1>1, <1>3, <1>4 DEF ToAsk

(* The steps of a chain that starts are steps of the definition, by their   *)
(* numbers, and ask persons by their roles.                                 *)
LEMMA StartStep ==
    ASSUME DefinitionsInv, NEW f \in Dictionaries, NEW override \in Persons \cup {0}, StartChain(f, override)
    PROVE  DefinitionsInv'
  <1>1. /\ title' = title /\ holder' = holder /\ working' = working /\ lead' = lead
        /\ saved' = saved /\ meant' = meant /\ chain' \in StepsMade(f, override)
    BY DEF StartChain, staffing
  <1>2. DefinitionsTypeOK
    BY DEF DefinitionsInv, RunsAsDefined
  <1> DEFINE ids(k) == RoleIdsFor(StepsConfig[k].aliases, f)
             asked(k) == Assignees(StepsConfig[k], ids(k), IF k = 1 THEN override ELSE 0)
             made(k, p) == [order |-> k, role |-> ids(k)[1], who |-> p, does |-> StepsConfig[k].does]
             choices == {b \in [ToAsk -> Persons] : \A k \in ToAsk : b[k] \in asked(k)}
  <1>3. StepsMade(f, override) = IF ToAsk = {} \/ \E k \in ToAsk : ids(k) = <<>> THEN {}
                                 ELSE {{made(k, a[k]) : k \in ToAsk} : a \in choices}
    BY DEF StepsMade
  <1>4. \A k \in ToAsk : ids(k) # <<>>
    BY <1>1, <1>3
  <1>5. PICK a \in choices : chain' = {made(k, a[k]) : k \in ToAsk}
    BY <1>1, <1>3
  <1>6. a \in [ToAsk -> Persons]
    OBVIOUS
  <1>7. \A k \in ToAsk : k \in DOMAIN StepsConfig /\ StepsConfig[k].aliases \in Seq(Words)
    BY <1>2, ConfigTyped
  <1>8. \A k \in ToAsk : ids(k)[1] \in Titled
    BY <1>2, <1>4, <1>7, StoredWords
  <1>9. Titled \subseteq RoleIds
    BY DEF Titled
  <1> HIDE DEF ids
  <1>10. \A s \in chain' : /\ s.role \in RoleIds /\ s.who \in Persons
                           /\ s.order \in DOMAIN StepsConfig /\ s.does = StepsConfig[s.order].does
    BY <1>5, <1>6, <1>7, <1>8, <1>9
  <1>11. StepsConfig' = StepsConfig
    BY <1>1 DEF StepsConfig
  <1>12. DefinitionsTypeOK'
    BY <1>1, <1>2, <1>10 DEF DefinitionsTypeOK
  <1>13. RunsAsDefined'
    BY <1>10, <1>11, <1>12 DEF RunsAsDefined, StepConfigAtOrder
  <1>14. NamesApart' /\ AsksByName'
    BY <1>1 DEF DefinitionsInv, NamesApart, AsksByName, Titled
  <1> QED
    BY <1>13, <1>14 DEF DefinitionsInv

(* Every step of definitions keeps the invariant.                           *)
LEMMA DefinitionsKept ==
    ASSUME DefinitionsInv, [DefinitionsNext]_definitionsVars
    PROVE  DefinitionsInv'
  <1>1. CASE \E n \in 1..MaxSteps : \E raw \in [1..n -> StepRows], f \in Dictionaries : UpsertDefinition(raw, f)
    BY <1>1, UpsertStep
  <1>2. CASE DeleteDefinition
    <2>1. /\ saved' = <<>> /\ meant' = <<>> /\ edited' = (chain # {}) /\ chain' = chain
          /\ title' = title /\ holder' = holder /\ working' = working /\ lead' = lead
      BY <1>2 DEF DeleteDefinition, staffing
    <2>2. 0 <= MaxSteps
      BY DefinitionsAssumption
    <2>3. DefinitionsTypeOK'
      BY <2>1, <2>2 DEF DefinitionsInv, RunsAsDefined, DefinitionsTypeOK
    <2>4. RunsAsDefined'
      BY <2>1, <2>3 DEF RunsAsDefined
    <2>5. NamesApart' /\ AsksByName'
      BY <2>1 DEF DefinitionsInv, NamesApart, AsksByName, Titled
    <2> QED
      BY <2>4, <2>5 DEF DefinitionsInv
  <1>3. CASE \E r \in RoleIds, name \in Names, label \in Words : NameRole(r, name, label)
    BY <1>3, NameStep
  <1>4. CASE \E r \in RoleIds : RemoveRole(r)
    BY <1>4, RemoveStep
  <1>5. CASE Restaff
    BY <1>5, RestaffStep
  <1>6. CASE \E f \in Dictionaries, p \in Persons \cup {0} : StartChain(f, p)
    BY <1>6, StartStep
  <1>7. CASE EndChain
    <2>1. /\ chain' = {} /\ title' = title /\ holder' = holder /\ working' = working
          /\ lead' = lead /\ saved' = saved /\ meant' = meant
      BY <1>7 DEF EndChain, staffing
    <2>2. DefinitionsTypeOK'
      BY <2>1 DEF DefinitionsInv, RunsAsDefined, DefinitionsTypeOK
    <2>3. RunsAsDefined'
      BY <2>1, <2>2 DEF RunsAsDefined
    <2>4. NamesApart' /\ AsksByName'
      BY <2>1 DEF DefinitionsInv, NamesApart, AsksByName, Titled
    <2> QED
      BY <2>3, <2>4 DEF DefinitionsInv
  <1>8. CASE UNCHANGED definitionsVars
    <2>1. /\ title' = title /\ holder' = holder /\ working' = working /\ lead' = lead
          /\ saved' = saved /\ meant' = meant /\ chain' = chain /\ edited' = edited
      BY <1>8 DEF definitionsVars
    <2>2. DefinitionsTypeOK' /\ StepsConfig' = StepsConfig /\ Titled' = Titled
      BY <2>1 DEF DefinitionsInv, RunsAsDefined, DefinitionsTypeOK, StepsConfig, Titled
    <2> QED
      BY <2>1, <2>2 DEF DefinitionsInv, RunsAsDefined, StepConfigAtOrder, NamesApart, AsksByName
  <1> QED
    BY <1>1, <1>2, <1>3, <1>4, <1>5, <1>6, <1>7, <1>8 DEF DefinitionsNext

(* The invariant of definitions, from which the three theorems below come.  *)
THEOREM DefinitionsInvariant == DefinitionsSpec => []DefinitionsInv
  <1>1. DefinitionsInv /\ [DefinitionsNext]_definitionsVars => DefinitionsInv'
    BY DefinitionsKept
  <1> QED
    BY DefinitionsStart, <1>1, PTL DEF DefinitionsSpec

(* A running step finds its own configuration by its number, though steps   *)
(* before it were skipped, as long as nobody edits the definition.          *)
THEOREM StepsFindTheirOwn == DefinitionsSpec => []RunsAsDefined
  <1>1. DefinitionsInv => RunsAsDefined
    BY DEF DefinitionsInv
  <1> QED
    BY DefinitionsInvariant, <1>1, PTL

(* A step of a stored definition asks for the role that was chosen for it,  *)
(* or for one whose name or label has come to read like its name, however   *)
(* roles are named and labelled after, and never for none.                  *)
THEOREM WordsAreKept == DefinitionsSpec => []WordsKeepTheirRole
  <1>1. DefinitionsInv => WordsKeepTheirRole
    <2> DEFINE alike(k) == RolesRead(Folded[title[meant[k]].name])
    <2> SUFFICES ASSUME DefinitionsInv, NEW k \in DOMAIN saved, NEW f \in Dictionaries, meant[k] # 0
                 PROVE  /\ RoleIdsFor(saved[k].aliases, f) # <<>>
                        /\ RoleIdsFor(saved[k].aliases, f)[1] \in alike(k)
      BY DEF WordsKeepTheirRole
    <2> DEFINE aliases == saved[k].aliases
               r == meant[k]
               name == title[r].name
    <2>1. DefinitionsTypeOK
      BY DEF DefinitionsInv, RunsAsDefined
    <2>2. k \in DOMAIN meant /\ saved[k] \in StepRows
      BY <2>1 DEF DefinitionsTypeOK
    <2>3. r \in Titled /\ aliases # <<>> /\ aliases[1] = name /\ aliases \in Seq(Words)
      BY <2>2 DEF DefinitionsInv, AsksByName, StepRows
    <2>4. name \in Words /\ Folded[name] \in Readings
      <3>1. name \in Words
        BY <2>1, <2>3 DEF DefinitionsTypeOK, Titled, Words
      <3> QED
        BY <3>1 DEF Readings
    <2>5. r \in RolesRead(Folded[name])
      BY <2>3 DEF RolesRead
    <2>6. f[Folded[name]] \in RolesRead(Folded[name])
      BY <2>4, <2>5, WordStands
    <2>7. /\ f \in [Readings -> Titled \cup {0}] /\ 0 \notin Titled
          /\ RolesRead(Folded[name]) \subseteq Titled
      BY WordStands DEF RolesRead
    <2> HIDE DEF aliases, r, name
    <2>8. RoleIdsFor(aliases, f) # <<>> /\ RoleIdsFor(aliases, f)[1] = f[Folded[name]]
      BY <2>3, <2>6, <2>7, RolesFound
    <2> QED
      BY <2>5, <2>6, <2>8 DEF aliases, r, name
  <1> QED
    BY DefinitionsInvariant, <1>1, PTL

(* Whoever is asked in a step is a person; and if there is somebody for a   *)
(* step when nobody is named for it, there is somebody when one is, unless  *)
(* the step names a person itself.                                          *)
LEMMA SomebodyIsAsked ==
    ASSUME DefinitionsTypeOK, NEW s \in StepRows, NEW ids \in Seq(Titled), NEW override \in Persons \cup {0}
    PROVE  /\ Assignees(s, ids, override) \subseteq Persons
           /\ s.strategy # "fixed_user" \/ override = 0 =>
                (Assignees(s, ids, 0) # {} => Assignees(s, ids, override) # {})
  <1> DEFINE first(o) == {k \in DOMAIN ids : /\ Offered(ids[k], o) # {}
                                             /\ \A j \in 1..(k - 1) : Offered(ids[j], o) = {}}
             pool(o) == UNION {Offered(ids[k], o) : k \in first(o)}
             fixed(o) == {p \in {IF o = 0 THEN s.fixed ELSE o} \cap working : Holds(p, ids)}
  <1>1. /\ s.strategy \in {"submitter_manager", "department_head"} => \A o : Assignees(s, ids, o) = ContextUser(s)
        /\ s.strategy = "fixed_user" => \A o : Assignees(s, ids, o) = fixed(o)
        /\ s.strategy = "role_pool" => \A o : Assignees(s, ids, o) = pool(o)
    BY DEF Assignees
  <1>2. s.strategy \in {"submitter_manager", "department_head", "fixed_user", "role_pool"}
    BY DEF StepRows, Strategies
  <1>3. working \subseteq Persons /\ holder \subseteq Persons \X RoleIds
    BY DEF DefinitionsTypeOK
  <1>4. \A r, o : Offered(r, o) \subseteq Persons
    BY <1>3 DEF Offered
  <1>5. \A r : Offered(r, 0) # {} => Offered(r, override) # {}
    <2>1. 0 \notin Persons
      BY DefinitionsAssumption
    <2> QED
      BY <1>3, <2>1 DEF Offered
  <1>6. fixed(override) \subseteq Persons /\ pool(override) \subseteq Persons /\ ContextUser(s) \subseteq Persons
    BY <1>3, <1>4 DEF ContextUser
  <1>7. ASSUME pool(0) # {} PROVE pool(override) # {}
    <2>1. PICK k \in DOMAIN ids : Offered(ids[k], 0) # {}
      BY <1>7
    <2> DEFINE some == {j \in DOMAIN ids : Offered(ids[j], override) # {}}
    <2>2. some # {} /\ some \subseteq DOMAIN ids
      BY <1>5, <2>1
    <2>3. DOMAIN ids = 1..Len(ids) /\ Len(ids) \in Nat
      OBVIOUS
    <2>4. some \in SUBSET Nat
      BY <2>2, <2>3
    <2> DEFINE m == Min(some)
    <2>5. m \in some /\ \A y \in some : m <= y
      <3> HIDE DEF some
      <3> QED
        BY <2>2, <2>4, MinOf
    <2> HIDE DEF m
    <2>6. m \in DOMAIN ids /\ Offered(ids[m], override) # {}
      BY <2>5
    <2>7. ASSUME NEW j \in 1..(m - 1) PROVE Offered(ids[j], override) = {}
      <3>1. j \in DOMAIN ids /\ ~(m <= j)
        BY <2>3, <2>6
      <3> QED
        BY <2>5, <3>1
    <2>8. m \in first(override)
      BY <2>6, <2>7
    <2> QED
      BY <2>6, <2>8
  <1> HIDE DEF pool, fixed
  <1> QED
    BY <1>1, <1>2, <1>6, <1>7

(* What the forms ask before they store anything is enough to start the     *)
(* chain, for every definition, staff and choice of the first assignee.     *)
THEOREM ReadyIsEnough == DefinitionsSpec => []ReadyStarts
  <1>1. DefinitionsInv => ReadyStarts
    <2> SUFFICES ASSUME DefinitionsInv, NEW f \in Dictionaries, AssigneesReady(f),
                        NEW override \in {0} \cup (IF StepsConfig[1].strategy = "fixed_user" THEN {} ELSE Persons)
                 PROVE  StepsMade(f, override) # {}
      BY DEF ReadyStarts
    <2>1. DefinitionsTypeOK
      BY DEF DefinitionsInv, RunsAsDefined
    <2> DEFINE ids(k) == RoleIdsFor(StepsConfig[k].aliases, f)
               asked(k) == Assignees(StepsConfig[k], ids(k), IF k = 1 THEN override ELSE 0)
               made(k, p) == [order |-> k, role |-> ids(k)[1], who |-> p, does |-> StepsConfig[k].does]
               choices == {b \in [ToAsk -> Persons] : \A k \in ToAsk : b[k] \in asked(k)}
    <2>2. StepsMade(f, override) = IF ToAsk = {} \/ \E k \in ToAsk : ids(k) = <<>> THEN {}
                                   ELSE {{made(k, a[k]) : k \in ToAsk} : a \in choices}
      BY DEF StepsMade
    <2>3. /\ ToAsk # {} /\ ToAsk \subseteq DOMAIN StepsConfig
          /\ \A k \in ToAsk : ids(k) # <<>> /\ Assignees(StepsConfig[k], ids(k), 0) # {}
      BY <2>1, ConfigTyped DEF AssigneesReady, RolesReady
    <2>4. override \in Persons \cup {0} /\ (override # 0 => StepsConfig[1].strategy # "fixed_user")
      BY DefinitionsAssumption
    <2>5. ASSUME NEW k \in ToAsk PROVE asked(k) # {} /\ asked(k) \subseteq Persons
      <3>1. StepsConfig[k] \in StepRows /\ ids(k) \in Seq(Titled)
        BY <2>1, <2>3, ConfigTyped, StoredWords
      <3> DEFINE o == IF k = 1 THEN override ELSE 0
      <3>2. o \in Persons \cup {0} /\ (StepsConfig[k].strategy # "fixed_user" \/ o = 0)
        BY <2>4
      <3> HIDE DEF o, ids
      <3>3. /\ Assignees(StepsConfig[k], ids(k), o) \subseteq Persons
            /\ Assignees(StepsConfig[k], ids(k), 0) # {} => Assignees(StepsConfig[k], ids(k), o) # {}
        BY <2>1, <3>1, <3>2, SomebodyIsAsked
      <3> QED
        BY <2>3, <3>3 DEF o
    <2> HIDE DEF asked
    <2> DEFINE a == [k \in ToAsk |-> CHOOSE p \in Persons : p \in asked(k)]
    <2>6. a \in choices
      BY <2>5
    <2>7. {made(k, a[k]) : k \in ToAsk} \in {{made(k, b[k]) : k \in ToAsk} : b \in choices}
      BY <2>6
    <2> QED
      BY <2>2, <2>3, <2>7
  <1> QED
    BY DefinitionsInvariant, <1>1, PTL

(* A definition asks for the roles that were chosen for it, a chain starts  *)
(* by it when the forms say so, and each step is what was defined for it.   *)
THEOREM DefinitionsAreKept == DefinitionsSpec => []DefinitionsHold
  BY StepsFindTheirOwn, WordsAreKept, ReadyIsEnough, PTL DEF DefinitionsHold

-----------------------------------------------------------------------------
(* Lists.                                                                   *)

(* How many rows of the list come before a row, the number of rows on the   *)
(* pages that were read, and the rows that are where these pages were.      *)
Ahead(i) == {j \in Selected : Precedes(j, i)}
Rank(i) == Cardinality(Ahead(i))
ReadSoFar == (page - 1) * PageSize
PagedOver == {i \in Selected : page = 0 \/ Rank(i) < ReadSoFar}

(* A row that is owed may slip into the pages that were read only when one  *)
(* is moved from under them.                                                *)
ListingInv ==
    /\ ListingTypeOK
    /\ page \in Nat /\ owed \subseteq Selected
    /\ Settled => Cardinality((owed \ shown) \cap PagedOver) <= moves
    /\ Settled /\ quiet => shown = PagedOver
    /\ quiet /\ query.total /\ ~counts /\ page # 1 => total = Cardinality(Totalled)

(* The rows that are there have a sort value.                               *)
LEMMA RowFacts ==
    ASSUME ListingTypeOK
    PROVE  /\ There \subseteq Rows /\ Selected \subseteq There /\ Selected \subseteq Totalled /\ Totalled \subseteq There
           /\ IsFiniteSet(Rows) /\ IsFiniteSet(There) /\ IsFiniteSet(Selected)
           /\ \A i \in There : row[i].at \in Nat \ {0}
           /\ \A S \in SUBSET Rows : IsFiniteSet(S) /\ Cardinality(S) \in 0..Cardinality(Rows)
  <1>1. There \subseteq Rows /\ Selected \subseteq There /\ Selected \subseteq Totalled /\ Totalled \subseteq There
    BY DEF There, Selected, Totalled
  <1>2. ASSUME NEW S \in SUBSET Rows PROVE IsFiniteSet(S) /\ Cardinality(S) \in 0..Cardinality(Rows)
    <2>1. IsFiniteSet(S) /\ Cardinality(S) <= Cardinality(Rows)
      BY ListingAssumption, FS_Subset
    <2>2. Cardinality(S) \in Nat /\ Cardinality(Rows) \in Nat
      BY <2>1, ListingAssumption, FS_CardinalityType
    <2> QED
      BY <2>1, <2>2
  <1>3. \A i \in There : row[i].at \in Nat \ {0}
    <2>1. \A x \in Contents : x.at \in {1, 2}
      BY DEF Contents
    <2>2. Absent.at = 0 /\ Deleted.at = -1
      BY DEF Absent, Deleted
    <2>3. \A i \in There : row[i] \in Contents \/ row[i] = Absent \/ row[i] = Deleted
      BY DEF There, ListingTypeOK
    <2>4. \A i \in There : row[i].at > 0
      BY DEF There
    <2> QED
      BY <2>1, <2>2, <2>3, <2>4
  <1> QED
    BY <1>1, <1>2, <1>3, ListingAssumption

(* A settled list has one order.                                            *)
LEMMA OrderFacts ==
    ASSUME ListingTypeOK, Settled, NEW i \in There, NEW j \in There
    PROVE  /\ Precedes(i, j) => ~Precedes(j, i)
           /\ i # j => Precedes(i, j) \/ Precedes(j, i)
           /\ \A k \in There : Precedes(i, j) /\ Precedes(j, k) => Precedes(i, k)
  <1>1. i \in Nat /\ j \in Nat /\ \A k \in There : k \in Nat
    BY RowFacts, ListingAssumption
  <1>2. row[i].at \in Nat /\ row[j].at \in Nat /\ \A k \in There : row[k].at \in Nat
    BY RowFacts
  <1>3. CASE query.unique
    BY <1>1, <1>3 DEF Precedes
  <1>4. CASE ~query.unique
    <2>1. \A k, l \in There : Precedes(k, l) <=> Before(k, l)
      BY <1>4 DEF Precedes, Settled
    <2>2. /\ Before(i, j) => ~Before(j, i)
          /\ i # j => Before(i, j) \/ Before(j, i)
          /\ \A k \in There : Before(i, j) /\ Before(j, k) => Before(i, k)
      BY <1>1, <1>2 DEF Before
    <2> QED
      BY <2>1, <2>2
  <1> QED
    BY <1>3, <1>4

(* A row of the list has finitely many rows before it.                      *)
LEMMA RankFacts ==
    ASSUME ListingTypeOK, NEW i \in Selected
    PROVE  Ahead(i) \subseteq Selected /\ IsFiniteSet(Ahead(i)) /\ Rank(i) \in Nat
  <1>1. Ahead(i) \subseteq Selected
    BY DEF Ahead
  <1> QED
    BY <1>1, RowFacts, FS_Subset, FS_CardinalityType DEF Rank

(* The same of the next state.                                              *)
LEMMA RankFactsNext ==
    ASSUME ListingTypeOK', NEW i, i \in Selected'
    PROVE  IsFiniteSet(Ahead(i)') /\ Rank(i)' \in Nat
  <1>1. Ahead(i)' \subseteq Rows
    BY DEF Ahead, Selected, There
  <1> QED
    BY <1>1, ListingAssumption, FS_Subset, FS_CardinalityType DEF Rank

(* Different rows have different ranks.                                     *)
LEMMA RanksDiffer ==
    ASSUME ListingTypeOK, Settled, NEW i \in Selected, NEW j \in Selected, i # j
    PROVE  Rank(i) # Rank(j)
  <1>1. ASSUME NEW k \in Selected, NEW l \in Selected, Precedes(k, l) PROVE Rank(k) < Rank(l)
    <2>1. Ahead(k) \subseteq Ahead(l) /\ k \in Ahead(l) /\ k \notin Ahead(k)
      BY <1>1, OrderFacts, RowFacts DEF Ahead
    <2>2. Rank(k) <= Rank(l) /\ (Rank(k) = Rank(l) => Ahead(l) = Ahead(k))
      BY <2>1, RankFacts, FS_Subset DEF Rank
    <2> QED
      BY <2>1, <2>2, RankFacts
  <1>2. Precedes(i, j) \/ Precedes(j, i)
    BY OrderFacts, RowFacts
  <1> QED
    BY <1>1, <1>2, RankFacts

(* The place of a row in the answer of a query.                             *)
LEMMA Places ==
    ASSUME ListingTypeOK, Settled, NEW s \in Sortings(Selected)
    PROVE  /\ Len(s) = Cardinality(Selected) /\ Len(s) \in Nat
           /\ \A n \in 1..Len(s) : s[n] \in Selected /\ Rank(s[n]) = n - 1
           /\ \A m, n \in 1..Len(s) : s[m] = s[n] => m = n
           /\ \A i \in Selected : \E n \in 1..Len(s) : s[n] = i
  <1> DEFINE c == Cardinality(Selected)
  <1>1. c \in Nat /\ IsFiniteSet(Selected)
    BY RowFacts, FS_CardinalityType
  <1>2. /\ s \in [1..c -> Selected] /\ (\A m, n \in 1..c : m # n => s[m] # s[n])
        /\ \A m, n \in 1..Len(s) : m < n => Precedes(s[m], s[n])
    BY DEF Sortings, SetToSeqs
  <1> HIDE DEF c
  <1>3. Len(s) = c
    BY <1>1, <1>2
  <1>4. \A i \in Selected : \E n \in 1..c : s[n] = i
    <2>1. s \in Injection(1..c, Selected)
      BY <1>2 DEF Injection, IsInjective
    <2>2. Cardinality(1..c) = Cardinality(Selected)
      BY <1>1, FS_Interval DEF c
    <2>3. s \in Surjection(1..c, Selected)
      BY <2>1, <2>2, <1>1, FS_Injection
    <2> QED
      BY <2>3 DEF Surjection
  <1>5. ASSUME NEW n \in 1..c PROVE Rank(s[n]) = n - 1
    <2>1. Ahead(s[n]) = {s[m] : m \in 1..(n - 1)}
      <3>1. ASSUME NEW j \in Ahead(s[n]) PROVE \E m \in 1..(n - 1) : j = s[m]
        <4>1. j \in Selected /\ Precedes(j, s[n])
          BY DEF Ahead
        <4>2. PICK m \in 1..c : s[m] = j
          BY <4>1, <1>4
        <4>3. s[m] \in There /\ s[n] \in There
          BY <1>2, RowFacts
        <4>4. ~(n < m) /\ m # n
          BY <1>2, <1>3, <4>1, <4>2, <4>3, OrderFacts
        <4> QED
          BY <4>2, <4>4, <1>1
      <3>2. ASSUME NEW m \in 1..(n - 1) PROVE s[m] \in Ahead(s[n])
        BY <1>1, <1>2, <1>3 DEF Ahead
      <3> QED
        BY <3>1, <3>2
    <2> DEFINE g == [m \in 1..(n - 1) |-> s[m]]
    <2>2. g \in Bijection(1..(n - 1), Ahead(s[n]))
      <3>1. g \in Injection(1..(n - 1), Ahead(s[n]))
        BY <2>1, <1>1, <1>2 DEF Injection, IsInjective
      <3>2. g \in Surjection(1..(n - 1), Ahead(s[n]))
        BY <2>1 DEF Surjection
      <3> QED
        BY <3>1, <3>2 DEF Bijection
    <2>3. ExistsBijection(1..(n - 1), Ahead(s[n]))
      BY <2>2 DEF ExistsBijection
    <2>4. IsFiniteSet(1..(n - 1)) /\ Cardinality(1..(n - 1)) = n - 1
      BY <1>1, FS_Interval
    <2> QED
      BY <2>3, <2>4, FS_Bijection DEF Rank
  <1> QED
    BY <1>1, <1>2, <1>3, <1>4, <1>5 DEF c

(* A page ends a page size after the rows that were read before it.         *)
LEMMA PageEnds ==
    ASSUME page \in Nat \ {0}
    PROVE  /\ ReadSoFar \in Nat /\ page * PageSize = ReadSoFar + PageSize
           /\ (page + 1 - 1) * PageSize = ReadSoFar + PageSize
  BY ListingAssumption DEF ReadSoFar

(* A page has the rows of its ranks; one that is not full is the last.      *)
LEMMA PageRows ==
    ASSUME ListingTypeOK, Settled, page \in Nat \ {0}, NEW s \in Sortings(Selected)
    PROVE  /\ Window(s) = {i \in Selected : ReadSoFar <= Rank(i) /\ Rank(i) < ReadSoFar + PageSize}
           /\ Cardinality(Window(s)) # PageSize => \A i \in Selected : Rank(i) < ReadSoFar + PageSize
  <1> DEFINE N == ReadSoFar
             M == N + PageSize
             places == {m \in 1..Len(s) : m > N /\ m <= M}
  <1>1. N \in Nat /\ M \in Nat /\ PageSize \in Nat \ {0} /\ page * PageSize = M /\ (page - 1) * PageSize = N
        /\ M - (N + 1) + 1 = PageSize /\ N + 1 <= M
    BY PageEnds, ListingAssumption DEF ReadSoFar
  <1>2. Window(s) = {s[n] : n \in places}
    BY <1>1 DEF Window
  <1> HIDE DEF N, M
  <1>3. Window(s) = {i \in Selected : N <= Rank(i) /\ Rank(i) < M}
    <2>1. ASSUME NEW n \in places PROVE s[n] \in Selected /\ N <= Rank(s[n]) /\ Rank(s[n]) < M
      BY <1>1, Places
    <2>2. ASSUME NEW i \in Selected, N <= Rank(i), Rank(i) < M PROVE \E n \in places : s[n] = i
      <3>1. PICK n \in 1..Len(s) : s[n] = i
        BY Places
      <3>2. Rank(i) = n - 1 /\ n \in Nat
        BY <3>1, Places
      <3> QED
        BY <1>1, <2>2, <3>1, <3>2
    <2> QED
      BY <1>2, <2>1, <2>2
  <1>4. ASSUME NEW i \in Selected, Rank(i) >= M PROVE Cardinality(Window(s)) = PageSize
    <2>1. PICK n \in 1..Len(s) : s[n] = i
      BY Places
    <2>2. n > M /\ Len(s) \in Nat
      <3>1. Rank(i) = n - 1 /\ Len(s) \in Nat
        BY <2>1, Places
      <3> QED
        BY <1>1, <1>4, <3>1
    <2>3. places = (N + 1)..M
      BY <1>1, <2>2
    <2>4. IsFiniteSet(places) /\ Cardinality(places) = PageSize
      <3>1. IsFiniteSet((N + 1)..M) /\ Cardinality((N + 1)..M) = M - (N + 1) + 1
        BY <1>1, FS_Interval
      <3> QED
        BY <1>1, <2>3, <3>1
    <2> DEFINE g == [m \in places |-> s[m]]
    <2>5. g \in Bijection(places, Window(s))
      <3>1. g \in Injection(places, Window(s))
        BY <1>2, Places DEF Injection, IsInjective
      <3>2. g \in Surjection(places, Window(s))
        BY <1>2 DEF Surjection
      <3> QED
        BY <3>1, <3>2 DEF Bijection
    <2>6. ExistsBijection(places, Window(s))
      BY <2>5 DEF ExistsBijection
    <2> HIDE DEF places
    <2> QED
      BY <2>4, <2>6, FS_Bijection
  <1>5. \A i \in Selected : Rank(i) \in Nat
    BY RankFacts
  <1> QED
    BY <1>1, <1>3, <1>4, <1>5 DEF M, N

(* A new row is behind or before others, and moves nobody forward.          *)
LEMMA AddPushesBack ==
    ASSUME ListingTypeOK, ListingTypeOK', AddRow, NEW i \in Selected
    PROVE  i \in Selected' /\ Rank(i)' >= Rank(i)
  <1> DEFINE m == Min(Unadded)
  <1>1. m \in Unadded /\ m \in Rows /\ m \notin There
    <2>1. Unadded \in SUBSET Nat /\ Unadded # {}
      BY ListingAssumption DEF AddRow, Unadded
    <2> QED
      BY <2>1, MinOf DEF Unadded, There, Absent
  <1> HIDE DEF m
  <1>2. \A j \in Rows \ {m} : row'[j] = row[j]
    BY <1>1 DEF AddRow, ListingTypeOK, m
  <1>3. UNCHANGED query
    BY DEF AddRow
  <1>4. \A j \in Selected : j \in Rows /\ j # m /\ row'[j] = row[j]
    BY <1>1, <1>2, RowFacts
  <1>5. \A j \in Selected : j \in Selected'
    BY <1>3, <1>4, RowFacts DEF Selected, There, FitsNarrow
  <1>6. \A j \in Selected : Precedes(j, i) => Precedes(j, i)'
    BY <1>3, <1>4 DEF Precedes, Before, BeforeInTime
  <1>7. Ahead(i) \subseteq Ahead(i)'
    BY <1>5, <1>6 DEF Ahead
  <1>8. /\ IsFiniteSet(Ahead(i)') /\ Rank(i)' \in Nat /\ Rank(i) \in Nat
    BY <1>5, RankFacts, RankFactsNext
  <1>9. Cardinality(Ahead(i)) <= Cardinality(Ahead(i)')
    BY <1>7, <1>8, FS_Subset
  <1> QED
    BY <1>5, <1>9 DEF Rank

(* A row that is changed or removed brings another one place forward at     *)
(* most.                                                                    *)
LEMMA MovePullsOne ==
    ASSUME ListingTypeOK, ListingTypeOK', NEW k \in Rows, MoveRow(k), NEW i \in Selected, i # k
    PROVE  i \in Selected' /\ Rank(i)' >= Rank(i) - 1
  <1>2. \A j \in Rows \ {k} : row'[j] = row[j]
    BY DEF MoveRow, ListingTypeOK
  <1>3. UNCHANGED query
    BY DEF MoveRow
  <1>4. \A j \in Selected \ {k} : j \in Rows /\ row'[j] = row[j]
    BY <1>2, RowFacts
  <1>5. \A j \in Selected \ {k} : j \in Selected'
    BY <1>3, <1>4, RowFacts DEF Selected, There, FitsNarrow
  <1>6. \A j \in Selected \ {k} : Precedes(j, i) => Precedes(j, i)'
    BY <1>3, <1>4 DEF Precedes, Before, BeforeInTime
  <1>7. Ahead(i) \ {k} \subseteq Ahead(i)'
    BY <1>5, <1>6 DEF Ahead
  <1>8. /\ IsFiniteSet(Ahead(i)') /\ IsFiniteSet(Ahead(i)) /\ Rank(i)' \in Nat /\ Rank(i) \in Nat
    BY <1>5, RankFacts, RankFactsNext
  <1>9. Cardinality(Ahead(i) \ {k}) <= Cardinality(Ahead(i)')
    BY <1>7, <1>8, FS_Subset
  <1>10. Cardinality(Ahead(i) \ {k}) >= Cardinality(Ahead(i)) - 1
    <2>1. Cardinality(Ahead(i) \ {k}) = IF k \in Ahead(i) THEN Cardinality(Ahead(i)) - 1 ELSE Cardinality(Ahead(i))
      BY <1>8, FS_RemoveElement
    <2>2. Cardinality(Ahead(i)) \in Nat
      BY <1>8 DEF Rank
    <2> QED
      BY <2>1, <2>2
  <1>11. Cardinality(Ahead(i)) = Rank(i) /\ Cardinality(Ahead(i)') = Rank(i)' /\ Cardinality(Ahead(i) \ {k}) \in Nat
    BY <1>8, FS_RemoveElement, FS_CardinalityType DEF Rank
  <1> QED
    BY <1>5, <1>8, <1>9, <1>10, <1>11

(* The types of the next state.                                             *)
LEMMA ListingTyped ==
    ASSUME ListingTypeOK, owed \subseteq Selected, ListingNext
    PROVE  ListingTypeOK' /\ owed' \subseteq Selected'
  <1> USE DEF ListingTypeOK
  <1>1. CASE ReadPage
    <2>1. PICK s \in Sortings(Selected) : shown' = shown \cup Window(s)
      BY <1>1 DEF ReadPage
    <2>2. Window(s) \subseteq Rows
      <3>1. s \in [1..Cardinality(Selected) -> Selected] /\ Cardinality(Selected) \in Nat
        BY RowFacts DEF Sortings, SetToSeqs
      <3>2. Len(s) = Cardinality(Selected)
        BY <3>1
      <3> QED
        BY <3>1, <3>2, RowFacts DEF Window
    <2>3. counts' \in BOOLEAN
      BY <1>1 DEF ReadPage
    <2> QED
      BY <1>1, <2>1, <2>2, <2>3 DEF ReadPage, There, Contents, Selected, FitsNarrow
  <1>2. CASE ReadTotal
    <2>1. Cardinality(Totalled) \in 0..Cardinality(Rows)
      BY RowFacts
    <2> QED
      BY <1>2, <2>1 DEF ReadTotal, There, Contents, Selected, FitsNarrow
  <1>3. CASE AddRow
    <2>1. PICK new \in Contents : row' = [row EXCEPT ![Min(Unadded)] = new]
      BY <1>3 DEF AddRow
    <2> DEFINE m == Min(Unadded)
    <2>2. m \in Rows /\ m \notin There
      <3>1. Unadded \in SUBSET Nat /\ Unadded # {}
        BY <1>3, ListingAssumption DEF AddRow, Unadded
      <3> QED
        BY <3>1, MinOf DEF Unadded, There, Absent
    <2> HIDE DEF m
    <2>3. Contents' = Contents
      BY <1>3 DEF AddRow, Contents
    <2>4. row' \in [Rows -> Contents \cup {Absent, Deleted}] /\ \A j \in Rows \ {m} : row'[j] = row[j]
      BY <2>1, <2>2 DEF m
    <2>5. \A j \in Selected : j \in Selected'
      BY <1>3, <2>2, <2>4, RowFacts DEF AddRow, Selected, There, FitsNarrow
    <2>6. Selected' \subseteq There'
      BY DEF Selected
    <2> QED
      BY <1>3, <2>3, <2>4, <2>5, <2>6 DEF AddRow
  <1>4. CASE \E i \in Rows : MoveRow(i)
    <2> PICK i \in Rows : MoveRow(i)
      BY <1>4
    <2>1. PICK new \in Contents \cup {Deleted} : row' = [row EXCEPT ![i] = new]
      BY DEF MoveRow
    <2>3. Contents' = Contents
      BY DEF MoveRow, Contents
    <2>4. row' \in [Rows -> Contents \cup {Absent, Deleted}] /\ \A j \in Rows \ {i} : row'[j] = row[j]
      BY <2>1
    <2>5. \A j \in Selected \ {i} : j \in Selected'
      BY <2>4, RowFacts DEF MoveRow, Selected, There, FitsNarrow
    <2>6. Selected' \subseteq There'
      BY DEF Selected
    <2>7. moves' \in 0..MaxMoves
      BY ListingAssumption DEF MoveRow
    <2>8. owed' = owed \ {i} /\ UNCHANGED <<query, page, counts, shown, total>> /\ quiet' = FALSE
      BY DEF MoveRow
    <2> QED
      BY <2>3, <2>4, <2>5, <2>6, <2>7, <2>8
  <1> QED
    BY <1>1, <1>2, <1>3, <1>4 DEF ListingNext

(* What a reader may ask is yes or no.                                      *)
LEMMA RouteFacts == \A route \in Routes : route.newest \in BOOLEAN /\ route.rows.tie \in BOOLEAN
  <1> DEFINE Lists == {SupplierRows, OrderRows, ReceiptRows, PurchaseRows, RequestRows, CategoryRows, ItemRows,
                       WarehouseRows, CounterpartyRows, AccountRows, PaymentRows, PettyCashRows, MissionRows,
                       DocumentRows, InstanceRows, TaskRows, InboxRows, NoteRows, CenterRows, FormRows,
                       WarehouseFormRows, UserRows, RoleRows, PermissionRows, DepartmentRows, DefinitionRows,
                       AuditRows}
  <1>1. \A a, b : Counted(a, b).tie \in BOOLEAN /\ Untied(Counted(a, b)).tie \in BOOLEAN /\ Uncounted(a).tie \in BOOLEAN
    BY DEF Counted, Untied, Uncounted
  <1>2. WarehouseFormRows.tie \in BOOLEAN
    BY DEF WarehouseFormRows, Counted
  <1>3. /\ SupplierRows.tie \in BOOLEAN /\ OrderRows.tie \in BOOLEAN /\ ReceiptRows.tie \in BOOLEAN
        /\ PurchaseRows.tie \in BOOLEAN /\ RequestRows.tie \in BOOLEAN /\ CategoryRows.tie \in BOOLEAN
        /\ ItemRows.tie \in BOOLEAN /\ WarehouseRows.tie \in BOOLEAN /\ CounterpartyRows.tie \in BOOLEAN
        /\ AccountRows.tie \in BOOLEAN /\ PaymentRows.tie \in BOOLEAN /\ PettyCashRows.tie \in BOOLEAN
        /\ MissionRows.tie \in BOOLEAN /\ DocumentRows.tie \in BOOLEAN /\ InstanceRows.tie \in BOOLEAN
        /\ TaskRows.tie \in BOOLEAN /\ InboxRows.tie \in BOOLEAN /\ NoteRows.tie \in BOOLEAN
        /\ CenterRows.tie \in BOOLEAN /\ FormRows.tie \in BOOLEAN /\ UserRows.tie \in BOOLEAN
        /\ RoleRows.tie \in BOOLEAN /\ PermissionRows.tie \in BOOLEAN /\ DepartmentRows.tie \in BOOLEAN
        /\ DefinitionRows.tie \in BOOLEAN /\ AuditRows.tie \in BOOLEAN
    BY <1>1, Zenon DEF SupplierRows, OrderRows, ReceiptRows, PurchaseRows, RequestRows, CategoryRows,
       ItemRows, WarehouseRows, CounterpartyRows, AccountRows, PaymentRows, PettyCashRows, MissionRows,
       DocumentRows, InstanceRows, TaskRows, InboxRows, NoteRows, CenterRows, FormRows, UserRows, RoleRows,
       PermissionRows, DepartmentRows, DefinitionRows, AuditRows
  <1>9. \A rows \in Lists : rows.tie \in BOOLEAN
    BY <1>2, <1>3, Zenon
  <1>4. ASSUME NEW route \in Routes PROVE \E rows \in Lists : route \in {ById(rows), ByTime(rows), OldestFirst(rows)}
    <2> HIDE DEF Lists
    <2> QED
      BY Zenon DEF Routes, Lists, list_suppliers_api, list_purchase_orders_api, list_grn_api,
       list_purchase_requests_api, list_requests_api, list_categories, list_items, list_all,
       list_counterparties_api, list_company_accounts, list_payment_requests_api, list_petty_cash_api,
       list_mission_requests_api, list_financial_documents_api, list_workflow_instances_api, list_ad_hoc_tasks_api,
       my_inbox, list_notifications, list_notifications_paginated, notification_center, list_workflow_forms_api,
       list_warehouse_forms_api, list_users_api, list_roles, list_roles_rbac, list_permissions,
       list_permissions_rbac, list_departments_api, list_definitions, list_audit_logs_api
  <1>5. \A rows : /\ ById(rows).newest \in BOOLEAN /\ ByTime(rows).newest \in BOOLEAN
                  /\ OldestFirst(rows).newest \in BOOLEAN
                  /\ ById(rows).rows = rows /\ ByTime(rows).rows = rows /\ OldestFirst(rows).rows = rows
    BY DEF ById, ByTime, OldestFirst
  <1> HIDE DEF Lists
  <1> SUFFICES ASSUME NEW route \in Routes PROVE route.newest \in BOOLEAN /\ route.rows.tie \in BOOLEAN
    OBVIOUS
  <1>6. PICK rows \in Lists : route \in {ById(rows), ByTime(rows), OldestFirst(rows)}
    BY <1>4
  <1>7. route.newest \in BOOLEAN /\ route.rows = rows
    BY <1>5, <1>6
  <1> QED
    BY <1>9, <1>7

(* What a list is asked.                                                    *)
LEMMA QuestionFacts ==
    ASSUME NEW q \in Questions
    PROVE  q \in [search : BOOLEAN, countsIt : BOOLEAN, total : BOOLEAN, narrow : BOOLEAN,
                  unique : BOOLEAN, tie : BOOLEAN, newest : BOOLEAN]
  <1>1. PICK route \in Routes : q \in QuestionsOf(route)
    BY Zenon DEF Questions
  <1> DEFINE Columns == route.rows.searched \cup {"no word"}
             Narrows == route.rows.narrowed \cup {"all"}
             Sorts == {route.sort, "another"}
             Directions == {route.newest, TRUE}
  <1>2. QuestionsOf(route) = {Question(route, column, narrow, sort, newest) :
                                column \in Columns, narrow \in Narrows, sort \in Sorts, newest \in Directions}
    BY DEF QuestionsOf
  <1>3. \A x \in Directions : x \in BOOLEAN
    BY RouteFacts
  <1> HIDE DEF Columns, Narrows, Sorts, Directions
  <1>4. PICK column \in Columns, narrow \in Narrows, sort \in Sorts, newest \in Directions :
               q = Question(route, column, narrow, sort, newest)
    BY <1>1, <1>2
  <1>5. newest \in BOOLEAN /\ route.rows.tie \in BOOLEAN
    BY <1>3, RouteFacts
  <1>6. /\ q.search \in BOOLEAN /\ q.countsIt \in BOOLEAN /\ q.total \in BOOLEAN
        /\ q.narrow \in BOOLEAN /\ q.unique \in BOOLEAN
    <2>1. /\ q.search = (column # "no word") /\ q.narrow = (narrow # "all")
          /\ q.countsIt = (column \in route.rows.counted \cup {"no word"})
          /\ q.total = (route.rows.counted # {"no total"}) /\ q.unique = (sort = "id")
      BY <1>4 DEF Question
    <2>2. q.search \in BOOLEAN
      BY <2>1
    <2>3. q.narrow \in BOOLEAN
      BY <2>1
    <2>4. q.countsIt \in BOOLEAN
      <3> DEFINE S == route.rows.counted \cup {"no word"}
      <3>1. q.countsIt = (column \in S)
        BY <2>1
      <3> HIDE DEF S
      <3> QED
        BY <3>1
    <2>5. q.total \in BOOLEAN
      BY <2>1
    <2>6. q.unique \in BOOLEAN
      BY <2>1
    <2> QED
      BY <2>2, <2>3, <2>4, <2>5, <2>6
  <1>7. q.tie \in BOOLEAN /\ q.newest \in BOOLEAN
    BY <1>4, <1>5 DEF Question
  <1>8. q = [search |-> q.search, countsIt |-> q.countsIt, total |-> q.total,
                 narrow |-> q.narrow, unique |-> q.unique, tie |-> q.tie, newest |-> q.newest]
    BY <1>4 DEF Question
  <1> QED
    BY <1>6, <1>7, <1>8

(* The first page is asked for.                                             *)
LEMMA ListingStart == ListingInit => ListingInv
  <1> SUFFICES ASSUME ListingInit PROVE ListingInv
    OBVIOUS
  <1> USE DEF ListingInit
  <1>1. ListingTypeOK /\ owed \subseteq Selected
    <2>1. query \in [search : BOOLEAN, countsIt : BOOLEAN, total : BOOLEAN, narrow : BOOLEAN,
                     unique : BOOLEAN, tie : BOOLEAN, newest : BOOLEAN]
      BY QuestionFacts
    <2>3. Selected \subseteq There
      BY DEF Selected
    <2>4. 0 \in 0..Cardinality(Rows) /\ 0 \in 0..MaxMoves
      BY ListingAssumption, FS_CardinalityType
    <2> QED
      BY <2>1, <2>3, <2>4 DEF ListingTypeOK
  <1>2. PagedOver = {}
    <2>1. ReadSoFar = 0
      BY ListingAssumption DEF ReadSoFar
    <2> QED
      BY <1>1, <2>1, RankFacts DEF PagedOver
  <1>3. Cardinality({}) = 0
    BY FS_EmptySet
  <1> QED
    BY <1>1, <1>2, <1>3 DEF ListingInv

(* A page.                                                                  *)
LEMMA ReadPageStep ==
    ASSUME ListingInv, ListingTypeOK', owed' \subseteq Selected', ReadPage
    PROVE  ListingInv'
  <1>1. PICK s \in Sortings(Selected) :
          /\ shown' = shown \cup Window(s)
          /\ page' = IF Cardinality(Window(s)) = PageSize THEN page + 1 ELSE 0
    BY DEF ReadPage
  <1>2. ListingTypeOK /\ page \in Nat \ {0} /\ page' \in Nat /\ page' # 1
    BY <1>1 DEF ListingInv, ReadPage
  <1>3. UNCHANGED <<row, query, total, owed, quiet, moves>> /\ counts' = query.total
    BY DEF ReadPage
  <1>4. There' = There /\ Selected' = Selected /\ Totalled' = Totalled /\ (Settled' <=> Settled)
    BY <1>3 DEF There, Selected, Totalled, FitsNarrow, Settled
  <1>5. ASSUME NEW i \in Selected PROVE Rank(i)' = Rank(i)
    BY <1>3, <1>4 DEF Rank, Ahead, Precedes, Before, BeforeInTime
  <1>6. ASSUME Settled PROVE PagedOver' = PagedOver \cup Window(s) /\ Window(s) \cap PagedOver = {}
    <2>1. Window(s) = {i \in Selected : ReadSoFar <= Rank(i) /\ Rank(i) < ReadSoFar + PageSize}
      BY <1>2, <1>6, PageRows
    <2>2. \A i \in Selected : Rank(i) \in Nat
      BY <1>2, RankFacts
    <2>3. ReadSoFar \in Nat /\ PageSize \in Nat
      BY <1>2, PageEnds, ListingAssumption
    <2>4. PagedOver = {i \in Selected : Rank(i) < ReadSoFar}
      BY <1>2 DEF PagedOver
    <2>5. PagedOver \cup Window(s) = {i \in Selected : Rank(i) < ReadSoFar + PageSize}
      BY <2>1, <2>2, <2>3, <2>4
    <2>6. CASE Cardinality(Window(s)) = PageSize
      <3>1. page' = page + 1 /\ ReadSoFar' = ReadSoFar + PageSize
        BY <1>1, <1>2, <2>6, PageEnds DEF ReadSoFar
      <3>2. PagedOver' = {i \in Selected : Rank(i)' < ReadSoFar + PageSize}
        BY <1>2, <1>4, <3>1 DEF PagedOver
      <3> QED
        BY <1>5, <2>1, <2>2, <2>3, <2>4, <2>5, <3>2
    <2>7. CASE Cardinality(Window(s)) # PageSize
      <3>1. page' = 0 /\ \A i \in Selected : Rank(i) < ReadSoFar + PageSize
        BY <1>1, <1>2, <1>6, <2>7, PageRows
      <3>2. PagedOver' = Selected
        BY <1>4, <3>1 DEF PagedOver
      <3> QED
        BY <2>1, <2>2, <2>3, <2>4, <2>5, <3>1, <3>2
    <2> QED
      BY <2>6, <2>7
  <1>7. Settled' => Cardinality(((owed \ shown) \cap PagedOver)') <= moves'
    <2> SUFFICES ASSUME Settled PROVE Cardinality(((owed \ shown) \cap PagedOver)') <= moves'
      BY <1>4
    <2>1. ((owed \ shown) \cap PagedOver)' = (owed \ shown) \cap PagedOver
      BY <1>1, <1>3, <1>6
    <2> QED
      BY <1>3, <2>1 DEF ListingInv
  <1>8. Settled' /\ quiet' => shown' = PagedOver'
    BY <1>1, <1>3, <1>4, <1>6 DEF ListingInv
  <1>9. quiet' /\ query'.total /\ ~counts' /\ page' # 1 => total' = Cardinality(Totalled')
    BY <1>3
  <1> QED
    BY <1>2, <1>7, <1>8, <1>9 DEF ListingInv

(* A row that others add.                                                   *)
LEMMA AddRowStep ==
    ASSUME ListingInv, ListingTypeOK', owed' \subseteq Selected', AddRow
    PROVE  ListingInv'
  <1>1. ListingTypeOK /\ page \in Nat /\ owed \subseteq Selected
    BY DEF ListingInv
  <1>2. UNCHANGED <<query, page, counts, shown, total, owed, moves>> /\ quiet' = FALSE
    BY DEF AddRow
  <1>3. ASSUME Settled' PROVE Cardinality(((owed \ shown) \cap PagedOver)') <= moves'
    <2> DEFINE new == ((owed \ shown) \cap PagedOver)'
               old == (owed \ shown) \cap PagedOver
    <2>1. Settled
      BY <1>2, <1>3 DEF Settled
    <2>2. ASSUME NEW i \in new PROVE i \in old
      <3>1. i \in owed /\ i \notin shown /\ i \in Selected /\ (page = 0 \/ Rank(i)' < ReadSoFar)
        BY <1>1, <1>2, <2>2 DEF PagedOver, ReadSoFar
      <3>2. Rank(i)' >= Rank(i) /\ Rank(i)' \in Nat /\ Rank(i) \in Nat
        BY <1>1, <3>1, AddPushesBack, RankFacts, RankFactsNext
      <3>3. ReadSoFar \in Int
        BY <1>1, ListingAssumption DEF ReadSoFar
      <3> QED
        BY <3>1, <3>2, <3>3 DEF PagedOver
    <2>3. IsFiniteSet(old) /\ Cardinality(old) <= moves
      <3>1. old \subseteq Rows
        BY <1>1, RowFacts
      <3> QED
        BY <1>1, <2>1, <3>1, RowFacts DEF ListingInv
    <2>4. Cardinality(new) <= Cardinality(old) /\ Cardinality(new) \in Nat /\ Cardinality(old) \in Nat
      <3> HIDE DEF new, old
      <3> QED
        BY <2>2, <2>3, FS_Subset, FS_CardinalityType
    <2> HIDE DEF old
    <2> QED
      BY <1>1, <1>2, <2>3, <2>4 DEF ListingTypeOK
  <1> QED
    BY <1>1, <1>2, <1>3 DEF ListingInv

(* A row that others change or remove.                                      *)
LEMMA MoveRowStep ==
    ASSUME ListingInv, ListingTypeOK', owed' \subseteq Selected', NEW k \in Rows, MoveRow(k)
    PROVE  ListingInv'
  <1>1. ListingTypeOK /\ page \in Nat /\ owed \subseteq Selected
    BY DEF ListingInv
  <1>2. /\ UNCHANGED <<query, page, counts, shown, total>> /\ quiet' = FALSE
        /\ owed' = owed \ {k} /\ moves' = moves + 1
    BY DEF MoveRow
  <1>3. ASSUME Settled' PROVE Cardinality(((owed \ shown) \cap PagedOver)') <= moves'
    <2> DEFINE new == ((owed \ shown) \cap PagedOver)'
               old == (owed \ shown) \cap PagedOver
               come == {i \in Selected : Rank(i) = ReadSoFar}
    <2>1. Settled
      BY <1>2, <1>3 DEF Settled
    <2>2. ASSUME NEW i \in new PROVE i \in old \cup come
      <3>1. i \in owed /\ i \notin shown /\ i \in Selected /\ i # k /\ (page = 0 \/ Rank(i)' < ReadSoFar)
        BY <1>1, <1>2, <2>2 DEF PagedOver, ReadSoFar
      <3>2. Rank(i)' >= Rank(i) - 1 /\ Rank(i)' \in Nat /\ Rank(i) \in Nat
        BY <1>1, <3>1, MovePullsOne, RankFacts, RankFactsNext
      <3>3. ReadSoFar \in Int
        BY <1>1, ListingAssumption DEF ReadSoFar
      <3>4. page = 0 \/ Rank(i) < ReadSoFar \/ Rank(i) = ReadSoFar
        BY <3>1, <3>2, <3>3
      <3> QED
        BY <3>1, <3>4 DEF PagedOver
    <2>3. IsFiniteSet(old) /\ Cardinality(old) <= moves
      <3>1. old \subseteq Rows
        BY <1>1, RowFacts
      <3> QED
        BY <1>1, <2>1, <3>1, RowFacts DEF ListingInv
    <2>4. \A i, j \in come : i = j
      BY <1>1, <2>1, RanksDiffer
    <2>5. IsFiniteSet(old \cup come) /\ Cardinality(old \cup come) <= Cardinality(old) + 1
      <3> HIDE DEF old, come
      <3>0. Cardinality(old) \in Nat
        BY <2>3, FS_CardinalityType
      <3>1. CASE come = {}
        BY <2>3, <3>0, <3>1
      <3>2. CASE come # {}
        <4>1. PICK i \in come : come = {i}
          BY <2>4, <3>2
        <4> QED
          <5>1. /\ IsFiniteSet(old \cup {i})
                /\ Cardinality(old \cup {i}) = IF i \in old THEN Cardinality(old) ELSE Cardinality(old) + 1
            BY <2>3, FS_AddElement
          <5> QED
            BY <3>0, <4>1, <5>1
      <3> QED
        BY <3>1, <3>2
    <2>6. /\ Cardinality(new) <= Cardinality(old \cup come) /\ Cardinality(new) \in Nat
          /\ Cardinality(old) \in Nat /\ Cardinality(old \cup come) \in Nat
      <3> HIDE DEF new, old, come
      <3> QED
        BY <2>2, <2>3, <2>5, FS_Subset, FS_CardinalityType
    <2>7. moves \in Nat
      BY <1>1, ListingAssumption DEF ListingTypeOK
    <2> HIDE DEF old, come
    <2> QED
      BY <1>2, <2>3, <2>5, <2>6, <2>7
  <1> QED
    BY <1>1, <1>2, <1>3 DEF ListingInv

(* Every step of lists keeps the invariant.                                 *)
LEMMA ListingKept == ListingInv /\ [ListingNext]_listingVars => ListingInv'
  <1> SUFFICES ASSUME ListingInv, [ListingNext]_listingVars PROVE ListingInv'
    OBVIOUS
  <1>1. CASE UNCHANGED listingVars
    <2>1. UNCHANGED <<row, query, page, counts, shown, total, owed, quiet, moves>>
      BY <1>1 DEF listingVars
    <2>2. ListingTypeOK' <=> ListingTypeOK
      BY <2>1 DEF ListingTypeOK, Contents, There
    <2>3. PagedOver' = PagedOver /\ Totalled' = Totalled /\ (Settled' <=> Settled) /\ Selected' = Selected
      BY <2>1 DEF There, Selected, Totalled, FitsNarrow, Settled,
         PagedOver, ReadSoFar, Rank, Ahead, Precedes, Before, BeforeInTime
    <2> QED
      BY <2>1, <2>2, <2>3 DEF ListingInv
  <1>2. CASE ListingNext
    <2>1. ListingTypeOK' /\ owed' \subseteq Selected'
      BY <1>2, ListingTyped DEF ListingInv
    <2>2. CASE ReadTotal
      <3>1. UNCHANGED <<row, query, page, shown, owed, quiet, moves>> /\ total' = Cardinality(Totalled)
        BY <2>2 DEF ReadTotal
      <3>2. /\ PagedOver' = PagedOver /\ Totalled' = Totalled /\ (Settled' <=> Settled) /\ Selected' = Selected
        BY <3>1 DEF There, Selected, Totalled, FitsNarrow, Settled,
           PagedOver, ReadSoFar, Rank, Ahead, Precedes, Before, BeforeInTime
      <3> QED
        BY <2>1, <3>1, <3>2 DEF ListingInv
    <2> QED
      BY <1>2, <2>1, <2>2, ReadPageStep, AddRowStep, MoveRowStep DEF ListingNext
  <1> QED
    BY <1>1, <1>2

(* Lists keep their invariant.                                              *)
THEOREM ListingInvariant == ListingSpec => []ListingInv
  BY ListingStart, ListingKept, PTL DEF ListingSpec

(* Whoever reads a list to its end has seen every row that was there all the*)
(* time, but for as many as were moved meanwhile; and the total counts them,*)
(* in all lists, orders and filters of the routes.                          *)
THEOREM PagesAreWhole == ListingSpec => []PagesMissNothing
  <1>1. ListingInv => PagesMissNothing
    <2> SUFFICES ASSUME ListingInv PROVE PagesMissNothing
      OBVIOUS
    <2>1. ListingTypeOK
      BY DEF ListingInv
    <2>2. ASSUME ~Reading, Settled
          PROVE  /\ Cardinality(owed \ shown) <= moves
                 /\ quiet /\ query.total /\ query.countsIt => total = Cardinality(shown)
      <3>1. page = 0 /\ ~counts
        BY <2>2 DEF Reading
      <3>2. PagedOver = Selected
        BY <3>1 DEF PagedOver
      <3>3. (owed \ shown) \cap PagedOver = owed \ shown
        BY <3>2 DEF ListingInv
      <3>4. query.countsIt => Totalled = Selected
        BY DEF Totalled, Selected
      <3> QED
        BY <2>2, <3>1, <3>2, <3>3, <3>4 DEF ListingInv
    <2> QED
      BY <2>1, <2>2 DEF PagesMissNothing
  <1> QED
    BY <1>1, ListingInvariant, PTL

-----------------------------------------------------------------------------
(* The inbox.                                                               *)

(* What is told adds to a desk, and only what is finished takes away.       *)
LEMMA DeskFacts ==
    ASSUME NEW d \in Desks
    PROVE  /\ {WithItem(d), WithNote(d), WithBoth(d), Finished(d), Withdrawn(d)} \subseteq Desks
           /\ WithItem(d).open > 0 /\ WithItem(d).note = d.note /\ WithItem(d).unread > 0
           /\ WithNote(d).open = d.open /\ WithNote(d).note
           /\ WithBoth(d).open > 0 /\ WithBoth(d).note
           /\ Finished(d).open = 0
           /\ d.note => Bell(d) > 0
           /\ d.unread > 0 => Bell(d) > 0
           /\ d.open \in Nat
  <1>1. /\ d = [open |-> d.open, unread |-> d.unread, note |-> d.note]
        /\ d.open \in 0..MaxItems /\ d.unread \in 0..MaxItems /\ d.note \in BOOLEAN
    BY DEF Desks
  <1>2. ASSUME NEW n \in 0..MaxItems PROVE Up(n) \in 0..MaxItems /\ Up(n) > 0
    BY InboxAssumption DEF Up
  <1>3. 0 \in 0..MaxItems /\ MaxItems \in Nat
    BY InboxAssumption
  <1>4. /\ WithItem(d) \in Desks /\ WithItem(d).open > 0 /\ WithItem(d).note = d.note /\ WithItem(d).unread > 0
        /\ WithNote(d) \in Desks /\ WithNote(d).open = d.open /\ WithNote(d).note
    BY <1>1, <1>2 DEF Desks, WithItem, WithNote
  <1>5. WithBoth(d) \in Desks /\ WithBoth(d).open > 0 /\ WithBoth(d).note
    <2>1. WithBoth(d) = [open |-> Up(d.open), unread |-> Up(d.unread), note |-> TRUE]
      BY DEF WithBoth, WithNote, WithItem, Desks
    <2> QED
      BY <1>1, <1>2, <2>1 DEF Desks
  <1>6. Finished(d) \in Desks /\ Withdrawn(d) \in Desks /\ Finished(d).open = 0
    BY <1>1, <1>3 DEF Desks, Finished, Withdrawn, Clear
  <1>7. (d.note => Bell(d) > 0) /\ (d.unread > 0 => Bell(d) > 0) /\ d.open \in Nat
    BY <1>1, <1>3 DEF Bell
  <1> QED
    BY <1>4, <1>5, <1>6, <1>7

(* Whoever looks at his desk changes that, and no other; it stays a desk.   *)
LEMMA LookFacts ==
    ASSUME desk \in [People -> Desks], NEW u \in People, Look(u)
    PROVE  /\ desk' \in [People -> Desks]
           /\ \A v \in People \ {u} : desk'[v] = desk[v]
           /\ desk'[u].open <= desk[u].open
  <1> DEFINE d == desk[u]
  <1>1. d \in Desks /\ d.open \in 0..MaxItems /\ d.unread \in 0..MaxItems /\ MaxItems \in Nat
    BY InboxAssumption DEF Desks
  <1>3. CASE ReadItem(u)
    <2>1. PICK left \in {d.unread} \cup (IF d.unread > 0 THEN Fewer(d.unread) ELSE {}) :
            desk' = [desk EXCEPT ![u] = [open |-> @.open, unread |-> left, note |-> FALSE]]
      BY <1>3 DEF ReadItem
    <2>2. left \in 0..MaxItems
      <3>1. left = d.unread \/ (d.unread > 0 /\ left \in Fewer(d.unread))
        BY <2>1
      <3>2. d.unread > 0 => Fewer(d.unread) \subseteq 0..MaxItems
        BY <1>1 DEF Fewer
      <3> QED
        BY <1>1, <3>1, <3>2
    <2>3. desk' = [desk EXCEPT ![u] = [open |-> d.open, unread |-> left, note |-> FALSE]]
      BY <1>1, <2>1 DEF Desks
    <2>4. [open |-> d.open, unread |-> left, note |-> FALSE] \in Desks
      BY <1>1, <2>2 DEF Desks
    <2>5. desk'[u].open = d.open /\ desk'[u].open <= desk[u].open
      BY <1>1, <2>3
    <2> HIDE DEF d
    <2> QED
      BY <2>3, <2>4, <2>5
  <1>4. CASE ReadNote(u) \/ ReadAllNotes(u)
    <2>1. PICK n \in {0, d.unread} :
            desk' = [desk EXCEPT ![u] = [open |-> d.open, unread |-> n, note |-> FALSE]]
      BY <1>4 DEF ReadNote, ReadAllNotes, MerelyRead
    <2>2. [open |-> d.open, unread |-> n, note |-> FALSE] \in Desks
      BY <1>1, <2>1 DEF Desks
    <2>3. desk'[u].open = d.open /\ desk'[u].open <= desk[u].open
      BY <1>1, <2>1
    <2> HIDE DEF d
    <2> QED
      BY <2>1, <2>2, <2>3
  <1>5. CASE PutAway(u)
    <2>1. PICK left \in Fewer(d.open), fresh \in 0..d.unread :
            /\ fresh <= left /\ fresh >= d.unread - 1
            /\ desk' = [desk EXCEPT ![u] = [open |-> left, unread |-> fresh, note |-> @.note]]
      BY <1>5 DEF PutAway
    <2>2. d.open > 0
      BY <1>5 DEF PutAway
    <2>3. left \in 0..MaxItems /\ left <= d.open /\ fresh \in 0..MaxItems
      BY <1>1, <2>1, <2>2 DEF Fewer
    <2>4. desk' = [desk EXCEPT ![u] = [open |-> left, unread |-> fresh, note |-> d.note]]
      BY <1>1, <2>1 DEF Desks
    <2>5. [open |-> left, unread |-> fresh, note |-> d.note] \in Desks
      BY <1>1, <2>3 DEF Desks
    <2>6. desk'[u].open = left /\ left <= desk[u].open
      BY <1>1, <2>3, <2>4
    <2> HIDE DEF d
    <2> QED
      BY <2>4, <2>5, <2>6
  <1> QED
    BY <1>3, <1>4, <1>5 DEF Look

-----------------------------------------------------------------------------
(* One ad-hoc task.                                                         *)

(* One at a time: whoever answers has loaded the row as it is, and it is    *)
(* his; so has the worker; nobody has an item of a task that is not there.  *)
InHand ==
    /\ \A u \in Answering : task.status = "open" /\ task.assignee = u /\ txn[u].assignee = u
    /\ scan # NoTask => task.status = "open" /\ scan.assignee = task.assignee

Unfiled == task.status = "none" =>
    task = NoTask /\ scan = NoTask /\ Answering = {} /\ \A u \in People : desk[u].open = 0

TaskInv ==
    /\ TaskTypeOK /\ OneAnswer /\ Unfiled
    /\ alone => InHand
    /\ TaskIsInInbox

(* It starts in hand.                                                       *)
LEMMA TaskStart == TaskInit => TaskInv
  <1> SUFFICES ASSUME TaskInit PROVE TaskInv
    OBVIOUS
  <1>1. NoTask \in Tasks /\ Clear \in Desks
    BY TaskAssumption, InboxAssumption DEF NoTask, Tasks, Clear, Desks
  <1>2. TaskTypeOK
    <2>1. hops \in 0..MaxHops
      BY TaskAssumption DEF TaskInit
    <2> QED
      BY <1>1, <2>1 DEF TaskInit, TaskTypeOK
  <1>3. Answering = {} /\ task.status = "none"
    BY DEF TaskInit, Answering, NoTask
  <1>4. \A u \in People : desk[u].open = 0
    BY DEF TaskInit, Clear
  <1> QED
    BY <1>2, <1>3, <1>4 DEF TaskInit, TaskInv, OneAnswer, Unfiled, InHand, TaskIsInInbox, NoTask

(* Every step of a task keeps the types, and what holds before it is filed.  *)
LEMMA TaskStepTypes ==
    ASSUME TaskTypeOK, Unfiled, TaskNext
    PROVE  TaskTypeOK' /\ Unfiled'
  <1> USE DEF TaskTypeOK
  <1>1. NoTask \in Tasks /\ MaxHops \in Nat /\ alone' = alone
    BY TaskAssumption DEF NoTask, Tasks, TaskNext
  <1>2. \A u \in People : WithBoth(desk[u]) \in Desks /\ Finished(desk[u]) \in Desks
    BY DeskFacts
  <1>3. ASSUME NEW u \in People, CreateTask(u) PROVE TaskTypeOK' /\ Unfiled'
    <2>1. task' \in Tasks /\ task'.status = "open"
      BY <1>3 DEF CreateTask, Tasks
    <2>2. desk' \in [People -> Desks]
      BY <1>2, <1>3 DEF CreateTask
    <2>3. steps' \subseteq People
      BY <1>3, TaskAssumption DEF CreateTask
    <2> QED
      BY <1>1, <1>3, <2>1, <2>2, <2>3 DEF CreateTask, Unfiled
  <1>4. ASSUME NEW u \in People, LoadTask(u) \/ DropTask(u) PROVE TaskTypeOK' /\ Unfiled'
    <2>1. txn' \in [People -> Tasks]
      BY <1>1, <1>4 DEF LoadTask, DropTask
    <2>2. task.status = "none" => Answering' = {}
      BY <1>4 DEF LoadTask, DropTask, Unfiled, Answering
    <2> QED
      BY <1>1, <1>4, <2>1, <2>2 DEF LoadTask, DropTask, Unfiled
  <1>5. ASSUME NEW u \in People, CloseTask(u) PROVE TaskTypeOK' /\ Unfiled'
    <2>1. task' \in Tasks /\ task'.status = "closed"
      BY <1>5 DEF CloseTask, Tasks
    <2>2. desk' \in [People -> Desks] /\ txn' \in [People -> Tasks]
      BY <1>1, <1>2, <1>5 DEF CloseTask
    <2> QED
      BY <1>1, <1>5, <2>1, <2>2 DEF CloseTask, Unfiled
  <1>6. ASSUME NEW u \in People, NEW v \in People, HandOn(u, v) PROVE TaskTypeOK' /\ Unfiled'
    <2>1. task' \in Tasks /\ task'.status = task.status
      <3>1. PICK w \in People, n \in BOOLEAN :
              task' = [task EXCEPT !.assignee = w, !.due = "running", !.notified = n]
        BY <1>6 DEF HandOn, Tasks, Kept, Renewed
      <3> QED
        BY <3>1 DEF Tasks
    <2>2. desk' \in [People -> Desks] /\ txn' \in [People -> Tasks]
      BY <1>1, <1>2, <1>6 DEF HandOn
    <2>3. hops' \in 0..MaxHops
      BY <1>1, <1>6 DEF HandOn
    <2> QED
      BY <1>1, <1>6, <2>1, <2>2, <2>3 DEF HandOn, Unfiled, Answering
  <1>7. ASSUME NEW u \in People, LookAtTask(u) PROVE TaskTypeOK' /\ Unfiled'
    <2>1. desk' \in [People -> Desks]
      BY <1>7, LookFacts DEF LookAtTask
    <2>2. \A v \in People : desk[v].open = 0 => desk'[v].open = 0
      <3>1. desk'[u].open \in Nat /\ desk[u].open \in Nat /\ desk'[u].open <= desk[u].open
        BY <1>7, <2>1, LookFacts, DeskFacts DEF LookAtTask
      <3> QED
        BY <1>7, <3>1, LookFacts DEF LookAtTask
    <2> QED
      BY <1>1, <1>7, <2>1, <2>2 DEF LookAtTask, Unfiled, Answering
  <1>8. ASSUME TaskLapse \/ ScanTask PROVE TaskTypeOK' /\ Unfiled'
    <2>1. task' \in Tasks /\ task'.status = task.status /\ (task' = task \/ task.status # "none")
      BY <1>8 DEF TaskLapse, ScanTask, Tasks
    <2> QED
      BY <1>1, <1>8, <2>1 DEF TaskLapse, ScanTask, Overdue, Unfiled, Answering
  <1>9. ASSUME AnnounceTask PROVE TaskTypeOK' /\ Unfiled'
    <2>1. task' \in Tasks /\ task'.status = task.status
      BY <1>9 DEF AnnounceTask, Tasks
    <2>2. desk' \in [People -> Desks]
      BY <1>2, <1>9 DEF AnnounceTask
    <2> QED
      BY <1>1, <1>9, <2>1, <2>2 DEF AnnounceTask, Unfiled
  <1> QED
    BY <1>3, <1>4, <1>5, <1>6, <1>7, <1>8, <1>9 DEF TaskNext, TaskMoves

(* One at a time, whoever answers, and the worker, have the row in hand.     *)
LEMMA TaskStepInHand ==
    ASSUME TaskTypeOK, Unfiled, OneAnswer, alone, InHand, TaskNext
    PROVE  InHand'
  <1> USE DEF TaskTypeOK
  <1>1. alone' /\ OneAnswer' /\ Answering \subseteq People
    BY DEF TaskNext, Answering
  <1>2. ASSUME NEW u \in Answering PROVE Answering = {u} /\ scan = NoTask
    BY <1>2 DEF OneAnswer
  <1>3. ASSUME NEW u \in People, CreateTask(u) PROVE InHand'
    <2>1. task.status = "none"
      BY <1>3 DEF CreateTask, NoTask
    <2>2. scan' = NoTask /\ Answering' = {}
      BY <1>3, <2>1 DEF CreateTask, Unfiled, Answering
    <2> QED
      BY <2>2 DEF InHand
  <1>4. ASSUME NEW u \in People, LoadTask(u) PROVE InHand'
    <2>1. scan' = NoTask
      <3>1. u \in Answering'
        BY <1>4 DEF LoadTask, Answering, NoTask
      <3> QED
        BY <1>1, <3>1 DEF OneAnswer
    <2>2. \A v \in Answering' : v = u \/ v \in Answering
      BY <1>4 DEF LoadTask, Answering
    <2>3. txn'[u] = task /\ \A v \in People \ {u} : txn'[v] = txn[v]
      BY <1>4 DEF LoadTask
    <2> QED
      BY <1>1, <1>4, <2>1, <2>2, <2>3 DEF LoadTask, InHand
  <1>5. ASSUME NEW u \in People, DropTask(u) \/ CloseTask(u) \/ \E v \in People : HandOn(u, v)
        PROVE  InHand'
    <2>1. Answering = {u} /\ scan = NoTask
      BY <1>2, <1>5 DEF DropTask, CloseTask, HandOn, Answering
    <2>2. Answering' = {} /\ scan' = NoTask
      BY <1>5, <2>1 DEF DropTask, CloseTask, HandOn, Answering
    <2> QED
      BY <2>2 DEF InHand
  <1>6. ASSUME NEW u \in People, LookAtTask(u) PROVE InHand'
    BY <1>6 DEF LookAtTask, InHand, Answering
  <1>7. ASSUME TaskLapse PROVE InHand'
    <2>1. task'.status = task.status /\ task'.assignee = task.assignee
      BY <1>7 DEF TaskLapse, Tasks
    <2> QED
      BY <1>7, <2>1 DEF TaskLapse, InHand, Answering
  <1>8. ASSUME ScanTask PROVE InHand'
    <2>1. scan' = task /\ task' = task /\ task.status = "open" /\ scan' # NoTask
      BY <1>8 DEF ScanTask, Overdue, NoTask
    <2>2. Answering' = {}
      BY <1>1, <2>1 DEF OneAnswer
    <2> QED
      BY <2>1, <2>2 DEF InHand
  <1>9. ASSUME AnnounceTask PROVE InHand'
    <2>1. Answering' = {} /\ scan' = NoTask
      BY <1>2, <1>9 DEF AnnounceTask, Answering
    <2> QED
      BY <2>1 DEF InHand
  <1> QED
    BY <1>3, <1>4, <1>5, <1>6, <1>7, <1>8, <1>9 DEF TaskNext, TaskMoves

HasIt == task.status = "open" => away \/ desk[task.assignee].open > 0
OnlyHe == \A u \in steps \ Bosses : desk[u].open > 0 => task.status = "open" /\ u = task.assignee

(* So the item is with the assignee, and with nobody it went through.        *)
LEMMA TaskStepInbox ==
    ASSUME TaskTypeOK, Unfiled, OneAnswer, alone, InHand, HasIt, OnlyHe, TaskNext
    PROVE  HasIt' /\ OnlyHe'
  <1> USE DEF TaskTypeOK
  <1>1. \A u \in People : /\ WithBoth(desk[u]).open > 0 /\ Finished(desk[u]).open = 0
                          /\ desk[u].open \in Nat
    BY DeskFacts
  <1>2. task.assignee \in People /\ task'.assignee \in People
    <2>1. TaskTypeOK'
      BY TaskStepTypes
    <2> QED
      BY <2>1 DEF Tasks
  <1>3. ASSUME NEW u \in People, CreateTask(u) PROVE HasIt' /\ OnlyHe'
    <2>1. task'.status = "open" /\ task'.assignee = u /\ desk'[u].open > 0
      BY <1>1, <1>3 DEF CreateTask
    <2>2. \A v \in People \ {u} : desk'[v].open = 0
      BY <1>3 DEF CreateTask, Unfiled, NoTask
    <2>3. steps' \subseteq People
      BY <1>3, TaskAssumption DEF CreateTask
    <2> QED
      BY <2>1, <2>2, <2>3 DEF HasIt, OnlyHe
  <1>4. ASSUME NEW u \in People, LoadTask(u) \/ DropTask(u) PROVE HasIt' /\ OnlyHe'
    BY <1>4 DEF LoadTask, DropTask, HasIt, OnlyHe
  <1>5. ASSUME NEW u \in People, CloseTask(u) PROVE HasIt' /\ OnlyHe'
    <2>1. task.assignee = u
      BY <1>5 DEF CloseTask, InHand, Answering
    <2>2. task'.status = "closed" /\ desk'[u].open = 0 /\ \A v \in People \ {u} : desk'[v] = desk[v]
      BY <1>1, <1>5 DEF CloseTask, Tasks
    <2> QED
      BY <1>5, <2>1, <2>2 DEF CloseTask, HasIt, OnlyHe
  <1>6. ASSUME NEW u \in People, NEW v \in People, HandOn(u, v) PROVE HasIt' /\ OnlyHe'
    <2>1. task.assignee = u /\ txn[u].assignee = u /\ task.status = "open"
      BY <1>6 DEF HandOn, InHand, Answering
    <2>2. task'.assignee = v /\ task'.status = "open"
      BY <1>6, <2>1 DEF HandOn, Kept, Tasks
    <2>3. /\ desk'[u].open = 0 /\ (u # v => desk'[v].open > 0)
          /\ \A w \in People \ {u, v} : desk'[w] = desk[w]
      BY <1>1, <1>6 DEF HandOn
    <2>4. steps' = steps \cup {u, v} /\ (u = v => away')
      BY <1>6 DEF HandOn
    <2>5. HasIt'
      BY <2>2, <2>3, <2>4 DEF HasIt
    <2>6. \A w \in steps' \ Bosses : desk'[w].open > 0 => w = v
      BY <2>1, <2>3, <2>4 DEF OnlyHe
    <2> QED
      BY <2>2, <2>5, <2>6 DEF OnlyHe
  <1>7. ASSUME NEW u \in People, LookAtTask(u) PROVE HasIt' /\ OnlyHe'
    <2>1. desk'[u].open <= desk[u].open /\ \A v \in People \ {u} : desk'[v] = desk[v]
      BY <1>7, LookFacts DEF LookAtTask
    <2>2. desk'[u].open \in Nat /\ desk[u].open \in Nat
      <3>1. desk'[u] \in Desks
        BY <1>7, LookFacts DEF LookAtTask
      <3> QED
        BY <1>1, <3>1, DeskFacts
    <2>3. \A v \in People : desk'[v].open > 0 => desk[v].open > 0
      BY <2>1, <2>2
    <2>4. desk'[task.assignee].open = desk[task.assignee].open \/ away'
      <3>1. u = task.assignee /\ desk'[u].open < desk[u].open => away'
        BY <1>7 DEF LookAtTask
      <3> QED
        BY <1>2, <2>1, <2>2, <3>1
    <2>5. UNCHANGED <<task, steps>> /\ (away => away')
      BY <1>7 DEF LookAtTask
    <2> QED
      BY <2>3, <2>4, <2>5 DEF HasIt, OnlyHe
  <1>8. ASSUME TaskLapse \/ ScanTask PROVE HasIt' /\ OnlyHe'
    <2>1. task'.status = task.status /\ task'.assignee = task.assignee
      BY <1>8 DEF TaskLapse, ScanTask, Tasks
    <2> QED
      BY <1>8, <2>1 DEF TaskLapse, ScanTask, HasIt, OnlyHe
  <1>9. ASSUME AnnounceTask PROVE HasIt' /\ OnlyHe'
    <2>1. task'.status = task.status /\ task'.assignee = task.assignee /\ task.status = "open"
          /\ scan.assignee = task.assignee
      BY <1>9 DEF AnnounceTask, Tasks, InHand
    <2>2. desk'[task.assignee].open > 0
      BY <1>1, <1>2, <1>9, <2>1 DEF AnnounceTask
    <2>3. \A v \in People \ Bosses : v # task.assignee => desk'[v] = desk[v]
      BY <1>9, <2>1 DEF AnnounceTask
    <2> QED
      BY <1>9, <2>1, <2>2, <2>3 DEF AnnounceTask, HasIt, OnlyHe
  <1> QED
    BY <1>3, <1>4, <1>5, <1>6, <1>7, <1>8, <1>9 DEF TaskNext, TaskMoves

(* However answers and the deadline worker follow on each other, and whether *)
(* they take turns or not: the types; and when they do, the item of an open  *)
(* task is with its assignee, unless he put it away himself, and none is     *)
(* left with anybody the task went through.                                  *)
THEOREM TaskReachesInbox == TaskSpec => []TaskIsInInbox
  <1>1. TaskInv /\ [TaskNext]_taskVars => TaskInv'
    <2> SUFFICES ASSUME TaskInv, [TaskNext]_taskVars PROVE TaskInv'
      OBVIOUS
    <2>1. CASE UNCHANGED taskVars
      BY <2>1 DEF taskVars, TaskInv, TaskTypeOK, OneAnswer, Unfiled, InHand, Answering, TaskIsInInbox
    <2>2. CASE TaskNext
      <3>1. TaskTypeOK' /\ Unfiled' /\ OneAnswer' /\ alone' = alone
        BY <2>2, TaskStepTypes DEF TaskInv, TaskNext
      <3>2. alone => InHand'
        BY <2>2, TaskStepInHand DEF TaskInv
      <3>3. alone => HasIt' /\ OnlyHe'
        BY <2>2, TaskStepInbox DEF TaskInv, TaskIsInInbox, HasIt, OnlyHe
      <3> QED
        BY <3>1, <3>2, <3>3 DEF TaskInv, TaskIsInInbox, HasIt, OnlyHe
    <2> QED
      BY <2>1, <2>2
  <1> QED
    BY <1>1, TaskStart, PTL DEF TaskSpec, TaskInv

-----------------------------------------------------------------------------
(* What assignees are told, and who watches them.                           *)

(* He has been told, or has looked since it is his turn.                     *)
ToldOf(o) == LET u == Assignee[o] IN u \in looked \/ (desk[u].open > 0 /\ Bell(desk[u]) > 0)

(* A tail that will tell him; one of a handler that nobody else repeats.     *)
Tells(t, o) == /\ Asks(t) /\ tail[t].at = o
               /\ tail[t].pc = "write" => tail[t].item \/ desk[Assignee[o]].open > 0
Sole(t) == tail[t].pc = "publish" \/ tail[t].about = "previous"
WillTell(o) == \/ \E t \in Handlers : Tells(t, o) /\ Sole(t)
               \/ o \in queue /\ (tail[Consumer].at = o => Tells(Consumer, o))

(* And the same for the record of his deadline.                             *)
Watches(t, o) == /\ Asks(t) /\ tail[t].at = o
                 /\ tail[t].pc = "write" => tail[t].record \/ Records(o) > 0 \/ o \in alarmed
WillWatch(o) == \/ \E t \in Handlers : Watches(t, o) /\ Sole(t)
                \/ o \in queue /\ (tail[Consumer].at = o => Watches(Consumer, o))

EachIsTold == \A o \in Awaited : o \in lost \/ ToldOf(o) \/ WillTell(o)
EachIsWatched == \A o \in Awaited : o \in lost \/ Records(o) > 0 \/ o \in alarmed \/ WillWatch(o)

(* Nobody is told too early; what a handler has yet to publish, nobody has.  *)
NotYet == \A o \in Waiting \ Awaited : o \notin queue /\ \A t \in Tellers : tail[t].at # o
Unpublished == \A h \in Tellers : tail[h].pc = "publish" =>
    /\ tail[h].about = "next" /\ tail[h].at \notin queue
    /\ \A t \in Tellers \ {h} : tail[t].at = tail[h].at => tail[t].about # "next"

TailShape == \A t \in Tellers :
    /\ tail[t].pc = "idle" <=> tail[t] = NoTail
    /\ Asks(t) => tail[t].at \in Steps
    /\ ~Asks(t) => tail[t].at = 0 /\ ~tail[t].record
    /\ tail[t].about = "nothing" <=> tail[t].pc = "idle"
    /\ tail[t].about \in {"approved", "returned"} => instance = tail[t].about
Events == tail[Consumer].about \in {"nothing", "next"}
NoneLeft == instance \in {"approved", "cancelled"} => Waiting = {}

(* When transactions take turns, a deadline runs for the awaited step alone. *)
Deadlines ==
    /\ \A o \in Steps : Records(o) <= 1 /\ (Records(o) > 0 => o \in Awaited \/ instance = "cancelled")
    /\ \A t \in Tellers : tail[t].record =>
          Records(tail[t].at) = 0 /\ (tail[t].at \in Awaited \/ instance = "cancelled")
    /\ \A o \in Steps : cycle[o] = "close" => o \notin Awaited
    /\ EachIsWatched

(* The rows of the tails, and who has one.                                  *)
LEMMA TailTyped ==
    /\ \A pc \in {"idle", "publish", "look", "write"},
          about \in {"nothing", "next", "previous", "approved", "returned"}, o \in Steps \cup {0} :
          TailAt(pc, about, o) \in Tails
    /\ NoTail \in Tails /\ Consumer \in Tellers /\ Handlers \subseteq Tellers /\ Consumer \notin Handlers
    /\ Steps \subseteq Nat /\ 0 \notin Steps /\ Length \in Nat
  BY FeedAssumption DEF TailAt, Tails, NoTail, Tellers, Consumer, Steps

(* There is one first step of a set, at most.                               *)
LEMMA OneFirst == ASSUME NEW S \in SUBSET Steps, NEW n \in FirstOf(S) PROVE FirstOf(S) = {n} /\ n \in S
  <1>1. Steps \subseteq Nat
    BY TailTyped
  <1>2. ASSUME NEW m \in FirstOf(S) PROVE m = n
    <2>1. m \in S /\ n \in S /\ m <= n /\ n <= m
      BY DEF FirstOf
    <2> QED
      BY <1>1, <2>1
  <1> QED
    BY <1>2 DEF FirstOf

(* What a decision does to who is asked, and its tail.                      *)
Decided(h, o, about, n) ==
    /\ tail' = [tail EXCEPT ![h] = TailAt(IF about = "next" THEN "publish" ELSE "look", about, n)]
    /\ Awaited = {o} /\ instance = "in_progress" /\ tail[h] = NoTail
    /\ Waiting' \ Awaited' \subseteq Waiting \ Awaited
    /\ \A q \in Steps : due'[q] \in {due[q], NoRecords}
    /\ due'[o] = NoRecords
    /\ \/ about = "next" /\ n \in Waiting \ Awaited /\ Awaited' = {n} /\ instance' = instance
       \/ about = "previous" /\ n \in Steps /\ Awaited' = {n} /\ instance' = instance
       \/ about \in {"approved", "returned"} /\ n = 0 /\ Awaited' = {} /\ instance' = about
    /\ instance' = "approved" => Waiting' = {}

(* An approval asks the first step that is left, or ends the chain.         *)
LEMMA ApproveDecides ==
    ASSUME FeedTypeOK, NEW h \in Handlers, NEW o \in Steps, ApproveStep(h, o)
    PROVE  \E about \in {"next", "previous", "approved", "returned"}, n \in Steps \cup {0} : Decided(h, o, about, n)
  <1> DEFINE left == Waiting \ PassedWith(o)
  <1>1. instance = "in_progress" /\ o \in FirstOf(Waiting) /\ Waiting \subseteq Steps
    BY DEF ApproveStep, Awaited, Waiting
  <1>2. Awaited = {o} /\ o \in Waiting
    BY <1>1, OneFirst DEF Awaited
  <1>3. o \in PassedWith(o)
    <2>1. \A q \in Waiting : o <= q /\ q <= o => q = o
      BY <1>1, TailTyped
    <2> QED
      BY <1>1, <1>2, <2>1, TailTyped DEF PassedWith
  <1>4. Waiting' = left
    BY DEF ApproveStep, Waiting, PassedWith, FeedTypeOK
  <1>5. (\A q \in Steps : due'[q] \in {due[q], NoRecords}) /\ due'[o] = NoRecords
    BY <1>3 DEF ApproveStep, WithoutRecords
  <1>6. tail[h] = NoTail
    BY DEF ApproveStep
  <1>7. CASE left = {} /\ instance' = "approved" /\ StartTail(h, "approved", 0)
    <2>1. Awaited' = {}
      BY <1>7 DEF Awaited
    <2>2. Decided(h, o, "approved", 0)
      BY <1>1, <1>2, <1>4, <1>5, <1>6, <1>7, <2>1 DEF Decided, StartTail
    <2> QED
      BY <2>2
  <1>8. ASSUME NEW n \in FirstOf(left), StartTail(h, "next", n), UNCHANGED instance
        PROVE  \E m \in Steps \cup {0} : Decided(h, o, "next", m)
    <2>1. n \in left /\ FirstOf(left) = {n}
      BY <1>1, OneFirst
    <2>2. Awaited' = {n}
      BY <1>1, <1>4, <1>8, <2>1 DEF Awaited, FirstOf
    <2>3. n \in Waiting \ Awaited
      BY <1>2, <1>3, <2>1
    <2>4. Waiting' \ Awaited' \subseteq Waiting \ Awaited
      BY <1>2, <1>3, <1>4
    <2>5. Decided(h, o, "next", n)
      BY <1>1, <1>2, <1>5, <1>6, <1>8, <2>2, <2>3, <2>4 DEF Decided, StartTail
    <2> QED
      BY <1>1, <2>3, <2>5
  <1> QED
    BY <1>7, <1>8 DEF ApproveStep

(* A rejection asks the step before, or returns the request.                *)
LEMMA RejectDecides ==
    ASSUME FeedTypeOK, NEW h \in Handlers, NEW o \in Steps, RejectStep(h, o)
    PROVE  \E about \in {"next", "previous", "approved", "returned"}, n \in Steps \cup {0} : Decided(h, o, about, n)
  <1> DEFINE before == LastOf({p \in Steps : p < o})
  <1>1. instance = "in_progress" /\ o \in FirstOf(Waiting) /\ Waiting \subseteq Steps
    BY DEF RejectStep, Awaited, Waiting
  <1>2. Awaited = {o} /\ o \in Waiting /\ \A q \in Waiting : o <= q
    BY <1>1, OneFirst DEF Awaited, FirstOf
  <1>3. \A p \in before : p \in Steps /\ p < o
    BY DEF LastOf
  <1>4. Waiting' = (Waiting \ {o}) \cup before
    BY <1>3, TailTyped DEF RejectStep, Waiting, FeedTypeOK
  <1>5. tail[h] = NoTail
    BY DEF RejectStep
  <1>6. ASSUME NEW p \in before, StartTail(h, "previous", p), due' = WithoutRecords({o}), UNCHANGED instance
        PROVE  \E m \in Steps \cup {0} : Decided(h, o, "previous", m)
    <2>1. \A q \in before : q = p
      <3>1. \A q \in before : q <= p /\ p <= q /\ q \in Nat /\ p \in Nat
        BY <1>3, TailTyped DEF LastOf
      <3> QED
        BY <3>1
    <2>2. ASSUME NEW q \in Waiting' PROVE p <= q
      <3>1. q = p \/ q \in Waiting
        BY <1>4, <2>1, <2>2
      <3>2. p \in Nat /\ q \in Nat /\ o \in Nat /\ p < o
        BY <1>1, <1>3, <2>1, <3>1, TailTyped
      <3> QED
        BY <1>2, <3>1, <3>2
    <2>3. p \in FirstOf(Waiting') /\ Waiting' \subseteq Steps
      BY <1>1, <1>3, <1>4, <2>2 DEF FirstOf
    <2>4. Awaited' = {p}
      <3>1. FirstOf(Waiting') = {p}
        BY <2>3, OneFirst
      <3> QED
        BY <1>1, <1>6, <3>1 DEF Awaited, FirstOf
    <2>5. Waiting' \ Awaited' \subseteq Waiting \ Awaited
      BY <1>2, <1>4, <2>1, <2>4
    <2>6. (\A q \in Steps : due'[q] \in {due[q], NoRecords}) /\ due'[o] = NoRecords
      BY <1>6 DEF WithoutRecords
    <2>7. Decided(h, o, "previous", p)
      BY <1>1, <1>2, <1>3, <1>5, <1>6, <2>4, <2>5, <2>6 DEF Decided, StartTail
    <2> QED
      BY <1>3, <2>7
  <1>7. CASE before = {} /\ instance' = "returned" /\ due' = WithoutRecords(Steps) /\ StartTail(h, "returned", 0)
    <2>1. Awaited' = {}
      BY <1>7 DEF Awaited
    <2>2. (\A q \in Steps : due'[q] \in {due[q], NoRecords}) /\ due'[o] = NoRecords
      BY <1>7 DEF WithoutRecords
    <2>3. Decided(h, o, "returned", 0)
      BY <1>1, <1>2, <1>4, <1>5, <1>7, <2>1, <2>2 DEF Decided, StartTail
    <2> QED
      BY <2>3
  <1> QED
    BY <1>6, <1>7 DEF RejectStep

(* The records of a step as the model counts them.                          *)
LEMMA RecordsTyped ==
    ASSUME NEW r \in RecordRows
    PROVE  /\ r.running \in 0..2 /\ r.past \in 0..2 /\ r.running + r.past \in Nat
           /\ NoRecords \in RecordRows
           /\ [running |-> More(r.running), past |-> r.past] \in RecordRows
           /\ r.running > 0 => [running |-> r.running - 1, past |-> More(r.past)] \in RecordRows
           /\ [running |-> r.running, past |-> 0] \in RecordRows
  <1>1. r.running \in 0..2 /\ r.past \in 0..2
    BY DEF RecordRows
  <1>2. \A n \in 0..2 : More(n) \in 0..2 /\ (n > 0 => n - 1 \in 0..2)
    BY DEF More
  <1>3. 0 \in 0..2
    OBVIOUS
  <1> QED
    BY <1>1, <1>2, <1>3 DEF RecordRows, NoRecords

(* The desks after a commit of a teller: nobody has less than before, unless *)
(* the request went back; and who is asked has something new.               *)
MoreOn(u) == /\ desk'[u].open >= desk[u].open
             /\ (desk[u].open > 0 /\ Bell(desk[u]) > 0) => (desk'[u].open > 0 /\ Bell(desk'[u]) > 0)

(* What is told takes nothing away.                                         *)
LEMMA TellingAdds ==
    ASSUME NEW d \in Desks
    PROVE  /\ WithItem(d).open >= d.open /\ WithNote(d).open >= d.open /\ WithBoth(d).open >= d.open
           /\ Bell(d) > 0 => Bell(WithItem(d)) > 0 /\ Bell(WithNote(d)) > 0 /\ Bell(WithBoth(d)) > 0
  <1>1. d.open \in 0..MaxItems /\ \A n \in 0..MaxItems : Up(n) >= n
    BY InboxAssumption DEF Desks, Up
  <1>2. WithItem(d).open = Up(d.open) /\ WithNote(d).open = d.open /\ WithBoth(d).open = Up(d.open)
    BY DEF WithItem, WithNote, WithBoth
  <1>3. /\ WithItem(d) \in Desks /\ WithItem(d).unread > 0 /\ WithNote(d) \in Desks /\ WithNote(d).note
        /\ WithBoth(d) \in Desks /\ WithBoth(d).note
    BY DeskFacts
  <1>4. Bell(WithItem(d)) > 0 /\ Bell(WithNote(d)) > 0 /\ Bell(WithBoth(d)) > 0
    BY <1>3, DeskFacts
  <1>5. d.open >= d.open /\ Up(d.open) >= d.open
    BY <1>1
  <1> QED
    BY <1>2, <1>4, <1>5

(* A commit of a teller, by its kinds: who is asked has an item and is rung  *)
(* for, and nobody else has less than before.                               *)
LEMMA WriteTells ==
    ASSUME FeedTypeOK, NEW t \in Tellers, Write(t)
    PROVE  /\ desk' \in [People -> Desks]
           /\ tail[t].about # "returned" => \A u \in People : MoreOn(u)
           /\ \A o \in Steps : Tells(t, o) => desk'[Assignee[o]].open > 0 /\ Bell(desk'[Assignee[o]]) > 0
  <1>1. \A u \in People : desk[u] \in Desks /\ desk'[u] = Told(t, u)
    BY DEF FeedTypeOK, Write
  <1>2. Assignee \in [Steps -> People] /\ \A o \in Steps : Assignee[o] # Submitter
    BY FeedAssumption
  <1> DEFINE Better(d, e) == e.open >= d.open /\ (d.open > 0 /\ Bell(d) > 0 => e.open > 0 /\ Bell(e) > 0)
  <1>3. ASSUME NEW d \in Desks, NEW u \in People
        PROVE  ToldSubmitter(t, d, u) \in Desks /\ Better(d, ToldSubmitter(t, d, u))
    <2>1. ToldSubmitter(t, d, u) \in {d, WithBoth(d), WithNote(d)}
      BY DEF ToldSubmitter
    <2>2. WithBoth(d) \in Desks /\ WithNote(d) \in Desks /\ d.open \in Nat
          /\ WithBoth(d).open > 0 /\ WithNote(d).open = d.open
      BY DeskFacts
    <2>3. d.open >= d.open
      BY <2>2
    <2> QED
      BY <2>1, <2>2, <2>3, TellingAdds
  <1>4. ASSUME NEW d \in Desks, NEW u \in People
        PROVE  ToldNext(t, d, u) \in Desks /\ Better(d, ToldNext(t, d, u))
    <2>1. WithItem(d) \in Desks /\ d.open \in Nat /\ WithItem(d).open > 0
      BY DeskFacts
    <2>2. \A e \in Desks : WithNote(e) \in Desks /\ WithNote(e).open = e.open /\ Bell(WithNote(e)) > 0
      <3>1. \A e \in Desks : WithNote(e) \in Desks /\ WithNote(e).open = e.open /\ WithNote(e).note
        BY DeskFacts
      <3> QED
        BY <3>1, DeskFacts
    <2>3. ToldNext(t, d, u) \in {d, WithNote(d), WithNote(WithItem(d))}
      BY DEF ToldNext
    <2>4. d.open >= d.open /\ WithItem(d).open >= d.open
      BY <2>1, TellingAdds
    <2> QED
      BY <2>1, <2>2, <2>3, <2>4
  <1>5. \A d \in Desks : Finished(d) \in Desks
    BY DeskFacts
  <1>6. desk' \in [People -> Desks]
    <2>1. \A u \in People : Told(t, u) \in Desks
      BY <1>1, <1>3, <1>4, <1>5 DEF Told
    <2> QED
      BY <2>1 DEF Write
  <1>7. ASSUME tail[t].about # "returned", NEW u \in People PROVE MoreOn(u)
    <2>1. CASE Asks(t)
      <3> DEFINE e == ToldNext(t, desk[u], u)
      <3>1. desk'[u] = ToldSubmitter(t, e, u)
        BY <1>1, <1>7, <2>1 DEF Told
      <3>2. e \in Desks /\ Better(desk[u], e)
        BY <1>1, <1>4
      <3>3. desk'[u] \in Desks /\ Better(e, desk'[u])
        BY <1>3, <3>1, <3>2
      <3>4. desk[u].open \in Nat /\ e.open \in Nat /\ desk'[u].open \in Nat
        BY <1>1, <3>2, <3>3, DeskFacts
      <3>5. desk'[u].open >= desk[u].open
        BY <3>2, <3>3, <3>4
      <3> QED
        BY <3>2, <3>3, <3>5 DEF MoreOn
    <2>2. CASE ~Asks(t)
      <3>1. desk'[u] = ToldSubmitter(t, desk[u], u)
        BY <1>1, <1>7, <2>2 DEF Told
      <3> QED
        BY <1>1, <1>3, <3>1 DEF MoreOn
    <2> QED
      BY <2>1, <2>2
  <1>8. ASSUME NEW o \in Steps, Tells(t, o)
        PROVE  desk'[Assignee[o]].open > 0 /\ Bell(desk'[Assignee[o]]) > 0
    <2> DEFINE u == Assignee[o]
    <2>1. u \in People /\ u # Submitter /\ desk[u] \in Desks
      BY <1>1, <1>2
    <2>2. Asks(t) /\ tail[t].at = o /\ (tail[t].item \/ desk[u].open > 0)
      BY <1>8 DEF Tells, Write
    <2>3. desk'[u] = WithNote(IF tail[t].item THEN WithItem(desk[u]) ELSE desk[u])
      BY <1>1, <2>1, <2>2 DEF Told, ToldSubmitter, ToldNext, Asks
    <2>4. WithItem(desk[u]) \in Desks /\ WithItem(desk[u]).open > 0
      BY <2>1, DeskFacts
    <2>5. \A e \in Desks : WithNote(e) \in Desks /\ WithNote(e).open = e.open /\ WithNote(e).note
      BY DeskFacts
    <2>6. \A e \in Desks : e.note => Bell(e) > 0
      BY DeskFacts
    <2> HIDE DEF u
    <2>7. desk'[u].open > 0 /\ Bell(desk'[u]) > 0
      BY <2>1, <2>2, <2>3, <2>4, <2>5, <2>6
    <2> QED
      BY <2>7 DEF u
  <1> QED
    BY <1>6, <1>7, <1>8

(* Every step keeps the types.                                              *)
LEMMA FeedTypesStep ==
    ASSUME FeedTypeOK, TailShape, Unpublished, FeedNext
    PROVE  FeedTypeOK'
  <1> USE DEF FeedTypeOK
  <1>1. alone' = alone /\ (\A u \in People : WithBoth(desk[u]) \in Desks /\ Finished(desk[u]) \in Desks
                                                  /\ Withdrawn(desk[u]) \in Desks)
    BY DeskFacts DEF FeedNext
  <1>2. NoRecords \in RecordRows /\ Assignee \in [Steps -> People]
    BY FeedAssumption DEF NoRecords, RecordRows
  <1>3. ASSUME NEW n \in Steps \cup {0}, NEW about \in {"next", "previous", "approved", "returned"}, NEW h \in Tellers,
               StartTail(h, about, n)
        PROVE  tail' \in [Tellers -> Tails]
    <2>1. TailAt(IF about = "next" THEN "publish" ELSE "look", about, n) \in Tails
      BY TailTyped
    <2> QED
      BY <1>3, <2>1 DEF StartTail
  <1>4. ASSUME NEW n \in Steps, TurnOf(n)
        PROVE  alarmed' \subseteq Steps /\ lost' \subseteq Steps /\ looked' \subseteq People
    BY <1>4 DEF TurnOf
  <1>5. \A S : WithoutRecords(S) \in [Steps -> RecordRows]
    BY <1>2 DEF WithoutRecords
  <1>6. ASSUME NEW h \in Handlers, NEW o \in Steps, ApproveStep(h, o) PROVE FeedTypeOK'
    <2>1. h \in Tellers
      BY TailTyped
    <2>2. stage' \in [Steps -> {"pending", "approved", "rejected", "cancelled"}]
      BY <1>6 DEF ApproveStep
    <2>3. desk' \in [People -> Desks] /\ due' \in [Steps -> RecordRows]
      BY <1>1, <1>2, <1>5, <1>6 DEF ApproveStep
    <2>4. CASE instance' = "approved" /\ StartTail(h, "approved", 0) /\ UNCHANGED <<alarmed, looked, lost>>
      BY <1>1, <1>3, <1>6, <2>1, <2>2, <2>3, <2>4 DEF ApproveStep
    <2>5. ASSUME NEW n \in FirstOf(Waiting \ PassedWith(o)), StartTail(h, "next", n), TurnOf(n), UNCHANGED instance
          PROVE FeedTypeOK'
      <3>1. n \in Steps
        BY <2>5 DEF FirstOf, Waiting
      <3> QED
        BY <1>1, <1>3, <1>4, <1>6, <2>1, <2>2, <2>3, <2>5, <3>1 DEF ApproveStep
    <2> QED
      BY <1>6, <2>4, <2>5 DEF ApproveStep
  <1>7. ASSUME NEW h \in Handlers, NEW o \in Steps, RejectStep(h, o) PROVE FeedTypeOK'
    <2>1. h \in Tellers
      BY TailTyped
    <2>2. stage' \in [Steps -> {"pending", "approved", "rejected", "cancelled"}]
      BY <1>7 DEF RejectStep
    <2>3. desk' \in [People -> Desks] /\ due' \in [Steps -> RecordRows]
      <3>1. due' = WithoutRecords({o}) \/ due' = WithoutRecords(Steps)
        BY <1>7 DEF RejectStep
      <3>2. desk' = [desk EXCEPT ![Assignee[o]] = Finished(desk[Assignee[o]])]
        BY <1>7 DEF RejectStep
      <3> QED
        BY <1>1, <1>2, <1>5, <3>1, <3>2
    <2>4. CASE instance' = "returned" /\ StartTail(h, "returned", 0) /\ UNCHANGED <<alarmed, looked, lost>>
      BY <1>1, <1>3, <1>7, <2>1, <2>2, <2>3, <2>4 DEF RejectStep
    <2>5. ASSUME NEW p \in LastOf({q \in Steps : q < o}), StartTail(h, "previous", p), TurnOf(p), UNCHANGED instance
          PROVE FeedTypeOK'
      <3>1. p \in Steps
        BY <2>5 DEF LastOf
      <3> QED
        BY <1>1, <1>3, <1>4, <1>7, <2>1, <2>2, <2>3, <2>5, <3>1 DEF RejectStep
    <2> QED
      BY <1>7, <2>4, <2>5 DEF RejectStep
  <1>8. ASSUME Cancel PROVE FeedTypeOK'
    <2>1. stage' \in [Steps -> {"pending", "approved", "rejected", "cancelled"}]
      BY <1>8 DEF Cancel
    <2>2. desk' \in [People -> Desks]
      BY <1>1, <1>8 DEF Cancel
    <2> QED
      BY <1>1, <1>8, <2>1, <2>2 DEF Cancel
  <1>9. \A t \in Tellers : /\ tail[t].about \in {"nothing", "next", "previous", "approved", "returned"}
                           /\ tail[t].at \in Steps \cup {0}
                           /\ tail[t].item \in BOOLEAN /\ tail[t].record \in BOOLEAN
    BY DEF Tails
  <1>10. ASSUME NEW h \in Handlers, Publish(h) PROVE FeedTypeOK'
    <2>1. h \in Tellers /\ TailAt("look", tail[h].about, tail[h].at) \in Tails
      BY <1>9, TailTyped
    <2>2. tail[h].at \in Steps
      BY <1>10, <2>1 DEF Publish, Unpublished, TailShape, Asks
    <2> QED
      BY <1>1, <1>10, <2>1, <2>2 DEF Publish
  <1>11. ASSUME NEW o \in Steps, Take(o) PROVE FeedTypeOK'
    <2>1. TailAt("look", "next", o) \in Tails
      BY TailTyped
    <2> QED
      BY <1>1, <1>11, <2>1 DEF Take
  <1>12. ASSUME NEW t \in Tellers, LookAround(t) PROVE FeedTypeOK'
    <2>1. PICK i, r, d \in BOOLEAN :
            tail' = [tail EXCEPT ![t] = [pc |-> "write", about |-> @.about, at |-> tail[t].at,
                                         item |-> i, record |-> r, default |-> d]]
      BY <1>12 DEF LookAround, Asks
    <2>2. [pc |-> "write", about |-> tail[t].about, at |-> tail[t].at, item |-> i, record |-> r, default |-> d] \in Tails
      BY <1>9, <2>1 DEF Tails
    <2> QED
      BY <1>1, <1>12, <2>1, <2>2 DEF LookAround
  <1>13. ASSUME NEW t \in Tellers, Write(t) PROVE FeedTypeOK'
    <2>1. desk' \in [People -> Desks]
      BY <1>13, WriteTells
    <2>2. due' \in [Steps -> RecordRows]
      <3>1. \A o \in Steps : [running |-> More(due[o].running), past |-> due[o].past] \in RecordRows
        BY RecordsTyped
      <3> QED
        BY <1>13, <3>1 DEF Write
    <2>3. policy' \in [Steps -> {"none", "active", "inactive"}] /\ tail' \in [Tellers -> Tails]
      BY <1>13, TailTyped DEF Write
    <2>4. queue' \subseteq Steps /\ failures' \in 0..MaxFailures
      <3>1. failures < MaxFailures => failures + 1 \in 0..MaxFailures
        BY FeedAssumption
      <3> QED
        BY <1>13, <3>1 DEF Write
    <2> QED
      BY <1>1, <1>13, <2>1, <2>2, <2>3, <2>4 DEF Write
  <1>14. ASSUME NEW t \in Tellers, Break(t) PROVE FeedTypeOK'
    <2>1. failures' \in 0..MaxFailures
      <3>1. failures < MaxFailures => failures + 1 \in 0..MaxFailures
        BY FeedAssumption
      <3> QED
        BY <1>14, <3>1 DEF Break
    <2>2. lost' \subseteq Steps
      BY <1>14 DEF Break, TailShape
    <2>3. tail' \in [Tellers -> Tails]
      BY <1>14, TailTyped DEF Break
    <2> QED
      BY <1>1, <1>14, <2>1, <2>2, <2>3 DEF Break
  <1>15. ASSUME NEW o \in Steps, Lapse(o) PROVE FeedTypeOK'
    <2>1. [running |-> due[o].running - 1, past |-> More(due[o].past)] \in RecordRows
      BY <1>15, RecordsTyped DEF Lapse
    <2>2. due' = [due EXCEPT ![o] = [running |-> due[o].running - 1, past |-> More(due[o].past)]]
      BY <1>15 DEF Lapse
    <2> QED
      BY <1>1, <1>15, <2>1, <2>2 DEF Lapse
  <1>16. ASSUME Scan PROVE FeedTypeOK'
    <2>1. \A o \in Steps : Verdict(o) \in {"skip", "close", "announce"}
      BY DEF Verdict
    <2> QED
      BY <1>1, <1>16, <2>1 DEF Scan
  <1>17. ASSUME CommitScan PROVE FeedTypeOK'
    <2>1. desk' \in [People -> Desks]
      BY <1>1, <1>17 DEF CommitScan
    <2>2. due' \in [Steps -> RecordRows]
      BY <1>17, RecordsTyped DEF CommitScan
    <2>3. cycle' \in [Steps -> {"skip", "close", "announce"}] /\ alarmed' \subseteq Steps
      BY <1>17 DEF CommitScan, Announced
    <2> QED
      BY <1>1, <1>17, <2>1, <2>2, <2>3 DEF CommitScan
  <1>18. ASSUME FailScan PROVE FeedTypeOK'
    <2>1. failures' \in 0..MaxFailures
      BY <1>18, FeedAssumption DEF FailScan
    <2> QED
      BY <1>1, <1>18, <2>1 DEF FailScan
  <1>19. ASSUME NEW new \in [Steps -> {"none", "active", "inactive"}], EditPolicies(new) PROVE FeedTypeOK'
    <2>1. edits' \in 0..MaxEdits
      BY <1>19, FeedAssumption DEF EditPolicies
    <2> QED
      BY <1>1, <1>19, <2>1 DEF EditPolicies
  <1>20. ASSUME NEW o \in Steps, CreatePolicy(o) \/ SwitchPolicy(o) \/ DeletePolicy(o) PROVE FeedTypeOK'
    <2>1. \A p \in {"none", "active", "inactive"} : [policy EXCEPT ![o] = p] \in [Steps -> {"none", "active", "inactive"}]
      OBVIOUS
    <2> QED
      BY <1>19, <1>20, <2>1 DEF CreatePolicy, SwitchPolicy, DeletePolicy
  <1>21. ASSUME SyncPolicies PROVE FeedTypeOK'
    BY <1>19, <1>21 DEF SyncPolicies
  <1>22. ASSUME NEW u \in People, LookAtDesk(u) PROVE FeedTypeOK'
    <2>1. desk' \in [People -> Desks]
      BY <1>22, LookFacts DEF LookAtDesk
    <2> QED
      BY <1>1, <1>22, <2>1 DEF LookAtDesk
  <1> HIDE DEF FeedTypeOK
  <1> QED
    BY <1>6, <1>7, <1>8, <1>10, <1>11, <1>12, <1>13, <1>14, <1>15, <1>16, <1>17, <1>18, <1>20, <1>21, <1>22
    DEF FeedNext, FeedMoves

(* Where the tails stand, and what has been published.                      *)
FeedShape == NotYet /\ Unpublished /\ TailShape /\ Events /\ NoneLeft

(* Who is awaited follows from the instance and its steps.                  *)
LEMMA WaitingStays == ASSUME UNCHANGED <<instance, stage>> PROVE Waiting' = Waiting /\ Awaited' = Awaited
  BY DEF Waiting, Awaited, FirstOf

(* A decision keeps the shape: nobody had told what it has to tell.         *)
LEMMA ShapeOfDecision ==
    ASSUME FeedTypeOK, FeedShape, NEW h \in Handlers, NEW o \in Steps, UNCHANGED queue,
           NEW about \in {"next", "previous", "approved", "returned"}, NEW n \in Steps \cup {0}, Decided(h, o, about, n)
    PROVE  FeedShape'
  <1> USE DEF FeedShape, FeedTypeOK
  <1> DEFINE new == TailAt(IF about = "next" THEN "publish" ELSE "look", about, n)
  <1>1. tail'[h] = new /\ (\A t \in Tellers \ {h} : tail'[t] = tail[t]) /\ h \in Tellers /\ h # Consumer
    BY TailTyped DEF Decided
  <1>2. /\ new.pc = (IF about = "next" THEN "publish" ELSE "look") /\ new.about = about /\ new.at = n /\ ~new.record
        /\ new # NoTail
    BY DEF TailAt, NoTail
  <1> HIDE DEF new
  <1>3. NotYet'
    <2>1. \A q \in (Waiting \ Awaited)' : q \in Waiting \ Awaited /\ q # n
      BY TailTyped DEF Decided, Waiting
    <2> QED
      BY <1>1, <1>2, <2>1 DEF NotYet
  <1>4. Unpublished'
    <2>1. about = "next" => n \notin queue /\ \A t \in Tellers : tail[t].at # n
      BY DEF Decided, NotYet
    <2>2. tail'[h].pc = "publish" => about = "next"
      BY <1>1, <1>2
    <2>3. ASSUME NEW g \in Tellers, tail'[g].pc = "publish"
          PROVE  /\ tail'[g].about = "next" /\ tail'[g].at \notin queue
                 /\ \A t \in Tellers \ {g} : tail'[t].at = tail'[g].at => tail'[t].about # "next"
      <3>1. CASE g = h
        BY <1>1, <1>2, <2>1, <2>2, <2>3, <3>1
      <3>2. CASE g # h
        <4>1. tail'[g] = tail[g] /\ tail[g].pc = "publish"
          BY <1>1, <2>3, <3>2
        <4>2. \A t \in Tellers \ {g} : tail'[t].at = tail'[g].at => tail'[t].about # "next"
          BY <1>1, <1>2, <2>1, <4>1 DEF Unpublished
        <4> QED
          BY <4>1, <4>2 DEF Unpublished
      <3> QED
        BY <3>1, <3>2
    <2> QED
      BY <2>3 DEF Unpublished
  <1>5. TailShape'
    <2>1. ASSUME NEW t \in Tellers, t # h PROVE tail[t].about \notin {"approved", "returned"}
      BY DEF TailShape, Decided
    <2>2. /\ about \in {"next", "previous"} => n \in Steps
          /\ about \in {"approved", "returned"} => n = 0 /\ instance' = about
      BY DEF Decided, Waiting
    <2>3. new.pc # "idle" /\ about # "nothing"
      BY <1>2
    <2> QED
      BY <1>1, <1>2, <2>1, <2>2, <2>3 DEF TailShape, Asks
  <1>6. Events'
    BY <1>1 DEF Events, Consumer, Tellers
  <1>7. NoneLeft'
    BY DEF Decided, NoneLeft
  <1> QED
    BY <1>3, <1>4, <1>5, <1>6, <1>7

(* So do the steps of a tail.                                               *)
LEMMA ShapeOfTail ==
    ASSUME FeedTypeOK, FeedShape, NEW t \in Tellers,
           Publish(t) \/ (\E o \in Steps : t = Consumer /\ Take(o)) \/ LookAround(t) \/ Write(t) \/ Break(t)
    PROVE  FeedShape'
  <1> USE DEF FeedShape, FeedTypeOK
  <1>1. Waiting' = Waiting /\ Awaited' = Awaited /\ instance' = instance
    BY WaitingStays DEF Publish, Take, LookAround, Write, Break
  <1>2. \A s \in Tellers \ {t} : tail'[s] = tail[s]
    BY DEF Publish, Take, LookAround, Write, Break
  <1>3. NoneLeft'
    BY <1>1 DEF NoneLeft
  <1>4. CASE Publish(t)
    <2>1. tail'[t] = TailAt("look", tail[t].about, tail[t].at) /\ queue' = queue \cup {tail[t].at} /\ tail[t].pc = "publish"
      BY <1>4 DEF Publish
    <2>2. /\ tail'[t].pc = "look" /\ tail'[t].about = tail[t].about /\ tail'[t].at = tail[t].at
          /\ ~tail'[t].record /\ tail'[t] # NoTail
      BY <2>1 DEF TailAt, NoTail
    <2>3. tail[t].about = "next" /\ tail[t].at \in Steps
      BY <2>1 DEF Unpublished, TailShape, Asks
    <2>4. NotYet'
      BY <1>1, <1>2, <2>1, <2>2 DEF NotYet
    <2>5. Unpublished'
      BY <1>2, <2>1, <2>2, <2>3 DEF Unpublished
    <2>6. TailShape'
      BY <1>1, <1>2, <2>2, <2>3 DEF TailShape, Asks
    <2> QED
      BY <1>2, <1>3, <2>2, <2>3, <2>4, <2>5, <2>6, TailTyped DEF Events
  <1>5. ASSUME NEW o \in Steps, t = Consumer, Take(o) PROVE FeedShape'
    <2>1. tail'[t] = TailAt("look", "next", o) /\ queue' = queue /\ o \in queue
      BY <1>5 DEF Take
    <2>2. /\ tail'[t].pc = "look" /\ tail'[t].about = "next" /\ tail'[t].at = o
          /\ ~tail'[t].record /\ tail'[t] # NoTail
      BY <2>1 DEF TailAt, NoTail
    <2>4. NotYet'
      BY <1>1, <1>2, <2>1, <2>2 DEF NotYet
    <2>5. Unpublished'
      BY <1>2, <2>1, <2>2 DEF Unpublished
    <2>6. TailShape'
      BY <1>1, <1>2, <2>2 DEF TailShape, Asks
    <2> QED
      BY <1>3, <1>5, <2>2, <2>4, <2>5, <2>6 DEF Events
  <1>6. CASE LookAround(t)
    <2>1. /\ tail'[t].pc = "write" /\ tail'[t].about = tail[t].about /\ tail'[t].at = tail[t].at
          /\ (tail'[t].record => Asks(t)) /\ tail[t].pc = "look" /\ queue' = queue
      BY <1>6 DEF LookAround
    <2>2. tail'[t] # NoTail /\ tail[t].about # "nothing"
      BY <2>1 DEF NoTail, TailAt, TailShape
    <2>4. NotYet'
      BY <1>1, <1>2, <2>1 DEF NotYet
    <2>5. Unpublished'
      BY <1>2, <2>1 DEF Unpublished
    <2>6. TailShape'
      BY <1>1, <1>2, <2>1, <2>2 DEF TailShape, Asks
    <2> QED
      BY <1>2, <1>3, <2>1, <2>4, <2>5, <2>6, TailTyped DEF Events
  <1>7. CASE Write(t) \/ Break(t)
    <2>1. tail'[t] = NoTail /\ queue' \subseteq queue
      BY <1>7 DEF Write, Break
    <2>2. NoTail.pc = "idle" /\ NoTail.at = 0 /\ NoTail.about = "nothing" /\ ~NoTail.record
      BY DEF NoTail, TailAt
    <2>3. \A q \in Waiting : q # 0
      BY TailTyped DEF Waiting
    <2>4. NotYet'
      BY <1>1, <1>2, <2>1, <2>2, <2>3 DEF NotYet
    <2>5. Unpublished'
      BY <1>2, <2>1, <2>2 DEF Unpublished
    <2>6. TailShape'
      BY <1>1, <1>2, <2>1, <2>2 DEF TailShape, Asks
    <2> QED
      BY <1>2, <1>3, <2>1, <2>2, <2>4, <2>5, <2>6, TailTyped DEF Events
  <1> QED
    BY <1>4, <1>5, <1>6, <1>7

(* And all that touches neither tails nor events.                           *)
LEMMA ShapeOfRest ==
    ASSUME FeedTypeOK, FeedShape, UNCHANGED <<tail, queue>>, Cancel \/ UNCHANGED <<instance, stage>>
    PROVE  FeedShape'
  <1> USE DEF FeedShape, FeedTypeOK
  <1>1. CASE UNCHANGED <<instance, stage>>
    BY <1>1, WaitingStays DEF NotYet, Unpublished, TailShape, Events, NoneLeft, Asks
  <1>2. CASE Cancel
    <2>1. Waiting' = {}
      BY <1>2 DEF Cancel, Waiting
    <2>2. \A t \in Tellers : tail[t].about \notin {"approved", "returned"}
      BY <1>2 DEF TailShape, Cancel
    <2> QED
      BY <2>1, <2>2 DEF NotYet, Unpublished, TailShape, Events, NoneLeft, Asks
  <1> QED
    BY <1>1, <1>2

(* Together: every step keeps the shape.                                    *)
LEMMA FeedShapeStep ==
    ASSUME FeedTypeOK, FeedShape, FeedNext
    PROVE  FeedShape'
  <1>1. ASSUME NEW h \in Handlers, NEW o \in Steps, ApproveStep(h, o) \/ RejectStep(h, o) PROVE FeedShape'
    <2>1. \E about \in {"next", "previous", "approved", "returned"}, n \in Steps \cup {0} : Decided(h, o, about, n)
      BY <1>1, ApproveDecides, RejectDecides
    <2>2. UNCHANGED queue
      BY <1>1 DEF ApproveStep, RejectStep
    <2> QED
      BY <2>1, <2>2, ShapeOfDecision
  <1>2. ASSUME NEW t \in Tellers,
               (t \in Handlers /\ Publish(t)) \/ LookAround(t) \/ Write(t) \/ Break(t) PROVE FeedShape'
    BY <1>2, ShapeOfTail
  <1>3. ASSUME NEW o \in Steps, Take(o) PROVE FeedShape'
    BY <1>3, ShapeOfTail, TailTyped
  <1>4. ASSUME \/ \E o \in Steps : Lapse(o) \/ CreatePolicy(o) \/ SwitchPolicy(o) \/ DeletePolicy(o)
               \/ Scan \/ CommitScan \/ FailScan \/ SyncPolicies \/ \E u \in People : LookAtDesk(u)
        PROVE  UNCHANGED <<tail, queue, instance, stage>>
    BY <1>4 DEF Lapse, CreatePolicy, SwitchPolicy, DeletePolicy, Scan, CommitScan, FailScan, SyncPolicies, LookAtDesk, EditPolicies
  <1>5. ASSUME Cancel PROVE FeedShape'
    BY <1>5, ShapeOfRest DEF Cancel
  <1> QED
    BY <1>1, <1>2, <1>3, <1>4, <1>5, ShapeOfRest, TailTyped DEF FeedNext, FeedMoves

(* A decision leaves a tail that tells whoever is asked next, and watches.   *)
LEMMA DecisionIsFollowed ==
    ASSUME FeedTypeOK, NEW h \in Handlers, NEW o \in Steps,
           NEW about \in {"next", "previous", "approved", "returned"}, NEW n \in Steps \cup {0}, Decided(h, o, about, n)
    PROVE  \A q \in Awaited' : (Tells(h, q) /\ Watches(h, q) /\ Sole(h))'
  <1> DEFINE new == TailAt(IF about = "next" THEN "publish" ELSE "look", about, n)
  <1>1. tail'[h] = new
    BY TailTyped DEF Decided, FeedTypeOK
  <1>2. new.pc = (IF about = "next" THEN "publish" ELSE "look") /\ new.about = about /\ new.at = n
    BY DEF TailAt
  <1> HIDE DEF new
  <1>3. \A q \in Awaited' : about \in {"next", "previous"} /\ q = n
    BY DEF Decided
  <1> QED
    BY <1>1, <1>2, <1>3 DEF Tells, Watches, Sole, Asks

(* Who has been told stays told while his desk gets no emptier.             *)
LEMMA ToldStays ==
    ASSUME FeedTypeOK, NEW o \in Steps, ToldOf(o), looked \subseteq looked', MoreOn(Assignee[o])
    PROVE  ToldOf(o)'
  BY DEF ToldOf, MoreOn

(* A tail that will tell him still will, while another one moves.           *)
LEMMA TailOfStays ==
    ASSUME FeedTypeOK, NEW o \in Steps, NEW t \in Tellers, tail'[t] = tail[t], Tells(t, o),
           desk[Assignee[o]].open > 0 => desk'[Assignee[o]].open > 0
    PROVE  Tells(t, o)' /\ Sole(t)' = Sole(t)
  BY DEF Tells, Sole, Asks

(* An open item stays open on a desk that gets no emptier.                  *)
LEMMA OpenStays == ASSUME FeedTypeOK, FeedTypeOK', NEW u \in People, MoreOn(u)
                   PROVE  desk[u].open > 0 => desk'[u].open > 0
  <1>1. desk[u].open \in Nat /\ desk'[u].open \in Nat
    BY DeskFacts DEF FeedTypeOK
  <1> QED
    BY <1>1 DEF MoreOn

(* Tails tell what they have to, or pass it on: the handler to the event it  *)
(* publishes, the event to the consumer; or it is known to be lost.         *)
LEMMA ToldByTail ==
    ASSUME FeedTypeOK, FeedTypeOK', FeedShape, EachIsTold, NEW t \in Tellers,
           (t \in Handlers /\ Publish(t)) \/ (\E o \in Steps : t = Consumer /\ Take(o)) \/ LookAround(t) \/ Write(t) \/ Break(t)
    PROVE  EachIsTold'
  <1> USE DEF FeedShape
  <1>1. Waiting' = Waiting /\ Awaited' = Awaited /\ instance' = instance /\ looked' = looked /\ lost \subseteq lost'
    BY WaitingStays DEF Publish, Take, LookAround, Write, Break
  <1>2. \A s \in Tellers \ {t} : tail'[s] = tail[s]
    BY DEF Publish, Take, LookAround, Write, Break, FeedTypeOK
  <1>3. Handlers \subseteq Tellers /\ Consumer \in Tellers /\ Consumer \notin Handlers /\ Steps \subseteq Nat /\ 0 \notin Steps
    BY TailTyped
  <1> SUFFICES ASSUME NEW o \in Awaited, o \notin lost' PROVE ToldOf(o)' \/ WillTell(o)'
    BY <1>1 DEF EachIsTold
  <1>4. o \in Steps /\ Assignee[o] \in People /\ (ToldOf(o) \/ WillTell(o)) /\ instance = "in_progress"
    BY <1>1, FeedAssumption DEF Awaited, FirstOf, Waiting, EachIsTold
  <1>5. MoreOn(Assignee[o])
    <2>1. CASE Write(t)
      <3>1. tail[t].about # "returned"
        BY <1>4 DEF TailShape
      <3> QED
        BY <1>4, <2>1, <3>1, WriteTells
    <2>2. CASE desk' = desk
      <3>1. desk[Assignee[o]].open \in Nat
        BY <1>4, DeskFacts DEF FeedTypeOK
      <3>2. desk[Assignee[o]].open >= desk[Assignee[o]].open
        BY <3>1
      <3> QED
        BY <2>2, <3>2 DEF MoreOn, Bell
    <2> QED
      BY <2>1, <2>2 DEF Publish, Take, LookAround, Break
  <1>6. desk[Assignee[o]].open > 0 => desk'[Assignee[o]].open > 0
    BY <1>4, <1>5, OpenStays
  <1>7. CASE ToldOf(o)
    BY <1>1, <1>4, <1>5, <1>7, ToldStays
  <1>8. CASE WillTell(o)
    <2>1. ASSUME NEW s \in Handlers, s # t, Tells(s, o), Sole(s) PROVE WillTell(o)'
      BY <1>2, <1>3, <1>4, <1>6, <2>1, TailOfStays DEF WillTell
    <2>2. ASSUME o \in queue, tail[Consumer].at = o => Tells(Consumer, o), t # Consumer PROVE WillTell(o)'
      <3>1. o \in queue' /\ tail'[Consumer] = tail[Consumer]
        BY <1>2, <1>3, <2>2 DEF Publish, Take, LookAround, Write, Break
      <3> QED
        BY <1>3, <1>4, <1>6, <2>2, <3>1, TailOfStays DEF WillTell
    <2>3. ASSUME o \in queue, tail[Consumer].at = o => Tells(Consumer, o), t = Consumer PROVE ToldOf(o)' \/ WillTell(o)'
      <3>1. CASE Write(t)
        <4>1. CASE tail[t].at = o
          BY <1>4, <2>3, <3>1, <4>1, WriteTells DEF ToldOf
        <4>2. CASE tail[t].at # o
          <5>1. o \in queue' /\ tail'[t] = NoTail
            BY <2>3, <3>1, <4>2 DEF Write, FeedTypeOK
          <5> QED
            BY <1>3, <1>4, <2>3, <5>1 DEF WillTell, NoTail, TailAt
        <4> QED
          BY <4>1, <4>2
      <3>2. CASE Break(t)
        <4>1. o \in queue' /\ tail'[t] = NoTail
          BY <2>3, <3>2 DEF Break, FeedTypeOK
        <4> QED
          BY <1>3, <1>4, <2>3, <4>1 DEF WillTell, NoTail, TailAt
      <3>3. CASE LookAround(t)
        <4>1. /\ o \in queue' /\ tail'[t].at = tail[t].at /\ tail'[t].about = tail[t].about
              /\ tail'[t].item = (Asks(t) /\ LacksItem(Assignee[tail[t].at])) /\ desk' = desk
          BY <2>3, <3>3 DEF LookAround, FeedTypeOK
        <4>2. desk[Assignee[o]].open \in Nat
          BY <1>4, DeskFacts DEF FeedTypeOK
        <4>3. tail[t].at = o => Tells(t, o)'
          <5>1. desk[Assignee[o]].open = 0 \/ desk[Assignee[o]].open > 0
            BY <4>2
          <5>2. tail[t].at = o => Asks(t) /\ Asks(t)'
            BY <2>3, <4>1 DEF Tells, Asks
          <5>3. tail[t].at = o => tail'[t].item \/ desk'[Assignee[o]].open > 0
            BY <4>1, <5>1, <5>2 DEF LacksItem
          <5> QED
            BY <4>1, <5>2, <5>3 DEF Tells
        <4> QED
          BY <2>3, <4>1, <4>3 DEF WillTell
      <3>4. ASSUME NEW q \in Steps, Take(q) PROVE WillTell(o)'
        <4>1. o \in queue' /\ tail'[Consumer] = TailAt("look", "next", q)
          BY <1>3, <2>3, <3>4 DEF Take, FeedTypeOK
        <4> QED
          BY <4>1 DEF WillTell, Tells, Asks, TailAt
      <3> QED
        BY <1>3, <2>3, <3>1, <3>2, <3>3, <3>4
    <2>4. ASSUME t \in Handlers, Tells(t, o), Sole(t) PROVE ToldOf(o)' \/ WillTell(o)'
      <3>1. CASE Publish(t)
        <4>1. o \in queue' /\ tail[t].pc = "publish" /\ tail[t].at = o
          BY <2>4, <3>1 DEF Publish, Tells
        <4>2. tail[Consumer].at # o
          <5>1. tail[Consumer].at = o => tail[Consumer].about # "next"
            BY <1>3, <2>4, <4>1 DEF Unpublished
          <5>2. tail[Consumer].about = "nothing" => tail[Consumer].at = 0
            BY <1>3 DEF TailShape, Asks
          <5> QED
            BY <1>3, <1>4, <5>1, <5>2 DEF Events
        <4>3. tail'[Consumer] = tail[Consumer]
          BY <1>2, <1>3, <2>4
        <4> QED
          BY <4>1, <4>2, <4>3 DEF WillTell
      <3>2. CASE LookAround(t)
        <4>1. /\ tail'[t].at = tail[t].at /\ tail'[t].about = tail[t].about /\ tail[t].pc = "look"
              /\ tail'[t].item = (Asks(t) /\ LacksItem(Assignee[tail[t].at])) /\ desk' = desk
          BY <3>2 DEF LookAround, FeedTypeOK
        <4>2. desk[Assignee[o]].open \in Nat
          BY <1>4, DeskFacts DEF FeedTypeOK
        <4>3. Tells(t, o)' /\ Sole(t)'
          <5>1. desk[Assignee[o]].open = 0 \/ desk[Assignee[o]].open > 0
            BY <4>2
          <5>2. tail[t].at = o /\ Asks(t) /\ Asks(t)' /\ Sole(t)'
            BY <2>4, <4>1 DEF Tells, Asks, Sole
          <5>3. tail'[t].item \/ desk'[Assignee[o]].open > 0
            BY <4>1, <5>1, <5>2 DEF LacksItem
          <5> QED
            BY <4>1, <5>2, <5>3 DEF Tells
        <4> QED
          BY <2>4, <4>3 DEF WillTell
      <3>3. CASE Write(t)
        BY <1>4, <2>4, <3>3, WriteTells DEF ToldOf
      <3>4. CASE Break(t)
        <4>1. o \in lost'
          BY <2>4, <3>4 DEF Break, Tells, Sole
        <4> QED
          BY <4>1
      <3> QED
        BY <1>3, <2>4, <3>1, <3>2, <3>3, <3>4
    <2> QED
      BY <1>8, <2>1, <2>2, <2>3, <2>4 DEF WillTell
  <1> QED
    BY <1>4, <1>7, <1>8

(* Whatever leaves tails and events alone takes nothing from who was told.  *)
LEMMA ToldByRest ==
    ASSUME FeedTypeOK, FeedTypeOK', EachIsTold, UNCHANGED <<tail, queue, instance, stage, lost>>,
           \A o \in Steps : ToldOf(o) => ToldOf(o)',
           \A o \in Steps : ToldOf(o)' \/ (desk[Assignee[o]].open > 0 => desk'[Assignee[o]].open > 0)
    PROVE  EachIsTold'
  <1>1. Awaited' = Awaited /\ Awaited \subseteq Steps
    BY WaitingStays DEF Awaited, FirstOf, Waiting
  <1>2. ASSUME NEW o \in Awaited, WillTell(o) PROVE ToldOf(o)' \/ WillTell(o)'
    <2>1. \A t \in Tellers : Tells(t, o) => ToldOf(o)' \/ (Tells(t, o)' /\ Sole(t)' = Sole(t))
      BY <1>1, TailOfStays
    <2> QED
      BY <1>2, <2>1, TailTyped DEF WillTell
  <1> QED
    BY <1>1, <1>2 DEF EachIsTold

(* Together: in every step, whoever is asked has been told or will be.      *)
LEMMA FeedTold ==
    ASSUME FeedTypeOK, FeedTypeOK', FeedShape, EachIsTold, FeedNext
    PROVE  EachIsTold'
  <1>1. ASSUME NEW h \in Handlers, NEW o \in Steps, ApproveStep(h, o) \/ RejectStep(h, o) PROVE EachIsTold'
    <2>1. \E about \in {"next", "previous", "approved", "returned"}, n \in Steps \cup {0} : Decided(h, o, about, n)
      BY <1>1, ApproveDecides, RejectDecides
    <2>2. \A q \in Awaited' : (Tells(h, q) /\ Sole(h))'
      BY <2>1, DecisionIsFollowed
    <2> QED
      BY <2>2 DEF EachIsTold, WillTell
  <1>2. ASSUME NEW t \in Tellers,
               (t \in Handlers /\ Publish(t)) \/ LookAround(t) \/ Write(t) \/ Break(t) PROVE EachIsTold'
    BY <1>2, ToldByTail
  <1>3. ASSUME NEW o \in Steps, Take(o) PROVE EachIsTold'
    BY <1>3, ToldByTail, TailTyped
  <1>4. ASSUME Cancel PROVE EachIsTold'
    BY <1>4 DEF Cancel, EachIsTold, Awaited
  <1>5. \A o \in Steps : Assignee[o] \in People
    BY FeedAssumption
  <1>6. ASSUME \/ \E o \in Steps : Lapse(o) \/ CreatePolicy(o) \/ SwitchPolicy(o) \/ DeletePolicy(o)
               \/ Scan \/ FailScan \/ SyncPolicies
        PROVE  EachIsTold'
    <2>1. UNCHANGED <<desk, looked, tail, queue, instance, stage, lost>>
      BY <1>6 DEF Lapse, CreatePolicy, SwitchPolicy, DeletePolicy, Scan, FailScan, SyncPolicies, EditPolicies
    <2>2. \A o \in Steps : ToldOf(o) => ToldOf(o)'
      BY <2>1 DEF ToldOf, Bell
    <2> QED
      BY <2>1, <2>2, ToldByRest
  <1>7. ASSUME CommitScan PROVE EachIsTold'
    <2>1. ASSUME NEW u \in People PROVE MoreOn(u)
      <3>1. desk'[u] = WithBoth(desk[u]) \/ desk'[u] = desk[u]
        BY <1>7 DEF CommitScan
      <3>2. WithBoth(desk[u]).open > 0 /\ desk[u].open \in Nat /\ WithBoth(desk[u]).open >= desk[u].open
            /\ (Bell(desk[u]) > 0 => Bell(WithBoth(desk[u])) > 0)
        BY DeskFacts, TellingAdds DEF FeedTypeOK
      <3>3. desk[u].open >= desk[u].open
        BY <3>2
      <3> QED
        BY <3>1, <3>2, <3>3 DEF MoreOn
    <2>2. UNCHANGED <<looked, tail, queue, instance, stage, lost>>
      BY <1>7 DEF CommitScan
    <2>3. \A o \in Steps : ToldOf(o) => ToldOf(o)'
      BY <1>5, <2>1, <2>2, ToldStays
    <2>4. \A o \in Steps : desk[Assignee[o]].open > 0 => desk'[Assignee[o]].open > 0
      BY <1>5, <2>1, OpenStays
    <2> QED
      BY <2>2, <2>3, <2>4, ToldByRest
  <1>8. ASSUME NEW u \in People, LookAtDesk(u) PROVE EachIsTold'
    <2>1. UNCHANGED <<tail, queue, instance, stage, lost>> /\ looked' = looked \cup {u}
      BY <1>8 DEF LookAtDesk
    <2>2. \A v \in People \ {u} : desk'[v] = desk[v]
      BY <1>8, LookFacts DEF LookAtDesk, FeedTypeOK
    <2>3. \A o \in Steps : ToldOf(o) => ToldOf(o)'
      BY <1>5, <2>1, <2>2 DEF ToldOf, Bell
    <2>4. \A o \in Steps : ToldOf(o)' \/ (desk[Assignee[o]].open > 0 => desk'[Assignee[o]].open > 0)
      BY <1>5, <2>1, <2>2 DEF ToldOf
    <2> QED
      BY <2>1, <2>3, <2>4, ToldByRest
  <1> QED
    BY <1>1, <1>2, <1>3, <1>4, <1>6, <1>7, <1>8, TailTyped DEF FeedNext, FeedMoves

(* The records of a step are a number.                                      *)
LEMMA RecordsAre == ASSUME FeedTypeOK, NEW o \in Steps
                    PROVE  /\ Records(o) \in Nat /\ due[o] \in RecordRows
                           /\ due[o].running \in 0..2 /\ due[o].past \in 0..2
                           /\ Records(o) = due[o].running + due[o].past
  BY RecordsTyped DEF FeedTypeOK, Records

(* In turn, whoever is busy is so alone, and the worker rests.              *)
LEMMA OneBusy == ASSUME alone, InTurn, NEW t \in Tellers, tail[t] # NoTail
                 PROVE  Resting /\ \A s \in Tellers \ {t} : tail[s] = NoTail
  BY DEF InTurn, Busy

(* A decision closes every deadline that runs.                              *)
LEMMA DeadlinesByDecision ==
    ASSUME FeedTypeOK, FeedTypeOK', alone', InTurn', Deadlines, NEW h \in Handlers, NEW o \in Steps,
           NEW about \in {"next", "previous", "approved", "returned"}, NEW n \in Steps \cup {0}, Decided(h, o, about, n)
    PROVE  Deadlines'
  <1>1. tail'[h] = TailAt(IF about = "next" THEN "publish" ELSE "look", about, n) /\ h \in Tellers
    BY TailTyped DEF Decided, FeedTypeOK
  <1>2. ~tail'[h].record /\ tail'[h] # NoTail /\ ~NoTail.record
    BY <1>1 DEF TailAt, NoTail
  <1>3. Resting' /\ \A t \in Tellers \ {h} : tail'[t] = NoTail
    BY <1>1, <1>2 DEF InTurn, Busy
  <1>4. ASSUME NEW q \in Steps PROVE Records(q)' = 0
    <2>1. 0 = NoRecords.running + NoRecords.past
      BY DEF NoRecords
    <2>2. due[q] = due'[q] => Records(q)' = Records(q)
      BY DEF Records
    <2>3. q # o => ~(Records(q) > 0)
      BY DEF Deadlines, Decided
    <2>4. Records(q) \in Nat
      BY RecordsAre
    <2>5. due'[q] = NoRecords \/ (due'[q] = due[q] /\ q # o)
      BY DEF Decided
    <2> QED
      BY <2>1, <2>2, <2>3, <2>4, <2>5 DEF Records
  <1>5. EachIsWatched'
    BY DecisionIsFollowed DEF EachIsWatched, WillWatch
  <1>6. \A q \in Steps : cycle'[q] = "skip"
    BY <1>3 DEF Resting
  <1> QED
    BY <1>2, <1>3, <1>4, <1>5, <1>6 DEF Deadlines

(* A tail opens the one of the awaited step, unless it has one.             *)
LEMMA DeadlinesByTail ==
    ASSUME FeedTypeOK, FeedTypeOK', FeedShape, alone, alone', InTurn, InTurn', Deadlines, NEW t \in Tellers,
           (t \in Handlers /\ Publish(t)) \/ (\E o \in Steps : t = Consumer /\ Take(o)) \/ LookAround(t) \/ Write(t) \/ Break(t)
    PROVE  Deadlines'
  <1> USE DEF FeedShape
  <1>1. /\ Waiting' = Waiting /\ Awaited' = Awaited /\ instance' = instance /\ alarmed' = alarmed
        /\ lost \subseteq lost' /\ cycle' = cycle
    BY WaitingStays DEF Publish, Take, LookAround, Write, Break
  <1>2. \A s \in Tellers \ {t} : tail'[s] = tail[s]
    BY DEF Publish, Take, LookAround, Write, Break, FeedTypeOK
  <1>3. Handlers \subseteq Tellers /\ Consumer \in Tellers /\ Consumer \notin Handlers /\ Steps \subseteq Nat /\ 0 \notin Steps
    BY TailTyped
  <1>4. NoTail.at = 0 /\ NoTail.pc = "idle" /\ NoTail.about = "nothing" /\ ~NoTail.record
    BY DEF NoTail, TailAt
  <1>5. Resting /\ \A s \in Tellers \ {t} : tail[s] = NoTail
    <2>1. tail[t] # NoTail \/ tail'[t] # NoTail
      <3>1. CASE \E o \in Steps : t = Consumer /\ Take(o)
        BY <3>1 DEF Take, FeedTypeOK, TailAt, NoTail
      <3>2. CASE Publish(t) \/ LookAround(t) \/ Write(t)
        BY <1>4, <3>2 DEF Publish, LookAround, Write
      <3> QED
        BY <3>1, <3>2 DEF Break
    <2>2. CASE tail[t] # NoTail
      BY <2>2, OneBusy
    <2>3. CASE tail'[t] # NoTail
      <3>1. Resting' /\ \A s \in Tellers \ {t} : tail'[s] = NoTail
        BY <2>3 DEF InTurn, Busy
      <3> QED
        BY <1>1, <1>2, <3>1 DEF Resting
    <2> QED
      BY <2>1, <2>2, <2>3
  <1>6. \A o \in Steps : cycle'[o] = "skip"
    BY <1>1, <1>5 DEF Resting
  <1>7. \A s \in Tellers \ {t} : tail[s] = NoTail /\ tail'[s] = NoTail
    BY <1>2, <1>5
  <1>8. Awaited \subseteq Steps
    BY DEF Awaited, FirstOf, Waiting
  (* The records of the step that is written, and of every other. *)
  <1>9. ASSUME NEW o \in Steps PROVE \/ Records(o)' = Records(o) /\ ~(Write(t) /\ tail[t].at = o /\ tail[t].record)
                                     \/ /\ Write(t) /\ tail[t].at = o /\ tail[t].record
                                        /\ Records(o) = 0 /\ Records(o)' = 1
    <2>1. CASE due'[o] = due[o] /\ ~(Write(t) /\ tail[t].at = o /\ tail[t].record)
      BY <2>1 DEF Records
    <2>2. CASE Write(t) /\ tail[t].at = o /\ tail[t].record
      <3>1. Records(o) = 0
        BY <2>2 DEF Deadlines
      <3>2. due[o].running = 0 /\ due[o].past = 0
        BY <3>1, RecordsAre
      <3>3. due'[o] = [running |-> More(0), past |-> 0]
        BY <2>2, <3>2 DEF Write, FeedTypeOK
      <3>4. Records(o)' = 1
        BY <3>3 DEF Records, More
      <3> QED
        BY <2>2, <3>1, <3>4
    <2> QED
      BY <2>1, <2>2 DEF Publish, Take, LookAround, Write, Break, FeedTypeOK
  <1>10. \A o \in Steps : /\ Records(o)' <= 1
                          /\ Records(o)' > 0 => o \in Awaited \/ instance = "cancelled"
                          /\ Records(o) > 0 => Records(o)' > 0
    <2> SUFFICES ASSUME NEW o \in Steps
                 PROVE  /\ Records(o)' <= 1
                        /\ Records(o)' > 0 => o \in Awaited \/ instance = "cancelled"
                        /\ Records(o) > 0 => Records(o)' > 0
      OBVIOUS
    <2>1. CASE Records(o)' = Records(o)
      BY <2>1 DEF Deadlines
    <2>2. CASE Write(t) /\ tail[t].at = o /\ tail[t].record /\ Records(o) = 0 /\ Records(o)' = 1
      BY <2>2 DEF Deadlines
    <2> QED
      BY <1>9, <2>1, <2>2
  <1>11. ASSUME tail'[t].record
         PROVE  Records(tail[t].at)' = 0 /\ tail'[t].at = tail[t].at /\ (tail[t].at \in Awaited \/ instance = "cancelled")
    <2>1. CASE LookAround(t)
      <3>1. /\ tail'[t].at = tail[t].at /\ due' = due
            /\ Asks(t) /\ LacksRecord(tail[t].at)
        BY <1>11, <2>1 DEF LookAround, FeedTypeOK
      <3>2. tail[t].at \in Waiting /\ Records(tail[t].at) = 0
        BY <3>1 DEF LacksRecord, FirstOf
      <3>3. tail[t].at \in Awaited
        BY <3>2 DEF NotYet
      <3> QED
        BY <3>1, <3>2, <3>3 DEF Records
    <2>2. CASE ~LookAround(t)
      <3>1. PICK r \in {NoTail} \cup {TailAt("look", about, o) : about \in {"next", tail[t].about}, o \in Steps \cup {0}} :
              tail'[t] = r
        <4>1. CASE Publish(t)
          BY <4>1 DEF Publish, FeedTypeOK, Tails
        <4>2. CASE \E o \in Steps : Take(o) /\ t = Consumer
          BY <4>2 DEF Take, FeedTypeOK
        <4>3. CASE Write(t) \/ Break(t)
          BY <4>3 DEF Write, Break, FeedTypeOK
        <4> QED
          BY <2>2, <4>1, <4>2, <4>3
      <3>2. ~r.record
        BY <1>4, <3>1 DEF TailAt
      <3> QED
        BY <1>11, <3>1, <3>2
    <2> QED
      BY <2>1, <2>2
  <1>12. EachIsWatched'
    <2> SUFFICES ASSUME NEW o \in Awaited, o \notin lost', ~(Records(o)' > 0), o \notin alarmed PROVE WillWatch(o)'
      BY <1>1 DEF EachIsWatched
    <2>1. o \in Steps /\ ~(Records(o) > 0) /\ WillWatch(o)
      BY <1>1, <1>8, <1>10 DEF Deadlines, EachIsWatched
    <2>2. tail[Consumer].at = o => t = Consumer
      BY <1>3, <1>4, <1>7, <2>1
    <2>3. ASSUME Watches(t, o) PROVE ~Write(t)
      <3>1. SUFFICES ASSUME Write(t) PROVE FALSE
        OBVIOUS
      <3>2. tail[t].record /\ tail[t].at = o
        BY <2>1, <2>3, <3>1 DEF Watches, Write
      <3> QED
        BY <1>9, <2>1, <3>1, <3>2
    <2>4. ASSUME Watches(t, o), LookAround(t) PROVE Watches(t, o)' /\ Sole(t)' = (tail[t].about = "previous") /\ tail[t].pc = "look"
      <3>1. /\ tail'[t].at = tail[t].at /\ tail'[t].about = tail[t].about /\ tail[t].pc = "look" /\ tail'[t].pc = "write"
            /\ tail'[t].record = (Asks(t) /\ LacksRecord(tail[t].at))
        BY <2>4 DEF LookAround, FeedTypeOK
      <3>2. o \in FirstOf(Waiting) /\ Records(o) = 0
        BY <2>1, RecordsAre DEF Awaited
      <3>3. tail'[t].record
        BY <2>4, <3>1, <3>2 DEF Watches, LacksRecord
      <3> QED
        BY <2>4, <3>1, <3>3 DEF Watches, Sole, Asks
    <2>5. CASE t \in Handlers /\ Watches(t, o) /\ Sole(t)
      <3>1. CASE Publish(t)
        <4>1. o \in queue' /\ tail'[Consumer].at # o
          BY <1>3, <1>4, <1>7, <2>1, <2>5, <3>1 DEF Publish, Watches
        <4> QED
          BY <4>1 DEF WillWatch
      <3>2. CASE LookAround(t)
        <4>1. Watches(t, o)' /\ Sole(t)'
          BY <2>4, <2>5, <3>2 DEF Sole
        <4> QED
          BY <2>5, <4>1 DEF WillWatch
      <3>3. CASE Break(t)
        <4>1. o \in lost'
          BY <2>5, <3>3 DEF Break, Watches, Sole
        <4> QED
          BY <4>1
      <3> QED
        BY <1>3, <2>3, <2>5, <3>1, <3>2, <3>3
    <2>6. CASE o \in queue /\ (tail[Consumer].at = o => Watches(Consumer, o))
      <3>1. CASE Write(t) \/ Break(t)
        <4>1. ~(Write(t) /\ t = Consumer /\ tail[t].at = o)
          BY <2>3, <2>6
        <4>2. o \in queue'
          BY <2>6, <3>1, <4>1 DEF Write, Break
        <4>3. tail'[Consumer].at = 0
          <5>1. tail'[t] = NoTail
            BY <3>1 DEF Write, Break, FeedTypeOK
          <5> QED
            BY <1>3, <1>4, <1>7, <5>1
        <4> QED
          BY <1>3, <2>1, <4>2, <4>3 DEF WillWatch
      <3>2. CASE t \in Handlers /\ (Publish(t) \/ LookAround(t))
        <4>1. o \in queue' /\ tail'[Consumer].at = 0
          BY <1>3, <1>4, <1>7, <2>6, <3>2 DEF Publish, LookAround
        <4> QED
          BY <1>3, <2>1, <4>1 DEF WillWatch
      <3>3. CASE t = Consumer /\ LookAround(t)
        <4>1. o \in queue' /\ tail'[t].at = tail[t].at
          BY <2>6, <3>3 DEF LookAround, FeedTypeOK
        <4> QED
          BY <2>4, <2>6, <3>3, <4>1 DEF WillWatch
      <3>4. ASSUME NEW q \in Steps, Take(q), t = Consumer PROVE WillWatch(o)'
        <4>1. o \in queue' /\ tail'[Consumer] = TailAt("look", "next", q)
          BY <1>3, <2>6, <3>4 DEF Take, FeedTypeOK
        <4> QED
          BY <4>1 DEF WillWatch, Watches, Asks, TailAt
      <3> QED
        BY <1>3, <3>1, <3>2, <3>3, <3>4 DEF Tellers
    <2>7. ASSUME NEW s \in Handlers, s # t PROVE ~Watches(s, o)
      BY <1>3, <1>4, <1>7, <2>7 DEF Watches, Asks
    <2> QED
      BY <2>1, <2>5, <2>6, <2>7 DEF WillWatch
  <1>13. \A s \in Tellers : tail'[s].record =>
            Records(tail[s].at)' = 0 /\ (tail'[s].at \in Awaited \/ instance = "cancelled")
    <2>1. ASSUME NEW s \in Tellers, tail'[s].record PROVE s = t
      BY <1>4, <1>7, <2>1
    <2> QED
      BY <1>11, <2>1
  <1> QED
    BY <1>1, <1>6, <1>10, <1>12, <1>13 DEF Deadlines

(* A deadline that goes is announced, or was that of a step not awaited.    *)
LEMMA DeadlinesByRest ==
    ASSUME FeedTypeOK, FeedTypeOK', TailShape, Deadlines, UNCHANGED <<tail, queue, instance, stage, lost>>,
           alarmed \subseteq alarmed',
           \A o \in Steps : Records(o)' <= Records(o),
           \A o \in Awaited : Records(o) > 0 => Records(o)' > 0 \/ o \in alarmed',
           \A o \in Steps : cycle'[o] = "close" => cycle[o] = "close" \/ o \notin Awaited
    PROVE  Deadlines'
  <1>1. Awaited' = Awaited /\ Awaited \subseteq Steps
    BY WaitingStays DEF Awaited, FirstOf, Waiting
  <1>2. \A o \in Steps : Records(o) \in Nat /\ Records(o)' \in Nat
    <2>1. \A o \in Steps : Records(o)' \in Nat
      BY RecordsTyped DEF FeedTypeOK, Records
    <2> QED
      BY <2>1, RecordsAre
  <1>3. \A o \in Steps : Records(o)' <= 1 /\ (Records(o)' > 0 => Records(o) > 0) /\ (Records(o) = 0 => Records(o)' = 0)
    BY <1>2 DEF Deadlines
  <1>5. ASSUME NEW t \in Tellers, tail[t].record PROVE Records(tail[t].at)' = 0
    <2>1. tail[t].at \in Steps /\ Records(tail[t].at) = 0 /\ tail'[t] = tail[t]
      BY <1>5 DEF TailShape, Deadlines
    <2> QED
      BY <1>3, <2>1
  <1>6. EachIsWatched'
    <2> SUFFICES ASSUME NEW o \in Awaited, o \notin lost, ~(Records(o)' > 0), o \notin alarmed' PROVE WillWatch(o)'
      BY <1>1 DEF EachIsWatched
    <2>1. ~(Records(o) > 0) /\ o \notin alarmed /\ WillWatch(o)
      BY DEF Deadlines, EachIsWatched
    <2>2. \A t \in Tellers : Watches(t, o) => Watches(t, o)' /\ Sole(t)' = Sole(t)
      BY <2>1 DEF Watches, Sole, Asks
    <2> QED
      BY <2>1, <2>2, TailTyped DEF WillWatch
  <1> QED
    BY <1>1, <1>3, <1>5, <1>6 DEF Deadlines

(* Together: in turn, every step keeps the deadlines.                       *)
LEMMA FeedDeadlines ==
    ASSUME FeedTypeOK, FeedTypeOK', FeedShape, alone, alone', InTurn, InTurn', Deadlines, FeedMoves
    PROVE  Deadlines'
  <1>1. ASSUME NEW h \in Handlers, NEW o \in Steps, ApproveStep(h, o) \/ RejectStep(h, o) PROVE Deadlines'
    <2>1. \E about \in {"next", "previous", "approved", "returned"}, n \in Steps \cup {0} : Decided(h, o, about, n)
      BY <1>1, ApproveDecides, RejectDecides
    <2> QED
      BY <2>1, DeadlinesByDecision
  <1>2. ASSUME NEW t \in Tellers,
               (t \in Handlers /\ Publish(t)) \/ LookAround(t) \/ Write(t) \/ Break(t) PROVE Deadlines'
    BY <1>2, DeadlinesByTail
  <1>3. ASSUME NEW o \in Steps, Take(o) PROVE Deadlines'
    BY <1>3, DeadlinesByTail, TailTyped
  <1>4. ASSUME Cancel PROVE Deadlines'
    <2>1. instance' = "cancelled" /\ Awaited' = {} /\ UNCHANGED <<due, tail, cycle>>
      BY <1>4 DEF Cancel, Awaited
    <2> QED
      BY <2>1 DEF Deadlines, Records, EachIsWatched
  <1>5. \A o \in Steps : Records(o) <= Records(o)
    BY RecordsAre
  <1>6. ASSUME \/ \E o \in Steps : CreatePolicy(o) \/ SwitchPolicy(o) \/ DeletePolicy(o)
               \/ SyncPolicies \/ \E u \in People : LookAtDesk(u)
        PROVE  Deadlines'
    <2>1. UNCHANGED <<tail, queue, instance, stage, lost, due, alarmed, cycle>>
      BY <1>6 DEF CreatePolicy, SwitchPolicy, DeletePolicy, SyncPolicies, EditPolicies, LookAtDesk
    <2>2. \A o \in Steps : Records(o)' = Records(o)
      BY <2>1 DEF Records
    <2>3. (\A o \in Steps : Records(o)' <= Records(o)) /\ (\A o \in Steps : Records(o) > 0 => Records(o)' > 0)
      BY <1>5, <2>2
    <2>4. Awaited \subseteq Steps
      BY DEF Awaited, FirstOf, Waiting
    <2> QED
      BY <2>1, <2>3, <2>4, DeadlinesByRest DEF FeedShape
  <1>7. ASSUME Scan \/ FailScan PROVE Deadlines'
    <2>1. UNCHANGED <<tail, queue, instance, stage, lost, due, alarmed>>
      BY <1>7 DEF Scan, FailScan
    <2>2. \A o \in Steps : Records(o)' = Records(o)
      BY <2>1 DEF Records
    <2>3. (\A o \in Steps : Records(o)' <= Records(o)) /\ (\A o \in Steps : Records(o) > 0 => Records(o)' > 0)
      BY <1>5, <2>2
    <2>4. Awaited \subseteq Steps
      BY DEF Awaited, FirstOf, Waiting
    <2>5. \A o \in Steps : cycle'[o] = "close" => o \notin Awaited
      BY <1>7 DEF Scan, FailScan, Verdict, Awaited
    <2> QED
      BY <2>1, <2>3, <2>4, <2>5, DeadlinesByRest DEF FeedShape
  <1>8. ASSUME NEW p \in Steps, Lapse(p) PROVE Deadlines'
    <2>1. UNCHANGED <<tail, queue, instance, stage, lost, alarmed, cycle>>
      BY <1>8 DEF Lapse
    <2>2. ASSUME NEW o \in Steps PROVE Records(o)' = Records(o)
      <3>1. CASE o = p
        <4>1. due[o].running = 1 /\ due[o].past = 0
          <5>1. due[o].running > 0 /\ Records(o) <= 1
            BY <1>8, <3>1 DEF Lapse, Deadlines
          <5> QED
            BY <5>1, RecordsAre
        <4>2. due'[o] = [running |-> 1 - 1, past |-> More(0)]
          BY <1>8, <3>1, <4>1 DEF Lapse, FeedTypeOK
        <4> QED
          BY <4>1, <4>2 DEF Records, More
      <3>2. CASE o # p
        <4>1. due'[o] = due[o]
          BY <1>8, <3>2 DEF Lapse, FeedTypeOK
        <4> QED
          BY <4>1 DEF Records
      <3> QED
        BY <3>1, <3>2
    <2>3. (\A o \in Steps : Records(o)' <= Records(o)) /\ (\A o \in Steps : Records(o) > 0 => Records(o)' > 0)
      BY <1>5, <2>2
    <2>4. Awaited \subseteq Steps
      BY DEF Awaited, FirstOf, Waiting
    <2> QED
      BY <2>1, <2>3, <2>4, DeadlinesByRest DEF FeedShape
  <1>9. ASSUME CommitScan PROVE Deadlines'
    <2>1. UNCHANGED <<tail, queue, instance, stage, lost>> /\ alarmed' = alarmed \cup Announced
      BY <1>9 DEF CommitScan
    <2>2. ASSUME NEW o \in Steps PROVE Records(o)' <= Records(o) /\ (cycle[o] = "skip" => Records(o)' = Records(o))
      <3>1. CASE cycle[o] = "skip"
        <4>1. due'[o] = due[o]
          BY <1>9, <3>1 DEF CommitScan
        <4>2. Records(o)' = Records(o)
          BY <4>1 DEF Records
        <4> QED
          BY <1>5, <4>2
      <3>2. CASE cycle[o] # "skip"
        <4>1. due'[o] = [running |-> due[o].running, past |-> 0]
          BY <1>9, <3>2 DEF CommitScan
        <4>2. Records(o)' = due[o].running + 0
          BY <4>1 DEF Records
        <4> QED
          BY <3>2, <4>2, RecordsAre
      <3> QED
        BY <3>1, <3>2
    <2>3. ASSUME NEW o \in Awaited PROVE Records(o) > 0 => Records(o)' > 0 \/ o \in alarmed'
      <3>1. o \in Steps
        BY DEF Awaited, FirstOf, Waiting
      <3>2. cycle[o] = "skip" \/ cycle[o] = "announce"
        BY <3>1 DEF Deadlines, FeedTypeOK
      <3> QED
        BY <2>1, <2>2, <3>1, <3>2 DEF Announced
    <2>4. \A o \in Steps : cycle'[o] # "close"
      BY <1>9 DEF CommitScan
    <2> QED
      BY <2>1, <2>2, <2>3, <2>4, DeadlinesByRest DEF FeedShape
  <1> QED
    BY <1>1, <1>2, <1>3, <1>4, <1>6, <1>7, <1>8, <1>9, TailTyped DEF FeedMoves

(* All of it together.                                                      *)
FeedInv ==
    /\ FeedTypeOK /\ InTurn /\ FeedShape /\ EachIsTold
    /\ alone => Deadlines

(* After the start the tail of the handler has all still to tell.           *)
LEMMA FeedStart == FeedInit => FeedInv
  <1> SUFFICES ASSUME FeedInit PROVE FeedInv
    OBVIOUS
  <1> DEFINE first == TailAt("publish", "next", 1)
  <1>1. PICK h \in Handlers : tail = [t \in Tellers |-> IF t = h THEN first ELSE NoTail]
    BY DEF FeedInit
  <1>2. /\ first.pc = "publish" /\ first.about = "next" /\ first.at = 1 /\ ~first.record
        /\ first # NoTail /\ first \in Tails
        /\ NoTail.pc = "idle" /\ NoTail.about = "nothing" /\ NoTail.at = 0 /\ ~NoTail.record
        /\ NoTail \in Tails
    <2>1. 1 \in Steps
      BY FeedAssumption DEF Steps
    <2> QED
      BY <2>1, TailTyped DEF TailAt, NoTail
  <1> HIDE DEF first
  <1>3. FeedTypeOK
    <2>1. Clear \in Desks /\ NoRecords \in RecordRows
      BY InboxAssumption DEF Clear, Desks, NoRecords, RecordRows
    <2>2. tail \in [Tellers -> Tails]
      BY <1>1, <1>2
    <2>3. failures \in 0..MaxFailures /\ edits \in 0..MaxEdits
      BY FeedAssumption DEF FeedInit
    <2> QED
      BY <2>1, <2>2, <2>3 DEF FeedInit, FeedTypeOK
  <1>4. Waiting = Steps /\ Awaited = {1} /\ 1 \in Steps
    <2>1. 1 \in Steps /\ \A o \in Steps : 1 <= o
      BY FeedAssumption DEF Steps
    <2>2. Waiting = Steps
      BY DEF FeedInit, Waiting
    <2>3. FirstOf(Steps) = {1}
      BY <2>1, OneFirst DEF FirstOf
    <2> QED
      BY <2>1, <2>2, <2>3 DEF FeedInit, Awaited
  <1>5. Resting /\ Busy = {h} /\ h \in Tellers /\ h # Consumer /\ Consumer \in Tellers /\ 0 \notin Steps
    BY <1>1, <1>2, TailTyped DEF FeedInit, Resting, Busy
  <1>6. tail[h] = first /\ \A t \in Tellers \ {h} : tail[t] = NoTail
    BY <1>1, <1>5
  <1>7. InTurn
    BY <1>5 DEF InTurn
  <1>8. FeedShape
    <2>1. NotYet
      <3>1. \A q \in Waiting \ Awaited : q # 0 /\ q # 1
        BY <1>4, <1>5
      <3> QED
        BY <1>2, <1>6, <3>1 DEF FeedInit, NotYet
    <2>2. Unpublished
      BY <1>2, <1>4, <1>6 DEF FeedInit, Unpublished
    <2>3. TailShape /\ Events
      BY <1>2, <1>4, <1>5, <1>6 DEF TailShape, Asks, Events
    <2>4. NoneLeft
      BY DEF FeedInit, NoneLeft
    <2> QED
      BY <2>1, <2>2, <2>3, <2>4 DEF FeedShape
  <1>9. \A q \in Awaited : Tells(h, q) /\ Watches(h, q) /\ Sole(h)
    BY <1>2, <1>4, <1>6 DEF Tells, Watches, Sole, Asks
  <1>10. EachIsTold /\ EachIsWatched
    BY <1>9 DEF EachIsTold, EachIsWatched, WillTell, WillWatch
  <1>11. \A o \in Steps : Records(o) = 0
    BY DEF FeedInit, Records, NoRecords
  <1>12. Deadlines
    BY <1>2, <1>5, <1>6, <1>10, <1>11 DEF Deadlines, Resting
  <1> QED
    BY <1>3, <1>7, <1>8, <1>10, <1>12 DEF FeedInv

(* With nothing under way, who would be told has been.                      *)
LEMMA FeedInvHolds == FeedInv => FeedHolds
  <1> SUFFICES ASSUME FeedInv PROVE FeedHolds
    OBVIOUS
  <1> USE DEF FeedInv
  <1>1. Consumer \in Tellers /\ Handlers \subseteq Tellers /\ 0 \notin Steps
    BY TailTyped
  <1>2. NoTail.at = 0 /\ NoTail.about = "nothing"
    BY DEF NoTail, TailAt
  <1>3. ASSUME NEW o \in Steps, AllTold(o)
        PROVE  o \in Awaited /\ o \notin lost /\ ~WillTell(o) /\ ~WillWatch(o)
    <2>1. \A t \in Tellers : tail[t] = NoTail
      BY <1>3 DEF AllTold, Quiet, Busy
    <2> QED
      BY <1>1, <1>2, <1>3, <2>1 DEF AllTold, WillTell, WillWatch, Tells, Watches, Asks
  <1>4. AskedIsTold
    BY <1>3 DEF EachIsTold, ToldOf, AskedIsTold
  <1>5. ASSUME alone, NEW o \in Steps
        PROVE /\ AllTold(o) => Records(o) > 0 \/ o \in alarmed
              /\ Quiet /\ instance \in {"in_progress", "approved", "returned"} /\ o \notin Awaited => Records(o) = 0
              /\ Records(o) <= 1
    <2>1. AllTold(o) => Records(o) > 0 \/ o \in alarmed
      BY <1>3, <1>5 DEF Deadlines, EachIsWatched
    <2>2. Records(o) <= 1 /\ (instance # "cancelled" /\ o \notin Awaited => ~(Records(o) > 0))
      BY <1>5 DEF Deadlines
    <2>3. Records(o) \in Nat
      BY RecordsAre
    <2> QED
      BY <2>1, <2>2, <2>3
  <1> QED
    BY <1>4, <1>5 DEF WaitingIsWatched, FeedHolds

(* However many handlers decide, publish and die, however late the consumer *)
(* repeats what they did, and whatever the deadline worker does meanwhile:   *)
(* whoever is asked is told; and when transactions take turns, any of which  *)
(* may fail, the step that waits is watched, by one deadline, and no other.  *)
THEOREM FeedReachesAssignee == FeedSpec => []FeedHolds
  <1>1. FeedInv /\ [FeedNext]_feedVars => FeedInv'
    <2> SUFFICES ASSUME FeedInv, [FeedNext]_feedVars PROVE FeedInv'
      OBVIOUS
    <2>1. CASE FeedNext
      <3>1. FeedTypeOK'
        BY <2>1, FeedTypesStep DEF FeedInv, FeedShape
      <3>2. FeedShape' /\ InTurn' /\ alone' = alone
        BY <2>1, FeedShapeStep DEF FeedInv, FeedNext
      <3>3. EachIsTold'
        BY <2>1, <3>1, FeedTold DEF FeedInv
      <3>4. alone => Deadlines'
        BY <2>1, <3>1, <3>2, FeedDeadlines DEF FeedInv, FeedNext
      <3> QED
        BY <3>1, <3>2, <3>3, <3>4 DEF FeedInv
    <2>2. CASE UNCHANGED feedVars
      <3>1. UNCHANGED <<desk, alone, tail, queue, instance, stage, lost, due, alarmed, looked, cycle, policy, failures, edits>>
        BY <2>2 DEF feedVars, wfVars
      <3>2. FeedTypeOK' /\ InTurn'
        BY <3>1 DEF FeedInv, FeedTypeOK, InTurn, Busy, Resting
      <3>3. FeedShape'
        BY <3>1, ShapeOfRest DEF FeedInv
      <3>4. EachIsTold'
        <4>1. \A o \in Steps : ToldOf(o) => ToldOf(o)'
          BY <3>1 DEF ToldOf, Bell
        <4> QED
          BY <3>1, <3>2, <4>1, ToldByRest DEF FeedInv
      <3>5. alone => Deadlines'
        <4>1. \A o \in Steps : Records(o)' = Records(o) /\ Records(o) <= Records(o)
          BY <3>1, RecordsAre DEF FeedInv, Records
        <4>2. Awaited \subseteq Steps
          BY DEF Awaited, FirstOf, Waiting
        <4> QED
          BY <3>1, <3>2, <4>1, <4>2, DeadlinesByRest DEF FeedInv, FeedShape
      <3> QED
        BY <3>1, <3>2, <3>3, <3>4, <3>5 DEF FeedInv
    <2> QED
      BY <2>1, <2>2
  <1> QED
    BY <1>1, FeedStart, FeedInvHolds, PTL DEF FeedSpec
=============================================================================
