------------------------ MODULE InternalRequestProofs ------------------------
(***************************************************************************)
(* IssuedAsApproved for any number of requests, items, steps, runs, edits   *)
(* and crashes, messages repeated or not.  The heart of it is InStep: as    *)
(* long as a request is not edited, the process that issues it has a last   *)
(* part of its list left, and whatever comes before is out of the stock,    *)
(* taken out by this process, the other one, or one that died.              *)
(***************************************************************************)
EXTENDS InternalRequest, SequenceTheorems, FiniteSetTheorems, TLAPS

-----------------------------------------------------------------------------
(* Sums.                                                                    *)

(* InventoryProofs for no items and no handlers: taken for what it proves   *)
(* of sums, which is about no constant of it.                               *)
TransferRef == [type |-> "transfer", id |-> 0]
Sums == INSTANCE InventoryProofs
          WITH Handlers <- {}, Keys <- {}, Refs <- {Manual, TransferRef},
               Opening <- [k \in {} |-> 0], Crashes <- FALSE,
               Quantities <- {}, MaxQty <- 0, Adjusting <- FALSE, turned <- {}, alone <- FALSE

(* Its assumptions hold of these constants.                                 *)
LEMMA SumsApply ==
    /\ Sums!InventoryAssumption /\ Sums!StockKeeperAssumption
    /\ \A S : IsFiniteSet(S) => Sums!IsFiniteSet(S)
  <1>1. ASSUME NEW S, IsFiniteSet(S)
        PROVE  Sums!IsFiniteSet(S)
    BY <1>1 DEF IsFiniteSet, Sums!IsFiniteSet
  <1>2. IsFiniteSet({}) /\ IsFiniteSet({Manual, TransferRef})
    <2>1. IsFiniteSet({}) /\ IsFiniteSet({Manual})
      BY FS_EmptySet, FS_Singleton
    <2>2. IsFiniteSet({Manual} \cup {TransferRef})
      BY <2>1, FS_AddElement
    <2>3. {Manual} \cup {TransferRef} = {Manual, TransferRef}
      OBVIOUS
    <2>4. QED
      BY <2>1, <2>2, <2>3
  <1>3. [k \in {} |-> 0] \in [{} -> Nat]
    OBVIOUS
  <1>4. Sums!InventoryAssumption
    BY <1>1, <1>2, <1>3 DEF Sums!InventoryAssumption
  <1>5. Sums!StockKeeperAssumption
    BY DEF Sums!StockKeeperAssumption, Sums!Manual, Sums!Transfers, Manual, TransferRef
  <1>6. QED
    BY <1>1, <1>4, <1>5

Sum(f, S) == SumFunctionOnSet(f, S)

(* The sum there is the sum here.                                           *)
LEMMA SameSum ==
    ASSUME NEW f, NEW S
    PROVE  Sums!Sum(f, S) = Sum(f, S)
  BY Zenon DEF Sum, Sums!Sum, SumFunctionOnSet, Sums!SumFunctionOnSet, FoldFunctionOnSet,
               Sums!FoldFunctionOnSet, MapThenFoldSet, Sums!MapThenFoldSet

(* A sum of integers is one, and any element may be split off.              *)
LEMMA SumSplits ==
    ASSUME NEW S, IsFiniteSet(S), NEW f, \A x \in S : f[x] \in Int
    PROVE  /\ Sum(f, S) \in Int /\ Sum(f, {}) = 0
           /\ \A y \in S : Sum(f, S) = f[y] + Sum(f, S \ {y})
  <1>1. Sums!IsFiniteSet(S)
    BY SumsApply
  <1>2. Sums!Sum(f, S) \in Int /\ Sums!Sum(f, {}) = 0
    BY <1>1, SumsApply, Sums!SumType
  <1>3. ASSUME NEW y \in S
        PROVE  Sums!Sum(f, S) = f[y] + Sums!Sum(f, S \ {y})
    BY <1>1, SumsApply, Sums!SumRemove
  <1>4. QED
    BY <1>2, <1>3, SameSum

(* The first n + 1 of a list are the first n and one more; all of them are  *)
(* the whole list.                                                          *)
LEMMA ListSums ==
    ASSUME NEW list \in Seq([key : Keys, qty : Nat \ {0}]), NEW k
    PROVE  /\ Sum(Wanted(list, k), 1..0) = 0
           /\ SumFunction(Wanted(list, k)) = Sum(Wanted(list, k), 1..Len(list))
           /\ SumFunction(Wanted(list, k)) \in Int
           /\ \A n \in Nat : n <= Len(list) => Sum(Wanted(list, k), 1..n) \in Int
           /\ \A n \in Nat : n + 1 \in DOMAIN list =>
                 Sum(Wanted(list, k), 1..(n + 1)) =
                   Sum(Wanted(list, k), 1..n) + IF list[n + 1].key = k THEN list[n + 1].qty ELSE 0
  <1> DEFINE f == Wanted(list, k)
  <1>1. /\ DOMAIN f = 1..Len(list) /\ DOMAIN list = 1..Len(list) /\ Len(list) \in Nat
        /\ \A i \in 1..Len(list) :
             f[i] \in Int /\ f[i] = IF list[i].key = k THEN list[i].qty ELSE 0
    <2>1. DOMAIN list = 1..Len(list) /\ Len(list) \in Nat
      BY LenProperties
    <2>2. DOMAIN f = DOMAIN list
          /\ \A i \in DOMAIN list : f[i] = IF list[i].key = k THEN list[i].qty ELSE 0
      BY DEF Wanted
    <2>3. \A i \in 1..Len(list) : list[i].qty \in Nat
      <3>1. \A i \in 1..Len(list) : list[i] \in [key : Keys, qty : Nat \ {0}]
        BY ElementOfSeq
      <3>2. \A e \in [key : Keys, qty : Nat \ {0}] : e.qty \in Nat
        OBVIOUS
      <3>3. QED
        BY <3>1, <3>2, Zenon
    <2> HIDE DEF f
    <2>4. ASSUME NEW i \in 1..Len(list)
          PROVE  f[i] \in Int /\ f[i] = IF list[i].key = k THEN list[i].qty ELSE 0
      <3>1. f[i] = IF list[i].key = k THEN list[i].qty ELSE 0
        BY <2>1, <2>2, Zenon
      <3>2. list[i].qty \in Nat
        BY <2>3
      <3>3. QED
        BY <3>1, <3>2
    <2>5. QED
      BY <2>1, <2>2, <2>4, Zenon
  <1> HIDE DEF f
  <1>2. \A n \in Nat : IsFiniteSet(1..n)
    BY FS_Interval
  <1>3. Sum(f, 1..0) = 0
    <2>1. 1..0 = {} /\ IsFiniteSet({})
      BY FS_EmptySet
    <2>2. Sum(f, {}) = 0
      BY <2>1, SumSplits
    <2>3. QED
      BY <2>1, <2>2
  <1>4. SumFunction(f) = Sum(f, 1..Len(list))
    BY <1>1, Zenon DEF SumFunction, Sum
  <1>5. ASSUME NEW n \in Nat, n <= Len(list)
        PROVE  Sum(f, 1..n) \in Int
    <2>1. \A i \in 1..n : f[i] \in Int
      <3> DEFINE len == Len(list)
      <3>1. n <= len /\ len \in Nat /\ \A i \in 1..len : f[i] \in Int
        BY <1>1, <1>5
      <3> HIDE DEF len
      <3>2. QED
        BY <3>1
    <2>2. QED
      BY <1>2, <2>1, SumSplits
  <1>6. ASSUME NEW n \in Nat, n + 1 \in DOMAIN list
        PROVE  Sum(f, 1..(n + 1)) = Sum(f, 1..n) + IF list[n + 1].key = k THEN list[n + 1].qty ELSE 0
    <2>1. /\ \A i \in 1..(n + 1) : f[i] \in Int
          /\ n + 1 \in 1..(n + 1) /\ (1..(n + 1)) \ {n + 1} = 1..n
      <3> DEFINE len == Len(list)
      <3>1. n + 1 \in 1..len /\ len \in Nat /\ \A i \in 1..len : f[i] \in Int
        BY <1>1, <1>6
      <3> HIDE DEF len
      <3>2. QED
        BY <3>1
    <2>2. IsFiniteSet(1..(n + 1))
      BY <1>2
    <2>3. Sum(f, 1..(n + 1)) = f[n + 1] + Sum(f, (1..(n + 1)) \ {n + 1})
      BY <2>1, <2>2, SumSplits
    <2>4. Sum(f, 1..n) \in Int
      <3>1. \A i \in 1..n : f[i] \in Int
        BY <2>1
      <3>2. QED
        BY <1>2, <3>1, SumSplits
    <2>5. f[n + 1] \in Int /\ f[n + 1] = IF list[n + 1].key = k THEN list[n + 1].qty ELSE 0
      BY <1>1, <1>6
    <2>6. Sum(f, 1..(n + 1)) = f[n + 1] + Sum(f, 1..n)
      BY <2>1, <2>3, Zenon
    <2>7. \A a, b \in Int : b + a = a + b
      OBVIOUS
    <2>8. Sum(f, 1..(n + 1)) = Sum(f, 1..n) + f[n + 1]
      BY <2>4, <2>5, <2>6, <2>7, Zenon
    <2>9. QED
      BY <2>5, <2>8, Zenon
  <1>7. SumFunction(f) \in Int
    <2>1. \A i \in 1..Len(list) : f[i] \in Int
      BY <1>1
    <2>2. Sum(f, 1..Len(list)) \in Int
      BY <1>1, <1>2, <2>1, SumSplits
    <2>3. QED
      BY <1>4, <2>2
  <1>8. QED
    BY <1>3, <1>4, <1>5, <1>6, <1>7 DEF f

-----------------------------------------------------------------------------
(* The invariant.                                                           *)

ChainOK ==
    /\ outcome \in [Runs -> Chain!Outcomes]
    /\ todo \in [Runs -> SUBSET Steps] /\ passed \in [Runs -> SUBSET Steps]
    /\ \A x \in Runs : outcome[x] = "approved" => passed[x] # {}

RowOK ==
    /\ status \in [Reqs -> {"absent", "pending", "approved", "deleted"}]
    /\ items \in [Reqs -> ItemLists \cup {<<>>}]
    /\ edition \in [Reqs -> 0..MaxEdits]
    /\ \A r \in Reqs : Stored(r) => items[r] \in ItemLists

QueueOK ==
    /\ queue \subseteq Messages
    /\ \A m \in queue : m.event = "workflow.approved" =>
          outcome[m.run] = "approved" /\ m.run[1] = m.row

(* What is not there has no chain, and nobody has been asked to start one.  *)
BegunOK ==
    /\ \A x \in Runs : outcome[x] # "none" => status[x[1]] # "absent"
    /\ \A m \in queue : status[m.row] # "absent"

IssuingOK ==
    /\ issuing \in [Handlers -> [row : Reqs \cup {0}, edition : 0..MaxEdits,
                                 size : Nat, message : Messages \cup {NoMessage}]]
    /\ crashes \in 0..MaxCrashes

(* What is out, once the first n items of the list are.                     *)
Taken(r, k, n) == Sum(Wanted(items[r], k), 1..n)

(* The part of the list that a process has left is a last part of what the  *)
(* request asks for, unless it was edited; what comes before is out.        *)
InStep(h) ==
    LET r == issuing[h].row
        left == work[h].moves
        n == issuing[h].size - Len(left)
    IN
    issuing[h].edition = edition[r] /\ Stored(r) =>
        /\ issuing[h].size = Len(items[r]) /\ n \in Nat
        /\ \A i \in DOMAIN left : /\ n + i \in DOMAIN items[r]
                                  /\ left[i].key = items[r][n + i].key
                                  /\ left[i].qty = items[r][n + i].qty
        /\ \A k \in Keys : Issued(r, k) >= Taken(r, k, n)

JobOK(h) ==
    /\ issuing[h] = NotIssuing <=> work[h].pc = "idle"
    /\ work[h].pc \in {"reading", "writing"} => work[h].moves # <<>>
    /\ work[h].pc = "done" => work[h].moves = <<>>
    /\ issuing[h] # NotIssuing =>
          /\ issuing[h].row \in Reqs /\ Approved(issuing[h].row)
          /\ issuing[h].edition <= edition[issuing[h].row]
          /\ \A i \in DOMAIN work[h].moves :
                work[h].moves[i].out /\ work[h].moves[i].ref = Ref(issuing[h].row)
          /\ InStep(h)
JobsOK == \A h \in Handlers : JobOK(h)

(* Requests bring nothing in, and take out nothing without an approval.     *)
IssuedOK ==
    /\ \A r \in Reqs, k \in Keys :
          ledger[Ref(r)][k] <= 0 /\ (ledger[Ref(r)][k] # 0 => Approved(r))
    /\ \A r \in Reqs : status[r] = "approved" => Approved(r)

IInv == /\ ChainOK /\ RowOK /\ QueueOK /\ BegunOK /\ IssuingOK /\ Stock!TypeOK
        /\ JobsOK /\ IssuedOK /\ ApprovedIsIssued

(* It implies what the run checks.                                          *)
LEMMA IInvSuffices == IInv => IssuedAsApproved
  <1> SUFFICES ASSUME IInv PROVE IssuedAsApproved
    OBVIOUS
  <1>1. TypeOK
    BY DEF IInv, ChainOK, RowOK, QueueOK, IssuingOK, TypeOK
  <1>2. \A r \in Reqs, k \in Keys : ledger[Ref(r)][k] \in Int
    BY DEF IInv, Stock!TypeOK
  <1>3. IssuedOnlyIfApproved
    <2>1. \A n \in Int : -n # 0 => n # 0
      OBVIOUS
    <2>2. QED
      BY <1>2, <2>1 DEF IInv, IssuedOK, IssuedOnlyIfApproved, Issued
  <1>4. QED
    BY <1>1, <1>3 DEF IInv, IssuedAsApproved

(* At the start there is nothing.                                           *)
LEMMA InitIInv == Init => IInv
  <1> SUFFICES ASSUME Init PROVE IInv
    OBVIOUS
  <1>1. ChainOK
    BY DEF Init, ChainOK, Chain!Init, Chain!Outcomes
  <1>2. RowOK /\ QueueOK /\ BegunOK
    BY <1>1, InternalRequestAssumption
       DEF Init, RowOK, QueueOK, BegunOK, Stored, Chain!Init
  <1>3. IssuingOK
    <2>1. NotIssuing \in [row : Reqs \cup {0}, edition : 0..MaxEdits,
                          size : Nat, message : Messages \cup {NoMessage}]
      BY InternalRequestAssumption DEF NotIssuing
    <2>2. QED
      BY <2>1, InternalRequestAssumption DEF Init, IssuingOK
  <1>4. Stock!TypeOK
    <2>1. stock \in [Keys -> Seq(Int)]
      <3>1. \A k \in Keys : (IF Opening[k] = 0 THEN <<>> ELSE <<Opening[k]>>) \in Seq(Int)
        BY InternalRequestAssumption
      <3>2. QED
        BY <3>1 DEF Init, Stock!Init
    <2>2. QED
      BY <2>1, EmptySeq DEF Init, Stock!Init, Stock!TypeOK, Stock!Free, Stock!Job
  <1>5. JobsOK
    BY DEF Init, Stock!Init, JobsOK, JobOK, Stock!Free, Stock!Job
  <1>6. IssuedOK /\ ApprovedIsIssued
    <2>1. \A r \in Reqs : status[r] = "absent" /\ \A k \in Keys : ledger[Ref(r)][k] = 0
      BY DEF Init, Stock!Init
    <2>2. QED
      BY <2>1 DEF IssuedOK, ApprovedIsIssued
  <1>7. QED
    BY <1>1, <1>2, <1>3, <1>4, <1>5, <1>6 DEF IInv

-----------------------------------------------------------------------------
(* What a step leaves alone.                                                *)

Lasting == \A x \in Runs : outcome[x] = "approved" => outcome'[x] = "approved"

(* Whatever happens to a chain, an approval is never taken back.            *)
LEMMA ChainSteps ==
    ASSUME ChainOK,
           \/ \E x \in Runs : Chain!Advance(x) \/ Chain!SendBack(x) \/ Chain!Open(x, Steps)
           \/ \E r \in Reqs : Chain!Cancel(RunsOf(r))
    PROVE  ChainOK' /\ Lasting /\ \A x \in Runs : outcome'[x] # "none" => 
               \/ outcome[x] # "none"
               \/ Chain!Open(x, Steps)
  <1>1. ASSUME NEW x \in Runs, Chain!Advance(x)
        PROVE  ChainOK' /\ Lasting /\ \A y \in Runs : outcome'[y] # "none" => outcome[y] # "none"
    BY <1>1 DEF ChainOK, Lasting, Chain!Advance, Chain!Outcomes
  <1>2. ASSUME NEW x \in Runs, Chain!SendBack(x)
        PROVE  ChainOK' /\ Lasting /\ \A y \in Runs : outcome'[y] # "none" => outcome[y] # "none"
    <2>1. PICK s \in todo[x] :
            /\ outcome' = [outcome EXCEPT ![x] = IF Chain!Before(x, s) = {} THEN "returned" ELSE "open"]
            /\ todo' = [todo EXCEPT ![x] = (@ \ {s}) \cup Chain!Before(x, s)]
            /\ passed' = [passed EXCEPT ![x] = @ \ Chain!Before(x, s)]
      BY <1>2 DEF Chain!SendBack
    <2>2. outcome[x] \in {"open", "returned"}
      BY <1>2 DEF Chain!SendBack
    <2>3. Chain!Before(x, s) \subseteq Steps
      BY <2>2 DEF Chain!Before, ChainOK
    <2> DEFINE b == Chain!Before(x, s)
    <2> HIDE DEF b
    <2>4. QED
      BY <2>1, <2>2, <2>3 DEF ChainOK, Lasting, Chain!Outcomes, b
  <1>3. ASSUME NEW x \in Runs, Chain!Open(x, Steps)
        PROVE  ChainOK' /\ Lasting /\ \A y \in Runs : outcome'[y] # "none" => outcome[y] # "none" \/ y = x
    BY <1>3 DEF ChainOK, Lasting, Chain!Open, Chain!Outcomes
  <1>4. ASSUME NEW r \in Reqs, Chain!Cancel(RunsOf(r))
        PROVE  ChainOK' /\ Lasting /\ \A y \in Runs : outcome'[y] # "none" => outcome[y] # "none"
    BY <1>4 DEF ChainOK, Lasting, Chain!Cancel, Chain!Outcomes
  <1>5. QED
    BY <1>1, <1>2, <1>3, <1>4

(* What steps do to a request that is approved: it stays so, its list       *)
(* changes only with its edition, and what is out stays out.                *)
Growing ==
    /\ \A r \in Reqs : Approved(r) => Approved(r)'
    /\ \A r \in Reqs : Approved(r) =>
          /\ edition[r] <= edition'[r]
          /\ edition'[r] = edition[r] /\ Stored(r)' => Stored(r) /\ items'[r] = items[r]
    /\ \A r \in Reqs, k \in Keys : Issued(r, k)' >= Issued(r, k)

(* The approval of a request lasts as those of its runs do.                 *)
LEMMA ApprovedLasts ==
    ASSUME Lasting
    PROVE  \A r \in Reqs : Approved(r) => Approved(r)'
  BY DEF Lasting, Approved, RunsOf

(* What has been taken out is a number.                                     *)
LEMMA TakenType ==
    ASSUME IInv, NEW r \in Reqs, NEW k \in Keys
    PROVE  /\ items[r] \in Seq([key : Keys, qty : Nat \ {0}])
           /\ Issued(r, k) \in Int
  <1>1. items[r] \in Seq([key : Keys, qty : Nat \ {0}])
    BY InternalRequestAssumption, EmptySeq DEF IInv, RowOK
  <1>2. ledger[Ref(r)][k] \in Int
    BY DEF IInv, Stock!TypeOK
  <1>3. QED
    BY <1>1, <1>2 DEF Issued

(* A process that does nothing stays in step with its request.              *)
LEMMA JobKept ==
    ASSUME IInv, Growing, IssuingOK', RowOK', Stock!TypeOK', NEW h \in Handlers,
           issuing'[h] = issuing[h], work'[h] = work[h]
    PROVE  JobOK(h)'
  <1>1. JobOK(h)
    BY DEF IInv, JobsOK
  <1>2. SUFFICES ASSUME issuing[h] # NotIssuing
                 PROVE  /\ Approved(issuing[h].row)'
                        /\ issuing[h].edition <= edition'[issuing[h].row]
                        /\ InStep(h)'
    BY <1>1 DEF JobOK
  <1> DEFINE r == issuing[h].row
             left == work[h].moves
             n == issuing[h].size - Len(left)
  <1>3. r \in Reqs /\ Approved(r) /\ issuing[h].edition <= edition[r] /\ InStep(h)
    BY <1>1, <1>2 DEF JobOK
  <1>4. /\ edition[r] \in Nat /\ edition'[r] \in Nat /\ issuing[h].edition \in Nat
        /\ edition[r] <= edition'[r] /\ Approved(r)'
    BY <1>3, InternalRequestAssumption DEF Growing, IInv, IssuingOK, RowOK
  <1>5. ASSUME issuing[h].edition = edition'[r], Stored(r)'
        PROVE  /\ issuing[h].size = Len(items'[r]) /\ n \in Nat
               /\ \A i \in DOMAIN left : /\ n + i \in DOMAIN items'[r]
                                         /\ left[i].key = items'[r][n + i].key
                                         /\ left[i].qty = items'[r][n + i].qty
               /\ \A k \in Keys : Issued(r, k)' >= Sum(Wanted(items'[r], k), 1..n)
    <2>1. edition[r] = issuing[h].edition /\ edition'[r] = edition[r]
      BY <1>3, <1>4, <1>5
    <2>2. Stored(r) /\ items'[r] = items[r]
      BY <1>3, <1>5, <2>1 DEF Growing
    <2>3. /\ issuing[h].size = Len(items[r]) /\ n \in Nat
          /\ \A i \in DOMAIN left : /\ n + i \in DOMAIN items[r]
                                    /\ left[i].key = items[r][n + i].key
                                    /\ left[i].qty = items[r][n + i].qty
          /\ \A k \in Keys : Issued(r, k) >= Sum(Wanted(items[r], k), 1..n)
      BY <1>3, <2>1, <2>2 DEF InStep, Taken
    <2>4. ASSUME NEW k \in Keys
          PROVE  Issued(r, k)' >= Sum(Wanted(items[r], k), 1..n)
      <3> DEFINE a == Issued(r, k)
                 b == ledger'[Ref(r)][k]
                 c == Sum(Wanted(items[r], k), 1..n)
      <3>1. a >= c /\ a \in Int
        BY <1>3, <2>3, TakenType
      <3>2. b \in Int
        BY <1>3 DEF Stock!TypeOK
      <3>3. c \in Int
        <4>1. Len(items[r]) \in Nat /\ n <= Len(items[r])
          <5>1. items[r] \in Seq([key : Keys, qty : Nat \ {0}]) /\ left \in Seq(Stock!Moves)
            BY <1>3, TakenType DEF IInv, Stock!TypeOK
          <5>2. Len(items[r]) \in Nat /\ Len(left) \in Nat
            BY <5>1, LenProperties
          <5>3. \A i, j \in Nat : i - j <= i
            OBVIOUS
          <5>4. n = Len(items[r]) - Len(left)
            BY <2>3
          <5>5. QED
            BY <5>2, <5>3, <5>4, Zenon
        <4>2. QED
          BY <1>3, <2>3, <4>1, ListSums, TakenType
      <3>4. -b >= a
        BY <1>3 DEF Growing, Issued
      <3>5. Issued(r, k)' = -b
        <4>1. issuing'[h] = issuing[h]
          OBVIOUS
        <4>2. QED
          BY <4>1 DEF Issued
      <3> HIDE DEF a, b, c
      <3>6. -b >= c
        BY <3>1, <3>2, <3>3, <3>4
      <3>7. QED
        BY <3>5, <3>6 DEF c
    <2>5. QED
      BY <2>2, <2>3, <2>4
  <1>6. InStep(h)'
    BY <1>5 DEF InStep, Taken, Sum, Stored, Issued
  <1>7. QED
    BY <1>3, <1>4, <1>6

(* What is out of an approved request is enough as long as it was.          *)
LEMMA EnoughKept ==
    ASSUME IInv, Growing, RowOK', Stock!TypeOK',
           NEW r \in Reqs, status[r] = "approved", status'[r] = "approved", edition'[r] = 0
    PROVE  \A k \in Keys : Issued(r, k)' >= Requested(r, k)'
  <1>1. Approved(r) /\ Stored(r) /\ Stored(r)'
    BY DEF IInv, IssuedOK, Stored
  <1>2. edition[r] = 0 /\ items'[r] = items[r]
    <2>1. edition[r] <= edition'[r] /\ edition[r] \in Nat
      BY <1>1, InternalRequestAssumption DEF Growing, IInv, RowOK
    <2>2. edition[r] = 0
      BY <2>1
    <2>3. QED
      BY <1>1, <2>2 DEF Growing
  <1>3. ASSUME NEW k \in Keys
        PROVE  Issued(r, k)' >= Requested(r, k)'
    <2> DEFINE a == Issued(r, k)
               b == ledger'[Ref(r)][k]
               c == SumFunction(Wanted(items[r], k))
    <2>1. a >= c
      BY <1>2 DEF IInv, ApprovedIsIssued, Requested
    <2>2. c \in Int
      BY ListSums, TakenType
    <2>3. a \in Int /\ b \in Int /\ -b >= a
      BY TakenType DEF Growing, Issued, Stock!TypeOK
    <2>4. Issued(r, k)' = -b
      BY DEF Issued
    <2>5. Requested(r, k)' = c
      BY <1>2 DEF Requested
    <2> HIDE DEF a, b, c
    <2>6. -b >= c
      BY <2>1, <2>2, <2>3
    <2>7. QED
      BY <2>4, <2>5, <2>6
  <1>4. QED
    BY <1>3

(* A step that neither issues nor approves anything keeps what is said of   *)
(* jobs and of what is out.                                                 *)
LEMMA QuietStep ==
    ASSUME IInv, Growing, RowOK', IssuingOK', Stock!TypeOK', UNCHANGED <<issuing, work>>,
           \A r \in Reqs : status'[r] = "approved" => status[r] = "approved",
           \A r \in Reqs, k \in Keys : ledger'[Ref(r)][k] = ledger[Ref(r)][k]
    PROVE  JobsOK' /\ IssuedOK' /\ ApprovedIsIssued'
  <1>1. JobsOK'
    BY JobKept DEF JobsOK
  <1>2. IssuedOK'
    BY DEF IInv, IssuedOK, Growing
  <1>3. ApprovedIsIssued'
    BY EnoughKept DEF ApprovedIsIssued
  <1>4. QED
    BY <1>1, <1>2, <1>3

(* What keeps the books of the requests takes nothing back.                 *)
LEMMA BooksKept ==
    ASSUME IInv, \A r \in Reqs, k \in Keys : ledger'[Ref(r)][k] = ledger[Ref(r)][k]
    PROVE  \A r \in Reqs, k \in Keys : Issued(r, k)' >= Issued(r, k)
  <1>1. ASSUME NEW r \in Reqs, NEW k \in Keys
        PROVE  Issued(r, k)' >= Issued(r, k)
    <2>1. Issued(r, k) \in Int /\ Issued(r, k)' = Issued(r, k)
      BY TakenType DEF Issued
    <2>2. \A n \in Int : n >= n
      OBVIOUS
    <2>3. QED
      BY <2>1, <2>2
  <1>2. QED
    BY <1>1

-----------------------------------------------------------------------------
(* The requester's steps, and what else issues nothing.                     *)

(* Deaths are counted up to their bound.                                    *)
LEMMA DeathsCounted ==
    ASSUME IInv, Dies \/ UNCHANGED crashes
    PROVE  crashes' \in 0..MaxCrashes
  <1>1. crashes \in 0..MaxCrashes /\ MaxCrashes \in Nat
    BY InternalRequestAssumption DEF IInv, IssuingOK
  <1>2. QED
    BY <1>1 DEF Dies

(* A request that was not there has no chain to be approved by.             *)
LEMMA CreateIInv ==
    ASSUME IInv, NEW r \in Reqs, Create(r)
    PROVE  IInv'
  <1>1. /\ status[r] = "absent" /\ status' = [status EXCEPT ![r] = "pending"]
        /\ UNCHANGED <<edition, issuing, chains, stock, ledger, work>>
    BY DEF Create, shelves
  <1>2. PICK list \in ItemLists : items' = [items EXCEPT ![r] = list]
    BY DEF Create
  <1>3. ~Approved(r)
    BY <1>1 DEF IInv, BegunOK, Approved, RunsOf
  <1>4. ChainOK' /\ Stock!TypeOK'
    BY <1>1 DEF IInv, ChainOK, chains, Stock!TypeOK
  <1>5. RowOK'
    BY <1>1, <1>2 DEF IInv, RowOK, Stored
  <1>6. queue' \subseteq queue \cup {[event |-> "workflow.start", row |-> r]}
    BY DEF Create
  <1>7. QueueOK' /\ BegunOK'
    <2>1. [event |-> "workflow.start", row |-> r] \in Messages
      BY DEF Messages
    <2>2. \A q \in Reqs : status'[q] # "absent" \/ status'[q] = status[q]
      BY <1>1 DEF IInv, RowOK
    <2>3. \A m \in queue : m.row \in Reqs
      BY DEF IInv, QueueOK, Messages
    <2>4. \A x \in Runs : x[1] \in Reqs
      BY DEF Runs
    <2>5. status'[r] = "pending"
      BY <1>1 DEF IInv, RowOK
    <2>6. QED
      BY <1>1, <1>6, <2>1, <2>2, <2>3, <2>4, <2>5 DEF IInv, QueueOK, BegunOK, chains
  <1>8. IssuingOK'
    BY <1>1, DeathsCounted DEF IInv, IssuingOK, Create
  <1>9. Growing
    <2>1. \A q \in Reqs : Approved(q) => Approved(q)'
      BY <1>1 DEF chains, Approved
    <2>2. ASSUME NEW q \in Reqs, Approved(q)
          PROVE  edition[q] <= edition'[q] /\ items'[q] = items[q] /\ status'[q] = status[q]
      BY <1>1, <1>2, <1>3, <2>2, InternalRequestAssumption DEF IInv, RowOK
    <2>3. QED
      BY <1>1, <2>1, <2>2, BooksKept DEF Growing, Stored
  <1>10. JobsOK' /\ IssuedOK' /\ ApprovedIsIssued'
    BY <1>1, <1>4, <1>5, <1>8, <1>9, QuietStep DEF IInv, RowOK
  <1>11. QED
    BY <1>4, <1>5, <1>7, <1>8, <1>10 DEF IInv

(* An edit makes another edition of the list.                               *)
LEMMA UpdateIInv ==
    ASSUME IInv, NEW r \in Reqs, Update(r)
    PROVE  IInv'
  <1>1. /\ status[r] = "pending" /\ edition[r] < MaxEdits
        /\ edition' = [edition EXCEPT ![r] = @ + 1]
        /\ UNCHANGED <<status, issuing, chains, queue, crashes, stock, ledger, work>>
    BY DEF Update, Editable, shelves
  <1>2. PICK list \in ItemLists : items' = [items EXCEPT ![r] = list]
    BY DEF Update
  <1>3. ChainOK' /\ Stock!TypeOK' /\ QueueOK' /\ BegunOK' /\ IssuingOK'
    BY <1>1 DEF IInv, ChainOK, chains, Stock!TypeOK, QueueOK, BegunOK, IssuingOK
  <1>4. RowOK'
    BY <1>1, <1>2, InternalRequestAssumption DEF IInv, RowOK, Stored
  <1>5. Growing
    <2>1. \A q \in Reqs : Approved(q) => Approved(q)'
      BY <1>1 DEF chains, Approved
    <2>2. ASSUME NEW q \in Reqs
          PROVE  edition[q] <= edition'[q] /\ (edition'[q] = edition[q] => items'[q] = items[q])
      BY <1>1, <1>2, InternalRequestAssumption DEF IInv, RowOK
    <2>3. QED
      BY <1>1, <2>1, <2>2, BooksKept DEF Growing, Stored
  <1>6. JobsOK' /\ IssuedOK' /\ ApprovedIsIssued'
    BY <1>1, <1>3, <1>4, <1>5, QuietStep
  <1>7. QED
    BY <1>3, <1>4, <1>6 DEF IInv

(* A deleted request is not there any more, and none that is approved can   *)
(* be deleted.                                                              *)
LEMMA DeleteIInv ==
    ASSUME IInv, NEW r \in Reqs, Delete(r)
    PROVE  IInv'
  <1>1. /\ Chain!Cancel(RunsOf(r)) /\ status' = [status EXCEPT ![r] = "deleted"]
        /\ items' = [items EXCEPT ![r] = <<>>]
        /\ UNCHANGED <<edition, issuing, queue, crashes, stock, ledger, work>>
    BY DEF Delete, shelves
  <1>2. ChainOK' /\ Lasting /\ \A x \in Runs : outcome'[x] # "none" => outcome[x] # "none"
    <2>1. ChainOK' /\ Lasting
      BY <1>1, ChainSteps DEF IInv
    <2>2. QED
      BY <1>1, <2>1 DEF Chain!Cancel
  <1>3. Stock!TypeOK' /\ IssuingOK'
    BY <1>1 DEF IInv, Stock!TypeOK, IssuingOK
  <1>4. RowOK'
    BY <1>1 DEF IInv, RowOK, Stored
  <1>5. \A q \in Reqs : status'[q] = "absent" => status[q] = "absent"
    BY <1>1 DEF IInv, RowOK
  <1>6. QueueOK' /\ BegunOK'
    <2>1. \A m \in queue : m.row \in Reqs /\ (m.event = "workflow.approved" => m.run \in Runs)
      BY DEF IInv, QueueOK, Messages
    <2>2. \A x \in Runs : x[1] \in Reqs
      BY DEF Runs
    <2>3. QED
      BY <1>1, <1>2, <1>5, <2>1, <2>2 DEF IInv, QueueOK, BegunOK, Lasting
  <1>7. Growing
    <2>1. \A q \in Reqs : Approved(q) => Approved(q)'
      BY <1>2, ApprovedLasts
    <2>2. ASSUME NEW q \in Reqs
          PROVE  edition[q] <= edition'[q] /\ (Stored(q)' => Stored(q) /\ items'[q] = items[q])
      BY <1>1, InternalRequestAssumption DEF IInv, RowOK, Stored
    <2>3. QED
      BY <1>1, <2>1, <2>2, BooksKept DEF Growing
  <1>8. JobsOK' /\ IssuedOK' /\ ApprovedIsIssued'
    BY <1>1, <1>3, <1>4, <1>7, QuietStep DEF IInv, RowOK
  <1>9. QED
    BY <1>2, <1>3, <1>4, <1>6, <1>8 DEF IInv

-----------------------------------------------------------------------------
(* Rejections, starts and supplies.                                         *)

(* A rejection may make the request its requester's again.                  *)
LEMMA RejectIInv ==
    ASSUME IInv, NEW x \in Runs, Reject(x)
    PROVE  IInv'
  <1>1. /\ Chain!SendBack(x)
        /\ status' = [status EXCEPT ![x[1]] =
                        IF outcome'[x] = "returned" /\ Stored(x[1]) THEN "pending" ELSE @]
        /\ UNCHANGED <<items, edition, issuing, queue, crashes, stock, ledger, work>>
    BY DEF Reject, shelves
  <1>2. ChainOK' /\ Lasting /\ \A y \in Runs : outcome'[y] # "none" => outcome[y] # "none"
    <2>1. ChainOK' /\ Lasting
      BY <1>1, ChainSteps DEF IInv
    <2>2. QED
      BY <1>1, <2>1 DEF Chain!SendBack, IInv, ChainOK
  <1>3. \A q \in Reqs : \/ status'[q] = status[q]
                        \/ Stored(q) /\ status'[q] = "pending"
    BY <1>1 DEF IInv, RowOK
  <1>4. Stock!TypeOK' /\ IssuingOK'
    BY <1>1 DEF IInv, Stock!TypeOK, IssuingOK
  <1>5. \A q \in Reqs : /\ Stored(q)' = Stored(q)
                        /\ status'[q] = "absent" => status[q] = "absent"
                        /\ status'[q] = "approved" => status[q] = "approved"
    BY <1>3 DEF Stored
  <1>6. RowOK'
    <2>1. x[1] \in Reqs
      BY DEF Runs
    <2>2. status' \in [Reqs -> {"absent", "pending", "approved", "deleted"}]
      BY <1>1, <2>1 DEF IInv, RowOK
    <2>3. QED
      BY <1>1, <1>5, <2>2 DEF IInv, RowOK
  <1>7. QueueOK' /\ BegunOK'
    <2>1. \A m \in queue : m.row \in Reqs /\ (m.event = "workflow.approved" => m.run \in Runs)
      BY DEF IInv, QueueOK, Messages
    <2>2. \A y \in Runs : y[1] \in Reqs
      BY DEF Runs
    <2>3. QED
      BY <1>1, <1>2, <1>5, <2>1, <2>2 DEF IInv, QueueOK, BegunOK, Lasting
  <1>8. Growing
    <2>1. \A q \in Reqs : Approved(q) => Approved(q)'
      BY <1>2, ApprovedLasts
    <2>2. ASSUME NEW q \in Reqs
          PROVE  edition[q] <= edition'[q] /\ (Stored(q)' => Stored(q) /\ items'[q] = items[q])
      BY <1>1, <1>5, InternalRequestAssumption DEF IInv, RowOK
    <2>3. QED
      BY <1>1, <2>1, <2>2, BooksKept DEF Growing
  <1>9. JobsOK' /\ IssuedOK' /\ ApprovedIsIssued'
    BY <1>1, <1>4, <1>5, <1>6, <1>8, QuietStep
  <1>10. QED
    BY <1>2, <1>4, <1>6, <1>7, <1>9 DEF IInv

(* Only a request that is there has its chain started.                      *)
LEMMA ConsumeStartIInv ==
    ASSUME IInv, NEW r \in Reqs, ConsumeStart(r)
    PROVE  IInv'
  <1> DEFINE m == [event |-> "workflow.start", row |-> r]
  <1>1. /\ m \in queue /\ queue' \subseteq queue
        /\ UNCHANGED <<status, items, edition, issuing, crashes, stock, ledger, work>>
        /\ UNCHANGED chains \/ \E x \in RunsOf(r) : Chain!Open(x, Steps)
    BY DEF ConsumeStart, row, shelves
  <1>2. /\ ChainOK' /\ Lasting
        /\ \A y \in Runs : outcome'[y] # "none" => outcome[y] # "none" \/ y \in RunsOf(r)
    <2>1. CASE UNCHANGED chains
      BY <2>1 DEF chains, IInv, ChainOK, Lasting
    <2>2. CASE \E x \in RunsOf(r) : Chain!Open(x, Steps)
      <3>1. PICK x \in RunsOf(r) : Chain!Open(x, Steps)
        BY <2>2
      <3>2. x \in Runs
        BY DEF RunsOf
      <3>3. ChainOK' /\ Lasting
        BY <3>1, <3>2, ChainSteps DEF IInv
      <3>4. QED
        BY <3>1, <3>2, <3>3 DEF Chain!Open, IInv, ChainOK
    <2>3. QED
      BY <1>1, <2>1, <2>2
  <1>3. Stock!TypeOK' /\ IssuingOK' /\ RowOK'
    BY <1>1 DEF IInv, Stock!TypeOK, IssuingOK, RowOK, Stored
  <1>4. QueueOK' /\ BegunOK'
    <2>1. \A n \in queue : n.event = "workflow.approved" => n.run \in Runs
      BY DEF IInv, QueueOK, Messages
    <2>2. status[r] # "absent"
      <3>1. m.row = r
        OBVIOUS
      <3>2. QED
        BY <1>1, <3>1 DEF IInv, BegunOK
    <2>3. \A y \in RunsOf(r) : y[1] = r
      BY DEF RunsOf
    <2>4. QED
      BY <1>1, <1>2, <2>1, <2>2, <2>3 DEF IInv, QueueOK, BegunOK, Lasting
  <1>5. Growing
    <2>1. \A q \in Reqs : Approved(q) => Approved(q)'
      BY <1>2, ApprovedLasts
    <2>2. ASSUME NEW q \in Reqs
          PROVE  edition[q] <= edition'[q] /\ (Stored(q)' => Stored(q) /\ items'[q] = items[q])
      BY <1>1, InternalRequestAssumption DEF IInv, RowOK, Stored
    <2>3. QED
      BY <1>1, <2>1, <2>2, BooksKept DEF Growing
  <1>6. JobsOK' /\ IssuedOK' /\ ApprovedIsIssued'
    BY <1>1, <1>3, <1>5, QuietStep
  <1>7. QED
    BY <1>2, <1>3, <1>4, <1>6 DEF IInv

(* A row is overwritten by another quantity.                                *)
LEMMA RowOverwritten ==
    ASSUME NEW s \in Seq(Int), NEW i, NEW v \in Int
    PROVE  [s EXCEPT ![i] = v] \in Seq(Int)
  <1> DEFINE t == [s EXCEPT ![i] = v]
  <1>1. Len(s) \in Nat /\ DOMAIN s = 1..Len(s) /\ \A j \in 1..Len(s) : s[j] \in Int
    BY LenProperties, ElementOfSeq
  <1>2. DOMAIN t = 1..Len(s) /\ t = [j \in 1..Len(s) |-> t[j]] /\ \A j \in 1..Len(s) : t[j] \in Int
    BY <1>1
  <1> HIDE DEF t
  <1>3. [j \in 1..Len(s) |-> t[j]] \in Seq(Int)
    BY <1>1, <1>2, IsASeq
  <1>4. QED
    BY <1>2, <1>3 DEF t

(* What the stock keeper brings is booked on nobody's request.              *)
LEMMA RestockIInv ==
    ASSUME IInv, NEW k \in Keys, Restock(k)
    PROVE  IInv'
  <1>1. /\ stock[k] # <<>> /\ stock' = [stock EXCEPT ![k][1] = @ + 1]
        /\ ledger' = [ledger EXCEPT ![Manual][k] = @ + 1]
        /\ UNCHANGED <<status, items, edition, issuing, chains, queue, crashes, work>>
    BY DEF Restock, row
  <1>2. Stock!TypeOK'
    <2>1. stock[k] \in Seq(Int)
      BY DEF IInv, Stock!TypeOK
    <2>2. stock[k][1] \in Int
      <3> DEFINE s == stock[k]
      <3>1. s \in Seq(Int) /\ s # <<>>
        BY <1>1, <2>1
      <3> HIDE DEF s
      <3>2. s[1] \in Int
        BY <3>1
      <3>3. QED
        BY <3>2 DEF s
    <2>3. [stock[k] EXCEPT ![1] = stock[k][1] + 1] \in Seq(Int)
      BY <2>1, <2>2, RowOverwritten
    <2>4. stock' = [stock EXCEPT ![k] = [stock[k] EXCEPT ![1] = stock[k][1] + 1]]
      BY <1>1
    <2>5. stock' \in [Keys -> Seq(Int)]
      BY <2>3, <2>4 DEF IInv, Stock!TypeOK
    <2>6. ledger' = [ledger EXCEPT ![Manual] = [ledger[Manual] EXCEPT ![k] = ledger[Manual][k] + 1]]
      BY <1>1
    <2>7. ledger[Manual] \in [Keys -> Int]
      BY DEF IInv, Stock!TypeOK
    <2>8. [ledger[Manual] EXCEPT ![k] = ledger[Manual][k] + 1] \in [Keys -> Int]
      BY <2>7
    <2>9. ledger' \in [({Manual} \cup {Ref(r) : r \in Reqs}) -> [Keys -> Int]]
      BY <2>6, <2>8 DEF IInv, Stock!TypeOK
    <2>10. QED
      BY <1>1, <2>5, <2>9 DEF IInv, Stock!TypeOK
  <1>3. \A r \in Reqs, j \in Keys : ledger'[Ref(r)][j] = ledger[Ref(r)][j]
    <2>1. \A r \in Reqs : Ref(r) # Manual
      BY DEF Ref, Manual
    <2>2. QED
      BY <1>1, <2>1 DEF IInv, Stock!TypeOK
  <1>4. ChainOK' /\ RowOK' /\ QueueOK' /\ BegunOK' /\ IssuingOK'
    BY <1>1 DEF IInv, chains, ChainOK, RowOK, Stored, QueueOK, BegunOK, IssuingOK
  <1>5. Growing
    <2>1. \A q \in Reqs : Approved(q) => Approved(q)'
      BY <1>1 DEF chains, Approved
    <2>2. ASSUME NEW q \in Reqs
          PROVE  edition[q] <= edition'[q] /\ (Stored(q)' => Stored(q) /\ items'[q] = items[q])
      BY <1>1, InternalRequestAssumption DEF IInv, RowOK, Stored
    <2>3. QED
      BY <1>3, <2>1, <2>2, BooksKept DEF Growing
  <1>6. JobsOK' /\ IssuedOK' /\ ApprovedIsIssued'
    BY <1>1, <1>2, <1>3, <1>4, <1>5, QuietStep
  <1>7. QED
    BY <1>2, <1>4, <1>6 DEF IInv

-----------------------------------------------------------------------------
(* Issuing.                                                                 *)

(* A step of one process that leaves chains and requests alone.             *)
LEMMA RestKept ==
    ASSUME IInv, UNCHANGED <<outcome, todo, passed, status, items, edition>>, queue' \subseteq queue
    PROVE  /\ ChainOK' /\ RowOK' /\ QueueOK' /\ BegunOK'
           /\ (\A r \in Reqs, k \in Keys : Issued(r, k)' >= Issued(r, k)) => Growing
  <1>1. ChainOK' /\ RowOK' /\ QueueOK' /\ BegunOK'
    BY DEF IInv, ChainOK, RowOK, Stored, QueueOK, BegunOK
  <1>2. ASSUME NEW q \in Reqs
        PROVE  /\ Approved(q) => Approved(q)'
               /\ edition[q] <= edition'[q] /\ (Stored(q)' => Stored(q) /\ items'[q] = items[q])
    BY InternalRequestAssumption DEF IInv, RowOK, Stored, Approved
  <1>3. QED
    BY <1>1, <1>2 DEF Growing

(* Reading the stock (ReadStock): the list that is left stays as it is.     *)
LEMMA ReadStockIInv ==
    ASSUME IInv, NEW h \in Handlers, ReadStock(h)
    PROVE  IInv'
  <1> DEFINE m == Head(work[h].moves)
  <1>1. /\ work[h].pc = "reading"
        /\ UNCHANGED <<status, items, edition, issuing, outcome, todo, passed, queue, crashes,
                       stock, ledger>>
    BY DEF ReadStock, Stock!Read, Stock!Is, row, chains
  <1>2. PICK i \in Stock!Found(m.key) :
          LET seen == IF i = 0 THEN 0 ELSE stock[m.key][i] IN
          work' = [work EXCEPT ![h] =
                     IF Stock!Suffices(m, seen) /\ Stock!RowIsThere(m, i)
                     THEN Stock!Job("writing", @.moves, i, seen)
                     ELSE Stock!Job("failed", @.moves, 0, 0)]
    BY DEF ReadStock, Stock!Read
  <1>3. work[h].moves \in Seq(Stock!Moves) /\ work[h].moves # <<>>
    BY <1>1 DEF IInv, Stock!TypeOK, JobsOK, JobOK
  <1>4. m.key \in Keys
    <2>1. m \in Stock!Moves
      BY <1>3
    <2>2. \A n \in Stock!Moves : n.key \in Keys
      BY DEF Stock!Moves
    <2> HIDE DEF m
    <2>3. QED
      BY <2>1, <2>2
  <1>5. i \in Nat /\ (i # 0 => stock[m.key][i] \in Int)
    <2>1. stock[m.key] \in Seq(Int)
      BY <1>4 DEF IInv, Stock!TypeOK
    <2>2. DOMAIN stock[m.key] = 1..Len(stock[m.key])
          /\ \A j \in 1..Len(stock[m.key]) : stock[m.key][j] \in Int
      BY <2>1, LenProperties, ElementOfSeq
    <2>3. QED
      BY <1>2, <2>2 DEF Stock!Found
  <1>6. \E j \in [pc : {"writing", "failed"}, moves : {work[h].moves}, row : Nat, seen : Int] :
          work' = [work EXCEPT ![h] = j]
    <2> DEFINE seen == IF i = 0 THEN 0 ELSE stock[m.key][i]
               j == IF Stock!Suffices(m, seen) /\ Stock!RowIsThere(m, i)
                    THEN Stock!Job("writing", work[h].moves, i, seen)
                    ELSE Stock!Job("failed", work[h].moves, 0, 0)
    <2>1. seen \in Int
      BY <1>5
    <2>2. work' = [work EXCEPT ![h] = j]
      BY <1>2
    <2> HIDE DEF m, seen
    <2>3. j \in [pc : {"writing", "failed"}, moves : {work[h].moves}, row : Nat, seen : Int]
      BY <1>5, <2>1 DEF Stock!Job
    <2> HIDE DEF j
    <2>4. QED
      BY <2>2, <2>3
  <1>7. /\ work'[h].moves = work[h].moves /\ work'[h].pc \in {"writing", "failed"}
        /\ \A g \in Handlers : g # h => work'[g] = work[g]
        /\ Stock!TypeOK'
    BY <1>1, <1>3, <1>6 DEF IInv, Stock!TypeOK
  <1>8. ChainOK' /\ RowOK' /\ QueueOK' /\ BegunOK' /\ IssuingOK' /\ Growing
    <2>1. \A r \in Reqs, k \in Keys : Issued(r, k)' >= Issued(r, k)
      BY <1>1, BooksKept
    <2>2. QED
      BY <1>1, <2>1, RestKept DEF IInv, IssuingOK
  <1>9. JobOK(h)'
    <2>1. JobOK(h)
      BY DEF IInv, JobsOK
    <2>2. Approved(issuing[h].row)' = Approved(issuing[h].row)
      BY <1>1 DEF Approved
    <2>3. InStep(h)' = InStep(h)
      BY <1>1, <1>7 DEF InStep, Stored, Taken, Issued, Sum
    <2>4. QED
      BY <1>1, <1>3, <1>7, <2>1, <2>2, <2>3 DEF JobOK
  <1>10. JobsOK' /\ IssuedOK' /\ ApprovedIsIssued'
    <2>1. JobsOK'
      BY <1>1, <1>7, <1>8, <1>9, JobKept DEF JobsOK
    <2>2. IssuedOK'
      BY <1>1 DEF IInv, IssuedOK, Approved
    <2>3. ApprovedIsIssued'
      BY <1>1, <1>7, <1>8, EnoughKept DEF ApprovedIsIssued
    <2>4. QED
      BY <2>1, <2>2, <2>3
  <1>11. QED
    BY <1>7, <1>8, <1>10 DEF IInv

(* A process that has dropped its job has nothing to be in step with.       *)
LEMMA JobDropped ==
    ASSUME IInv, NEW h \in Handlers, work' = [work EXCEPT ![h] = Stock!Free],
           issuing' = [issuing EXCEPT ![h] = NotIssuing],
           crashes' \in 0..MaxCrashes, UNCHANGED <<stock, ledger>>
    PROVE  Stock!TypeOK' /\ IssuingOK' /\ JobOK(h)'
           /\ \A g \in Handlers : g # h => work'[g] = work[g] /\ issuing'[g] = issuing[g]
  <1>1. Stock!TypeOK'
    BY EmptySeq DEF IInv, Stock!TypeOK, Stock!Free, Stock!Job
  <1>2. IssuingOK'
    <2>1. NotIssuing \in [row : Reqs \cup {0}, edition : 0..MaxEdits,
                          size : Nat, message : Messages \cup {NoMessage}]
      BY InternalRequestAssumption DEF NotIssuing
    <2>2. QED
      BY <2>1 DEF IInv, IssuingOK
  <1>3. work'[h] = Stock!Free /\ issuing'[h] = NotIssuing
    BY DEF IInv, Stock!TypeOK, IssuingOK
  <1>4. JobOK(h)'
    BY <1>3 DEF JobOK, Stock!Free, Stock!Job
  <1>5. QED
    BY <1>1, <1>2, <1>4 DEF IInv, Stock!TypeOK, IssuingOK

(* Giving up (Abandon): what is out stays out, and is not said to be all.   *)
LEMMA AbandonIInv ==
    ASSUME IInv, NEW h \in Handlers, Abandon(h)
    PROVE  IInv'
  <1>1. /\ work' = [work EXCEPT ![h] = Stock!Free]
        /\ issuing' = [issuing EXCEPT ![h] = NotIssuing]
        /\ UNCHANGED <<status, items, edition, outcome, todo, passed, queue, stock, ledger>>
        /\ Dies \/ UNCHANGED crashes
    BY DEF Abandon, StatusOnFailure, chains
  <1>2. Stock!TypeOK' /\ IssuingOK' /\ JobOK(h)'
        /\ \A g \in Handlers : g # h => work'[g] = work[g] /\ issuing'[g] = issuing[g]
    BY <1>1, DeathsCounted, JobDropped
  <1>3. ChainOK' /\ RowOK' /\ QueueOK' /\ BegunOK' /\ Growing
    <2>1. \A r \in Reqs, k \in Keys : Issued(r, k)' >= Issued(r, k)
      BY <1>1, BooksKept
    <2>2. QED
      BY <1>1, <2>1, RestKept
  <1>4. JobsOK'
    BY <1>2, <1>3, JobKept DEF JobsOK
  <1>5. IssuedOK'
    BY <1>1 DEF IInv, IssuedOK, Approved
  <1>6. ApprovedIsIssued'
    BY <1>1, <1>2, <1>3, EnoughKept DEF ApprovedIsIssued
  <1>7. QED
    BY <1>2, <1>3, <1>4, <1>5, <1>6 DEF IInv

(* The end (Complete): with nothing left of the list all of it is out,      *)
(* unless it was edited.                                                    *)
LEMMA CompleteIInv ==
    ASSUME IInv, NEW h \in Handlers, Complete(h)
    PROVE  IInv'
  <1> DEFINE r == issuing[h].row
  <1>1. /\ issuing[h] # NotIssuing /\ work[h].pc = "done"
        /\ status' = IF Stored(r) THEN [status EXCEPT ![r] = "approved"] ELSE status
        /\ queue' \subseteq queue
        /\ work' = [work EXCEPT ![h] = Stock!Free]
        /\ issuing' = [issuing EXCEPT ![h] = NotIssuing]
        /\ UNCHANGED <<items, edition, outcome, todo, passed, crashes, stock, ledger>>
    BY DEF Complete, StatusIfIssued, Acknowledged, Stock!Is, Stock!Finish, chains
  <1>2. Stock!TypeOK' /\ IssuingOK' /\ JobOK(h)'
        /\ \A g \in Handlers : g # h => work'[g] = work[g] /\ issuing'[g] = issuing[g]
    BY <1>1, DeathsCounted, JobDropped
  <1>3. r \in Reqs /\ Approved(r) /\ issuing[h].edition <= edition[r] /\ InStep(h)
        /\ work[h].moves = <<>>
    BY <1>1 DEF IInv, JobsOK, JobOK
  <1> HIDE DEF r
  <1>4. /\ status' \in [Reqs -> {"absent", "pending", "approved", "deleted"}]
        /\ \A q \in Reqs : /\ status'[q] = "absent" => status[q] = "absent"
                           /\ Stored(q)' = Stored(q)
                           /\ q # r => status'[q] = status[q]
                           /\ ~Stored(q) => status'[q] = status[q]
    BY <1>1, <1>3 DEF IInv, RowOK, Stored
  <1>5. ChainOK' /\ RowOK'
    BY <1>1, <1>4 DEF IInv, ChainOK, RowOK
  <1>6. QueueOK' /\ BegunOK'
    <2>1. \A m \in queue : m.row \in Reqs
      BY DEF IInv, QueueOK, Messages
    <2>2. \A x \in Runs : x[1] \in Reqs
      BY DEF Runs
    <2>3. QED
      BY <1>1, <1>4, <2>1, <2>2 DEF IInv, QueueOK, BegunOK
  <1>7. Growing
    <2>1. ASSUME NEW q \in Reqs
          PROVE  /\ Approved(q) => Approved(q)'
                 /\ edition[q] <= edition'[q] /\ (Stored(q)' => Stored(q) /\ items'[q] = items[q])
      BY <1>1, <1>4, InternalRequestAssumption DEF IInv, RowOK, Approved
    <2>2. QED
      BY <1>1, <2>1, BooksKept DEF Growing
  <1>8. JobsOK'
    BY <1>2, <1>5, <1>7, JobKept DEF JobsOK
  <1>9. IssuedOK'
    <2>1. \A q \in Reqs : status'[q] = "approved" => status[q] = "approved" \/ q = r
      BY <1>4
    <2>2. QED
      BY <1>1, <1>3, <2>1 DEF IInv, IssuedOK, Approved
  <1>10. ASSUME NEW q \in Reqs, status'[q] = "approved", edition'[q] = 0
         PROVE  \A k \in Keys : Issued(q, k)' >= Requested(q, k)'
    <2>1. CASE status[q] = "approved"
      BY <1>2, <1>5, <1>7, <1>10, <2>1, EnoughKept
    <2>2. CASE status[q] # "approved"
      <3>1. q = r /\ Stored(r)
        BY <1>4, <1>10, <2>2
      <3>2. edition[r] = 0 /\ issuing[h].edition \in Nat
        BY <1>1, <1>10, <3>1, InternalRequestAssumption DEF IInv, IssuingOK
      <3>3. issuing[h].edition = edition[r]
        BY <1>3, <3>2
      <3>4. /\ issuing[h].size = Len(items[r])
            /\ \A k \in Keys : Issued(r, k) >= Taken(r, k, issuing[h].size - Len(work[h].moves))
        BY <1>3, <3>1, <3>3 DEF InStep, r
      <3>5. Len(items[r]) - Len(<<>>) = Len(items[r])
        <4>1. Len(items[r]) \in Nat
          BY <1>3, TakenType, LenProperties
        <4>2. QED
          BY <4>1
      <3>6. ASSUME NEW k \in Keys
            PROVE  Issued(r, k) >= Requested(r, k)
        <4>1. Taken(r, k, Len(items[r])) = Requested(r, k)
          BY <1>3, ListSums, TakenType DEF Taken, Requested
        <4>2. Issued(r, k) >= Taken(r, k, Len(items[r]))
          <5>1. issuing[h].size - Len(work[h].moves) = Len(items[r])
            BY <1>3, <3>4, <3>5, Zenon
          <5>2. QED
            BY <3>4, <5>1, Zenon
        <4>3. QED
          BY <4>1, <4>2, Zenon
      <3>7. ASSUME NEW k \in Keys
            PROVE  Issued(q, k)' = Issued(r, k) /\ Requested(q, k)' = Requested(r, k)
        BY <1>1, <3>1 DEF Issued, Requested
      <3>8. QED
        BY <3>6, <3>7
    <2>3. QED
      BY <2>1, <2>2
  <1>11. ApprovedIsIssued'
    BY <1>10 DEF ApprovedIsIssued
  <1>12. QED
    BY <1>2, <1>5, <1>6, <1>8, <1>9, <1>11 DEF IInv

(* The list of a request becomes moves out of the stock, item by item.      *)
LEMMA DemandType ==
    ASSUME IInv, NEW r \in Reqs, Stored(r)
    PROVE  /\ Demand(r) \in Seq(Stock!Moves) /\ Demand(r) # <<>>
           /\ Len(Demand(r)) = Len(items[r]) /\ Len(items[r]) \in Nat
           /\ DOMAIN Demand(r) = DOMAIN items[r]
           /\ \A i \in DOMAIN items[r] :
                 /\ Demand(r)[i].out /\ Demand(r)[i].ref = Ref(r)
                 /\ Demand(r)[i].key = items[r][i].key /\ Demand(r)[i].qty = items[r][i].qty
  <1> DEFINE list == items[r]
             d == Demand(r)
             n == Len(list)
             S == [key : Keys, qty : Nat \ {0}]
  <1>1. list \in Seq(S) /\ list # <<>>
    BY InternalRequestAssumption DEF IInv, RowOK
  <1> HIDE DEF list
  <1>2. n \in Nat /\ n # 0 /\ DOMAIN list = 1..n /\ \A i \in 1..n : list[i] \in S
    <2>1. n \in Nat /\ DOMAIN list = 1..n /\ \A i \in 1..n : list[i] \in S
      BY <1>1, LenProperties, ElementOfSeq
    <2>2. n # 0
      BY <1>1, EmptySeq
    <2>3. QED
      BY <2>1, <2>2
  <1>3. d = [i \in 1..n |-> Stock!Out(list[i].key, list[i].qty, Ref(r))]
    BY <1>2 DEF Demand, list
  <1> HIDE DEF n, d
  <1>4. ASSUME NEW i \in 1..n
        PROVE  /\ Stock!Out(list[i].key, list[i].qty, Ref(r)) \in Stock!Moves
               /\ d[i].out /\ d[i].ref = Ref(r) /\ d[i].key = list[i].key /\ d[i].qty = list[i].qty
    <2>1. list[i].key \in Keys /\ list[i].qty \in Nat \ {0}
      <3>1. list[i] \in S
        BY <1>2
      <3>2. \A e \in S : e.key \in Keys /\ e.qty \in Nat \ {0}
        OBVIOUS
      <3> HIDE DEF S
      <3>3. QED
        BY <3>1, <3>2
    <2>2. d[i] = Stock!Out(list[i].key, list[i].qty, Ref(r))
      BY <1>3
    <2>3. QED
      BY <2>1, <2>2 DEF Stock!Out, Stock!Moves
  <1>5. [i \in 1..n |-> Stock!Out(list[i].key, list[i].qty, Ref(r))] \in Seq(Stock!Moves)
    BY <1>2, <1>4, IsASeq
  <1>6. d \in Seq(Stock!Moves) /\ DOMAIN d = 1..n
    BY <1>3, <1>5, Zenon
  <1>7. Len(d) = n
    BY <1>2, <1>6, LenProperties
  <1>8. d # <<>>
    BY <1>2, <1>7
  <1>9. QED
    BY <1>2, <1>4, <1>6, <1>7, <1>8 DEF d, list, n

(* Taking up an approved request (BeginIssue): nothing of the list is out   *)
(* that has to be, and nothing is asked for but what is on it.              *)
LEMMA BeginKeeps ==
    ASSUME IInv, NEW h \in Handlers, NEW r \in Reqs, NEW m \in Messages \cup {NoMessage},
           BeginIssue(h, r, m), UNCHANGED <<status, items, edition>>, crashes' \in 0..MaxCrashes,
           Stored(r), Approved(r)', Lasting
    PROVE  Stock!TypeOK' /\ IssuingOK' /\ JobsOK' /\ IssuedOK' /\ ApprovedIsIssued'
  <1> DEFINE j == [row |-> r, edition |-> edition[r], size |-> Len(items[r]), message |-> m]
  <1>1. /\ work' = [work EXCEPT ![h] = Stock!Job("reading", Demand(r), 0, 0)]
        /\ issuing' = [issuing EXCEPT ![h] = j] /\ UNCHANGED <<stock, ledger>>
    BY DEF BeginIssue, Stock!Begin
  <1>2. /\ Demand(r) \in Seq(Stock!Moves) /\ Demand(r) # <<>>
        /\ Len(Demand(r)) = Len(items[r]) /\ Len(items[r]) \in Nat
        /\ DOMAIN Demand(r) = DOMAIN items[r]
        /\ \A i \in DOMAIN items[r] :
              /\ Demand(r)[i].out /\ Demand(r)[i].ref = Ref(r)
              /\ Demand(r)[i].key = items[r][i].key /\ Demand(r)[i].qty = items[r][i].qty
    BY DemandType
  <1> DEFINE d == Demand(r)
  <1> HIDE DEF d
  <1>3. work'[h] = [pc |-> "reading", moves |-> d, row |-> 0, seen |-> 0] /\ issuing'[h] = j
        /\ \A g \in Handlers : g # h => work'[g] = work[g] /\ issuing'[g] = issuing[g]
    BY <1>1 DEF IInv, Stock!TypeOK, IssuingOK, Stock!Job, d
  <1>4. Stock!TypeOK'
    BY <1>1, <1>2 DEF IInv, Stock!TypeOK, Stock!Job
  <1>5. IssuingOK' /\ RowOK'
    <2>1. j \in [row : Reqs \cup {0}, edition : 0..MaxEdits,
                 size : Nat, message : Messages \cup {NoMessage}]
      BY <1>2 DEF IInv, RowOK
    <2> HIDE DEF j
    <2>2. QED
      BY <1>1, <2>1 DEF IInv, IssuingOK, RowOK, Stored
  <1>6. Growing
    <2>1. ASSUME NEW q \in Reqs
          PROVE  edition[q] <= edition'[q] /\ (Stored(q)' => Stored(q) /\ items'[q] = items[q])
      BY InternalRequestAssumption DEF IInv, RowOK, Stored
    <2>2. QED
      BY <1>1, <2>1, ApprovedLasts, BooksKept DEF Growing
  <1>7. JobOK(h)'
    <2>1. j # NotIssuing /\ j.row = r /\ j.edition = edition[r] /\ j.size = Len(items[r])
      <3>1. NotIssuing.row = 0 /\ r # 0
        BY InternalRequestAssumption DEF NotIssuing, Reqs
      <3>2. QED
        BY <3>1
    <2> HIDE DEF j
    <2>2. \A i \in DOMAIN d : d[i].out /\ d[i].ref = Ref(r)
      BY <1>2 DEF d
    <2>3. InStep(h)'
      <3>1. Len(items[r]) - Len(d) = 0
        BY <1>2 DEF d
      <3>2. \A i \in DOMAIN d : /\ 0 + i \in DOMAIN items[r]
                                /\ d[i].key = items[r][0 + i].key /\ d[i].qty = items[r][0 + i].qty
        <4>1. \A i \in DOMAIN items[r] : i \in Nat /\ 0 + i = i
          <5>1. DOMAIN items[r] = 1..Len(items[r])
            BY TakenType, LenProperties
          <5>2. QED
            BY <1>2, <5>1
        <4>2. QED
          BY <1>2, <4>1 DEF d
      <3>3. \A k \in Keys : Issued(r, k)' >= Sum(Wanted(items[r], k), 1..0)
        <4>1. ASSUME NEW k \in Keys
              PROVE  Issued(r, k)' >= Sum(Wanted(items[r], k), 1..0)
          <5>1. Sum(Wanted(items[r], k), 1..0) = 0
            BY ListSums, TakenType
          <5>2. ledger'[Ref(r)][k] \in Int /\ ledger'[Ref(r)][k] <= 0
            BY <1>1 DEF IInv, IssuedOK, Stock!TypeOK
          <5>3. Issued(r, k)' = -ledger'[Ref(r)][k]
            BY DEF Issued
          <5> HIDE DEF d
          <5>4. -ledger'[Ref(r)][k] >= 0
            BY <5>2
          <5>5. QED
            BY <5>1, <5>3, <5>4
        <4>2. QED
          BY <4>1
      <3>4. work'[h].moves = d
        BY <1>3
      <3>5. issuing'[h].row = r /\ issuing'[h].size = Len(items[r])
        BY <1>3, <2>1
      <3>6. QED
        BY <3>1, <3>2, <3>3, <3>4, <3>5, <1>2 DEF InStep, Taken, Sum, Issued
    <2>4. j.edition <= edition'[r]
      BY <2>1, InternalRequestAssumption DEF IInv, RowOK
    <2>5. d # <<>>
      BY <1>2 DEF d
    <2>6. issuing'[h] # NotIssuing /\ issuing'[h].row = r /\ issuing'[h].edition <= edition'[r]
          /\ work'[h].pc = "reading" /\ work'[h].moves = d
      BY <1>3, <2>1, <2>4
    <2>7. QED
      BY <2>2, <2>3, <2>5, <2>6 DEF JobOK
  <1>8. JobsOK'
    BY <1>3, <1>4, <1>5, <1>6, <1>7, JobKept DEF JobsOK
  <1>9. IssuedOK'
    BY <1>1, ApprovedLasts DEF IInv, IssuedOK
  <1>10. ApprovedIsIssued'
    BY <1>4, <1>5, <1>6, EnoughKept DEF ApprovedIsIssued
  <1>11. QED
    BY <1>4, <1>5, <1>8, <1>9, <1>10

(* An approval, the last of which is published and handed to the bridge.    *)
LEMMA ApproveIInv ==
    ASSUME IInv, NEW x \in Runs, Approve(x)
    PROVE  IInv'
  <1> DEFINE m == [event |-> "workflow.approved", row |-> x[1], run |-> x]
  <1>1. /\ Chain!Advance(x) /\ UNCHANGED <<status, items, edition>>
        /\ (Final(x) /\ queue' = queue \cup {m}) \/ UNCHANGED queue
        /\ Dies \/ UNCHANGED crashes
        /\ \/ (Final(x) /\ Stored(x[1]) /\ BeginIssue("api", x[1], NoMessage))
           \/ UNCHANGED <<work, issuing, stock, ledger>>
    BY DEF Approve, row, shelves
  <1>2. ChainOK' /\ Lasting /\ \A y \in Runs : outcome'[y] # "none" => outcome[y] # "none"
    <2>1. ChainOK' /\ Lasting
      BY <1>1, ChainSteps DEF IInv
    <2>2. QED
      BY <1>1, <2>1 DEF Chain!Advance, IInv, ChainOK
  <1>3. x[1] \in Reqs /\ \A y \in Runs : y[1] \in Reqs
    BY DEF Runs
  <1>4. status[x[1]] # "absent"
    BY <1>1 DEF Chain!Advance, IInv, BegunOK
  <1>5. m \in Messages /\ m.row = x[1] /\ m.run = x /\ m.event = "workflow.approved"
    BY <1>3 DEF Messages
  <1> HIDE DEF m
  <1>6. QueueOK' /\ BegunOK'
    <2>1. \A n \in queue : n.event = "workflow.approved" => n.run \in Runs
      BY DEF IInv, QueueOK, Messages
    <2>2. QED
      BY <1>1, <1>2, <1>4, <1>5, <2>1 DEF IInv, QueueOK, BegunOK, Lasting, Final
  <1>7. RowOK'
    BY <1>1 DEF IInv, RowOK, Stored
  <1>8. crashes' \in 0..MaxCrashes
    BY <1>1, DeathsCounted
  <1>9. Stock!TypeOK' /\ IssuingOK' /\ JobsOK' /\ IssuedOK' /\ ApprovedIsIssued'
    <2>1. CASE Final(x) /\ Stored(x[1]) /\ BeginIssue("api", x[1], NoMessage)
      <3>1. Approved(x[1])'
        BY <2>1 DEF Final, Approved, RunsOf
      <3>2. "api" \in Handlers /\ NoMessage \in Messages \cup {NoMessage}
        BY DEF Handlers
      <3>3. QED
        BY <1>1, <1>2, <1>3, <1>8, <2>1, <3>1, <3>2, BeginKeeps
    <2>2. CASE UNCHANGED <<work, issuing, stock, ledger>>
      <3>1. Stock!TypeOK' /\ IssuingOK'
        BY <1>8, <2>2 DEF IInv, Stock!TypeOK, IssuingOK
      <3>2. Growing
        <4>1. ASSUME NEW q \in Reqs
              PROVE  edition[q] <= edition'[q] /\ (Stored(q)' => Stored(q) /\ items'[q] = items[q])
          BY <1>1, InternalRequestAssumption DEF IInv, RowOK, Stored
        <4>2. QED
          BY <1>2, <2>2, <4>1, ApprovedLasts, BooksKept DEF Growing
      <3>3. QED
        BY <1>1, <1>7, <2>2, <3>1, <3>2, QuietStep
    <2>3. QED
      BY <1>1, <2>1, <2>2
  <1>10. QED
    BY <1>2, <1>6, <1>7, <1>9 DEF IInv

(* The consumer takes up what was published as approved.                    *)
LEMMA ConsumeApprovedIInv ==
    ASSUME IInv, NEW m \in queue, ConsumeApproved(m)
    PROVE  IInv'
  <1>1. /\ m.event = "workflow.approved" /\ queue' \subseteq queue
        /\ UNCHANGED <<status, items, edition, outcome, todo, passed, crashes>>
        /\ \/ Stored(m.row) /\ BeginIssue("consumer", m.row, m)
           \/ UNCHANGED <<work, issuing, stock, ledger>>
    BY DEF ConsumeApproved, row, chains
  <1>2. m \in Messages /\ m.row \in Reqs /\ m.run \in Runs
        /\ outcome[m.run] = "approved" /\ m.run[1] = m.row
    BY <1>1 DEF IInv, QueueOK, Messages
  <1>3. Lasting /\ crashes' \in 0..MaxCrashes
    BY <1>1, DeathsCounted DEF Lasting
  <1>4. ChainOK' /\ RowOK' /\ QueueOK' /\ BegunOK'
    BY <1>1, RestKept
  <1>5. Stock!TypeOK' /\ IssuingOK' /\ JobsOK' /\ IssuedOK' /\ ApprovedIsIssued'
    <2>1. CASE Stored(m.row) /\ BeginIssue("consumer", m.row, m)
      <3>1. Approved(m.row)'
        BY <1>1, <1>2 DEF Approved, RunsOf
      <3>2. "consumer" \in Handlers
        BY DEF Handlers
      <3>3. QED
        BY <1>1, <1>2, <1>3, <2>1, <3>1, <3>2, BeginKeeps
    <2>2. CASE UNCHANGED <<work, issuing, stock, ledger>>
      <3>1. Stock!TypeOK' /\ IssuingOK'
        BY <1>3, <2>2 DEF IInv, Stock!TypeOK, IssuingOK
      <3>2. Growing
        BY <1>1, <2>2, BooksKept, RestKept
      <3>3. QED
        BY <1>1, <1>4, <2>2, <3>1, <3>2, QuietStep
    <2>3. QED
      BY <1>1, <2>1, <2>2
  <1>6. QED
    BY <1>4, <1>5 DEF IInv

(* Taking an item out (TakeOut): one more of the list is out, and one less  *)
(* of it is left.                                                           *)
LEMMA TakeOutIInv ==
    ASSUME IInv, NEW h \in Handlers, TakeOut(h)
    PROVE  IInv'
  <1> DEFINE s == work[h].moves
             m == Head(s)
             r == issuing[h].row
             c == work[h].seen + Stock!Signed(m)
             pc == IF Tail(s) = <<>> THEN "done" ELSE "reading"
  <1>1. /\ work[h].pc = "writing"
        /\ stock' = [stock EXCEPT ![m.key] = Stock!Stored(@, work[h].row, m, c)]
        /\ ledger' = Stock!Booked(m)
        /\ work' = [work EXCEPT ![h] = Stock!Job(pc, Tail(s), 0, 0)]
        /\ UNCHANGED <<status, items, edition, issuing, outcome, todo, passed, queue, crashes>>
    BY DEF TakeOut, Stock!Write, Stock!Is, Stock!NewQuantity, row, chains
  <1>2. /\ s \in Seq(Stock!Moves) /\ s # <<>> /\ issuing[h] # NotIssuing
        /\ r \in Reqs /\ Approved(r) /\ issuing[h].edition <= edition[r]
        /\ \A i \in DOMAIN s : s[i].out /\ s[i].ref = Ref(r)
        /\ InStep(h)
    BY <1>1 DEF IInv, Stock!TypeOK, JobsOK, JobOK
  <1> DEFINE n == Len(s)
  <1>3. /\ n \in Nat \ {0} /\ DOMAIN s = 1..n /\ m = s[1] /\ m \in Stock!Moves
        /\ Tail(s) \in Seq(Stock!Moves) /\ Len(Tail(s)) = n - 1 /\ DOMAIN Tail(s) = 1..(n - 1)
        /\ \A i \in 1..(n - 1) : i + 1 \in 1..n /\ Tail(s)[i] = s[i + 1]
        /\ Tail(s) = <<>> <=> n = 1
    <2> DEFINE t == Tail(s)
    <2> HIDE DEF s
    <2>1. n \in Nat /\ DOMAIN s = 1..n /\ \A i \in 1..n : s[i] \in Stock!Moves
      BY <1>2, LenProperties, ElementOfSeq
    <2>2. n # 0 /\ m = s[1]
      BY <1>2, EmptySeq, HeadTailProperties
    <2>3. t \in Seq(Stock!Moves) /\ Len(t) = n - 1
          /\ \A i \in 1..Len(t) : t[i] = s[i + 1]
      BY <1>2, HeadTailProperties
    <2>4. DOMAIN t = 1..Len(t) /\ (t = <<>> <=> Len(t) = 0)
      BY <2>3, LenProperties, EmptySeq
    <2> HIDE DEF n, t, m
    <2>5. n \in Nat \ {0} /\ m \in Stock!Moves
      BY <2>1, <2>2
    <2>6. DOMAIN t = 1..(n - 1) /\ (t = <<>> <=> n - 1 = 0)
          /\ \A i \in 1..(n - 1) : t[i] = s[i + 1]
      BY <2>3, <2>4, Zenon
    <2>7. (n - 1 = 0 <=> n = 1) /\ \A i \in 1..(n - 1) : i + 1 \in 1..n
      BY <2>5
    <2>8. QED
      BY <2>1, <2>2, <2>3, <2>5, <2>6, <2>7, Zenon DEF t
  <1>4. m.out /\ m.ref = Ref(r) /\ m.key \in Keys /\ m.qty \in Nat
    <2>1. 1 \in DOMAIN s
      BY <1>3
    <2>2. \A e \in Stock!Moves : e.key \in Keys /\ e.qty \in Nat
      BY DEF Stock!Moves
    <2> HIDE DEF n
    <2>3. QED
      BY <1>2, <1>3, <2>1, <2>2, Zenon
  <1> HIDE DEF m, r, n, s
  <1>5. Stock!Signed(m) = -m.qty /\ c \in Int
    BY <1>4 DEF Stock!Signed, IInv, Stock!TypeOK
  <1>6. ledger' = [ledger EXCEPT ![Ref(r)] = [ledger[Ref(r)] EXCEPT ![m.key] = ledger[Ref(r)][m.key] - m.qty]]
    <2>1. m.ref # Stock!Unbooked
      BY <1>4 DEF Ref, Stock!Unbooked
    <2>2. ledger' = [ledger EXCEPT ![Ref(r)][m.key] = @ + (-m.qty)]
      BY <1>1, <1>4, <1>5, <2>1, Zenon DEF Stock!Booked
    <2>3. ledger[Ref(r)][m.key] \in Int
      BY <1>2, <1>4 DEF IInv, Stock!TypeOK
    <2>4. ledger[Ref(r)][m.key] + (-m.qty) = ledger[Ref(r)][m.key] - m.qty
      BY <1>4, <2>3
    <2>5. QED
      BY <2>2, <2>4
  <1>7. ledger \in [({Manual} \cup {Ref(q) : q \in Reqs}) -> [Keys -> Int]]
        /\ ledger' \in [({Manual} \cup {Ref(q) : q \in Reqs}) -> [Keys -> Int]]
    <2>1. ledger \in [({Manual} \cup {Ref(q) : q \in Reqs}) -> [Keys -> Int]]
      BY DEF IInv, Stock!TypeOK
    <2>2. ledger[Ref(r)] \in [Keys -> Int]
      BY <1>2, <2>1
    <2>3. [ledger[Ref(r)] EXCEPT ![m.key] = ledger[Ref(r)][m.key] - m.qty] \in [Keys -> Int]
      BY <1>4, <2>2
    <2>4. QED
      BY <1>6, <2>1, <2>3
  <1>8. \A q \in Reqs, k \in Keys :
           ledger'[Ref(q)][k] = ledger[Ref(q)][k] - (IF q = r /\ k = m.key THEN m.qty ELSE 0)
    <2>1. \A q \in Reqs : Ref(q) = Ref(r) => q = r
      BY DEF Ref
    <2>2. QED
      BY <1>2, <1>4, <1>6, <1>7, <2>1
  <1>9. Stock!TypeOK'
    <2>1. ASSUME NEW t \in Seq(Int)
          PROVE  Stock!Stored(t, work[h].row, m, c) \in Seq(Int)
      <3>1. CASE work[h].row = 0
        BY <1>5, <3>1, AppendProperties DEF Stock!Stored
      <3>2. CASE work[h].row # 0 /\ m.qty # 0
        <4>1. Stock!Stored(t, work[h].row, m, c) = [t EXCEPT ![work[h].row] = c]
          BY <3>2 DEF Stock!Stored
        <4>2. QED
          BY <1>5, <4>1, RowOverwritten
      <3>3. CASE work[h].row # 0 /\ m.qty = 0
        <4>1. Stock!Stored(t, work[h].row, m, c) = t
          BY <3>3 DEF Stock!Stored
        <4>2. QED
          BY <4>1
      <3>4. QED
        BY <3>1, <3>2, <3>3
    <2>2. stock' \in [Keys -> Seq(Int)]
      <3> HIDE DEF c
      <3>1. stock \in [Keys -> Seq(Int)]
        BY DEF IInv, Stock!TypeOK
      <3>2. QED
        BY <1>1, <1>4, <2>1, <3>1
    <2>3. Stock!Job(pc, Tail(s), 0, 0) \in
             [pc : {"idle", "reading", "writing", "done", "failed"},
              moves : Seq(Stock!Moves), row : Nat, seen : Int]
      BY <1>3 DEF Stock!Job
    <2> HIDE DEF pc
    <2>4. QED
      BY <1>1, <1>7, <2>2, <2>3 DEF IInv, Stock!TypeOK
  <1>10. \A q \in Reqs, k \in Keys : Issued(q, k)' >= Issued(q, k)
    <2>1. ASSUME NEW q \in Reqs, NEW k \in Keys
          PROVE  Issued(q, k)' >= Issued(q, k)
      <3> DEFINE a == ledger[Ref(q)][k]
                 b == ledger'[Ref(q)][k]
      <3>1. a \in Int /\ b = a - (IF q = r /\ k = m.key THEN m.qty ELSE 0)
        BY <1>7, <1>8
      <3>2. Issued(q, k) = -a /\ Issued(q, k)' = -b
        BY DEF Issued
      <3> HIDE DEF a, b
      <3>3. -b >= -a
        BY <1>4, <3>1
      <3>4. QED
        BY <3>2, <3>3
    <2>2. QED
      BY <2>1
  <1>11. ChainOK' /\ RowOK' /\ QueueOK' /\ BegunOK' /\ IssuingOK' /\ Growing
    BY <1>1, <1>10, RestKept DEF IInv, IssuingOK
  <1>12. /\ work'[h] = [pc |-> pc, moves |-> Tail(s), row |-> 0, seen |-> 0]
         /\ \A g \in Handlers : g # h => work'[g] = work[g]
    BY <1>1 DEF IInv, Stock!TypeOK, Stock!Job
  <1>13. InStep(h)'
    <2> DEFINE was == issuing[h].size - n
               is == issuing[h].size - (n - 1)
    <2>1. SUFFICES ASSUME issuing[h].edition = edition[r], Stored(r)
                   PROVE  /\ issuing[h].size = Len(items[r]) /\ is \in Nat
                          /\ \A i \in DOMAIN Tail(s) : /\ is + i \in DOMAIN items[r]
                                                       /\ Tail(s)[i].key = items[r][is + i].key
                                                       /\ Tail(s)[i].qty = items[r][is + i].qty
                          /\ \A k \in Keys : -ledger'[Ref(r)][k] >= Sum(Wanted(items[r], k), 1..is)
      <3>1. work'[h].moves = Tail(s) /\ Len(Tail(s)) = n - 1
        BY <1>3, <1>12
      <3>2. UNCHANGED <<status, items, edition, issuing>>
        BY <1>1, Zenon
      <3> HIDE DEF pc, c
      <3>3. QED
        BY <2>1, <3>1, <3>2 DEF InStep, r, Issued, Taken, Sum, Stored
    <2>2. /\ issuing[h].size = Len(items[r]) /\ was \in Nat
          /\ \A i \in DOMAIN s : /\ was + i \in DOMAIN items[r]
                                 /\ s[i].key = items[r][was + i].key
                                 /\ s[i].qty = items[r][was + i].qty
          /\ \A k \in Keys : -ledger[Ref(r)][k] >= Sum(Wanted(items[r], k), 1..was)
      BY <1>2, <2>1 DEF InStep, r, s, n, Issued, Taken
    <2>3. is = was + 1 /\ is \in Nat
      <3> DEFINE size == issuing[h].size
      <3>1. size \in Nat
        BY DEF IInv, IssuingOK
      <3>2. n \in Nat /\ size - n \in Nat
        BY <1>3, <2>2
      <3> HIDE DEF size
      <3>3. size - (n - 1) = (size - n) + 1 /\ size - (n - 1) \in Nat
        BY <3>1, <3>2
      <3>4. QED
        BY <3>3 DEF size
    <2> HIDE DEF was, is
    <2>4. ASSUME NEW i \in DOMAIN Tail(s)
          PROVE  /\ is + i \in DOMAIN items[r]
                 /\ Tail(s)[i].key = items[r][is + i].key
                 /\ Tail(s)[i].qty = items[r][is + i].qty
      <3>1. i \in 1..(n - 1) /\ i + 1 \in DOMAIN s /\ Tail(s)[i] = s[i + 1]
        BY <1>3
      <3>2. was + (i + 1) = is + i
        BY <1>3, <2>2, <2>3, <3>1
      <3>3. QED
        BY <2>2, <3>1, <3>2, Zenon
    <2>5. was + 1 \in DOMAIN items[r] /\ m.key = items[r][was + 1].key /\ m.qty = items[r][was + 1].qty
      BY <1>3, <2>2
    <2>6. ASSUME NEW k \in Keys
          PROVE  -ledger'[Ref(r)][k] >= Sum(Wanted(items[r], k), 1..is)
      <3> DEFINE a == ledger[Ref(r)][k]
                 b == ledger'[Ref(r)][k]
                 x == Sum(Wanted(items[r], k), 1..was)
                 y == Sum(Wanted(items[r], k), 1..(was + 1))
                 q == IF k = m.key THEN m.qty ELSE 0
      <3>1. a \in Int /\ b = a - q /\ q \in Int
        BY <1>2, <1>4, <1>7, <1>8
      <3>2. -a >= x
        BY <2>2
      <3>3. y = x + q
        <4> DEFINE p == IF items[r][was + 1].key = k THEN items[r][was + 1].qty ELSE 0
        <4>1. items[r] \in Seq([key : Keys, qty : Nat \ {0}])
          BY <1>2, TakenType
        <4>2. \A l \in Nat : l + 1 \in DOMAIN items[r] =>
                Sum(Wanted(items[r], k), 1..(l + 1)) =
                  Sum(Wanted(items[r], k), 1..l)
                    + IF items[r][l + 1].key = k THEN items[r][l + 1].qty ELSE 0
          BY <4>1, ListSums
        <4>3. was \in Nat /\ was + 1 \in DOMAIN items[r]
          BY <2>2, <2>5
        <4>4. y = x + p
          BY <4>2, <4>3, Zenon
        <4>5. p = q
          BY <2>5, Zenon
        <4> HIDE DEF x, y, p, q
        <4>6. QED
          BY <4>4, <4>5
      <3>4. x \in Int
        <4>1. was <= Len(items[r])
          <5>1. items[r] \in Seq([key : Keys, qty : Nat \ {0}])
            BY <1>2, TakenType
          <5>2. Len(items[r]) \in Nat /\ DOMAIN items[r] = 1..Len(items[r])
            BY <5>1, LenProperties
          <5>3. was + 1 \in 1..Len(items[r])
            BY <2>5, <5>2
          <5>4. \A i, j \in Nat : i + 1 \in 1..j => i <= j
            OBVIOUS
          <5>5. QED
            BY <2>2, <5>2, <5>3, <5>4, Zenon
        <4>2. QED
          BY <1>2, <2>2, <4>1, ListSums, TakenType
      <3> HIDE DEF a, b, x, y, q
      <3>5. -b >= y
        BY <3>1, <3>2, <3>3, <3>4
      <3>6. QED
        BY <2>3, <3>5 DEF b, y
    <2>7. QED
      BY <2>2, <2>3, <2>4, <2>6
  <1>14. JobOK(h)'
    <2>1. \A i \in DOMAIN Tail(s) : Tail(s)[i].out /\ Tail(s)[i].ref = Ref(r)
      <3>1. ASSUME NEW i \in DOMAIN Tail(s)
            PROVE  i + 1 \in DOMAIN s /\ Tail(s)[i] = s[i + 1]
        BY <1>3
      <3>2. QED
        BY <1>2, <3>1
    <2>2. UNCHANGED <<issuing, edition, outcome>>
      BY <1>1, Zenon
    <2>3. Approved(issuing[h].row)'
      BY <1>2, <2>2 DEF Approved, r
    <2>4. work'[h].moves = Tail(s) /\ work'[h].pc = pc
      BY <1>12
    <2>5. /\ pc \in {"done", "reading"} /\ (pc = "done" => Tail(s) = <<>>)
          /\ (pc = "reading" => Tail(s) # <<>>)
      OBVIOUS
    <2> HIDE DEF pc
    <2>6. QED
      BY <1>2, <1>13, <2>1, <2>2, <2>3, <2>4, <2>5 DEF JobOK, r
  <1>15. JobsOK'
    BY <1>1, <1>9, <1>11, <1>12, <1>14, JobKept DEF JobsOK
  <1>16. IssuedOK'
    <2>1. ASSUME NEW q \in Reqs, NEW k \in Keys
          PROVE  ledger'[Ref(q)][k] <= 0 /\ (ledger'[Ref(q)][k] # 0 => Approved(q))
      <3> DEFINE a == ledger[Ref(q)][k]
                 b == ledger'[Ref(q)][k]
                 d == IF q = r /\ k = m.key THEN m.qty ELSE 0
      <3>1. a \in Int /\ a <= 0 /\ (a # 0 => Approved(q)) /\ b = a - d
        BY <1>7, <1>8 DEF IInv, IssuedOK
      <3>2. d \in Nat /\ (d # 0 => q = r)
        BY <1>4
      <3> HIDE DEF a, b, d
      <3>3. b <= 0 /\ (b # 0 => a # 0 \/ d # 0)
        BY <3>1, <3>2
      <3>4. QED
        BY <1>2, <3>1, <3>2, <3>3 DEF b
    <2>2. QED
      BY <1>1, <2>1 DEF IInv, IssuedOK, Approved
  <1>17. ApprovedIsIssued'
    BY <1>1, <1>9, <1>11, EnoughKept DEF ApprovedIsIssued
  <1>18. QED
    BY <1>9, <1>11, <1>15, <1>16, <1>17 DEF IInv

-----------------------------------------------------------------------------
(* Every step keeps the invariant.                                          *)
LEMMA NextIInv ==
    ASSUME IInv, [Next]_vars
    PROVE  IInv'
  <1>1. CASE UNCHANGED vars
    <2>1. UNCHANGED <<status, items, edition, issuing, outcome, todo, passed, queue, crashes,
                      stock, ledger, work>>
      BY <1>1 DEF vars, row, chains, shelves
    <2>2. ChainOK' /\ RowOK' /\ QueueOK' /\ BegunOK' /\ Growing
      BY <2>1, BooksKept, RestKept
    <2>3. Stock!TypeOK' /\ IssuingOK'
      BY <2>1 DEF IInv, Stock!TypeOK, IssuingOK
    <2>4. JobsOK' /\ IssuedOK' /\ ApprovedIsIssued'
      BY <2>1, <2>2, <2>3, QuietStep
    <2>5. QED
      BY <2>2, <2>3, <2>4 DEF IInv
  <1>2. CASE Next
    <2>1. CASE \E r \in Reqs : Create(r) \/ Update(r) \/ Delete(r) \/ ConsumeStart(r)
      BY <2>1, CreateIInv, UpdateIInv, DeleteIInv, ConsumeStartIInv
    <2>2. CASE \E x \in Runs : Approve(x) \/ Reject(x)
      BY <2>2, ApproveIInv, RejectIInv
    <2>3. CASE \E m \in queue : ConsumeApproved(m)
      BY <2>3, ConsumeApprovedIInv
    <2>4. CASE \E h \in Handlers : Issue(h)
      BY <2>4, ReadStockIInv, TakeOutIInv, CompleteIInv, AbandonIInv DEF Issue
    <2>5. CASE \E k \in Keys : Restock(k)
      BY <2>5, RestockIInv
    <2>6. QED
      BY <1>2, <2>1, <2>2, <2>3, <2>4, <2>5 DEF Next
  <1>3. QED
    BY <1>1, <1>2

(* For any number of requests, items, steps and runs, whatever crashes, is  *)
(* repeated, edited or runs short: nothing leaves the stock for a request   *)
(* whose chain is not through, and an approved request got all it asks for. *)
THEOREM InternalIssuedAsApproved == Spec => []IssuedAsApproved
  <1>1. IInv /\ [Next]_vars => IInv'
    BY NextIInv
  <1>2. QED
    BY InitIInv, IInvSuffices, <1>1, PTL DEF Spec

=============================================================================
