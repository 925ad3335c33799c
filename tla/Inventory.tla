------------------------------ MODULE Inventory ------------------------------
(***************************************************************************)
(* The stock of the warehouses (services/inventory, services/master_data/   *)
(* stock.py).  A handler works through a list of moves and commits after    *)
(* each: it reads the stock row, tests what it saw, and writes the new      *)
(* quantity, not a difference, together with an inventory transaction.      *)
(* Nothing locks the row between the read and the write, and nothing in the *)
(* database keeps two handlers from creating one each.                      *)
(***************************************************************************)
EXTENDS Integers, Sequences, FiniteSets, Functions

CONSTANTS
    Handlers,   \* whatever runs in parallel: HTTP requests, the consumer
    Keys,       \* an item in a warehouse
    Refs,       \* ref_type and ref_id of inventory transactions
    Quantities, \* quantities moved: the handlers ask nothing of them
    Opening,    \* Opening[k]: quantity of the row of k at the start, 0: no row
    Crashes     \* a process may die between two commits

ASSUME InventoryAssumption ==
    /\ IsFiniteSet(Handlers) /\ IsFiniteSet(Keys) /\ IsFiniteSet(Refs)
    /\ Quantities \subseteq Int
    /\ Opening \in [Keys -> Nat] /\ Crashes \in BOOLEAN

VARIABLES
    stock,      \* stock[k]: quantities of the rows of k, a sequence
    ledger,     \* ledger[ref][k]: sum of the transactions, out is negative
    work        \* work[h]: the job of h, and what it saw of the row it is at

vars == <<stock, ledger, work>>

(* A move that is not booked (increase_stock, decrease_stock) has no ref.   *)
Unbooked == [type |-> "none", id |-> 0]
Moves == [out : BOOLEAN, key : Keys, qty : Quantities, ref : Refs \cup {Unbooked}]
Job(pc, moves, row, seen) == [pc |-> pc, moves |-> moves, row |-> row, seen |-> seen]
Free == Job("idle", <<>>, 0, 0)

TypeOK ==
    /\ stock \in [Keys -> Seq(Int)]
    /\ ledger \in [Refs -> [Keys -> Int]]
    /\ work \in [Handlers ->
          [pc : {"idle", "reading", "writing", "done", "failed"},
           moves : Seq(Moves), row : Nat, seen : Int]]

Init ==
    /\ stock = [k \in Keys |-> IF Opening[k] = 0 THEN <<>> ELSE <<Opening[k]>>]
    /\ ledger = [ref \in Refs |-> [k \in Keys |-> 0]]
    /\ work = [h \in Handlers |-> Free]

In(k, q, ref) == [out |-> FALSE, key |-> k, qty |-> q, ref |-> ref]
Out(k, q, ref) == [out |-> TRUE, key |-> k, qty |-> q, ref |-> ref]

TransferInFirst(from, to, q, ref) == <<In(to, q, ref), Out(from, q, ref)>>

(* transfer: two commits. *)
Transfer(from, to, q, ref) == <<Out(from, q, ref), In(to, q, ref)>>

Is(h, pc) == work[h].pc = pc

Begin(h, moves) ==
    /\ Is(h, "idle")
    /\ work' = [work EXCEPT ![h] = Job("reading", moves, 0, 0)]
    /\ UNCHANGED <<stock, ledger>>

(* The row that first() returns, in no order the query asks for; 0 when     *)
(* there is none: get_or_create_stock adds one, which others see with the   *)
(* commit only.                                                             *)
Found(k) == IF stock[k] = <<>> THEN {0} ELSE DOMAIN stock[k]

Suffices(m, seen) == m.out => seen >= m.qty

(* decrease_stock makes no row, as stock_out does.                          *)
RowIsThere(m, i) == m.out /\ m.ref = Unbooked => i # 0

Read(h) ==
    LET m == Head(work[h].moves) IN
    /\ Is(h, "reading")
    /\ \E i \in Found(m.key) :
         LET seen == IF i = 0 THEN 0 ELSE stock[m.key][i] IN
         work' = [work EXCEPT ![h] =
                    IF Suffices(m, seen) /\ RowIsThere(m, i)
                      THEN Job("writing", @.moves, i, seen)
                      ELSE Job("failed", @.moves, 0, 0)]
    /\ UNCHANGED <<stock, ledger>>

Signed(m) == IF m.out THEN -m.qty ELSE m.qty

BookedAsIn(m) == IF m.ref = Unbooked THEN ledger
                 ELSE [ledger EXCEPT ![m.ref][m.key] = @ + m.qty]
Booked(m) == IF m.ref = Unbooked THEN ledger
             ELSE [ledger EXCEPT ![m.ref][m.key] = @ + Signed(m)]

QuantityAtWrite(h, m) ==
    Signed(m) + IF work[h].row = 0 THEN 0 ELSE stock[m.key][work[h].row]
NewQuantity(h, m) == work[h].seen + Signed(m)

(* A row that is made is stored, one that comes out as it was is not.       *)
Stored(rows, i, m, new) ==
    CASE i = 0 -> Append(rows, new)
      [] i # 0 /\ m.qty # 0 -> [rows EXCEPT ![i] = new]
      [] i # 0 /\ m.qty = 0 -> rows

Write(h) ==
    LET m == Head(work[h].moves)
        new == NewQuantity(h, m)
        rest == Tail(work[h].moves)
    IN
    /\ Is(h, "writing")
    /\ stock' = [stock EXCEPT ![m.key] = Stored(@, work[h].row, m, new)]
    /\ ledger' = Booked(m)
    /\ work' = [work EXCEPT ![h] =
                  Job(IF rest = <<>> THEN "done" ELSE "reading", rest, 0, 0)]

(* The job is over: all of it done, a move refused, or the process dead.    *)
Finish(h) ==
    /\ \/ Is(h, "done") \/ Is(h, "failed")
       \/ Crashes /\ ~Is(h, "idle")
    /\ work' = [work EXCEPT ![h] = Free]
    /\ UNCHANGED <<stock, ledger>>

-----------------------------------------------------------------------------
Rows(k) == DOMAIN stock[k]
OnHand(k) == SumFunction(stock[k])
Net(k) == SumFunction([ref \in Refs |-> ledger[ref][k]])

(* One handler at a time: the stock is what the transactions say it is.     *)
StockIsBooked == \A k \in Keys : OnHand(k) = Opening[k] + Net(k)

(* One handler at a time: an item has one row per warehouse.                *)
OneRow == \A k \in Keys : Len(stock[k]) <= 1
=============================================================================
