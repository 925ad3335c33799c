---------------------------- MODULE StockKeeper ----------------------------
(***************************************************************************)
(* The stock keeper's requests to Inventory: the routes of routes/inventory *)
(* and of routes/master_data/stock.py.  They take any dictionary: no schema *)
(* asks for a positive quantity.  A negative one turns a move round: to     *)
(* stock_out it is less than what is there, to stock_in it is not tested.   *)
(***************************************************************************)
EXTENDS Inventory

CONSTANTS MaxQty,      \* bound: no job is asked for at a warehouse whose rows
                       \* or books are further from zero
          Adjusting    \* whether the routes that book nothing are used

VARIABLE turned  \* brought in with a negative quantity: the item and warehouse,
                 \* and whether by a transfer; for the properties only

Manual == [type |-> "manual", id |-> 0]
Transfers == [type |-> "transfer", id |-> 0]

ASSUME StockKeeperAssumption ==
    /\ Adjusting \in BOOLEAN
    /\ {Manual, Transfers} \subseteq Refs

Magnitude(n) == IF n < 0 THEN -n ELSE n

InBounds(k) == /\ \A i \in Rows(k) : Magnitude(stock[k][i]) <= MaxQty
               /\ SumFunction([ref \in Refs |-> Magnitude(ledger[ref][k])]) <= MaxQty

(* stock_in, stock_out and transfer; increase_stock and decrease_stock do   *)
(* the same and book nothing.                                               *)
StockIn(h, k, q) == Begin(h, <<In(k, q, Manual)>>)
StockOut(h, k, q) == Begin(h, <<Out(k, q, Manual)>>)
Move(h, k, to, q) == Begin(h, Transfer(k, to, q, Transfers))
Increase(h, k, q) == Adjusting /\ Begin(h, <<In(k, q, Unbooked)>>)
Decrease(h, k, q) == Adjusting /\ Begin(h, <<Out(k, q, Unbooked)>>)

(* What of a job takes goods out without a test.                            *)
Turned(moves) ==
    {<<moves[i].key, moves[i].ref = Transfers>> :
        i \in {j \in DOMAIN moves : ~moves[j].out /\ moves[j].qty < 0}}

Ask(h) ==
    /\ \E k \in Keys, q \in Quantities :
         /\ InBounds(k)
         /\ \/ StockIn(h, k, q) \/ StockOut(h, k, q)
            \/ Increase(h, k, q) \/ Decrease(h, k, q)
            \/ \E to \in Keys : InBounds(to) /\ Move(h, k, to, q)
    /\ turned' = turned \cup Turned(work'[h].moves)

Goes(h) == (Read(h) \/ Write(h) \/ Finish(h)) /\ UNCHANGED turned

Next == \E h \in Handlers : Ask(h) \/ Goes(h)

keeperVars == <<vars, turned>>

Spec == Init /\ turned = {} /\ [][Next]_keeperVars

-----------------------------------------------------------------------------
HasTurned(k) == \E b \in BOOLEAN : <<k, b>> \in turned

(* Whatever overlaps, a row goes below zero only where somebody brought in a *)
(* negative quantity: what a stock_out writes comes from the quantity that  *)
(* was tested, whoever else has written in between.                         *)
NegativeWhereTurned ==
    \A k \in Keys : (\E i \in Rows(k) : stock[k][i] < 0) => HasTurned(k)

(* As long as no transfer was of a negative quantity: however many transfers *)
(* run at once, fail or die between their two commits, together they never  *)
(* put more into the warehouses than they took out of them.                 *)
TransfersCreateNothing ==
    (\A k \in Keys : <<k, TRUE>> \notin turned) => SumFunction(ledger[Transfers]) <= 0

(* Both, whatever overlaps: goods come from nowhere, be it by going below   *)
(* zero or on the way from one warehouse to another, only by a request to   *)
(* bring in a negative quantity.                                            *)
NothingFromNowhere == NegativeWhereTurned /\ TransfersCreateNothing

(* Never is more taken out than there is, but by a negative quantity: the   *)
(* transactions of an item in a warehouse do not sum to less than nothing.  *)
NeverOversold == \A k \in Keys : Opening[k] + Net(k) < 0 => HasTurned(k)
=============================================================================
