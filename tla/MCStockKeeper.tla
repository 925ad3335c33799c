---------------------------- MODULE MCStockKeeper ----------------------------
(* StockKeeper with one item in two warehouses, one of them without a row,  *)
(* under two loads: any requests at once, or one booked request at a time.  *)
EXTENDS StockKeeper, TLC

MCOpening == [k \in Keys |-> IF k = "main" THEN 1 ELSE 0]
MCQuantities == {-1, 0, 1}
MCRefs == {Manual, Transfers}
HandlerSymmetry == Permutations(Handlers)

VARIABLE alone  \* one request at a time, and none of those that book nothing

MovesOf(h) == {work[h].moves[i] : i \in DOMAIN work[h].moves}

AtMostOneBooked ==
    /\ \A g, h \in Handlers : Is(g, "idle") \/ Is(h, "idle") \/ g = h
    /\ \A h \in Handlers : \A m \in MovesOf(h) : m.ref # Unbooked

MCInit == Init /\ turned = {} /\ alone \in BOOLEAN
Kept == UNCHANGED alone /\ (alone => AtMostOneBooked')

(* Without the bounds of the model below: what is proved is about this.     *)
AnyNext == Next /\ Kept
AnySpec == MCInit /\ [][AnyNext]_<<keeperVars, alone>>

(* Bounds: negative quantities are brought in at one place, by transfers or *)
(* otherwise.  Where requests overlap only transfers are booked, they have  *)
(* stock_in and stock_out as well; none is of nothing, and of a negative    *)
(* quantity is only what is brought in at the place without a row.          *)
Few(h) ==
    /\ Cardinality(turned) <= 1
    /\ alone \/ \A m \in MovesOf(h) :
          /\ m.qty # 0 /\ m.ref # Manual
          /\ m.qty < 0 => ~m.out /\ m.ref = Unbooked /\ m.key = "site"

MCNext == \E h \in Handlers :
    \/ Ask(h) /\ Kept /\ Few(h)'
    \/ Goes(h) /\ Kept
MCSpec == MCInit /\ [][MCNext]_<<keeperVars, alone>>

(* One request at a time, of any quantity: the stock is what the            *)
(* transactions say it is, also when a transfer was cut short between its   *)
(* two commits; an item has one row per warehouse; and more is taken out    *)
(* than there is only by a negative quantity.                               *)
BookedAlone == alone => StockIsBooked /\ OneRow /\ NeverOversold
=============================================================================
