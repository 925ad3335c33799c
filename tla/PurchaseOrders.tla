--------------------------- MODULE PurchaseOrders ---------------------------
(***************************************************************************)
(* Suppliers and purchase orders (procurement/purchase_order_service.py,    *)
(* supplier_service.py, the old goods receipt of grn_service.py and their   *)
(* routes).  A handler reads the rows it needs, and writes at its commit    *)
(* what it changed of them; another one may commit in between.  The old     *)
(* goods receipt commits after every line.                                  *)
(***************************************************************************)
EXTENDS Integers, FiniteSets, FiniteSetsExt, Sessions

CONSTANTS Orders,     \* ids of the orders, given out in their order
          Suppliers,  \* ids of the suppliers
          Names,      \* their names, compared without case
          Clerks,     \* concurrent HTTP requests
          MaxLines    \* bound: lines ever written

ASSUME OrdersAssumption ==
    /\ Orders \subseteq Nat \ {0} /\ IsFiniteSet(Orders)
    /\ Suppliers \subseteq Nat \ {0} /\ "none" \notin Names
    /\ MaxLines \in Nat

VARIABLES
    supplier,   \* supplier[s]: the name of the supplier, or "none"
    order,      \* order[o]: the row; "of" is whether it names the one purchase request
    ofRequest,  \* Request.purchase_order_id of that request, or 0
    goods,      \* goods[i]: times line i entered the stock, up to 2
    written,    \* lines written so far; they are named 1, 2, ...
    deleted,    \* some order was deleted
    clerk,      \* clerk[c]: what the request of c has read
    rough       \* requests overlap, and the process may die

ordersVars == <<supplier, order, ofRequest, goods, written, deleted, clerk, rough>>

(* Statuses are free text; the code tells these apart ("closed" stands for  *)
(* "cancelled" too).                                                        *)
Statuses == {"open", "closed", "received"}

NoOrder == [status |-> "none", no |-> 0, supplier |-> 0, of |-> FALSE, named |-> FALSE, lines |-> {}]
Idle == [op |-> "none", o |-> 0, no |-> 0, name |-> "none", supplier |-> 0,
         seen |-> NoOrder, left |-> {}]

Stored == {o \in Orders : order[o].status \in Statuses}

OrdersTypeOK ==
    /\ supplier \in [Suppliers -> Names \cup {"none"}]
    /\ \A o \in Orders : /\ order[o].status \in Statuses \cup {"none", "gone"}
                         /\ order[o].supplier \in Suppliers \cup {0}
                         /\ order[o].lines \subseteq 1..written
    /\ ofRequest \in Stored \cup {0}
    /\ goods \in [1..MaxLines -> 0..2] /\ written \in 0..MaxLines
    /\ \A c \in Clerks : /\ clerk[c].o \in Orders \cup {0} /\ clerk[c].no \in 0..Cardinality(Orders) + 1
                         /\ clerk[c].supplier \in Suppliers \cup {0}
                         /\ clerk[c].left \subseteq 1..written

OrdersInit ==
    /\ supplier = [s \in Suppliers |-> "none"]
    /\ order = [o \in Orders |-> NoOrder]
    /\ ofRequest = 0
    /\ goods = [i \in 1..MaxLines |-> 0] /\ written = 0
    /\ deleted = FALSE
    /\ clerk = [c \in Clerks |-> Idle]
    /\ rough \in BOOLEAN

-----------------------------------------------------------------------------
(* Requests.                                                                *)

Served(c) == clerk[c] = Idle /\ (rough \/ \A d \in Clerks : clerk[d] = Idle)
Reads(c, what) == clerk' = [clerk EXCEPT ![c] = what]
Ends(c) == Reads(c, Idle)

(* A commit that the database, or a row that is gone, refuses.              *)
Refused(c) ==
    /\ Ends(c)
    /\ UNCHANGED <<supplier, order, ofRequest, goods, written, deleted>>

(* _next_order_no: the count and one.                                       *)
NextNo == Cardinality(Stored) + 1

(* _get_or_create_supplier: any supplier of that name, or a new one (0),    *)
(* which is inserted with the order.                                        *)
Candidates(name) ==
    LET known == {s \in Suppliers : supplier[s] = name} IN IF known = {} THEN {0} ELSE known

Unused == {s \in Suppliers : supplier[s] = "none"}
SupplierStored(s, name) ==
    IF s = 0
    THEN Unused # {} /\ supplier' = [supplier EXCEPT ![Min(Unused)] = name]
    ELSE supplier[s] # "none" /\ UNCHANGED supplier
SupplierOf(s) == IF s = 0 THEN Min(Unused) ELSE s

(* The rows of purchase_order_items that a request writes.                  *)
NewLines(n) == written + 1 .. written + n

-----------------------------------------------------------------------------
(* Suppliers.  Their names need not differ.                                 *)

CreateSupplier(c, name) ==
    /\ Served(c) /\ Unused # {}
    /\ supplier' = [supplier EXCEPT ![Min(Unused)] = name]
    /\ UNCHANGED <<order, ofRequest, goods, written, deleted, clerk, rough>>

UpdateSupplier(c, s, name) ==
    /\ Served(c) /\ supplier[s] # "none"
    /\ supplier' = [supplier EXCEPT ![s] = name]
    /\ UNCHANGED <<order, ofRequest, goods, written, deleted, clerk, rough>>

(* The foreign key of the orders refuses one they name.                     *)
DeleteSupplier(c, s) ==
    /\ Served(c) /\ supplier[s] # "none"
    /\ \A o \in Stored : order[o].supplier # s
    /\ supplier' = [supplier EXCEPT ![s] = "none"]
    /\ UNCHANGED <<order, ofRequest, goods, written, deleted, clerk, rough>>

-----------------------------------------------------------------------------
(* Orders.                                                                  *)

Unborn == {o \in Orders : order[o].status = "none"}
FreshUnchecked(no) == TRUE
Fresh(no) == \A o \in Stored : order[o].no # no

Insert(status, no, s, of, named, n) ==
    /\ Unborn # {} /\ written + n <= MaxLines
    /\ order' = [order EXCEPT ![Min(Unborn)] =
                   [status |-> status, no |-> no, supplier |-> s, of |-> of,
                    named |-> named, lines |-> NewLines(n)]]
    /\ written' = written + n

(* create_purchase_order: the supplier and the number are looked up,        *)
BeginOrder(c, name) ==
    /\ UNCHANGED rough
    /\ Served(c)
    /\ \E s \in Candidates(name) :
         Reads(c, [Idle EXCEPT !.op = "create", !.no = NextNo, !.name = name, !.supplier = s])
    /\ UNCHANGED <<supplier, order, ofRequest, goods, written, deleted>>

(* and the order is stored, with one line if it names an item.              *)
CommitOrder(c) ==
    LET r == clerk[c] IN
    /\ UNCHANGED rough
    /\ r.op = "create"
    /\ \/ /\ Fresh(r.no) /\ SupplierStored(r.supplier, r.name)
          /\ \E status \in Statuses, of, named \in BOOLEAN :
               Insert(status, r.no, SupplierOf(r.supplier), of, named, IF named THEN 1 ELSE 0)
          /\ Ends(c) /\ UNCHANGED <<ofRequest, goods, deleted>>
       \/ ~(Fresh(r.no) /\ (r.supplier = 0 \/ supplier[r.supplier] # "none")) /\ Refused(c)

(* ensure_purchase_order_for_request, when the request refers to no order:  *)
(* the last that names it is taken, or one is made,                         *)
NamesRequest == {o \in Stored : order[o].of}
BeginForRequest(c, s) ==
    /\ UNCHANGED rough
    /\ Served(c)
    /\ ofRequest = 0
    /\ IF NamesRequest # {}
       THEN Reads(c, [Idle EXCEPT !.op = "link", !.o = Max(NamesRequest)])
       ELSE supplier[s] # "none" /\ Reads(c, [Idle EXCEPT !.op = "request", !.no = NextNo, !.supplier = s])
    /\ UNCHANGED <<supplier, order, ofRequest, goods, written, deleted>>

(* create_po_from_request: a line for each item of the request,             *)
CommitForRequest(c) ==
    LET r == clerk[c] IN
    /\ UNCHANGED rough
    /\ r.op = "request"
    /\ IF Fresh(r.no) /\ supplier[r.supplier] # "none"
       THEN /\ Insert("open", r.no, r.supplier, TRUE, TRUE, 2)
            /\ Reads(c, [Idle EXCEPT !.op = "link", !.o = Min(Unborn)])
            /\ UNCHANGED <<supplier, ofRequest, goods, deleted>>
       ELSE Refused(c)

(* which is noted in the request by a second commit.                        *)
LinkRequest(c) ==
    LET o == clerk[c].o IN
    /\ UNCHANGED rough
    /\ clerk[c].op = "link"
    /\ IF o \in Stored
       THEN ofRequest' = o /\ Ends(c) /\ UNCHANGED <<supplier, order, goods, written, deleted>>
       ELSE Refused(c)

ClosedUnlessReceived == {"closed"}
Closed == {"closed", "received"}

(* update_purchase_order *)
BeginUpdate(c, o) ==
    /\ UNCHANGED rough
    /\ Served(c)
    /\ o \in Stored /\ order[o].status \notin Closed
    /\ Reads(c, [Idle EXCEPT !.op = "update", !.o = o, !.seen = order[o]])
    /\ UNCHANGED <<supplier, order, ofRequest, goods, written, deleted>>

(* Whatever is changed of an order that names an item, the lines it had are *)
(* replaced by one.                                                         *)
CommitUpdate(c) ==
    LET o == clerk[c].o
        seen == clerk[c].seen
        now == order[o] IN
    /\ UNCHANGED rough
    /\ clerk[c].op = "update"
    /\ IF o \notin Stored THEN Refused(c)
       ELSE /\ \E status \in Statuses, of, named \in BOOLEAN,
                  s \in {t \in Suppliers : supplier[t] # "none"} :
                 /\ named => written < MaxLines
                 /\ order' = [order EXCEPT ![o] =
                      [now EXCEPT !.status = Kept(seen.status, status, now.status),
                                  !.supplier = Kept(seen.supplier, s, now.supplier),
                                  !.of = Kept(seen.of, of, now.of),
                                  !.named = Kept(seen.named, named, now.named),
                                  !.lines = IF named THEN (now.lines \ seen.lines) \cup NewLines(1)
                                            ELSE now.lines]]
                 /\ written' = IF named THEN written + 1 ELSE written
            /\ Ends(c)
            /\ UNCHANGED <<supplier, ofRequest, goods, deleted>>

(* delete_purchase_order, with the lines it has read; a request that refers *)
(* to the order, or another line of it, refuses.                            *)
BeginDelete(c, o) ==
    /\ UNCHANGED rough
    /\ Served(c)
    /\ o \in Stored /\ order[o].status # "received"
    /\ Reads(c, [Idle EXCEPT !.op = "delete", !.o = o, !.seen = order[o]])
    /\ UNCHANGED <<supplier, order, ofRequest, goods, written, deleted>>

CommitDelete(c) ==
    LET o == clerk[c].o IN
    /\ UNCHANGED rough
    /\ clerk[c].op = "delete"
    /\ IF o \in Stored /\ ofRequest # o /\ order[o].lines \subseteq clerk[c].seen.lines
       THEN /\ order' = [order EXCEPT ![o] = [NoOrder EXCEPT !.status = "gone"]]
            /\ deleted' = TRUE
            /\ Ends(c)
            /\ UNCHANGED <<supplier, ofRequest, goods, written>>
       ELSE Refused(c)

(* receive_po: asks nothing but that the order exists,                      *)
BeginReceive(c, o) ==
    /\ UNCHANGED rough
    /\ Served(c)
    /\ o \in Stored
    /\ Reads(c, [Idle EXCEPT !.op = "receive", !.o = o, !.seen = order[o], !.left = order[o].lines])
    /\ UNCHANGED <<supplier, order, ofRequest, goods, written, deleted>>

(* books its lines one by one, each in a transaction of its own,            *)
BookLine(c) ==
    LET i == Min(clerk[c].left)
        o == clerk[c].o IN
    /\ UNCHANGED rough
    /\ clerk[c].left # {}
    /\ IF clerk[c].left = clerk[c].seen.lines \/ i \in order[o].lines
       THEN /\ goods' = [goods EXCEPT ![i] = IF @ = 2 THEN 2 ELSE @ + 1]
            /\ Reads(c, [clerk[c] EXCEPT !.left = @ \ {i}])
            /\ UNCHANGED <<supplier, order, ofRequest, written, deleted>>
       ELSE Refused(c)

(* and marks the order.                                                     *)
EndReceive(c) ==
    LET o == clerk[c].o IN
    /\ UNCHANGED rough
    /\ clerk[c].op = "receive" /\ clerk[c].left = {}
    /\ IF o \in Stored
       THEN /\ order' = [order EXCEPT ![o].status = "received"]
            /\ Ends(c)
            /\ UNCHANGED <<supplier, ofRequest, goods, written, deleted>>
       ELSE Refused(c)

(* The process dies with the request half done.                             *)
Die(c) == rough /\ clerk[c] # Idle /\ Refused(c) /\ UNCHANGED rough

OrdersNext ==
    \E c \in Clerks :
        \/ \E name \in Names : CreateSupplier(c, name) \/ BeginOrder(c, name)
        \/ \E s \in Suppliers : \/ DeleteSupplier(c, s) \/ BeginForRequest(c, s)
                                \/ \E name \in Names : UpdateSupplier(c, s, name)
        \/ \E o \in Orders : BeginUpdate(c, o) \/ BeginDelete(c, o) \/ BeginReceive(c, o)
        \/ CommitOrder(c) \/ CommitForRequest(c) \/ LinkRequest(c)
        \/ CommitUpdate(c) \/ CommitDelete(c)
        \/ BookLine(c) \/ EndReceive(c)
        \/ Die(c)

OrdersSpec == OrdersInit /\ [][OrdersNext]_ordersVars

-----------------------------------------------------------------------------
(* However requests overlap and wherever the process dies: the types; no    *)
(* number is given twice; and, as numbers are counted and not remembered,   *)
(* the next one is free as long as no order was deleted, so that one can be *)
(* stored (after that the same number may be refused for ever).             *)
NumbersAreFree ==
    /\ OrdersTypeOK
    /\ \A o, p \in Stored : order[o].no = order[p].no => o = p
    /\ ~deleted => Fresh(NextNo)

AtRest == \A c \in Clerks : clerk[c] = Idle

(* One request at a time: what entered the stock are the lines of orders    *)
(* that are received, all of them equally often.                            *)
BookedIsReceived ==
    ~rough /\ AtRest =>
        \A i \in 1..MaxLines : goods[i] > 0 =>
            \E o \in Stored : /\ i \in order[o].lines /\ order[o].status = "received"
                              /\ \A j \in order[o].lines : goods[j] = goods[i]

(* Both: the numbers of orders, and what they brought into the stock.       *)
OrdersAddUp == NumbersAreFree /\ BookedIsReceived

(* One request at a time: an order whose goods came in stays as it is.      *)
ReceivedStays ==
    [][\A o \in Stored : ~rough /\ order[o].status = "received" => order'[o] = order[o]]_ordersVars
=============================================================================
