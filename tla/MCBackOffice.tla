---------------------------- MODULE MCBackOffice ----------------------------
(* The parts of the back office, which share no row: purchase orders, goods *)
(* receipts, the catalogue and bank accounts.  Each initial state has one   *)
(* of them, with requests that overlap or that do not.                      *)
EXTENDS PurchaseOrders, GoodsReceipts, Catalogue, BankAccounts, TLC

VARIABLE part

all == <<part, ordersVars, receiptsVars, catalogueVars, accountsVars>>

MCInit ==
    /\ part \in {"orders", "receipts", "catalogue", "accounts"}
    /\ OrdersInit /\ (part # "orders" => ~rough)
    /\ ReceiptsInit /\ (part # "receipts" => request = "other" /\ ~busy)
    /\ CatalogueInit /\ (part # "catalogue" => ~crowded)
    /\ AccountsInit /\ (part # "accounts" => ~rush)

(* Bounds: a second supplier while there is one line at most; where         *)
(* requests overlap one line and one supplier, and two accounts of one      *)
(* counterparty.                                                            *)
InOrders ==
    /\ part = "orders"
    /\ UNCHANGED <<part, receiptsVars, catalogueVars, accountsVars>>
    /\ written' <= 1 \/ Cardinality({s \in Suppliers : supplier'[s] # "none"}) <= 1
    /\ rough => written' <= 1 /\ supplier'[2] = "none" /\ ~order'[2].of
InReceipts ==
    /\ part = "receipts"
    /\ UNCHANGED <<part, ordersVars, catalogueVars, accountsVars>>
InCatalogue ==
    /\ part = "catalogue"
    /\ UNCHANGED <<part, ordersVars, receiptsVars, accountsVars>>
InAccounts ==
    /\ part = "accounts"
    /\ UNCHANGED <<part, ordersVars, receiptsVars, catalogueVars>>
    /\ rush => Cardinality(Opened') <= 2 /\ Of(Company)' = {}
MCNext ==
    \/ \E c \in Clerks, name \in Names : CreateSupplier(c, name) /\ InOrders
    \/ \E c \in Clerks, name \in Names : BeginOrder(c, name) /\ InOrders
    \/ \E c \in Clerks, s \in Suppliers : DeleteSupplier(c, s) /\ InOrders
    \/ \E c \in Clerks, s \in Suppliers : BeginForRequest(c, s) /\ InOrders
    \/ \E c \in Clerks, s \in Suppliers, name \in Names : UpdateSupplier(c, s, name) /\ InOrders
    \/ \E c \in Clerks, o \in Orders : BeginUpdate(c, o) /\ InOrders
    \/ \E c \in Clerks, o \in Orders : BeginDelete(c, o) /\ InOrders
    \/ \E c \in Clerks, o \in Orders : BeginReceive(c, o) /\ InOrders
    \/ \E c \in Clerks : CommitOrder(c) /\ InOrders
    \/ \E c \in Clerks : CommitForRequest(c) /\ InOrders
    \/ \E c \in Clerks : LinkRequest(c) /\ InOrders
    \/ \E c \in Clerks : CommitUpdate(c) /\ InOrders
    \/ \E c \in Clerks : CommitDelete(c) /\ InOrders
    \/ \E c \in Clerks : BookLine(c) /\ InOrders
    \/ \E c \in Clerks : EndReceive(c) /\ InOrders
    \/ \E c \in Clerks : Die(c) /\ InOrders
    \/ \E k \in Clerks : BeginReceipt(k) /\ InReceipts
    \/ \E k \in Clerks : CommitReceipt(k) /\ InReceipts
    \/ \E k \in Clerks, op \in {"invoice", "update", "post", "cancel"}, g \in Receipts :
           BeginOn(k, op, g) /\ InReceipts
    \/ \E k \in Clerks : CommitInvoice(k) /\ InReceipts
    \/ \E k \in Clerks : CommitLines(k) /\ InReceipts
    \/ \E k \in Clerks : CommitPosting(k) /\ InReceipts
    \/ \E k \in Clerks : CommitCancelling(k) /\ InReceipts
    \/ \E e \in Clerks, title \in Titles, p \in Categories \cup {0} :
           BeginCreateCategory(e, title, p) /\ InCatalogue
    \/ \E e \in Clerks, c \in Categories, title \in Titles, p \in Categories \cup {0} :
           BeginUpdateCategory(e, c, title, p) /\ InCatalogue
    \/ \E e \in Clerks, c \in Categories : BeginDeleteCategory(e, c) /\ InCatalogue
    \/ \E e \in Clerks : CommitCreateCategory(e) /\ InCatalogue
    \/ \E e \in Clerks : CommitUpdateCategory(e) /\ InCatalogue
    \/ \E e \in Clerks : CommitDeleteCategory(e) /\ InCatalogue
    \/ \E e \in Clerks, title \in Titles, c \in Categories : CreateItem(e, title, c) /\ InCatalogue
    \/ \E e \in Clerks, i \in Items, title \in Titles, c \in Categories :
           UpdateItem(e, i, title, c) /\ InCatalogue
    \/ \E e \in Clerks, i \in Items : DeleteItem(e, i) /\ InCatalogue
    \/ \E e \in Clerks, title \in Titles : BeginResolve(e, title) /\ InCatalogue
    \/ \E e \in Clerks : CommitResolve(e) /\ InCatalogue
    \/ \E t \in Clerks, w \in Owners : BeginOpen(t, w) /\ InAccounts
    \/ \E t \in Clerks : CommitOpen(t) /\ InAccounts
    \/ \E t \in Clerks : CommitChange(t) /\ InAccounts
    \/ \E t \in Clerks : SeedAccount(t) /\ InAccounts
    \/ \E t \in Clerks, a \in Accounts : BeginChange(t, a) /\ InAccounts
    \/ \E t \in Clerks, a \in Accounts : Deactivate(t, a) /\ InAccounts
    \/ \E t \in Clerks, p \in Parties : CreateParty(t, p) /\ InAccounts
    \/ \E t \in Clerks, p \in Parties : UpdateParty(t, p) /\ InAccounts
    \/ \E t \in Clerks, p \in Parties : DeleteParty(t, p) /\ InAccounts

MCSpec == MCInit /\ [][MCNext]_all

Alike == Permutations(Clerks)
=============================================================================
