------------------------------ MODULE Catalogue ------------------------------
(***************************************************************************)
(* The groups of the item catalogue, which form trees, and its items        *)
(* (services/master_data/category.py, item.py, their routes, and            *)
(* resolve_item_id_for_line, by which orders and receipts find an item or   *)
(* add one).  A handler makes its checks on what it reads, and writes at    *)
(* its commit; another one may commit in between.                           *)
(***************************************************************************)
EXTENDS Integers, FiniteSets, FiniteSetsExt, Sessions

CONSTANTS Categories, \* ids of the groups, positive; 0 is no group
          Items,      \* ids of the items, positive
          Titles,     \* names of groups and of items
          Common,     \* the name of the group made for items of no group
          Editors     \* concurrent HTTP requests

ASSUME CatalogueAssumption ==
    /\ Categories \subseteq Nat \ {0} /\ IsFiniteSet(Categories)
    /\ Items \subseteq Nat \ {0}
    /\ "none" \notin Titles \cup {Common}

VARIABLES
    category,  \* category[c]: name and parent of a group
    item,      \* item[i]: name and group of an item
    editor,    \* editor[e]: what the request of e is about to write
    crowded    \* requests overlap

catalogueVars == <<category, item, editor, crowded>>

Nothing == [title |-> "none", in |-> 0]
Nodes == [title : Titles \cup {Common, "none"}, in : Categories \cup {0}]
AtEase == [op |-> "none", id |-> 0, seen |-> Nothing, row |-> Nothing]

Known == {c \in Categories : category[c] # Nothing}
Stocked == {i \in Items : item[i] # Nothing}

CatalogueTypeOK ==
    /\ category \in [Categories -> Nodes] /\ item \in [Items -> Nodes]
    /\ \A e \in Editors : editor[e].row \in Nodes /\ editor[e].seen \in Nodes

CatalogueInit ==
    /\ category = [c \in Categories |-> Nothing]
    /\ item = [i \in Items |-> Nothing]
    /\ editor = [e \in Editors |-> AtEase]
    /\ crowded \in BOOLEAN

-----------------------------------------------------------------------------
(* The trees.                                                               *)

(* Those met on the way up from p, p included.                              *)
Above(p) ==
    LET up[n \in 0..Cardinality(Categories)] ==
            IF n = 0 THEN {p} \ {0}
            ELSE up[n - 1] \cup ({category[c].in : c \in up[n - 1]} \ {0})
    IN up[Cardinality(Categories)]

(* The way up from p ends at a group without parent.                        *)
Rooted(p) == p = 0 \/ \E c \in Above(p) : category[c].in = 0

(* list_category_tree: the trees below the groups without a parent.         *)
Shown == {c \in Known : Rooted(c)}

(* _validate_parent of a group that exists: walking up from p meets neither *)
(* c nor a group it has met before.                                         *)
ParentNotItself(c, p) == p = 0 \/ (p \in Known /\ p # c)
ParentFits(c, p) == p = 0 \/ (p \in Known /\ c \notin Above(p) /\ Rooted(p))

NamedIn(title, p) == {c \in Known : category[c] = [title |-> title, in |-> p]}

-----------------------------------------------------------------------------
(* Requests.                                                                *)

Attends(e) == editor[e] = AtEase /\ (crowded \/ \A d \in Editors : editor[d] = AtEase)
Checked(e, op, id, seen, row) ==
    /\ Attends(e)
    /\ editor' = [editor EXCEPT ![e] = [op |-> op, id |-> id, seen |-> seen, row |-> row]]
    /\ UNCHANGED <<category, item, crowded>>
Answers(e) == editor' = [editor EXCEPT ![e] = AtEase]
Fails(e) == Answers(e) /\ UNCHANGED <<category, item>>

InsertCategory(row) ==
    LET new == Categories \ Known IN
    new # {} /\ category' = [category EXCEPT ![Min(new)] = row]

BeginCreateCategory(e, title, p) ==
    /\ p \in Known \cup {0}
    /\ NamedIn(title, p) = {}
    /\ Checked(e, "create", 0, Nothing, [title |-> title, in |-> p])

CommitCreateCategory(e) ==
    LET row == editor[e].row IN
    /\ UNCHANGED crowded
    /\ editor[e].op = "create"
    /\ IF row.in \in Known \cup {0} THEN InsertCategory(row) /\ Answers(e) /\ UNCHANGED item ELSE Fails(e)

(* update_category: a name, a parent or both.                               *)
BeginUpdateCategory(e, c, title, p) ==
    /\ c \in Known
    /\ ParentFits(c, p)
    /\ NamedIn(title, p) \subseteq {c}
    /\ Checked(e, "update", c, category[c], [title |-> title, in |-> p])

CommitUpdateCategory(e) ==
    LET c == editor[e].id
        seen == editor[e].seen
        row == editor[e].row IN
    /\ UNCHANGED crowded
    /\ editor[e].op = "update"
    /\ IF c \in Known /\ row.in \in Known \cup {0}
       THEN /\ category' = [category EXCEPT ![c].title = Kept(seen.title, row.title, @),
                                            ![c].in = Kept(seen.in, row.in, @)]
            /\ Answers(e) /\ UNCHANGED item
       ELSE Fails(e)

Children(c) == {d \in Known : category[d].in = c}
MembersUnasked(c) == {}
Members(c) == {i \in Stocked : item[i].in = c}

BeginDeleteCategory(e, c) ==
    /\ c \in Known
    /\ Children(c) = {} /\ Members(c) = {}
    /\ Checked(e, "delete", c, Nothing, Nothing)

(* The foreign keys refuse it when one was added in the meantime.           *)
CommitDeleteCategory(e) ==
    LET c == editor[e].id IN
    /\ UNCHANGED crowded
    /\ editor[e].op = "delete"
    /\ IF c \in Known /\ Children(c) = {} /\ Members(c) = {}
       THEN category' = [category EXCEPT ![c] = Nothing] /\ Answers(e) /\ UNCHANGED item
       ELSE Fails(e)

-----------------------------------------------------------------------------
(* Items.                                                                   *)

InsertItem(row) ==
    LET new == Items \ Stocked IN
    new # {} /\ item' = [item EXCEPT ![Min(new)] = row]

(* create_item and update_item ask nothing; the foreign key does.           *)
CreateItem(e, title, c) ==
    /\ Attends(e) /\ c \in Known
    /\ InsertItem([title |-> title, in |-> c])
    /\ UNCHANGED <<category, editor, crowded>>

UpdateItem(e, i, title, c) ==
    /\ Attends(e) /\ c \in Known /\ i \in Stocked
    /\ item' = [item EXCEPT ![i] = [title |-> title, in |-> c]]
    /\ UNCHANGED <<category, editor, crowded>>

DeleteItem(e, i) ==
    /\ Attends(e) /\ i \in Stocked
    /\ item' = [item EXCEPT ![i] = Nothing]
    /\ UNCHANGED <<category, editor, crowded>>

(* resolve_item_id_for_line, for a name no item has: the new item goes into *)
(* the first group, or into a new one.                                      *)
DefaultCategory == IF Known = {} THEN 0 ELSE Min(Known)

BeginResolve(e, title) ==
    /\ \A i \in Stocked : item[i].title # title
    /\ Checked(e, "resolve", 0, Nothing, [title |-> title, in |-> DefaultCategory])

CommitResolve(e) ==
    LET row == editor[e].row IN
    /\ UNCHANGED crowded
    /\ editor[e].op = "resolve"
    /\ IF row.in = 0
       THEN /\ InsertCategory([title |-> Common, in |-> 0])
            /\ InsertItem([row EXCEPT !.in = Min(Categories \ Known)])
            /\ Answers(e)
       ELSE IF row.in \in Known THEN InsertItem(row) /\ Answers(e) /\ UNCHANGED category
            ELSE Fails(e)

CatalogueNext ==
    \E e \in Editors :
        \/ \E title \in Titles, p \in Categories \cup {0} : BeginCreateCategory(e, title, p)
        \/ \E c \in Categories, title \in Titles, p \in Categories \cup {0} :
               BeginUpdateCategory(e, c, title, p)
        \/ \E c \in Categories : BeginDeleteCategory(e, c)
        \/ CommitCreateCategory(e) \/ CommitUpdateCategory(e) \/ CommitDeleteCategory(e)
        \/ \E title \in Titles, c \in Categories : CreateItem(e, title, c)
        \/ \E i \in Items, title \in Titles, c \in Categories : UpdateItem(e, i, title, c)
        \/ \E i \in Items : DeleteItem(e, i)
        \/ \E title \in Titles : BeginResolve(e, title)
        \/ CommitResolve(e)

CatalogueSpec == CatalogueInit /\ [][CatalogueNext]_catalogueVars

-----------------------------------------------------------------------------
(* However requests overlap: the types, and nothing hangs in the air: no    *)
(* group or item is in a group that is gone.                                *)
NothingDangles ==
    /\ CatalogueTypeOK
    /\ \A c \in Known : category[c].in \in Known \cup {0}
    /\ \A i \in Stocked : item[i].in \in Known

(* One request at a time: every group is in a tree that is shown (two       *)
(* requests that each give a group a parent below the other would take both *)
(* out of sight), and no two groups of one parent have the same name.       *)
TreeIsWhole ==
    ~crowded => /\ Shown = Known
                /\ \A c, d \in Known : category[c] = category[d] => c = d

(* Both: nothing hangs in the air, and what is there is shown.              *)
CatalogueIsWhole == NothingDangles /\ TreeIsWhole
=============================================================================
