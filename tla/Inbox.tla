-------------------------------- MODULE Inbox --------------------------------
(***************************************************************************)
(* What a user is told: the open items of the inbox and the notifications   *)
(* behind the bell, for everything that may be asked of him (a reference is *)
(* one workflow instance or one ad-hoc task).  Items and notifications of   *)
(* one reference are written and read together, by services/inbox.py and    *)
(* services/notification.py, and the bell counts them together.             *)
(* An item addressed to a user goes to that user: accounts stay active.     *)
(***************************************************************************)
EXTENDS Integers, FiniteSets

CONSTANTS People,
          MaxItems     \* open items of one user about one reference are counted up to this

ASSUME InboxAssumption == MaxItems \in Nat \ {0}

VARIABLES desk,        \* desk[u]: what u has about the reference
          alone        \* transactions take turns, the same all along

(* open: items that are not done; unread: those of them that are not read;  *)
(* note: an unread notification exists.                                     *)
Clear == [open |-> 0, unread |-> 0, note |-> FALSE]
Desks == [open : 0..MaxItems, unread : 0..MaxItems, note : BOOLEAN]

Up(n) == IF n < MaxItems THEN n + 1 ELSE n

(* create_inbox_item, create_notification, with or without dedupe_unread    *)
WithItem(d) == [open |-> Up(d.open), unread |-> Up(d.unread), note |-> d.note]
WithNote(d) == [open |-> d.open, unread |-> d.unread, note |-> TRUE]
WithBoth(d) == WithNote(WithItem(d))

(* mark_inbox_done_for_*: the items of the reference are done, the          *)
(* notifications stay.                                                      *)
MerelyRead(d) == [open |-> d.open, unread |-> 0, note |-> FALSE]
Finished(d) == [open |-> 0, unread |-> 0, note |-> d.note]

(* cancel_workflow_instance deletes both.                                   *)
Withdrawn(d) == Clear

(* The badge: unread items, and an unread notification that has none.       *)
Bell(d) == d.unread + (IF d.note /\ d.unread = 0 THEN 1 ELSE 0)

-----------------------------------------------------------------------------
(* What users do at their inbox.  Reading one item takes the notifications  *)
(* of its reference along, reading a notification all its items.  An item   *)
(* fewer than "MaxItems or more" may still be that many.                    *)
Fewer(n) == {n - 1} \cup (IF n = MaxItems THEN {n} ELSE {})

ReadItem(u) ==
    /\ desk[u].open > 0
    /\ \E left \in {desk[u].unread} \cup (IF desk[u].unread > 0 THEN Fewer(desk[u].unread) ELSE {}) :
         desk' = [desk EXCEPT ![u] = [open |-> @.open, unread |-> left, note |-> FALSE]]

ReadNote(u) == desk[u].note /\ desk' = [desk EXCEPT ![u] = MerelyRead(@)]

ReadAllNotes(u) == desk[u].note /\ desk' = [desk EXCEPT ![u] = [open |-> @.open, unread |-> @.unread, note |-> FALSE]]

(* mark_as_done: the user puts an item away himself.                        *)
PutAway(u) ==
    /\ desk[u].open > 0
    /\ \E left \in Fewer(desk[u].open), fresh \in 0..desk[u].unread :
         /\ fresh <= left /\ fresh >= desk[u].unread - 1
         /\ desk' = [desk EXCEPT ![u] = [open |-> left, unread |-> fresh, note |-> @.note]]

Look(u) == ReadItem(u) \/ ReadNote(u) \/ ReadAllNotes(u) \/ PutAway(u)
=============================================================================
