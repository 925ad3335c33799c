---------------------------- MODULE BankAccounts ----------------------------
(***************************************************************************)
(* The bank accounts of the company and of its counterparties               *)
(* (services/company_bank_account.py, counterparty_bank_account.py,         *)
(* counterparty.py and their routes).  One account of an owner is the       *)
(* default; who makes one the default clears the flags of those read.  The  *)
(* bank fields of the counterparty's own row, the older form, become its    *)
(* first account, in a transaction after that of the row.                   *)
(***************************************************************************)
EXTENDS Integers, FiniteSets, FiniteSetsExt, Sessions

CONSTANTS Parties,   \* counterparties
          Company,   \* the other owner of accounts
          Accounts,  \* ids of the accounts, given out in their order
          Tellers    \* concurrent HTTP requests

ASSUME AccountsAssumption ==
    Accounts \subseteq Nat \ {0} /\ "none" \notin Parties \cup {Company}

VARIABLES
    party,    \* party[p]: the row of a counterparty
    account,  \* account[a]: the row of an account
    teller,   \* teller[t]: what the request of t has read, and will write
    rush      \* requests overlap

accountsVars == <<party, account, teller, rush>>

Owners == Parties \cup {Company}
NoParty == [stored |-> FALSE, active |-> FALSE, legacy |-> FALSE]
NoAccount == [owner |-> "none", default |-> FALSE, active |-> FALSE]
Free == [op |-> "none", a |-> 0, owner |-> "none", seen |-> NoAccount,
         row |-> NoAccount, clear |-> {}]

Opened == {a \in Accounts : account[a] # NoAccount}
Of(w) == {a \in Opened : account[a].owner = w}
DefaultsOf(w) == {a \in Of(w) : account[a].default}

AccountsTypeOK ==
    /\ party \in [Parties -> [stored : BOOLEAN, active : BOOLEAN, legacy : BOOLEAN]]
    /\ account \in [Accounts -> [owner : Owners \cup {"none"}, default : BOOLEAN, active : BOOLEAN]]
    /\ \A t \in Tellers : teller[t].clear \subseteq Opened /\ teller[t].a \in Opened \cup {0}

AccountsInit ==
    /\ party = [p \in Parties |-> NoParty]
    /\ account = [a \in Accounts |-> NoAccount]
    /\ teller = [t \in Tellers |-> Free]
    /\ rush \in BOOLEAN

-----------------------------------------------------------------------------

Called(t) == teller[t] = Free /\ (rush \/ \A u \in Tellers : teller[u] = Free)
Goes(t, what) == teller' = [teller EXCEPT ![t] = what]

(* _clear_defaults, _clear_other_defaults: the rows read, but for one.      *)
ClearedNone(w, except) == {}
Cleared(w, except) == DefaultsOf(w) \ {except}

Usable(w) == w \in Parties => party[w].stored /\ party[w].active

(* create_account *)
Opening(w, default, active) ==
    [Free EXCEPT !.op = "open", !.owner = w,
                 !.row = [owner |-> w, default |-> default, active |-> active],
                 !.clear = IF default THEN Cleared(w, 0) ELSE {}]

BeginOpen(t, w) ==
    /\ UNCHANGED rush
    /\ Called(t) /\ Usable(w)
    /\ \E default, active \in BOOLEAN : Goes(t, Opening(w, default, active))
    /\ UNCHANGED <<party, account>>

Unflagged(rows, f) == [a \in Accounts |-> IF a \in rows THEN [f[a] EXCEPT !.default = FALSE] ELSE f[a]]

CommitOpen(t) ==
    /\ UNCHANGED rush
    /\ teller[t].op = "open" /\ Opened # Accounts
    /\ account' = [Unflagged(teller[t].clear, account) EXCEPT ![Min(Accounts \ Opened)] = teller[t].row]
    /\ Goes(t, Free)
    /\ UNCHANGED party

(* update_account: the flags may be changed, or not be mentioned.           *)
BeginChange(t, a) ==
    LET w == account[a].owner IN
    /\ UNCHANGED rush
    /\ Called(t) /\ a \in Opened
    /\ \E default, active \in BOOLEAN, says \in BOOLEAN :
         /\ ~says => default = account[a].default
         /\ Goes(t, [op |-> "change", a |-> a, owner |-> w, seen |-> account[a],
                     row |-> [owner |-> w, default |-> default, active |-> active],
                     clear |-> IF says /\ default THEN Cleared(w, a) ELSE {}])
    /\ UNCHANGED <<party, account>>

CommitChange(t) ==
    LET a == teller[t].a
        seen == teller[t].seen
        row == teller[t].row IN
    /\ UNCHANGED rush
    /\ teller[t].op = "change"
    /\ account' = [Unflagged(teller[t].clear, account) EXCEPT
                     ![a].default = Kept(seen.default, row.default, @),
                     ![a].active = Kept(seen.active, row.active, @)]
    /\ Goes(t, Free)
    /\ UNCHANGED party

(* delete_account: the row stays, and so does its flag.                     *)
Deactivate(t, a) ==
    /\ UNCHANGED rush
    /\ Called(t) /\ a \in Opened
    /\ account' = [account EXCEPT ![a].active = FALSE]
    /\ UNCHANGED <<party, teller>>

(* create_counterparty and update_counterparty, up to their commit,         *)
CreateParty(t, p) ==
    /\ UNCHANGED rush
    /\ Called(t) /\ ~party[p].stored
    /\ \E active, legacy \in BOOLEAN :
         party' = [party EXCEPT ![p] = [stored |-> TRUE, active |-> active, legacy |-> legacy]]
    /\ Goes(t, [Free EXCEPT !.op = "seed", !.owner = p])
    /\ UNCHANGED account

UpdateParty(t, p) ==
    /\ UNCHANGED rush
    /\ Called(t) /\ party[p].stored
    /\ \E active, legacy \in BOOLEAN : party' = [party EXCEPT ![p].active = active, ![p].legacy = legacy]
    /\ Goes(t, [Free EXCEPT !.op = "seed", !.owner = p])
    /\ UNCHANGED account

(* and _seed_bank_account_from_legacy after it: an inactive counterparty is *)
(* refused, after its row was stored.                                       *)
Seeded(p) == party[p].legacy /\ Of(p) = {} /\ Usable(p)

SeedAccount(t) ==
    LET p == teller[t].owner IN
    /\ UNCHANGED rush
    /\ teller[t].op = "seed"
    /\ Goes(t, IF Seeded(p) THEN Opening(p, TRUE, TRUE) ELSE Free)
    /\ UNCHANGED <<party, account>>

(* delete_counterparty *)
DeleteParty(t, p) ==
    /\ UNCHANGED rush
    /\ Called(t) /\ party[p].stored
    /\ party' = [party EXCEPT ![p].active = FALSE]
    /\ UNCHANGED <<account, teller>>

AccountsNext ==
    \E t \in Tellers :
        \/ \E w \in Owners : BeginOpen(t, w)
        \/ CommitOpen(t) \/ CommitChange(t) \/ SeedAccount(t)
        \/ \E a \in Accounts : BeginChange(t, a) \/ Deactivate(t, a)
        \/ \E p \in Parties : CreateParty(t, p) \/ UpdateParty(t, p) \/ DeleteParty(t, p)

AccountsSpec == AccountsInit /\ [][AccountsNext]_accountsVars

-----------------------------------------------------------------------------
(* The types; and, one request at a time, an owner has one default account  *)
(* at most: what is offered first for a payment is what was chosen last.    *)
OneDefault ==
    /\ AccountsTypeOK
    /\ ~rush => \A w \in Owners : Cardinality(DefaultsOf(w)) <= 1
=============================================================================
