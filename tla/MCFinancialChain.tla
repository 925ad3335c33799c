-------------------------- MODULE MCFinancialChain --------------------------
(* FinancialChain in the code's own two chains and two that an administrator *)
(* may define, first undisturbed, then with rejections, corrections and      *)
(* edits that overlap.                                                       *)
EXTENDS FinancialChain

CONSTANTS requester, colleague

ShortPayment == << Step("approval", "finance", TRUE), Step("mark_payment", "officer", TRUE),
                   Step("confirm_sepidar", "supervisor", TRUE) >>
ReviewedDocument == << Step("approval", "ceo", TRUE), Step("approval", "finance", TRUE) >>

Undisturbed == [type : {"loan", "payment_order", "procurement"}, steps : {UnifiedSteps},
                manager : BOOLEAN, overlap : {FALSE}, corrector : {FALSE}, inboxOnly : {TRUE},
                retreats : {0}, users : {{requester, colleague}}]
Disturbed == [type : {"advance", "procurement"}, steps : {ShortPayment},
              manager : {TRUE}, overlap : BOOLEAN, corrector : BOOLEAN, inboxOnly : {FALSE},
              retreats : {2}, users : {{requester, colleague}}]
Documents == [type : {"financial_document"}, steps : {DocumentSteps, ReviewedDocument},
              manager : {TRUE}, overlap : {FALSE}, corrector : {FALSE}, inboxOnly : BOOLEAN,
              retreats : {0, 3}, users : {{requester, colleague}}]

AllSettings == Undisturbed \cup Disturbed \cup Documents
=============================================================================
