--------------------------- MODULE MCDraftBilling ---------------------------
(* Small instances of DraftBilling.                                          *)
EXTENDS DraftBilling

CONSTANTS tess, pam, w1, w2

\* Two entries of one work order over all instants, or three of two work
\* orders in the first ones.
LongOnOne == \A e \in DOMAIN entry : entry[e].wo = w1 /\ e <= 2
ShortOnTwo == now <= 1

TimersNext == TimeNext /\ (LongOnOne' \/ ShortOnTwo')
TimersSpec == Init /\ [][TimersNext]_ledger

\* Everything dated the first day, whatever the clock, or, at the first
\* instant, expenses and drafts of two weeks and no PDF.
FirstDay == /\ \A i \in InvoiceIds : inv[i].start = 0 /\ inv[i].end = 0
            /\ \A i \in DOMAIN asked : asked[i].start = 0 /\ asked[i].end = 0
            /\ \A x \in DOMAIN expense : expense[x].date = 0
BothWeeks == /\ now = 0 /\ DOMAIN entry = {}
             /\ \A i \in InvoiceIds : pdf[i] = {}

BillingSpec == Init /\ [][Next /\ (FirstDay' \/ BothWeeks')]_ledger
=============================================================================
