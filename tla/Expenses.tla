------------------------------- MODULE Expenses -------------------------------
(***************************************************************************)
(* routes/expenses.js: creating, editing and deleting expense lines.  The  *)
(* category rules that compute or refuse an amount are abstracted to the   *)
(* choice of one of Amounts.                                               *)
(***************************************************************************)
EXTENDS Ledger

\* POST /expenses; the date is the client's, of any week.
AddExpense(u, w, d, amount) ==
    /\ ~WeekLocked(u, d)
    /\ \E x \in ExpenseIds :
          /\ FreshExpense(x)
          /\ FileExpense(x, [user |-> u, wo |-> w, date |-> d, amount |-> amount,
                             invoice |-> 0])
    /\ UNCHANGED <<now, pdf, asked>>

\* Fault: the status lock is forgotten.
EditExpenseAnyStatus(a, x, w, d, amount) ==
    LET row == expense[x] IN
    /\ a = row.user \/ Manages(a, row.user)
    /\ row.invoice # 0 => w = row.wo
    /\ expense' = [expense EXCEPT ![x] = [@ EXCEPT !.wo = w, !.date = d,
                                                   !.amount = amount]]
    /\ UNCHANGED <<now, entry, inv, pdf, asked>>

\* PATCH /expenses/:id: on an invoice the work order is fixed, and a new date
\* must lie in the invoice's period.
EditExpense(a, x, w, d, amount) ==
    LET row == expense[x] IN
    /\ a = row.user \/ Manages(a, row.user)
    /\ Status(row.invoice) \in IF Manages(a, row.user) THEN {"draft", "submitted"}
                                                       ELSE {"draft"}
    /\ row.invoice # 0 =>
          /\ w = row.wo
          /\ d # row.date => d \in inv[row.invoice].start..inv[row.invoice].end
    /\ expense' = [expense EXCEPT ![x] = [@ EXCEPT !.wo = w, !.date = d,
                                                   !.amount = amount]]
    /\ UNCHANGED <<now, entry, inv, pdf, asked>>

DeleteExpense(a, x) ==
    /\ a = expense[x].user \/ Manages(a, expense[x].user)
    /\ Status(expense[x].invoice) = "draft"
    /\ expense' = Drop(expense, x)
    /\ UNCHANGED <<now, entry, inv, pdf, asked>>

\* Dates reach over the whole bounded clock.
Days == 0..Day(MaxTime + Grace)

ExpenseNext ==
    \/ \E u \in Users, w \in WorkOrders, d \in Days, amount \in Amounts :
          AddExpense(u, w, d, amount)
    \/ \E x \in DOMAIN expense, a \in Users :
          \/ DeleteExpense(a, x)
          \/ \E w \in WorkOrders, d \in Days, amount \in Amounts :
                EditExpense(a, x, w, d, amount)
=============================================================================
