----------------------------- MODULE ExpenseEntry ---------------------------
(* The screen that adds an expense (renderAdd of public/app.js) in the hands *)
(* of a manager who may act for a technician.  A form is a closure that      *)
(* outlives its place on the display: an answer that comes late draws it     *)
(* again, on whatever screen is there.  Which form is drawn, and how often   *)
(* it was drawn, decides which Save button a tap reaches.                    *)
EXTENDS Naturals, Sequences, FiniteSets

CONSTANTS Me, Tech,    \* the manager, and the technician whose draft is worked on
          MaxForms,    \* bound on forms opened
          MaxDraws,    \* bound on drawings of forms
          MaxExpenses, \* bound on expenses recorded
          Nobody

ASSUME TwoAccounts == Me # Tech /\ Nobody \notin {Me, Tech}

VARIABLES proxy,    \* STATE.onBehalfOf
          pin,      \* STATE._addToInvoiceId: the technician's draft or nothing
          view,     \* STATE.view: "add" or another one
          forms,    \* the closures, in the order in which they were opened
          drawn,    \* the form on the display, 0 for none
          draws,    \* number of the present drawing
          lookups,  \* forms with a fetchWoTime under way
          saves,    \* commits under way
          expenses, \* rows of the table expenses
          exposed   \* history: forms whose Save a person may repeat in good faith

entryVars == <<proxy, pin, view, forms, drawn, draws, lookups, saves, expenses, exposed>>

EntryInit ==
    /\ proxy = Nobody
    /\ pin = FALSE
    /\ view = "other"
    /\ forms = <<>>
    /\ drawn = 0
    /\ draws = 0
    /\ lookups = {}
    /\ saves = {}
    /\ expenses = <<>>
    /\ exposed = {}

Draw(f) == draws < MaxDraws /\ draws' = draws + 1 /\ drawn' = f
Leave == view' = "other" /\ drawn' = 0

\* renderAdd: the pin is read now, and the time logged on the work order that
\* is selected is asked for.
OpenForm(pinned) ==
    /\ Len(forms) < MaxForms
    /\ forms' = Append(forms, [pinned |-> pinned, preview |-> FALSE, receipt |-> FALSE])
    /\ view' = "add"
    /\ Draw(Len(forms'))
    /\ lookups' = lookups \cup {Len(forms')}
    /\ UNCHANGED <<saves, expenses, exposed>>

\* The upload sheet ends in the technician's draft, as the technician.
ActForTech ==
    /\ proxy' = Tech
    /\ Leave
    /\ UNCHANGED <<pin, forms, draws, lookups, saves, expenses, exposed>>

\* "Add expense" on that draft.
AddToDraft ==
    /\ view = "other" /\ drawn = 0
    /\ proxy = Tech
    /\ pin' = TRUE
    /\ UNCHANGED proxy
    /\ OpenForm(TRUE)

Unpin ==
    /\ drawn # 0 /\ forms[drawn].pinned /\ ~forms[drawn].preview
    /\ pin' = FALSE
    /\ UNCHANGED proxy
    /\ OpenForm(FALSE)

\* Exit in the banner: exitProxy and render, which draws the view anew.
ExitProxy ==
    /\ proxy = Tech
    /\ proxy' = Nobody
    /\ UNCHANGED pin
    /\ IF view = "add"
         THEN OpenForm(pin)
         ELSE /\ drawn' = 0
              /\ UNCHANGED <<view, forms, draws, lookups, saves, expenses, exposed>>

\* A tab of the bottom bar.
Tab ==
    /\ proxy' = Nobody
    /\ Leave
    /\ UNCHANGED <<pin, forms, draws, lookups, saves, expenses, exposed>>

-----------------------------------------------------------------------------
(* The form *)

\* Another work order, or a photo of the receipt: the form is drawn again.
PickWorkOrder ==
    /\ drawn # 0 /\ ~forms[drawn].preview
    /\ Draw(drawn)
    /\ lookups' = lookups \cup {drawn}
    /\ UNCHANGED <<proxy, pin, view, forms, saves, expenses, exposed>>

TakeReceipt ==
    /\ drawn # 0 /\ ~forms[drawn].preview
    /\ forms' = [forms EXCEPT ![drawn].receipt = TRUE]
    /\ Draw(drawn)
    /\ UNCHANGED <<proxy, pin, view, lookups, saves, expenses, exposed>>

Saving(f) == \E s \in saves : s.form = f
Recorded(f) == {k \in DOMAIN expenses : expenses[k].form = f}

\* The form is back on the display while it is being saved, or after it was.
Expose(f) ==
    exposed' = IF Saving(f) \/ Recorded(f) # {} THEN exposed \cup {f} ELSE exposed

Preview(on) ==
    /\ drawn # 0 /\ forms[drawn].preview # on
    /\ forms' = [forms EXCEPT ![drawn].preview = on]
    /\ Draw(drawn)
    /\ Expose(drawn)
    /\ UNCHANGED <<proxy, pin, view, lookups, saves, expenses>>

\* fetchWoTime ends in rerender, if the work order is still selected.
LookupReturns(f) ==
    /\ f \in lookups
    /\ lookups' = lookups \ {f}
    /\ Draw(f)
    /\ Expose(f)
    /\ UNCHANGED <<proxy, pin, view, forms, saves, expenses>>

-----------------------------------------------------------------------------
(* commitExpense *)

Payee == IF proxy = Nobody THEN Me ELSE proxy

\* Fault: before v0.87, any tap on the button was a save.
TapUnguarded(f) == TRUE

\* submitOnce: the button of this drawing is not busy.
TapReaches(f) == \A s \in saves : s.form # f \/ s.drawing # draws

Save ==
    /\ drawn # 0 /\ forms[drawn].preview
    /\ TapReaches(drawn)
    /\ Cardinality(saves) < 2
    /\ saves' = saves \cup {[form |-> drawn, drawing |-> draws, payee |-> Payee,
                             step |-> "post"]}
    /\ UNCHANGED <<proxy, pin, view, forms, drawn, draws, lookups, expenses, exposed>>

\* After a save the user is taken to the invoice, wherever they went meanwhile.
Finish(s) ==
    /\ saves' = saves \ {s}
    /\ pin' = IF forms[s.form].pinned THEN FALSE ELSE pin
    /\ Leave

\* POST /expenses: the row goes to the draft of its payee that covers the
\* date, which the form takes from the pinned invoice.
Landed(s) ==
    [form |-> s.form, payee |-> s.payee,
     onPinned |-> forms[s.form].pinned /\ s.payee = Tech]

PostSucceeds(s) ==
    /\ s \in saves /\ s.step = "post"
    /\ Len(expenses) < MaxExpenses
    /\ expenses' = Append(expenses, Landed(s))
    /\ IF forms[s.form].receipt
         THEN /\ saves' = (saves \ {s}) \cup {[s EXCEPT !.step = "receipt"]}
              /\ UNCHANGED <<pin, view, drawn>>
         ELSE Finish(s)
    /\ UNCHANGED <<proxy, forms, draws, lookups, exposed>>

SaveFails(s) == saves' = saves \ {s}

\* The request is refused or never arrives.
PostFails(s) ==
    /\ s \in saves /\ s.step = "post"
    /\ SaveFails(s)
    /\ UNCHANGED <<proxy, pin, view, forms, drawn, draws, lookups, expenses, exposed>>

\* The row is written and the answer is lost.
AnswerLost(s) ==
    /\ s \in saves /\ s.step = "post"
    /\ Len(expenses) < MaxExpenses
    /\ expenses' = Append(expenses, Landed(s))
    /\ SaveFails(s)
    /\ exposed' = exposed \cup {s.form}
    /\ UNCHANGED <<proxy, pin, view, forms, drawn, draws, lookups>>

\* POST /attachments
ReceiptStored(s) ==
    /\ s \in saves /\ s.step = "receipt"
    /\ Finish(s)
    /\ UNCHANGED <<proxy, forms, draws, lookups, expenses, exposed>>

ReceiptFails(s) ==
    /\ s \in saves /\ s.step = "receipt"
    /\ SaveFails(s)
    /\ exposed' = exposed \cup {s.form}
    /\ UNCHANGED <<proxy, pin, view, forms, drawn, draws, lookups, expenses>>

EntryNext ==
    \/ ActForTech \/ AddToDraft \/ Unpin \/ ExitProxy \/ Tab
    \/ PickWorkOrder \/ TakeReceipt
    \/ \E on \in BOOLEAN : Preview(on)
    \/ \E f \in lookups : LookupReturns(f)
    \/ Save
    \/ \E s \in saves :
         PostSucceeds(s) \/ PostFails(s) \/ AnswerLost(s) \/ ReceiptStored(s) \/ ReceiptFails(s)

EntrySpec == EntryInit /\ [][EntryNext]_entryVars

-----------------------------------------------------------------------------
\* A form is recorded twice only if it came back to the display while or after
\* it was saved, or the user was told of a failure although the row was
\* written: however often Save is tapped, a drawing of the form saves once
\* (submitOnce, app.js 252-276).
TwiceOnlyIfExposed ==
    \A f \in DOMAIN forms :
        Cardinality(Recorded(f)) + Cardinality({s \in saves : s.form = f /\ s.step = "post"}) > 1
            => f \in exposed
=============================================================================
