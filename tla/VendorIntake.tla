---------------------------- MODULE VendorIntake ----------------------------
(* Vendor invoices from the upload to the senior manager's queue: upload     *)
(* with or without a PDF, edits of the draft, its submission by the vendor   *)
(* form and by the route that serves every invoice, its rejection, and the   *)
(* list of known vendors (routes/invoices.js, db.js at boot).                *)
EXTENDS VendorExtraction

CONSTANTS Uploaders,        \* users with a manager role
          OpsManagers,     \* those of them who are ops_manager
          Team,            \* [Uploaders -> SUBSET Uploaders], manager_team
          Names,           \* vendor names, apart from case and blanks
          Dates, Numbers,  \* vendor_invoice_date, vendor_invoice_number
          Totals,          \* totals people type, in cents
          Documents,       \* [ids -> document], the PDFs people attach
          ListedVendors,   \* the vendors listed before the first upload
          Requests         \* uploads that may be under way at once

\* findLineItems reads the rows of positive amounts and cuts them after 200; no
\* document here has more.
ASSUME DocumentsAssumption ==
    \A d \in DOMAIN Documents : LET shapes == Text(Documents[d]).shapes IN
        \A k \in DOMAIN shapes : k \in Nat /\ shapes[k] \in Seq(Nat) /\ Len(shapes[k]) <= 200

VARIABLES vendors,   \* names in the vendors table that are not archived
          invoice,   \* Blank or the vendor invoice
          uploads    \* [Requests -> Blank or an upload suspended in the parser]

intakeVars == <<vendors, invoice, uploads>>

Forms == [name : Names \cup {Blank}, number : Numbers \cup {Blank},
          date : Dates \cup {Blank}, total : Totals \cup {Blank}]

\* What is typed wins over what was read.
Filled(form, x) ==
    [f \in DOMAIN form |-> IF form[f] = Blank \/ (f = "total" /\ form[f] = 0)
                           THEN x[f] ELSE form[f]]

Complete(form) == Blank \notin {form.name, form.number, form.date, form.total} /\ form.total > 0

Draft(m, form, doc) ==
    [by |-> m, status |-> "draft", name |-> form.name, number |-> form.number,
     date |-> form.date, total |-> IF form.total = Blank THEN 0 ELSE form.total,
     doc |-> doc, edited |-> FALSE, checked |-> FALSE]

\* The upload is answered: whatever was read is a draft, also when incomplete
\* or of a vendor nobody listed.  Without a PDF all fields and a listed vendor
\* are required.
Insert(m, form, doc) ==
    /\ invoice = Blank
    /\ doc = Blank => Complete(form) /\ form.name \in vendors
    /\ invoice' = Draft(m, form, doc)

UploadForm(m, form) ==
    /\ Insert(m, form, Blank)
    /\ UNCHANGED <<vendors, uploads>>

UploadPdf(r, m, form, doc) ==
    /\ uploads[r] = Blank
    /\ uploads' = [uploads EXCEPT ![r] = [by |-> m, form |-> form, doc |-> doc]]
    /\ UNCHANGED <<vendors, invoice>>

UploadParsed(r) ==
    /\ uploads[r] # Blank
    /\ LET u == uploads[r]
       IN Insert(u.by, Filled(u.form, Extract(Documents[u.doc])), u.doc)
    /\ uploads' = [uploads EXCEPT ![r] = Blank]
    /\ UNCHANGED vendors

\* The uploader, or a manager who is not an ops_manager.
MayEdit(m) ==
    /\ invoice # Blank /\ invoice.status = "draft"
    /\ (m = invoice.by \/ m \notin OpsManagers)

\* PATCH vendor-update: a name must be listed, a total positive; the number and
\* the date may also be cleared.
VendorUpdate(m, field, value) ==
    /\ MayEdit(m)
    /\ field = "name" => value \in vendors
    /\ field = "total" => value # Blank /\ value > 0
    /\ invoice' = [invoice EXCEPT ![field] = value]
    /\ UNCHANGED <<vendors, uploads>>

\* PATCH vendor-line-items: the rows are replaced, the total stays.
EditRows(m) ==
    /\ MayEdit(m)
    /\ invoice' = [invoice EXCEPT !.edited = TRUE]
    /\ UNCHANGED <<vendors, uploads>>

VendorDiscard(m) ==
    /\ MayEdit(m)
    /\ invoice' = Blank
    /\ UNCHANGED <<vendors, uploads>>

Missing == {f \in {"name", "number", "date"} : invoice[f] = Blank}
           \cup (IF invoice.total > 0 THEN {} ELSE {"total"})

\* checked says by which way the invoice came into the queue.
Enqueued(checked) == [invoice EXCEPT !.status = "submitted", !.checked = checked]

\* Fault: what the form required at the upload is not required again.
VendorSubmitOnceChecked(m) ==
    /\ MayEdit(m)
    /\ invoice.doc # Blank => Missing = {}
    /\ invoice.name \in vendors
    /\ invoice' = Enqueued(TRUE)
    /\ UNCHANGED <<vendors, uploads>>

VendorSubmit(m) ==
    /\ MayEdit(m)
    /\ Missing = {} /\ invoice.name \in vendors
    /\ invoice' = Enqueued(TRUE)
    /\ UNCHANGED <<vendors, uploads>>

\* POST /invoices/:id/submit, made for labor invoices, looks neither at the type
\* of the invoice nor at what it lacks; a vendor invoice has no lines to flag.
SubmitAny(m) ==
    /\ invoice # Blank /\ invoice.status = "draft"
    /\ m = invoice.by \/ m \notin OpsManagers \/ invoice.by \in Team[m]
    /\ invoice' = Enqueued(FALSE)
    /\ UNCHANGED <<vendors, uploads>>

\* POST /approvals/invoices/:id/reject by a senior manager.
SendBack ==
    /\ invoice # Blank /\ invoice.status = "submitted"
    /\ invoice' = [invoice EXCEPT !.status = "draft"]
    /\ UNCHANGED <<vendors, uploads>>

\* The server starts again: requests are lost, and the names on vendor invoices
\* are listed, in whatever state the invoices are.
IntakeRestart ==
    /\ uploads' = [r \in Requests |-> Blank]
    /\ vendors' = IF invoice = Blank THEN vendors ELSE vendors \cup ({invoice.name} \ {Blank})
    /\ UNCHANGED invoice

-----------------------------------------------------------------------------
IntakeInit ==
    /\ vendors = ListedVendors
    /\ invoice = Blank
    /\ uploads = [r \in Requests |-> Blank]

IntakeStep ==
    \/ \E m \in Uploaders, form \in Forms : UploadForm(m, form)
    \/ \E r \in Requests, m \in Uploaders, form \in Forms, doc \in DOMAIN Documents :
          /\ Cardinality({f \in DOMAIN form : form[f] # Blank}) <= 1
          /\ UploadPdf(r, m, form, doc)
    \/ \E r \in Requests : UploadParsed(r)
    \/ \E m \in Uploaders :
          \/ \E n \in Names : VendorUpdate(m, "name", n)
          \/ \E n \in Numbers \cup {Blank} : VendorUpdate(m, "number", n)
          \/ \E d \in Dates \cup {Blank} : VendorUpdate(m, "date", d)
          \/ \E t \in Totals : VendorUpdate(m, "total", t)
          \/ EditRows(m) \/ VendorDiscard(m) \/ VendorSubmit(m) \/ SubmitAny(m)
    \/ SendBack

IntakeSpec == IntakeInit /\ [][IntakeStep \/ IntakeRestart]_intakeVars

-----------------------------------------------------------------------------
(* What comes into the senior manager's queue by the vendor form can be      *)
(* paid: every field is there and the vendor is listed, whatever was read,   *)
(* typed, cleared, sent back and submitted again.  POST /invoices/:id/submit *)
(* is the way around it.                                                     *)
QueueIsPayable ==
    invoice # Blank /\ invoice.status = "submitted" /\ invoice.checked
        => Missing = {} /\ invoice.name \in vendors

(* A document that needs no review was read right where it can be checked:   *)
(* its total is the one printed as due, its rows add up to the subtotal and  *)
(* at most one field is missing.  And if some layout reads rows that add up  *)
(* to the printed subtotal, the rows shown do, until somebody edits them.    *)
ReadingReconciles ==
    invoice # Blank /\ invoice.doc # Blank =>
        LET t == Text(Documents[invoice.doc])
            x == Extract(Documents[invoice.doc])
            exact(rows) == rows # <<>> /\ t.printed # Blank /\ t.printed > 0 /\ Apart(RowSum(rows), t.printed) < 2
        IN /\ ~NeedsReview(x, t) =>
                /\ x.total # Blank
                /\ t.due # Blank => Close(x.total, t.due)
                /\ t.subtotal # Blank /\ x.rows # <<>> => Close(RowSum(x.rows), t.subtotal)
                /\ Cardinality({f \in {"name", "number", "date"} : x[f] = Blank}) <= 1
           /\ ~invoice.edited /\ (\E k \in DOMAIN t.shapes : exact(t.shapes[k]))
                => exact(FindRows(t))

(* What the vendor form sends for payment is complete, and a document that   *)
(* needs no review was read right.                                           *)
IntakeIsSound == QueueIsPayable /\ ReadingReconciles
=============================================================================
