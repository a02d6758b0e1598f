--------------------------- MODULE ExpensifyExport --------------------------
(* POST /invoices/:id/send-to-expensify: the labor invoice of an employed    *)
(* technician is turned into transactions, a report is created at Expensify  *)
(* in an await, and its id is recorded on the invoice afterwards             *)
(* (routes/invoices.js, lib/expensify.js).  Lines are those of InvoiceTotals.*)
EXTENDS InvoiceTotals, Sequences

CONSTANTS LineChoices,  \* lines its owner may log on it
          Imports,      \* entries the MaintainX sync may write on it
          Rate,         \* hourly_rate of the owner, cents
          Calls,        \* requests that may be under way at once
          MaxFailures,  \* bound on answers that are lost, and on restarts
          None

ASSUME ExportAssumption ==
    /\ IsFiniteSet(Calls)
    /\ MaxFailures \in Nat
    /\ None \notin Nat /\ None \notin [lines : SUBSET (LineChoices \cup Imports), report : Nat]

VARIABLES lines,     \* time_entries and expenses of the invoice
          status,    \* draft, submitted or later (one value)
          rejected,  \* it was rejected at least once: rejected_at
          recorded,  \* expensify_report_id
          reports,   \* reports that exist at Expensify, by number
          calls,     \* [Calls -> None or a request suspended in createReport]
          failures   \* answers lost so far

vars == <<lines, status, rejected, recorded, reports, calls, failures>>

\* SELECT of the handler: closed work entries, imported or not, and expenses.
Selected(L) == Expenses(L) \cup {l \in Entries(L) : ~l.open /\ l.mode = "work"}

\* buildTransactions: each line is rounded to cents, lines of no value are
\* skipped.
Transactions(L) == {l \in Selected(L) : Amount(l, Rate) > 0}

Log(l) ==
    /\ status = "draft" /\ l \notin lines
    /\ lines' = lines \cup {l}
    /\ UNCHANGED <<status, rejected, recorded, reports, calls, failures>>

Unlog(l) ==
    /\ status = "draft" /\ l \in lines
    /\ lines' = lines \ {l}
    /\ UNCHANGED <<status, rejected, recorded, reports, calls, failures>>

\* The sync writes to invoices of any status.
Import(l) ==
    /\ l \notin lines /\ Entries(lines) # {}
    /\ lines' = lines \cup {l}
    /\ UNCHANGED <<status, rejected, recorded, reports, calls, failures>>

Submit ==
    /\ status = "draft" /\ status' = "submitted"
    /\ UNCHANGED <<lines, rejected, recorded, reports, calls, failures>>

\* A rejection keeps expensify_report_id.
Reject ==
    /\ status = "submitted" /\ status' = "draft"
    /\ rejected' = TRUE
    /\ UNCHANGED <<lines, recorded, reports, calls, failures>>

\* Fault: the recorded report is not looked at.
SendAgain(c) ==
    /\ calls[c] = None /\ status # "draft"
    /\ Selected(lines) # {} /\ Transactions(lines) # {}
    /\ calls' = [calls EXCEPT ![c] = [lines |-> Transactions(lines), report |-> 0]]
    /\ UNCHANGED <<lines, status, rejected, recorded, reports, failures>>

\* Fault: a draft is sent too.
SendDraft(c) ==
    /\ calls[c] = None /\ recorded = None
    /\ Selected(lines) # {} /\ Transactions(lines) # {}
    /\ calls' = [calls EXCEPT ![c] = [lines |-> Transactions(lines), report |-> 0]]
    /\ UNCHANGED <<lines, status, rejected, recorded, reports, failures>>

\* The handler up to its await.
Send(c) ==
    /\ calls[c] = None /\ status # "draft" /\ recorded = None
    /\ Selected(lines) # {} /\ Transactions(lines) # {}
    /\ calls' = [calls EXCEPT ![c] = [lines |-> Transactions(lines), report |-> 0]]
    /\ UNCHANGED <<lines, status, rejected, recorded, reports, failures>>

\* Expensify creates the report.
Create(c) ==
    /\ calls[c] # None /\ calls[c].report = 0
    /\ reports' = Append(reports, calls[c].lines)
    /\ calls' = [calls EXCEPT ![c].report = Len(reports) + 1]
    /\ UNCHANGED <<lines, status, rejected, recorded, failures>>

\* The answer arrives: the id is recorded whatever the invoice has become.
Record(c) ==
    /\ calls[c] # None /\ calls[c].report # 0
    /\ recorded' = calls[c].report
    /\ calls' = [calls EXCEPT ![c] = None]
    /\ UNCHANGED <<lines, status, rejected, reports, failures>>

\* The request is refused or its answer is lost, before or after the report
\* was created: a 502, and nothing is recorded.
Fail(c) ==
    /\ calls[c] # None /\ failures < MaxFailures
    /\ calls' = [calls EXCEPT ![c] = None]
    /\ failures' = failures + 1
    /\ UNCHANGED <<lines, status, rejected, recorded, reports>>

\* The server dies with its requests.
Restart ==
    /\ calls' = [c \in Calls |-> None]
    /\ failures' = failures + Cardinality({c \in Calls : calls[c] # None})
    /\ failures' <= MaxFailures
    /\ UNCHANGED <<lines, status, rejected, recorded, reports>>

-----------------------------------------------------------------------------
Init ==
    /\ lines = {} /\ status = "draft" /\ rejected = FALSE
    /\ recorded = None /\ reports = <<>>
    /\ calls = [c \in Calls |-> None]
    /\ failures = 0

Step ==
    \/ \E l \in LineChoices : Log(l) \/ Unlog(l)
    \/ \E l \in Imports : Import(l)
    \/ Submit \/ Reject
    \/ \E c \in Calls : Send(c) \/ Create(c) \/ Record(c) \/ Fail(c)

Spec == Init /\ [][Step \/ Restart]_vars

-----------------------------------------------------------------------------
(* The recorded report is of the lines that were submitted, whichever of     *)
(* several requests recorded it: an invoice that was never rejected differs  *)
(* from it by what MaintainX added since.  And the employee is reimbursed    *)
(* twice only as often as answers were lost or requests overlapped: once a   *)
(* report is recorded no later request adds one.                             *)
ReportIsInvoice ==
    /\ recorded # None /\ ~rejected
         => Transactions(lines) \ Imports = reports[recorded] \ Imports
    /\ Len(reports) <= failures + Cardinality(Calls)
=============================================================================
