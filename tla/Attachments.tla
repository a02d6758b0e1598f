----------------------------- MODULE Attachments ----------------------------
(* The files people upload and the PDFs that go to Accounts Payable          *)
(* (routes/attachments.js and the handlers that store or remove files).  An  *)
(* attachment is a row of the database and a file on the disk, written and   *)
(* removed one after the other: the process may die between the two, and a   *)
(* statement may be refused, because invoice_to_ap notifications hold a      *)
(* foreign key on the PDF they sent.                                         *)
(*                                                                           *)
(* The n-th file stored has the number n; its row, if there is one, the same *)
(* (ids are AUTOINCREMENT and file names are UUIDs).  A row links an invoice *)
(* or an expense or both.  Links to a time entry and a work order never       *)
(* matter: nothing that takes rows by them takes effect.                     *)
EXTENDS Naturals, FiniteSets

CONSTANTS Users, Invoices,
          Vendor,     \* the invoices of vendors
          Owner,      \* user_id of each invoice
          Expenses,   \* places for expenses: one that is deleted makes room for the next
          Admins,     \* Sr Managers and PMs
          OpsMgrs,    \* Ops Managers
          Team,       \* manager_team
          MaxFiles,   \* bound on files stored
          Nothing     \* no invoice, no expense

ASSUME InvoicesAssumption ==
    /\ Owner \in [Invoices -> Users]
    /\ Vendor \subseteq Invoices
    /\ Nothing \notin Invoices \cup Expenses
    /\ MaxFiles \in Nat
ASSUME RolesAssumption ==
    /\ Admins \subseteq Users
    /\ OpsMgrs \subseteq Users
    /\ Team \subseteq OpsMgrs \X Users

VARIABLES rows,    \* the table attachments
          files,   \* data/receipts
          made,    \* number of files ever stored
          cited,   \* attachment_id of the notifications
          status,  \* invoices.status
          bill,    \* invoice_id of each expense
          sending, \* where the send-to-ap of an invoice awaits
          cut,     \* history: rows whose deletion the process did not survive
          seen     \* history: the evidence of an invoice when it was passed on

attVars == <<rows, files, made, cited, status, bill, sending, cut, seen>>

Numbers == 1..MaxFiles
NoRow == [user |-> Nothing]
Rows == [user : Users, invoice : Invoices \cup {Nothing}, expense : Expenses \cup {Nothing}]
InvoiceStatuses == {"draft", "submitted", "approved", "countersigned", "sent", "deleted"}
Cleared == {"approved", "countersigned", "sent"}

AttInit ==
    /\ rows = [a \in Numbers |-> NoRow]
    /\ files = {}
    /\ made = 0
    /\ cited = {}
    /\ status = [i \in Invoices |-> "draft"]
    /\ bill = [e \in Expenses |-> Nothing]
    /\ sending = [i \in Invoices |-> "no"]
    /\ cut = {}
    /\ seen = [i \in Invoices |-> {}]

Of(i) == {a \in Numbers : rows[a] # NoRow /\ rows[a].invoice = i}
Receipts(e) == {a \in Numbers : rows[a] # NoRow /\ rows[a].expense = e}
Without(S) == [a \in Numbers |-> IF a \in S THEN NoRow ELSE rows[a]]

\* The process dies: what awaits is gone.
Dies == sending' = [i \in Invoices |-> "no"]

-----------------------------------------------------------------------------
(* Storing *)

\* writeFileSync, then INSERT.
WriteFile ==
    /\ made < MaxFiles
    /\ made' = made + 1
    /\ files' = files \cup {made'}
InsertRow(u, i, e) == rows' = [rows EXCEPT ![made'] = [user |-> u, invoice |-> i, expense |-> e]]

\* Whatever the invoice and the expense are, whoever has them, and although
\* the expense may be another's or on another invoice.
Upload(u, i, e) ==
    /\ i # Nothing => status[i] # "deleted"
    /\ WriteFile
    /\ InsertRow(u, i, e)
    /\ UNCHANGED <<cited, status, bill, sending, cut, seen>>

\* The INSERT names a row that is gone, or is never reached.
UploadCut ==
    /\ WriteFile
    /\ UNCHANGED sending \/ Dies
    /\ UNCHANGED <<rows, cited, status, bill, cut, seen>>

-----------------------------------------------------------------------------
(* Deleting *)

\* Fault: an invoice that was submitted is no obstacle.
MayDeleteAlways(u, a) == rows[a] # NoRow /\ rows[a].user = u

MayDelete(u, a) ==
    /\ rows[a] # NoRow
    /\ rows[a].user = u
    /\ rows[a].invoice # Nothing => status[rows[a].invoice] = "draft"

\* The file goes first; the row stays if a notification names it.
Delete(u, a) ==
    /\ MayDelete(u, a)
    /\ files' = files \ {a}
    /\ rows' = IF a \in cited THEN rows ELSE Without({a})
    /\ UNCHANGED <<made, cited, status, bill, sending, cut, seen>>

DeleteCut(u, a) ==
    /\ MayDelete(u, a)
    /\ files' = files \ {a}
    /\ cut' = cut \cup {a}
    /\ Dies
    /\ UNCHANGED <<rows, made, cited, status, bill, seen>>

\* A sweep puts an expense on a draft.
Bill(e, i) ==
    /\ bill[e] = Nothing /\ status[i] = "draft"
    /\ bill' = [bill EXCEPT ![e] = i]
    /\ UNCHANGED <<rows, files, made, cited, status, sending, cut, seen>>

\* Fault: the receipts go before the lock of the invoice is looked at.
DroppableAlways(e) == bill[e] \in Invoices \cup {Nothing}

Droppable(e) == bill[e] # Nothing => status[bill[e]] = "draft"

\* DELETE /expenses/:id takes the rows of its receipts, of an invoice or not,
\* and leaves the files.
DropExpense(e) ==
    /\ Droppable(e)
    /\ rows' = Without(Receipts(e))
    /\ bill' = [bill EXCEPT ![e] = Nothing]
    /\ UNCHANGED <<files, made, cited, status, sending, cut, seen>>

\* An expense that names the invoice holds it back by its foreign key.
Discardable(i) == i \in Vendor /\ status[i] = "draft" /\ \A e \in Expenses : bill[e] # i

\* Fault: the files of a vendor draft are unlinked before the transaction that
\* is to delete it (before v0.65.1), and the process dies between.
DiscardFilesFirst(i) ==
    /\ Discardable(i)
    /\ files' = files \ Of(i)
    /\ Dies
    /\ UNCHANGED <<rows, made, cited, status, bill, cut, seen>>

\* One transaction deletes the notifications, the rows and the invoice; the
\* files follow unless the process dies.
Discard(i) ==
    /\ Discardable(i)
    /\ rows' = Without(Of(i))
    /\ cited' = cited \ Of(i)
    /\ status' = [status EXCEPT ![i] = "deleted"]
    /\ \/ files' = files \ Of(i) /\ UNCHANGED sending
       \/ UNCHANGED files /\ Dies
    /\ UNCHANGED <<made, bill, cut, seen>>

\* DELETE /admin/invoices with force.  The rows are deleted before the
\* notifications: one that is named aborts the whole.  The files stay, and the
\* expenses become unbilled.
AdminDelete(i) ==
    /\ status[i] # "deleted"
    /\ Of(i) \cap cited = {}
    /\ rows' = Without(Of(i))
    /\ status' = [status EXCEPT ![i] = "deleted"]
    /\ bill' = [e \in Expenses |-> IF bill[e] = i THEN Nothing ELSE bill[e]]
    /\ UNCHANGED <<files, made, cited, sending, cut, seen>>

-----------------------------------------------------------------------------
(* The chain, as far as it concerns attachments *)

Chain == {<<"draft", "submitted">>, <<"submitted", "approved">>,
          <<"submitted", "countersigned">>, <<"approved", "countersigned">>,
          <<"submitted", "draft">>, <<"approved", "draft">>}

\* What is attached to an invoice by itself or with an expense that is on it.
Evidence(i) == {a \in Of(i) \cap files : rows[a].expense # Nothing => bill[rows[a].expense] = i}

Pass(i, s) ==
    /\ <<status[i], s>> \in Chain
    /\ status' = [status EXCEPT ![i] = s]
    /\ seen' = [seen EXCEPT ![i] =
                  IF s \in Cleared THEN Evidence(i) ELSE {}]
    /\ UNCHANGED <<rows, files, made, cited, bill, sending, cut>>

\* POST /send-to-ap up to the first await.
SendBegins(i) ==
    /\ status[i] \in Cleared
    /\ sending[i] = "no"
    /\ sending' = [sending EXCEPT ![i] = "pdf"]
    /\ UNCHANGED <<rows, files, made, cited, status, bill, cut, seen>>

\* The PDF is stored and named by a notification, unless the invoice is gone.
PdfStored(u, i) ==
    /\ sending[i] = "pdf"
    /\ WriteFile
    /\ IF status[i] = "deleted"
         THEN /\ sending' = [sending EXCEPT ![i] = "no"]
              /\ UNCHANGED <<rows, cited>>
         ELSE /\ InsertRow(u, i, Nothing)
              /\ cited' = cited \cup {made'}
              /\ sending' = [sending EXCEPT ![i] = "smtp"]
    /\ UNCHANGED <<status, bill, cut, seen>>

\* sent_ap is written without reading the status again: the evidence of one
\* that was rejected meanwhile is what its technician left.
MailSettles(i) ==
    /\ sending[i] = "smtp"
    /\ sending' = [sending EXCEPT ![i] = "no"]
    /\ status' = [status EXCEPT ![i] = IF @ = "deleted" THEN @ ELSE "sent"]
    /\ seen' = [seen EXCEPT ![i] = IF status[i] = "deleted" THEN @ ELSE Evidence(i)]
    /\ UNCHANGED <<rows, files, made, cited, bill, cut>>

Restarts ==
    /\ Dies
    /\ UNCHANGED <<rows, files, made, cited, status, bill, cut, seen>>

AttNext ==
    \/ \E u \in Users, i \in Invoices \cup {Nothing}, e \in Expenses \cup {Nothing} : Upload(u, i, e)
    \/ UploadCut
    \/ \E u \in Users, a \in Numbers : Delete(u, a) \/ DeleteCut(u, a)
    \/ \E e \in Expenses : DropExpense(e) \/ \E i \in Invoices : Bill(e, i)
    \/ \E i \in Invoices :
          \/ Discard(i) \/ AdminDelete(i)
          \/ \E s \in InvoiceStatuses : Pass(i, s)
          \/ SendBegins(i) \/ MailSettles(i)
          \/ \E u \in Users : PdfStored(u, i)
    \/ Restarts

AttSpec == AttInit /\ [][AttNext]_attVars

-----------------------------------------------------------------------------
(* Reading *)

InTeam(m, t) == m \in OpsMgrs /\ <<m, t>> \in Team

\* canAccessAttachment
CanAccess(u, a) ==
    \/ rows[a].user = u
    \/ u \in Admins
    \/ InTeam(u, rows[a].user)
    \/ rows[a].invoice # Nothing /\ Owner[rows[a].invoice] = u

\* GET /attachments/:id/download: neither 404, nor 403, nor "file missing".
Served(u, a) == rows[a] # NoRow /\ CanAccess(u, a) /\ a \in files

-----------------------------------------------------------------------------
\* The rows and files are those that were stored (schema.sql, attachments),
\* and a notification names the row of an invoice that links nothing else.
AttTypeOK ==
    /\ rows \in [Numbers -> Rows \cup {NoRow}]
    /\ made \in 0..MaxFiles
    /\ files \subseteq 1..made
    /\ bill \in [Expenses -> Invoices \cup {Nothing}]
    /\ cited \subseteq
          {a \in 1..made : rows[a] # NoRow /\ rows[a].invoice # Nothing /\ rows[a].expense = Nothing}
    /\ status \in [Invoices -> InvoiceStatuses]
    /\ sending \in [Invoices -> {"no", "pdf", "smtp"}]
    /\ cut \subseteq Numbers
    /\ seen \in [Invoices -> SUBSET (1..made)]

\* A row whose file is gone ("file missing" on download) is one that a
\* notification holds back or whose deletion the process did not survive: the
\* order of the two halves in every handler that stores or removes a file
\* (attachments.js 89-95 and 176-177, invoices.js 1796-1800 and 2338-2353).
MissingFilesAreKnown ==
    \A a \in Numbers : rows[a] # NoRow /\ a \notin files => a \in cited \cup cut

\* What was attached to an invoice, by itself or with an expense that is on
\* it, when a manager passed it on or AP got it is still attached, and its
\* owner can open it, for as long as the invoice stays passed on, whoever
\* deletes files or expenses, uploads, sends or rejects meanwhile
\* (attachments.js 166-181, expenses.js 445-453).  A file that is also the
\* receipt of an expense elsewhere has no such protection: DELETE /expenses
\* looks at the invoice of the expense only.
EvidenceStays ==
    \A i \in Invoices : status[i] \in Cleared =>
        \A a \in seen[i] : a \in Of(i) /\ Served(Owner[i], a)

=============================================================================
