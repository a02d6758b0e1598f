---------------------------- MODULE DraftBilling ----------------------------
(***************************************************************************)
(* The billing of a technician's work: time entries (TimeTracking) and     *)
(* expenses (Expenses) are filed on weekly or custom drafts by the         *)
(* handlers of routes/invoices.js below, while the approval chain moves    *)
(* the invoices (InvoiceApproval) and administrators delete some.  All     *)
(* handlers are atomic but POST /upload, which waits for the PDF parser    *)
(* between minting a draft and importing the parsed lines into it.         *)
(***************************************************************************)
EXTENDS TimeTracking, Expenses

\* GET /invoices/current: sweeps the week onto its draft, or returns the
\* invoice already submitted for it, or mints the draft.
GetCurrent(t) ==
    LET s == WeekStart(Day(now))
        at(S) == {i \in InvoiceIds : /\ inv[i].owner = t /\ inv[i].start = s
                                     /\ inv[i].status \in S}
    IN
    /\ t \in Technicians
    /\ \/ /\ at({"draft"}) # {}
          /\ LET i == Max(at({"draft"})) IN
                /\ entry' = SweptEntries(entry, t, i, s, inv[i].end, WorkOrders)
                /\ expense' = SweptExpenses(expense, t, i, s, inv[i].end, WorkOrders)
          /\ UNCHANGED inv
       \/ /\ at({"draft"} \union PastDraft) = {}
          /\ MintAndSweep(t, s, WeekEnd(s), WorkOrders, entry, expense)
    /\ UNCHANGED <<now, pdf, asked>>

\* POST /invoices/for-week: sweeps only when it creates the draft.
ForWeek(t, d) ==
    /\ t \in Technicians
    /\ d <= Day(now)
    /\ ~\E i \in InvoiceIds : /\ inv[i].owner = t /\ inv[i].status = "draft"
                              /\ inv[i].start = WeekStart(d)
    /\ MintAndSweep(t, WeekStart(d), WeekEnd(d), WorkOrders, entry, expense)
    /\ UNCHANGED <<now, pdf, asked>>

\* POST /invoices/custom-period: always a new draft, on some work orders.
CustomPeriod(t, s, e, W) ==
    /\ t \in Technicians
    /\ s <= e /\ e - s < MaxSpan /\ s <= Day(now)
    /\ MintAndSweep(t, s, e, W, entry, expense)
    /\ UNCHANGED <<now, pdf, asked>>

\* PUT /invoices/:id: any new period, which moves no line.
PutHeader(a, i, s, e) ==
    /\ a = inv[i].owner \/ a \in OpsManagers \union Admins
    /\ inv[i].status \in IF a = inv[i].owner THEN {"draft"} ELSE {"draft", "submitted"}
    /\ inv' = [inv EXCEPT ![i].start = s, ![i].end = e]
    /\ UNCHANGED <<now, entry, expense, pdf, asked>>

-----------------------------------------------------------------------------
(* PDFs: POST /invoices/upload, /reextract and /import-pdf *)

Parsing == {i \in InvoiceIds : "parsing" \in pdf[i]}

\* Mints a draft for the week without sweeping; with a PDF the handler then
\* awaits the parser.
Upload(t, d, withPdf) ==
    /\ t \in Technicians
    /\ \E i \in InvoiceIds :
          /\ FreshInvoice(i)
          /\ inv' = [inv EXCEPT ![i] = NewDraft(t, WeekStart(d), WeekEnd(d))]
          /\ pdf' = IF withPdf THEN [pdf EXCEPT ![i] = {"attached", "parsing"}] ELSE pdf
    /\ UNCHANGED <<now, entry, expense, asked>>

ParseFails(i) ==
    /\ i \in Parsing /\ inv[i].status # "gone"
    /\ pdf' = [pdf EXCEPT ![i] = @ \ {"parsing"}]
    /\ UNCHANGED <<now, entry, expense, inv, asked>>

\* The summary is stored, and the period of the PDF replaces the draft's.
Parsed(i, s, e) ==
    /\ i \in Parsing /\ inv[i].status # "gone"
    /\ pdf' = [pdf EXCEPT ![i] = {"attached", "stored"}]
    /\ inv' = IF inv[i].status = "draft" THEN [inv EXCEPT ![i].start = s, ![i].end = e]
              ELSE inv
    /\ UNCHANGED <<now, asked>>

\* Bound: a PDF holds one line, of labor or of mileage or tolls.
LaborLine == [wo : WorkOrders, cin : 0..MaxTime, cout : 0..MaxTime]
ExpenseLine == [wo : WorkOrders, date : Days, amount : Amounts]

\* importExtractedSummary, which skips the lines the invoice already has.
ImportLabor(i, line) ==
    /\ IF \E n \in DOMAIN entry : /\ entry[n].invoice = i /\ entry[n].wo = line.wo
                                  /\ entry[n].cin = line.cin
       THEN UNCHANGED entry
       ELSE \E n \in EntryIds :
               /\ FreshEntry(n)
               /\ entry' = Put(entry, n, [Timer(inv[i].owner, line.wo, "work") EXCEPT
                                            !.cin = line.cin, !.cout = line.cout,
                                            !.invoice = i, !.imported = TRUE])
    /\ UNCHANGED expense

ImportExpense(i, line) ==
    LET row == [user |-> inv[i].owner, wo |-> line.wo, date |-> line.date,
                amount |-> line.amount, invoice |-> i]
    IN  /\ IF \E x \in DOMAIN expense : expense[x] = row
           THEN UNCHANGED expense
           ELSE \E x \in ExpenseIds : FreshExpense(x) /\ expense' = Put(expense, x, row)
        /\ UNCHANGED entry

ImportLine(i) == \/ \E line \in LaborLine : ImportLabor(i, line)
                 \/ \E line \in ExpenseLine : ImportExpense(i, line)

\* A summary that validation holds for review is stored and not imported.
ParseHeld(i, s, e) == Parsed(i, s, e) /\ UNCHANGED <<entry, expense>>

\* A valid one is imported at once, whatever the invoice's status is by now.
ParseImported(i, s, e) == Parsed(i, s, e) /\ ImportLine(i)

\* The parser runs again over the attachment; only the summary is written.
Reextract(i) ==
    /\ "attached" \in pdf[i] /\ inv[i].status # "gone"
    /\ pdf' = [pdf EXCEPT ![i] = @ \union {"stored"}]
    /\ UNCHANGED <<now, entry, expense, inv, asked>>

\* POST /invoices/:id/import-pdf, on a draft only.
ImportPdf(i) ==
    /\ inv[i].status = "draft" /\ "stored" \in pdf[i]
    /\ ImportLine(i)
    /\ UNCHANGED <<now, inv, pdf, asked>>

\* The invoice was deleted meanwhile: computeInvoice throws in an async
\* handler that nothing catches, and the process exits with every upload.
\* A restart by the host loses the uploads all the same.
UploadsDie ==
    /\ Parsing # {}
    /\ pdf' = [i \in InvoiceIds |-> pdf[i] \ {"parsing"}]
    /\ UNCHANGED <<now, entry, expense, inv, asked>>

-----------------------------------------------------------------------------
(* Adding work orders to a submitted week *)

RequestAddition(i, W) ==
    /\ inv[i].status \in PastDraft
    /\ i \notin DOMAIN asked
    /\ W # {}
    /\ asked' = Put(asked, i, [wos |-> W, start |-> inv[i].start, end |-> inv[i].end])
    /\ UNCHANGED <<now, entry, expense, inv, pdf>>

\* Mints a supplemental draft for the requested period and sweeps onto it the
\* requested work orders, those that could be resolved.
ApproveAddition(a, i) ==
    /\ i \in DOMAIN asked
    /\ a # inv[i].owner /\ Manages(a, inv[i].owner)
    /\ \E W \in SUBSET asked[i].wos :
          MintAndSweep(inv[i].owner, asked[i].start, asked[i].end, W, entry, expense)
    /\ asked' = Drop(asked, i)
    /\ UNCHANGED <<now, pdf>>

DenyAddition(a, i) ==
    /\ i \in DOMAIN asked
    /\ a # inv[i].owner /\ Manages(a, inv[i].owner)
    /\ asked' = Drop(asked, i)
    /\ UNCHANGED <<now, entry, expense, inv, pdf>>

-----------------------------------------------------------------------------
(* The chain and the administrators *)

\* submit, approve and escalate, reject, and send-to-ap, whose last step may
\* come after a rejection (InvoiceApproval, finding_late_reject).
ChainStep(i) ==
    /\ \E s \in InvoiceStatuses :
          /\ <<inv[i].status, s>> \in
                {<<"draft", "submitted">>, <<"submitted", "approved">>,
                 <<"submitted", "draft">>, <<"approved", "draft">>,
                 <<"draft", "sent">>, <<"submitted", "sent">>, <<"approved", "sent">>}
          /\ inv' = [inv EXCEPT ![i].status = s]
    /\ UNCHANGED <<now, entry, expense, pdf, asked>>

Removed(i) == inv' = [inv EXCEPT ![i].status = "gone"]

\* Fault: the lines keep the id of the deleted invoice.
AdminDeleteKeepsLines(i) ==
    /\ inv[i].status \in {"draft", "submitted", "approved"}
    /\ Removed(i)
    /\ asked' = Drop(asked, i)
    /\ UNCHANGED <<now, entry, expense, pdf>>

\* DELETE /admin/invoices, forced for an approved one.  The lines become
\* unbilled again.  Sent invoices resist (InvoiceApproval, theorem Frozen).
AdminDelete(i) ==
    /\ inv[i].status \in {"draft", "submitted", "approved"}
    /\ Removed(i)
    /\ entry' = [n \in DOMAIN entry |->
                    IF entry[n].invoice = i THEN [entry[n] EXCEPT !.invoice = 0]
                    ELSE entry[n]]
    /\ expense' = [x \in DOMAIN expense |->
                    IF expense[x].invoice = i THEN [expense[x] EXCEPT !.invoice = 0]
                    ELSE expense[x]]
    /\ asked' = Drop(asked, i)
    /\ UNCHANGED <<now, pdf>>

-----------------------------------------------------------------------------
BillingNext ==
    \/ \E t \in Technicians :
          \/ GetCurrent(t)
          \/ \E d \in Days : ForWeek(t, d) \/ \E b \in BOOLEAN : Upload(t, d, b)
          \/ \E s, e \in Days, W \in SUBSET WorkOrders \ {{}} : CustomPeriod(t, s, e, W)
    \/ \E i \in InvoiceIds :
          \/ ChainStep(i) \/ AdminDelete(i)
          \/ \E a \in Users : ApproveAddition(a, i) \/ DenyAddition(a, i)
          \/ \E W \in SUBSET WorkOrders : RequestAddition(i, W)
          \/ ParseFails(i) \/ Reextract(i)
          \/ ImportPdf(i)
          \/ \E s, e \in Days :
                \/ ParseHeld(i, s, e) \/ ParseImported(i, s, e)
                \/ \E a \in Users : PutHeader(a, i, s, e)
    \/ UploadsDie

Next == TimeNext \/ ExpenseNext \/ BillingNext

Spec == Init /\ [][Next]_ledger

-----------------------------------------------------------------------------
(* Properties *)

\* A user never runs two timers on one work order, nor two drive timers at
\* all, whatever mixture of clock-ins, switches, edits and imports led there.
TimersExclusive ==
    \A e, f \in DOMAIN entry :
        /\ e # f /\ entry[e].user = entry[f].user
        /\ Running(entry[e]) /\ Running(entry[f])
        => /\ entry[e].wo # entry[f].wo
           /\ ~(entry[e].mode = "drive" /\ entry[f].mode = "drive")

\* The end of an entry as far as it is known to have been worked.
Until(row) == IF Running(row) THEN now ELSE row.cout

\* Two entries of one user on one work order share at most Grace ticks: that
\* much a manual entry may reach past the clock-in that follows it.  Imported
\* lines are exempt; the importer makes no overlap check.
OverlapWithinGrace ==
    \A e, f \in DOMAIN entry :
        /\ e # f /\ entry[e].user = entry[f].user /\ entry[e].wo = entry[f].wo
        /\ ~entry[e].imported /\ ~entry[f].imported
        => \/ Until(entry[e]) - entry[f].cin <= Grace
           \/ Until(entry[f]) - entry[e].cin <= Grace
           \/ Until(entry[e]) - entry[e].cin <= Grace
           \/ Until(entry[f]) - entry[f].cin <= Grace

\* Every filed line is on an existing invoice of the person who did the work,
\* through sweeps, uploads, supplemental drafts and deletions.
BilledToOwner ==
    /\ \A e \in DOMAIN entry : entry[e].invoice # 0 =>
          /\ inv[entry[e].invoice].owner = entry[e].user
          /\ inv[entry[e].invoice].status \notin {"none", "gone"}
    /\ \A x \in DOMAIN expense : expense[x].invoice # 0 =>
          /\ inv[expense[x].invoice].owner = expense[x].user
          /\ inv[expense[x].invoice].status \notin {"none", "gone"}

\* The lines of an invoice, with their content.
Lines(i) == <<{<<e, entry[e]>> : e \in {n \in DOMAIN entry : entry[n].invoice = i}},
              {<<x, expense[x]>> : x \in {n \in DOMAIN expense : expense[n].invoice = i}}>>

\* While an invoice is approved or sent no handler adds, removes or edits one
\* of its lines, except the import of a PDF that was being parsed.  (A pull from
\* MaintainX does, too; it is in LaborSync and no action here.)
LinesLocked ==
    [][\A i \in InvoiceIds \ Parsing :
          inv[i].status \in Locked /\ inv'[i].status \in Locked
             => Lines(i)' = Lines(i)]_ledger

\* No handler takes a line away from an existing invoice and files it on
\* another: only the deletion of the invoice sets its lines free.
NeverStolen ==
    [][/\ \A e \in DOMAIN entry \intersect DOMAIN entry' :
             entry[e].invoice # 0 => \/ entry'[e].invoice = entry[e].invoice
                                     \/ inv'[entry[e].invoice].status = "gone"
       /\ \A x \in DOMAIN expense \intersect DOMAIN expense' :
             expense[x].invoice # 0 => \/ expense'[x].invoice = expense[x].invoice
                                       \/ inv'[expense[x].invoice].status = "gone"]_ledger

\* The lines of both tables, as LedgerContract sees them.
LineTable(entries, expenses) ==
    [k \in ({"hours"} \X DOMAIN entries) \union ({"costs"} \X DOMAIN expenses) |->
        LET row == IF k[1] = "hours" THEN entries[k[2]] ELSE expenses[k[2]]
        IN  [who |-> row.user, on |-> row.invoice]]

BillTable == [i \in InvoiceIds |-> [who |-> inv[i].owner, phase |-> inv[i].status]]

Promise == INSTANCE LedgerContract WITH
              Bills <- InvoiceIds,
              Work <- ({"hours"} \X EntryIds) \union ({"costs"} \X ExpenseIds),
              NoBill <- 0,
              line <- LineTable(entry, expense),
              bill <- BillTable,
              reading <- Parsing

\* Every step of the handlers is one step of LedgerContract on one line, or on
\* the lines one draft takes, or none: each line goes from free to a draft of
\* its owner and back to free with the deletion of the invoice, and is removed
\* only while free or on a draft.
KeepsLedger == Promise!Spec

\* Worked ticks of an entry, as sumHours computes them.
Paid(row) == Until(row) - row.cin - row.brk * Minute
                - (IF row.bstart # NoTime THEN now - row.bstart ELSE 0)

\* Ending a break, by a resume or by clocking out of it, moves the paid time
\* by no more than the rounding of that break to a whole minute.
BreakSeamless ==
    [][\A e \in DOMAIN entry \intersect DOMAIN entry' :
          entry[e].bstart # NoTime /\ entry'[e].bstart = NoTime =>
             LET moved == Paid(entry[e])' - Paid(entry[e])
             IN  2 * moved <= Minute /\ -(2 * moved) <= Minute]_ledger

-----------------------------------------------------------------------------
(* What a comment of the source says and the code does not do: the property  *)
(* of a run that TLC refutes.                                                *)
=============================================================================
