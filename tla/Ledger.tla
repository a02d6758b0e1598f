-------------------------------- MODULE Ledger --------------------------------
(***************************************************************************)
(* The tables behind a technician's invoices (time_entries, expenses and   *)
(* the tech-labor rows of invoices) and the helpers every route shares:    *)
(* the week of a date, the draft that covers a date, and the sweep that    *)
(* files unbilled rows on a draft.                                         *)
(*                                                                         *)
(* A table is a function from the ids it holds to rows.  NULL is NoTime in *)
(* a time column and 0 in invoice_id.  Time is counted in ticks; a date is *)
(* the number of a day.  Definitions commented "Fault:" are deliberately   *)
(* wrong variants that no action uses (README, "Faults").                  *)
(***************************************************************************)
EXTENDS Integers, FiniteSets, FiniteSetsExt

CONSTANTS
    Technicians, OpsManagers, Admins,   \* users by role; Admins: sr_manager, pm
    WorkOrders,
    MaxEntries, MaxExpenses, MaxInvoices,   \* bounds: rows of each table
    MaxTime,        \* bound: the last instant of the clock
    Minute,         \* ticks of a minute of break time
    Grace,          \* ticks a manual clock-out may lie in the future (5 min)
    DayLength,      \* ticks of a day, and the longest manual entry (24 h)
    WeekDays,       \* days of a week
    MaxSpan,        \* days of the longest custom period (31)
    BreakInputs,    \* values a client may send as break_minutes
    Amounts,        \* amounts of an expense
    NoTime, NoUser

ASSUME LedgerConstants ==
    /\ MaxEntries \in Nat /\ MaxExpenses \in Nat /\ MaxInvoices \in Nat
    /\ MaxTime \in Nat /\ Grace \in Nat
    /\ Minute \in Nat \ {0} /\ DayLength \in Nat \ {0}
    /\ WeekDays \in Nat \ {0} /\ MaxSpan \in Nat
    /\ BreakInputs \subseteq Nat
    /\ NoTime \notin Int
    /\ NoUser \notin Technicians \union OpsManagers \union Admins

VARIABLES
    now,        \* the server's clock
    entry,      \* time_entries
    expense,    \* expenses
    inv,        \* invoices, invoice_type = 'tech_labor'
    pdf,        \* per invoice: is a PDF attached, being parsed, its summary stored
    asked       \* the pending wo_addition_request of an invoice

ledger == <<now, entry, expense, inv, pdf, asked>>

Users == Technicians \union OpsManagers \union Admins
Modes == {"work", "drive"}
EntryIds == 1..MaxEntries
ExpenseIds == 1..MaxExpenses
InvoiceIds == 1..MaxInvoices
InvoiceOrNone == 0..MaxInvoices

\* 'approved' stands for approved_ops and approved_sr, which these handlers
\* never tell apart; "none" is an id not yet minted, "gone" a deleted row.
InvoiceStatuses == {"none", "draft", "submitted", "approved", "sent", "gone"}
Locked == {"approved", "sent"}      \* LOCKED_STATUSES
PastDraft == {"submitted", "approved", "sent"}   \* status NOT IN ('draft')

\* imported marks the rows the PDF importer inserted (their notes begin with
\* "[from PDF]").
EntryRow == [user : Users, wo : WorkOrders, mode : Modes, cin : Int,
             cout : Int \union {NoTime}, brk : Int, bstart : Int \union {NoTime},
             flagged : BOOLEAN, invoice : InvoiceOrNone, imported : BOOLEAN]
ExpenseRow == [user : Users, wo : WorkOrders, date : Int, amount : Amounts,
               invoice : InvoiceOrNone]
InvoiceRow == [owner : Users \union {NoUser}, start : Int, end : Int,
               status : InvoiceStatuses]
Unminted == [owner |-> NoUser, start |-> 0, end |-> 0, status |-> "none"]
AddRequest == [wos : SUBSET WorkOrders, start : Int, end : Int]

TypeOK ==
    /\ now \in Nat
    /\ DOMAIN entry \subseteq EntryIds
    /\ entry \in [DOMAIN entry -> EntryRow]
    /\ DOMAIN expense \subseteq ExpenseIds
    /\ expense \in [DOMAIN expense -> ExpenseRow]
    /\ inv \in [InvoiceIds -> InvoiceRow]
    /\ pdf \in [InvoiceIds -> SUBSET {"attached", "parsing", "stored"}]
    /\ DOMAIN asked \subseteq InvoiceIds
    /\ asked \in [DOMAIN asked -> AddRequest]

Init ==
    /\ now = 0
    /\ entry = [e \in {} |-> Unminted]
    /\ expense = [x \in {} |-> Unminted]
    /\ inv = [i \in InvoiceIds |-> Unminted]
    /\ pdf = [i \in InvoiceIds |-> {}]
    /\ asked = [i \in {} |-> Unminted]

-----------------------------------------------------------------------------
(* Tables *)

\* INSERT / UPDATE of row k, DELETE of row k.
Put(table, k, row) == [j \in DOMAIN table \union {k} |->
                          IF j = k THEN row ELSE table[j]]
Drop(table, k) == [j \in DOMAIN table \ {k} |-> table[j]]

\* The id an INSERT gets (which one does not matter, only that it is unused).
FreshEntry(e) == e \in EntryIds \ DOMAIN entry /\ e = Min(EntryIds \ DOMAIN entry)
FreshExpense(x) == x \in ExpenseIds \ DOMAIN expense
                   /\ x = Min(ExpenseIds \ DOMAIN expense)

\* Invoice ids are AUTOINCREMENT: the next one is above all earlier ones.
FreshInvoice(i) == /\ i \in InvoiceIds /\ inv[i].status = "none"
                   /\ \A j \in InvoiceIds : inv[j].status = "none" => i <= j

Running(row) == row.cout = NoTime
Status(i) == IF i = 0 THEN "draft" ELSE inv[i].status

\* Who may act for whom: sr_manager and pm for anyone, an ops_manager for the
\* technicians of their team.
Manages(a, u) == a \in Admins \/ (a \in OpsManagers /\ u \in Technicians)

-----------------------------------------------------------------------------
(* Dates and drafts *)

Day(t) == t \div DayLength
WeekStart(d) == d - (d % WeekDays)
WeekEnd(d) == WeekStart(d) + WeekDays - 1

Covering(u, d, S) == {i \in InvoiceIds : /\ inv[i].owner = u
                                         /\ inv[i].status \in S
                                         /\ d \in inv[i].start..inv[i].end}

\* The guard of POST /timeentries and POST /expenses: 409, "has already been
\* submitted and cannot be modified".
WeekLocked(u, d) == /\ Covering(u, d, {"draft"}) = {}
                    /\ Covering(u, d, PastDraft) # {}

NewDraft(u, s, t) == [owner |-> u, start |-> s, end |-> t, status |-> "draft"]

\* Fault: the sweep forgets "invoice_id IS NULL".
SweptEntriesBilled(table, u, i, s, t, W) ==
    [e \in DOMAIN table |->
        IF /\ table[e].user = u /\ ~Running(table[e])
           /\ Day(table[e].cin) \in s..t /\ table[e].wo \in W
        THEN [table[e] EXCEPT !.invoice = i] ELSE table[e]]

\* UPDATE time_entries / expenses SET invoice_id = i of user u's unbilled rows
\* dated s..t on the work orders W.
SweptEntries(table, u, i, s, t, W) ==
    [e \in DOMAIN table |->
        IF /\ table[e].user = u /\ table[e].invoice = 0 /\ ~Running(table[e])
           /\ Day(table[e].cin) \in s..t /\ table[e].wo \in W
        THEN [table[e] EXCEPT !.invoice = i] ELSE table[e]]

\* Fault: the same for expenses.
SweptExpensesBilled(table, u, i, s, t, W) ==
    [x \in DOMAIN table |->
        IF /\ table[x].user = u
           /\ table[x].date \in s..t /\ table[x].wo \in W
        THEN [table[x] EXCEPT !.invoice = i] ELSE table[x]]

SweptExpenses(table, u, i, s, t, W) ==
    [x \in DOMAIN table |->
        IF /\ table[x].user = u /\ table[x].invoice = 0
           /\ table[x].date \in s..t /\ table[x].wo \in W
        THEN [table[x] EXCEPT !.invoice = i] ELSE table[x]]

\* INSERT INTO invoices a draft for s..t and sweep, over tables that already
\* hold the rows inserted by the same handler.
MintAndSweep(u, s, t, W, entries, expenses) ==
    \E i \in InvoiceIds :
        /\ FreshInvoice(i)
        /\ inv' = [inv EXCEPT ![i] = NewDraft(u, s, t)]
        /\ entry' = SweptEntries(entries, u, i, s, t, W)
        /\ expense' = SweptExpenses(expenses, u, i, s, t, W)

\* ensureDraftForEntry and the attachment of the row just inserted: the latest
\* draft that covers the date, or a new one for its week.
FileEntry(e, row) ==
    LET d == Day(row.cin)
        drafts == Covering(row.user, d, {"draft"})
    IN  \/ /\ drafts # {}
           /\ entry' = Put(entry, e, [row EXCEPT !.invoice = Max(drafts)])
           /\ UNCHANGED <<expense, inv>>
        \/ /\ drafts = {}
           /\ MintAndSweep(row.user, WeekStart(d), WeekEnd(d), WorkOrders,
                           Put(entry, e, row), expense)

FileExpense(x, row) ==
    LET drafts == Covering(row.user, row.date, {"draft"})
    IN  \/ /\ drafts # {}
           /\ expense' = Put(expense, x, [row EXCEPT !.invoice = Max(drafts)])
           /\ UNCHANGED <<entry, inv>>
        \/ /\ drafts = {}
           /\ MintAndSweep(row.user, WeekStart(row.date), WeekEnd(row.date),
                           WorkOrders, entry, Put(expense, x, row))
=============================================================================
