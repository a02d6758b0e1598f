------------------------------- MODULE LaborSync -------------------------------
(***************************************************************************)
(* The reconciliation of logged labor with MaintainX (lib/maintainx) for   *)
(* one work order: every statement of it is scoped to the work order, and  *)
(* so is external_ref.                                                     *)
(*                                                                         *)
(* A pull awaits the answer of MaintainX and then runs processRawWorkOrder *)
(* without awaiting.  The answer may be of any age (pulls overlap, and one *)
(* that fails falls back to list data without times), so a Sync applies    *)
(* any snapshot.  It is no transaction: when a statement breaks the unique *)
(* index on external_ref, what ran before it stays.                        *)
(*                                                                         *)
(* A definition commented "Fault:" is a deliberately wrong variant that no *)
(* action uses (README, "Faults").                                         *)
(***************************************************************************)
EXTENDS Naturals, FiniteSets, Functions

CONSTANTS
    Users,          \* users who log time
    Assignee,       \* work_orders.assigned_user_id
    MxUsers,        \* technicians as MaintainX identifies them
    Account,        \* the Bread user of each, the assignee when there is none
    Invoices, Payee,    \* drafts and later invoices, and the user each one pays
    NoInvoice,
    EntryIds,       \* bound: ids of entries logged in the app
    Durations       \* logged times, in quarters of a minute

ASSUME SyncConstants ==
    /\ Assignee \in Users
    /\ Account \in [MxUsers -> Users]
    /\ Payee \in [Invoices -> Users]
    /\ NoInvoice \notin Invoices
    /\ Durations \subseteq Nat /\ 0 \in Durations
    /\ IsFiniteSet(MxUsers) /\ MxUsers \intersect {"logged", "inprogress"} = {}

VARIABLES
    status,     \* work_orders.status; "active" is open, in_progress or on_hold
    app,        \* time_entries of the work order with source 'app', by id
    mx,         \* those with source 'maintainx_sync', by external_ref
    locked      \* invoices past the draft

vars == <<status, app, mx, locked>>

\* external_ref without the work order: one per technician, one for time that
\* MaintainX gives no technician for, one for its in-progress clock.
Logged == MxUsers \union {"logged"}
Refs == Logged \union {"inprogress"}

InvoiceOrNone == Invoices \union {NoInvoice}
Statuses == {"active", "completed", "cancelled"}

\* Bound: breaks never use up a work entry, so it has hours.
AppRow == [user : Users, mode : {"work", "drive"}, open : BOOLEAN,
           invoice : InvoiceOrNone]
MxRow == [user : Users, minutes : Nat, invoice : InvoiceOrNone]

TypeOK ==
    /\ status \in Statuses
    /\ DOMAIN app \subseteq EntryIds /\ app \in [DOMAIN app -> AppRow]
    /\ DOMAIN mx \subseteq Refs /\ mx \in [DOMAIN mx -> MxRow]
    /\ locked \subseteq Invoices

Init ==
    /\ status = "active"
    /\ app = [e \in {} |-> NoInvoice]
    /\ mx = [r \in {} |-> NoInvoice]
    /\ locked = {}

-----------------------------------------------------------------------------
(* What MaintainX answers *)

Snapshots == [status : Statuses, times : [Logged -> Durations], progress : Durations]

\* Math.round of quarters to minutes
Rounded(q) == (q + 2) \div 4

\* The 'times' of the answer that are not empty.
Entries(s) == {r \in Logged : s.times[r] > 0}

\* Whether some of them name a technician.
HasTechnicians(s) == Entries(s) \intersect MxUsers # {}

\* extractMxTime: the sum of the logged times, else the in-progress clock.
TotalTime(s) == IF Entries(s) # {} THEN SumFunction(s.times) ELSE s.progress
TotalRef(s) == IF Entries(s) # {} THEN "logged" ELSE "inprogress"

UserOf(r) == IF r \in MxUsers THEN Account[r] ELSE Assignee

\* statusToPersist: a pull does not undo what was finished here.
StatusToPersist(local, theirs) ==
    IF local # "active" /\ theirs = "active" THEN local ELSE theirs

-----------------------------------------------------------------------------
(* Statements of lib/maintainx/labor.js *)

Without(table, S) == Restrict(table, DOMAIN table \ S)
Work(a) == {e \in DOMAIN a : a[e].mode = "work"}

\* Fault: entries on an invoice are deleted as well.
DeleteAllWork(a) == Without(a, Work(a))

\* DELETE of the app's work entries that are on no invoice, running or not.
DeleteUnbilledWork(a) == Without(a, {e \in Work(a) : a[e].invoice = NoInvoice})

\* SELECT invoice_id ... LIMIT 1, of any entry of the work order, any user's.
Inheritable(a) ==
    LET billed == {a[e].invoice : e \in DOMAIN a} \ {NoInvoice}
    IN  IF billed = {} THEN {NoInvoice} ELSE billed

\* Fault: the minutes are added to those of the row.
UpsertAdds(m, ref, minutes, i) ==
    [r \in DOMAIN m \union {ref} |->
        IF r # ref THEN m[r]
        ELSE IF r \in DOMAIN m THEN [m[r] EXCEPT !.minutes = @ + minutes]
        ELSE [user |-> UserOf(ref), minutes |-> minutes, invoice |-> i]]

\* The UPDATE or INSERT of writeMxTimeEntry.  Less than half a minute is no
\* entry.  An invoice_id that is there is kept.
Upsert(m, ref, minutes, i) ==
    IF minutes = 0 THEN m
    ELSE [r \in DOMAIN m \union {ref} |->
            IF r # ref THEN m[r]
            ELSE [user |-> UserOf(ref), minutes |-> minutes,
                  invoice |-> IF r \in DOMAIN m /\ m[r].invoice # NoInvoice
                              THEN m[r].invoice ELSE i]]

\* UPDATE external_ref of row r to the free reference s.
Redirect(m, r, s) == [k \in (DOMAIN m \ {r}) \union {s} |-> IF k = s THEN m[r] ELSE m[k]]

Billed(m) == {r \in DOMAIN m : m[r].invoice # NoInvoice}

\* The clean-up of stale rows yields the rows left and whether it got through.
\* A loop that fails has deleted some of the unbilled stale rows before.
Through(m) == [mx |-> m, ok |-> TRUE]
FailedAfter(m, unbilled) == {[mx |-> Without(m, D), ok |-> FALSE] : D \in SUBSET unbilled}

\* One reference to write (labor.js:79-95): one stale row that is on an invoice
\* is redirected to it, the others are deleted.  A redirect fails when the
\* reference is taken.
CleanOne(m, ref) ==
    LET stale == DOMAIN m \ {ref}
        billed == stale \intersect Billed(m)
    IN  IF billed = {} THEN {Through(Without(m, stale))}
        ELSE IF ref \in DOMAIN m THEN FailedAfter(m, stale \ billed)
        ELSE {Through(Redirect(Restrict(m, {r}), r, ref)) : r \in billed}

\* Fault: billed rows are deleted like the others.
CleanSetDeletes(m, refs, first) == {Through(Restrict(m, refs \intersect DOMAIN m))}

\* Several references to write (labor.js:209-230): every stale row on an
\* invoice is redirected to the same one, so the second such redirect fails.
CleanSet(m, refs, first) ==
    LET stale == DOMAIN m \ refs
        billed == stale \intersect Billed(m)
    IN  IF billed = {} THEN {Through(Without(m, stale))}
        ELSE IF first \in DOMAIN m THEN FailedAfter(m, stale \ billed)
        ELSE UNION {LET moved == Redirect(m, r, first) IN
                    IF billed = {r} THEN {Through(Without(moved, stale \ billed))}
                    ELSE FailedAfter(moved, stale \ billed) : r \in billed}

-----------------------------------------------------------------------------
(* The decisions of reconcileLaborForWorkOrder and of its per-technician     *)
(* variant: the results they may have on the two tables.                     *)

Result(a, m, success) == [app |-> a, mx |-> m, ok |-> success]
AfterClean(a, c, m) == Result(a, IF c.ok THEN m ELSE c.mx, c.ok)

\* The upserts of the per-technician variant, one for each that has time.
UpsertAll(m, s, i) ==
    [r \in DOMAIN m \union {e \in Entries(s) : Rounded(s.times[e]) > 0} |->
        IF r \in Entries(s) THEN Upsert(m, r, Rounded(s.times[r]), i)[r] ELSE m[r]]

\* reconcilePerTechLaborCompleted
MxWinsPerTech(a, m, s) ==
    LET kept == DeleteUnbilledWork(a)
    IN  {AfterClean(kept, c, UpsertAll(c.mx, s, i)) :
            c \in UNION {CleanSet(m, Entries(s), first) : first \in Entries(s)},
            i \in Inheritable(kept)}

WriteTotal(a, m, s) ==
    {AfterClean(a, c, Upsert(c.mx, TotalRef(s), Rounded(TotalTime(s)), i)) :
        c \in CleanOne(m, TotalRef(s)), i \in Inheritable(a)}

\* A completed work order takes the time of MaintainX, if there is any.
MxWins(a, m, s) ==
    IF Rounded(TotalTime(s)) = 0 THEN {Result(a, m, TRUE)}
    ELSE WriteTotal(DeleteUnbilledWork(a), m, s)

NoImports == [r \in {} |-> NoInvoice]

\* Any other takes the time of the app, and else that of MaintainX.
AppWins(a, m, s) ==
    IF Work(a) # {} \/ Rounded(TotalTime(s)) = 0 THEN {Result(a, NoImports, TRUE)}
    ELSE WriteTotal(a, m, s)

Reconcile(st, a, m, s) ==
    CASE st = "completed" /\ HasTechnicians(s)  -> MxWinsPerTech(a, m, s)
      [] st = "completed" /\ ~HasTechnicians(s) -> MxWins(a, m, s)
      [] st # "completed"                       -> AppWins(a, m, s)

\* processRawWorkOrder
Sync(s) ==
    /\ status' = StatusToPersist(status, s.status)
    /\ \E r \in Reconcile(status', app, mx, s) :
          /\ app' = r.app
          /\ mx' = r.mx
    /\ UNCHANGED locked

-----------------------------------------------------------------------------
(* The rest of the program, as far as it moves these rows (TimeTracking and  *)
(* DraftBilling have it in full).                                            *)

\* PATCH /workorders/:id; 'completed' also starts a pull.
SetStatus(st) ==
    /\ status' = st
    /\ UNCHANGED <<app, mx, locked>>

ClockIn(u, m) ==
    /\ ~\E e \in DOMAIN app : app[e].user = u /\ app[e].open
    /\ \E e \in EntryIds \ DOMAIN app :
          app' = [x \in DOMAIN app \union {e} |-> IF x # e THEN app[x] ELSE
                    [user |-> u, mode |-> m, open |-> TRUE, invoice |-> NoInvoice]]
    /\ UNCHANGED <<status, mx, locked>>

ClockOut(e) ==
    /\ app[e].open
    /\ app' = [app EXCEPT ![e].open = FALSE]
    /\ UNCHANGED <<status, mx, locked>>

\* The sweep of invoice i, a draft of its payee, over both kinds of rows.
\* Which of them it takes depends on dates, which are not modelled.
File(i) ==
    LET fits(row) == row.invoice = NoInvoice /\ row.user = Payee[i]
    IN  /\ i \notin locked
        /\ \E E \in SUBSET {e \in DOMAIN app : fits(app[e]) /\ ~app[e].open},
              R \in SUBSET {r \in DOMAIN mx : fits(mx[r])} :
              /\ app' = [e \in DOMAIN app |-> IF e \in E THEN [app[e] EXCEPT !.invoice = i]
                                               ELSE app[e]]
              /\ mx' = [r \in DOMAIN mx |-> IF r \in R THEN [mx[r] EXCEPT !.invoice = i]
                                             ELSE mx[r]]
        /\ UNCHANGED <<status, locked>>

\* DELETE /timeentries/:id of a line that is not yet billed or on a draft.
DeleteLine ==
    /\ \/ /\ \E e \in DOMAIN app : /\ ~app[e].open /\ app[e].invoice \notin locked
                                   /\ app' = Without(app, {e})
          /\ UNCHANGED mx
       \/ /\ \E r \in DOMAIN mx : /\ mx[r].invoice \notin locked
                                  /\ mx' = Without(mx, {r})
          /\ UNCHANGED app
    /\ UNCHANGED <<status, locked>>

\* The chain takes invoice i past the draft, or back.
Lock(i) == i \notin locked /\ locked' = locked \union {i}
           /\ UNCHANGED <<status, app, mx>>
Unlock(i) == i \in locked /\ locked' = locked \ {i}
             /\ UNCHANGED <<status, app, mx>>

-----------------------------------------------------------------------------
Next ==
    \/ \E s \in Snapshots : Sync(s)
    \/ \E st \in Statuses : SetStatus(st)
    \/ \E u \in Users, m \in {"work", "drive"} : ClockIn(u, m)
    \/ \E e \in DOMAIN app : ClockOut(e)
    \/ \E i \in Invoices : File(i) \/ Lock(i) \/ Unlock(i)
    \/ DeleteLine

Spec == Init /\ [][Next]_vars

-----------------------------------------------------------------------------
(* Properties.  Those of a pull quantify over everything MaintainX may answer *)
(* next and over every outcome of reconciling it.                            *)

Completed(s) == StatusToPersist(status, s.status) = "completed"
Outcomes(s) == Reconcile(StatusToPersist(status, s.status), app, mx, s)

\* "Idempotent on re-runs" (labor.js, header): a pull that got through and is
\* repeated with the same answer changes nothing, whatever rows, invoices and
\* stale references it started from.
SyncIdempotent ==
    \A s \in Snapshots : \A r \in Outcomes(s) :
        r.ok => Reconcile(StatusToPersist(status, s.status), r.app, r.mx, s) = {r}

\* A pull with times per technician takes no imported line off an invoice, and
\* none from one invoice to another, even if it fails half-way (labor.js,
\* v0.82.1: a stale row on an invoice is redirected instead of deleted).
BilledImportsKept ==
    \A s \in Snapshots : Completed(s) /\ HasTechnicians(s) =>
        \A r \in Outcomes(s), i \in Invoices :
            Cardinality({k \in DOMAIN r.mx : r.mx[k].invoice = i})
                >= Cardinality({k \in DOMAIN mx : mx[k].invoice = i})

\* An entry a worker logged and that is past the draft stays as it is, whatever
\* is pulled: "Invoiced entries are left in place to preserve historical
\* invoice integrity" (labor.js).  Imported rows have no such protection.
LockedAppKept ==
    [][\A e \in DOMAIN app : app[e].invoice \in locked =>
          e \in DOMAIN app' /\ app'[e] = app[e]]_vars

-----------------------------------------------------------------------------
(* What comments of the source say and the code does not do; each is the     *)
(* property of a run that TLC refutes.                                       *)

\* labor.js: on a completed work order "Delete any non-invoiced app-sourced work
\* entries for this WO, then insert/update the synthetic MaintainX entry": work
\* is replaced, never just deleted.
WorkSurvivesSync ==
    [][\A s \in Snapshots : Sync(s) /\ status' = "completed" /\ Work(app) # {}
          => Work(app') # {} \/ DOMAIN mx' # {}]_vars
=============================================================================
