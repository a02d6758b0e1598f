----------------------------- MODULE CostTracker ----------------------------
(* What managers read of the ledger: the cost tracker, its monthly summary,  *)
(* the visits in the AP pipeline, the spend of the dashboards, the          *)
(* manual overrides of tracker rows, and the push of both tables to a Google *)
(* Sheet (routes/dashboard.js, lib/google_sheets.js, public/app.js).         *)
EXTENDS Naturals, Sequences, FiniteSetsExt, Functions

CONSTANTS Wos,              \* work orders, numbers in the order of their ids
          Techs,
          TrackerInvoices,
          Owner,            \* [TrackerInvoices -> Techs], invoices.user_id
          LoggedLines,      \* lines that may be logged: [kind, who, wo, invoice, day, amount, owners]
          SyncedLines,      \* clock rows that MaintainX may add
          Days,             \* days; every twelfth is in a month of the same name
          Created,          \* [Wos -> Days], created_at
          Type,             \* [Wos -> work type]
          Editors,          \* managers who edit rows
          TypedAmounts,     \* amounts they type into a row
          Pushes,           \* pushes that may be under way at once
          MaxPushes,        \* bound on the pushes started
          NoValue

\* amount: what a line comes to, a clock row at the rate of who worked; owners:
\* the same at the rate of the invoice's owner.  A technician's lines are on an
\* invoice of his own; an imported row may be on anybody's.  Hours typed as an
\* expense are more than none.
ASSUME TrackerAssumption ==
    /\ IsFiniteSet(Techs) /\ IsFiniteSet(TrackerInvoices)
    /\ Wos \subseteq Nat /\ IsFiniteSet(Wos) /\ TypedAmounts \subseteq Nat
    /\ \A l \in LoggedLines \cup SyncedLines :
         /\ l.who \in Techs /\ l.wo \in Wos /\ l.invoice \in TrackerInvoices /\ l.amount \in Nat
         /\ l.owners \in Nat /\ (l.who = Owner[l.invoice] => l.owners = l.amount)
         /\ l.kind \in {"labor", "driven"} => l.amount > 0
    /\ \A l \in LoggedLines : l.who = Owner[l.invoice]
    /\ \A l \in SyncedLines : l.kind = "work"

VARIABLES booked,    \* time_entries and expenses that are on an invoice
          stage,     \* [TrackerInvoices -> status]
          wos,       \* [Wos -> [status, scheduled]]
          override,  \* cost_tracker_overrides: [Wos -> NoValue or amounts]
          forms,     \* [Editors -> NoValue or the row open in the edit sheet]
          sheet,     \* [tab -> rows] of the Google Sheet
          pushes,    \* [Pushes -> a push suspended in a request, or NoPush]
          started,   \* pushes started
          disturbed  \* a push failed or met another one since the sheet was idle

ledger == <<booked, stage, wos>>
edits == <<override, forms>>
push == <<sheet, pushes, started, disturbed>>
trackerVars == <<ledger, edits, push>>

ApprovedStatuses == {"approved_ops", "approved_sr", "queued_ap", "sent_ap"}
PipelineStatuses == ApprovedStatuses \cup {"submitted"}
BillableStatuses == PipelineStatuses \cup {"in_review"}
Travels == {"mileage", "tolls", "travel", "parking"}
Clocks == {"work", "drive"}
Fields == {"labor", "travel", "expenses", "third"}
Tabs == <<"main", "dashboard">>

SumOf(L) == SumFunction([l \in L |-> l.amount])
Approved == {l \in booked : stage[l.invoice] \in ApprovedStatuses}
On(L, w) == {l \in L : l.wo = w}

\* Hours logged as an expense replace the clock.
Resolved(L, manual, clock) ==
    LET typed == SumOf({l \in L : l.kind = manual})
    IN IF typed > 0 THEN typed ELSE SumOf({l \in L : l.kind = clock})

\* Fault: one technician's expense replaces everybody's clock.
PerTechJointly(L, manual, clock) == Resolved(L, manual, clock)

PerTech(L, manual, clock) ==
    SumFunction([u \in Techs |-> Resolved({l \in L : l.who = u}, manual, clock)])

\* Fault: the lines of every invoice.
ComputedOfAll(w) ==
    LET L == On(booked, w)
    IN [labor |-> PerTech(L, "labor", "work"),
        travel |-> PerTech(L, "driven", "drive") + SumOf({l \in L : l.kind \in Travels}),
        expenses |-> SumOf({l \in L : l.kind \notin {"labor", "driven"} \cup Travels \cup Clocks}),
        third |-> 0]

Computed(w) ==
    LET L == On(Approved, w)
    IN [labor |-> PerTech(L, "labor", "work"),
        travel |-> PerTech(L, "driven", "drive") + SumOf({l \in L : l.kind \in Travels}),
        expenses |-> SumOf({l \in L : l.kind \notin {"labor", "driven"} \cup Travels \cup Clocks}),
        third |-> 0]

Edited(w) == override[w] # NoValue
Typed(w, f) == IF Edited(w) THEN override[w][f] ELSE NoValue

\* Fault: a row counts only when time was clocked on an approved invoice.
InTotalsByClock(w) ==
    \/ \E f \in Fields : Typed(w, f) # NoValue
    \/ \E l \in On(Approved, w) : l.kind \in Clocks

InTotals(w) == (\E f \in Fields : Typed(w, f) # NoValue) \/ On(Approved, w) # {}

\* HAVING, and WHERE for a period that starts on day since (0: all time).
Listed(w, since) ==
    /\ \/ SumOf({l \in On(Approved, w) : l.kind = "work"}) > 0
       \/ wos[w].scheduled # NoValue
       \/ wos[w].status = "completed"
    /\ \/ since = 0
       \/ wos[w].scheduled # NoValue /\ wos[w].scheduled >= since
       \/ \E l \in On(booked, w) : l.kind \in Clocks /\ l.day >= since
       \/ wos[w].status = "completed"

\* The month a row is shown under, by its name only.
Month(w) ==
    LET logged == {l.day : l \in {k \in On(booked, w) : k.kind \in Clocks}}
        d == IF wos[w].scheduled # NoValue THEN wos[w].scheduled
             ELSE IF logged # {} THEN Max(logged) ELSE Created[w]
    IN d % 12

Row(w) ==
    LET computed == Computed(w)
        cost == [f \in Fields |-> IF Typed(w, f) # NoValue THEN Typed(w, f) ELSE computed[f]]
    IN [wo |-> w, month |-> Month(w), type |-> Type[w], cost |-> cost, counted |-> InTotals(w)]

Total(row) == SumFunction([f \in Fields |-> row.cost[f]])

\* Rows are in one order, by work order.
InOrder(S) ==
    CHOOSE s \in [1..Cardinality(S) -> S] : \A j, k \in DOMAIN s : j < k => s[j] < s[k]

TrackerRows(since) ==
    LET order == InOrder({w \in Wos : Listed(w, since)})
    IN [k \in DOMAIN order |-> Row(order[k])]

CountedRows(rows) == {rows[k] : k \in {j \in DOMAIN rows : rows[j].counted}}

\* What rows come to; rows differ by their work order.
Together(rows) == SumFunction([r \in rows |-> Total(r)])

\* Counted rows by month and work type.
Monthly(rows) ==
    [m \in {r.month : r \in CountedRows(rows)} |->
       [t \in {r.type : r \in CountedRows(rows)} |->
          Together({r \in CountedRows(rows) : r.month = m /\ r.type = t})]]

MonthlyTotal(monthly) ==
    SumFunction([m \in DOMAIN monthly |-> SumFunction(monthly[m])])

\* The pipeline does not look at whose hours they are: an expense replaces every
\* clock of the visit, and the clocks are priced at the rate of the owner.
VisitHours(L, manual, clock) ==
    LET typed == SumOf({l \in L : l.kind = manual})
    IN IF typed > 0 THEN typed
       ELSE SumFunction([l \in {l \in L : l.kind = clock} |-> l.owners])

\* One visit of the AP pipeline: the lines of one invoice on one work order.
Visit(i, w) ==
    LET L == {l \in On(booked, w) : l.invoice = i}
    IN VisitHours(L, "labor", "work") + VisitHours(L, "driven", "drive")
         + SumOf({l \in L : l.kind \notin {"labor", "driven"} \cup Clocks})

Billable == {l \in booked : stage[l.invoice] \in BillableStatuses}

\* Fault: time clocked as a drive is no spend (before v0.90).
SpendWorkOnly(t) == SumOf({l \in Billable : Type[l.wo] = t /\ l.kind # "drive"})

\* The spend of a work type on the dashboards.
SpendOnType(t) == SumOf({l \in Billable : Type[l.wo] = t})

-----------------------------------------------------------------------------
(* The ledger, as far as it decides what is shown.                           *)
BookLine(l) ==
    /\ stage[l.invoice] = "draft" /\ l \notin booked
    /\ booked' = booked \cup {l}
    /\ UNCHANGED <<stage, wos, edits, push>>

\* An import is on the invoice of an entry of its work order, whoever logged
\* that entry, or on the one a PDF was uploaded to, in whatever state it is.
SyncLine(l) ==
    /\ l \notin booked
    /\ booked' = booked \cup {l}
    /\ UNCHANGED <<stage, wos, edits, push>>

\* Lines are deleted from drafts; a pull deletes imports in any state.
RemoveLine(l) ==
    /\ l \in booked
    /\ l \in SyncedLines \/ stage[l.invoice] = "draft"
    /\ booked' = booked \ {l}
    /\ UNCHANGED <<stage, wos, edits, push>>

Flow == {<<"draft", "submitted">>, <<"submitted", "approved_ops">>, <<"approved_ops", "queued_ap">>,
         <<"submitted", "draft">>, <<"approved_ops", "draft">>}
Advance(i, s) ==
    /\ <<stage[i], s>> \in Flow
    /\ stage' = [stage EXCEPT ![i] = s]
    /\ UNCHANGED <<booked, wos, edits, push>>

PatchWo(w, s, d) ==
    /\ wos' = [wos EXCEPT ![w] = [status |-> s, scheduled |-> d]]
    /\ UNCHANGED <<booked, stage, edits, push>>

-----------------------------------------------------------------------------
(* The edit sheet of a row.                                                  *)

\* Amounts are filled in where they were overridden, and blank otherwise.
OpenRow(m, w) ==
    /\ forms[m] = NoValue /\ Listed(w, 0)
    /\ forms' = [forms EXCEPT ![m] = [wo |-> w, body |-> [f \in Fields |-> Typed(w, f)]]]
    /\ UNCHANGED <<ledger, override, push>>

\* PATCH /cost-tracker/:wo_id with every field of the form, blanks as null.
SaveRow(m, f, v) ==
    /\ forms[m] # NoValue
    /\ override' = [override EXCEPT ![forms[m].wo] = [forms[m].body EXCEPT ![f] = v]]
    /\ forms' = [forms EXCEPT ![m] = NoValue]
    /\ UNCHANGED <<ledger, push>>

\* DELETE /cost-tracker/:wo_id/override.
ResetRow(m) ==
    /\ forms[m] # NoValue
    /\ override' = [override EXCEPT ![forms[m].wo] = NoValue]
    /\ forms' = [forms EXCEPT ![m] = NoValue]
    /\ UNCHANGED <<ledger, push>>

CloseRow(m) ==
    /\ forms[m] # NoValue
    /\ forms' = [forms EXCEPT ![m] = NoValue]
    /\ UNCHANGED <<ledger, override, push>>

-----------------------------------------------------------------------------
(* POST /dashboard/push-to-drive: both tables are built before the first     *)
(* request; each tab is then cleared and written.                            *)
NoPush == [tables |-> [main |-> <<>>, dashboard |-> <<>>], tab |-> 0, cleared |-> FALSE]
UnderWay == {p \in Pushes : pushes[p].tab # 0}
Idle == UnderWay = {}

\* A table as it is sent: the dashboard tab is a single row here.
Tables(since) ==
    [main |-> TrackerRows(since), dashboard |-> <<Monthly(TrackerRows(since))>>]

StartPush(p, since) ==
    /\ p \notin UnderWay /\ started < MaxPushes
    /\ pushes' = [pushes EXCEPT ![p] = [tables |-> Tables(since), tab |-> 1, cleared |-> FALSE]]
    /\ started' = started + 1
    /\ disturbed' = ~Idle
    /\ UNCHANGED <<ledger, edits, sheet>>

\* The answer to a clear is not looked at: done says what it would have been.
ClearTab(p, done) ==
    /\ p \in UnderWay /\ ~pushes[p].cleared
    /\ sheet' = IF done THEN [sheet EXCEPT ![Tabs[pushes[p].tab]] = <<>>] ELSE sheet
    /\ pushes' = [pushes EXCEPT ![p].cleared = TRUE]
    /\ disturbed' = (disturbed \/ ~done)
    /\ UNCHANGED <<ledger, edits, started>>

\* Rows below the ones written stay as they are.
Written(old, new) == new \o SubSeq(old, Len(new) + 1, Len(old))

NextTab(q) ==
    IF q.tab = Len(Tabs) THEN NoPush ELSE [tables |-> q.tables, tab |-> q.tab + 1, cleared |-> FALSE]

\* Fault: the second table is built when its turn comes.
WriteTabLate(p) ==
    /\ p \in UnderWay /\ pushes[p].cleared
    /\ LET tab == Tabs[pushes[p].tab]
       IN sheet' = [sheet EXCEPT ![tab] = Written(@, IF tab = "main" THEN pushes[p].tables.main
                                                     ELSE Tables(0).dashboard)]
    /\ pushes' = [pushes EXCEPT ![p] = NextTab(@)]
    /\ UNCHANGED <<ledger, edits, started, disturbed>>

WriteTab(p) ==
    /\ p \in UnderWay /\ pushes[p].cleared
    /\ LET tab == Tabs[pushes[p].tab]
       IN sheet' = [sheet EXCEPT ![tab] = Written(@, pushes[p].tables[tab])]
    /\ pushes' = [pushes EXCEPT ![p] = NextTab(@)]
    /\ UNCHANGED <<ledger, edits, started, disturbed>>

\* A request fails: 502, with the sheet as far as it got.
FailPush(p) ==
    /\ p \in UnderWay
    /\ pushes' = [pushes EXCEPT ![p] = NoPush]
    /\ disturbed' = TRUE
    /\ UNCHANGED <<ledger, edits, sheet, started>>

-----------------------------------------------------------------------------
TrackerInit ==
    /\ booked = {}
    /\ stage = [i \in TrackerInvoices |-> "draft"]
    /\ wos = [w \in Wos |-> [status |-> "open", scheduled |-> NoValue]]
    /\ override = [w \in Wos |-> NoValue]
    /\ forms = [m \in Editors |-> NoValue]
    /\ sheet = [main |-> <<>>, dashboard |-> <<>>]
    /\ pushes = [p \in Pushes |-> NoPush]
    /\ started = 0
    /\ disturbed = FALSE

LedgerNext ==
    \/ \E l \in LoggedLines : BookLine(l)
    \/ \E l \in SyncedLines : SyncLine(l)
    \/ \E l \in LoggedLines \cup SyncedLines : RemoveLine(l)
    \/ \E i \in TrackerInvoices, s \in {"draft", "submitted", "approved_ops", "queued_ap"} : Advance(i, s)
    \/ \E w \in Wos, s \in {"open", "completed"}, d \in Days \cup {NoValue} : PatchWo(w, s, d)
EditNext ==
    \E m \in Editors :
       \/ \E w \in Wos : OpenRow(m, w)
       \/ \E f \in Fields, v \in TypedAmounts \cup {NoValue} : SaveRow(m, f, v)
       \/ ResetRow(m) \/ CloseRow(m)
PushNext ==
    \E p \in Pushes :
       \/ \E since \in {0} \cup Days : StartPush(p, since)
       \/ \E done \in BOOLEAN : ClearTab(p, done)
       \/ WriteTab(p) \/ FailPush(p)

TrackerNext == LedgerNext \/ EditNext \/ PushNext
TrackerSpec == TrackerInit /\ [][TrackerNext]_trackerVars

-----------------------------------------------------------------------------
\* Lines whose clock an expense of the same technician replaces.
Replaced(w) ==
    {l \in On(Approved, w) :
       \/ l.kind = "work" /\ \E k \in On(Approved, w) : k.kind = "labor" /\ k.who = l.who
       \/ l.kind = "drive" /\ \E k \in On(Approved, w) : k.kind = "driven" /\ k.who = l.who}

(* Every approved line is counted once: the counted rows nobody edited add   *)
(* up to the approved lines of the listed work orders, less the clocks that  *)
(* an expense replaces and nothing else.                                     *)
CountedOnce ==
    LET plain == {r \in CountedRows(TrackerRows(0)) : ~Edited(r.wo)}
        shown == {w \in Wos : Listed(w, 0) /\ ~Edited(w)}
    IN Together(plain)
         = SumOf({l \in Approved : l.wo \in shown /\ l \notin Replaced(l.wo)})

\* No hours of the work order are imported onto the invoice of somebody else.
OwnHours(w) == \A l \in On(Approved, w) : l.kind \in Clocks => l.who = Owner[l.invoice]

(* The tracker and the pipeline agree (dashboard.js:1115-1117) on what was    *)
(* logged on a work order whose clock and replacing expense, where it has    *)
(* both, are on one invoice and whose imported hours are on an invoice of    *)
(* who worked them.  Hours imported onto another technician's invoice are    *)
(* the exception: the pipeline drops them when the owner typed his hours,    *)
(* and prices them at his rate when he did not; the tracker does neither.    *)
PipelineAgrees ==
    \A w \in Wos :
       /\ OwnHours(w)
       /\ \A l \in Replaced(w) : \A k \in On(Approved, w) :
            k.who = l.who /\ k.kind \in {"labor", "driven", "work", "drive"} => k.invoice = l.invoice
       => SumFunction(Computed(w))
            = SumFunction([i \in {i \in TrackerInvoices : stage[i] \in ApprovedStatuses} |-> Visit(i, w)])

(* The dashboards and the tracker agree on a work type with every billable   *)
(* line approved and none replaced (dashboard.js:79-88).                     *)
SpendAgrees ==
    \A t \in {Type[w] : w \in Wos} :
       LET L == {l \in Billable : Type[l.wo] = t}
       IN L \subseteq Approved /\ (\A w \in Wos : L \cap Replaced(w) = {})
            => SpendOnType(t) = SumFunction([w \in {w \in Wos : Type[w] = t} |-> SumFunction(Computed(w))])

\* All the rows of the main tab, pending ones with them, add up to the
\* dashboard tab.
Reconciled(tables) ==
    /\ Len(tables.dashboard) = 1
    /\ Together({tables.main[k] : k \in DOMAIN tables.main}) = MonthlyTotal(tables.dashboard[1])

(* A sheet that pushes reached one at a time, every request answered, is one *)
(* snapshot: its tables reconcile.                                           *)
SheetReconciles == Idle /\ ~disturbed /\ started > 0 => Reconciled(sheet)

(* The books agree that the server derives from the lines: the tracker, the  *)
(* pipeline, the dashboards and the sheet.                                   *)
BooksAgree == CountedOnce /\ PipelineAgrees /\ SpendAgrees /\ SheetReconciles
=============================================================================
