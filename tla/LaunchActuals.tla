---------------------------- MODULE LaunchActuals ---------------------------
(* The weekly hours a manager files per store: the form seeded from a saved  *)
(* report or from the clock, the upsert, and "mark as submitted" after the   *)
(* Google form.  One week is modelled; the week is part of every key.        *)
EXTENDS Integers, FiniteSets, FiniteSetsExt

CONSTANTS Managers,   \* those who file
          Leaders,    \* Sr managers and PMs among them: they see every report
          Stores,     \* stores as the work orders name them: [id, name]; id may be Nothing
          Hours,      \* hours a manager may type
          WeekHours,  \* 168, the most one report may claim
          MaxSaves,   \* bound: saves in flight
          MaxWorked,  \* bound: hours clocked at one store
          Nothing     \* no value

VARIABLES worked,   \* hours clocked at each store in the week
          filed,    \* table launch_actuals: [n, user, id, name, hours, status]
          dialog,   \* the one open sheet: the form, the review of a saved report, or Nothing
          saves,    \* POST /launch-actuals in flight
          said      \* history: what each manager sent last for each store

launchVars == <<worked, filed, dialog, saves, said>>

----------------------------------------------------------------------------
\* The list of the page: one's own reports, a leader everybody's.
Visible(m) == {r \in filed : r.user = m \/ m \in Leaders}

\* GET /launch-actuals/store-detail: the hours of every store of that name.
ClockedAt(name) == MapThenSumSet(LAMBDA s : worked[s], {s \in Stores : s.name = name})

Work(s) ==
    /\ worked[s] < MaxWorked
    /\ worked' = [worked EXCEPT ![s] = @ + 1]
    /\ UNCHANGED <<filed, dialog, saves, said>>

\* The form opens on a report of the page with the store's name, the last of
\* them in the list, or on what the clock says.  A page drawn earlier adds
\* nothing: the form itself grows old while it is open.
Open(m, s) ==
    LET known == {r \in Visible(m) : r.name = s.name} IN
    /\ dialog[m] = Nothing
    /\ \E hours \in IF known = {} THEN {ClockedAt(s.name)} ELSE {r.hours : r \in known} :
        dialog' = [dialog EXCEPT ![m] = [on |-> "form", store |-> s, hours |-> hours]]
    /\ UNCHANGED <<worked, filed, saves, said>>

CloseSheet(m) ==
    /\ dialog[m] # Nothing
    /\ dialog' = [dialog EXCEPT ![m] = Nothing]
    /\ UNCHANGED <<worked, filed, saves, said>>

OnForm(m) == dialog[m] # Nothing /\ dialog[m].on = "form"

\* "Save & Open form": the button stays live until the answer.
SendReport(m, hours) ==
    /\ OnForm(m)
    /\ Cardinality(saves) < MaxSaves
    /\ saves' = saves \cup {[user |-> m, store |-> dialog[m].store, hours |-> hours]}
    /\ UNCHANGED <<worked, filed, dialog, said>>

----------------------------------------------------------------------------
\* The server.

\* Fault: the lookup compares with "=", which no store without an id satisfies.
SavedWithEquals(c) == {r \in filed : r.user = c.user /\ r.id = c.store.id /\ r.id # Nothing}

\* The row the upsert updates: "store_id IS ?", so that no id equals no id.
Saved(c) == {r \in filed : r.user = c.user /\ r.id = c.store.id}

\* Fault: an update takes no hours for hours that were not given.
UpsertedUnlessZero(c) ==
    IF Saved(c) # {}
    THEN [(CHOOSE r \in Saved(c) : TRUE) EXCEPT !.name = c.store.name,
                                                !.hours = IF c.hours = 0 THEN @ ELSE c.hours]
    ELSE [n |-> 1 + Max({0} \cup {r.n : r \in filed}), user |-> c.user, id |-> c.store.id,
          name |-> c.store.name, hours |-> c.hours, status |-> "draft"]

\* The row saved: an update keeps number, author and status.
Upserted(c) ==
    IF Saved(c) # {}
    THEN [(CHOOSE r \in Saved(c) : TRUE) EXCEPT !.name = c.store.name, !.hours = c.hours]
    ELSE [n |-> 1 + Max({0} \cup {r.n : r \in filed}), user |-> c.user, id |-> c.store.id,
          name |-> c.store.name, hours |-> c.hours, status |-> "draft"]

Told(c) == [user |-> c.user, id |-> c.store.id, name |-> c.store.name, hours |-> c.hours]

Refused(c) == c.hours > WeekHours

\* POST /launch-actuals and its answer, which opens the review in place of
\* whatever sheet is open.
Save(c) ==
    LET row == Upserted(c) IN
    /\ saves' = saves \ {c}
    /\ \/ /\ Refused(c)
          /\ UNCHANGED <<filed, dialog, said>>
       \/ /\ ~Refused(c)
          /\ filed' = {r \in filed : r.n # row.n} \cup {row}
          /\ dialog' = [dialog EXCEPT ![c.user] = [on |-> "review", row |-> row]]
          /\ said' = {k \in said : k.user # c.user \/ k.id # c.store.id} \cup {Told(c)}
    /\ UNCHANGED worked

\* The review shows the row as the answer had it.
OnReview(m) == dialog[m] # Nothing /\ dialog[m].on = "review"

\* POST /launch-actuals/:id/mark-submitted from the review: the status alone.
MarkSubmitted(m) ==
    /\ OnReview(m) /\ dialog[m].row.status # "submitted"
    /\ \E r \in filed :
        /\ r.n = dialog[m].row.n
        /\ r.user = m \/ m \in Leaders
        /\ filed' = (filed \ {r}) \cup {[r EXCEPT !.status = "submitted"]}
    /\ dialog' = [dialog EXCEPT ![m] = Nothing]
    /\ UNCHANGED <<worked, saves, said>>

----------------------------------------------------------------------------
LaunchInit ==
    /\ worked = [s \in Stores |-> 0]
    /\ filed = {} /\ saves = {} /\ said = {}
    /\ dialog = [m \in Managers |-> Nothing]

LaunchNext ==
    \/ \E s \in Stores : Work(s)
    \/ \E m \in Managers :
        \/ CloseSheet(m) \/ MarkSubmitted(m)
        \/ \E s \in Stores : Open(m, s)
        \/ OnForm(m) /\ \E hours \in Hours \cup {dialog[m].hours} : SendReport(m, hours)
    \/ \E c \in saves : Save(c)

LaunchSpec == LaunchInit /\ [][LaunchNext]_launchVars

----------------------------------------------------------------------------
Content(r) == [user |-> r.user, id |-> r.id, name |-> r.name, hours |-> r.hours]

\* However often the save is pressed and whatever the store is called, a
\* manager has one report per store, with the name and the hours of the last
\* save of his own that the server took, although leaders open his report,
\* file their own from it and old reviews mark it as submitted
\* (launch_actuals.js:209-241; the UNIQUE key does not cover a missing id).
\* The review he is shown is of a report of his.
OneReportEach ==
    /\ \A r1, r2 \in filed : r1.user = r2.user /\ r1.id = r2.id => r1 = r2
    /\ said = {Content(r) : r \in filed}
    /\ \A m \in Managers : OnReview(m) => dialog[m].row.user = m
=============================================================================
