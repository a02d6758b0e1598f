------------------------------ MODULE WorkOrders ----------------------------
(* Work orders and the tickets at MaintainX they stand for: creation, edits, *)
(* linking to an invoice, the pulls of assigned tickets, daily and by hand,  *)
(* and the refresh of one work order (routes/workorders.js, integrations.js, *)
(* lib/maintainx/sync.js and client.js, server.js).                          *)
EXTENDS Naturals, Sequences, FiniteSets, SequencesExt

CONSTANTS Tickets,      \* ticket ids, numbers
          Types,        \* work types
          Users,        \* sequence of users, in the order of the daily run
          Managers,     \* users that may edit every work order
          PageSize,     \* tickets on a page of the list
          MaxChanges,   \* bound on changes at MaintainX
          MaxFaults,    \* bound on failed requests and restarts
          MaxRefreshes, \* bound on refreshes that are under way
          None

ASSUME TicketsAssumption ==
    /\ IsFiniteSet(Tickets) /\ Tickets \subseteq Nat \ {0}
    /\ PageSize \in Nat \ {0}

VARIABLES mx,        \* [Tickets -> [phase, type, assignees, version]]: MaintainX
          wos,       \* [external ids -> work order]
          pulls,     \* ["daily", "manual" -> None or a pull between two requests]
          turn,      \* the user whose pull the daily run has reached, 0 at rest
          refreshes, \* refreshes of one work order that wait for MaintainX
          faults,
          steady     \* history: tickets each pull has to find

vars == <<mx, wos, pulls, turn, refreshes, faults, steady>>

UserSet == Range(Users)
Pulls == {"daily", "manual"}
Final == {"completed", "cancelled"}
Statuses == {"open", "in_progress", "on_hold"} \cup Final

\* What MaintainX answers for a ticket.
Raw(t) == [ticket |-> t, phase |-> mx[t].phase, type |-> mx[t].type, version |-> mx[t].version]

\* normalizeStatus.
Normal(phase) ==
    CASE phase = "OPEN" -> "open" [] phase = "IN_PROGRESS" -> "in_progress" [] phase = "DONE" -> "completed"

StatusToPersist(local, remote) ==
    IF local \in Final /\ remote \notin Final THEN local ELSE remote

\* external_id names the type the ticket had when it was first seen.
ExternalId(ticket, type) == <<ticket, type>>

\* Fault: a work order that is there already is left as it is.
UpsertNew(raw, u) ==
    LET x == ExternalId(raw.ticket, raw.type)
    IN wos' = [y \in DOMAIN wos \cup {x} |->
                 IF y \in DOMAIN wos THEN wos[y]
                 ELSE [status |-> Normal(raw.phase), owner |-> u, version |-> raw.version,
                       prefixed |-> FALSE]]

\* upsertWorkOrder: content is overwritten, the owner is kept.
Upsert(raw, u) ==
    LET x == ExternalId(raw.ticket, raw.type)
    IN wos' = [y \in DOMAIN wos \cup {x} |->
                 IF y # x THEN wos[y]
                 ELSE IF x \in DOMAIN wos
                 THEN [wos[x] EXCEPT !.status = StatusToPersist(@, Normal(raw.phase)),
                                     !.version = raw.version]
                 ELSE [status |-> Normal(raw.phase), owner |-> u, version |-> raw.version,
                       prefixed |-> FALSE]]

-----------------------------------------------------------------------------
(* MaintainX.  A ticket that is given away, finished or put back to OPEN is  *)
(* no longer one that a running pull must find.                              *)
Changes == FoldLeft(LAMBDA n, t : n + mx[t].version, 0, SetToSeq(Tickets))

MxChange(t, phase, type, assignees) ==
    /\ Changes < MaxChanges
    /\ mx' = [mx EXCEPT ![t] = [phase |-> phase, type |-> type, assignees |-> assignees,
                                version |-> @.version + 1]]
    /\ steady' = [p \in Pulls |->
                    IF pulls[p] # None /\ pulls[p].user \in assignees /\ phase # "DONE"
                       /\ ~(mx[t].phase = "IN_PROGRESS" /\ phase = "OPEN")
                    THEN steady[p] ELSE steady[p] \ {t}]
    /\ UNCHANGED <<wos, pulls, turn, refreshes, faults>>

-----------------------------------------------------------------------------
(* Pulls: syncForUserWithOrgKey over iterateAssignedWorkOrders.              *)

\* Fault: tickets in progress are listed first.
PhasesFromTheEnd == <<"IN_PROGRESS", "OPEN">>

\* One list per status, in this order.
Phases == <<"OPEN", "IN_PROGRESS">>

Begin(p, u) ==
    /\ pulls' = [pulls EXCEPT ![p] = [user |-> u, phase |-> 1, cursor |-> 0, items |-> <<>>,
                                      seen |-> {}, raw |-> None]]
    /\ steady' = [steady EXCEPT ![p] = {t \in Tickets : u \in mx[t].assignees /\ mx[t].phase # "DONE"}]

\* The daily timer fires for every user in turn.
DailyPull ==
    /\ pulls["daily"] = None
    /\ LET k == IF turn = 0 THEN 1 ELSE turn
       IN Begin("daily", Users[k]) /\ turn' = k
    /\ UNCHANGED <<mx, wos, refreshes, faults>>

\* POST pull-my-orders and sync-now.
ManualPull(u) ==
    /\ pulls["manual"] = None
    /\ Begin("manual", u)
    /\ UNCHANGED <<mx, wos, turn, refreshes, faults>>

\* A list is in ascending order of the ids.
Ascending(S) ==
    CHOOSE s \in [1..Cardinality(S) -> S] : \A j, k \in DOMAIN s : j < k => s[j] < s[k]

Listed(q) == Ascending({t \in Tickets : mx[t].phase = Phases[q.phase] /\ t > q.cursor})

\* One page of a list; tickets of others and those seen before are passed over.
FetchPage(p) ==
    /\ pulls[p] # None /\ pulls[p].items = <<>> /\ pulls[p].phase <= Len(Phases)
    /\ LET q == pulls[p]
           listed == Listed(q)
           last == Len(listed) <= PageSize
           page == {listed[k] : k \in 1..(IF last THEN Len(listed) ELSE PageSize)}
           mine == Ascending({t \in page : t \notin q.seen /\ q.user \in mx[t].assignees})
       IN pulls' = [pulls EXCEPT ![p] =
                      [user |-> q.user,
                       phase |-> IF last THEN q.phase + 1 ELSE q.phase,
                       cursor |-> IF last THEN 0 ELSE listed[PageSize],
                       items |-> [k \in DOMAIN mine |-> Raw(mine[k])],
                       seen |-> q.seen \cup page,
                       raw |-> q.raw]]
    /\ UNCHANGED <<mx, wos, turn, refreshes, faults, steady>>

\* getWorkOrder of the next ticket, as it is when MaintainX answers; if the
\* request fails the item of the list is used.
Detail(p, answered) ==
    /\ pulls[p] # None /\ pulls[p].items # <<>> /\ pulls[p].raw = None
    /\ ~answered => faults < MaxFaults
    /\ faults' = IF answered THEN faults ELSE faults + 1
    /\ pulls' = [pulls EXCEPT ![p].raw = IF answered THEN Raw(Head(pulls[p].items).ticket)
                                         ELSE Head(pulls[p].items)]
    /\ UNCHANGED <<mx, wos, turn, refreshes, steady>>

\* processRawWorkOrder, when the answer has arrived.
Process(p) ==
    /\ pulls[p] # None /\ pulls[p].raw # None
    /\ Upsert(pulls[p].raw, pulls[p].user)
    /\ pulls' = [pulls EXCEPT ![p].items = Tail(@), ![p].raw = None]
    /\ UNCHANGED <<mx, turn, refreshes, faults, steady>>

\* The daily run goes on with the next user, whatever became of this one's pull.
Leave(p) ==
    /\ pulls' = [pulls EXCEPT ![p] = None]
    /\ steady' = [steady EXCEPT ![p] = {}]
    /\ turn' = IF p = "daily" THEN (turn + 1) % (Len(Users) + 1) ELSE turn

EndPull(p) ==
    /\ pulls[p] # None /\ pulls[p].items = <<>> /\ pulls[p].phase > Len(Phases)
    /\ Leave(p)
    /\ UNCHANGED <<mx, wos, refreshes, faults>>

\* A list request fails for good.
FailPull(p) ==
    /\ pulls[p] # None /\ pulls[p].items = <<>> /\ pulls[p].phase <= Len(Phases)
    /\ faults < MaxFaults /\ faults' = faults + 1
    /\ Leave(p)
    /\ UNCHANGED <<mx, wos, refreshes>>

-----------------------------------------------------------------------------
(* The refresh of one work order.                                            *)
Request(u, x) ==
    refreshes' = refreshes \cup {[user |-> u, wo |-> x, raw |-> None]}

\* POST /workorders/:id/sync-maintainx.
Refresh(u, x) ==
    /\ x \in DOMAIN wos /\ Cardinality(refreshes) < MaxRefreshes
    /\ Request(u, x)
    /\ UNCHANGED <<mx, wos, pulls, turn, faults, steady>>

\* A ticket that was entered with its prefix is asked for with it: 404.
RefreshAnswer(r) ==
    /\ r \in refreshes /\ r.raw = None
    /\ refreshes' = (refreshes \ {r}) \cup
                    (IF wos[r.wo].prefixed THEN {} ELSE {[r EXCEPT !.raw = Raw(r.wo[1])]})
    /\ UNCHANGED <<mx, wos, pulls, turn, faults, steady>>

RefreshProcess(r) ==
    /\ r \in refreshes /\ r.raw # None
    /\ Upsert(r.raw, r.user)
    /\ refreshes' = refreshes \ {r}
    /\ UNCHANGED <<mx, pulls, turn, faults, steady>>

RefreshFail(r) ==
    /\ r \in refreshes /\ faults < MaxFaults
    /\ refreshes' = refreshes \ {r}
    /\ faults' = faults + 1
    /\ UNCHANGED <<mx, wos, pulls, turn, steady>>

-----------------------------------------------------------------------------
(* People.                                                                   *)

\* POST /workorders with a type the technician picks.
Create(u, t, type, prefixed) ==
    /\ ExternalId(t, type) \notin DOMAIN wos
    /\ wos' = [y \in DOMAIN wos \cup {ExternalId(t, type)} |->
                 IF y \in DOMAIN wos THEN wos[y]
                 ELSE [status |-> "open", owner |-> u, version |-> None, prefixed |-> prefixed]]
    /\ UNCHANGED <<mx, pulls, turn, refreshes, faults, steady>>

\* PATCH /workorders/:id; a completed work order is refreshed in the background.
PatchWo(u, x, s) ==
    /\ x \in DOMAIN wos /\ (u \in Managers \/ wos[x].owner = u)
    /\ wos' = [wos EXCEPT ![x].status = s]
    /\ IF s = "completed" /\ Cardinality(refreshes) < MaxRefreshes
       THEN Request(u, x) ELSE UNCHANGED refreshes
    /\ UNCHANGED <<mx, pulls, turn, faults, steady>>

\* Clocking in starts an open work order.
ClockIn(x) ==
    /\ x \in DOMAIN wos /\ wos[x].status = "open"
    /\ wos' = [wos EXCEPT ![x].status = "in_progress"]
    /\ UNCHANGED <<mx, pulls, turn, refreshes, faults, steady>>

\* link-wo and the approval of an addition hand it to the invoice's technician.
Link(u, x) ==
    /\ x \in DOMAIN wos /\ wos[x].owner # u
    /\ wos' = [wos EXCEPT ![x].owner = u]
    /\ UNCHANGED <<mx, pulls, turn, refreshes, faults, steady>>

\* For a ticket that has no work order they make a placeholder.
LinkNew(u, t) ==
    /\ \A x \in DOMAIN wos : x[1] # t
    /\ wos' = [x \in DOMAIN wos \cup {ExternalId(t, "maintenance")} |->
                 IF x \in DOMAIN wos THEN wos[x]
                 ELSE [status |-> "in_progress", owner |-> u, version |-> None, prefixed |-> FALSE]]
    /\ UNCHANGED <<mx, pulls, turn, refreshes, faults, steady>>

\* The server starts again: whatever waited for MaintainX is gone.
Restart ==
    /\ faults < MaxFaults /\ faults' = faults + 1
    /\ pulls' = [p \in Pulls |-> None]
    /\ steady' = [p \in Pulls |-> {}]
    /\ turn' = 0
    /\ refreshes' = {}
    /\ UNCHANGED <<mx, wos>>

-----------------------------------------------------------------------------
Init ==
    /\ mx \in [Tickets -> [phase : {"OPEN", "DONE"}, type : Types,
                           assignees : {UserSet}, version : {0}]]
    /\ wos = [x \in {} |-> None]
    /\ pulls = [p \in Pulls |-> None]
    /\ turn = 0
    /\ refreshes = {}
    /\ faults = 0
    /\ steady = [p \in Pulls |-> {}]

MxNext ==
    \E t \in Tickets, phase \in {"OPEN", "IN_PROGRESS", "DONE"}, type \in Types, a \in SUBSET UserSet :
       MxChange(t, phase, type, a)

PullStep(p) == FetchPage(p) \/ (\E ok \in BOOLEAN : Detail(p, ok)) \/ Process(p) \/ EndPull(p)
RefreshStep == \E r \in refreshes : RefreshAnswer(r) \/ RefreshProcess(r)

Sync ==
    \/ DailyPull
    \/ \E u \in UserSet : ManualPull(u)
    \/ \E p \in Pulls : PullStep(p) \/ FailPull(p)
    \/ \E u \in UserSet, x \in DOMAIN wos : Refresh(u, x)
    \/ RefreshStep
    \/ \E r \in refreshes : RefreshFail(r)
    \/ Restart

People ==
    \/ \E u \in UserSet, t \in Tickets, type \in Types, b \in BOOLEAN : Create(u, t, type, b)
    \/ \E u \in UserSet, x \in DOMAIN wos :
          Link(u, x) \/ \E s \in Statuses : PatchWo(u, x, s)
    \/ \E u \in UserSet, t \in Tickets : LinkNew(u, t)
    \/ \E x \in DOMAIN wos : ClockIn(x)

\* The daily timer is set again after every run and after every start, and a
\* request is answered or fails in the end.
Fairness ==
    /\ WF_vars(DailyPull)
    /\ \A p \in Pulls : WF_vars(PullStep(p))
    /\ WF_vars(RefreshStep)

Spec == Init /\ [][MxNext \/ Sync \/ People]_vars /\ Fairness

-----------------------------------------------------------------------------
(* A pull that ends without an error has found every ticket that was active  *)
(* and its user's throughout, also one that was started in the meantime.     *)
PullComplete ==
    [][\A p \in Pulls : EndPull(p) =>
          \A t \in steady[p] : \E type \in Types : ExternalId(t, type) \in DOMAIN wos]_vars

(* Once a ticket no longer changes, a work order has its latest content,     *)
(* whatever was lost, answered late or overwritten before.                   *)
CatchesUp ==
    \A t \in Tickets, u \in UserSet :
       <>[](mx[t].phase # "DONE" /\ u \in mx[t].assignees)
         => <>[](LET x == ExternalId(t, mx[t].type)
                 IN x \in DOMAIN wos /\ wos[x].version = mx[t].version)
=============================================================================
