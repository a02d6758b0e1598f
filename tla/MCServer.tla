------------------------------ MODULE MCServer ------------------------------
(* Small instances of what the server does by itself.  Boot: starts on the   *)
(* databases of seven releases.  WorkOrders, with two technicians: the daily   *)
(* pull of two tickets that change while it runs and while requests fail;    *)
(* one ticket that a daily and a manual pull reach at once; and one ticket   *)
(* in the hands of people.  side says which of the four a behaviour is about.*)
EXTENDS WorkOrders, MCBoot

CONSTANTS ann, bob
VARIABLE side

MCUsers == <<ann, bob>>

----------------------------------------------------------------------------
OfTwoTickets ==
    \/ \E t \in Tickets, phase \in {"OPEN", "IN_PROGRESS", "DONE"} :
          MxChange(t, phase, "maintenance", {ann, bob})
    \/ MxChange(2, "OPEN", "maintenance", {ann})
    \/ DailyPull \/ PullStep("daily") \/ FailPull("daily")
    \/ Restart

Overlapping ==
    \/ \E phase \in {"IN_PROGRESS", "DONE"} : MxChange(1, phase, "maintenance", {ann, bob})
    \/ \E u \in UserSet : ManualPull(u)
    \/ DailyPull
    \/ \E p \in Pulls : PullStep(p) \/ FailPull(p)
    \/ Restart

OfPeople ==
    \/ /\ Changes = 0
       /\ \E type \in Types : MxChange(1, "OPEN", type, {ann, bob})
    \/ /\ Changes = 0
       /\ MxChange(1, "DONE", "maintenance", {ann, bob})
    \/ DailyPull \/ PullStep("daily")
    \/ \E u \in UserSet, x \in DOMAIN wos : Refresh(u, x)
    \/ RefreshStep
    \/ \E r \in refreshes : RefreshFail(r)
    \/ \E b \in BOOLEAN : Create(bob, 1, "maintenance", b)
    \/ \E u \in UserSet, x \in DOMAIN wos :
          Link(u, x) \/ \E s \in {"open", "completed", "cancelled"} : PatchWo(u, x, s)
    \/ LinkNew(ann, 1)
    \/ \E x \in DOMAIN wos : ClockIn(x)

----------------------------------------------------------------------------
\* Work orders are about a server that is up.
Up ==
    /\ disk = Upgraded /\ stage = "up" /\ crashes = 0
    /\ wanted = [rules |-> {}, team |-> {"tess"}, tag |-> FALSE, hours |-> Absent]

MCInit ==
    /\ Init /\ \A t \in Tickets : mx[t].type = "maintenance"
    /\ \/ /\ side = "boot" /\ BootInit
          /\ \A t \in Tickets : mx[t].phase = "DONE"
       \/ /\ side \in {"daily", "overlap", "people"} /\ Up
          /\ mx[1].phase = "OPEN" /\ (mx[2].phase = "OPEN") = (side = "daily")

MCNext ==
    /\ \/ side = "boot" /\ BootNext /\ UNCHANGED vars
       \/ side = "daily" /\ OfTwoTickets /\ UNCHANGED bootVars
       \/ side = "overlap" /\ Overlapping /\ UNCHANGED bootVars
       \/ side = "people" /\ OfPeople /\ UNCHANGED bootVars
    /\ UNCHANGED side

\* The fairness of WorkOrders and of Boot, each for behaviours about it.
OfOrders == side # "boot"
MCSpec ==
    /\ MCInit /\ [][MCNext]_<<vars, bootVars, side>>
    /\ WF_vars(OfOrders /\ DailyPull)
    /\ \A p \in Pulls : WF_vars(OfOrders /\ PullStep(p))
    /\ WF_vars(OfOrders /\ RefreshStep)
    /\ WF_bootVars(BootStep)
=============================================================================
