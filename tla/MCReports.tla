------------------------------ MODULE MCReports -----------------------------
(* Small instances of what is made out of the ledger and of what comes in    *)
(* beside it: vendor invoices and the Expensify export, the cost tracker and *)
(* its Google Sheet, unplanned work, launch actuals.  They share no row, so  *)
(* each behaviour is about one of them: side says which.                     *)
EXTENDS MCExchange, LaunchActuals, UnplannedWork, CostTracker

CONSTANTS ann, bob
VARIABLE side

----------------------------------------------------------------------------
\* Ann's clock and the hours she typed, on one invoice and on two; Bob's clock
\* on the same work order, and Bob's hours imported onto Ann's invoice, where
\* they come to more; a work order with expenses only.
MCOwner == [i \in {1, 2, 3} |-> IF i = 3 THEN bob ELSE ann]
TLine(kind, who, wo, inv, day, amount) ==
    [kind |-> kind, who |-> who, wo |-> wo, invoice |-> inv, day |-> day, amount |-> amount,
     owners |-> IF who = MCOwner[inv] THEN amount ELSE 2 * amount]
MCLoggedLines ==
    {TLine("work", ann, 1, 1, 2, 40), TLine("labor", ann, 1, 1, 2, 60),
     TLine("labor", ann, 1, 2, 14, 50), TLine("drive", bob, 1, 3, 2, 20),
     TLine("work", bob, 1, 3, 2, 30), TLine("other", bob, 2, 3, 2, 10)}
MCSyncedLines == {TLine("work", ann, 2, 2, 14, 80), TLine("work", bob, 1, 1, 2, 30)}
MCCreated == [w \in {1, 2} |-> 2]
MCType == [w \in {1, 2} |-> IF w = 1 THEN "repair" ELSE "retrofit"]

FewLines ==
    \/ \E l \in {l \in LoggedLines : l.invoice = 3} : BookLine(l)
    \/ \E s \in {"submitted", "approved_ops", "draft"} : Advance(3, s)
    \/ \E d \in {14, NoValue} : PatchWo(2, "open", d)

TrackerStep ==
    \/ side = "books" /\ LedgerNext
    \/ side = "edits" /\ (FewLines \/ EditNext)
    \/ side = "sheet" /\ (FewLines \/ PushNext)

----------------------------------------------------------------------------
\* A running timer, an entry and typed hours on two work orders, and a work order.
ULine(kind, wo, mode, open, cost) ==
    [kind |-> kind, wo |-> wo, mode |-> mode, open |-> open, cost |-> cost]

MCTaggedLines == {ULine("entry", 1, "work", TRUE, 2), ULine("entry", 2, "work", FALSE, 2),
                  ULine("expense", 1, "labor", FALSE, 3), ULine("wo", 1, "other", FALSE, 0),
                  ULine("card", Unset, "other", FALSE, 3)}
MCTypeOf == [w \in {1, 2} |-> "repair"]
MCStoreOf == [w \in {1, 2} |-> "s1"]

\* Two lines are ever logged, the second in the place of the first or beside it
\* on a work order, an entry and typed hours that nobody edits.
TagStep ==
    /\ TagNext
    /\ FoldFunction(+, 0, lastId') <= 2
    /\ Cardinality(rows') > 1 =>
        \A r \in rows' : /\ r.kind \in {"entry", "expense"} /\ r.line.wo = 1
                          /\ r.line.cost = IF r.kind = "entry" THEN 2 ELSE 3

----------------------------------------------------------------------------
\* Two stores of one name, one with an id; a manager and a leader.
MCStores == {[id |-> "s1", name |-> "alpha"], [id |-> Nothing, name |-> "alpha"]}

\* Two reports are ever filed.
LaunchStep == LaunchNext /\ Cardinality(filed') <= 2

----------------------------------------------------------------------------
MCInit ==
    /\ ExchangeInit /\ TrackerInit /\ TagInit /\ LaunchInit
    /\ side \in {"intake", "export", "books", "edits", "sheet", "tags", "launch"}

MCNext ==
    /\ UNCHANGED side
    /\ \/ side = "intake" /\ IntakeNext /\ UNCHANGED <<trackerVars, tagVars, launchVars>>
       \/ side = "export" /\ ExportStep /\ UNCHANGED <<trackerVars, tagVars, launchVars>>
       \/ TrackerStep /\ UNCHANGED <<exchange, tagVars, launchVars>>
       \/ side = "tags" /\ TagStep /\ UNCHANGED <<exchange, trackerVars, launchVars>>
       \/ side = "launch" /\ LaunchStep /\ UNCHANGED <<exchange, trackerVars, tagVars>>

MCSpec == MCInit /\ [][MCNext]_<<side, exchange, trackerVars, tagVars, launchVars>>
=============================================================================
