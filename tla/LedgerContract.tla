---------------------------- MODULE LedgerContract ----------------------------
(***************************************************************************)
(* What the ledger promises about a line of work (an entry or an expense), *)
(* without clocks, dates, work orders, roles or the routes that write it:  *)
(* a line belongs to one user and is free or on one bill of that user.  It *)
(* gets onto a bill while the bill is a draft, or with the document of the *)
(* bill that was being read; it leaves it only with the bill; and it is    *)
(* removed only while free or on a draft.                                  *)
(***************************************************************************)
CONSTANTS Users, Bills, Work, NoUser, NoBill

VARIABLES
    line,       \* the lines there are: whose each is, and the bill it is on
    bill,       \* whose each bill is, and its phase
    reading     \* the bills whose document is being read

vars == <<line, bill, reading>>

Init ==
    /\ DOMAIN line = {}
    /\ bill = [b \in Bills |-> [who |-> NoUser, phase |-> "none"]]
    /\ reading = {}

Free(lines, u) == {k \in DOMAIN lines : lines[k].who = u /\ lines[k].on = NoBill}

Added(k, u, b) == [j \in DOMAIN line \union {k} |->
                      IF j = k THEN [who |-> u, on |-> b] ELSE line[j]]
Moved(lines, K, b) == [j \in DOMAIN lines |->
                          IF j \in K THEN [lines[j] EXCEPT !.on = b] ELSE lines[j]]

\* A new draft takes some of the free lines of its owner u.
Draft(b, u, lines) ==
    /\ bill' = [bill EXCEPT ![b] = [who |-> u, phase |-> "draft"]]
    /\ \E K \in SUBSET Free(lines, u) : line' = Moved(lines, K, b)

\* It may come with a document.
Open(b) ==
    /\ bill[b].phase = "none"
    /\ \E u \in Users : Draft(b, u, line)
    /\ reading' \in {reading, reading \union {b}}

\* New work: free, on a draft of its owner, or with the draft opened for it.
Record(k) ==
    /\ k \notin DOMAIN line
    /\ \/ /\ \/ \E u \in Users : line' = Added(k, u, NoBill)
             \/ \E b \in Bills : bill[b].phase = "draft" /\ line' = Added(k, bill[b].who, b)
          /\ UNCHANGED bill
       \/ \E b \in Bills : /\ bill[b].phase = "none"
                           /\ \E u \in Users : Draft(b, u, Added(k, u, NoBill))
    /\ UNCHANGED reading

Collect(b) ==
    /\ bill[b].phase = "draft"
    /\ \E K \in SUBSET Free(line, bill[b].who) : line' = Moved(line, K, b)
    /\ UNCHANGED <<bill, reading>>

\* The document was read: its line goes onto the bill, whatever became of the
\* bill meanwhile, short of its deletion.
Import(k, b) ==
    /\ b \in reading /\ bill[b].phase \notin {"none", "gone"}
    /\ k \notin DOMAIN line /\ line' = Added(k, bill[b].who, b)
    /\ reading' = reading \ {b}
    /\ UNCHANGED bill

StopReading(B) ==
    /\ reading' = reading \ B
    /\ UNCHANGED <<line, bill>>

Remove(k) ==
    /\ line[k].on # NoBill => bill[line[k].on].phase = "draft"
    /\ line' = [j \in DOMAIN line \ {k} |-> line[j]]
    /\ UNCHANGED <<bill, reading>>

Review(b) ==
    /\ \E p \in {"draft", "submitted", "approved", "sent"} :
          /\ bill[b].phase \in CASE p = "submitted" -> {"draft"}
                                 [] p = "approved"  -> {"submitted"}
                                 [] p = "draft"     -> {"submitted", "approved"}
                                 [] p = "sent"      -> {"draft", "submitted", "approved"}
          /\ bill' = [bill EXCEPT ![b].phase = p]
    /\ UNCHANGED <<line, reading>>

\* The bill is deleted, and all its lines are free again.
Discard(b) ==
    /\ bill[b].phase \in {"draft", "submitted", "approved"}
    /\ bill' = [bill EXCEPT ![b].phase = "gone"]
    /\ line' = Moved(line, {k \in DOMAIN line : line[k].on = b}, NoBill)
    /\ UNCHANGED reading

Next ==
    \/ \E b \in Bills :
          \/ Open(b) \/ Collect(b) \/ Review(b) \/ Discard(b)
          \/ \E k \in Work : Import(k, b)
    \/ \E k \in Work : Record(k)
    \/ \E k \in DOMAIN line : Remove(k)
    \/ \E B \in SUBSET reading : StopReading(B)

Spec == Init /\ [][Next]_vars
=============================================================================
