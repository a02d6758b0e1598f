---------------------------- MODULE InvoiceTotals ---------------------------
(* What an invoice comes to: computeInvoice of routes/invoices.js, as        *)
(* operators on a set of lines.  Hours are hundredths of an hour (computed   *)
(* per entry and rounded there), money is in cents, a rate is cents per      *)
(* hour; the product of the two is in hundredths of a cent until it is       *)
(* rounded.                                                                  *)
(*                                                                           *)
(* A line is a time entry                                                    *)
(*   [kind |-> "entry", id, invoice, wo, day, mode, source, hours, open]     *)
(* or an expense                                                             *)
(*   [kind |-> "expense", id, invoice, wo, day, category, subcategory,       *)
(*    quantity, amount, receipt].                                            *)
EXTENDS Naturals, FiniteSets, Functions

\* toFixed(2) of an amount; a half cent goes up, where the binary sum may also
\* lie just below it.
Cents(x) == (x + 50) \div 100

Entries(L) == {l \in L : l.kind = "entry"}
Expenses(L) == {l \in L : l.kind = "expense"}

\* MaintainX is the source of truth for the work on a work order: an entry of
\* the app counts only if the invoice has no imported one for that work order.
\* A running timer counts for nothing.
Superseded(l, L) ==
    /\ l.mode = "work" /\ l.source = "app"
    /\ \E m \in Entries(L) :
          ~m.open /\ m.mode = "work" /\ m.source = "maintainx_sync" /\ m.wo = l.wo

\* Fault: an imported entry does not displace the app's.
CountedTwice(L) == Expenses(L) \cup {l \in Entries(L) : ~l.open}

\* The lines that computeInvoice adds up.
Counted(L) ==
    Expenses(L) \cup {l \in Entries(L) : ~l.open /\ ~Superseded(l, L)}

Amount(l, rate) == IF l.kind = "entry" THEN l.hours * rate ELSE l.amount * 100

IsLabor(l) == IF l.kind = "entry" THEN l.mode = "work" ELSE l.category = "labor"
IsDrive(l) == IF l.kind = "entry" THEN l.mode = "drive" ELSE l.category = "drive"

Sum(L, rate) == SumFunction([l \in L |-> Amount(l, rate)])

LaborHours(L) ==
    SumFunction([l \in {k \in L : IsLabor(k)} |-> IF l.kind = "entry" THEN l.hours ELSE l.quantity])

\* The total of a work order or of a day: labor and drive are rounded, each with
\* the expenses that were logged as labor or drive, and the other expenses added.
GroupTotal(L, rate) ==
    Cents(Sum({l \in L : IsLabor(l)}, rate)) + Cents(Sum({l \in L : IsDrive(l)}, rate))
    + Sum({l \in Expenses(L) : ~IsLabor(l) /\ ~IsDrive(l)}, rate) \div 100

TotalBy(key(_), L, rate) ==
    SumFunction([k \in {key(l) : l \in Counted(L)} |->
                    GroupTotal({l \in Counted(L) : key(l) = k}, rate)])

TotalByWorkOrder(L, rate) == TotalBy(LAMBDA l : l.wo, L, rate)
TotalByDate(L, rate) == TotalBy(LAMBDA l : l.day, L, rate)

\* The summary: what the invoice is made of.
Summary(L, rate) ==
    LET perWo(S) == SumFunction([w \in {l.wo : l \in S} |-> Cents(Sum({l \in S : l.wo = w}, rate))])
        of(C) == {l \in Expenses(L) : l.category \in C}
        named(sub) == {l \in of({"other"}) : l.subcategory = sub}
        spent(S) == Sum(S, rate) \div 100
    IN [labor_amount |-> perWo({l \in Counted(L) : IsLabor(l)}),
        drive_amount |-> perWo({l \in Counted(L) : IsDrive(l)}),
        mileage |-> spent(of({"mileage"})), tolls_parking |-> spent(of({"tolls", "parking"})),
        meals |-> spent(named("Meal")), tools |-> spent(named("Tools")),
        other |-> spent(of({"vendor", "other"}) \ (named("Meal") \cup named("Tools")))]
=============================================================================
