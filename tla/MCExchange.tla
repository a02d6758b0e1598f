------------------------------ MODULE MCExchange ----------------------------
(* Small instances of VendorIntake and ExpensifyExport, the invoices that    *)
(* come in from vendors and those that go out to Expensify.  They share no   *)
(* row of the database: a step is of one of the two.                         *)
EXTENDS ExpensifyExport, VendorIntake, TLC

CONSTANTS ops, sam

Entry(id, mode, source) ==
    [kind |-> "entry", id |-> id, invoice |-> 1, wo |-> "w1", day |-> 1, mode |-> mode,
     source |-> source, hours |-> 100, open |-> FALSE]
Expense(id, amount) ==
    [kind |-> "expense", id |-> id, invoice |-> 1, wo |-> "w1", day |-> 1, category |-> "other",
     subcategory |-> "Meal", quantity |-> 1, amount |-> amount, receipt |-> TRUE]

MCLineChoices == {Entry(1, "work", "app"), Entry(2, "drive", "app"), Expense(3, 2500)}
MCImports == {Entry(4, "work", "maintainx_sync")}

PageText(totals, due, shapes, names) ==
    [chars |-> 400, totals |-> totals, amounts |-> 5000 :> 2 @@ 9000 :> 1,
     subtotal |-> 5000, tax |-> Blank, due |-> due, printed |-> 5000, shapes |-> shapes,
     names |-> names, numbers |-> <<"n1">>, dates |-> <<Blank, "d1">>, artifacts |-> {26700}]
Doc(text) == [pages |-> 1, layer |-> text, ocr |-> Blank]
NoText == [PageText(<<>>, Blank, <<>>, <<>>) EXCEPT
             !.chars = 0, !.amounts = <<>>, !.subtotal = Blank, !.printed = Blank,
             !.numbers = <<>>, !.dates = <<>>]
\* Nobody who uploads is on the team of the ops manager.
MCTeam == [m \in Uploaders |-> {}]

Rows == <<<<4000, 900>>, <<1, 2, 3>>, <<2000, 3000>>>>

\* Read right; read from the second label; a phone number for a total; rows
\* that do not add up; a scan that OCR reads; a scan it does not.
MCDocuments ==
    1 :> Doc(PageText(<<Blank, 5000>>, 5000, Rows, <<"acme">>)) @@
    2 :> Doc(PageText(<<3000, 5000>>, 5000, Rows, <<Blank, "rogue">>)) @@
    3 :> Doc(PageText(<<26700>>, Blank, Rows, <<"rogue">>)) @@
    4 :> Doc(PageText(<<>>, 5000, <<<<9000>>, <<>>>>, <<"acme">>)) @@
    5 :> [pages |-> 2, layer |-> NoText,
          ocr |-> [PageText(<<5000>>, 5000, Rows, <<>>) EXCEPT !.numbers = <<>>]] @@
    6 :> [pages |-> 1, layer |-> NoText, ocr |-> [NoText EXCEPT !.chars = 30]]

ExchangeInit == Init /\ IntakeInit
exchange == <<vars, intakeVars>>

IntakeNext == (IntakeStep \/ IntakeRestart) /\ UNCHANGED vars
ExportStep == (Step \/ Restart) /\ UNCHANGED intakeVars
=============================================================================
