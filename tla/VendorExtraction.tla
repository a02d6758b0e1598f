-------------------------- MODULE VendorExtraction --------------------------
(* What is read from the PDF of a vendor invoice and how far it is trusted:  *)
(* lib/vendorPdfExtractor.js and the vendor part of lib/invoiceValidation.js,*)
(* as operators on a document.  Amounts are in cents.                        *)
(*                                                                           *)
(* A document is [pages, layer, ocr]: its text layer and the text OCR finds, *)
(* Blank when OCR is not installed.  A text is what the patterns find in it:  *)
(*   chars     its length                                                    *)
(*   totals    what each labelled pattern of findTotal matches, by rank      *)
(*   amounts   [amount -> how often it is printed]                           *)
(*   subtotal, tax, due   what statedMoney reads, due the first of its labels*)
(*   printed   the subtotal findSubtotal reads, also away from its label     *)
(*   shapes    the amounts of the rows each of the eight row patterns finds  *)
(*   names, numbers, dates   the candidates of the other fields, by rank     *)
(*   artifacts amounts that also stand in a phone number or an address       *)
EXTENDS Integers, Sequences, FiniteSetsExt, SequencesExt

CONSTANT Blank

\* The first pattern that matches decides.
FirstFound(s) ==
    IF \E k \in DOMAIN s : s[k] # Blank
    THEN s[Min({k \in DOMAIN s : s[k] # Blank})] ELSE Blank

TooShort(chars, pages) == chars < Max({100, 25 * pages})
LooksScanned(doc) == TooShort(doc.layer.chars, doc.pages)

\* OCR replaces a missing text layer if it finds more than a few words.
UsesOcr(doc) ==
    LooksScanned(doc) /\ doc.ocr # Blank /\ doc.ocr.chars > Max({doc.layer.chars, 40})

Text(doc) == IF UsesOcr(doc) THEN doc.ocr ELSE doc.layer

\* The largest amount that is printed twice, or the largest there is.
LargestAmount(t) ==
    LET plausible == {a \in DOMAIN t.amounts : a >= 100}
        repeated == {a \in plausible : t.amounts[a] >= 2}
    IN IF repeated # {} THEN Max(repeated) ELSE IF plausible # {} THEN Max(plausible) ELSE Blank

FindTotal(t) == IF FirstFound(t.totals) # Blank THEN FirstFound(t.totals) ELSE LargestAmount(t)

RowSum(rows) == FoldLeft(+, 0, rows)
Apart(a, b) == IF a < b THEN b - a ELSE a - b

Score(rows, subtotal) ==
    Len(rows) + (IF subtotal = Blank \/ subtotal = 0 THEN 0
                 ELSE IF Apart(RowSum(rows), subtotal) < 2 THEN 1000
                 ELSE IF 50 * Apart(RowSum(rows), subtotal) < subtotal THEN 500 ELSE 0)

\* The row patterns that found something.
Shapes(t) == {k \in DOMAIN t.shapes : t.shapes[k] # <<>>}

\* Fault: the pattern with the most rows is taken, whatever they add up to.
FindRowsByCount(t) ==
    LET best == {k \in Shapes(t) : \A j \in Shapes(t) : Len(t.shapes[j]) <= Len(t.shapes[k])}
    IN IF Shapes(t) = {} THEN <<>> ELSE t.shapes[Min(best)]

\* The rows of the best score; the sort is stable.
FindRows(t) ==
    LET score(k) == Score(t.shapes[k], t.printed)
        best == {k \in Shapes(t) : \A j \in Shapes(t) : score(j) <= score(k)}
    IN IF Shapes(t) = {} THEN <<>> ELSE t.shapes[Min(best)]

\* Labels with a value, then bare dates near the top.
InvoiceDate(t) == FirstFound(t.dates)

\* Labelled numbers, the column before a bare label, then a bare number; words
\* of a table header are no candidates.
InvoiceNumber(t) == FirstFound(t.numbers)

\* Labels, then a line with a company suffix, of anybody but the buyer.
VendorName(t) == FirstFound(t.names)

Extract(doc) ==
    LET t == Text(doc)
    IN [scanned |-> LooksScanned(doc) /\ ~UsesOcr(doc),
        short |-> t.chars < 100,
        total |-> FindTotal(t),
        name |-> VendorName(t),
        number |-> InvoiceNumber(t),
        date |-> InvoiceDate(t),
        rows |-> FindRows(t)]

-----------------------------------------------------------------------------
(* validateInvoice({kind: 'vendor'}).                                        *)

Close(a, b) == Apart(a, b) <= 2

TotalIssues(x, t) ==
    IF x.total = Blank THEN {"no_total"}
    ELSE IF x.total % 100 = 0 /\ x.total \in t.artifacts THEN {"total_artifact"}
    ELSE IF t.due # Blank /\ ~Close(x.total, t.due) THEN {"total_mismatch"} ELSE {}

RowIssues(x, t) ==
    IF x.rows # <<>> /\ t.subtotal # Blank /\ ~Close(RowSum(x.rows), t.subtotal)
    THEN {"lineitems_mismatch"} ELSE {}

Critical(x, t) ==
    IF x.scanned \/ x.short THEN {"scanned_pdf"} ELSE TotalIssues(x, t) \cup RowIssues(x, t)

Warnings(x, t) ==
    IF x.scanned \/ x.short THEN {}
    ELSE {w \in {"no_vendor", "no_invoice_number", "no_date", "no_line_items", "doc_math_off"} :
            \/ w = "no_vendor" /\ x.name = Blank
            \/ w = "no_invoice_number" /\ x.number = Blank
            \/ w = "no_date" /\ x.date = Blank
            \/ w = "no_line_items" /\ x.rows = <<>>
            \/ /\ w = "doc_math_off"
               /\ Blank \notin {t.subtotal, t.tax, t.due}
               /\ ~Close(t.subtotal + t.tax, t.due)}

\* Hundredths: every critical issue takes 60, every warning 18.
Confidence(x, t) ==
    Max({0, 100 - 60 * Cardinality(Critical(x, t)) - 18 * Cardinality(Warnings(x, t))})

\* Fault: warnings never add up to a review.
NeedsReviewCritical(x, t) == Critical(x, t) # {}

NeedsReview(x, t) == Critical(x, t) # {} \/ Confidence(x, t) < 70
=============================================================================
