---------------------------- MODULE ReportsProofs ---------------------------
(* Theorems about what is made out of the ledger and beside it: the reports  *)
(* at Expensify, for any lines, any number of overlapping requests and any   *)
(* number of lost answers; launch actuals, for any managers, stores and      *)
(* hours; vendor invoices, for any documents and any upload; the books, for  *)
(* any work orders, technicians, invoices and lines.                         *)
EXTENDS ExpensifyExport, LaunchActuals, VendorIntake, CostTracker, FiniteFacts


-----------------------------------------------------------------------------
(* Expensify *)

Lines == LineChoices \cup Imports
CallRecord == [lines : SUBSET Lines, report : Nat]

ExportType ==
    /\ lines \subseteq Lines
    /\ status \in {"draft", "submitted"}
    /\ rejected \in BOOLEAN
    /\ reports \in Seq(SUBSET Lines)
    /\ recorded \in {None} \cup (1..Len(reports))
    /\ calls \in [Calls -> CallRecord \cup {None}]
    /\ \A c \in Calls : calls[c] # None => calls[c].report \in 0..Len(reports)
    /\ failures \in Nat

Waiting == {c \in Calls : calls[c] # None /\ calls[c].report = 0}
Answered == {c \in Calls : calls[c] # None /\ calls[c].report # 0}

\* What the technician logged of a set of transactions.
Logged(T) == T \ Imports

-----------------------------------------------------------------------------
(* Lines *)

\* A line is billed by itself: what MaintainX adds changes no other line.
LEMMA TransactionsPointwise ==
  ASSUME NEW L, NEW M, L \ Imports = M \ Imports
  PROVE  Logged(Transactions(L)) = Logged(Transactions(M))
BY DEF Logged, Transactions, Selected, Expenses, Entries

LEMMA TransactionsAreLines ==
  ASSUME NEW L
  PROVE  Transactions(L) \subseteq L
BY DEF Transactions, Selected, Expenses, Entries

-----------------------------------------------------------------------------
(* Counting requests *)

LEMMA CallsFinite ==
  ASSUME NEW S \in SUBSET Calls
  PROVE  IsFiniteSet(S) /\ Cardinality(S) \in Nat
BY ExportAssumption, FS_Subset, FS_CardinalityType

\* A request that has no call record is in neither set.
LEMMA RoomForOne ==
  ASSUME NEW c \in Calls, calls[c] = None
  PROVE  Cardinality(Waiting) + Cardinality(Answered) + 1 <= Cardinality(Calls)
<1>1. IsFiniteSet(Waiting) /\ IsFiniteSet(Answered)
  BY CallsFinite DEF Waiting, Answered
<1>2. Waiting \cap Answered = {}
  BY DEF Waiting, Answered
<1>3. Cardinality(Waiting \cup Answered) = Cardinality(Waiting) + Cardinality(Answered)
  <2>1. Cardinality(Waiting \cup Answered)
          = Cardinality(Waiting) + Cardinality(Answered) - Cardinality(Waiting \cap Answered)
    BY <1>1, FS_Union
  <2>2. Cardinality(Waiting \cap Answered) = 0
    BY <1>2, FS_EmptySet
  <2>3. QED
    BY <2>1, <2>2, <1>1, FS_CardinalityType
<1>4. c \notin Waiting \cup Answered /\ IsFiniteSet(Waiting \cup Answered)
  BY <1>1, FS_Union DEF Waiting, Answered
<1>5. Cardinality((Waiting \cup Answered) \cup {c}) = Cardinality(Waiting \cup Answered) + 1
  BY <1>4, FS_AddElement
<1>6. Cardinality((Waiting \cup Answered) \cup {c}) <= Cardinality(Calls)
  BY ExportAssumption, FS_Subset DEF Waiting, Answered
<1>7. QED
  BY <1>3, <1>5, <1>6

-----------------------------------------------------------------------------
(* The inductive invariant.  A report more than the requests that overlap    *)
(* needs a lost answer; as long as nothing is recorded, every report beyond  *)
(* the lost answers is one of a request that will still record it.  And an   *)
(* invoice that was never rejected has, from its first request on, the lines *)
(* the technician logged before.                                             *)
Accounted ==
    /\ Len(reports) + Cardinality(Waiting) <= failures + Cardinality(Calls)
    /\ recorded = None => Len(reports) <= failures + Cardinality(Answered)

Untouched ==
    rejected \/
        /\ status = "draft" => recorded = None /\ reports = <<>> /\ \A c \in Calls : calls[c] = None
        /\ \A c \in Calls : calls[c] # None => Logged(calls[c].lines) = Logged(Transactions(lines))
        /\ \A k \in DOMAIN reports : Logged(reports[k]) = Logged(Transactions(lines))

ExportInv == ExportType /\ Accounted /\ Untouched

LEMMA ExportInvInit == Init => ExportInv
<1> SUFFICES ASSUME Init PROVE ExportInv
  OBVIOUS
<1>1. ExportType
  <2>1. reports \in Seq(SUBSET Lines) /\ calls \in [Calls -> CallRecord \cup {None}]
    BY DEF Init
  <2>2. \A c \in Calls : calls[c] = None
    BY DEF Init
  <2>3. /\ lines \subseteq Lines /\ status \in {"draft", "submitted"} /\ rejected \in BOOLEAN
        /\ recorded \in {None} \cup (1..Len(reports)) /\ failures \in Nat
    BY DEF Init
  <2>4. QED
    BY <2>1, <2>2, <2>3 DEF ExportType
<1>2. Waiting = {} /\ Answered = {}
  BY DEF Init, Waiting, Answered
<1>3. Cardinality({}) = 0 /\ Cardinality(Calls) \in Nat
  BY ExportAssumption, FS_EmptySet, FS_CardinalityType
<1>4. Accounted
  BY <1>2, <1>3 DEF Init, Accounted
<1>5. QED
  BY <1>1, <1>4 DEF Init, Untouched, ExportInv

\* The technician, the managers and MaintainX.
LEMMA InvoiceKeeps ==
  ASSUME ExportInv,
         \/ \E l \in LineChoices : Log(l) \/ Unlog(l)
         \/ \E l \in Imports : Import(l)
         \/ Submit \/ Reject
  PROVE  ExportInv'
<1>1. UNCHANGED <<recorded, reports, calls, failures>>
  BY DEF Log, Unlog, Import, Submit, Reject
<1>2. ExportType'
  BY <1>1 DEF ExportInv, ExportType, Lines, Log, Unlog, Import, Submit, Reject
<1>3. Accounted'
  BY <1>1 DEF ExportInv, Accounted, Waiting, Answered
<1>4. Untouched'
  <2>1. CASE rejected \/ Reject
    BY <2>1 DEF Untouched, Log, Unlog, Import, Submit, Reject
  <2>2. CASE ~rejected /\ ~Reject /\ status = "draft"
    BY <1>1, <2>2 DEF ExportInv, Untouched
  <2>3. CASE ~rejected /\ ~Reject /\ status # "draft"
    <3>1. PICK l \in Imports : Import(l)
      BY <2>3 DEF Log, Unlog, Submit
    <3>2. lines' \ Imports = lines \ Imports /\ UNCHANGED <<status, rejected>>
      BY <3>1 DEF Import
    <3>3. Logged(Transactions(lines)) = Logged(Transactions(lines'))
      BY <3>2, TransactionsPointwise
    <3>4. QED
      BY <1>1, <2>3, <3>2, <3>3 DEF ExportInv, Untouched
  <2>4. QED
    BY <2>1, <2>2, <2>3
<1>5. QED
  BY <1>2, <1>3, <1>4 DEF ExportInv

LEMMA SendKeeps == ASSUME ExportInv, NEW c \in Calls, Send(c) PROVE ExportInv'
<1> DEFINE call == [lines |-> Transactions(lines), report |-> 0]
<1>1. /\ calls[c] = None /\ status # "draft" /\ recorded = None
      /\ calls' = [calls EXCEPT ![c] = call]
      /\ UNCHANGED <<lines, status, rejected, recorded, reports, failures>>
  BY DEF Send
<1>2. call \in CallRecord /\ call # None /\ call.report = 0
  BY TransactionsAreLines, ExportAssumption DEF ExportInv, ExportType, CallRecord, Lines
<1>3. ExportType'
  BY <1>1, <1>2 DEF ExportInv, ExportType
<1>4. Waiting' = Waiting \cup {c} /\ Answered' = Answered /\ c \notin Waiting
  BY <1>1, <1>2 DEF ExportInv, ExportType, Waiting, Answered
<1>5. Cardinality(Waiting') = Cardinality(Waiting) + 1
  <2>1. IsFiniteSet(Waiting)
    BY CallsFinite DEF Waiting
  <2>2. QED
    BY <1>4, <2>1, FS_AddElement
<1>6. Cardinality(Waiting) + Cardinality(Answered) + 1 <= Cardinality(Calls)
  BY <1>1, RoomForOne
<1>7. Accounted'
  <2>1. /\ Cardinality(Waiting) \in Nat /\ Cardinality(Answered) \in Nat
        /\ Cardinality(Calls) \in Nat /\ Len(reports) \in Nat /\ failures \in Nat
    BY CallsFinite DEF Waiting, Answered, ExportInv, ExportType
  <2>2. Len(reports) <= failures + Cardinality(Answered)
    BY <1>1 DEF ExportInv, Accounted
  <2>3. QED
    BY <1>1, <1>4, <1>5, <1>6, <2>1, <2>2 DEF Accounted
<1>8. Untouched'
  BY <1>1, <1>2 DEF ExportInv, ExportType, Untouched
<1>9. QED
  BY <1>3, <1>7, <1>8 DEF ExportInv

LEMMA CreateKeeps == ASSUME ExportInv, NEW c \in Calls, Create(c) PROVE ExportInv'
<1> DEFINE n == Len(reports)
           call == [calls[c] EXCEPT !.report = n + 1]
<1>1. /\ calls[c] # None /\ calls[c].report = 0
      /\ reports' = Append(reports, calls[c].lines)
      /\ calls' = [calls EXCEPT ![c] = call]
      /\ UNCHANGED <<lines, status, rejected, recorded, failures>>
  BY DEF Create
<1>2. calls[c] \in CallRecord /\ n \in Nat
  BY <1>1 DEF ExportInv, ExportType
<1>3. /\ call \in CallRecord /\ call # None
      /\ call.report = n + 1 /\ call.lines = calls[c].lines
  BY <1>2, ExportAssumption DEF CallRecord, Lines
<1>4. Len(reports') = n + 1 /\ reports' \in Seq(SUBSET Lines)
  BY <1>1, <1>2 DEF CallRecord, ExportInv, ExportType
<1>5. ExportType'
  <2>1. \A d \in Calls : calls'[d] # None => calls'[d].report \in 0..(n + 1)
    BY <1>1, <1>2, <1>3 DEF ExportInv, ExportType
  <2>2. recorded' \in {None} \cup (1..(n + 1))
    BY <1>1, <1>2 DEF ExportInv, ExportType
  <2>3. calls' \in [Calls -> CallRecord \cup {None}]
    BY <1>1, <1>3 DEF ExportInv, ExportType
  <2>4. QED
    BY <1>1, <1>4, <2>1, <2>2, <2>3 DEF ExportInv, ExportType
<1>6. /\ Waiting' = Waiting \ {c} /\ c \in Waiting
      /\ Answered' = Answered \cup {c} /\ c \notin Answered
  BY <1>1, <1>2, <1>3 DEF ExportInv, ExportType, Waiting, Answered
<1>7. /\ Cardinality(Waiting') = Cardinality(Waiting) - 1
      /\ Cardinality(Answered') = Cardinality(Answered) + 1
  <2>1. IsFiniteSet(Waiting) /\ IsFiniteSet(Answered)
    BY CallsFinite DEF Waiting, Answered
  <2>2. Cardinality(Waiting \ {c}) = Cardinality(Waiting) - 1
    BY <1>6, <2>1, FS_RemoveElement
  <2>3. Cardinality(Answered \cup {c}) = Cardinality(Answered) + 1
    BY <1>6, <2>1, FS_AddElement
  <2>4. QED
    BY <1>6, <2>2, <2>3
<1>8. Accounted'
  <2>1. /\ Cardinality(Waiting) \in Nat /\ Cardinality(Answered) \in Nat
        /\ Cardinality(Calls) \in Nat /\ failures \in Nat
    BY CallsFinite DEF Waiting, Answered, ExportInv, ExportType
  <2>2. QED
    BY <1>1, <1>2, <1>4, <1>7, <2>1 DEF ExportInv, Accounted
<1>9. Untouched'
  <2>1. ASSUME ~rejected
        PROVE  /\ status # "draft"
               /\ \A d \in Calls : calls'[d] # None => Logged(calls'[d].lines) = Logged(Transactions(lines))
               /\ \A k \in DOMAIN reports' : Logged(reports'[k]) = Logged(Transactions(lines))
    <3>1. status # "draft" /\ Logged(calls[c].lines) = Logged(Transactions(lines))
      BY <1>1, <2>1 DEF ExportInv, Untouched
    <3>2. \A d \in Calls : calls'[d] # None => Logged(calls'[d].lines) = Logged(Transactions(lines))
      BY <1>1, <1>3, <2>1, <3>1 DEF ExportInv, ExportType, Untouched
    <3>3. ASSUME NEW k \in DOMAIN reports'
          PROVE  Logged(reports'[k]) = Logged(Transactions(lines))
      <4>1. k \in 1..(n + 1)
        BY <1>4
      <4>2. CASE k = n + 1
        BY <1>1, <3>1, <4>2 DEF ExportInv, ExportType
      <4>3. CASE k \in 1..n
        BY <1>1, <2>1, <4>3 DEF ExportInv, ExportType, Untouched
      <4>4. QED
        BY <1>2, <4>1, <4>2, <4>3
    <3>4. QED
      BY <3>1, <3>2, <3>3
  <2>2. QED
    BY <1>1, <2>1 DEF Untouched
<1>10. QED
  BY <1>5, <1>8, <1>9 DEF ExportInv

\* A request ends.
LEMMA CallEnds ==
  ASSUME ExportInv, NEW c \in Calls, calls[c] # None,
         calls' = [calls EXCEPT ![c] = None]
  PROVE  /\ Waiting' = Waiting \ {c}
         /\ Answered' = Answered \ {c}
         /\ Cardinality(Waiting') <= Cardinality(Waiting)
         /\ Cardinality(Answered) <= Cardinality(Answered') + 1
<1>1. Waiting' = Waiting \ {c} /\ Answered' = Answered \ {c}
  BY DEF ExportInv, ExportType, Waiting, Answered
<1>2. IsFiniteSet(Waiting) /\ IsFiniteSet(Answered) /\ IsFiniteSet(Answered \ {c})
  BY CallsFinite DEF Waiting, Answered
<1>3. Cardinality(Waiting \ {c}) <= Cardinality(Waiting)
  BY <1>2, FS_Subset
<1>4. Cardinality(Answered) <= Cardinality(Answered \ {c}) + 1
  <2>1. CASE c \in Answered
    BY <1>2, <2>1, FS_RemoveElement, FS_CardinalityType
  <2>2. CASE c \notin Answered
    <3>1. Answered \ {c} = Answered
      BY <2>2
    <3>2. Cardinality(Answered \ {c}) = Cardinality(Answered) /\ Cardinality(Answered) \in Nat
      BY <1>2, <3>1, FS_CardinalityType
    <3>3. QED
      BY <3>2
  <2>3. QED
    BY <2>1, <2>2
<1>5. QED
  BY <1>1, <1>3, <1>4

LEMMA RecordKeeps == ASSUME ExportInv, NEW c \in Calls, Record(c) PROVE ExportInv'
<1>1. /\ calls[c] # None /\ calls[c].report # 0
      /\ recorded' = calls[c].report
      /\ calls' = [calls EXCEPT ![c] = None]
      /\ UNCHANGED <<lines, status, rejected, reports, failures>>
  BY DEF Record
<1>2. recorded' \in 1..Len(reports)
  BY <1>1 DEF ExportInv, ExportType
<1>3. ExportType'
  BY <1>1, <1>2 DEF ExportInv, ExportType
<1>4. Cardinality(Waiting') <= Cardinality(Waiting)
  BY <1>1, CallEnds
<1>5. Accounted'
  <2>1. /\ Cardinality(Waiting) \in Nat /\ Cardinality(Waiting') \in Nat
        /\ Cardinality(Calls) \in Nat /\ failures \in Nat /\ Len(reports) \in Nat
    <3>1. Waiting' \in SUBSET Calls
      BY DEF Waiting
    <3>2. QED
      BY <3>1, CallsFinite DEF Waiting, ExportInv, ExportType
  <2>2. recorded' # None
    BY <1>2, ExportAssumption
  <2>3. QED
    BY <1>1, <1>4, <2>1, <2>2 DEF ExportInv, Accounted
<1>6. Untouched'
  BY <1>1 DEF ExportInv, ExportType, Untouched
<1>7. QED
  BY <1>3, <1>5, <1>6 DEF ExportInv

LEMMA FailKeeps == ASSUME ExportInv, NEW c \in Calls, Fail(c) PROVE ExportInv'
<1>1. /\ calls[c] # None
      /\ calls' = [calls EXCEPT ![c] = None]
      /\ failures' = failures + 1
      /\ UNCHANGED <<lines, status, rejected, recorded, reports>>
  BY DEF Fail
<1>2. ExportType'
  BY <1>1 DEF ExportInv, ExportType
<1>3. /\ Cardinality(Waiting') <= Cardinality(Waiting)
      /\ Cardinality(Answered) <= Cardinality(Answered') + 1
  BY <1>1, CallEnds
<1>4. Accounted'
  <2>1. /\ Cardinality(Waiting) \in Nat /\ Cardinality(Waiting') \in Nat
        /\ Cardinality(Answered) \in Nat /\ Cardinality(Answered') \in Nat
        /\ Cardinality(Calls) \in Nat /\ failures \in Nat /\ Len(reports) \in Nat
    <3>1. Waiting' \in SUBSET Calls /\ Answered' \in SUBSET Calls
      BY DEF Waiting, Answered
    <3>2. QED
      BY <3>1, CallsFinite DEF Waiting, Answered, ExportInv, ExportType
  <2>2. QED
    BY <1>1, <1>3, <2>1 DEF ExportInv, Accounted
<1>5. Untouched'
  BY <1>1 DEF ExportInv, ExportType, Untouched
<1>6. QED
  BY <1>2, <1>4, <1>5 DEF ExportInv

LEMMA RestartKeeps == ASSUME ExportInv, Restart PROVE ExportInv'
<1> DEFINE active == {c \in Calls : calls[c] # None}
<1>1. /\ calls' = [c \in Calls |-> None]
      /\ failures' = failures + Cardinality(active)
      /\ UNCHANGED <<lines, status, rejected, recorded, reports>>
  BY DEF Restart
<1>2. Cardinality(active) \in Nat /\ IsFiniteSet(active)
  BY CallsFinite
<1>3. ExportType'
  BY <1>1, <1>2 DEF ExportInv, ExportType
<1>4. Waiting' = {} /\ Answered' = {}
  BY <1>1 DEF Waiting, Answered
<1>5. Cardinality(Answered) <= Cardinality(active)
  BY <1>2, FS_Subset DEF Answered
<1>6. Accounted'
  <2>1. /\ Cardinality(Waiting) \in Nat /\ Cardinality(Answered) \in Nat
        /\ Cardinality(Calls) \in Nat /\ failures \in Nat /\ Len(reports) \in Nat
    BY CallsFinite DEF Waiting, Answered, ExportInv, ExportType
  <2>2. Cardinality({}) = 0
    BY FS_EmptySet
  <2>3. Cardinality(Waiting') = 0 /\ Cardinality(Answered') = 0
    BY <1>4, <2>2
  <2> HIDE DEF active
  <2>4. QED
    BY <1>1, <1>2, <1>5, <2>1, <2>3 DEF ExportInv, Accounted
<1>7. Untouched'
  BY <1>1 DEF ExportInv, Untouched
<1>8. QED
  BY <1>3, <1>6, <1>7 DEF ExportInv

\* However requests overlap, fail and are repeated, the report on record is of
\* the lines that were submitted, and there is at most one report more than
\* lost answers and overlapping requests explain.
THEOREM ReportsMatch == Spec => []ReportIsInvoice
<1>1. ExportInv /\ [Step \/ Restart]_vars => ExportInv'
  <2> SUFFICES ASSUME ExportInv, [Step \/ Restart]_vars PROVE ExportInv'
    OBVIOUS
  <2>1. CASE UNCHANGED vars
    <3>1. ExportType' /\ Accounted' /\ Untouched'
      BY <2>1 DEF vars, ExportInv, ExportType, Accounted, Waiting, Answered, Untouched
    <3>2. QED
      BY <3>1 DEF ExportInv
  <2>2. CASE Step
    BY <2>2, InvoiceKeeps, SendKeeps, CreateKeeps, RecordKeeps, FailKeeps DEF Step
  <2>3. CASE Restart
    BY <2>3, RestartKeeps
  <2>4. QED
    BY <2>1, <2>2, <2>3
<1>2. ExportInv => ReportIsInvoice
  <2> SUFFICES ASSUME ExportInv PROVE ReportIsInvoice
    OBVIOUS
  <2>1. Len(reports) <= failures + Cardinality(Calls)
    <3>1. Cardinality(Waiting) \in Nat /\ Cardinality(Calls) \in Nat /\ failures \in Nat /\ Len(reports) \in Nat
      BY CallsFinite DEF Waiting, ExportInv, ExportType
    <3>2. QED
      BY <3>1 DEF ExportInv, Accounted
  <2>2. recorded # None /\ ~rejected => Transactions(lines) \ Imports = reports[recorded] \ Imports
    BY DEF ExportInv, ExportType, Untouched, Logged
  <2>3. QED
    BY <2>1, <2>2 DEF ReportIsInvoice
<1>3. QED
  BY <1>1, <1>2, ExportInvInit, PTL DEF Spec

-----------------------------------------------------------------------------
(* Launch actuals *)

IsReport(r) ==
    /\ r = [n |-> r.n, user |-> r.user, id |-> r.id, name |-> r.name, hours |-> r.hours,
            status |-> r.status]
    /\ r.n \in Nat

\* Reports are never deleted, so that their numbers have no gap and the next
\* one is new.
Numbered ==
    /\ \E k \in Nat : {r.n : r \in filed} = 1..k
    /\ \A r1, r2 \in filed : r1.n = r2.n => r1 = r2

FiledInv ==
    /\ \A r \in filed : IsReport(r)
    /\ Numbered
    /\ \A r1, r2 \in filed : r1.user = r2.user /\ r1.id = r2.id => r1 = r2

DialogInv ==
    /\ dialog = [m \in Managers |-> dialog[m]]
    /\ \A m \in Managers : OnReview(m) => dialog[m].row.user = m

\* Of every report stands what was said last.
SaidInv == said = {Content(r) : r \in filed}

LaunchInv == FiledInv /\ DialogInv /\ SaidInv /\ \A c \in saves : c.user \in Managers

\* The highest number the upsert finds.
LEMMA HighestNumber ==
    ASSUME FiledInv
    PROVE  \E k \in Nat : /\ {r.n : r \in filed} = 1..k
                          /\ Max({0} \cup {r.n : r \in filed}) = k
<1>1. PICK k \in Nat : {r.n : r \in filed} = 1..k
  BY DEF FiledInv, Numbered
<1>2. {0} \cup {r.n : r \in filed} = 0..k
  BY <1>1
<1>3. Max(0..k) = k
  <2>1. \A x \in 0..k : (\A y \in 0..k : x >= y) => x = k
    OBVIOUS
  <2>2. k \in 0..k /\ \A y \in 0..k : k >= y
    OBVIOUS
  <2>3. QED
    BY <2>1, <2>2 DEF Max
<1>4. Max({0} \cup {r.n : r \in filed}) = k
  BY <1>2, <1>3, Zenon
<1>5. QED
  BY <1>1, <1>4, Zenon

\* A row that keeps its number, its author and its store.
LEMMA SameReport ==
    ASSUME FiledInv, NEW r0 \in filed, NEW row, IsReport(row),
           row.n = r0.n, row.user = r0.user, row.id = r0.id,
           filed' = (filed \ {r0}) \cup {row}
    PROVE  FiledInv'
<1>1. {r.n : r \in filed'} = {r.n : r \in filed}
  OBVIOUS
<1>2. \A r1, r2 \in filed' : r1.n = r2.n => r1 = r2
  BY DEF FiledInv, Numbered
<1>3. \A r1, r2 \in filed' : r1.user = r2.user /\ r1.id = r2.id => r1 = r2
  BY DEF FiledInv
<1>4. \A r \in filed' : IsReport(r)
  BY DEF FiledInv
<1>5. \E k \in Nat : {r.n : r \in filed'} = 1..k
  BY <1>1, Zenon DEF FiledInv, Numbered
<1>6. QED
  BY <1>2, <1>3, <1>4, <1>5 DEF FiledInv, Numbered

\* A first report of somebody for a store, under the next number.
LEMMA FirstReport ==
    ASSUME FiledInv, NEW k \in Nat, {r.n : r \in filed} = 1..k, NEW row, IsReport(row), row.n = k + 1,
           \A r \in filed : ~(r.user = row.user /\ r.id = row.id),
           filed' = filed \cup {row}
    PROVE  FiledInv'
<1>1. \A r \in filed : r.n \in 1..k
  OBVIOUS
<1>2. {r.n : r \in filed'} = 1..(k + 1)
  <2>1. {r.n : r \in filed'} = {r.n : r \in filed} \cup {k + 1}
    OBVIOUS
  <2>2. (1..k) \cup {k + 1} = 1..(k + 1)
    OBVIOUS
  <2>3. QED
    BY <2>1, <2>2, Zenon
<1>3. \A r \in filed : r.n # row.n
  BY <1>1
<1>4. \A r1, r2 \in filed' : r1.n = r2.n => r1 = r2
  BY <1>3 DEF FiledInv, Numbered
<1>5. \A r1, r2 \in filed' : r1.user = r2.user /\ r1.id = r2.id => r1 = r2
  BY DEF FiledInv
<1>6. \A r \in filed' : IsReport(r)
  BY DEF FiledInv
<1>7. k + 1 \in Nat
  OBVIOUS
<1>8. QED
  BY <1>2, <1>4, <1>5, <1>6, <1>7, Zenon DEF FiledInv, Numbered

\* A save replaces what was said of its report, and of no other.
LEMMA SaidAnew ==
    ASSUME SaidInv, NEW c, NEW row, NEW kept, Content(row) = Told(c),
           kept = {r \in filed : r.user # c.user \/ r.id # c.store.id},
           filed' = kept \cup {row},
           said' = {k \in said : k.user # c.user \/ k.id # c.store.id} \cup {Told(c)}
    PROVE  SaidInv'
<1>1. \A r : Content(r).user = r.user /\ Content(r).id = r.id
  BY DEF Content
<1>2. {k \in said : k.user # c.user \/ k.id # c.store.id} = {Content(r) : r \in kept}
  BY <1>1 DEF SaidInv
<1>3. QED
  BY <1>2 DEF SaidInv

LEMMA SaveKeeps == ASSUME LaunchInv, NEW c \in saves, Save(c) PROVE LaunchInv'
<1> DEFINE row == Upserted(c)
<1>1. c.user \in Managers /\ saves' = saves \ {c}
  BY DEF LaunchInv, Save
<1>2. CASE UNCHANGED <<filed, dialog, said>>
  BY <1>1, <1>2 DEF LaunchInv, FiledInv, Numbered, DialogInv, OnReview, SaidInv
<1>3. CASE /\ filed' = {r \in filed : r.n # row.n} \cup {row}
           /\ dialog' = [dialog EXCEPT ![c.user] = [on |-> "review", row |-> row]]
           /\ said' = {k \in said : k.user # c.user \/ k.id # c.store.id} \cup {Told(c)}
  <2>1. ASSUME Saved(c) # {} PROVE FiledInv' /\ row.user = c.user /\ SaidInv'
    <3>1. PICK r0 \in Saved(c) : row = [r0 EXCEPT !.name = c.store.name, !.hours = c.hours]
      BY <2>1 DEF Upserted
    <3>2. r0 \in filed /\ r0.user = c.user /\ r0.id = c.store.id /\ IsReport(r0)
      BY DEF Saved, LaunchInv, FiledInv
    <3> HIDE DEF row
    <3>3. row = [n |-> r0.n, user |-> r0.user, id |-> r0.id, name |-> c.store.name,
                 hours |-> c.hours, status |-> r0.status]
      BY <3>1, <3>2 DEF IsReport
    <3>4. row.n = r0.n /\ row.user = r0.user /\ row.id = r0.id /\ IsReport(row)
      BY <3>2, <3>3 DEF IsReport
    <3>5. {r \in filed : r.n # row.n} = filed \ {r0}
      BY <3>2, <3>4 DEF LaunchInv, FiledInv, Numbered
    <3>6. FiledInv'
      BY <1>3, <3>2, <3>4, <3>5, SameReport DEF LaunchInv
    <3>7. Content(row) = Told(c)
      BY <3>2, <3>3 DEF Content, Told
    <3>8. \A r \in filed : r # r0 <=> r.user # c.user \/ r.id # c.store.id
      BY <3>2 DEF LaunchInv, FiledInv
    <3>9. SaidInv'
      <4>1. filed \ {r0} = {r \in filed : r.user # c.user \/ r.id # c.store.id}
        BY <3>8
      <4>2. filed' = {r \in filed : r.user # c.user \/ r.id # c.store.id} \cup {row}
        BY <1>3, <3>5, <4>1
      <4>3. QED
        BY <1>3, <3>7, <4>2, SaidAnew DEF LaunchInv
    <3>10. QED
      BY <3>2, <3>4, <3>6, <3>9
  <2>2. ASSUME Saved(c) = {} PROVE FiledInv' /\ row.user = c.user /\ SaidInv'
    <3>1. PICK k \in Nat : /\ {r.n : r \in filed} = 1..k
                           /\ Max({0} \cup {r.n : r \in filed}) = k
      BY HighestNumber DEF LaunchInv
    <3>2. row = [n |-> k + 1, user |-> c.user, id |-> c.store.id,
                 name |-> c.store.name, hours |-> c.hours, status |-> "draft"]
      BY <2>2, <3>1 DEF Upserted
    <3> HIDE DEF row
    <3>3. row.n = k + 1 /\ row.user = c.user /\ row.id = c.store.id /\ IsReport(row)
      BY <3>2 DEF IsReport
    <3>4. \A r \in filed : ~(r.user = row.user /\ r.id = row.id) /\ r.n # row.n
      <4>1. \A r \in filed : r.n \in 1..k
        BY <3>1
      <4>2. QED
        BY <2>2, <3>3, <4>1 DEF Saved
    <3>5. filed' = filed \cup {row}
      BY <1>3, <3>4
    <3>6. FiledInv'
      BY <3>1, <3>3, <3>4, <3>5, FirstReport DEF LaunchInv
    <3>7. Content(row) = Told(c)
      BY <3>2 DEF Content, Told
    <3>8. \A r \in filed : r.user # c.user \/ r.id # c.store.id
      BY <2>2 DEF Saved
    <3>9. SaidInv'
      <4>1. filed' = {r \in filed : r.user # c.user \/ r.id # c.store.id} \cup {row}
        BY <3>5, <3>8
      <4>2. QED
        BY <1>3, <3>7, <4>1, SaidAnew DEF LaunchInv
    <3>10. QED
      BY <3>3, <3>6, <3>9
  <2>3. FiledInv' /\ row.user = c.user /\ SaidInv'
    BY <2>1, <2>2
  <2> HIDE DEF row
  <2>4. DialogInv'
    <3>1. dialog' = [dialog EXCEPT ![c.user] = [on |-> "review", row |-> row]]
      BY <1>3
    <3>2. dialog = [m \in Managers |-> dialog[m]]
      BY DEF LaunchInv, DialogInv
    <3>3. dialog' = [m \in Managers |-> dialog'[m]]
      BY <3>1, <3>2
    <3>4. \A m \in Managers : dialog'[m] = IF m = c.user THEN [on |-> "review", row |-> row] ELSE dialog[m]
      BY <3>1, <3>2
    <3>5. QED
      BY <2>3, <3>3, <3>4 DEF LaunchInv, DialogInv, OnReview
  <2>5. QED
    BY <1>1, <2>3, <2>4 DEF LaunchInv
<1>4. QED
  BY <1>2, <1>3 DEF Save

LEMMA SheetKeeps ==
    ASSUME LaunchInv, NEW m \in Managers, NEW d, dialog' = [dialog EXCEPT ![m] = d],
           d = Nothing \/ d.on = "form"
    PROVE  DialogInv'
<1>1. dialog = [k \in Managers |-> dialog[k]]
  BY DEF LaunchInv, DialogInv
<1>2. dialog' = [k \in Managers |-> dialog'[k]]
  BY <1>1
<1>3. \A k \in Managers : dialog'[k] = IF k = m THEN d ELSE dialog[k]
  BY <1>1
<1>4. QED
  BY <1>2, <1>3 DEF LaunchInv, DialogInv, OnReview

\* One report per manager and store, with what he sent last, and the row on
\* the screen is one's own: for any managers, stores and hours, however many
\* saves are under way.
THEOREM OneReportPerStore == LaunchSpec => []OneReportEach
<1>1. LaunchInit => LaunchInv
  <2> SUFFICES ASSUME LaunchInit PROVE LaunchInv
    OBVIOUS
  <2>1. filed = {} /\ saves = {} /\ said = {} /\ dialog = [m \in Managers |-> Nothing]
    BY DEF LaunchInit
  <2>2. {r.n : r \in filed} = 1..0 /\ 0 \in Nat
    BY <2>1
  <2>3. FiledInv
    BY <2>1, <2>2, Zenon DEF FiledInv, Numbered
  <2>4. DialogInv
    BY <2>1 DEF DialogInv, OnReview
  <2>5. QED
    BY <2>1, <2>3, <2>4 DEF LaunchInv, SaidInv
<1>2. LaunchInv /\ [LaunchNext]_launchVars => LaunchInv'
  <2> SUFFICES ASSUME LaunchInv, [LaunchNext]_launchVars PROVE LaunchInv'
    OBVIOUS
  <2>1. ASSUME UNCHANGED <<filed, said>> PROVE FiledInv' /\ SaidInv'
    BY <2>1 DEF LaunchInv, FiledInv, Numbered, SaidInv
  <2>2. ASSUME UNCHANGED dialog PROVE DialogInv'
    BY <2>2 DEF LaunchInv, DialogInv, OnReview
  <2>3. CASE UNCHANGED launchVars
    BY <2>1, <2>2, <2>3 DEF LaunchInv, launchVars
  <2>4. ASSUME NEW s \in Stores, Work(s) PROVE LaunchInv'
    BY <2>1, <2>2, <2>4 DEF LaunchInv, Work
  <2>5. ASSUME NEW m \in Managers, CloseSheet(m) PROVE LaunchInv'
    BY <2>1, <2>5, SheetKeeps DEF LaunchInv, CloseSheet
  <2>6. ASSUME NEW m \in Managers, MarkSubmitted(m) PROVE LaunchInv'
    <3>1. PICK r \in filed : filed' = (filed \ {r}) \cup {[r EXCEPT !.status = "submitted"]}
      BY <2>6 DEF MarkSubmitted
    <3> DEFINE row == [r EXCEPT !.status = "submitted"]
    <3>2. r = [n |-> r.n, user |-> r.user, id |-> r.id, name |-> r.name, hours |-> r.hours,
               status |-> r.status] /\ r.n \in Nat
      BY DEF LaunchInv, FiledInv, IsReport
    <3>3. row = [n |-> r.n, user |-> r.user, id |-> r.id, name |-> r.name, hours |-> r.hours,
                 status |-> "submitted"]
      BY <3>2
    <3> HIDE DEF row
    <3>4. IsReport(row) /\ row.n = r.n /\ row.user = r.user /\ row.id = r.id
      BY <3>2, <3>3 DEF IsReport
    <3>5. FiledInv'
      BY <3>1, <3>4, SameReport DEF LaunchInv, row
    <3>6. DialogInv' /\ UNCHANGED saves
      BY <2>6, SheetKeeps DEF MarkSubmitted
    <3>7. SaidInv'
      <4>1. Content(row) = Content(r) /\ UNCHANGED said
        BY <2>6, <3>3 DEF Content, MarkSubmitted
      <4>2. filed' = (filed \ {r}) \cup {row}
        BY <3>1 DEF row
      <4>3. QED
        BY <4>1, <4>2 DEF LaunchInv, SaidInv
    <3>8. QED
      BY <3>5, <3>6, <3>7 DEF LaunchInv
  <2>7. ASSUME NEW m \in Managers, NEW s \in Stores, Open(m, s) PROVE LaunchInv'
    <3>1. PICK h : dialog' = [dialog EXCEPT ![m] = [on |-> "form", store |-> s, hours |-> h]]
      BY <2>7 DEF Open
    <3>2. DialogInv'
      BY <3>1, SheetKeeps
    <3>3. QED
      BY <2>1, <2>7, <3>2 DEF LaunchInv, Open
  <2>8. ASSUME NEW m \in Managers, NEW h, SendReport(m, h) PROVE LaunchInv'
    BY <2>1, <2>2, <2>8 DEF LaunchInv, SendReport
  <2>9. ASSUME NEW c \in saves, Save(c) PROVE LaunchInv'
    BY <2>9, SaveKeeps
  <2>10. QED
    BY <2>3, <2>4, <2>5, <2>6, <2>7, <2>8, <2>9 DEF LaunchNext
<1>3. LaunchInv => OneReportEach
  BY DEF LaunchInv, FiledInv, DialogInv, SaidInv, OneReportEach
<1>4. QED
  BY <1>1, <1>2, <1>3, PTL DEF LaunchSpec

-----------------------------------------------------------------------------
(* Vendor invoices *)

LEMMA LeastNumber ==
    ASSUME NEW S \in SUBSET Nat, S # {}
    PROVE  Min(S) \in S /\ \A y \in S : Min(S) <= y
BY LeastOf DEF Min

\* The rows themselves decide less than whether they add up.
LEMMA ScoreOfRows ==
    ASSUME NEW r, Len(r) \in Nat, Len(r) <= 200, NEW subtotal
    PROVE  /\ Score(r, subtotal) \in Nat
           /\ Score(r, subtotal) <= 1200
           /\ subtotal # Blank /\ subtotal # 0 /\ Apart(RowSum(r), subtotal) < 2
                => Score(r, subtotal) >= 1000
           /\ subtotal # Blank /\ subtotal # 0 /\ ~(Apart(RowSum(r), subtotal) < 2)
                => Score(r, subtotal) <= 700
<1> DEFINE apart == Apart(RowSum(r), subtotal)
           n == Len(r)
           score == Score(r, subtotal)
<1>1. score = n + (IF subtotal = Blank \/ subtotal = 0 THEN 0
                   ELSE IF apart < 2 THEN 1000
                   ELSE IF 50 * apart < subtotal THEN 500 ELSE 0)
  BY Zenon DEF Score
<1>2. n \in Nat /\ n <= 200
  OBVIOUS
<1> HIDE DEF apart, n, score
<1>3. /\ score \in Nat
      /\ score <= 1200
      /\ subtotal # Blank /\ subtotal # 0 /\ apart < 2 => score >= 1000
      /\ subtotal # Blank /\ subtotal # 0 /\ ~(apart < 2) => score <= 700
  BY <1>1, <1>2, SMT
<1>4. QED
  BY <1>3, Zenon DEF apart, score

\* A layout of the best score.
LEMMA BestShape ==
    ASSUME NEW t, \A k \in DOMAIN t.shapes : k \in Nat /\ t.shapes[k] \in Seq(Nat) /\ Len(t.shapes[k]) <= 200,
           Shapes(t) # {}
    PROVE  \E k \in Shapes(t) :
              /\ FindRows(t) = t.shapes[k]
              /\ \A j \in Shapes(t) : Score(t.shapes[j], t.printed) <= Score(t.shapes[k], t.printed)
<1> DEFINE score(k) == Score(t.shapes[k], t.printed)
           best == {k \in Shapes(t) : \A j \in Shapes(t) : score(j) <= score(k)}
           gaps == {1200 - score(k) : k \in Shapes(t)}
<1>1. \A k \in Shapes(t) : k \in Nat /\ score(k) \in Nat /\ score(k) <= 1200
  <2> SUFFICES ASSUME NEW k \in Shapes(t) PROVE k \in Nat /\ score(k) \in Nat /\ score(k) <= 1200
    OBVIOUS
  <2>1. k \in Nat /\ Len(t.shapes[k]) \in Nat /\ Len(t.shapes[k]) <= 200
    BY DEF Shapes
  <2>2. QED
    BY <2>1, ScoreOfRows
<1> HIDE DEF score
<1>2. best # {}
  <2>1. gaps \in SUBSET Nat /\ gaps # {}
    BY <1>1
  <2>2. PICK g : g \in gaps /\ \A y \in gaps : g <= y
    BY <2>1, LeastNumber, Zenon
  <2>3. PICK k \in Shapes(t) : g = 1200 - score(k)
    BY <2>2
  <2>4. ASSUME NEW j \in Shapes(t) PROVE score(j) <= score(k)
    <3>1. g <= 1200 - score(j)
      BY <2>2
    <3>2. QED
      BY <1>1, <2>3, <3>1
  <2>5. QED
    BY <2>4
<1>3. Min(best) \in best
  BY <1>1, <1>2, LeastNumber
<1>4. FindRows(t) = t.shapes[Min(best)]
  BY DEF FindRows, score
<1>5. QED
  BY <1>3, <1>4 DEF score

\* If some layout adds up to the subtotal, the one that is shown does.
LEMMA ExactRowsWin ==
    ASSUME NEW t, \A k \in DOMAIN t.shapes : k \in Nat /\ t.shapes[k] \in Seq(Nat) /\ Len(t.shapes[k]) <= 200,
           NEW k \in DOMAIN t.shapes, t.shapes[k] # <<>>,
           t.printed # Blank, t.printed > 0, Apart(RowSum(t.shapes[k]), t.printed) < 2
    PROVE  FindRows(t) # <<>> /\ Apart(RowSum(FindRows(t)), t.printed) < 2
<1>1. k \in Shapes(t)
  BY DEF Shapes
<1>2. PICK b \in Shapes(t) :
        /\ FindRows(t) = t.shapes[b]
        /\ \A j \in Shapes(t) : Score(t.shapes[j], t.printed) <= Score(t.shapes[b], t.printed)
  BY <1>1, BestShape
<1>3. Score(t.shapes[k], t.printed) >= 1000 /\ Score(t.shapes[k], t.printed) \in Nat
  <2>1. Len(t.shapes[k]) \in Nat /\ Len(t.shapes[k]) <= 200
    OBVIOUS
  <2>2. t.printed # 0
    OBVIOUS
  <2>3. QED
    BY <2>1, <2>2, ScoreOfRows
<1>4. ASSUME ~(Apart(RowSum(t.shapes[b]), t.printed) < 2)
      PROVE  Score(t.shapes[b], t.printed) <= 700 /\ Score(t.shapes[b], t.printed) \in Nat
  <2>1. Len(t.shapes[b]) \in Nat /\ Len(t.shapes[b]) <= 200
    BY DEF Shapes
  <2>2. t.printed # 0
    OBVIOUS
  <2>3. QED
    BY <1>4, <2>1, <2>2, ScoreOfRows
<1>5. Score(t.shapes[k], t.printed) <= Score(t.shapes[b], t.printed)
  BY <1>1, <1>2, Zenon
<1>6. Apart(RowSum(t.shapes[b]), t.printed) < 2
  <2>1. ASSUME NEW p, NEW q, p \in Nat, q \in Nat, p >= 1000, q <= 700, p <= q PROVE FALSE
    BY <2>1
  <2>2. QED
    BY <1>3, <1>4, <1>5, <2>1, Zenon
<1>7. FindRows(t) # <<>>
  BY <1>2 DEF Shapes
<1>8. QED
  BY <1>2, <1>6, <1>7, Zenon

\* Two of the fields missing are two warnings.
LEMMA OneFieldMissing ==
    ASSUME NEW t, NEW x, ~(x.scanned \/ x.short), Critical(x, t) = {}, ~(Confidence(x, t) < 70)
    PROVE  Cardinality({f \in {"name", "number", "date"} : x[f] = Blank}) <= 1
<1> DEFINE all == {"no_vendor", "no_invoice_number", "no_date", "no_line_items", "doc_math_off"}
           gone == {f \in {"name", "number", "date"} : x[f] = Blank}
<1>1. Warnings(x, t) \subseteq all
  BY DEF Warnings
<1>2. IsFiniteSet(Warnings(x, t))
  <2>1. IsFiniteSet({}) /\ IsFiniteSet(all)
    <3>1. IsFiniteSet({})
      BY FS_EmptySet
    <3>2. IsFiniteSet({} \cup {"no_vendor"} \cup {"no_invoice_number"} \cup {"no_date"}
                         \cup {"no_line_items"} \cup {"doc_math_off"})
      BY <3>1, FS_AddElement
    <3>3. all = {} \cup {"no_vendor"} \cup {"no_invoice_number"} \cup {"no_date"}
                         \cup {"no_line_items"} \cup {"doc_math_off"}
      OBVIOUS
    <3>4. QED
      BY <3>1, <3>2, <3>3
  <2>2. QED
    BY <1>1, <2>1, FS_Subset
<1>3. PICK w : w = Cardinality(Warnings(x, t))
  OBVIOUS
<1>4. w \in Nat
  BY <1>2, <1>3, FS_CardinalityType
<1>5. w <= 1
  <2>1. Cardinality(Critical(x, t)) = 0
    BY FS_EmptySet
  <2>2. Confidence(x, t) = Max({0, 100 - 18 * w})
    BY <1>3, <1>4, <2>1 DEF Confidence
  <2>3. ASSUME NEW v \in Int PROVE Max({0, v}) = 0 \/ Max({0, v}) = v
    <3>1. \E z \in {0, v} : \A y \in {0, v} : z >= y
      OBVIOUS
    <3>2. QED
      BY <3>1 DEF Max
  <2>4. 100 - 18 * w \in Int
    BY <1>4
  <2>5. Confidence(x, t) = 0 \/ Confidence(x, t) = 100 - 18 * w
    BY <2>2, <2>3, <2>4
  <2>6. QED
    BY <1>4, <2>5
<1>6. ASSUME NEW a \in Warnings(x, t), NEW b \in Warnings(x, t), a # b PROVE FALSE
  <2>1. IsFiniteSet({a, b}) /\ Cardinality({a, b}) = 2
    <3>1. IsFiniteSet({a}) /\ Cardinality({a}) = 1
      BY FS_Singleton
    <3>2. {a, b} = {a} \cup {b} /\ b \notin {a}
      BY <1>6
    <3>3. QED
      BY <3>1, <3>2, FS_AddElement
  <2>2. {a, b} \subseteq Warnings(x, t)
    OBVIOUS
  <2>3. Cardinality({a, b}) <= w
    BY <1>2, <1>3, <2>2, FS_Subset
  <2>4. QED
    BY <1>4, <1>5, <2>1, <2>3
<1>7. ASSUME NEW f \in gone, NEW g \in gone, f # g PROVE FALSE
  <2>1. /\ "name" \in gone => "no_vendor" \in Warnings(x, t)
        /\ "number" \in gone => "no_invoice_number" \in Warnings(x, t)
        /\ "date" \in gone => "no_date" \in Warnings(x, t)
    BY DEF Warnings
  <2>2. QED
    BY <1>6, <1>7, <2>1
<1>8. gone = {} \/ \E f : gone = {f}
  BY <1>7
<1>9. CASE gone = {}
  BY <1>9, FS_EmptySet
<1>10. CASE \E f : gone = {f}
  BY <1>10, FS_Singleton
<1>11. QED
  BY <1>8, <1>9, <1>10

\* What ReadingReconciles says of a document.
LEMMA ReadRight ==
    ASSUME NEW d \in DOMAIN Documents
    PROVE  LET t == Text(Documents[d])
               x == Extract(Documents[d])
               exact(r) == r # <<>> /\ t.printed # Blank /\ t.printed > 0 /\ Apart(RowSum(r), t.printed) < 2
           IN /\ ~NeedsReview(x, t) =>
                   /\ x.total # Blank
                   /\ t.due # Blank => Close(x.total, t.due)
                   /\ t.subtotal # Blank /\ x.rows # <<>> => Close(RowSum(x.rows), t.subtotal)
                   /\ Cardinality({f \in {"name", "number", "date"} : x[f] = Blank}) <= 1
              /\ (\E k \in DOMAIN t.shapes : exact(t.shapes[k])) => exact(FindRows(t))
<1>1. PICK t : t = Text(Documents[d])
  OBVIOUS
<1>2. PICK x : x = Extract(Documents[d])
  OBVIOUS
<1>3. ASSUME ~NeedsReview(x, t)
      PROVE  /\ x.total # Blank
             /\ t.due # Blank => Close(x.total, t.due)
             /\ t.subtotal # Blank /\ x.rows # <<>> => Close(RowSum(x.rows), t.subtotal)
             /\ Cardinality({f \in {"name", "number", "date"} : x[f] = Blank}) <= 1
  <2>1. Critical(x, t) = {} /\ ~(Confidence(x, t) < 70)
    BY <1>3, Zenon DEF NeedsReview
  <2>2. ~(x.scanned \/ x.short) /\ TotalIssues(x, t) = {} /\ RowIssues(x, t) = {}
    BY <2>1 DEF Critical
  <2>3. x.total # Blank /\ (t.due # Blank => Close(x.total, t.due))
    BY <2>2, Zenon DEF TotalIssues
  <2>4. t.subtotal # Blank /\ x.rows # <<>> => Close(RowSum(x.rows), t.subtotal)
    BY <2>2, Zenon DEF RowIssues
  <2>5. QED
    BY <2>1, <2>2, <2>3, <2>4, OneFieldMissing
<1>4. ASSUME NEW k \in DOMAIN t.shapes, t.shapes[k] # <<>>, t.printed # Blank, t.printed > 0,
             Apart(RowSum(t.shapes[k]), t.printed) < 2
      PROVE  FindRows(t) # <<>> /\ Apart(RowSum(FindRows(t)), t.printed) < 2
  <2>1. \A j \in DOMAIN t.shapes : j \in Nat /\ t.shapes[j] \in Seq(Nat) /\ Len(t.shapes[j]) <= 200
    BY <1>1, DocumentsAssumption
  <2>2. QED
    BY <1>4, <2>1, ExactRowsWin
<1>5. QED
  BY <1>1, <1>2, <1>3, <1>4, Zenon

\* An invoice keeps its fields, and a document is one of those people attach.
IntakeInv ==
    /\ invoice # Blank =>
         /\ invoice = [by |-> invoice.by, status |-> invoice.status, name |-> invoice.name,
                       number |-> invoice.number, date |-> invoice.date, total |-> invoice.total,
                       doc |-> invoice.doc, edited |-> invoice.edited, checked |-> invoice.checked]
         /\ invoice.doc # Blank => invoice.doc \in DOMAIN Documents
    /\ uploads = [r \in Requests |-> uploads[r]]
    /\ \A r \in Requests : uploads[r] # Blank => uploads[r].doc \in DOMAIN Documents
    /\ QueueIsPayable

LEMMA InsertKeeps ==
    ASSUME IntakeInv, NEW m, NEW form, NEW doc, Insert(m, form, doc), UNCHANGED vendors,
           doc # Blank => doc \in DOMAIN Documents
    PROVE  /\ invoice' # Blank =>
                /\ invoice' = [by |-> invoice'.by, status |-> invoice'.status, name |-> invoice'.name,
                               number |-> invoice'.number, date |-> invoice'.date, total |-> invoice'.total,
                               doc |-> invoice'.doc, edited |-> invoice'.edited,
                     checked |-> invoice'.checked]
                /\ invoice'.doc # Blank => invoice'.doc \in DOMAIN Documents
           /\ QueueIsPayable'
<1>1. PICK n, u, d, a : invoice' = [by |-> m, status |-> "draft", name |-> n, number |-> u,
                                   date |-> d, total |-> a, doc |-> doc, edited |-> FALSE,
                                   checked |-> FALSE]
  BY Zenon DEF Insert, Draft
<1>2. QED
  BY <1>1 DEF QueueIsPayable

LEMMA UpdateKeeps ==
    ASSUME IntakeInv, NEW m, NEW field \in {"name", "number", "date", "total"}, NEW value,
           VendorUpdate(m, field, value)
    PROVE  IntakeInv'
<1>1. invoice # Blank /\ invoice.status = "draft"
  BY DEF VendorUpdate, MayEdit
<1>2. PICK i : i = invoice
  OBVIOUS
<1>3. invoice' = [i EXCEPT ![field] = value] /\ UNCHANGED <<vendors, uploads>>
  BY <1>2 DEF VendorUpdate
<1>4. i = [by |-> i.by, status |-> "draft", name |-> i.name, number |-> i.number, date |-> i.date,
           total |-> i.total, doc |-> i.doc, edited |-> i.edited,
                    checked |-> i.checked]
  BY <1>1, <1>2 DEF IntakeInv
<1>5. /\ invoice'.status = "draft" /\ invoice'.doc = i.doc
      /\ invoice' = [by |-> invoice'.by, status |-> invoice'.status, name |-> invoice'.name,
                     number |-> invoice'.number, date |-> invoice'.date, total |-> invoice'.total,
                     doc |-> invoice'.doc, edited |-> invoice'.edited,
                     checked |-> invoice'.checked]
  <2>1. CASE field = "name"
    <3>1. invoice' = [i EXCEPT !.name = value]
      BY <1>3, <2>1, Zenon
    <3>2. invoice' = [by |-> i.by, status |-> "draft", name |-> value, number |-> i.number,
                      date |-> i.date, total |-> i.total, doc |-> i.doc, edited |-> i.edited,
                    checked |-> i.checked]
      BY <1>4, <3>1
    <3>3. QED
      BY <3>2
  <2>2. CASE field = "number"
    <3>1. invoice' = [i EXCEPT !.number = value]
      BY <1>3, <2>2, Zenon
    <3>2. invoice' = [by |-> i.by, status |-> "draft", name |-> i.name, number |-> value,
                      date |-> i.date, total |-> i.total, doc |-> i.doc, edited |-> i.edited,
                    checked |-> i.checked]
      BY <1>4, <3>1
    <3>3. QED
      BY <3>2
  <2>3. CASE field = "date"
    <3>1. invoice' = [i EXCEPT !.date = value]
      BY <1>3, <2>3, Zenon
    <3>2. invoice' = [by |-> i.by, status |-> "draft", name |-> i.name, number |-> i.number,
                      date |-> value, total |-> i.total, doc |-> i.doc, edited |-> i.edited,
                    checked |-> i.checked]
      BY <1>4, <3>1
    <3>3. QED
      BY <3>2
  <2>4. CASE field = "total"
    <3>1. invoice' = [i EXCEPT !.total = value]
      BY <1>3, <2>4, Zenon
    <3>2. invoice' = [by |-> i.by, status |-> "draft", name |-> i.name, number |-> i.number,
                      date |-> i.date, total |-> value, doc |-> i.doc, edited |-> i.edited,
                    checked |-> i.checked]
      BY <1>4, <3>1
    <3>3. QED
      BY <3>2
  <2>5. QED
    BY <2>1, <2>2, <2>3, <2>4
<1>6. QED
  BY <1>1, <1>2, <1>3, <1>5 DEF IntakeInv, QueueIsPayable

LEMMA IntakeInvStep ==
    ASSUME IntakeInv, [IntakeStep \/ IntakeRestart]_intakeVars
    PROVE  IntakeInv'
<1>1. CASE UNCHANGED intakeVars
  BY <1>1 DEF IntakeInv, QueueIsPayable, Missing, intakeVars
<1>2. ASSUME NEW m \in Uploaders, NEW form \in Forms, UploadForm(m, form) PROVE IntakeInv'
  BY <1>2, InsertKeeps DEF UploadForm, IntakeInv
<1>3. ASSUME NEW r \in Requests, NEW m \in Uploaders, NEW form \in Forms, NEW doc \in DOMAIN Documents,
             UploadPdf(r, m, form, doc)
      PROVE  IntakeInv'
  <2>1. PICK u : u = [by |-> m, form |-> form, doc |-> doc]
    OBVIOUS
  <2>2. uploads' = [uploads EXCEPT ![r] = u] /\ u.doc = doc /\ UNCHANGED <<vendors, invoice>>
    BY <1>3, <2>1 DEF UploadPdf
  <2>3. \A q \in Requests : uploads'[q] = IF q = r THEN u ELSE uploads[q]
    BY <2>2 DEF IntakeInv
  <2>4. uploads' = [q \in Requests |-> uploads'[q]]
    BY <2>2 DEF IntakeInv
  <2>5. QED
    BY <2>2, <2>3, <2>4 DEF IntakeInv, QueueIsPayable, Missing
<1>4. ASSUME NEW r \in Requests, UploadParsed(r) PROVE IntakeInv'
  <2>1. PICK u : u = uploads[r]
    OBVIOUS
  <2>2. /\ Insert(u.by, Filled(u.form, Extract(Documents[u.doc])), u.doc)
        /\ uploads' = [uploads EXCEPT ![r] = Blank] /\ UNCHANGED vendors
    BY <1>4, <2>1 DEF UploadParsed
  <2>3. u.doc \in DOMAIN Documents
    BY <1>4, <2>1 DEF UploadParsed, IntakeInv
  <2>4. \A q \in Requests : uploads'[q] = IF q = r THEN Blank ELSE uploads[q]
    BY <2>2 DEF IntakeInv
  <2>5. uploads' = [q \in Requests |-> uploads'[q]]
    BY <2>2 DEF IntakeInv
  <2>6. \A q \in Requests : uploads'[q] # Blank => uploads'[q].doc \in DOMAIN Documents
    BY <2>4 DEF IntakeInv
  <2>7. QED
    BY <2>2, <2>3, <2>5, <2>6, InsertKeeps DEF IntakeInv
<1>5. ASSUME NEW m \in Uploaders, NEW field \in {"name", "number", "date", "total"}, NEW value,
             VendorUpdate(m, field, value)
      PROVE  IntakeInv'
  BY <1>5, UpdateKeeps
<1>6. ASSUME NEW m \in Uploaders, EditRows(m) PROVE IntakeInv'
  <2>1. PICK i : i = invoice
    OBVIOUS
  <2>2. /\ i # Blank /\ i.status = "draft"
        /\ invoice' = [i EXCEPT !.edited = TRUE] /\ UNCHANGED <<vendors, uploads>>
    BY <1>6, <2>1 DEF EditRows, MayEdit
  <2>3. i = [by |-> i.by, status |-> "draft", name |-> i.name, number |-> i.number, date |-> i.date,
             total |-> i.total, doc |-> i.doc, edited |-> i.edited,
                    checked |-> i.checked]
    BY <2>1, <2>2 DEF IntakeInv
  <2>4. invoice' = [by |-> i.by, status |-> "draft", name |-> i.name, number |-> i.number, date |-> i.date,
                    total |-> i.total, doc |-> i.doc, edited |-> TRUE,
                    checked |-> i.checked]
    BY <2>2, <2>3
  <2>5. QED
    BY <2>1, <2>2, <2>4 DEF IntakeInv, QueueIsPayable
<1>7. ASSUME NEW m \in Uploaders, VendorDiscard(m) PROVE IntakeInv'
  BY <1>7 DEF VendorDiscard, IntakeInv, QueueIsPayable
<1>8. ASSUME NEW m \in Uploaders, VendorSubmit(m) \/ SubmitAny(m) PROVE IntakeInv'
  <2>1. PICK i : i = invoice
    OBVIOUS
  <2>2. PICK way \in BOOLEAN :
          /\ i # Blank /\ invoice' = [i EXCEPT !.status = "submitted", !.checked = way]
          /\ UNCHANGED <<vendors, uploads>>
          /\ way => Missing = {} /\ i.name \in vendors
    BY <1>8, <2>1 DEF VendorSubmit, SubmitAny, MayEdit, Enqueued
  <2>3. i = [by |-> i.by, status |-> i.status, name |-> i.name, number |-> i.number, date |-> i.date,
             total |-> i.total, doc |-> i.doc, edited |-> i.edited,
             checked |-> i.checked]
    BY <2>1, <2>2 DEF IntakeInv
  <2>4. invoice' = [by |-> i.by, status |-> "submitted", name |-> i.name, number |-> i.number,
                    date |-> i.date, total |-> i.total, doc |-> i.doc, edited |-> i.edited,
                    checked |-> way]
    BY <2>2, <2>3
  <2>5. Missing' = Missing
    BY <2>1, <2>4 DEF Missing
  <2>6. QED
    BY <2>1, <2>2, <2>4, <2>5 DEF IntakeInv, QueueIsPayable
<1>9. CASE SendBack
  <2>1. PICK i : i = invoice
    OBVIOUS
  <2>2. /\ i # Blank /\ invoice' = [i EXCEPT !.status = "draft"] /\ UNCHANGED <<vendors, uploads>>
    BY <1>9, <2>1 DEF SendBack
  <2>3. i = [by |-> i.by, status |-> i.status, name |-> i.name, number |-> i.number, date |-> i.date,
             total |-> i.total, doc |-> i.doc, edited |-> i.edited,
                    checked |-> i.checked]
    BY <2>1, <2>2 DEF IntakeInv
  <2>4. invoice' = [by |-> i.by, status |-> "draft", name |-> i.name, number |-> i.number, date |-> i.date,
                    total |-> i.total, doc |-> i.doc, edited |-> i.edited,
                    checked |-> i.checked]
    BY <2>2, <2>3
  <2>5. QED
    BY <2>1, <2>2, <2>4 DEF IntakeInv, QueueIsPayable
<1>10. CASE IntakeRestart
  <2>1. uploads' = [r \in Requests |-> Blank] /\ vendors \subseteq vendors' /\ invoice' = invoice
    BY <1>10 DEF IntakeRestart
  <2>2. Missing' = Missing
    BY <2>1 DEF Missing
  <2>3. QED
    BY <2>1, <2>2 DEF IntakeInv, QueueIsPayable
<1>11. CASE \E m \in Uploaders :
               \/ \E n \in Names : VendorUpdate(m, "name", n)
               \/ \E n \in Numbers \cup {Blank} : VendorUpdate(m, "number", n)
               \/ \E d \in Dates \cup {Blank} : VendorUpdate(m, "date", d)
               \/ \E t \in Totals : VendorUpdate(m, "total", t)
               \/ EditRows(m) \/ VendorDiscard(m) \/ VendorSubmit(m) \/ SubmitAny(m)
  BY <1>5, <1>6, <1>7, <1>8, <1>11
<1>12. QED
  BY <1>1, <1>2, <1>3, <1>4, <1>9, <1>10, <1>11 DEF IntakeStep

(* What the vendor form sends into the queue is complete and of a listed     *)
(* vendor, whatever was read, typed, cleared and sent back and however often *)
(* the server restarts; a document that needs no review was read right, and  *)
(* rows that add up to the printed subtotal are shown when a layout finds    *)
(* them: findLineItems, validateInvoice, POST vendor-submit.                 *)
THEOREM VendorInvoicesSound == IntakeSpec => []IntakeIsSound
<1>1. IntakeInit => IntakeInv
  BY DEF IntakeInit, IntakeInv, QueueIsPayable
<1>2. IntakeInv /\ [IntakeStep \/ IntakeRestart]_intakeVars => IntakeInv'
  BY IntakeInvStep
<1>3. IntakeInv => IntakeIsSound
  <2>1. IntakeInv => ReadingReconciles
    BY ReadRight, Zenon DEF IntakeInv, ReadingReconciles
  <2>2. QED
    BY <2>1 DEF IntakeInv, IntakeIsSound
<1>4. QED
  BY <1>1, <1>2, <1>3, PTL DEF IntakeSpec

-----------------------------------------------------------------------------
(* The books *)

Bookable == LoggedLines \cup SyncedLines

\* Lines of the ledger, finitely many.
Booked(L) == L \subseteq Bookable /\ IsFiniteSet(L)

\* What of a set of lines counts: those of the expense, and the clock of a
\* technician who has none.
Kept(L, manual, clock) ==
    {l \in L : \/ l.kind = manual
               \/ l.kind = clock /\ \A k \in L : k.kind = manual => k.who # l.who}

LEMMA LineAmount ==
    ASSUME NEW l \in Bookable
    PROVE  /\ l.amount \in Nat /\ l.who \in Techs /\ l.wo \in Wos /\ l.invoice \in TrackerInvoices
           /\ l.kind \in {"labor", "driven"} => l.amount > 0
BY TrackerAssumption DEF Bookable

LEMMA SumOfBooked ==
    ASSUME NEW L, Booked(L)
    PROVE  SumOf(L) = SumFunctionOnSet([l \in Bookable |-> l.amount], L) /\ SumOf(L) \in Nat
<1>a. PICK a : a = [l \in Bookable |-> l.amount]
  OBVIOUS
<1>f. PICK f : f = [l \in L |-> l.amount]
  OBVIOUS
<1>1. \A l \in L : f[l] \in Nat /\ f[l] = a[l]
  BY <1>a, <1>f, LineAmount DEF Booked
<1>2. IsFiniteSet(L) /\ DOMAIN f = L
  BY <1>f DEF Booked
<1>3. SumFunction(f) = SumFunctionOnSet(a, L)
  BY <1>1, <1>2, SumWithin
<1>4. SumFunctionOnSet(a, L) \in Nat
  BY <1>1, <1>2, SumNat
<1>5. SumOf(L) = SumFunction(f)
  BY <1>f, Zenon DEF SumOf
<1>6. QED
  BY <1>a, <1>3, <1>4, <1>5

LEMMA BookedPart ==
    ASSUME NEW L, Booked(L), NEW M, M \subseteq L
    PROVE  Booked(M)
BY FS_Subset DEF Booked

LEMMA SumOfNone == SumOf({}) = 0
<1>1. SumOf({}) = SumFunctionOnSet([l \in Bookable |-> l.amount], {})
  <2>1. Booked({})
    BY FS_EmptySet DEF Booked
  <2>2. QED
    BY <2>1, SumOfBooked
<1>2. QED
  BY <1>1, SumEmpty

LEMMA SumOfApart ==
    ASSUME NEW L, NEW M, Booked(L), Booked(M), L \cap M = {}
    PROVE  Booked(L \cup M) /\ SumOf(L \cup M) = SumOf(L) + SumOf(M)
<1>a. PICK a : a = [l \in Bookable |-> l.amount]
  OBVIOUS
<1>1. Booked(L \cup M)
  BY FS_Union DEF Booked
<1>2. /\ SumOf(L \cup M) = SumFunctionOnSet(a, L \cup M)
      /\ SumOf(L) = SumFunctionOnSet(a, L) /\ SumOf(M) = SumFunctionOnSet(a, M)
  BY <1>a, <1>1, SumOfBooked
<1>3. \A l \in L \cup M : a[l] \in Nat
  BY <1>a, LineAmount DEF Booked
<1>4. SumFunctionOnSet(a, L \cup M) = SumFunctionOnSet(a, L) + SumFunctionOnSet(a, M)
  BY <1>3, SumUnion DEF Booked
<1>5. QED
  BY <1>1, <1>2, <1>4

\* A figure for each class of the lines, and one for all of them.
LEMMA SumOfClasses ==
    ASSUME NEW K, IsFiniteSet(K), NEW L, Booked(L), NEW key, \A l \in L : key[l] \in K,
           NEW part, Parts(part, key, L, K),
           NEW g, DOMAIN g = K, \A k \in K : g[k] = SumOf(part[k])
    PROVE  SumFunction(g) = SumOf(L)
<1>a. PICK a : a = [l \in Bookable |-> l.amount]
  OBVIOUS
<1>1. IsFiniteSet(L) /\ \A l \in L : a[l] \in Nat
  BY <1>a, LineAmount DEF Booked
<1>2. \A k \in K : Booked(part[k])
  BY BookedPart DEF Parts
<1>3. \A k \in K : g[k] = SumFunctionOnSet(a, part[k]) /\ g[k] \in Nat
  BY <1>a, <1>2, SumOfBooked
<1>4. SumFunctionOnSet(g, K) = SumFunctionOnSet(a, L)
  BY <1>1, <1>3, SumPartition
<1>5. SumFunction(g) = SumFunctionOnSet(g, K)
  BY <1>3, SumWithin
<1>6. QED
  BY <1>a, <1>4, <1>5, SumOfBooked

\* Something was typed as soon as a line of it is there.
LEMMA TypedIsMore ==
    ASSUME NEW L, Booked(L), NEW k \in L, k.kind \in {"labor", "driven"}
    PROVE  SumOf(L) > 0
<1>a. PICK a : a = [l \in Bookable |-> l.amount]
  OBVIOUS
<1>1. IsFiniteSet(L) /\ \A l \in L : a[l] \in Nat
  BY <1>a, LineAmount DEF Booked
<1>2. SumFunctionOnSet(a, L) = a[k] + SumFunctionOnSet(a, L \ {k})
  BY <1>1, SumRemove
<1>3. SumFunctionOnSet(a, L \ {k}) \in Nat
  <2>1. IsFiniteSet(L \ {k})
    BY <1>1, FS_Subset
  <2>2. QED
    BY <1>1, <2>1, SumNat
<1>4. a[k] \in Nat /\ a[k] > 0
  BY <1>a, LineAmount DEF Booked
<1>5. QED
  BY <1>a, <1>2, <1>3, <1>4, SumOfBooked

LEMMA ResolvedIsKept ==
    ASSUME NEW L, Booked(L), \A k, l \in L : k.who = l.who,
           NEW manual \in {"labor", "driven"}, NEW clock \in Clocks
    PROVE  Resolved(L, manual, clock) = SumOf(Kept(L, manual, clock))
<1>M. PICK M : M = {l \in L : l.kind = manual}
  OBVIOUS
<1>C. PICK C : C = {l \in L : l.kind = clock}
  OBVIOUS
<1>1. Resolved(L, manual, clock) = IF SumOf(M) > 0 THEN SumOf(M) ELSE SumOf(C)
  BY <1>M, <1>C, Zenon DEF Resolved
<1>2. Booked(M)
  BY <1>M, BookedPart
<1>3. CASE M = {}
  <2>1. Kept(L, manual, clock) = C
    BY <1>M, <1>C, <1>3 DEF Kept
  <2>2. SumOf(M) = 0
    BY <1>3, SumOfNone
  <2>3. QED
    BY <1>1, <2>1, <2>2
<1>4. CASE M # {}
  <2>1. PICK k \in M : TRUE
    BY <1>4
  <2>2. SumOf(M) > 0
    BY <1>M, <1>2, <2>1, TypedIsMore
  <2>3. Kept(L, manual, clock) = M
    BY <1>M, <2>1 DEF Kept
  <2>4. QED
    BY <1>1, <2>2, <2>3
<1>5. QED
  BY <1>3, <1>4

LEMMA PerTechIsKept ==
    ASSUME NEW L, Booked(L), NEW manual \in {"labor", "driven"}, NEW clock \in Clocks
    PROVE  PerTech(L, manual, clock) = SumOf(Kept(L, manual, clock))
<1>K. PICK K : K = Kept(L, manual, clock)
  OBVIOUS
<1>mine. PICK mine : mine = [u \in Techs |-> {l \in L : l.who = u}]
  OBVIOUS
<1>part. PICK part : part = [u \in Techs |-> Kept(mine[u], manual, clock)]
  OBVIOUS
<1>key. PICK key : key = [l \in Bookable |-> l.who]
  OBVIOUS
<1>g. PICK g : g = [u \in Techs |-> Resolved(mine[u], manual, clock)]
  OBVIOUS
<1>1. PerTech(L, manual, clock) = SumFunction(g)
  BY <1>mine, <1>g, Zenon DEF PerTech
<1>2. K \subseteq L /\ Booked(K)
  BY <1>K, BookedPart DEF Kept
<1>3. \A u \in Techs : Booked(mine[u]) /\ \A k, l \in mine[u] : k.who = l.who
  BY <1>mine, BookedPart
<1>4. \A u \in Techs : g[u] = SumOf(part[u])
  BY <1>g, <1>part, <1>3, ResolvedIsKept
<1>5. \A l \in K : key[l] = l.who /\ key[l] \in Techs
  BY <1>key, <1>2, LineAmount DEF Booked
<1>6. Parts(part, key, K, Techs)
  <2> SUFFICES ASSUME NEW u \in Techs
               PROVE  part[u] \in SUBSET K /\ \A l \in K : l \in part[u] <=> l.who = u
    BY <1>5 DEF Parts
  <2>1. part[u] \in SUBSET K
    BY <1>K, <1>mine, <1>part DEF Kept
  <2>2. \A l \in K : l \in part[u] <=> l.who = u
    BY <1>K, <1>mine, <1>part DEF Kept
  <2>3. QED
    BY <2>1, <2>2
<1>7. IsFiniteSet(Techs) /\ DOMAIN g = Techs
  BY <1>g, TrackerAssumption
<1>8. SumFunction(g) = SumOf(K)
  BY <1>2, <1>4, <1>5, <1>6, <1>7, SumOfClasses
<1>9. QED
  BY <1>K, <1>1, <1>8

\* Four figures of a row come to one.
LEMMA SumOfFields ==
    ASSUME NEW c, DOMAIN c = Fields, \A f \in Fields : c[f] \in Nat
    PROVE  SumFunction(c) = c["labor"] + c["travel"] + c["expenses"] + c["third"]
<1>1. SumFunction(c) = SumFunctionOnSet(c, Fields)
  BY Zenon DEF SumFunction
<1>2. Fields = ((({} \cup {"labor"}) \cup {"travel"}) \cup {"expenses"}) \cup {"third"}
  BY DEF Fields
<1>3. IsFiniteSet({}) /\ SumFunctionOnSet(c, {}) = 0
  BY FS_EmptySet, SumEmpty
<1>4. /\ c["labor"] \in Nat /\ c["travel"] \in Nat /\ c["expenses"] \in Nat /\ c["third"] \in Nat
  BY DEF Fields
<1>a. PICK A : A = {} \cup {"labor"}
  OBVIOUS
<1>b. PICK B : B = A \cup {"travel"}
  OBVIOUS
<1>c. PICK C : C = B \cup {"expenses"}
  OBVIOUS
<1>5. IsFiniteSet(A) /\ SumFunctionOnSet(c, A) = c["labor"]
  <2>1. SumFunctionOnSet(c, A) = c["labor"] + SumFunctionOnSet(c, {})
    BY <1>a, <1>3, <1>4, SumAdd
  <2>2. QED
    BY <1>a, <1>3, <1>4, <2>1, FS_AddElement
<1>6. IsFiniteSet(B) /\ SumFunctionOnSet(c, B) = c["travel"] + c["labor"]
  <2>1. "travel" \notin A /\ \A f \in A : c[f] \in Nat
    BY <1>a, <1>4
  <2>2. SumFunctionOnSet(c, B) = c["travel"] + SumFunctionOnSet(c, A)
    BY <1>b, <1>4, <1>5, <2>1, SumAdd
  <2>3. QED
    BY <1>b, <1>5, <2>2, FS_AddElement
<1>7. IsFiniteSet(C) /\ SumFunctionOnSet(c, C) = c["expenses"] + (c["travel"] + c["labor"])
  <2>1. "expenses" \notin B /\ \A f \in B : c[f] \in Nat
    BY <1>a, <1>b, <1>4
  <2>2. SumFunctionOnSet(c, C) = c["expenses"] + SumFunctionOnSet(c, B)
    BY <1>c, <1>4, <1>6, <2>1, SumAdd
  <2>3. QED
    BY <1>c, <1>6, <2>2, FS_AddElement
<1>8. SumFunctionOnSet(c, Fields) = c["third"] + (c["expenses"] + (c["travel"] + c["labor"]))
  <2>1. "third" \notin C /\ \A f \in C : c[f] \in Nat
    BY <1>a, <1>b, <1>c, <1>4
  <2>2. Fields = C \cup {"third"}
    BY <1>a, <1>b, <1>c, <1>2
  <2>3. SumFunctionOnSet(c, C \cup {"third"}) = c["third"] + SumFunctionOnSet(c, C)
    BY <1>4, <1>7, <2>1, SumAdd
  <2>4. QED
    BY <1>7, <2>2, <2>3
<1>9. QED
  BY <1>1, <1>4, <1>8

\* The lines of a work order that count.
CountedOn(w) == On(Approved, w) \ Replaced(w)

\* They are of four kinds: labour, drive, travel and the rest.
LEMMA FourKinds ==
    ASSUME NEW L, Booked(L),
           NEW T, T = {l \in L : l.kind \in Travels},
           NEW R, R = {l \in L : l.kind \notin {"labor", "driven"} \cup Travels \cup Clocks}
    PROVE  SumOf(((Kept(L, "labor", "work") \cup Kept(L, "driven", "drive")) \cup T) \cup R)
             = SumOf(Kept(L, "labor", "work")) + SumOf(Kept(L, "driven", "drive")) + SumOf(T) + SumOf(R)
<1>A. PICK A : A = Kept(L, "labor", "work")
  OBVIOUS
<1>D. PICK D : D = Kept(L, "driven", "drive")
  OBVIOUS
<1>1. A \subseteq L /\ D \subseteq L /\ T \subseteq L /\ R \subseteq L
  BY <1>A, <1>D DEF Kept
<1>2. Booked(A) /\ Booked(D) /\ Booked(T) /\ Booked(R)
  BY <1>1, BookedPart
<1>3. \A l \in A : l.kind \in {"labor", "work"}
  BY <1>A DEF Kept
<1>4. \A l \in D : l.kind \in {"driven", "drive"}
  BY <1>D DEF Kept
<1>5. A \cap D = {} /\ (A \cup D) \cap T = {} /\ ((A \cup D) \cup T) \cap R = {}
  BY <1>3, <1>4 DEF Travels, Clocks
<1>6. Booked(A \cup D) /\ SumOf(A \cup D) = SumOf(A) + SumOf(D)
  BY <1>2, <1>5, SumOfApart
<1>7. Booked((A \cup D) \cup T) /\ SumOf((A \cup D) \cup T) = SumOf(A \cup D) + SumOf(T)
  BY <1>2, <1>5, <1>6, SumOfApart
<1>8. SumOf(((A \cup D) \cup T) \cup R) = SumOf((A \cup D) \cup T) + SumOf(R)
  BY <1>2, <1>5, <1>7, SumOfApart
<1>9. QED
  BY <1>A, <1>D, <1>6, <1>7, <1>8

LEMMA ApprovedBooked ==
    ASSUME Booked(booked), NEW w
    PROVE  Booked(Approved) /\ Booked(On(Approved, w)) /\ Booked(CountedOn(w))
<1>1. Approved \subseteq booked /\ On(Approved, w) \subseteq booked /\ CountedOn(w) \subseteq booked
  BY DEF Approved, On, CountedOn
<1>2. QED
  BY <1>1, BookedPart

LEMMA ComputedIsCounted ==
    ASSUME Booked(booked), NEW w
    PROVE  /\ DOMAIN Computed(w) = Fields /\ \A f \in Fields : Computed(w)[f] \in Nat
           /\ SumFunction(Computed(w)) = SumOf(CountedOn(w))
<1>L. PICK L : L = On(Approved, w)
  OBVIOUS
<1>T. PICK T : T = {l \in L : l.kind \in Travels}
  OBVIOUS
<1>R. PICK R : R = {l \in L : l.kind \notin {"labor", "driven"} \cup Travels \cup Clocks}
  OBVIOUS
<1>A. PICK A : A = Kept(L, "labor", "work")
  OBVIOUS
<1>D. PICK D : D = Kept(L, "driven", "drive")
  OBVIOUS
<1>1. Booked(L)
  BY <1>L, ApprovedBooked
<1>2. PerTech(L, "labor", "work") = SumOf(A) /\ PerTech(L, "driven", "drive") = SumOf(D)
  BY <1>A, <1>D, <1>1, PerTechIsKept DEF Clocks
<1>c. PICK c : c = [labor |-> SumOf(A), travel |-> SumOf(D) + SumOf(T), expenses |-> SumOf(R), third |-> 0]
  OBVIOUS
<1>3. Computed(w) = c
  BY <1>L, <1>T, <1>R, <1>2, <1>c, Zenon DEF Computed
<1>4. SumOf(A) \in Nat /\ SumOf(D) \in Nat /\ SumOf(T) \in Nat /\ SumOf(R) \in Nat
  <2>1. A \subseteq L /\ D \subseteq L /\ T \subseteq L /\ R \subseteq L
    BY <1>A, <1>D, <1>T, <1>R DEF Kept
  <2>2. QED
    BY <1>1, <2>1, BookedPart, SumOfBooked
<1>5. DOMAIN c = Fields /\ \A f \in Fields : c[f] \in Nat
  BY <1>c, <1>4 DEF Fields
<1>6. SumFunction(c) = SumOf(A) + (SumOf(D) + SumOf(T)) + SumOf(R) + 0
  <2>1. SumFunction(c) = c["labor"] + c["travel"] + c["expenses"] + c["third"]
    BY <1>5, SumOfFields
  <2>2. /\ c["labor"] = SumOf(A) /\ c["travel"] = SumOf(D) + SumOf(T)
        /\ c["expenses"] = SumOf(R) /\ c["third"] = 0
    BY <1>c
  <2>3. QED
    BY <2>1, <2>2
<1>7. ((A \cup D) \cup T) \cup R = CountedOn(w)
  <2>1. A \subseteq L /\ D \subseteq L /\ T \subseteq L /\ R \subseteq L /\ CountedOn(w) \subseteq L
    BY <1>L, <1>A, <1>D, <1>T, <1>R DEF Kept, CountedOn
  <2>2. ASSUME NEW l \in L PROVE l \in ((A \cup D) \cup T) \cup R <=> l \in CountedOn(w)
    <3>1. l \in CountedOn(w) <=>
            /\ ~(l.kind = "work" /\ \E k \in L : k.kind = "labor" /\ k.who = l.who)
            /\ ~(l.kind = "drive" /\ \E k \in L : k.kind = "driven" /\ k.who = l.who)
      BY <1>L, <2>2 DEF CountedOn, Replaced
    <3>2. l \in A <=> l.kind = "labor" \/ (l.kind = "work" /\ \A k \in L : k.kind = "labor" => k.who # l.who)
      BY <1>A, <2>2, Zenon DEF Kept
    <3>3. l \in D <=> l.kind = "driven" \/ (l.kind = "drive" /\ \A k \in L : k.kind = "driven" => k.who # l.who)
      BY <1>D, <2>2, Zenon DEF Kept
    <3>4. l \in T \cup R <=> l.kind \notin {"labor", "driven", "work", "drive"}
      BY <1>T, <1>R, <2>2 DEF Clocks, Travels
    <3>5. QED
      BY <3>1, <3>2, <3>3, <3>4
  <2>3. QED
    BY <2>1, <2>2
<1>8. SumOf(CountedOn(w)) = SumOf(A) + SumOf(D) + SumOf(T) + SumOf(R)
  BY <1>A, <1>D, <1>T, <1>R, <1>1, <1>7, FourKinds
<1>9. QED
  BY <1>3, <1>4, <1>5, <1>6, <1>8

\* Amounts typed into a row are amounts, or blank.
OverrideInv ==
    /\ override = [w \in Wos |-> override[w]]
    /\ \A w \in Wos : Edited(w) => override[w] \in [Fields -> TypedAmounts \cup {NoValue}]

LEMMA RowAddsUp ==
    ASSUME Booked(booked), OverrideInv, NEW w \in Wos
    PROVE  /\ Row(w).wo = w /\ Row(w).counted = InTotals(w)
           /\ Total(Row(w)) \in Nat
           /\ ~Edited(w) \/ ~InTotals(w) => Total(Row(w)) = SumOf(CountedOn(w))
           /\ ~InTotals(w) => Total(Row(w)) = 0
<1>c. PICK c : c = Computed(w)
  OBVIOUS
<1>d. PICK d : d = [f \in Fields |-> IF Typed(w, f) # NoValue THEN Typed(w, f) ELSE c[f]]
  OBVIOUS
<1>r. PICK r : r = [wo |-> w, month |-> Month(w), type |-> Type[w], cost |-> d, counted |-> InTotals(w)]
  OBVIOUS
<1>1. Row(w) = r
  BY <1>c, <1>d, <1>r, Zenon DEF Row
<1>2. r.wo = w /\ r.counted = InTotals(w) /\ r.cost = d
  BY <1>r
<1>3. /\ DOMAIN c = Fields /\ \A f \in Fields : c[f] \in Nat
      /\ SumFunction(c) = SumOf(CountedOn(w))
  BY <1>c, ComputedIsCounted
<1>4. DOMAIN d = Fields /\ \A f \in Fields : d[f] \in Nat
  <2>1. ASSUME NEW f \in Fields PROVE d[f] \in Nat
    <3>1. Typed(w, f) \in TypedAmounts \cup {NoValue}
      BY DEF OverrideInv, Typed
    <3>2. QED
      BY <1>d, <1>3, <3>1, TrackerAssumption
  <2>2. QED
    BY <1>d, <2>1
<1>5. Total(r) = SumFunction(d)
  <2>1. [f \in Fields |-> r.cost[f]] = d
    BY <1>d, <1>2
  <2>2. QED
    BY <2>1, Zenon DEF Total
<1>6. /\ SumFunction(c) = c["labor"] + c["travel"] + c["expenses"] + c["third"]
      /\ SumFunction(d) = d["labor"] + d["travel"] + d["expenses"] + d["third"]
  BY <1>3, <1>4, SumOfFields
<1>7. SumFunction(d) \in Nat
  <2>1. d["labor"] \in Nat /\ d["travel"] \in Nat /\ d["expenses"] \in Nat /\ d["third"] \in Nat
    BY <1>4 DEF Fields
  <2>2. QED
    BY <1>6, <2>1
<1>8. ASSUME ~Edited(w) \/ ~InTotals(w) PROVE SumFunction(d) = SumFunction(c)
  <2>1. \A f \in Fields : d[f] = c[f]
    <3>1. \A f \in Fields : Typed(w, f) = NoValue
      BY <1>8 DEF InTotals, Typed
    <3>2. QED
      BY <1>d, <3>1
  <2>2. QED
    BY <1>6, <2>1 DEF Fields
<1>9. ASSUME ~InTotals(w) PROVE SumOf(CountedOn(w)) = 0
  <2>1. CountedOn(w) = {}
    BY <1>9 DEF InTotals, CountedOn
  <2>2. QED
    BY <2>1, SumOfNone
<1>10. QED
  BY <1>1, <1>2, <1>3, <1>5, <1>7, <1>8, <1>9

\* The rows are those of the work orders listed.
LEMMA RowsListed ==
    ASSUME NEW since
    PROVE  /\ TrackerRows(since) \in Seq({Row(w) : w \in Wos})
           /\ \A k \in DOMAIN TrackerRows(since) :
                \E w \in Wos : Listed(w, since) /\ TrackerRows(since)[k] = Row(w)
           /\ \A w \in Wos : Listed(w, since) =>
                \E k \in DOMAIN TrackerRows(since) : TrackerRows(since)[k] = Row(w)
<1>L. PICK L : L = {w \in Wos : Listed(w, since)}
  OBVIOUS
<1>o. PICK order : order = InOrder(L)
  OBVIOUS
<1>r. PICK rows : rows = [k \in DOMAIN order |-> Row(order[k])]
  OBVIOUS
<1>1. TrackerRows(since) = rows
  BY <1>L, <1>o, <1>r, Zenon DEF TrackerRows
<1>2. L \in SUBSET Nat /\ L \subseteq Wos /\ IsFiniteSet(L)
  BY <1>L, TrackerAssumption, FS_Subset
<1>3. Orders(order, L)
  BY <1>o, <1>2, OrderExists, Zenon DEF Orders, InOrder
<1>4. order \in Seq(L) /\ \A w \in L : \E k \in DOMAIN order : order[k] = w
  BY <1>2, <1>3, OrderedList
<1>5. DOMAIN rows = DOMAIN order /\ \A k \in DOMAIN order : rows[k] = Row(order[k]) /\ order[k] \in L
  BY <1>r, <1>4
<1>6. rows \in Seq({Row(w) : w \in Wos})
  <2>1. PICK n \in Nat : DOMAIN order = 1..n
    BY <1>4
  <2>2. rows \in [1..n -> {Row(w) : w \in Wos}]
    BY <1>2, <1>5, <1>r, <2>1
  <2>3. QED
    BY <2>2
<1>7. QED
  BY <1>L, <1>1, <1>2, <1>4, <1>5, <1>6

\* Those that count among them.
LEMMA RowsCounted ==
    ASSUME Booked(booked), OverrideInv, NEW since
    PROVE  /\ IsFiniteSet(CountedRows(TrackerRows(since)))
           /\ IsFiniteSet({TrackerRows(since)[k] : k \in DOMAIN TrackerRows(since)})
           /\ \A r : r \in CountedRows(TrackerRows(since))
                <=> \E w \in Wos : Listed(w, since) /\ InTotals(w) /\ r = Row(w)
<1>R. PICK rows : rows = TrackerRows(since)
  OBVIOUS
<1>f. PICK f : f = [w \in Wos |-> Row(w)]
  OBVIOUS
<1>1. /\ \A k \in DOMAIN rows : \E w \in Wos : Listed(w, since) /\ rows[k] = Row(w)
      /\ \A w \in Wos : Listed(w, since) => \E k \in DOMAIN rows : rows[k] = Row(w)
  BY <1>R, RowsListed
<1>2. \A r : r \in CountedRows(rows) <=> \E k \in DOMAIN rows : r = rows[k] /\ rows[k].counted
  BY DEF CountedRows
<1>3. \A r : r \in CountedRows(rows) <=> \E w \in Wos : Listed(w, since) /\ InTotals(w) /\ r = Row(w)
  BY <1>1, <1>2, RowAddsUp
<1>4. IsFiniteSet({f[w] : w \in Wos})
  BY TrackerAssumption, ImageFinite
<1>5. CountedRows(rows) \subseteq {f[w] : w \in Wos}
  BY <1>f, <1>3
<1>6. {rows[k] : k \in DOMAIN rows} \subseteq {f[w] : w \in Wos}
  BY <1>f, <1>1
<1>7. QED
  BY <1>R, <1>3, <1>4, <1>5, <1>6, FS_Subset

\* What rows come to, and the lines that make them up.
LEMMA CountedOnceHolds ==
    ASSUME Booked(booked), OverrideInv
    PROVE  CountedOnce
<1>S. PICK shown : shown = {w \in Wos : Listed(w, 0) /\ ~Edited(w)}
  OBVIOUS
<1>C. PICK C : C = CountedRows(TrackerRows(0))
  OBVIOUS
<1>P. PICK P : P = {r \in C : ~Edited(r.wo)}
  OBVIOUS
<1>T. PICK T : T = {l \in Approved : l.wo \in shown /\ l \notin Replaced(l.wo)}
  OBVIOUS
<1>g. PICK g : g = [r \in P |-> Total(r)]
  OBVIOUS
<1>k. PICK key : key = [l \in T |-> Row(l.wo)]
  OBVIOUS
<1>p. PICK part : part = [r \in P |-> CountedOn(r.wo)]
  OBVIOUS
<1>1. /\ IsFiniteSet(C)
      /\ \A r : r \in C <=> \E w \in Wos : Listed(w, 0) /\ InTotals(w) /\ r = Row(w)
  BY <1>C, RowsCounted
<1>2. \A w \in Wos : Row(w).wo = w /\ (~Edited(w) => Total(Row(w)) = SumOf(CountedOn(w)))
  BY RowAddsUp
<1>3. IsFiniteSet(P)
  BY <1>P, <1>1, FS_Subset
<1>4. Booked(T)
  BY <1>T, ApprovedBooked, BookedPart
<1>5. \A r : r \in P <=> \E w \in Wos : Listed(w, 0) /\ InTotals(w) /\ ~Edited(w) /\ r = Row(w)
  BY <1>P, <1>1, <1>2
<1>6. \A l \in T : key[l] \in P
  <2> SUFFICES ASSUME NEW l \in T PROVE Row(l.wo) \in P
    BY <1>k
  <2>1. l \in On(Approved, l.wo) /\ l.wo \in shown
    BY <1>T DEF On
  <2>2. InTotals(l.wo)
    BY <2>1 DEF InTotals
  <2>3. QED
    BY <1>S, <1>5, <2>1, <2>2
<1>7. Parts(part, key, T, P)
  <2> SUFFICES ASSUME NEW r \in P
               PROVE  part[r] \in SUBSET T /\ \A l \in T : l \in part[r] <=> key[l] = r
    BY DEF Parts
  <2>1. PICK w \in Wos : Listed(w, 0) /\ ~Edited(w) /\ r = Row(w)
    BY <1>5
  <2>2. part[r] = CountedOn(w)
    BY <1>p, <1>2, <2>1
  <2>3. CountedOn(w) \subseteq T
    BY <1>S, <1>T, <2>1 DEF CountedOn, On
  <2>4. ASSUME NEW l \in T PROVE l \in CountedOn(w) <=> Row(l.wo) = r
    <3>1. l \in Approved /\ l.wo \in Wos /\ l \notin Replaced(l.wo)
      BY <1>S, <1>T
    <3>2. l \in CountedOn(w) <=> l.wo = w
      BY <3>1 DEF CountedOn, On
    <3>3. Row(l.wo) = r <=> l.wo = w
      BY <1>2, <2>1, <3>1
    <3>4. QED
      BY <3>2, <3>3
  <2>5. QED
    BY <1>k, <2>2, <2>3, <2>4
<1>8. DOMAIN g = P /\ \A r \in P : g[r] = SumOf(part[r])
  BY <1>g, <1>p, <1>2, <1>5
<1>9. SumFunction(g) = SumOf(T)
  BY <1>3, <1>4, <1>6, <1>7, <1>8, SumOfClasses
<1>10. Together(P) = SumFunction(g)
  BY <1>g, Zenon DEF Together
<1>11. QED
  BY <1>S, <1>C, <1>P, <1>T, <1>9, <1>10, Zenon DEF CountedOnce

LEMMA SpendAgreesHolds ==
    ASSUME Booked(booked)
    PROVE  SpendAgrees
<1> SUFFICES ASSUME NEW t,
                    {l \in Billable : Type[l.wo] = t} \subseteq Approved,
                    \A w \in Wos : {l \in Billable : Type[l.wo] = t} \cap Replaced(w) = {}
             PROVE  SpendOnType(t) = SumFunction([w \in {w \in Wos : Type[w] = t} |-> SumFunction(Computed(w))])
  BY DEF SpendAgrees
<1>L. PICK L : L = {l \in Billable : Type[l.wo] = t}
  OBVIOUS
<1>K. PICK K : K = {w \in Wos : Type[w] = t}
  OBVIOUS
<1>g. PICK g : g = [w \in K |-> SumFunction(Computed(w))]
  OBVIOUS
<1>k. PICK key : key = [l \in L |-> l.wo]
  OBVIOUS
<1>p. PICK part : part = [w \in K |-> CountedOn(w)]
  OBVIOUS
<1>1. L \subseteq Approved /\ \A w \in Wos : L \cap Replaced(w) = {}
  BY <1>L
<1>2. Booked(L)
  BY <1>1, ApprovedBooked, BookedPart
<1>3. \A l \in L : key[l] \in K
  BY <1>L, <1>K, <1>k, <1>2, LineAmount DEF Booked
<1>4. Parts(part, key, L, K)
  <2> SUFFICES ASSUME NEW w \in K
               PROVE  CountedOn(w) \in SUBSET L /\ \A l \in L : l \in CountedOn(w) <=> l.wo = w
    BY <1>p, <1>k DEF Parts
  <2>1. Approved \subseteq Billable
    BY DEF Approved, Billable, BillableStatuses, PipelineStatuses
  <2>2. CountedOn(w) \in SUBSET L
    BY <1>L, <1>K, <2>1 DEF CountedOn, On
  <2>3. \A l \in L : l \in CountedOn(w) <=> l.wo = w
    BY <1>K, <1>1 DEF CountedOn, On
  <2>4. QED
    BY <2>2, <2>3
<1>5. DOMAIN g = K /\ \A w \in K : g[w] = SumOf(part[w])
  BY <1>g, <1>p, ComputedIsCounted
<1>6. IsFiniteSet(K)
  BY <1>K, TrackerAssumption, FS_Subset
<1>7. SumFunction(g) = SumOf(L)
  BY <1>2, <1>3, <1>4, <1>5, <1>6, SumOfClasses
<1>8. SpendOnType(t) = SumOf(L)
  BY <1>L, Zenon DEF SpendOnType
<1>9. QED
  BY <1>K, <1>g, <1>7, <1>8, Zenon

\* The lines of one visit, all of the owner, less the clock that an expense of
\* the same invoice replaces.
LEMMA VisitIsCounted ==
    ASSUME Booked(booked), NEW i, NEW w, NEW L, L = {l \in On(booked, w) : l.invoice = i},
           \A l \in L : l.kind \in Clocks => l.who = Owner[i],
           NEW V, V = {l \in L : \A k \in L : /\ l.kind = "work" => k.kind # "labor"
                                              /\ l.kind = "drive" => k.kind # "driven"}
    PROVE  Visit(i, w) = SumOf(V)
<1>A. PICK A : A = Kept(L, "labor", "work")
  OBVIOUS
<1>D. PICK D : D = Kept(L, "driven", "drive")
  OBVIOUS
<1>R. PICK R : R = {l \in L : l.kind \notin {"labor", "driven"} \cup Clocks}
  OBVIOUS
<1>1. L \subseteq booked
  BY DEF On
<1>2. Booked(L)
  BY <1>1, BookedPart
<1>o. \A l \in L : l.who = Owner[i] /\ l.owners = l.amount
  <2> SUFFICES ASSUME NEW l \in L PROVE l.who = Owner[i] /\ l.owners = l.amount
    OBVIOUS
  <2>1. l \in Bookable /\ l.invoice = i
    BY <1>2 DEF Booked
  <2>2. l.who = Owner[i]
    BY <2>1, TrackerAssumption DEF Bookable, Clocks
  <2>3. QED
    BY <2>1, <2>2, TrackerAssumption DEF Bookable
<1>3. \A k, l \in L : k.who = l.who
  BY <1>o
<1>h. ASSUME NEW manual \in {"labor", "driven"}, NEW clock \in Clocks
      PROVE  VisitHours(L, manual, clock) = Resolved(L, manual, clock)
  <2>1. [l \in {l \in L : l.kind = clock} |-> l.owners] = [l \in {l \in L : l.kind = clock} |-> l.amount]
    BY <1>o
  <2>2. SumFunction([l \in {l \in L : l.kind = clock} |-> l.owners]) = SumOf({l \in L : l.kind = clock})
    BY <2>1, Zenon DEF SumOf
  <2>3. QED
    BY <2>2, Zenon DEF VisitHours, Resolved
<1>4. VisitHours(L, "labor", "work") = SumOf(A) /\ VisitHours(L, "driven", "drive") = SumOf(D)
  <2>1. Resolved(L, "labor", "work") = SumOf(A) /\ Resolved(L, "driven", "drive") = SumOf(D)
    BY <1>A, <1>D, <1>2, <1>3, ResolvedIsKept DEF Clocks
  <2>2. QED
    BY <1>h, <2>1 DEF Clocks
<1>5. Visit(i, w) = SumOf(A) + SumOf(D) + SumOf(R)
  BY <1>R, <1>4, Zenon DEF Visit
<1>6. A \subseteq L /\ D \subseteq L /\ R \subseteq L
  BY <1>A, <1>D, <1>R DEF Kept
<1>7. Booked(A) /\ Booked(D) /\ Booked(R)
  BY <1>2, <1>6, BookedPart
<1>8. A \cap D = {} /\ (A \cup D) \cap R = {}
  <2>1. \A l \in A : l.kind \in {"labor", "work"}
    BY <1>A DEF Kept
  <2>2. \A l \in D : l.kind \in {"driven", "drive"}
    BY <1>D DEF Kept
  <2>3. QED
    BY <1>R, <2>1, <2>2 DEF Clocks
<1>9. Booked(A \cup D) /\ SumOf(A \cup D) = SumOf(A) + SumOf(D)
  BY <1>7, <1>8, SumOfApart
<1>10. SumOf((A \cup D) \cup R) = SumOf(A \cup D) + SumOf(R)
  BY <1>7, <1>8, <1>9, SumOfApart
<1>11. (A \cup D) \cup R = V
  <2>1. V \subseteq L
    OBVIOUS
  <2>2. ASSUME NEW l \in L PROVE l \in (A \cup D) \cup R <=> l \in V
    <3>1. l \in A <=> l.kind = "labor" \/ (l.kind = "work" /\ \A k \in L : k.kind = "labor" => k.who # l.who)
      BY <1>A, <2>2, Zenon DEF Kept
    <3>2. l \in D <=> l.kind = "driven" \/ (l.kind = "drive" /\ \A k \in L : k.kind = "driven" => k.who # l.who)
      BY <1>D, <2>2, Zenon DEF Kept
    <3>3. l \in R <=> l.kind \notin {"labor", "driven", "work", "drive"}
      BY <1>R, <2>2 DEF Clocks
    <3>4. l \in V <=> /\ l.kind = "work" => \A k \in L : k.kind # "labor"
                      /\ l.kind = "drive" => \A k \in L : k.kind # "driven"
      BY <2>2
    <3>5. \A k \in L : k.who = l.who
      BY <1>3, <2>2
    <3>6. QED
      BY <3>1, <3>2, <3>3, <3>4, <3>5
  <2>3. QED
    BY <1>6, <2>1, <2>2
<1>12. QED
  BY <1>5, <1>9, <1>10, <1>11

LEMMA PipelineAgreesHolds ==
    ASSUME Booked(booked)
    PROVE  PipelineAgrees
<1> SUFFICES ASSUME NEW w \in Wos, OwnHours(w),
                    \A l \in Replaced(w) : \A k \in On(Approved, w) :
                       k.who = l.who /\ k.kind \in {"labor", "driven", "work", "drive"} => k.invoice = l.invoice
             PROVE  SumFunction(Computed(w))
                      = SumFunction([i \in {i \in TrackerInvoices : stage[i] \in ApprovedStatuses} |-> Visit(i, w)])
  BY DEF PipelineAgrees
<1>L. PICK L : L = CountedOn(w)
  OBVIOUS
<1>K. PICK K : K = {i \in TrackerInvoices : stage[i] \in ApprovedStatuses}
  OBVIOUS
<1>g. PICK g : g = [i \in K |-> Visit(i, w)]
  OBVIOUS
<1>k. PICK key : key = [l \in L |-> l.invoice]
  OBVIOUS
<1>v. PICK visit : visit = [i \in K |-> {l \in On(booked, w) : l.invoice = i}]
  OBVIOUS
<1>p. PICK part : part = [i \in K |-> {l \in visit[i] : \A k \in visit[i] :
                                          /\ l.kind = "work" => k.kind # "labor"
                                          /\ l.kind = "drive" => k.kind # "driven"}]
  OBVIOUS
<1>1. Booked(L) /\ L \subseteq Approved
  BY <1>L, ApprovedBooked DEF CountedOn, On
<1>2. \A l \in L : key[l] \in K
  BY <1>K, <1>k, <1>1, LineAmount DEF Booked, Approved
<1>3. DOMAIN g = K /\ \A i \in K : g[i] = SumOf(part[i])
  <2>1. ASSUME NEW i \in K PROVE Visit(i, w) = SumOf(part[i])
    <3>1. visit[i] = {l \in On(booked, w) : l.invoice = i}
      BY <1>v
    <3>2. part[i] = {l \in visit[i] : \A k \in visit[i] :
                        /\ l.kind = "work" => k.kind # "labor"
                        /\ l.kind = "drive" => k.kind # "driven"}
      BY <1>p
    <3>3. \A l \in visit[i] : l.kind \in Clocks => l.who = Owner[i]
      BY <1>K, <2>1, <3>1 DEF OwnHours, On, Approved
    <3>4. QED
      BY <3>1, <3>2, <3>3, VisitIsCounted
  <2>2. QED
    BY <1>g, <2>1
<1>4. Parts(part, key, L, K)
  <2> SUFFICES ASSUME NEW i \in K
               PROVE  part[i] \in SUBSET L /\ \A l \in L : l \in part[i] <=> l.invoice = i
    BY <1>k DEF Parts
  <2>1. \A l : l \in visit[i] <=> l \in On(Approved, w) /\ l.invoice = i
    BY <1>v, <1>K DEF On, Approved
  <2>2. \A l : l \in L <=> l \in On(Approved, w) /\ l \notin Replaced(w)
    BY <1>L DEF CountedOn
  <2>3. \A l \in visit[i] : \A k \in visit[i] : k.who = l.who
    <3> SUFFICES ASSUME NEW k \in visit[i], NEW l \in visit[i] PROVE k.who = l.who
      OBVIOUS
    <3>1. /\ k \in Bookable /\ k.invoice = i /\ (k.kind \in Clocks => k.who = Owner[i])
          /\ l \in Bookable /\ l.invoice = i /\ (l.kind \in Clocks => l.who = Owner[i])
      BY <2>1, ApprovedBooked DEF Booked, OwnHours
    <3>2. k.who = Owner[i] /\ l.who = Owner[i]
      BY <3>1, TrackerAssumption DEF Bookable, Clocks
    <3>3. QED
      BY <3>2
  <2>4. ASSUME NEW l \in visit[i] PROVE l \in part[i] <=> l \notin Replaced(w)
    <3>1. l \in part[i] <=> \A k \in visit[i] : /\ l.kind = "work" => k.kind # "labor"
                                                /\ l.kind = "drive" => k.kind # "driven"
      BY <1>p, <2>4
    <3>2. l \in Replaced(w) <=>
            \/ l.kind = "work" /\ \E k \in On(Approved, w) : k.kind = "labor" /\ k.who = l.who
            \/ l.kind = "drive" /\ \E k \in On(Approved, w) : k.kind = "driven" /\ k.who = l.who
      BY <2>1, <2>4 DEF Replaced
    <3>3. ASSUME l \notin part[i] PROVE l \in Replaced(w)
      BY <2>1, <2>3, <2>4, <3>1, <3>2, <3>3
    <3>4. ASSUME l \in Replaced(w) PROVE l \notin part[i]
      <4>1. \A k \in On(Approved, w) : k.who = l.who /\ k.kind \in {"labor", "driven"} => k \in visit[i]
        BY <2>1, <2>4, <3>4
      <4>2. QED
        BY <3>1, <3>2, <3>4, <4>1
    <3>5. QED
      BY <3>3, <3>4
  <2>5. part[i] \subseteq visit[i]
    BY <1>p
  <2>6. QED
    BY <2>1, <2>2, <2>4, <2>5
<1>5. IsFiniteSet(K)
  BY <1>K, TrackerAssumption, FS_Subset
<1>6. SumFunction(g) = SumOf(L)
  BY <1>1, <1>2, <1>3, <1>4, <1>5, SumOfClasses
<1>7. SumFunction(Computed(w)) = SumOf(L)
  BY <1>L, ComputedIsCounted
<1>8. QED
  BY <1>K, <1>g, <1>6, <1>7, Zenon

\* A figure for each class of rows, and one for all of them.
LEMMA TogetherOfClasses ==
    ASSUME NEW K, IsFiniteSet(K), NEW S, IsFiniteSet(S), \A r \in S : Total(r) \in Nat,
           NEW key, \A r \in S : key[r] \in K, NEW part, Parts(part, key, S, K),
           NEW g, DOMAIN g = K, \A k \in K : g[k] = Together(part[k])
    PROVE  SumFunction(g) = Together(S)
<1>f. PICK f : f = [r \in S |-> Total(r)]
  OBVIOUS
<1>1. \A r \in S : f[r] \in Nat
  BY <1>f
<1>2. ASSUME NEW T, T \in SUBSET S
      PROVE  Together(T) = SumFunctionOnSet(f, T) /\ Together(T) \in Nat
  <2>h. PICK h : h = [r \in T |-> Total(r)]
    OBVIOUS
  <2>1. IsFiniteSet(T) /\ DOMAIN h = T /\ \A r \in T : h[r] \in Nat /\ h[r] = f[r]
    BY <1>f, <1>2, <2>h, FS_Subset
  <2>2. SumFunction(h) = SumFunctionOnSet(f, T)
    BY <2>1, SumWithin
  <2>3. SumFunctionOnSet(f, T) \in Nat
    BY <2>1, SumNat
  <2>4. Together(T) = SumFunction(h)
    BY <2>h, Zenon DEF Together
  <2>5. QED
    BY <2>2, <2>3, <2>4
<1>3. \A k \in K : part[k] \in SUBSET S
  BY DEF Parts
<1>4. \A k \in K : g[k] = SumFunctionOnSet(f, part[k]) /\ g[k] \in Nat
  BY <1>2, <1>3
<1>5. SumFunctionOnSet(g, K) = SumFunctionOnSet(f, S)
  BY <1>1, <1>4, SumPartition
<1>6. SumFunction(g) = SumFunctionOnSet(g, K)
  BY <1>4, SumWithin
<1>7. QED
  BY <1>2, <1>5, <1>6

\* Rows that come to nothing may be left out.
LEMMA TogetherOfPart ==
    ASSUME NEW S, IsFiniteSet(S), \A r \in S : Total(r) \in Nat,
           NEW T \in SUBSET S, \A r \in S \ T : Total(r) = 0
    PROVE  Together(S) = Together(T)
<1>f. PICK f : f = [r \in S |-> Total(r)]
  OBVIOUS
<1>h. PICK h : h = [r \in T |-> Total(r)]
  OBVIOUS
<1>1. IsFiniteSet(T) /\ DOMAIN h = T /\ \A r \in T : h[r] \in Nat /\ h[r] = f[r]
  BY <1>f, <1>h, FS_Subset
<1>2. DOMAIN f = S /\ (\A r \in S : f[r] \in Nat) /\ \A r \in S \ T : f[r] = 0
  BY <1>f
<1>3. SumFunction(h) = SumFunctionOnSet(f, T)
  BY <1>1, SumWithin
<1>4. SumFunctionOnSet(f, S) = SumFunctionOnSet(f, T)
  BY <1>2, SumOfPart
<1>5. SumFunction(f) = SumFunctionOnSet(f, S)
  BY <1>2, Zenon DEF SumFunction
<1>6. Together(S) = SumFunction(f) /\ Together(T) = SumFunction(h)
  BY <1>f, <1>h, Zenon DEF Together
<1>7. QED
  BY <1>3, <1>4, <1>5, <1>6

LEMMA MonthsAddUp ==
    ASSUME NEW rows, NEW C, C = CountedRows(rows), IsFiniteSet(C), \A r \in C : Total(r) \in Nat
    PROVE  MonthlyTotal(Monthly(rows)) = Together(C)
<1>m. PICK months : months = {r.month : r \in C}
  OBVIOUS
<1>t. PICK types : types = {r.type : r \in C}
  OBVIOUS
<1>k. PICK key : key = [r \in C |-> r.month]
  OBVIOUS
<1>l. PICK kind : kind = [r \in C |-> r.type]
  OBVIOUS
<1>p. PICK part : part = [m \in months |-> {r \in C : r.month = m}]
  OBVIOUS
<1>1. IsFiniteSet(months)
  <2>1. IsFiniteSet({key[r] : r \in C})
    BY ImageFinite
  <2>2. {key[r] : r \in C} = months
    BY <1>m, <1>k
  <2>3. QED
    BY <2>1, <2>2
<1>2. IsFiniteSet(types)
  <2>1. IsFiniteSet({kind[r] : r \in C})
    BY ImageFinite
  <2>2. {kind[r] : r \in C} = types
    BY <1>t, <1>l
  <2>3. QED
    BY <2>1, <2>2
<1>o. PICK monthly : monthly = [m \in months |-> [t \in types |-> Together({r \in C : r.month = m /\ r.type = t})]]
  OBVIOUS
<1>3. Monthly(rows) = monthly
  BY <1>m, <1>t, <1>o, Zenon DEF Monthly
<1>g. PICK g : g = [m \in months |-> SumFunction(monthly[m])]
  OBVIOUS
<1>4. MonthlyTotal(monthly) = SumFunction(g)
  <2>1. DOMAIN monthly = months
    BY <1>o
  <2>2. QED
    BY <1>g, <2>1, Zenon DEF MonthlyTotal
<1>5. ASSUME NEW m \in months PROVE g[m] = Together(part[m])
  <2>s. PICK S : S = {r \in C : r.month = m}
    OBVIOUS
  <2>p. PICK class : class = [t \in types |-> {r \in C : r.month = m /\ r.type = t}]
    OBVIOUS
  <2>1. S \subseteq C /\ IsFiniteSet(S) /\ \A r \in S : Total(r) \in Nat
    BY <2>s, FS_Subset
  <2>2. \A r \in S : kind[r] \in types
    BY <1>t, <1>l, <2>1
  <2>3. Parts(class, kind, S, types)
    <3> SUFFICES ASSUME NEW t \in types
                 PROVE  class[t] \in SUBSET S /\ \A r \in S : r \in class[t] <=> kind[r] = t
      BY DEF Parts
    <3>1. class[t] = {r \in C : r.month = m /\ r.type = t}
      BY <2>p
    <3>2. QED
      BY <1>l, <2>s, <3>1
  <2>4. DOMAIN monthly[m] = types /\ \A t \in types : monthly[m][t] = Together(class[t])
    <3>1. monthly[m] = [t \in types |-> Together({r \in C : r.month = m /\ r.type = t})]
      BY <1>o, <1>5
    <3>2. ASSUME NEW t \in types PROVE monthly[m][t] = Together(class[t])
      <4>1. monthly[m][t] = Together({r \in C : r.month = m /\ r.type = t})
        BY <3>1, <3>2, Zenon
      <4>2. class[t] = {r \in C : r.month = m /\ r.type = t}
        BY <2>p, <3>2, Zenon
      <4>3. QED
        BY <4>1, <4>2, Zenon
    <3>3. QED
      BY <3>1, <3>2
  <2>5. SumFunction(monthly[m]) = Together(S)
    BY <1>2, <2>1, <2>2, <2>3, <2>4, TogetherOfClasses
  <2>6. g[m] = SumFunction(monthly[m]) /\ part[m] = S
    BY <1>g, <1>p, <1>5, <2>s
  <2>7. QED
    BY <2>5, <2>6
<1>6. Parts(part, key, C, months) /\ \A r \in C : key[r] \in months
  BY <1>m, <1>k, <1>p DEF Parts
<1>7. DOMAIN g = months
  BY <1>g
<1>8. SumFunction(g) = Together(C)
  BY <1>1, <1>5, <1>6, <1>7, TogetherOfClasses
<1>9. QED
  BY <1>3, <1>4, <1>8

\* Both tables of a push are made of the same rows.
LEMMA TablesReconcile ==
    ASSUME Booked(booked), OverrideInv, NEW since
    PROVE  Reconciled(Tables(since))
<1>R. PICK rows : rows = TrackerRows(since)
  OBVIOUS
<1>A. PICK A : A = {rows[k] : k \in DOMAIN rows}
  OBVIOUS
<1>C. PICK C : C = CountedRows(rows)
  OBVIOUS
<1>1. /\ IsFiniteSet(A) /\ IsFiniteSet(C)
      /\ \A r : r \in C <=> \E w \in Wos : Listed(w, since) /\ InTotals(w) /\ r = Row(w)
  BY <1>R, <1>A, <1>C, RowsCounted
<1>2. \A k \in DOMAIN rows : \E w \in Wos : Listed(w, since) /\ rows[k] = Row(w)
  BY <1>R, RowsListed
<1>3. \A r \in A : \E w \in Wos : Listed(w, since) /\ r = Row(w)
  BY <1>A, <1>2
<1>4. C \in SUBSET A
  BY <1>A, <1>C DEF CountedRows
<1>5. (\A r \in A : Total(r) \in Nat) /\ \A r \in A \ C : Total(r) = 0
  BY <1>1, <1>3, RowAddsUp
<1>6. Together(A) = Together(C)
  BY <1>1, <1>4, <1>5, TogetherOfPart
<1>7. MonthlyTotal(Monthly(rows)) = Together(C)
  BY <1>C, <1>1, <1>4, <1>5, MonthsAddUp
<1>m. PICK monthly : monthly = Monthly(rows)
  OBVIOUS
<1>8. Tables(since).main = rows /\ Tables(since).dashboard = <<monthly>>
  BY <1>R, <1>m DEF Tables
<1>9. Len(<<monthly>>) = 1 /\ <<monthly>>[1] = monthly
  OBVIOUS
<1>10. QED
  BY <1>A, <1>m, <1>6, <1>7, <1>8, <1>9 DEF Reconciled

\* An open form is of a work order, filled in with amounts or blank.
FormsInv ==
    /\ forms = [m \in Editors |-> forms[m]]
    /\ \A m \in Editors : forms[m] # NoValue =>
         forms[m].wo \in Wos /\ forms[m].body \in [Fields -> TypedAmounts \cup {NoValue}]

\* Tables that a push was started with.
Snapshot(t) ==
    /\ t = [main |-> t.main, dashboard |-> t.dashboard]
    /\ (\E S : t.main \in Seq(S)) /\ (\E S : t.dashboard \in Seq(S))
    /\ Reconciled(t)

IsPush(q) == q = [tables |-> q.tables, tab |-> q.tab, cleared |-> q.cleared]

PushShape ==
    /\ sheet = [main |-> sheet.main, dashboard |-> sheet.dashboard]
    /\ pushes = [p \in Pushes |-> pushes[p]]
    /\ \A p \in Pushes :
         /\ IsPush(pushes[p])
         /\ pushes[p].tab \in {0, 1, 2} /\ pushes[p].cleared \in BOOLEAN
         /\ p \in UnderWay => Snapshot(pushes[p].tables)

\* Undisturbed, a push is alone, and the tabs it has done with are as it left them.
PushReach ==
    ~disturbed =>
        \A p \in UnderWay :
           /\ \A q \in UnderWay : q = p
           /\ pushes[p].tab = 1 /\ pushes[p].cleared => sheet.main = <<>>
           /\ pushes[p].tab = 2 => sheet.main = pushes[p].tables.main
           /\ pushes[p].tab = 2 /\ pushes[p].cleared => sheet.dashboard = <<>>

BooksInv == Booked(booked) /\ OverrideInv /\ FormsInv /\ PushShape /\ PushReach /\ SheetReconciles

LEMMA WrittenAnew ==
    ASSUME NEW S, NEW new \in Seq(S)
    PROVE  Written(<<>>, new) = new
<1>1. Len(new) \in Nat /\ Len(<<>>) = 0
  OBVIOUS
<1>2. SubSeq(<<>>, Len(new) + 1, 0) = <<>>
  BY <1>1
<1>3. new \o <<>> = new
  OBVIOUS
<1>4. QED
  BY <1>1, <1>2, <1>3 DEF Written

LEMMA RowsAreSnapshot ==
    ASSUME Booked(booked), OverrideInv, NEW since
    PROVE  Snapshot(Tables(since))
<1>1. Tables(since).main \in Seq({Row(w) : w \in Wos})
  BY RowsListed DEF Tables
<1>2. Tables(since).dashboard \in Seq({Monthly(TrackerRows(since))})
  BY DEF Tables
<1>3. Tables(since) = [main |-> Tables(since).main, dashboard |-> Tables(since).dashboard]
  BY DEF Tables
<1>4. QED
  BY <1>1, <1>2, <1>3, TablesReconcile DEF Snapshot

LEMMA SheetUntouched ==
    ASSUME PushShape, PushReach, SheetReconciles, UNCHANGED push
    PROVE  PushShape' /\ PushReach' /\ SheetReconciles'
BY DEF PushShape, PushReach, SheetReconciles, push, UnderWay, Idle

LEMMA LedgerKeepsBooks ==
    ASSUME BooksInv, LedgerNext
    PROVE  BooksInv'
<1>1. booked' \subseteq booked \/ \E l \in Bookable : booked' = booked \cup {l}
  BY DEF LedgerNext, BookLine, SyncLine, RemoveLine, Advance, PatchWo, Bookable
<1>2. Booked(booked')
  BY <1>1, FS_AddElement, FS_Subset DEF BooksInv, Booked
<1>3. UNCHANGED <<edits, push>>
  BY DEF LedgerNext, BookLine, SyncLine, RemoveLine, Advance, PatchWo
<1>4. OverrideInv' /\ FormsInv'
  BY <1>3 DEF BooksInv, OverrideInv, FormsInv, Edited, edits
<1>5. QED
  BY <1>2, <1>3, <1>4, SheetUntouched DEF BooksInv

LEMMA EditKeepsBooks ==
    ASSUME BooksInv, EditNext
    PROVE  BooksInv'
<1>1. PICK m \in Editors :
         \/ \E w \in Wos : OpenRow(m, w)
         \/ \E f \in Fields, v \in TypedAmounts \cup {NoValue} : SaveRow(m, f, v)
         \/ ResetRow(m) \/ CloseRow(m)
  BY DEF EditNext
<1>2. UNCHANGED <<booked, push>>
  BY <1>1 DEF OpenRow, SaveRow, ResetRow, CloseRow, ledger
<1>3. OverrideInv' /\ FormsInv'
  <2>0. OverrideInv /\ FormsInv
    BY DEF BooksInv
  <2>1. ASSUME NEW w \in Wos, OpenRow(m, w) PROVE OverrideInv' /\ FormsInv'
    <3>1. [f \in Fields |-> Typed(w, f)] \in [Fields -> TypedAmounts \cup {NoValue}]
      BY <2>0 DEF OverrideInv, Typed
    <3>f. PICK form : form = [wo |-> w, body |-> [f \in Fields |-> Typed(w, f)]]
      OBVIOUS
    <3>2. form.wo \in Wos /\ form.body \in [Fields -> TypedAmounts \cup {NoValue}]
      BY <3>1, <3>f
    <3>3. forms' = [forms EXCEPT ![m] = form] /\ override' = override
      BY <2>1, <3>f DEF OpenRow
    <3>4. QED
      BY <2>0, <3>2, <3>3 DEF OverrideInv, FormsInv, Edited
  <2>2. ASSUME NEW f \in Fields, NEW v \in TypedAmounts \cup {NoValue}, SaveRow(m, f, v)
        PROVE  OverrideInv' /\ FormsInv'
    <3>b. PICK b : b = [forms[m].body EXCEPT ![f] = v]
      OBVIOUS
    <3>1. forms[m].wo \in Wos /\ b \in [Fields -> TypedAmounts \cup {NoValue}]
      BY <2>0, <2>2, <3>b DEF SaveRow, FormsInv
    <3>2. override' = [override EXCEPT ![forms[m].wo] = b] /\ forms' = [forms EXCEPT ![m] = NoValue]
      BY <2>2, <3>b DEF SaveRow
    <3>3. QED
      BY <2>0, <3>1, <3>2 DEF OverrideInv, FormsInv, Edited
  <2>3. ASSUME ResetRow(m) PROVE OverrideInv' /\ FormsInv'
    <3>1. forms[m].wo \in Wos
      BY <2>0, <2>3 DEF ResetRow, FormsInv
    <3>2. override' = [override EXCEPT ![forms[m].wo] = NoValue] /\ forms' = [forms EXCEPT ![m] = NoValue]
      BY <2>3 DEF ResetRow
    <3>3. QED
      BY <2>0, <3>1, <3>2 DEF OverrideInv, FormsInv, Edited
  <2>4. ASSUME CloseRow(m) PROVE OverrideInv' /\ FormsInv'
    BY <2>0, <2>4 DEF CloseRow, OverrideInv, FormsInv, Edited
  <2>5. QED
    BY <1>1, <2>1, <2>2, <2>3, <2>4
<1>4. QED
  BY <1>2, <1>3, SheetUntouched DEF BooksInv

\* One tab is written at a time.
LEMMA OneTab ==
    ASSUME NEW s, s = [main |-> s.main, dashboard |-> s.dashboard], NEW x
    PROVE  /\ [s EXCEPT !["main"] = x] = [main |-> x, dashboard |-> s.dashboard]
           /\ [s EXCEPT !["dashboard"] = x] = [main |-> s.main, dashboard |-> x]
<1>a. PICK a : a = s.main
  OBVIOUS
<1>b. PICK b : b = s.dashboard
  OBVIOUS
<1>1. s = [main |-> a, dashboard |-> b]
  BY <1>a, <1>b
<1>d. DOMAIN s = {"main", "dashboard"} /\ s = [f \in {"main", "dashboard"} |-> s[f]]
  BY <1>1
<1>2. /\ [s EXCEPT !["main"] = x] = [main |-> x, dashboard |-> b]
      /\ [s EXCEPT !["dashboard"] = x] = [main |-> a, dashboard |-> x]
  <2>1. [s EXCEPT !["main"] = x] = [main |-> x, dashboard |-> b]
    <3>1. [s EXCEPT !["main"] = x] = [f \in {"main", "dashboard"} |-> IF f = "main" THEN x ELSE s[f]]
      BY <1>d
    <3>2. [main |-> x, dashboard |-> b] = [f \in {"main", "dashboard"} |-> IF f = "main" THEN x ELSE b]
      OBVIOUS
    <3>3. s["dashboard"] = b
      BY <1>b
    <3>4. QED
      BY <3>1, <3>2, <3>3
  <2>2. [s EXCEPT !["dashboard"] = x] = [main |-> a, dashboard |-> x]
    <3>1. [s EXCEPT !["dashboard"] = x] = [f \in {"main", "dashboard"} |-> IF f = "dashboard" THEN x ELSE s[f]]
      BY <1>d
    <3>2. [main |-> a, dashboard |-> x] = [f \in {"main", "dashboard"} |-> IF f = "dashboard" THEN x ELSE a]
      OBVIOUS
    <3>3. s["main"] = a
      BY <1>a
    <3>4. QED
      BY <3>1, <3>2, <3>3
  <2>3. QED
    BY <2>1, <2>2
<1>3. QED
  BY <1>a, <1>b, <1>2

LEMMA StartKeepsSheet ==
    ASSUME BooksInv, NEW p \in Pushes, NEW since, StartPush(p, since)
    PROVE  PushShape' /\ PushReach' /\ SheetReconciles'
<1>t. PICK t : t = Tables(since)
  OBVIOUS
<1>1. Snapshot(t)
  BY <1>t, RowsAreSnapshot DEF BooksInv
<1>2. /\ p \notin UnderWay /\ sheet' = sheet /\ disturbed' = ~Idle
      /\ pushes' = [pushes EXCEPT ![p] = [tables |-> t, tab |-> 1, cleared |-> FALSE]]
  BY <1>t DEF StartPush
<1>n. PICK n : n = [tables |-> t, tab |-> 1, cleared |-> FALSE]
  OBVIOUS
<1>3. n.tables = t /\ n.tab = 1 /\ n.cleared = FALSE /\ IsPush(n)
  BY <1>n DEF IsPush
<1>4. pushes' = [pushes EXCEPT ![p] = n] /\ pushes = [q \in Pushes |-> pushes[q]]
  BY <1>2, <1>n DEF BooksInv, PushShape
<1>5. pushes'[p] = n /\ \A q \in Pushes : q # p => pushes'[q] = pushes[q]
  BY <1>4
<1>6. UnderWay' = UnderWay \cup {p}
  BY <1>3, <1>5 DEF UnderWay
<1>7. PushShape'
  BY <1>1, <1>2, <1>3, <1>4, <1>5, <1>6 DEF BooksInv, PushShape
<1>8. PushReach'
  <2>1. ~disturbed' => UnderWay' = {p}
    BY <1>2, <1>6 DEF Idle
  <2>2. pushes'[p].tab = 1 /\ pushes'[p].cleared = FALSE
    BY <1>3, <1>5
  <2>3. QED
    BY <2>1, <2>2 DEF PushReach
<1>9. SheetReconciles'
  BY <1>6 DEF SheetReconciles, Idle
<1>10. QED
  BY <1>7, <1>8, <1>9

LEMMA ClearKeepsSheet ==
    ASSUME BooksInv, NEW p \in Pushes, NEW done \in BOOLEAN, ClearTab(p, done)
    PROVE  PushShape' /\ PushReach' /\ SheetReconciles'
<1>0. PushShape /\ PushReach
  BY DEF BooksInv
<1>1. p \in UnderWay /\ disturbed' = (disturbed \/ ~done)
  BY DEF ClearTab
<1>c. PICK shut : shut = TRUE
  OBVIOUS
<1>2. pushes' = [pushes EXCEPT ![p].cleared = shut] /\ pushes = [q \in Pushes |-> pushes[q]]
  BY <1>0, <1>c DEF ClearTab, PushShape
<1>3. /\ pushes'[p] = [tables |-> pushes[p].tables, tab |-> pushes[p].tab, cleared |-> shut]
      /\ \A q \in Pushes : q # p => pushes'[q] = pushes[q]
  BY <1>0, <1>2 DEF PushShape, IsPush
<1>4. pushes'[p].tables = pushes[p].tables /\ pushes'[p].tab = pushes[p].tab /\ pushes'[p].cleared = TRUE /\ IsPush(pushes'[p])
  BY <1>3, <1>c DEF IsPush
<1>5. UnderWay' = UnderWay
  BY <1>3, <1>4 DEF UnderWay
<1>6. pushes[p].tab \in {1, 2}
  BY <1>0, <1>1 DEF PushShape, UnderWay
<1>7. /\ sheet' = [main |-> sheet'.main, dashboard |-> sheet'.dashboard]
      /\ done /\ pushes[p].tab = 1 => sheet'.main = <<>>
      /\ done /\ pushes[p].tab = 2 => sheet'.main = sheet.main /\ sheet'.dashboard = <<>>
  <2>1. sheet = [main |-> sheet.main, dashboard |-> sheet.dashboard]
    BY <1>0 DEF PushShape
  <2>2. CASE ~done
    BY <2>1, <2>2 DEF ClearTab
  <2>3. CASE done /\ pushes[p].tab = 1
    <3>1. sheet' = [sheet EXCEPT !["main"] = <<>>]
      BY <2>3 DEF ClearTab, Tabs
    <3>2. sheet' = [main |-> <<>>, dashboard |-> sheet.dashboard]
      BY <2>1, <3>1, OneTab
    <3>3. QED
      BY <2>3, <3>2
  <2>4. CASE done /\ pushes[p].tab = 2
    <3>1. sheet' = [sheet EXCEPT !["dashboard"] = <<>>]
      BY <2>4 DEF ClearTab, Tabs
    <3>2. sheet' = [main |-> sheet.main, dashboard |-> <<>>]
      BY <2>1, <3>1, OneTab
    <3>3. QED
      BY <2>4, <3>2
  <2>5. QED
    BY <1>6, <2>2, <2>3, <2>4
<1>8. PushShape'
  <2>1. pushes' = [q \in Pushes |-> pushes'[q]]
    BY <1>2
  <2>2. ASSUME NEW q \in Pushes
        PROVE  /\ IsPush(pushes'[q])
               /\ pushes'[q].tab \in {0, 1, 2} /\ pushes'[q].cleared \in BOOLEAN
               /\ q \in UnderWay' => Snapshot(pushes'[q].tables)
    BY <1>0, <1>c, <1>3, <1>4, <1>5 DEF PushShape
  <2>3. QED
    BY <1>7, <2>1, <2>2 DEF PushShape
<1>9. PushReach'
  <2> SUFFICES ASSUME ~disturbed', NEW q \in UnderWay
               PROVE  /\ \A r \in UnderWay : r = q
                      /\ pushes'[q].tab = 1 /\ pushes'[q].cleared => sheet'.main = <<>>
                      /\ pushes'[q].tab = 2 => sheet'.main = pushes'[q].tables.main
                      /\ pushes'[q].tab = 2 /\ pushes'[q].cleared => sheet'.dashboard = <<>>
    BY <1>5 DEF PushReach
  <2>1. ~disturbed /\ done
    BY <1>1
  <2>2. q = p /\ \A r \in UnderWay : r = p
    BY <1>0, <1>1, <2>1 DEF PushReach
  <2>3. pushes[p].tab = 2 => sheet.main = pushes[p].tables.main
    BY <1>0, <1>1, <2>1 DEF PushReach
  <2>4. QED
    BY <1>4, <1>7, <2>1, <2>2, <2>3
<1>10. SheetReconciles'
  BY <1>1, <1>5 DEF SheetReconciles, Idle
<1>11. QED
  BY <1>8, <1>9, <1>10

LEMMA FailKeepsSheet ==
    ASSUME BooksInv, NEW p \in Pushes, FailPush(p)
    PROVE  PushShape' /\ PushReach' /\ SheetReconciles'
<1>0. PushShape
  BY DEF BooksInv
<1>1. pushes' = [pushes EXCEPT ![p] = NoPush] /\ disturbed' = TRUE /\ sheet' = sheet
  BY DEF FailPush
<1>2. pushes'[p] = NoPush /\ \A q \in Pushes : q # p => pushes'[q] = pushes[q]
  BY <1>0, <1>1 DEF PushShape
<1>n. IsPush(NoPush) /\ NoPush.tab = 0 /\ NoPush.cleared = FALSE
  BY DEF NoPush, IsPush
<1>3. UnderWay' = UnderWay \ {p}
  BY <1>2 DEF UnderWay, NoPush
<1>4. PushShape'
  <2>1. pushes' = [q \in Pushes |-> pushes'[q]]
    BY <1>0, <1>1 DEF PushShape
  <2>2. ASSUME NEW q \in Pushes
        PROVE  /\ IsPush(pushes'[q])
               /\ pushes'[q].tab \in {0, 1, 2} /\ pushes'[q].cleared \in BOOLEAN
               /\ q \in UnderWay' => Snapshot(pushes'[q].tables)
    <3>1. CASE q = p
      BY <1>2, <1>3, <1>n, <3>1
    <3>2. CASE q # p
      BY <1>0, <1>2, <1>3, <3>2 DEF PushShape
    <3>3. QED
      BY <3>1, <3>2
  <2>3. QED
    BY <1>0, <1>1, <2>1, <2>2 DEF PushShape
<1>5. PushReach' /\ SheetReconciles'
  BY <1>1 DEF PushReach, SheetReconciles
<1>6. QED
  BY <1>4, <1>5

LEMMA WriteKeepsSheet ==
    ASSUME BooksInv, NEW p \in Pushes, WriteTab(p)
    PROVE  PushShape' /\ PushReach' /\ SheetReconciles'
<1>0. PushShape /\ PushReach
  BY DEF BooksInv
<1>q. PICK q : q = pushes[p]
  OBVIOUS
<1>1. /\ p \in UnderWay /\ q.cleared /\ disturbed' = disturbed /\ started' = started
      /\ pushes' = [pushes EXCEPT ![p] = NextTab(q)]
  BY <1>q DEF WriteTab
<1>2. q.tab \in {1, 2} /\ Snapshot(q.tables)
  BY <1>0, <1>1, <1>q DEF PushShape, UnderWay
<1>3. NextTab(q) = IF q.tab = 2 THEN NoPush ELSE [tables |-> q.tables, tab |-> 2, cleared |-> FALSE]
  <2>1. Len(Tabs) = 2
    BY DEF Tabs
  <2>2. q.tab # 2 => q.tab + 1 = 2
    BY <1>2
  <2>3. QED
    BY <2>1, <2>2 DEF NextTab
<1>n. IsPush(NoPush) /\ NoPush.tab = 0 /\ NoPush.cleared = FALSE
  BY DEF NoPush, IsPush
<1>m. PICK n : n = [tables |-> q.tables, tab |-> 2, cleared |-> FALSE]
  OBVIOUS
<1>o. IsPush(n) /\ n.tables = q.tables /\ n.tab = 2 /\ n.cleared = FALSE
  BY <1>m DEF IsPush
<1>4. pushes'[p] = NextTab(q) /\ \A r \in Pushes : r # p => pushes'[r] = pushes[r]
  BY <1>0, <1>1 DEF PushShape
<1>5. UnderWay' = IF q.tab = 2 THEN UnderWay \ {p} ELSE UnderWay
  <2>1. q.tab = 2 => pushes'[p].tab = 0
    BY <1>3, <1>4 DEF NoPush
  <2>2. q.tab # 2 => pushes'[p].tab = 2
    BY <1>3, <1>4
  <2>3. QED
    BY <1>1, <1>4, <2>1, <2>2 DEF UnderWay
<1>6. sheet = [main |-> sheet.main, dashboard |-> sheet.dashboard]
  BY <1>0 DEF PushShape
<1>7. /\ q.tab = 1 => sheet' = [main |-> Written(sheet.main, q.tables.main), dashboard |-> sheet.dashboard]
      /\ q.tab = 2 => sheet' = [main |-> sheet.main, dashboard |-> Written(sheet.dashboard, q.tables.dashboard)]
  <2>1. CASE q.tab = 1
    <3>1. sheet' = [sheet EXCEPT !["main"] = Written(sheet.main, q.tables.main)]
      BY <1>q, <2>1 DEF WriteTab, Tabs
    <3>2. sheet' = [main |-> Written(sheet.main, q.tables.main), dashboard |-> sheet.dashboard]
      BY <1>6, <3>1, OneTab, Zenon
    <3>3. QED
      BY <2>1, <3>2
  <2>2. CASE q.tab = 2
    <3>1. sheet' = [sheet EXCEPT !["dashboard"] = Written(sheet.dashboard, q.tables.dashboard)]
      BY <1>q, <2>2 DEF WriteTab, Tabs
    <3>2. sheet' = [main |-> sheet.main, dashboard |-> Written(sheet.dashboard, q.tables.dashboard)]
      BY <1>6, <3>1, OneTab, Zenon
    <3>3. QED
      BY <2>2, <3>2
  <2>3. QED
    BY <2>1, <2>2
<1>8. PushShape'
  <2>1. pushes' = [r \in Pushes |-> pushes'[r]]
    BY <1>0, <1>1 DEF PushShape
  <2>2. ASSUME NEW r \in Pushes
        PROVE  /\ IsPush(pushes'[r])
               /\ pushes'[r].tab \in {0, 1, 2} /\ pushes'[r].cleared \in BOOLEAN
               /\ r \in UnderWay' => Snapshot(pushes'[r].tables)
    <3>1. CASE r = p /\ q.tab = 2
      BY <1>3, <1>4, <1>5, <1>n, <3>1
    <3>2. CASE r = p /\ q.tab # 2
      BY <1>2, <1>3, <1>4, <1>m, <1>o, <3>2
    <3>3. CASE r # p
      BY <1>0, <1>4, <1>5, <3>3 DEF PushShape
    <3>4. QED
      BY <3>1, <3>2, <3>3
  <2>3. sheet' = [main |-> sheet'.main, dashboard |-> sheet'.dashboard]
    BY <1>2, <1>7
  <2>4. QED
    BY <2>1, <2>2, <2>3 DEF PushShape
<1>9. ~disturbed =>
        /\ \A r \in UnderWay : r = p
        /\ q.tab = 1 => sheet.main = <<>>
        /\ q.tab = 2 => sheet.main = q.tables.main /\ sheet.dashboard = <<>>
  BY <1>0, <1>1, <1>q DEF PushReach
<1>10. /\ q.tab = 1 /\ ~disturbed => sheet'.main = q.tables.main
       /\ q.tab = 2 /\ ~disturbed => sheet'.main = q.tables.main /\ sheet'.dashboard = q.tables.dashboard
  <2>1. Written(<<>>, q.tables.main) = q.tables.main /\ Written(<<>>, q.tables.dashboard) = q.tables.dashboard
    BY <1>2, WrittenAnew DEF Snapshot
  <2>2. QED
    BY <1>7, <1>9, <2>1
<1>11. CASE q.tab = 1
  <2>1. UnderWay' = UnderWay /\ pushes'[p] = [tables |-> q.tables, tab |-> 2, cleared |-> FALSE]
    BY <1>3, <1>4, <1>5, <1>11
  <2>2. PushReach'
    BY <1>1, <1>9, <1>10, <1>11, <2>1 DEF PushReach
  <2>3. SheetReconciles'
    BY <1>1, <2>1 DEF SheetReconciles, Idle
  <2>4. QED
    BY <1>8, <2>2, <2>3
<1>12. CASE q.tab = 2
  <2>1. ~disturbed => UnderWay' = {}
    BY <1>5, <1>9, <1>12
  <2>2. PushReach'
    BY <1>1, <2>1 DEF PushReach
  <2>3. ~disturbed => Reconciled(sheet')
    BY <1>2, <1>10, <1>12 DEF Snapshot, Reconciled
  <2>4. SheetReconciles'
    BY <1>1, <2>3 DEF SheetReconciles
  <2>5. QED
    BY <1>8, <2>2, <2>4
<1>13. QED
  BY <1>2, <1>11, <1>12

LEMMA PushKeepsBooks ==
    ASSUME BooksInv, PushNext
    PROVE  BooksInv'
<1>1. PICK p \in Pushes :
         \/ \E since \in {0} \cup Days : StartPush(p, since)
         \/ \E done \in BOOLEAN : ClearTab(p, done)
         \/ WriteTab(p) \/ FailPush(p)
  BY DEF PushNext
<1>2. UNCHANGED <<ledger, edits>>
  BY <1>1 DEF StartPush, ClearTab, WriteTab, FailPush
<1>3. Booked(booked)' /\ OverrideInv' /\ FormsInv'
  BY <1>2 DEF BooksInv, OverrideInv, FormsInv, Edited, ledger, edits
<1>4. PushShape' /\ PushReach' /\ SheetReconciles'
  BY <1>1, StartKeepsSheet, ClearKeepsSheet, WriteKeepsSheet, FailKeepsSheet
<1>5. QED
  BY <1>3, <1>4 DEF BooksInv

\* The books agree at any time, for any work orders, technicians, invoices and
\* lines, whatever managers type into rows and however pushes overlap or fail.
THEOREM BooksHold == TrackerSpec => []BooksAgree
<1>1. TrackerInit => BooksInv
  <2> SUFFICES ASSUME TrackerInit PROVE BooksInv
    OBVIOUS
  <2>1. Booked(booked)
    BY FS_EmptySet DEF TrackerInit, Booked
  <2>2. OverrideInv /\ FormsInv
    BY DEF TrackerInit, OverrideInv, FormsInv, Edited
  <2>3. UnderWay = {}
    BY DEF TrackerInit, UnderWay, NoPush
  <2>4. PushShape
    BY <2>3 DEF TrackerInit, PushShape, NoPush, IsPush
  <2>5. PushReach /\ SheetReconciles
    BY <2>3 DEF TrackerInit, PushReach, SheetReconciles
  <2>6. QED
    BY <2>1, <2>2, <2>4, <2>5 DEF BooksInv
<1>2. BooksInv /\ [TrackerNext]_trackerVars => BooksInv'
  <2> SUFFICES ASSUME BooksInv, [TrackerNext]_trackerVars PROVE BooksInv'
    OBVIOUS
  <2>1. CASE UNCHANGED trackerVars
    <3>1. UNCHANGED <<ledger, edits, push>>
      BY <2>1 DEF trackerVars
    <3>2. Booked(booked)' /\ OverrideInv' /\ FormsInv'
      BY <3>1 DEF BooksInv, OverrideInv, FormsInv, Edited, ledger, edits
    <3>3. QED
      BY <3>1, <3>2, SheetUntouched DEF BooksInv
  <2>2. QED
    BY <2>1, LedgerKeepsBooks, EditKeepsBooks, PushKeepsBooks DEF TrackerNext
<1>3. BooksInv => BooksAgree
  BY CountedOnceHolds, PipelineAgreesHolds, SpendAgreesHolds DEF BooksInv, BooksAgree
<1>4. QED
  BY <1>1, <1>2, <1>3, PTL DEF TrackerSpec
=============================================================================
