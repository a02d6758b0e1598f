-------------------------- MODULE DraftBillingProofs --------------------------
(***************************************************************************)
(* The ledger for every value of the constants: the typing of its tables,  *)
(* the timers and breaks of TimeTracking, the filing of lines that         *)
(* DraftBilling promises, and the refinement of LedgerContract.            *)
(***************************************************************************)
EXTENDS DraftBilling, WellFoundedInduction, TLAPS

USE LedgerConstants

-----------------------------------------------------------------------------
(* Arithmetic *)

LEMMA LeastNatural ==
    ASSUME NEW S \in SUBSET Nat, S # {}
    PROVE  \E x \in S : \A y \in S : x <= y
<1>1. PICK x \in S : \A y \in S : ~(<<y, x>> \in OpToRel(<, Nat))
  BY NatLessThanWellFounded, WFMin
<1>2. \A y \in S : ~(y < x)
  BY <1>1 DEF OpToRel
<1> QED  BY <1>2

\* The largest of a nonempty set of ids is one of them: n - Max is the least of
\* the distances to n.
LEMMA MaxInSet ==
    ASSUME NEW n \in Nat, NEW S \in SUBSET (1..n), S # {}
    PROVE  Max(S) \in S
<1> DEFINE T == {n - i : i \in S}
<1>1. \A i \in S : i \in Nat /\ n - i \in Nat
  OBVIOUS
<1>2. T \in SUBSET Nat /\ T # {}
  BY <1>1
<1>3. PICK x \in T : \A y \in T : x <= y
  BY <1>2, LeastNatural
<1>4. PICK i \in S : x = n - i
  OBVIOUS
<1>5. ASSUME NEW y \in S  PROVE i >= y
  <2>1. n - y \in T
    OBVIOUS
  <2>2. n - i <= n - y
    BY <2>1, <1>3, <1>4
  <2> QED  BY <2>2, <1>1
<1> QED  BY <1>5 DEF Max

\* Minutes(d) is d in minutes to the nearest half.
LEMMA Rounding ==
    ASSUME NEW d \in Int, Minute \in Nat \ {0}
    PROVE  /\ Minutes(d) \in Int
           /\ 2 * (d - Minutes(d) * Minute) <= Minute
           /\ -(2 * (d - Minutes(d) * Minute)) <= Minute
BY DEF Minutes

LEMMA DateTypes ==
    ASSUME NEW t \in Int
    PROVE  Day(t) \in Int /\ WeekStart(t) \in Int /\ WeekEnd(t) \in Int
BY DEF LedgerConstants, Day, WeekStart, WeekEnd

-----------------------------------------------------------------------------
(* Tables *)

EntryTable(T) == DOMAIN T \subseteq EntryIds /\ T \in [DOMAIN T -> EntryRow]
ExpenseTable(T) == DOMAIN T \subseteq ExpenseIds /\ T \in [DOMAIN T -> ExpenseRow]

LEMMA PutRow ==
    ASSUME NEW T, NEW k, NEW row
    PROVE  /\ DOMAIN Put(T, k, row) = DOMAIN T \union {k}
           /\ Put(T, k, row)[k] = row
           /\ \A j \in DOMAIN T \ {k} : Put(T, k, row)[j] = T[j]
BY DEF Put

LEMMA PutEntry ==
    ASSUME NEW T, EntryTable(T), NEW e \in EntryIds, NEW row \in EntryRow
    PROVE  EntryTable(Put(T, e, row))
BY DEF EntryTable, Put

LEMMA PutExpense ==
    ASSUME NEW T, ExpenseTable(T), NEW x \in ExpenseIds, NEW row \in ExpenseRow
    PROVE  ExpenseTable(Put(T, x, row))
BY DEF ExpenseTable, Put

\* The invoice column takes any id, and setting it moves nothing else.
LEMMA Refiled ==
    ASSUME NEW row \in EntryRow, NEW i \in InvoiceOrNone
    PROVE  LET r == [row EXCEPT !.invoice = i]
           IN  /\ r \in EntryRow /\ r.invoice = i
               /\ r.user = row.user /\ r.wo = row.wo /\ r.mode = row.mode
               /\ r.cin = row.cin /\ r.cout = row.cout /\ r.brk = row.brk
               /\ r.bstart = row.bstart /\ r.imported = row.imported
BY DEF EntryRow

LEMMA RefiledExpense ==
    ASSUME NEW row \in ExpenseRow, NEW i \in InvoiceOrNone
    PROVE  LET r == [row EXCEPT !.invoice = i]
           IN  r \in ExpenseRow /\ r.invoice = i /\ r.user = row.user
BY DEF ExpenseRow

LEMMA SweptTyped ==
    ASSUME NEW T, EntryTable(T), NEW i \in InvoiceIds, NEW u, NEW s, NEW t, NEW W
    PROVE  /\ EntryTable(SweptEntries(T, u, i, s, t, W))
           /\ DOMAIN SweptEntries(T, u, i, s, t, W) = DOMAIN T
<1>1. i \in InvoiceOrNone
  BY DEF InvoiceIds, InvoiceOrNone
<1>2. \A e \in DOMAIN T : SweptEntries(T, u, i, s, t, W)[e] \in EntryRow
  BY <1>1, Refiled DEF SweptEntries, EntryTable
<1> QED  BY <1>2 DEF SweptEntries, EntryTable

LEMMA SweptExpensesTyped ==
    ASSUME NEW T, ExpenseTable(T), NEW i \in InvoiceIds, NEW u, NEW s, NEW t, NEW W
    PROVE  /\ ExpenseTable(SweptExpenses(T, u, i, s, t, W))
           /\ DOMAIN SweptExpenses(T, u, i, s, t, W) = DOMAIN T
<1>1. i \in InvoiceOrNone
  BY DEF InvoiceIds, InvoiceOrNone
<1>2. \A x \in DOMAIN T : SweptExpenses(T, u, i, s, t, W)[x] \in ExpenseRow
  BY <1>1, RefiledExpense DEF SweptExpenses, ExpenseTable
<1> QED  BY <1>2 DEF SweptExpenses, ExpenseTable

\* The columns an entry's times are kept in take any number, break_minutes too.
LEMMA Retimed ==
    ASSUME NEW row \in EntryRow
    PROVE  /\ \A ci, co, b \in Int :
                 [row EXCEPT !.cin = ci, !.cout = co, !.brk = b] \in EntryRow
           /\ \A b \in Int : [row EXCEPT !.brk = b] \in EntryRow
           /\ \A co \in Int : [row EXCEPT !.cout = co] \in EntryRow
           /\ \A t \in Int : [row EXCEPT !.bstart = t] \in EntryRow
           /\ \A b \in Int, fl \in BOOLEAN :
                 [row EXCEPT !.brk = b, !.flagged = fl, !.bstart = NoTime] \in EntryRow
BY DEF EntryRow

\* Rows as the handlers build them.
LEMMA NewRows ==
    ASSUME NEW u \in Users, NEW w \in WorkOrders, NEW m \in Modes,
           now \in Nat
    PROVE  /\ Timer(u, w, m) \in EntryRow
           /\ \A ci, co, b \in Int : [Timer(u, w, m) EXCEPT !.cin = ci, !.cout = co,
                                                          !.brk = b] \in EntryRow
<1>1. 0 \in InvoiceOrNone
  BY DEF InvoiceOrNone, LedgerConstants
<1>2. Timer(u, w, m) \in EntryRow
  BY <1>1 DEF Timer, EntryRow
<1> QED  BY <1>2, Retimed

-----------------------------------------------------------------------------
(* Typing *)

\* An id not yet minted has no owner, no PDF and no request; a minted one,
\* deleted or not, belongs to a user.
Minted ==
    \A i \in InvoiceIds :
        IF inv[i].status = "none" THEN pdf[i] = {} /\ i \notin DOMAIN asked
        ELSE inv[i].owner \in Users

TypeInv == TypeOK /\ Minted

LEMMA Typed ==
    ASSUME TypeInv
    PROVE  /\ now \in Nat /\ EntryTable(entry) /\ ExpenseTable(expense)
           /\ \A e \in DOMAIN entry : e \in EntryIds /\ entry[e] \in EntryRow
           /\ \A x \in DOMAIN expense : x \in ExpenseIds /\ expense[x] \in ExpenseRow
           /\ \A i \in InvoiceIds : inv[i] \in InvoiceRow
BY DEF TypeInv, TypeOK, EntryTable, ExpenseTable

\* The parts of TypeInv that an action leaves alone stay as they are.
LEMMA EntryStep ==
    ASSUME TypeInv, EntryTable(entry'), UNCHANGED <<now, expense, inv, pdf, asked>>
    PROVE  TypeInv'
BY DEF TypeInv, TypeOK, EntryTable, ExpenseTable, Minted

LEMMA ExpenseStep ==
    ASSUME TypeInv, ExpenseTable(expense'), UNCHANGED <<now, entry, inv, pdf, asked>>
    PROVE  TypeInv'
BY DEF TypeInv, TypeOK, EntryTable, ExpenseTable, Minted

LEMMA BothStep ==
    ASSUME TypeInv, EntryTable(entry'), ExpenseTable(expense'),
           UNCHANGED <<now, inv, pdf, asked>>
    PROVE  TypeInv'
BY DEF TypeInv, TypeOK, EntryTable, ExpenseTable, Minted

\* A mint is typed when its owner is a user and its period two dates.
LEMMA MintTyped ==
    ASSUME TypeInv, NEW u \in Users, NEW s \in Int, NEW t \in Int,
           NEW W, NEW entries, EntryTable(entries), NEW expenses, ExpenseTable(expenses),
           MintAndSweep(u, s, t, W, entries, expenses),
           UNCHANGED <<now, pdf>>,
           DOMAIN asked' \subseteq DOMAIN asked, asked' \in [DOMAIN asked' -> AddRequest]
    PROVE  TypeInv'
<1>1. PICK i \in InvoiceIds :
        /\ FreshInvoice(i)
        /\ inv' = [inv EXCEPT ![i] = NewDraft(u, s, t)]
        /\ entry' = SweptEntries(entries, u, i, s, t, W)
        /\ expense' = SweptExpenses(expenses, u, i, s, t, W)
  BY DEF MintAndSweep
<1>2. EntryTable(entry') /\ ExpenseTable(expense')
  BY <1>1, SweptTyped, SweptExpensesTyped
<1>3. inv' \in [InvoiceIds -> InvoiceRow]
  BY <1>1 DEF TypeInv, TypeOK, NewDraft, InvoiceRow, InvoiceStatuses
<1>4. Minted'
  BY <1>1 DEF TypeInv, TypeOK, Minted, NewDraft
<1> QED  BY <1>2, <1>3, <1>4 DEF TypeInv, TypeOK, EntryTable, ExpenseTable

LEMMA DraftsCovering ==
    ASSUME NEW u, NEW d, NEW S, Covering(u, d, S) # {}
    PROVE  /\ Max(Covering(u, d, S)) \in InvoiceIds
           /\ inv[Max(Covering(u, d, S))].owner = u
           /\ inv[Max(Covering(u, d, S))].status \in S
BY MaxInSet DEF Covering, InvoiceIds, LedgerConstants

LEMMA FileEntryTyped ==
    ASSUME TypeInv, NEW e \in EntryIds, NEW row \in EntryRow,
           FileEntry(e, row), UNCHANGED <<now, pdf, asked>>
    PROVE  TypeInv'
<1> DEFINE d == Day(row.cin)
           drafts == Covering(row.user, d, {"draft"})
<1>1. row.user \in Users /\ d \in Int /\ WeekStart(d) \in Int /\ WeekEnd(d) \in Int
  BY DateTypes DEF EntryRow
<1>2. CASE drafts # {} /\ entry' = Put(entry, e, [row EXCEPT !.invoice = Max(drafts)])
           /\ UNCHANGED <<expense, inv>>
  <2>1. Max(drafts) \in InvoiceOrNone
    BY <1>2, DraftsCovering DEF InvoiceIds, InvoiceOrNone
  <2>2. EntryTable(entry')
    BY <1>2, <2>1, Refiled, PutEntry, Typed
  <2> QED  BY <1>2, <2>2, EntryStep
<1>3. CASE MintAndSweep(row.user, WeekStart(d), WeekEnd(d), WorkOrders,
                        Put(entry, e, row), expense)
  BY <1>1, <1>3, PutEntry, Typed, MintTyped DEF TypeInv, TypeOK
<1> QED  BY <1>2, <1>3 DEF FileEntry

LEMMA FileExpenseTyped ==
    ASSUME TypeInv, NEW x \in ExpenseIds, NEW row \in ExpenseRow,
           FileExpense(x, row), UNCHANGED <<now, pdf, asked>>
    PROVE  TypeInv'
<1> DEFINE drafts == Covering(row.user, row.date, {"draft"})
<1>1. /\ row.user \in Users /\ WeekStart(row.date) \in Int
      /\ WeekEnd(row.date) \in Int
  BY DateTypes DEF ExpenseRow
<1>2. CASE drafts # {} /\ expense' = Put(expense, x, [row EXCEPT !.invoice = Max(drafts)])
           /\ UNCHANGED <<entry, inv>>
  <2>1. Max(drafts) \in InvoiceOrNone
    BY <1>2, DraftsCovering DEF InvoiceIds, InvoiceOrNone
  <2>2. ExpenseTable(expense')
    BY <1>2, <2>1, RefiledExpense, PutExpense, Typed
  <2> QED  BY <1>2, <2>2, ExpenseStep
<1>3. CASE MintAndSweep(row.user, WeekStart(row.date), WeekEnd(row.date), WorkOrders,
                        entry, Put(expense, x, row))
  BY <1>1, <1>3, PutExpense, Typed, MintTyped DEF TypeInv, TypeOK
<1> QED  BY <1>2, <1>3 DEF FileExpense

\* An update of one row in place.
LEMMA UpdateTyped ==
    ASSUME TypeInv, NEW e \in DOMAIN entry, NEW row \in EntryRow,
           entry' = [entry EXCEPT ![e] = row], UNCHANGED <<now, expense, inv, pdf, asked>>
    PROVE  TypeInv'
<1>1. EntryTable(entry')
  BY Typed DEF EntryTable
<1> QED  BY <1>1, EntryStep

LEMMA FinalizeTyped ==
    ASSUME NEW row \in EntryRow, row.bstart # NoTime, now \in Nat
    PROVE  FinalizeBreak(row) \in EntryRow
<1>1. Minutes(now - row.bstart) \in Int
  BY Rounding DEF LedgerConstants, EntryRow
<1>2. row.brk + Minutes(now - row.bstart) \in Int
  BY <1>1 DEF EntryRow
<1>3. (row.flagged \/ now - row.bstart > 60 * Minute) \in BOOLEAN
  OBVIOUS
<1> QED  BY <1>2, <1>3, Retimed DEF FinalizeBreak

LEMMA TimeTyped ==
    ASSUME TypeInv, TimeNext
    PROVE  TypeInv'
<1> USE Typed
<1> now \in Nat /\ BreakInputs \subseteq Nat /\ Grace \in Nat
  BY DEF LedgerConstants
<1>1. CASE Tick
  BY <1>1 DEF Tick, TypeInv, TypeOK, Minted
<1>2. ASSUME NEW u \in Users, NEW w \in WorkOrders, NEW m \in Modes, ClockIn(u, w, m)
      PROVE  TypeInv'
  <2>1. PICK e \in EntryIds : entry' = Put(entry, e, Timer(u, w, m))
    BY <1>2 DEF ClockIn
  <2>2. EntryTable(entry')
    BY <2>1, NewRows, PutEntry
  <2> QED  BY <1>2, <2>2, EntryStep DEF ClockIn
<1>3. ASSUME NEW u \in Users, NEW w \in WorkOrders, NEW m \in Modes, NEW ci \in 0..now,
             NEW co \in 1..(now + Grace), NEW b \in BreakInputs,
             ManualEntry(u, w, m, ci, co, b)
      PROVE  TypeInv'
  <2> DEFINE row == [Timer(u, w, m) EXCEPT !.cin = ci, !.cout = co, !.brk = b]
  <2>1. row \in EntryRow
    <3>1. ci \in Int /\ co \in Int /\ b \in Int
      OBVIOUS
    <3> QED  BY <3>1, NewRows
  <2>2. PICK e \in EntryIds : FileEntry(e, row)
    BY <1>3 DEF ManualEntry
  <2> QED  BY <1>3, <2>1, <2>2, FileEntryTyped DEF ManualEntry
<1>4. ASSUME NEW e \in DOMAIN entry, SwitchMode(e)
      PROVE  TypeInv'
  <2> DEFINE closed == [entry[e] EXCEPT !.cout = now]
             opened == Timer(entry[e].user, entry[e].wo, Opposite(entry[e].mode))
  <2>1. PICK f \in EntryIds : entry' = Put(Put(entry, e, closed), f, opened)
    BY <1>4 DEF SwitchMode
  <2>2. closed \in EntryRow
    BY DEF EntryRow
  <2>3. entry[e].user \in Users /\ entry[e].wo \in WorkOrders
        /\ Opposite(entry[e].mode) \in Modes
    BY DEF EntryRow, Opposite, Modes
  <2>4. opened \in EntryRow
    BY <2>3, NewRows
  <2>5. EntryTable(entry')
    BY <2>1, <2>2, <2>4, PutEntry
  <2> QED  BY <1>4, <2>5, EntryStep DEF SwitchMode
<1>5. ASSUME NEW e \in DOMAIN entry, BreakStart(e)
      PROVE  TypeInv'
  <2>1. [entry[e] EXCEPT !.bstart = now] \in EntryRow
    BY DEF EntryRow
  <2> QED  BY <1>5, <2>1, UpdateTyped DEF BreakStart
<1>6. ASSUME NEW e \in DOMAIN entry, BreakResume(e)
      PROVE  TypeInv'
  <2>1. FinalizeBreak(entry[e]) \in EntryRow
    BY <1>6, FinalizeTyped DEF BreakResume
  <2> QED  BY <1>6, <2>1, UpdateTyped DEF BreakResume
<1>7. ASSUME NEW e \in DOMAIN entry, NEW b \in BreakInputs \union {entry[e].brk},
             ClockOut(e, b)
      PROVE  TypeInv'
  <2> DEFINE row == IF entry[e].bstart # NoTime THEN FinalizeBreak(entry[e])
                    ELSE [entry[e] EXCEPT !.brk = b]
             last == [row EXCEPT !.cout = now,
                                 !.invoice = IF Status(@) \in Locked THEN 0 ELSE @]
  <2>1. row \in EntryRow
    <3>1. CASE entry[e].bstart # NoTime
      BY <3>1, FinalizeTyped
    <3>2. CASE entry[e].bstart = NoTime
      <4>1. entry[e] \in EntryRow /\ entry[e].brk \in Int
        BY DEF EntryRow
      <4>2. b \in Int
        BY <4>1
      <4> QED  BY <3>2, <4>1, <4>2, Retimed
    <3> QED  BY <3>1, <3>2
  <2> HIDE DEF row
  <2>2. last \in EntryRow
    <3>1. [row EXCEPT !.cout = now] \in EntryRow
      <4>1. now \in Int
        OBVIOUS
      <4>2. \A co \in Int : [row EXCEPT !.cout = co] \in EntryRow
        BY <2>1, Retimed
      <4> QED  BY <4>1, <4>2, Zenon
    <3>2. row.invoice \in InvoiceOrNone /\ 0 \in InvoiceOrNone
      BY <2>1 DEF EntryRow, InvoiceOrNone, LedgerConstants
    <3>3. last = [[row EXCEPT !.cout = now] EXCEPT
                     !.invoice = IF Status(row.invoice) \in Locked THEN 0 ELSE row.invoice]
      BY <2>1 DEF EntryRow
    <3> QED  BY <3>1, <3>2, <3>3, Refiled
  <2>3. entry' = [entry EXCEPT ![e] = last]
    BY <1>7 DEF ClockOut, row
  <2> QED  BY <1>7, <2>2, <2>3, UpdateTyped DEF ClockOut
<1>8. ASSUME NEW e \in DOMAIN entry, NEW b \in BreakInputs \union {entry[e].brk},
             NEW a \in Users, NEW ci \in 0..(now + Grace), NEW co \in 1..(now + Grace),
             EditEntry(a, e, ci, co, b)
      PROVE  TypeInv'
  <2>1. [entry[e] EXCEPT !.cin = ci, !.cout = co, !.brk = b] \in EntryRow
    <3>1. ci \in Int /\ co \in Int /\ b \in Int
      BY DEF EntryRow
    <3> QED  BY <3>1, Retimed
  <2> QED  BY <1>8, <2>1, UpdateTyped DEF EditEntry
<1>9. ASSUME NEW e \in DOMAIN entry, NEW a \in Users, DeleteEntry(a, e)
      PROVE  TypeInv'
  <2>1. EntryTable(entry')
    BY <1>9 DEF DeleteEntry, Drop, EntryTable
  <2> QED  BY <1>9, <2>1, EntryStep DEF DeleteEntry
<1> QED  BY <1>1, <1>2, <1>3, <1>4, <1>5, <1>6, <1>7, <1>8, <1>9 DEF TimeNext

LEMMA ExpenseTyped ==
    ASSUME TypeInv, ExpenseNext
    PROVE  TypeInv'
<1> USE Typed
<1>0. Days \subseteq Int /\ 0 \in InvoiceOrNone
  BY DEF Days, InvoiceOrNone, LedgerConstants
<1>1. ASSUME NEW u \in Users, NEW w \in WorkOrders, NEW d \in Days,
             NEW amount \in Amounts, AddExpense(u, w, d, amount)
      PROVE  TypeInv'
  <2> DEFINE row == [user |-> u, wo |-> w, date |-> d, amount |-> amount, invoice |-> 0]
  <2>1. row \in ExpenseRow
    BY <1>0 DEF ExpenseRow
  <2>2. PICK x \in ExpenseIds : FileExpense(x, row)
    BY <1>1 DEF AddExpense
  <2> QED  BY <1>1, <2>1, <2>2, FileExpenseTyped DEF AddExpense
<1>2. ASSUME NEW x \in DOMAIN expense, NEW a \in Users, DeleteExpense(a, x)
      PROVE  TypeInv'
  <2>1. ExpenseTable(expense')
    BY <1>2 DEF DeleteExpense, Drop, ExpenseTable
  <2> QED  BY <1>2, <2>1, ExpenseStep DEF DeleteExpense
<1>3. ASSUME NEW x \in DOMAIN expense, NEW a \in Users, NEW w \in WorkOrders,
             NEW d \in Days, NEW amount \in Amounts, EditExpense(a, x, w, d, amount)
      PROVE  TypeInv'
  <2>1. [expense[x] EXCEPT !.wo = w, !.date = d, !.amount = amount] \in ExpenseRow
    BY <1>0 DEF ExpenseRow
  <2>2. ExpenseTable(expense')
    BY <1>3, <2>1 DEF EditExpense, ExpenseTable
  <2> QED  BY <1>3, <2>2, ExpenseStep DEF EditExpense
<1> QED  BY <1>1, <1>2, <1>3 DEF ExpenseNext

LEMMA ImportTyped ==
    ASSUME TypeInv, NEW i \in InvoiceIds, inv[i].owner \in Users,
           ImportLine(i)
    PROVE  EntryTable(entry') /\ ExpenseTable(expense')
<1> USE Typed
<1>0. i \in InvoiceOrNone
  BY DEF InvoiceIds, InvoiceOrNone
<1>1. ASSUME NEW line \in LaborLine, ImportLabor(i, line)
      PROVE  EntryTable(entry') /\ ExpenseTable(expense')
  <2>1. CASE UNCHANGED entry
    BY <1>1, <2>1 DEF ImportLabor
  <2>2. ASSUME NEW n \in EntryIds,
               entry' = Put(entry, n, [Timer(inv[i].owner, line.wo, "work") EXCEPT
                                         !.cin = line.cin, !.cout = line.cout,
                                         !.invoice = i, !.imported = TRUE])
        PROVE  EntryTable(entry')
    <3> DEFINE t == Timer(inv[i].owner, line.wo, "work")
    <3>1. line.wo \in WorkOrders /\ line.cin \in Int /\ line.cout \in Int
      BY DEF LaborLine, LedgerConstants
    <3>2. t \in EntryRow
      BY <3>1, NewRows DEF Modes
    <3> HIDE DEF t
    <3>3. [t EXCEPT !.cin = line.cin, !.cout = line.cout, !.invoice = i, !.imported = TRUE]
            \in EntryRow
      BY <1>0, <3>1, <3>2 DEF EntryRow
    <3> QED  BY <2>2, <3>3, PutEntry DEF t
  <2> QED  BY <1>1, <2>1, <2>2 DEF ImportLabor
<1>2. ASSUME NEW line \in ExpenseLine, ImportExpense(i, line)
      PROVE  EntryTable(entry') /\ ExpenseTable(expense')
  <2> DEFINE row == [user |-> inv[i].owner, wo |-> line.wo, date |-> line.date,
                     amount |-> line.amount, invoice |-> i]
  <2>1. row \in ExpenseRow
    BY <1>0 DEF ExpenseLine, ExpenseRow, Days, LedgerConstants
  <2>2. CASE UNCHANGED expense
    BY <1>2, <2>2 DEF ImportExpense
  <2>3. ASSUME NEW x \in ExpenseIds, expense' = Put(expense, x, row)
        PROVE  ExpenseTable(expense')
    BY <2>1, <2>3, PutExpense
  <2> QED  BY <1>2, <2>2, <2>3 DEF ImportExpense
<1> QED  BY <1>1, <1>2 DEF ImportLine

LEMMA BillingTyped ==
    ASSUME TypeInv, BillingNext
    PROVE  TypeInv'
<1> USE Typed
<1>0. /\ Days \subseteq Int /\ 0 \in InvoiceOrNone /\ Technicians \subseteq Users
      /\ now \in Int /\ asked \in [DOMAIN asked -> AddRequest]
      /\ DOMAIN asked \subseteq InvoiceIds
      /\ inv \in [InvoiceIds -> InvoiceRow]
  BY DEF Days, InvoiceOrNone, LedgerConstants, Users, TypeInv, TypeOK
<1>1. ASSUME NEW t \in Technicians, GetCurrent(t)
      PROVE  TypeInv'
  <2> DEFINE s == WeekStart(Day(now))
             at(S) == {i \in InvoiceIds : /\ inv[i].owner = t /\ inv[i].start = s
                                          /\ inv[i].status \in S}
  <2>1. s \in Int /\ WeekEnd(s) \in Int
    BY <1>0, DateTypes DEF WeekStart, WeekEnd, LedgerConstants
  <2>2. CASE /\ at({"draft"}) # {} /\ UNCHANGED inv
             /\ LET i == Max(at({"draft"})) IN
                   /\ entry' = SweptEntries(entry, t, i, s, inv[i].end, WorkOrders)
                   /\ expense' = SweptExpenses(expense, t, i, s, inv[i].end, WorkOrders)
    <3>1. Max(at({"draft"})) \in InvoiceIds
      BY <2>2, MaxInSet DEF InvoiceIds, LedgerConstants
    <3>2. EntryTable(entry') /\ ExpenseTable(expense')
      BY <2>2, <3>1, SweptTyped, SweptExpensesTyped
    <3> QED  BY <1>1, <2>2, <3>2, BothStep DEF GetCurrent
  <2>3. CASE MintAndSweep(t, s, WeekEnd(s), WorkOrders, entry, expense)
    BY <1>0, <1>1, <2>1, <2>3, MintTyped DEF GetCurrent
  <2> QED  BY <1>1, <2>2, <2>3 DEF GetCurrent
<1>2. ASSUME NEW t \in Technicians, NEW d \in Days, ForWeek(t, d)
      PROVE  TypeInv'
  BY <1>0, <1>2, DateTypes, MintTyped DEF ForWeek
<1>3. ASSUME NEW t \in Technicians, NEW s \in Days, NEW e \in Days, NEW W,
             CustomPeriod(t, s, e, W)
      PROVE  TypeInv'
  BY <1>0, <1>3, MintTyped DEF CustomPeriod
<1>4. ASSUME NEW t \in Technicians, NEW d \in Days, NEW b \in BOOLEAN, Upload(t, d, b)
      PROVE  TypeInv'
  <2>1. PICK i \in InvoiceIds :
          /\ FreshInvoice(i)
          /\ inv' = [inv EXCEPT ![i] = NewDraft(t, WeekStart(d), WeekEnd(d))]
          /\ pdf' = IF b THEN [pdf EXCEPT ![i] = {"attached", "parsing"}] ELSE pdf
    BY <1>4 DEF Upload
  <2>2. t \in Users /\ WeekStart(d) \in Int /\ WeekEnd(d) \in Int
    BY <1>0, DateTypes
  <2>3. inv' \in [InvoiceIds -> InvoiceRow]
    BY <2>1, <2>2 DEF TypeInv, TypeOK, NewDraft, InvoiceRow, InvoiceStatuses
  <2>4. pdf' \in [InvoiceIds -> SUBSET {"attached", "parsing", "stored"}]
    BY <2>1 DEF TypeInv, TypeOK
  <2>5. Minted'
    BY <1>4, <2>1, <2>2 DEF Upload, TypeInv, TypeOK, Minted, NewDraft
  <2> QED  BY <1>4, <2>3, <2>4, <2>5 DEF Upload, TypeInv, TypeOK
<1>5. ASSUME NEW i \in InvoiceIds, ChainStep(i)
      PROVE  TypeInv'
  BY <1>5 DEF ChainStep, TypeInv, TypeOK, Minted, InvoiceRow, InvoiceStatuses
<1>6. ASSUME NEW i \in InvoiceIds, AdminDelete(i)
      PROVE  TypeInv'
  <2>1. EntryTable(entry')
    BY <1>0, <1>6, Refiled DEF AdminDelete, EntryTable
  <2>2. ExpenseTable(expense')
    BY <1>0, <1>6, RefiledExpense DEF AdminDelete, ExpenseTable
  <2>3. inv' \in [InvoiceIds -> InvoiceRow]
    BY <1>0, <1>6 DEF AdminDelete, Removed, InvoiceRow, InvoiceStatuses
  <2>4. asked' = Drop(asked, i) /\ UNCHANGED <<now, pdf>>
    BY <1>6 DEF AdminDelete
  <2>5. Minted'
    BY <1>6 DEF AdminDelete, Removed, TypeInv, TypeOK, Minted, InvoiceRow, Drop
  <2> QED  BY <2>1, <2>2, <2>3, <2>4, <2>5 DEF TypeInv, TypeOK, EntryTable, ExpenseTable, Drop
<1>7. ASSUME NEW i \in InvoiceIds, NEW a \in Users, ApproveAddition(a, i)
      PROVE  TypeInv'
  <2>1. i \in DOMAIN asked /\ asked[i].start \in Int /\ asked[i].end \in Int
    BY <1>0, <1>7 DEF ApproveAddition, AddRequest
  <2>2. inv[i].owner \in Users
    BY <2>1 DEF TypeInv, Minted
  <2>3. PICK W : MintAndSweep(inv[i].owner, asked[i].start, asked[i].end, W, entry, expense)
    BY <1>7 DEF ApproveAddition
  <2>4. /\ DOMAIN asked' \subseteq DOMAIN asked
        /\ asked' \in [DOMAIN asked' -> AddRequest]
    BY <1>0, <1>7 DEF ApproveAddition, Drop
  <2> QED  BY <1>7, <2>1, <2>2, <2>3, <2>4, MintTyped DEF ApproveAddition
<1>8. ASSUME NEW i \in InvoiceIds, NEW a \in Users, DenyAddition(a, i)
      PROVE  TypeInv'
  BY <1>0, <1>8 DEF DenyAddition, Drop, TypeInv, TypeOK, Minted
<1>9. ASSUME NEW i \in InvoiceIds, NEW W \in SUBSET WorkOrders, RequestAddition(i, W)
      PROVE  TypeInv'
  <2>1. [wos |-> W, start |-> inv[i].start, end |-> inv[i].end] \in AddRequest
    BY DEF AddRequest, InvoiceRow
  <2>2. DOMAIN asked' \subseteq InvoiceIds /\ asked' \in [DOMAIN asked' -> AddRequest]
    BY <1>0, <1>9, <2>1 DEF RequestAddition, Put
  <2>3. Minted'
    BY <1>0, <1>9 DEF RequestAddition, Put, PastDraft, TypeInv, Minted
  <2> QED  BY <1>9, <2>2, <2>3 DEF RequestAddition, TypeInv, TypeOK
<1>10. ASSUME NEW i \in InvoiceIds, ParseFails(i) \/ Reextract(i)
       PROVE  TypeInv'
  BY <1>10 DEF ParseFails, Reextract, Parsing, TypeInv, TypeOK, Minted
<1>11. ASSUME NEW i \in InvoiceIds, ImportPdf(i)
       PROVE  TypeInv'
  <2>1. inv[i].owner \in Users
    BY <1>11 DEF ImportPdf, TypeInv, Minted
  <2> QED  BY <1>11, <2>1, ImportTyped, BothStep DEF ImportPdf
<1>12. ASSUME NEW i \in InvoiceIds, NEW s \in Days, NEW e \in Days, Parsed(i, s, e),
              EntryTable(entry') /\ ExpenseTable(expense')
       PROVE  TypeInv'
  <2>1. inv' \in [InvoiceIds -> InvoiceRow]
    BY <1>0, <1>12 DEF Parsed, InvoiceRow
  <2>2. pdf' \in [InvoiceIds -> SUBSET {"attached", "parsing", "stored"}]
    BY <1>12 DEF Parsed, TypeInv, TypeOK
  <2>3. Minted'
    BY <1>0, <1>12 DEF Parsed, Parsing, TypeInv, Minted, InvoiceRow, TypeOK
  <2> QED  BY <1>12, <2>1, <2>2, <2>3 DEF Parsed, TypeInv, TypeOK, EntryTable, ExpenseTable
<1>13. ASSUME NEW i \in InvoiceIds, NEW s \in Days, NEW e \in Days, ParseHeld(i, s, e)
       PROVE  TypeInv'
  BY <1>12, <1>13 DEF ParseHeld
<1>14. ASSUME NEW i \in InvoiceIds, NEW s \in Days, NEW e \in Days, ParseImported(i, s, e)
       PROVE  TypeInv'
  <2>1. inv[i].owner \in Users
    BY <1>14 DEF ParseImported, Parsed, Parsing, TypeInv, Minted
  <2> QED  BY <1>12, <1>14, <2>1, ImportTyped DEF ParseImported
<1>15. ASSUME NEW i \in InvoiceIds, NEW s \in Days, NEW e \in Days, NEW a \in Users,
              PutHeader(a, i, s, e)
       PROVE  TypeInv'
  BY <1>0, <1>15 DEF PutHeader, TypeInv, TypeOK, Minted, InvoiceRow
<1>16. CASE UploadsDie
  BY <1>16 DEF UploadsDie, TypeInv, TypeOK, Minted
<1> QED
  BY <1>1, <1>2, <1>3, <1>4, <1>5, <1>6, <1>7, <1>8, <1>9, <1>10, <1>11, <1>13, <1>14,
     <1>15, <1>16 DEF BillingNext

\* The tables hold what their columns may hold in every reachable state, and
\* only a minted invoice has a PDF or a request for more work orders.
THEOREM TypeCorrect == Spec => []TypeInv
<1>1. Init => TypeInv
  BY DEF Init, TypeInv, TypeOK, Minted, LedgerConstants, InvoiceRow, InvoiceStatuses,
         Unminted
<1>2. TypeInv /\ [Next]_ledger => TypeInv'
  <2> SUFFICES ASSUME TypeInv, [Next]_ledger  PROVE TypeInv'
    OBVIOUS
  <2>1. CASE Next
    BY <2>1, TimeTyped, ExpenseTyped, BillingTyped DEF Next
  <2>2. CASE UNCHANGED ledger
    BY <2>2 DEF ledger, TypeInv, TypeOK, Minted
  <2> QED  BY <2>1, <2>2
<1> QED  BY <1>1, <1>2, PTL DEF Spec

-----------------------------------------------------------------------------
(* Timers *)

\* What two entries of one user allow each other.  On one work order one of
\* them is closed and ends at most Grace after the other began, which stays so
\* whenever the other ends; they never both drive.
Fits(r, s) ==
    r.user = s.user =>
       /\ r.wo = s.wo /\ ~r.imported /\ ~s.imported =>
             \/ ~Running(r) /\ r.cout - s.cin <= Grace
             \/ ~Running(s) /\ s.cout - r.cin <= Grace
       /\ ~(Running(r) /\ Running(s) /\ r.mode = "drive" /\ s.mode = "drive")

\* An entry by itself: an imported one is closed, and the end of any other is
\* at most Grace ahead of the clock.
Timely(r, t) == IF Running(r) THEN ~r.imported ELSE r.imported \/ r.cout <= t + Grace

Timers(T, t) ==
    /\ \A e \in DOMAIN T : Timely(T[e], t)
    /\ \A e, f \in DOMAIN T : e # f => Fits(T[e], T[f])

TimerInv == Timers(entry, now)

\* The columns Timers reads.
SameTimes(r, s) ==
    /\ r.user = s.user /\ r.wo = s.wo /\ r.mode = s.mode
    /\ r.cin = s.cin /\ r.cout = s.cout /\ r.imported = s.imported

LEMMA TimersFromTimes ==
    ASSUME NEW T, NEW U, NEW t, Timers(T, t), DOMAIN U \subseteq DOMAIN T,
           \A e \in DOMAIN U : SameTimes(U[e], T[e])
    PROVE  Timers(U, t)
BY DEF Timers, Timely, Fits, SameTimes, Running

LEMMA TimersPut ==
    ASSUME NEW T, NEW t, Timers(T, t), NEW k, NEW row, Timely(row, t),
           \A f \in DOMAIN T \ {k} : Fits(row, T[f]) /\ Fits(T[f], row)
    PROVE  Timers(Put(T, k, row), t)
<1> DEFINE U == Put(T, k, row)
<1>1. /\ DOMAIN U = DOMAIN T \union {k} /\ U[k] = row
      /\ \A j \in DOMAIN T \ {k} : U[j] = T[j]
  BY DEF Put
<1> HIDE DEF U
<1>2. ASSUME NEW e \in DOMAIN U  PROVE Timely(U[e], t)
  <2>1. CASE e = k
    BY <1>1, <2>1
  <2>2. CASE e # k
    <3>1. e \in DOMAIN T /\ U[e] = T[e]
      BY <1>1, <2>2
    <3> QED  BY <3>1 DEF Timers
  <2> QED  BY <2>1, <2>2
<1>3. ASSUME NEW e \in DOMAIN U, NEW f \in DOMAIN U, e # f  PROVE Fits(U[e], U[f])
  <2>1. CASE e = k
    <3>1. f \in DOMAIN T \ {k} /\ U[f] = T[f]
      BY <1>1, <1>3, <2>1
    <3> QED  BY <1>1, <2>1, <3>1
  <2>2. CASE f = k
    <3>1. e \in DOMAIN T \ {k} /\ U[e] = T[e]
      BY <1>1, <1>3, <2>2
    <3> QED  BY <1>1, <2>2, <3>1
  <2>3. CASE e # k /\ f # k
    <3>1. e \in DOMAIN T /\ U[e] = T[e] /\ f \in DOMAIN T /\ U[f] = T[f]
      BY <1>1, <2>3
    <3> QED  BY <1>3, <3>1 DEF Timers
  <2> QED  BY <2>1, <2>2, <2>3
<1>4. Timers(U, t)
  BY <1>2, <1>3 DEF Timers
<1> QED  BY <1>4 DEF U

LEMMA SweptTimes ==
    ASSUME NEW T, EntryTable(T), NEW i \in InvoiceIds, NEW u, NEW s, NEW t, NEW W, NEW n,
           Timers(T, n)
    PROVE  Timers(SweptEntries(T, u, i, s, t, W), n)
<1>1. i \in InvoiceOrNone
  BY DEF InvoiceIds, InvoiceOrNone
<1>2. \A e \in DOMAIN T : SameTimes(SweptEntries(T, u, i, s, t, W)[e], T[e])
  BY <1>1, Refiled DEF SweptEntries, SameTimes, EntryTable
<1> QED  BY <1>2, TimersFromTimes, SweptTyped

LEMMA MintTimes ==
    ASSUME NEW u, NEW s, NEW t, NEW W, NEW T, EntryTable(T), NEW X,
           MintAndSweep(u, s, t, W, T, X), NEW n, Timers(T, n)
    PROVE  Timers(entry', n)
BY SweptTimes DEF MintAndSweep

\* Filing a row leaves its times alone.
LEMMA FileTimes ==
    ASSUME TypeInv, TimerInv, now' = now, NEW e \in EntryIds \ DOMAIN entry,
           NEW row \in EntryRow, FileEntry(e, row), Timely(row, now),
           \A f \in DOMAIN entry : Fits(row, entry[f]) /\ Fits(entry[f], row)
    PROVE  TimerInv'
<1> DEFINE d == Day(row.cin)
           drafts == Covering(row.user, d, {"draft"})
           filed == [row EXCEPT !.invoice = Max(drafts)]
<1>1. EntryTable(Put(entry, e, row)) /\ Timers(Put(entry, e, row), now)
  BY Typed, PutEntry, TimersPut DEF TimerInv
<1>2. CASE drafts # {} /\ entry' = Put(entry, e, filed)
  <2>1. Max(drafts) \in InvoiceOrNone
    BY <1>2, DraftsCovering DEF InvoiceIds, InvoiceOrNone
  <2>2. SameTimes(filed, row)
    BY <2>1, Refiled DEF SameTimes
  <2> HIDE DEF filed
  <2>3. /\ DOMAIN entry' = DOMAIN Put(entry, e, row)
        /\ \A f \in DOMAIN entry' : SameTimes(entry'[f], Put(entry, e, row)[f])
    <3>1. /\ DOMAIN Put(entry, e, row) = DOMAIN entry'
          /\ Put(entry, e, row)[e] = row /\ entry'[e] = filed
          /\ \A f \in DOMAIN entry \ {e} : Put(entry, e, row)[f] = entry[f]
                                         /\ entry'[f] = entry[f]
      BY <1>2 DEF Put
    <3>2. DOMAIN entry' = DOMAIN entry \union {e}
      BY <1>2 DEF Put
    <3> QED  BY <2>2, <3>1, <3>2 DEF SameTimes
  <2> QED  BY <1>1, <2>3, TimersFromTimes DEF TimerInv
<1>3. CASE MintAndSweep(row.user, WeekStart(d), WeekEnd(d), WorkOrders,
                        Put(entry, e, row), expense)
  BY <1>1, <1>3, MintTimes DEF TimerInv
<1> QED  BY <1>2, <1>3 DEF FileEntry

\* A row that overlaps none of the others fits them.
LEMMA NoOverlapFits ==
    ASSUME TypeInv, NEW row \in EntryRow, NEW except, NEW ci \in Int, NEW co \in Int,
           ~Overlaps(row.user, row.wo, ci, co, except), row.cin = ci, row.cout = co
    PROVE  \A f \in DOMAIN entry \ except : Fits(row, entry[f]) /\ Fits(entry[f], row)
<1> TAKE f \in DOMAIN entry \ except
<1>1. entry[f] \in EntryRow
  BY Typed
<1>2. ~Running(row)
  BY DEF Running, LedgerConstants
<1>3. ASSUME entry[f].user = row.user, entry[f].wo = row.wo
      PROVE  co <= entry[f].cin \/ (~Running(entry[f]) /\ entry[f].cout <= ci)
  BY <1>1, <1>3 DEF Overlaps, Running, EntryRow
<1> QED  BY <1>1, <1>2, <1>3 DEF Fits, LedgerConstants, EntryRow, Running

LEMMA ExceptIsPut ==
    ASSUME NEW T, NEW e \in DOMAIN T, NEW row, NEW U, U = [T EXCEPT ![e] = row],
           T = [k \in DOMAIN T |-> T[k]]
    PROVE  U = Put(T, e, row)
BY DEF Put

\* An update of one row by one that fits the others.
LEMMA UpdateTimes ==
    ASSUME TypeInv, TimerInv, now' = now, NEW e \in DOMAIN entry, NEW row,
           entry' = [entry EXCEPT ![e] = row], Timely(row, now),
           \A f \in DOMAIN entry \ {e} : Fits(row, entry[f]) /\ Fits(entry[f], row)
    PROVE  TimerInv'
<1>1. entry = [k \in DOMAIN entry |-> entry[k]]
  BY DEF TypeInv, TypeOK
<1>2. entry' = Put(entry, e, row)
  BY <1>1, ExceptIsPut
<1>3. Timers(Put(entry, e, row), now)
  BY TimersPut DEF TimerInv
<1> QED  BY <1>2, <1>3 DEF TimerInv

\* A running entry that is closed now fits what it fitted before.
LEMMA ClosedFits ==
    ASSUME TypeInv, TimerInv, NEW e \in DOMAIN entry, Running(entry[e]), NEW row,
           row.cout = now, row.user = entry[e].user, row.wo = entry[e].wo,
           row.cin = entry[e].cin, row.imported = entry[e].imported
    PROVE  /\ Timely(row, now) /\ ~Running(row)
           /\ \A f \in DOMAIN entry \ {e} : Fits(row, entry[f]) /\ Fits(entry[f], row)
<1>1. now \in Int /\ ~Running(row)
  BY Typed DEF Running, LedgerConstants
<1>2. Timely(row, now)
  BY <1>1 DEF Timely, LedgerConstants
<1>3. ASSUME NEW f \in DOMAIN entry \ {e}
      PROVE  Fits(row, entry[f]) /\ Fits(entry[f], row)
  <2>1. Fits(entry[e], entry[f])
    BY DEF TimerInv, Timers
  <2> QED  BY <1>1, <2>1 DEF Fits
<1> QED  BY <1>1, <1>2, <1>3

\* A timer started now fits every entry but a running one of its work order,
\* and a drive timer every one but another drive timer.
LEMMA StartedFits ==
    ASSUME TypeInv, TimerInv, NEW u \in Users, NEW w \in WorkOrders, NEW m \in Modes,
           NEW except,
           \A f \in DOMAIN entry \ except :
              entry[f].user = u /\ Running(entry[f]) =>
                 /\ entry[f].wo = w => entry[f].imported
                 /\ ~(m = "drive" /\ entry[f].mode = "drive")
    PROVE  /\ Timely(Timer(u, w, m), now)
           /\ \A f \in DOMAIN entry \ except :
                 Fits(Timer(u, w, m), entry[f]) /\ Fits(entry[f], Timer(u, w, m))
<1> DEFINE row == Timer(u, w, m)
<1>1. /\ row.user = u /\ row.wo = w /\ row.mode = m /\ row.cin = now
      /\ Running(row) /\ ~row.imported
  BY DEF Timer, Running
<1> HIDE DEF row
<1>2. ASSUME NEW f \in DOMAIN entry \ except
      PROVE  Fits(row, entry[f]) /\ Fits(entry[f], row)
  <2>1. entry[f] \in EntryRow /\ now \in Int /\ Timely(entry[f], now)
    BY Typed DEF TimerInv, Timers
  <2>2. CASE Running(entry[f])
    BY <1>1, <2>2 DEF Fits
  <2>3. CASE ~Running(entry[f]) /\ ~entry[f].imported
    <3>1. entry[f].cout - row.cin <= Grace
      BY <1>1, <2>1, <2>3 DEF Timely, Running, EntryRow, LedgerConstants
    <3> QED  BY <2>3, <3>1 DEF Fits
  <2>4. CASE ~Running(entry[f]) /\ entry[f].imported
    BY <2>4 DEF Fits
  <2> QED  BY <2>2, <2>3, <2>4
<1>3. Timely(row, now)
  BY <1>1 DEF Timely
<1> QED  BY <1>2, <1>3 DEF row

LEMMA TimeStep ==
    ASSUME TypeInv, TimerInv, TimeNext
    PROVE  TimerInv'
<1> USE Typed
<1>0. now \in Int /\ Grace \in Nat /\ BreakInputs \subseteq Nat
  BY DEF LedgerConstants
<1>1. CASE Tick
  <2>1. entry' = entry /\ now' = now + 1
    BY <1>1 DEF Tick
  <2>2. ASSUME NEW e \in DOMAIN entry  PROVE Timely(entry[e], now')
    BY <1>0, <2>1 DEF TimerInv, Timers, Timely, EntryRow, Running
  <2> QED  BY <2>1, <2>2 DEF TimerInv, Timers
<1>2. ASSUME NEW u \in Users, NEW w \in WorkOrders, NEW m \in Modes, ClockIn(u, w, m)
      PROVE  TimerInv'
  <2>1. PICK e \in EntryIds : FreshEntry(e) /\ entry' = Put(entry, e, Timer(u, w, m))
    BY <1>2 DEF ClockIn
  <2>2. \A f \in DOMAIN entry \ {} :
           entry[f].user = u /\ Running(entry[f]) =>
              /\ entry[f].wo = w => entry[f].imported
              /\ ~(m = "drive" /\ entry[f].mode = "drive")
    BY <1>2 DEF ClockIn, DrivingElsewhere
  <2>3. /\ Timely(Timer(u, w, m), now)
        /\ \A f \in DOMAIN entry \ {} :
              Fits(Timer(u, w, m), entry[f]) /\ Fits(entry[f], Timer(u, w, m))
    BY <2>2, StartedFits
  <2>4. Timers(Put(entry, e, Timer(u, w, m)), now)
    BY <2>3, TimersPut DEF TimerInv
  <2> QED  BY <1>2, <2>1, <2>4 DEF ClockIn, TimerInv
<1>3. ASSUME NEW u \in Users, NEW w \in WorkOrders, NEW m \in Modes, NEW ci \in 0..now,
             NEW co \in 1..(now + Grace), NEW b \in BreakInputs,
             ManualEntry(u, w, m, ci, co, b)
      PROVE  TimerInv'
  <2> DEFINE row == [Timer(u, w, m) EXCEPT !.cin = ci, !.cout = co, !.brk = b]
  <2>0. ci \in Int /\ co \in Int /\ b \in Int
    BY <1>0
  <2>1. row \in EntryRow
    BY <2>0, NewRows
  <2>2. row.cin = ci /\ row.cout = co /\ row.user = u /\ row.wo = w
    BY DEF Timer
  <2>3. PICK e \in EntryIds : FreshEntry(e) /\ FileEntry(e, row)
    BY <1>3 DEF ManualEntry
  <2>4. e \in EntryIds \ DOMAIN entry
    BY <2>3 DEF FreshEntry
  <2> HIDE DEF row
  <2>5. \A f \in DOMAIN entry \ {} : Fits(row, entry[f]) /\ Fits(entry[f], row)
    BY <1>3, <2>0, <2>1, <2>2, NoOverlapFits DEF ManualEntry
  <2>6. Timely(row, now)
    BY <1>3, <2>0, <2>2 DEF ManualEntry, Plausible, Timely, Running, LedgerConstants
  <2> QED  BY <1>3, <2>1, <2>3, <2>4, <2>5, <2>6, FileTimes DEF ManualEntry
<1>4. ASSUME NEW e \in DOMAIN entry, SwitchMode(e)
      PROVE  TimerInv'
  <2> DEFINE closed == [entry[e] EXCEPT !.cout = now]
             u == entry[e].user
             w == entry[e].wo
             m == Opposite(entry[e].mode)
             opened == Timer(u, w, m)
             T == Put(entry, e, closed)
  <2>1. PICK f \in EntryIds : FreshEntry(f) /\ entry' = Put(T, f, opened)
    BY <1>4 DEF SwitchMode
  <2>2. /\ closed.cout = now /\ closed.user = u /\ closed.wo = w
        /\ closed.cin = entry[e].cin /\ closed.imported = entry[e].imported
    BY DEF EntryRow
  <2>3. u \in Users /\ w \in WorkOrders /\ m \in Modes
        /\ (m = "drive" => entry[e].mode = "work")
    BY DEF EntryRow, Opposite, Modes
  <2>4. /\ opened.user = u /\ opened.wo = w /\ opened.cin = now /\ ~opened.imported
        /\ Running(opened)
    BY DEF Timer, Running
  <2> HIDE DEF closed, u, w, m
  <2>5. /\ Timely(closed, now) /\ ~Running(closed)
        /\ \A g \in DOMAIN entry \ {e} : Fits(closed, entry[g]) /\ Fits(entry[g], closed)
    BY <1>4, <2>2, ClosedFits DEF SwitchMode, u, w
  <2>6. Timers(T, now)
    BY <2>5, TimersPut DEF TimerInv
  <2>7. ASSUME NEW g \in DOMAIN entry \ {e}, entry[g].user = u, Running(entry[g])
        PROVE  /\ entry[g].wo = w => entry[g].imported
               /\ ~(m = "drive" /\ entry[g].mode = "drive")
    <3>1. Fits(entry[e], entry[g]) /\ Timely(entry[e], now)
      BY DEF TimerInv, Timers
    <3>2. Running(entry[e])
      BY <1>4 DEF SwitchMode
    <3>3. m = "drive" => ~DrivingElsewhere(u, {e})
      BY <1>4, <2>3 DEF SwitchMode, u
    <3> QED  BY <2>7, <3>1, <3>2, <3>3 DEF Fits, Timely, DrivingElsewhere, u, w
  <2>8. /\ Timely(opened, now)
        /\ \A g \in DOMAIN entry \ {e} : Fits(opened, entry[g]) /\ Fits(entry[g], opened)
    BY <2>3, <2>7, StartedFits
  <2> HIDE DEF opened
  <2>9. Fits(opened, closed) /\ Fits(closed, opened)
    BY <1>0, <2>2, <2>4, <2>5 DEF Fits
  <2>10. /\ DOMAIN T = DOMAIN entry /\ T[e] = closed
         /\ \A g \in DOMAIN entry \ {e} : T[g] = entry[g]
    BY DEF Put
  <2>11. \A g \in DOMAIN T \ {f} : Fits(opened, T[g]) /\ Fits(T[g], opened)
    BY <2>8, <2>9, <2>10
  <2> HIDE DEF T
  <2>12. Timers(Put(T, f, opened), now)
    BY <2>6, <2>8, <2>11, TimersPut
  <2> QED  BY <1>4, <2>1, <2>12 DEF SwitchMode, TimerInv
<1>5. ASSUME NEW e \in DOMAIN entry, BreakStart(e) \/ BreakResume(e)
      PROVE  TimerInv'
  <2>1. /\ DOMAIN entry' = DOMAIN entry /\ now' = now
        /\ \A f \in DOMAIN entry : SameTimes(entry'[f], entry[f])
    <3>1. PICK row : /\ entry' = [entry EXCEPT ![e] = row] /\ now' = now
                     /\ SameTimes(row, entry[e])
      <4>1. /\ SameTimes([entry[e] EXCEPT !.bstart = now], entry[e])
            /\ SameTimes(FinalizeBreak(entry[e]), entry[e])
        BY DEF FinalizeBreak, SameTimes, EntryRow
      <4> QED  BY <1>5, <4>1 DEF BreakStart, BreakResume
    <3> QED  BY <3>1 DEF SameTimes, EntryTable
  <2> QED  BY <2>1, TimersFromTimes DEF TimerInv
<1>6. ASSUME NEW e \in DOMAIN entry, NEW b \in BreakInputs \union {entry[e].brk},
             ClockOut(e, b)
      PROVE  TimerInv'
  <2> DEFINE row == IF entry[e].bstart # NoTime THEN FinalizeBreak(entry[e])
                    ELSE [entry[e] EXCEPT !.brk = b]
             last == [row EXCEPT !.cout = now,
                                 !.invoice = IF Status(@) \in Locked THEN 0 ELSE @]
  <2>1. /\ last.cout = now /\ last.user = entry[e].user /\ last.wo = entry[e].wo
        /\ last.cin = entry[e].cin /\ last.imported = entry[e].imported
    BY DEF FinalizeBreak, EntryRow
  <2>2. entry' = [entry EXCEPT ![e] = last]
    BY <1>6 DEF ClockOut
  <2> HIDE DEF last
  <2>3. /\ Timely(last, now)
        /\ \A f \in DOMAIN entry \ {e} : Fits(last, entry[f]) /\ Fits(entry[f], last)
    BY <1>6, <2>1, ClosedFits DEF ClockOut
  <2> QED  BY <1>6, <2>2, <2>3, UpdateTimes DEF ClockOut
<1>7. ASSUME NEW e \in DOMAIN entry, NEW b \in BreakInputs \union {entry[e].brk},
             NEW a \in Users, NEW ci \in 0..(now + Grace), NEW co \in 1..(now + Grace),
             EditEntry(a, e, ci, co, b)
      PROVE  TimerInv'
  <2> DEFINE row == [entry[e] EXCEPT !.cin = ci, !.cout = co, !.brk = b]
  <2>0. ci \in Int /\ co \in Int /\ b \in Int
    BY <1>0 DEF EntryRow
  <2>1. row \in EntryRow
    BY <2>0, Retimed
  <2>2. row.cin = ci /\ row.cout = co /\ row.user = entry[e].user /\ row.wo = entry[e].wo
    BY DEF EntryRow
  <2>3. entry' = [entry EXCEPT ![e] = row] /\ now' = now
    BY <1>7 DEF EditEntry
  <2> HIDE DEF row
  <2>4. \A f \in DOMAIN entry \ {e} : Fits(row, entry[f]) /\ Fits(entry[f], row)
    BY <1>7, <2>0, <2>1, <2>2, NoOverlapFits DEF EditEntry
  <2>5. Timely(row, now)
    BY <1>7, <2>0, <2>2 DEF EditEntry, Plausible, Timely, Running, LedgerConstants
  <2> QED  BY <2>3, <2>4, <2>5, UpdateTimes
<1>8. ASSUME NEW e \in DOMAIN entry, NEW a \in Users, DeleteEntry(a, e)
      PROVE  TimerInv'
  <2>1. /\ DOMAIN entry' \subseteq DOMAIN entry /\ now' = now
        /\ \A f \in DOMAIN entry' : SameTimes(entry'[f], entry[f])
    BY <1>8 DEF DeleteEntry, Drop, SameTimes
  <2> QED  BY <2>1, TimersFromTimes DEF TimerInv
<1> QED  BY <1>1, <1>2, <1>3, <1>4, <1>5, <1>6, <1>7, <1>8 DEF TimeNext

LEMMA ImportTimes ==
    ASSUME TypeInv, TimerInv, NEW i \in InvoiceIds, ImportLine(i), now' = now
    PROVE  TimerInv'
<1>1. CASE UNCHANGED entry
  BY <1>1 DEF TimerInv
<1>2. ASSUME NEW line \in LaborLine, NEW n \in EntryIds,
             entry' = Put(entry, n, [Timer(inv[i].owner, line.wo, "work") EXCEPT
                                       !.cin = line.cin, !.cout = line.cout,
                                       !.invoice = i, !.imported = TRUE])
      PROVE  TimerInv'
  <2> DEFINE row == [Timer(inv[i].owner, line.wo, "work") EXCEPT
                        !.cin = line.cin, !.cout = line.cout,
                        !.invoice = i, !.imported = TRUE]
  <2>1. row.imported /\ ~Running(row)
    BY DEF Timer, Running, LaborLine, LedgerConstants
  <2> HIDE DEF row
  <2>2. Timely(row, now) /\ \A f \in DOMAIN entry \ {n} : Fits(row, entry[f])
                                                       /\ Fits(entry[f], row)
    BY <2>1 DEF Timely, Fits
  <2>3. Timers(Put(entry, n, row), now)
    BY <2>2, TimersPut DEF TimerInv
  <2> QED  BY <1>2, <2>3 DEF TimerInv, row
<1> QED  BY <1>1, <1>2 DEF ImportLine, ImportLabor, ImportExpense

LEMMA BillingStep ==
    ASSUME TypeInv, TimerInv, BillingNext
    PROVE  TimerInv'
<1> USE Typed
<1>1. ASSUME NEW u, NEW s, NEW t, NEW W, MintAndSweep(u, s, t, W, entry, expense),
             now' = now
      PROVE  TimerInv'
  BY <1>1, MintTimes DEF TimerInv
<1>2. ASSUME NEW t \in Technicians, GetCurrent(t)
      PROVE  TimerInv'
  <2> DEFINE s == WeekStart(Day(now))
             at(S) == {i \in InvoiceIds : /\ inv[i].owner = t /\ inv[i].start = s
                                          /\ inv[i].status \in S}
  <2>1. CASE /\ at({"draft"}) # {}
             /\ LET i == Max(at({"draft"})) IN
                   entry' = SweptEntries(entry, t, i, s, inv[i].end, WorkOrders)
    <3>1. Max(at({"draft"})) \in InvoiceIds
      BY <2>1, MaxInSet DEF InvoiceIds, LedgerConstants
    <3> QED  BY <1>2, <2>1, <3>1, SweptTimes DEF GetCurrent, TimerInv
  <2>2. CASE MintAndSweep(t, s, WeekEnd(s), WorkOrders, entry, expense)
    BY <1>1, <1>2, <2>2 DEF GetCurrent
  <2> QED  BY <1>2, <2>1, <2>2 DEF GetCurrent
<1>3. ASSUME NEW t \in Technicians, NEW d \in Days, ForWeek(t, d)
      PROVE  TimerInv'
  BY <1>1, <1>3 DEF ForWeek
<1>4. ASSUME NEW t \in Technicians, NEW s \in Days, NEW e \in Days, NEW W,
             CustomPeriod(t, s, e, W)
      PROVE  TimerInv'
  BY <1>1, <1>4 DEF CustomPeriod
<1>5. ASSUME NEW i \in InvoiceIds, NEW a \in Users, ApproveAddition(a, i)
      PROVE  TimerInv'
  BY <1>1, <1>5 DEF ApproveAddition
<1>6. ASSUME NEW i \in InvoiceIds, AdminDelete(i)
      PROVE  TimerInv'
  <2>1. 0 \in InvoiceOrNone
    BY DEF InvoiceOrNone, LedgerConstants
  <2>2. /\ DOMAIN entry' = DOMAIN entry /\ now' = now
        /\ \A f \in DOMAIN entry : SameTimes(entry'[f], entry[f])
    BY <1>6, <2>1, Refiled DEF AdminDelete, SameTimes
  <2> QED  BY <2>2, TimersFromTimes DEF TimerInv
<1>7. ASSUME NEW i \in InvoiceIds, ImportPdf(i)
      PROVE  TimerInv'
  BY <1>7, ImportTimes DEF ImportPdf
<1>8. ASSUME NEW i \in InvoiceIds, NEW s \in Days, NEW e \in Days, ParseImported(i, s, e)
      PROVE  TimerInv'
  BY <1>8, ImportTimes DEF ParseImported, Parsed
<1>9. CASE UNCHANGED <<now, entry>>
  BY <1>9 DEF TimerInv
<1> QED
  BY <1>2, <1>3, <1>4, <1>5, <1>6, <1>7, <1>8, <1>9
  DEF BillingNext, Upload, ChainStep, DenyAddition, RequestAddition, ParseFails,
      Reextract, ParseHeld, Parsed, PutHeader, UploadsDie

LEMMA TimerStep ==
    ASSUME TypeInv, TimerInv, [Next]_ledger
    PROVE  TimerInv'
<1>1. CASE ExpenseNext
  <2>1. ASSUME NEW u \in Users, NEW w \in WorkOrders, NEW d \in Days,
               NEW amount \in Amounts, AddExpense(u, w, d, amount)
        PROVE  TimerInv'
    <3>1. \/ UNCHANGED entry
          \/ \E o, s, t, X : MintAndSweep(o, s, t, WorkOrders, entry, X)
      BY <2>1 DEF AddExpense, FileExpense
    <3> QED  BY <2>1, <3>1, Typed, MintTimes DEF AddExpense, TimerInv
  <2>2. CASE UNCHANGED <<now, entry>>
    BY <2>2 DEF TimerInv
  <2> QED  BY <1>1, <2>1, <2>2 DEF ExpenseNext, EditExpense, DeleteExpense
<1>2. CASE UNCHANGED ledger
  BY <1>2 DEF ledger, TimerInv
<1> QED  BY <1>1, <1>2, TimeStep, BillingStep DEF Next

LEMMA TimersAlways == Spec => [](TypeInv /\ TimerInv)
<1>1. Init => TimerInv
  BY DEF Init, TimerInv, Timers
<1> QED  BY <1>1, TypeCorrect, TimerStep, PTL DEF Spec

\* No mixture of clock-ins, switches, edits, deletions, sweeps and imports makes
\* a user run two timers on a work order, or two drive timers at once.
THEOREM TimersNeverDoubled == Spec => []TimersExclusive
<1>1. TypeInv /\ TimerInv => TimersExclusive
  BY DEF TimerInv, Timers, Timely, Fits, TimersExclusive
<1> QED  BY <1>1, TimersAlways, PTL

\* Two entries of a user on a work order share at most Grace ticks for ever: the
\* future clock-out the manual path tolerates is never added up.
THEOREM OverlapBounded == Spec => []OverlapWithinGrace
<1>1. TypeInv /\ TimerInv => OverlapWithinGrace
  BY DEF TimerInv, Timers, Fits, OverlapWithinGrace, Until
<1> QED  BY <1>1, TimersAlways, PTL

-----------------------------------------------------------------------------
(* Filing *)

\* A line of user u may get onto invoice i in this step: i is u's and a draft,
\* new or not, or it waits for its parsed PDF.
LandsOn(u, i) ==
    /\ i \in InvoiceIds /\ inv'[i].owner = u
    /\ \/ inv[i].status \in {"none", "draft"} /\ inv'[i].status = "draft"
       \/ /\ i \in Parsing /\ inv[i].status \notin {"none", "gone"}
          /\ inv'[i].status = inv[i].status

\* What a step may do to the lines of a table: delete those of a draft, add
\* lines, edit those of an invoice that is not approved yet, file unbilled ones,
\* and free the lines of an invoice that it deletes.
Refiles(T, U) ==
    /\ \A k \in DOMAIN T \ DOMAIN U : Status(T[k].invoice) = "draft"
    /\ \A k \in DOMAIN U \ DOMAIN T :
          U[k].invoice # 0 => LandsOn(U[k].user, U[k].invoice)
    /\ \A k \in DOMAIN T \intersect DOMAIN U :
          /\ U[k].user = T[k].user
          /\ \/ U[k] = T[k]
             \/ /\ U[k].invoice = T[k].invoice
                /\ Status(T[k].invoice) \in {"draft", "submitted"}
             \/ T[k].invoice = 0 /\ LandsOn(U[k].user, U[k].invoice)
             \/ U[k].invoice = 0 /\ inv'[T[k].invoice].status = "gone"

\* Invoices keep their owner, are never unminted, and lose their lines when
\* they are deleted.
Deletes(U) == \A i \in InvoiceIds : inv'[i].status = "gone" /\ inv[i].status # "gone"
                 => \A k \in DOMAIN U : U[k].invoice # i
InvoiceMoves ==
    \A i \in InvoiceIds : inv[i].status # "none" =>
       /\ inv'[i].owner = inv[i].owner
       /\ inv'[i].status # "none"
       /\ inv[i].status = "gone" => inv'[i].status = "gone"

RunningUnbilled == \A e \in DOMAIN entry : Running(entry[e]) => entry[e].invoice = 0

BillingInv == BilledToOwner /\ RunningUnbilled

Moves ==
    /\ Refiles(entry, entry') /\ Refiles(expense, expense')
    /\ InvoiceMoves /\ Deletes(entry') /\ Deletes(expense')
    /\ RunningUnbilled'

LEMMA SameRefiles ==
    ASSUME NEW T
    PROVE  Refiles(T, T)
BY DEF Refiles

LEMMA SameInvoices ==
    ASSUME inv' = inv, NEW U
    PROVE  InvoiceMoves /\ Deletes(U)
BY DEF InvoiceMoves, Deletes

\* Steps that move invoices but no line, and delete no invoice.
LEMMA NoLineMoves ==
    ASSUME BillingInv, UNCHANGED <<entry, expense>>, InvoiceMoves,
           \A i \in InvoiceIds : inv'[i].status = "gone" => inv[i].status = "gone"
    PROVE  Moves
<1>1. Deletes(entry) /\ Deletes(expense)
  BY DEF Deletes
<1> QED  BY <1>1, SameRefiles DEF Moves, BillingInv, RunningUnbilled

\* Minting a draft and sweeping the tables onto it, over tables that may have
\* gained an unbilled line.
LEMMA MintMoves ==
    ASSUME TypeInv, BillingInv, NEW u, NEW s, NEW t, NEW W,
           NEW E, EntryTable(E), NEW X, ExpenseTable(X),
           DOMAIN entry \subseteq DOMAIN E, \A k \in DOMAIN entry : E[k] = entry[k],
           \A k \in DOMAIN E \ DOMAIN entry : E[k].invoice = 0,
           DOMAIN expense \subseteq DOMAIN X, \A k \in DOMAIN expense : X[k] = expense[k],
           \A k \in DOMAIN X \ DOMAIN expense : X[k].invoice = 0,
           MintAndSweep(u, s, t, W, E, X)
    PROVE  Moves
<1>1. PICK i \in InvoiceIds :
        /\ FreshInvoice(i)
        /\ inv' = [inv EXCEPT ![i] = NewDraft(u, s, t)]
        /\ entry' = SweptEntries(E, u, i, s, t, W)
        /\ expense' = SweptExpenses(X, u, i, s, t, W)
  BY DEF MintAndSweep
<1>2. i \in InvoiceOrNone /\ inv \in [InvoiceIds -> InvoiceRow]
  BY DEF InvoiceIds, InvoiceOrNone, TypeInv, TypeOK
<1>3. LandsOn(u, i)
  BY <1>1, <1>2 DEF LandsOn, FreshInvoice, NewDraft
<1>4. InvoiceMoves
  BY <1>1, <1>2 DEF InvoiceMoves, FreshInvoice
<1>5. Deletes(entry') /\ Deletes(expense')
  BY <1>1, <1>2 DEF Deletes, NewDraft
<1>6. /\ DOMAIN entry' = DOMAIN E
      /\ \A k \in DOMAIN E :
            \/ entry'[k] = E[k]
            \/ /\ E[k].user = u /\ E[k].invoice = 0 /\ ~Running(E[k]) /\ ~Running(entry'[k])
               /\ entry'[k].user = u /\ entry'[k].invoice = i
  BY <1>1, <1>2, Refiled DEF SweptEntries, EntryTable, Running
<1>7. /\ DOMAIN expense' = DOMAIN X
      /\ \A k \in DOMAIN X :
            \/ expense'[k] = X[k]
            \/ /\ X[k].user = u /\ X[k].invoice = 0
               /\ expense'[k].user = u /\ expense'[k].invoice = i
  BY <1>1, <1>2, RefiledExpense DEF SweptExpenses, ExpenseTable
<1>8. Refiles(entry, entry')
  BY <1>3, <1>6 DEF Refiles
<1>9. Refiles(expense, expense')
  BY <1>3, <1>7 DEF Refiles
<1>10. RunningUnbilled'
  BY <1>6 DEF BillingInv, RunningUnbilled
<1> QED  BY <1>4, <1>5, <1>8, <1>9, <1>10 DEF Moves

\* Steps of one table, no invoice moving.
LEMMA EntryMoves ==
    ASSUME BillingInv, Refiles(entry, entry'), RunningUnbilled', UNCHANGED <<expense, inv>>
    PROVE  Moves
BY SameRefiles, SameInvoices DEF Moves

LEMMA ExpenseMoves ==
    ASSUME BillingInv, Refiles(expense, expense'), UNCHANGED <<entry, inv>>
    PROVE  Moves
<1>1. RunningUnbilled'
  BY DEF BillingInv, RunningUnbilled
<1> QED  BY <1>1, SameRefiles, SameInvoices DEF Moves

\* A new line goes to nobody's invoice or to one it may land on.
LEMMA PutRefiles ==
    ASSUME NEW T, NEW k, k \notin DOMAIN T, NEW row,
           row.invoice # 0 => LandsOn(row.user, row.invoice)
    PROVE  Refiles(T, Put(T, k, row))
BY DEF Refiles, Put

LEMMA CoveringLands ==
    ASSUME NEW u, NEW d, Covering(u, d, {"draft"}) # {}, inv' = inv
    PROVE  /\ Max(Covering(u, d, {"draft"})) \in InvoiceOrNone
           /\ LandsOn(u, Max(Covering(u, d, {"draft"})))
BY DraftsCovering DEF LandsOn, InvoiceIds, InvoiceOrNone

LEMMA FileEntryMoves ==
    ASSUME TypeInv, BillingInv, NEW e \in EntryIds \ DOMAIN entry, NEW row \in EntryRow,
           row.invoice = 0, ~Running(row), FileEntry(e, row)
    PROVE  Moves
<1> DEFINE d == Day(row.cin)
           drafts == Covering(row.user, d, {"draft"})
           filed == [row EXCEPT !.invoice = Max(drafts)]
<1>1. CASE drafts # {} /\ entry' = Put(entry, e, filed) /\ UNCHANGED <<expense, inv>>
  <2>1. Max(drafts) \in InvoiceOrNone /\ LandsOn(row.user, Max(drafts))
    BY <1>1, CoveringLands
  <2>2. filed.user = row.user /\ filed.invoice = Max(drafts) /\ ~Running(filed)
    BY <2>1, Refiled DEF Running
  <2> HIDE DEF filed, drafts
  <2>3. Refiles(entry, entry')
    BY <1>1, <2>1, <2>2, PutRefiles
  <2>4. RunningUnbilled'
    BY <1>1, <2>2 DEF Put, BillingInv, RunningUnbilled
  <2> QED  BY <1>1, <2>3, <2>4, EntryMoves
<1>2. CASE MintAndSweep(row.user, WeekStart(d), WeekEnd(d), WorkOrders,
                        Put(entry, e, row), expense)
  <2>1. EntryTable(Put(entry, e, row)) /\ ExpenseTable(expense)
    BY Typed, PutEntry
  <2>2. /\ DOMAIN entry \subseteq DOMAIN Put(entry, e, row)
        /\ \A k \in DOMAIN entry : Put(entry, e, row)[k] = entry[k]
        /\ \A k \in DOMAIN Put(entry, e, row) \ DOMAIN entry :
              Put(entry, e, row)[k].invoice = 0
    BY DEF Put
  <2> QED  BY <1>2, <2>1, <2>2, MintMoves
<1> QED  BY <1>1, <1>2 DEF FileEntry

LEMMA FileExpenseMoves ==
    ASSUME TypeInv, BillingInv, NEW x \in ExpenseIds \ DOMAIN expense,
           NEW row \in ExpenseRow, row.invoice = 0, FileExpense(x, row)
    PROVE  Moves
<1> DEFINE drafts == Covering(row.user, row.date, {"draft"})
           filed == [row EXCEPT !.invoice = Max(drafts)]
<1>1. CASE drafts # {} /\ expense' = Put(expense, x, filed) /\ UNCHANGED <<entry, inv>>
  <2>1. Max(drafts) \in InvoiceOrNone /\ LandsOn(row.user, Max(drafts))
    BY <1>1, CoveringLands
  <2>2. filed.user = row.user /\ filed.invoice = Max(drafts)
    BY <2>1, RefiledExpense
  <2> HIDE DEF filed, drafts
  <2>3. Refiles(expense, expense')
    BY <1>1, <2>1, <2>2, PutRefiles
  <2> QED  BY <1>1, <2>3, ExpenseMoves
<1>2. CASE MintAndSweep(row.user, WeekStart(row.date), WeekEnd(row.date), WorkOrders,
                        entry, Put(expense, x, row))
  <2>1. EntryTable(entry) /\ ExpenseTable(Put(expense, x, row))
    BY Typed, PutExpense
  <2>2. /\ DOMAIN expense \subseteq DOMAIN Put(expense, x, row)
        /\ \A k \in DOMAIN expense : Put(expense, x, row)[k] = expense[k]
        /\ \A k \in DOMAIN Put(expense, x, row) \ DOMAIN expense :
              Put(expense, x, row)[k].invoice = 0
    BY DEF Put
  <2> QED  BY <1>2, <2>1, <2>2, MintMoves
<1> QED  BY <1>1, <1>2 DEF FileExpense

\* An update of one row that keeps its user and its invoice, which is not
\* approved yet, or of one that is on none.
LEMMA UpdateMoves ==
    ASSUME TypeInv, BillingInv, NEW e \in DOMAIN entry, NEW row,
           entry' = [entry EXCEPT ![e] = row], UNCHANGED <<expense, inv>>,
           row.user = entry[e].user, row.invoice = entry[e].invoice,
           Status(entry[e].invoice) \in {"draft", "submitted"},
           Running(row) => row.invoice = 0
    PROVE  Moves
<1>1. /\ DOMAIN entry' = DOMAIN entry /\ entry'[e] = row
      /\ \A k \in DOMAIN entry \ {e} : entry'[k] = entry[k]
  BY DEF TypeInv, TypeOK
<1>2. Refiles(entry, entry')
  BY <1>1 DEF Refiles
<1>3. RunningUnbilled'
  BY <1>1 DEF BillingInv, RunningUnbilled
<1> QED  BY <1>2, <1>3, EntryMoves

LEMMA TimeMoves ==
    ASSUME TypeInv, BillingInv, TimeNext
    PROVE  Moves
<1> USE Typed
<1>a. now \in Int /\ Grace \in Nat /\ BreakInputs \subseteq Nat
  BY DEF LedgerConstants
<1>0. \A e \in DOMAIN entry : Running(entry[e]) =>
         entry[e].invoice = 0 /\ Status(entry[e].invoice) = "draft"
  BY DEF BillingInv, RunningUnbilled, Status
<1>1. CASE Tick
  BY <1>1, NoLineMoves, SameInvoices DEF Tick
<1>2. ASSUME NEW u \in Users, NEW w \in WorkOrders, NEW m \in Modes, ClockIn(u, w, m)
      PROVE  Moves
  <2>1. PICK e \in EntryIds : FreshEntry(e) /\ entry' = Put(entry, e, Timer(u, w, m))
    BY <1>2 DEF ClockIn
  <2>2. e \notin DOMAIN entry /\ Timer(u, w, m).invoice = 0
    BY <2>1 DEF FreshEntry, Timer
  <2>3. Refiles(entry, entry') /\ RunningUnbilled'
    BY <2>1, <2>2, PutRefiles DEF Put, BillingInv, RunningUnbilled
  <2> QED  BY <1>2, <2>3, EntryMoves DEF ClockIn
<1>3. ASSUME NEW u \in Users, NEW w \in WorkOrders, NEW m \in Modes, NEW ci \in 0..now,
             NEW co \in 1..(now + Grace), NEW b \in BreakInputs,
             ManualEntry(u, w, m, ci, co, b)
      PROVE  Moves
  <2> DEFINE row == [Timer(u, w, m) EXCEPT !.cin = ci, !.cout = co, !.brk = b]
  <2>0. ci \in Int /\ co \in Int /\ b \in Int
    BY <1>a
  <2>1. row \in EntryRow
    BY <2>0, NewRows
  <2>2. row.invoice = 0 /\ ~Running(row)
    BY <2>0 DEF Timer, Running, LedgerConstants
  <2>3. PICK e \in EntryIds : FreshEntry(e) /\ FileEntry(e, row)
    BY <1>3 DEF ManualEntry
  <2>4. e \in EntryIds \ DOMAIN entry
    BY <2>3 DEF FreshEntry
  <2> QED  BY <2>1, <2>2, <2>3, <2>4, FileEntryMoves
<1>4. ASSUME NEW e \in DOMAIN entry, SwitchMode(e)
      PROVE  Moves
  <2> DEFINE closed == [entry[e] EXCEPT !.cout = now]
             opened == Timer(entry[e].user, entry[e].wo, Opposite(entry[e].mode))
  <2>1. PICK f \in EntryIds : FreshEntry(f) /\ entry' = Put(Put(entry, e, closed), f, opened)
    BY <1>4 DEF SwitchMode
  <2>2. closed.user = entry[e].user /\ closed.invoice = entry[e].invoice
        /\ opened.invoice = 0
    BY DEF EntryRow, Timer
  <2> HIDE DEF closed, opened
  <2>3. /\ f \notin DOMAIN entry /\ f # e
        /\ DOMAIN entry' = DOMAIN entry \union {f}
        /\ entry'[e] = closed /\ entry'[f] = opened
        /\ \A k \in DOMAIN entry \ {e} : entry'[k] = entry[k]
    BY <2>1 DEF Put, FreshEntry
  <2>4. entry[e].invoice = 0 /\ Status(entry[e].invoice) = "draft"
    BY <1>0, <1>4 DEF SwitchMode
  <2>5. Refiles(entry, entry')
    BY <2>2, <2>3, <2>4 DEF Refiles
  <2>6. RunningUnbilled'
    BY <2>2, <2>3, <2>4 DEF BillingInv, RunningUnbilled
  <2> QED  BY <1>4, <2>5, <2>6, EntryMoves DEF SwitchMode
<1>5. ASSUME NEW e \in DOMAIN entry, BreakStart(e)
      PROVE  Moves
  <2> DEFINE row == [entry[e] EXCEPT !.bstart = now]
  <2>1. row.user = entry[e].user /\ row.invoice = entry[e].invoice
    BY DEF EntryRow
  <2> HIDE DEF row
  <2> QED  BY <1>0, <1>5, <2>1, UpdateMoves DEF BreakStart, row
<1>6. ASSUME NEW e \in DOMAIN entry, BreakResume(e)
      PROVE  Moves
  <2> DEFINE row == FinalizeBreak(entry[e])
  <2>1. row.user = entry[e].user /\ row.invoice = entry[e].invoice
    BY DEF EntryRow, FinalizeBreak
  <2> HIDE DEF row
  <2> QED  BY <1>0, <1>6, <2>1, UpdateMoves DEF BreakResume, row
<1>7. ASSUME NEW e \in DOMAIN entry, NEW b \in BreakInputs \union {entry[e].brk},
             ClockOut(e, b)
      PROVE  Moves
  <2> DEFINE row == IF entry[e].bstart # NoTime THEN FinalizeBreak(entry[e])
                    ELSE [entry[e] EXCEPT !.brk = b]
             last == [row EXCEPT !.cout = now,
                                 !.invoice = IF Status(@) \in Locked THEN 0 ELSE @]
  <2>1. entry[e].invoice = 0 /\ Status(entry[e].invoice) = "draft"
    BY <1>0, <1>7 DEF ClockOut
  <2>2. last.user = entry[e].user /\ last.invoice = entry[e].invoice
    BY <2>1 DEF EntryRow, FinalizeBreak, Locked
  <2>3. entry' = [entry EXCEPT ![e] = last]
    BY <1>7 DEF ClockOut
  <2> HIDE DEF last
  <2> QED  BY <1>7, <2>1, <2>2, <2>3, UpdateMoves DEF ClockOut
<1>8. ASSUME NEW e \in DOMAIN entry, NEW b \in BreakInputs \union {entry[e].brk},
             NEW a \in Users, NEW ci \in 0..(now + Grace), NEW co \in 1..(now + Grace),
             EditEntry(a, e, ci, co, b)
      PROVE  Moves
  <2> DEFINE row == [entry[e] EXCEPT !.cin = ci, !.cout = co, !.brk = b]
  <2>1. row.user = entry[e].user /\ row.invoice = entry[e].invoice /\ ~Running(row)
    BY <1>a DEF EntryRow, Running, LedgerConstants
  <2>2. entry' = [entry EXCEPT ![e] = row] /\ UNCHANGED <<expense, inv>>
    BY <1>8 DEF EditEntry
  <2> HIDE DEF row
  <2>3. Status(entry[e].invoice) \in {"draft", "submitted"}
    BY <1>8 DEF EditEntry
  <2> QED  BY <2>1, <2>2, <2>3, UpdateMoves
<1>9. ASSUME NEW e \in DOMAIN entry, NEW a \in Users, DeleteEntry(a, e)
      PROVE  Moves
  <2>1. Refiles(entry, entry') /\ RunningUnbilled'
    BY <1>9 DEF DeleteEntry, Drop, Refiles, BillingInv, RunningUnbilled
  <2> QED  BY <1>9, <2>1, EntryMoves DEF DeleteEntry
<1> QED  BY <1>1, <1>2, <1>3, <1>4, <1>5, <1>6, <1>7, <1>8, <1>9 DEF TimeNext

LEMMA ExpenseNextMoves ==
    ASSUME TypeInv, BillingInv, ExpenseNext
    PROVE  Moves
<1> USE Typed
<1>1. ASSUME NEW u \in Users, NEW w \in WorkOrders, NEW d \in Days,
             NEW amount \in Amounts, AddExpense(u, w, d, amount)
      PROVE  Moves
  <2> DEFINE row == [user |-> u, wo |-> w, date |-> d, amount |-> amount, invoice |-> 0]
  <2>1. row \in ExpenseRow
    BY DEF ExpenseRow, Days, InvoiceOrNone, LedgerConstants
  <2>2. PICK x \in ExpenseIds : FreshExpense(x) /\ FileExpense(x, row)
    BY <1>1 DEF AddExpense
  <2>3. x \in ExpenseIds \ DOMAIN expense
    BY <2>2 DEF FreshExpense
  <2> QED  BY <2>1, <2>2, <2>3, FileExpenseMoves
<1>2. ASSUME NEW x \in DOMAIN expense, NEW a \in Users, DeleteExpense(a, x)
      PROVE  Moves
  <2>1. Refiles(expense, expense')
    BY <1>2 DEF DeleteExpense, Drop, Refiles
  <2> QED  BY <1>2, <2>1, ExpenseMoves DEF DeleteExpense
<1>3. ASSUME NEW x \in DOMAIN expense, NEW a \in Users, NEW w \in WorkOrders,
             NEW d \in Days, NEW amount \in Amounts, EditExpense(a, x, w, d, amount)
      PROVE  Moves
  <2> DEFINE row == [expense[x] EXCEPT !.wo = w, !.date = d, !.amount = amount]
  <2>1. row.user = expense[x].user /\ row.invoice = expense[x].invoice
    BY DEF ExpenseRow
  <2>2. /\ expense' = [expense EXCEPT ![x] = row] /\ UNCHANGED <<entry, inv>>
        /\ Status(expense[x].invoice) \in {"draft", "submitted"}
    BY <1>3 DEF EditExpense
  <2> HIDE DEF row
  <2>3. Refiles(expense, expense')
    BY <2>1, <2>2 DEF Refiles, ExpenseTable
  <2> QED  BY <2>2, <2>3, ExpenseMoves
<1> QED  BY <1>1, <1>2, <1>3 DEF ExpenseNext

LEMMA ImportMoves ==
    ASSUME TypeInv, BillingInv, NEW i \in InvoiceIds, ImportLine(i),
           LandsOn(inv[i].owner, i), InvoiceMoves,
           \A j \in InvoiceIds : inv'[j].status = "gone" => inv[j].status = "gone"
    PROVE  Moves
<1>1. Deletes(entry') /\ Deletes(expense')
  BY DEF Deletes
<1>2. Refiles(entry, entry') /\ Refiles(expense, expense') /\ RunningUnbilled'
  <2>1. CASE UNCHANGED <<entry, expense>>
    BY <2>1, SameRefiles DEF BillingInv, RunningUnbilled
  <2>2. ASSUME NEW line \in LaborLine, NEW n \in EntryIds, FreshEntry(n),
               entry' = Put(entry, n, [Timer(inv[i].owner, line.wo, "work") EXCEPT
                                         !.cin = line.cin, !.cout = line.cout,
                                         !.invoice = i, !.imported = TRUE]),
               UNCHANGED expense
        PROVE  Refiles(entry, entry') /\ Refiles(expense, expense') /\ RunningUnbilled'
    <3> DEFINE row == [Timer(inv[i].owner, line.wo, "work") EXCEPT
                          !.cin = line.cin, !.cout = line.cout,
                          !.invoice = i, !.imported = TRUE]
    <3>1. row.user = inv[i].owner /\ row.invoice = i /\ ~Running(row)
      BY DEF Timer, Running, LaborLine, LedgerConstants
    <3>2. n \notin DOMAIN entry /\ entry' = Put(entry, n, row)
      BY <2>2 DEF FreshEntry
    <3> HIDE DEF row
    <3>3. Refiles(entry, entry')
      BY <3>1, <3>2, PutRefiles
    <3>4. RunningUnbilled'
      BY <3>1, <3>2 DEF Put, BillingInv, RunningUnbilled
    <3> QED  BY <2>2, <3>3, <3>4, SameRefiles
  <2>3. ASSUME NEW line \in ExpenseLine, NEW x \in ExpenseIds, FreshExpense(x),
               expense' = Put(expense, x, [user |-> inv[i].owner, wo |-> line.wo,
                                           date |-> line.date, amount |-> line.amount,
                                           invoice |-> i]),
               UNCHANGED entry
        PROVE  Refiles(entry, entry') /\ Refiles(expense, expense') /\ RunningUnbilled'
    <3>1. x \notin DOMAIN expense
      BY <2>3 DEF FreshExpense
    <3>2. Refiles(expense, expense')
      BY <2>3, <3>1, PutRefiles
    <3> QED  BY <2>3, <3>2, SameRefiles DEF BillingInv, RunningUnbilled
  <2> QED  BY <2>1, <2>2, <2>3 DEF ImportLine, ImportLabor, ImportExpense
<1> QED  BY <1>1, <1>2 DEF Moves

LEMMA BillingNextMoves ==
    ASSUME TypeInv, BillingInv, BillingNext
    PROVE  Moves
<1> USE Typed
<1>0. /\ \A i \in InvoiceIds : inv[i] \in InvoiceRow
      /\ inv \in [InvoiceIds -> InvoiceRow]
      /\ pdf \in [InvoiceIds -> SUBSET {"attached", "parsing", "stored"}]
  BY DEF TypeInv, TypeOK
<1>1. ASSUME NEW u, NEW s, NEW t, NEW W, MintAndSweep(u, s, t, W, entry, expense)
      PROVE  Moves
  BY <1>1, MintMoves
<1>2. ASSUME NEW t \in Technicians, GetCurrent(t)
      PROVE  Moves
  <2> DEFINE s == WeekStart(Day(now))
             at(S) == {i \in InvoiceIds : /\ inv[i].owner = t /\ inv[i].start = s
                                          /\ inv[i].status \in S}
             i == Max(at({"draft"}))
  <2>1. CASE /\ at({"draft"}) # {} /\ UNCHANGED inv
             /\ entry' = SweptEntries(entry, t, i, s, inv[i].end, WorkOrders)
             /\ expense' = SweptExpenses(expense, t, i, s, inv[i].end, WorkOrders)
    <3>1. i \in at({"draft"})
      BY <2>1, MaxInSet DEF InvoiceIds, LedgerConstants
    <3>2. i \in InvoiceOrNone /\ LandsOn(t, i)
      BY <2>1, <3>1 DEF InvoiceIds, InvoiceOrNone, LandsOn
    <3> HIDE DEF i, at
    <3>3. /\ DOMAIN entry' = DOMAIN entry
          /\ \A k \in DOMAIN entry :
                \/ entry'[k] = entry[k]
                \/ /\ entry[k].user = t /\ entry[k].invoice = 0 /\ ~Running(entry'[k])
                   /\ entry'[k].user = t /\ entry'[k].invoice = i
      BY <2>1, <3>2, Refiled DEF SweptEntries, EntryTable, Running
    <3>4. /\ DOMAIN expense' = DOMAIN expense
          /\ \A k \in DOMAIN expense :
                \/ expense'[k] = expense[k]
                \/ /\ expense[k].user = t /\ expense[k].invoice = 0
                   /\ expense'[k].user = t /\ expense'[k].invoice = i
      BY <2>1, <3>2, RefiledExpense DEF SweptExpenses, ExpenseTable
    <3>5. Refiles(entry, entry')
      BY <3>2, <3>3 DEF Refiles
    <3>6. Refiles(expense, expense')
      BY <3>2, <3>4 DEF Refiles
    <3>7. RunningUnbilled'
      BY <3>3 DEF BillingInv, RunningUnbilled
    <3> QED  BY <2>1, <3>5, <3>6, <3>7, SameInvoices DEF Moves
  <2>2. CASE MintAndSweep(t, s, WeekEnd(s), WorkOrders, entry, expense)
    BY <1>1, <2>2
  <2> QED  BY <1>2, <2>1, <2>2 DEF GetCurrent
<1>3. ASSUME NEW t \in Technicians, NEW d \in Days, ForWeek(t, d)
      PROVE  Moves
  BY <1>1, <1>3 DEF ForWeek
<1>4. ASSUME NEW t \in Technicians, NEW s \in Days, NEW e \in Days, NEW W,
             CustomPeriod(t, s, e, W)
      PROVE  Moves
  BY <1>1, <1>4 DEF CustomPeriod
<1>5. ASSUME NEW t \in Technicians, NEW d \in Days, NEW b \in BOOLEAN, Upload(t, d, b)
      PROVE  Moves
  <2>1. InvoiceMoves /\ \A i \in InvoiceIds : inv'[i].status = "gone"
                                             => inv[i].status = "gone"
    BY <1>0, <1>5 DEF Upload, FreshInvoice, NewDraft, InvoiceMoves
  <2> QED  BY <1>5, <2>1, NoLineMoves DEF Upload
<1>6. ASSUME NEW i \in InvoiceIds, ChainStep(i)
      PROVE  Moves
  <2>1. InvoiceMoves /\ \A j \in InvoiceIds : inv'[j].status = "gone"
                                             => inv[j].status = "gone"
    BY <1>0, <1>6 DEF ChainStep, InvoiceMoves, InvoiceRow
  <2> QED  BY <1>6, <2>1, NoLineMoves DEF ChainStep
<1>7. ASSUME NEW i \in InvoiceIds, AdminDelete(i)
      PROVE  Moves
  <2>1. /\ i # 0 /\ 0 \in InvoiceOrNone /\ inv'[i].status = "gone"
        /\ \A j \in InvoiceIds \ {i} : inv'[j] = inv[j]
        /\ inv'[i].owner = inv[i].owner /\ inv[i].status \notin {"none", "gone"}
    BY <1>0, <1>7 DEF AdminDelete, Removed, InvoiceIds, InvoiceOrNone, InvoiceRow,
                      LedgerConstants
  <2>2. /\ DOMAIN entry' = DOMAIN entry
        /\ \A k \in DOMAIN entry :
              /\ entry'[k].user = entry[k].user /\ entry'[k].cout = entry[k].cout
              /\ IF entry[k].invoice = i THEN entry'[k].invoice = 0
                 ELSE entry'[k] = entry[k]
    BY <1>7, <2>1, Refiled DEF AdminDelete
  <2>3. /\ DOMAIN expense' = DOMAIN expense
        /\ \A k \in DOMAIN expense :
              /\ expense'[k].user = expense[k].user
              /\ IF expense[k].invoice = i THEN expense'[k].invoice = 0
                 ELSE expense'[k] = expense[k]
    BY <1>7, <2>1, RefiledExpense DEF AdminDelete
  <2>4. Refiles(entry, entry') /\ Refiles(expense, expense')
    BY <2>1, <2>2, <2>3 DEF Refiles
  <2>5. InvoiceMoves /\ Deletes(entry') /\ Deletes(expense')
    BY <2>1, <2>2, <2>3 DEF InvoiceMoves, Deletes
  <2>6. RunningUnbilled'
    BY <2>2 DEF BillingInv, RunningUnbilled, Running
  <2> QED  BY <2>4, <2>5, <2>6 DEF Moves
<1>8. ASSUME NEW i \in InvoiceIds, NEW a \in Users, ApproveAddition(a, i)
      PROVE  Moves
  BY <1>1, <1>8 DEF ApproveAddition
<1>9. ASSUME NEW i \in InvoiceIds, NEW s \in Days, NEW e \in Days, Parsed(i, s, e)
      PROVE  /\ InvoiceMoves /\ LandsOn(inv[i].owner, i)
             /\ \A j \in InvoiceIds : inv'[j].status = "gone" => inv[j].status = "gone"
  <2>1. inv[i].status \notin {"none", "gone"} /\ i \in Parsing
    BY <1>9 DEF Parsed, Parsing, TypeInv, Minted
  <2>2. \A j \in InvoiceIds : inv'[j].status = inv[j].status
                             /\ inv'[j].owner = inv[j].owner
    BY <1>0, <1>9 DEF Parsed, InvoiceRow
  <2> QED  BY <2>1, <2>2 DEF InvoiceMoves, LandsOn
<1>10. ASSUME NEW i \in InvoiceIds, NEW s \in Days, NEW e \in Days, ParseHeld(i, s, e)
       PROVE  Moves
  BY <1>9, <1>10, NoLineMoves DEF ParseHeld
<1>11. ASSUME NEW i \in InvoiceIds, NEW s \in Days, NEW e \in Days, ParseImported(i, s, e)
       PROVE  Moves
  BY <1>9, <1>11, ImportMoves DEF ParseImported
<1>12. ASSUME NEW i \in InvoiceIds, ImportPdf(i)
       PROVE  Moves
  <2>1. inv' = inv /\ LandsOn(inv[i].owner, i)
    BY <1>12 DEF ImportPdf, LandsOn
  <2> QED  BY <1>12, <2>1, ImportMoves, SameInvoices DEF ImportPdf
<1>13. ASSUME NEW i \in InvoiceIds, NEW s \in Days, NEW e \in Days, NEW a \in Users,
              PutHeader(a, i, s, e)
       PROVE  Moves
  <2>1. InvoiceMoves /\ \A j \in InvoiceIds : inv'[j].status = "gone"
                                             => inv[j].status = "gone"
    BY <1>0, <1>13 DEF PutHeader, InvoiceMoves, InvoiceRow
  <2> QED  BY <1>13, <2>1, NoLineMoves DEF PutHeader
<1>14. CASE UNCHANGED <<entry, expense, inv>>
  BY <1>14, NoLineMoves, SameInvoices
<1> QED
  BY <1>2, <1>3, <1>4, <1>5, <1>6, <1>7, <1>8, <1>10, <1>11, <1>12, <1>13, <1>14
  DEF BillingNext, DenyAddition, RequestAddition, ParseFails, Reextract, UploadsDie

LEMMA NextMoves ==
    ASSUME TypeInv, BillingInv, [Next]_ledger
    PROVE  Moves
<1>1. CASE UNCHANGED ledger
  BY <1>1, NoLineMoves, SameInvoices DEF ledger
<1> QED  BY <1>1, TimeMoves, ExpenseNextMoves, BillingNextMoves DEF Next

\* One table's half of BilledToOwner.
Billed(T) == \A k \in DOMAIN T : T[k].invoice # 0 =>
                /\ inv[T[k].invoice].owner = T[k].user
                /\ inv[T[k].invoice].status \notin {"none", "gone"}

LEMMA BilledStep ==
    ASSUME NEW T, NEW U, InvoiceMoves, Deletes(U), Refiles(T, U), Billed(T),
           \A k \in DOMAIN T : T[k].invoice \in InvoiceOrNone
    PROVE  \A k \in DOMAIN U : U[k].invoice # 0 =>
              /\ inv'[U[k].invoice].owner = U[k].user
              /\ inv'[U[k].invoice].status \notin {"none", "gone"}
<1> TAKE k \in DOMAIN U
<1> HAVE U[k].invoice # 0
<1>1. CASE LandsOn(U[k].user, U[k].invoice)
  BY <1>1 DEF LandsOn
<1>2. CASE k \in DOMAIN T /\ U[k].user = T[k].user /\ U[k].invoice = T[k].invoice
  <2> DEFINE i == T[k].invoice
  <2>1. i \in InvoiceIds /\ inv[i].owner = U[k].user /\ inv[i].status \notin {"none", "gone"}
    BY <1>2 DEF Billed, InvoiceIds, InvoiceOrNone
  <2>2. inv'[i].owner = inv[i].owner /\ inv'[i].status # "none"
    BY <2>1 DEF InvoiceMoves
  <2>3. inv'[i].status # "gone"
    BY <1>2, <2>1 DEF Deletes
  <2> QED  BY <1>2, <2>1, <2>2, <2>3
<1> QED  BY <1>1, <1>2 DEF Refiles

LEMMA BillingInvStep ==
    ASSUME TypeInv, BillingInv, [Next]_ledger
    PROVE  BillingInv'
<1>1. Moves
  BY NextMoves
<1>2. Billed(entry) /\ Billed(expense)
  BY DEF BillingInv, BilledToOwner, Billed
<1>3. /\ \A k \in DOMAIN entry : entry[k].invoice \in InvoiceOrNone
      /\ \A k \in DOMAIN expense : expense[k].invoice \in InvoiceOrNone
  BY Typed DEF EntryRow, ExpenseRow
<1>4. \A k \in DOMAIN entry' : entry'[k].invoice # 0 =>
         /\ inv'[entry'[k].invoice].owner = entry'[k].user
         /\ inv'[entry'[k].invoice].status \notin {"none", "gone"}
  BY <1>1, <1>2, <1>3, BilledStep DEF Moves
<1>5. \A k \in DOMAIN expense' : expense'[k].invoice # 0 =>
         /\ inv'[expense'[k].invoice].owner = expense'[k].user
         /\ inv'[expense'[k].invoice].status \notin {"none", "gone"}
  BY <1>1, <1>2, <1>3, BilledStep DEF Moves
<1> QED  BY <1>1, <1>4, <1>5 DEF BillingInv, BilledToOwner, Moves

LEMMA BillingAlways == Spec => [](TypeInv /\ BillingInv)
<1>1. Init => BillingInv
  BY DEF Init, BillingInv, BilledToOwner, RunningUnbilled
<1> QED  BY <1>1, TypeCorrect, BillingInvStep, PTL DEF Spec

\* Whatever sweeps, uploads, supplemental drafts, approvals and deletions do, a
\* filed line is on an existing invoice of the person who did the work.
THEOREM LinesAreTheOwners == Spec => []BilledToOwner
<1>1. BillingInv => BilledToOwner
  BY DEF BillingInv
<1> QED  BY <1>1, BillingAlways, PTL

LEMMA LockedRows ==
    ASSUME NEW T, NEW U, Refiles(T, U), NEW i \in InvoiceIds, i \notin Parsing,
           inv[i].status \in Locked, inv'[i].status \in Locked
    PROVE  \A k : /\ k \in DOMAIN T /\ T[k].invoice = i
                     <=> k \in DOMAIN U /\ U[k].invoice = i
                  /\ k \in DOMAIN T /\ T[k].invoice = i => U[k] = T[k]
<1>1. i # 0 /\ Status(i) \notin {"none", "draft", "submitted"} /\ inv'[i].status # "gone"
  BY DEF Locked, Status, InvoiceIds
<1>2. \A u : ~LandsOn(u, i)
  BY <1>1 DEF LandsOn, Locked
<1>3. ASSUME NEW k, k \in DOMAIN T, T[k].invoice = i
      PROVE  k \in DOMAIN U /\ U[k] = T[k]
  BY <1>1, <1>2, <1>3 DEF Refiles
<1>4. ASSUME NEW k, k \in DOMAIN U, U[k].invoice = i
      PROVE  k \in DOMAIN T /\ T[k].invoice = i
  <2>1. k \in DOMAIN T
    BY <1>1, <1>2, <1>4 DEF Refiles
  <2> QED  BY <1>1, <1>2, <1>4, <2>1 DEF Refiles
<1> QED  BY <1>3, <1>4

\* While an invoice is approved or sent, and no PDF of it is being parsed, no
\* handler adds, removes or edits one of its lines.
THEOREM LockedLinesStay == Spec => LinesLocked
<1>1. TypeInv /\ BillingInv /\ [Next]_ledger =>
         [\A i \in InvoiceIds \ Parsing :
            inv[i].status \in Locked /\ inv'[i].status \in Locked
               => Lines(i)' = Lines(i)]_ledger
  <2> SUFFICES ASSUME TypeInv, BillingInv, [Next]_ledger, NEW i \in InvoiceIds \ Parsing,
                      inv[i].status \in Locked, inv'[i].status \in Locked
               PROVE  Lines(i)' = Lines(i)
    OBVIOUS
  <2>1. Refiles(entry, entry') /\ Refiles(expense, expense')
    BY NextMoves DEF Moves
  <2>2. {<<e, entry'[e]>> : e \in {n \in DOMAIN entry' : entry'[n].invoice = i}}
          = {<<e, entry[e]>> : e \in {n \in DOMAIN entry : entry[n].invoice = i}}
    BY <2>1, LockedRows
  <2>3. {<<x, expense'[x]>> : x \in {n \in DOMAIN expense' : expense'[n].invoice = i}}
          = {<<x, expense[x]>> : x \in {n \in DOMAIN expense : expense[n].invoice = i}}
    BY <2>1, LockedRows
  <2> QED  BY <2>2, <2>3 DEF Lines
<1> QED  BY <1>1, BillingAlways, PTL DEF Spec, LinesLocked

\* A line leaves its invoice only when the invoice is deleted: no handler moves
\* it from one invoice to another.
THEOREM LinesNeverStolen == Spec => NeverStolen
<1> DEFINE Stays(T, U) == \A k \in DOMAIN T \intersect DOMAIN U :
              T[k].invoice # 0 => \/ U[k].invoice = T[k].invoice
                                  \/ inv'[T[k].invoice].status = "gone"
<1>1. ASSUME TypeInv, BillingInv, [Next]_ledger
      PROVE  Stays(entry, entry') /\ Stays(expense, expense')
  BY <1>1, NextMoves DEF Moves, Refiles
<1>2. TypeInv /\ BillingInv /\ [Next]_ledger =>
         [/\ \A e \in DOMAIN entry \intersect DOMAIN entry' :
                entry[e].invoice # 0 => \/ entry'[e].invoice = entry[e].invoice
                                        \/ inv'[entry[e].invoice].status = "gone"
          /\ \A x \in DOMAIN expense \intersect DOMAIN expense' :
                expense[x].invoice # 0 => \/ expense'[x].invoice = expense[x].invoice
                                          \/ inv'[expense[x].invoice].status = "gone"]_ledger
  BY <1>1
<1> QED  BY <1>2, BillingAlways, PTL DEF Spec, NeverStolen

-----------------------------------------------------------------------------
(* The refinement of LedgerContract                                          *)

LedgerStep == [Promise!Next]_(Promise!vars)

LEMMA LineAt ==
    ASSUME NEW T, NEW X, NEW k \in DOMAIN LineTable(T, X)
    PROVE  \/ /\ k = <<"hours", k[2]>> /\ k[2] \in DOMAIN T
              /\ LineTable(T, X)[k] = [who |-> T[k[2]].user, on |-> T[k[2]].invoice]
           \/ /\ k = <<"costs", k[2]>> /\ k[2] \in DOMAIN X
              /\ LineTable(T, X)[k] = [who |-> X[k[2]].user, on |-> X[k[2]].invoice]
BY DEF LineTable

LEMMA LineOf ==
    ASSUME NEW T, NEW X
    PROVE  /\ \A e \in DOMAIN T :
                 /\ <<"hours", e>> \in DOMAIN LineTable(T, X)
                 /\ LineTable(T, X)[<<"hours", e>>] = [who |-> T[e].user, on |-> T[e].invoice]
           /\ \A x \in DOMAIN X :
                 /\ <<"costs", x>> \in DOMAIN LineTable(T, X)
                 /\ LineTable(T, X)[<<"costs", x>>] = [who |-> X[x].user, on |-> X[x].invoice]
BY DEF LineTable

\* What a step may do to a table of entries or of expenses, as far as the
\* contract sees it: nothing, file free lines of user u on i, add a line.
SameLines(T, U) ==
    /\ DOMAIN U = DOMAIN T
    /\ \A k \in DOMAIN T : U[k].user = T[k].user /\ U[k].invoice = T[k].invoice

Files(T, U, u, i) ==
    /\ DOMAIN U = DOMAIN T
    /\ \A k \in DOMAIN T :
          \/ U[k].user = T[k].user /\ U[k].invoice = T[k].invoice
          \/ /\ T[k].user = u /\ T[k].invoice = 0
             /\ U[k].user = u /\ U[k].invoice = i

Gains(T, U, k, u, i) ==
    /\ k \notin DOMAIN T /\ DOMAIN U = DOMAIN T \union {k}
    /\ U[k].user = u /\ U[k].invoice = i
    /\ \A j \in DOMAIN T : U[j].user = T[j].user /\ U[j].invoice = T[j].invoice

LEMMA SameTable ==
    ASSUME NEW T, NEW U, NEW X, NEW Y, SameLines(T, U), SameLines(X, Y)
    PROVE  LineTable(U, Y) = LineTable(T, X)
BY DEF LineTable, SameLines

LEMMA FiledTable ==
    ASSUME NEW T, NEW U, NEW X, NEW Y, NEW u, NEW i, Files(T, U, u, i), Files(X, Y, u, i)
    PROVE  \E K \in SUBSET Promise!Free(LineTable(T, X), u) :
              LineTable(U, Y) = Promise!Moved(LineTable(T, X), K, i)
<1> DEFINE K == {k \in DOMAIN LineTable(T, X) : LineTable(U, Y)[k] # LineTable(T, X)[k]}
<1>1. DOMAIN LineTable(U, Y) = DOMAIN LineTable(T, X)
  BY DEF Files, LineTable
<1>2. ASSUME NEW k \in DOMAIN LineTable(T, X)
      PROVE  \/ LineTable(U, Y)[k] = LineTable(T, X)[k]
             \/ /\ LineTable(T, X)[k].who = u /\ LineTable(T, X)[k].on = 0
                /\ LineTable(U, Y)[k] = [LineTable(T, X)[k] EXCEPT !.on = i]
  <2>1. CASE /\ k = <<"hours", k[2]>> /\ k[2] \in DOMAIN T
             /\ LineTable(T, X)[k] = [who |-> T[k[2]].user, on |-> T[k[2]].invoice]
    <3>1. LineTable(U, Y)[k] = [who |-> U[k[2]].user, on |-> U[k[2]].invoice]
      BY <2>1, LineOf DEF Files
    <3> QED  BY <2>1, <3>1 DEF Files
  <2>2. CASE /\ k = <<"costs", k[2]>> /\ k[2] \in DOMAIN X
             /\ LineTable(T, X)[k] = [who |-> X[k[2]].user, on |-> X[k[2]].invoice]
    <3>1. LineTable(U, Y)[k] = [who |-> Y[k[2]].user, on |-> Y[k[2]].invoice]
      BY <2>2, LineOf DEF Files
    <3> QED  BY <2>2, <3>1 DEF Files
  <2> QED  BY <2>1, <2>2, LineAt
<1>3. K \in SUBSET Promise!Free(LineTable(T, X), u)
  BY <1>2 DEF Promise!Free
<1>4. LineTable(U, Y) = Promise!Moved(LineTable(T, X), K, i)
  BY <1>1, <1>2 DEF Promise!Moved, LineTable
<1> QED  BY <1>3, <1>4

LEMMA GainedHours ==
    ASSUME NEW U, NEW Y, NEW e, NEW u, NEW i, Gains(entry, U, e, u, i), SameLines(expense, Y)
    PROVE  LineTable(U, Y) = Promise!Added(<<"hours", e>>, u, i)
BY DEF LineTable, Gains, SameLines, Promise!Added

LEMMA GainedCosts ==
    ASSUME NEW U, NEW Y, NEW x, NEW u, NEW i, SameLines(entry, U), Gains(expense, Y, x, u, i)
    PROVE  LineTable(U, Y) = Promise!Added(<<"costs", x>>, u, i)
BY DEF LineTable, Gains, SameLines, Promise!Added

\* The contract's step, given what it does to the lines of each table.
LEMMA Opens ==
    ASSUME NEW u \in Users, NEW i \in InvoiceIds, inv[i].status = "none",
           BillTable' = [BillTable EXCEPT ![i] = [who |-> u, phase |-> "draft"]],
           Parsing' \in {Parsing, Parsing \union {i}},
           Files(entry, entry', u, i), Files(expense, expense', u, i)
    PROVE  LedgerStep
<1>1. BillTable[i].phase = "none"
  BY DEF BillTable
<1>2. Promise!Draft(i, u, LineTable(entry, expense))
  BY FiledTable DEF Promise!Draft
<1>3. Promise!Open(i)
  BY <1>1, <1>2 DEF Promise!Open
<1> QED  BY <1>3 DEF LedgerStep, Promise!Next

LEMMA Collects ==
    ASSUME NEW i \in InvoiceIds, inv[i].status = "draft",
           UNCHANGED <<inv, pdf>>,
           Files(entry, entry', inv[i].owner, i), Files(expense, expense', inv[i].owner, i)
    PROVE  LedgerStep
<1>1. BillTable[i].phase = "draft" /\ BillTable[i].who = inv[i].owner
  BY DEF BillTable
<1>2. UNCHANGED <<BillTable, Parsing>>
  BY DEF BillTable, Parsing
<1>3. Promise!Collect(i)
  BY <1>1, <1>2, FiledTable DEF Promise!Collect
<1> QED  BY <1>3 DEF LedgerStep, Promise!Next
LEMMA RecordsHours ==
    ASSUME NEW e \in EntryIds, NEW u \in Users, NEW i \in InvoiceOrNone,
           i # 0 => inv[i].status = "draft" /\ inv[i].owner = u,
           Gains(entry, entry', e, u, i), SameLines(expense, expense'),
           UNCHANGED <<inv, pdf>>
    PROVE  LedgerStep
<1> DEFINE k == <<"hours", e>>
<1>1. k \notin DOMAIN LineTable(entry, expense)
  BY DEF LineTable, Gains
<1>2. UNCHANGED <<BillTable, Parsing>>
  BY DEF BillTable, Parsing
<1>3. LineTable(entry, expense)' = Promise!Added(k, u, i)
  BY GainedHours
<1>4. i # 0 => /\ i \in InvoiceIds
               /\ BillTable[i] = [who |-> inv[i].owner, phase |-> inv[i].status]
  BY DEF BillTable, InvoiceOrNone, InvoiceIds
<1>5. Promise!Record(k)
  BY <1>1, <1>2, <1>3, <1>4 DEF Promise!Record
<1> QED  BY <1>5 DEF LedgerStep, Promise!Next

LEMMA RecordsCosts ==
    ASSUME NEW x \in ExpenseIds, NEW u \in Users, NEW i \in InvoiceOrNone,
           i # 0 => inv[i].status = "draft" /\ inv[i].owner = u,
           SameLines(entry, entry'), Gains(expense, expense', x, u, i),
           UNCHANGED <<inv, pdf>>
    PROVE  LedgerStep
<1> DEFINE k == <<"costs", x>>
<1>1. k \notin DOMAIN LineTable(entry, expense)
  BY DEF LineTable, Gains
<1>2. UNCHANGED <<BillTable, Parsing>>
  BY DEF BillTable, Parsing
<1>3. LineTable(entry, expense)' = Promise!Added(k, u, i)
  BY GainedCosts
<1>4. i # 0 => /\ i \in InvoiceIds
               /\ BillTable[i] = [who |-> inv[i].owner, phase |-> inv[i].status]
  BY DEF BillTable, InvoiceOrNone, InvoiceIds
<1>5. Promise!Record(k)
  BY <1>1, <1>2, <1>3, <1>4 DEF Promise!Record
<1> QED  BY <1>5 DEF LedgerStep, Promise!Next

\* The line is new and the draft is opened for it.
LEMMA OpensFor ==
    ASSUME NEW E, NEW X, NEW k, NEW u \in Users, NEW i \in InvoiceIds,
           inv[i].status = "none",
           \/ \E e \in EntryIds : k = <<"hours", e>> /\ Gains(entry, E, e, u, 0) /\ X = expense
           \/ \E x \in ExpenseIds : k = <<"costs", x>> /\ Gains(expense, X, x, u, 0) /\ E = entry,
           Files(E, entry', u, i), Files(X, expense', u, i),
           BillTable' = [BillTable EXCEPT ![i] = [who |-> u, phase |-> "draft"]],
           UNCHANGED pdf
    PROVE  LedgerStep
<1>1. /\ k \in ({"hours"} \X EntryIds) \union ({"costs"} \X ExpenseIds)
      /\ k \notin DOMAIN LineTable(entry, expense)
  <2>1. CASE \E e \in EntryIds : k = <<"hours", e>> /\ e \notin DOMAIN entry
    BY <2>1 DEF LineTable
  <2>2. CASE \E x \in ExpenseIds : k = <<"costs", x>> /\ x \notin DOMAIN expense
    BY <2>2 DEF LineTable
  <2> QED  BY <2>1, <2>2 DEF Gains
<1>2. LineTable(E, X) = Promise!Added(k, u, 0)
  BY GainedHours, GainedCosts DEF SameLines
<1>3. Promise!Draft(i, u, Promise!Added(k, u, 0))
  BY <1>2, FiledTable DEF Promise!Draft
<1>4. BillTable[i].phase = "none" /\ UNCHANGED Parsing
  BY DEF BillTable, Parsing
<1>5. Promise!Record(k)
  BY <1>1, <1>3, <1>4 DEF Promise!Record
<1> QED  BY <1>1, <1>5 DEF LedgerStep, Promise!Next

LEMMA Stutters ==
    ASSUME SameLines(entry, entry'), SameLines(expense, expense'),
           UNCHANGED <<BillTable, Parsing>>
    PROVE  LedgerStep
BY SameTable DEF LedgerStep, Promise!vars

LEMMA StopsReading ==
    ASSUME SameLines(entry, entry'), SameLines(expense, expense'),
           UNCHANGED BillTable, Parsing' \subseteq Parsing
    PROVE  LedgerStep
<1> DEFINE B == Parsing \ Parsing'
<1>1. B \in SUBSET Parsing /\ Parsing' = Parsing \ B
  OBVIOUS
<1>2. Promise!StopReading(B)
  BY <1>1, SameTable DEF Promise!StopReading
<1> QED  BY <1>1, <1>2 DEF LedgerStep, Promise!Next

LEMMA Imports ==
    ASSUME NEW i \in InvoiceIds, i \in Parsing, inv[i].status \notin {"none", "gone"},
           UNCHANGED BillTable, Parsing' = Parsing \ {i},
           \/ /\ \E e \in EntryIds : Gains(entry, entry', e, inv[i].owner, i)
              /\ SameLines(expense, expense')
           \/ /\ \E x \in ExpenseIds : Gains(expense, expense', x, inv[i].owner, i)
              /\ SameLines(entry, entry')
    PROVE  LedgerStep
<1>1. BillTable[i] = [who |-> inv[i].owner, phase |-> inv[i].status]
  BY DEF BillTable
<1>2. ASSUME NEW e \in EntryIds, Gains(entry, entry', e, inv[i].owner, i),
             SameLines(expense, expense')
      PROVE  LedgerStep
  <2>1. <<"hours", e>> \notin DOMAIN LineTable(entry, expense)
    BY <1>2 DEF LineTable, Gains
  <2>2. LineTable(entry, expense)' = Promise!Added(<<"hours", e>>, inv[i].owner, i)
    BY <1>2, GainedHours
  <2>3. Promise!Import(<<"hours", e>>, i)
    BY <1>1, <2>1, <2>2 DEF Promise!Import
  <2> QED  BY <2>3 DEF LedgerStep, Promise!Next
<1>3. ASSUME NEW x \in ExpenseIds, Gains(expense, expense', x, inv[i].owner, i),
             SameLines(entry, entry')
      PROVE  LedgerStep
  <2>1. <<"costs", x>> \notin DOMAIN LineTable(entry, expense)
    BY <1>3 DEF LineTable, Gains
  <2>2. LineTable(entry, expense)' = Promise!Added(<<"costs", x>>, inv[i].owner, i)
    BY <1>3, GainedCosts
  <2>3. Promise!Import(<<"costs", x>>, i)
    BY <1>1, <2>1, <2>2 DEF Promise!Import
  <2> QED  BY <2>3 DEF LedgerStep, Promise!Next
<1> QED  BY <1>2, <1>3

\* The guard of Remove, in terms of the invoice of the line.
LEMMA Removable ==
    ASSUME NEW i \in InvoiceOrNone, Status(i) = "draft"
    PROVE  i # 0 => BillTable[i].phase = "draft"
BY DEF InvoiceOrNone, InvoiceIds, Status, BillTable

LEMMA RemovesHours ==
    ASSUME NEW e \in DOMAIN entry, entry[e].invoice \in InvoiceOrNone,
           Status(entry[e].invoice) = "draft",
           entry' = Drop(entry, e), UNCHANGED <<expense, inv, pdf>>
    PROVE  LedgerStep
<1> DEFINE k == <<"hours", e>>
<1>1. k \in DOMAIN LineTable(entry, expense)
      /\ LineTable(entry, expense)[k].on = entry[e].invoice
  BY DEF LineTable
<1>2. LineTable(entry, expense)'
        = [j \in DOMAIN LineTable(entry, expense) \ {k} |-> LineTable(entry, expense)[j]]
  BY DEF LineTable, Drop
<1>3. UNCHANGED <<BillTable, Parsing>>
  BY DEF BillTable, Parsing
<1>4. Promise!Remove(k)
  BY <1>1, <1>2, <1>3, Removable DEF Promise!Remove
<1> QED  BY <1>1, <1>4 DEF LedgerStep, Promise!Next

LEMMA RemovesCosts ==
    ASSUME NEW x \in DOMAIN expense, expense[x].invoice \in InvoiceOrNone,
           Status(expense[x].invoice) = "draft",
           expense' = Drop(expense, x), UNCHANGED <<entry, inv, pdf>>
    PROVE  LedgerStep
<1> DEFINE k == <<"costs", x>>
<1>1. k \in DOMAIN LineTable(entry, expense)
      /\ LineTable(entry, expense)[k].on = expense[x].invoice
  BY DEF LineTable
<1>2. LineTable(entry, expense)'
        = [j \in DOMAIN LineTable(entry, expense) \ {k} |-> LineTable(entry, expense)[j]]
  BY DEF LineTable, Drop
<1>3. UNCHANGED <<BillTable, Parsing>>
  BY DEF BillTable, Parsing
<1>4. Promise!Remove(k)
  BY <1>1, <1>2, <1>3, Removable DEF Promise!Remove
<1> QED  BY <1>1, <1>4 DEF LedgerStep, Promise!Next
LEMMA MintFiles ==
    ASSUME TypeInv, NEW u, NEW s, NEW t, NEW W, NEW E, EntryTable(E),
           NEW X, ExpenseTable(X), MintAndSweep(u, s, t, W, E, X)
    PROVE  \E i \in InvoiceIds :
              /\ inv[i].status = "none"
              /\ BillTable' = [BillTable EXCEPT ![i] = [who |-> u, phase |-> "draft"]]
              /\ Files(E, entry', u, i) /\ Files(X, expense', u, i)
<1>1. PICK i \in InvoiceIds :
        /\ FreshInvoice(i)
        /\ inv' = [inv EXCEPT ![i] = NewDraft(u, s, t)]
        /\ entry' = SweptEntries(E, u, i, s, t, W)
        /\ expense' = SweptExpenses(X, u, i, s, t, W)
  BY DEF MintAndSweep
<1>2. i \in InvoiceOrNone /\ inv \in [InvoiceIds -> InvoiceRow]
  BY DEF InvoiceIds, InvoiceOrNone, TypeInv, TypeOK
<1>3. BillTable' = [BillTable EXCEPT ![i] = [who |-> u, phase |-> "draft"]]
  BY <1>1, <1>2 DEF BillTable, NewDraft
<1>4. Files(E, entry', u, i)
  BY <1>1, <1>2, Refiled DEF SweptEntries, EntryTable, Files
<1>5. Files(X, expense', u, i)
  BY <1>1, <1>2, RefiledExpense DEF SweptExpenses, ExpenseTable, Files
<1> QED  BY <1>1, <1>3, <1>4, <1>5 DEF FreshInvoice

LEMMA MintOpens ==
    ASSUME TypeInv, NEW u \in Users, NEW s, NEW t, NEW W,
           MintAndSweep(u, s, t, W, entry, expense), UNCHANGED pdf
    PROVE  LedgerStep
<1>1. Parsing' = Parsing
  BY DEF Parsing
<1> QED  BY <1>1, Typed, MintFiles, Opens

LEMMA FileEntryKeeps ==
    ASSUME TypeInv, NEW e \in EntryIds \ DOMAIN entry, NEW row \in EntryRow,
           row.invoice = 0, FileEntry(e, row), UNCHANGED pdf
    PROVE  LedgerStep
<1> DEFINE d == Day(row.cin)
           drafts == Covering(row.user, d, {"draft"})
           i == Max(drafts)
           filed == [row EXCEPT !.invoice = i]
<1>0. row.user \in Users
  BY DEF EntryRow
<1>1. CASE drafts # {} /\ entry' = Put(entry, e, filed) /\ UNCHANGED <<expense, inv>>
  <2>1. i \in InvoiceIds /\ inv[i].owner = row.user /\ inv[i].status = "draft"
    BY <1>1, DraftsCovering
  <2>2. i \in InvoiceOrNone
    BY <2>1 DEF InvoiceIds, InvoiceOrNone
  <2>3. filed.user = row.user /\ filed.invoice = i
    BY <2>2, Refiled
  <2> HIDE DEF filed, i, drafts
  <2>4. Gains(entry, entry', e, row.user, i) /\ SameLines(expense, expense')
    BY <1>1, <2>3 DEF Gains, Put, SameLines
  <2> QED  BY <1>0, <1>1, <2>1, <2>2, <2>4, RecordsHours
<1>2. CASE MintAndSweep(row.user, WeekStart(d), WeekEnd(d), WorkOrders,
                        Put(entry, e, row), expense)
  <2>1. EntryTable(Put(entry, e, row)) /\ ExpenseTable(expense)
    BY Typed, PutEntry
  <2>2. Gains(entry, Put(entry, e, row), e, row.user, 0)
    BY DEF Gains, Put
  <2>3. PICK j \in InvoiceIds :
           /\ inv[j].status = "none"
           /\ BillTable' = [BillTable EXCEPT ![j] = [who |-> row.user, phase |-> "draft"]]
           /\ Files(Put(entry, e, row), entry', row.user, j)
           /\ Files(expense, expense', row.user, j)
    BY <1>2, <2>1, MintFiles
  <2> QED  BY <1>0, <2>2, <2>3, OpensFor
<1> QED  BY <1>1, <1>2 DEF FileEntry

LEMMA FileExpenseKeeps ==
    ASSUME TypeInv, NEW x \in ExpenseIds \ DOMAIN expense, NEW row \in ExpenseRow,
           row.invoice = 0, FileExpense(x, row), UNCHANGED pdf
    PROVE  LedgerStep
<1> DEFINE drafts == Covering(row.user, row.date, {"draft"})
           i == Max(drafts)
           filed == [row EXCEPT !.invoice = i]
<1>0. row.user \in Users
  BY DEF ExpenseRow
<1>1. CASE drafts # {} /\ expense' = Put(expense, x, filed) /\ UNCHANGED <<entry, inv>>
  <2>1. i \in InvoiceIds /\ inv[i].owner = row.user /\ inv[i].status = "draft"
    BY <1>1, DraftsCovering
  <2>2. i \in InvoiceOrNone
    BY <2>1 DEF InvoiceIds, InvoiceOrNone
  <2>3. filed.user = row.user /\ filed.invoice = i
    BY <2>2, RefiledExpense
  <2> HIDE DEF filed, i, drafts
  <2>4. Gains(expense, expense', x, row.user, i) /\ SameLines(entry, entry')
    BY <1>1, <2>3 DEF Gains, Put, SameLines
  <2> QED  BY <1>0, <1>1, <2>1, <2>2, <2>4, RecordsCosts
<1>2. CASE MintAndSweep(row.user, WeekStart(row.date), WeekEnd(row.date), WorkOrders,
                        entry, Put(expense, x, row))
  <2>1. EntryTable(entry) /\ ExpenseTable(Put(expense, x, row))
    BY Typed, PutExpense
  <2>2. Gains(expense, Put(expense, x, row), x, row.user, 0)
    BY DEF Gains, Put
  <2>3. PICK j \in InvoiceIds :
           /\ inv[j].status = "none"
           /\ BillTable' = [BillTable EXCEPT ![j] = [who |-> row.user, phase |-> "draft"]]
           /\ Files(entry, entry', row.user, j)
           /\ Files(Put(expense, x, row), expense', row.user, j)
    BY <1>2, <2>1, MintFiles
  <2> QED  BY <1>0, <2>2, <2>3, OpensFor
<1> QED  BY <1>1, <1>2 DEF FileExpense

\* An update of one row that leaves its user and its invoice alone.
LEMMA UpdateKeeps ==
    ASSUME TypeInv, NEW e \in DOMAIN entry, NEW row,
           entry' = [entry EXCEPT ![e] = row], UNCHANGED <<expense, inv, pdf>>,
           row.user = entry[e].user, row.invoice = entry[e].invoice
    PROVE  LedgerStep
<1>1. SameLines(entry, entry') /\ SameLines(expense, expense')
  BY DEF SameLines, TypeInv, TypeOK
<1>2. UNCHANGED <<BillTable, Parsing>>
  BY DEF BillTable, Parsing
<1> QED  BY <1>1, <1>2, Stutters
LEMMA TimeKeeps ==
    ASSUME TypeInv, BillingInv, TimeNext
    PROVE  LedgerStep
<1> USE Typed
<1>a. now \in Int /\ Grace \in Nat /\ BreakInputs \subseteq Nat /\ 0 \in InvoiceOrNone
  BY DEF LedgerConstants, InvoiceOrNone
<1>1. CASE Tick
  BY <1>1, Stutters DEF Tick, SameLines, BillTable, Parsing
<1>2. ASSUME NEW u \in Users, NEW w \in WorkOrders, NEW m \in Modes, ClockIn(u, w, m)
      PROVE  LedgerStep
  <2>1. PICK e \in EntryIds : FreshEntry(e) /\ entry' = Put(entry, e, Timer(u, w, m))
    BY <1>2 DEF ClockIn
  <2>2. Gains(entry, entry', e, u, 0)
    BY <2>1 DEF FreshEntry, Timer, Gains, Put
  <2>3. SameLines(expense, expense')
    BY <1>2 DEF SameLines, ClockIn
  <2>4. UNCHANGED <<inv, pdf>>
    BY <1>2 DEF ClockIn
  <2> QED  BY <1>a, <2>2, <2>3, <2>4, RecordsHours
<1>3. ASSUME NEW u \in Users, NEW w \in WorkOrders, NEW m \in Modes, NEW ci \in 0..now,
             NEW co \in 1..(now + Grace), NEW b \in BreakInputs,
             ManualEntry(u, w, m, ci, co, b)
      PROVE  LedgerStep
  <2> DEFINE row == [Timer(u, w, m) EXCEPT !.cin = ci, !.cout = co, !.brk = b]
  <2>0. ci \in Int /\ co \in Int /\ b \in Int
    BY <1>a
  <2>1. row \in EntryRow
    BY <2>0, NewRows
  <2>2. row.invoice = 0
    BY DEF Timer
  <2>3. PICK e \in EntryIds : FreshEntry(e) /\ FileEntry(e, row)
    BY <1>3 DEF ManualEntry
  <2>4. e \in EntryIds \ DOMAIN entry /\ UNCHANGED pdf
    BY <1>3, <2>3 DEF FreshEntry, ManualEntry
  <2> QED  BY <2>1, <2>2, <2>3, <2>4, FileEntryKeeps
<1>4. ASSUME NEW e \in DOMAIN entry, SwitchMode(e)
      PROVE  LedgerStep
  <2> DEFINE closed == [entry[e] EXCEPT !.cout = now]
             opened == Timer(entry[e].user, entry[e].wo, Opposite(entry[e].mode))
  <2>1. PICK f \in EntryIds : FreshEntry(f) /\ entry' = Put(Put(entry, e, closed), f, opened)
    BY <1>4 DEF SwitchMode
  <2>2. closed.user = entry[e].user /\ closed.invoice = entry[e].invoice
        /\ opened.invoice = 0 /\ opened.user = entry[e].user /\ entry[e].user \in Users
    BY DEF EntryRow, Timer
  <2> HIDE DEF closed, opened
  <2>3. Gains(entry, entry', f, entry[e].user, 0)
    BY <2>1, <2>2 DEF Put, FreshEntry, Gains
  <2>4. SameLines(expense, expense')
    BY <1>4 DEF SameLines, SwitchMode
  <2>5. UNCHANGED <<inv, pdf>>
    BY <1>4 DEF SwitchMode
  <2> QED  BY <1>a, <2>2, <2>3, <2>4, <2>5, RecordsHours
<1>5. ASSUME NEW e \in DOMAIN entry, BreakStart(e)
      PROVE  LedgerStep
  <2> DEFINE row == [entry[e] EXCEPT !.bstart = now]
  <2>1. row.user = entry[e].user /\ row.invoice = entry[e].invoice
    BY DEF EntryRow
  <2> HIDE DEF row
  <2> QED  BY <1>5, <2>1, UpdateKeeps DEF BreakStart, row
<1>6. ASSUME NEW e \in DOMAIN entry, BreakResume(e)
      PROVE  LedgerStep
  <2> DEFINE row == FinalizeBreak(entry[e])
  <2>1. row.user = entry[e].user /\ row.invoice = entry[e].invoice
    BY DEF EntryRow, FinalizeBreak
  <2> HIDE DEF row
  <2> QED  BY <1>6, <2>1, UpdateKeeps DEF BreakResume, row
<1>7. ASSUME NEW e \in DOMAIN entry, NEW b \in BreakInputs \union {entry[e].brk},
             ClockOut(e, b)
      PROVE  LedgerStep
  <2> DEFINE row == IF entry[e].bstart # NoTime THEN FinalizeBreak(entry[e])
                    ELSE [entry[e] EXCEPT !.brk = b]
             last == [row EXCEPT !.cout = now,
                                 !.invoice = IF Status(@) \in Locked THEN 0 ELSE @]
  <2>1. entry[e].invoice = 0
    BY <1>7 DEF ClockOut, BillingInv, RunningUnbilled
  <2>2. last.user = entry[e].user /\ last.invoice = entry[e].invoice
    BY <2>1 DEF EntryRow, FinalizeBreak, Locked
  <2>3. entry' = [entry EXCEPT ![e] = last]
    BY <1>7 DEF ClockOut
  <2> HIDE DEF last
  <2> QED  BY <1>7, <2>2, <2>3, UpdateKeeps DEF ClockOut
<1>8. ASSUME NEW e \in DOMAIN entry, NEW b \in BreakInputs \union {entry[e].brk},
             NEW a \in Users, NEW ci \in 0..(now + Grace), NEW co \in 1..(now + Grace),
             EditEntry(a, e, ci, co, b)
      PROVE  LedgerStep
  <2> DEFINE row == [entry[e] EXCEPT !.cin = ci, !.cout = co, !.brk = b]
  <2>1. row.user = entry[e].user /\ row.invoice = entry[e].invoice
    BY DEF EntryRow
  <2>2. entry' = [entry EXCEPT ![e] = row] /\ UNCHANGED <<expense, inv, pdf>>
    BY <1>8 DEF EditEntry
  <2> HIDE DEF row
  <2> QED  BY <2>1, <2>2, UpdateKeeps
<1>9. ASSUME NEW e \in DOMAIN entry, NEW a \in Users, DeleteEntry(a, e)
      PROVE  LedgerStep
  <2>1. entry[e].invoice \in InvoiceOrNone
    BY DEF EntryRow
  <2> QED  BY <1>9, <2>1, RemovesHours DEF DeleteEntry
<1> QED  BY <1>1, <1>2, <1>3, <1>4, <1>5, <1>6, <1>7, <1>8, <1>9 DEF TimeNext

LEMMA ExpensesKeep ==
    ASSUME TypeInv, ExpenseNext
    PROVE  LedgerStep
<1> USE Typed
<1>1. ASSUME NEW u \in Users, NEW w \in WorkOrders, NEW d \in Days,
             NEW amount \in Amounts, AddExpense(u, w, d, amount)
      PROVE  LedgerStep
  <2> DEFINE row == [user |-> u, wo |-> w, date |-> d, amount |-> amount, invoice |-> 0]
  <2>1. row \in ExpenseRow
    BY DEF ExpenseRow, Days, InvoiceOrNone, LedgerConstants
  <2>2. PICK x \in ExpenseIds : FreshExpense(x) /\ FileExpense(x, row)
    BY <1>1 DEF AddExpense
  <2>3. x \in ExpenseIds \ DOMAIN expense /\ UNCHANGED pdf
    BY <1>1, <2>2 DEF FreshExpense, AddExpense
  <2> QED  BY <2>1, <2>2, <2>3, FileExpenseKeeps
<1>2. ASSUME NEW x \in DOMAIN expense, NEW a \in Users, DeleteExpense(a, x)
      PROVE  LedgerStep
  <2>1. expense[x].invoice \in InvoiceOrNone
    BY DEF ExpenseRow
  <2> QED  BY <1>2, <2>1, RemovesCosts DEF DeleteExpense
<1>3. ASSUME NEW x \in DOMAIN expense, NEW a \in Users, NEW w \in WorkOrders,
             NEW d \in Days, NEW amount \in Amounts, EditExpense(a, x, w, d, amount)
      PROVE  LedgerStep
  <2> DEFINE row == [expense[x] EXCEPT !.wo = w, !.date = d, !.amount = amount]
  <2>1. row.user = expense[x].user /\ row.invoice = expense[x].invoice
    BY DEF ExpenseRow
  <2>2. expense' = [expense EXCEPT ![x] = row] /\ UNCHANGED <<entry, inv, pdf>>
    BY <1>3 DEF EditExpense
  <2> HIDE DEF row
  <2>3. SameLines(entry, entry') /\ SameLines(expense, expense')
    BY <2>1, <2>2 DEF SameLines, ExpenseTable
  <2>4. UNCHANGED <<BillTable, Parsing>>
    BY <2>2 DEF BillTable, Parsing
  <2> QED  BY <2>3, <2>4, Stutters
<1> QED  BY <1>1, <1>2, <1>3 DEF ExpenseNext

\* Importing a line: a step on one table, or none.
LEMMA ImportGains ==
    ASSUME TypeInv, NEW i \in InvoiceIds, ImportLine(i)
    PROVE  \/ /\ \E e \in EntryIds : Gains(entry, entry', e, inv[i].owner, i)
              /\ SameLines(expense, expense')
           \/ /\ \E x \in ExpenseIds : Gains(expense, expense', x, inv[i].owner, i)
              /\ SameLines(entry, entry')
           \/ SameLines(entry, entry') /\ SameLines(expense, expense')
<1>1. CASE UNCHANGED <<entry, expense>>
  BY <1>1 DEF SameLines
<1>2. ASSUME NEW line \in LaborLine, NEW n \in EntryIds, FreshEntry(n),
             entry' = Put(entry, n, [Timer(inv[i].owner, line.wo, "work") EXCEPT
                                       !.cin = line.cin, !.cout = line.cout,
                                       !.invoice = i, !.imported = TRUE]),
             UNCHANGED expense
      PROVE  Gains(entry, entry', n, inv[i].owner, i) /\ SameLines(expense, expense')
  <2> DEFINE row == [Timer(inv[i].owner, line.wo, "work") EXCEPT
                        !.cin = line.cin, !.cout = line.cout,
                        !.invoice = i, !.imported = TRUE]
  <2>1. row.user = inv[i].owner /\ row.invoice = i
    BY DEF Timer
  <2>2. n \notin DOMAIN entry /\ entry' = Put(entry, n, row)
    BY <1>2 DEF FreshEntry
  <2> HIDE DEF row
  <2> QED  BY <1>2, <2>1, <2>2 DEF Gains, Put, SameLines
<1>3. ASSUME NEW line \in ExpenseLine, NEW x \in ExpenseIds, FreshExpense(x),
             expense' = Put(expense, x, [user |-> inv[i].owner, wo |-> line.wo,
                                         date |-> line.date, amount |-> line.amount,
                                         invoice |-> i]),
             UNCHANGED entry
      PROVE  Gains(expense, expense', x, inv[i].owner, i) /\ SameLines(entry, entry')
  BY <1>3 DEF FreshExpense, Gains, Put, SameLines
<1> QED  BY <1>1, <1>2, <1>3 DEF ImportLine, ImportLabor, ImportExpense
LEMMA BillingKeeps ==
    ASSUME TypeInv, BillingInv, BillingNext
    PROVE  LedgerStep
<1> USE Typed
<1>0. /\ \A i \in InvoiceIds : inv[i] \in InvoiceRow
      /\ inv \in [InvoiceIds -> InvoiceRow]
      /\ pdf \in [InvoiceIds -> SUBSET {"attached", "parsing", "stored"}]
      /\ \A i \in InvoiceIds : i \in InvoiceOrNone /\ i # 0
  BY DEF TypeInv, TypeOK, InvoiceIds, InvoiceOrNone
<1>1. ASSUME NEW t \in Technicians
      PROVE  t \in Users
  BY <1>1 DEF Users
<1>2. ASSUME NEW t \in Technicians, GetCurrent(t)
      PROVE  LedgerStep
  <2> DEFINE s == WeekStart(Day(now))
             at(S) == {i \in InvoiceIds : /\ inv[i].owner = t /\ inv[i].start = s
                                          /\ inv[i].status \in S}
             i == Max(at({"draft"}))
  <2>1. CASE /\ at({"draft"}) # {} /\ UNCHANGED inv
             /\ entry' = SweptEntries(entry, t, i, s, inv[i].end, WorkOrders)
             /\ expense' = SweptExpenses(expense, t, i, s, inv[i].end, WorkOrders)
    <3>1. i \in at({"draft"})
      BY <2>1, MaxInSet DEF InvoiceIds, LedgerConstants
    <3>2. i \in InvoiceIds /\ i \in InvoiceOrNone /\ inv[i].owner = t /\ inv[i].status = "draft"
      BY <1>0, <3>1
    <3> HIDE DEF i, at
    <3>3. Files(entry, entry', t, i)
      BY <2>1, <3>2, Refiled DEF SweptEntries, EntryTable, Files
    <3>4. Files(expense, expense', t, i)
      BY <2>1, <3>2, RefiledExpense DEF SweptExpenses, ExpenseTable, Files
    <3>5. UNCHANGED <<inv, pdf>>
      BY <1>2, <2>1 DEF GetCurrent
    <3> QED  BY <3>2, <3>3, <3>4, <3>5, Collects
  <2>2. CASE MintAndSweep(t, s, WeekEnd(s), WorkOrders, entry, expense)
    BY <1>1, <1>2, <2>2, MintOpens DEF GetCurrent
  <2> QED  BY <1>2, <2>1, <2>2 DEF GetCurrent
<1>3. ASSUME NEW t \in Technicians, NEW d \in Days, ForWeek(t, d)
      PROVE  LedgerStep
  BY <1>1, <1>3, MintOpens DEF ForWeek
<1>4. ASSUME NEW t \in Technicians, NEW s \in Days, NEW e \in Days, NEW W,
             CustomPeriod(t, s, e, W)
      PROVE  LedgerStep
  BY <1>1, <1>4, MintOpens DEF CustomPeriod
<1>5. ASSUME NEW t \in Technicians, NEW d \in Days, NEW b \in BOOLEAN, Upload(t, d, b)
      PROVE  LedgerStep
  <2>1. PICK i \in InvoiceIds :
          /\ FreshInvoice(i)
          /\ inv' = [inv EXCEPT ![i] = NewDraft(t, WeekStart(d), WeekEnd(d))]
          /\ pdf' = IF b THEN [pdf EXCEPT ![i] = {"attached", "parsing"}] ELSE pdf
    BY <1>5 DEF Upload
  <2>2. BillTable' = [BillTable EXCEPT ![i] = [who |-> t, phase |-> "draft"]]
    BY <1>0, <2>1 DEF BillTable, NewDraft
  <2>3. Parsing' \in {Parsing, Parsing \union {i}}
    <3>1. CASE b
      BY <1>0, <2>1, <3>1 DEF Parsing
    <3>2. CASE ~b
      BY <2>1, <3>2 DEF Parsing
    <3> QED  BY <3>1, <3>2
  <2>4. Files(entry, entry', t, i) /\ Files(expense, expense', t, i)
    BY <1>5 DEF Upload, Files
  <2> QED  BY <1>1, <2>1, <2>2, <2>3, <2>4, Opens DEF FreshInvoice
<1>6. ASSUME NEW i \in InvoiceIds, ChainStep(i)
      PROVE  LedgerStep
  <2>1. PICK p \in InvoiceStatuses :
          /\ <<inv[i].status, p>> \in
                {<<"draft", "submitted">>, <<"submitted", "approved">>,
                 <<"submitted", "draft">>, <<"approved", "draft">>,
                 <<"draft", "sent">>, <<"submitted", "sent">>, <<"approved", "sent">>}
          /\ inv' = [inv EXCEPT ![i].status = p]
    BY <1>6 DEF ChainStep
  <2>2. BillTable' = [BillTable EXCEPT ![i].phase = p]
    BY <1>0, <2>1 DEF BillTable, InvoiceRow
  <2>3. BillTable[i].phase = inv[i].status
    BY DEF BillTable
  <2>4. UNCHANGED <<LineTable(entry, expense), Parsing>>
    BY <1>6 DEF ChainStep, Parsing
  <2>5. Promise!Review(i)
    BY <2>1, <2>2, <2>3, <2>4 DEF Promise!Review
  <2> QED  BY <2>5 DEF LedgerStep, Promise!Next
<1>7. ASSUME NEW i \in InvoiceIds, AdminDelete(i)
      PROVE  LedgerStep
  <2> DEFINE L == LineTable(entry, expense)
  <2>1. BillTable[i].phase = inv[i].status
        /\ BillTable' = [BillTable EXCEPT ![i].phase = "gone"]
    BY <1>0, <1>7 DEF AdminDelete, Removed, BillTable, InvoiceRow
  <2>2. 0 \in InvoiceOrNone
    BY DEF InvoiceOrNone, LedgerConstants
  <2>3. /\ DOMAIN entry' = DOMAIN entry
        /\ \A k \in DOMAIN entry :
              /\ entry'[k].user = entry[k].user
              /\ entry'[k].invoice = IF entry[k].invoice = i THEN 0 ELSE entry[k].invoice
    BY <1>7, <2>2, Refiled DEF AdminDelete
  <2>4. /\ DOMAIN expense' = DOMAIN expense
        /\ \A k \in DOMAIN expense :
              /\ expense'[k].user = expense[k].user
              /\ expense'[k].invoice = IF expense[k].invoice = i THEN 0
                                       ELSE expense[k].invoice
    BY <1>7, <2>2, RefiledExpense DEF AdminDelete
  <2>5. L' = Promise!Moved(L, {k \in DOMAIN L : L[k].on = i}, 0)
    BY <2>3, <2>4 DEF LineTable, Promise!Moved
  <2>6. Parsing' = Parsing /\ inv[i].status \in {"draft", "submitted", "approved"}
    BY <1>7 DEF AdminDelete, Parsing
  <2>7. Promise!Discard(i)
    BY <2>1, <2>5, <2>6 DEF Promise!Discard
  <2> QED  BY <2>7 DEF LedgerStep, Promise!Next
<1>8. ASSUME NEW i \in InvoiceIds, NEW a \in Users, ApproveAddition(a, i)
      PROVE  LedgerStep
  <2>1. inv[i].owner \in Users
    BY <1>8 DEF ApproveAddition, TypeInv, Minted
  <2> QED  BY <1>8, <2>1, MintOpens DEF ApproveAddition
<1>9. ASSUME NEW i \in InvoiceIds, NEW s \in Days, NEW e \in Days, Parsed(i, s, e)
      PROVE  /\ i \in Parsing /\ inv[i].status \notin {"none", "gone"}
             /\ BillTable' = BillTable /\ Parsing' = Parsing \ {i}
  <2>1. inv[i].status \notin {"none", "gone"} /\ i \in Parsing
    BY <1>9 DEF Parsed, Parsing, TypeInv, Minted
  <2>2. BillTable' = BillTable
    BY <1>0, <1>9 DEF Parsed, InvoiceRow, BillTable
  <2>3. Parsing' = Parsing \ {i}
    BY <1>0, <1>9 DEF Parsed, Parsing
  <2> QED  BY <2>1, <2>2, <2>3
<1>10. ASSUME NEW i \in InvoiceIds, NEW s \in Days, NEW e \in Days, ParseHeld(i, s, e)
       PROVE  LedgerStep
  <2>1. SameLines(entry, entry') /\ SameLines(expense, expense')
    BY <1>10 DEF ParseHeld, SameLines
  <2> QED  BY <1>9, <1>10, <2>1, StopsReading DEF ParseHeld
<1>11. ASSUME NEW i \in InvoiceIds, NEW s \in Days, NEW e \in Days, ParseImported(i, s, e)
       PROVE  LedgerStep
  <2>1. CASE SameLines(entry, entry') /\ SameLines(expense, expense')
    BY <1>9, <1>11, <2>1, StopsReading DEF ParseImported
  <2> QED  BY <1>9, <1>11, <2>1, ImportGains, Imports DEF ParseImported
<1>12. ASSUME NEW i \in InvoiceIds, ImportPdf(i)
       PROVE  LedgerStep
  <2>1. inv[i].status = "draft" /\ UNCHANGED <<inv, pdf>> /\ inv[i].owner \in Users
    BY <1>12 DEF ImportPdf, TypeInv, Minted
  <2>2. UNCHANGED <<BillTable, Parsing>>
    BY <2>1 DEF BillTable, Parsing
  <2>3. CASE SameLines(entry, entry') /\ SameLines(expense, expense')
    BY <2>2, <2>3, Stutters
  <2> QED  BY <1>0, <1>12, <2>1, <2>3, ImportGains, RecordsHours, RecordsCosts DEF ImportPdf
<1>13. ASSUME NEW i \in InvoiceIds, NEW s \in Days, NEW e \in Days, NEW a \in Users,
              PutHeader(a, i, s, e)
       PROVE  LedgerStep
  <2>1. BillTable' = BillTable /\ Parsing' = Parsing
    BY <1>0, <1>13 DEF PutHeader, InvoiceRow, BillTable, Parsing
  <2>2. SameLines(entry, entry') /\ SameLines(expense, expense')
    BY <1>13 DEF PutHeader, SameLines
  <2> QED  BY <2>1, <2>2, Stutters
<1>14. CASE UNCHANGED <<entry, expense, inv>> /\ Parsing' \subseteq Parsing
  <2>1. SameLines(entry, entry') /\ SameLines(expense, expense')
    BY <1>14 DEF SameLines
  <2>2. BillTable' = BillTable
    BY <1>14 DEF BillTable
  <2> QED  BY <1>14, <2>1, <2>2, StopsReading
<1>15. ASSUME NEW i \in InvoiceIds, ParseFails(i) \/ Reextract(i)
       PROVE  LedgerStep
  BY <1>0, <1>14, <1>15 DEF ParseFails, Reextract, Parsing
<1>16. CASE UploadsDie
  BY <1>0, <1>14, <1>16 DEF UploadsDie, Parsing
<1>17. ASSUME NEW i \in InvoiceIds, NEW a \in Users, DenyAddition(a, i)
       PROVE  LedgerStep
  BY <1>14, <1>17 DEF DenyAddition, Parsing
<1>18. ASSUME NEW i \in InvoiceIds, NEW W, RequestAddition(i, W)
       PROVE  LedgerStep
  BY <1>14, <1>18 DEF RequestAddition, Parsing
<1> QED
  BY <1>2, <1>3, <1>4, <1>5, <1>6, <1>7, <1>8, <1>10, <1>11, <1>12, <1>13, <1>15,
     <1>16, <1>17, <1>18
  DEF BillingNext

\* For every size of the tables the handlers implement LedgerContract: a line is
\* free or on one invoice of its owner, gets there while that is a draft or its
\* PDF is being parsed, leaves it only with its deletion, and is deleted only
\* while free or on a draft.
THEOREM LedgerKept == Spec => KeepsLedger
<1>1. Init => Promise!Init
  BY DEF Init, Promise!Init, LineTable, BillTable, Parsing, Unminted
<1>2. TypeInv /\ BillingInv /\ [Next]_ledger => [Promise!Next]_(Promise!vars)
  <2> SUFFICES ASSUME TypeInv, BillingInv, [Next]_ledger
               PROVE  LedgerStep
    BY DEF LedgerStep
  <2>1. CASE UNCHANGED ledger
    BY <2>1, Stutters DEF ledger, SameLines, BillTable, Parsing
  <2> QED  BY <2>1, TimeKeeps, ExpensesKeep, BillingKeeps DEF Next
<1> QED  BY <1>1, <1>2, BillingAlways, PTL DEF Spec, KeepsLedger, Promise!Spec

-----------------------------------------------------------------------------
(* Breaks *)

\* How a row leaves its break: measured, by a resume or by the clock-out.
Measured(r, s) ==
    /\ Running(r) /\ s.cin = r.cin /\ s.cout \in {NoTime, now}
    /\ s.brk = r.brk + Minutes(now - r.bstart)

LEMMA MeasuredPay ==
    ASSUME now \in Nat, NEW r \in EntryRow, NEW s, Measured(r, s), r.bstart # NoTime,
           s.bstart = NoTime
    PROVE  LET moved == (IF Running(s) THEN now ELSE s.cout) - s.cin - s.brk * Minute
                           - (Until(r) - r.cin - r.brk * Minute - (now - r.bstart))
           IN  2 * moved <= Minute /\ -(2 * moved) <= Minute
<1> DEFINE d == now - r.bstart
           q == Minutes(d)
<1>1. d \in Int /\ r.cin \in Int /\ r.brk \in Int /\ Minute \in Int
  BY DEF EntryRow, LedgerConstants
<1>2. q \in Int /\ 2 * (d - q * Minute) <= Minute /\ -(2 * (d - q * Minute)) <= Minute
  BY <1>1, Rounding DEF LedgerConstants
<1>3. /\ s.cin = r.cin /\ s.brk = r.brk + q /\ Until(r) = now
      /\ (IF Running(s) THEN now ELSE s.cout) = now
  BY DEF Measured, Until, Running
<1> HIDE DEF d, q
<1>4. now - r.cin - (r.brk + q) * Minute - (now - r.cin - r.brk * Minute - d)
        = d - q * Minute
  BY <1>1, <1>2
<1> QED  BY <1>2, <1>3, <1>4 DEF d

LEMMA SweptBreaks ==
    ASSUME NEW T, EntryTable(T), NEW i \in InvoiceIds, NEW u, NEW s, NEW t, NEW W,
           NEW e \in DOMAIN T
    PROVE  SweptEntries(T, u, i, s, t, W)[e].bstart = T[e].bstart
<1>1. i \in InvoiceOrNone
  BY DEF InvoiceIds, InvoiceOrNone
<1> QED  BY <1>1, Refiled DEF SweptEntries, EntryTable

LEMMA MintBreaks ==
    ASSUME NEW u, NEW s, NEW t, NEW W, NEW T, EntryTable(T), NEW X,
           MintAndSweep(u, s, t, W, T, X), NEW e \in DOMAIN T
    PROVE  entry'[e].bstart = T[e].bstart
BY SweptBreaks DEF MintAndSweep

LEMMA FileBreaks ==
    ASSUME TypeInv, NEW f \in EntryIds \ DOMAIN entry, NEW row \in EntryRow,
           FileEntry(f, row), NEW e \in DOMAIN entry
    PROVE  entry'[e].bstart = entry[e].bstart
<1> DEFINE d == Day(row.cin)
           drafts == Covering(row.user, d, {"draft"})
<1>1. CASE entry' = Put(entry, f, [row EXCEPT !.invoice = Max(drafts)])
  BY <1>1 DEF Put
<1>2. CASE MintAndSweep(row.user, WeekStart(d), WeekEnd(d), WorkOrders,
                        Put(entry, f, row), expense)
  <2>1. EntryTable(Put(entry, f, row))
    BY Typed, PutEntry
  <2>2. e \in DOMAIN Put(entry, f, row) /\ Put(entry, f, row)[e] = entry[e]
    BY DEF Put
  <2> QED  BY <1>2, <2>1, <2>2, MintBreaks
<1> QED  BY <1>1, <1>2 DEF FileEntry

\* A row in a break leaves it measured.
LEMMA BreakEnds ==
    ASSUME TypeInv, [Next]_ledger, NEW e \in DOMAIN entry, e \in DOMAIN entry',
           entry[e].bstart # NoTime, entry'[e].bstart = NoTime
    PROVE  now' = now /\ Measured(entry[e], entry'[e])
<1> USE Typed
<1> DEFINE Kept == entry'[e].bstart = entry[e].bstart
<1>1. CASE UNCHANGED entry
  BY <1>1
<1>2. ASSUME NEW u, NEW s, NEW t, NEW W, NEW X, MintAndSweep(u, s, t, W, entry, X)
      PROVE  Kept
  BY <1>2, MintBreaks
<1>3. CASE ExpenseNext
  <2>1. UNCHANGED entry \/ \E u, s, t, W, X : MintAndSweep(u, s, t, W, entry, X)
    <3>1. ASSUME NEW w, NEW u, NEW d, NEW amount, AddExpense(u, w, d, amount)
          PROVE  UNCHANGED entry \/ \E o, s, t, W, X : MintAndSweep(o, s, t, W, entry, X)
      BY <3>1 DEF AddExpense, FileExpense
    <3>2. UNCHANGED entry \/ \E u, w, d, amount : AddExpense(u, w, d, amount)
      BY <1>3 DEF ExpenseNext, EditExpense, DeleteExpense
    <3> QED  BY <3>1, <3>2
  <2> QED  BY <1>1, <1>2, <2>1
<1>4. CASE BillingNext
  <2>1. ASSUME NEW t \in Technicians, GetCurrent(t)
        PROVE  Kept
    <3> DEFINE s == WeekStart(Day(now))
               at(S) == {i \in InvoiceIds : /\ inv[i].owner = t /\ inv[i].start = s
                                            /\ inv[i].status \in S}
               i == Max(at({"draft"}))
    <3>1. CASE /\ at({"draft"}) # {}
               /\ entry' = SweptEntries(entry, t, i, s, inv[i].end, WorkOrders)
      <4>1. i \in InvoiceIds
        BY <3>1, MaxInSet DEF InvoiceIds, LedgerConstants
      <4> QED  BY <3>1, <4>1, SweptBreaks
    <3>2. CASE MintAndSweep(t, s, WeekEnd(s), WorkOrders, entry, expense)
      BY <1>2, <3>2
    <3> QED  BY <2>1, <3>1, <3>2 DEF GetCurrent
  <2>2. ASSUME NEW i \in InvoiceIds, AdminDelete(i)
        PROVE  Kept
    <3>1. 0 \in InvoiceOrNone
      BY DEF InvoiceOrNone, LedgerConstants
    <3> QED  BY <2>2, <3>1, Refiled DEF AdminDelete
  <2>3. ASSUME NEW i \in InvoiceIds, ImportLine(i)
        PROVE  Kept
    BY <2>3 DEF ImportLine, ImportLabor, ImportExpense, FreshEntry, Put
  <2>4. \/ UNCHANGED entry
        \/ \E u, s, t, W, X : MintAndSweep(u, s, t, W, entry, X)
        \/ \E t \in Technicians : GetCurrent(t)
        \/ \E i \in InvoiceIds : AdminDelete(i) \/ ImportLine(i)
    BY <1>4 DEF BillingNext, ForWeek, CustomPeriod, Upload, ChainStep, ApproveAddition,
                DenyAddition, RequestAddition, ParseFails, Reextract, ImportPdf, ParseHeld,
                ParseImported, PutHeader, UploadsDie
  <2> QED  BY <1>1, <1>2, <2>1, <2>2, <2>3, <2>4
<1>5. CASE TimeNext
  <2>1. ASSUME NEW u \in Users, NEW w \in WorkOrders, NEW m \in Modes, ClockIn(u, w, m)
        PROVE  Kept
    BY <2>1 DEF ClockIn, FreshEntry, Put
  <2>2. ASSUME NEW u \in Users, NEW w \in WorkOrders, NEW m \in Modes, NEW ci \in 0..now,
               NEW co \in 1..(now + Grace), NEW b \in BreakInputs,
               ManualEntry(u, w, m, ci, co, b)
        PROVE  Kept
    <3> DEFINE row == [Timer(u, w, m) EXCEPT !.cin = ci, !.cout = co, !.brk = b]
    <3>0. now \in Int /\ Grace \in Nat /\ BreakInputs \subseteq Nat
      BY DEF LedgerConstants
    <3>1. ci \in Int /\ co \in Int /\ b \in Int
      BY <3>0
    <3>2. row \in EntryRow
      BY <3>1, NewRows
    <3>3. PICK f \in EntryIds : FreshEntry(f) /\ FileEntry(f, row)
      BY <2>2 DEF ManualEntry
    <3>4. f \in EntryIds \ DOMAIN entry
      BY <3>3 DEF FreshEntry
    <3> QED  BY <3>2, <3>3, <3>4, FileBreaks
  <2>3. ASSUME NEW f \in DOMAIN entry, SwitchMode(f)
        PROVE  Kept
    BY <2>3 DEF SwitchMode, FreshEntry, Put, EntryRow
  <2>4. ASSUME NEW f \in DOMAIN entry, BreakStart(f)
        PROVE  Kept \/ entry'[e].bstart # NoTime
    BY <2>4 DEF BreakStart, EntryTable, EntryRow, LedgerConstants
  <2>5. ASSUME NEW f \in DOMAIN entry, NEW row, entry' = [entry EXCEPT ![f] = row]
        PROVE  entry'[e] = IF e = f THEN row ELSE entry[e]
    BY <2>5 DEF EntryTable
  <2>6. ASSUME NEW f \in DOMAIN entry, BreakResume(f)
        PROVE  Kept \/ (now' = now /\ Measured(entry[e], entry'[e]))
    <3>1. entry'[e] = IF e = f THEN FinalizeBreak(entry[f]) ELSE entry[e]
      BY <2>5, <2>6 DEF BreakResume
    <3>2. CASE e = f
      <4>1. Measured(entry[e], FinalizeBreak(entry[e]))
        BY <2>6, <3>2 DEF BreakResume, Measured, FinalizeBreak, EntryRow, Running
      <4> QED  BY <2>6, <3>1, <3>2, <4>1 DEF BreakResume
    <3> QED  BY <3>1, <3>2
  <2>7. ASSUME NEW f \in DOMAIN entry, NEW b \in BreakInputs \union {entry[f].brk},
               ClockOut(f, b)
        PROVE  Kept \/ (now' = now /\ Measured(entry[e], entry'[e]))
    <3> DEFINE last == [FinalizeBreak(entry[f]) EXCEPT !.cout = now,
                           !.invoice = IF Status(@) \in Locked THEN 0 ELSE @]
    <3>1. CASE e = f
      <4>1. entry'[e] = last
        BY <2>5, <2>7, <3>1 DEF ClockOut
      <4>2. Measured(entry[e], last)
        BY <2>7, <3>1 DEF ClockOut, Measured, FinalizeBreak, EntryRow, Running
      <4> QED  BY <2>7, <4>1, <4>2 DEF ClockOut
    <3>2. CASE e # f
      BY <2>5, <2>7, <3>2 DEF ClockOut
    <3> QED  BY <3>1, <3>2
  <2>8. ASSUME NEW f \in DOMAIN entry, NEW b, NEW a, NEW ci, NEW co,
               EditEntry(a, f, ci, co, b)
        PROVE  Kept
    BY <2>8 DEF EditEntry, EntryTable, EntryRow
  <2>9. ASSUME NEW f \in DOMAIN entry, NEW a, DeleteEntry(a, f)
        PROVE  Kept
    BY <2>9 DEF DeleteEntry, Drop
  <2> QED  BY <1>1, <1>5, <2>1, <2>2, <2>3, <2>4, <2>6, <2>7, <2>8, <2>9 DEF TimeNext, Tick
<1> QED  BY <1>1, <1>3, <1>4, <1>5 DEF Next, ledger

\* Ending a break, by a resume or by clocking out of it, moves the paid time by
\* no more than the rounding of that break to a whole minute.
THEOREM BreaksCostTheirLength == Spec => BreakSeamless
<1>1. TypeInv /\ [Next]_ledger =>
         [\A e \in DOMAIN entry \intersect DOMAIN entry' :
            entry[e].bstart # NoTime /\ entry'[e].bstart = NoTime =>
               LET moved == Paid(entry[e])' - Paid(entry[e])
               IN  2 * moved <= Minute /\ -(2 * moved) <= Minute]_ledger
  <2> SUFFICES ASSUME TypeInv, [Next]_ledger,
                      NEW e \in DOMAIN entry \intersect DOMAIN entry',
                      entry[e].bstart # NoTime, entry'[e].bstart = NoTime
               PROVE  LET moved == Paid(entry[e])' - Paid(entry[e])
                      IN  2 * moved <= Minute /\ -(2 * moved) <= Minute
    OBVIOUS
  <2> DEFINE r == entry[e]
             s == entry'[e]
  <2>1. now' = now /\ Measured(r, s) /\ r \in EntryRow /\ now \in Nat
    BY BreakEnds, Typed
  <2>2. LET moved == (IF Running(s) THEN now ELSE s.cout) - s.cin - s.brk * Minute
                        - (Until(r) - r.cin - r.brk * Minute - (now - r.bstart))
        IN  2 * moved <= Minute /\ -(2 * moved) <= Minute
    BY <2>1, MeasuredPay
  <2>3. Paid(r) = Until(r) - r.cin - r.brk * Minute - (now - r.bstart)
    BY DEF Paid
  <2>4. Paid(entry[e])' = (IF Running(s) THEN now ELSE s.cout) - s.cin - s.brk * Minute - 0
    BY <2>1 DEF Paid, Until, Running
  <2>5. (IF Running(s) THEN now ELSE s.cout) - s.cin - s.brk * Minute \in Int
    <3>1. now - r.bstart \in Int /\ r.cin \in Int /\ r.brk \in Int /\ Minute \in Int
      BY <2>1 DEF EntryRow, LedgerConstants
    <3>2. Minutes(now - r.bstart) \in Int
      BY <3>1, Rounding DEF LedgerConstants
    <3>3. s.cin \in Int /\ s.brk \in Int
      BY <2>1, <3>1, <3>2 DEF Measured
    <3>4. (IF Running(s) THEN now ELSE s.cout) = now
      BY <2>1 DEF Measured, Running
    <3> HIDE DEF r, s
    <3> QED  BY <2>1, <3>1, <3>3, <3>4
  <2> HIDE DEF r, s
  <2> QED  BY <2>2, <2>3, <2>4, <2>5 DEF r
<1> QED  BY <1>1, TypeCorrect, PTL DEF Spec, BreakSeamless

=============================================================================
