---------------------------- MODULE LaborSyncProofs ----------------------------
(***************************************************************************)
(* For every value of the constants and whatever MaintainX answers: a pull *)
(* leaves the logged entries of locked invoices alone, changes nothing     *)
(* when it is repeated, and takes no imported line off an invoice when it  *)
(* has times per technician.  None of it depends on how long the imported  *)
(* times are, so the minutes of mx are not typed.                          *)
(***************************************************************************)
EXTENDS LaborSync, FiniteSetTheorems, TLAPS

\* A logged entry that still runs is on no invoice.
RunningUnbilled == \A e \in DOMAIN app : app[e].open => app[e].invoice = NoInvoice

LedgerInv ==
    /\ locked \subseteq Invoices
    /\ app \in [DOMAIN app -> AppRow]
    /\ RunningUnbilled

-----------------------------------------------------------------------------
\* Reconciling either leaves the logged entries alone or deletes the unbilled
\* work among them; it does nothing else to them, in any of its branches.
LEMMA ReconcileApp ==
    ASSUME NEW st \in Statuses, NEW a, NEW m, NEW s,
           NEW r \in Reconcile(st, a, m, s)
    PROVE  r.app \in {a, DeleteUnbilledWork(a)}
<1>1. ASSUME NEW b, NEW c, NEW rows  PROVE AfterClean(b, c, rows).app = b
  BY DEF AfterClean, Result
<1>2. ASSUME NEW b, NEW q \in WriteTotal(b, m, s)  PROVE q.app = b
  <2>1. PICK c \in CleanOne(m, TotalRef(s)), i \in Inheritable(b) :
           q = AfterClean(b, c, Upsert(c.mx, TotalRef(s), Rounded(TotalTime(s)), i))
    BY <1>2 DEF WriteTotal
  <2> QED  BY <2>1, <1>1
<1>3. CASE st = "completed" /\ HasTechnicians(s)
  <2>1. r \in MxWinsPerTech(a, m, s)  BY <1>3 DEF Reconcile
  <2>2. \E c, rows : r = AfterClean(DeleteUnbilledWork(a), c, rows)
    BY <2>1 DEF MxWinsPerTech
  <2> QED  BY <2>2, <1>1
<1>4. CASE st = "completed" /\ ~HasTechnicians(s)
  <2>1. r \in MxWins(a, m, s)  BY <1>4 DEF Reconcile
  <2>2. CASE Rounded(TotalTime(s)) = 0
    BY <2>1, <2>2 DEF MxWins, Result
  <2>3. CASE Rounded(TotalTime(s)) # 0
    BY <2>1, <2>3, <1>2 DEF MxWins
  <2> QED  BY <2>2, <2>3
<1>5. CASE st # "completed"
  <2>1. r \in AppWins(a, m, s)  BY <1>5 DEF Reconcile
  <2>2. CASE Work(a) # {} \/ Rounded(TotalTime(s)) = 0
    BY <2>1, <2>2 DEF AppWins, Result
  <2>3. CASE ~(Work(a) # {} \/ Rounded(TotalTime(s)) = 0)
    BY <2>1, <2>3, <1>2 DEF AppWins
  <2> QED  BY <2>2, <2>3
<1> QED  BY <1>3, <1>4, <1>5

\* A pull touches no logged entry that is on an invoice, and changes none that
\* it leaves.
LEMMA SyncApp ==
    ASSUME NEW s, Sync(s), status' \in Statuses
    PROVE  /\ DOMAIN app' \subseteq DOMAIN app
           /\ \A e \in DOMAIN app' : app'[e] = app[e]
           /\ \A e \in DOMAIN app : app[e].invoice # NoInvoice => e \in DOMAIN app'
<1>1. app' \in {app, DeleteUnbilledWork(app)}
  BY ReconcileApp DEF Sync
<1>2. CASE app' = app  BY <1>2
<1>3. CASE app' = DeleteUnbilledWork(app)
  BY <1>3 DEF DeleteUnbilledWork, Without, Restrict
<1> QED  BY <1>1, <1>2, <1>3

-----------------------------------------------------------------------------
\* The statuses stay among those of the CHECK constraint of work_orders.
LEMMA StatusKept == ASSUME status \in Statuses, Next  PROVE status' \in Statuses
<1>1. ASSUME NEW s \in Snapshots, Sync(s)  PROVE status' \in Statuses
  BY <1>1 DEF Sync, StatusToPersist, Snapshots
<1> QED
  BY <1>1 DEF Next, SetStatus, ClockIn, ClockOut, File, DeleteLine, Lock, Unlock

LEMMA LedgerInvInit == ASSUME Init PROVE status \in Statuses /\ LedgerInv
  BY DEF Init, LedgerInv, RunningUnbilled, Statuses

\* Every step keeps LedgerInv: the sweep passes running entries over, and only
\* the chain changes which invoices are locked.
LEMMA LedgerInvStep ==
    ASSUME status \in Statuses, LedgerInv, [Next]_vars
    PROVE  LedgerInv'
<1> USE DEF LedgerInv, RunningUnbilled
<1>1. ASSUME NEW s \in Snapshots, Sync(s)  PROVE LedgerInv'
  <2>1. status' \in Statuses  BY <1>1, StatusKept DEF Next
  <2>2. /\ DOMAIN app' \subseteq DOMAIN app
        /\ \A e \in DOMAIN app' : app'[e] = app[e]
    BY <1>1, <2>1, SyncApp
  <2>3. app' = [e \in DOMAIN app' |-> app'[e]]
    <3>1. app' \in {app, DeleteUnbilledWork(app)}
      BY <1>1, <2>1, ReconcileApp DEF Sync
    <3> QED  BY <3>1 DEF DeleteUnbilledWork, Without, Restrict
  <2>4. locked' = locked  BY <1>1 DEF Sync
  <2> QED  BY <2>2, <2>3, <2>4
<1>2. ASSUME NEW u \in Users, NEW m \in {"work", "drive"}, ClockIn(u, m)
      PROVE  LedgerInv'
  <2> DEFINE row == [user |-> u, mode |-> m, open |-> TRUE, invoice |-> NoInvoice]
  <2>1. PICK new \in EntryIds \ DOMAIN app :
           app' = [x \in DOMAIN app \union {new} |-> IF x # new THEN app[x] ELSE row]
    BY <1>2 DEF ClockIn
  <2>2. row \in AppRow  BY DEF AppRow, InvoiceOrNone
  <2>3. locked' = locked  BY <1>2 DEF ClockIn
  <2> QED  BY <2>1, <2>2, <2>3
<1>3. ASSUME NEW e \in DOMAIN app, ClockOut(e)  PROVE LedgerInv'
  BY <1>3 DEF ClockOut, AppRow
<1>4. ASSUME NEW i \in Invoices, File(i)  PROVE LedgerInv'
  <2>1. PICK E \in SUBSET {e \in DOMAIN app : ~app[e].open} :
           app' = [e \in DOMAIN app |->
                     IF e \in E THEN [app[e] EXCEPT !.invoice = i] ELSE app[e]]
    BY <1>4 DEF File
  <2>2. locked' = locked  BY <1>4 DEF File
  <2> QED  BY <2>1, <2>2 DEF AppRow, InvoiceOrNone
<1>5. ASSUME NEW i \in Invoices, Lock(i) \/ Unlock(i)  PROVE LedgerInv'
  BY <1>5 DEF Lock, Unlock
<1>6. CASE DeleteLine
  <2>1. locked' = locked  BY <1>6 DEF DeleteLine
  <2>2. CASE app' = app  BY <2>1, <2>2
  <2>3. ASSUME NEW e \in DOMAIN app, app' = Without(app, {e})  PROVE LedgerInv'
    BY <2>1, <2>3 DEF Without, Restrict
  <2> QED  BY <1>6, <2>2, <2>3 DEF DeleteLine
<1>7. CASE (\E st \in Statuses : SetStatus(st)) \/ UNCHANGED vars
  BY <1>7 DEF SetStatus, vars
<1> QED  BY <1>1, <1>2, <1>3, <1>4, <1>5, <1>6, <1>7 DEF Next

\* A step leaves every logged entry of a locked invoice where and as it is.
LEMMA LockedStep ==
    ASSUME status \in Statuses, LedgerInv, [Next]_vars,
           NEW e \in DOMAIN app, app[e].invoice \in locked
    PROVE  e \in DOMAIN app' /\ app'[e] = app[e]
<1>0. app[e].invoice # NoInvoice
  BY SyncConstants DEF LedgerInv
<1>1. ASSUME NEW s \in Snapshots, Sync(s)  PROVE e \in DOMAIN app' /\ app'[e] = app[e]
  <2>1. status' \in Statuses  BY <1>1, StatusKept DEF Next
  <2> QED  BY <1>0, <1>1, <2>1, SyncApp
<1>2. ASSUME NEW u \in Users, NEW m \in {"work", "drive"}, ClockIn(u, m)
      PROVE  e \in DOMAIN app' /\ app'[e] = app[e]
  <2> DEFINE row == [user |-> u, mode |-> m, open |-> TRUE, invoice |-> NoInvoice]
  <2>1. PICK new \in EntryIds \ DOMAIN app :
           app' = [x \in DOMAIN app \union {new} |-> IF x # new THEN app[x] ELSE row]
    BY <1>2 DEF ClockIn
  <2> HIDE DEF row
  <2> QED  BY <2>1
<1>3. ASSUME NEW f \in DOMAIN app, ClockOut(f)
      PROVE  e \in DOMAIN app' /\ app'[e] = app[e]
  BY <1>0, <1>3 DEF ClockOut, LedgerInv, RunningUnbilled
<1>4. ASSUME NEW i \in Invoices, File(i)
      PROVE  e \in DOMAIN app' /\ app'[e] = app[e]
  <2>1. PICK E \in SUBSET {x \in DOMAIN app : app[x].invoice = NoInvoice} :
           app' = [x \in DOMAIN app |->
                     IF x \in E THEN [app[x] EXCEPT !.invoice = i] ELSE app[x]]
    BY <1>4 DEF File
  <2> QED  BY <1>0, <2>1
<1>5. CASE DeleteLine
  BY <1>5 DEF DeleteLine, Without, Restrict
<1>6. CASE app' = app  BY <1>6
<1> QED
  BY <1>1, <1>2, <1>3, <1>4, <1>5, <1>6 DEF Next, SetStatus, Lock, Unlock, vars

-----------------------------------------------------------------------------
\* "Invoiced entries are left in place to preserve historical invoice integrity"
\* (lib/maintainx/labor.js): no pull, in any state the program reaches, deletes
\* or changes a logged entry of a locked invoice; nor does any other handler.
THEOREM LockedEntriesKept == Spec => LockedAppKept
<1> DEFINE Inv == status \in Statuses /\ LedgerInv
<1>1. Init => Inv  BY LedgerInvInit
<1>2. Inv /\ [Next]_vars => Inv'
  <2>1. ASSUME status \in Statuses, UNCHANGED vars  PROVE status' \in Statuses
    BY <2>1 DEF vars
  <2> QED  BY <2>1, StatusKept, LedgerInvStep
<1>3. Inv /\ [Next]_vars =>
         [\A e \in DOMAIN app : app[e].invoice \in locked =>
             e \in DOMAIN app' /\ app'[e] = app[e]]_vars
  BY LockedStep
<1> QED  BY <1>1, <1>2, <1>3, PTL DEF Spec, LockedAppKept

-----------------------------------------------------------------------------
(* Repeating a pull.  After one that got through, the rows left are those of *)
(* the references it wrote, and what it wrote is what it would write again.  *)

Keeps(m, refs) == DOMAIN m \subseteq refs

\* Nothing is stale once only the references to write are left.
LEMMA CleanAgain ==
    ASSUME NEW m, m = [k \in DOMAIN m |-> m[k]]
    PROVE  /\ \A ref : Keeps(m, {ref}) => CleanOne(m, ref) = {Through(m)}
           /\ \A refs, first : Keeps(m, refs) => CleanSet(m, refs, first) = {Through(m)}
<1>1. Without(m, {}) = m
  BY DEF Without, Restrict
<1>2. ASSUME NEW ref, Keeps(m, {ref}) PROVE CleanOne(m, ref) = {Through(m)}
  <2>1. DOMAIN m \ {ref} = {}
    BY <1>2 DEF Keeps
  <2>2. QED
    BY <1>1, <2>1 DEF CleanOne
<1>3. ASSUME NEW refs, NEW first, Keeps(m, refs) PROVE CleanSet(m, refs, first) = {Through(m)}
  <2>1. DOMAIN m \ refs = {}
    BY <1>3 DEF Keeps
  <2>2. QED
    BY <1>1, <2>1 DEF CleanSet
<1>4. QED
  BY <1>2, <1>3

\* A clean-up that failed has deleted some of the rows it was to delete.
LEMMA FailedShape ==
    ASSUME NEW m, NEW unbilled, NEW c, c \in FailedAfter(m, unbilled)
    PROVE  c.ok = FALSE /\ \E D \in SUBSET unbilled : c.mx = Without(m, D)
<1>1. PICK D \in SUBSET unbilled : c = [mx |-> Without(m, D), ok |-> FALSE]
  BY DEF FailedAfter
<1>2. c.ok = FALSE /\ c.mx = Without(m, D)
  BY <1>1
<1>3. QED
  BY <1>2

\* What is left after a clean-up that got through, and in any case.
LEMMA CleanOneDomain ==
    ASSUME NEW m, NEW ref, NEW c \in CleanOne(m, ref)
    PROVE  /\ c.ok \in BOOLEAN
           /\ c.ok => Keeps(c.mx, {ref})
           /\ DOMAIN c.mx \subseteq DOMAIN m \union {ref}
<1> DEFINE stale == DOMAIN m \ {ref}
           billed == stale \intersect Billed(m)
<1>1. CASE billed = {}
  <2>1. c = Through(Without(m, stale))
    BY <1>1 DEF CleanOne
  <2>2. QED
    BY <2>1 DEF Through, Without, Restrict, Keeps
<1>2. CASE billed # {} /\ ref \in DOMAIN m
  <2>1. c \in FailedAfter(m, stale \ billed)
    BY <1>2 DEF CleanOne
  <2>2. c.ok = FALSE /\ \E D : c.mx = Without(m, D)
    BY <2>1, FailedShape
  <2>3. QED
    BY <2>2 DEF Without, Restrict
<1>3. CASE billed # {} /\ ref \notin DOMAIN m
  <2>1. PICK r \in billed : c = Through(Redirect(Restrict(m, {r}), r, ref))
    BY <1>3 DEF CleanOne
  <2>2. QED
    BY <2>1 DEF Through, Redirect, Restrict, Keeps
<1>4. QED
  BY <1>1, <1>2, <1>3

LEMMA CleanSetDomain ==
    ASSUME NEW m, NEW refs, NEW first \in refs, NEW c \in CleanSet(m, refs, first)
    PROVE  /\ c.ok \in BOOLEAN
           /\ c.ok => Keeps(c.mx, refs)
           /\ DOMAIN c.mx \subseteq DOMAIN m \union refs
<1> DEFINE stale == DOMAIN m \ refs
           billed == stale \intersect Billed(m)
<1>1. CASE billed = {}
  <2>1. c = Through(Without(m, stale))
    BY <1>1 DEF CleanSet
  <2>2. QED
    BY <2>1 DEF Through, Without, Restrict, Keeps
<1>2. CASE billed # {} /\ first \in DOMAIN m
  <2>1. c \in FailedAfter(m, stale \ billed)
    BY <1>2 DEF CleanSet
  <2>2. c.ok = FALSE /\ \E D : c.mx = Without(m, D)
    BY <2>1, FailedShape
  <2>3. QED
    BY <2>2 DEF Without, Restrict
<1>3. CASE billed # {} /\ first \notin DOMAIN m
  <2>1. PICK r \in billed :
           c \in LET moved == Redirect(m, r, first) IN
                 IF billed = {r} THEN {Through(Without(moved, stale \ billed))}
                 ELSE FailedAfter(moved, stale \ billed)
    BY <1>3 DEF CleanSet
  <2>2. CASE billed = {r}
    <3>1. c = Through(Without(Redirect(m, r, first), stale \ billed))
      BY <2>1, <2>2
    <3>2. QED
      BY <2>2, <3>1 DEF Through, Without, Redirect, Restrict, Keeps
  <2>3. CASE billed # {r}
    <3>1. c \in FailedAfter(Redirect(m, r, first), stale \ billed)
      BY <2>1, <2>3
    <3>2. c.ok = FALSE /\ \E D : c.mx = Without(Redirect(m, r, first), D)
      BY <3>1, FailedShape
    <3>3. DOMAIN Redirect(m, r, first) \subseteq DOMAIN m \union refs
      BY DEF Redirect
    <3>4. QED
      BY <3>2, <3>3 DEF Without, Restrict
  <2>4. QED
    BY <2>2, <2>3
<1>4. QED
  BY <1>1, <1>2, <1>3

\* An invoice to inherit: if it can be none, there is no other.
LEMMA InheritableNone ==
    ASSUME NEW a
    PROVE  /\ Inheritable(a) # {}
           /\ NoInvoice \in Inheritable(a) => Inheritable(a) = {NoInvoice}
  BY DEF Inheritable

\* The upsert of a total, and doing it again with what may be inherited then.
LEMMA UpsertAgain ==
    ASSUME NEW m, NEW ref, NEW minutes, minutes # 0, NEW a,
           NEW i \in Inheritable(a), NEW j \in Inheritable(a), Keeps(m, {ref})
    PROVE  LET w == Upsert(m, ref, minutes, i) IN
           /\ Keeps(w, {ref}) /\ w = [k \in DOMAIN w |-> w[k]]
           /\ Upsert(w, ref, minutes, j) = w
<1> DEFINE w == Upsert(m, ref, minutes, i)
           v == Upsert(w, ref, minutes, j)
           inv == IF ref \in DOMAIN m /\ m[ref].invoice # NoInvoice THEN m[ref].invoice ELSE i
           row == [user |-> UserOf(ref), minutes |-> minutes, invoice |-> inv]
<1>1. w = [r \in DOMAIN m \union {ref} |-> IF r # ref THEN m[r] ELSE row]
  BY DEF Upsert
<1>2. DOMAIN m \union {ref} = {ref}
  BY DEF Keeps
<1>3. w = [r \in {ref} |-> row]
  BY <1>1, <1>2
<1>4. DOMAIN w = {ref} /\ w[ref] = row /\ w[ref].invoice = inv
  BY <1>3
<1>5. (IF ref \in DOMAIN w /\ w[ref].invoice # NoInvoice THEN w[ref].invoice ELSE j) = inv
  <2>1. CASE inv # NoInvoice
    BY <1>4, <2>1
  <2>2. CASE inv = NoInvoice
    <3>1. i = NoInvoice
      BY <2>2
    <3>2. j = NoInvoice
      BY <3>1, InheritableNone
    <3>3. QED
      BY <1>4, <2>2, <3>2
  <2>3. QED
    BY <2>1, <2>2
<1>6. v = [r \in DOMAIN w \union {ref} |-> IF r # ref THEN w[r]
             ELSE [user |-> UserOf(ref), minutes |-> minutes,
                   invoice |-> IF ref \in DOMAIN w /\ w[ref].invoice # NoInvoice
                               THEN w[ref].invoice ELSE j]]
  BY DEF Upsert
<1>7. v = [r \in {ref} |-> row]
  <2> HIDE DEF w, inv
  <2>1. DOMAIN w \union {ref} = {ref}
    BY <1>4
  <2>2. QED
    BY <1>6, <2>1, <1>5
<1>8. QED
  BY <1>3, <1>4, <1>7 DEF Keeps

LEMMA RoundedNat == ASSUME NEW q \in Nat PROVE Rounded(q) \in Nat
  BY DEF Rounded

\* The row an upsert leaves at its reference.
InvoiceAfter(m, ref, i) ==
    IF ref \in DOMAIN m /\ m[ref].invoice # NoInvoice THEN m[ref].invoice ELSE i

LEMMA UpsertRow ==
    ASSUME NEW m, NEW ref, NEW minutes, NEW i
    PROVE  Upsert(m, ref, minutes, i)[ref] =
              IF minutes = 0 THEN m[ref]
              ELSE [user |-> UserOf(ref), minutes |-> minutes, invoice |-> InvoiceAfter(m, ref, i)]
  BY DEF Upsert, InvoiceAfter

LEMMA UpsertAllAgain ==
    ASSUME NEW s \in Snapshots, NEW m, Keeps(m, Entries(s)), NEW a,
           NEW i \in Inheritable(a), NEW j \in Inheritable(a)
    PROVE  LET w == UpsertAll(m, s, i) IN
           /\ Keeps(w, Entries(s)) /\ w = [k \in DOMAIN w |-> w[k]]
           /\ UpsertAll(w, s, j) = w
<1> DEFINE timed == {e \in Entries(s) : Rounded(s.times[e]) > 0}
           w == UpsertAll(m, s, i)
           v == UpsertAll(w, s, j)
<1>1. w = [r \in DOMAIN m \union timed |->
             IF r \in Entries(s) THEN Upsert(m, r, Rounded(s.times[r]), i)[r] ELSE m[r]]
  BY DEF UpsertAll
<1>2. v = [r \in DOMAIN w \union timed |->
             IF r \in Entries(s) THEN Upsert(w, r, Rounded(s.times[r]), j)[r] ELSE w[r]]
  BY DEF UpsertAll
<1>3. DOMAIN w = DOMAIN m \union timed /\ DOMAIN w \subseteq Entries(s)
  BY <1>1 DEF Keeps
<1>4. DOMAIN w \union timed = DOMAIN w
  BY <1>3
<1> HIDE DEF w, timed
<1>5. ASSUME NEW r \in DOMAIN w PROVE Upsert(w, r, Rounded(s.times[r]), j)[r] = w[r]
  <2> DEFINE minutes == Rounded(s.times[r])
  <2>1. w[r] = Upsert(m, r, minutes, i)[r]
    BY <1>1, <1>3
  <2>2. CASE minutes = 0
    BY <2>2, UpsertRow
  <2>3. CASE minutes # 0
    <3>1. w[r] = [user |-> UserOf(r), minutes |-> minutes, invoice |-> InvoiceAfter(m, r, i)]
      BY <2>1, <2>3, UpsertRow
    <3>2. InvoiceAfter(w, r, j) = InvoiceAfter(m, r, i)
      <4>1. w[r].invoice = InvoiceAfter(m, r, i)
        BY <3>1
      <4>2. CASE InvoiceAfter(m, r, i) # NoInvoice
        BY <4>1, <4>2 DEF InvoiceAfter
      <4>3. CASE InvoiceAfter(m, r, i) = NoInvoice
        <5>1. i = NoInvoice
          BY <4>3 DEF InvoiceAfter
        <5>2. j = NoInvoice
          BY <5>1, InheritableNone
        <5>3. InvoiceAfter(w, r, j) = NoInvoice
          BY <4>1, <4>3, <5>2 DEF InvoiceAfter
        <5>4. QED
          BY <4>3, <5>3
      <4>4. QED
        BY <4>2, <4>3
    <3>3. QED
      BY <3>1, <3>2, <2>3, UpsertRow
  <2>4. QED
    BY <2>2, <2>3
<1>6. v = [r \in DOMAIN w |-> w[r]]
  BY <1>2, <1>3, <1>4, <1>5
<1>7. w = [k \in DOMAIN w |-> w[k]]
  BY <1>1
<1>8. QED
  BY <1>3, <1>6, <1>7 DEF Keeps, w

-----------------------------------------------------------------------------
\* Writing the total again.
LEMMA TotalAgain ==
    ASSUME NEW a, NEW m, NEW s, Rounded(TotalTime(s)) # 0,
           NEW q \in WriteTotal(a, m, s), q.ok
    PROVE  q.app = a /\ WriteTotal(a, q.mx, s) = {q}
<1> DEFINE ref == TotalRef(s)
           minutes == Rounded(TotalTime(s))
<1>1. PICK c \in CleanOne(m, ref), i \in Inheritable(a) :
         q = AfterClean(a, c, Upsert(c.mx, ref, minutes, i))
  BY DEF WriteTotal
<1> DEFINE w == Upsert(c.mx, ref, minutes, i)
<1>2. c.ok = TRUE /\ Keeps(c.mx, {ref})
  <2>1. q.ok = c.ok
    BY <1>1 DEF AfterClean, Result
  <2>2. QED
    BY <2>1, CleanOneDomain
<1>3. q = Result(a, w, TRUE) /\ q.app = a /\ q.mx = w
  BY <1>1, <1>2 DEF AfterClean, Result
<1>4. /\ Keeps(w, {ref}) /\ w = [k \in DOMAIN w |-> w[k]]
      /\ \A j \in Inheritable(a) : Upsert(w, ref, minutes, j) = w
  BY <1>2, UpsertAgain
<1> HIDE DEF w
<1>5. CleanOne(w, ref) = {Through(w)}
  BY <1>4, CleanAgain
<1>6. WriteTotal(a, w, s) = {AfterClean(a, d, Upsert(d.mx, ref, minutes, j)) :
                                d \in {Through(w)}, j \in Inheritable(a)}
  BY <1>5 DEF WriteTotal
<1>7. \A j \in Inheritable(a) :
         AfterClean(a, Through(w), Upsert(Through(w).mx, ref, minutes, j)) = q
  <2>1. Through(w).mx = w /\ Through(w).ok = TRUE
    BY DEF Through
  <2>2. QED
    BY <1>3, <1>4, <2>1 DEF AfterClean
<1>8. WriteTotal(a, w, s) = {q}
  <2> HIDE DEF ref, minutes
  <2>1. \A x \in WriteTotal(a, w, s) : x = q
    BY <1>6, <1>7
  <2>2. PICK j \in Inheritable(a) : TRUE
    BY InheritableNone
  <2>3. q \in WriteTotal(a, w, s)
    BY <1>6, <1>7, <2>2
  <2>4. QED
    BY <2>1, <2>3
<1>9. QED
  BY <1>3, <1>8

\* Deleting the unbilled work twice is deleting it once.
LEMMA DeleteAgain ==
    ASSUME NEW a PROVE DeleteUnbilledWork(DeleteUnbilledWork(a)) = DeleteUnbilledWork(a)
  BY DEF DeleteUnbilledWork, Work, Without, Restrict

LEMMA PerTechAgain ==
    ASSUME NEW a, NEW m, NEW s \in Snapshots, HasTechnicians(s),
           NEW q \in MxWinsPerTech(a, m, s), q.ok
    PROVE  MxWinsPerTech(q.app, q.mx, s) = {q}
<1> DEFINE kept == DeleteUnbilledWork(a)
<1>0. PICK first \in Entries(s), i \in Inheritable(kept) :
         \E c \in CleanSet(m, Entries(s), first) : q = AfterClean(kept, c, UpsertAll(c.mx, s, i))
  BY DEF MxWinsPerTech
<1>1. PICK c \in CleanSet(m, Entries(s), first) : q = AfterClean(kept, c, UpsertAll(c.mx, s, i))
  BY <1>0
<1> DEFINE w == UpsertAll(c.mx, s, i)
<1>2. c.ok = TRUE /\ Keeps(c.mx, Entries(s))
  <2>1. q.ok = c.ok
    BY <1>1 DEF AfterClean, Result
  <2>2. QED
    BY <1>1, <2>1, CleanSetDomain
<1>3. q = Result(kept, w, TRUE) /\ q.app = kept /\ q.mx = w
  BY <1>1, <1>2 DEF AfterClean, Result
<1>4. /\ Keeps(w, Entries(s)) /\ w = [k \in DOMAIN w |-> w[k]]
      /\ \A j \in Inheritable(kept) : UpsertAll(w, s, j) = w
  BY <1>2, UpsertAllAgain
<1>5. DeleteUnbilledWork(kept) = kept
  BY DeleteAgain
<1> HIDE DEF w, kept
<1>6. \A f \in Entries(s) : CleanSet(w, Entries(s), f) = {Through(w)}
  BY <1>4, CleanAgain
<1>7. MxWinsPerTech(kept, w, s) =
         {AfterClean(kept, d, UpsertAll(d.mx, s, j)) :
             d \in UNION {CleanSet(w, Entries(s), f) : f \in Entries(s)}, j \in Inheritable(kept)}
  BY <1>5 DEF MxWinsPerTech
<1>8. UNION {CleanSet(w, Entries(s), f) : f \in Entries(s)} = {Through(w)}
  BY <1>1, <1>6
<1>9. \A j \in Inheritable(kept) :
         AfterClean(kept, Through(w), UpsertAll(Through(w).mx, s, j)) = q
  <2>1. Through(w).mx = w /\ Through(w).ok = TRUE
    BY DEF Through
  <2>2. QED
    BY <1>3, <1>4, <2>1 DEF AfterClean
<1>10. \A x \in MxWinsPerTech(kept, w, s) : x = q
  BY <1>7, <1>8, <1>9
<1>11. q \in MxWinsPerTech(kept, w, s)
  <2>1. PICK j \in Inheritable(kept) : TRUE
    BY InheritableNone
  <2>2. QED
    BY <1>7, <1>8, <1>9, <2>1
<1>12. QED
  BY <1>3, <1>10, <1>11

\* Whatever rows it starts from, a pull that got through and is repeated with
\* the same answer has the same result and no other.
LEMMA ReconcileAgain ==
    ASSUME NEW st, NEW a, NEW m, NEW s \in Snapshots, NEW q \in Reconcile(st, a, m, s), q.ok
    PROVE  Reconcile(st, q.app, q.mx, s) = {q}
<1>1. CASE st = "completed" /\ HasTechnicians(s)
  BY <1>1, PerTechAgain DEF Reconcile
<1>2. CASE st = "completed" /\ ~HasTechnicians(s)
  <2>1. q \in MxWins(a, m, s) /\ Reconcile(st, q.app, q.mx, s) = MxWins(q.app, q.mx, s)
    BY <1>2 DEF Reconcile
  <2>2. CASE Rounded(TotalTime(s)) = 0
    BY <2>1, <2>2 DEF MxWins, Result
  <2>3. CASE Rounded(TotalTime(s)) # 0
    <3>1. q \in WriteTotal(DeleteUnbilledWork(a), m, s)
      BY <2>1, <2>3 DEF MxWins
    <3>2. q.app = DeleteUnbilledWork(a) /\ WriteTotal(DeleteUnbilledWork(a), q.mx, s) = {q}
      BY <2>3, <3>1, TotalAgain
    <3>3. QED
      BY <2>1, <2>3, <3>2, DeleteAgain DEF MxWins
  <2>4. QED
    BY <2>2, <2>3
<1>3. CASE st # "completed"
  <2>1. q \in AppWins(a, m, s) /\ Reconcile(st, q.app, q.mx, s) = AppWins(q.app, q.mx, s)
    BY <1>3 DEF Reconcile
  <2>2. CASE Work(a) # {} \/ Rounded(TotalTime(s)) = 0
    <3>1. q = Result(a, NoImports, TRUE)
      BY <2>1, <2>2 DEF AppWins
    <3>2. q.app = a
      BY <3>1 DEF Result
    <3>3. AppWins(a, q.mx, s) = {q}
      BY <2>2, <3>1 DEF AppWins
    <3>4. QED
      BY <2>1, <3>2, <3>3
  <2>3. CASE ~(Work(a) # {} \/ Rounded(TotalTime(s)) = 0)
    <3>1. q \in WriteTotal(a, m, s)
      BY <2>1, <2>3 DEF AppWins
    <3>2. q.app = a /\ WriteTotal(a, q.mx, s) = {q}
      BY <2>3, <3>1, TotalAgain
    <3>3. QED
      BY <2>1, <2>3, <3>2 DEF AppWins
  <2>4. QED
    BY <2>2, <2>3
<1>4. QED
  BY <1>1, <1>2, <1>3

\* "Idempotent on re-runs" (labor.js): a pull that got through changes nothing
\* when it is repeated with the same answer, whatever the tables hold.
THEOREM PullsAreIdempotent == Spec => []SyncIdempotent
<1>1. SyncIdempotent
  BY ReconcileAgain DEF SyncIdempotent, Outcomes
<1>2. QED
  BY <1>1, PTL

-----------------------------------------------------------------------------
(* Imported lines on invoices.  A pull with times per technician moves a row *)
(* to another reference with its invoice, or leaves it: for each invoice at  *)
(* least as many are on it afterwards.                                       *)

OnInvoice(m, i) == {k \in DOMAIN m : m[k].invoice = i}

\* At least as many rows of n as of m are on every invoice.
LosesNone(m, n) ==
    \A i \in Invoices : Cardinality(OnInvoice(n, i)) >= Cardinality(OnInvoice(m, i))

LEMMA OnInvoiceFinite ==
    ASSUME NEW m, IsFiniteSet(DOMAIN m), NEW i
    PROVE  IsFiniteSet(OnInvoice(m, i)) /\ Cardinality(OnInvoice(m, i)) \in Nat
<1>1. OnInvoice(m, i) \subseteq DOMAIN m
  BY DEF OnInvoice
<1>2. QED
  BY <1>1, FS_Subset, FS_CardinalityType, Zenon

\* Rows on an invoice that stay on it.
LEMMA KeptOnInvoice ==
    ASSUME NEW m, NEW n, IsFiniteSet(DOMAIN n),
           \A k \in DOMAIN m : m[k].invoice \in Invoices =>
               k \in DOMAIN n /\ n[k].invoice = m[k].invoice
    PROVE  LosesNone(m, n)
<1> SUFFICES ASSUME NEW i \in Invoices
             PROVE  Cardinality(OnInvoice(n, i)) >= Cardinality(OnInvoice(m, i))
  BY DEF LosesNone
<1>1. OnInvoice(m, i) \subseteq OnInvoice(n, i)
  BY DEF OnInvoice
<1>2. IsFiniteSet(OnInvoice(n, i)) /\ Cardinality(OnInvoice(n, i)) \in Nat
  BY OnInvoiceFinite
<1>3. Cardinality(OnInvoice(m, i)) \in Nat /\ Cardinality(OnInvoice(m, i)) <= Cardinality(OnInvoice(n, i))
  BY <1>1, <1>2, FS_Subset, FS_CardinalityType, Zenon
<1>4. QED
  BY <1>2, <1>3

LEMMA LosesNoneTransitive ==
    ASSUME NEW m, NEW n, NEW p, LosesNone(m, n), LosesNone(n, p), IsFiniteSet(DOMAIN m),
           IsFiniteSet(DOMAIN n), IsFiniteSet(DOMAIN p)
    PROVE  LosesNone(m, p)
<1> SUFFICES ASSUME NEW i \in Invoices
             PROVE  Cardinality(OnInvoice(p, i)) >= Cardinality(OnInvoice(m, i))
  BY DEF LosesNone
<1>1. /\ Cardinality(OnInvoice(m, i)) \in Nat
      /\ Cardinality(OnInvoice(n, i)) \in Nat
      /\ Cardinality(OnInvoice(p, i)) \in Nat
  BY OnInvoiceFinite
<1>2. /\ Cardinality(OnInvoice(n, i)) >= Cardinality(OnInvoice(m, i))
      /\ Cardinality(OnInvoice(p, i)) >= Cardinality(OnInvoice(n, i))
  BY DEF LosesNone
<1>3. QED
  BY <1>1, <1>2

\* Redirecting a row to a free reference takes it off no invoice.
LEMMA RedirectKeeps ==
    ASSUME NEW m, IsFiniteSet(DOMAIN m), NEW r \in DOMAIN m, NEW s, s \notin DOMAIN m
    PROVE  IsFiniteSet(DOMAIN Redirect(m, r, s)) /\ LosesNone(m, Redirect(m, r, s))
<1> DEFINE n == Redirect(m, r, s)
<1>1. DOMAIN n = (DOMAIN m \ {r}) \union {s} /\ n[s] = m[r]
      /\ \A k \in DOMAIN m \ {r} : n[k] = m[k]
  BY DEF Redirect
<1>2. IsFiniteSet(DOMAIN n)
  <2>1. IsFiniteSet(DOMAIN m \ {r})
    BY FS_RemoveElement, Zenon
  <2>2. IsFiniteSet((DOMAIN m \ {r}) \union {s})
    BY <2>1, FS_AddElement, Zenon
  <2>3. QED
    BY <1>1, <2>2
<1> SUFFICES ASSUME NEW i \in Invoices
             PROVE  Cardinality(OnInvoice(n, i)) >= Cardinality(OnInvoice(m, i))
  BY <1>2 DEF LosesNone
<1> HIDE DEF n
<1>3. IsFiniteSet(OnInvoice(m, i)) /\ Cardinality(OnInvoice(m, i)) \in Nat
  BY OnInvoiceFinite
<1>4. CASE m[r].invoice = i
  <2>1. OnInvoice(n, i) = (OnInvoice(m, i) \ {r}) \union {s}
    BY <1>1, <1>4 DEF OnInvoice
  <2>2. r \in OnInvoice(m, i) /\ s \notin OnInvoice(m, i) \ {r}
    BY <1>4 DEF OnInvoice
  <2>3. /\ IsFiniteSet(OnInvoice(m, i) \ {r})
        /\ Cardinality(OnInvoice(m, i) \ {r}) = Cardinality(OnInvoice(m, i)) - 1
    BY <1>3, <2>2, FS_RemoveElement, Zenon
  <2>4. Cardinality(OnInvoice(n, i)) = Cardinality(OnInvoice(m, i) \ {r}) + 1
    BY <2>1, <2>2, <2>3, FS_AddElement, Zenon
  <2>5. QED
    BY <1>3, <2>3, <2>4
<1>5. CASE m[r].invoice # i
  <2>1. OnInvoice(n, i) = OnInvoice(m, i)
    BY <1>1, <1>5 DEF OnInvoice
  <2>2. QED
    BY <1>3, <2>1
<1>6. QED
  BY <1>4, <1>5

\* Deleting rows that are on no invoice.
LEMMA WithoutUnbilled ==
    ASSUME NEW m, IsFiniteSet(DOMAIN m), NEW D, \A k \in D \intersect DOMAIN m : m[k].invoice \notin Invoices
    PROVE  IsFiniteSet(DOMAIN Without(m, D)) /\ LosesNone(m, Without(m, D))
<1>1. DOMAIN Without(m, D) = DOMAIN m \ D /\ \A k \in DOMAIN m \ D : Without(m, D)[k] = m[k]
  BY DEF Without, Restrict
<1>2. DOMAIN m \ D \subseteq DOMAIN m
  OBVIOUS
<1>3. IsFiniteSet(DOMAIN Without(m, D))
  BY <1>1, <1>2, FS_Subset, Zenon
<1>4. QED
  BY <1>1, <1>3, KeptOnInvoice

\* The clean-up for several references keeps every invoice, also when it fails.
LEMMA CleanSetKeeps ==
    ASSUME NEW m, IsFiniteSet(DOMAIN m), \A k \in DOMAIN m : m[k].invoice \in InvoiceOrNone,
           NEW refs, NEW first \in refs, NEW c \in CleanSet(m, refs, first)
    PROVE  IsFiniteSet(DOMAIN c.mx) /\ LosesNone(m, c.mx)
<1> DEFINE stale == DOMAIN m \ refs
           billed == stale \intersect Billed(m)
<1>0. \A k \in stale \ billed : m[k].invoice \notin Invoices
  BY SyncConstants DEF Billed, InvoiceOrNone
<1>1. CASE billed = {}
  <2>1. c = Through(Without(m, stale))
    BY <1>1 DEF CleanSet
  <2>2. c.mx = Without(m, stale)
    BY <2>1 DEF Through
  <2>3. QED
    BY <1>0, <1>1, <2>2, WithoutUnbilled
<1>2. CASE billed # {} /\ first \in DOMAIN m
  <2>1. c \in FailedAfter(m, stale \ billed)
    BY <1>2 DEF CleanSet
  <2>2. PICK D \in SUBSET (stale \ billed) : c.mx = Without(m, D)
    BY <2>1, FailedShape
  <2>3. QED
    BY <1>0, <2>2, WithoutUnbilled
<1>3. CASE billed # {} /\ first \notin DOMAIN m
  <2>1. PICK r \in billed :
           c \in LET moved == Redirect(m, r, first) IN
                 IF billed = {r} THEN {Through(Without(moved, stale \ billed))}
                 ELSE FailedAfter(moved, stale \ billed)
    BY <1>3 DEF CleanSet
  <2> DEFINE moved == Redirect(m, r, first)
  <2>2. IsFiniteSet(DOMAIN moved) /\ LosesNone(m, moved)
    BY <1>3, RedirectKeeps
  <2>3. \E D \in SUBSET (stale \ billed) : c.mx = Without(moved, D)
    <3>1. CASE billed = {r}
      <4>1. c = Through(Without(moved, stale \ billed))
        BY <2>1, <3>1
      <4>2. QED
        BY <4>1 DEF Through
    <3>2. CASE billed # {r}
      <4>1. c \in FailedAfter(moved, stale \ billed)
        BY <2>1, <3>2
      <4> HIDE DEF moved, stale, billed
      <4>2. QED
        BY <4>1, FailedShape
    <3>3. QED
      BY <3>1, <3>2
  <2>4. PICK D \in SUBSET (stale \ billed) : c.mx = Without(moved, D)
    BY <2>3
  <2>5. \A k \in D \intersect DOMAIN moved : moved[k].invoice \notin Invoices
    BY <1>0 DEF Redirect
  <2> HIDE DEF moved
  <2>6. IsFiniteSet(DOMAIN c.mx) /\ LosesNone(moved, c.mx)
    BY <2>2, <2>4, <2>5, WithoutUnbilled
  <2>7. QED
    BY <2>2, <2>6, LosesNoneTransitive
<1>4. QED
  BY <1>1, <1>2, <1>3

\* Nor do the upserts take a row off an invoice.
LEMMA UpsertAllKeeps ==
    ASSUME NEW s, NEW m, IsFiniteSet(DOMAIN m), IsFiniteSet(Entries(s)), NEW i
    PROVE  IsFiniteSet(DOMAIN UpsertAll(m, s, i)) /\ LosesNone(m, UpsertAll(m, s, i))
<1> DEFINE timed == {e \in Entries(s) : Rounded(s.times[e]) > 0}
           w == UpsertAll(m, s, i)
<1>1. w = [r \in DOMAIN m \union timed |->
             IF r \in Entries(s) THEN Upsert(m, r, Rounded(s.times[r]), i)[r] ELSE m[r]]
  BY DEF UpsertAll
<1>2. IsFiniteSet(DOMAIN w)
  <2>1. timed \subseteq Entries(s)
    OBVIOUS
  <2>2. IsFiniteSet(DOMAIN m \union timed)
    BY <2>1, FS_Subset, FS_Union, Zenon
  <2>3. QED
    BY <1>1, <2>2
<1>3. \A k \in DOMAIN m : m[k].invoice \in Invoices => k \in DOMAIN w /\ w[k].invoice = m[k].invoice
  <2> SUFFICES ASSUME NEW k \in DOMAIN m, m[k].invoice \in Invoices
               PROVE  k \in DOMAIN w /\ w[k].invoice = m[k].invoice
    OBVIOUS
  <2>1. k \in DOMAIN w
           /\ w[k] = IF k \in Entries(s) THEN Upsert(m, k, Rounded(s.times[k]), i)[k] ELSE m[k]
    BY <1>1
  <2>2. Upsert(m, k, Rounded(s.times[k]), i)[k].invoice = m[k].invoice
    <3>1. m[k].invoice # NoInvoice
      BY SyncConstants
    <3>2. InvoiceAfter(m, k, i) = m[k].invoice
      BY <3>1 DEF InvoiceAfter
    <3>3. CASE Rounded(s.times[k]) = 0
      <4>1. Upsert(m, k, Rounded(s.times[k]), i) = m
        BY <3>3 DEF Upsert
      <4>2. QED
        BY <4>1
    <3>4. CASE Rounded(s.times[k]) # 0
      <4>1. Upsert(m, k, Rounded(s.times[k]), i)[k] =
               [user |-> UserOf(k), minutes |-> Rounded(s.times[k]), invoice |-> InvoiceAfter(m, k, i)]
        BY <3>4, UpsertRow
      <4>2. QED
        BY <3>2, <4>1
    <3>5. QED
      BY <3>3, <3>4
  <2>3. QED
    BY <2>1, <2>2
<1> HIDE DEF w
<1>4. QED
  BY <1>2, <1>3, KeptOnInvoice DEF w

-----------------------------------------------------------------------------
(* The imported rows the program reaches have the references of the work     *)
(* order, and their invoices exist.                                          *)
Imports(m) == DOMAIN m \subseteq Refs /\ \A k \in DOMAIN m : m[k].invoice \in InvoiceOrNone

ImportsInv == Imports(mx) /\ \A e \in DOMAIN app : app[e].invoice \in InvoiceOrNone

LEMMA RefsFinite ==
    IsFiniteSet(Refs) /\ \A s : IsFiniteSet(Entries(s)) /\ Entries(s) \subseteq Refs
<1>1. IsFiniteSet(MxUsers)
  BY SyncConstants
<1>2. IsFiniteSet(MxUsers \union {"logged"})
  BY <1>1, FS_AddElement, Zenon
<1>3. IsFiniteSet((MxUsers \union {"logged"}) \union {"inprogress"})
  BY <1>2, FS_AddElement, Zenon
<1>4. IsFiniteSet(Logged) /\ IsFiniteSet(Refs)
  BY <1>2, <1>3 DEF Refs, Logged
<1>5. ASSUME NEW s PROVE IsFiniteSet(Entries(s)) /\ Entries(s) \subseteq Refs
  <2>1. Entries(s) \subseteq Logged
    BY DEF Entries
  <2>2. Entries(s) \subseteq Refs
    BY <2>1 DEF Refs
  <2>3. QED
    BY <1>4, <2>1, <2>2, FS_Subset, Zenon
<1>6. QED
  BY <1>4, <1>5

LEMMA InheritableType ==
    ASSUME NEW a, \A e \in DOMAIN a : a[e].invoice \in InvoiceOrNone
    PROVE  Inheritable(a) \subseteq InvoiceOrNone
  BY DEF Inheritable, InvoiceOrNone

\* A clean-up invents no reference and no invoice.
LEMMA WithoutImports ==
    ASSUME NEW m, Imports(m), NEW D PROVE Imports(Without(m, D))
  BY DEF Imports, Without, Restrict

LEMMA RedirectImports ==
    ASSUME NEW m, Imports(m), NEW r \in DOMAIN m, NEW s \in Refs PROVE Imports(Redirect(m, r, s))
  BY DEF Imports, Redirect

LEMMA FailedImports ==
    ASSUME NEW m, Imports(m), NEW U, NEW c, c \in FailedAfter(m, U) PROVE Imports(c.mx)
<1>1. \E D : c.mx = Without(m, D)
  BY FailedShape
<1>2. QED
  BY <1>1, WithoutImports

LEMMA CleanOneImports ==
    ASSUME NEW m, Imports(m), NEW ref \in Refs, NEW c \in CleanOne(m, ref) PROVE Imports(c.mx)
<1> DEFINE stale == DOMAIN m \ {ref}
           billed == stale \intersect Billed(m)
<1>1. CASE billed = {}
  <2>1. c = Through(Without(m, stale))
    BY <1>1 DEF CleanOne
  <2>2. c.mx = Without(m, stale)
    BY <2>1 DEF Through
  <2>3. QED
    BY <2>2, WithoutImports
<1>2. CASE billed # {} /\ ref \in DOMAIN m
  <2>1. c \in FailedAfter(m, stale \ billed)
    BY <1>2 DEF CleanOne
  <2>2. QED
    BY <2>1, FailedImports
<1>3. CASE billed # {} /\ ref \notin DOMAIN m
  <2>1. PICK r \in billed : c = Through(Redirect(Restrict(m, {r}), r, ref))
    BY <1>3 DEF CleanOne
  <2>2. c.mx = Redirect(Restrict(m, {r}), r, ref)
    BY <2>1 DEF Through
  <2>3. Imports(Restrict(m, {r})) /\ r \in DOMAIN Restrict(m, {r})
    BY DEF Imports, Restrict
  <2>4. QED
    BY <2>2, <2>3, RedirectImports
<1>4. QED
  BY <1>1, <1>2, <1>3

LEMMA CleanSetImports ==
    ASSUME NEW m, Imports(m), NEW refs, refs \subseteq Refs, NEW first \in refs,
           NEW c \in CleanSet(m, refs, first)
    PROVE  Imports(c.mx)
<1> DEFINE stale == DOMAIN m \ refs
           billed == stale \intersect Billed(m)
<1>1. CASE billed = {}
  <2>1. c = Through(Without(m, stale))
    BY <1>1 DEF CleanSet
  <2>2. c.mx = Without(m, stale)
    BY <2>1 DEF Through
  <2>3. QED
    BY <2>2, WithoutImports
<1>2. CASE billed # {} /\ first \in DOMAIN m
  <2>1. c \in FailedAfter(m, stale \ billed)
    BY <1>2 DEF CleanSet
  <2>2. QED
    BY <2>1, FailedImports
<1>3. CASE billed # {} /\ first \notin DOMAIN m
  <2>1. PICK r \in billed :
           c \in LET moved == Redirect(m, r, first) IN
                 IF billed = {r} THEN {Through(Without(moved, stale \ billed))}
                 ELSE FailedAfter(moved, stale \ billed)
    BY <1>3 DEF CleanSet
  <2>2. Imports(Redirect(m, r, first))
    BY RedirectImports
  <2>3. CASE billed = {r}
    <3>1. c = Through(Without(Redirect(m, r, first), stale \ billed))
      BY <2>1, <2>3
    <3>2. c.mx = Without(Redirect(m, r, first), stale \ billed)
      BY <3>1 DEF Through
    <3>3. QED
      BY <3>2, <2>2, WithoutImports
  <2>4. CASE billed # {r}
    <3>1. c \in FailedAfter(Redirect(m, r, first), stale \ billed)
      BY <2>1, <2>4
    <3> HIDE DEF stale, billed
    <3>2. QED
      BY <3>1, <2>2, FailedImports
  <2>5. QED
    BY <2>3, <2>4
<1>4. QED
  BY <1>1, <1>2, <1>3

LEMMA UpsertImports ==
    ASSUME NEW m, Imports(m), NEW ref \in Refs, NEW minutes, NEW i \in InvoiceOrNone
    PROVE  Imports(Upsert(m, ref, minutes, i))
<1>1. CASE minutes = 0
  BY <1>1 DEF Upsert
<1>2. CASE minutes # 0
  <2> DEFINE row == [user |-> UserOf(ref), minutes |-> minutes, invoice |-> InvoiceAfter(m, ref, i)]
  <2>1. Upsert(m, ref, minutes, i) = [r \in DOMAIN m \union {ref} |-> IF r # ref THEN m[r] ELSE row]
    BY <1>2 DEF Upsert, InvoiceAfter
  <2>2. row.invoice \in InvoiceOrNone
    BY DEF InvoiceAfter, Imports
  <2> HIDE DEF row
  <2>3. QED
    BY <2>1, <2>2 DEF Imports
<1>3. QED
  BY <1>1, <1>2

LEMMA UpsertAllImports ==
    ASSUME NEW s \in Snapshots, NEW m, Imports(m), NEW i \in InvoiceOrNone
    PROVE  Imports(UpsertAll(m, s, i))
<1> DEFINE timed == {e \in Entries(s) : Rounded(s.times[e]) > 0}
           w == UpsertAll(m, s, i)
<1>1. w = [r \in DOMAIN m \union timed |->
             IF r \in Entries(s) THEN Upsert(m, r, Rounded(s.times[r]), i)[r] ELSE m[r]]
  BY DEF UpsertAll
<1>2. DOMAIN w = DOMAIN m \union timed /\ timed \subseteq Entries(s) /\ Entries(s) \subseteq Refs
  BY <1>1, RefsFinite
<1>3. ASSUME NEW r \in DOMAIN w PROVE w[r].invoice \in InvoiceOrNone
  <2>1. CASE r \notin Entries(s)
    BY <1>1, <1>2, <2>1 DEF Imports
  <2>2. CASE r \in Entries(s)
    <3> DEFINE minutes == Rounded(s.times[r])
    <3>1. w[r] = Upsert(m, r, minutes, i)[r]
      BY <1>1, <2>2
    <3>2. CASE minutes = 0
      <4>1. w[r] = m[r]
        BY <3>1, <3>2, UpsertRow
      <4>2. r \in DOMAIN m
        BY <1>2, <3>2
      <4>3. QED
        BY <4>1, <4>2 DEF Imports
    <3>3. CASE minutes # 0
      <4>1. w[r] = [user |-> UserOf(r), minutes |-> minutes, invoice |-> InvoiceAfter(m, r, i)]
        BY <3>1, <3>3, UpsertRow
      <4>2. InvoiceAfter(m, r, i) \in InvoiceOrNone
        BY DEF InvoiceAfter, Imports
      <4>3. QED
        BY <4>1, <4>2
    <3>4. QED
      BY <3>2, <3>3
  <2>3. QED
    BY <2>1, <2>2
<1> HIDE DEF w
<1>4. DOMAIN w \subseteq Refs
  BY <1>2 DEF Imports
<1>5. QED
  BY <1>3, <1>4 DEF Imports, w

LEMMA WriteTotalImports ==
    ASSUME NEW a, \A e \in DOMAIN a : a[e].invoice \in InvoiceOrNone, NEW m, Imports(m), NEW s,
           NEW q \in WriteTotal(a, m, s)
    PROVE  q.app = a /\ Imports(q.mx)
<1>1. PICK c \in CleanOne(m, TotalRef(s)), i \in Inheritable(a) :
         q = AfterClean(a, c, Upsert(c.mx, TotalRef(s), Rounded(TotalTime(s)), i))
  BY DEF WriteTotal
<1>2. TotalRef(s) \in Refs
  BY DEF TotalRef, Refs, Logged
<1>3. Imports(c.mx) /\ i \in InvoiceOrNone
  BY <1>2, CleanOneImports, InheritableType
<1>4. Imports(Upsert(c.mx, TotalRef(s), Rounded(TotalTime(s)), i))
  BY <1>2, <1>3, UpsertImports
<1>5. /\ q.app = a
      /\ q.mx = c.mx \/ q.mx = Upsert(c.mx, TotalRef(s), Rounded(TotalTime(s)), i)
  BY <1>1 DEF AfterClean, Result
<1>6. QED
  BY <1>3, <1>4, <1>5

\* Whatever a pull does, the references and invoices stay real ones.
LEMMA ReconcileImports ==
    ASSUME NEW st, NEW a, \A e \in DOMAIN a : a[e].invoice \in InvoiceOrNone,
           NEW m, Imports(m), NEW s \in Snapshots, NEW q \in Reconcile(st, a, m, s)
    PROVE  Imports(q.mx)
<1>1. \A e \in DOMAIN DeleteUnbilledWork(a) : DeleteUnbilledWork(a)[e].invoice \in InvoiceOrNone
  BY DEF DeleteUnbilledWork, Without, Restrict
<1>2. CASE st = "completed" /\ HasTechnicians(s)
  <2> DEFINE kept == DeleteUnbilledWork(a)
  <2>1. q \in MxWinsPerTech(a, m, s)
    BY <1>2 DEF Reconcile
  <2>0. PICK first \in Entries(s), i \in Inheritable(kept) :
           \E c \in CleanSet(m, Entries(s), first) : q = AfterClean(kept, c, UpsertAll(c.mx, s, i))
    BY <2>1 DEF MxWinsPerTech
  <2>2. PICK c \in CleanSet(m, Entries(s), first) : q = AfterClean(kept, c, UpsertAll(c.mx, s, i))
    BY <2>0
  <2>3. Imports(c.mx) /\ i \in InvoiceOrNone
    BY <1>1, <2>2, RefsFinite, CleanSetImports, InheritableType
  <2>4. Imports(UpsertAll(c.mx, s, i))
    BY <2>3, UpsertAllImports
  <2>5. q.mx = c.mx \/ q.mx = UpsertAll(c.mx, s, i)
    BY <2>2 DEF AfterClean, Result
  <2>6. QED
    BY <2>3, <2>4, <2>5
<1>3. CASE st = "completed" /\ ~HasTechnicians(s)
  <2>1. q \in MxWins(a, m, s)
    BY <1>3 DEF Reconcile
  <2>2. q.mx = m \/ q \in WriteTotal(DeleteUnbilledWork(a), m, s)
    BY <2>1 DEF MxWins, Result
  <2>3. QED
    BY <1>1, <2>2, WriteTotalImports
<1>4. CASE st # "completed"
  <2>1. q \in AppWins(a, m, s)
    BY <1>4 DEF Reconcile
  <2>2. q.mx = NoImports \/ q \in WriteTotal(a, m, s)
    BY <2>1 DEF AppWins, Result
  <2>3. Imports(NoImports)
    BY DEF Imports, NoImports
  <2>4. QED
    BY <2>2, <2>3, WriteTotalImports
<1>5. QED
  BY <1>2, <1>3, <1>4

LEMMA ImportsInit == Init => ImportsInv
  BY DEF Init, ImportsInv, Imports

LEMMA ImportsStep ==
    ASSUME status \in Statuses, ImportsInv, [Next]_vars PROVE ImportsInv'
<1>1. ASSUME NEW s \in Snapshots, Sync(s) PROVE ImportsInv'
  <2>1. PICK r \in Reconcile(status', app, mx, s) : app' = r.app /\ mx' = r.mx
    BY <1>1 DEF Sync
  <2>2. Imports(mx')
    BY <2>1, ReconcileImports DEF ImportsInv
  <2>3. status' \in Statuses
    BY <1>1, StatusKept DEF Next
  <2>4. DOMAIN app' \subseteq DOMAIN app /\ \A e \in DOMAIN app' : app'[e] = app[e]
    BY <1>1, <2>3, SyncApp
  <2>5. QED
    BY <2>2, <2>4 DEF ImportsInv, Imports
<1>2. ASSUME NEW u \in Users, NEW m \in {"work", "drive"}, ClockIn(u, m) PROVE ImportsInv'
  <2> DEFINE row == [user |-> u, mode |-> m, open |-> TRUE, invoice |-> NoInvoice]
  <2>1. PICK new \in EntryIds \ DOMAIN app :
           app' = [x \in DOMAIN app \union {new} |-> IF x # new THEN app[x] ELSE row]
    BY <1>2 DEF ClockIn
  <2>2. row.invoice \in InvoiceOrNone
    BY DEF InvoiceOrNone
  <2> HIDE DEF row
  <2>3. QED
    BY <1>2, <2>1, <2>2 DEF ClockIn, ImportsInv, Imports
<1>3. ASSUME NEW e \in DOMAIN app, ClockOut(e) PROVE ImportsInv'
  <2>1. \A x \in DOMAIN app : app'[x].invoice = app[x].invoice
    BY <1>3 DEF ClockOut
  <2>2. DOMAIN app' = DOMAIN app /\ mx' = mx
    BY <1>3 DEF ClockOut
  <2>3. QED
    BY <2>1, <2>2 DEF ImportsInv, Imports
<1>4. ASSUME NEW i \in Invoices, File(i) PROVE ImportsInv'
  <2> DEFINE fits(row) == row.invoice = NoInvoice /\ row.user = Payee[i]
  <2>1. PICK E \in SUBSET {e \in DOMAIN app : fits(app[e]) /\ ~app[e].open},
             R \in SUBSET {r \in DOMAIN mx : fits(mx[r])} :
           /\ app' = [e \in DOMAIN app |-> IF e \in E THEN [app[e] EXCEPT !.invoice = i] ELSE app[e]]
           /\ mx' = [r \in DOMAIN mx |-> IF r \in R THEN [mx[r] EXCEPT !.invoice = i] ELSE mx[r]]
    BY <1>4, Zenon DEF File
  <2>2. i \in InvoiceOrNone
    BY DEF InvoiceOrNone
  <2>3. \A e \in DOMAIN app : app'[e].invoice \in {i, app[e].invoice}
    BY <2>1
  <2>4. \A r \in DOMAIN mx : mx'[r].invoice \in {i, mx[r].invoice}
    BY <2>1
  <2>5. DOMAIN app' = DOMAIN app /\ DOMAIN mx' = DOMAIN mx
    BY <2>1
  <2>6. QED
    BY <2>2, <2>3, <2>4, <2>5 DEF ImportsInv, Imports
<1>5. CASE DeleteLine
  BY <1>5 DEF DeleteLine, Without, Restrict, ImportsInv, Imports
<1>6. CASE UNCHANGED <<app, mx>>
  BY <1>6 DEF ImportsInv, Imports
<1>7. QED
  BY <1>1, <1>2, <1>3, <1>4, <1>5, <1>6 DEF Next, SetStatus, Lock, Unlock, vars

\* A pull with times per technician leaves on every invoice at least as many
\* imported lines as before, also when it fails half-way.
LEMMA PerTechKeeps ==
    ASSUME NEW a, NEW m, Imports(m), NEW s, HasTechnicians(s), NEW q \in MxWinsPerTech(a, m, s)
    PROVE  LosesNone(m, q.mx)
<1> DEFINE kept == DeleteUnbilledWork(a)
<1>0. PICK first \in Entries(s), i \in Inheritable(kept) :
         \E c \in CleanSet(m, Entries(s), first) : q = AfterClean(kept, c, UpsertAll(c.mx, s, i))
  BY DEF MxWinsPerTech
<1>1. PICK c \in CleanSet(m, Entries(s), first) : q = AfterClean(kept, c, UpsertAll(c.mx, s, i))
  BY <1>0
<1>2. IsFiniteSet(DOMAIN m)
  BY RefsFinite, FS_Subset, Zenon DEF Imports
<1>3. IsFiniteSet(DOMAIN c.mx) /\ LosesNone(m, c.mx)
  BY <1>1, <1>2, CleanSetKeeps DEF Imports
<1>4. IsFiniteSet(DOMAIN UpsertAll(c.mx, s, i)) /\ LosesNone(c.mx, UpsertAll(c.mx, s, i))
  BY <1>3, RefsFinite, UpsertAllKeeps
<1>5. LosesNone(m, UpsertAll(c.mx, s, i))
  BY <1>2, <1>3, <1>4, LosesNoneTransitive
<1>6. q.mx = c.mx \/ q.mx = UpsertAll(c.mx, s, i)
  BY <1>1 DEF AfterClean, Result
<1>7. QED
  BY <1>3, <1>5, <1>6

\* A pull with times per technician takes no imported line off an invoice, in
\* any state the program reaches and even if it fails half-way: a stale row
\* that is on an invoice gets another reference, which "keeps it attached to
\* the invoice" (labor.js, v0.82.1), instead of being deleted.
THEOREM BilledImportsStay == Spec => []BilledImportsKept
<1> DEFINE Inv == status \in Statuses /\ ImportsInv
<1>1. Init => Inv
  BY ImportsInit, LedgerInvInit
<1>2. Inv /\ [Next]_vars => Inv'
  <2>1. ASSUME status \in Statuses, UNCHANGED vars PROVE status' \in Statuses
    BY <2>1 DEF vars
  <2>2. QED
    BY <2>1, StatusKept, ImportsStep
<1>3. Inv => BilledImportsKept
  <2> SUFFICES ASSUME ImportsInv, NEW s \in Snapshots, Completed(s), HasTechnicians(s),
                      NEW r \in Outcomes(s), NEW i \in Invoices
               PROVE  Cardinality({k \in DOMAIN r.mx : r.mx[k].invoice = i})
                         >= Cardinality({k \in DOMAIN mx : mx[k].invoice = i})
    BY DEF BilledImportsKept
  <2>1. r \in MxWinsPerTech(app, mx, s)
    BY DEF Outcomes, Completed, Reconcile
  <2>2. LosesNone(mx, r.mx)
    BY <2>1, PerTechKeeps DEF ImportsInv
  <2>3. QED
    BY <2>2 DEF LosesNone, OnInvoice
<1>4. QED
  BY <1>1, <1>2, <1>3, PTL DEF Spec
=============================================================================
