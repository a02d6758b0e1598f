------------------------ MODULE InvoiceApprovalProofs ------------------------
(***************************************************************************)
(* Proofs about InvoiceApproval and its screens, for any users, invoices,  *)
(* requests and bounds, and the refinements between the two and the        *)
(* contract.                                                               *)
(***************************************************************************)
EXTENDS InvoiceScreens, FiniteSetTheorems, TLAPS

(* Types: every handler leaves the tables well-formed.                     *)

\* A counter column that is incremented stays a counter.
LEMMA CountType ==
  ASSUME NEW f \in [Invoices -> Nat], NEW k, NEW n \in Nat
  PROVE  [f EXCEPT ![k] = @ + n] \in [Invoices -> Nat]
<1>1. ASSUME k \in Invoices PROVE f[k] + n \in Nat
  BY <1>1
<1>2. QED
  BY <1>1

LEMMA IdleType == Idle \in Request
  BY ConstantsOK DEF ConstantsOK, Idle, Request, Phases, Outcomes, UserOrNone

LEMMA NewRowType == ASSUME NEW c \in BOOLEAN PROVE NewRow(c) \in Row
<1>1. 1 \in Versions /\ 0 \in 0..MaxVersion
  BY ConstantsOK DEF ConstantsOK, Versions
<1>2. QED
  BY <1>1 DEF NewRow, Row, Statuses, UserOrNone

LEMMA InitType == Init => TypeOK
<1> SUFFICES ASSUME Init PROVE TypeOK
    OBVIOUS
<1>1. inv \in [Invoices -> Row]
  BY NewRowType DEF Init
<1>2. req \in [Requests -> Request]
  BY IdleType DEF Init
<1>3. QED
  BY <1>1, <1>2 DEF Init, TypeOK

\* What the fields of a row and of a request may hold.
LEMMA RowFields ==
  ASSUME NEW row \in Row
  PROVE  /\ row.status \in Statuses /\ row.version \in Versions
         /\ row.version \in 0..MaxVersion /\ row.version \in Nat
         /\ row.opsBy \in UserOrNone /\ row.srBy \in UserOrNone
         /\ row.escBy \in UserOrNone /\ row.changed \in BOOLEAN /\ row.late \in Nat
<1>1. row.version \in Versions
  BY DEF Row
<1>2. row.version \in 0..MaxVersion /\ row.version \in Nat
  BY <1>1, ConstantsOK DEF ConstantsOK, Versions
<1>3. QED
  BY <1>1, <1>2 DEF Row

LEMMA RequestFields ==
  ASSUME TypeOK, NEW r \in Requests
  PROVE  /\ req[r] \in Request /\ req[r].phase \in Phases
         /\ req[r].inv \in Invoices \union {NoInvoice}
         /\ req[r].by \in UserOrNone /\ req[r].ver \in 0..MaxVersion
  BY DEF TypeOK, Request

\* An UPDATE of one row with a well-formed row keeps the table well-formed.
LEMMA UpdateType ==
  ASSUME NEW i \in Invoices, NEW row \in Row, inv \in [Invoices -> Row], Update(i, row)
  PROVE  /\ inv' \in [Invoices -> Row]
         /\ inv'[i] = row
         /\ \A j \in Invoices \ {i} : inv'[j] = inv[j]
  BY DEF Update

LEMMA TeamType ==
  ASSUME TypeOK, NEW m \in Users, NEW t \in Users, TeamAdd(m, t) \/ TeamRemove(m, t)
  PROVE  TypeOK'
  BY DEF TeamAdd, TeamRemove, TypeOK, mail

LEMMA AdminSetRoleType ==
  ASSUME TypeOK, NEW a \in Users, NEW u \in Users, NEW r \in Roles, AdminSetRole(a, u, r)
  PROVE  TypeOK'
  BY DEF AdminSetRole, TypeOK, mail

LEMMA ViewType ==
  ASSUME TypeOK, NEW u \in Users, NEW i \in Invoices, View(u, i)
  PROVE  TypeOK'
<1> DEFINE row == [inv[i] EXCEPT !.changed = Touched(i)]
<1>1. inv[i] \in Row /\ Touched(i) \in BOOLEAN
  BY DEF TypeOK, Row, Touched
<1>2. row \in Row
  BY <1>1 DEF Row
<1>3. QED
  BY <1>2, UpdateType DEF View, TypeOK, mail, org

LEMMA EditType ==
  ASSUME TypeOK, NEW u \in Users, NEW i \in Invoices,
         EditContent(u, i) \/ VendorUpdate(u, i)
  PROVE  TypeOK'
<1>1. inv[i] \in Row
  BY DEF TypeOK
<1>2. inv[i].version + 1 \in Versions
  <2>1. inv[i].version \in Nat /\ inv[i].version < MaxVersion
    BY <1>1, RowFields DEF EditContent, VendorUpdate
  <2>2. QED
    BY <2>1, ConstantsOK DEF ConstantsOK, Versions
<1>3. [inv[i] EXCEPT !.version = @ + 1] \in Row
  BY <1>1, <1>2 DEF Row
<1>4. \A c \in BOOLEAN : [inv[i] EXCEPT !.version = @ + 1, !.complete = c] \in Row
  BY <1>1, <1>2 DEF Row
<1>5. QED
  BY <1>3, <1>4, UpdateType DEF EditContent, VendorUpdate, TypeOK, mail, org

LEMMA SubmitType ==
  ASSUME TypeOK, NEW u \in Users, NEW i \in Invoices, Submit(u, i) \/ VendorSubmit(u, i)
  PROVE  TypeOK'
<1>1. [inv[i] EXCEPT !.status = "submitted"] \in Row
  BY DEF TypeOK, Row, Statuses
<1>2. QED
  BY <1>1, UpdateType DEF Submit, VendorSubmit, TypeOK, mail, org

LEMMA ApproveType ==
  ASSUME TypeOK, NEW u \in Users, NEW i \in Invoices,
         ApproveVendor(u, i) \/ ApproveOps(u, i) \/ ApproveSr(u, i)
  PROVE  TypeOK'
<1>1. inv[i] \in Row /\ inv[i].version \in 0..MaxVersion /\ u \in UserOrNone
  BY RowFields DEF TypeOK, UserOrNone
<1>2. [inv[i] EXCEPT !.status = "approved_ops", !.opsBy = u,
                     !.reviewedVer = inv[i].version, !.late = 0] \in Row
  BY <1>1 DEF Row, Statuses
<1>3. [inv[i] EXCEPT !.status = "approved_sr", !.srBy = u,
                     !.reviewedVer = inv[i].version, !.late = 0] \in Row
  BY <1>1 DEF Row, Statuses
<1>4. inv' \in [Invoices -> Row]
  BY <1>2, <1>3, UpdateType DEF ApproveVendor, ApproveOps, ApproveSr, TypeOK
<1>5. QED
  BY <1>4 DEF ApproveVendor, ApproveOps, ApproveSr, TypeOK, mail, org

LEMMA ReturnType ==
  ASSUME TypeOK, NEW u \in Users, NEW i \in Invoices, Reject(u, i) \/ Escalate(u, i)
  PROVE  TypeOK'
<1>1. inv[i] \in Row /\ inv[i].version \in 0..MaxVersion /\ u \in UserOrNone
  BY RowFields DEF TypeOK, UserOrNone
<1>2. [inv[i] EXCEPT !.status = "draft"] \in Row
  BY <1>1 DEF Row, Statuses
<1>3. [inv[i] EXCEPT !.status = "approved_ops", !.escBy = u,
                     !.reviewedVer = inv[i].version, !.late = 0] \in Row
  BY <1>1 DEF Row, Statuses
<1>4. QED
  BY <1>2, <1>3, UpdateType DEF Reject, Escalate, TypeOK, mail, org

LEMMA GoneType ==
  ASSUME TypeOK, NEW S, Gone(S)
  PROVE  TypeOK'
<1>1. ASSUME NEW i \in Invoices
      PROVE  [inv[i] EXCEPT !.status = "deleted"] \in Row
  BY DEF TypeOK, Row, Statuses
<1>2. QED
  BY <1>1 DEF Gone, TypeOK, org

\* What imports do: they change the lines of some
\* invoices, count that, and touch nothing else that a guard reads.
Outside ==
    \/ \E S \in SUBSET Invoices : PullLines(S)
    \/ \E i \in Invoices : UploadParsed(i)

OutsideRow(old, new) ==
    /\ new = [old EXCEPT !.version = new.version, !.late = new.late, !.changed = new.changed]
    /\ new.version + old.late = old.version + new.late

LEMMA OutsideRows ==
  ASSUME TypeOK, Outside
  PROVE  /\ inv' \in [Invoices -> Row]
         /\ \A j \in Invoices : OutsideRow(inv[j], inv'[j])
         /\ UNCHANGED <<org, req, attempts, apRows, delivered, crashed>>
         /\ parsing' \subseteq parsing
<1> DEFINE Drifted(row) == [row EXCEPT !.version = @ + 1, !.late = @ + 1]
           Seen(row, c) == [row EXCEPT !.changed = c]
<1>1. ASSUME NEW row \in Row, row.version < MaxVersion, NEW c \in BOOLEAN
      PROVE  /\ Drifted(row) \in Row /\ OutsideRow(row, Drifted(row))
             /\ Seen(Drifted(row), c) \in Row /\ OutsideRow(row, Seen(Drifted(row), c))
  <2>1. row.version \in Nat /\ row.late \in Nat
    BY RowFields
  <2>2. row.version + 1 \in Versions /\ row.late + 1 \in Nat
    BY <1>1, <2>1, ConstantsOK DEF ConstantsOK, Versions
  <2>3. /\ Drifted(row) \in Row /\ Seen(Drifted(row), c) \in Row
    BY <2>2 DEF Row
  <2>4. /\ Drifted(row).version = row.version + 1 /\ Drifted(row).late = row.late + 1
        /\ Seen(Drifted(row), c).version = row.version + 1
        /\ Seen(Drifted(row), c).late = row.late + 1
    BY DEF Row
  <2>5. /\ Drifted(row) = [row EXCEPT !.version = Drifted(row).version,
                             !.late = Drifted(row).late, !.changed = Drifted(row).changed]
        /\ Seen(Drifted(row), c) = [row EXCEPT !.version = Seen(Drifted(row), c).version,
                                      !.late = Seen(Drifted(row), c).late,
                                      !.changed = Seen(Drifted(row), c).changed]
    BY DEF Row
  <2>6. QED
    BY <2>1, <2>3, <2>4, <2>5 DEF OutsideRow
<1>2. ASSUME NEW row \in Row, NEW c \in BOOLEAN
      PROVE  /\ Seen(row, c) \in Row /\ OutsideRow(row, Seen(row, c)) /\ OutsideRow(row, row)
  BY RowFields DEF Row, OutsideRow
<1>3. inv \in [Invoices -> Row] /\ \A i \in Invoices : Touched(i) \in BOOLEAN
  BY DEF TypeOK, Row, Touched
<1>4. CASE \E S \in SUBSET Invoices : PullLines(S)
  <2>1. PICK S \in SUBSET Invoices : PullLines(S)
    BY <1>4
  <2>2. \A j \in S : inv[j].version < MaxVersion
    BY <2>1 DEF PullLines
  <2>3. inv' = [i \in Invoices |-> IF i \in S THEN Drifted(inv[i]) ELSE inv[i]]
    BY <2>1 DEF PullLines
  <2> HIDE DEF Drifted, Seen
  <2>4. QED
    BY <1>1, <1>2, <1>3, <2>1, <2>2, <2>3 DEF PullLines, mail
<1>5. CASE \E i \in Invoices : UploadParsed(i)
  <2>1. PICK i \in Invoices : UploadParsed(i)
    BY <1>5
  <2>2. PICK row : /\ Update(i, row)
                   /\ \/ row = Seen(inv[i], Touched(i))
                      \/ inv[i].version < MaxVersion /\ row = Seen(Drifted(inv[i]), Touched(i))
    <3>1. Seen(Drifted(inv[i]), Touched(i)) =
             [inv[i] EXCEPT !.version = @ + 1, !.late = @ + 1, !.changed = Touched(i)]
      BY <1>3 DEF Row
    <3>2. QED
      BY <2>1, <3>1 DEF UploadParsed
  <2> HIDE DEF Drifted, Seen
  <2>3. row \in Row /\ OutsideRow(inv[i], row)
    BY <1>1, <1>2, <1>3, <2>2
  <2>4. inv' = [inv EXCEPT ![i] = row]
    BY <2>2 DEF Update
  <2>5. QED
    BY <1>2, <1>3, <2>1, <2>3, <2>4 DEF UploadParsed
<1>6. QED
  BY <1>4, <1>5 DEF Outside

\* In particular it leaves every field alone that decides anything.
LEMMA OutsideFields ==
  ASSUME NEW old \in Row, NEW new \in Row, OutsideRow(old, new)
  PROVE  /\ new.status = old.status /\ new.opsBy = old.opsBy /\ new.srBy = old.srBy
         /\ new.escBy = old.escBy /\ new.reviewedVer = old.reviewedVer
  BY DEF OutsideRow, Row

LEMMA OutsideType == ASSUME TypeOK, Outside PROVE TypeOK'
  BY OutsideRows DEF TypeOK, org

LEMMA SendBeginType ==
  ASSUME TypeOK, NEW r \in Requests, NEW u \in Users, NEW i \in Invoices, SendBegin(r, u, i)
  PROVE  TypeOK'
<1> DEFINE row == [inv[i] EXCEPT !.changed = Touched(i)]
           new == [phase |-> "pdf", inv |-> i, by |-> u, ver |-> inv[i].version,
                   outcome |-> "none"]
<1>1. inv[i] \in Row /\ Touched(i) \in BOOLEAN /\ inv[i].version \in 0..MaxVersion
  BY RowFields DEF TypeOK, Touched
<1>2. row \in Row
  BY <1>1 DEF Row
<1>3. new \in Request
  BY <1>1 DEF Request, Phases, Outcomes, UserOrNone
<1>4. req' \in [Requests -> Request]
  BY <1>3 DEF SendBegin, TypeOK
<1>5. QED
  BY <1>2, <1>4, UpdateType DEF SendBegin, TypeOK, org

LEMMA DieType == TypeOK /\ Die => TypeOK'
  BY IdleType DEF Die, TypeOK, org

LEMMA SendStepType ==
  ASSUME TypeOK, NEW r \in Requests, HandlerStep(r)
  PROVE  TypeOK'
<1>0. req[r] \in Request /\ req[r].inv \in Invoices \union {NoInvoice}
  BY DEF TypeOK, Request
<1>1. CASE SendPdfFails(r)
  BY <1>1, IdleType DEF SendPdfFails, Finish, TypeOK, org
<1>2. CASE SendPdfReady(r)
  <2>1. [req[r] EXCEPT !.phase = "smtp"] \in Request
    BY <1>0 DEF Request, Phases
  <2>2. req' \in [Requests -> Request]
    BY <1>2, <2>1 DEF SendPdfReady, TypeOK
  <2>3. apRows' \in [Invoices -> Nat]
    <3>1. apRows' = [apRows EXCEPT ![req[r].inv] = @ + 1]
      BY <1>2 DEF SendPdfReady
    <3>2. apRows \in [Invoices -> Nat]
      BY DEF TypeOK
    <3>3. QED
      BY <3>1, <3>2, CountType
  <2>4. QED
    BY <1>2, <2>2, <2>3 DEF SendPdfReady, TypeOK, org
<1>3. CASE SendPdfOrphaned(r)
  BY <1>3, DieType DEF SendPdfOrphaned
<1>4. CASE SmtpSettles(r)
  <2>1. PICK o \in {"sent", "failed", "logged"}, n \in {0, 1} :
           /\ delivered' = [delivered EXCEPT ![req[r].inv] = @ + n]
           /\ req' = [req EXCEPT ![r].phase = "reply", ![r].outcome = o]
    BY <1>4 DEF SmtpSettles
  <2>2. [req[r] EXCEPT !.phase = "reply", !.outcome = o] \in Request
    BY <1>0 DEF Request, Phases, Outcomes
  <2>3. req' \in [Requests -> Request]
    BY <2>1, <2>2 DEF TypeOK
  <2>4. delivered' \in [Invoices -> Nat]
    <3>1. delivered \in [Invoices -> Nat]
      BY DEF TypeOK
    <3>2. n \in Nat
      OBVIOUS
    <3>3. QED
      BY <2>1, <3>1, <3>2, CountType
  <2>5. QED
    BY <1>4, <2>3, <2>4 DEF SmtpSettles, TypeOK, org
<1>5. CASE SendComplete(r)
  <2> DEFINE i == req[r].inv
             row == [inv[i] EXCEPT !.status = "sent_ap", !.sentBy = req[r].by,
                                   !.sentVer = req[r].ver, !.changed = FALSE]
  <2>1. CASE i \in Invoices
    <3>1. row \in Row
      <4>1. inv[i] \in Row /\ req[r].by \in UserOrNone /\ req[r].ver \in 0..MaxVersion
        BY <2>1, RequestFields DEF TypeOK
      <4>2. QED
        BY <4>1 DEF Row, Statuses
    <3>2. inv' \in [Invoices -> Row]
      BY <1>5, <2>1, <3>1, UpdateType DEF SendComplete, TypeOK
    <3>3. QED
      BY <1>5, <3>2, IdleType DEF SendComplete, Finish, TypeOK, org
  <2>2. CASE i \notin Invoices
    <3>1. inv' = inv
      BY <1>5, <2>2 DEF SendComplete, Update, TypeOK
    <3>2. QED
      BY <1>5, <3>1, IdleType DEF SendComplete, Finish, TypeOK, org
  <2>3. QED
    BY <2>1, <2>2
<1>6. QED
  BY <1>1, <1>2, <1>3, <1>4, <1>5 DEF HandlerStep

LEMMA NextType == TypeOK /\ [Next]_vars => TypeOK'
<1> SUFFICES ASSUME TypeOK, [Next]_vars PROVE TypeOK'
    OBVIOUS
<1>1. CASE UNCHANGED vars
  BY <1>1 DEF vars, TypeOK
<1>2. ASSUME NEW u \in Users, NEW i \in Invoices, VendorDiscard(u, i)
      PROVE  TypeOK'
  BY <1>2, GoneType DEF VendorDiscard
<1>3. ASSUME NEW u \in Users, NEW S \in SUBSET Invoices, NEW f \in BOOLEAN, AdminDelete(u, S, f)
      PROVE  TypeOK'
  BY <1>3, GoneType DEF AdminDelete
<1>4. CASE Crash
  BY <1>4, DieType DEF Crash
<1>5. ASSUME NEW i \in Invoices, UploadOrphaned(i)
      PROVE  TypeOK'
  BY <1>5, DieType DEF UploadOrphaned
<1>6. CASE Outside
  BY <1>6, OutsideType
<1>7. QED
  BY <1>1, <1>2, <1>3, <1>4, <1>5, <1>6, TeamType, AdminSetRoleType, ViewType, EditType,
     SubmitType, ApproveType, ReturnType, SendBeginType, SendStepType
     DEF Next, HandlerStep, Outside

\* The tables are well-formed in every reachable state.
THEOREM TypeCorrect == Spec => []TypeOK
  BY InitType, NextType, PTL DEF Spec

-----------------------------------------------------------------------------
(* Signatures: who signed what, and that nothing is handed off without it.  *)

\* Nobody signs their own invoice.
OwnersExcluded ==
    \A i \in Invoices : Owner[i] \notin {inv[i].opsBy, inv[i].srBy, inv[i].escBy}

\* A countersigned tech-labor invoice never comes back for another Ops
\* approval: that is why the two signatures stay different.
CountersignedIsFinal ==
    \A i \in Invoices \ Vendor : inv[i].srBy # NoUser =>
        /\ inv[i].status \in {"approved_sr", "sent_ap", "deleted"}
        /\ inv[i].srBy # inv[i].opsBy

SignatureInv == TypeOK /\ OwnersExcluded /\ CountersignedIsFinal /\ HandOffAuthorised

LEMMA SignatureInit == Init => SignatureInv
<1> SUFFICES ASSUME Init PROVE SignatureInv
    OBVIOUS
<1>1. TypeOK
  BY InitType
<1>2. ASSUME NEW i \in Invoices
      PROVE  /\ inv[i].status = "draft"
             /\ inv[i].opsBy = NoUser /\ inv[i].srBy = NoUser /\ inv[i].escBy = NoUser
             /\ Owner[i] # NoUser
             /\ delivered[i] = 0
  BY ConstantsOK DEF ConstantsOK, Init, NewRow
<1>3. \A i \in Invoices : ~ InFlight(i)
  BY ConstantsOK DEF ConstantsOK, Init, InFlight, Idle
<1>4. QED
  BY <1>1, <1>2, <1>3 DEF SignatureInv, OwnersExcluded, CountersignedIsFinal,
     HandOffAuthorised

\* A step that leaves the mail tables alone and writes one row keeps the
\* invariant if the new row keeps it.
LEMMA SignatureUpdate ==
  ASSUME SignatureInv, TypeOK', UNCHANGED mail,
         NEW i \in Invoices, NEW row \in Row, Update(i, row),
         Owner[i] \notin {row.opsBy, row.srBy, row.escBy},
         i \notin Vendor /\ row.srBy # NoUser =>
            row.status \in {"approved_sr", "sent_ap", "deleted"} /\ row.srBy # row.opsBy,
         row.status = "sent_ap" => inv[i].status = "sent_ap",
         inv[i].opsBy # NoUser => row.opsBy # NoUser
  PROVE  SignatureInv'
<1>1. /\ inv'[i] = row
      /\ \A j \in Invoices \ {i} : inv'[j] = inv[j]
  BY UpdateType DEF SignatureInv, TypeOK
<1>2. OwnersExcluded'
  BY <1>1 DEF OwnersExcluded, SignatureInv
<1>3. CountersignedIsFinal'
  BY <1>1 DEF CountersignedIsFinal, SignatureInv
<1>4. HandOffAuthorised'
  BY <1>1 DEF HandOffAuthorised, InFlight, mail, SignatureInv
<1>5. QED
  BY <1>2, <1>3, <1>4 DEF SignatureInv

\* One handler, one row: each of them meets the conditions of SignatureUpdate.
LEMMA SignatureRowStep ==
  ASSUME SignatureInv, TypeOK', NEW u \in Users, NEW i \in Invoices,
         \/ View(u, i) \/ EditContent(u, i) \/ VendorUpdate(u, i)
         \/ Submit(u, i) \/ VendorSubmit(u, i)
         \/ ApproveVendor(u, i) \/ ApproveOps(u, i) \/ ApproveSr(u, i)
         \/ Reject(u, i) \/ Escalate(u, i)
  PROVE  SignatureInv'
<1>1. /\ inv[i] \in Row /\ inv \in [Invoices -> Row]
      /\ Owner[i] \notin {inv[i].opsBy, inv[i].srBy, inv[i].escBy}
      /\ i \notin Vendor /\ inv[i].srBy # NoUser =>
            /\ inv[i].status \in {"approved_sr", "sent_ap", "deleted"}
            /\ inv[i].srBy # inv[i].opsBy
  BY DEF SignatureInv, TypeOK, OwnersExcluded, CountersignedIsFinal
<1>2. u # NoUser /\ UNCHANGED mail
  BY ConstantsOK DEF ConstantsOK, View, EditContent, VendorUpdate, Submit, VendorSubmit,
     ApproveVendor, ApproveOps, ApproveSr, Reject, Escalate
<1>3. ASSUME NEW row, Update(i, row)
      PROVE  row \in Row /\ inv'[i] = row
  BY <1>3, <1>1 DEF Update, SignatureInv, TypeOK
<1>4. CASE View(u, i)
  BY <1>4, <1>1, <1>2, <1>3, SignatureUpdate DEF View, Row
<1>5. CASE EditContent(u, i)
  BY <1>5, <1>1, <1>2, <1>3, SignatureUpdate DEF EditContent, Row
<1>6. CASE VendorUpdate(u, i)
  BY <1>6, <1>1, <1>2, <1>3, SignatureUpdate DEF VendorUpdate, Row
<1>7. CASE Submit(u, i) \/ VendorSubmit(u, i)
  BY <1>7, <1>1, <1>2, <1>3, SignatureUpdate DEF Submit, VendorSubmit, Row
<1>8. CASE ApproveVendor(u, i)
  BY <1>8, <1>1, <1>2, <1>3, SignatureUpdate DEF ApproveVendor, Row
<1>9. CASE ApproveOps(u, i) \/ ApproveSr(u, i)
  BY <1>9, <1>1, <1>2, <1>3, SignatureUpdate DEF ApproveOps, ApproveSr, Row
<1>10. CASE Reject(u, i) \/ Escalate(u, i)
  BY <1>10, <1>1, <1>2, <1>3, SignatureUpdate DEF Reject, Escalate, Row
<1>11. QED
  BY <1>4, <1>5, <1>6, <1>7, <1>8, <1>9, <1>10

\* Deleting keeps the signatures and the hand-offs in flight.
LEMMA SignatureGone ==
  ASSUME SignatureInv, TypeOK', NEW S \in SUBSET Invoices, Gone(S)
  PROVE  SignatureInv'
<1>1. ASSUME NEW i \in Invoices
      PROVE  /\ inv'[i].status \in {inv[i].status, "deleted"}
             /\ inv'[i].opsBy = inv[i].opsBy /\ inv'[i].srBy = inv[i].srBy
             /\ inv'[i].escBy = inv[i].escBy
  BY <1>1 DEF Gone, SignatureInv, TypeOK, Row
<1>2. UNCHANGED <<req, delivered>>
  BY DEF Gone
<1>3. QED
  BY <1>1, <1>2 DEF SignatureInv, OwnersExcluded, CountersignedIsFinal,
     HandOffAuthorised, InFlight

\* Starting a hand-off needs an Ops signature.
LEMMA SignatureSendBegin ==
  ASSUME SignatureInv, TypeOK', NEW r \in Requests, NEW u \in Users, NEW i \in Invoices,
         SendBegin(r, u, i)
  PROVE  SignatureInv'
<1>1. /\ inv[i].opsBy # NoUser
      /\ \A j \in Invoices : /\ inv'[j].status = inv[j].status /\ inv'[j].opsBy = inv[j].opsBy
                             /\ inv'[j].srBy = inv[j].srBy /\ inv'[j].escBy = inv[j].escBy
      /\ UNCHANGED delivered
  BY DEF SendBegin, MaySend, Update, SignatureInv, TypeOK, Row
<1>2. \A q \in Requests : req'[q].inv \in {req[q].inv, i}
  BY DEF SendBegin, SignatureInv, TypeOK
<1>3. \A j \in Invoices : InFlight(j)' => InFlight(j) \/ j = i
  BY <1>2 DEF InFlight
<1>4. QED
  BY <1>1, <1>3 DEF SignatureInv, OwnersExcluded, CountersignedIsFinal, HandOffAuthorised

\* The later steps of a hand-off concern an invoice that is in flight, hence
\* already signed.
LEMMA SignatureHandler ==
  ASSUME SignatureInv, TypeOK', Die \/ \E r \in Requests : HandlerStep(r)
  PROVE  SignatureInv'
<1>1. ASSUME NEW q \in Requests
      PROVE  req'[q].inv \in {req[q].inv, NoInvoice}
  <2>1. Idle.inv = NoInvoice /\ req[q] \in Request /\ req \in [Requests -> Request]
    BY DEF Idle, SignatureInv, TypeOK
  <2>2. CASE Die
    BY <2>1, <2>2 DEF Die
  <2>3. ASSUME NEW r \in Requests, Finish(r)
        PROVE  req'[q].inv \in {req[q].inv, NoInvoice}
    BY <2>1, <2>3 DEF Finish
  <2>4. ASSUME NEW r \in Requests, SendPdfReady(r) \/ SmtpSettles(r)
        PROVE  req'[q].inv = req[q].inv
    BY <2>1, <2>4 DEF SendPdfReady, SmtpSettles, Request
  <2>5. QED
    BY <2>2, <2>3, <2>4 DEF HandlerStep, SendPdfFails, SendPdfOrphaned, SendComplete
<1>2. \A j \in Invoices : InFlight(j)' => InFlight(j)
  BY <1>1, ConstantsOK DEF ConstantsOK, InFlight
<1>3. ASSUME NEW j \in Invoices
      PROVE  /\ inv'[j].opsBy = inv[j].opsBy /\ inv'[j].srBy = inv[j].srBy
             /\ inv'[j].escBy = inv[j].escBy
             /\ inv'[j].status \in {inv[j].status, "sent_ap"}
             /\ inv'[j].status # inv[j].status => InFlight(j)
  <2>1. CASE UNCHANGED inv
    BY <2>1
  <2>2. ASSUME NEW r \in Requests, SendComplete(r), inv' # inv
        PROVE  /\ inv'[j].opsBy = inv[j].opsBy /\ inv'[j].srBy = inv[j].srBy
               /\ inv'[j].escBy = inv[j].escBy
               /\ inv'[j].status \in {inv[j].status, "sent_ap"}
               /\ inv'[j].status # inv[j].status => j = req[r].inv
    <3>1. inv \in [Invoices -> Row]
      BY DEF SignatureInv, TypeOK
    <3>2. PICK row : /\ inv' = [inv EXCEPT ![req[r].inv] = row]
                     /\ row = [inv[req[r].inv] EXCEPT !.status = "sent_ap",
                           !.sentBy = req[r].by, !.sentVer = req[r].ver, !.changed = FALSE]
      BY <2>2 DEF SendComplete, Update
    <3>3. CASE j = req[r].inv
      BY <3>1, <3>2, <3>3 DEF Row
    <3>4. CASE j # req[r].inv
      BY <3>1, <3>2, <3>4
    <3>5. QED
      BY <3>3, <3>4
  <2>3. QED
    BY <2>1, <2>2 DEF HandlerStep, SendPdfFails, SendPdfReady, SendPdfOrphaned,
       SmtpSettles, Die, InFlight
<1>4. ASSUME NEW j \in Invoices
      PROVE  delivered'[j] # delivered[j] => InFlight(j)
  BY <1>4 DEF HandlerStep, SendPdfFails, SendPdfReady, SendPdfOrphaned, SmtpSettles,
     SendComplete, Die, InFlight, SignatureInv, TypeOK
<1>5. QED
  BY <1>2, <1>3, <1>4 DEF SignatureInv, OwnersExcluded, CountersignedIsFinal,
     HandOffAuthorised

LEMMA SignatureOutside == SignatureInv /\ TypeOK' /\ Outside => SignatureInv'
<1> SUFFICES ASSUME SignatureInv, TypeOK', Outside PROVE SignatureInv'
    OBVIOUS
<1>1. ASSUME NEW j \in Invoices
      PROVE  /\ inv'[j].status = inv[j].status /\ inv'[j].opsBy = inv[j].opsBy
             /\ inv'[j].srBy = inv[j].srBy /\ inv'[j].escBy = inv[j].escBy
  BY OutsideRows, OutsideFields DEF SignatureInv, TypeOK
<1>2. UNCHANGED <<req, delivered>>
  BY OutsideRows DEF SignatureInv
<1>3. QED
  BY <1>1, <1>2 DEF SignatureInv, OwnersExcluded, CountersignedIsFinal,
     HandOffAuthorised, InFlight

LEMMA SignatureNext == SignatureInv /\ [Next]_vars => SignatureInv'
<1> SUFFICES ASSUME SignatureInv, [Next]_vars PROVE SignatureInv'
    OBVIOUS
<1>1. TypeOK'
  BY NextType DEF SignatureInv
<1>2. CASE UNCHANGED <<inv, mail>>
  BY <1>2, <1>1 DEF SignatureInv, OwnersExcluded, CountersignedIsFinal,
     HandOffAuthorised, InFlight, mail
<1>3. ASSUME NEW u \in Users, NEW i \in Invoices, VendorDiscard(u, i)
      PROVE  SignatureInv'
  BY <1>3, <1>1, SignatureGone DEF VendorDiscard
<1>4. ASSUME NEW u \in Users, NEW S \in SUBSET Invoices, NEW f \in BOOLEAN, AdminDelete(u, S, f)
      PROVE  SignatureInv'
  BY <1>4, <1>1, SignatureGone DEF AdminDelete
<1>5. CASE \/ Crash \/ \E i \in Invoices : UploadOrphaned(i)
           \/ \E r \in Requests : HandlerStep(r)
  BY <1>5, <1>1, SignatureHandler DEF Crash, UploadOrphaned
<1>6. CASE Outside
  BY <1>6, <1>1, SignatureOutside
<1>7. QED
  BY <1>1, <1>2, <1>3, <1>4, <1>5, <1>6, SignatureRowStep, SignatureSendBegin
     DEF Next, Outside, HandlerStep, TeamAdd, TeamRemove, AdminSetRole, vars, mail

\* Whatever roles, teams, rejections and resubmissions came in between, no
\* invoice is signed by its owner and no countersignature is the Ops
\* approver's own.
THEOREM Segregation == Spec => []SegregationOfDuties
<1>1. SignatureInv => SegregationOfDuties
  BY DEF SignatureInv, OwnersExcluded, CountersignedIsFinal, SegregationOfDuties
<1>2. QED
  BY <1>1, SignatureInit, SignatureNext, PTL DEF Spec

\* However hand-offs in flight interleave with rejections and resubmissions,
\* nothing goes to AP without an Ops approval by someone else than the owner.
THEOREM Authorised == Spec => []HandOffAuthorised
<1>1. SignatureInv => HandOffAuthorised
  BY DEF SignatureInv
<1>2. QED
  BY <1>1, SignatureInit, SignatureNext, PTL DEF Spec

-----------------------------------------------------------------------------
(* Content: nobody edits anything between a review and the hand-off.        *)

\* ApprovalCoversContent is inductive together with the types, so what a step
\* writes into one row decides.
Covered(row) ==
    row.status \in {"approved_ops", "approved_sr"} => row.version = row.reviewedVer + row.late

LEMMA CoveredRow ==
  ASSUME TypeOK, ApprovalCoversContent, NEW u \in Users, NEW i \in Invoices,
         \/ View(u, i) \/ EditContent(u, i) \/ VendorUpdate(u, i)
         \/ Submit(u, i) \/ VendorSubmit(u, i)
         \/ ApproveVendor(u, i) \/ ApproveOps(u, i) \/ ApproveSr(u, i)
         \/ Reject(u, i) \/ Escalate(u, i)
  PROVE  ApprovalCoversContent'
<1>1. inv[i] \in Row /\ inv \in [Invoices -> Row] /\ Covered(inv[i])
  BY DEF TypeOK, ApprovalCoversContent, Covered
<1>3. SUFFICES ASSUME NEW row, Update(i, row) PROVE Covered(row)
  <2>1. \E row : Update(i, row)
    BY DEF View, EditContent, VendorUpdate, Submit, VendorSubmit, ApproveVendor,
       ApproveOps, ApproveSr, Reject, Escalate
  <2>2. PICK row : Update(i, row) /\ Covered(row)
    BY <2>1, <1>3
  <2>3. \A j \in Invoices : inv'[j] = IF j = i THEN row ELSE inv[j]
    BY <2>2, <1>1 DEF Update
  <2>4. QED
    BY <2>2, <2>3 DEF ApprovalCoversContent, Covered
<1>4. inv'[i] = row
  BY <1>1, <1>3 DEF Update
<1>5. CASE View(u, i)
  BY <1>1, <1>4, <1>5 DEF View, Update, Covered, Row
<1>6. CASE EditContent(u, i) \/ VendorUpdate(u, i)
  BY <1>1, <1>4, <1>6 DEF EditContent, VendorUpdate, Update, Covered, Row
<1>7. CASE Submit(u, i) \/ VendorSubmit(u, i) \/ Reject(u, i)
  BY <1>1, <1>4, <1>7 DEF Submit, VendorSubmit, Reject, Update, Covered, Row
<1>8. CASE \/ ApproveVendor(u, i) \/ ApproveOps(u, i) \/ ApproveSr(u, i) \/ Escalate(u, i)
  <2>1. \/ row = [inv[i] EXCEPT !.status = "approved_sr", !.srBy = u,
                                !.reviewedVer = inv[i].version, !.late = 0]
        \/ row = [inv[i] EXCEPT !.status = "approved_ops", !.opsBy = u,
                                !.reviewedVer = inv[i].version, !.late = 0]
        \/ row = [inv[i] EXCEPT !.status = "approved_ops", !.escBy = u,
                                !.reviewedVer = inv[i].version, !.late = 0]
    <3>1. CASE ApproveVendor(u, i)
      BY <1>1, <1>4, <3>1 DEF ApproveVendor, Update
    <3>2. CASE ApproveOps(u, i)
      BY <1>1, <1>4, <3>2 DEF ApproveOps, Update
    <3>3. CASE ApproveSr(u, i)
      BY <1>1, <1>4, <3>3 DEF ApproveSr, Update
    <3>4. CASE Escalate(u, i)
      BY <1>1, <1>4, <3>4 DEF Escalate, Update
    <3>5. QED
      BY <1>8, <3>1, <3>2, <3>3, <3>4
  <2>2. row.reviewedVer = inv[i].version /\ row.version = inv[i].version /\ row.late = 0
    BY <1>1, <2>1 DEF Row
  <2>3. inv[i].version \in Nat
    BY <1>1, RowFields
  <2>4. QED
    BY <2>2, <2>3 DEF Covered
<1>9. QED
  BY <1>5, <1>6, <1>7, <1>8

LEMMA CoveredNext ==
  TypeOK /\ ApprovalCoversContent /\ [Next]_vars => ApprovalCoversContent'
<1> SUFFICES ASSUME TypeOK, ApprovalCoversContent, [Next]_vars
             PROVE  ApprovalCoversContent'
    OBVIOUS
<1>1. CASE UNCHANGED inv
  BY <1>1 DEF ApprovalCoversContent
<1>2. ASSUME NEW S, Gone(S) PROVE ApprovalCoversContent'
  <2>1. ASSUME NEW i \in Invoices
        PROVE  inv'[i] = inv[i] \/ inv'[i].status = "deleted"
    BY <1>2, <2>1 DEF Gone, TypeOK, Row
  <2>2. QED
    BY <2>1 DEF ApprovalCoversContent
<1>3. ASSUME NEW r \in Requests, NEW u \in Users, NEW i \in Invoices, SendBegin(r, u, i)
      PROVE  ApprovalCoversContent'
  <2>1. ASSUME NEW j \in Invoices
        PROVE  /\ inv'[j].status = inv[j].status /\ inv'[j].escBy = inv[j].escBy
               /\ inv'[j].version = inv[j].version /\ inv'[j].late = inv[j].late
               /\ inv'[j].reviewedVer = inv[j].reviewedVer
    BY <1>3, <2>1 DEF SendBegin, Update, TypeOK, Row
  <2>2. QED
    BY <2>1 DEF ApprovalCoversContent
<1>4. ASSUME NEW r \in Requests, SendComplete(r), inv' # inv
      PROVE  ApprovalCoversContent'
  <2>1. inv \in [Invoices -> Row]
    BY DEF TypeOK
  <2>2. PICK row : inv' = [inv EXCEPT ![req[r].inv] = row] /\ row.status = "sent_ap"
    <3>1. [inv[req[r].inv] EXCEPT !.status = "sent_ap", !.sentBy = req[r].by,
                !.sentVer = req[r].ver, !.changed = FALSE].status = "sent_ap"
       \/ req[r].inv \notin Invoices
      BY <2>1 DEF Row
    <3>2. req[r].inv \in Invoices
      BY <1>4, <2>1 DEF SendComplete, Update
    <3>3. QED
      BY <1>4, <3>1, <3>2 DEF SendComplete, Update
  <2>3. QED
    BY <2>1, <2>2 DEF ApprovalCoversContent
<1>5. CASE Outside
  <2>1. ASSUME NEW j \in Invoices
        PROVE  Covered(inv[j]) => Covered(inv'[j])
    <3>1. inv[j] \in Row /\ inv'[j] \in Row /\ OutsideRow(inv[j], inv'[j])
      BY <1>5, OutsideRows DEF TypeOK
    <3>2. /\ inv[j].version \in Nat /\ inv'[j].version \in Nat
          /\ inv[j].late \in Nat /\ inv'[j].late \in Nat /\ inv[j].reviewedVer \in Nat
      BY <3>1, RowFields DEF Row
    <3>3. /\ inv'[j].status = inv[j].status /\ inv'[j].reviewedVer = inv[j].reviewedVer
          /\ inv'[j].version + inv[j].late = inv[j].version + inv'[j].late
      BY <3>1, OutsideFields DEF OutsideRow
    <3>4. QED
      BY <3>2, <3>3 DEF Covered
  <2>2. QED
    BY <2>1 DEF ApprovalCoversContent, Covered
<1>6. QED
  BY <1>1, <1>2, <1>3, <1>4, <1>5, CoveredRow
     DEF Next, Outside, UploadOrphaned, vars, TeamAdd, TeamRemove, AdminSetRole, VendorDiscard, AdminDelete,
         SendPdfFails, SendPdfReady, SendPdfOrphaned, SmtpSettles, Crash, Die, mail

\* What is approved is what whoever let it pass last saw, but for the imports
\* and deletions counted since, in every reachable state.
THEOREM Coverage == Spec => []ApprovalCoversContent
<1>1. Init => ApprovalCoversContent
  <2>1. Init => \A i \in Invoices : inv[i].status = "draft"
    BY DEF Init, NewRow
  <2>2. QED
    BY <2>1 DEF ApprovalCoversContent
<1>2. QED
  BY <1>1, InitType, NextType, CoveredNext, PTL DEF Spec

-----------------------------------------------------------------------------
(* Sent invoices: nothing but another hand-off writes them.                 *)

\* Every invoice sent, or about to be marked as sent, has a notification row:
\* that row is what stands between a sent invoice and DELETE /admin/invoices.
LoggedInv ==
    /\ \A i \in Invoices : inv[i].status = "sent_ap" => apRows[i] > 0
    /\ \A r \in Requests : req[r].phase \in {"smtp", "reply"} =>
          req[r].inv \in Invoices /\
          (inv[req[r].inv].status = "deleted" \/ apRows[req[r].inv] > 0)
    /\ \A r \in Requests : req[r].phase = "pdf" => req[r].inv \in Invoices

\* One handler, one row: apRows and the requests are left alone, and no
\* handler but the hand-off itself writes 'sent_ap' or revives a deleted row.
LEMMA LoggedRow ==
  ASSUME TypeOK, LoggedInv, NEW i \in Invoices, NEW row, Update(i, row),
         UNCHANGED <<req, apRows>>,
         row.status = "sent_ap" => inv[i].status = "sent_ap",
         inv[i].status = "deleted" => row.status = "deleted"
  PROVE  LoggedInv'
<1>1. \A j \in Invoices : inv'[j] = IF j = i THEN row ELSE inv[j]
  BY DEF Update, TypeOK
<1>2. QED
  BY <1>1 DEF LoggedInv

LEMMA LoggedRowStep ==
  ASSUME TypeOK, LoggedInv, NEW u \in Users, NEW i \in Invoices,
         \/ View(u, i) \/ EditContent(u, i) \/ VendorUpdate(u, i)
         \/ Submit(u, i) \/ VendorSubmit(u, i)
         \/ ApproveVendor(u, i) \/ ApproveOps(u, i) \/ ApproveSr(u, i)
         \/ Reject(u, i) \/ Escalate(u, i)
  PROVE  LoggedInv'
<1>1. inv[i] \in Row /\ UNCHANGED <<req, apRows>>
  BY DEF TypeOK, View, EditContent, VendorUpdate, Submit, VendorSubmit, ApproveVendor,
     ApproveOps, ApproveSr, Reject, Escalate, mail
<1>2. CASE View(u, i)
  BY <1>1, <1>2, LoggedRow DEF View, Row
<1>3. CASE EditContent(u, i) \/ VendorUpdate(u, i)
  BY <1>1, <1>3, LoggedRow DEF EditContent, VendorUpdate, Row
<1>4. CASE Submit(u, i) \/ VendorSubmit(u, i) \/ Reject(u, i) \/ Escalate(u, i)
  BY <1>1, <1>4, LoggedRow DEF Submit, VendorSubmit, Reject, Escalate, Row
<1>5. CASE ApproveVendor(u, i)
  BY <1>1, <1>5, LoggedRow DEF ApproveVendor, Row
<1>6. CASE ApproveOps(u, i) \/ ApproveSr(u, i)
  BY <1>1, <1>6, LoggedRow DEF ApproveOps, ApproveSr, Row
<1>7. QED
  BY <1>2, <1>3, <1>4, <1>5, <1>6

\* A deleted invoice is deleted for good, so losing its rows is harmless.
LEMMA LoggedGone ==
  ASSUME TypeOK, LoggedInv, NEW S \in SUBSET Invoices, Gone(S)
  PROVE  LoggedInv'
<1>1. ASSUME NEW i \in Invoices
      PROVE  \/ i \in S /\ inv'[i].status = "deleted"
             \/ i \notin S /\ inv'[i] = inv[i] /\ apRows'[i] = apRows[i]
  BY <1>1 DEF Gone, TypeOK, Row
<1>2. UNCHANGED req
  BY DEF Gone
<1>3. QED
  BY <1>1, <1>2 DEF LoggedInv

LEMMA LoggedSendBegin ==
  ASSUME TypeOK, LoggedInv, NEW r \in Requests, NEW u \in Users, NEW i \in Invoices,
         SendBegin(r, u, i)
  PROVE  LoggedInv'
<1>1. \A j \in Invoices : inv'[j].status = inv[j].status /\ apRows'[j] = apRows[j]
  BY DEF SendBegin, Update, TypeOK, Row
<1>2. \A q \in Requests \ {r} : req'[q] = req[q]
  BY DEF SendBegin, TypeOK
<1>3. req'[r].phase = "pdf" /\ req'[r].inv = i
  BY DEF SendBegin, TypeOK
<1>4. QED
  BY <1>1, <1>2, <1>3 DEF LoggedInv

\* A handler that ends, or a process that dies, only forgets requests.
LEMMA LoggedIdle ==
  ASSUME TypeOK, LoggedInv, UNCHANGED <<inv, apRows>>,
         Die \/ \E r \in Requests : Finish(r)
  PROVE  LoggedInv'
<1>1. \A q \in Requests : req'[q] = Idle \/ req'[q] = req[q]
  BY DEF Die, Finish, TypeOK
<1>2. Idle.phase = "idle"
  BY DEF Idle
<1>3. QED
  BY <1>1, <1>2 DEF LoggedInv

LEMMA LoggedHandler ==
  ASSUME TypeOK, LoggedInv, NEW r \in Requests, HandlerStep(r)
  PROVE  LoggedInv'
<1>1. CASE SendPdfFails(r) \/ SendPdfOrphaned(r)
  BY <1>1, LoggedIdle DEF SendPdfFails, SendPdfOrphaned, Die
<1>2. CASE SendPdfReady(r)
  <2>1. req[r].inv \in Invoices /\ req'[r].phase = "smtp" /\ req'[r].inv = req[r].inv
    BY <1>2 DEF SendPdfReady, LoggedInv, TypeOK, Request
  <2>2. \A q \in Requests \ {r} : req'[q] = req[q]
    BY <1>2 DEF SendPdfReady, TypeOK
  <2>3. apRows \in [Invoices -> Nat] /\ apRows' = [apRows EXCEPT ![req[r].inv] = @ + 1]
    BY <1>2 DEF SendPdfReady, TypeOK
  <2>4. /\ apRows'[req[r].inv] > 0
        /\ \A j \in Invoices : apRows[j] > 0 => apRows'[j] > 0
    BY <2>1, <2>3
  <2>5. UNCHANGED inv
    BY <1>2 DEF SendPdfReady
  <2>6. QED
    BY <2>1, <2>2, <2>4, <2>5 DEF LoggedInv
<1>3. CASE SmtpSettles(r)
  <2>1. /\ \A q \in Requests : req'[q].inv = req[q].inv
        /\ \A q \in Requests \ {r} : req'[q].phase = req[q].phase
        /\ req[r].phase = "smtp" /\ req'[r].phase = "reply"
    BY <1>3 DEF SmtpSettles, TypeOK, Request
  <2>2. UNCHANGED <<inv, apRows>>
    BY <1>3 DEF SmtpSettles
  <2>3. QED
    BY <2>1, <2>2 DEF LoggedInv
<1>4. CASE SendComplete(r) /\ UNCHANGED inv
  BY <1>4, LoggedIdle DEF SendComplete
<1>5. CASE SendComplete(r) /\ inv[req[r].inv].status # "deleted"
  <2> DEFINE i == req[r].inv
             row == [inv[i] EXCEPT !.status = "sent_ap", !.sentBy = req[r].by,
                                   !.sentVer = req[r].ver, !.changed = FALSE]
  <2>1. i \in Invoices /\ apRows[i] > 0
    BY <1>5 DEF SendComplete, LoggedInv
  <2>2. row.status = "sent_ap"
    BY <2>1 DEF TypeOK, Row
  <2>3. \A j \in Invoices : inv'[j] = IF j = i THEN row ELSE inv[j]
    BY <1>5 DEF SendComplete, Update, TypeOK
  <2>4. \A q \in Requests : req'[q] = Idle \/ req'[q] = req[q]
    BY <1>5 DEF SendComplete, Finish, TypeOK
  <2>5. Idle.phase = "idle"
    BY DEF Idle
  <2>6. UNCHANGED apRows
    BY <1>5 DEF SendComplete
  <2> HIDE DEF i, row
  <2>7. \A j \in Invoices : inv'[j].status = "sent_ap" => apRows'[j] > 0
    BY <2>1, <2>3, <2>6 DEF LoggedInv
  <2>8. ASSUME NEW q \in Requests, req'[q].phase \in {"smtp", "reply"}
        PROVE  /\ req'[q].inv \in Invoices
               /\ inv'[req'[q].inv].status = "deleted" \/ apRows'[req'[q].inv] > 0
    BY <2>1, <2>3, <2>4, <2>5, <2>6, <2>8 DEF LoggedInv
  <2>9. \A q \in Requests : req'[q].phase = "pdf" => req'[q].inv \in Invoices
    BY <2>4, <2>5 DEF LoggedInv
  <2>10. QED
    BY <2>7, <2>8, <2>9 DEF LoggedInv
<1>6. QED
  BY <1>1, <1>2, <1>3, <1>4, <1>5 DEF HandlerStep, SendComplete

LEMMA LoggedOutside == ASSUME TypeOK, LoggedInv, Outside PROVE LoggedInv'
<1>1. \A j \in Invoices : inv'[j].status = inv[j].status
  BY OutsideRows, OutsideFields DEF TypeOK
<1>2. UNCHANGED <<req, apRows>>
  BY OutsideRows
<1>3. QED
  BY <1>1, <1>2 DEF LoggedInv

LEMMA LoggedInit == Init => LoggedInv
<1>1. Init => /\ \A i \in Invoices : inv[i].status = "draft"
              /\ \A r \in Requests : req[r].phase = "idle"
  BY DEF Init, NewRow, Idle
<1>2. QED
  BY <1>1 DEF LoggedInv

LEMMA LoggedNext == TypeOK /\ LoggedInv /\ [Next]_vars => LoggedInv'
<1> SUFFICES ASSUME TypeOK, LoggedInv, [Next]_vars PROVE LoggedInv'
    OBVIOUS
<1>1. CASE UNCHANGED <<inv, req, apRows>>
  BY <1>1 DEF LoggedInv
<1>2. CASE Crash \/ \E i \in Invoices : UploadOrphaned(i)
  BY <1>2, LoggedIdle DEF Crash, UploadOrphaned, Die
<1>3. CASE Outside
  BY <1>3, LoggedOutside
<1>4. QED
  BY <1>1, <1>2, <1>3, LoggedRowStep, LoggedGone, LoggedSendBegin, LoggedHandler
     DEF Next, Outside, vars, TeamAdd, TeamRemove, AdminSetRole, VendorDiscard, AdminDelete,
         HandlerStep, mail

\* What one step may do to the row of a sent invoice.
FrozenRow(i) ==
    inv[i].status = "sent_ap" =>
        /\ inv'[i] = [inv[i] EXCEPT !.sentBy = inv'[i].sentBy,
                                    !.sentVer = inv'[i].sentVer,
                                    !.changed = inv'[i].changed,
                                    !.version = inv'[i].version,
                                    !.late = inv'[i].late]
        /\ inv'[i].version + inv[i].late = inv[i].version + inv'[i].late

LEMMA FrozenNext ==
  ASSUME TypeOK, LoggedInv, [Next]_vars, NEW i \in Invoices
  PROVE  FrozenRow(i)
<1> SUFFICES ASSUME inv[i].status = "sent_ap" PROVE FrozenRow(i)
    BY DEF FrozenRow
<1>1. inv[i] \in Row /\ inv \in [Invoices -> Row] /\ apRows[i] # 0
  BY DEF TypeOK, LoggedInv
<1>2. CASE inv'[i] = inv[i]
  BY <1>1, <1>2 DEF FrozenRow, Row
<1>3. ASSUME NEW c, inv'[i] = [inv[i] EXCEPT !.changed = c]
      PROVE  FrozenRow(i)
  BY <1>1, <1>3 DEF FrozenRow, Row
<1>4. ASSUME NEW b, NEW v,
             inv'[i] = [inv[i] EXCEPT !.status = "sent_ap", !.sentBy = b,
                                      !.sentVer = v, !.changed = FALSE]
      PROVE  FrozenRow(i)
  BY <1>1, <1>4 DEF FrozenRow, Row
<1>5. ASSUME NEW u \in Users, NEW j \in Invoices,
             \/ EditContent(u, j) \/ VendorUpdate(u, j)
             \/ Submit(u, j) \/ VendorSubmit(u, j)
             \/ ApproveVendor(u, j) \/ ApproveOps(u, j) \/ ApproveSr(u, j)
             \/ Reject(u, j) \/ Escalate(u, j)
      PROVE  inv'[i] = inv[i]
  <2>1. j # i /\ \E row : Update(j, row)
    BY <1>5 DEF EditContent, VendorUpdate, Submit, VendorSubmit, ApproveVendor,
       ApproveOps, ApproveSr, Reject, Escalate
  <2>2. QED
    BY <2>1, <1>1 DEF Update
<1>6. ASSUME NEW S, Gone(S), i \notin S PROVE inv'[i] = inv[i]
  BY <1>6 DEF Gone
<1>7. ASSUME NEW u \in Users, NEW j \in Invoices, View(u, j)
      PROVE  FrozenRow(i)
  BY <1>7, <1>1, <1>2, <1>3 DEF View, Update, FrozenRow
<1>8. ASSUME NEW r \in Requests, NEW u \in Users, NEW j \in Invoices, SendBegin(r, u, j)
      PROVE  FrozenRow(i)
  BY <1>8, <1>1, <1>2, <1>3 DEF SendBegin, Update, FrozenRow
<1>9. ASSUME NEW r \in Requests, SendComplete(r)
      PROVE  FrozenRow(i)
  <2>1. CASE inv'[i] = inv[i]
    BY <1>2, <2>1 DEF FrozenRow
  <2>2. CASE inv'[i] # inv[i]
    <3>1. req[r].inv = i
      BY <1>1, <1>9, <2>2 DEF SendComplete, Update
    <3>2. inv'[i] = [inv[i] EXCEPT !.status = "sent_ap", !.sentBy = req[r].by,
                                   !.sentVer = req[r].ver, !.changed = FALSE]
      BY <1>1, <1>9, <2>2, <3>1 DEF SendComplete, Update
    <3>3. QED
      BY <1>4, <3>2
  <2>3. QED
    BY <2>1, <2>2
<1>10. CASE Outside
  <2>1. inv'[i] \in Row /\ OutsideRow(inv[i], inv'[i])
    BY <1>10, OutsideRows
  <2>2. QED
    BY <1>1, <2>1 DEF OutsideRow, FrozenRow, Row
<1>11. QED
  BY <1>1, <1>2, <1>5, <1>6, <1>7, <1>8, <1>9, <1>10
     DEF Next, Outside, UploadOrphaned, vars, TeamAdd, TeamRemove, AdminSetRole, VendorDiscard,
         AdminDelete, SendPdfFails, SendPdfReady, SendPdfOrphaned, SmtpSettles,
         Crash, Die, mail

\* What AP has received is never taken back: in every behaviour a sent invoice
\* keeps its status and its approvals, is edited by nobody and never deleted.
THEOREM Frozen == Spec => SentIsFrozen
<1>1. TypeOK /\ LoggedInv /\ [Next]_vars => [\A i \in Invoices : FrozenRow(i)]_vars
  BY FrozenNext
<1>2. QED
  BY <1>1, LoggedInit, InitType, NextType, LoggedNext, PTL DEF Spec, SentIsFrozen, FrozenRow

-----------------------------------------------------------------------------
(* The audit trail: mail on its way is already logged.                      *)

\* The handlers of invoice i that have logged a message and not heard of it yet.
Mailing(i) == {r \in Requests : req[r].phase = "smtp" /\ req[r].inv = i}

\* What AP has received and what may still reach it: each message has its row.
\* AuditTrailComplete by itself is not inductive, because a message is accepted
\* after its row was written.
AuditInv ==
    \A i \in Invoices :
        /\ IsFiniteSet(Mailing(i))
        /\ inv[i].status # "deleted" =>
              delivered[i] + Cardinality(Mailing(i)) <= apRows[i]

\* Steps that bring nothing back from deletion and touch neither the mail nor
\* its log.
LEMMA AuditQuiet ==
  ASSUME TypeOK, AuditInv, UNCHANGED <<apRows, delivered>>,
         \A i \in Invoices : inv'[i].status # "deleted" => inv[i].status # "deleted",
         \A r \in Requests : req'[r].phase = "smtp" \/ req[r].phase = "smtp"
                                => req'[r] = req[r]
  PROVE  AuditInv'
<1>1. ASSUME NEW i \in Invoices  PROVE Mailing(i)' = Mailing(i)
  BY DEF Mailing
<1>2. QED
  BY <1>1 DEF AuditInv

LEMMA AuditRow ==
  ASSUME TypeOK, AuditInv, NEW u \in Users, NEW i \in Invoices,
         \/ View(u, i) \/ EditContent(u, i) \/ VendorUpdate(u, i)
         \/ Submit(u, i) \/ VendorSubmit(u, i)
         \/ ApproveVendor(u, i) \/ ApproveOps(u, i) \/ ApproveSr(u, i)
         \/ Reject(u, i) \/ Escalate(u, i)
  PROVE  AuditInv'
<1>1. inv[i].status # "deleted" /\ UNCHANGED mail
  BY DEF View, EditContent, VendorUpdate, Submit, VendorSubmit, ApproveVendor,
     ApproveOps, ApproveSr, Reject, Escalate
<1>2. \E row : Update(i, row)
  BY DEF View, EditContent, VendorUpdate, Submit, VendorSubmit, ApproveVendor,
     ApproveOps, ApproveSr, Reject, Escalate
<1>3. \A j \in Invoices \ {i} : inv'[j] = inv[j]
  BY <1>2 DEF Update, TypeOK
<1>4. QED
  BY <1>1, <1>3, AuditQuiet DEF mail

LEMMA AuditGone ==
  ASSUME TypeOK, AuditInv, NEW S, Gone(S)
  PROVE  AuditInv'
<1>1. ASSUME NEW i \in Invoices  PROVE Mailing(i)' = Mailing(i)
  BY DEF Gone, Mailing
<1>2. ASSUME NEW i \in Invoices, inv'[i].status # "deleted"
      PROVE  /\ inv[i].status # "deleted"
             /\ apRows'[i] = apRows[i] /\ delivered'[i] = delivered[i]
  <2>1. i \notin S
    BY <1>2 DEF Gone, TypeOK, Row
  <2>2. QED
    BY <1>2, <2>1 DEF Gone
<1>3. QED
  BY <1>1, <1>2 DEF AuditInv

LEMMA AuditDie ==
  ASSUME TypeOK, AuditInv, Die
  PROVE  AuditInv'
<1>1. ASSUME NEW i \in Invoices
      PROVE  Mailing(i)' = {} /\ Cardinality(Mailing(i)) \in Nat
  BY FS_CardinalityType DEF Die, Idle, Mailing, AuditInv
<1>2. UNCHANGED <<inv, apRows, delivered>>
  BY DEF Die
<1>3. ASSUME NEW i \in Invoices, inv[i].status # "deleted"
      PROVE  delivered[i] + 0 <= apRows[i]
  BY <1>1, <1>3 DEF AuditInv, TypeOK
<1>4. QED
  BY <1>1, <1>2, <1>3, FS_EmptySet DEF AuditInv

\* The handler enters Mailing as it writes its row.
LEMMA AuditPdfReady ==
  ASSUME TypeOK, AuditInv, NEW r \in Requests, SendPdfReady(r)
  PROVE  AuditInv'
<1> DEFINE k == req[r].inv
<1>1. /\ \A i \in Invoices : apRows'[i] = IF i = k THEN apRows[i] + 1 ELSE apRows[i]
      /\ UNCHANGED <<inv, delivered>>
  BY DEF SendPdfReady, TypeOK
<1>2. /\ req[r].phase = "pdf" /\ req'[r].phase = "smtp" /\ req'[r].inv = k
      /\ \A q \in Requests \ {r} : req'[q] = req[q]
  BY DEF SendPdfReady, TypeOK, Request
<1>3. \A i \in Invoices : Mailing(i)' = IF i = k THEN Mailing(i) \union {r} ELSE Mailing(i)
  BY <1>2 DEF Mailing
<1>4. \A i \in Invoices : IsFiniteSet(Mailing(i)) /\ Cardinality(Mailing(i)) \in Nat
  BY FS_CardinalityType DEF AuditInv
<1>5. \A i \in Invoices : IsFiniteSet(Mailing(i) \union {r})
         /\ Cardinality(Mailing(i) \union {r}) <= Cardinality(Mailing(i)) + 1
         /\ Cardinality(Mailing(i) \union {r}) \in Nat
  <2>1. ASSUME NEW i \in Invoices
        PROVE  /\ IsFiniteSet(Mailing(i) \union {r})
               /\ Cardinality(Mailing(i) \union {r}) <= Cardinality(Mailing(i)) + 1
    <3>1. /\ IsFiniteSet(Mailing(i) \union {r})
          /\ Cardinality(Mailing(i) \union {r}) =
               IF r \in Mailing(i) THEN Cardinality(Mailing(i))
               ELSE Cardinality(Mailing(i)) + 1
      BY <1>4, FS_AddElement, Zenon
    <3>2. QED
      BY <1>4, <3>1
  <2>2. QED
    BY <2>1, FS_CardinalityType
<1>6. QED
  BY <1>1, <1>3, <1>4, <1>5 DEF AuditInv, TypeOK

\* It leaves as AP accepts the message, or not.
LEMMA AuditSettles ==
  ASSUME TypeOK, AuditInv, NEW r \in Requests, SmtpSettles(r)
  PROVE  AuditInv'
<1> DEFINE k == req[r].inv
<1>1. /\ \A i \in Invoices : delivered'[i] \in
            IF i = k THEN {delivered[i], delivered[i] + 1} ELSE {delivered[i]}
      /\ UNCHANGED <<inv, apRows>>
  BY DEF SmtpSettles, TypeOK
<1>2. /\ req[r].phase = "smtp" /\ req'[r].phase = "reply"
      /\ \A q \in Requests \ {r} : req'[q] = req[q]
  BY DEF SmtpSettles, TypeOK, Request
<1>3. \A i \in Invoices : Mailing(i)' = IF i = k THEN Mailing(i) \ {r} ELSE Mailing(i)
  BY <1>2 DEF Mailing
<1>4. k \in Invoices => r \in Mailing(k)
  BY <1>2 DEF Mailing
<1>5. \A i \in Invoices : IsFiniteSet(Mailing(i)) /\ Cardinality(Mailing(i)) \in Nat
  BY FS_CardinalityType DEF AuditInv
<1>6. k \in Invoices => /\ IsFiniteSet(Mailing(k) \ {r})
                        /\ Cardinality(Mailing(k) \ {r}) = Cardinality(Mailing(k)) - 1
  BY <1>4, <1>5, FS_RemoveElement
<1>7. ASSUME NEW i \in Invoices, inv[i].status # "deleted"
      PROVE  delivered[i] + Cardinality(Mailing(i)) <= apRows[i] /\ delivered[i] \in Nat
             /\ apRows[i] \in Nat
  BY <1>7 DEF AuditInv, TypeOK
<1>8. ASSUME NEW i \in Invoices, i # k
      PROVE  Mailing(i)' = Mailing(i) /\ delivered'[i] = delivered[i]
  BY <1>1, <1>3, <1>8
<1>9. ASSUME NEW i \in Invoices, i = k
      PROVE  /\ Mailing(i)' = Mailing(i) \ {r}
             /\ delivered'[i] \in {delivered[i], delivered[i] + 1}
             /\ IsFiniteSet(Mailing(i) \ {r})
             /\ Cardinality(Mailing(i) \ {r}) = Cardinality(Mailing(i)) - 1
  BY <1>1, <1>3, <1>6, <1>9
<1> HIDE DEF k
<1>10. ASSUME NEW i \in Invoices
       PROVE  /\ IsFiniteSet(Mailing(i)')
              /\ inv[i].status # "deleted" =>
                    delivered'[i] + Cardinality(Mailing(i)') <= apRows[i]
  <2>1. CASE i # k
    BY <1>5, <1>7, <1>8, <2>1
  <2>2. CASE i = k
    <3>1. /\ Mailing(i)' = Mailing(i) \ {r} /\ IsFiniteSet(Mailing(i) \ {r})
          /\ Cardinality(Mailing(i) \ {r}) = Cardinality(Mailing(i)) - 1
          /\ delivered'[i] = delivered[i] \/ delivered'[i] = delivered[i] + 1
      BY <1>9, <2>2
    <3>2. Cardinality(Mailing(i)') = Cardinality(Mailing(i)) - 1
      BY <3>1
    <3>3. IsFiniteSet(Mailing(i)')
      BY <3>1
    <3>4. QED
      BY <1>5, <1>7, <3>1, <3>2, <3>3
  <2>3. QED
    BY <2>1, <2>2
<1>11. QED
  BY <1>1, <1>10 DEF AuditInv

LEMMA AuditOutside == ASSUME TypeOK, AuditInv, Outside PROVE AuditInv'
<1>1. \A j \in Invoices : inv'[j].status = inv[j].status
  BY OutsideRows, OutsideFields DEF TypeOK
<1>2. UNCHANGED <<req, apRows, delivered>>
  BY OutsideRows
<1>3. QED
  BY <1>1, <1>2, AuditQuiet

LEMMA AuditNext == TypeOK /\ AuditInv /\ [Next]_vars => AuditInv'
<1> SUFFICES ASSUME TypeOK, AuditInv, [Next]_vars PROVE AuditInv'
    OBVIOUS
<1>1. CASE UNCHANGED <<inv, mail>>
  BY <1>1, AuditQuiet DEF mail
<1>2. ASSUME NEW r \in Requests, NEW u \in Users, NEW i \in Invoices, SendBegin(r, u, i)
      PROVE  AuditInv'
  <2>1. \A j \in Invoices : inv'[j].status = inv[j].status
    BY <1>2 DEF SendBegin, Update, TypeOK, Row
  <2>2. /\ req[r].phase = "idle" /\ req'[r].phase = "pdf"
        /\ \A q \in Requests \ {r} : req'[q] = req[q]
    BY <1>2 DEF SendBegin, Idle, TypeOK
  <2>3. QED
    BY <1>2, <2>1, <2>2, AuditQuiet DEF SendBegin
<1>3. ASSUME NEW r \in Requests, SendPdfFails(r)
      PROVE  AuditInv'
  <2>1. /\ req[r].phase = "pdf" /\ req'[r].phase = "idle"
        /\ \A q \in Requests \ {r} : req'[q] = req[q]
    BY <1>3 DEF SendPdfFails, Finish, Idle, TypeOK
  <2>2. QED
    BY <1>3, <2>1, AuditQuiet DEF SendPdfFails
<1>4. ASSUME NEW r \in Requests, SendComplete(r)
      PROVE  AuditInv'
  <2>1. /\ req[r].phase = "reply" /\ req'[r].phase = "idle"
        /\ \A q \in Requests \ {r} : req'[q] = req[q]
    BY <1>4 DEF SendComplete, Finish, Idle, TypeOK
  <2>2. \A j \in Invoices : inv[j].status = "deleted" => inv'[j].status = "deleted"
    BY <1>4 DEF SendComplete, Update, TypeOK
  <2>3. QED
    BY <1>4, <2>1, <2>2, AuditQuiet DEF SendComplete
<1>5. ASSUME NEW r \in Requests, HandlerStep(r)
      PROVE  AuditInv'
  BY <1>3, <1>4, <1>5, AuditDie, AuditPdfReady, AuditSettles
     DEF HandlerStep, SendPdfOrphaned
<1>6. ASSUME NEW u \in Users, NEW i \in Invoices, VendorDiscard(u, i)
      PROVE  AuditInv'
  BY <1>6, AuditGone DEF VendorDiscard
<1>7. ASSUME NEW u \in Users, NEW S, NEW f, AdminDelete(u, S, f)
      PROVE  AuditInv'
  BY <1>7, AuditGone DEF AdminDelete
<1>8. CASE Crash \/ \E i \in Invoices : UploadOrphaned(i)
  BY <1>8, AuditDie DEF Crash, UploadOrphaned
<1>9. CASE \/ \E m, t \in Users : TeamAdd(m, t) \/ TeamRemove(m, t)
           \/ \E a, u \in Users, q \in Roles : AdminSetRole(a, u, q)
           \/ UNCHANGED vars
  BY <1>1, <1>9 DEF TeamAdd, TeamRemove, AdminSetRole, vars, mail
<1>10. CASE \E u \in Users, i \in Invoices :
               \/ View(u, i) \/ EditContent(u, i) \/ VendorUpdate(u, i)
               \/ Submit(u, i) \/ VendorSubmit(u, i)
               \/ ApproveVendor(u, i) \/ ApproveOps(u, i) \/ ApproveSr(u, i)
               \/ Reject(u, i) \/ Escalate(u, i)
  BY <1>10, AuditRow
<1>11. CASE \E r \in Requests : HandlerStep(r)
  BY <1>11, <1>5
<1>12. CASE Outside
  BY <1>12, AuditOutside
<1>13. QED
  BY <1>2, <1>6, <1>7, <1>8, <1>9, <1>10, <1>11, <1>12 DEF Next, Outside, HandlerStep

\* Every message that reached AP about an existing invoice has a notification
\* row of its own, whatever crashes, SMTP errors and concurrent sends occur.
THEOREM AuditTrail == Spec => []AuditTrailComplete
<1>1. Init => AuditInv
  <2>1. ASSUME Init, NEW i \in Invoices  PROVE Mailing(i) = {}
    BY <2>1 DEF Init, Idle, Mailing
  <2>2. QED
    <3>1. ASSUME Init, NEW i \in Invoices
          PROVE  IsFiniteSet(Mailing(i)) /\ Cardinality(Mailing(i)) = 0
                 /\ delivered[i] = 0 /\ apRows[i] = 0
      BY <2>1, <3>1, FS_EmptySet DEF Init
    <3>2. QED
      BY <3>1 DEF AuditInv
<1>2. TypeOK /\ AuditInv => AuditTrailComplete
  <2>1. ASSUME AuditInv, NEW i \in Invoices  PROVE Cardinality(Mailing(i)) \in Nat
    BY <2>1, FS_CardinalityType DEF AuditInv
  <2>2. QED
    BY <2>1 DEF AuditInv, AuditTrailComplete, TypeOK
<1>3. QED
  BY <1>1, <1>2, InitType, NextType, AuditNext, PTL DEF Spec

-----------------------------------------------------------------------------
(* The refinements: every step of every handler is a step of                *)
(* ApprovalContract, or none at all, under the mapping PhaseOf, and every    *)
(* click on a screen is a step of a handler.                                 *)

\* The state of the contract.
Phase == [i \in Invoices |-> PhaseOf(i)]
Signer == [i \in Invoices |-> inv[i].opsBy]
Handoff == [r \in Requests |-> req[r].inv]

ContractStep == [Contract!Next]_(Contract!vars)

\* How each handler's effect on one row is seen by the contract.
LEMMA RowStep ==
  ASSUME TypeOK, NEW i \in Invoices, NEW row, Update(i, row), UNCHANGED req
  PROVE  /\ \A j \in Invoices \ {i} : PhaseOf(j)' = PhaseOf(j) /\ inv'[j].opsBy = inv[j].opsBy
         /\ inv'[i] = row
         /\ Handoff' = Handoff
  BY DEF Update, TypeOK, PhaseOf, Handoff

LEMMA StutterStep ==
  ASSUME Phase' = Phase, Signer' = Signer, Handoff' = Handoff
  PROVE  ContractStep
  BY DEF ContractStep, Contract!vars, Phase, Signer, Handoff

\* A row whose status and Ops signature stay the same.
LEMMA SameRowStep ==
  ASSUME TypeOK, NEW i \in Invoices, NEW row, Update(i, row), UNCHANGED req,
         row.status = inv[i].status, row.opsBy = inv[i].opsBy
  PROVE  ContractStep
<1>1. \A j \in Invoices : PhaseOf(j)' = PhaseOf(j) /\ inv'[j].opsBy = inv[j].opsBy
  BY RowStep DEF PhaseOf
<1>2. Phase' = Phase /\ Signer' = Signer
  BY <1>1 DEF Phase, Signer
<1>3. QED
  BY <1>2, RowStep, StutterStep

LEMMA FileStep ==
  ASSUME TypeOK, NEW i \in Invoices, NEW row, Update(i, row), UNCHANGED req,
         inv[i].status = "draft", row.status = "submitted", row.opsBy = inv[i].opsBy
  PROVE  ContractStep
<1>1. PhaseOf(i) = "open" /\ PhaseOf(i)' = "review"
  BY RowStep DEF PhaseOf
<1>2. Phase[i] = "open" /\ Phase' = [Phase EXCEPT ![i] = "review"]
  BY <1>1, RowStep DEF Phase
<1>3. Signer' = Signer /\ Handoff' = Handoff
  BY RowStep DEF Signer
<1>4. Contract!File(i)
  BY <1>2, <1>3 DEF Contract!File, Phase, Signer, Handoff
<1>5. QED
  BY <1>4 DEF ContractStep, Contract!Next

\* Cleared by an approval (a new Ops signature), or by a Sr Manager's approval
\* or an escalation (the signature on file stays).
LEMMA ClearStep ==
  ASSUME TypeOK, NEW i \in Invoices, NEW row, Update(i, row), UNCHANGED req,
         inv[i].status = "submitted", row.status \in {"approved_ops", "approved_sr"},
         row.opsBy = inv[i].opsBy \/ row.opsBy \in Users \ {Owner[i]}
  PROVE  ContractStep
<1>1. PhaseOf(i) = "review" /\ PhaseOf(i)' = "cleared"
  BY RowStep DEF PhaseOf
<1>2. Phase[i] = "review" /\ Phase' = [Phase EXCEPT ![i] = "cleared"]
  BY <1>1, RowStep DEF Phase
<1>3. Signer' = [Signer EXCEPT ![i] = row.opsBy] /\ Handoff' = Handoff
  BY RowStep DEF Signer
<1>4. Signer' = Signer \/ \E u \in Users \ {Owner[i]} : Signer' = [Signer EXCEPT ![i] = u]
  BY <1>3 DEF Signer
<1>5. Contract!Clear(i)
  BY <1>2, <1>3, <1>4 DEF Contract!Clear, Phase, Signer, Handoff
<1>6. QED
  BY <1>5 DEF ContractStep, Contract!Next

LEMMA ReturnStep ==
  ASSUME TypeOK, NEW i \in Invoices, NEW row, Update(i, row), UNCHANGED req,
         inv[i].status \in {"submitted", "approved_ops"}, row.status = "draft",
         row.opsBy = inv[i].opsBy
  PROVE  ContractStep
<1>1. PhaseOf(i) \in {"review", "cleared"} /\ PhaseOf(i)' = "open"
  BY RowStep DEF PhaseOf
<1>2. Phase[i] \in {"review", "cleared"} /\ Phase' = [Phase EXCEPT ![i] = "open"]
  BY <1>1, RowStep DEF Phase
<1>3. Signer' = Signer /\ Handoff' = Handoff
  BY RowStep DEF Signer
<1>4. Contract!Return(i)
  BY <1>2, <1>3 DEF Contract!Return, Phase, Signer, Handoff
<1>5. QED
  BY <1>4 DEF ContractStep, Contract!Next

\* Moves between the two approved statuses do not concern the contract.
LEMMA ClearedStep ==
  ASSUME TypeOK, NEW i \in Invoices, NEW row, Update(i, row), UNCHANGED req,
         inv[i].status = "approved_ops", row.status \in {"approved_ops", "approved_sr"},
         row.opsBy = inv[i].opsBy
  PROVE  ContractStep
<1>1. \A j \in Invoices : PhaseOf(j)' = PhaseOf(j) /\ inv'[j].opsBy = inv[j].opsBy
  BY RowStep DEF PhaseOf
<1>2. Phase' = Phase /\ Signer' = Signer
  BY <1>1 DEF Phase, Signer
<1>3. QED
  BY <1>2, RowStep, StutterStep

LEMMA RowHandlerStep ==
  ASSUME TypeOK, NEW u \in Users, NEW i \in Invoices,
         \/ View(u, i) \/ EditContent(u, i) \/ VendorUpdate(u, i)
         \/ Submit(u, i) \/ VendorSubmit(u, i)
         \/ ApproveVendor(u, i) \/ ApproveOps(u, i) \/ ApproveSr(u, i)
         \/ Reject(u, i) \/ Escalate(u, i)
  PROVE  ContractStep
<1>1. inv[i] \in Row /\ UNCHANGED req
  BY DEF TypeOK, View, EditContent, VendorUpdate, Submit, VendorSubmit, ApproveVendor,
     ApproveOps, ApproveSr, Reject, Escalate, mail
<1>2. CASE View(u, i)
  BY <1>1, <1>2, SameRowStep DEF View, Row
<1>3. CASE EditContent(u, i)
  BY <1>1, <1>3, SameRowStep DEF EditContent, Row
<1>4. CASE VendorUpdate(u, i)
  BY <1>1, <1>4, SameRowStep DEF VendorUpdate, Row
<1>5. CASE Submit(u, i) \/ VendorSubmit(u, i)
  BY <1>1, <1>5, FileStep DEF Submit, VendorSubmit, Row
<1>6. CASE ApproveVendor(u, i)
  BY <1>1, <1>6, ClearStep DEF ApproveVendor, Row
<1>7. CASE ApproveOps(u, i)
  BY <1>1, <1>7, ClearStep DEF ApproveOps, Row
<1>8. CASE ApproveSr(u, i)
  BY <1>1, <1>8, ClearedStep DEF ApproveSr, Row
<1>9. CASE Reject(u, i)
  BY <1>1, <1>9, ReturnStep DEF Reject, Row
<1>10. CASE Escalate(u, i)
  BY <1>1, <1>10, ClearStep, ClearedStep DEF Escalate, Row
<1>11. QED
  BY <1>2, <1>3, <1>4, <1>5, <1>6, <1>7, <1>8, <1>9, <1>10

\* Discarding: what was sent has a notification row, so it is never in S.
LEMMA DiscardStep ==
  ASSUME TypeOK, NEW S \in SUBSET Invoices, Gone(S),
         \A i \in S : inv[i].status # "sent_ap"
  PROVE  ContractStep
<1>1. ASSUME NEW i \in Invoices
      PROVE  /\ PhaseOf(i)' = IF i \in S THEN "gone" ELSE PhaseOf(i)
             /\ inv'[i].opsBy = inv[i].opsBy
  BY <1>1 DEF Gone, TypeOK, Row, PhaseOf
<1>2. /\ Phase' = [i \in Invoices |-> IF i \in S THEN "gone" ELSE Phase[i]]
      /\ Signer' = Signer
  BY <1>1 DEF Phase, Signer
<1>3. Handoff' = Handoff
  BY DEF Gone, Handoff
<1>4. \A i \in S : Phase[i] # "sent"
  BY DEF Phase, PhaseOf
<1>5. Contract!Discard(S)
  BY <1>2, <1>3, <1>4 DEF Contract!Discard, Phase, Signer, Handoff
<1>6. QED
  BY <1>5 DEF ContractStep, Contract!Next

LEMMA AuthoriseStep ==
  ASSUME TypeOK, NEW r \in Requests, NEW u \in Users, NEW i \in Invoices, SendBegin(r, u, i)
  PROVE  ContractStep
<1>1. \A j \in Invoices : inv'[j].status = inv[j].status /\ inv'[j].opsBy = inv[j].opsBy
  BY DEF SendBegin, Update, TypeOK, Row
<1>2. Phase' = Phase /\ Signer' = Signer
  BY <1>1 DEF Phase, PhaseOf, Signer
<1>3. Handoff[r] = NoInvoice /\ Handoff' = [Handoff EXCEPT ![r] = i]
  <2>1. req[r].inv = NoInvoice
    BY DEF SendBegin, Idle
  <2>2. /\ req'[r].inv = i
        /\ \A q \in Requests \ {r} : req'[q] = req[q]
    BY DEF SendBegin, TypeOK
  <2>3. QED
    BY <2>1, <2>2 DEF Handoff
<1>4. Phase[i] \in {"cleared", "sent"} /\ Signer[i] # NoUser
  BY DEF SendBegin, MaySend, Sendable, Phase, PhaseOf, Signer
<1>5. Contract!Authorise(r, i)
  BY <1>2, <1>3, <1>4 DEF Contract!Authorise, Phase, Signer, Handoff
<1>6. QED
  BY <1>5 DEF ContractStep, Contract!Next

\* Handlers that give up, one at a time or all of them when the process dies.
LEMMA AbandonStep ==
  ASSUME TypeOK, NEW S \in SUBSET Requests, UNCHANGED inv,
         req' = [r \in Requests |-> IF r \in S THEN Idle ELSE req[r]]
  PROVE  ContractStep
<1>1. Phase' = Phase /\ Signer' = Signer
  BY DEF Phase, PhaseOf, Signer
<1>2. Handoff' = [r \in Requests |-> IF r \in S THEN NoInvoice ELSE Handoff[r]]
  BY DEF Handoff, Idle
<1>3. Contract!Abandon(S)
  BY <1>1, <1>2 DEF Contract!Abandon, Phase, Signer, Handoff
<1>4. QED
  BY <1>3 DEF ContractStep, Contract!Next

LEMMA HandlerSteps ==
  ASSUME TypeOK, LoggedInv, NEW r \in Requests, HandlerStep(r)
  PROVE  ContractStep
<1>1. CASE SendPdfFails(r)
  <2>1. req' = [q \in Requests |-> IF q \in {r} THEN Idle ELSE req[q]]
    BY <1>1 DEF SendPdfFails, Finish, TypeOK
  <2>2. QED
    BY <1>1, <2>1, AbandonStep DEF SendPdfFails
<1>2. CASE SendPdfOrphaned(r)
  <2>1. req' = [q \in Requests |-> IF q \in Requests THEN Idle ELSE req[q]]
    BY <1>2 DEF SendPdfOrphaned, Die
  <2>2. QED
    BY <1>2, <2>1, AbandonStep DEF SendPdfOrphaned, Die
<1>3. CASE SendPdfReady(r) \/ SmtpSettles(r)
  <2>1. UNCHANGED inv /\ \A q \in Requests : req'[q].inv = req[q].inv
    BY <1>3 DEF SendPdfReady, SmtpSettles, TypeOK, Request
  <2>2. Phase' = Phase /\ Signer' = Signer /\ Handoff' = Handoff
    BY <2>1 DEF Phase, PhaseOf, Signer, Handoff
  <2>3. QED
    BY <2>2, StutterStep
<1>4. CASE SendComplete(r)
  <2> DEFINE i == req[r].inv
             row == [inv[i] EXCEPT !.status = "sent_ap", !.sentBy = req[r].by,
                                   !.sentVer = req[r].ver, !.changed = FALSE]
  <2>1. i \in Invoices /\ i # NoInvoice
    BY <1>4, ConstantsOK DEF ConstantsOK, SendComplete, LoggedInv
  <2>2. row.status = "sent_ap" /\ row.opsBy = inv[i].opsBy
    BY <2>1 DEF TypeOK, Row
  <2>3. inv[i].status = "deleted" => UNCHANGED inv
    BY <1>4 DEF SendComplete
  <2>4. inv[i].status # "deleted" =>
           \A j \in Invoices : inv'[j] = IF j = i THEN row ELSE inv[j]
    BY <1>4 DEF SendComplete, Update, TypeOK
  <2>5. req' = [req EXCEPT ![r] = Idle]
    BY <1>4 DEF SendComplete, Finish
  <2>6. Handoff[r] = i /\ Handoff' = [Handoff EXCEPT ![r] = NoInvoice]
    BY <2>5 DEF Handoff, Idle, TypeOK
  <2> HIDE DEF i, row
  <2>7. Signer' = Signer
    BY <2>2, <2>3, <2>4 DEF Signer
  <2>8. Phase' = IF Phase[i] = "gone" THEN Phase ELSE [Phase EXCEPT ![i] = "sent"]
    BY <2>1, <2>2, <2>3, <2>4 DEF Phase, PhaseOf
  <2>9. Contract!HandOff(r)
    BY <2>1, <2>6, <2>7, <2>8 DEF Contract!HandOff, Phase, Signer, Handoff
  <2>10. QED
    BY <2>9 DEF ContractStep, Contract!Next
<1>5. QED
  BY <1>1, <1>2, <1>3, <1>4 DEF HandlerStep

LEMMA OutsideStep == ASSUME TypeOK, Outside PROVE ContractStep
<1>1. \A j \in Invoices : inv'[j].status = inv[j].status /\ inv'[j].opsBy = inv[j].opsBy
  BY OutsideRows, OutsideFields DEF TypeOK
<1>2. Phase' = Phase /\ Signer' = Signer
  BY <1>1 DEF Phase, PhaseOf, Signer
<1>3. Handoff' = Handoff
  BY OutsideRows DEF Handoff
<1>4. QED
  BY <1>2, <1>3, StutterStep

LEMMA NextRefines == TypeOK /\ LoggedInv /\ [Next]_vars => ContractStep
<1> SUFFICES ASSUME TypeOK, LoggedInv, [Next]_vars PROVE ContractStep
    OBVIOUS
<1>1. CASE UNCHANGED <<inv, req>>
  BY <1>1, StutterStep DEF Phase, PhaseOf, Signer, Handoff
<1>2. ASSUME NEW u \in Users, NEW i \in Invoices, VendorDiscard(u, i)
      PROVE  ContractStep
  BY <1>2, DiscardStep DEF VendorDiscard
<1>3. ASSUME NEW u \in Users, NEW S \in SUBSET Invoices, NEW f \in BOOLEAN, AdminDelete(u, S, f)
      PROVE  ContractStep
  BY <1>3, DiscardStep DEF AdminDelete, LoggedInv
<1>4. CASE Crash \/ \E i \in Invoices : UploadOrphaned(i)
  BY <1>4, AbandonStep DEF Crash, UploadOrphaned, Die
<1>5. CASE Outside
  BY <1>5, OutsideStep
<1>6. QED
  BY <1>1, <1>2, <1>3, <1>4, <1>5, RowHandlerStep, AuthoriseStep, HandlerSteps
     DEF Next, Outside, vars, TeamAdd, TeamRemove, AdminSetRole, HandlerStep, mail

LEMMA InitRefines == Init => Contract!Init
  BY DEF Init, NewRow, Idle, PhaseOf, Contract!Init

\* The approval chain implements its contract: whatever the handlers do, in
\* whatever order, every invoice is filed, cleared, returned, handed off and
\* discarded only as ApprovalContract allows.
THEOREM Refinement == Spec => ImplementsContract
  BY LoggedInit, InitType, NextType, LoggedNext, InitRefines, NextRefines, PTL
     DEF Spec, ImplementsContract, Contract!Spec, ContractStep

(* The screens implement the handlers, and what the screens alone promise.  *)

\* What a window shows is an invoice, before some user.
WindowsOK == \A w \in Windows : win[w] # Elsewhere => win[w].user \in Users /\ win[w].inv \in Invoices

\* On the screens only a Sr Manager or PM decides a vendor invoice, so that
\* none is ever approved as an Ops Manager approves.
VendorSkipsOps == \A i \in Vendor : inv[i].status # "approved_ops"

ScreenInv == TypeOK /\ win \in [Windows -> Shown \union {Elsewhere}] /\ WindowsOK /\ VendorSkipsOps

LEMMA ScreenStep == WindowsOK /\ [ScreensNext]_screenVars => [Next]_vars
<1> SUFFICES ASSUME WindowsOK, [ScreensNext]_screenVars PROVE [Next]_vars
    OBVIOUS
<1>1. CASE UNCHANGED screenVars
  BY <1>1 DEF screenVars
<1>2. ASSUME NEW w \in Windows, NEW u \in Users, NEW i \in Invoices, Open(w, u, i) \/ OpenAsProxy(w, u, i)
      PROVE  Next
  BY <1>2 DEF Open, OpenAsProxy, Next
<1>3. ASSUME NEW w \in Windows, Leave(w) \/ OpenSheet(w)
      PROVE  [Next]_vars
  BY <1>3 DEF Leave, OpenSheet, Next, WindowsOK
<1>4. ASSUME NEW w \in Windows, NEW b, Click(w, b)
      PROVE  Next
  BY <1>4 DEF Click, Handle, Next, WindowsOK
<1>5. ASSUME NEW w \in Windows, NEW r \in Requests, ConfirmSend(w, r)
      PROVE  Next
  BY <1>5 DEF ConfirmSend, Next, WindowsOK
<1>6. CASE Server
  BY <1>6 DEF Server, HandlerStep, Next
<1>7. QED
  BY <1>1, <1>2, <1>3, <1>4, <1>5, <1>6 DEF ScreensNext

\* A window shows what was fetched for it, until it is left.
LEMMA WindowStep ==
  TypeOK /\ win \in [Windows -> Shown \union {Elsewhere}] /\ WindowsOK /\ [ScreensNext]_screenVars
    => (win \in [Windows -> Shown \union {Elsewhere}] /\ WindowsOK)'
<1> SUFFICES ASSUME TypeOK, win \in [Windows -> Shown \union {Elsewhere}], WindowsOK,
                    [ScreensNext]_screenVars
             PROVE  (win \in [Windows -> Shown \union {Elsewhere}] /\ WindowsOK)'
    OBVIOUS
<1>0. TypeOK'
  BY ScreenStep, NextType
<1>1. CASE UNCHANGED win
  BY <1>1 DEF WindowsOK
<1>2. ASSUME NEW i \in Invoices PROVE CopyOf(i)' \in Copy
  BY <1>0 DEF CopyOf, Copy, TypeOK, Row
<1>3. ASSUME NEW w \in Windows, NEW x, win' = [win EXCEPT ![w] = x],
             x = Elsewhere \/ (x \in Shown /\ x.user \in Users /\ x.inv \in Invoices)
      PROVE  (win \in [Windows -> Shown \union {Elsewhere}] /\ WindowsOK)'
  BY <1>3 DEF WindowsOK
<1>4. ASSUME NEW w \in Windows, NEW u \in Users, NEW i \in Invoices, Open(w, u, i) \/ OpenAsProxy(w, u, i)
      PROVE  (win \in [Windows -> Shown \union {Elsewhere}] /\ WindowsOK)'
  <2>1. ASSUME NEW p \in BOOLEAN
        PROVE  [user |-> u, inv |-> i, seen |-> CopyOf(i)', proxy |-> p, sheet |-> "none"] \in Shown
    BY <1>2 DEF Shown
  <2>2. PICK p \in BOOLEAN :
           win' = [win EXCEPT ![w] = [user |-> u, inv |-> i, seen |-> CopyOf(i)',
                                      proxy |-> p, sheet |-> "none"]]
    BY <1>4 DEF Open, OpenAsProxy
  <2> DEFINE x == [user |-> u, inv |-> i, seen |-> CopyOf(i)', proxy |-> p, sheet |-> "none"]
  <2>3. x \in Shown /\ x.user \in Users /\ x.inv \in Invoices
    BY <2>1
  <2> HIDE DEF x
  <2>4. QED
    BY <1>3, <2>2, <2>3 DEF x
<1>5. ASSUME NEW w \in Windows, Leave(w) \/ (\E r \in Requests : ConfirmSend(w, r))
      PROVE  (win \in [Windows -> Shown \union {Elsewhere}] /\ WindowsOK)'
  BY <1>3, <1>5 DEF Leave, ConfirmSend
<1>6. ASSUME NEW w \in Windows, win[w] # Elsewhere
      PROVE  win[w] \in Shown /\ win[w].user \in Users /\ win[w].inv \in Invoices
  BY <1>6 DEF WindowsOK
<1>7. ASSUME NEW w \in Windows, OpenSheet(w)
      PROVE  (win \in [Windows -> Shown \union {Elsewhere}] /\ WindowsOK)'
  <2>1. PICK sheet \in {"enabled", "disabled"} : win' = [win EXCEPT ![w].sheet = sheet]
    BY <1>7 DEF OpenSheet
  <2> DEFINE x == [win[w] EXCEPT !.sheet = sheet]
  <2>2. win[w] \in Shown /\ win[w].user \in Users /\ win[w].inv \in Invoices
    BY <1>6, <1>7 DEF OpenSheet
  <2>3. x \in Shown /\ x.user \in Users /\ x.inv \in Invoices
    BY <2>2 DEF Shown
  <2>4. win' = [win EXCEPT ![w] = x]
    BY <2>1
  <2> HIDE DEF x
  <2>5. QED
    BY <1>3, <2>3, <2>4
<1>8. ASSUME NEW w \in Windows, NEW b, Click(w, b)
      PROVE  (win \in [Windows -> Shown \union {Elsewhere}] /\ WindowsOK)'
  <2>1. win[w] \in Shown /\ win[w].user \in Users /\ win[w].inv \in Invoices
    BY <1>6, <1>8 DEF Click
  <2>2. PICK i \in Invoices :
           win' = [win EXCEPT ![w] = IF b = "vendorEdit" THEN [win[w] EXCEPT !.seen = CopyOf(i)']
                                     ELSE Elsewhere]
    BY <1>8, <2>1 DEF Click
  <2> DEFINE x == [win[w] EXCEPT !.seen = CopyOf(i)']
  <2>3. x \in Shown /\ x.user \in Users /\ x.inv \in Invoices
    BY <1>2, <2>1 DEF Shown
  <2>4. win' = [win EXCEPT ![w] = IF b = "vendorEdit" THEN x ELSE Elsewhere]
    BY <2>2
  <2> HIDE DEF x
  <2>5. QED
    BY <1>3, <2>3, <2>4
<1>9. QED
  BY <1>1, <1>4, <1>5, <1>7, <1>8 DEF ScreensNext, Server, screenVars

\* Which decisions a window offers.
LEMMA DecisionOffered ==
  ASSUME NEW u, NEW i, NEW seen, NEW proxy,
         NEW b \in {"approve", "reject", "escalate"}, b \in Buttons(u, i, seen, proxy)
  PROVE  /\ i \in Vendor => role[u] \in Admins /\ b # "escalate"
         /\ i \notin Vendor /\ seen.status = "submitted" => role[u] = "ops_manager"
<1>1. b \in DecisionButtons(u, i, seen)
  BY DEF Buttons, DraftButtons, VendorDraftButtons, SendButtons
<1>2. CASE i \in Vendor
  BY <1>1, <1>2 DEF DecisionButtons
<1>3. CASE i \notin Vendor
  BY <1>1, <1>3 DEF DecisionButtons
<1>4. QED
  BY <1>2, <1>3

LEMMA VendorStep ==
  TypeOK /\ WindowsOK /\ VendorSkipsOps /\ [ScreensNext]_screenVars => VendorSkipsOps'
<1> SUFFICES ASSUME TypeOK, WindowsOK, VendorSkipsOps, [ScreensNext]_screenVars
             PROVE  VendorSkipsOps'
    OBVIOUS
<1>1. CASE UNCHANGED inv
  BY <1>1 DEF VendorSkipsOps
<1>2. ASSUME NEW i \in Invoices, NEW row, Update(i, row),
             i \in Vendor => row.status # "approved_ops"
      PROVE  VendorSkipsOps'
  BY <1>2 DEF Update, VendorSkipsOps, TypeOK
<1>3. ASSUME NEW u, NEW i \in Invoices, View(u, i)
      PROVE  VendorSkipsOps'
  <2>1. [inv[i] EXCEPT !.changed = Touched(i)].status = inv[i].status
    BY DEF TypeOK, Row
  <2>2. QED
    BY <1>2, <1>3, <2>1 DEF View, VendorSkipsOps
<1>4. ASSUME NEW i \in Invoices, Gone({i})
      PROVE  VendorSkipsOps'
  <2>1. \A j \in Invoices : inv'[j].status \in {inv[j].status, "deleted"}
    BY <1>4 DEF Gone, TypeOK, Row
  <2>2. QED
    BY <2>1, ConstantsOK DEF VendorSkipsOps, ConstantsOK
<1>5. ASSUME NEW w \in Windows, NEW b, Click(w, b)
      PROVE  VendorSkipsOps'
  <2> DEFINE u == win[w].user
             i == win[w].inv
  <2>1. i \in Invoices /\ inv[i] \in Row /\ Handle(b, u, i) /\ b \in Buttons(u, i, win[w].seen, win[w].proxy)
    BY <1>5 DEF Click, WindowsOK, TypeOK
  <2> HIDE DEF u, i
  <2>2. CASE b = "submit"
    BY <1>2, <2>1, <2>2 DEF Handle, Submit, Row
  <2>3. CASE b = "vendorEdit"
    BY <1>2, <2>1, <2>3 DEF Handle, VendorUpdate, Row
  <2>4. CASE b = "vendorSubmit"
    BY <1>2, <2>1, <2>4 DEF Handle, VendorSubmit, Row
  <2>5. CASE b = "vendorDiscard"
    BY <1>4, <2>1, <2>5 DEF Handle, VendorDiscard
  <2>6. CASE b = "reject"
    BY <1>2, <2>1, <2>6 DEF Handle, Reject, Row
  <2>7. CASE b \in {"approve", "escalate"}
    <3>1. i \in Vendor => role[u] \in Admins /\ b # "escalate"
      BY <2>1, <2>7, DecisionOffered
    <3>2. CASE ApproveVendor(u, i)
      BY <1>2, <2>1, <3>1, <3>2 DEF ApproveVendor, Row
    <3>3. CASE ApproveOps(u, i) \/ ApproveSr(u, i)
      BY <1>2, <2>1, <3>3 DEF ApproveOps, ApproveSr, Row
    <3>4. CASE b = "escalate"
      BY <1>2, <2>1, <3>1, <3>4 DEF Handle, Escalate, Row
    <3>5. QED
      BY <2>1, <2>7, <3>2, <3>3, <3>4 DEF Handle
  <2>8. QED
    BY <2>1, <2>2, <2>3, <2>4, <2>5, <2>6, <2>7 DEF Handle
<1>6. ASSUME NEW w \in Windows, NEW r \in Requests, ConfirmSend(w, r)
      PROVE  VendorSkipsOps'
  <2> DEFINE i == win[w].inv
  <2>1. i \in Invoices /\ inv[i] \in Row /\ Update(i, [inv[i] EXCEPT !.changed = Touched(i)])
    BY <1>6 DEF ConfirmSend, SendBegin, WindowsOK, TypeOK
  <2>2. [inv[i] EXCEPT !.changed = Touched(i)].status = inv[i].status
    BY <2>1 DEF Row
  <2> HIDE DEF i
  <2>3. QED
    BY <1>2, <2>1, <2>2 DEF VendorSkipsOps
<1>7. ASSUME NEW r \in Requests, HandlerStep(r)
      PROVE  VendorSkipsOps'
  <2>1. CASE SendComplete(r)
    <3> DEFINE i == req[r].inv
               row == [inv[i] EXCEPT !.status = "sent_ap", !.sentBy = req[r].by,
                                     !.sentVer = req[r].ver, !.changed = FALSE]
    <3>1. UNCHANGED inv \/ Update(i, row)
      BY <2>1 DEF SendComplete
    <3>2. CASE i \in Invoices
      <4>1. row.status = "sent_ap"
        BY <3>2 DEF TypeOK, Row
      <4> HIDE DEF i, row
      <4>2. QED
        BY <1>1, <1>2, <3>1, <3>2, <4>1
    <3>3. CASE i \notin Invoices
      BY <1>1, <3>1, <3>3 DEF Update, TypeOK
    <3>4. QED
      BY <3>2, <3>3
  <2>2. QED
    BY <1>1, <1>7, <2>1 DEF HandlerStep, SendPdfFails, SendPdfReady, SendPdfOrphaned, Die, SmtpSettles
<1>8. ASSUME NEW w \in Windows, OpenSheet(w)
      PROVE  VendorSkipsOps'
  BY <1>3, <1>8 DEF OpenSheet, WindowsOK
<1>9. QED
  BY <1>1, <1>3, <1>5, <1>6, <1>7, <1>8
     DEF ScreensNext, Open, OpenAsProxy, Leave, Server, TeamAdd, TeamRemove, screenVars, vars

LEMMA ScreensStart == ScreensInit => ScreenInv
<1> SUFFICES ASSUME ScreensInit PROVE ScreenInv
    OBVIOUS
<1>1. TypeOK
  BY InitType DEF ScreensInit
<1>2. win \in [Windows -> Shown \union {Elsewhere}] /\ WindowsOK
  BY DEF ScreensInit, WindowsOK
<1>3. \A i \in Invoices : inv[i].status = "draft"
  BY DEF ScreensInit, Init, NewRow
<1>4. VendorSkipsOps
  BY <1>3, ConstantsOK DEF VendorSkipsOps, ConstantsOK
<1>5. QED
  BY <1>1, <1>2, <1>4 DEF ScreenInv

\* On any number of windows, however stale, no click takes back an approval
\* that another manager gave after the window was opened.
THEOREM StaleScreensHarmless == ScreensSpec => ApprovalStands
<1>1. ScreensInit => ScreenInv
  BY ScreensStart
<1>2. ScreenInv /\ [ScreensNext]_screenVars => ScreenInv'
  BY ScreenStep, NextType, WindowStep, VendorStep DEF ScreenInv
<1>3. ScreenInv /\ [ScreensNext]_screenVars =>
        [\A w \in Windows, b \in {"reject", "approve", "escalate"} :
          win[w] # Elsewhere /\ Click(w, b) =>
              LET i == win[w].inv IN
              /\ win[w].seen.status = "submitted" /\ inv[i].status = "approved_ops"
              /\ inv'[i].status # "approved_ops"
              => inv[i].opsBy = win[w].user]_screenVars
  <2> SUFFICES ASSUME ScreenInv, NEW w \in Windows, NEW b \in {"reject", "approve", "escalate"},
                      win[w] # Elsewhere, Click(w, b), win[w].seen.status = "submitted",
                      inv[win[w].inv].status = "approved_ops",
                      inv'[win[w].inv].status # "approved_ops"
               PROVE  inv[win[w].inv].opsBy = win[w].user
    OBVIOUS
  <2> DEFINE u == win[w].user
             i == win[w].inv
  <2>1. i \in Invoices /\ inv[i] \in Row /\ Handle(b, u, i) /\ b \in Buttons(u, i, win[w].seen, win[w].proxy)
    BY DEF Click, ScreenInv, WindowsOK, TypeOK
  <2>2. i \notin Vendor
    BY DEF ScreenInv, VendorSkipsOps
  <2>3. inv[i].status = "approved_ops" /\ inv'[i].status # "approved_ops" /\ win[w].seen.status = "submitted"
    OBVIOUS
  <2> HIDE DEF u, i
  <2>4. role[u] = "ops_manager"
    BY <2>1, <2>2, <2>3, DecisionOffered
  <2>5. CASE b = "reject"
    BY <2>1, <2>3, <2>4, <2>5 DEF Handle, Reject, Admins, u, i
  <2>6. CASE b = "approve"
    BY <2>1, <2>3, <2>4, <2>6 DEF Handle, ApproveVendor, ApproveOps, ApproveSr, Admins
  <2>7. CASE b = "escalate"
    <3>1. Update(i, [inv[i] EXCEPT !.status = "approved_ops", !.escBy = u,
                               !.reviewedVer = inv[i].version, !.late = 0])
      BY <2>1, <2>7 DEF Handle, Escalate
    <3>2. inv'[i].status = "approved_ops"
      BY <2>1, <3>1 DEF Update, ScreenInv, TypeOK, Row
    <3>3. QED
      BY <2>3, <3>2
  <2>8. QED
    BY <2>5, <2>6, <2>7 DEF u, i
<1>4. QED
  BY <1>1, <1>2, <1>3, PTL DEF ScreensSpec, ApprovalStands

\* What people do on the screens, the handlers allow: the screens add windows
\* to the chain and take nothing from it, so that every theorem about the
\* chain is one about the screens.
THEOREM ScreensImplement == ScreensSpec => Spec
<1>1. ScreensInit => ScreenInv /\ Init
  BY ScreensStart DEF ScreensInit
<1>2. ScreenInv /\ [ScreensNext]_screenVars => ScreenInv' /\ [Next]_vars
  BY ScreenStep, NextType, WindowStep, VendorStep DEF ScreenInv
<1>3. QED
  BY <1>1, <1>2, PTL DEF ScreensSpec, Spec
=============================================================================
