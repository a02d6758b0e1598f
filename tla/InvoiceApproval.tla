--------------------------- MODULE InvoiceApproval ---------------------------
(***************************************************************************)
(* The approval chain of an invoice and its hand-off to Accounts Payable   *)
(* (routes/approvals.js and the submit, vendor and send-to-ap handlers of  *)
(* routes/invoices.js).                                                    *)
(*                                                                         *)
(* The database is synchronous and the process single-threaded, so every   *)
(* handler is one atomic step, except POST /send-to-ap, which awaits twice *)
(* (PDF generation, then SMTP), and POST /upload, which awaits the PDF     *)
(* parser.  The first is a request that lives in `req` and advances in     *)
(* four steps, the second an invoice in `parsing`; anything else may run   *)
(* between.                                                                *)
(*                                                                         *)
(* A definition commented "Fault:" is a deliberately wrong variant of the  *)
(* one after it.  It is used by no action here; put in the place of the    *)
(* right one it must make a property fail (README, "Faults").              *)
(***************************************************************************)
EXTENDS Naturals, FiniteSets

CONSTANTS
    Users,          \* user ids
    Invoices,       \* invoice ids; AUTOINCREMENT, never reused
    Requests,       \* slots for send-to-ap requests in flight at one time
    Vendor,         \* the invoices with invoice_type = 'vendor'; the others are 'tech_labor'
    Owner,          \* user_id of each invoice; a vendor invoice has created_by = user_id
    RoleChoices,    \* the roles an administrator may give each user
    NoUser, NoInvoice,
    MaxVersion,     \* bound: content edits of an invoice
    MaxSends,       \* bound: send-to-ap requests started for an invoice
    AllowCrash      \* whether the host may kill the process (fly.io restart)

Roles == {"technician", "ops_manager", "sr_manager", "pm"}
Managers == {"ops_manager", "sr_manager", "pm"}
Admins == {"sr_manager", "pm"}

\* 'in_review', 'queued_ap' and 'rejected' are in the CHECK constraint but no
\* statement of the program writes them.  "deleted" is a row that is gone.
Statuses == {"draft", "submitted", "approved_ops", "approved_sr", "sent_ap", "deleted"}
Sendable == {"approved_ops", "approved_sr", "sent_ap"}
Protected == {"approved_ops", "approved_sr", "sent_ap"}

ASSUME ConstantsOK ==
    /\ Vendor \subseteq Invoices
    /\ Owner \in [Invoices -> Users]
    /\ RoleChoices \in [Users -> SUBSET Roles]
    /\ NoUser \notin Users
    /\ NoInvoice \notin Invoices
    /\ MaxVersion \in Nat \ {0}
    /\ MaxSends \in Nat
    /\ AllowCrash \in BOOLEAN

VARIABLES
    role,       \* users.role
    team,       \* manager_team: <<manager, technician>> pairs
    inv,        \* the invoices table
    req,        \* send-to-ap handlers suspended at an await
    attempts,   \* send-to-ap requests started, per invoice (for the bound)
    apRows,     \* 'invoice_to_ap' rows in notifications, per invoice
    delivered,  \* messages the SMTP server accepted, per invoice
    parsing,    \* invoices whose upload awaits the parser of its PDF
    crashed     \* whether the process has ever died

vars == <<role, team, inv, req, attempts, apRows, delivered, parsing, crashed>>
org == <<role, team>>
mail == <<req, attempts, apRows, delivered, parsing, crashed>>

UserOrNone == Users \union {NoUser}
Versions == 1..MaxVersion

\* The columns that guards read.  `version` counts the changes of the header
\* and the lines, reviewedVer is its value when somebody last let the invoice
\* pass, by an approval or an escalation (0: never), late counts the changes
\* since then that came from outside the chain (imports).
\* complete is "required vendor fields present, total > 0 and vendor on the
\* master list", changed is "updated_at > sent_to_ap_at".
Row == [status : Statuses, version : Versions, reviewedVer : 0..MaxVersion, late : Nat,
        complete : BOOLEAN, opsBy : UserOrNone, srBy : UserOrNone,
        escBy : UserOrNone, sentBy : UserOrNone, sentVer : 0..MaxVersion,
        changed : BOOLEAN]

NewRow(c) == [status |-> "draft", version |-> 1, reviewedVer |-> 0, late |-> 0,
              complete |-> c, opsBy |-> NoUser, srBy |-> NoUser,
              escBy |-> NoUser, sentBy |-> NoUser, sentVer |-> 0,
              changed |-> FALSE]

\* A suspended handler: where it waits, its invoice and caller, the content
\* version captured for the PDF and what sendMail returned.
Phases == {"idle", "pdf", "smtp", "reply"}
Outcomes == {"none", "sent", "failed", "logged"}
Request == [phase : Phases, inv : Invoices \union {NoInvoice}, by : UserOrNone,
            ver : 0..MaxVersion, outcome : Outcomes]
Idle == [phase |-> "idle", inv |-> NoInvoice, by |-> NoUser, ver |-> 0,
         outcome |-> "none"]

TypeOK ==
    /\ role \in [Users -> Roles]
    /\ team \subseteq Users \X Users
    /\ inv \in [Invoices -> Row]
    /\ req \in [Requests -> Request]
    /\ attempts \in [Invoices -> Nat]
    /\ apRows \in [Invoices -> Nat]
    /\ delivered \in [Invoices -> Nat]
    /\ parsing \subseteq Invoices \ Vendor
    /\ crashed \in BOOLEAN

\* Drafts exist; the uploader of a vendor invoice is a manager.  The payee of a
\* tech-labor one need not be a technician: logging a line mints a draft for
\* any user (DraftBilling), but only a technician's is uploaded.
Init ==
    /\ role \in [Users -> Roles]
    /\ \A u \in Users : role[u] \in RoleChoices[u]
    /\ \A i \in Vendor : role[Owner[i]] \in Managers
    /\ team = {}
    /\ inv \in [Invoices -> {NewRow(TRUE), NewRow(FALSE)}]
    /\ \A i \in Invoices \ Vendor : inv[i].complete
    /\ req = [r \in Requests |-> Idle]
    /\ attempts = [i \in Invoices |-> 0]
    /\ apRows = [i \in Invoices |-> 0]
    /\ delivered = [i \in Invoices |-> 0]
    /\ parsing \in SUBSET {i \in Invoices \ Vendor : role[Owner[i]] = "technician"}
    /\ crashed = FALSE

\* UPDATE invoices SET ... WHERE id = i
Update(i, row) == inv' = [inv EXCEPT ![i] = row]

-----------------------------------------------------------------------------
(* Users and teams *)

OnTeam(m, t) == <<m, t>> \in team

TeamAdd(m, t) ==
    /\ role[m] \in {"ops_manager", "pm"}
    /\ role[t] = "technician"
    /\ team' = team \union {<<m, t>>}
    /\ UNCHANGED <<role, inv, mail>>

TeamRemove(m, t) ==
    /\ role[m] \in {"ops_manager", "pm"}
    /\ team' = team \ {<<m, t>>}
    /\ UNCHANGED <<role, inv, mail>>

\* PATCH /admin/users/:id with a role: manager_team and the invoices the user
\* owns or approved are left as they are.  The last administrator cannot be
\* demoted (nor can one demote oneself).
AdminSetRole(a, u, r) ==
    /\ role[a] \in Admins
    /\ r \in RoleChoices[u]
    /\ r \notin Admins =>
          /\ u # a
          /\ role[u] \in Admins => \E w \in Users \ {u} : role[w] \in Admins
    /\ role' = [role EXCEPT ![u] = r]
    /\ UNCHANGED <<team, inv, mail>>

-----------------------------------------------------------------------------
(* Editing and submitting *)

\* computeInvoice writes updated_at of every tech-labor invoice it is asked
\* for.  Only the resend guard reads it, and only on a sent invoice.
Touched(i) == IF i \notin Vendor /\ inv[i].status = "sent_ap"
              THEN TRUE ELSE inv[i].changed

CanActOnInvoice(u, i) == u = Owner[i] \/ role[u] \in Managers

\* GET /invoices/:id recomputes, so looking at a sent invoice marks it changed.
View(u, i) ==
    /\ inv[i].status # "deleted"
    /\ CanActOnInvoice(u, i)
    /\ Update(i, [inv[i] EXCEPT !.changed = Touched(i)])
    /\ UNCHANGED <<org, mail>>

\* Fault: managers may go on editing after the Ops approval.
EditContentApproved(u, i) ==
    /\ inv[i].status \in {"draft", "submitted", "approved_ops"}
    /\ role[u] \in Managers \/ (inv[i].status = "draft" /\ u = Owner[i])
    /\ inv[i].version < MaxVersion
    /\ Update(i, [inv[i] EXCEPT !.version = @ + 1])
    /\ UNCHANGED <<org, mail>>

\* PATCH of a line item or PUT of the header: anyone who may act on a draft,
\* only a manager once submitted (PUT excludes the owner, PATCH does not
\* exclude an owner who is a Sr Manager or PM), nobody after approval.
EditContent(u, i) ==
    /\ \/ inv[i].status = "draft" /\ CanActOnInvoice(u, i)
       \/ /\ inv[i].status = "submitted"
          /\ \/ role[u] \in Admins
             \/ role[u] = "ops_manager" /\ u # Owner[i]
    /\ inv[i].version < MaxVersion
    /\ Update(i, [inv[i] EXCEPT !.version = @ + 1])
    /\ UNCHANGED <<org, mail>>

\* PATCH /vendor-update: the only handler that completes (or, by clearing a
\* required field, uncompletes) a vendor draft.
VendorUpdate(u, i) ==
    /\ i \in Vendor /\ inv[i].status = "draft"
    /\ role[u] \in Managers
    /\ role[u] = "ops_manager" => u = Owner[i]
    /\ inv[i].version < MaxVersion
    /\ \E c \in BOOLEAN :
          Update(i, [inv[i] EXCEPT !.version = @ + 1, !.complete = c])
    /\ UNCHANGED <<org, mail>>

\* POST /submit does not look at invoice_type.  The policy checks a manager
\* meets may refuse the call; a refused call changes nothing.
Submit(u, i) ==
    /\ inv[i].status = "draft"
    /\ \/ u = Owner[i]
       \/ role[u] \in Admins
       \/ role[u] = "ops_manager" /\ OnTeam(u, Owner[i])
    /\ Update(i, [inv[i] EXCEPT !.status = "submitted"])
    /\ UNCHANGED <<org, mail>>

VendorSubmit(u, i) ==
    /\ i \in Vendor /\ inv[i].status = "draft"
    /\ role[u] \in Managers
    /\ role[u] = "ops_manager" => u = Owner[i]
    /\ inv[i].complete
    /\ Update(i, [inv[i] EXCEPT !.status = "submitted"])
    /\ UNCHANGED <<org, mail>>

-----------------------------------------------------------------------------
(* Deciding *)

ApproveVendor(u, i) ==
    /\ i \in Vendor /\ inv[i].status = "submitted"
    /\ role[u] \in Managers /\ u # Owner[i]
    /\ IF role[u] \in Admins
       THEN Update(i, [inv[i] EXCEPT !.status = "approved_sr", !.srBy = u,
                                     !.reviewedVer = inv[i].version, !.late = 0])
       ELSE Update(i, [inv[i] EXCEPT !.status = "approved_ops", !.opsBy = u,
                                     !.reviewedVer = inv[i].version, !.late = 0])
    /\ UNCHANGED <<org, mail>>

ApproveOps(u, i) ==
    /\ i \notin Vendor /\ inv[i].status = "submitted"
    /\ role[u] = "ops_manager" /\ OnTeam(u, Owner[i]) /\ u # Owner[i]
    /\ Update(i, [inv[i] EXCEPT !.status = "approved_ops", !.opsBy = u,
                          !.reviewedVer = inv[i].version, !.late = 0])
    /\ UNCHANGED <<org, mail>>

\* Fault: the countersigner is not compared with the Ops approver.
ApproveSrAnyone(u, i) ==
    /\ i \notin Vendor /\ inv[i].status = "approved_ops"
    /\ role[u] \in Admins /\ u # Owner[i]
    /\ Update(i, [inv[i] EXCEPT !.status = "approved_sr", !.srBy = u,
                          !.reviewedVer = inv[i].version, !.late = 0])
    /\ UNCHANGED <<org, mail>>

ApproveSr(u, i) ==
    /\ i \notin Vendor /\ inv[i].status = "approved_ops"
    /\ role[u] \in Admins /\ u # Owner[i] /\ u # inv[i].opsBy
    /\ Update(i, [inv[i] EXCEPT !.status = "approved_sr", !.srBy = u,
                          !.reviewedVer = inv[i].version, !.late = 0])
    /\ UNCHANGED <<org, mail>>

\* Fault: the status guard is a broad IN set.
RejectAnyLater(u, i) ==
    /\ inv[i].status \in {"submitted", "approved_ops", "approved_sr", "sent_ap"}
    /\ role[u] \in Admins
    /\ Update(i, [inv[i] EXCEPT !.status = "draft"])
    /\ UNCHANGED <<org, mail>>

\* Fault: any Ops Manager of the team may reject at either stage (before v0.90).
RejectTeam(u, i) ==
    /\ inv[i].status \in {"submitted", "approved_ops"}
    /\ role[u] \in Admins \/ (role[u] = "ops_manager" /\ OnTeam(u, Owner[i]))
    /\ Update(i, [inv[i] EXCEPT !.status = "draft"])
    /\ UNCHANGED <<org, mail>>

\* Back to draft.  The approval and escalation columns keep their values.
Reject(u, i) ==
    /\ inv[i].status \in {"submitted", "approved_ops"}
    /\ \/ role[u] \in Admins
       \/ /\ role[u] = "ops_manager" /\ OnTeam(u, Owner[i])
          /\ inv[i].status = "approved_ops" => inv[i].opsBy = u
    /\ Update(i, [inv[i] EXCEPT !.status = "draft"])
    /\ UNCHANGED <<org, mail>>

\* Moves a submitted invoice to 'approved_ops' without being an approval.
Escalate(u, i) ==
    /\ inv[i].status \in {"submitted", "approved_ops"}
    /\ u # Owner[i]
    /\ \/ role[u] = "pm"
       \/ role[u] = "ops_manager" /\ OnTeam(u, Owner[i])
    /\ Update(i, [inv[i] EXCEPT !.status = "approved_ops", !.escBy = u,
                          !.reviewedVer = inv[i].version, !.late = 0])
    /\ UNCHANGED <<org, mail>>

-----------------------------------------------------------------------------
(* Deleting *)

Gone(S) ==
    /\ inv' = [i \in Invoices |->
                 IF i \in S THEN [inv[i] EXCEPT !.status = "deleted"] ELSE inv[i]]
    /\ apRows' = [i \in Invoices |-> IF i \in S THEN 0 ELSE apRows[i]]
    /\ UNCHANGED <<org, req, attempts, delivered, parsing, crashed>>

VendorDiscard(u, i) ==
    /\ i \in Vendor /\ inv[i].status = "draft"
    /\ u = Owner[i] \/ role[u] \in Admins
    /\ Gone({i})

\* DELETE /admin/invoices: all or nothing over the given ids.  Attachments are
\* deleted before the notifications that reference them, so the foreign key of
\* an 'invoice_to_ap' row aborts the transaction, forced or not.
AdminDelete(u, S, force) ==
    /\ role[u] \in Admins
    /\ S # {}
    /\ \A i \in S : inv[i].status # "deleted"
    /\ force \/ \A i \in S : inv[i].status \notin Protected
    /\ \A i \in S : apRows[i] = 0
    /\ Gone(S)

-----------------------------------------------------------------------------
(* What changes the lines of a labor invoice whatever its status *)

\* A pull from MaintainX, or the backfill of a server start: the imported rows
\* of a work order are rewritten, added or deleted on the invoices they are on.
PullLines(S) ==
    /\ S # {} /\ S \subseteq Invoices \ Vendor
    /\ \A i \in S : inv[i].status # "deleted" /\ inv[i].version < MaxVersion
    /\ inv' = [i \in Invoices |->
                 IF i \in S THEN [inv[i] EXCEPT !.version = @ + 1, !.late = @ + 1] ELSE inv[i]]
    /\ UNCHANGED <<org, mail>>

-----------------------------------------------------------------------------
(* POST /send-to-ap *)

IsTechOwner(u, i) == role[u] = "technician" /\ u = Owner[i]

\* Fault: the status alone is taken for the approval.
MaySendAnyApproved(u, i) ==
    /\ CanActOnInvoice(u, i)
    /\ inv[i].status \in Sendable

MaySend(u, i) ==
    /\ CanActOnInvoice(u, i)
    /\ inv[i].status \in Sendable
    /\ inv[i].opsBy # NoUser
    /\ inv[i].status = "sent_ap" /\ IsTechOwner(u, i) => inv[i].changed

\* Everything up to `await generateInvoicePdf`.
SendBegin(r, u, i) ==
    /\ req[r] = Idle
    /\ attempts[i] < MaxSends
    /\ MaySend(u, i)
    /\ attempts' = [attempts EXCEPT ![i] = @ + 1]
    /\ Update(i, [inv[i] EXCEPT !.changed = Touched(i)])
    /\ req' = [req EXCEPT ![r] =
                 [phase |-> "pdf", inv |-> i, by |-> u, ver |-> inv[i].version,
                  outcome |-> "none"]]
    /\ UNCHANGED <<org, apRows, delivered, parsing, crashed>>

Finish(r) == req' = [req EXCEPT ![r] = Idle]

SendPdfFails(r) ==
    /\ req[r].phase = "pdf"
    /\ Finish(r)
    /\ UNCHANGED <<org, inv, attempts, apRows, delivered, parsing, crashed>>

\* The process dies: suspended handlers are lost, the database is not.
Die ==
    /\ req' = [r \in Requests |-> Idle]
    /\ parsing' = {}
    /\ crashed' = TRUE
    /\ UNCHANGED <<org, inv, attempts, apRows, delivered>>

\* The parser has settled.  Nothing looks at the status again: what was read, if
\* it needs no review, is added to the invoice, and computeInvoice runs.
UploadParsed(i) ==
    /\ i \in parsing
    /\ inv[i].status # "deleted"
    /\ parsing' = parsing \ {i}
    /\ \/ Update(i, [inv[i] EXCEPT !.changed = Touched(i)])
       \/ /\ inv[i].version < MaxVersion
          /\ Update(i, [inv[i] EXCEPT !.version = @ + 1, !.late = @ + 1,
                                      !.changed = Touched(i)])
    /\ UNCHANGED <<org, req, attempts, apRows, delivered, crashed>>

\* computeInvoice throws on the deleted invoice, and nothing catches it.
UploadOrphaned(i) ==
    /\ i \in parsing
    /\ inv[i].status = "deleted"
    /\ Die

\* Fault: the notification row is not inserted before the mail goes out.
SendPdfReadyUnlogged(r) ==
    /\ req[r].phase = "pdf"
    /\ inv[req[r].inv].status # "deleted"
    /\ req' = [req EXCEPT ![r].phase = "smtp"]
    /\ UNCHANGED <<org, inv, attempts, apRows, delivered, parsing, crashed>>

\* The PDF is stored, the notification row inserted as 'logged' and the mail
\* handed to SMTP.
SendPdfReady(r) ==
    /\ req[r].phase = "pdf"
    /\ inv[req[r].inv].status # "deleted"
    /\ apRows' = [apRows EXCEPT ![req[r].inv] = @ + 1]
    /\ req' = [req EXCEPT ![r].phase = "smtp"]
    /\ UNCHANGED <<org, inv, attempts, delivered, parsing, crashed>>

\* The invoice was deleted meanwhile: the INSERT breaks its foreign key, and
\* nothing catches the rejection of the async handler, so the process exits.
SendPdfOrphaned(r) ==
    /\ req[r].phase = "pdf"
    /\ inv[req[r].inv].status = "deleted"
    /\ Die

\* sendMail settles.  An error may be reported for a message that was accepted.
SmtpSettles(r) ==
    /\ req[r].phase = "smtp"
    /\ \E o \in {"sent", "failed", "logged"}, n \in {0, 1} :
          /\ o = "sent" => n = 1
          /\ o = "logged" => n = 0
          /\ delivered' = [delivered EXCEPT ![req[r].inv] = @ + n]
          /\ req' = [req EXCEPT ![r].phase = "reply", ![r].outcome = o]
    /\ UNCHANGED <<org, inv, attempts, apRows, parsing, crashed>>

\* Fault: the outcome is recorded only if SMTP reported success.
SendCompleteIfSent(r) ==
    LET i == req[r].inv IN
    /\ req[r].phase = "reply"
    /\ IF inv[i].status = "deleted" \/ req[r].outcome # "sent" THEN UNCHANGED inv
       ELSE Update(i, [inv[i] EXCEPT !.status = "sent_ap", !.sentBy = req[r].by,
                                     !.sentVer = req[r].ver, !.changed = FALSE])
    /\ Finish(r)
    /\ UNCHANGED <<org, attempts, apRows, delivered, parsing, crashed>>

\* The final UPDATE names only the id, and does not look at the outcome.
SendComplete(r) ==
    LET i == req[r].inv IN
    /\ req[r].phase = "reply"
    /\ IF inv[i].status = "deleted" THEN UNCHANGED inv
       ELSE Update(i, [inv[i] EXCEPT !.status = "sent_ap", !.sentBy = req[r].by,
                                     !.sentVer = req[r].ver, !.changed = FALSE])
    /\ Finish(r)
    /\ UNCHANGED <<org, attempts, apRows, delivered, parsing, crashed>>

Crash == AllowCrash /\ Die

-----------------------------------------------------------------------------
Next ==
    \/ \E m, t \in Users : TeamAdd(m, t) \/ TeamRemove(m, t)
    \/ \E a, u \in Users, r \in Roles : AdminSetRole(a, u, r)
    \/ \E u \in Users, i \in Invoices :
          \/ View(u, i) \/ EditContent(u, i) \/ VendorUpdate(u, i)
          \/ Submit(u, i) \/ VendorSubmit(u, i)
          \/ ApproveVendor(u, i) \/ ApproveOps(u, i) \/ ApproveSr(u, i)
          \/ Reject(u, i) \/ Escalate(u, i) \/ VendorDiscard(u, i)
    \/ \E S \in SUBSET Invoices : PullLines(S)
    \/ \E i \in Invoices : UploadParsed(i) \/ UploadOrphaned(i)
    \/ \E u \in Users, S \in SUBSET Invoices, f \in BOOLEAN : AdminDelete(u, S, f)
    \/ \E r \in Requests, u \in Users, i \in Invoices : SendBegin(r, u, i)
    \/ \E r \in Requests : \/ SendPdfFails(r) \/ SendPdfReady(r) \/ SendPdfOrphaned(r)
                           \/ SmtpSettles(r) \/ SendComplete(r)
    \/ Crash

Spec == Init /\ [][Next]_vars

\* An await whose promise settles is resumed: PDF rendering is local and
\* nodemailer has its own timeouts, so each suspended handler moves on.
HandlerStep(r) == \/ SendPdfFails(r) \/ SendPdfReady(r) \/ SendPdfOrphaned(r)
                  \/ SmtpSettles(r) \/ SendComplete(r)
FairSpec == Spec /\ \A r \in Requests : WF_vars(HandlerStep(r))

-----------------------------------------------------------------------------
(* Properties *)

InFlight(i) == \E r \in Requests : req[r].inv = i

\* Nobody approves, countersigns or escalates an invoice payable to (or, for a
\* vendor invoice, uploaded by) themselves, and the countersignature of a
\* tech-labor invoice is a second person's, whatever roles, teams, rejections
\* and resubmissions came in between (approvals.js, the v0.65 guards).
SegregationOfDuties ==
    \A i \in Invoices :
        /\ Owner[i] \notin {inv[i].opsBy, inv[i].srBy, inv[i].escBy}
        /\ i \notin Vendor /\ inv[i].srBy # NoUser => inv[i].srBy # inv[i].opsBy

\* Nothing is mailed to AP, is on its way there or is marked as sent unless an
\* Ops approval by someone other than the payee is on record, however the
\* suspended hand-offs interleave with rejections and resubmissions
\* (invoices.js, the v0.97 comment on send-to-ap).
HandOffAuthorised ==
    \A i \in Invoices :
        inv[i].status = "sent_ap" \/ InFlight(i) \/ delivered[i] > 0
            => inv[i].opsBy \notin {NoUser, Owner[i]}

\* An approved invoice, or one passed on by an escalation, has the content that
\* whoever let it pass last had before them, but for what came from outside the
\* chain since: however edits, rejections, resubmissions and escalations of
\* several people follow each other, the status locks of the edit handlers
\* leave no gap.  What has no lock (an upload that awaited its parser, a pull) is
\* counted in `late` and nothing else is.
ApprovalCoversContent ==
    \A i \in Invoices :
        inv[i].status \in {"approved_ops", "approved_sr"}
            => inv[i].version = inv[i].reviewedVer + inv[i].late

\* Every message that reached AP about an existing invoice has its own
\* notification row, across crashes, SMTP errors reported for accepted
\* messages and concurrent sends ("the audit trail is always complete").
AuditTrailComplete ==
    \A i \in Invoices : inv[i].status # "deleted" => delivered[i] <= apRows[i]

\* What AP has received is never taken back: a sent invoice keeps its status
\* and its approvals and is never deleted, and nobody edits it: its lines change
\* only by what comes from outside the chain.
SentIsFrozen ==
    [][\A i \in Invoices : inv[i].status = "sent_ap" =>
          /\ inv'[i] = [inv[i] EXCEPT !.sentBy = inv'[i].sentBy,
                                      !.sentVer = inv'[i].sentVer,
                                      !.changed = inv'[i].changed,
                                      !.version = inv'[i].version,
                                      !.late = inv'[i].late]
          /\ inv'[i].version + inv[i].late = inv[i].version + inv'[i].late]_vars

\* Unless the process dies, an invoice AP has a message about ends up marked
\* as sent (or was discarded meanwhile): no interleaving loses the outcome.
DeliveredIsRecorded ==
    \A i \in Invoices :
        delivered[i] > 0 ~> (inv[i].status \in {"sent_ap", "deleted"} \/ crashed)

\* The chain implements its contract: no step of any handler does to the
\* phase, the Ops signature or the hand-offs of an invoice anything but what
\* ApprovalContract allows.
PhaseOf(i) == CASE inv[i].status = "draft"     -> "open"
                [] inv[i].status = "submitted" -> "review"
                [] inv[i].status = "sent_ap"   -> "sent"
                [] inv[i].status = "deleted"   -> "gone"
                [] OTHER                       -> "cleared"

Contract == INSTANCE ApprovalContract WITH
                phase   <- [i \in Invoices |-> PhaseOf(i)],
                signer  <- [i \in Invoices |-> inv[i].opsBy],
                handoff <- [r \in Requests |-> req[r].inv]

ImplementsContract == Contract!Spec

-----------------------------------------------------------------------------
(* What comments of the source say and the code does not do; each is the     *)
(* property of a run that TLC refutes.                                       *)

\* approvals.js, reject: "Returns to draft so the tech can edit and re-submit".
RejectedStaysDraft ==
    [][\A i \in Invoices : inv[i].status = "draft" =>
          inv'[i].status \in {"draft", "submitted", "deleted"}]_vars
=============================================================================
