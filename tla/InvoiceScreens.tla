--------------------------- MODULE InvoiceScreens ---------------------------
(***************************************************************************)
(* The approval chain as people work it: the invoice screen of             *)
(* public/app.js in several browser windows, in front of the handlers of   *)
(* InvoiceApproval.                                                        *)
(*                                                                         *)
(* renderInvoiceDetail fetches an invoice once and derives its buttons     *)
(* from that copy; nothing refreshes it until the window navigates.  The   *)
(* server looks only at its own row.  So there are two sets of guards,     *)
(* written apart, and any number of steps between them.  The buttons that  *)
(* edit line items are left out, and so are imports: no guard here depends *)
(* on the content.                                                         *)
(***************************************************************************)
EXTENDS InvoiceApproval

CONSTANTS
    Windows,    \* browser windows open at one time
    Elsewhere   \* a window that shows some other view

VARIABLE win            \* what each window shows

screenVars == <<vars, win>>

\* Who is signed in, the copy of the invoice, whether a manager works on behalf
\* of the payee (STATE.onBehalfOf), and the send-to-AP sheet: not opened, or
\* opened with can_send as ap-preview answered.
Copy == [status : Statuses, escalated : BOOLEAN, complete : BOOLEAN, changed : BOOLEAN]
Shown == [user : Users, inv : Invoices, seen : Copy, proxy : BOOLEAN,
          sheet : {"none", "disabled", "enabled"}]

ScreensInit == Init /\ parsing = {} /\ win = [w \in Windows |-> Elsewhere]

CopyOf(i) == [status |-> inv[i].status, escalated |-> inv[i].escBy # NoUser,
              complete |-> inv[i].complete, changed |-> inv[i].changed]

-----------------------------------------------------------------------------
(* What the screen offers *)

\* Fault: only the countersigned are ready, the rule before v0.67.
ReadyCountersigned(seen) == seen.status = "approved_sr"

ReadyToSend(seen) ==
    \/ seen.status = "approved_sr"
    \/ seen.status = "approved_ops" /\ ~seen.escalated

IsManagerView(u, i) == role[u] \in Managers /\ u # Owner[i]

DraftButtons(u, i, seen, proxy) ==
    IF i \notin Vendor /\ seen.status = "draft" /\ (role[u] = "technician" \/ proxy)
    THEN {"submit"} ELSE {}

VendorDraftButtons(u, i, seen) ==
    IF i \in Vendor /\ seen.status = "draft" /\ (u = Owner[i] \/ role[u] \in Admins)
    THEN {"vendorEdit", "vendorDiscard"}
         \union (IF seen.complete THEN {"vendorSubmit"} ELSE {})
    ELSE {}

DecisionButtons(u, i, seen) ==
    CASE i \in Vendor /\ seen.status = "submitted" /\ role[u] \in Admins -> {"approve", "reject"}
      [] i \notin Vendor /\ seen.status = "submitted" /\ role[u] = "ops_manager"
            -> {"approve", "reject", "escalate"}
      [] i \notin Vendor /\ seen.status = "approved_ops" /\ seen.escalated /\ role[u] \in Admins
            -> {"approve", "reject"}
      [] OTHER -> {}

SendButtons(u, i, seen) ==
    IF \/ /\ ReadyToSend(seen)
          /\ u = Owner[i] \/ role[u] \in Admins \/ (role[u] = "ops_manager" /\ IsManagerView(u, i))
       \/ seen.status = "sent_ap" /\ seen.changed /\ IsTechOwner(u, i)
    THEN {"send"} ELSE {}

Buttons(u, i, seen, proxy) ==
    DraftButtons(u, i, seen, proxy) \union VendorDraftButtons(u, i, seen)
      \union DecisionButtons(u, i, seen) \union SendButtons(u, i, seen)

\* ap-preview's can_send; like every view of the invoice it recomputes it.
CanSend(u, i) ==
    \/ inv[i].status \in {"approved_ops", "approved_sr"}
    \/ inv[i].status = "sent_ap" /\ (IsTechOwner(u, i) => inv[i].changed)

-----------------------------------------------------------------------------
(* Steps of a window *)

\* Bound: people work one invoice at a time; no guard relates two invoices.
OneAtATime(i) ==
    \A j \in Invoices \ {i} :
        inv[j] = NewRow(TRUE) /\ \A w \in Windows : win[w] # Elsewhere => win[w].inv # j

\* goto('invDetail', id).  GET /invoices/:id recomputes before it answers.
Open(w, u, i) ==
    /\ OneAtATime(i)
    /\ View(u, i)
    /\ win' = [win EXCEPT ![w] = [user |-> u, inv |-> i, seen |-> CopyOf(i)',
                                  proxy |-> FALSE, sheet |-> "none"]]

\* A manager who filed a technician's PDF lands on the new draft as the proxy.
OpenAsProxy(w, u, i) ==
    /\ OneAtATime(i)
    /\ IsManagerView(u, i) /\ role[Owner[i]] = "technician" /\ i \notin Vendor
    /\ inv[i].status = "draft"
    /\ View(u, i)
    /\ win' = [win EXCEPT ![w] = [user |-> u, inv |-> i, seen |-> CopyOf(i)',
                                  proxy |-> TRUE, sheet |-> "none"]]

Leave(w) ==
    /\ win[w] # Elsewhere
    /\ win' = [win EXCEPT ![w] = Elsewhere]
    /\ UNCHANGED vars

\* The handler behind a button; a refusal is a toast and changes nothing.
Handle(b, u, i) ==
    \/ b = "submit"        /\ Submit(u, i)
    \/ b = "vendorEdit"    /\ VendorUpdate(u, i)
    \/ b = "vendorSubmit"  /\ VendorSubmit(u, i)
    \/ b = "vendorDiscard" /\ VendorDiscard(u, i)
    \/ b = "approve"       /\ (ApproveVendor(u, i) \/ ApproveOps(u, i) \/ ApproveSr(u, i))
    \/ b = "reject"        /\ Reject(u, i)
    \/ b = "escalate"      /\ Escalate(u, i)

\* After an edit the screen is fetched again, after a decision it is left.
Click(w, b) ==
    /\ win[w] # Elsewhere
    /\ \E u \in {win[w].user}, i \in {win[w].inv} :
          /\ b \in Buttons(u, i, win[w].seen, win[w].proxy)
          /\ Handle(b, u, i)
          /\ win' = [win EXCEPT ![w] = IF b = "vendorEdit"
                                       THEN [win[w] EXCEPT !.seen = CopyOf(i)']
                                       ELSE Elsewhere]

OpenSheet(w) ==
    LET s == win[w] IN
    /\ s # Elsewhere /\ s.sheet = "none"
    /\ "send" \in Buttons(s.user, s.inv, s.seen, s.proxy)
    /\ View(s.user, s.inv)
    /\ win' = [win EXCEPT ![w].sheet = IF CanSend(s.user, s.inv) THEN "enabled" ELSE "disabled"]

\* "Generate PDF & Send": the window waits for the answer on this sheet.
ConfirmSend(w, r) ==
    /\ win[w] # Elsewhere /\ win[w].sheet = "enabled"
    /\ SendBegin(r, win[w].user, win[w].inv)
    /\ win' = [win EXCEPT ![w] = Elsewhere]

Server ==
    /\ \/ \E m, t \in Users : TeamAdd(m, t) \/ TeamRemove(m, t)
       \/ \E r \in Requests : HandlerStep(r)
    /\ UNCHANGED win

ScreensNext ==
    \/ \E w \in Windows, u \in Users, i \in Invoices : Open(w, u, i) \/ OpenAsProxy(w, u, i)
    \/ \E w \in Windows : Leave(w) \/ OpenSheet(w)
    \/ \E w \in Windows, b \in {"submit", "vendorEdit", "vendorSubmit", "vendorDiscard",
                                "approve", "reject", "escalate"} : Click(w, b)
    \/ \E w \in Windows, r \in Requests : ConfirmSend(w, r)
    \/ Server

ScreensSpec == ScreensInit /\ [][ScreensNext]_screenVars

-----------------------------------------------------------------------------
(* Properties *)

\* A button of the screen as it would be fetched now, and that the server takes.
Works(b, u, i) ==
    /\ b \in Buttons(u, i, CopyOf(i), FALSE)
    /\ IF b = "send" THEN CanSend(u, i) /\ MaySend(u, i) ELSE ENABLED Handle(b, u, i)

\* Wherever clicks on fresh and stale screens have taken an invoice, somebody
\* has a button that the server accepts and that moves it on towards AP: the
\* guards of the screen and those of the handlers never exclude each other.
\* It speaks of payees on an Ops Manager's team and of vendor drafts that are
\* filled in; invoices countersigned without an Ops approval are the dead end
\* of finding_send_offered.
NobodyStranded ==
    \A i \in Invoices :
        /\ inv[i].status \notin {"sent_ap", "deleted"}
        /\ inv[i].status = "approved_sr" => inv[i].opsBy # NoUser
        /\ IF i \in Vendor THEN inv[i].complete
           ELSE \E m \in Users : role[m] = "ops_manager" /\ OnTeam(m, Owner[i])
        => \E u \in Users, b \in {"submit", "vendorSubmit", "approve", "send"} : Works(b, u, i)

\* A screen that still shows an invoice as submitted cannot be used to take
\* back the approval another manager has given meanwhile (the v0.90 fix of
\* the reject handler).
ApprovalStands ==
    [][\A w \in Windows, b \in {"reject", "approve", "escalate"} :
          win[w] # Elsewhere /\ Click(w, b) =>
              LET i == win[w].inv IN
              /\ win[w].seen.status = "submitted" /\ inv[i].status = "approved_ops"
              /\ inv'[i].status # "approved_ops"
              => inv[i].opsBy = win[w].user]_screenVars

\* app.js: an invoice is "cleared for the technician to send to AP once approval
\* is complete: ops-approved in the normal flow, or Sr Mgr-countersigned on an
\* escalated invoice": the send button that a technician finds on a fresh screen
\* of a labor invoice works.
SendOfferedIsAccepted ==
    \A u \in Users, i \in Invoices \ Vendor :
        role[u] = "technician" /\ "send" \in Buttons(u, i, CopyOf(i), FALSE) => MaySend(u, i)
=============================================================================
