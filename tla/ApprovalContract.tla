--------------------------- MODULE ApprovalContract ---------------------------
(***************************************************************************)
(* What the approval chain promises its users, without roles, teams, rows  *)
(* or the steps of a hand-off: an invoice is filed, reviewed and cleared;  *)
(* it is handed to AP only by a hand-off that was authorised while it was  *)
(* cleared and carried the signature of somebody other than its owner; and *)
(* what was sent stays sent.  A hand-off that was authorised may complete  *)
(* whatever happens to the invoice meanwhile.                              *)
(***************************************************************************)
CONSTANTS Users, Invoices, Requests, Owner, NoUser, NoInvoice

VARIABLES
    phase,      \* where each invoice is
    signer,     \* the Ops signature on file
    handoff     \* the invoice each authorised hand-off is about

vars == <<phase, signer, handoff>>

Init ==
    /\ phase = [i \in Invoices |-> "open"]
    /\ signer = [i \in Invoices |-> NoUser]
    /\ handoff = [r \in Requests |-> NoInvoice]

File(i) ==
    /\ phase[i] = "open"
    /\ phase' = [phase EXCEPT ![i] = "review"]
    /\ UNCHANGED <<signer, handoff>>

\* Cleared with a new signature, or (escalated, or approved by a Sr Manager)
\* with the one already on file, if any.
Clear(i) ==
    /\ phase[i] = "review"
    /\ phase' = [phase EXCEPT ![i] = "cleared"]
    /\ \/ UNCHANGED signer
       \/ \E u \in Users \ {Owner[i]} : signer' = [signer EXCEPT ![i] = u]
    /\ UNCHANGED handoff

Return(i) ==
    /\ phase[i] \in {"review", "cleared"}
    /\ phase' = [phase EXCEPT ![i] = "open"]
    /\ UNCHANGED <<signer, handoff>>

Authorise(r, i) ==
    /\ handoff[r] = NoInvoice
    /\ phase[i] \in {"cleared", "sent"}
    /\ signer[i] # NoUser
    /\ handoff' = [handoff EXCEPT ![r] = i]
    /\ UNCHANGED <<phase, signer>>

HandOff(r) ==
    /\ handoff[r] # NoInvoice
    /\ phase' = IF phase[handoff[r]] = "gone" THEN phase
                ELSE [phase EXCEPT ![handoff[r]] = "sent"]
    /\ handoff' = [handoff EXCEPT ![r] = NoInvoice]
    /\ UNCHANGED signer

Abandon(S) ==
    /\ handoff' = [r \in Requests |-> IF r \in S THEN NoInvoice ELSE handoff[r]]
    /\ UNCHANGED <<phase, signer>>

Discard(S) ==
    /\ \A i \in S : phase[i] # "sent"
    /\ phase' = [i \in Invoices |-> IF i \in S THEN "gone" ELSE phase[i]]
    /\ UNCHANGED <<signer, handoff>>

Next ==
    \/ \E i \in Invoices : File(i) \/ Clear(i) \/ Return(i)
    \/ \E r \in Requests : HandOff(r) \/ \E i \in Invoices : Authorise(r, i)
    \/ \E S \in SUBSET Requests : Abandon(S)
    \/ \E S \in SUBSET Invoices : Discard(S)

Spec == Init /\ [][Next]_vars
=============================================================================
