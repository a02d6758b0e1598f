-------------------------- MODULE MCInvoiceApproval --------------------------
(* Small instances of InvoiceApproval: who the users are, which invoices     *)
(* exist and which roles an administrator may hand out.                      *)
EXTENDS InvoiceApproval

CONSTANTS tech, ops1, ops2, sr, lab1, lab2, ven, r1, r2

\* One technician with a tech-labor invoice (and a second one of the same
\* owner), one Ops Manager who uploads the vendor invoice.
MCOwner == [i \in Invoices |-> IF i = ven THEN ops1 ELSE tech]

\* The roles stay as they are.
FixedRoles == [u \in Users |-> CASE u = tech -> {"technician"}
                                 [] u = sr   -> {"pm"}
                                 [] OTHER    -> {"ops_manager"}]

\* The technician may be promoted to Ops Manager and ops1 to Sr Manager.
MovingRoles == [u \in Users |-> CASE u = tech -> {"technician", "ops_manager"}
                                  [] u = sr   -> {"sr_manager"}
                                  [] u = ops1 -> {"ops_manager", "sr_manager"}
                                  [] OTHER    -> {"ops_manager"}]

\* Of the labor and the vendor invoice one goes its way, the vendor invoice
\* among two Ops Managers and a Sr Manager whose teams do not matter to it.
Untouched(i) == inv[i] = NewRow(TRUE)
VendorScene == role[tech] = "ops_manager" /\ role[ops1] = "ops_manager" /\ team = {} /\ parsing = {}
OneMoves == ~Untouched(ven) => Untouched(lab1) /\ VendorScene

\* Hand-offs are alike: the second one is r2, or r1 again.
InOrder == req[r2] # Idle => \E i \in Invoices : attempts[i] = MaxSends

\* An invoice that is being parsed, or was changed by an import since its last
\* review, is handed off once.
FewImports == parsing # {} \/ inv[lab1].late > 0 => attempts[lab1] < MaxSends

\* A process that dies with nothing suspended loses nothing.
LosesWork == parsing # {} \/ \E r \in Requests : req[r] # Idle

ApprovalInit == Init /\ OneMoves /\ FewImports
ApprovalNext == Next /\ OneMoves' /\ InOrder' /\ FewImports' /\ (crashed' = crashed \/ LosesWork)
ApprovalSpec ==
    /\ ApprovalInit /\ [][ApprovalNext]_vars
    /\ \A r \in Requests : WF_vars(HandlerStep(r))
=============================================================================
