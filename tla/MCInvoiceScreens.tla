-------------------------- MODULE MCInvoiceScreens --------------------------
(* Two windows, a technician, two Ops Managers and a Sr Manager.             *)
EXTENDS InvoiceScreens, TLC

CONSTANTS tech, ops1, ops2, sr, lab, ven

MCOwner == [i \in Invoices |-> IF i = ven THEN ops1 ELSE tech]

FixedRoles == [u \in Users |-> CASE u = tech -> {"technician"}
                                 [] u = sr   -> {"sr_manager"}
                                 [] OTHER    -> {"ops_manager"}]

\* The payee joins the team of ops1 before that of ops2, and leaves in reverse.
InOrder == OnTeam(ops2, tech) => OnTeam(ops1, tech)

MCSpec == ScreensInit /\ [][ScreensNext /\ InOrder']_screenVars

WindowSymmetry == Permutations(Windows)
=============================================================================
