------------------------------ MODULE MCLaborSync ------------------------------
(* Two technicians with an invoice each, one of them assigned to the work    *)
(* order, both known to MaintainX.                                           *)
EXTENDS LaborSync, TLC

CONSTANTS tess, tom, mxTess, mxTom, billTess, billTom, e1, e2

MCAccount == [m \in MxUsers |-> IF m = mxTess THEN tess ELSE tom]
MCPayee == [i \in Invoices |-> IF i = billTess THEN tess ELSE tom]

\* Entries are told apart by nothing but their rows.
EntrySymmetry == Permutations(EntryIds)
===============================================================================
