\* Pulls of a work order two technicians worked on.
SPECIFICATION Spec
CONSTANTS
    tess = tess  tom = tom  mxTess = mxTess  mxTom = mxTom
    e1 = e1  e2 = e2  billTess = billTess  billTom = billTom
    Users = {tess, tom}
    Assignee = tess
    MxUsers = {mxTess, mxTom}
    Account <- MCAccount
    Invoices = {billTess, billTom}
    Payee <- MCPayee
    NoInvoice = NoInvoice
    EntryIds = {e1, e2}
    Durations = {0, 4}
SYMMETRY EntrySymmetry
INVARIANTS SyncIdempotent BilledImportsKept
PROPERTY LockedAppKept
