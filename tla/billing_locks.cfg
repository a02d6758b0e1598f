\* The lines of a technician and a manager through sweeps, chain, uploads and deletions.
SPECIFICATION BillingSpec
CONSTANTS
    tess = tess  pam = pam  w1 = w1  w2 = w2
    Technicians = {tess}
    OpsManagers = {}
    Admins = {pam}
    WorkOrders = {w1}
    MaxEntries = 1
    MaxExpenses = 1
    MaxInvoices = 2
    MaxTime = 1
    Minute = 1
    Grace = 0
    DayLength = 1
    WeekDays = 1
    MaxSpan = 1
    BreakInputs = {0}
    Amounts = {1}
    NoTime = NoTime
    NoUser = NoUser
INVARIANT BilledToOwner
PROPERTIES LinesLocked KeepsLedger
CHECK_DEADLOCK FALSE
