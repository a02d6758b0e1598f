\* Timers, breaks and manual entries of one technician over a few minutes, and timers on two work orders.
SPECIFICATION TimersSpec
CONSTANTS
    tess = tess  pam = pam  w1 = w1  w2 = w2
    Technicians = {tess}
    OpsManagers = {}
    Admins = {}
    WorkOrders = {w1, w2}
    MaxEntries = 3
    MaxExpenses = 0
    MaxInvoices = 1
    MaxTime = 4
    Minute = 2
    Grace = 1
    DayLength = 5
    WeekDays = 1
    MaxSpan = 1
    BreakInputs = {0}
    Amounts = {1}
    NoTime = NoTime
    NoUser = NoUser
INVARIANTS OverlapWithinGrace TimersExclusive
PROPERTY BreakSeamless
CHECK_DEADLOCK FALSE
