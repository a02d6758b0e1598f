\* Five screens of one window, two forms that add an expense, one that adds a work order from a ticket; two accounts and two suspended requests; two files on two invoices and an expense, and two links.
SPECIFICATION MCSpec
CONSTANTS
    Screens = {"home", "timer", "queue", "detail 1", "detail 2"}
    Roots = {"home", "timer", "queue"}
    None = None
    Remote <- MCRemote
    Catalog <- MCCatalog
    TypedName = "typed"
    Types = {"retrofit", "repair"}
    Replies <- MCReplies
    MaxPulls = 2
    MaxOrders = 1
    Home = "home"
    Timer = "timer"
    MaxHistory = 5
    MaxPending = 2
    Me = "manager"
    Tech = "technician"
    Nobody = "nobody"
    MaxForms = 2
    MaxDraws = 6
    MaxExpenses = 2
    root = root  ana = ana
    s1 = s1  s2 = s2  k1 = k1  r1 = r1  r2 = r2
    Accounts = {root, ana}
    Root = root
    Tokens = {s1, s2}
    Keys = {k1}
    Attempts = {r1, r2}
    MaxFails = 2
    DelayAfter = 1
    MaxEpoch = 1
    NoUser = NoUser
    labor = labor  vendor = vendor
    Nothing = Nothing
    Users = {root, ana}
    Admins = {}
    OpsMgrs = {root}
    Invoices = {labor, vendor}
    Vendor = {vendor}
    Owner <- MCOwner
    Team <- MCTeam
    Expenses = {x1}
    x1 = x1
    MaxFiles = 2
    NoOne = NoOne
    Askers = {root, ana}
    Targets = {"pdf", "export", "invoice"}
    Pages = {"pdf", "export"}
    Links = {s1, s2}
INVARIANTS BackWorks NoLostTicker TwiceOnlyIfExposed FormIsOneAnswer AdminRemains RevokedStayDead ThrottleBound
    MissingFilesAreKnown EvidenceStays OpensOnceAsAsked
CHECK_DEADLOCK FALSE
