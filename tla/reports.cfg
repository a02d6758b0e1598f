\* Vendor invoices, the Expensify export, the cost tracker and its sheet, unplanned work and launch actuals.
SPECIFICATION MCSpec
CONSTANTS
    ops = ops  sam = sam  ann = ann  bob = bob
    LineChoices <- MCLineChoices
    Imports <- MCImports
    Rate = 4000
    Calls = {1, 2}
    MaxFailures = 1
    None = None
    Uploaders = {ops, sam}
    OpsManagers = {ops}
    Team <- MCTeam
    Names = {"acme", "rogue"}
    Dates = {"d1"}
    Numbers = {"n1"}
    Totals = {0, 5000}
    Documents <- MCDocuments
    ListedVendors = {"acme"}
    Requests = {1}
    Blank = Blank
    Taggers = {ops}
    TaggedLines <- MCTaggedLines
    Reasons = {"ad_hoc"}
    Amounts = {1, 3}
    TypeOf <- MCTypeOf
    StoreOf <- MCStoreOf
    MaxLogged = 2
    MaxPatches = 1
    Unset = Unset
    Managers = {ops, sam}
    Leaders = {sam}
    Stores <- MCStores
    Hours = {0}
    WeekHours = 1
    MaxSaves = 1
    MaxWorked = 1
    Nothing = Nothing
    Wos = {1, 2}
    Techs = {ann, bob}
    TrackerInvoices = {1, 2, 3}
    Owner <- MCOwner
    LoggedLines <- MCLoggedLines
    SyncedLines <- MCSyncedLines
    Days = {14}
    Created <- MCCreated
    Type <- MCType
    Editors = {"m1"}
    TypedAmounts = {7}
    Pushes = {1, 2}
    MaxPushes = 2
    NoValue = NoValue
INVARIANTS IntakeIsSound ReportIsInvoice BooksAgree SliceWithinTotal OneReportEach
PROPERTY TagOnSeenLine
CHECK_DEADLOCK FALSE
