\* A tech-labor or a vendor invoice, two overlapping hand-offs, promotions of the technician and of an Ops Manager, crashes.
SPECIFICATION ApprovalSpec
CONSTANTS
    tech = tech  ops1 = ops1  ops2 = ops2  sr = sr
    lab1 = lab1  lab2 = lab2  ven = ven  r1 = r1  r2 = r2
    Users = {tech, ops1, sr}
    Invoices = {lab1, ven}
    Requests = {r1, r2}
    Vendor = {ven}
    Owner <- MCOwner
    RoleChoices <- MovingRoles
    NoUser = NoUser
    NoInvoice = NoInvoice
    MaxVersion = 2
    MaxSends = 2
    AllowCrash = TRUE
INVARIANTS SegregationOfDuties ApprovalCoversContent HandOffAuthorised AuditTrailComplete
PROPERTIES SentIsFrozen ImplementsContract DeliveredIsRecorded
