\* A technician's invoice, escalated and countersigned, that nobody on Ops has approved.
SPECIFICATION MCSpec
CONSTANTS
    tech = tech  ops1 = ops1  ops2 = ops2  sr = sr
    lab = lab  ven = ven
    Users = {tech, ops1, ops2, sr}
    Invoices = {lab}
    Vendor = {}
    Owner <- MCOwner
    RoleChoices <- FixedRoles
    Requests = {r1}
    Windows = {w1, w2}
    Elsewhere = Elsewhere
    NoUser = NoUser
    NoInvoice = NoInvoice
    MaxVersion = 2
    MaxSends = 1
    AllowCrash = FALSE
SYMMETRY WindowSymmetry
INVARIANT SendOfferedIsAccepted
CHECK_DEADLOCK FALSE
