\* One tech-labor and one vendor invoice, worked one at a time from two windows.
SPECIFICATION MCSpec
CONSTANTS
    tech = tech  ops1 = ops1  ops2 = ops2  sr = sr
    lab = lab  ven = ven
    Users = {tech, ops1, ops2, sr}
    Invoices = {lab, ven}
    Vendor = {ven}
    Owner <- MCOwner
    RoleChoices <- FixedRoles
    Requests = {r1}
    Windows = {w1, w2}
    Elsewhere = Elsewhere
    NoUser = NoUser
    NoInvoice = NoInvoice
    MaxVersion = 2
    MaxSends = 1
    AllowCrash = FALSE
SYMMETRY WindowSymmetry
INVARIANT NobodyStranded
PROPERTY ApprovalStands
CHECK_DEADLOCK FALSE
