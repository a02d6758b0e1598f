\* The run that refutes RejectedStaysDraft.
SPECIFICATION Spec
CONSTANTS
    tech = tech  ops1 = ops1  ops2 = ops2  sr = sr
    lab1 = lab1  lab2 = lab2  ven = ven  r1 = r1  r2 = r2
    Users = {tech, ops1, ops2, sr}
    Invoices = {lab1}
    Requests = {r1}
    Vendor = {}
    Owner <- MCOwner
    RoleChoices <- FixedRoles
    NoUser = NoUser
    NoInvoice = NoInvoice
    MaxVersion = 2
    MaxSends = 2
    AllowCrash = FALSE
PROPERTY RejectedStaysDraft
