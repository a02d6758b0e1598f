\* Lines, rules, caps, budgets and card charges of two work orders.
SPECIFICATION Spec
CONSTANTS
    i1 = i1  i2 = i2  w1 = w1  w2 = w2  ana = ana  sam = sam
    Invoices = {i1, i2}
    WorkOrders = {w1, w2}
    WorkTypes = {"deployment", "repair"}
    WorkTypeOf <- MCWorkTypeOf
    CartsOf <- MCCartsOf
    Subcategories = {"Meal"}
    CardCategories = {"Travel"}
    Managers = {ana, sam}
    Seniors = {sam}
    LineChoices <- MCLines
    RuleChoices <- MCRules
    ChargeChoices <- MCCharges
    Rates = {4000, 3333}
    Caps = {5000}
    Baselines = {100, 200}
    MaxLines = 3
    MaxPolicy = 1
    None = None
INVARIANTS TotalsAgree FlagsAreDeserved
CHECK_DEADLOCK FALSE
