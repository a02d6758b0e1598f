---------------------------- MODULE MCSpendPolicy ---------------------------
(* Small instances of SpendPolicy: a deployment of 10 carts and a repair     *)
(* without carts, on one invoice and an expense on a second.                 *)
EXTENDS SpendPolicy, TLC

CONSTANTS i1, i2, w1, w2, ana, sam

MCWorkTypeOf == w1 :> "deployment" @@ w2 :> "repair"
MCCartsOf == w1 :> 10 @@ w2 :> 0

Entry(id, w, day, mode, source, hours, open) ==
    [kind |-> "entry", id |-> id, invoice |-> i1, wo |-> w, day |-> day, mode |-> mode,
     source |-> source, hours |-> hours, open |-> open]
Expense(id, i, w, day, category, subcategory, quantity, amount, receipt) ==
    [kind |-> "expense", id |-> id, invoice |-> i, wo |-> w, day |-> day, category |-> category,
     subcategory |-> subcategory, quantity |-> quantity, amount |-> amount, receipt |-> receipt]

MCLines ==
    {Entry(1, w1, 1, "work", "app", 110, FALSE), Entry(2, w1, 2, "work", "app", 110, FALSE),
     Entry(3, w1, 1, "work", "maintainx_sync", 125, FALSE), Entry(4, w2, 1, "drive", "app", 55, FALSE),
     Entry(5, w1, 2, "work", "maintainx_sync", 125, TRUE),
     Expense(6, i1, w1, 1, "labor", None, 100, 4000, TRUE),
     Expense(7, i1, w1, 2, "other", "Meal", 1, 6000, FALSE),
     Expense(8, i2, w1, 2, "other", "Meal", 1, 4000, TRUE),
     Expense(9, i1, w2, 1, "vendor", None, 1, 1250, FALSE)}

Rule(type, work_type, category, carts, threshold, severity) ==
    [rule_type |-> type, work_type_filter |-> work_type, category_filter |-> category,
     cart_count_min |-> carts, threshold |-> threshold, severity |-> severity]

MCRules ==
    {Rule("max_hours_per_wo", None, None, None, 200, "block"),
     Rule("max_hours_per_10_carts", "repair", None, None, 100, "flag"),
     Rule("max_hours_per_cart", "deployment", None, 20, 10, "flag"),
     Rule("max_hours_per_day", None, None, None, 109, "warn"),
     Rule("require_receipt_above", None, "other", None, 5000, "block")}

MCCharges ==
    {[id |-> 1, by |-> m, wo |-> w, category |-> "Travel", amount |-> 5000] :
        m \in {ana, sam}, w \in {w1, None}}
=============================================================================
