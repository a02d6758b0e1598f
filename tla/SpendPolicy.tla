------------------------------ MODULE SpendPolicy ---------------------------
(* What managers set against the cost of a work order and what it flags: the *)
(* custom rules, the category caps, the budgets of a work order, the hours   *)
(* baselines and the corporate card (routes/rules.js, category_rules.js,     *)
(* corpcard.js, the policy part of settings.js), evaluated when an invoice   *)
(* is computed and enforced when it is submitted (routes/invoices.js).       *)
EXTENDS InvoiceTotals

CONSTANTS Invoices, WorkOrders, WorkTypes,
          WorkTypeOf,      \* [WorkOrders -> WorkTypes]
          CartsOf,         \* [WorkOrders -> Nat], cart_count
          Subcategories,   \* TECH_EXPENSE_SUBCATS
          CardCategories,  \* rows corp_card_categories may have
          Managers,        \* users with a manager role
          Seniors,         \* those of them who are sr_manager or pm
          LineChoices,     \* lines technicians may put on the invoices
          RuleChoices,     \* custom rules managers may write
          ChargeChoices,   \* charges [id, by, wo, category, amount] they may file
          Rates, Caps, Baselines,
          MaxLines,        \* bound on the lines of all invoices
          MaxPolicy,       \* bound on the rules, caps and budgets in force
          None

\* VALID_CATS.
ExpenseCategories == {"mileage", "tolls", "parking", "vendor", "labor", "drive", "other"}

\* Nothing costs or lasts less than nothing.
ASSUME PolicyAssumption ==
    /\ \A l \in LineChoices :
        /\ l.wo \in WorkOrders
        /\ \/ l.kind = "entry" /\ l.mode \in {"work", "drive"} /\ l.hours \in Nat
           \/ l.kind = "expense" /\ l.category \in ExpenseCategories /\ l.amount \in Nat
    /\ Rates \cup Caps \subseteq Nat

VARIABLES lines,      \* time_entries and expenses that are on an invoice
          rate,       \* users.hourly_rate of their owner
          status,     \* of the invoices: draft or submitted
          rules,      \* the active custom_rules
          baseline,   \* policy_hours_per_10_carts_*, per work type
          budgets,    \* wo_category_budgets
          caps,       \* category_rules, kind per_wo_cap
          receipts,   \* category_rules, kind receipt_required_above
          archived,   \* archived corp_card_categories
          charges     \* corp_card_expenses

policy == <<rules, baseline, budgets, caps, receipts>>
card == <<archived, charges>>
vars == <<lines, rate, status, policy, card>>

\* How many rules, budgets, caps and receipt thresholds are in force.
InForce ==
    Cardinality(rules) + Cardinality({wc \in DOMAIN budgets : budgets[wc] # None})
    + Cardinality({c \in DOMAIN caps : caps[c] # None})
    + Cardinality({s \in DOMAIN receipts : receipts[s] # None})

Categories == [source : {"corp_card"}, key : CardCategories]
              \cup [source : {"tech_expense"}, key : Subcategories]

LinesOf(i) == {l \in lines : l.invoice = i}
Line(i, w) == {l \in Counted(LinesOf(i)) : l.wo = w}
OnInvoice(i) == {l.wo : l \in Counted(LinesOf(i))}

-----------------------------------------------------------------------------
(* Flags of one work order of an invoice, as [rule, severity].               *)

HoursOn(L, mode, d) ==
    SumFunction([l \in {k \in Entries(L) : k.mode = mode /\ k.day = d} |-> l.hours])
MilesOn(L, d) ==
    SumFunction([l \in {k \in Expenses(L) : k.category = "mileage" /\ k.day = d} |-> l.quantity])
Days(L) == {l.day : l \in L}

LargeEnough(r, w) == r.cart_count_min = None \/ CartsOf[w] >= r.cart_count_min

\* What the rule types of evaluate() measure; thresholds in the line's units.
Broken(r, w, L) ==
    CASE r.rule_type = "max_hours_per_shift" -> \E l \in Entries(L) : l.hours > r.threshold
      [] r.rule_type = "max_hours_per_day" -> \E d \in Days(L) : HoursOn(L, "work", d) > r.threshold
      [] r.rule_type = "max_drive_hours_per_day" -> \E d \in Days(L) : HoursOn(L, "drive", d) > r.threshold
      [] r.rule_type = "max_miles_per_day" -> \E d \in Days(L) : MilesOn(L, d) > r.threshold
      [] r.rule_type \in {"max_expense_amount", "require_receipt_above"} ->
            \E l \in Expenses(L) :
                /\ r.category_filter \in {None, l.category}
                /\ l.amount > r.threshold
                /\ r.rule_type = "require_receipt_above" => ~l.receipt
      [] r.rule_type = "max_hours_per_wo" -> LargeEnough(r, w) /\ LaborHours(L) > r.threshold
      [] r.rule_type = "max_hours_per_10_carts" ->
            CartsOf[w] > 0 /\ LargeEnough(r, w) /\ LaborHours(L) * 10 > r.threshold * CartsOf[w]
      [] r.rule_type = "max_hours_per_cart" ->
            CartsOf[w] > 0 /\ LargeEnough(r, w) /\ LaborHours(L) > r.threshold * CartsOf[w]

Applies(r, w) == r.work_type_filter \in {None, WorkTypeOf[w]}

CustomFlags(w, L) ==
    {[rule |-> r.rule_type, severity |-> r.severity] :
        r \in {q \in rules : Applies(q, w) /\ Broken(q, w, L)}}

\* Spend of a work order in a category, as evaluateBudgets sees it: the card's
\* ledger, or the expenses of this invoice.
Spend(c, w, L) ==
    IF c.source = "corp_card"
    THEN SumFunction([x \in {y \in charges : y.wo = w /\ y.category = c.key} |-> x.amount])
    ELSE SumFunction([l \in {k \in Expenses(L) : k.subcategory = c.key} |-> l.amount])

\* Fault: a budget that is exactly used up counts as exceeded.
BudgetFlagsAtCap(w, L) ==
    {[rule |-> "wo_category_budget", severity |-> "flag", category |-> c] :
        c \in {k \in Categories : budgets[w, k] # None /\ Spend(k, w, L) >= budgets[w, k]}}

\* An explicit budget takes the place of the organisation's cap.
BudgetFlags(w, L) ==
    {[rule |-> "wo_category_budget", severity |-> "flag", category |-> c] :
        c \in {k \in Categories : budgets[w, k] # None /\ Spend(k, w, L) > budgets[w, k]}}
    \cup
    {[rule |-> "category_per_wo_cap", severity |-> "flag", category |-> c] :
        c \in {k \in Categories : /\ budgets[w, k] = None /\ caps[k] # None
                                  /\ Spend(k, w, L) > caps[k]}}

ReceiptFlags(L) ==
    {[rule |-> "category_receipt_required", severity |-> "flag",
      category |-> [source |-> "tech_expense", key |-> s]] :
        s \in {k \in Subcategories : /\ receipts[k] # None
                                     /\ \E l \in Expenses(L) : /\ l.subcategory = k /\ ~l.receipt
                                                               /\ l.amount > receipts[k]}}

HoursRules == {"max_hours_per_10_carts", "max_hours_per_wo", "max_hours_per_cart"}

\* Fault: the baseline gives way to the custom hours rules of any work type.
BaselineFlagsAnyRule(w, L) ==
    IF /\ CartsOf[w] > 0 /\ baseline[WorkTypeOf[w]] > 0
       /\ \A r \in rules : r.rule_type \notin HoursRules
       /\ LaborHours(L) * 10 > baseline[WorkTypeOf[w]] * CartsOf[w]
    THEN {[rule |-> "baseline_hours_per_10_carts", severity |-> "flag"]} ELSE {}

\* The baseline of a work type gives way to any active custom hours rule that
\* covers the type, also one that cart_count_min keeps from this work order.
BaselineFlags(w, L) ==
    IF /\ CartsOf[w] > 0 /\ baseline[WorkTypeOf[w]] > 0
       /\ ~\E r \in rules : r.rule_type \in HoursRules /\ Applies(r, w)
       /\ LaborHours(L) * 10 > baseline[WorkTypeOf[w]] * CartsOf[w]
    THEN {[rule |-> "baseline_hours_per_10_carts", severity |-> "flag"]} ELSE {}

Flags(i, w) ==
    LET L == Line(i, w)
    IN CustomFlags(w, L) \cup BudgetFlags(w, L) \cup ReceiptFlags(L) \cup BaselineFlags(w, L)

InvoiceFlags(i) == UNION {Flags(i, w) : w \in OnInvoice(i)}

\* over_budget_wos of GET /category-dashboard: every expense of the subcategory,
\* on whatever invoice, against the explicit budgets.
OverBudget ==
    {wc \in WorkOrders \X Categories :
        /\ budgets[wc] # None
        /\ LET all == {l \in Expenses(lines) : l.wo = wc[1]}
           IN Spend(wc[2], wc[1], all) > budgets[wc]}

-----------------------------------------------------------------------------
(* The invoices.                                                             *)

Log(l) ==
    /\ status[l.invoice] = "draft" /\ l \notin lines /\ Cardinality(lines) < MaxLines
    /\ lines' = lines \cup {l}
    /\ UNCHANGED <<rate, status, policy, card>>

Unlog(l) ==
    /\ l \in lines /\ status[l.invoice] = "draft"
    /\ lines' = lines \ {l}
    /\ UNCHANGED <<rate, status, policy, card>>

SetRate(r) ==
    /\ rate' = r
    /\ UNCHANGED <<lines, status, policy, card>>

\* POST /invoices/:id/submit: a technician is never held back, a manager by any
\* blocking flag, and by the others unless there is a note.
Submit(i, manager, noted) ==
    /\ status[i] = "draft"
    /\ manager => \A f \in InvoiceFlags(i) : f.severity # "block"
    /\ manager /\ InvoiceFlags(i) # {} => noted
    /\ status' = [status EXCEPT ![i] = "submitted"]
    /\ UNCHANGED <<lines, rate, policy, card>>

-----------------------------------------------------------------------------
(* Policy, by any manager.                                                   *)

\* POST and PATCH /rules: active rules come, go and come back.
ToggleRule(r) ==
    /\ r \in rules \/ InForce < MaxPolicy
    /\ rules' = IF r \in rules THEN rules \ {r} ELSE rules \cup {r}
    /\ UNCHANGED <<lines, rate, status, baseline, budgets, caps, receipts, card>>

\* PUT /policy, with its default when the override is cleared.
SetBaseline(t, h) ==
    /\ baseline' = [baseline EXCEPT ![t] = h]
    /\ UNCHANGED <<lines, rate, status, rules, budgets, caps, receipts, card>>

\* PUT /category-rules/:id.
SetCap(c, amount) ==
    /\ amount = None \/ InForce < MaxPolicy
    /\ caps' = [caps EXCEPT ![c] = amount]
    /\ UNCHANGED <<lines, rate, status, rules, baseline, budgets, receipts, card>>

SetReceipt(s, amount) ==
    /\ amount = None \/ InForce < MaxPolicy
    /\ receipts' = [receipts EXCEPT ![s] = amount]
    /\ UNCHANGED <<lines, rate, status, rules, baseline, budgets, caps, card>>

\* PUT /wo-budgets and DELETE /wo-budgets/:id.  A budget may name an archived
\* category.
SetBudget(w, c, amount) ==
    /\ amount = None \/ InForce < MaxPolicy
    /\ budgets' = [budgets EXCEPT ![<<w, c>>] = amount]
    /\ UNCHANGED <<lines, rate, status, rules, baseline, caps, receipts, card>>

-----------------------------------------------------------------------------
(* The corporate card.                                                       *)

MayEdit(m, x) == m = x.by \/ m \in Seniors

Archive(k) ==
    /\ archived' = archived \cup {k}
    /\ UNCHANGED <<lines, rate, status, policy, charges>>

\* PATCH with unarchive, or POST with the name of an archived category.
Unarchive(k) ==
    /\ archived' = archived \ {k}
    /\ UNCHANGED <<lines, rate, status, policy, charges>>

Charge(x) ==
    /\ x.category \notin archived
    /\ \A y \in charges : y.id # x.id
    /\ charges' = charges \cup {x}
    /\ UNCHANGED <<lines, rate, status, policy, archived>>

EditCharge(m, x, y) ==
    /\ x \in charges /\ MayEdit(m, x)
    /\ y.id = x.id /\ y.by = x.by
    /\ y.category # x.category => y.category \notin archived
    /\ charges' = (charges \ {x}) \cup {y}
    /\ UNCHANGED <<lines, rate, status, policy, archived>>

DeleteCharge(m, x) ==
    /\ x \in charges /\ MayEdit(m, x)
    /\ charges' = charges \ {x}
    /\ UNCHANGED <<lines, rate, status, policy, archived>>

-----------------------------------------------------------------------------
Init ==
    /\ lines = {} /\ rate \in Rates
    /\ status = [i \in Invoices |-> "draft"]
    /\ rules = {}
    /\ baseline \in [WorkTypes -> Baselines]
    /\ budgets = [wc \in WorkOrders \X Categories |-> None]
    /\ caps = [c \in Categories |-> None]
    /\ receipts = [s \in Subcategories |-> None]
    /\ archived = {} /\ charges = {}

Next ==
    \/ \E l \in LineChoices : Log(l) \/ Unlog(l)
    \/ \E r \in Rates : SetRate(r)
    \/ \E i \in Invoices, manager, noted \in BOOLEAN : Submit(i, manager, noted)
    \/ \E r \in RuleChoices : ToggleRule(r)
    \/ \E t \in WorkTypes, h \in Baselines : SetBaseline(t, h)
    \/ \E c \in Categories, a \in Caps \cup {None} : SetCap(c, a)
    \/ \E s \in Subcategories, a \in Caps \cup {None} : SetReceipt(s, a)
    \/ \E w \in WorkOrders, c \in Categories, a \in Caps \cup {None} : SetBudget(w, c, a)
    \/ \E k \in CardCategories : Archive(k) \/ Unarchive(k)
    \/ \E x \in ChargeChoices : Charge(x)
    \/ \E m \in Managers, x, y \in ChargeChoices : EditCharge(m, x, y)
    \/ \E m \in Managers, x \in ChargeChoices : DeleteCharge(m, x)

Spec == Init /\ [][Next]_vars

-----------------------------------------------------------------------------
(* The two breakdowns of an invoice, by work order and by date, come to the  *)
(* same within the rounding of their groups, and to what its lines come to:  *)
(* every line in exactly one place, app hours only where MaintainX has none. *)
(* The parts of the summary add up to the total.                             *)
TotalsAgree ==
    \A i \in Invoices :
        LET L == LinesOf(i)
            due == {l \in L : \/ l.kind = "expense"
                              \/ /\ l.kind = "entry" /\ ~l.open
                                 /\ (l.mode = "drive" \/ l.source # "app")
                              \/ /\ l.kind = "entry" /\ ~l.open
                                 /\ \A m \in L : m.kind = "entry" /\ m.wo = l.wo /\ m.mode = "work"
                                        => m.open \/ m.source # "maintainx_sync"}
            exact == Sum(due, rate)
            near(total, groups) ==
                total * 100 <= exact + 100 * groups /\ exact <= total * 100 + 100 * groups
        IN /\ near(TotalByWorkOrder(L, rate), Cardinality({l.wo : l \in L}))
           /\ near(TotalByDate(L, rate), Cardinality({l.day : l \in L}))
           /\ LET parts == Summary(L, rate)
              IN SumFunction(parts) = TotalByWorkOrder(L, rate)

(* A line flagged for its budget is on the dashboard's list of work orders   *)
(* over budget: evaluateBudgets and GET /category-dashboard sum different    *)
(* rows, the invoice's and everybody's.                                      *)
FlaggedIsOverBudget ==
    \A i \in Invoices : \A w \in OnInvoice(i) : \A c \in Categories :
        [rule |-> "wo_category_budget", severity |-> "flag", category |-> c] \in Flags(i, w)
            => <<w, c>> \in OverBudget

(* A work order that took more than its baseline hours is flagged, unless a  *)
(* manager's own hours rule covers its work type.                            *)
OverrunsFlagged ==
    \A i \in Invoices : \A w \in OnInvoice(i) :
        /\ baseline[WorkTypeOf[w]] > 0 /\ CartsOf[w] > 0
        /\ LaborHours(Line(i, w)) * 10 > baseline[WorkTypeOf[w]] * CartsOf[w]
        /\ \A r \in rules : r.work_type_filter \notin {None, WorkTypeOf[w]}
        => Flags(i, w) # {}

(* What is flagged deserves it, and what deserves it is flagged.             *)
FlagsAreDeserved == FlaggedIsOverBudget /\ OverrunsFlagged
=============================================================================
