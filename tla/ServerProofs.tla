---------------------------- MODULE ServerProofs ----------------------------
(* Theorems about what the server does by itself: its database from release  *)
(* to release, however often the process dies on the way, and the pulls of   *)
(* tickets that change at MaintainX while they are listed.                   *)
EXTENDS Boot, WorkOrders, FiniteFacts

-----------------------------------------------------------------------------
(* Boot *)

\* The stages past each part that leaves something behind.
PastTags == {"backfill", "up"}
PastCarry == PastTags \cup {"dropKey", "tags"}
PastRepointRules == PastCarry \cup {"carry"}
PastRepointOrders == PastRepointRules \cup {"repointRules"}
PastTypeRow == PastRepointOrders \cup {"repointOrders"}
PastHold == PastTypeRow \cup {"seedTypes", "typeRow"}
PastRules == PastHold \cup {"hold"}
PastOrders == PastRules \cup {"rules"}
PastExpenses == PastOrders \cup {"orders"}
PastInvoices == PastExpenses \cup {"expenses"}
PastRename == PastInvoices \cup {"invoices"}
PastColumns == PastRename \cup {"createRules", "copyRules", "dropRules", "renameRules"}
PastSchema == PastColumns \cup {"columns"}

Wanted == [rules : SUBSET Rules, team : SUBSET Techs, tag : BOOLEAN, hours : Hours]

ShapeInv == disk \in Database /\ wanted \in Wanted

ColumnsInv ==
    /\ stage \in PastColumns => "invoices" \in disk.columns
    /\ stage \in PastTags => "tags" \in disk.columns

\* A rebuild of the work orders brings back the constraint on their status,
\* which the part after the next sheds.
ChecksInv ==
    /\ wanted.tag = ("tag" \in disk.checks)
    /\ stage \in PastRename => "rate" \notin disk.checks
    /\ stage \in PastInvoices => "paid" \notin disk.checks
    /\ stage \in PastExpenses => "labor" \notin disk.checks
    /\ stage \in PastOrders => "orderTypes" \notin disk.checks
    /\ stage \in PastRules => "ruleTypes" \notin disk.checks
    /\ stage \in PastHold => "hold" \notin disk.checks

NamesInv ==
    /\ stage \in PastTypeRow => "service" \notin disk.types
    /\ stage \in PastRepointOrders => "service" \notin disk.orders
    /\ stage \in PastRepointRules => \A r \in disk.rules : r[2] # "service"

\* The rules are in the table a start left that died, and no start after it gets
\* past the part that would make a table of that name.
Stranded ==
    /\ disk.temp # Absent
    /\ \/ ~disk.hasRules /\ stage \in {"down", "schema"}
       \/ disk.hasRules /\ "ruleTypes" \in disk.checks /\ "rate" \notin disk.checks

Ids(S) == {r[1] : r \in S}
Renaming == stage = "renameRules" /\ "rate" \in disk.checks

RulesInv ==
    /\ Ids(disk.rules) = wanted.rules \/ Renaming \/ Stranded
    /\ Renaming => ~disk.hasRules /\ disk.temp # Absent /\ Ids(disk.temp) = wanted.rules
    /\ stage = "dropRules" /\ "rate" \in disk.checks => disk.temp = disk.rules
    /\ stage = "copyRules" /\ "rate" \in disk.checks => disk.temp # Absent
    /\ disk.hasRules \/ disk.rules = {}
    /\ stage \in PastSchema => disk.hasRules \/ Renaming

\* The old key decides as long as it is there, and by the time it goes the new
\* one has its hours.
HoursInv ==
    /\ wanted.hours = IF disk.hours.service # Absent THEN disk.hours.service ELSE disk.hours.maintenance
    /\ stage = "dropKey" => wanted.hours = disk.hours.maintenance

BootInv == ShapeInv /\ ColumnsInv /\ ChecksInv /\ NamesInv /\ RulesInv /\ HoursInv

LEMMA StageOrder ==
    ASSUME NEW k \in 1..19
    PROVE  Following(Stages[k]) = Stages[k + 1]
<1>1. DOMAIN Stages = 1..20
  BY DEF Stages
<1>2. \A i, j \in 1..20 : Stages[i] = Stages[j] => i = j
  BY DEF Stages
<1>3. QED
  BY <1>1, <1>2 DEF Following

LEMMA StageNames ==
    /\ Following("schema") = "columns" /\ Following("columns") = "createRules"
    /\ Following("createRules") = "copyRules" /\ Following("copyRules") = "dropRules"
    /\ Following("dropRules") = "renameRules" /\ Following("renameRules") = "invoices"
    /\ Following("invoices") = "expenses" /\ Following("expenses") = "orders"
    /\ Following("orders") = "rules" /\ Following("rules") = "hold"
    /\ Following("hold") = "seedTypes" /\ Following("seedTypes") = "typeRow"
    /\ Following("typeRow") = "repointOrders" /\ Following("repointOrders") = "repointRules"
    /\ Following("repointRules") = "carry" /\ Following("carry") = "dropKey"
    /\ Following("dropKey") = "tags" /\ Following("tags") = "backfill"
    /\ Following("backfill") = "up" /\ Stages[1] = "schema"
<1>1. \A k \in 1..19 : Following(Stages[k]) = Stages[k + 1]
  BY StageOrder
<1>2. QED
  BY <1>1 DEF Stages

LEMMA BootDown ==
    ASSUME BootInv, UNCHANGED <<disk, wanted>>, stage' \in {"down", "schema"}
    PROVE  BootInv'
  BY DEF BootInv, ShapeInv, ColumnsInv, ChecksInv, NamesInv, RulesInv, HoursInv, Stranded, Renaming, Ids, Filters,
     PastTags, PastCarry, PastRepointRules, PastRepointOrders, PastTypeRow, PastHold, PastRules,
     PastOrders, PastExpenses, PastInvoices, PastRename, PastColumns, PastSchema

\* Pointing the rules at the new name leaves the rules what they are.
LEMMA SameIds ==
    ASSUME NEW S
    PROVE  LET new == {<<r[1], IF r[2] = "service" THEN "maintenance" ELSE r[2]>> : r \in S}
           IN {r[1] : r \in new} = {r[1] : r \in S} /\ (S = {} => new = {})
<1> DEFINE f(r) == <<r[1], IF r[2] = "service" THEN "maintenance" ELSE r[2]>>
           new == {f(r) : r \in S}
<1>1. \A r \in S : f(r) \in new /\ f(r)[1] = r[1]
  OBVIOUS
<1>2. \A q \in new : \E r \in S : q = f(r)
  OBVIOUS
<1>3. {q[1] : q \in new} = {r[1] : r \in S}
  <2>1. ASSUME NEW r \in S PROVE r[1] \in {q[1] : q \in new}
    <3> HIDE DEF f, new
    <3>1. f(r) \in new /\ f(r)[1] = r[1]
      BY <1>1
    <3>2. QED
      BY <3>1
  <2>2. ASSUME NEW q \in new PROVE q[1] \in {r[1] : r \in S}
    <3>1. PICK r \in S : q = f(r)
      BY <1>2
    <3> HIDE DEF f, new
    <3>2. q[1] = r[1]
      BY <1>1, <3>1
    <3>3. QED
      BY <3>2
  <2> HIDE DEF new
  <2>3. QED
    BY <2>1, <2>2
<1> HIDE DEF new
<1>4. S = {} => new = {}
  BY <1>2
<1>5. QED
  BY <1>3, <1>4 DEF new

LEMMA BootStepKeeps == BootInv /\ BootStep => BootInv'
<1> SUFFICES ASSUME BootInv, BootStep PROVE BootInv'
    OBVIOUS
<1> USE StageNames DEF Commit, Throw, Skip, Database, Wanted,
     BootInv, ShapeInv, ColumnsInv, ChecksInv, NamesInv, RulesInv, HoursInv, Stranded, Renaming, Ids, Filters,
     PastTags, PastCarry, PastRepointRules, PastRepointOrders, PastTypeRow, PastHold, PastRules,
     PastOrders, PastExpenses, PastInvoices, PastRename, PastColumns, PastSchema
<1>1. CASE Start
  BY <1>1, BootDown DEF Start
<1>2. CASE ApplySchema
  <2>1. CASE disk.hasRules
    BY <1>2, <2>1 DEF ApplySchema
  <2>2. CASE ~disk.hasRules
    <3>1. /\ stage = "schema" /\ stage' = "columns" /\ UNCHANGED wanted
          /\ disk' = [disk EXCEPT !.hasRules = TRUE, !.rules = {},
                                  !.checks = (@ \ {"rate"}) \cup {"ruleTypes"}]
      BY <1>2, <2>2 DEF ApplySchema
    <3>2. disk.rules = {} /\ "ruleTypes" \in Checks \ {"rate"}
      BY <2>2 DEF Checks
    <3>3. disk' \in Database
      BY <3>1, <3>2
    <3>4. disk'.rules = {} /\ disk'.hasRules /\ disk'.hours = disk.hours
      BY <3>1
    <3>5. QED
      BY <3>1, <3>2, <3>3, <3>4
  <2>3. QED
    BY <2>1, <2>2
<1>3. CASE AddColumns
  BY <1>3 DEF AddColumns
<1>4. CASE CreateRules
  <2>1. CASE "rate" \in disk.checks /\ disk.temp = Absent
    <3>1. /\ stage = "createRules" /\ stage' = "copyRules" /\ UNCHANGED wanted
          /\ disk' = [disk EXCEPT !.temp = {}]
      BY <1>4, <2>1 DEF CreateRules
    <3>2. {} \in Filters /\ {} # Absent
      BY AbsentAssumption
    <3>3. disk' \in Database /\ disk'.temp # Absent
      BY <3>1, <3>2
    <3>4. Ids(disk.rules) = wanted.rules
      BY <2>1, <3>1
    <3>5. RulesInv'
      BY <3>1, <3>3, <3>4
    <3>6. QED
      BY <3>1, <3>3, <3>5
  <2>2. CASE ~("rate" \in disk.checks /\ disk.temp = Absent)
    BY <1>4, <2>2 DEF CreateRules
  <2>3. QED
    BY <2>1, <2>2
<1>5. CASE CopyRules
  BY <1>5 DEF CopyRules
<1>6. CASE DropRules
  <2>1. CASE "rate" \in disk.checks
    <3>1. /\ stage = "dropRules" /\ stage' = "renameRules" /\ UNCHANGED wanted
          /\ disk' = [disk EXCEPT !.hasRules = FALSE, !.rules = {}]
      BY <1>6, <2>1 DEF DropRules
    <3>2. disk.temp = disk.rules /\ Ids(disk.rules) = wanted.rules /\ disk.temp # Absent
      BY <2>1, <3>1, AbsentAssumption
    <3>3. disk' \in Database
      BY <3>1
    <3>4. RulesInv'
      BY <2>1, <3>1, <3>2
    <3>5. QED
      BY <3>1, <3>3, <3>4
  <2>2. CASE "rate" \notin disk.checks
    BY <1>6, <2>2 DEF DropRules
  <2>3. QED
    BY <2>1, <2>2
<1>7. CASE RenameRules
  <2>1. CASE "rate" \in disk.checks
    <3>1. PICK C : C = (disk.checks \ {"rate"}) \cup {"ruleTypes"}
      OBVIOUS
    <3>2. /\ stage = "renameRules" /\ stage' = "invoices" /\ UNCHANGED wanted
          /\ disk' = [disk EXCEPT !.hasRules = TRUE, !.rules = disk.temp, !.temp = Absent, !.checks = C]
      BY <1>7, <2>1, <3>1 DEF RenameRules
    <3>3. C \in SUBSET Checks /\ "rate" \notin C /\ ("tag" \in C <=> "tag" \in disk.checks)
      BY <3>1 DEF Checks
    <3>4. disk.temp # Absent /\ Ids(disk.temp) = wanted.rules /\ disk.temp \in Filters
      BY <2>1, <3>2
    <3>5. disk' \in Database
      BY <3>2, <3>3, <3>4
    <3>6. RulesInv'
      BY <3>2, <3>3, <3>4
    <3>7. ColumnsInv' /\ ChecksInv' /\ NamesInv' /\ HoursInv'
      BY <3>2, <3>3
    <3>8. QED
      BY <3>2, <3>5, <3>6, <3>7
  <2>2. CASE "rate" \notin disk.checks
    BY <1>7, <2>2 DEF RenameRules
  <2>3. QED
    BY <2>1, <2>2
<1>8. CASE RebuildInvoices
  BY <1>8 DEF RebuildInvoices, Rebuild
<1>9. CASE RebuildExpenses
  BY <1>9 DEF RebuildExpenses, Rebuild
<1>10. CASE RebuildOrders
  <2>1. CASE "orderTypes" \in disk.checks /\ ~("tags" \in disk.columns \/ disk.lines)
    <3>1. /\ stage = "orders" /\ stage' = "rules" /\ UNCHANGED wanted
          /\ disk' = [[disk EXCEPT !.checks = @ \cup {"hold"}] EXCEPT !.checks = @ \ {"orderTypes"}]
      BY <1>10, <2>1 DEF RebuildOrders, Rebuild
    <3>2. disk' = [disk EXCEPT !.checks = (disk.checks \cup {"hold"}) \ {"orderTypes"}]
      BY <3>1
    <3>3. (disk.checks \cup {"hold"}) \ {"orderTypes"} \in SUBSET Checks
      BY DEF Checks
    <3>4. QED
      BY <3>1, <3>2, <3>3
  <2>2. CASE ~("orderTypes" \in disk.checks /\ ~("tags" \in disk.columns \/ disk.lines))
    BY <1>10, <2>2 DEF RebuildOrders, Rebuild
  <2>3. QED
    BY <2>1, <2>2
<1>11. CASE RebuildRules
  BY <1>11 DEF RebuildRules
<1>12. CASE AllowOnHold
  BY <1>12 DEF AllowOnHold
<1>13. CASE SeedTypes
  <2>1. disk.types \cup {"maintenance"} \in SUBSET TypeNames
    BY TypesAssumption
  <2>2. QED
    BY <1>13, <2>1 DEF SeedTypes
<1>14. CASE RenameType
  BY <1>14 DEF RenameType
<1>15. CASE RepointOrders
  <2>1. Renamed(disk.orders) \in SUBSET TypeNames /\ "service" \notin Renamed(disk.orders)
    BY TypesAssumption DEF Renamed
  <2>2. QED
    BY <1>15, <2>1 DEF RepointOrders
<1>16. CASE RepointRules
  <2> DEFINE new == {<<r[1], IF r[2] = "service" THEN "maintenance" ELSE r[2]>> : r \in disk.rules}
  <2>1. new \in SUBSET (Rules \X TypeNames) /\ \A r \in new : r[2] # "service"
    BY TypesAssumption
  <2>2. {r[1] : r \in new} = {r[1] : r \in disk.rules} /\ (disk.rules = {} => new = {})
    BY SameIds
  <2>3. disk' = [disk EXCEPT !.rules = new] /\ stage = "repointRules" /\ stage' = "carry" /\ UNCHANGED wanted
    BY <1>16 DEF RepointRules
  <2> HIDE DEF new
  <2>4. QED
    BY <2>1, <2>2, <2>3
<1>17. CASE CarryHours
  BY <1>17 DEF CarryHours
<1>18. CASE DropKey
  <2>1. /\ stage = "dropKey" /\ stage' = "tags" /\ UNCHANGED wanted
        /\ disk' = [disk EXCEPT !.hours.service = Absent]
    BY <1>18 DEF DropKey
  <2>2. disk.hours \in [service : Hours, maintenance : Hours] /\ Absent \in Hours
    BY DEF Hours
  <2>3. [disk.hours EXCEPT !.service = Absent] \in [service : Hours, maintenance : Hours]
    BY <2>2
  <2>4. disk' \in Database /\ disk'.hours = [disk.hours EXCEPT !.service = Absent]
    BY <2>1, <2>3
  <2>5. HoursInv'
    BY <2>1, <2>2, <2>4
  <2>6. QED
    BY <2>1, <2>4, <2>5
<1>19. CASE AddTags
  BY <1>19 DEF AddTags
<1>20. CASE Backfill
  BY <1>20 DEF Backfill
<1>21. QED
  BY <1>1, <1>2, <1>3, <1>4, <1>5, <1>6, <1>7, <1>8, <1>9, <1>10, <1>11, <1>12, <1>13, <1>14, <1>15, <1>16, <1>17, <1>18, <1>19, <1>20 DEF BootStep

LEMMA OneMoreId ==
    ASSUME NEW S, NEW r, NEW filter
    PROVE  {q[1] : q \in S \cup {<<r, filter>>}} = {q[1] : q \in S} \cup {r}
<1> DEFINE pair == <<r, filter>>
<1>1. pair[1] = r
  OBVIOUS
<1> HIDE DEF pair
<1>2. {q[1] : q \in S \cup {pair}} = {q[1] : q \in S} \cup {pair[1]}
  OBVIOUS
<1>3. QED
  BY <1>1, <1>2 DEF pair

LEMMA BootNextKeeps ==
    BootInv /\ [BootNext]_bootVars => BootInv'
<1> SUFFICES ASSUME BootInv, [BootNext]_bootVars
             PROVE  BootInv'
    OBVIOUS
<1>1. CASE UNCHANGED bootVars
  BY <1>1 DEF bootVars, BootInv, ShapeInv, ColumnsInv, ChecksInv, NamesInv, RulesInv, HoursInv, Stranded, Renaming, Ids, Filters
<1>2. CASE BootStep
  BY <1>2, BootStepKeeps
<1>3. CASE Crash
  BY <1>3, BootDown DEF Crash
<1> USE DEF BootInv, ShapeInv, ColumnsInv, ChecksInv, NamesInv, RulesInv, HoursInv, Stranded, Renaming, Ids, Filters, Database, Wanted
<1>4. ASSUME NEW r \in Rules, AddRule(r, "maintenance") PROVE BootInv'
  <2>1. /\ stage = "up" /\ stage' = "up"
        /\ disk' = [disk EXCEPT !.rules = disk.rules \cup {<<r, "maintenance">>}]
        /\ wanted' = [wanted EXCEPT !.rules = wanted.rules \cup {r}]
    BY <1>4 DEF AddRule
  <2>2. disk.rules \cup {<<r, "maintenance">>} \in SUBSET (Rules \X TypeNames)
    BY TypesAssumption
  <2>3. disk' \in Database /\ wanted' \in Wanted
    BY <2>1, <2>2
  <2>4. {q[1] : q \in disk.rules \cup {<<r, "maintenance">>}} = {q[1] : q \in disk.rules} \cup {r}
    BY OneMoreId
  <2>5. "up" \in PastSchema
    BY DEF PastTags, PastCarry, PastRepointRules, PastRepointOrders, PastTypeRow, PastHold, PastRules,
           PastOrders, PastExpenses, PastInvoices, PastRename, PastColumns, PastSchema
  <2>6. RulesInv'
    BY <2>1, <2>4, <2>5
  <2>7. NamesInv'
    BY <2>1
  <2>8. QED
    BY <2>1, <2>3, <2>6, <2>7
<1>5. ASSUME NEW n \in 1..2, SaveHours(n) PROVE BootInv'
  <2>1. n \in Nat /\ n # Absent /\ n \in Hours
    BY AbsentAssumption DEF Hours
  <2>2. /\ stage = "up" /\ stage' = "up"
        /\ disk' = [disk EXCEPT !.hours.service = n] /\ wanted' = [wanted EXCEPT !.hours = n]
    BY <1>5 DEF SaveHours
  <2>3. [disk.hours EXCEPT !.service = n] \in [service : Hours, maintenance : Hours]
    BY <2>1
  <2>4. disk' \in Database /\ wanted' \in Wanted /\ disk'.hours = [disk.hours EXCEPT !.service = n]
    BY <2>1, <2>2, <2>3
  <2>5. HoursInv'
    BY <2>1, <2>2, <2>4
  <2>6. QED
    BY <2>2, <2>4, <2>5
<1>6. ASSUME NEW t \in Techs, RemoveTech(t) PROVE BootInv'
  BY <1>6 DEF RemoveTech
<1>7. QED
  BY <1>1, <1>2, <1>3, <1>4, <1>5, <1>6 DEF BootNext

LEMMA BootStart ==
    (\A d \in Databases : Upgradable(d)) /\ BootInit => BootInv
<1> SUFFICES ASSUME \A d \in Databases : Upgradable(d), BootInit PROVE BootInv
    OBVIOUS
<1>1. disk \in Database /\ (disk.hasRules \/ disk.rules = {}) /\ stage = "down"
  BY DEF BootInit, Upgradable
<1>2. wanted \in Wanted
  <2>1. PICK tag : tag = ("tag" \in disk.checks)
    OBVIOUS
  <2>2. PICK hours : hours = IF disk.hours.service # Absent THEN disk.hours.service
                             ELSE disk.hours.maintenance
    OBVIOUS
  <2>3. hours \in Hours /\ {r[1] : r \in disk.rules} \in SUBSET Rules
    BY <1>1, <2>2 DEF Database, Filters
  <2>4. wanted = [rules |-> {r[1] : r \in disk.rules}, team |-> Techs, tag |-> tag, hours |-> hours]
    BY <2>1, <2>2, Zenon DEF BootInit
  <2>5. tag \in BOOLEAN
    BY <2>1
  <2>6. QED
    BY <2>3, <2>4, <2>5 DEF Wanted
<1>3. QED
  BY <1>1, <1>2 DEF BootInit, BootInv, ShapeInv, ColumnsInv, ChecksInv, NamesInv, RulesInv, HoursInv, Stranded, Renaming, Ids, Filters,
     PastTags, PastCarry, PastRepointRules, PastRepointOrders, PastTypeRow, PastHold, PastRules,
     PastOrders, PastExpenses, PastInvoices, PastRename, PastColumns, PastSchema

\* A server that is up is fully upgraded and has lost nothing, whatever an
\* older release left in the database, however many rules and types of work
\* there are, and wherever and however often the process died on the way.
THEOREM UpgradesLoseNothing ==
    (\A d \in Databases : Upgradable(d)) => (BootSpec => []UpgradeComplete)
<1> SUFFICES ASSUME \A d \in Databases : Upgradable(d) PROVE BootSpec => []UpgradeComplete
    OBVIOUS
<1>1. BootInit => BootInv
  BY BootStart
<1>2. BootInv /\ [BootNext]_bootVars => BootInv'
  BY BootNextKeeps
<1>3. BootInv => UpgradeComplete
  <2> SUFFICES ASSUME BootInv, stage = "up"
               PROVE  /\ disk.columns = {"invoices", "tags"}
                      /\ disk.checks = IF wanted.tag THEN {"tag"} ELSE {}
                      /\ "service" \notin disk.types \cup disk.orders \cup {r[2] : r \in disk.rules}
                      /\ {r[1] : r \in disk.rules} = wanted.rules
                      /\ wanted.hours \in {disk.hours.maintenance, disk.hours.service}
    BY DEF UpgradeComplete
  <2> USE DEF BootInv, ShapeInv, ColumnsInv, ChecksInv, NamesInv, RulesInv, HoursInv, Stranded, Renaming, Ids, Filters, Database,
     PastTags, PastCarry, PastRepointRules, PastRepointOrders, PastTypeRow, PastHold, PastRules,
     PastOrders, PastExpenses, PastInvoices, PastRename, PastColumns, PastSchema
  <2>1. disk.columns = {"invoices", "tags"}
    OBVIOUS
  <2>2. disk.checks = IF wanted.tag THEN {"tag"} ELSE {}
    <3>1. disk.checks \subseteq {"tag"}
      BY DEF Checks
    <3>2. wanted.tag <=> "tag" \in disk.checks
      OBVIOUS
    <3>3. QED
      BY <3>1, <3>2
  <2>3. "service" \notin disk.types \cup disk.orders \cup {r[2] : r \in disk.rules}
    <3>1. "service" \notin disk.types /\ "service" \notin disk.orders
      OBVIOUS
    <3>2. \A r \in disk.rules : r[2] # "service"
      OBVIOUS
    <3>3. QED
      BY <3>1, <3>2
  <2>4. QED
    BY <2>1, <2>2, <2>3
<1>4. QED
  BY <1>1, <1>2, <1>3, PTL DEF BootSpec

-----------------------------------------------------------------------------
(* Pulls *)

\* What is listed in ascending order is all of it.
LEMMA AscendingList ==
    ASSUME NEW S \in SUBSET Nat, IsFiniteSet(S)
    PROVE  /\ Ascending(S) \in Seq(S)
           /\ \A j, k \in DOMAIN Ascending(S) : j < k => Ascending(S)[j] < Ascending(S)[k]
           /\ \A x \in S : \E k \in DOMAIN Ascending(S) : Ascending(S)[k] = x
<1>1. Orders(Ascending(S), S)
  BY OrderExists, Zenon DEF Orders, Ascending
<1>2. QED
  BY <1>1, OrderedList DEF Orders

Phase == {"OPEN", "IN_PROGRESS", "DONE"}
Answers == [ticket : Tickets, phase : Phase, type : Types, version : Nat]

Found(t) == \E type \in Types : ExternalId(t, type) \in DOMAIN wos

\* A ticket is on the pages that are still to come if it is of a later list or
\* behind the cursor of this one.
ToCome(q, t) ==
    /\ t \notin q.seen
    /\ \/ q.phase = 1 /\ (mx[t].phase = "IN_PROGRESS" \/ t > q.cursor)
       \/ q.phase = 2 /\ mx[t].phase = "IN_PROGRESS" /\ t > q.cursor

PullShape(q) ==
    /\ q = [user |-> q.user, phase |-> q.phase, cursor |-> q.cursor, items |-> q.items,
            seen |-> q.seen, raw |-> q.raw]
    /\ q.phase \in 1..3 /\ q.cursor \in Nat /\ q.items \in Seq(Answers) /\ q.seen \subseteq Tickets
    /\ q.raw # None => q.items # <<>> /\ q.raw \in Answers /\ q.raw.ticket = q.items[1].ticket

ShapeOfMx == mx \in [Tickets -> [phase : Phase, type : Types, assignees : SUBSET UserSet, version : Nat]]
ShapeOfPulls ==
    /\ pulls = [p \in Pulls |-> pulls[p]]
    /\ \A p \in Pulls : pulls[p] # None => PullShape(pulls[p])
ShapeOfSteady == steady \in [Pulls -> SUBSET Tickets]

\* Every ticket a pull has to find is active and its user's, and has its work
\* order, or waits for its details, or is on a page to come.
Expected(p) ==
    \A t \in steady[p] : pulls[p] # None =>
        /\ pulls[p].user \in mx[t].assignees /\ mx[t].phase # "DONE"
        /\ \/ Found(t)
           \/ \E k \in DOMAIN pulls[p].items : pulls[p].items[k].ticket = t
           \/ ToCome(pulls[p], t)

PullInv == ShapeOfMx /\ ShapeOfPulls /\ ShapeOfSteady /\ \A p \in Pulls : Expected(p)

\* Work orders are never deleted.
LEMMA OrdersGrow ==
    ASSUME NEW raw, NEW u, Upsert(raw, u)
    PROVE  DOMAIN wos \subseteq DOMAIN wos' /\ ExternalId(raw.ticket, raw.type) \in DOMAIN wos'
<1> DEFINE x == ExternalId(raw.ticket, raw.type)
<1>1. DOMAIN wos' = DOMAIN wos \cup {x}
  BY Zenon DEF Upsert
<1>2. QED
  BY <1>1

LEMMA OthersKeepPulls ==
    ASSUME PullInv, UNCHANGED <<mx, pulls, steady>>, DOMAIN wos \subseteq DOMAIN wos'
    PROVE  PullInv'
<1>1. \A t : Found(t) => Found(t)'
  BY DEF Found
<1>2. QED
  BY <1>1 DEF PullInv, ShapeOfMx, ShapeOfPulls, ShapeOfSteady, Expected, ToCome, PullShape

LEMMA BeginKeeps ==
    ASSUME PullInv, NEW p \in Pulls, NEW u, Begin(p, u), UNCHANGED <<mx, wos>>
    PROVE  PullInv'
<1>1. PICK q : q = [user |-> u, phase |-> 1, cursor |-> 0, items |-> <<>>, seen |-> {}, raw |-> None]
  OBVIOUS
<1>2. PICK S : S = {t \in Tickets : u \in mx[t].assignees /\ mx[t].phase # "DONE"}
  OBVIOUS
<1>3. pulls' = [pulls EXCEPT ![p] = q] /\ steady' = [steady EXCEPT ![p] = S]
  BY <1>1, <1>2 DEF Begin
<1>4. PullShape(q)
  BY <1>1 DEF PullShape
<1>5. ShapeOfMx' /\ ShapeOfPulls' /\ ShapeOfSteady'
  <2>1. ShapeOfSteady'
    BY <1>2, <1>3 DEF PullInv, ShapeOfSteady
  <2>2. pulls' = [r \in Pulls |-> pulls'[r]]
    BY <1>3 DEF PullInv, ShapeOfPulls
  <2>3. \A r \in Pulls : pulls'[r] = IF r = p THEN q ELSE pulls[r]
    BY <1>3 DEF PullInv, ShapeOfPulls
  <2>4. \A r \in Pulls : pulls'[r] # None => PullShape(pulls'[r])
    BY <1>4, <2>3 DEF PullInv, ShapeOfPulls
  <2>5. QED
    BY <2>1, <2>2, <2>4 DEF PullInv, ShapeOfMx, ShapeOfPulls, PullShape
<1>6. ASSUME NEW r \in Pulls PROVE Expected(r)'
  <2>1. CASE r = p
    <3>1. pulls'[r] = q /\ steady'[r] = S
      BY <1>3, <2>1 DEF PullInv, ShapeOfPulls, ShapeOfSteady
    <3>2. q.phase = 1 /\ q.cursor = 0 /\ q.seen = {} /\ q.user = u
      BY <1>1
    <3>3. ASSUME NEW t \in S PROVE ToCome(q, t)' /\ q.user \in mx'[t].assignees /\ mx'[t].phase # "DONE"
      <4>1. t \in Nat /\ t > 0
        BY <1>2, TicketsAssumption
      <4>2. QED
        BY <1>2, <3>2, <4>1 DEF ToCome
    <3>4. QED
      BY <3>1, <3>3 DEF Expected
  <2>2. CASE r # p
    <3>1. pulls'[r] = pulls[r] /\ steady'[r] = steady[r]
      BY <1>3, <2>2 DEF PullInv, ShapeOfPulls, ShapeOfSteady
    <3>2. QED
      BY <3>1 DEF PullInv, Expected, Found, ToCome
  <2>3. QED
    BY <2>1, <2>2
<1>7. QED
  BY <1>5, <1>6 DEF PullInv

LEMMA LeaveKeeps ==
    ASSUME PullInv, NEW p \in Pulls, Leave(p), UNCHANGED <<mx, wos>>
    PROVE  PullInv'
<1>1. pulls' = [pulls EXCEPT ![p] = None] /\ steady' = [steady EXCEPT ![p] = {}]
  BY DEF Leave
<1>2. \A r \in Pulls : /\ pulls'[r] = IF r = p THEN None ELSE pulls[r]
                       /\ steady'[r] = IF r = p THEN {} ELSE steady[r]
  BY <1>1 DEF PullInv, ShapeOfPulls, ShapeOfSteady
<1>3. ShapeOfMx' /\ ShapeOfPulls' /\ ShapeOfSteady'
  <2>1. ShapeOfMx' /\ ShapeOfSteady'
    BY <1>1 DEF PullInv, ShapeOfMx, ShapeOfSteady
  <2>2. pulls' = [r \in Pulls |-> pulls'[r]]
    BY <1>1 DEF PullInv, ShapeOfPulls
  <2>3. QED
    BY <1>2, <2>1, <2>2 DEF PullInv, ShapeOfPulls, PullShape
<1>4. ASSUME NEW r \in Pulls PROVE Expected(r)'
  BY <1>2 DEF PullInv, Expected, Found, ToCome
<1>5. QED
  BY <1>3, <1>4 DEF PullInv

LEMMA MxChangeKeeps ==
    ASSUME PullInv, NEW t \in Tickets, NEW phase \in Phase, NEW type \in Types,
           NEW a \in SUBSET UserSet, MxChange(t, phase, type, a)
    PROVE  PullInv'
<1>1. PICK x : x = [phase |-> phase, type |-> type, assignees |-> a, version |-> mx[t].version + 1]
  OBVIOUS
<1>2. mx' = [mx EXCEPT ![t] = x] /\ UNCHANGED <<wos, pulls>>
  BY <1>1, Zenon DEF MxChange
<1>3. mx[t].version \in Nat
  BY DEF PullInv, ShapeOfMx
<1>4. x \in [phase : Phase, type : Types, assignees : SUBSET UserSet, version : Nat]
  BY <1>1, <1>3
<1>5. ShapeOfMx'
  BY <1>2, <1>4 DEF PullInv, ShapeOfMx
<1>6. \A s \in Tickets : mx'[s] = IF s = t THEN x ELSE mx[s]
  BY <1>2 DEF PullInv, ShapeOfMx
<1>7. ASSUME NEW p \in Pulls
      PROVE  steady'[p] = IF pulls[p] # None /\ pulls[p].user \in a /\ phase # "DONE"
                             /\ ~(mx[t].phase = "IN_PROGRESS" /\ phase = "OPEN")
                          THEN steady[p] ELSE steady[p] \ {t}
  BY Zenon DEF MxChange
<1>8. ShapeOfSteady'
  <2>1. steady' = [p \in Pulls |-> steady'[p]]
    BY Zenon DEF MxChange
  <2>2. \A p \in Pulls : steady'[p] \subseteq steady[p]
    BY <1>7
  <2>3. QED
    BY <2>1, <2>2 DEF PullInv, ShapeOfSteady
<1>9. ShapeOfPulls'
  BY <1>2 DEF PullInv, ShapeOfPulls, PullShape
<1>10. ASSUME NEW p \in Pulls, NEW s \in steady'[p], pulls[p] # None
       PROVE  /\ pulls[p].user \in mx'[s].assignees /\ mx'[s].phase # "DONE"
              /\ \/ Found(s)
                 \/ \E k \in DOMAIN pulls[p].items : pulls[p].items[k].ticket = s
                 \/ ToCome(pulls[p], s)'
  <2>1. s \in steady[p] /\ s \in Tickets
    BY <1>7, <1>10 DEF PullInv, ShapeOfSteady
  <2>2. /\ pulls[p].user \in mx[s].assignees /\ mx[s].phase # "DONE"
        /\ \/ Found(s)
           \/ \E k \in DOMAIN pulls[p].items : pulls[p].items[k].ticket = s
           \/ ToCome(pulls[p], s)
    BY <1>10, <2>1 DEF PullInv, Expected
  <2>3. CASE s # t
    BY <1>2, <1>6, <2>1, <2>2, <2>3 DEF ToCome
  <2>4. CASE s = t
    <3>1. pulls[p].user \in a /\ phase # "DONE" /\ ~(mx[t].phase = "IN_PROGRESS" /\ phase = "OPEN")
      BY <1>7, <1>10, <2>4
    <3>2. mx'[s].phase = phase /\ mx'[s].assignees = a
      BY <1>1, <1>6, <2>4
    <3>3. ToCome(pulls[p], s) => ToCome(pulls[p], s)'
      BY <1>2, <2>2, <2>4, <3>1, <3>2 DEF ToCome, PullInv, ShapeOfMx, Phase
    <3>4. QED
      BY <2>2, <3>1, <3>2, <3>3
  <2>5. QED
    BY <2>3, <2>4
<1>11. ASSUME NEW p \in Pulls PROVE Expected(p)'
  BY <1>2, <1>10 DEF Expected, Found
<1>12. QED
  BY <1>5, <1>8, <1>9, <1>11 DEF PullInv

LEMMA FetchKeeps ==
    ASSUME PullInv, NEW p \in Pulls, FetchPage(p)
    PROVE  PullInv'
<1>1. PICK q : q = pulls[p]
  OBVIOUS
<1>2. q # None /\ q.items = <<>> /\ q.phase \in 1..2 /\ PullShape(q) /\ UNCHANGED <<mx, wos, steady>>
  BY <1>1 DEF FetchPage, Phases, PullInv, ShapeOfPulls, PullShape
<1>3. PICK L : L = {t \in Tickets : mx[t].phase = Phases[q.phase] /\ t > q.cursor}
  OBVIOUS
<1>4. PICK listed : listed = Ascending(L)
  OBVIOUS
<1>5. PICK last : last = (Len(listed) <= PageSize)
  OBVIOUS
<1>6. PICK page : page = {listed[k] : k \in 1..(IF Len(listed) <= PageSize THEN Len(listed) ELSE PageSize)}
  OBVIOUS
<1>7. PICK M : M = {t \in page : t \notin q.seen /\ q.user \in mx[t].assignees}
  OBVIOUS
<1>8. PICK mine : mine = Ascending(M)
  OBVIOUS
<1>9. PICK items : items = [k \in DOMAIN mine |-> Raw(mine[k])]
  OBVIOUS
<1>10. PICK n : n = [user |-> q.user,
                     phase |-> IF Len(listed) <= PageSize THEN q.phase + 1 ELSE q.phase,
                     cursor |-> IF Len(listed) <= PageSize THEN 0 ELSE listed[PageSize],
                     items |-> items, seen |-> q.seen \cup page, raw |-> q.raw]
  OBVIOUS
<1>11. pulls' = [pulls EXCEPT ![p] = n]
  <2>1. listed = Listed(q)
    BY <1>3, <1>4, Zenon DEF Listed
  <2>2. /\ page = {listed[k] : k \in 1..(IF Len(listed) <= PageSize THEN Len(listed) ELSE PageSize)}
        /\ mine = Ascending({t \in page : t \notin q.seen /\ q.user \in mx[t].assignees})
    BY <1>6, <1>7, <1>8, Zenon
  <2>3. QED
    BY <1>1, <2>1, <2>2, <1>9, <1>10 DEF FetchPage
<1>12. /\ L \subseteq Nat /\ IsFiniteSet(L) /\ L \subseteq Tickets
  BY <1>3, TicketsAssumption, FS_Subset
<1>13. /\ listed \in Seq(L)
       /\ \A j, k \in DOMAIN listed : j < k => listed[j] < listed[k]
       /\ \A x \in L : \E k \in DOMAIN listed : listed[k] = x
  BY <1>4, <1>12, AscendingList
<1>14. page \subseteq L
  BY <1>6, <1>13, TicketsAssumption
<1>15. M \subseteq Nat /\ IsFiniteSet(M) /\ M \subseteq Tickets
  BY <1>7, <1>12, <1>14, FS_Subset
<1>16. /\ mine \in Seq(M)
       /\ \A x \in M : \E k \in DOMAIN mine : mine[k] = x
  BY <1>8, <1>15, AscendingList
<1>17. /\ items \in Seq(Answers)
       /\ \A x \in M : \E k \in DOMAIN items : items[k].ticket = x
  <2>1. \A t \in Tickets : Raw(t) \in Answers /\ Raw(t).ticket = t
    BY DEF Raw, Answers, PullInv, ShapeOfMx
  <2>2. DOMAIN items = 1..Len(mine) /\ Len(mine) \in Nat /\ \A k \in 1..Len(mine) : items[k] = Raw(mine[k])
    BY <1>9, <1>16
  <2>3. \A k \in 1..Len(mine) : mine[k] \in Tickets
    <3>1. \A k \in 1..Len(mine) : mine[k] \in M
      BY <1>16
    <3>2. QED
      BY <1>15, <3>1
  <2>4. items = [k \in 1..Len(mine) |-> items[k]]
    BY <1>9, <2>2
  <2>5. QED
    BY <1>16, <2>1, <2>2, <2>3, <2>4
<1>18. n.user = q.user /\ n.items = items /\ n.seen = q.seen \cup page /\ n.raw = None
  BY <1>2, <1>10 DEF PullShape
<1>19. Len(listed) \in Nat /\ DOMAIN listed = 1..Len(listed) /\ PageSize \in Nat \ {0}
  BY <1>13, TicketsAssumption
<1>20. ASSUME Len(listed) <= PageSize
       PROVE  /\ n.phase \in 1..3 /\ n.cursor \in Nat
              /\ \A s \in Tickets \ page : ToCome(q, s) /\ mx[s].phase # "DONE" => ToCome(n, s)
  <2>1. n.phase = q.phase + 1 /\ n.cursor = 0
    BY <1>10, <1>20
  <2>2. L \subseteq page
    BY <1>6, <1>13, <1>19, <1>20
  <2>3. ASSUME NEW s \in Tickets \ page, ToCome(q, s), mx[s].phase # "DONE" PROVE ToCome(n, s)
    <3>1. s \in Nat /\ s > 0 /\ s \notin L /\ mx[s].phase \in {"OPEN", "IN_PROGRESS"}
      BY <2>2, <2>3, TicketsAssumption DEF PullInv, ShapeOfMx, Phase
    <3>2. q.phase = 1 /\ mx[s].phase = "IN_PROGRESS"
      BY <1>3, <2>3, <3>1 DEF ToCome, Phases
    <3>3. QED
      BY <1>18, <2>1, <2>3, <3>1, <3>2 DEF ToCome
  <2>4. n.phase \in 1..3 /\ n.cursor \in Nat
    BY <1>2, <2>1
  <2>5. QED
    BY <2>3, <2>4
<1>21. ASSUME ~(Len(listed) <= PageSize)
       PROVE  /\ n.phase \in 1..3 /\ n.cursor \in Nat
              /\ \A s \in Tickets \ page : ToCome(q, s) /\ mx[s].phase # "DONE" => ToCome(n, s)
  <2>1. n.phase = q.phase /\ n.cursor = listed[PageSize] /\ PageSize \in DOMAIN listed
    BY <1>10, <1>19, <1>21
  <2>2. n.cursor \in Nat
    <3>1. listed[PageSize] \in L
      BY <1>13, <2>1
    <3>2. QED
      BY <1>12, <2>1, <3>1
  <2>3. ASSUME NEW s \in L \ page PROVE s > n.cursor
    <3>1. PICK k \in DOMAIN listed : listed[k] = s
      BY <1>13
    <3>2. k \notin 1..PageSize
      BY <1>6, <1>21, <2>3, <3>1
    <3>3. k > PageSize
      BY <1>19, <3>2
    <3>4. listed[PageSize] < listed[k]
      BY <1>13, <2>1, <3>3
    <3>5. QED
      BY <1>12, <2>1, <2>2, <2>3, <3>1, <3>4
  <2>4. ASSUME NEW s \in Tickets \ page, ToCome(q, s), mx[s].phase # "DONE" PROVE ToCome(n, s)
    <3>1. mx[s].phase \in {"OPEN", "IN_PROGRESS"}
      BY <2>4 DEF PullInv, ShapeOfMx, Phase
    <3>2. CASE s \in L
      <4>1. s > n.cursor
        BY <2>3, <2>4, <3>2
      <4>2. QED
        BY <1>2, <1>18, <2>1, <2>4, <4>1 DEF ToCome
    <3>3. CASE s \notin L
      <4>1. q.phase = 1 /\ mx[s].phase = "IN_PROGRESS"
        BY <1>3, <2>4, <3>1, <3>3 DEF ToCome, Phases
      <4>2. QED
        BY <1>18, <2>1, <2>4, <4>1 DEF ToCome
    <3>4. QED
      BY <3>2, <3>3
  <2>5. QED
    BY <1>2, <2>1, <2>2, <2>4
<1>22. PullShape(n)
  <2>1. n = [user |-> n.user, phase |-> n.phase, cursor |-> n.cursor, items |-> n.items,
            seen |-> n.seen, raw |-> n.raw]
    BY <1>10
  <2>2. n.phase \in 1..3 /\ n.cursor \in Nat
    BY <1>20, <1>21
  <2>3. n.seen \subseteq Tickets
    BY <1>2, <1>12, <1>14, <1>18 DEF PullShape
  <2>4. QED
    BY <1>17, <1>18, <2>1, <2>2, <2>3 DEF PullShape
<1>23. \A r \in Pulls : pulls'[r] = IF r = p THEN n ELSE pulls[r]
  BY <1>11 DEF PullInv, ShapeOfPulls
<1>24. ShapeOfMx' /\ ShapeOfPulls' /\ ShapeOfSteady'
  <2>1. pulls' = [r \in Pulls |-> pulls'[r]]
    BY <1>11 DEF PullInv, ShapeOfPulls
  <2>2. \A r \in Pulls : pulls'[r] # None => PullShape(pulls'[r])
    BY <1>22, <1>23 DEF PullInv, ShapeOfPulls
  <2>3. ShapeOfPulls'
    BY <2>1, <2>2 DEF ShapeOfPulls, PullShape
  <2>4. QED
    BY <1>2, <2>3 DEF PullInv, ShapeOfMx, ShapeOfSteady
<1>25. ASSUME NEW s \in steady[p]
       PROVE  /\ n.user \in mx[s].assignees /\ mx[s].phase # "DONE"
              /\ \/ Found(s)
                 \/ \E k \in DOMAIN n.items : n.items[k].ticket = s
                 \/ ToCome(n, s)
  <2>1. s \in Tickets
    BY DEF PullInv, ShapeOfSteady
  <2>2. /\ q.user \in mx[s].assignees /\ mx[s].phase # "DONE"
        /\ Found(s) \/ ToCome(q, s)
    BY <1>1, <1>2 DEF PullInv, Expected
  <2>3. CASE ToCome(q, s) /\ s \in page
    <3>1. s \in M
      BY <1>7, <2>2, <2>3 DEF ToCome
    <3>2. QED
      BY <1>17, <1>18, <2>2, <3>1
  <2>4. CASE ToCome(q, s) /\ s \notin page
    <3>1. ToCome(n, s)
      BY <1>20, <1>21, <2>1, <2>2, <2>4
    <3>2. QED
      BY <1>18, <2>2, <3>1
  <2>5. QED
    BY <1>18, <2>2, <2>3, <2>4
<1>26. ASSUME NEW r \in Pulls PROVE Expected(r)'
  <2>1. CASE r = p
    <3>1. pulls'[r] = n
      BY <1>23, <2>1
    <3>2. QED
      BY <1>2, <1>25, <2>1, <3>1 DEF Expected, Found, ToCome
  <2>2. CASE r # p
    BY <1>2, <1>23, <2>2 DEF PullInv, Expected, Found, ToCome
  <2>3. QED
    BY <2>1, <2>2
<1>27. QED
  BY <1>24, <1>26 DEF PullInv

LEMMA DetailKeeps ==
    ASSUME PullInv, NEW p \in Pulls, NEW ok \in BOOLEAN, Detail(p, ok)
    PROVE  PullInv'
<1>1. PICK q : q = pulls[p]
  OBVIOUS
<1>2. q # None /\ q.items # <<>> /\ PullShape(q) /\ UNCHANGED <<mx, wos, steady>>
  BY <1>1 DEF Detail, PullInv, ShapeOfPulls
<1>3. PICK raw : raw = IF ok THEN Raw(Head(q.items).ticket) ELSE Head(q.items)
  OBVIOUS
<1>4. pulls' = [pulls EXCEPT ![p].raw = raw]
  BY <1>1, <1>3 DEF Detail
<1>5. PICK n : n = [q EXCEPT !.raw = raw]
  OBVIOUS
<1>6. pulls' = [pulls EXCEPT ![p] = n]
  BY <1>1, <1>4, <1>5, Zenon
<1>7. n = [user |-> q.user, phase |-> q.phase, cursor |-> q.cursor, items |-> q.items,
          seen |-> q.seen, raw |-> raw]
  BY <1>2, <1>5 DEF PullShape
<1>8. raw \in Answers /\ raw.ticket = q.items[1].ticket
  <2>1. Head(q.items) = q.items[1] /\ Head(q.items) \in Answers
    BY <1>2 DEF PullShape
  <2>2. \A t \in Tickets : Raw(t) \in Answers /\ Raw(t).ticket = t
    BY DEF Raw, Answers, PullInv, ShapeOfMx
  <2>3. Head(q.items).ticket \in Tickets
    BY <2>1 DEF Answers
  <2>4. QED
    BY <1>3, <2>1, <2>2, <2>3
<1>9. PullShape(n)
  BY <1>2, <1>7, <1>8 DEF PullShape
<1>10. \A r \in Pulls : pulls'[r] = IF r = p THEN n ELSE pulls[r]
  BY <1>6 DEF PullInv, ShapeOfPulls
<1>11. ShapeOfMx' /\ ShapeOfPulls' /\ ShapeOfSteady'
  <2>1. pulls' = [r \in Pulls |-> pulls'[r]]
    BY <1>6 DEF PullInv, ShapeOfPulls
  <2>2. \A r \in Pulls : pulls'[r] # None => PullShape(pulls'[r])
    BY <1>9, <1>10 DEF PullInv, ShapeOfPulls
  <2>3. ShapeOfPulls'
    BY <2>1, <2>2 DEF ShapeOfPulls, PullShape
  <2>4. QED
    BY <1>2, <2>3 DEF PullInv, ShapeOfMx, ShapeOfSteady
<1>12. ASSUME NEW r \in Pulls PROVE Expected(r)'
  <2>1. CASE r = p
    BY <1>1, <1>2, <1>7, <1>10, <2>1 DEF PullInv, Expected, Found, ToCome
  <2>2. CASE r # p
    BY <1>2, <1>10, <2>2 DEF PullInv, Expected, Found, ToCome
  <2>3. QED
    BY <2>1, <2>2
<1>13. QED
  BY <1>11, <1>12 DEF PullInv

LEMMA ProcessKeeps ==
    ASSUME PullInv, NEW p \in Pulls, Process(p)
    PROVE  PullInv'
<1>1. PICK q : q = pulls[p]
  OBVIOUS
<1>2. /\ q # None /\ q.raw # None /\ PullShape(q) /\ UNCHANGED <<mx, steady>>
      /\ Upsert(q.raw, q.user)
  BY <1>1 DEF Process, PullInv, ShapeOfPulls
<1>3. PICK n : n = [user |-> q.user, phase |-> q.phase, cursor |-> q.cursor, items |-> Tail(q.items),
                    seen |-> q.seen, raw |-> None]
  OBVIOUS
<1>4. pulls' = [pulls EXCEPT ![p] = n]
  <2>1. PICK m : m = [q EXCEPT !.items = Tail(q.items)]
    OBVIOUS
  <2>2. m = [user |-> q.user, phase |-> q.phase, cursor |-> q.cursor, items |-> Tail(q.items),
             seen |-> q.seen, raw |-> q.raw]
    BY <1>2, <2>1 DEF PullShape
  <2>3. n = [m EXCEPT !.raw = None]
    <3>1. PICK e : e = [m EXCEPT !.raw = None]
      OBVIOUS
    <3>2. e = [user |-> q.user, phase |-> q.phase, cursor |-> q.cursor, items |-> Tail(q.items),
               seen |-> q.seen, raw |-> None]
      BY <2>2, <3>1
    <3>3. QED
      BY <1>3, <3>1, <3>2, Zenon
  <2>4. QED
    BY <1>1, <2>1, <2>3, Zenon DEF Process
<1>5. q.items \in Seq(Answers) /\ q.items # <<>> /\ q.raw.ticket = q.items[1].ticket /\ q.raw.type \in Types
  BY <1>2 DEF PullShape, Answers
<1>6. /\ Tail(q.items) \in Seq(Answers)
      /\ \A k \in DOMAIN q.items : k # 1 => k - 1 \in DOMAIN Tail(q.items) /\ Tail(q.items)[k - 1] = q.items[k]
  BY <1>5
<1>7. PullShape(n)
  BY <1>2, <1>3, <1>6 DEF PullShape
<1>8. DOMAIN wos \subseteq DOMAIN wos' /\ ExternalId(q.raw.ticket, q.raw.type) \in DOMAIN wos'
  BY <1>2, OrdersGrow
<1>9. \A t : (Found(t) \/ t = q.items[1].ticket) => Found(t)'
  BY <1>5, <1>8 DEF Found
<1>10. \A r \in Pulls : pulls'[r] = IF r = p THEN n ELSE pulls[r]
  BY <1>4 DEF PullInv, ShapeOfPulls
<1>11. ShapeOfMx' /\ ShapeOfPulls' /\ ShapeOfSteady'
  <2>1. pulls' = [r \in Pulls |-> pulls'[r]]
    BY <1>4 DEF PullInv, ShapeOfPulls
  <2>2. \A r \in Pulls : pulls'[r] # None => PullShape(pulls'[r])
    BY <1>7, <1>10 DEF PullInv, ShapeOfPulls
  <2>3. ShapeOfPulls'
    BY <2>1, <2>2 DEF ShapeOfPulls, PullShape
  <2>4. QED
    BY <1>2, <2>3 DEF PullInv, ShapeOfMx, ShapeOfSteady
<1>12. ASSUME NEW t \in steady[p]
       PROVE  /\ n.user \in mx[t].assignees /\ mx[t].phase # "DONE"
              /\ \/ Found(t)'
                 \/ \E k \in DOMAIN n.items : n.items[k].ticket = t
                 \/ ToCome(n, t)
  <2>1. /\ q.user \in mx[t].assignees /\ mx[t].phase # "DONE"
        /\ \/ Found(t)
           \/ \E k \in DOMAIN q.items : q.items[k].ticket = t
           \/ ToCome(q, t)
    BY <1>1, <1>2 DEF PullInv, Expected
  <2>2. n.user = q.user /\ n.items = Tail(q.items) /\ (ToCome(q, t) => ToCome(n, t))
    BY <1>3 DEF ToCome
  <2>3. ASSUME NEW k \in DOMAIN q.items, q.items[k].ticket = t
        PROVE  Found(t)' \/ \E j \in DOMAIN n.items : n.items[j].ticket = t
    BY <1>6, <1>9, <2>2, <2>3
  <2>4. QED
    BY <1>9, <2>1, <2>2, <2>3
<1>13. ASSUME NEW r \in Pulls PROVE Expected(r)'
  <2>1. CASE r = p
    <3>1. pulls'[r] = n
      BY <1>10, <2>1
    <3>2. QED
      BY <1>2, <1>12, <2>1, <3>1 DEF Expected, ToCome
  <2>2. CASE r # p
    BY <1>2, <1>9, <1>10, <2>2 DEF PullInv, Expected, ToCome
  <2>3. QED
    BY <2>1, <2>2
<1>14. QED
  BY <1>11, <1>13 DEF PullInv

LEMMA PullInvStep ==
    ASSUME PullInv, [MxNext \/ Sync \/ People]_vars
    PROVE  PullInv'
<1>1. CASE UNCHANGED vars
  BY <1>1, OthersKeepPulls DEF vars
<1>2. CASE MxNext
  BY <1>2, MxChangeKeeps DEF MxNext, Phase
<1>3. CASE DailyPull
  BY <1>3, BeginKeeps DEF DailyPull, Pulls
<1>4. ASSUME NEW u \in UserSet, ManualPull(u) PROVE PullInv'
  BY <1>4, BeginKeeps DEF ManualPull, Pulls
<1>5. ASSUME NEW p \in Pulls, PullStep(p) \/ FailPull(p) PROVE PullInv'
  <2>1. CASE FetchPage(p)
    BY <2>1, FetchKeeps
  <2>2. ASSUME NEW ok \in BOOLEAN, Detail(p, ok) PROVE PullInv'
    BY <2>2, DetailKeeps
  <2>3. CASE Process(p)
    BY <2>3, ProcessKeeps
  <2>4. CASE EndPull(p)
    BY <2>4, LeaveKeeps DEF EndPull
  <2>5. CASE FailPull(p)
    BY <2>5, LeaveKeeps DEF FailPull
  <2>6. QED
    BY <1>5, <2>1, <2>2, <2>3, <2>4, <2>5 DEF PullStep
<1>6. ASSUME NEW u \in UserSet, NEW x \in DOMAIN wos, Refresh(u, x) PROVE PullInv'
  BY <1>6, OthersKeepPulls DEF Refresh
<1>7. CASE RefreshStep
  <2>1. ASSUME NEW r \in refreshes, RefreshAnswer(r) PROVE PullInv'
    BY <2>1, OthersKeepPulls DEF RefreshAnswer
  <2>2. ASSUME NEW r \in refreshes, RefreshProcess(r) PROVE PullInv'
    BY <2>2, OrdersGrow, OthersKeepPulls DEF RefreshProcess
  <2>3. QED
    BY <1>7, <2>1, <2>2 DEF RefreshStep
<1>8. ASSUME NEW r \in refreshes, RefreshFail(r) PROVE PullInv'
  BY <1>8, OthersKeepPulls DEF RefreshFail
<1>9. CASE Restart
  <2>1. pulls' = [p \in Pulls |-> None] /\ steady' = [p \in Pulls |-> {}] /\ UNCHANGED mx
    BY <1>9 DEF Restart
  <2>2. QED
    BY <2>1 DEF PullInv, ShapeOfMx, ShapeOfPulls, ShapeOfSteady, Expected
<1>10. CASE People
  <2>1. ASSUME NEW u \in UserSet, NEW t \in Tickets, NEW type \in Types, NEW b \in BOOLEAN,
               Create(u, t, type, b)
        PROVE  PullInv'
    BY <2>1, OthersKeepPulls DEF Create
  <2>2. ASSUME NEW u \in UserSet, NEW x \in DOMAIN wos, Link(u, x) PROVE PullInv'
    BY <2>2, OthersKeepPulls DEF Link
  <2>3. ASSUME NEW u \in UserSet, NEW x \in DOMAIN wos, NEW s \in Statuses, PatchWo(u, x, s) PROVE PullInv'
    BY <2>3, OthersKeepPulls DEF PatchWo
  <2>4. ASSUME NEW u \in UserSet, NEW t \in Tickets, LinkNew(u, t) PROVE PullInv'
    BY <2>4, OthersKeepPulls DEF LinkNew
  <2>5. ASSUME NEW x \in DOMAIN wos, ClockIn(x) PROVE PullInv'
    BY <2>5, OthersKeepPulls DEF ClockIn
  <2>6. QED
    BY <1>10, <2>1, <2>2, <2>3, <2>4, <2>5 DEF People
<1>11. QED
  BY <1>1, <1>2, <1>3, <1>4, <1>5, <1>6, <1>7, <1>8, <1>9, <1>10 DEF Sync

(* A pull that ends without an error has found every ticket that was active  *)
(* and its user's throughout, for any number of tickets, any size of a page  *)
(* and any changes at MaintainX between the pages: what a ticket skips by    *)
(* moving it can only skip forwards, since the list of the open ones is read *)
(* before that of those in progress (iterateAssignedWorkOrders).             *)
THEOREM PullsFindEverything == Spec => PullComplete
<1>1. Init => PullInv
  <2>1. Init => ShapeOfMx
    BY DEF Init, ShapeOfMx, Phase
  <2>2. QED
    BY <2>1 DEF Init, PullInv, ShapeOfPulls, ShapeOfSteady, Expected
<1>2. PullInv /\ [MxNext \/ Sync \/ People]_vars => PullInv'
  BY PullInvStep
<1>3. PullInv => \A p \in Pulls : EndPull(p) =>
                    \A t \in steady[p] : \E type \in Types : ExternalId(t, type) \in DOMAIN wos
  <2> SUFFICES ASSUME PullInv, NEW p \in Pulls, EndPull(p), NEW t \in steady[p] PROVE Found(t)
    BY Zenon DEF Found
  <2>1. pulls[p] # None /\ pulls[p].items = <<>> /\ pulls[p].phase > 2
    BY DEF EndPull, Phases
  <2>2. QED
    BY <2>1 DEF PullInv, Expected, ToCome
<1>4. QED
  BY <1>1, <1>2, <1>3, PTL DEF Spec, PullComplete
=============================================================================
