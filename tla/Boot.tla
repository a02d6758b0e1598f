-------------------------------- MODULE Boot --------------------------------
(* The start of the server on the database an older release left behind:     *)
(* the schema, the added columns, the tables that are rebuilt to shed old    *)
(* CHECK constraints and the backfills of db.js, with a process that may     *)
(* die between any two of them and is started again.                         *)
EXTENDS Naturals, Sequences, FiniteSets

CONSTANTS Databases,  \* the databases a first boot may find
          Rules,      \* ids of custom rules
          Techs,      \* technicians of one Ops Manager
          TypeNames,  \* names of types of work, old and new
          MaxCrashes, \* bound on deaths of the process
          Absent      \* no value

ASSUME TypesAssumption == "maintenance" \in TypeNames
ASSUME AbsentAssumption == Absent \notin Nat /\ \A S \in SUBSET (Rules \X TypeNames) : S # Absent

VARIABLES disk,     \* what is committed
          stage,    \* the part of the start that is next, "down" or "up"
          crashes,
          wanted    \* history: rules, hours per cart and team as people left them;
                    \* tag: whether the first start found the constraint on the tag

bootVars == <<disk, stage, crashes, wanted>>

\* CHECK constraints of older releases that a boot has to shed.
Checks == {"rate", "paid", "labor", "orderTypes", "ruleTypes", "hold", "tag"}

\* What schema.sql gives a new database: three of its constraints are old ones.
FreshChecks == {"labor", "orderTypes", "ruleTypes"}

\* Fault: the statuses are looked at before the work orders are rebuilt.
StagesHoldFirst ==
    <<"schema", "columns", "createRules", "copyRules", "dropRules", "renameRules",
      "invoices", "expenses", "hold", "orders", "rules", "seedTypes",
      "typeRow", "repointOrders", "repointRules", "carry", "dropKey", "tags", "backfill", "up">>

\* The parts of ensureSchema in their order.
Stages == <<"schema", "columns", "createRules", "copyRules", "dropRules", "renameRules",
            "invoices", "expenses", "orders", "rules", "hold", "seedTypes",
            "typeRow", "repointOrders", "repointRules", "carry", "dropKey",
            "tags", "backfill", "up">>

Following(s) == Stages[(CHOOSE k \in DOMAIN Stages : Stages[k] = s) + 1]

\* A part that succeeds commits d; one that throws ends the process.
Commit(s, d) ==
    /\ stage = s /\ disk' = d /\ stage' = Following(s)
    /\ UNCHANGED <<crashes, wanted>>

Throw(s) ==
    /\ stage = s /\ stage' = "down"
    /\ UNCHANGED <<disk, crashes, wanted>>

Skip(s) == Commit(s, disk)

-----------------------------------------------------------------------------
Start ==
    /\ stage = "down" /\ stage' = Stages[1]
    /\ UNCHANGED <<disk, crashes, wanted>>

\* CREATE TABLE IF NOT EXISTS: a table that is missing comes back empty.
ApplySchema ==
    Commit("schema", IF disk.hasRules THEN disk
                     ELSE [disk EXCEPT !.hasRules = TRUE, !.rules = {},
                                       !.checks = (@ \ {"rate"}) \cup {"ruleTypes"}])

\* Columns that came after the release whose rebuild names the old ones.
AddColumns == Commit("columns", [disk EXCEPT !.columns = @ \cup {"invoices"}])

\* migrateRulesCheckConstraint: four statements, each committed by itself.  What
\* a process that dies leaves of the new table (temp) is in the way of the next
\* start, here and in the part "rules", which gives its new table the same name.
\* The new table already restricts the type of work to the present names.
CreateRules ==
    IF "rate" \notin disk.checks THEN Skip("createRules")
    ELSE IF disk.temp # Absent THEN Throw("createRules")
    ELSE Commit("createRules", [disk EXCEPT !.temp = {}])

CopyRules ==
    IF "rate" \notin disk.checks THEN Skip("copyRules")
    ELSE IF \E r \in disk.rules : r[2] = "service" THEN Throw("copyRules")
    ELSE Commit("copyRules", [disk EXCEPT !.temp = disk.rules])

DropRules ==
    IF "rate" \notin disk.checks THEN Skip("dropRules")
    ELSE Commit("dropRules", [disk EXCEPT !.hasRules = FALSE, !.rules = {}])

RenameRules ==
    IF "rate" \notin disk.checks THEN Skip("renameRules")
    ELSE Commit("renameRules", [disk EXCEPT !.hasRules = TRUE, !.rules = disk.temp, !.temp = Absent,
                                            !.checks = (@ \ {"rate"}) \cup {"ruleTypes"}])

\* A rebuild that lists its columns and leaves foreign keys on: it fails when
\* the table has a column that is not listed, or rows that others refer to.
Rebuild(s, check, column, referenced, d) ==
    IF check \notin disk.checks THEN Skip(s)
    ELSE IF column \in disk.columns \/ referenced THEN Throw(s)
    ELSE Commit(s, [d EXCEPT !.checks = @ \ {check}])

RebuildInvoices == Rebuild("invoices", "paid", "invoices", disk.lines, disk)
RebuildExpenses == Rebuild("expenses", "labor", "tags", disk.lines, disk)

\* The rebuilt work orders know no status on_hold, whatever they knew before.
RebuildOrders ==
    Rebuild("orders", "orderTypes", "tags", disk.lines, [disk EXCEPT !.checks = @ \cup {"hold"}])

\* Fault: a table of this name that is in the way is dropped.
RebuildRulesAnyway ==
    IF "ruleTypes" \notin disk.checks THEN Skip("rules")
    ELSE Commit("rules", [disk EXCEPT !.checks = @ \ {"ruleTypes"}, !.temp = Absent])

\* Nothing refers to rules, and their columns are all listed; but the table may
\* be there that a start left which died in the part above.
RebuildRules ==
    IF "ruleTypes" \notin disk.checks THEN Skip("rules")
    ELSE IF disk.temp # Absent THEN Throw("rules")
    ELSE Commit("rules", [disk EXCEPT !.checks = @ \ {"ruleTypes"}])

\* Fault: as it was before v0.99.1, with its columns listed.
AllowOnHoldListed == Rebuild("hold", "hold", "tags", FALSE, disk)

\* Taken from the live table, with foreign keys off.
AllowOnHold == Commit("hold", [disk EXCEPT !.checks = @ \ {"hold"}])

-----------------------------------------------------------------------------
(* 'service' became 'maintenance': five statements, each committed by itself.*)
SeedTypes == Commit("seedTypes", [disk EXCEPT !.types = @ \cup {"maintenance"}])
RenameType == Commit("typeRow", [disk EXCEPT !.types = @ \ {"service"}])

Renamed(S) == {IF x = "service" THEN "maintenance" ELSE x : x \in S}

RepointOrders == Commit("repointOrders", [disk EXCEPT !.orders = Renamed(@)])

RepointRules ==
    Commit("repointRules",
           [disk EXCEPT !.rules = {<<r[1], IF r[2] = "service" THEN "maintenance" ELSE r[2]>> : r \in @}])

CarryHours ==
    Commit("carry", IF disk.hours.service = Absent THEN disk
                    ELSE [disk EXCEPT !.hours.maintenance = disk.hours.service])

DropKey == Commit("dropKey", [disk EXCEPT !.hours.service = Absent])

\* migrateUnplannedColumns: the columns, and a rebuild of the tables whose old
\* constraint on the tag a probe notices.  The probe updates no row, so that it
\* notices none and the rebuild never runs.
AddTags == Commit("tags", [disk EXCEPT !.columns = @ \cup {"tags"}])

\* manager_team gets every technician that has this manager on record.
Backfill == Commit("backfill", [disk EXCEPT !.team = Techs])

Crash ==
    /\ stage # "down" /\ crashes < MaxCrashes /\ crashes' = crashes + 1
    /\ stage' = "down"
    /\ UNCHANGED <<disk, wanted>>

-----------------------------------------------------------------------------
(* People, while the server is up.                                           *)
AddRule(r, filter) ==
    /\ stage = "up" /\ \A q \in disk.rules : q[1] # r
    /\ disk' = [disk EXCEPT !.rules = @ \cup {<<r, filter>>}]
    /\ wanted' = [wanted EXCEPT !.rules = @ \cup {r}]
    /\ UNCHANGED <<stage, crashes>>

\* PUT /policy accepts the hours of 'service' and passes over 'maintenance'.
SaveHours(n) ==
    /\ stage = "up"
    /\ disk' = [disk EXCEPT !.hours.service = n]
    /\ wanted' = [wanted EXCEPT !.hours = n]
    /\ UNCHANGED <<stage, crashes>>

RemoveTech(t) ==
    /\ stage = "up"
    /\ disk' = [disk EXCEPT !.team = @ \ {t}]
    /\ wanted' = [wanted EXCEPT !.team = @ \ {t}]
    /\ UNCHANGED <<stage, crashes>>

-----------------------------------------------------------------------------
BootStep ==
    \/ Start \/ ApplySchema \/ AddColumns
    \/ CreateRules \/ CopyRules \/ DropRules \/ RenameRules
    \/ RebuildInvoices \/ RebuildExpenses \/ RebuildOrders \/ RebuildRules \/ AllowOnHold
    \/ SeedTypes \/ RenameType \/ RepointOrders \/ RepointRules \/ CarryHours \/ DropKey
    \/ AddTags \/ Backfill

BootInit ==
    /\ disk \in Databases
    /\ stage = "down" /\ crashes = 0
    /\ wanted = [rules |-> {r[1] : r \in disk.rules}, team |-> Techs, tag |-> "tag" \in disk.checks,
                 hours |-> IF disk.hours.service # Absent THEN disk.hours.service
                           ELSE disk.hours.maintenance]

BootNext ==
    \/ BootStep \/ Crash
    \/ \E r \in Rules : AddRule(r, "maintenance")
    \/ \E n \in 1..2 : SaveHours(n)
    \/ \E t \in Techs : RemoveTech(t)

\* A process that ended is started again by its host.
BootSpec == BootInit /\ [][BootNext]_bootVars /\ WF_bootVars(BootStep)

-----------------------------------------------------------------------------
(* However often the process dies on the way, the server comes up; unless a   *)
(* rebuild of the rules was cut short, by a death between its statements or   *)
(* by a rule the new table does not accept, and left its table behind.  A    *)
(* database with the status 'paid' is left out: the rebuild that sheds it    *)
(* lists its columns (db.js:577-628) and never succeeds.                     *)
ServerComesUp ==
    "paid" \notin disk.checks => <>[](stage = "up") \/ <>[](disk.temp # Absent)

(* A server that is up has the columns its handlers rely on and none of the  *)
(* old constraints, nothing is left under the old name of the type of work,  *)
(* and no rule and no policy value was lost on the way, wherever the process *)
(* died.  The exception is the constraint on the tag: where a first start    *)
(* found it, it stays, though db.js:226-227 says that it goes.               *)
UpgradeComplete ==
    stage = "up" =>
        /\ disk.columns = {"invoices", "tags"}
        /\ disk.checks = IF wanted.tag THEN {"tag"} ELSE {}
        /\ "service" \notin disk.types \cup disk.orders \cup {r[2] : r \in disk.rules}
        /\ {r[1] : r \in disk.rules} = wanted.rules
        /\ wanted.hours \in {disk.hours.maintenance, disk.hours.service}

(* The databases a first start may find, with any constraints, whatever is   *)
(* in them; one without the table of rules has none.                         *)
Hours == Nat \cup {Absent}
Filters == SUBSET (Rules \X TypeNames)
Database ==
    [checks : SUBSET Checks, columns : SUBSET {"invoices", "tags"}, lines : BOOLEAN,
     hasRules : BOOLEAN, rules : Filters, temp : {Absent} \cup Filters,
     types : SUBSET TypeNames, orders : SUBSET TypeNames, team : SUBSET Techs,
     hours : [service : Hours, maintenance : Hours]]
Upgradable(d) == d \in Database /\ d.temp = Absent /\ (d.hasRules \/ d.rules = {})
=============================================================================
