------------------------------- MODULE MCBoot -------------------------------
(* Databases of some releases: a new one; v0.22, v0.53 and v0.61 with no     *)
(* lines yet; v0.63, v0.64 and v0.98 in full use.  v0.22 has the constraint  *)
(* on the rate of a rule, with and without the status 'paid' that v0.29      *)
(* dropped, v0.63 the one on the tag, and v0.61 in use would have lines that *)
(* refer to its work orders.                                                 *)
EXTENDS Boot, TLC

Db(checks, columns, lines, rules, names, hours) ==
    [checks |-> checks, columns |-> columns, lines |-> lines, hasRules |-> TRUE, rules |-> rules,
     temp |-> Absent, types |-> names, orders |-> names, team |-> Techs,
     hours |-> [service |-> hours, maintenance |-> Absent]]

New == [Db(FreshChecks, {"invoices"}, FALSE, {}, {}, Absent) EXCEPT !.hasRules = FALSE]
V22(type, paid) ==
    Db({"rate", "labor", "orderTypes", "hold"} \cup paid, {}, FALSE, {<<1, type>>}, {type}, Absent)
V53 == Db({"labor", "orderTypes", "ruleTypes", "hold"}, {}, FALSE, {}, {}, Absent)
V61(lines) == Db({"orderTypes", "ruleTypes", "hold"}, {}, lines, {<<1, "service">>}, {"service"}, 1)
V63 == Db({"hold", "tag"}, {"tags"}, TRUE, {}, {"service"}, Absent)
V64 == Db({"hold"}, {"tags"}, TRUE, {<<1, "service">>}, {"service"}, 1)
V98 == Db({"hold"}, {"invoices", "tags"}, TRUE, {<<1, "maintenance">>}, {"maintenance"}, Absent)

Bootable == {New, V22("retrofit", {}), V22("service", {}), V22("retrofit", {"paid"}), V53, V61(FALSE), V63, V64, V98}
\* What a start leaves of a new database.
Upgraded == Db({}, {"invoices", "tags"}, FALSE, {}, {}, Absent)

ASSUME BootableUpgradable == \A d \in Bootable : Upgradable(d)
=============================================================================
