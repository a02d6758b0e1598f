---------------------------- MODULE UnplannedWork ---------------------------
(* Lines tagged as unplanned work: the tag sheet a manager opens from a      *)
(* button drawn earlier, the PATCH that stores reasons and the wasted part   *)
(* of the cost, and the leadership summary that compares what was wasted     *)
(* with what each work order and work type cost.                             *)
EXTENDS Integers, FiniteSets, FiniteSetsExt, Functions

CONSTANTS Taggers,      \* the managers who tag
          TaggedLines,  \* lines that may be logged: [kind, wo, mode, open, cost]
          Reasons,      \* wasted_labour, ad_hoc, unexpected
          Amounts,      \* wasted amounts a manager may type, and costs an edit may leave
          TypeOf,       \* the work type of each work order
          StoreOf,      \* the store of each work order
          MaxLogged,    \* bound: lines of one kind that are ever logged
          MaxPatches,   \* bound: PATCHes in flight
          Unset         \* no value

VARIABLES rows,     \* the lines: [kind, id, line, tags, wasted, by]
          lastId,   \* sqlite_sequence: the highest id each table has given out
          button,   \* what each manager's tag button carries, or Unset
          patches   \* PATCH /unplanned/tag in flight

tagVars == <<rows, lastId, button, patches>>

Kinds == {"entry", "expense", "card", "wo"}

ASSUME LinesAssumption ==
    /\ TaggedLines \subseteq [kind : Kinds, wo : DOMAIN TypeOf \cup {Unset}, mode : STRING,
                              open : BOOLEAN, cost : Nat]
    /\ Amounts \subseteq Nat /\ IsFiniteSet(Reasons)

Lesser(a, b) == IF a < b THEN a ELSE b

----------------------------------------------------------------------------
\* The summary.

Tagged == {r \in rows : r.tags # {}}

\* Fault: the wasted part is taken as it was stored, whatever the line costs now.
WasteAsStored(r) == IF r.wasted = Unset THEN 0 ELSE r.wasted

\* The wasted part of a line, never more than the line costs today.
Waste(r) == IF r.wasted = Unset THEN 0 ELSE Lesser(r.wasted, r.line.cost)

WasteOf(S) == SumFunction([r \in S |-> Waste(r)])
CostOf(S) == SumFunction([r \in S |-> r.line.cost])

Of(w) == {r \in rows : r.line.wo = w}
Priced == {r \in Tagged : r.kind # "wo"}

TotalWasted == WasteOf(Priced)
TotalOriginal == CostOf(Priced)
TotalActual == TotalOriginal - TotalWasted

ByTag(reason) == WasteOf({r \in Priced : reason \in r.tags})

\* Lines of no work order are listed as unknown.
TypeOfLine(r) == IF r.line.wo = Unset THEN "unknown" ELSE TypeOf[r.line.wo]
StoreOfLine(r) == IF r.line.wo = Unset THEN "unknown" ELSE StoreOf[r.line.wo]
ByWorkType(t) == WasteOf({r \in Priced : TypeOfLine(r) = t})
ByStore(s) == WasteOf({r \in Priced : StoreOfLine(r) = s})

\* What a work order cost: closed work entries, expenses that are not typed
\* hours, card charges.
Counts(r) ==
    \/ r.kind = "entry" /\ r.line.mode = "work" /\ ~r.line.open
    \/ r.kind = "expense" /\ r.line.mode \notin {"labor", "drive"}
    \/ r.kind = "card"

TotalCost(w) == CostOf({r \in Of(w) : Counts(r)})

\* Fault: typed hours are part of the slice though not of the total.
TakesTypedHours(r) == TRUE

\* The tagged lines whose waste is put against the work order.
InSlice(r) == r.kind # "expense" \/ r.line.mode \notin {"labor", "drive"}

ByWorkOrder ==
    [w \in {r.line.wo : r \in Tagged} \ {Unset} |->
        [total |-> TotalCost(w), unplanned |-> WasteOf({r \in Priced \cap Of(w) : InSlice(r)}),
         count |-> Cardinality(Priced \cap Of(w))]]

----------------------------------------------------------------------------
\* The lines come and go under the open screens.

\* Fault: a table without AUTOINCREMENT gives out the id of a deleted last row again.
ReusedId(kind) == 1 + Max({0} \cup {r.id : r \in {q \in rows : q.kind = kind}})

\* The id of the next row of a table declared with AUTOINCREMENT.
NextId(kind) == 1 + lastId[kind]

\* born, a history component, tells lines apart whatever their ids: the number
\* of lines logged before.
LogLine(line) ==
    /\ lastId[line.kind] < MaxLogged
    /\ rows' = rows \cup {[kind |-> line.kind, id |-> NextId(line.kind), line |-> line,
                           born |-> FoldFunction(+, 0, lastId),
                           tags |-> {}, wasted |-> Unset, by |-> Unset]}
    /\ lastId' = [lastId EXCEPT ![line.kind] = @ + 1]
    /\ UNCHANGED <<button, patches>>

\* A delete, or the first half of a MaintainX pull that logs the line anew.
DeleteLine(r) ==
    /\ r.kind # "wo"
    /\ rows' = rows \ {r}
    /\ UNCHANGED <<lastId, button, patches>>

\* An edit of the amount, of the hours or of the technician's rate; an expense
\* or a charge may also move to another work order.
EditLine(r, cost, w) ==
    /\ r.kind # "wo"
    /\ r.kind = "entry" => w = r.line.wo
    /\ rows' = (rows \ {r}) \cup {[r EXCEPT !.line.cost = cost, !.line.wo = w]}
    /\ UNCHANGED <<lastId, button, patches>>

ClockOut(r) ==
    /\ r.line.open
    /\ rows' = (rows \ {r}) \cup {[r EXCEPT !.line.open = FALSE]}
    /\ UNCHANGED <<lastId, button, patches>>

----------------------------------------------------------------------------
\* The button and its sheet.

\* A screen draws a row's button; the work order screen gives a time entry's
\* button no amount, nor has a work order one.
Draw(m, r, priced) ==
    /\ r.kind \in {"wo", "entry"} \/ priced
    /\ button' = [button EXCEPT ![m] =
                    [kind |-> r.kind, id |-> r.id, born |-> r.born, tags |-> r.tags,
                     wasted |-> r.wasted,
                     amount |-> IF priced /\ r.kind # "wo" THEN r.line.cost ELSE Unset]]
    /\ UNCHANGED <<rows, lastId, patches>>

\* What the sheet's amount field holds before the manager types.
Prefilled(b) == IF b.wasted = Unset THEN 0 ELSE b.wasted

\* Save in the sheet: reasons and note as chosen; the amount, when the button
\* has one, cut to it.
SaveTags(m, tags, typed) ==
    LET b == button[m] IN
    /\ b # Unset
    /\ typed \in Amounts \cup {Prefilled(b)}
    /\ Cardinality(patches) < MaxPatches
    /\ patches' = patches \cup
        {[by |-> m, kind |-> b.kind, id |-> b.id, born |-> b.born, tags |-> tags,
          wasted |-> IF b.amount = Unset \/ b.amount = 0 THEN Unset ELSE Lesser(typed, b.amount)]}
    /\ UNCHANGED <<rows, lastId, button>>

Matches(p) == {r \in rows : r.kind = p.kind /\ r.id = p.id}

\* The row after a PATCH: reasons, note, waste and author are overwritten.
Retagged(r, p) ==
    [r EXCEPT !.tags = p.tags,
              !.wasted = IF p.tags = {} THEN Unset ELSE p.wasted,
              !.by = IF p.tags = {} THEN Unset ELSE p.by]

\* The button that was pressed takes the new reasons; its amounts stay as drawn.
Redrawn(p) ==
    IF button[p.by] # Unset /\ button[p.by].kind = p.kind /\ button[p.by].id = p.id
    THEN [button EXCEPT ![p.by].tags = p.tags]
    ELSE button

Patch(p) ==
    /\ patches' = patches \ {p}
    /\ \/ /\ Matches(p) # {}
          /\ rows' = (rows \ Matches(p)) \cup {Retagged(r, p) : r \in Matches(p)}
          /\ button' = Redrawn(p)
       \/ /\ Matches(p) = {}
          /\ UNCHANGED <<rows, button>>
    /\ UNCHANGED lastId

\* The PATCH never reaches the server.
Lose(p) ==
    /\ patches' = patches \ {p}
    /\ UNCHANGED <<rows, lastId, button>>

----------------------------------------------------------------------------
TagInit ==
    /\ rows = {} /\ patches = {}
    /\ lastId = [k \in Kinds |-> 0]
    /\ button = [m \in Taggers |-> Unset]

TagNext ==
    \/ \E line \in TaggedLines : LogLine(line)
    \/ \E r \in rows :
        \/ DeleteLine(r) \/ ClockOut(r)
        \/ \E cost \in Amounts, w \in DOMAIN TypeOf : EditLine(r, cost, w)
        \/ \E m \in Taggers, priced \in BOOLEAN : Draw(m, r, priced)
    \/ \E m \in Taggers, tags \in SUBSET Reasons :
        button[m] # Unset /\ \E typed \in Amounts \cup {Prefilled(button[m])} : SaveTags(m, tags, typed)
    \/ \E p \in patches : Patch(p) \/ Lose(p)

TagSpec == TagInit /\ [][TagNext]_tagVars

----------------------------------------------------------------------------
\* A stored judgement is about the line the manager had in front of him: rows
\* that a pull deletes and creates again, or that are logged meanwhile, never
\* take a late PATCH meant for another (unplanned.js:83-91, schema.sql ids).
TagOnSeenLine ==
    [][\A p \in patches \ patches' :
        \A r \in rows : r \notin rows' /\ r.kind = p.kind /\ r.id = p.id => r.born = p.born]_tagVars

\* Whatever is edited after the tagging, leadership never reads more waste on a
\* work order than the work order cost (drives and running timers, which that
\* cost leaves out, apart), what it reads kept is never negative, and the
\* breakdowns explain all of the waste: by type and store once, by reason at
\* least once.
SliceWithinTotal ==
    /\ TotalActual >= 0
    /\ SumFunction([t \in {TypeOfLine(r) : r \in Priced} |-> ByWorkType(t)]) = TotalWasted
    /\ SumFunction([s \in {StoreOfLine(r) : r \in Priced} |-> ByStore(s)]) = TotalWasted
    /\ SumFunction([reason \in Reasons |-> ByTag(reason)]) >= TotalWasted
    /\ \A w \in DOMAIN ByWorkOrder :
        (\A r \in Priced \cap Of(w) : r.kind = "entry" => Counts(r)) =>
            ByWorkOrder[w].unplanned <= ByWorkOrder[w].total
=============================================================================
