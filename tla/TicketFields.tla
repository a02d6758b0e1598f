---------------------------- MODULE TicketFields ----------------------------
(* What the server makes of a Freshdesk or MaintainX ticket: which answer it *)
(* accepts, which of the places that may name a store, its number, address   *)
(* or carts it believes, and how it resolves the type of work.  What one     *)
(* place says (a custom field, the company, a pattern in the title) is a     *)
(* value or None; finding it in the text is left out.                        *)
EXTENDS Naturals, Sequences, SequencesExt

CONSTANT None

\* The first of a sequence of values that is there.
FirstSaid(values) ==
    LET said == SelectSeq(values, LAMBDA v : v # None) IN
    IF said = <<>> THEN None ELSE said[1]

----------------------------------------------------------------------------
(* A Freshdesk administrator names custom fields at will: a field is judged  *)
(* by what its name is about and ends in, and by how its value looks.        *)

IdScore(f) ==
    (CASE f.ends = "number" -> 4
       [] f.ends = "bare" -> 3
       [] OTHER -> 0)
    + (IF f.looks \in {"number", "code"} THEN 2 ELSE 0)

\* Names and addresses are no ids, nor are long values.
Penalty(f) == (IF f.ends \in {"name", "address"} THEN 5 ELSE 0) + (IF f.looks = "long" THEN 3 ELSE 0)

NameScore(f) == CASE f.ends = "name" -> 4 [] f.ends = "bare" -> 2 [] OTHER -> 0

NamePenalty(f) == CASE f.looks = "long" -> 2 [] f.looks = "street" -> 3 [] OTHER -> 0

\* The field with the best score, the first one on a tie, when its score is positive.
Best(fields, Plus(_), Minus(_)) ==
    LET better(f, g) == Plus(f) + Minus(g) > Plus(g) + Minus(f)
        top == SelectSeq(fields, LAMBDA f : \A k \in DOMAIN fields : ~better(fields[k], f))
    IN  IF top # <<>> /\ Plus(top[1]) > Minus(top[1]) THEN top[1].value ELSE None

\* autoMatchFreshdeskFields: fields about one cart are passed over.
AutoMatch(fields) ==
    LET of(subject) == SelectSeq(fields, LAMBDA f : f.about = subject)
        words == SelectSeq(of("store"), LAMBDA f : f.looks \notin {"number"})
    IN  [id    |-> Best(of("store"), IdScore, Penalty),
         name  |-> Best(words, NameScore, NamePenalty),
         carts |-> IF of("carts") = <<>> THEN None ELSE of("carts")[1].value]

----------------------------------------------------------------------------
(* Which place wins.  t.says maps places to what they say.                   *)

FreshdeskOrder ==
    [name    |-> <<"override", "description", "field", "company", "chain", "matched", "loose", "text">>,
     id      |-> <<"override", "description", "field", "matched", "text">>,
     carts   |-> <<"override", "description", "field", "matched", "text">>]

MaintainXOrder ==
    [name    |-> <<"extra", "description", "title", "location", "field", "text">>,
     id      |-> <<"extra", "title", "location", "field", "locationId", "text">>,
     carts   |-> <<"extra", "field", "title", "text", "progress">>]

Says(t, place, what) ==
    IF place = "matched" THEN AutoMatch(t.fields)[what]
    ELSE IF place \in DOMAIN t.says THEN t.says[place][what] ELSE None

Believed(t, order, what) ==
    FirstSaid([k \in DOMAIN order[what] |-> Says(t, order[what][k], what)])

Order(t) == IF t.system = "freshdesk" THEN FreshdeskOrder ELSE MaintainXOrder

OneIfNone(v) == IF v = None THEN 1 ELSE v

\* A configured field decides the type; MaintainX falls back to keywords.
ResolvedType(t) ==
    IF t.mapped # None THEN t.mapped ELSE IF t.system = "maintainx" THEN t.keyword ELSE None

\* The data of a ticket, as parse-url returns it.
Reading(t) ==
    [of |-> t.no, type |-> ResolvedType(t), name |-> Believed(t, Order(t), "name"),
     id |-> Believed(t, Order(t), "id"), carts |-> OneIfNone(Believed(t, Order(t), "carts")),
     location |-> t.location]

----------------------------------------------------------------------------
(* Asking MaintainX: with the organisation's header, then without.           *)

\* Fault: whatever work order the API returns is taken for the one asked for.
AcceptedUnchecked(answer, no) == answer.kind = "body"

\* An answer is accepted when it has content and, if it has an id, this one.
Accepted(answer, no) == answer.kind = "body" /\ answer.of \in {no, None}

\* What the answers to the attempts come to: the first accepted one; else, when
\* MaintainX denied each of them, the row an import left here; else an error.
Fetched(answers, no, local) ==
    LET good == {k \in DOMAIN answers : Accepted(answers[k], no)}
        first == answers[Min(good)]
    IN
    CASE good # {} -> [from |-> "api", of |-> IF first.of = None THEN no ELSE first.of]
      [] good = {} /\ (\A k \in DOMAIN answers : answers[k].kind = "403") /\ local ->
            [from |-> "db", of |-> no]
      [] OTHER -> [from |-> "error", of |-> None]

----------------------------------------------------------------------------
\* The fields in which a stored work order differs from a reading.
Diff(reading, wo) == {f \in {"type", "name", "id", "carts"} : reading[f] # wo[f]}
=============================================================================
