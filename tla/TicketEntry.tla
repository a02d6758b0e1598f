----------------------------- MODULE TicketEntry ----------------------------
(* The screen that adds a work order: a ticket pulled by its URL into a      *)
(* form, the catalog of MaintainX locations and carts that arrives while the *)
(* user types, and the requests that create a work order or overwrite one    *)
(* the server already has.  Inputs are drawn from the form and are read back *)
(* into it only by some of the handlers.                                     *)
EXTENDS TicketFields, FiniteSets

CONSTANTS Remote,     \* the tickets: a sequence of [system, no, says, fields, ...]
          Catalog,    \* MaintainX locations, by id: [id -> name]
          TypedName,  \* a store name a user types
          Types,
          Replies,   \* what MaintainX may answer to the attempts of one pull
          MaxPulls,   \* bound: pulls in flight
          MaxOrders   \* bound: work orders

\* Tickets are filed under their numbers, and answers come one after the other.
ASSUME TicketAssumption ==
    /\ \A no \in DOMAIN Remote : Remote[no].no = no
    /\ \A answers \in Replies : DOMAIN answers \subseteq Nat

VARIABLES orders,    \* work orders on the server: [n, no, type, name, id, carts]
          catalog,   \* the locations the screen has; {} before they arrive or when there are none
          waiting,   \* GET /mx/locations is under way
          form,      \* the form object
          inputs,    \* what stands in the inputs; store is None when there is no such input
          location,  \* the chosen location, or None
          loads,     \* locations whose carts are being fetched
          carts,     \* the location whose carts are offered, or None
          pulls,     \* parse-url requests in flight, numbers of tickets
          posts      \* POST /workorders in flight

ticketVars == <<orders, catalog, waiting, form, inputs, location, loads, carts, pulls, posts>>

Blank == [ticket |-> None, type |-> "retrofit", name |-> None, id |-> None, carts |-> None,
          existing |-> None, diff |-> {}, asked |-> None, of |-> None]

\* The inputs as html() draws them.
Drawn(f, loc, cat) ==
    [ticket |-> f.ticket, carts |-> f.carts,
     store |-> IF loc = None /\ cat = {} THEN [name |-> f.name] ELSE None]

\* grabBeforeRerender.
Grabbed(f, i) ==
    [f EXCEPT !.ticket = i.ticket, !.carts = i.carts,
              !.name = IF i.store = None THEN @ ELSE i.store.name]

AtStore(f, l) == [f EXCEPT !.name = Catalog[l], !.id = l]

----------------------------------------------------------------------------
\* The user types, and picks a type, which draws the form again as it was.
TypeTicket(no) ==
    /\ inputs' = [inputs EXCEPT !.ticket = no]
    /\ UNCHANGED <<orders, catalog, waiting, form, location, loads, carts, pulls, posts>>

TypeStore ==
    /\ inputs.store # None
    /\ inputs' = [inputs EXCEPT !.store = [name |-> TypedName]]
    /\ UNCHANGED <<orders, catalog, waiting, form, location, loads, carts, pulls, posts>>

PickType(type) ==
    /\ form' = [form EXCEPT !.type = type]
    /\ inputs' = Drawn(form', location, catalog)
    /\ UNCHANGED <<orders, catalog, waiting, location, loads, carts, pulls, posts>>

\* The locations arrive: what is typed is kept and the form is drawn again.
LocationsArrive(cat) ==
    /\ waiting
    /\ waiting' = FALSE /\ catalog' = cat
    /\ form' = IF cat = {} THEN form ELSE Grabbed(form, inputs)
    /\ inputs' = IF cat = {} THEN inputs ELSE Drawn(form', location, cat)
    /\ UNCHANGED <<orders, location, loads, carts, pulls, posts>>

PickLocation(l) ==
    /\ location = None
    /\ location' = l
    /\ form' = Grabbed(AtStore(form, l), inputs)
    /\ inputs' = Drawn(form', l, catalog)
    /\ loads' = loads \cup {l}
    /\ UNCHANGED <<orders, catalog, waiting, carts, pulls, posts>>

ChangeLocation ==
    /\ location # None
    /\ location' = None /\ carts' = None
    /\ form' = Grabbed([form EXCEPT !.name = None, !.id = None], inputs)
    /\ inputs' = Drawn(form', None, catalog)
    /\ UNCHANGED <<orders, catalog, waiting, loads, pulls, posts>>

\* The carts of a location arrive, whichever location is chosen by then.
CartsArrive(l) ==
    /\ loads' = loads \ {l} /\ carts' = l
    /\ form' = IF carts = None THEN Grabbed(form, inputs) ELSE form
    /\ inputs' = IF carts = None THEN Drawn(form', location, catalog) ELSE inputs
    /\ UNCHANGED <<orders, catalog, waiting, location, pulls, posts>>

----------------------------------------------------------------------------
(* Pulling a ticket.                                                         *)

Pull(no) ==
    /\ Cardinality(pulls) < MaxPulls
    /\ pulls' = pulls \cup {no}
    /\ UNCHANGED <<orders, catalog, waiting, form, inputs, location, loads, carts, posts>>

\* An order whose id ends in the number, of whichever system.
Existing(no) == {wo \in orders : wo.no = no}

LocalReading(wo) ==
    [of |-> wo.no, type |-> wo.type, name |-> wo.name, id |-> wo.id, carts |-> wo.carts,
     location |-> None]

\* Ticket and provenance are of the answer; blanks keep what the form had.
Filled(no, reading, wo) ==
    [ticket |-> no, type |-> reading.type,
     name |-> FirstSaid(<<reading.name, form.name>>), id |-> FirstSaid(<<reading.id, form.id>>),
     carts |-> FirstSaid(<<reading.carts, form.carts>>),
     existing |-> wo, asked |-> no, of |-> reading.of,
     diff |-> IF wo = None THEN {} ELSE Diff(reading, wo)]

\* The answer fills the form, which is drawn over what is typed; a location of
\* the catalog is chosen too.
Show(no, reading, wo) ==
    LET known == reading.location # None /\ reading.location \in catalog
        filled == Filled(no, reading, wo)
    IN  /\ location' = IF known THEN reading.location ELSE location
        /\ form' = IF known THEN AtStore(filled, reading.location) ELSE filled
        /\ loads' = IF known THEN loads \cup {reading.location} ELSE loads
        /\ inputs' = Drawn(form', location', catalog)

Answer(no, answers) ==
    LET local == Existing(no) # {}
        got == IF Remote[no].system = "freshdesk" THEN [from |-> "api", of |-> no]
               ELSE Fetched(answers, no, local)
    IN  /\ got.from # "error"
        /\ \E wo \in IF Existing(no) = {} THEN {None} ELSE Existing(no) :
            Show(no, IF got.from = "db" THEN LocalReading(wo) ELSE Reading(Remote[got.of]), wo)
        /\ pulls' = pulls \ {no}
        /\ UNCHANGED <<orders, catalog, waiting, carts, posts>>

\* An error answer, or none: the form stays.
PullFails(no) ==
    /\ pulls' = pulls \ {no}
    /\ UNCHANGED <<orders, catalog, waiting, form, inputs, location, loads, carts, posts>>

----------------------------------------------------------------------------
(* Saving.                                                                   *)

\* grab: a chosen location decides the store, else the input, if there is one.
ForSave ==
    IF location # None THEN AtStore(Grabbed(form, inputs), location)
    ELSE [Grabbed(form, inputs) EXCEPT
            !.name = IF inputs.store = None THEN None ELSE inputs.store.name]

SaveOrder ==
    /\ form' = ForSave
    /\ posts' = IF None \in {form'.ticket, form'.name, form'.type} THEN posts
                ELSE posts \cup {[no |-> form'.ticket, type |-> form'.type, name |-> form'.name,
                                  id |-> form'.id, carts |-> OneIfNone(form'.carts)]}
    /\ UNCHANGED <<orders, catalog, waiting, inputs, location, loads, carts, pulls>>

\* The screen as it opens.
Opened ==
    /\ catalog' = {} /\ waiting' = TRUE
    /\ form' = Blank /\ inputs' = Drawn(Blank, None, {})
    /\ location' = None /\ loads' = {} /\ carts' = None /\ pulls' = {}

\* POST /workorders.  An order with this type and number is a conflict; else
\* the screen is left, to be opened anew.
Create(p) ==
    /\ posts' = posts \ {p}
    /\ \/ /\ \E wo \in orders : wo.no = p.no /\ wo.type = p.type
          /\ UNCHANGED <<orders, catalog, waiting, form, inputs, location, loads, carts, pulls>>
       \/ /\ \A wo \in orders : wo.no # p.no \/ wo.type # p.type
          /\ orders' = orders \cup
                {[n |-> Cardinality(orders) + 1, no |-> p.no, type |-> p.type,
                  name |-> p.name, id |-> p.id, carts |-> p.carts]}
          /\ Opened

\* "Apply" writes the form's values over the order that was found.
ApplyPulled ==
    /\ form.existing # None
    /\ \E wo \in orders :
        /\ wo.n = form.existing.n
        /\ orders' = (orders \ {wo}) \cup
             {[wo EXCEPT !.name = FirstSaid(<<form.name, @>>), !.id = FirstSaid(<<form.id, @>>),
                         !.carts = FirstSaid(<<form.carts, @>>)]}
    /\ Opened /\ UNCHANGED posts

----------------------------------------------------------------------------
TicketInit ==
    /\ orders = {} /\ catalog = {} /\ waiting = TRUE
    /\ form = Blank /\ inputs = Drawn(Blank, None, {})
    /\ location = None /\ loads = {} /\ carts = None
    /\ pulls = {} /\ posts = {}

TicketNext ==
    \/ \E no \in DOMAIN Remote :
        \/ TypeTicket(no) \/ Pull(no)
    \/ TypeStore \/ ChangeLocation
    \/ \E type \in Types : PickType(type)
    \/ \E cat \in {{}, DOMAIN Catalog} : LocationsArrive(cat)
    \/ \E l \in catalog : PickLocation(l)
    \/ \E l \in loads : CartsArrive(l)
    \/ \E no \in pulls :
        PullFails(no) \/ \E answers \in Replies : Answer(no, answers)
    \/ posts = {} /\ SaveOrder
    \/ \E p \in posts : Create(p) /\ Cardinality(orders') <= MaxOrders
    \/ ApplyPulled

TicketSpec == TicketInit /\ [][TicketNext]_ticketVars

----------------------------------------------------------------------------
\* However pulls overlap and whatever MaintainX returns, the form shows the
\* ticket that was asked for, and the order "Apply" would overwrite has this
\* ticket's number (workorders.js:466-488, app.js:1551-1571).
FormIsOneAnswer ==
    /\ form.of = form.asked
    /\ form.existing # None => form.existing.no = form.asked
=============================================================================
