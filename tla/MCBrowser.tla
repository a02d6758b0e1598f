------------------------------ MODULE MCBrowser -----------------------------
(* Small instances of Navigation, ExpenseEntry and TicketEntry, three views  *)
(* of one window, of the accounts people sign in with, and of Attachments    *)
(* and DownloadLinks, the files they store and open.  A behaviour is about   *)
(* one of them: side says which.                                             *)
EXTENDS Navigation, ExpenseEntry, Accounts, Attachments, DownloadLinks, TicketEntry, TLC

CONSTANTS root, ana, s1, s2, k1, r1, r2, labor, vendor, x1
VARIABLE side

\* Two tickets: MaintainX's, whose location is in the catalog, and one of
\* Freshdesk that names its store by custom fields only and has no type.
Field(subject, ends, looks, value) ==
    [about |-> subject, ends |-> ends, looks |-> looks, value |-> value]
MCRemote ==
    <<[system |-> "maintainx", no |-> 1, mapped |-> None, keyword |-> "repair", location |-> "l1",
       fields |-> <<>>,
       says |-> "title" :> [name |-> "queens", id |-> "4", carts |-> None] @@
                "text" :> [name |-> None, id |-> None, carts |-> 2]],
      [system |-> "freshdesk", no |-> 2, mapped |-> None, keyword |-> None, location |-> None,
       fields |-> <<Field("store", "name", "words", "acme"), Field("store", "number", "number", "217"),
                    Field("cart", "number", "number", "5")>>,
       says |-> "text" :> [name |-> None, id |-> None, carts |-> None]]>>

Denied == [kind |-> "403", of |-> None]
Body(of) == [kind |-> "body", of |-> of]

MCCatalog == "l1" :> "queens 4"
MCReplies == {<<Body(1)>>, <<Denied, Body(2)>>, <<Body(2), Body(1)>>, <<Denied, Denied>>}

\* The invoice of a technician and one that Ops uploaded for a vendor.
MCOwner == labor :> ana @@ vendor :> root
MCTeam == {<<root, ana>>}
fileVars == <<attVars, linkVars>>

windowVars == <<navVars, entryVars, ticketVars>>

\* Once the order is there, only what repeats it is sent: a conflict.
Repeats(p, wo) ==
    p = [no |-> wo.no, type |-> wo.type, name |-> wo.name, id |-> wo.id, carts |-> wo.carts]
TicketStep == TicketNext /\ \A p \in posts', wo \in orders' : Repeats(p, wo)

MCInit ==
    /\ NavInit /\ EntryInit /\ TicketInit /\ Init /\ AttInit /\ LinkInit
    /\ side \in {"screens", "expense", "ticket", "accounts", "attachments", "links"}
    /\ side = "screens" \/ pos = 0

MCNext ==
    /\ UNCHANGED side
    /\ \/ side = "screens" /\ NavNext /\ UNCHANGED <<entryVars, ticketVars, vars, fileVars>>
       \/ side = "expense" /\ EntryNext /\ UNCHANGED <<navVars, ticketVars, vars, fileVars>>
       \/ side = "ticket" /\ TicketStep /\ UNCHANGED <<navVars, entryVars, vars, fileVars>>
       \/ side = "accounts" /\ Next /\ UNCHANGED <<windowVars, fileVars>>
       \/ side = "attachments" /\ AttNext /\ UNCHANGED <<windowVars, vars, linkVars>>
       \/ side = "links" /\ LinkNext /\ UNCHANGED <<windowVars, vars, attVars>>
MCSpec == MCInit /\ [][MCNext]_<<windowVars, vars, fileVars, side>>

=============================================================================
