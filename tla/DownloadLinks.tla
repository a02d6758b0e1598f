---------------------------- MODULE DownloadLinks ---------------------------
(* Links to files that a browser opens without its session: the PDF of an    *)
(* invoice and the Excel export (lib/download_tokens.js, POST                *)
(* /download-token, attachUserFromToken and downloadWithToken of app.js).    *)
(* A link carries a random token that stands for an account, on one path     *)
(* and query, for five minutes.  A browser may send a link again: a reload,  *)
(* a viewer that asks for the file once more, a link that was copied.        *)
EXTENDS Sequences

CONSTANTS Askers,   \* accounts
          Targets,  \* a path with its query, as the server reads them
          Pages,    \* the targets that POST /download-token admits
          Links,    \* tokens
          NoOne

ASSUME LinksAssumption == Pages \subseteq Targets /\ NoOne \notin Askers

VARIABLES store,  \* the map of tokens
          stale,  \* tokens whose five minutes have passed
          asked,  \* history: what each token was asked for
          opened  \* history: the requests each token let in

linkVars == <<store, stale, asked, opened>>

Grant == [user : Askers, target : Targets]
NoGrant == [user |-> NoOne]

LinkInit ==
    /\ store = [l \in Links |-> NoGrant]
    /\ stale = {}
    /\ asked = [l \in Links |-> NoGrant]
    /\ opened = [l \in Links |-> <<>>]

\* _purge, the first thing issue and redeem do.
Purged == [l \in Links |-> IF l \in stale THEN NoGrant ELSE store[l]]

\* downloadWithToken: the token comes first, then the window is opened.
Ask(l, u, p) ==
    /\ asked[l] = NoGrant
    /\ p \in Pages
    /\ asked' = [asked EXCEPT ![l] = [user |-> u, target |-> p]]
    /\ store' = [Purged EXCEPT ![l] = asked'[l]]
    /\ UNCHANGED <<stale, opened>>

FiveMinutesPass(l) ==
    /\ asked[l] # NoGrant
    /\ stale' = stale \cup {l}
    /\ UNCHANGED <<store, asked, opened>>

LetIn(l, t) ==
    opened' = [opened EXCEPT ![l] =
                 Append(@, [as |-> [user |-> Purged[l].user, target |-> t], late |-> l \in stale])]

\* Fault: a token is good for its five minutes, however often it is sent.
RedeemRepeatedly(l, t) ==
    /\ store' = Purged
    /\ IF Purged[l] # NoGrant /\ Purged[l].target = t
         THEN LetIn(l, t)
         ELSE UNCHANGED opened

\* A request for anything else leaves the token as it is.
Redeem(l, t) ==
    IF Purged[l] # NoGrant /\ Purged[l].target = t
      THEN /\ LetIn(l, t)
           /\ store' = [Purged EXCEPT ![l] = NoGrant]
      ELSE /\ store' = Purged
           /\ UNCHANGED opened

\* A request with ?dt= and no Authorization header.
Request(l, t) == Redeem(l, t) /\ UNCHANGED <<stale, asked>>

\* The map is in memory.
LinksLost ==
    /\ store' = [l \in Links |-> NoGrant]
    /\ UNCHANGED <<stale, asked, opened>>

LinkNext ==
    \/ \E l \in Links, u \in Askers, p \in Targets : Ask(l, u, p)
    \/ \E l \in Links, t \in Targets : Request(l, t)
    \/ \E l \in Links : FiveMinutesPass(l)
    \/ LinksLost

LinkSpec == LinkInit /\ [][LinkNext]_linkVars

-----------------------------------------------------------------------------
\* A link opens at most once, as the account that asked for it, for what was
\* asked, within its five minutes, however often and for whatever the browser
\* sends it and whatever else is issued meanwhile (download_tokens.js 28-60).
OpensOnceAsAsked ==
    \A l \in Links : opened[l] \in {<<>>, <<[as |-> asked[l], late |-> FALSE]>>}
=============================================================================
