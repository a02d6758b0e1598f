------------------------------ MODULE Navigation ----------------------------
(* How a window moves between screens (public/nav.js and the router of       *)
(* public/app.js): the navigation stack, the entries of the browser's        *)
(* history that the Back gesture walks, the sheet in front of the screen,    *)
(* and the renders that await the server while the user is elsewhere.        *)
EXTENDS Naturals, Sequences

CONSTANTS Screens,     \* a view with its argument, e.g. the detail of one invoice
          Roots,       \* those that a tab of the bottom bar opens
          Home, Timer, \* the two screens that count seconds
          MaxHistory,  \* bound on entries of the browser's history
          MaxPending   \* bound on renders of one screen under way

ASSUME RootsAssumption == Roots \subseteq Screens /\ {Home, Timer} \subseteq Roots
ASSUME TwoTickers == Home # Timer

VARIABLES stack,     \* STATE._nav
          screen,    \* STATE.view and view_arg, NoScreen before the boot
          pos, last, \* the history entry the browser is at, and the newest
          sheet,     \* "none", "open" or "forced"
          pending,   \* renders of Home and Timer that await their data
          live,      \* intervals that fire, of each of the two
          handle     \* the variable that names the interval names a live one

navVars == <<stack, screen, pos, last, sheet, pending, live, handle>>

Tickers == {Home, Timer}
NoScreen == "none"

NavInit ==
    /\ stack = <<>>
    /\ screen = NoScreen
    /\ pos \in 0..1  \* the window may have a past
    /\ last = pos
    /\ sheet = "none"
    /\ pending = [t \in Tickers |-> 0]
    /\ live = [t \in Tickers |-> 0]
    /\ handle = [t \in Tickers |-> FALSE]

-----------------------------------------------------------------------------
(* navReduce *)

IsTop(st, s) == st # <<>> /\ st[Len(st)] = s
IsParent(st, s) == Len(st) >= 2 /\ st[Len(st) - 1] = s

\* Fault: a screen drawn again in place is pushed again.
ReduceAlwaysPush(st, s) ==
    IF s \in Roots \/ st = <<>> THEN <<s>>
    ELSE IF IsParent(st, s) THEN SubSeq(st, 1, Len(st) - 1) ELSE Append(st, s)

Reduce(st, s) ==
    IF s \in Roots \/ st = <<>> THEN <<s>>
    ELSE IF IsTop(st, s) THEN st
    ELSE IF IsParent(st, s) THEN SubSeq(st, 1, Len(st) - 1)
    ELSE Append(st, s)

\* Fault: only a drill-in makes an entry, not the first screen of a session.
RemembersPushOnly(st, s) ==
    st # <<>> /\ s \notin Roots /\ ~IsTop(st, s) /\ ~IsParent(st, s)

\* The actions "init" and "push", which make an entry of the history.
Remembers(st, s) ==
    st = <<>> \/ (s \notin Roots /\ ~IsTop(st, s) /\ ~IsParent(st, s))

PushState == pos' = pos + 1 /\ last' = pos + 1

-----------------------------------------------------------------------------
(* render: a screen is drawn when the answers it awaits are there, whatever *)
(* is on the display by then.                                               *)

\* clearInterval on what the variable names, on the way to the screen s.
RenderStarts(s) ==
    /\ s \in Tickers => pending[s] < MaxPending
    /\ pending' = IF s \in Tickers THEN [pending EXCEPT ![s] = @ + 1] ELSE pending
    /\ live' = [live EXCEPT ![Home] = IF handle[Home] THEN @ - 1 ELSE @]
    /\ handle' = [handle EXCEPT ![Home] = FALSE]

\* Fault: before v0.65.1, the new interval was stored over the old one.
TicksOver(t, on) ==
    [live |-> live[t] + (IF on THEN 1 ELSE 0), handle |-> handle[t] \/ on]

\* renderHome replaces its interval when a timer runs, and renderTimer drops
\* the old one in either case.
TicksAfter(t, on) ==
    LET kept == IF handle[t] /\ (on \/ t = Timer) THEN live[t] - 1 ELSE live[t]
        still == handle[t] /\ ~on /\ t = Home
    IN  [live |-> kept + (IF on THEN 1 ELSE 0), handle |-> on \/ still]

RenderEnds(t, on) ==
    /\ pending[t] > 0
    /\ pending' = [pending EXCEPT ![t] = @ - 1]
    /\ live' = [live EXCEPT ![t] = TicksAfter(t, on).live]
    /\ handle' = [handle EXCEPT ![t] = TicksAfter(t, on).handle]
    /\ UNCHANGED <<stack, screen, pos, last, sheet>>

RenderFails(t) ==
    /\ pending[t] > 0
    /\ pending' = [pending EXCEPT ![t] = @ - 1]
    /\ UNCHANGED <<stack, screen, pos, last, sheet, live, handle>>

-----------------------------------------------------------------------------
(* goto, Back and reload *)

Goto(s) ==
    /\ stack' = Reduce(stack, s)
    /\ screen' = s
    /\ IF Remembers(stack, s) THEN pos < MaxHistory /\ PushState ELSE UNCHANGED <<pos, last>>
    /\ RenderStarts(s)
    /\ UNCHANGED sheet

Boot == stack = <<>> /\ sheet = "none" /\ \E s \in Roots : Goto(s)
Visit == stack # <<>> /\ sheet # "forced" /\ \E s \in Screens : Goto(s)

\* goBackCore
GoBack ==
    /\ stack' = SubSeq(stack, 1, Len(stack) - 1)
    /\ screen' = stack[Len(stack) - 1]
    /\ RenderStarts(stack[Len(stack) - 1])
    /\ UNCHANGED sheet

Stay == UNCHANGED <<stack, screen, sheet, pending, live, handle>>

\* The handler of popstate, with the browser at the entry p already: a sheet
\* is closed first, then the stack is popped, and at its bottom the entry is
\* made again.
PopState(p) ==
    \/ /\ sheet = "open"
       /\ sheet' = "none"
       /\ pos' = p + 1 /\ last' = p + 1
       /\ UNCHANGED <<stack, screen, pending, live, handle>>
    \/ /\ sheet # "open" /\ Len(stack) > 1
       /\ GoBack
       /\ pos' = p /\ UNCHANGED last
    \/ /\ sheet # "open" /\ Len(stack) <= 1
       /\ pos' = p + 1 /\ last' = p + 1
       /\ Stay

Back == pos > 0 /\ PopState(pos - 1)
\* The browser's Forward fires the same event.
Forward == pos < last /\ pos + 1 < MaxHistory /\ PopState(pos + 1)

\* showSheet and closeSheet; a forced change of password cannot be closed.
ShowSheet ==
    /\ sheet' \in {"open", "forced"}
    /\ sheet = "none"
    /\ sheet' = "forced" => stack = <<>>
    /\ UNCHANGED <<stack, screen, pos, last, pending, live, handle>>

CloseSheet ==
    /\ sheet # "none"
    /\ sheet' = "none"
    /\ UNCHANGED <<stack, screen, pos, last, pending, live, handle>>

\* location.reload: after a logout, a 401 or by hand.
Reload ==
    /\ stack' = <<>>
    /\ screen' = NoScreen
    /\ sheet' = "none"
    /\ pending' = [t \in Tickers |-> 0]
    /\ live' = [t \in Tickers |-> 0]
    /\ handle' = [t \in Tickers |-> FALSE]
    /\ UNCHANGED <<pos, last>>

NavNext ==
    \/ Boot \/ Visit \/ Back \/ Forward
    \/ ShowSheet \/ CloseSheet \/ Reload
    \/ \E t \in Tickers : RenderFails(t) \/ \E on \in BOOLEAN : RenderEnds(t, on)

NavSpec == NavInit /\ [][NavNext]_navVars

-----------------------------------------------------------------------------
\* While a user is in the app there are at least as many entries behind the
\* browser as screens on the stack, so that no single Back leaves the app,
\* whatever was visited, popped, replaced or dismissed before (the popstate
\* listener of app.js, 11835-11843).
BackStaysInApp == stack # <<>> => pos >= Len(stack)

\* Back from a drilled-in screen shows another screen, never a peer tab on top
\* of a tab, and the top of the stack is the screen on display (nav.js).
BackIsUseful ==
    /\ \A k \in 1..(Len(stack) - 1) : stack[k] # stack[k + 1]
    /\ \A k \in 2..Len(stack) : stack[k] \notin Roots
    /\ stack # <<>> => screen = stack[Len(stack)]

\* Back never leaves the app and always shows another screen.
BackWorks == BackStaysInApp /\ BackIsUseful

\* No interval fires that the app cannot stop any more, although renders of
\* the same screen overlap and end in any order (renderHome, renderTimer).
NoLostTicker == \A t \in Tickers : live[t] = IF handle[t] THEN 1 ELSE 0

NavTypeOK ==
    /\ stack \in Seq(Screens)
    /\ screen \in Screens \cup {NoScreen}
    /\ pos \in Nat /\ last \in Nat
    /\ sheet \in {"none", "open", "forced"}
    /\ pending \in [Tickers -> Nat]
    /\ live \in [Tickers -> Nat]
    /\ handle \in [Tickers -> BOOLEAN]
=============================================================================
