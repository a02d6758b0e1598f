------------------------------ MODULE AppProofs -----------------------------
(* Theorems about the app as one holds it, for any screens, tabs, accounts   *)
(* and files and however far a session goes.  In the browser: Back stays in  *)
(* the app and shows another screen, no interval is lost, and a form that    *)
(* stayed where it was is recorded once.  At the server: sessions do not     *)
(* outlive a revocation, an administrator remains, a throttle lets few wrong *)
(* passwords through, and files and the links that open them.                *)
EXTENDS Navigation, ExpenseEntry, TicketEntry, Accounts, Attachments, DownloadLinks, FiniteFacts

-----------------------------------------------------------------------------
(* Navigation *)

\* What goto leaves on the stack ends in the screen that was asked for, and is
\* one longer at most, and then only if the browser got an entry.
LEMMA ReduceEnds ==
    ASSUME NEW st \in Seq(Screens), NEW s \in Screens
    PROVE  /\ Reduce(st, s) \in Seq(Screens)
           /\ Len(Reduce(st, s)) >= 1
           /\ Reduce(st, s)[Len(Reduce(st, s))] = s
           /\ Len(Reduce(st, s)) <= Len(st) + 1
           /\ ~Remembers(st, s) => Len(Reduce(st, s)) <= Len(st)
<1>1. CASE s \in Roots \/ st = <<>>
  BY <1>1 DEF Reduce, Remembers
<1>2. CASE ~(s \in Roots \/ st = <<>>) /\ IsTop(st, s)
  BY <1>2 DEF Reduce, IsTop
<1>3. CASE ~(s \in Roots \/ st = <<>>) /\ ~IsTop(st, s) /\ IsParent(st, s)
  BY <1>3 DEF Reduce, IsParent
<1>4. CASE ~(s \in Roots \/ st = <<>>) /\ ~IsTop(st, s) /\ ~IsParent(st, s)
  BY <1>4 DEF Reduce, Remembers
<1> QED BY <1>1, <1>2, <1>3, <1>4

Adjacent(st) == \A k \in 1..(Len(st) - 1) : st[k] # st[k + 1]
Rooted(st) == \A k \in 2..Len(st) : st[k] \notin Roots

\* A stack without repetitions, with tabs at its bottom only, stays one.
LEMMA ReduceUseful ==
    ASSUME NEW st \in Seq(Screens), NEW s \in Screens, Adjacent(st), Rooted(st)
    PROVE  Adjacent(Reduce(st, s)) /\ Rooted(Reduce(st, s))
<1>1. CASE s \in Roots \/ st = <<>>
  BY <1>1 DEF Reduce, Adjacent, Rooted
<1>2. CASE ~(s \in Roots \/ st = <<>>) /\ IsTop(st, s)
  BY <1>2 DEF Reduce, Adjacent, Rooted
<1>3. CASE ~(s \in Roots \/ st = <<>>) /\ ~IsTop(st, s) /\ IsParent(st, s)
  BY <1>3 DEF Reduce, IsParent, Adjacent, Rooted
<1>4. CASE ~(s \in Roots \/ st = <<>>) /\ ~IsTop(st, s) /\ ~IsParent(st, s)
  <2> DEFINE new == Append(st, s)
  <2>1. Reduce(st, s) = new /\ Len(new) = Len(st) + 1
    BY <1>4 DEF Reduce
  <2>2. new[Len(st) + 1] = s /\ \A k \in 1..Len(st) : new[k] = st[k]
    OBVIOUS
  <2>3. Adjacent(new)
    BY <1>4, <2>1, <2>2 DEF Adjacent, IsTop
  <2>4. Rooted(new)
    BY <1>4, <2>1, <2>2 DEF Rooted
  <2> QED BY <2>1, <2>3, <2>4
<1> QED BY <1>1, <1>2, <1>3, <1>4

\* One pop keeps both.
LEMMA PopUseful ==
    ASSUME NEW st \in Seq(Screens), Len(st) > 1, Adjacent(st), Rooted(st)
    PROVE  LET rest == SubSeq(st, 1, Len(st) - 1)
           IN  /\ rest \in Seq(Screens) /\ Len(rest) = Len(st) - 1
               /\ rest[Len(rest)] = st[Len(st) - 1] /\ st[Len(st) - 1] \in Screens
               /\ Adjacent(rest) /\ Rooted(rest)
BY DEF Adjacent, Rooted

-----------------------------------------------------------------------------
\* The inductive invariant: the types and the three properties.
NavInv == NavTypeOK /\ BackStaysInApp /\ BackIsUseful /\ NoLostTicker

LEMMA RootsAreScreens == Roots \subseteq Screens /\ Home \in Screens /\ Timer \in Screens
BY RootsAssumption

\* The start of a render keeps the intervals and their variables in step.
LEMMA RenderStartKeeps ==
    ASSUME NavInv, NEW s \in Screens, RenderStarts(s)
    PROVE  /\ pending' \in [Tickers -> Nat] /\ live' \in [Tickers -> Nat]
           /\ handle' \in [Tickers -> BOOLEAN] /\ NoLostTicker'
<1>1. pending' \in [Tickers -> Nat]
  BY DEF NavInv, NavTypeOK, RenderStarts
<1>2. handle' \in [Tickers -> BOOLEAN] /\ ~handle'[Home] /\ handle'[Timer] = handle[Timer]
  BY TwoTickers DEF NavInv, NavTypeOK, RenderStarts, Tickers
<1>3. live'[Home] = 0 /\ live'[Timer] = live[Timer] /\ live' \in [Tickers -> Nat]
  BY TwoTickers DEF NavInv, NavTypeOK, NoLostTicker, RenderStarts, Tickers
<1>4. live[Timer] = IF handle[Timer] THEN 1 ELSE 0
  BY DEF NavInv, NoLostTicker, Tickers
<1> QED BY <1>1, <1>2, <1>3, <1>4 DEF NoLostTicker, Tickers

LEMMA NavInitInv == NavInit => NavInv
BY DEF NavInit, NavInv, NavTypeOK, BackStaysInApp, BackIsUseful, NoLostTicker

LEMMA GotoInv ==
    ASSUME NavInv, NEW s \in Screens, Goto(s)
    PROVE  NavInv'
<1>1. stack \in Seq(Screens) /\ Adjacent(stack) /\ Rooted(stack) /\ pos \in Nat /\ last \in Nat
  BY DEF NavInv, NavTypeOK, BackIsUseful, Adjacent, Rooted
<1>2. stack' = Reduce(stack, s) /\ screen' = s /\ sheet' = sheet /\ RenderStarts(s)
  BY DEF Goto
<1>3. /\ stack' \in Seq(Screens) /\ Len(stack') >= 1 /\ stack'[Len(stack')] = s
      /\ Len(stack') <= Len(stack) + 1
      /\ ~Remembers(stack, s) => Len(stack') <= Len(stack)
  BY <1>1, <1>2, ReduceEnds
<1>4. Adjacent(stack') /\ Rooted(stack')
  BY <1>1, <1>2, ReduceUseful
<1>5. pos >= Len(stack)
  <2>1. CASE stack = <<>>
    BY <2>1, <1>1
  <2>2. CASE stack # <<>>
    BY <2>2 DEF NavInv, BackStaysInApp
  <2> QED BY <2>1, <2>2
<1>6. pos' \in Nat /\ last' \in Nat /\ pos' >= Len(stack')
  <2>1. CASE Remembers(stack, s)
    BY <2>1, <1>1, <1>3, <1>5 DEF Goto, PushState
  <2>2. CASE ~Remembers(stack, s)
    BY <2>2, <1>1, <1>3, <1>5 DEF Goto
  <2> QED BY <2>1, <2>2
<1>7. NavTypeOK' /\ NoLostTicker'
  <2>1. sheet' \in {"none", "open", "forced"}
    BY <1>2 DEF NavInv, NavTypeOK
  <2> QED BY <2>1, <1>2, <1>3, <1>6, RenderStartKeeps DEF NavTypeOK
<1>8. BackIsUseful'
  BY <1>2, <1>3, <1>4 DEF BackIsUseful, Adjacent, Rooted
<1> QED BY <1>6, <1>7, <1>8 DEF NavInv, BackStaysInApp

LEMMA PopStateInv ==
    ASSUME NavInv, NEW p \in Nat, PopState(p), p >= pos - 1
    PROVE  NavInv'
<1>1. CASE sheet = "open" /\ sheet' = "none" /\ pos' = p + 1 /\ last' = p + 1
           /\ UNCHANGED <<stack, screen, pending, live, handle>>
  BY <1>1 DEF NavInv, NavTypeOK, BackStaysInApp, BackIsUseful, NoLostTicker
<1>2. CASE Len(stack) > 1 /\ GoBack /\ pos' = p /\ UNCHANGED last
  <2>1. stack \in Seq(Screens) /\ Adjacent(stack) /\ Rooted(stack) /\ pos \in Nat
    BY DEF NavInv, NavTypeOK, BackIsUseful, Adjacent, Rooted
  <2>2. /\ stack' \in Seq(Screens) /\ Len(stack') = Len(stack) - 1
        /\ stack'[Len(stack')] = screen' /\ screen' \in Screens
        /\ Adjacent(stack') /\ Rooted(stack')
    BY <1>2, <2>1, PopUseful DEF GoBack
  <2>3. pos >= Len(stack)
    <3>1. stack # <<>>
      BY <1>2
    <3> QED BY <3>1 DEF NavInv, BackStaysInApp
  <2>4. /\ pending' \in [Tickers -> Nat] /\ live' \in [Tickers -> Nat]
        /\ handle' \in [Tickers -> BOOLEAN] /\ NoLostTicker'
    <3>1. RenderStarts(stack[Len(stack) - 1]) /\ stack[Len(stack) - 1] \in Screens
      BY <1>2, <2>1 DEF GoBack
    <3> QED BY <3>1, RenderStartKeeps
  <2>5. NavTypeOK'
    BY <1>2, <2>2, <2>4 DEF NavInv, NavTypeOK, GoBack
  <2>6. BackStaysInApp'
    BY <1>2, <2>1, <2>2, <2>3 DEF BackStaysInApp
  <2>7. BackIsUseful'
    BY <2>2 DEF BackIsUseful, Adjacent, Rooted
  <2> QED BY <2>4, <2>5, <2>6, <2>7 DEF NavInv
<1>3. CASE pos' = p + 1 /\ last' = p + 1 /\ Stay
  BY <1>3 DEF Stay, NavInv, NavTypeOK, BackStaysInApp, BackIsUseful, NoLostTicker
<1> QED BY <1>1, <1>2, <1>3 DEF PopState

LEMMA RenderEndsInv ==
    ASSUME NavInv, NEW t \in Tickers, NEW on \in BOOLEAN, RenderEnds(t, on)
    PROVE  NavInv'
<1>1. live[t] = (IF handle[t] THEN 1 ELSE 0) /\ handle[t] \in BOOLEAN
  BY DEF NavInv, NavTypeOK, NoLostTicker
<1>2. /\ TicksAfter(t, on).live \in Nat /\ TicksAfter(t, on).handle \in BOOLEAN
      /\ TicksAfter(t, on).live = IF TicksAfter(t, on).handle THEN 1 ELSE 0
  BY <1>1, TwoTickers DEF TicksAfter, Tickers
<1>3. /\ pending' \in [Tickers -> Nat] /\ live' \in [Tickers -> Nat] /\ handle' \in [Tickers -> BOOLEAN]
      /\ NoLostTicker'
  BY <1>2 DEF RenderEnds, NavInv, NavTypeOK, NoLostTicker
<1> QED BY <1>3 DEF RenderEnds, NavInv, NavTypeOK, BackStaysInApp, BackIsUseful

LEMMA NavStepInv == NavInv /\ [NavNext]_navVars => NavInv'
<1> SUFFICES ASSUME NavInv, [NavNext]_navVars
             PROVE  NavInv'
  OBVIOUS
<1>1. CASE Boot
  BY <1>1, GotoInv, RootsAreScreens DEF Boot
<1>2. CASE Visit
  BY <1>2, GotoInv DEF Visit
<1>3. CASE Back
  BY <1>3, PopStateInv DEF Back, NavInv, NavTypeOK
<1>4. CASE Forward
  BY <1>4, PopStateInv DEF Forward, NavInv, NavTypeOK
<1>5. CASE ShowSheet
  BY <1>5 DEF ShowSheet, NavInv, NavTypeOK, BackStaysInApp, BackIsUseful, NoLostTicker
<1>6. CASE CloseSheet
  BY <1>6 DEF CloseSheet, NavInv, NavTypeOK, BackStaysInApp, BackIsUseful, NoLostTicker
<1>7. CASE Reload
  BY <1>7 DEF Reload, NavInv, NavTypeOK, BackStaysInApp, BackIsUseful, NoLostTicker
<1>8. ASSUME NEW t \in Tickers, RenderFails(t)
      PROVE  NavInv'
  BY <1>8 DEF RenderFails, NavInv, NavTypeOK, BackStaysInApp, BackIsUseful, NoLostTicker
<1>9. ASSUME NEW t \in Tickers, NEW on \in BOOLEAN, RenderEnds(t, on)
      PROVE  NavInv'
  BY <1>9, RenderEndsInv
<1>10. CASE UNCHANGED navVars
  BY <1>10 DEF navVars, NavInv, NavTypeOK, BackStaysInApp, BackIsUseful, NoLostTicker
<1> QED BY <1>1, <1>2, <1>3, <1>4, <1>5, <1>6, <1>7, <1>8, <1>9, <1>10 DEF NavNext

THEOREM NavCorrect == NavSpec => []NavInv
BY NavInitInv, NavStepInv, PTL DEF NavSpec

-----------------------------------------------------------------------------
\* No Back gesture leaves the app (app.js 11831-11843), and Back shows another
\* screen, never a peer tab (nav.js), for any screens and any session.
THEOREM BackAlwaysWorks == NavSpec => []BackWorks
<1>1. NavInv => BackWorks
  BY DEF NavInv, BackWorks
<1> QED BY <1>1, NavCorrect, PTL

\* However the renders of the two screens overlap, each has one interval at
\* most and the app can stop it (renderHome, renderTimer).
THEOREM TickersKept == NavSpec => []NoLostTicker
BY NavCorrect, PTL DEF NavInv

-----------------------------------------------------------------------------
(* The form that adds an expense *)

Form == [pinned : BOOLEAN, preview : BOOLEAN, receipt : BOOLEAN]
Commit == [form : Nat, drawing : Nat, payee : {Me, Tech}, step : {"post", "receipt"}]
Row == [form : Nat, payee : {Me, Tech}, onPinned : BOOLEAN]

EntryType ==
    /\ proxy \in {Nobody, Tech} /\ pin \in BOOLEAN /\ view \in {"add", "other"}
    /\ forms \in Seq(Form)
    /\ drawn \in 0..Len(forms)
    /\ draws \in Nat
    /\ lookups \subseteq DOMAIN forms
    /\ saves \subseteq Commit /\ \A s \in saves : s.form \in DOMAIN forms
    /\ expenses \in Seq(Row) /\ \A k \in DOMAIN expenses : expenses[k].form \in DOMAIN forms

\* Form f is saved by one commit at a time and recorded once; while it is being
\* saved, or after it was, it is on the display only as the preview whose button
\* is busy.
Once(f) ==
    /\ \A s, t \in saves : s.form = f /\ t.form = f => s = t
    /\ \A j, k \in DOMAIN expenses : expenses[j].form = f /\ expenses[k].form = f => j = k
    /\ \A s \in saves : s.form = f /\ s.step = "post" => Recorded(f) = {}
    /\ drawn = f /\ (Saving(f) \/ Recorded(f) # {}) =>
          /\ forms[f].preview
          /\ \E s \in saves : s.form = f /\ s.drawing = draws

EntryInv == EntryType /\ \A f \in DOMAIN forms : f \in exposed \/ Once(f)

-----------------------------------------------------------------------------
(* The display alone changes: the forms, their commits and their rows stay.  *)
LEMMA DisplayLeft ==
    ASSUME EntryInv, EntryType', UNCHANGED <<saves, expenses, exposed>>, drawn' = 0,
           DOMAIN forms' = DOMAIN forms
    PROVE  EntryInv'
<1> SUFFICES ASSUME NEW f \in DOMAIN forms, f \notin exposed PROVE Once(f)'
  BY DEF EntryInv
<1>1. Once(f)
  BY DEF EntryInv
<1>2. drawn' # f
  BY DEF EntryInv, EntryType
<1>3. QED
  BY <1>1, <1>2 DEF Once, Saving, Recorded

(* A new form has no commit and no row yet, and takes the display.           *)
LEMMA FormOpened ==
    ASSUME EntryInv, NEW pinned \in BOOLEAN, OpenForm(pinned),
           proxy' \in {Nobody, Tech}, pin' \in BOOLEAN
    PROVE  EntryInv'
<1> DEFINE new == [pinned |-> pinned, preview |-> FALSE, receipt |-> FALSE]
<1>1. EntryType
  BY DEF EntryInv
<1>n. PICK n \in Nat : n = Len(forms) + 1
  BY <1>1 DEF EntryType
<1>2. forms' = Append(forms, new) /\ new \in Form
  BY DEF OpenForm, Form
<1>3. forms' \in Seq(Form) /\ Len(forms') = n /\ DOMAIN forms' = 1..n /\ DOMAIN forms = 1..Len(forms)
  BY <1>1, <1>2, <1>n DEF EntryType
<1>4. Len(forms) \in Nat
  BY <1>1 DEF EntryType
<1>5. /\ drawn' = n /\ draws' = draws + 1 /\ view' = "add" /\ lookups' = lookups \cup {n}
      /\ UNCHANGED <<saves, expenses, exposed>>
  BY <1>3, <1>n DEF OpenForm, Draw
<1>6. DOMAIN forms \subseteq DOMAIN forms' /\ n \in DOMAIN forms' /\ n \notin DOMAIN forms
  BY <1>3, <1>4, <1>n
<1>7. EntryType'
  BY <1>1, <1>3, <1>4, <1>5, <1>6, <1>n DEF EntryType
<1>8. ASSUME NEW f \in DOMAIN forms, f \notin exposed PROVE Once(f)'
  <2>1. Once(f) /\ drawn' # f
    BY <1>5, <1>6, <1>8 DEF EntryInv
  <2>2. QED
    BY <2>1, <1>5 DEF Once, Saving, Recorded
<1>9. Once(n)'
  <2>1. /\ \A s \in saves : s.form # n
        /\ \A k \in DOMAIN expenses : expenses[k].form # n
    BY <1>1, <1>6 DEF EntryType
  <2>2. ~Saving(n)' /\ Recorded(n)' = {}
    BY <2>1, <1>5 DEF Saving, Recorded
  <2>3. QED
    BY <2>1, <2>2, <1>5 DEF Once
<1>10. \A f \in DOMAIN forms' : f = n \/ f \in DOMAIN forms
  BY <1>3, <1>4, <1>n
<1>11. QED
  BY <1>5, <1>7, <1>8, <1>9, <1>10 DEF EntryInv

(* A form is drawn again: if it is being saved or was, it is exposed.        *)
LEMMA FormDrawn ==
    ASSUME EntryInv, EntryType', NEW g \in DOMAIN forms, Draw(g), UNCHANGED <<saves, expenses>>,
           DOMAIN forms' = DOMAIN forms,
           exposed \subseteq exposed',
           Saving(g) \/ Recorded(g) # {} => g \in exposed'
    PROVE  EntryInv'
<1> SUFFICES ASSUME NEW f \in DOMAIN forms, f \notin exposed' PROVE Once(f)'
  BY DEF EntryInv
<1>1. Once(f)
  BY DEF EntryInv
<1>2. CASE f # g
  BY <1>1, <1>2 DEF Once, Saving, Recorded, Draw
<1>3. CASE f = g
  <2>1. ~Saving(f) /\ Recorded(f) = {}
    BY <1>3
  <2>2. QED
    BY <1>1, <2>1 DEF Once, Saving, Recorded
<1>4. QED
  BY <1>2, <1>3

LEMMA DrawType ==
    ASSUME EntryType, NEW g \in DOMAIN forms, Draw(g), UNCHANGED <<proxy, pin, view, saves, expenses>>,
           forms' \in Seq(Form), DOMAIN forms' = DOMAIN forms, Len(forms') = Len(forms),
           lookups' \subseteq DOMAIN forms
    PROVE  EntryType'
  BY DEF EntryType, Draw

LEMMA LeaveType ==
    ASSUME EntryType, Leave, UNCHANGED <<forms, draws, lookups, saves, expenses>>,
           proxy' \in {Nobody, Tech}, pin' \in BOOLEAN
    PROVE  EntryType'
  BY DEF EntryType, Leave

-----------------------------------------------------------------------------
LEMMA EntryInvInit == EntryInit => EntryInv
<1> SUFFICES ASSUME EntryInit PROVE EntryInv
  OBVIOUS
<1>1. forms \in Seq(Form) /\ Len(forms) = 0 /\ DOMAIN forms = {}
  BY DEF EntryInit
<1>2. expenses \in Seq(Row) /\ DOMAIN expenses = {}
  BY DEF EntryInit
<1>3. /\ proxy \in {Nobody, Tech} /\ pin \in BOOLEAN /\ view \in {"add", "other"}
      /\ drawn = 0 /\ draws \in Nat /\ lookups = {} /\ saves = {}
  BY DEF EntryInit
<1>4. drawn \in 0..Len(forms)
  BY <1>1, <1>3
<1>5. QED
  BY <1>1, <1>2, <1>3, <1>4 DEF EntryInv, EntryType

(* A form changes in place.                                                  *)
LEMMA FormChanged ==
    ASSUME EntryType, NEW g \in DOMAIN forms, NEW x \in Form
    PROVE  LET fs == [forms EXCEPT ![g] = x] IN
           fs \in Seq(Form) /\ DOMAIN fs = DOMAIN forms /\ Len(fs) = Len(forms)
  BY DEF EntryType

(* Screens: other screens, and forms opened on the add screen.               *)
LEMMA ScreensKeep ==
    ASSUME EntryInv, ActForTech \/ AddToDraft \/ Unpin \/ ExitProxy \/ Tab
    PROVE  EntryInv'
<1>1. CASE ActForTech \/ Tab
  BY <1>1, LeaveType, DisplayLeft DEF ActForTech, Tab, Leave, EntryInv, EntryType
<1>2. CASE AddToDraft
  BY <1>2, FormOpened DEF AddToDraft, EntryInv, EntryType
<1>3. CASE Unpin
  BY <1>3, FormOpened DEF Unpin, EntryInv, EntryType
<1>4. CASE ExitProxy /\ view = "add"
  BY <1>4, FormOpened DEF ExitProxy, EntryInv, EntryType
<1>5. CASE ExitProxy /\ view # "add"
  <2>1. /\ drawn' = 0 /\ proxy' = Nobody
        /\ UNCHANGED <<pin, view, forms, draws, lookups, saves, expenses, exposed>>
    BY <1>5 DEF ExitProxy
  <2>2. EntryType'
    BY <2>1 DEF EntryInv, EntryType
  <2>3. QED
    BY <2>1, <2>2, DisplayLeft
<1>6. QED
  BY <1>1, <1>2, <1>3, <1>4, <1>5

(* The form on the display, and answers to its lookups.                      *)
LEMMA DrawingsKeep ==
    ASSUME EntryInv,
           \/ PickWorkOrder \/ TakeReceipt
           \/ \E on \in BOOLEAN : Preview(on)
           \/ \E f \in lookups : LookupReturns(f)
    PROVE  EntryInv'
<1>0. drawn # 0 => drawn \in DOMAIN forms /\ forms[drawn] \in Form
  BY DEF EntryInv, EntryType
<1>1. ASSUME drawn # 0, ~forms[drawn].preview
      PROVE  Saving(drawn) \/ Recorded(drawn) # {} => drawn \in exposed
  BY <1>0, <1>1 DEF EntryInv, Once
<1>2. CASE PickWorkOrder
  <2>1. lookups' \subseteq DOMAIN forms
    BY <1>2, <1>0 DEF PickWorkOrder, EntryInv, EntryType
  <2>2. EntryType'
    BY <1>2, <1>0, <2>1, DrawType DEF PickWorkOrder, EntryInv, EntryType
  <2>3. QED
    BY <1>2, <1>0, <1>1, <2>2, FormDrawn DEF PickWorkOrder
<1>3. CASE TakeReceipt
  <2>1. forms' = [forms EXCEPT ![drawn].receipt = TRUE] /\ Draw(drawn)
    BY <1>3 DEF TakeReceipt
  <2>2. forms' \in Seq(Form) /\ DOMAIN forms' = DOMAIN forms /\ Len(forms') = Len(forms)
    <3>1. drawn \in DOMAIN forms /\ [forms[drawn] EXCEPT !.receipt = TRUE] \in Form
      BY <1>3, <1>0 DEF TakeReceipt, Form
    <3>2. forms' = [forms EXCEPT ![drawn] = [forms[drawn] EXCEPT !.receipt = TRUE]]
      BY <2>1
    <3>3. QED
      BY <3>1, <3>2, FormChanged DEF EntryInv
  <2>3. EntryType'
    BY <1>3, <1>0, <2>2, DrawType DEF TakeReceipt, EntryInv, EntryType
  <2>4. QED
    BY <1>3, <1>0, <1>1, <2>2, <2>3, FormDrawn DEF TakeReceipt
<1>4. ASSUME NEW on \in BOOLEAN, Preview(on) PROVE EntryInv'
  <2>1. forms' = [forms EXCEPT ![drawn].preview = on] /\ Draw(drawn) /\ drawn # 0
    BY <1>4 DEF Preview
  <2>2. forms' \in Seq(Form) /\ DOMAIN forms' = DOMAIN forms /\ Len(forms') = Len(forms)
    <3>1. drawn \in DOMAIN forms /\ [forms[drawn] EXCEPT !.preview = on] \in Form
      BY <1>0, <2>1 DEF Form
    <3>2. forms' = [forms EXCEPT ![drawn] = [forms[drawn] EXCEPT !.preview = on]]
      BY <2>1
    <3>3. QED
      BY <3>1, <3>2, FormChanged DEF EntryInv
  <2>3. EntryType'
    BY <1>4, <1>0, <2>1, <2>2, DrawType DEF Preview, EntryInv, EntryType
  <2>4. exposed \subseteq exposed' /\ (Saving(drawn) \/ Recorded(drawn) # {} => drawn \in exposed')
    BY <1>4 DEF Preview, Expose
  <2>5. QED
    BY <1>4, <1>0, <2>1, <2>2, <2>3, <2>4, FormDrawn DEF Preview
<1>5. ASSUME NEW f \in lookups, LookupReturns(f) PROVE EntryInv'
  <2>1. f \in DOMAIN forms /\ lookups' \subseteq DOMAIN forms
    BY <1>5 DEF LookupReturns, EntryInv, EntryType
  <2>2. EntryType'
    BY <1>5, <2>1, DrawType DEF LookupReturns, EntryInv, EntryType
  <2>3. exposed \subseteq exposed' /\ (Saving(f) \/ Recorded(f) # {} => f \in exposed')
    BY <1>5 DEF LookupReturns, Expose
  <2>4. QED
    BY <1>5, <2>1, <2>2, <2>3, FormDrawn DEF LookupReturns
<1>6. QED
  BY <1>2, <1>3, <1>4, <1>5

-----------------------------------------------------------------------------
(* Commits.  The payee of a commit is somebody.                              *)
LEMMA SaveKeeps == ASSUME EntryInv, Save PROVE EntryInv'
<1> DEFINE c == [form |-> drawn, drawing |-> draws, payee |-> Payee, step |-> "post"]
<1>1. /\ saves' = saves \cup {c} /\ drawn # 0 /\ forms[drawn].preview /\ TapReaches(drawn)
      /\ UNCHANGED <<proxy, pin, view, forms, drawn, draws, lookups, expenses, exposed>>
  BY DEF Save
<1>2. c \in Commit /\ c.form = drawn /\ c.drawing = draws /\ c.step = "post" /\ drawn \in DOMAIN forms
  BY <1>1 DEF EntryInv, EntryType, Commit, Payee
<1> HIDE DEF c
<1>3. EntryType'
  BY <1>1, <1>2 DEF EntryInv, EntryType
<1> SUFFICES ASSUME NEW f \in DOMAIN forms, f \notin exposed PROVE Once(f)'
  BY <1>1, <1>3 DEF EntryInv
<1>4. Once(f)
  BY DEF EntryInv
<1>5. CASE f # drawn
  BY <1>1, <1>2, <1>4, <1>5 DEF Once, Saving, Recorded
<1>6. CASE f = drawn
  <2>1. ~Saving(f) /\ Recorded(f) = {}
    BY <1>1, <1>4, <1>6 DEF TapReaches, Once
  <2>2. QED
    BY <1>1, <1>2, <1>4, <1>6, <2>1 DEF Once, Saving, Recorded
<1>7. QED
  BY <1>5, <1>6

(* A commit ends without a row.                                              *)
LEMMA FailureKeeps ==
    ASSUME EntryInv, NEW s \in saves, SaveFails(s), exposed \subseteq exposed',
           s.step = "receipt" => s.form \in exposed',
           UNCHANGED <<proxy, pin, view, forms, drawn, draws, lookups, expenses>>
    PROVE  EntryInv'
<1>1. EntryType'
  BY DEF SaveFails, EntryInv, EntryType
<1> SUFFICES ASSUME NEW f \in DOMAIN forms, f \notin exposed' PROVE Once(f)'
  BY <1>1 DEF EntryInv
<1>2. Once(f)
  BY DEF EntryInv
<1>3. CASE f # s.form
  BY <1>2, <1>3 DEF Once, Saving, Recorded, SaveFails
<1>4. CASE f = s.form
  <2>1. s.step = "post"
    BY <1>4 DEF EntryInv, EntryType, Commit
  <2>2. Recorded(f) = {} /\ ~Saving(f)'
    BY <1>2, <1>4, <2>1 DEF Once, Saving, SaveFails
  <2>3. QED
    BY <1>2, <2>2 DEF Once, Saving, Recorded, SaveFails
<1>5. QED
  BY <1>3, <1>4

(* A row is written for a commit.                                            *)
LEMMA RowAdded ==
    ASSUME EntryInv, NEW s \in saves, expenses' = Append(expenses, Landed(s)), UNCHANGED forms
    PROVE  /\ expenses' \in Seq(Row) /\ \A k \in DOMAIN expenses' : expenses'[k].form \in DOMAIN forms
           /\ \A f : f # s.form => Recorded(f)' = Recorded(f)
           /\ Recorded(s.form) = {} => \A j, k \in DOMAIN expenses' :
                 expenses'[j].form = s.form /\ expenses'[k].form = s.form => j = k
<1>1. Landed(s) \in Row /\ Landed(s).form = s.form /\ s.form \in DOMAIN forms
  BY DEF Landed, Row, EntryInv, EntryType, Commit, Form
<1>2. expenses \in Seq(Row) /\ \A k \in DOMAIN expenses : expenses[k].form \in DOMAIN forms
  BY DEF EntryInv, EntryType
<1> DEFINE n == Len(expenses) + 1
<1>3. /\ expenses' \in Seq(Row) /\ DOMAIN expenses' = 1..n /\ DOMAIN expenses = 1..Len(expenses)
      /\ expenses'[n] = Landed(s)
      /\ \A k \in DOMAIN expenses : expenses'[k] = expenses[k]
      /\ Len(expenses) \in Nat
  BY <1>1, <1>2
<1>4. \A k \in DOMAIN expenses' : k = n \/ k \in DOMAIN expenses
  BY <1>3
<1>5. DOMAIN expenses \subseteq DOMAIN expenses' /\ n \in DOMAIN expenses'
  BY <1>3
<1> HIDE DEF n
<1>6. \A f : f # s.form => Recorded(f)' = Recorded(f)
  BY <1>1, <1>3, <1>4, <1>5 DEF Recorded
<1>7. \A k \in DOMAIN expenses' : expenses'[k].form \in DOMAIN forms
  BY <1>1, <1>2, <1>3, <1>4
<1>8. Recorded(s.form) = {} => \A k \in DOMAIN expenses' : expenses'[k].form = s.form => k = n
  BY <1>3, <1>4 DEF Recorded
<1>9. QED
  BY <1>3, <1>6, <1>7, <1>8

LEMMA PostKeeps == ASSUME EntryInv, NEW s \in saves, PostSucceeds(s) PROVE EntryInv'
<1>1. /\ s.step = "post" /\ expenses' = Append(expenses, Landed(s))
      /\ UNCHANGED <<proxy, forms, draws, lookups, exposed>>
      /\ s \in Commit
  BY DEF PostSucceeds, EntryInv, EntryType
<1>2. /\ expenses' \in Seq(Row) /\ \A k \in DOMAIN expenses' : expenses'[k].form \in DOMAIN forms
      /\ \A f : f # s.form => Recorded(f)' = Recorded(f)
      /\ Recorded(s.form) = {} => \A j, k \in DOMAIN expenses' :
            expenses'[j].form = s.form /\ expenses'[k].form = s.form => j = k
  BY <1>1, RowAdded
<1>3. CASE forms[s.form].receipt
  <2> DEFINE c == [s EXCEPT !.step = "receipt"]
  <2>1. saves' = (saves \ {s}) \cup {c} /\ UNCHANGED <<pin, view, drawn>>
    BY <1>3 DEF PostSucceeds
  <2>2. c \in Commit /\ c.form = s.form /\ c.drawing = s.drawing /\ c.step = "receipt"
    BY <1>1 DEF Commit
  <2> HIDE DEF c
  <2>3. EntryType'
    BY <1>1, <1>2, <2>1, <2>2 DEF EntryInv, EntryType
  <2> SUFFICES ASSUME NEW f \in DOMAIN forms, f \notin exposed PROVE Once(f)'
    BY <1>1, <2>3 DEF EntryInv
  <2>4. Once(f)
    BY DEF EntryInv
  <2>5. CASE f # s.form
    <3>1. Recorded(f)' = Recorded(f)
      BY <1>2, <2>5
    <3>2. \A t : t \in saves' /\ t.form = f <=> t \in saves /\ t.form = f
      BY <2>1, <2>2, <2>5
    <3>3. \A j, k \in DOMAIN expenses' : expenses'[j].form = f /\ expenses'[k].form = f => j = k
      BY <2>4, <3>1 DEF Once, Recorded
    <3>4. QED
      BY <1>1, <2>1, <2>4, <3>1, <3>2, <3>3 DEF Once, Saving
  <2>6. CASE f = s.form
    <3>1. Recorded(f) = {} /\ \A t \in saves : t.form = f => t = s
      BY <1>1, <2>4, <2>6 DEF Once
    <3>2. \A t \in saves' : t.form = f => t = c
      BY <2>1, <2>2, <2>6, <3>1
    <3>3. drawn = f => forms[f].preview /\ s.drawing = draws
      BY <2>4, <2>6, <3>1 DEF Once, Saving
    <3>4. c \in saves'
      BY <2>1
    <3>5. QED
      BY <1>1, <1>2, <2>1, <2>2, <2>6, <3>1, <3>2, <3>3, <3>4 DEF Once, Saving
  <2>7. QED
    BY <2>5, <2>6
<1>4. CASE ~forms[s.form].receipt
  <2>1. saves' = saves \ {s} /\ view' = "other" /\ drawn' = 0 /\ pin' \in BOOLEAN
    BY <1>4 DEF PostSucceeds, Finish, Leave, EntryInv, EntryType
  <2>2. EntryType'
    BY <1>1, <1>2, <2>1 DEF EntryInv, EntryType
  <2> SUFFICES ASSUME NEW f \in DOMAIN forms, f \notin exposed PROVE Once(f)'
    BY <1>1, <2>2 DEF EntryInv
  <2>3. Once(f) /\ drawn' # f
    BY <2>1 DEF EntryInv, EntryType
  <2>4. CASE f # s.form
    <3>1. Recorded(f)' = Recorded(f)
      BY <1>2, <2>4
    <3>2. \A j, k \in DOMAIN expenses' : expenses'[j].form = f /\ expenses'[k].form = f => j = k
      BY <2>3, <3>1 DEF Once, Recorded
    <3>3. QED
      BY <2>1, <2>3, <3>1, <3>2 DEF Once
  <2>5. CASE f = s.form
    <3>1. Recorded(f) = {} /\ \A t \in saves : t.form = f => t = s
      BY <1>1, <2>3, <2>5 DEF Once
    <3>2. \A t \in saves' : t.form # f
      BY <2>1, <3>1
    <3>3. QED
      BY <1>2, <2>3, <2>5, <3>1, <3>2 DEF Once
  <2>6. QED
    BY <2>4, <2>5
<1>5. QED
  BY <1>3, <1>4

LEMMA AnswerKeeps == ASSUME EntryInv, NEW s \in saves, AnswerLost(s) PROVE EntryInv'
<1>1. /\ expenses' = Append(expenses, Landed(s)) /\ saves' = saves \ {s}
      /\ exposed' = exposed \cup {s.form}
      /\ UNCHANGED <<proxy, pin, view, forms, drawn, draws, lookups>>
  BY DEF AnswerLost, SaveFails
<1>2. /\ expenses' \in Seq(Row) /\ \A k \in DOMAIN expenses' : expenses'[k].form \in DOMAIN forms
      /\ \A f : f # s.form => Recorded(f)' = Recorded(f)
  BY <1>1, RowAdded
<1>3. EntryType'
  BY <1>1, <1>2 DEF EntryInv, EntryType
<1> SUFFICES ASSUME NEW f \in DOMAIN forms, f \notin exposed' PROVE Once(f)'
  BY <1>1, <1>3 DEF EntryInv
<1>4. Once(f) /\ f # s.form
  BY <1>1 DEF EntryInv
<1>5. Recorded(f)' = Recorded(f)
  BY <1>2, <1>4
<1>6. \A j, k \in DOMAIN expenses' : expenses'[j].form = f /\ expenses'[k].form = f => j = k
  BY <1>4, <1>5 DEF Once, Recorded
<1>7. \A t : t \in saves' /\ t.form = f <=> t \in saves /\ t.form = f
  BY <1>1, <1>4
<1>8. QED
  BY <1>1, <1>4, <1>5, <1>6, <1>7 DEF Once, Saving

LEMMA ReceiptKeeps == ASSUME EntryInv, NEW s \in saves, ReceiptStored(s) PROVE EntryInv'
<1>1. /\ saves' = saves \ {s} /\ view' = "other" /\ drawn' = 0 /\ pin' \in BOOLEAN
      /\ UNCHANGED <<proxy, forms, draws, lookups, expenses, exposed>>
  BY DEF ReceiptStored, Finish, Leave, EntryInv, EntryType
<1>2. EntryType'
  BY <1>1 DEF EntryInv, EntryType
<1> SUFFICES ASSUME NEW f \in DOMAIN forms, f \notin exposed PROVE Once(f)'
  BY <1>1, <1>2 DEF EntryInv
<1>3. Once(f) /\ drawn' # f
  BY <1>1 DEF EntryInv, EntryType
<1>4. QED
  BY <1>1, <1>3 DEF Once, Recorded

-----------------------------------------------------------------------------
LEMMA EntryInvStep == EntryInv /\ [EntryNext]_entryVars => EntryInv'
<1> SUFFICES ASSUME EntryInv, [EntryNext]_entryVars PROVE EntryInv'
  OBVIOUS
<1>1. CASE UNCHANGED entryVars
  BY <1>1 DEF entryVars, EntryInv, EntryType, Once, Saving, Recorded
<1>2. ASSUME NEW s \in saves, PostFails(s) \/ ReceiptFails(s) PROVE EntryInv'
  BY <1>2, FailureKeeps DEF PostFails, ReceiptFails
<1>3. QED
  BY <1>1, <1>2, ScreensKeep, DrawingsKeep, SaveKeeps, PostKeeps, AnswerKeeps, ReceiptKeeps
     DEF EntryNext

LEMMA AtMostOne ==
    ASSUME NEW S, \A x, y \in S : x = y
    PROVE  (Cardinality(S) = 0 /\ S = {}) \/ Cardinality(S) = 1
<1>1. CASE S = {}
  BY <1>1, FS_EmptySet, Zenon
<1>2. CASE S # {}
  <2>1. PICK x \in S : TRUE
    BY <1>2
  <2>2. S = {x}
    BY <2>1
  <2>3. QED
    BY <2>2, FS_Singleton, Zenon
<1>3. QED
  BY <1>1, <1>2

(* A form that did not come back to the display while or after it was saved, *)
(* and whose saving was not reported as failed after its row was written, is *)
(* recorded at most once, for any number of forms, taps and drawings.        *)
THEOREM RecordedOnce == EntrySpec => []TwiceOnlyIfExposed
<1>1. EntryInv => TwiceOnlyIfExposed
  <2> SUFFICES ASSUME EntryInv, NEW f \in DOMAIN forms, f \notin exposed
               PROVE  ~(Cardinality(Recorded(f))
                          + Cardinality({s \in saves : s.form = f /\ s.step = "post"}) > 1)
    BY DEF TwiceOnlyIfExposed
  <2> DEFINE posting == {s \in saves : s.form = f /\ s.step = "post"}
  <2>1. Once(f)
    BY DEF EntryInv
  <2>2. (Cardinality(Recorded(f)) = 0 /\ Recorded(f) = {}) \/ Cardinality(Recorded(f)) = 1
    BY <2>1, AtMostOne DEF Once, Recorded
  <2>3. (Cardinality(posting) = 0 /\ posting = {}) \/ Cardinality(posting) = 1
    BY <2>1, AtMostOne DEF Once
  <2>4. posting = {} \/ Recorded(f) = {}
    BY <2>1 DEF Once
  <2>5. Cardinality({}) = 0
    BY FS_EmptySet, Zenon
  <2> HIDE DEF posting
  <2>6. ~(Cardinality(Recorded(f)) + Cardinality(posting) > 1)
    BY <2>2, <2>3, <2>4, <2>5
  <2>7. QED
    BY <2>6 DEF posting
<1>2. QED
  BY <1>1, EntryInvInit, EntryInvStep, PTL DEF EntrySpec

-----------------------------------------------------------------------------
(* The ticket form *)

LEMMA LeastNumber ==
    ASSUME NEW S \in SUBSET Nat, S # {}
    PROVE  Min(S) \in S /\ \A y \in S : Min(S) <= y
BY LeastOf DEF Min

\* Only an answer about the ticket that was asked for is taken.
LEMMA FetchedIsAsked ==
    ASSUME NEW answers \in Replies, NEW no, NEW local, Fetched(answers, no, local).from # "error"
    PROVE  Fetched(answers, no, local).of = no
<1> DEFINE good == {k \in DOMAIN answers : Accepted(answers[k], no)}
<1>1. CASE good # {}
  <2>1. Min(good) \in good
    BY <1>1, TicketAssumption, LeastNumber
  <2>2. answers[Min(good)].of \in {no, None}
    BY <2>1 DEF Accepted
  <2>3. QED
    BY <1>1, <2>2 DEF Fetched
<1>2. CASE good = {}
  BY <1>2 DEF Fetched
<1>3. QED
  BY <1>1, <1>2

\* What the user does to the fields leaves what the form says of its answer.
FormShape(f) ==
    f = [ticket |-> f.ticket, type |-> f.type, name |-> f.name, id |-> f.id, carts |-> f.carts,
         existing |-> f.existing, diff |-> f.diff, asked |-> f.asked, of |-> f.of]
SameAnswer(f, g) ==
    FormShape(g) /\ g.of = f.of /\ g.asked = f.asked /\ g.existing = f.existing

LEMMA SetKeeps ==
    ASSUME NEW f, NEW g, SameAnswer(f, g), NEW v
    PROVE  /\ SameAnswer(f, [g EXCEPT !.ticket = v]) /\ SameAnswer(f, [g EXCEPT !.carts = v])
           /\ SameAnswer(f, [g EXCEPT !.name = v]) /\ SameAnswer(f, [g EXCEPT !.id = v])
BY DEF FormShape, SameAnswer

LEMMA GrabKeeps ==
    ASSUME NEW f, FormShape(f), NEW i
    PROVE  SameAnswer(f, Grabbed(f, i))
<1> DEFINE shop == IF i.store = None THEN f.name ELSE i.store.name
<1>1. SameAnswer(f, f)
  BY DEF SameAnswer
<1>2. PICK g : g = [f EXCEPT !.ticket = i.ticket]
  OBVIOUS
<1>3. PICK h : h = [g EXCEPT !.carts = i.carts]
  OBVIOUS
<1>4. Grabbed(f, i) = [h EXCEPT !.name = shop]
  BY <1>2, <1>3 DEF Grabbed, FormShape
<1>5. SameAnswer(f, g)
  BY <1>1, <1>2, SetKeeps
<1>6. SameAnswer(f, h)
  BY <1>3, <1>5, SetKeeps
<1>7. SameAnswer(f, [h EXCEPT !.name = shop])
  BY <1>6, SetKeeps
<1>8. QED
  BY <1>4, <1>7, Zenon

LEMMA StoreKeeps ==
    ASSUME NEW f, FormShape(f), NEW l
    PROVE  SameAnswer(f, AtStore(f, l))
<1>1. SameAnswer(f, f)
  BY DEF SameAnswer
<1>2. PICK g : g = [f EXCEPT !.name = Catalog[l]]
  OBVIOUS
<1>3. AtStore(f, l) = [g EXCEPT !.id = l]
  BY <1>2, Zenon DEF AtStore
<1>4. SameAnswer(f, g)
  BY <1>1, <1>2, SetKeeps
<1>5. SameAnswer(f, [g EXCEPT !.id = l])
  BY <1>4, SetKeeps
<1>6. QED
  BY <1>3, <1>5, Zenon

\* Pulls are of tickets.
TicketInv == FormShape(form) /\ pulls \subseteq DOMAIN Remote /\ FormIsOneAnswer

LEMMA ShowFills ==
    ASSUME FormShape(form), NEW no, NEW reading, NEW wo, Show(no, reading, wo),
           reading.of = no, wo # None => wo.no = no
    PROVE  FormShape(form') /\ FormIsOneAnswer'
<1> DEFINE g == Filled(no, reading, wo)
<1>1. FormShape(g) /\ g.of = no /\ g.asked = no /\ g.existing = wo
  BY DEF FormShape, Filled
<1>2. form' = g \/ form' = AtStore(g, reading.location)
  BY DEF Show
<1>3. SameAnswer(g, form')
  BY <1>1, <1>2, StoreKeeps DEF SameAnswer
<1>4. QED
  BY <1>1, <1>3 DEF SameAnswer, FormIsOneAnswer

LEMMA OpenedKeeps ==
    ASSUME Opened
    PROVE  TicketInv'
BY DEF Opened, Blank, TicketInv, FormShape, FormIsOneAnswer

LEMMA SameAnswerKeeps ==
    ASSUME TicketInv, SameAnswer(form, form'), pulls' \subseteq pulls
    PROVE  TicketInv'
BY DEF TicketInv, SameAnswer, FormIsOneAnswer

LEMMA TicketInvStep ==
    ASSUME TicketInv, [TicketNext]_ticketVars
    PROVE  TicketInv'
<1>0. SameAnswer(form, form)
  BY DEF TicketInv, SameAnswer
<1>1. ASSUME NEW no \in DOMAIN Remote, TypeTicket(no) \/ Pull(no) PROVE TicketInv'
  BY <1>1, <1>0 DEF TypeTicket, Pull, TicketInv, FormIsOneAnswer
<1>2. CASE TypeStore
  BY <1>2 DEF TypeStore, TicketInv, FormIsOneAnswer
<1>3. CASE ChangeLocation
  <2>1. SameAnswer(form, [form EXCEPT !.name = None, !.id = None])
    <3>1. [form EXCEPT !.name = None, !.id = None] = [[form EXCEPT !.name = None] EXCEPT !.id = None]
      BY Zenon
    <3>2. QED
      BY <1>0, <3>1, SetKeeps, Zenon
  <2>2. SameAnswer(form, form') /\ pulls' = pulls
    BY <1>3, <2>1, GrabKeeps DEF ChangeLocation, SameAnswer
  <2>3. QED
    BY <2>2, SameAnswerKeeps
<1>4. ASSUME NEW type \in Types, PickType(type) PROVE TicketInv'
  <2>1. SameAnswer(form, [form EXCEPT !.type = type])
    BY DEF TicketInv, FormShape, SameAnswer
  <2>2. QED
    BY <1>4, <2>1, SameAnswerKeeps DEF PickType
<1>5. ASSUME NEW cat, LocationsArrive(cat) PROVE TicketInv'
  <2>1. SameAnswer(form, form') /\ pulls' = pulls
    BY <1>5, <1>0, GrabKeeps DEF LocationsArrive, TicketInv
  <2>2. QED
    BY <2>1, SameAnswerKeeps
<1>6. ASSUME NEW l, PickLocation(l) PROVE TicketInv'
  <2>1. SameAnswer(form, AtStore(form, l))
    BY StoreKeeps DEF TicketInv
  <2>2. SameAnswer(form, form') /\ pulls' = pulls
    BY <1>6, <2>1, GrabKeeps DEF PickLocation, SameAnswer
  <2>3. QED
    BY <2>2, SameAnswerKeeps
<1>7. ASSUME NEW l, CartsArrive(l) PROVE TicketInv'
  <2>1. SameAnswer(form, form') /\ pulls' = pulls
    BY <1>7, <1>0, GrabKeeps DEF CartsArrive, TicketInv
  <2>2. QED
    BY <2>1, SameAnswerKeeps
<1>8. ASSUME NEW no \in pulls, PullFails(no) PROVE TicketInv'
  BY <1>8, <1>0, SameAnswerKeeps DEF PullFails
<1>9. ASSUME NEW no \in pulls, NEW answers \in Replies, Answer(no, answers) PROVE TicketInv'
  <2> DEFINE local == Existing(no) # {}
             got == IF Remote[no].system = "freshdesk" THEN [from |-> "api", of |-> no]
                    ELSE Fetched(answers, no, local)
  <2>1. got.from # "error" /\ pulls' = pulls \ {no}
    BY <1>9 DEF Answer
  <2>2. got.of = no
    BY <2>1, FetchedIsAsked
  <2>3. PICK wo \in IF Existing(no) = {} THEN {None} ELSE Existing(no) :
          Show(no, IF got.from = "db" THEN LocalReading(wo) ELSE Reading(Remote[got.of]), wo)
    BY <1>9 DEF Answer
  <2>4. wo # None => wo.no = no
    BY <2>3 DEF Existing
  <2>5. Reading(Remote[got.of]).of = no
    BY <2>2, TicketAssumption DEF Reading, TicketInv
  <2>6. got.from = "db" => LocalReading(wo).of = no
    <3>1. ASSUME got.from = "db" PROVE Existing(no) # {}
      BY <3>1 DEF Fetched
    <3>2. QED
      BY <2>3, <3>1 DEF LocalReading, Existing
  <2>7. FormShape(form') /\ FormIsOneAnswer'
    <3>1. CASE got.from = "db"
      BY <3>1, <2>3, <2>4, <2>6, ShowFills DEF TicketInv
    <3>2. CASE got.from # "db"
      BY <3>2, <2>3, <2>4, <2>5, ShowFills DEF TicketInv
    <3>3. QED
      BY <3>1, <3>2
  <2>8. QED
    BY <2>1, <2>7 DEF TicketInv
<1>10. CASE SaveOrder
  <2>1. SameAnswer(form, Grabbed(form, inputs))
    BY GrabKeeps DEF TicketInv
  <2>2. SameAnswer(form, AtStore(Grabbed(form, inputs), location))
    BY <2>1, StoreKeeps DEF SameAnswer
  <2>3. \A v : SameAnswer(form, [Grabbed(form, inputs) EXCEPT !.name = v])
    BY <2>1 DEF SameAnswer, FormShape
  <2>4. SameAnswer(form, ForSave)
    BY <2>2, <2>3 DEF ForSave
  <2>5. QED
    BY <1>10, <2>4, SameAnswerKeeps DEF SaveOrder
<1>11. ASSUME NEW p \in posts, Create(p) PROVE TicketInv'
  <2>1. CASE Opened
    BY <2>1, OpenedKeeps
  <2>2. CASE UNCHANGED <<orders, catalog, waiting, form, inputs, location, loads, carts, pulls>>
    BY <2>2 DEF TicketInv, FormIsOneAnswer
  <2>3. QED
    BY <1>11, <2>1, <2>2 DEF Create
<1>12. CASE ApplyPulled
  BY <1>12, OpenedKeeps DEF ApplyPulled
<1>13. CASE UNCHANGED ticketVars
  BY <1>13 DEF ticketVars, TicketInv, FormIsOneAnswer
<1>14. QED
  BY <1>1, <1>2, <1>3, <1>4, <1>5, <1>6, <1>7, <1>8, <1>9, <1>10, <1>11, <1>12, <1>13
  DEF TicketNext

(* However pulls overlap and whatever MaintainX returns, the form shows the  *)
(* ticket that was asked for, and the order "Apply" would overwrite has this *)
(* ticket's number: of an answer whose id is another one nothing is taken.   *)
THEOREM OneTicketShown == TicketSpec => []FormIsOneAnswer
<1>1. TicketInit => TicketInv
  BY DEF TicketInit, Blank, TicketInv, FormShape, FormIsOneAnswer
<1>2. TicketInv /\ [TicketNext]_ticketVars => TicketInv'
  BY TicketInvStep
<1>3. TicketInv => FormIsOneAnswer
  BY DEF TicketInv
<1>4. QED
  BY <1>1, <1>2, <1>3, PTL DEF TicketSpec

-----------------------------------------------------------------------------
(* Accounts *)

USE RootAssumption, ThrottleAssumption, EpochAssumption

(* Deleting the sessions of an account leaves no row of it, and the others.  *)
LEMMA WithoutSessions ==
    ASSUME NEW u \in Accounts, sessions \in [Tokens -> Session \cup {NoSession}],
           NEW t \in Tokens
    PROVE  /\ WithoutSessionsOf(u) \in [Tokens -> Session \cup {NoSession}]
           /\ WithoutSessionsOf(u)[t] # NoSession =>
                 /\ sessions[t] # NoSession
                 /\ WithoutSessionsOf(u)[t] = sessions[t]
                 /\ sessions[t].user # u
BY DEF WithoutSessionsOf

(* A row of the table is a session, and tells its account.                   *)
LEMMA SessionRows ==
    ASSUME sessions \in [Tokens -> Session \cup {NoSession}], NEW t \in Tokens,
           sessions[t] # NoSession
    PROVE  sessions[t] \in Session /\ sessions[t].user \in Accounts
BY DEF Session

(* One more failure keeps the record's shape.                                *)
LEMMA RecordFailType ==
    ASSUME NEW r \in Fails
    PROVE  RecordFail(r) \in Fails
BY DEF RecordFail, Fails

(* Looking an account up touches the attempts and the throttle only.         *)
LEMMA LookUpType ==
    ASSUME TypeOK, NEW a \in Attempts, NEW k \in Keys, LookUp(a, k)
    PROVE  attempts' \in [Attempts -> Attempt \cup {Idle}] /\ throttle' \in [Keys -> Fails]
<1>1. CASE /\ attempts' = [attempts EXCEPT ![a] = Idle]
           /\ throttle' = [throttle EXCEPT ![k] = RecordFail(@)]
  BY <1>1, RecordFailType DEF TypeOK
<1>2. ASSUME NEW u \in Accounts, UNCHANGED throttle,
             attempts' = [attempts EXCEPT ![a] =
                IF Disabled(u) \/ users[u].password = "none"
                THEN Idle ELSE [phase |-> "verifying", key |-> k, user |-> u]]
      PROVE  attempts' \in [Attempts -> Attempt \cup {Idle}] /\ throttle' \in [Keys -> Fails]
  BY <1>2 DEF TypeOK, Attempt
<1>3. QED
  BY <1>1, <1>2 DEF LookUp

-----------------------------------------------------------------------------
LEMMA TypeInit == Init => TypeOK
BY DEF Init, TypeOK, User, Session, NoSession, Fails, NoFails, Idle, Roles, Statuses

(* Requests of a login or of a change of password.                           *)
LEMMA TypeRequests ==
    ASSUME TypeOK,
           \/ \E a \in Attempts, k \in Keys : Login(a, k)
           \/ \E a \in Attempts : LoginWakes(a) \/ LoginRefused(a)
           \/ \E a \in Attempts, t \in Tokens : LoginAccepted(a, t)
           \/ \E a \in Attempts, u \in Accounts : ChangePassword(a, u)
           \/ \E a \in Attempts, right \in BOOLEAN : ChangeVerified(a, right)
    PROVE  TypeOK'
<1>1. ASSUME NEW a \in Attempts, NEW k \in Keys, Login(a, k) PROVE TypeOK'
  <2>1. CASE Slow(k)
    BY <1>1, <2>1 DEF Login, TypeOK, Attempt
  <2>2. CASE ~Slow(k)
    BY <1>1, <2>2, LookUpType DEF Login, TypeOK
  <2>3. QED
    BY <2>1, <2>2
<1>2. ASSUME NEW a \in Attempts, LoginWakes(a) PROVE TypeOK'
  <2>1. attempts[a].key \in Keys
    BY <1>2 DEF LoginWakes, TypeOK, Attempt, Idle
  <2>2. QED
    BY <1>2, <2>1, LookUpType DEF LoginWakes, TypeOK
<1>3. ASSUME NEW a \in Attempts, LoginRefused(a) PROVE TypeOK'
  BY <1>3, RecordFailType DEF LoginRefused, TypeOK, Attempt, Idle
<1>4. ASSUME NEW a \in Attempts, NEW t \in Tokens, LoginAccepted(a, t) PROVE TypeOK'
  <2>1. attempts[a].user \in Accounts
    BY <1>4 DEF LoginAccepted, TypeOK, Attempt, Idle
  <2>2. [user |-> attempts[a].user, epoch |-> users[attempts[a].user].epoch,
         expired |-> FALSE] \in Session
    BY <2>1 DEF TypeOK, User, Session
  <2>3. NoFails \in Fails
    BY DEF NoFails, Fails
  <2>4. QED
    BY <1>4, <2>2, <2>3 DEF LoginAccepted, TypeOK
<1>5. ASSUME NEW a \in Attempts, NEW u \in Accounts, ChangePassword(a, u) PROVE TypeOK'
  BY <1>5 DEF ChangePassword, TypeOK, User, Attempt
<1>6. ASSUME NEW a \in Attempts, NEW right \in BOOLEAN, ChangeVerified(a, right) PROVE TypeOK'
  <2>1. attempts[a].user \in Accounts
    BY <1>6 DEF ChangeVerified, TypeOK, Attempt, Idle
  <2>2. QED
    BY <1>6, <2>1 DEF ChangeVerified, TypeOK, User
<1>7. QED
  BY <1>1, <1>2, <1>3, <1>4, <1>5, <1>6

(* Administration, with create-admin.js.                                     *)
LEMMA TypeAdministration ==
    ASSUME TypeOK, NEW me \in Accounts, NEW u \in Accounts,
           \/ CreateTechnician(me, u)
           \/ \E role \in Roles : CreateUser(me, u, role)
           \/ \E role \in Roles, state \in Statuses : PatchUser(me, u, role, state)
           \/ ResetPassword(me, u)
           \/ DisableUser(me, u)
           \/ CreateAdmin(u)
           \/ Wipe
    PROVE  TypeOK'
<1>s. WithoutSessionsOf(u) \in [Tokens -> Session \cup {NoSession}]
  BY DEF WithoutSessionsOf, TypeOK
<1>1. CASE CreateTechnician(me, u)
  BY <1>1 DEF CreateTechnician, Insert, TypeOK, User, Roles, Statuses
<1>2. ASSUME NEW role \in Roles, CreateUser(me, u, role) PROVE TypeOK'
  <2>1. users' = [users EXCEPT ![u] = [@ EXCEPT !.role = role, !.status = "active",
                                                !.password = "temporary"]]
    BY <1>2 DEF CreateUser, Insert, TypeOK, User
  <2>2. users' \in [Accounts -> User]
    BY <2>1 DEF TypeOK, User, Statuses
  <2>3. QED
    BY <1>2, <2>2 DEF CreateUser, Insert, TypeOK
<1>3. ASSUME NEW role \in Roles, NEW state \in Statuses, PatchUser(me, u, role, state)
      PROVE  TypeOK'
  <2>1. users[u].epoch \in 0..MaxEpoch /\ users[u] \in User
    BY DEF TypeOK, User
  <2>2. (IF state = "disabled" THEN users[u].epoch + 1 ELSE users[u].epoch) \in 0..MaxEpoch
    <3>1. CASE state = "disabled"
      <4>1. users[u].epoch < MaxEpoch
        BY <1>3, <3>1 DEF PatchUser
      <4>2. QED
        BY <2>1, <3>1, <4>1
    <3>2. CASE state # "disabled"
      BY <2>1, <3>2
    <3>3. QED
      BY <3>1, <3>2
  <2>3. users' = [users EXCEPT ![u] = [@ EXCEPT !.role = role, !.status = state,
            !.epoch = IF state = "disabled" THEN users[u].epoch + 1 ELSE users[u].epoch]]
    <3>1. users' = [users EXCEPT ![u].role = role, ![u].status = state,
                        ![u].epoch = IF state = "disabled" THEN @ + 1 ELSE @]
      BY <1>3 DEF PatchUser
    <3>2. QED
      BY <3>1, <2>1 DEF TypeOK, User
  <2>4. users' \in [Accounts -> User]
    BY <2>1, <2>2, <2>3 DEF TypeOK, User
  <2>5. QED
    BY <1>3, <1>s, <2>4 DEF PatchUser, TypeOK
<1>4. CASE ResetPassword(me, u)
  BY <1>4, <1>s DEF ResetPassword, TypeOK, User
<1>5. CASE DisableUser(me, u)
  BY <1>5, <1>s DEF DisableUser, TypeOK, User, Statuses
<1>6. CASE CreateAdmin(u)
  <2>1. users' = [users EXCEPT ![u] = [@ EXCEPT !.role = "admin", !.status = "active",
            !.password = IF users[u].password = "temporary" THEN users[u].password ELSE "own"]]
    BY <1>6 DEF CreateAdmin, TypeOK, User
  <2>2. users' \in [Accounts -> User]
    BY <2>1 DEF TypeOK, User, Roles, Statuses
  <2>3. QED
    BY <1>6, <2>2 DEF CreateAdmin, TypeOK
<1>7. CASE Wipe
  BY <1>7 DEF Wipe, TypeOK, User, Roles, Statuses
<1>8. QED
  BY <1>1, <1>2, <1>3, <1>4, <1>5, <1>6, <1>7

LEMMA TypeTime ==
    ASSUME TypeOK,
           \/ \E t \in Tokens : Logout(t) \/ SessionExpires(t) \/ ExpiredTokenUsed(t)
           \/ \E k \in Keys : WindowPasses(k) \/ LockPasses(k)
           \/ Restart
    PROVE  TypeOK'
<1>1. ASSUME NEW t \in Tokens, Logout(t) \/ ExpiredTokenUsed(t) PROVE TypeOK'
  BY <1>1 DEF Logout, ExpiredTokenUsed, TypeOK
<1>2. ASSUME NEW t \in Tokens, SessionExpires(t) PROVE TypeOK'
  BY <1>2, SessionRows DEF SessionExpires, TypeOK, Session
<1>3. ASSUME NEW k \in Keys, WindowPasses(k) \/ LockPasses(k) PROVE TypeOK'
  <2>1. throttle[k] \in Fails
    BY DEF TypeOK
  <2>2. [throttle[k] EXCEPT !.stale = TRUE] \in Fails /\ [throttle[k] EXCEPT !.locked = FALSE] \in Fails
    BY <2>1, Zenon DEF Fails
  <2>3. QED
    BY <1>3, <2>2 DEF WindowPasses, LockPasses, TypeOK
<1>4. CASE Restart
  BY <1>4 DEF Restart, TypeOK, Fails, NoFails
<1>5. QED
  BY <1>1, <1>2, <1>3, <1>4

LEMMA TypeStep == TypeOK /\ [Next]_vars => TypeOK'
<1>1. CASE UNCHANGED vars
  BY <1>1 DEF vars, TypeOK
<1>2. CASE Next
  BY <1>2, TypeRequests, TypeAdministration, TypeTime, RootAssumption DEF Next
<1>3. QED
  BY <1>1, <1>2

(* Every reachable state of accounts, sessions, throttle and suspended       *)
(* requests has the shape the code gives it.                                 *)
THEOREM AccountsTypeCorrect == Spec => []TypeOK
<1>1. QED
  BY TypeInit, TypeStep, PTL DEF Spec

-----------------------------------------------------------------------------
(* A suspended login names an account that had a password when it was read,  *)
(* and passwords are replaced, never removed.                                *)
LoginsHaveOwners ==
    \A a \in Attempts : attempts[a].phase = "verifying" =>
        Present(attempts[a].user) /\ users[attempts[a].user].password # "none"

AccountsInv ==
    /\ TypeOK
    /\ SessionsHaveOwners
    /\ LoginsHaveOwners
    /\ AdminRemains
    /\ RevokedStayDead

LEMMA AccountsInit == Init => AccountsInv
<1> SUFFICES ASSUME Init PROVE AccountsInv
  OBVIOUS
<1>1. TypeOK
  BY TypeInit
<1>2. SessionsHaveOwners /\ RevokedStayDead
  BY DEF Init, SessionsHaveOwners, RevokedStayDead
<1>3. LoginsHaveOwners
  BY DEF Init, LoginsHaveOwners, Idle
<1>4. AdminRemains
  BY DEF Init, AdminRemains, Present, Admin, Disabled
<1>5. QED
  BY <1>1, <1>2, <1>3, <1>4 DEF AccountsInv

(* A step that leaves users alone and adds no session keeps all but the      *)
(* suspended logins.                                                         *)
LEMMA UsersUntouched ==
    ASSUME AccountsInv, UNCHANGED users,
           \A t \in Tokens : sessions'[t] # NoSession =>
               /\ sessions[t] # NoSession
               /\ sessions'[t].user = sessions[t].user
               /\ sessions'[t].epoch = sessions[t].epoch
    PROVE  SessionsHaveOwners' /\ AdminRemains' /\ RevokedStayDead'
BY DEF AccountsInv, SessionsHaveOwners, AdminRemains, RevokedStayDead, Present, Admin, Disabled

(* A login that goes on names an account with a password.                    *)
LEMMA LookUpOwners ==
    ASSUME AccountsInv, NEW a \in Attempts, NEW k \in Keys, LookUp(a, k), UNCHANGED users
    PROVE  LoginsHaveOwners'
<1>1. CASE attempts' = [attempts EXCEPT ![a] = Idle]
  BY <1>1 DEF AccountsInv, TypeOK, LoginsHaveOwners, Idle, Present
<1>2. ASSUME NEW u \in Accounts, Present(u),
             attempts' = [attempts EXCEPT ![a] =
                IF Disabled(u) \/ users[u].password = "none"
                THEN Idle ELSE [phase |-> "verifying", key |-> k, user |-> u]]
      PROVE  LoginsHaveOwners'
  <2>1. CASE Disabled(u) \/ users[u].password = "none"
    BY <1>2, <2>1 DEF AccountsInv, TypeOK, LoginsHaveOwners, Idle, Present
  <2>2. CASE ~Disabled(u) /\ users[u].password # "none"
    BY <1>2, <2>2 DEF AccountsInv, TypeOK, LoginsHaveOwners, Present
  <2>3. QED
    BY <2>1, <2>2
<1>3. QED
  BY <1>1, <1>2 DEF LookUp

LEMMA RequestsKeep ==
    ASSUME AccountsInv,
           \/ \E a \in Attempts, k \in Keys : Login(a, k)
           \/ \E a \in Attempts : LoginWakes(a) \/ LoginRefused(a)
           \/ \E a \in Attempts, t \in Tokens : LoginAccepted(a, t)
    PROVE  SessionsHaveOwners' /\ LoginsHaveOwners' /\ AdminRemains' /\ RevokedStayDead'
<1>1. ASSUME NEW a \in Attempts, NEW k \in Keys, Login(a, k)
      PROVE  SessionsHaveOwners' /\ LoginsHaveOwners' /\ AdminRemains' /\ RevokedStayDead'
  <2>1. UNCHANGED <<users, sessions>>
    BY <1>1 DEF Login
  <2>2. LoginsHaveOwners'
    <3>1. CASE Slow(k)
      BY <1>1, <2>1, <3>1 DEF Login, AccountsInv, TypeOK, LoginsHaveOwners, Present
    <3>2. CASE ~Slow(k)
      BY <1>1, <2>1, <3>2, LookUpOwners DEF Login
    <3>3. QED
      BY <3>1, <3>2
  <2>3. QED
    BY <2>1, <2>2, UsersUntouched
<1>2. ASSUME NEW a \in Attempts, LoginWakes(a)
      PROVE  SessionsHaveOwners' /\ LoginsHaveOwners' /\ AdminRemains' /\ RevokedStayDead'
  <2>1. attempts[a].key \in Keys
    BY <1>2 DEF LoginWakes, AccountsInv, TypeOK, Attempt, Idle
  <2>2. QED
    BY <1>2, <2>1, LookUpOwners, UsersUntouched DEF LoginWakes
<1>3. ASSUME NEW a \in Attempts, LoginRefused(a)
      PROVE  SessionsHaveOwners' /\ LoginsHaveOwners' /\ AdminRemains' /\ RevokedStayDead'
  <2>1. LoginsHaveOwners'
    BY <1>3 DEF LoginRefused, AccountsInv, TypeOK, LoginsHaveOwners, Idle, Present
  <2>2. QED
    BY <1>3, <2>1, UsersUntouched DEF LoginRefused
<1>4. ASSUME NEW a \in Attempts, NEW t \in Tokens, LoginAccepted(a, t)
      PROVE  SessionsHaveOwners' /\ LoginsHaveOwners' /\ AdminRemains' /\ RevokedStayDead'
  <2> DEFINE u == attempts[a].user
             new == [user |-> u, epoch |-> users[u].epoch, expired |-> FALSE]
  <2>1. Present(u) /\ users[u].password # "none" /\ UNCHANGED users
    BY <1>4 DEF LoginAccepted, AccountsInv, LoginsHaveOwners
  <2>2. \A s \in Tokens : sessions'[s] = IF s = t THEN new ELSE sessions[s]
    BY <1>4 DEF LoginAccepted, AccountsInv, TypeOK
  <2>3. SessionsHaveOwners'
    BY <2>1, <2>2 DEF AccountsInv, SessionsHaveOwners, Present
  <2>4. RevokedStayDead'
    BY <2>1, <2>2 DEF AccountsInv, RevokedStayDead
  <2>5. LoginsHaveOwners'
    BY <1>4, <2>1 DEF LoginAccepted, AccountsInv, TypeOK, LoginsHaveOwners, Idle, Present
  <2>6. AdminRemains'
    BY <2>1 DEF AccountsInv, AdminRemains, Present, Admin, Disabled
  <2>7. QED
    BY <2>3, <2>4, <2>5, <2>6
<1>5. QED
  BY <1>1, <1>2, <1>3, <1>4

(* A password that changes becomes the owner's: nothing else moves.          *)
LEMMA PasswordsKeep ==
    ASSUME AccountsInv,
           \/ \E a \in Attempts, u \in Accounts : ChangePassword(a, u)
           \/ \E a \in Attempts, right \in BOOLEAN : ChangeVerified(a, right)
    PROVE  SessionsHaveOwners' /\ LoginsHaveOwners' /\ AdminRemains' /\ RevokedStayDead'
<1> DEFINE SameButPassword ==
       \A v \in Accounts : /\ users'[v].role = users[v].role
                           /\ users'[v].status = users[v].status
                           /\ users'[v].epoch = users[v].epoch
                           /\ users[v].password # "none" => users'[v].password # "none"
<1>1. ASSUME SameButPassword, UNCHANGED sessions,
             \A a \in Attempts : attempts'[a].phase = "verifying" => attempts'[a] = attempts[a]
      PROVE  SessionsHaveOwners' /\ LoginsHaveOwners' /\ AdminRemains' /\ RevokedStayDead'
  <2>1. \A t \in Tokens : sessions[t] # NoSession => sessions[t].user \in Accounts
    BY SessionRows DEF AccountsInv, TypeOK
  <2>2. \A a \in Attempts : attempts[a].phase = "verifying" => attempts[a].user \in Accounts
    BY DEF AccountsInv, TypeOK, Attempt, Idle
  <2>3. SessionsHaveOwners' /\ RevokedStayDead'
    BY <1>1, <2>1 DEF AccountsInv, SessionsHaveOwners, RevokedStayDead, Present
  <2>4. LoginsHaveOwners'
    BY <1>1, <2>2 DEF AccountsInv, LoginsHaveOwners, Present
  <2>5. AdminRemains'
    BY <1>1 DEF AccountsInv, AdminRemains, Present, Admin, Disabled
  <2>6. QED
    BY <2>3, <2>4, <2>5
<1>2. ASSUME NEW a \in Attempts, NEW u \in Accounts, ChangePassword(a, u)
      PROVE  SessionsHaveOwners' /\ LoginsHaveOwners' /\ AdminRemains' /\ RevokedStayDead'
  <2>1. SameButPassword /\ UNCHANGED sessions
    BY <1>2 DEF ChangePassword, AccountsInv, TypeOK, User
  <2>2. \A b \in Attempts : attempts'[b].phase = "verifying" => attempts'[b] = attempts[b]
    BY <1>2 DEF ChangePassword, AccountsInv, TypeOK
  <2>3. QED
    BY <1>1, <2>1, <2>2
<1>3. ASSUME NEW a \in Attempts, NEW right \in BOOLEAN, ChangeVerified(a, right)
      PROVE  SessionsHaveOwners' /\ LoginsHaveOwners' /\ AdminRemains' /\ RevokedStayDead'
  <2>1. SameButPassword /\ UNCHANGED sessions
    BY <1>3 DEF ChangeVerified, AccountsInv, TypeOK, User
  <2>2. \A b \in Attempts : attempts'[b].phase = "verifying" => attempts'[b] = attempts[b]
    BY <1>3 DEF ChangeVerified, AccountsInv, TypeOK, Idle
  <2>3. QED
    BY <1>1, <2>1, <2>2
<1>4. QED
  BY <1>2, <1>3

(* Revoking the sessions of u leaves the rows of the other accounts, whose   *)
(* epochs stand.                                                             *)
LEMMA RevocationKeeps ==
    ASSUME AccountsInv, NEW u \in Accounts, sessions' = WithoutSessionsOf(u),
           users' \in [Accounts -> User],
           \A v \in Accounts \ {u} : users'[v] = users[v]
    PROVE  SessionsHaveOwners' /\ RevokedStayDead'
<1>1. \A t \in Tokens : sessions'[t] # NoSession =>
         /\ sessions[t] # NoSession /\ sessions'[t] = sessions[t]
         /\ sessions[t].user \in Accounts \ {u}
  BY WithoutSessions, SessionRows DEF AccountsInv, TypeOK
<1>2. QED
  BY <1>1 DEF AccountsInv, SessionsHaveOwners, RevokedStayDead, Present

(* Changing the row of u keeps the suspended logins if u keeps its place and *)
(* a password.                                                               *)
LEMMA LoginsKeep ==
    ASSUME AccountsInv, NEW u \in Accounts, UNCHANGED attempts,
           \A v \in Accounts \ {u} : users'[v] = users[v],
           Present(u) => users'[u].status # "absent",
           users[u].password # "none" => users'[u].password # "none"
    PROVE  LoginsHaveOwners'
<1>1. \A a \in Attempts : attempts[a].phase = "verifying" => attempts[a].user \in Accounts
  BY DEF AccountsInv, TypeOK, Attempt, Idle
<1>2. QED
  BY <1>1 DEF AccountsInv, LoginsHaveOwners, Present

(* The admin who acts signed in with a password and is not disabled.         *)
LEMMA ActingAdmin ==
    ASSUME AccountsInv, NEW me \in Accounts, SignedInAdmin(me)
    PROVE  Present(me) /\ Admin(me) /\ ~Disabled(me) /\ users[me].password # "none"
BY DEF SignedInAdmin, SignedIn, AccountsInv, SessionsHaveOwners

LEMMA AdministrationKeeps ==
    ASSUME AccountsInv, NEW me \in Accounts, NEW u \in Accounts,
           \/ CreateTechnician(me, u)
           \/ \E role \in Roles : CreateUser(me, u, role)
           \/ \E role \in Roles, state \in Statuses : PatchUser(me, u, role, state)
           \/ ResetPassword(me, u)
           \/ DisableUser(me, u)
           \/ CreateAdmin(u)
    PROVE  SessionsHaveOwners' /\ LoginsHaveOwners' /\ AdminRemains' /\ RevokedStayDead'
<1>t. TypeOK'
  BY TypeAdministration DEF AccountsInv
<1>u. users \in [Accounts -> User]
  BY DEF AccountsInv, TypeOK
<1>1. ASSUME NEW role \in Roles, NEW password \in {"none", "temporary"}, Insert(u, role, password)
      PROVE  SessionsHaveOwners' /\ LoginsHaveOwners' /\ AdminRemains' /\ RevokedStayDead'
  <2>1. \A v \in Accounts \ {u} : users'[v] = users[v]
    BY <1>1, <1>u DEF Insert
  <2>2. ~Present(u) /\ UNCHANGED <<sessions, attempts>>
    BY <1>1 DEF Insert, Present
  <2>3. \A t \in Tokens : sessions[t] # NoSession => sessions[t].user \in Accounts \ {u}
    BY <2>2, SessionRows DEF AccountsInv, TypeOK, SessionsHaveOwners
  <2>4. SessionsHaveOwners' /\ RevokedStayDead'
    BY <2>1, <2>2, <2>3 DEF AccountsInv, SessionsHaveOwners, RevokedStayDead, Present
  <2>5. \A a \in Attempts : attempts[a].phase = "verifying" => attempts[a].user \in Accounts \ {u}
    BY <2>2 DEF AccountsInv, TypeOK, LoginsHaveOwners, Attempt, Idle
  <2>6. LoginsHaveOwners'
    BY <2>1, <2>2, <2>5 DEF AccountsInv, LoginsHaveOwners, Present
  <2>7. AdminRemains'
    BY <2>1, <2>2 DEF AccountsInv, AdminRemains, Present, Admin, Disabled
  <2>8. QED
    BY <2>4, <2>6, <2>7
<1>2. CASE CreateTechnician(me, u)
  BY <1>1, <1>2 DEF CreateTechnician, Roles
<1>3. ASSUME NEW role \in Roles, CreateUser(me, u, role)
      PROVE  SessionsHaveOwners' /\ LoginsHaveOwners' /\ AdminRemains' /\ RevokedStayDead'
  BY <1>1, <1>3 DEF CreateUser
<1>4. ASSUME NEW role \in Roles, NEW state \in Statuses, PatchUser(me, u, role, state)
      PROVE  SessionsHaveOwners' /\ LoginsHaveOwners' /\ AdminRemains' /\ RevokedStayDead'
  <2>1. /\ UNCHANGED attempts /\ Present(u) /\ SignedInAdmin(me)
        /\ users' = [users EXCEPT ![u].role = role, ![u].status = state,
                         ![u].epoch = IF state = "disabled" THEN @ + 1 ELSE @]
        /\ sessions' = IF state = "disabled" THEN WithoutSessionsOf(u) ELSE sessions
        /\ (state = "disabled" \/ (role # users[u].role /\ role # "admin")) => u # me
    BY <1>4 DEF PatchUser
  <2>2. \A v \in Accounts \ {u} : users'[v] = users[v]
    BY <2>1, <1>u
  <2>3. /\ users'[u].status = state /\ users'[u].role = role
        /\ users'[u].password = users[u].password
        /\ state # "disabled" => users'[u].epoch = users[u].epoch
    BY <2>1, <1>u DEF User
  <2>4. SessionsHaveOwners' /\ RevokedStayDead'
    <3>1. CASE state = "disabled"
      BY <3>1, <2>1, <2>2, <1>t, RevocationKeeps DEF TypeOK
    <3>2. CASE state # "disabled"
      <4>1. \A t \in Tokens : sessions[t] # NoSession => sessions[t].user \in Accounts
        BY SessionRows DEF AccountsInv, TypeOK
      <4>2. QED
        BY <3>2, <4>1, <2>1, <2>2, <2>3
           DEF AccountsInv, SessionsHaveOwners, RevokedStayDead, Present, Statuses
    <3>3. QED
      BY <3>1, <3>2
  <2>5. LoginsHaveOwners'
    BY <2>1, <2>2, <2>3, LoginsKeep DEF Statuses
  <2>6. AdminRemains'
    <3>1. Present(me) /\ Admin(me) /\ ~Disabled(me) /\ users[me].password # "none"
      BY <2>1, ActingAdmin
    <3>2. CASE u = me
      BY <3>1, <3>2, <2>1, <2>3 DEF AdminRemains, Present, Admin, Disabled, Statuses
    <3>3. CASE u # me
      BY <3>1, <3>3, <2>2 DEF AdminRemains, Present, Admin, Disabled
    <3>4. QED
      BY <3>2, <3>3
  <2>7. QED
    BY <2>4, <2>5, <2>6
<1>5. CASE ResetPassword(me, u)
  <2>1. /\ \A v \in Accounts \ {u} : users'[v] = users[v]
        /\ users'[u].status = users[u].status /\ users'[u].role = users[u].role
        /\ users'[u].password = "temporary"
        /\ UNCHANGED attempts
    BY <1>5, <1>u DEF ResetPassword, User
  <2>2. SessionsHaveOwners' /\ RevokedStayDead'
    BY <1>5, <1>t, <2>1, RevocationKeeps DEF ResetPassword, TypeOK
  <2>3. LoginsHaveOwners'
    BY <2>1, LoginsKeep DEF Present
  <2>4. AdminRemains'
    BY <2>1 DEF AccountsInv, AdminRemains, Present, Admin, Disabled
  <2>5. QED
    BY <2>2, <2>3, <2>4
<1>6. CASE DisableUser(me, u)
  <2>1. /\ \A v \in Accounts \ {u} : users'[v] = users[v]
        /\ users'[u].status = "disabled" /\ users'[u].password = users[u].password
        /\ UNCHANGED attempts /\ u # me
    BY <1>6, <1>u DEF DisableUser, User
  <2>2. SessionsHaveOwners' /\ RevokedStayDead'
    BY <1>6, <1>t, <2>1, RevocationKeeps DEF DisableUser, TypeOK
  <2>3. LoginsHaveOwners'
    BY <2>1, LoginsKeep
  <2>4. Present(me) /\ Admin(me) /\ ~Disabled(me) /\ users[me].password # "none"
    BY <1>6, ActingAdmin DEF DisableUser
  <2>5. AdminRemains'
    BY <2>1, <2>4 DEF AdminRemains, Present, Admin, Disabled
  <2>6. QED
    BY <2>2, <2>3, <2>5
<1>7. CASE CreateAdmin(u)
  <2>1. /\ \A v \in Accounts \ {u} : users'[v] = users[v]
        /\ users'[u].status = "active" /\ users'[u].role = "admin"
        /\ users'[u].password \in {"temporary", "own"}
        /\ users'[u].epoch = users[u].epoch
        /\ UNCHANGED <<sessions, attempts>>
    BY <1>7, <1>u DEF CreateAdmin, User
  <2>2. \A t \in Tokens : sessions[t] # NoSession => sessions[t].user \in Accounts
    BY SessionRows DEF AccountsInv, TypeOK
  <2>3. SessionsHaveOwners' /\ RevokedStayDead'
    BY <2>1, <2>2 DEF AccountsInv, SessionsHaveOwners, RevokedStayDead, Present
  <2>4. LoginsHaveOwners'
    BY <2>1, LoginsKeep
  <2>5. AdminRemains'
    BY <2>1 DEF AdminRemains, Present, Admin, Disabled
  <2>6. QED
    BY <2>3, <2>4, <2>5
<1>8. QED
  BY <1>2, <1>3, <1>4, <1>5, <1>6, <1>7

LEMMA WipeKeeps ==
    ASSUME AccountsInv, Wipe
    PROVE  SessionsHaveOwners' /\ LoginsHaveOwners' /\ AdminRemains' /\ RevokedStayDead'
<1>1. SessionsHaveOwners' /\ RevokedStayDead'
  BY DEF Wipe, SessionsHaveOwners, RevokedStayDead
<1>2. LoginsHaveOwners'
  BY DEF Wipe, LoginsHaveOwners, Idle
<1>3. users'[Root] = [role |-> "admin", status |-> "active", password |-> "own",
                      epoch |-> users[Root].epoch + 1]
  BY RootAssumption DEF Wipe
<1>4. AdminRemains'
  BY <1>3, RootAssumption DEF AdminRemains, Present, Admin, Disabled
<1>5. QED
  BY <1>1, <1>2, <1>4

LEMMA TimeKeeps ==
    ASSUME AccountsInv,
           \/ \E t \in Tokens : Logout(t) \/ SessionExpires(t) \/ ExpiredTokenUsed(t)
           \/ \E k \in Keys : WindowPasses(k) \/ LockPasses(k)
           \/ Restart
    PROVE  SessionsHaveOwners' /\ LoginsHaveOwners' /\ AdminRemains' /\ RevokedStayDead'
<1>1. UNCHANGED users
  BY DEF Logout, SessionExpires, ExpiredTokenUsed, WindowPasses, LockPasses, Restart
<1>2. UNCHANGED attempts \/ attempts' = [a \in Attempts |-> Idle]
  BY DEF Logout, SessionExpires, ExpiredTokenUsed, WindowPasses, LockPasses, Restart
<1>3. \A s \in Tokens : sessions'[s] # NoSession =>
         /\ sessions[s] # NoSession
         /\ sessions'[s].user = sessions[s].user
         /\ sessions'[s].epoch = sessions[s].epoch
  <2>1. ASSUME NEW t \in Tokens, SessionExpires(t), NEW s \in Tokens, sessions'[s] # NoSession
        PROVE  /\ sessions[s] # NoSession
               /\ sessions'[s].user = sessions[s].user
               /\ sessions'[s].epoch = sessions[s].epoch
    BY <2>1, SessionRows DEF SessionExpires, AccountsInv, TypeOK, Session
  <2>2. ASSUME NEW t \in Tokens, Logout(t) \/ ExpiredTokenUsed(t), NEW s \in Tokens,
               sessions'[s] # NoSession
        PROVE  sessions[s] # NoSession /\ sessions'[s] = sessions[s]
    BY <2>2 DEF Logout, ExpiredTokenUsed, AccountsInv, TypeOK
  <2>3. CASE Restart
    BY <2>3 DEF Restart
  <2>4. CASE \E k \in Keys : WindowPasses(k) \/ LockPasses(k)
    BY <2>4 DEF WindowPasses, LockPasses
  <2>5. QED
    BY <2>1, <2>2, <2>3, <2>4
<1>4. LoginsHaveOwners'
  BY <1>1, <1>2 DEF AccountsInv, LoginsHaveOwners, Present, Idle
<1>5. QED
  BY <1>1, <1>3, <1>4, UsersUntouched

LEMMA AccountsStep == AccountsInv /\ [Next]_vars => AccountsInv'
<1> SUFFICES ASSUME AccountsInv, [Next]_vars PROVE AccountsInv'
  OBVIOUS
<1>1. TypeOK'
  BY TypeStep DEF AccountsInv
<1>2. SessionsHaveOwners' /\ LoginsHaveOwners' /\ AdminRemains' /\ RevokedStayDead'
  <2>1. CASE UNCHANGED vars
    BY <2>1 DEF vars, AccountsInv, SessionsHaveOwners, LoginsHaveOwners, AdminRemains,
                RevokedStayDead, Present, Admin, Disabled
  <2>2. CASE Next
    BY <2>2, RequestsKeep, PasswordsKeep, AdministrationKeeps, WipeKeeps, TimeKeeps DEF Next
  <2>3. QED
    BY <2>1, <2>2
<1>3. QED
  BY <1>1, <1>2 DEF AccountsInv

(* However admins edit, disable and promote each other, with logins          *)
(* suspended meanwhile, one remains who is not disabled and has a password.  *)
THEOREM AdministratorRemains == Spec => []AdminRemains
<1>1. AccountsInv => AdminRemains
  BY DEF AccountsInv
<1>2. QED
  BY <1>1, AccountsInit, AccountsStep, PTL DEF Spec

(* A session in the table was opened after the last time the sessions of its *)
(* account were revoked.                                                     *)
THEOREM RevokedSessionsStayDead == Spec => []RevokedStayDead
<1>1. AccountsInv => RevokedStayDead
  BY DEF AccountsInv
<1>2. QED
  BY <1>1, AccountsInit, AccountsStep, PTL DEF Spec

-----------------------------------------------------------------------------
(* The throttle.  A request that passed the test of the lock counts against  *)
(* its key when it fails, lock or no lock: what a record can still become is *)
(* its own count and the requests that have yet to fail.                     *)
Pending(k) == {a \in Attempts : /\ attempts[a].phase \in {"delayed", "verifying"}
                                /\ attempts[a].key = k}

MostFails == MaxFails - 1 + Cardinality(Attempts)

\* r with n requests pending.  A record whose window has passed starts again
\* at 1, so that only its own count is bounded.
Bounded(r, n) ==
    /\ r.fails <= MostFails
    /\ ~r.stale => r.fails + n <= MostFails
    /\ ~r.stale /\ ~r.locked => r.fails < MaxFails

ThrottleInv == \A k \in Keys : Bounded(throttle[k], Cardinality(Pending(k)))

(* Attempts are counted by a number, and so are those that are pending.      *)
LEMMA PendingCount ==
    ASSUME NEW k \in Keys
    PROVE  /\ IsFiniteSet(Pending(k)) /\ Cardinality(Pending(k)) \in Nat
           /\ Cardinality(Pending(k)) <= Cardinality(Attempts)
           /\ Cardinality(Attempts) \in Nat
<1>1. Pending(k) \subseteq Attempts
  BY DEF Pending
<1>2. QED
  BY <1>1, AttemptsAssumption, FS_Subset, FS_CardinalityType, Zenon

(* A subset that misses an element has at least one element fewer.           *)
LEMMA FewerByOne ==
    ASSUME NEW S, NEW T, IsFiniteSet(T), S \subseteq T, NEW x \in T, x \notin S
    PROVE  Cardinality(S) + 1 <= Cardinality(T)
<1>1. S \subseteq T \ {x}
  OBVIOUS
<1>2. IsFiniteSet(T \ {x}) /\ Cardinality(T \ {x}) = Cardinality(T) - 1
  BY FS_RemoveElement, Zenon
<1>3. Cardinality(S) <= Cardinality(T \ {x})
  BY <1>1, <1>2, FS_Subset, Zenon
<1>4. Cardinality(S) \in Nat /\ Cardinality(T) \in Nat
  BY <1>1, <1>2, FS_Subset, FS_CardinalityType, Zenon
<1>5. QED
  BY <1>2, <1>3, <1>4

(* An idle request leaves room for one more.                                 *)
LEMMA PendingBesideIdle ==
    ASSUME NEW k \in Keys, NEW a \in Attempts, a \notin Pending(k)
    PROVE  Cardinality(Pending(k)) + 1 <= Cardinality(Attempts)
<1>1. Pending(k) \subseteq Attempts
  BY DEF Pending
<1>2. QED
  BY <1>1, FewerByOne, AttemptsAssumption

(* Fewer requests pending, or a record that is stale, is no worse.           *)
LEMMA PendingShrinks ==
    ASSUME NEW k \in Keys, Pending(k)' \subseteq Pending(k)
    PROVE  Cardinality(Pending(k)') \in Nat /\ Cardinality(Pending(k)') <= Cardinality(Pending(k))
BY PendingCount, FS_Subset, FS_CardinalityType, Zenon

(* What one more failure makes of a record: the request that failed was one  *)
(* of the pending, or was let through while the record was not locked.       *)
LEMMA FailureBounded ==
    ASSUME NEW r \in Fails, NEW n \in Nat, NEW m \in Nat, Bounded(r, n),
           \/ m + 1 <= n
           \/ ~r.locked /\ m <= n,
           m + 1 <= Cardinality(Attempts), Cardinality(Attempts) \in Nat
    PROVE  Bounded(RecordFail(r), m)
<1> DEFINE f == IF r.stale THEN 1 ELSE r.fails + 1
<1>1. r.fails \in Nat /\ r.stale \in BOOLEAN /\ r.locked \in BOOLEAN
  BY DEF Fails
<1>2. f \in Nat /\ f + m <= MostFails
  <2>1. CASE r.stale
    BY <2>1, <1>1 DEF MostFails
  <2>2. CASE ~r.stale
    BY <2>2, <1>1 DEF Bounded, MostFails
  <2>3. QED
    BY <2>1, <2>2, <1>1
<1>3. RecordFail(r).fails = f /\ RecordFail(r).stale = FALSE
  BY DEF RecordFail
<1>4. MostFails \in Nat
  BY DEF MostFails
<1> HIDE DEF f
<1>5. RecordFail(r).fails <= MostFails /\ RecordFail(r).fails + m <= MostFails
  BY <1>2, <1>3, <1>4
<1>6. ~RecordFail(r).locked => RecordFail(r).fails < MaxFails
  <2>1. (f >= MaxFails) => RecordFail(r).locked
    BY Zenon DEF RecordFail, f
  <2>2. QED
    BY <1>2, <1>3, <2>1
<1>7. QED
  BY <1>3, <1>5, <1>6 DEF Bounded

(* A record that is left alone, with no more requests pending than before.   *)
LEMMA SameRecord ==
    ASSUME ThrottleInv, TypeOK, NEW k \in Keys,
           throttle'[k] = throttle[k], Pending(k)' \subseteq Pending(k)
    PROVE  Bounded(throttle'[k], Cardinality(Pending(k)'))
<1>1. Bounded(throttle[k], Cardinality(Pending(k))) /\ throttle[k] \in Fails
  BY DEF ThrottleInv, TypeOK
<1>2. Cardinality(Pending(k)') \in Nat /\ Cardinality(Pending(k)') <= Cardinality(Pending(k))
  BY PendingShrinks
<1>3. Cardinality(Pending(k)) \in Nat
  BY PendingCount
<1>4. MostFails \in Int
  BY PendingCount DEF MostFails
<1>5. throttle[k].fails \in Nat
  BY <1>1 DEF Fails
<1>6. QED
  BY <1>1, <1>2, <1>3, <1>4, <1>5 DEF Bounded

(* A record with no failures leaves room for every request.                  *)
LEMMA FreshRecord ==
    ASSUME NEW k \in Keys, NEW n \in Nat, n <= Cardinality(Attempts)
    PROVE  Bounded(NoFails, n)
BY PendingCount DEF Bounded, NoFails, MostFails

(* A request that ends is no longer pending, and the others are as before.   *)
LEMMA PendingEnds ==
    ASSUME TypeOK, NEW a \in Attempts, attempts' = [attempts EXCEPT ![a] = Idle], NEW k \in Keys
    PROVE  Pending(k)' = Pending(k) \ {a}
BY DEF Pending, TypeOK, Idle

(* A request that is let through, or goes on, is pending on its own key only.*)
LEMMA PendingStarts ==
    ASSUME TypeOK, NEW a \in Attempts, NEW k \in Keys, NEW j \in Keys, NEW x \in Attempt,
           x.phase \in {"delayed", "verifying"}, x.key = k,
           attempts' = [attempts EXCEPT ![a] = x]
    PROVE  Pending(j)' = IF j = k THEN Pending(k) \cup {a} ELSE Pending(j) \ {a}
BY DEF Pending, TypeOK

(* A failure is recorded for the key of the request that ends: it had passed *)
(* the test of the lock earlier, or passes it in this step.                  *)
LEMMA FailureStep ==
    ASSUME ThrottleInv, TypeOK, NEW a \in Attempts, NEW k \in Keys,
           a \in Pending(k) \/ ~throttle[k].locked,
           attempts' = [attempts EXCEPT ![a] = Idle],
           throttle' = [throttle EXCEPT ![k] = RecordFail(@)]
    PROVE  ThrottleInv'
<1> SUFFICES ASSUME NEW j \in Keys PROVE Bounded(throttle'[j], Cardinality(Pending(j)'))
  BY DEF ThrottleInv, Bounded, MostFails
<1>1. Pending(j)' = Pending(j) \ {a}
  BY PendingEnds
<1>2. CASE j # k
  <2>1. throttle'[j] = throttle[j]
    BY <1>2 DEF TypeOK
  <2>2. QED
    BY <1>1, <2>1, SameRecord
<1>3. CASE j = k
  <2>1. throttle'[k] = RecordFail(throttle[k]) /\ throttle[k] \in Fails
    BY DEF TypeOK
  <2>2. /\ Cardinality(Pending(k)) \in Nat /\ Cardinality(Pending(k) \ {a}) \in Nat
        /\ Cardinality(Pending(k) \ {a}) <= Cardinality(Pending(k))
        /\ Cardinality(Attempts) \in Nat
    BY PendingCount, FS_Subset, FS_CardinalityType, Zenon
  <2>3. Cardinality(Pending(k) \ {a}) + 1 <= Cardinality(Attempts)
    <3>1. Pending(k) \ {a} \subseteq Attempts
      BY DEF Pending
    <3>2. QED
      BY <3>1, FewerByOne, AttemptsAssumption
  <2>4. a \in Pending(k) => Cardinality(Pending(k) \ {a}) + 1 <= Cardinality(Pending(k))
    BY PendingCount, FewerByOne
  <2>5. Bounded(throttle[k], Cardinality(Pending(k)))
    BY DEF ThrottleInv
  <2>6. Bounded(RecordFail(throttle[k]), Cardinality(Pending(k) \ {a}))
    BY <2>1, <2>2, <2>3, <2>4, <2>5, FailureBounded
  <2>7. QED
    BY <1>1, <1>3, <2>1, <2>6
<1>4. QED
  BY <1>2, <1>3

(* A request that goes on counts from now on, if it did not before: its      *)
(* record was not locked.                                                    *)
LEMMA PendingStep ==
    ASSUME ThrottleInv, TypeOK, NEW a \in Attempts, NEW k \in Keys,
           a \in Pending(k) \/ ~throttle[k].locked,
           NEW x \in Attempt, x.phase \in {"delayed", "verifying"}, x.key = k,
           attempts' = [attempts EXCEPT ![a] = x], UNCHANGED throttle
    PROVE  ThrottleInv'
<1> SUFFICES ASSUME NEW j \in Keys PROVE Bounded(throttle'[j], Cardinality(Pending(j)'))
  BY DEF ThrottleInv, Bounded, MostFails
<1>1. Pending(j)' = IF j = k THEN Pending(k) \cup {a} ELSE Pending(j) \ {a}
  BY PendingStarts
<1>2. CASE j # k \/ a \in Pending(k)
  <2>1. Pending(j)' \subseteq Pending(j)
    BY <1>1, <1>2
  <2>2. QED
    BY <2>1, SameRecord
<1>3. CASE j = k /\ ~throttle[k].locked
  <2>1. Bounded(throttle[k], Cardinality(Pending(k))) /\ throttle[k] \in Fails
    BY DEF ThrottleInv, TypeOK
  <2>2. Cardinality(Pending(k)') \in Nat /\ Cardinality(Pending(k)') <= Cardinality(Attempts)
    <3>1. Pending(k)' \subseteq Attempts
      BY DEF Pending
    <3>2. QED
      BY <3>1, AttemptsAssumption, FS_Subset, FS_CardinalityType, Zenon
  <2>3. throttle[k].fails \in Nat /\ Cardinality(Attempts) \in Nat
    BY <2>1, PendingCount DEF Fails
  <2>4. ~throttle[k].stale => throttle[k].fails + Cardinality(Pending(k)') <= MostFails
    BY <1>3, <2>1, <2>2, <2>3 DEF Bounded, MostFails
  <2>5. QED
    BY <1>3, <2>1, <2>4 DEF Bounded
<1>4. QED
  BY <1>2, <1>3

LEMMA ThrottleInit == Init => ThrottleInv
<1> SUFFICES ASSUME Init, NEW k \in Keys PROVE Bounded(throttle[k], Cardinality(Pending(k)))
  BY DEF ThrottleInv
<1>1. throttle[k] = NoFails
  BY DEF Init
<1>2. QED
  BY <1>1, PendingCount, FreshRecord

LEMMA LookUpBounded ==
    ASSUME ThrottleInv, TypeOK, NEW a \in Attempts, NEW k \in Keys,
           a \in Pending(k) \/ ~throttle[k].locked, LookUp(a, k)
    PROVE  ThrottleInv'
<1>1. CASE /\ attempts' = [attempts EXCEPT ![a] = Idle]
           /\ throttle' = [throttle EXCEPT ![k] = RecordFail(@)]
  BY <1>1, FailureStep
<1>2. ASSUME NEW u \in Accounts, UNCHANGED throttle,
             attempts' = [attempts EXCEPT ![a] =
                IF Disabled(u) \/ users[u].password = "none"
                THEN Idle ELSE [phase |-> "verifying", key |-> k, user |-> u]]
      PROVE  ThrottleInv'
  <2>1. CASE Disabled(u) \/ users[u].password = "none"
    <3> SUFFICES ASSUME NEW j \in Keys PROVE Bounded(throttle'[j], Cardinality(Pending(j)'))
      BY DEF ThrottleInv, Bounded, MostFails
    <3>1. attempts' = [attempts EXCEPT ![a] = Idle]
      BY <1>2, <2>1
    <3>2. QED
      BY <3>1, <1>2, PendingEnds, SameRecord
  <2>2. CASE ~(Disabled(u) \/ users[u].password = "none")
    <3> DEFINE x == [phase |-> "verifying", key |-> k, user |-> u]
    <3>1. x \in Attempt /\ x.phase \in {"delayed", "verifying"} /\ x.key = k
      BY DEF Attempt
    <3>2. attempts' = [attempts EXCEPT ![a] = x]
      BY <1>2, <2>2
    <3> HIDE DEF x
    <3>3. QED
      BY <3>1, <3>2, <1>2, PendingStep
  <2>3. QED
    BY <2>1, <2>2
<1>3. QED
  BY <1>1, <1>2 DEF LookUp

LEMMA LoginsBounded ==
    ASSUME ThrottleInv, TypeOK,
           \/ \E a \in Attempts, k \in Keys : Login(a, k)
           \/ \E a \in Attempts : LoginWakes(a) \/ LoginRefused(a)
           \/ \E a \in Attempts, t \in Tokens : LoginAccepted(a, t)
    PROVE  ThrottleInv'
<1>1. ASSUME NEW a \in Attempts, NEW k \in Keys, Login(a, k) PROVE ThrottleInv'
  <2>1. CASE Slow(k)
    <3> DEFINE x == [phase |-> "delayed", key |-> k]
    <3>1. x \in Attempt /\ x.phase \in {"delayed", "verifying"} /\ x.key = k
      BY DEF Attempt
    <3>2. attempts' = [attempts EXCEPT ![a] = x] /\ UNCHANGED throttle /\ ~throttle[k].locked
      BY <1>1, <2>1 DEF Login
    <3> HIDE DEF x
    <3>3. QED
      BY <3>1, <3>2, PendingStep
  <2>2. CASE ~Slow(k)
    BY <1>1, <2>2, LookUpBounded DEF Login
  <2>3. QED
    BY <2>1, <2>2
<1>2. ASSUME NEW a \in Attempts, LoginWakes(a) PROVE ThrottleInv'
  <2>1. attempts[a].key \in Keys /\ LookUp(a, attempts[a].key)
    BY <1>2 DEF LoginWakes, TypeOK, Attempt, Idle
  <2>2. a \in Pending(attempts[a].key)
    BY <1>2 DEF LoginWakes, Pending
  <2>3. QED
    BY <2>1, <2>2, LookUpBounded
<1>3. ASSUME NEW a \in Attempts, LoginRefused(a) PROVE ThrottleInv'
  <2>1. attempts[a].key \in Keys
    BY <1>3 DEF LoginRefused, TypeOK, Attempt, Idle
  <2>2. a \in Pending(attempts[a].key)
    BY <1>3 DEF LoginRefused, Pending
  <2>3. QED
    BY <1>3, <2>1, <2>2, FailureStep DEF LoginRefused
<1>4. ASSUME NEW a \in Attempts, NEW t \in Tokens, LoginAccepted(a, t), NEW j \in Keys
      PROVE  Bounded(throttle'[j], Cardinality(Pending(j)'))
  <2>1. attempts' = [attempts EXCEPT ![a] = Idle]
    BY <1>4 DEF LoginAccepted
  <2>2. Pending(j)' \subseteq Pending(j)
    BY <2>1, PendingEnds
  <2>3. throttle'[j] = throttle[j] \/ throttle'[j] = NoFails
    BY <1>4 DEF LoginAccepted, TypeOK
  <2>4. Cardinality(Pending(j)') \in Nat /\ Cardinality(Pending(j)') <= Cardinality(Pending(j))
        /\ Cardinality(Pending(j)) \in Nat /\ Cardinality(Pending(j)) <= Cardinality(Attempts)
        /\ Cardinality(Attempts) \in Nat
    BY <2>2, PendingShrinks, PendingCount
  <2>5. Cardinality(Pending(j)') <= Cardinality(Attempts)
    BY <2>4
  <2>6. QED
    BY <2>2, <2>3, <2>4, <2>5, SameRecord, FreshRecord
<1>5. ASSUME NEW a \in Attempts, NEW t \in Tokens, LoginAccepted(a, t) PROVE ThrottleInv'
  BY <1>4, <1>5 DEF ThrottleInv, Bounded, MostFails
<1>6. QED
  BY <1>1, <1>2, <1>3, <1>5

(* Every other request and tool leaves the throttle alone, and no login is   *)
(* pending that was not.                                                     *)
LEMMA OthersBounded ==
    ASSUME ThrottleInv, TypeOK, UNCHANGED throttle,
           \A a \in Attempts : attempts'[a] = attempts[a]
                               \/ attempts'[a].phase \notin {"delayed", "verifying"}
    PROVE  ThrottleInv'
<1> SUFFICES ASSUME NEW j \in Keys PROVE Bounded(throttle'[j], Cardinality(Pending(j)'))
  BY DEF ThrottleInv, Bounded, MostFails
<1>1. Pending(j)' \subseteq Pending(j)
  BY DEF Pending
<1>2. QED
  BY <1>1, SameRecord

(* Time only makes a record stale, and a lock only ends once it is.          *)
LEMMA WindowBounded ==
    ASSUME ThrottleInv, TypeOK, NEW k \in Keys, WindowPasses(k) \/ LockPasses(k)
    PROVE  ThrottleInv'
<1> SUFFICES ASSUME NEW j \in Keys PROVE Bounded(throttle'[j], Cardinality(Pending(j)'))
  BY DEF ThrottleInv, Bounded, MostFails
<1>1. Pending(j)' = Pending(j)
  BY DEF WindowPasses, LockPasses, Pending
<1>2. CASE j # k
  <2>1. throttle'[j] = throttle[j]
    BY <1>2 DEF WindowPasses, LockPasses, TypeOK
  <2>2. QED
    BY <1>1, <2>1, SameRecord
<1>3. CASE j = k
  <2>1. Bounded(throttle[k], Cardinality(Pending(k))) /\ throttle[k] \in Fails
    BY DEF ThrottleInv, TypeOK
  <2>2. throttle'[k].stale /\ throttle'[k].fails = throttle[k].fails
    BY <2>1 DEF WindowPasses, LockPasses, TypeOK, Fails
  <2>3. QED
    BY <1>3, <2>1, <2>2 DEF Bounded
<1>4. QED
  BY <1>2, <1>3

LEMMA ThrottleStep == TypeOK /\ ThrottleInv /\ [Next]_vars => ThrottleInv'
<1> SUFFICES ASSUME TypeOK, ThrottleInv, [Next]_vars PROVE ThrottleInv'
  OBVIOUS
<1>1. CASE UNCHANGED vars
  BY <1>1, OthersBounded DEF vars
<1>2. CASE \/ \E a \in Attempts, k \in Keys : Login(a, k)
           \/ \E a \in Attempts : LoginWakes(a) \/ LoginRefused(a)
           \/ \E a \in Attempts, t \in Tokens : LoginAccepted(a, t)
  BY <1>2, LoginsBounded
<1>3. ASSUME NEW a \in Attempts, NEW u \in Accounts, ChangePassword(a, u) PROVE ThrottleInv'
  <2>1. /\ UNCHANGED throttle
        /\ attempts' = attempts \/ attempts' = [attempts EXCEPT ![a] = [phase |-> "changing", user |-> u]]
    BY <1>3 DEF ChangePassword, TypeOK, User
  <2>2. QED
    BY <2>1, OthersBounded DEF TypeOK
<1>4. ASSUME NEW a \in Attempts, NEW right \in BOOLEAN, ChangeVerified(a, right) PROVE ThrottleInv'
  BY <1>4, OthersBounded DEF ChangeVerified, TypeOK, Idle
<1>5. ASSUME UNCHANGED <<throttle, attempts>> PROVE ThrottleInv'
  BY <1>5, OthersBounded
<1>6. CASE \E me, u \in Accounts :
              \/ CreateTechnician(me, u)
              \/ \E role \in Roles : CreateUser(me, u, role)
              \/ \E role \in Roles, state \in Statuses : PatchUser(me, u, role, state)
              \/ ResetPassword(me, u)
              \/ DisableUser(me, u)
  <2>1. PICK me \in Accounts, u \in Accounts :
           \/ CreateTechnician(me, u)
           \/ \E role \in Roles : CreateUser(me, u, role)
           \/ \E role \in Roles, state \in Statuses : PatchUser(me, u, role, state)
           \/ ResetPassword(me, u)
           \/ DisableUser(me, u)
    BY <1>6
  <2>2. UNCHANGED <<throttle, attempts>>
    <3>1. CASE CreateTechnician(me, u)
      BY <3>1 DEF CreateTechnician, Insert
    <3>2. CASE \E role \in Roles : CreateUser(me, u, role)
      BY <3>2 DEF CreateUser, Insert
    <3>3. CASE \E role \in Roles, state \in Statuses : PatchUser(me, u, role, state)
      BY <3>3, Zenon DEF PatchUser
    <3>4. CASE ResetPassword(me, u) \/ DisableUser(me, u)
      BY <3>4 DEF ResetPassword, DisableUser
    <3>5. QED
      BY <2>1, <3>1, <3>2, <3>3, <3>4
  <2>3. QED
    BY <2>2, <1>5
<1>7. CASE \/ \E u \in Accounts : CreateAdmin(u)
           \/ Wipe
           \/ \E t \in Tokens : Logout(t) \/ SessionExpires(t) \/ ExpiredTokenUsed(t)
  BY <1>5, <1>7 DEF CreateAdmin, Wipe, Logout, SessionExpires, ExpiredTokenUsed
<1>8. CASE \E k \in Keys : WindowPasses(k) \/ LockPasses(k)
  BY <1>8, WindowBounded
<1>9. CASE Restart
  <2> SUFFICES ASSUME NEW j \in Keys PROVE Bounded(throttle'[j], Cardinality(Pending(j)'))
    BY DEF ThrottleInv, Bounded, MostFails
  <2>1. throttle'[j] = NoFails /\ Pending(j)' \subseteq Attempts
    BY <1>9 DEF Restart, Pending
  <2>2. Cardinality(Pending(j)') \in Nat /\ Cardinality(Pending(j)') <= Cardinality(Attempts)
    BY <2>1, AttemptsAssumption, FS_Subset, FS_CardinalityType, Zenon
  <2>3. QED
    BY <2>1, <2>2, FreshRecord
<1>10. QED
  BY <1>1, <1>2, <1>3, <1>4, <1>6, <1>7, <1>8, <1>9 DEF Next

(* Within one window the wrong passwords counted against a key exceed the    *)
(* limit of the lock by no more than the requests that had passed its test,  *)
(* for any number of keys and requests.                                      *)
THEOREM ThrottleHolds == Spec => []ThrottleBound
<1>1. ThrottleInv => ThrottleBound
  BY DEF ThrottleInv, ThrottleBound, Bounded, MostFails
<1>2. QED
  BY <1>1, TypeInit, TypeStep, ThrottleInit, ThrottleStep, PTL DEF Spec

-----------------------------------------------------------------------------
(* Files: rows of the attachments table and what is on disk *)

USE DEF Numbers, NoRow, Rows, InvoiceStatuses, Cleared

(* The type is inductive: a notification names the row of an invoice, which  *)
(* only the discard of that invoice removes, together with the notification. *)
THEOREM AttachmentsTypeCorrect == AttSpec => []AttTypeOK
<1>1. AttInit => AttTypeOK
  BY InvoicesAssumption DEF AttInit, AttTypeOK
<1>2. AttTypeOK /\ [AttNext]_attVars => AttTypeOK'
  <2> SUFFICES ASSUME AttTypeOK, [AttNext]_attVars PROVE AttTypeOK'
    OBVIOUS
  <2> USE InvoicesAssumption DEF AttTypeOK
  <2>1. CASE UNCHANGED attVars
    BY <2>1 DEF attVars
  <2>2. ASSUME NEW u \in Users, NEW i \in Invoices \cup {Nothing}, NEW e \in Expenses \cup {Nothing},
               Upload(u, i, e)
        PROVE  AttTypeOK'
    BY <2>2 DEF Upload, WriteFile, InsertRow
  <2>3. CASE UploadCut
    BY <2>3 DEF UploadCut, WriteFile, Dies
  <2>4. ASSUME NEW u \in Users, NEW a \in Numbers, Delete(u, a) PROVE AttTypeOK'
    BY <2>4 DEF Delete, MayDelete, Without
  <2>5. ASSUME NEW u \in Users, NEW a \in Numbers, DeleteCut(u, a) PROVE AttTypeOK'
    BY <2>5 DEF DeleteCut, MayDelete, Dies
  <2>6. ASSUME NEW e \in Expenses, DropExpense(e) \/ \E i \in Invoices : Bill(e, i) PROVE AttTypeOK'
    <3>1. CASE DropExpense(e)
      BY <3>1 DEF DropExpense, Without, Receipts
    <3>2. CASE \E i \in Invoices : Bill(e, i)
      BY <3>2 DEF Bill
    <3>3. QED
      BY <2>6, <3>1, <3>2
  <2>7. ASSUME NEW i \in Invoices, Discard(i) PROVE AttTypeOK'
    BY <2>7 DEF Discard, Discardable, Without, Of, Dies
  <2>8. ASSUME NEW i \in Invoices, AdminDelete(i) PROVE AttTypeOK'
    BY <2>8 DEF AdminDelete, Without, Of
  <2>9. ASSUME NEW i \in Invoices, NEW s \in InvoiceStatuses, Pass(i, s) PROVE AttTypeOK'
    BY <2>9 DEF Pass, Of, Evidence
  <2>10. ASSUME NEW i \in Invoices, SendBegins(i) PROVE AttTypeOK'
    BY <2>10 DEF SendBegins
  <2>11. ASSUME NEW i \in Invoices, MailSettles(i) PROVE AttTypeOK'
    BY <2>11 DEF MailSettles, Of, Evidence
  <2>12. ASSUME NEW i \in Invoices, NEW u \in Users, PdfStored(u, i) PROVE AttTypeOK'
    <3>1. /\ made' = made + 1 /\ made + 1 \in Numbers
          /\ files' = files \cup {made + 1}
          /\ UNCHANGED <<status, bill, cut, seen>>
      BY <2>12 DEF PdfStored, WriteFile
    <3>2. CASE status[i] = "deleted"
      <4>1. UNCHANGED <<rows, cited>> /\ sending' = [sending EXCEPT ![i] = "no"]
        BY <2>12, <3>2 DEF PdfStored
      <4>2. QED
        BY <3>1, <4>1
    <3>3. CASE status[i] # "deleted"
      <4> DEFINE row == [user |-> u, invoice |-> i, expense |-> Nothing]
      <4>1. /\ rows' = [rows EXCEPT ![made + 1] = row]
            /\ cited' = cited \cup {made + 1}
            /\ sending' = [sending EXCEPT ![i] = "smtp"]
        BY <2>12, <3>1, <3>3 DEF PdfStored, InsertRow
      <4>2. row \in Rows /\ row # NoRow /\ row.invoice # Nothing /\ row.expense = Nothing
        OBVIOUS
      <4>3. rows' \in [Numbers -> Rows \cup {NoRow}]
        BY <3>1, <4>1, <4>2
      <4>4. cited' \subseteq {a \in 1..(made + 1) : rows'[a] # NoRow /\ rows'[a].invoice # Nothing
                                                          /\ rows'[a].expense = Nothing}
        <5> SUFFICES ASSUME NEW a \in cited'
                     PROVE  a \in 1..(made + 1) /\ rows'[a] # NoRow /\ rows'[a].invoice # Nothing
                            /\ rows'[a].expense = Nothing
          OBVIOUS
        <5>1. CASE a = made + 1
          BY <3>1, <4>1, <4>2, <5>1
        <5>2. CASE a # made + 1
          <6>1. a \in cited /\ a \in 1..made /\ rows[a] # NoRow /\ rows[a].invoice # Nothing
                /\ rows[a].expense = Nothing
            BY <4>1, <5>2
          <6>2. rows'[a] = rows[a] /\ a \in 1..(made + 1)
            BY <3>1, <4>1, <5>2, <6>1
          <6>3. QED
            BY <6>1, <6>2
        <5>3. QED
          BY <5>1, <5>2
      <4>5. QED
        <5>1. made' \in 0..MaxFiles /\ files' \subseteq 1..made' /\ cut' \subseteq Numbers
          BY <3>1
        <5>2. sending' \in [Invoices -> {"no", "pdf", "smtp"}]
          BY <4>1
        <5>3. seen' \in [Invoices -> SUBSET (1..made')]
          BY <3>1
        <5>4. cited' \subseteq {a \in 1..made' : rows'[a] # NoRow /\ rows'[a].invoice # Nothing
                                                 /\ rows'[a].expense = Nothing}
          BY <3>1, <4>4
        <5>5. QED
          BY <3>1, <4>3, <5>1, <5>2, <5>3, <5>4
    <3>4. QED
      BY <3>2, <3>3
  <2>13. CASE Restarts
    BY <2>13 DEF Restarts, Dies
  <2>14. QED
    BY <2>1, <2>2, <2>3, <2>4, <2>5, <2>6, <2>7, <2>8, <2>9, <2>10, <2>11, <2>12, <2>13 DEF AttNext
<1>3. QED
  BY <1>1, <1>2, PTL DEF AttSpec

-----------------------------------------------------------------------------
(* Rows and their files *)

\* Storing writes the file before the row, a discard deletes the rows before
\* the files, and DELETE /attachments, which does not, leaves a row without a
\* file only where a notification holds it or the process died.
THEOREM MissingFilesExplained == AttSpec => []MissingFilesAreKnown
<1> USE InvoicesAssumption DEF AttTypeOK, MissingFilesAreKnown
<1>1. AttInit => MissingFilesAreKnown
  BY DEF AttInit
<1>2. AttTypeOK /\ MissingFilesAreKnown /\ [AttNext]_attVars => MissingFilesAreKnown'
  <2> SUFFICES ASSUME AttTypeOK, MissingFilesAreKnown, [AttNext]_attVars
               PROVE  MissingFilesAreKnown'
    OBVIOUS
  <2>1. CASE UNCHANGED attVars
    BY <2>1 DEF attVars
  <2>2. CASE UploadCut \/ Restarts
    BY <2>2 DEF UploadCut, WriteFile, Restarts
  <2>3. ASSUME NEW u \in Users, NEW i \in Invoices \cup {Nothing}, NEW e \in Expenses \cup {Nothing},
               Upload(u, i, e)
        PROVE  MissingFilesAreKnown'
    BY <2>3 DEF Upload, WriteFile, InsertRow
  <2>4. ASSUME NEW u \in Users, NEW a \in Numbers, Delete(u, a) \/ DeleteCut(u, a)
        PROVE  MissingFilesAreKnown'
    BY <2>4 DEF Delete, DeleteCut, Without
  <2>5. ASSUME NEW e \in Expenses, DropExpense(e) \/ \E i \in Invoices : Bill(e, i)
        PROVE  MissingFilesAreKnown'
    BY <2>5 DEF DropExpense, Bill, Without
  <2>6. ASSUME NEW i \in Invoices, Discard(i) \/ AdminDelete(i) PROVE MissingFilesAreKnown'
    BY <2>6 DEF Discard, AdminDelete, Without, Of
  <2>7. ASSUME NEW i \in Invoices,
               (\E s \in InvoiceStatuses : Pass(i, s)) \/ SendBegins(i) \/ MailSettles(i)
        PROVE  MissingFilesAreKnown'
    BY <2>7 DEF Pass, SendBegins, MailSettles
  <2>8. ASSUME NEW i \in Invoices, NEW u \in Users, PdfStored(u, i)
        PROVE  MissingFilesAreKnown'
    BY <2>8 DEF PdfStored, WriteFile, InsertRow
  <2>9. QED
    BY <2>1, <2>2, <2>3, <2>4, <2>5, <2>6, <2>7, <2>8 DEF AttNext
<1>3. QED
  BY <1>1, <1>2, AttachmentsTypeCorrect, PTL DEF AttSpec

-----------------------------------------------------------------------------
(* What was passed on *)

\* An attachment of an invoice that keeps its row and its file is served to
\* the owner of the invoice.
LEMMA OwnerIsServed ==
  ASSUME AttTypeOK, NEW i \in Invoices, NEW a \in Of(i), a \in files
  PROVE  Served(Owner[i], a)
BY InvoicesAssumption DEF Of, Served, CanAccess

\* The invariant in terms of rows and files only.
LEMMA EvidenceByRows ==
  ASSUME AttTypeOK
  PROVE  EvidenceStays <=> \A i \in Invoices : status[i] \in Cleared => seen[i] \subseteq Of(i) \cap files
BY OwnerIsServed DEF EvidenceStays, Served

\* What was attached to an invoice when it was passed on, by itself or with an
\* expense that is on it, stays as long as the invoice is passed on.  Kept is inductive: an expense whose
\* receipt is remembered stays on the invoice, where no handler deletes it.
\* Nothing is remembered of an invoice in the hands of its technician, so one
\* that is rejected while it is being sent, and becomes sent_ap nevertheless,
\* is remembered as the mail finds it.
THEOREM EvidenceKept == AttSpec => []EvidenceStays
<1> DEFINE Shown(i) == /\ seen[i] \subseteq Of(i) \cap files
                       /\ \A a \in seen[i] : rows[a].expense # Nothing => bill[rows[a].expense] = i
           Kept == \A i \in Invoices : status[i] \in Cleared => Shown(i)
<1>1. AttInit => Kept
  BY DEF AttInit
<1>2. AttTypeOK /\ Kept /\ [AttNext]_attVars => Kept'
  <2> SUFFICES ASSUME AttTypeOK, Kept, [AttNext]_attVars PROVE Kept'
    OBVIOUS
  <2> USE InvoicesAssumption DEF AttTypeOK, Of
  <2>1. CASE UNCHANGED attVars
    BY <2>1 DEF attVars
  <2>2. CASE UploadCut \/ Restarts
    BY <2>2 DEF UploadCut, WriteFile, Restarts
  <2>3. ASSUME NEW u \in Users, NEW i \in Invoices \cup {Nothing}, NEW e \in Expenses \cup {Nothing},
               Upload(u, i, e)
        PROVE  Kept'
    BY <2>3 DEF Upload, WriteFile, InsertRow
  <2>4. ASSUME NEW u \in Users, NEW a \in Numbers, Delete(u, a) \/ DeleteCut(u, a) PROVE Kept'
    BY <2>4 DEF Delete, DeleteCut, MayDelete, Without
  <2>5. ASSUME NEW e \in Expenses, DropExpense(e) PROVE Kept'
    <3>1. /\ rows' = Without(Receipts(e)) /\ bill' = [bill EXCEPT ![e] = Nothing]
          /\ UNCHANGED <<files, status, seen>>
      BY <2>5 DEF DropExpense
    <3>2. bill[e] # Nothing => status[bill[e]] = "draft"
      BY <2>5 DEF DropExpense, Droppable
    <3>3. SUFFICES ASSUME NEW j \in Invoices, status[j] \in Cleared PROVE Shown(j)'
      BY <3>1
    <3>4. bill[e] # j /\ Shown(j)
      BY <3>2, <3>3
    <3>5. \A a \in seen[j] : a \notin Receipts(e)
      BY <3>4 DEF Receipts
    <3>6. QED
      BY <3>1, <3>4, <3>5 DEF Without, Receipts
  <2>12. ASSUME NEW e \in Expenses, NEW i \in Invoices, Bill(e, i) PROVE Kept'
    BY <2>12 DEF Bill
  <2>6. ASSUME NEW i \in Invoices, Discard(i) \/ AdminDelete(i) PROVE Kept'
    <3>1. rows' = Without(Of(i)) /\ status' = [status EXCEPT ![i] = "deleted"] /\ UNCHANGED seen
      BY <2>6 DEF Discard, AdminDelete
    <3>2. files' = files \/ (files' = files \ Of(i))
      BY <2>6 DEF Discard, AdminDelete
    <3>3. bill' = bill \/ bill' = [e \in Expenses |-> IF bill[e] = i THEN Nothing ELSE bill[e]]
      BY <2>6 DEF Discard, AdminDelete
    <3>4. SUFFICES ASSUME NEW j \in Invoices, status'[j] \in Cleared PROVE Shown(j)'
      OBVIOUS
    <3>5. j # i /\ status[j] \in Cleared
      BY <3>1, <3>4
    <3>6. \A a \in seen[j] : a \in Of(j) /\ a \notin Of(i) /\ rows'[a] = rows[a] /\ a \in files'
      BY <3>1, <3>2, <3>5 DEF Without
    <3>7. \A e \in Expenses : bill[e] = j => bill'[e] = j
      BY <3>3, <3>5
    <3>8. QED
      BY <3>1, <3>5, <3>6, <3>7
  <2>7. ASSUME NEW i \in Invoices, SendBegins(i) PROVE Kept'
    BY <2>7 DEF SendBegins
  <2>11. ASSUME NEW i \in Invoices, NEW s \in InvoiceStatuses, Pass(i, s) PROVE Kept'
    <3>1. /\ status' = [status EXCEPT ![i] = s]
          /\ seen' = [seen EXCEPT ![i] = IF s \in Cleared THEN Evidence(i) ELSE {}]
          /\ UNCHANGED <<rows, files, bill>>
      BY <2>11 DEF Pass
    <3>2. QED
      BY <3>1 DEF Evidence
  <2>8. ASSUME NEW i \in Invoices, MailSettles(i) PROVE Kept'
    <3>1. /\ status' = [status EXCEPT ![i] = IF @ = "deleted" THEN @ ELSE "sent"]
          /\ seen' = [seen EXCEPT ![i] = IF status[i] = "deleted" THEN @ ELSE Evidence(i)]
          /\ UNCHANGED <<rows, files, bill>>
      BY <2>8 DEF MailSettles
    <3>2. QED
      BY <3>1 DEF Evidence
  <2>9. ASSUME NEW i \in Invoices, NEW u \in Users, PdfStored(u, i) PROVE Kept'
    BY <2>9 DEF PdfStored, WriteFile, InsertRow
  <2>10. QED
    <3>1. ASSUME NEW e \in Expenses, DropExpense(e) \/ \E i \in Invoices : Bill(e, i) PROVE Kept'
      BY <2>5, <2>12, <3>1
    <3> HIDE DEF Kept
    <3>2. QED
      BY <2>1, <2>2, <2>3, <2>4, <2>6, <2>7, <2>8, <2>9, <2>11, <3>1 DEF AttNext
<1>3. AttTypeOK /\ Kept => EvidenceStays
  BY EvidenceByRows
<1>4. QED
  BY <1>1, <1>2, <1>3, AttachmentsTypeCorrect, PTL DEF AttSpec

-----------------------------------------------------------------------------
(* Download links *)

\* Inductive: a token in the map stands for what was asked, and is in the map
\* only until it opened; what was never asked for is nowhere.
LinkInv ==
    \A l \in Links :
        /\ asked[l] \in Grant \cup {NoGrant}
        /\ store[l] \in {NoGrant, asked[l]}
        /\ opened[l] \in {<<>>, <<[as |-> asked[l], late |-> FALSE]>>}
        /\ opened[l] # <<>> => store[l] = NoGrant
        /\ asked[l] = NoGrant => opened[l] = <<>>

LinkShape ==
    /\ store \in [Links -> Grant \cup {NoGrant}]
    /\ asked \in [Links -> Grant \cup {NoGrant}]
    /\ DOMAIN opened = Links /\ opened = [l \in Links |-> opened[l]]

\* A link opens at most once, as the account that asked for it, for what was
\* asked and in time.
THEOREM LinksOpenOnce == LinkSpec => []OpensOnceAsAsked
<1> USE LinksAssumption DEF Grant, NoGrant
<1>1. LinkInit => LinkShape /\ LinkInv
  BY DEF LinkInit, LinkShape, LinkInv
<1>2. LinkShape /\ LinkInv /\ [LinkNext]_linkVars => (LinkShape /\ LinkInv)'
  <2> SUFFICES ASSUME LinkShape, LinkInv, [LinkNext]_linkVars PROVE (LinkShape /\ LinkInv)'
    OBVIOUS
  <2> USE DEF LinkShape
  <2>1. CASE UNCHANGED linkVars
    BY <2>1 DEF linkVars, LinkInv
  <2>2. ASSUME NEW l \in Links, NEW u \in Askers, NEW p \in Targets, Ask(l, u, p)
        PROVE  (LinkShape /\ LinkInv)'
    <3>1. LinkShape'
      BY <2>2 DEF Ask, Purged
    <3>2. LinkInv'
      BY <2>2 DEF Ask, Purged, LinkInv
    <3>3. QED
      BY <3>1, <3>2
  <2>3. ASSUME NEW l \in Links, FiveMinutesPass(l) PROVE (LinkShape /\ LinkInv)'
    BY <2>3 DEF FiveMinutesPass, LinkInv
  <2>4. CASE LinksLost
    BY <2>4 DEF LinksLost, LinkInv
  <2>5. ASSUME NEW l \in Links, NEW t \in Targets, Request(l, t) PROVE (LinkShape /\ LinkInv)'
    <3>1. CASE ~(Purged[l] # NoGrant /\ Purged[l].target = t)
      <4>1. store' = Purged /\ UNCHANGED <<opened, asked>>
        BY <2>5, <3>1 DEF Request, Redeem
      <4>2. QED
        BY <4>1 DEF Purged, LinkInv
    <3>2. CASE Purged[l] # NoGrant /\ Purged[l].target = t
      <4>1. /\ store' = [Purged EXCEPT ![l] = NoGrant]
            /\ LetIn(l, t)
            /\ UNCHANGED asked
        BY <2>5, <3>2 DEF Request, Redeem
      <4>2. l \notin stale /\ Purged[l] = store[l] /\ store[l] = asked[l]
        BY <3>2 DEF Purged, LinkInv
      <4>3. [user |-> Purged[l].user, target |-> t] = asked[l]
        BY <3>2, <4>2 DEF LinkInv
      <4>4. opened[l] = <<>>
        BY <3>2, <4>2 DEF LinkInv
      <4>5. opened' = [opened EXCEPT ![l] = <<[as |-> asked[l], late |-> FALSE]>>]
        <5> DEFINE request == [as |-> [user |-> Purged[l].user, target |-> t], late |-> l \in stale]
        <5>1. opened' = [opened EXCEPT ![l] = Append(@, request)]
          BY <4>1 DEF LetIn
        <5>2. (l \in stale) = FALSE
          BY <4>2
        <5>3. request = [as |-> asked[l], late |-> FALSE]
          BY <4>3, <5>2, Zenon
        <5> HIDE DEF request
        <5>4. Append(opened[l], request) = <<request>>
          BY <4>4
        <5>5. QED
          BY <5>1, <5>3, <5>4
      <4>6. LinkShape'
        BY <4>1, <4>5 DEF Purged
      <4>7. LinkInv'
        <5>1. ASSUME NEW k \in Links, k # l
              PROVE  opened'[k] = opened[k] /\ store'[k] \in {store[k], NoGrant} /\ asked'[k] = asked[k]
          BY <4>1, <4>5, <5>1 DEF Purged
        <5>2. opened'[l] = <<[as |-> asked[l], late |-> FALSE]>> /\ store'[l] = NoGrant /\ asked'[l] = asked[l]
          BY <4>1, <4>5 DEF Purged
        <5>3. asked[l] # NoGrant
          BY <3>2, <4>2
        <5> DEFINE Good(k) ==
              /\ asked'[k] \in Grant \cup {NoGrant}
              /\ store'[k] \in {NoGrant, asked'[k]}
              /\ opened'[k] \in {<<>>, <<[as |-> asked'[k], late |-> FALSE]>>}
              /\ opened'[k] # <<>> => store'[k] = NoGrant
              /\ asked'[k] = NoGrant => opened'[k] = <<>>
        <5>4. ASSUME NEW k \in Links, k # l PROVE Good(k)
          BY <5>1, <5>4 DEF LinkInv
        <5>5. Good(l)
          BY <5>2, <5>3 DEF LinkInv
        <5>6. \A k \in Links : Good(k)
          BY <5>4, <5>5
        <5>7. QED
          BY <5>6 DEF LinkInv
      <4>8. QED
        BY <4>6, <4>7
    <3>3. QED
      BY <3>1, <3>2
  <2>6. QED
    BY <2>1, <2>2, <2>3, <2>4, <2>5 DEF LinkNext
<1>3. LinkInv => OpensOnceAsAsked
  BY DEF LinkInv, OpensOnceAsAsked
<1>4. QED
  BY <1>1, <1>2, <1>3, PTL DEF LinkSpec
=============================================================================
