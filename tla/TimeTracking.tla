---------------------------- MODULE TimeTracking ----------------------------
(***************************************************************************)
(* routes/timeentries.js: live timers, breaks, manual entries and edits.   *)
(* Every handler is synchronous, hence one step.                           *)
(***************************************************************************)
EXTENDS Ledger

\* A timer just started at the current instant.
Timer(u, w, m) == [user |-> u, wo |-> w, mode |-> m, cin |-> now, cout |-> NoTime,
                   brk |-> 0, bstart |-> NoTime, flagged |-> FALSE, invoice |-> 0,
                   imported |-> FALSE]

\* Fault: a running timer is not taken to overlap anything.
OverlapsClosedOnly(u, w, ci, co, except) ==
    \E e \in DOMAIN entry \ except :
        /\ entry[e].user = u /\ entry[e].wo = w
        /\ ~Running(entry[e]) /\ entry[e].cin < co /\ entry[e].cout > ci

\* findOverlap: a closed entry that intersects [ci, co), or a running one that
\* began before co.
Overlaps(u, w, ci, co, except) ==
    \E e \in DOMAIN entry \ except :
        /\ entry[e].user = u /\ entry[e].wo = w
        /\ entry[e].cin < co
        /\ Running(entry[e]) \/ entry[e].cout > ci

\* The checks shared by the manual path and the edit path.
Plausible(ci, co) == co > ci /\ co <= now + Grace /\ co - ci <= DayLength

\* POST /timeentries with clock_in and clock_out; u is the caller or, through
\* x-on-behalf-of, a technician they manage.
ManualEntry(u, w, m, ci, co, b) ==
    /\ ci <= now /\ Plausible(ci, co)
    /\ ~WeekLocked(u, Day(ci))
    /\ ~Overlaps(u, w, ci, co, {})
    /\ \E e \in EntryIds :
          /\ FreshEntry(e)
          /\ FileEntry(e, [Timer(u, w, m) EXCEPT !.cin = ci, !.cout = co, !.brk = b])
    /\ UNCHANGED <<now, pdf, asked>>

DrivingElsewhere(u, except) ==
    \E e \in DOMAIN entry \ except :
        entry[e].user = u /\ Running(entry[e]) /\ entry[e].mode = "drive"

\* POST /timeentries: a live clock-in, always for the caller.  There is no
\* overlap check.
ClockIn(u, w, m) ==
    /\ ~\E e \in DOMAIN entry : entry[e].user = u /\ entry[e].wo = w /\ Running(entry[e])
    /\ m = "drive" => ~DrivingElsewhere(u, {})
    /\ \E e \in EntryIds : FreshEntry(e) /\ entry' = Put(entry, e, Timer(u, w, m))
    /\ UNCHANGED <<now, expense, inv, pdf, asked>>

Opposite(m) == IF m = "drive" THEN "work" ELSE "drive"

\* Fault: switching into drive mode skips the exclusivity check.
SwitchModeUnchecked(e) ==
    /\ Running(entry[e]) /\ entry[e].bstart = NoTime
    /\ \E f \in EntryIds :
          /\ FreshEntry(f)
          /\ entry' = Put(Put(entry, e, [entry[e] EXCEPT !.cout = now]), f,
                          Timer(entry[e].user, entry[e].wo, Opposite(entry[e].mode)))
    /\ UNCHANGED <<now, expense, inv, pdf, asked>>

\* POST /timeentries/:id/switch-mode: closes the timer and opens one of the
\* opposite mode on the same work order at the same instant.
SwitchMode(e) ==
    /\ Running(entry[e]) /\ entry[e].bstart = NoTime
    /\ entry[e].mode = "work" => ~DrivingElsewhere(entry[e].user, {e})
    /\ \E f \in EntryIds :
          /\ FreshEntry(f)
          /\ entry' = Put(Put(entry, e, [entry[e] EXCEPT !.cout = now]), f,
                          Timer(entry[e].user, entry[e].wo, Opposite(entry[e].mode)))
    /\ UNCHANGED <<now, expense, inv, pdf, asked>>

-----------------------------------------------------------------------------
(* Breaks *)

\* Math.round(elapsed / one minute)
Minutes(ticks) == (2 * ticks + Minute) \div (2 * Minute)

\* Fault: a second break replaces the minutes of the first.
FinalizeBreakReplaces(row) ==
    [row EXCEPT !.brk = Minutes(now - row.bstart),
                !.flagged = @ \/ now - row.bstart > 60 * Minute,
                !.bstart = NoTime]

\* finalizeBreak: folds the running break into break_minutes.
FinalizeBreak(row) ==
    [row EXCEPT !.brk = @ + Minutes(now - row.bstart),
                !.flagged = @ \/ now - row.bstart > 60 * Minute,
                !.bstart = NoTime]

BreakStart(e) ==
    /\ Running(entry[e]) /\ entry[e].bstart = NoTime
    /\ entry' = [entry EXCEPT ![e].bstart = now]
    /\ UNCHANGED <<now, expense, inv, pdf, asked>>

BreakResume(e) ==
    /\ Running(entry[e]) /\ entry[e].bstart # NoTime
    /\ entry' = [entry EXCEPT ![e] = FinalizeBreak(@)]
    /\ UNCHANGED <<now, expense, inv, pdf, asked>>

-----------------------------------------------------------------------------
(* PATCH and DELETE /timeentries/:id *)

\* Fault: clocking out of a break does not finalize it.
ClockOutPaused(e, b) ==
    /\ Running(entry[e])
    /\ entry' = [entry EXCEPT ![e] = [@ EXCEPT !.cout = now, !.brk = b]]
    /\ UNCHANGED <<now, expense, inv, pdf, asked>>

\* PATCH of a running entry clocks it out.  A break in progress is finalized
\* and then the break_minutes of the body are ignored; otherwise they replace
\* the minutes measured so far.  An entry on a locked invoice is detached.
ClockOut(e, b) ==
    /\ Running(entry[e])
    /\ LET row == IF entry[e].bstart # NoTime THEN FinalizeBreak(entry[e])
                  ELSE [entry[e] EXCEPT !.brk = b]
       IN  entry' = [entry EXCEPT ![e] = [row EXCEPT
                        !.cout = now,
                        !.invoice = IF Status(@) \in Locked THEN 0 ELSE @]]
    /\ UNCHANGED <<now, expense, inv, pdf, asked>>

\* PATCH of a closed entry: the owner while the invoice is a draft, a manager
\* until it is approved.
EditEntry(a, e, ci, co, b) ==
    LET row == entry[e] IN
    /\ ~Running(row)
    /\ a = row.user \/ Manages(a, row.user)
    /\ Status(row.invoice) \in IF Manages(a, row.user) THEN {"draft", "submitted"}
                                                       ELSE {"draft"}
    /\ Plausible(ci, co)
    /\ ~Overlaps(row.user, row.wo, ci, co, {e})
    /\ entry' = [entry EXCEPT ![e] = [@ EXCEPT !.cin = ci, !.cout = co, !.brk = b]]
    /\ UNCHANGED <<now, expense, inv, pdf, asked>>

\* Fault: the status of the invoice is not looked at.
DeleteEntryAnyStatus(a, e) ==
    /\ ~Running(entry[e])
    /\ a = entry[e].user \/ a \in Admins
    /\ entry' = Drop(entry, e)
    /\ UNCHANGED <<now, expense, inv, pdf, asked>>

DeleteEntry(a, e) ==
    /\ ~Running(entry[e])
    /\ a = entry[e].user \/ a \in Admins
    /\ Status(entry[e].invoice) = "draft"
    /\ entry' = Drop(entry, e)
    /\ UNCHANGED <<now, expense, inv, pdf, asked>>

\* The clock of the server.
Tick ==
    /\ now < MaxTime
    /\ now' = now + 1
    /\ UNCHANGED <<entry, expense, inv, pdf, asked>>

TimeNext ==
    \/ Tick
    \/ \E u \in Users, w \in WorkOrders, m \in Modes :
          \/ ClockIn(u, w, m)
          \/ \E ci \in 0..now, co \in 1..(now + Grace), b \in BreakInputs :
                ManualEntry(u, w, m, ci, co, b)
    \/ \E e \in DOMAIN entry :
          \/ SwitchMode(e) \/ BreakStart(e) \/ BreakResume(e)
          \/ \E b \in BreakInputs \union {entry[e].brk} :
                \/ ClockOut(e, b)
                \/ \E a \in Users, ci \in 0..(now + Grace), co \in 1..(now + Grace) :
                      EditEntry(a, e, ci, co, b)
          \/ \E a \in Users : DeleteEntry(a, e)

\* Time tracking by itself, with no billing around it.
TimeSpec == Init /\ [][TimeNext]_ledger
=============================================================================
