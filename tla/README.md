# Bread (otg-app): TLA+ models, model checking and proofs

Bread is the time-and-invoice application of a field operations team.
Technicians log time and expenses against work orders, the lines are filed on
weekly invoices, managers approve them, and an approved invoice is mailed to
Accounts Payable (AP). Work orders and hours also come from MaintainX, tickets
from Freshdesk; invoices go to Expensify and figures to a Google Sheet. This
directory holds TLA+ models of that code, the TLC runs that check them on small
instances, and theorems about them checked by TLAPS.

Everything is translated from the JavaScript and SQL under `src/`.
`PROJECT.json` gives, for every definition that models code, the lines it
stands for.

## 1. Inventory

One Node process (Express) works on one SQLite file through `node:sqlite`,
whose calls are synchronous. A handler is therefore atomic up to its next
`await`; between two awaits anything else may run. Foreign keys are enforced.
The host may stop the process at any moment, and an exception in an `async`
handler that nobody catches ends it as well. The browser is one page
(`public/app.js`) without a framework: screens are functions that fetch, then
write into the page, and nothing cancels one that is overtaken.

| Component | State | Operations | Hard parts | Correct when |
|---|---|---|---|---|
| Approval chain (`routes/approvals.js`, `routes/invoices.js`) | `invoices.status`, approver columns, `manager_team`, `users.role` | submit, approve (Ops, Sr), reject, escalate, vendor edit / submit / discard | promotions and team changes between the steps; a rejection that keeps the earlier approval | two people other than the payee sign; what was approved is what is sent |
| Hand-off to AP (`POST /send-to-ap`, `lib/mailer.js`) | requests suspended at an await, `notifications` | check, render PDF (await), mail (await), record | rejection, deletion, a second send or a crash during an await | AP gets approved invoices only, each mail is on record, a sent invoice is final |
| Screens of invoices (`public/app.js`) | the copy of an invoice a window shows | open, the buttons a copy offers | copies are stale; the server decides again | nobody is left without a step; an approval is not undone by an old screen |
| Time tracking (`routes/timeentries.js`) | `time_entries` | clock in and out, breaks, mode switch, manual entry, edit, delete | orders of legal calls; times chosen by the client against the clock of the server | no interval is paid twice, one timer per work order, one drive timer |
| Expenses (`routes/expenses.js`) | `expenses` | create, edit, delete | the invoice moves on between calls; a form that is sent twice | lines lock with their invoice; one tap is one expense |
| Drafts and billing (`routes/invoices.js`, `lib/pdfImporter.js`) | drafts, `invoice_id` of the lines, `wo_addition_requests`, uploads being parsed | get-or-create the week's draft, custom period, upload and import, additions, sweeps | many ways to file a line; an import after an await | a line is on one invoice, of the person who did the work, and does not change once approved |
| Computation and policy (`computeInvoice`, `routes/rules.js`, `category_rules.js`, `corpcard.js`, `settings.js`) | settings, `custom_rules`, `category_rules`, `wo_category_budgets`, card charges | compute, change a rule, rate, cap or budget | the same money added up in several places | totals agree, a flag means what the dashboard shows |
| Vendor invoices (`lib/vendorPdfExtractor.js`, `lib/invoiceValidation.js`, upload) | vendor drafts, uploads being read | read a document, edit, submit, discard, reject | a parse after an await and a restart; a document read wrongly | what the reader says adds up; the queue holds payable invoices |
| Export to Expensify (`lib/expensify.js`) | export columns of an invoice | export | a check before an await, a lost answer | the report is the invoice, exported once |
| Dashboard and cost tracker (`routes/dashboard.js`) | edits of cells, the Google Sheet | tracker, pipeline, edits, push | three computations of one figure; overlapping pushes | the figures of one period agree, the sheet holds one tracker |
| Unplanned work, launch actuals (`routes/unplanned.js`, `routes/launch_actuals.js`) | tags on lines, submissions per week and store | tag, summary; fill in, mark as submitted | a button that remembers an old line; two dialogs | a tag lands on the line that was seen; one submission per store and week |
| MaintainX labor sync (`lib/maintainx/labor.js`, `sync.js`) | imported time entries | daily pulls, pulls on completion and by hand | answers applied late; two sources for the same hours; no transaction | a pull mirrors its answer and can be repeated; logged lines on locked invoices stay |
| Work orders and their import (`routes/workorders.js`, `routes/integrations.js`, `lib/maintainx/`, the timer of `server.js`) | `work_orders`, watermarks, runs under way | create, import, scan, refresh, schedule | the source changes while it is paged through; pulls overlap, fail or die | a pull that ended well is complete; the application catches up |
| Ticket lookup and form (`routes/workorders.js`, `public/app.js`) | the form, lookups under way | type, pull, accept the answer, save | answers out of order; fields of two tickets in one form | the form shows the ticket that was asked for, and Apply writes to its work order |
| Accounts and sessions (`lib/auth.js`, `routes/auth.js`) | `users`, `sessions`, throttle | login, logout, password change, administration | awaits of scrypt inside the handlers; resets and deletions meanwhile | a revoked session is dead; an administrator remains; attempts are bounded |
| Database and start (`db.js`, `server.js`) | schema, backfills, probes | the statements that run at every start | death between two commits; old databases; people's changes undone by a backfill | the server comes up, and the upgrade is complete and done once |
| Navigation (`public/nav.js`, `public/app.js`) | history, stack of screens, sheets, tickers | go, back, forward, redraw | overlapping renders; the history of the browser | Back works; one ticker per screen, none lost |
| Attachments (`routes/attachments.js`, uploads and discards of the other routes) | `attachments`, files on disk | store, delete, discard with the invoice, send along to AP, open | a file and its row are two steps; a foreign key refuses the second | every row has its file; what was approved with an invoice stays with it; its team can open it |
| Download links (`lib/download_tokens.js`, `lib/auth.js`) | a map of tokens in memory | issue, purge, redeem | links that are sent again, late or across a restart | a link opens once, as its owner, for its target, in time |
| Others | notifications, seeds | a feed with dismissals, one-shot scripts | little concurrency | - |

How they interact: time tracking and expenses call `ensureDraftForEntry` of the
drafts component through `db.__ensureDraftForEntry`; all of them read
`invoices.status`, which the chain moves; deletion by an administrator unlinks
lines; the sync writes `time_entries` behind the back of the other handlers;
computation, export, tracker and dashboards read the same lines, each with a
query of its own; the start of the process runs over everything the handlers
wrote before.

`PROJECT.json` lists all the components with their status, and the hazards of
the code at the lines where they bite.

## 2. Modules

| Module | What it is |
|---|---|
| `InvoiceApproval` | the approval chain and the hand-off, one action per handler, `send-to-ap` in steps |
| `ApprovalContract` | what the chain promises, in phases per invoice; abstract specification |
| `InvoiceApprovalProofs` | type correctness and five safety theorems; the theorems that the screens implement `InvoiceApproval` and that it implements `ApprovalContract`, and one about stale screens |
| `InvoiceScreens` | windows that show copies of invoices and offer buttons, over `InvoiceApproval` |
| `Ledger` | the tables of lines and drafts, the dates, the sweep, the filing of a new line |
| `TimeTracking`, `Expenses` | the handlers of the two routes, over `Ledger` |
| `DraftBilling`, `DraftBillingProofs` | the invoice handlers that mint drafts and file lines; composes the three; eight theorems about all of them |
| `LedgerContract` | what the ledger promises about a line, free or on one bill of its owner; abstract specification |
| `InvoiceTotals` | the arithmetic of `computeInvoice` over a set of lines |
| `SpendPolicy` | rules, caps, budgets, rates and card charges, and what they flag; over `InvoiceTotals` |
| `LaborSync`, `LaborSyncProofs` | the reconciliation of one work order with MaintainX; three theorems |
| `VendorExtraction` | the reader of vendor documents, as operators on a document |
| `VendorIntake` | the life of an uploaded vendor invoice; over `VendorExtraction` |
| `ExpensifyExport` | the export of one invoice across its await |
| `CostTracker` | tracker, pipeline, dashboards, edited rows and the push to the sheet |
| `UnplannedWork` | tag buttons, the tags, the summary by reason, type, store and work order |
| `LaunchActuals` | the form of launch hours and its submissions |
| `WorkOrders` | import of work orders: pulls in pages, refreshes, watermarks, the schedule |
| `Boot` | the statements of a start of the server over a database of any release |
| `TicketFields` | which field of a ticket is believed, as operators |
| `TicketEntry` | the form of a work order under overlapping lookups; over `TicketFields` |
| `ExpenseEntry` | the form of an expense, with its preview and its receipts |
| `Accounts` | sessions, throttle and administration of accounts |
| `Navigation` | screens, history and tickers of a window |
| `Attachments`, `DownloadLinks` | files and their rows; single-use links |
| `AppProofs` | three theorems about `Navigation`, one each about `ExpenseEntry` and `TicketEntry`, four about `Accounts`, three about `Attachments`, one about `DownloadLinks` |
| `ServerProofs` | one theorem each about `Boot` and `WorkOrders` |
| `ReportsProofs` | one theorem each about `ExpensifyExport`, `LaunchActuals`, `VendorIntake` and `CostTracker` |
| `FiguresProofs` | two theorems each about `UnplannedWork` and `SpendPolicy` |
| `FiniteFacts` | lemmas on finite sets that the others share: induction, sums, lists in ascending order |
| `MC...` | instances: `MCInvoiceApproval`, `MCDraftBilling`, `MCLaborSync`, `MCSpendPolicy`, `MCInvoiceScreens`; `MCReports` (extends `MCExchange`), `MCServer` (with `MCBoot`), `MCBrowser` |

The last three instances hold several specifications that share no state. Their
variable `side` is chosen in the initial state and says which of them moves;
the others stand still. That is the union of the separate state spaces and not
their product, which would add nothing, since no property spans two sides.

### Correspondence

* A table is a function from ids to rows; a row keeps the columns that some
  guard reads. "deleted" and "gone" are rows that are no longer there.
* `InvoiceApproval` abstracts the content of an invoice to a `version` that an
  edit increases. `reviewedVer` and `late` are no columns of the program but
  history: the version when somebody last passed the invoice on, by an approval
  or an escalation, and the changes since that no status lock applies to. There
  are two of those, `PullLines` (a pull from MaintainX, or the backfill of a
  start) and `UploadParsed` (an upload whose parser has settled; `parsing` holds
  those that wait for it). The hourly rate of the payee is not part of the
  content.
* `send-to-ap` is a record in `req`: the phase `pdf` is the await of the
  renderer, `smtp` the await of the mail server, `reply` is between the answer
  of the server and the final `UPDATE`.
* `InvoiceScreens` gives a window the row it fetched and the set of actions the
  screen draws for it. A tap runs the handler of `InvoiceApproval` on the row as
  it is by then.
* In the ledger modules the chain is abstracted to `ChainStep`, which moves an
  invoice between draft, submitted, approved and sent as `InvoiceApproval`
  does, including the late finish of a hand-off (`finding_late_reject`).
  `approved` stands for `approved_ops` and `approved_sr`, which no ledger
  handler tells apart. Roles and teams are fixed there.
* `POST /upload` is two steps: `Upload` mints the draft and `ParseFails`,
  `ParseHeld` or `ParseImported` runs after the await.
* Time is a counter of ticks. `DayLength` is at the same time the length of a
  day and the bound on a manual entry (both 24 h in the code).
* `LaborSync` looks at one work order, since every statement of `labor.js` and
  every `external_ref` is confined to one. Entries logged in the app are a
  function of their ids, imported rows one of their `external_ref`, which is how
  the code looks them up. `processRawWorkOrder` never awaits, so a pull is one
  step `Sync`; its answer was fetched before, possibly long before, so it may be
  any snapshot. A loop that throws half-way (unique index) leaves what ran
  before it. Minutes are counted in quarters, because the code rounds them in
  one place and compares them with 0 in another. Dates, breaks, the seven-day
  clamp and the assignment of the work order to another user are left out.
* `InvoiceTotals` computes in cents and hundredths of an hour, with the roundings
  of the code; `SpendPolicy` uses it with small amounts. A work order is its
  type and its number of carts. `Cents` rounds a half up, where the binary
  number the code rounds may lie just below it.
* `VendorExtraction` takes a document as what each pattern of the code finds in
  it, so a layout is a choice of those findings; which is believed is modelled,
  the regular expressions are not.
* `VendorIntake`: an upload is suspended at the reader's await; a restart loses
  it and leaves what was inserted before. A draft may be submitted by the vendor
  form (`VendorSubmit`) or by `POST /submit` (`SubmitAny`), which asks for
  nothing; `checked` (history) tells which it was.
* `ExpensifyExport`: a request reads the lines, awaits the answer of Expensify
  and then records the report; a lost answer leaves a report nobody recorded.
* `CostTracker`: a push clears a tab and writes it in two awaited requests, each
  of which may be overtaken by those of another push. A line carries the price at
  the rate of who worked it and at that of the owner of its invoice (`amount`,
  `owners`), since a pull may put hours on somebody else's invoice and the
  tracker takes the first and the pipeline the second.
* `UnplannedWork` and `LaunchActuals` keep beside the tables what a window
  remembers: the tag and amount of a button, the values of a dialog. `born` is
  a history value that tells a line from a later one with the same id; `said` is
  one too, what each manager's last save of a store that the server took says.
* `WorkOrders`: MaintainX is a function from tickets to their state with a
  clock of changes; a pull carries its page and its watermark; a refresh is one
  request. The daily timer is armed by a start and again at the end of a run.
* `Boot` is the list of statements of `db.js` as a program: one step per commit,
  so a crash may fall between any two. A database is reduced to the tables,
  columns and rows a probe or a migration looks at.
* `Accounts`: a login is suspended at its delay and at scrypt, a change of
  password at scrypt, each with what it read before. `epoch` (history) counts
  the revocations of an account. The window of a throttle record passes before
  its lock does: both are 15 minutes and the lock is set later.
* `Navigation`: the history is the position of the browser and the newest entry;
  a screen is a view with its argument. Renders of the two screens that count
  seconds are pending until their data arrives.
* `TicketEntry` keeps the form object apart from the inputs on the page, since
  only some handlers read the inputs back; a pull is a record from its request
  to its answer.
* `ExpenseEntry`: a draw of the form is a value, because its button and its
  handlers belong to one draw; a save is in flight until its answer arrives or
  is lost.
* `Attachments`: a handler that stores or removes a file is one step when it gets
  through, and a second action stops it between the halves. A row names an
  invoice, an expense or both; `bill` is the invoice of an expense. `seen`
  (history) holds what was attached to an invoice, by itself or with an expense on
  it, when it was last approved or its mail went out.
* `DownloadLinks`: the map of tokens, with a clock that passes the five minutes
  of one token; `opened` (history) is what a token has let in.
* Audit rows, replies, mails other than the one to AP, GPS and notes are left
  out.

### Faults

A definition commented "Fault:" is a wrong variant of the definition that
follows it, of the kind a change to the code could introduce. No action uses
it. `PROJECT.json` ("mutants") pairs each with a property that fails when the
variant takes the place of the original, which shows that the property would
notice.

## 3. Runs

`tlc -config <run>.cfg <module>`; sizes are distinct states.

| Run | States | Question |
|---|---|---|
| `approval` | 425 k | a labor or a vendor invoice with two overlapping hand-offs, mail errors and crashes, under promotions and team changes |
| `screens` | 591 k | the same chain worked from two windows whose copies may be stale |
| `timers` | 407 k | overlaps, break minutes and exclusivity of timers |
| `billing_locks` | 802 k | lines under sweeps, the chain, uploads, additions, moved periods and deletions |
| `labor_sync` | 95 k | pulls of any answer in any order on a work order two technicians worked on and were billed for |
| `server` | 157 k | what the server does by itself: the import of work orders, and its starts |
| `spend_policy` | 541 k | lines, rules, caps, budgets, rates and card charges in any order |
| `reports` | 867 k | vendor documents, Expensify, tracker and sheet, unplanned work, launch hours |
| `browser` | 2.31 M | navigation, the expense form, the ticket form, accounts, attachments and download links |

What they show, property by property:

| Property | Run | Says |
|---|---|---|
| `SegregationOfDuties` | `approval` | nobody signs an invoice payable to or uploaded by himself, and two people sign a countersigned labor invoice, whatever roles and teams become |
| `ApprovalCoversContent` | `approval` | what is approved is the content somebody passed on last, by approval or escalation, and what imports and pulls did since |
| `HandOffAuthorised` | `approval` | nothing is mailed, on its way or sent without an Ops approval of someone else |
| `AuditTrailComplete` | `approval` | every accepted mail about an existing invoice has its notification row |
| `SentIsFrozen` | `approval` | a sent invoice keeps its status and approvals, is never deleted, and only imports and pulls change its lines |
| `ImplementsContract` | `approval` | every step is one `ApprovalContract` allows |
| `DeliveredIsRecorded` | `approval` | (liveness) a mailed invoice ends up sent or deleted unless the process dies |
| `NobodyStranded` | `screens` | somebody always has a button that works and leads on; it leaves out the dead end of `finding_send_offered` and payees on no Ops Manager's team |
| `ApprovalStands` | `screens` | a screen that still says submitted cannot undo an approval |
| `OverlapWithinGrace`, `TimersExclusive`, `BreakSeamless` | `timers` | two entries on a work order share at most the grace; one timer per work order and one drive; ending a break moves paid time only by its rounding |
| `BilledToOwner`, `LinesLocked` | `billing_locks` | a line is on an existing invoice of its owner and does not change under an approved one (the PDF import apart) |
| `KeepsLedger` | `billing_locks` | every step is one `LedgerContract` allows; in particular no line is taken from one invoice for another |
| `SyncIdempotent`, `BilledImportsKept`, `LockedAppKept` | `labor_sync` | a pull can be repeated; it takes no imported line off an invoice; logged entries past the draft stay |
| `PullComplete` | `server` | a pull that ended well has found every ticket that was active throughout |
| `CatchesUp` | `server` | (liveness) once a ticket is quiet its work order gets the latest content |
| `UpgradeComplete` | `server` | a server that is up has the columns it needs and shed every old constraint but that on the tag, and lost no rule and no policy value |
| `ServerComesUp` | `server` | (liveness) deaths of the process on the way do not keep it down, unless one cut the rebuild of the rules short |
| `TotalsAgree` | `spend_policy` | the breakdowns by work order and by date come to the same within rounding, each line in one place, and the parts of the summary add up |
| `FlagsAreDeserved` | `spend_policy` | what is flagged for its budget is over budget on the dashboard; hours beyond the baseline are flagged unless a manager's rule covers them |
| `IntakeIsSound` | `reports` | vendor invoices queued by the vendor form are complete and of listed vendors; an unreviewed reading adds up |
| `ReportIsInvoice` | `reports` | the recorded Expensify report is of the submitted lines; reimbursed twice only by lost answers or overlap |
| `BooksAgree` | `reports` | tracker, pipeline and dashboards agree, but for hours imported on another's invoice; undisturbed pushes leave one snapshot on the sheet |
| `TagOnSeenLine`, `SliceWithinTotal` | `reports` | a tag lands on the line that was seen; the waste on a work order stays within its cost and the breakdowns explain all of it |
| `OneReportEach` | `reports` | one report per manager and store, with the name and hours of his last save that the server took |
| `BackWorks`, `NoLostTicker` | `browser` | Back never leaves the application and shows another screen; no interval fires that cannot be stopped |
| `TwiceOnlyIfExposed` | `browser` | a draw of the expense form saves once, unless a redraw or a retry offered a second Save |
| `FormIsOneAnswer` | `browser` | the form shows the ticket asked for, and Apply would overwrite that ticket's order |
| `MissingFilesAreKnown` | `browser` | a row whose file is gone is one that a notification holds or that a crash left |
| `EvidenceStays` | `browser` | what was attached to an invoice, by itself or with an expense on it, when it was approved or sent is still there and opens for its owner |
| `OpensOnceAsAsked` | `browser` | a link opens once, as its owner, for its target, in its five minutes |
| `AdminRemains`, `RevokedStayDead`, `ThrottleBound` | `browser` | an administrator remains; no session that existed outlives a reset or disabling; wrong passwords in one window are bounded |

`labor_sync` states its properties of a pull over every answer MaintainX may
give in the reached state and over every outcome the statements may have.

Deadlock is checked in `approval` and `labor_sync`, which never stop. In the
other instances every id, instant or bound is used up in the end.
`labor_sync` counts states up to an exchange of entry ids and `screens` up to
one of its windows: no definition compares them.

### Bounds, and why they are enough

* Hand-off: two requests, two content versions. The hazards are a second
  request or an edit inside an await of the first; a third adds no new pair.
  The requests are interchangeable, so the second is used after the first, and
  a crash is taken only while one is suspended, where it makes a difference. An
  invoice that waits for its parser, or was changed by an import since its last
  review, is handed off once (`FewImports`).
  One of the two invoices moves: no guard reads two invoices.
* Roles: three users, so that owner, Ops approver and countersigner can be
  different people; the technician and an Ops Manager may be promoted, after
  which one person qualifies for two of the parts. The vendor invoice is worked
  under fixed roles.
* Screens: two windows and four users, of whom two are Ops Managers, so that a
  window may be older than another manager's decision. Roles are fixed, and imports, which no button of these screens starts, are left
  to `approval`.
* Timers: two entries suffice to overlap, on one work order over five instants,
  which hold two breaks with an odd length, as rounding needs; three timers on
  two work orders in the first two instants let a third start while two run.
* Billing: two invoices, one entry and one expense. Each property relates a
  line to the invoice it is on, the one it might move to, and its owner. Two
  users, so that "of the same user" can fail. Either all handlers on one date,
  or the dates of two weeks of a day each, in which the clock stands still and
  the dates vary through the expenses, whose dates are chosen by the client.
* Pulls of labor: two technicians known to MaintainX, one of them assigned to
  the work order, an invoice for each; two logged entries; answers in which each
  technician, the anonymous time and the in-progress clock have no time or one
  minute. That gives four references, so that two of them can be stale and on
  invoices while a third is written. `finding_sync_erases` adds a quarter of a
  minute, which rounds to nothing.
* Work orders: two tickets on pages of one, so that a change can move a ticket
  across the page a pull has reached; two changes, one failed request, one
  refresh, a daily and a manual pull.
* Starts: databases of seven releases (new, v0.22, v0.53, v0.61 without lines,
  v0.63, v0.64, v0.98), one before each rebuild or backfill; that of v0.22 with
  and without the status `paid`, since the repository says when that one was
  dropped and not when it came, and with a rule its rebuild refuses; two deaths
  of the process.
* Policy: two work orders, one with carts; three lines; one rule, cap, budget or
  threshold in force at a time, since each is evaluated by itself. Two rates and
  two baselines, one of which does not divide.
* Reports: six documents, one per way the reader can go right or wrong; one
  labor invoice with four lines and two overlapping exports; lines on three
  invoices in different months and statuses, with hours imported on another's; two managers editing and two
  pushes. Two lines that are tagged, side by side only as an entry and typed
  hours; two launch reports for two stores of one name.
* Browser: five screens, a history of five, two renders at a time; two forms
  with six draws and two expenses; two tickets, two lookups and one
  order, after which only a request that repeats it is sent (a conflict); two
  accounts, two sessions and two suspended requests, one throttle key that locks
  after two failures; two files on the invoice of a technician and on one of a
  vendor, so that a PDF on its way to AP may join or outlive an upload, and one
  expense, so that a file may be its receipt, the invoice's, or both; two
  links of two accounts. All of these are
  proved for any bounds (section 5).

### Fairness

* `approval`: the awaits of a request resume (`WF` of each `HandlerStep`). Node
  resolves the promise of the renderer, and nodemailer has timeouts, so each
  await ends with a result or an error.
* `server`, work orders: the daily pull starts (the timer is armed by every
  start and after every run) and a pull or a refresh under way gets an answer or
  an error (`WF` of each).
* `server`, starts: the next statement runs (`WF` of `BootStep`; the host
  restarts a process that died).

Nothing is assumed of people, and failures and deaths are bounded in number,
not unfair. The other runs check safety only.

## 4. Where the code differs from what it says

Each of these runs checks one property that a comment of the repository
states, and TLC shows how the code violates it.

| Run | Property | What happens |
|---|---|---|
| `finding_late_reject` | `RejectedStaysDraft` | `send-to-ap` ends with an `UPDATE` that looks at nothing: an invoice rejected during its awaits becomes `sent_ap` |
| `finding_send_offered` | `SendOfferedIsAccepted` | an Ops Manager escalates a technician's submitted invoice and it is countersigned; the screen then offers to send it, and the gate asks for `approved_ops_by` and refuses it for ever |
| `finding_sync_erases` | `WorkSurvivesSync` | a pull with less than half a minute for a technician deletes the unbilled work of everybody on the work order, running timers included, and imports nothing |

Others were met while the code was translated and can be read off the models;
no run is kept for them.

Approval and hand-off:

* Rejection keeps `approved_ops_by`, so after edit, resubmission and escalation
  the gate lets content go that nobody approved (`invoices.js:1751`).
* The import after the parser's await adds lines to an approved or sent invoice
  (`UploadParsed`, `invoices.js:817`, against `timeentries.js:527`), and a pull
  rewrites, adds or deletes imported ones (`PullLines`, `labor.js:105-110, 171`).
  `late` counts both, which `ApprovalCoversContent` and `SentIsFrozen` allow.
* An escalated invoice may be sent without the countersignature that
  `schema.sql:90-91` demands (`Sendable`; `approvals.js:468-470` says otherwise).
* Viewing a sent invoice moves `updated_at` (`Touched`, `invoices.js:471`) and
  so opens the guard against re-sending it unchanged (`invoices.js:1754`).
* `POST /submit` (`invoices.js:1286`) takes a vendor draft that `vendor-submit`
  would refuse, incomplete or of a vendor that is not listed (`Submit`, and
  `SubmitAny` of `VendorIntake`). `QueueIsPayable` is about the vendor form.
* The forced deletion of a sent invoice (`auth.js:520`) fails on the foreign key
  of its notification row (`AdminDelete`).
* A vendor invoice approved by a Sr Manager can never be sent: the approval
  writes `approved_sr_by` only (`approvals.js:344-346`, `ApproveSr`) and the gate
  asks for `approved_ops_by` (`MaySend`). From the screens a vendor invoice is
  approved by Sr Managers and PMs only, so each of them ends there.
* A team that has a PM only leaves a submitted labor invoice without an
  approver; `NobodyStranded` leaves it out.
* The stale screen of a second Ops Manager can escalate an approved invoice.
* The trail of an invoice that was rejected still says that Ops approved it
  (`app.js`, `trailFor`); the draft of a payee who became a manager has a submit
  button only through the proxy (`app.js:5782`).

Lines and drafts:

* A manual entry may end five minutes ahead and a live clock-in does not look
  for overlaps, so the two may share that much (`OverlapWithinGrace` is the
  bound that does hold).
* A manager who logs a line becomes the payee of an invoice (`FileEntry`,
  `invoices.js:186`; `invoices.js:57-60` says it is a technician).
* A timer stopped after its week ended is filed by nothing the application does
  by itself: `GetCurrent` sweeps this week only and `ForWeek` only a draft it
  mints (`invoices.js:580-583`).
* `PUT /invoices/:id` moves the period of a draft away from its expenses
  (`PutHeader`; `expenses.js:300-302` says they must remain within it).
* A custom period has ten suffixes for one end date (`invoices.js:1022`). An
  approved addition whose claim is reverted leaves its draft (`invoices.js:1669`).
  A document imported again after its rows were edited is imported twice, since
  duplicates are told by `clock_in` (`pdfImporter.js:133`).

MaintainX labor:

* An imported row of one technician inherits, or is redirected to, the invoice
  of another (`labor.js:97`, `sync.js:134`).
* Two stale imported rows on invoices are redirected to one reference; the second
  `UPDATE` breaks the unique index, and so does each later pull of that work
  order (`CleanSet`; "Every future sync continues to overwrite", `labor.js:9-10`).
  With one reference to write the second billed row is deleted (`CleanOne`).
* Imported rows of approved and sent invoices are rewritten, or deleted when the
  work order is reopened (`Upsert`, `AppWins`; `timeentries.js:527-528` locks
  such lines).

Work orders and tickets:

* One ticket becomes two work orders when its type differs between ways to
  import it or changes later (`map.js:51`; the design says it is matched,
  `MAINTAINX_WORKORDER_SYNC_DESIGN.md:101`). The form's `fromCreate` flag and
  `linked_asset_mx_ids` are ignored by the server (`app.js:1722-1727`).
* Tickets that are done are never updated by pulls, a ticket that moves back
  between two scans is missed, and a pull overwrites `on_hold`. No write looks
  at the time of change, so a late answer wins over a newer one until the next
  pull; that is why `CatchesUp` speaks of tickets that are quiet.
* "We do NOT fall back to a guess" (`app.js:1547-1548`, `workorders.js:895-897`),
  yet a keyword decides the type when no field does (`workorders.js:648`).
* The form: blank fields of a second pull keep what the first pull said; a
  location chosen for it is written over the pulled store; with a catalog loaded
  there is no store input, so a store that was typed or pulled is dropped at
  Save unless a location is picked; text typed during a pull is lost; carts of
  two locations may arrive out of order. The lookup of an existing order by the
  end of its number may find one of another system (`LIKE '%-id'`).

Accounts:

* A password change that was suspended when an administrator reset the password
  overwrites the reset (`auth.js:281`). A login that was verified with the old
  password before the reset opens its session after it: `RevokedStayDead` is
  about sessions that existed.
* A late failure of a request that had passed the check restarts the count of a
  locked key (`ThrottleBound` counts those requests).
* The audit row of a bulk delete has no `entity_id` and breaks its NOT NULL
  (`auth.js:555`), after the commit.

Computation and policy:

* A custom rule on hours with a minimum of carts replaces the baseline also for
  the work orders below that minimum, which then have none (`OverrunsFlagged`
  exempts them).
* A budget that two invoices exceed together is over budget on the dashboard and
  flagged on neither: evaluation sums one invoice. `FlaggedIsOverBudget` is the
  direction that holds.
* A change of the rate and an import change the total of an invoice that was
  approved or sent, since totals are computed on every view.
* `PUT /policy` takes the key `..._service` and ignores `..._maintenance`, which
  is what the evaluation reads (`settings.js:249-258`, `app.js:3109`).
* The meal cap is per expense.

Documents, exports and figures:

* A retry of a vendor upload makes a second draft. A start of the server lists
  vendors from drafts (`db.js:144`), though `invoices.js:2102-2103` says that
  uploads do not create vendors.
* `expensify_report_id` survives a rejection, so a corrected invoice is never
  exported; overlapping exports and lost answers make further reports. The
  export takes the work entries of both sources and no drive, so it doubles
  hours that MaintainX replaced (`invoices.js:2483` against `2435`).
* The tracker drops an open work order without a date whose approved invoice has
  only expenses or drive (`dashboard.js:1389-1392`, HAVING). Hours typed and
  clocked on two invoices are counted once by the tracker and twice by the
  pipeline; dashboards count them twice and MaintainX beside the application's.
  Hours imported on somebody else's invoice are in the tracker at the rate of who
  worked them; the pipeline prices them at the rate of the owner, or drops them
  when he typed hours of his own (`dashboard.js:1366-1368`, `1124-1133`).
  `BooksAgree` says exactly where the three agree.
* A work order without a store name has no total on the sheet, so its total is not the sum of
  its columns. The answer of a clear is not looked at, and overlapping pushes
  mix their tabs; `SheetReconciles` speaks of pushes one at a time. The edit
  form freezes amounts that were computed, and two managers overwrite each
  other. A month is its name, whatever the year.
* The spend of the dashboards ignores breaks (`dashboard.js:243-255`), and the
  carts of a work order count once per line (`dashboard.js:247`).
* `unplanned.js:77` and `164` say that a tag without an amount means that all of
  the line was wasted; the sums take it as 0. The button beside a time entry
  passes no amount, so tagging again clears it; the slice by type includes labor
  and may exceed 100 %. A pull that replaces imported rows loses their tags.
* Launch hours above 168 per store and week cannot be filed; two stores without
  id share a row, which has the name and the hours of whichever was saved last
  (`OneReportEach` takes them for one store); saving again keeps
  `submitted`; a leader's form starts from another manager's report.

Starts:

* A database with the status `paid`, which v0.29 dropped, never starts: the
  rebuild of the invoices (`db.js:577-628`) reads a column of the old table that
  the new one lacks. v0.61 with lines never does either, because the rebuild runs
  with foreign keys on. `ServerComesUp` leaves out both.
* The rebuild of the rules of a database from before v0.23 is four statements
  without a transaction (`db.js:650`). A process that dies between them, or a rule
  for `service`, which the new table refuses, leaves `custom_rules_new` behind.
  No later start gets past the table of that name (`db.js:467` takes it too), so
  the server never comes up until somebody removes it. `ServerComesUp` excuses
  that; `UpgradeComplete` has that no server comes up without the rules.
* A backfill at every start files unbilled imported rows on any invoice of
  their work order, whoever's and in any status (`db.js:167-190`), and another restores team members that were removed
  (`db.js:191-204`).
* The CHECK on the tag column of a v0.63 database stays for ever: the probe
  (`db.js:240-250`) updates no row and so meets no constraint, although
  `db.js:226-227` and `360-361` say that the table is rebuilt without it. A list
  of tags is then refused. `UpgradeComplete` names it as the exception.

Browser:

* The preview of an expense may be saved twice: a late redraw, "Edit" during the
  save, a receipt that fails and a lost answer each offer a live Save again
  (`TwiceOnlyIfExposed` lists them; `app.js:252-257` says a double tap cannot).
* `canAccessAttachment` looks for the account that uploaded a file in the team of
  the caller (`attachments.js:57`), not for the payee of the invoice, so a PDF
  that one Ops Manager stored is refused to the other (`attachments.js:135`:
  "a manager with role/team scope for the attachment's invoice").
* The row of a PDF that was sent to AP is held by its notification: deleting the
  attachment after a rejection unlinks the file and fails on the row
  (`Delete`, `attachments.js:176-181`). Deleting any attachment leaves
  `expenses.receipt_path`, so the rules go on to take the expense for receipted;
  deleting an expense or a whole invoice leaves its files on disk.
* A file may be attached to an invoice and be the receipt of an expense
  (`attachments.js:76-99`). `DELETE /expenses` looks only at the invoice of the
  expense (`expenses.js:452`) and takes the file along, so an approved invoice
  may lose one that is also the receipt of an expense on a draft; `EvidenceStays`
  says so and speaks of the others. While a rejected invoice is still on its way
  to AP its technician may delete its files and expenses; what counts as sent is
  what is attached when the outcome of the mail is recorded.
* A download link stays good for its five minutes after the session that asked
  for it has ended.
* A render that is overtaken writes into whatever screen is shown; Forward acts
  as Back; the invoice that new lines are pinned to survives the end of a proxy
  session (`app.js:11806`, against `11475-11478`).

## 5. Proofs

Every theorem is about any number of users, invoices, lines, requests and ids
and any bound, under the named `ASSUME`s of the modules (types of the constants;
`NoUser`, `NoInvoice` and the like are not ids) and the hypotheses given below.
Each safety theorem has three parts: the initial states satisfy an inductive
invariant, every action keeps it, and it implies the property. Action properties
are proved of each step from a state that satisfies the invariant.

Approval and screens (`InvoiceApprovalProofs`):

* `TypeCorrect`: `Spec => []TypeOK`.
* `Segregation`: owner, Ops approver and countersigner of a tech-labor invoice
  are different people. Not inductive alone: `ApproveSr` compares the caller
  with `approved_ops_by`, and a later Ops approval could make them equal. The
  strengthening `SignatureInv` adds that an invoice with a countersignature
  never returns to a state where an Ops approval is possible.
* `Authorised`: nothing is mailed, in flight or sent without an Ops approval by
  someone other than the owner. It rests on `approved_ops_by` never being
  cleared, the very thing behind the stale approval of section 4.
* `Coverage`: what is approved is what was passed on last and what came since
  from imports and pulls (`ApprovalCoversContent`). An approval or an escalation
  starts the count anew; every other change needs the status `draft` or
  `submitted`.
* `Frozen`: nobody edits a sent invoice, and its version moves only with `late`
  (`OutsideRow` is what imports and pulls may do to a row). The strengthening `LoggedInv`
  says that every sent invoice, and every request past its mail, has a
  notification row: that row's foreign key is what stops the deletion.
* `AuditTrail`: what reached AP has a notification row of its own. A count
  cannot be kept by itself, since the row is written before the mail: `AuditInv`
  says that the messages delivered and the requests that may still deliver
  (`Mailing`) are together at most the rows.
* `Refinement`: `Spec => ImplementsContract`. Each handler step maps to a step
  of `ApprovalContract` or to a stutter under the mapping of rows to phases.
* `ScreensImplement`: `ScreensSpec => Spec`. Clicks run handlers with the user of
  the window, on an invoice that exists, so each theorem above holds of the
  screens too.
* `StaleScreensHarmless`: `ApprovalStands`. The handlers alone do not give it: a
  vendor invoice in `approved_ops` could be decided on twice. `VendorSkipsOps`
  adds that no vendor invoice gets there from the buttons the screens draw.

Lines and drafts (`DraftBillingProofs`, about the composition of `Ledger`,
`TimeTracking`, `Expenses` and `DraftBilling`):

* `TypeCorrect`: the shape of the tables; only a minted invoice has a PDF or an
  addition (`Minted`), without which the import after the parser's await could
  file lines on an invoice that never existed.
* `TimersNeverDoubled`, `OverlapBounded`: one invariant, `TimerInv`. It says that
  no entry starts in the future (`Timely`) and, of any two entries of a user,
  which pairs may exist (`Fits`): apart, on different work orders, or sharing no
  more than the grace by which a manual entry may end ahead.
* `LinesAreTheOwners`: `BilledToOwner`. The sweep files whatever is unbilled, so
  a clock-out needs that a running timer is on no invoice (`RunningUnbilled`).
* `LockedLinesStay`, `LinesNeverStolen`: the step relations `Moves` and `Refiles`
  say what a handler may do to the column `invoice_id` of a line, handler by
  handler; the properties follow from the relation.
* `LedgerKept`: `DraftBilling` implements `LedgerContract` (`KeepsLedger`). Both
  tables map to one set of lines (`LineTable`), the PDF jobs to the documents being
  read. Each handler is one step of the contract: it files free lines of one user
  (`Files`), adds a line (`Gains`), removes one, frees those of a deleted invoice,
  moves an invoice, or changes nothing the contract knows (`SameLines`). The steps
  need `TypeInv` (the invoice of an approved addition has an owner) and
  `RunningUnbilled` (or a clock-out would take an entry off a locked invoice).
  `NeverStolen` is a consequence and is proved apart; no run checks it.
* `BreaksCostTheirLength`: the arithmetic of `EndBreak` for any tick length.

MaintainX labor (`LaborSyncProofs`):

* `LockedEntriesKept`: no pull and no other step deletes or changes a logged
  entry of a locked invoice. `ReconcileApp` shows, branch by branch, that
  reconciling either leaves the logged entries alone or deletes the unbilled work
  among them; `LedgerInv` adds that a running entry is on no invoice.
* `PullsAreIdempotent`: from any state of the tables, so no invariant is needed;
  the proof follows the loop over the references. The minutes a pull writes are
  sums over technicians. They stay opaque: only that both pulls write the same
  matters.
* `BilledImportsStay`: `ImportsInv` adds that imported rows have references of
  the work order and lines only invoices that exist; `CleanOne`, `CleanSet` and `Upsert` are
  followed reference by reference.

Accounts, files and links (`AppProofs`):

* `AccountsTypeCorrect`: the shape of accounts, sessions, throttle and attempts.
* `AdministratorRemains`: an admin who is not disabled and has a password
  remains. The check of the last admin counts other admins with status
  `active` and does not look at their password; what saves it is that the admin
  who acts is signed in, so he has one. `AccountsInv` therefore adds that
  sessions and suspended logins belong to accounts with a password
  (`SessionsHaveOwners`, `LoginsHaveOwners`).
* `RevokedSessionsStayDead`: no session is older than the last revocation of its
  account, from the same invariant.
* `ThrottleHolds`: the limit is passed at most by the requests that were let
  through before it was reached. `ThrottleInv` keeps the counter and the pending
  requests of a key together (`Bounded`); it needs the set of requests to be
  finite (`AttemptsAssumption`).
* `AttachmentsTypeCorrect`, `MissingFilesExplained`: the type is inductive and
  carries the second by itself with the foreign keys of notifications.
* `EvidenceKept`: `Kept` adds that an expense whose receipt is remembered stays on
  the invoice, where `DELETE /expenses` does not touch it while the invoice is
  passed on. Nothing in it depends on what was remembered before a rejection: an
  invoice that is sent in spite of one is remembered as the mail finds it.
* `LinksOpenOnce`: `LinkInv` relates the map of tokens to those that were issued
  and to what they opened.

Browser (`AppProofs`):

* `NavCorrect`: the inductive invariant `NavInv` of types, of the stack against
  the history of the browser, and of one live interval per ticker.
  `BackAlwaysWorks` and `TickersKept` follow from it. Their core are
  `ReduceUseful` and `PopUseful`, which say what the clean-up of the stack and a
  pop leave on it.
* `RecordedOnce`: `TwiceOnlyIfExposed`. `EntryInv` says of each form where it may
  still be saved from: while it is saved and after it, it is on display only as
  the preview whose button is busy.
* `OneTicketShown`: `FormIsOneAnswer`. What the user does to the fields leaves what
  the form says of its answer (`SameAnswer`); an answer that fills it is about the
  ticket that was asked for (`FetchedIsAsked`), because one with another id is
  refused. It needs that tickets are filed under their numbers
  (`TicketAssumption`).

Server (`ServerProofs`):

* `PullsFindEverything`: `PullComplete`. While a pull is in one of its requests,
  what it still has to find is on a page to come (`ToCome`): of a phase whose
  turn comes later, or of this phase and no earlier in its order than the page.
  `PullInv` says of every ticket that stayed active and assigned since the pull
  began that it has its work order, waits for its details, or is to come. A
  ticket that is started moves to the later phase, which is why
  open tickets are asked for first. The proof relies on the cursor of MaintainX
  (external) to mean "after this ticket": with offsets, a ticket that leaves a
  list would move the others past the page boundary. The hypothesis
  (`TicketsAssumption`) is a finite set of positive ticket numbers and pages that
  hold at least one.
* `UpgradesLoseNothing`: `BootInv` gives, for each stage of a start, what the
  stages before it have already done to the disk, and says that a crash, which
  leaves the disk and forgets the stage, is back at the weakest of them. The
  rules are the hard part, since the rebuild of `db.js:650` is four statements
  without a transaction: between the last two they are in the new table alone
  (`Renaming`), and a start that died there leaves a table that no later start
  gets past (`Stranded`), so that a server that is up has not lost them. The
  hypothesis is `Upgradable` of each database: any constraints, columns, rules,
  types of work, teams and policy values, without the leftover of an earlier
  rebuild. `BootableUpgradable` has TLC confirm that the releases of the run
  satisfy it.

Reports (`ReportsProofs`):

* `ReportsMatch`: while no report is recorded, every report beyond the lost
  answers belongs to a request that will record it (`Accounted`); no request is
  under way for lines other than those submitted (`Untouched`).
* `OneReportPerStore`: `FiledInv` says that the ids of the rows are 1 to their
  number, so a new row has a new id; `DialogInv` that a dialog was seeded for
  the manager who has it open; `SaidInv` that the rows say what was saved last. That
  each upsert finds the row it should is the proof of `Saved`, for stores with and
  without id (`SaidAnew`); that marking a report as submitted leaves its content
  alone is the other half.
* `VendorInvoicesSound`: `IntakeIsSound`, for any documents. `QueueIsPayable` is
  inductive, given that every write of an invoice the vendor form submitted keeps
  its fields filled (`InsertKeeps`, `UpdateKeeps`). `ReadingReconciles` is about what the
  reader makes of a document (`ReadRight`), and `IntakeInv` carries it to
  the row of an invoice nobody edited. `ExactRowsWin`: a layout whose rows add up
  to the document scores 1000 and any other at most its number of rows and 500 more,
  which is less as long as a layout has at most 200 rows (`DocumentsAssumption`).
  The hypothesis is a real limit: layouts are scored with all their rows but only
  the first 200 are kept (`vendorPdfExtractor.js:300`), so the rows shown of a
  longer document need not add up to its subtotal.

* `BooksHold`: `BooksAgree`, from the ledger to the sheet. What the tracker makes
  of a set of lines is the sum of the lines that count (`Kept`): for each
  technician those of the expense, or else the clock (`ResolvedIsKept`,
  `PerTechIsKept`). So a row comes to the lines of its work order that count
  (`ComputedIsCounted`), and each agreement is a partition of such a set: by
  rows (`CountedOnceHolds`), by invoices (`PipelineAgreesHolds`), by work orders
  (`SpendAgreesHolds`), by months and types (`MonthsAddUp`). These hold of any
  ledger, edited in any way; only the sheet needs an invariant of the steps.
  `PushShape` says that every push under way carries tables that reconcile,
  `PushReach` that while nothing has disturbed it a push is alone and has left
  the tabs behind it as it sent them. The hypothesis (`TrackerAssumption`) is what
  the routes guarantee of a line: it is of a technician and on a work order and
  an invoice; hours typed as an expense are more than none
  (`expenses.js:159-164`), or the clock would count as well as an expense of
  nothing; what the application logged is on an invoice of whoever logged it
  (`BilledToOwner` of the ledger), and what a pull imported is work on anybody's.
  That tracker and pipeline agree is claimed of work orders without hours
  imported on somebody else's invoice (`OwnHours`).

Finite sets (`FiniteFacts`):

* Sums. The model adds with `SumFunction` of the community modules, a fold that
  takes the elements in an order of its choosing. The first lemmas show that such
  a sum exists and is unique (`SumExists`, `SumUnique`), and what it is when an
  element is taken out (`SumRemove`), of two sets that are apart (`SumUnion`), of
  the classes of a partition (`SumPartition`) and of sets that cover another
  (`SumCovered`). `SetInduction` is induction over a finite set, stated with a set
  of subsets instead of a predicate, which is how it can be cited here.
* Lists. A finite set of numbers has its list in ascending order (`OrderExists`),
  by the least size for which it would not have one, and nothing of the set is
  missing from the list (`OrderedList`).

Figures (`FiguresProofs`, about `UnplannedWork`, `InvoiceTotals` and `SpendPolicy`):

* `TagsStayOnTheirLine`: `TagInv` relates everything that speaks of a line (rows,
  sheets, buttons, requests under way): any two that speak of one id of one
  table speak of one line, and no id is beyond the last one given out. It needs
  that the kind of a line is that of one of the tables (`LinesAssumption`).
* `WasteWithinCost`: `SliceWithinTotal`. `PriceInv` says that nothing costs less
  than nothing and that tags are reasons. The types and the stores of the priced
  lines partition them (`BreakdownExplains`), the reasons cover them, and what is
  wasted of a line is at most what it costs now (`WasteAndCost`), line by line.
* `TotalsHold`: `TotalsAgree`. Each group of a breakdown is within a cent of its
  lines (`GroupNear`), and the groups are a partition (`BreakdownNear`). The
  summary rounds labour and drives per work order over the work orders that have
  some; those without would add nothing (`PerWorkOrder`). That its seven parts are
  the total needs each expense in one of them (`RestSorted`), hence the
  categories of `VALID_CATS` in `PolicyAssumption`.
* `FlagsHold`: `FlagsAreDeserved`. The expenses of one invoice in a category are
  some of those the dashboard adds up (`OverBudgetEverywhere`), so a budget that
  the first exceed is exceeded by the second.

Only model-checked:

* Liveness (`DeliveredIsRecorded`, `CatchesUp`, `ServerComesUp`) and what quantifies
  over enabled actions (`NobodyStranded`) are out of the prover's reach.

## 6. Plan

1. Done: the approval chain and its screens; the ledger with time tracking,
   expenses and drafts; labor and work orders from MaintainX; computation and
   policy; vendor documents, exports and figures; accounts, navigation, forms,
   files and links; starts and upgrades; the proofs of section 5.
2. Open: the hazards without a property (PROJECT.json). A PDF whose line is fixed
   per invoice would let the model tell a line imported twice from a second one.

### Not modelled

* The text work: regular expressions of the PDF readers and of the store lookup,
  drawing the PDF of an invoice, OCR, the layouts of a technician's own invoice.
  Nothing interleaves there; what is believed when several patterns match is in
  `VendorExtraction` and `TicketFields`.
* `renderX` functions of `public/app.js` that show what the API returned, and the
  `redesign/` prototype, which no route serves.
* Notifications other than the rows of `send-to-ap`, category dashboards, the
  weekly trend of unplanned work.
* Seeds, CSV import and maintenance scripts, backups by litestream, static files
  and middleware.
* `DELETE /admin/work-orders`: it names columns that `notifications` does not
  have and always rolls back.
