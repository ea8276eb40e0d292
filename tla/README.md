# Cadrius in TLA+

Cadrius is a multi-tenant web application for Brazilian law offices: Django and
REST framework in front of PostgreSQL, Django-Q2 on Redis behind, and outside
systems (AI providers, e-mail, WhatsApp, ERPs, Google, Stripe) on every side.
What makes it hard is not the algorithms. It is that

- several web workers and four queue workers run the same handlers on the same
  rows, most of which load a row, decide on what they loaded and save later
  without a lock (there is no `ATOMIC_REQUESTS`; `select_for_update` is used in
  a handful of places);
- the queue delivers at least once and kills what takes over a minute
  (`cadrius/settings.py:474`), Stripe delivers at least once and in any order;
- the handlers do things that cannot be undone: send a message to a client,
  call an ERP, charge credits, switch an office off.

This directory models the parts where these meet, checks them with TLC on small
instances, and proves with TLAPS, for every value of the constants, the
properties that matter most.

## Contents

| module | models | checked in | proofs |
| --- | --- | --- | --- |
| `RuleRuns` | executions of an automation rule (`automations/engine.py`) | `MCRuleRuns` | `RuleRunsProofs` |
| `Triggers` | how time fires a rule (`automations/engine.py` `tick`, `context.py`) | `MCDeadlines` | `DeadlinesProofs` |
| `Suggestions` | a suggestion of a rule (`brain/suggestions.py`, `discovery.py`) | `MCDeadlines` | `DeadlinesProofs` |
| `RuleConfig` | editing, simulating and switching on a rule (`automations/api.py`) | `MCEdits` | `RuleConfigProofs` |
| `ExecutionPipeline` | workflow executions and their human review (`workflows/tasks.py`, `aigov/views.py`) | `MCExecutionPipeline` | `ExecutionPipelineProofs` |
| `Credits` | spending of credits (`billing/credits.py`) | `MCCredits` | `CreditsProofs` |
| `AICalls` | choice of a provider, guard, fallback, breaker and log of an AI call (`aigov/`) | `MCCredits`, `MCAICalls` | `CreditsProofs` |
| `EmailIntake` | reading of mailboxes and triage (`tasks/tasks.py`, `emails/triage.py`) | `MCCredits`, `MCEmailIntake` | `CreditsProofs` |
| `Subscriptions` | events of Stripe (`billing/stripe_sync.py`) | `MCEvents`, `MCSubscriptions` | `SubscriptionsProofs` |
| `Coupons` | a coupon from the request to the payment (`billing/promotions.py`) | `MCEvents` | `SubscriptionsProofs` |
| `Portfolio` | instalments and expenses of an office (`carteira/`) | `MCEvents` | `SubscriptionsProofs` |
| `FiscalNotes` | the fiscal note of a payment (`backoffice/nfse.py`) | `MCEvents` | `SubscriptionsProofs` |
| `Assistant` | pending actions and the connector (`assistant/`) | `MCEdits` | `EditsProofs` |
| `Customizations` | a request of a customization and its ticket (`support/customization.py`, `services.py`) | `MCEdits` | `EditsProofs` |
| `FolderImport` | import of folders (`imports/folders.py`) | `MCEdits` | `EditsProofs` |
| `AuditTrail` | what the audit trail promises: an abstract specification | `MCEdits` | `AuditChainProofs` |
| `AuditChain` | the hash chain, its purge and its verification (`audit/`); implements `AuditTrail` | `MCEdits` | `AuditChainProofs` |
| `Publications` | polls of the gazette, page by page, and review of what they find (`publications/`) | `MCDeadlines` | `DeadlinesProofs` |
| `CaseMonitor` | the watch over one case (`research/monitor.py`) | `MCDeadlines` | `DeadlinesProofs` |
| `Documents` | the life of one reading (`documents/pipeline.py`, `views.py`) | `MCDeadlines` | `DeadlinesProofs` |
| `CalendarSync` | a task and its event at Google (`gcal/sync.py`) | `MCDeadlines` | `DeadlinesProofs` |
| `CourtCalendar` | business days, recess and deadlines (`forense/calendar.py`) | `MCDeadlines` | `DeadlinesProofs` |
| `ContentPieces` | a piece of marketing and its video (`marketing/`) | `MCDeadlines` | `DeadlinesProofs` |

`MC<name>.tla` instantiates modules for TLC (definitions of constants that are
not model values, symmetry sets, and for four of them the composition);
`MC<name>_<run>.cfg` is one run. Paths below are relative to `src/`.

    tlc -workers 2 -config MCCredits_credits.cfg MCCredits
    tlapm CreditsProofs.tla

## Inventory

### Modelled

**Automation runs** (`automations/engine.py`, `models.RuleRun`,
`messaging.py`). State: the run rows (status, steps, decision), one-off
`Schedule` rows (timers), notifications, the rule's `enabled`. Operations:
`execute` (from the queue), `approve` and `reject` (from the API, the voice path
and the watch), `resume_step` (a timer), the expiry loop of `tick` (every 15
minutes). They share the run row: each reads it, works on a copy of its steps,
performs steps outside the office, and writes the copy back. Only approve and
reject claim the row first, with a compare-and-set (`_claim`). Hard: any two of
them at once on one row; an event queued twice; a process that dies between the
first effect and the only save; a timer created before the run it names is
saved. Correct when: nothing that needs a human leaves before one said yes;
what the record says is done was done; nothing is done twice; the daily limit
holds; no run and no approval is left hanging.

**Automation rules** (`automations/api.py`, `engine.simulate`,
`assistant/tools.py`). State: the rule row (enabled, configuration, hash of the
simulated configuration). Operations: create, edit (saves the whole row),
simulate, enable, disable, and the assistant's tool that simulates and enables;
executors read the row and pause it at the daily limit. Correct when: a rule
that is on was simulated as it is, and nothing else ever runs.

**Triggers of time** (`automations/engine.py` `tick` and `_daily`, `context.py`).
State: the things a rule looks at (tasks, appointments, receivables, stages,
birthdays), the keys of the runs there have been. A tick, every 15 minutes, lists
what is due and executes the rule for one thing after the other; the builder of the
trigger reads the thing again. Hard: ticks that overlap, die in the middle of the
list or come late, things that change after they were listed, a rule that is switched
off and on. Correct when: every due thing has its run, one for each occasion, and
only while it is open.

**Suggestions of rules** (`brain/suggestions.py`, `discovery.py`). State: the
suggestion, which every handler loads, decides on and saves whole. Detectors (by the
daily job, the page or the assistant) find, refresh and sweep it, the interview makes
it, the office accepts it, which makes a rule that is off, or dismisses it for 60
days. Correct when: what was accepted is one rule and names it, and what was
dismissed is not made again in its 60 days.

**Workflow executions** (`workflows/tasks.py`, `aigov/views.py`
`ReviewExecutionView`, `billing/decorators.py`). State: `ExecutionLog` rows, the
queue, the balance, audit events. A webhook or an analysed e-mail creates a log
under the quota check and queues it; a worker reads it, passes the gates (active
workflow, human review of AI output), spends a credit, calls outside up to three
times and records the result; a manager approves (and requeues) or rejects.
Hard: redelivery of a message, two reviewers, an approval queued before it
commits, an exception after the effect, a broker that is down. Correct when: what
an AI wrote leaves only after an approval; SUCCESS means it happened; what leaves
is paid for; no execution is forgotten.

**Credits** (`billing/credits.py`, `entitlements.py`). State: usage rows per month
and per member, purchased lots, trial or paying. Operations: check the balance,
`consume_credit` (one transaction, the usage row of the month locked), purchase.
Callers either spend and act (workflows) or check, act and spend without looking
at the answer (documents and the other AI features). Hard: two charges at once;
charges on either side of the turn of the month, which lock different rows.
Correct when: no month overspends the plan, no member the quota, a trial is one
package, and every credit that goes was charged to somebody who was told yes.

**Subscription events** (`billing/stripe_sync.py`, `views.py` webhook,
`addons.py`). State: the office row (status, plan, subscription, start of the
grace), the media add-on, lots, the book of payments. Operations: one handler per
event type. Hard: duplicates, reordering, two workers at once, a dead worker, a
bank slip that completes a session unpaid. Correct when: nothing unpaid is given
and nothing is given twice; the office mirrors Stripe; the grace is not
restarted; what was collected is in the book.

**Use of AI** (`aigov/guard.py`, `routing.py`, `llm.py`). State: the switch of
the platform and its cached copy, the policy and the keys of the office, the
breaker of each provider in the cache, the log of calls. A request chooses its
candidates with the keys of that moment, passes the guard (switch, policy, daily
limit), and tries one provider after the other. Hard: everything it decided on may
change before it calls. Correct when: client data goes nowhere it may not; the
switch cuts; the limit is passed by no more than the overlap; a breaker opens at
the third failure in a row and not before.

**E-mail intake** (`tasks/tasks.py`, `emails/triage.py`). State: mailboxes with
their last read, message rows, triage rows. `fetch_emails` reads, deduplicates and
queues; `triage_email` classifies, spends a credit and tells the rules. Correct
when: a message is saved, triaged, told and paid for once, and none is left.

**Coupons** (`billing/promotions.py`, `views.py`, `admin_api.py`). State: the
coupon with its count, redemptions, the office's days, the mirror at Stripe, open
sessions. Correct when: an office uses a coupon once, the count is the number of
offices that did, and the payment of a checkout is the price that was agreed.

**Client portfolio** (`carteira/services.py`, `api.py`). State: instalments and
expenses with their charges at Asaas, entries of the cash book, the agreement.
Correct when: a payment is booked once and what is booked was received, what is
cancelled stays so, and nobody is asked twice.

**Fiscal notes** (`backoffice/nfse.py`). State: the payment's status, reference and
number, and the notes the emitter has. Hard: the answer of the emitter may be
lost. Correct when: a payment has one living note and its row says so.

**Assistant** (`assistant/engine.py`, `mcp.py`, `api.py`). State: pending actions,
tokens, the switch and the rate of the connector. Correct when: an action takes
effect once, after its person confirmed it; off means off.

**Imports of folders** (`imports/folders.py`, `folders_api.py`). State: the job with
its cursor, documents, clients and links. A step works on a folder, saves, and
queues the next or pauses. Correct when: nothing is imported twice, an import that
says done is whole, and one that says running runs.

**Customizations** (`support/customization.py`, `services.py`, `api.py`). State: the
request with its offer and approval, its ticket, the messages. Staff and the office
load the row and the ticket, decide, save the row and write messages; nothing locks
and no transaction joins the writes. Correct when: what is carried out is the offer
that was approved, the office was told of it, an end is the end, and nobody waits for
an answer that was given.

**Audit chain** (`audit/service.py`, `verify.py`, `retention.py`). State: records
that each carry the hash of the one before, the head row, checkpoints. `log`
appends under the lock of the head inside the transaction of its caller; the purge
cuts the old end behind a checkpoint; the verification walks. Correct when: the
committed records always link up, and the verdict is right.

**Publications** (`publications/services.py`, `providers/djen.py`, `api.py`). State:
what the gazette shows, captured rows, the date of the last check, tasks. Correct
when: a publication is captured in its window, announced once, and its deadline has
one task. The first holds as long as a window has no more publications than the five
pages of a hundred a search reads.

**Monitored cases** (`research/monitor.py`). State: the case, its movements, who has
been told. Correct when: a movement is told of once, and history is not news.

**Document reading** (`documents/pipeline.py`, `views.py`). State: the extraction row,
queue, tasks made from it. Every handler saves the whole row. Correct when: what a
person confirmed stays confirmed, with its tasks, until undone.

**Google calendar** (`gcal/sync.py`, `signals.py`). State: the task, its event, the
mapping, the sync token. Correct when: there is one event for a task and, at rest,
both calendars say the same.

**Court calendar** (`forense/calendar.py`). Pure functions on dates. Correct when: they
agree with the rules of the law, written as sets of days.

**Marketing** (`marketing/api.py`, `services.py`, `media.py`). State: a piece with its
text, status and video, the operations at Google. Correct when: what is posted is a
text somebody approved, and a video is charged when it is delivered, once.

How they interact. `Subscriptions` creates the lots and the status `Credits` spends
(there `Buy` and `Subscribe`); `Credits.consume_credit` is the quota step of
`ExecutionPipeline` (there `Charge`, one balance), of `EmailIntake` and of
`ContentPieces`; `RuleConfig` decides what `RuleRuns` executes (there `enabled` and
the steps, fixed for a run since the code loads the rule once). `Publications`,
`CaseMonitor`, `EmailIntake` and `Triggers` produce what `RuleRuns` takes as its events
(a key of `Triggers` is a key there); `Suggestions` makes rules that are off for
`RuleConfig` to edit, simulate and switch on;
`Publications` and `Documents` create the tasks `CalendarSync` carries to Google;
`Coupons` opens the session whose payment `Subscriptions` is told of. Everyone logs
to `AuditChain`. Each module keeps of its neighbour what its own handlers read, so
they share no variable and the composite instances let one of them move while the
others rest in an initial state: the composition is of runs, it adds no
interleaving between components.

### Not modelled

| component | why |
| --- | --- |
| Accounts, sessions, MFA, teams and permissions (`accounts/`) | left out on purpose: the project states correctness of the work the office does, not of its access control |
| Audit detectors and IP blocks (`audit/detectors.py`, `ipblock.py`) | rules over the log that raise alerts; the log is in `AuditChain` |
| Queue (`core/queue.py`) | delivery at least once with a timeout: in each module as redelivery, crash and a broker that is down |
| Webhooks in, shortcuts, voice (`webhooks/`, `automations/shortcuts.py`, `voice.py`) | entry points that queue work modelled above; the voice's decision is `web = FALSE` in `RuleRuns` |
| Privacy (`privacy/`) | requests of data subjects and the closure of an office: sequential work of one person |
| Tickets that are no request of a customization, hours of access, drafts, contacts, portal, notifications | rows of one office decided by one person at a time; the replies and the status of a ticket are in `Customizations` |
| Compliance checks (`compliance/`) | read-only scores |
| Memory, style and autonomy of the brain (`brain/`) | heuristics over counts; what autonomy confirms is in `Documents`, the suggestions of rules are in `Suggestions` |
| ERP and other connectors, extraction, masking | calls and text; their outcomes are inputs of the modules above |
| Deployment | scripts and images |

Every component, with its sources, what is modelled of it and what is left out of
it, is in `PROJECT.json`, which also lists the hazards each property is for and,
under `map`, the lines every definition stands for.

## Plan

1. `RuleRuns`, `RuleConfig`, `ExecutionPipeline`, `Credits`, `Subscriptions` with
   their runs and theorems (done).
2. The components around them, the abstract `AuditTrail` and its refinement, the
   composites (done).
3. The invariants of `RuleRuns`, the refinement of `AuditTrail`, and the invariants of
   the components of `MCEdits` and `MCDeadlines` (done: see "What is proved").
4. The invariants of every other component of the composites (done).
5. Modules still worth writing: the closure of an office with everything that runs in
   it, e-mail executions from intake to result.

Modules a proof is wanted about declare no `RECURSIVE` operator.

## The modules

Common conventions. A handler is split where another process can see the
difference: at every read and write of a row, every effect outside, every commit
and every queueing. `pc[w]` says where a process is, `job`, `copy`, `req`,
`seen` what it has loaded, and a process that ends forgets both. A property that
needs the past reads a history variable, named as such in its module, that no
guard reads. Definitions marked `mutant` are wrong on purpose: each property has
one, a plausible bug under which TLC finds it violated.

### RuleRuns

One rule of `N` steps of given kinds, events (`Keys`) and processes (`Workers`,
queue workers and web processes alike). `ExecuteStart .. ExecuteSave` follow
`execute` line by line: the read of the rule, the insert under the unique key
`(rule, dedupe_key)`, the count of the day's runs, the pause over the limit, the
condition, the plan, one action per step (whose effect and new status come
from `Outcomes`, the ways `perform` can return or raise), the save, the notice.
`DecideStart .. RejectSave` are the decision view and the voice path (`web`
tells which: the view wraps the decision in a transaction, so its claim is not
seen and the row stays locked until it commits). `ResumeStart .. ResumeSave` are
a timer, `ExpireRead`, `ExpireSave` the tick; `Crash` kills a process anywhere,
rolls back its transaction and may redeliver its message; `OfficeHours`,
`ContactChoice`, `SwitchRule`, `GrowOld` are the environment.

`age` counts 0 (within the day), 1 (older), 2 (past the seven days of an
approval); ages are all the code compares.

### Triggers

One rule, its trigger, and the things it looks at. A day has two slots, before and
after the hour from which most triggers are looked at. `TickStart` lists what is due
(`IsDue`, by trigger; `Stamp` is the part of the dedupe key that is not the thing),
`TickExecutes` executes the rule for one of the list (the rule and the thing are read
again, and the unique key decides), `TickEnds`, `TickDies`. `OpensOrCloses`, `Moves`,
`SwitchesRule`, `TimePasses` are the environment. `monthly_goal` goes as
`contact_birthday` (a key per period), `case_stale` as `opportunity_stale` (a key per
stay), `contract_ending` as `receivable_before`. `runs` remembers each thing as it was
listed and as the builder read it, `untouched` the things nobody touched today, `sure`
that a tick of this late slot has ended while the rule stayed on.

### Suggestions

One suggestion, whose key has the prefix of a detector or of the interview. A refresh
is the search (`RefreshDetects`), then either the sweep of what was not found
(`RefreshSweeps`) or the read of the row (`RefreshLooks`) and its write (`WritesOpen`);
the interview is one read and the same write; `Decides` is the read and the check of
status of accept and dismiss, `Accepts` (rule and row in one transaction) and
`Dismisses` their write. `Saved` is Django's save of a loaded row: over whatever the row
has become, and an insert if it was deleted. `crossing` remembers that a handler took
the row up while another was between loading and saving.

### RuleConfig

One rule row; requests that `Load` it and write later; executors that load the
configuration and run it. A configuration stands for the fields the hash covers
and is its own hash. An edit writes the whole row (`copy` with the new
fields, off and unsimulated unless the new configuration is the one simulated),
the other views one column. `overlapped` remembers that an edit was in flight
together with another request.

### ExecutionPipeline

Rows, queue, a balance, workers and reviewers. `CreateLog`, `EnqueueLog`,
`QueueUnavailable` are `execute_workflow_pipeline`; `Take` to `Fail` are
`process_workflow_execution`, with one action per save, charge, outside call and
audit; the reviewer's approval is save, queueing and commit, in that order and
inside a transaction, which is why the lock is there. An action's outcome is
done, an HTTP error (tried again) or another error, each with or without an effect.
`SetActive` is the update of the workflow that switches it off or on meanwhile.

### Credits

`Start`, `Deliver` are the callers, `Enter`, `LockAndDecide`, `Finish` are
`consume_credit`: the month is read before the transaction; the usage row of the
month is locked while everything is decided; the writes come last. When the lots
no longer have what was decided the code returns a refusal inside the
transaction, which commits what it took: `Finish` does the same and `lost`
counts it. Lots are numbered by expiry, the order they are taken in.

### Subscriptions

Stripe is an environment that appends what it has to tell to `events`: a paid or
unpaid pack, the session and first invoice of a subscription in either order, the
unpaid session of a bank slip, renewals, failures, cancellations. `Receive`
delivers any of them, again if need be, and loads the office; then one action per
handler branch and save. `Respond` answers 200 or dies first. A handler that has
answered is `acked`; nothing requires Stripe to redeliver what was not, so no
property depends on it doing so. The plan and the subscription id are written by
one save and are one field. `disordered` remembers that an event was handled
after a later one, before an earlier one had its 200, or together with another.

### AICalls

`Choose` is `candidates` with the keys of that moment; `GlobalCached`, `GlobalRead`
and `GlobalFill` are the three outcomes of `global_ai_enabled`, the fill apart from
the read because the switch may be thrown in between (`late`); `Check` is the rest of
the guard; `Call`, `Record` one turn of `chat_with_fallback`, with the key found at
that moment and the breaker's counter written back from what was read; `Log` the
`finally` of `run_guarded`. `OfficeChanges`, `ThrowSwitch`, `DropCache`,
`CacheExpires`, `BreakerCloses` are the environment. `sent` remembers under what
conditions client data left.

### EmailIntake

A reader fetches the unseen of one mailbox, and for every message: looks for its
`Message-Id`, saves, queues, marks as seen; a triager takes a message of the queue,
spends a credit, saves the triage, tells the rules. Deaths and a broker that is down
make the queue deliver again, up to `MaxAttempts` times.

### Coupons

Handlers load a coupon (and an office), and go on from these copies: days for a
trial (`AskDays`, `Redeem`, `CountUse`, `GiveDays`), a checkout (`AskCheckout`,
`MirrorCoupon`, `OpenSession`), its payment (`PaymentTold`, `SettleOffice`, then
`Redeem` and `CountUse`), an edit of the staff that writes the whole row back
(`AskEdit`, `SaveEdit`). The value of a discount is the number of its edition.

### Portfolio

A desk is a request of a member or a delivery of the webhook of Asaas. `Ask` loads the
row and decides on it; `Pay`, `Reopen`, `CancelItem`, `CancelAgreement`, the charge and
the note write the columns they write; `CloseIfDone` and `Close`, `Reactivate` are the
agreement following its instalments, from the copy a member's request loaded or the row
the webhook reads. The service repeats its events.

### FiscalNotes

One payment and the emitter's notes by reference. `AskEmit` picks the reference, `Post`
is everything the emitter may do with it (take it, know it, refuse it, not answer),
`SaveEmission`; `AskRefresh`, `Get`, `SaveRefresh`; `AskCancel`, `CancelAtEmitter`,
`SaveCancellation`; `RegisterByHand`. The periodic sync is one more refresher.

### Assistant

Actions pass from prepared to confirmed, cancelled, done or failed; two people may
decide at once, and a tool may raise after its effect. The connector's tokens are
created, revoked and used, its switch is set, its rate counted in the cache by a read
and a later write.

### Customizations

One request with its ticket. `Loads` is the read of both by any handler; `StaffSaves`,
`StaffNotes`, `StaffWaits` are `staff_update` with the note it writes as a reply and the
status that follows; `StaffSpeaks`, `StaffReplied` a reply of staff, `ClientSpeaks`,
`ClientAnswered` one of the office; `ClientSaysYes`, `ClientSaves` the approval, message
first, `ClientCanceled` the cancellation; `SetsStatus` is a status given by hand,
`HandlerDies` a death between two writes. `told`, `inPlace` and `untold` remember what
became of the note of each offer, `upset` that handlers overlapped or one died.

### FolderImport

Jobs over the same two folders (one whose client is found by name, one by document
number). `Take` to `SaveEnd` are one task of the queue: open a folder, skip or save a
file, link it to the client, close the folder, pause after its time, queue the next
task. The .zip is removed (`Discard`) before the end is saved, and the plan with it
(`SaveEnd`): an import that is taken up with folders left and no plan fails (`Planless`). Requests start, retry and discard. `contacts`, `docs`, `links` count rows, so
that a second one shows.

### AuditTrail and AuditChain

`AuditTrail` is the promise: entries grow after every entry there ever was (`Grow`),
leave from the oldest end (`Expire`), and nothing is promised after a hand from outside
(`Touch`). `AuditChain` is the code: `LogAlone`, `LogInside` a transaction that later
`Commit`s or `Rollback`s, `LogFails`, the purge (`ReadOld`, `DeleteOld`,
`PurgeLogged`), the verification in its two queries (`StartWalk`, `Walk`). A hash is
named by the row that carries it. The mapping takes `kept` to the numbers of the
committed rows, `top` to the hash in the head and `touched` to whether `Harm` struck:
`TrailKept` states that every step of the chain is a step of the trail or a stutter and,
with it, `ChainLinksUp`.

### Publications

A poll (`poll_watch`) begins with the window it computes from whether there was a check
(`StartSearch`), reads it page by page (`ReadPage`) until a page that is not full, the
count the gazette gives or `MAX_PAGES` (`LastPage`), passes over what has no id or no
date (`Whole` is the rest), and goes on: `Ingest` row by row under the unique key,
`SaveChecked`, `Announce`. An error at any page (`SearchFails`) captures nothing and
saves the moment. A search cut at the last page looks like a complete one, here as in the
code. Decisions (`Confirm` with its task, `Discard`, `Reopen`) start from a row loaded
before; `SaveWatch` writes back a registration loaded before, perhaps, the first check.
The constraint `SearchOrReview` explores the search page by page one consultation at a
time, and consultations that overlap, the review and the change of the registration with
one publication shown: each of them meets the others in the row of one publication. The
day does not turn under a review, which reads no day.

Of the gazette, which is outside, it is assumed that the `count` of an answer is the
number of publications in the window, that a page has as many as it was asked for while
there are, and that what appears during a search is listed after what was already there,
so that pages do not overlap. It may show a publication some days late.

### CaseMonitor

A check loads the case and with it whether this is the first one, asks, stores movement
by movement (`get_or_create` decides who tells), saves the check, tells the person,
marks, tells the rules. Two checks and the removal of the case overlap.

### Documents

Every handler loads the row, works on its copy and saves all of it: readings of the
queue (`Take`, `StartReading`, `FinishReading`, `StopReading`, then `AutoTasks`,
`AutoSave` where the office lets readings confirm themselves), a person's confirmation
(tasks first, then the row), undo, reprocessing. An exception after the save of a reading
writes the row once more, as failed (`FailReading`). `overtaken` marks that a handler loaded
the row while another was between loading and saving; the property says nothing from
there on, and the constraint `BeforeOvertaking` does not go on from such a state.

### CalendarSync

One task and Google's events. A save of the task queues a push; a push loads the task
and its mapping, removes, patches or creates and records the mapping in a later step; a
pull lists what changed since the token and then writes it, telling the echo of a push
by the time stamps. Google, the broker and the connection fail.

### CourtCalendar

The functions of `forense/calendar.py` on ordinals, and the loops of `count` and `back`
one day a step. The properties compare them with the law as the module quotes it,
written over whole years as sets (`ByLaw`), and Easter with the tables of the paschal
moon, for the years 1900 to 2199 those tables are for. `Years` bounds the calendar, and
the loops stop where it ends. `DatesAssumption` is what `datetime.date` guarantees of the
rows, and that the days written in the code are days of every year.

### ContentPieces

Hands load the piece; a patch writes the whole row back (`SavePatch`), whether it changed
the text, the decision, or only the image or the hour; a publication
posts the text it loaded and writes the status on whatever the row has become
(`PostToMeta`, `SavePublish`), `AskVideo`, `GoogleTakes`, `SaveOp` start a video, and a
poll (`LoadPoll`, `PollAnswered`, `FailVideo`, `StoreVideo`, `ChargeVideo`) fails it or
wins the conditional update and charges. A text is its edition, a video its operation.
The constraint `TextOrVideo` explores the text with no video asked for and the video
while the text rests; the two meet in the row a patch writes back, whose video columns
are part of the second.

## The runs

In the composite instances the components share no variable, so each moves (`moves`
says which in a behaviour) while the others rest in one initial state, and TLC explores each completely,
but for what the constraints named above leave out (`TextOrVideo`, `SearchOrReview`,
`BeforeOvertaking`); the processes of the components are the same model values, which is why one symmetry serves all. Passing
runs, with 2 workers each:

| run | instance | shows |
| --- | --- | --- |
| `approval` | 2 events, 2 processes, an event in Google then a message that waits for approval, limit 1; either one event delivered up to twice with a crash, or two events without (`OneDay`) | `NothingLeavesUnapproved`, `DoneIsReal`, `NothingTwice`, `DailyLimitHolds`, `NeverReopened` |
| `live` | 1 event, 2 processes, a message that waits, 1 crash, fair | `RunsEnd` |
| `executions` | 1 execution of AI origin, 2 workers, 2 reviewers, 2 attempts, 1 credit, 1 crash, fair | `ReviewedBeforeSent`, `SuccessIsReal`, `EffectsAccounted`, `PendingEnds` |
| `edits` | 2 overlapping requests and an executor on one rule; 1 action, 2 tokens, 2 helpers and 2 changes of settings of the assistant; 2 imports of 2 folders by 2 workers with 1 mishap; 2 people, 2 offers and 5 turns on a request; 2 writers, 2 purgers, 1 verifier and 1 harm on a chain of 4 | `ShownBeforeUse`, `AssistantKept`, `ImportedOnce`, `RequestKept`, `VerdictIsRight`, `TrailKept` (refinement) |
| `credits` | 2 requests of both flows, 1 member, 2 lots of 2, plan 2, trial 1, quota 3, weights 1 and 3, 2 months; 2 AI requests over 2 providers, limit 2; 3 copies of 2 messages in 2 mailboxes, 1 mishap | `CreditsAddUp`, `QuotaKept`, `DataStaysPrivate`, `MailHandledOnce`, `AICallsKept` |
| `events` | a plan, an add-on and a pack, 4 events, 1 repeated delivery, 2 workers, 1 crash; 2 instalments, 1 expense, 2 charges, 3 pieces of work; 3 references, 4 operations, 1 lost answer; 2 coupons, 2 offices, 1 edit, 1 death | `OnlyWhatWasPaid`, `BooksHold`, `NotesKept`, `CouponsHold`, `BillingKept` |
| `deadlines` | 2 publications, one without an id, each on its page, over 4 days, 2 pollers, 2 reviewers, 1 change of the registration; 2 movements, 2 checks, 1 trouble; 2 handlers of a reading, 5 loads, 3 tasks; a task on 2 dates, 2 events, 1 trouble; 4 years, 2 courts, deadlines of 1, 2, 5 and 15 days from days around each closure, and those refused; 1 thing, 2 tickers, 4 days of which one of rest, 1 change of the thing, 1 death or switching-off; 2 handlers of a suggestion, a snooze of 1 in 4 days, 5 takes, 2 changes of the pattern; 2 hands on a piece, 1 new text, 2 videos, 1 death | `PublicationsHandled`, `NewsToldOnce`, `ConfirmationHolds`, `CalendarsAgree`, `DeadlinesAreRight`, `RemindersKept`, `SuggestionsKept`, `PieceKept` |

Each also checks the types of its modules (`TypeOK`, or `TypesOK` for a composite;
`live` shares `approval`'s). The bounds are enough for what goes wrong to happen: two
processes overlap on one row, an event comes twice, one process dies, a limit is
reached and passed, a lot runs out in the middle of a charge, the month turns under a
charge, an answer is lost, a row is rewritten from a stale copy, a publication falls
out of the window. That every property has a mutant TLC refutes in the same run shows
that the case the property guards is inside the bounds. Larger sets repeat these
cases: no code looks at three rows at once except by summing or filtering them.

`CHECK_DEADLOCK FALSE` is set where the system really may stop: every event told and
answered, every credit asked for, every execution ended.

Violation runs. Each checks a statement the repository makes of itself and finds a
behaviour of the code that contradicts it:

| run | statement | what happens |
| --- | --- | --- |
| `mixed` | "dois cliques ao mesmo tempo não enviam duas vezes" (`engine.py:498`) | a timer (`resume_step`) writes back the steps and status it read before an approval claimed the run; the run is pending again and the second click sends again |
| `rejected` | "a execução não vai acontecer" (`aigov/views.py:154`) | two reviewers both read PENDING_REVIEW; the rejection is accepted and the approved action still runs |
| `booked` | "1ª cobrança e renovações" (`stripe_sync.py:144`) | the first invoice arrives before its session, is ignored with 200 and never booked |
| `trains` | "Dado de cliente nunca vai para quem treina com ele" (`llm.py:11`) | the office's free key of a provider the platform pays for: the choice goes by the platform's account, the call by the office's key |
| `mailboxes` | "cria EmailMessage para cada mensagem nova" (`tasks/tasks.py:65`) | a message to two people is saved for the mailbox read first; `message_id` is unique on the platform |

### Conditional properties

Some properties hold only under a condition that the model tracks, because the code
does not promise more. The condition is part of the property, and says what the code
does not protect:

- `NothingTwice`: internal steps always; other steps while no process died.
  `RunDecisionView` sends inside a transaction; a death after the message rolls the
  claim back. It is checked on a rule whose first step is internal; with a put-off
  message in front, `mixed` violates it, and `NeverReopened` with it. Both are proved
  for the rules on which they hold (`Uniform` below).
- `RunsEnd`, `PendingEnds`: unless a process died. There is no sweep of rows left
  `running` or `PENDING` (`docs/CADS_BACKLOG.md:44` plans one). `EffectsAccounted`: an
  exception after the effect skips the audit.
- `ShownBeforeUse`: unless an edit overlapped another request on the rule.
- `AssistantKept`: `ConfirmedOnce`, after a confirmation always; once, unless two decisions of one
  action overlapped or its tool raised after the effect; `ConnectorKept`, unless
  changes of the settings overlapped.
- `RequestKept`: what is carried out was approved, always; an offer was told, except one
  written over another, or whose note a closed ticket refused or a death cut; the end and
  the waiting, unless handlers crossed, one died, or a status was given by hand.
- `ImportedOnce`: unless two imports ran at once, or a step ended between a document
  and its link; a running import has somebody, unless its message was lost.
- `VerdictIsRight`: unless a purge fell between the two queries of the walk.
- `CreditsAddUp`: the books and the trial unless two charges straddled the turn of
  the month; the plan's month always, for an office that pays.
- `DataStaysPrivate`: while the office's keys and policy are those the request chose
  its providers with, and no free key shadows a paid account (`trains`).
  `AICallsKept`: `GuardHolds`, where a throw of the switch may be undone for 15 seconds by a reader that
  came before it; the limit is passed by the overlap; `BreakerIsRight`, unless two
  requests recorded one provider at once.
- `MailHandledOnce`: everything is triaged and told except what a death or the broker
  cut between two steps nobody repeats.
- `BillingKept` (`BillingAgrees`, `GraceKept`): events handled one at a time and in order; repeated
  deliveries and crashes are included. A pack is booked unless a worker died, an
  invoice if its subscription was known when it came.
- `BooksHold`, `NotesKept`: unless handlers of one receivable or payment overlapped,
  an answer of the emitter was lost, one died half way, or somebody registered by hand.
- `CouponsHold`: uses and days always; the count but for a death, and the price unless
  the discount was edited after a checkout took it; rows written back over newer ones
  excepted.
- `PublicationsHandled`: `NothingMissed`, the publications with an id and a date in the
  window of a poll that ended, as long as the window fits in `MaxPages` pages. Beyond (500
  publications) the search stops without an error, some may be missed and the poll is saved
  as finished all the same (`djen.py:77`). One task (`DeadlinesHaveTasks`) unless two people
  decided at once or somebody reopened.
- `NewsToldOnce`: once always; never history, unless a first check failed.
- `ConfirmationHolds`: unless a handler loaded the row while another was between
  loading and saving. `CalendarsAgree`: at rest, unless a message was lost, access was
  lost, or two workers did it at once.
- `RemindersKept`: once for each occasion always; a run of a thing that is closed only by
  a trigger whose builder does not look again; every due thing, unless somebody touched
  it that day or it was moved after its run.
- `SuggestionsKept`: an accepted suggestion names a rule made for it always; one rule and
  no return within the 60 days, unless handlers crossed.
- `PieceKept`: a text that came to stand under a failed publication, and a video whose
  columns an older copy wrote over, are excepted.

Known disagreements that have no run of their own: two members who both loaded a
publication while it was new both confirm it, and its deadline has two tasks
(`publications/services.py:131`, against the message of line 132 and the 409 of
`tests.py:159`); the first check of a case that
fails, or finds nothing, is saved as a check, so the next one tells the whole history
as news (`research/monitor.py:21`, against the comment of line 13); the discount of a
coupon nobody has been counted for may be changed although checkouts carry it
(`billing/admin_api.py:97`), and their payments are then ignored; an edit of a rule
between the check and the write of a switching-on leaves it on and unsimulated
(`automations/models.py:5`); an exception after the outside call skips the audit
`workflows/tasks.py:513` calls immutable; an edit of a piece of marketing whose
publication failed does not go back to approval (`marketing/api.py:185`) and can be
published; a patch that was under way when a video arrived has it stored and charged a
second time (`marketing/api.py:206`, `media.py:225`); a task whose deadline falls on a
day that is not a business day has no reminder `deadline_soon`, since the day looked at
is a business day counted from today (`automations/engine.py:652`).

Known behaviours that no statement forbids: a search of the gazette is cut at 500
publications and the consultation saved as finished (`djen.py:77`), and a first
consultation that fails is saved as a check, so the next looks three days back and not
seven (`publications/services.py:75`); a run approved while `tick` reads it may be
recorded as expired although it was sent (`engine.py:697`); the timer of a put-off
message is consumed when it fires while the rule is off or before the run is saved
(`engine.py:472-485`); an edit that loaded the rule before the daily limit paused it
switches it on again (`api.py:119`); an approval taken before it commits is held again
(`aigov/views.py:150`); work is delivered on a balance of one credit and its refused
charge is not looked at (`documents/pipeline.py:242`); a late invoice makes a cancelled
office active again (`stripe_sync.py:147`); a repeated emission of a fiscal note whose
answer was lost ends as an error and the next makes a second note (`nfse.py:123`); a
task or event moved after its run is not told of again, its key has no date
(`engine.py:656`); a receivable paid after the tick listed it still fires
(`context.py:134`); a refresh saves the open row it loaded over a decision
(`brain/suggestions.py:176`), and two acceptances at once make two rules (`:214`); a
proposal written over the one that is with the office sends no note, and the office may
approve what it was not told of (`support/customization.py:99`).

### Fairness

- `RuleRuns.FairSpec`: a process that has begun a handler goes on with it (weak
  fairness of its next step, of any process that is not idle: queue workers and
  web processes are preempted, not suspended, and a death is an explicit `Crash`);
  time passes (weak fairness of `GrowOld`); `tick` reads each overdue run again
  and again until it gets one (strong fairness of `ExpireRead`: it is queued every
  15 minutes, and may find all workers busy every single time it is looked at but
  not for ever). Nobody is obliged to approve, to open the office or to switch a
  rule on.
- `ExecutionPipeline.FairSpec`: workers take what is queued and go on, reviewers
  and creators finish a request they began. Nobody is obliged to review.

The other modules state safety only.

## What is proved

For every value of the constants (any number of processes, events, requests,
lots, months, crashes, redeliveries), under the `ASSUME`s of each module: bounds
are naturals, special values are not members of the sets they are apart from, plans and
add-ons are apart, and the sets whose members are counted or added up (lots, months,
coupons, offices, tills, requests, workers of the queue) are finite, as what is stored is.
A theorem about the types of a composite (`MCCredits`, `MCEvents`, `MCEdits`, `MCDeadlines`)
follows from its components' own: while one component moves the others rest, so each
keeps its own specification (`OneMovesAlone`).

**RuleRunsProofs.** `TypeCorrect` (with `ResumePoint`: a timer in hand points at
a step). `ApprovalRequired` (`NothingLeavesUnapproved`) and `RecordIsTruthful`
(`DoneIsReal`) from `RecordInv`. Neither is inductive: rows are overwritten from
copies, so the invariant says of every copy a process holds what it says of the
row (`Sound`: a step done took effect; a step that needs a human and was put off
was put off after the approval of its run), and of every process where it stands
(`Ready`: past the claim its run is approved; at a resume its step is one that
was put off).

Four more results rest on who may be where at once.

- `InternalStepsOnce` from `TurnInv`: a run is executed by the process that inserted it
  and no other (`OneExecutor`); a run without a row has no past (`NotBegun`); a step that
  process has not come to, or has left to a human, was not performed (`StillToCome`);
  only what needs a human waits for one and only messages are put off (`TheseWait`), so
  no resume or decision performs an internal step, and it happens once through any crash.
- `DailyLimitIsKept` from `LimitInv`: every run that went on past the count has its row
  among those counted, and whoever looks at the count inserted its own row first; so of
  any set of runs that passed, the last to look saw all of them.
- `DecidedForGood` (`NeverReopened`) and `NothingHappensTwice` hold for rules `Uniform`:
  either the rule asks for approval, and then all that is put off waits for it, or no
  step is of the kind that waits for one by itself. `mixed` is the rule that is neither,
  and refutes both. `PureInv`: under `Uniform` no run has a step that waits for approval
  and one that waits for the hour, in its row or in any copy (`RowPure`, `CopyPure`), so
  a resume and a decision are never at one run, and the stale write that `mixed` shows
  cannot meet a claim. `OnceInv`: while nobody died, a step that was put off has a timer
  or an effect and never both, and whoever is about to perform a step knows it has
  neither (`PendingUnused`, `ClaimedUnused`, `ResumedUnused`).

**RuleConfigProofs.** `TypeCorrect`; `HashesAreSimulated` from `Seen`: hashes in
copies were simulated too, which is why writing stale rows back is harmless to
it. `OnMeansSimulated`, `RunsWhatWasShown` and with both `NothingUnseen`
(`ShownBeforeUse`) from `ApartInv`: while no edit has
overlapped, an edit in hand is alone (`EditsAlone`), every copy agrees with the
row in what its write assumes (`LoadedIsCurrent`), and executors hold simulated
configurations.

**ExecutionPipelineProofs.** `TypeCorrect`, which includes the bound on attempts.
`NothingLeavesUnreviewed` from `GateInv`: a row that says approved and a worker
past the gate both mean an approval was accepted, and accepted decisions are never
forgotten. `SuccessTookEffect` from `EffectInv`: a worker about to write SUCCESS
has had its effect. `EffectsAreAccounted` (`EffectsAccounted`) from `PaidInv` and
`AuditInv`: what left and may still leave for a log is bounded by what was charged for
it, counted as the set `Budget` of the tries that workers past the charge have left; and
while nobody died, a log that says SUCCESS is audited, or a worker is between the success
and its audit.

**CreditsProofs.**

- `QuotaNeverExceeded` from `Control /\ Locked /\ Quotas`: a request about to finish
  holds the row of its month, so what it decided still fits when it writes.
- `CreditsAreKept` (`CreditsAddUp`) from `Ledger`: what was taken from the plan and from
  the lots, less what was bought, is what was paid (`Balance`); who is about to finish
  took no more than the month has (`PlanFits`), than the lots have (`AloneOnLots`) and
  than a trial allows (`PackageFits`); while the office is on trial every request loaded
  it so (`LoadedOnTrial`). `Total` adds a column up as a
  recursive function over the subsets of its domain; that it exists, is unique and
  changes by what one row changes is proved first, by an induction written with sets (the
  least element of a set of naturals), which needs no theorem with an operator parameter.
- `ClientDataStaysPrivate` (`DataStaysPrivate`) and `AICallsAreGuarded` (`AICallsKept`)
  from `AiInv`: the providers a request chose stay usable until the office changes
  something (`ChosenOK`); the kill switch that was thrown is off for all but who read it
  before (`SwitchOK`); who is inside the guard counts towards the limit (`Inside`,
  `Ceiling`, which bounds the overrun by the number of requests); while records of a
  provider have not overlapped, one request at most is about to record it and the counter
  it read is the run of failures (`BreakerOK`).
- `MailsAreHandledOnce` (`MailHandledOnce`) from `MailInv`: a message has one row
  (`OneRow`), and the row is in one place: with the reader that saved it (`ReaderOK`),
  queued (`QueueOK`), with one triager, or done (`PayOK`, `NoneLeft`).
- `CreditsTypesOK` (`TypesOK` of `MCCredits`): the types of the three; that what is lost
  is never negative is `PlanFits` again: a request takes from the plan no more than its amount.

**SubscriptionsProofs.**

- `TypeCorrect` and `NothingUnpaid` (`OnlyWhatWasPaid`) from `Inv`: what a worker loaded
  was paid (`Loaded`), since renewals write whole rows back and failures mark the row
  whatever it has become; an event in hand is of the kind its handler expects (`InHand`);
  what Stripe told stays told.
- `BillingIsKept` (`BillingKept`: `BillingAgrees` in every state, `GraceKept` of every step)
  from `BillInv`. Stripe keeps the state it told last of a subscription, and a payment fails
  only while it is on (`StripeSays`). While events are handled one at a time and in order
  (`OneAtATime`), the one handler at work has the row as it is, and the office stands as the
  events before the latest say, or already as the latest says (`Follows`, with
  `PlanMirrored` and `AddonMirrored` of a prefix of the events), which it does once that one
  was answered. Handling an event again changes nothing, which is why repeated deliveries and
  crashes are harmless. A lot that was given is in the book, with who is about to book it, or
  somebody died (`PacksBooked`).
- `NotesAreKept` (`NotesKept`) from `FiscalInv`: what a clerk loaded is the row while
  nobody crossed it (`HeldOK`, `AloneOK`), a note that lives at the emitter is the one of
  the row or in the hands of who posted it (`LivingOK`), one that is cancelled in the row
  is cancelled there (`CanceledOK`), and the client is sent what exists (`MailedOK`).
- `BooksAreKept` (`BooksHold`) from `PfInv`: what the gateway posted is what the state of
  each charge tells (`PostedOK`); two handlers are at one receivable only if it is marked as
  raced (`AloneOn`); else a note and a charge that were asked are in the row or with the
  desk that asked (`NotesOK`, `ChargesOK`), an agreement that is done has no open
  instalment (`AgreementOK`), and a receivable nobody decided by hand is in the state its
  handled events make due (`BooksOK`, with `Handled` and `Due`).
- `CouponsAreKept` (`CouponsHold`) from `CouponsInv`: who gives the days of a coupon made
  the row of its use after reading how many the office had (`DaysOf`), so no row or copy
  of the office has more days than uses (`DaysOK`); the count and what is still to be
  counted make the uses, but for the dead (`CountOK`); an open session has the discount of
  its coupon, unless that was changed (`MirrorOK`, `MirrorOf`).
- `EventsTypesOK` (`TypesOK` of `MCEvents`): the types of the four.

**AuditChainProofs.** `AuditTypeCorrect`; `VerdictCorrect` (`VerdictIsRight`) and
`TrailCorrect` (`TrailKept`: the chain implements `AuditTrail`, step by step, for any
number of writers, purges and walks) from `IInv`. Rows between the last checkpoint and the
head link up, those of an open transaction after the committed ones (`Linked`,
`PendingLinked`); a walk begins at a row whose predecessor a checkpoint has
(`WalksStart`, `CheckpointsTop`), and the last row a purge read is there, purged, or
changed from outside (`LastsKnown`). The lock of the head is why an append sees the last committed row.

**EditsProofs.** `AssistantObeys` (`AssistantKept`): an action that was performed was
confirmed by its person, and a second effect needs two decisions at once or a tool that
raised (`ActionOK`); the switch and the tokens in copies are the current ones while
changes have not overlapped (`SwitchOK`, `RateOK`). `RequestObeys` (`RequestKept`): a row
that is approved has the approval of its own offer, in the row and in every copy
(`RowOK`, `HandOK`), which is why stale writes do not break it; every offer has a note, a
handler about to write it, or a reason (`Accounted`); `CalmOK` says, while nothing
overlapped, what the one handler at work knows. `ImportingIsSafe` (`ImportedOnce`) from
`ImInv`: what the row of an import, or the worker that carries it on, says was done is in
the books (`Done` in `ImportsOK` and `StepsOK`) and stays there, whoever writes beside it;
a document without its link is in the hands of a worker (`LinksOK`, by cardinality); while
imports did not overlap, the one worker knows every contact and every document of the
client at hand (`OneOK`). A worker makes one contact of a name at most (`OwnersOK`), so
there are no more contacts than names and workers, which bounds the arrays of the model.
Stating it for any folders showed that "one contact matches each folder" is too strong:
of the folders (n1, no number), (n2, X), (n1, X) the third is of the contact with the
number X and has the name of the first. What holds, and what `NothingDoubled` says now, is
that no two contacts match each other. `EditsTypesOK` (`TypesOK` of `MCEdits`): that no
import has more messages in the queue than there are requests rests on `LoadsOK`, for a
message is what became of a request that started the import: the messages, the workers at it
and the requests that are starting it, counted together, are never more than the requests,
because nobody asks for an import that is not a preview any more.

**DeadlinesProofs.** One invariant for each component.

- `NothingUnhandled` (`PublicationsHandled`) from `PubInv`: a search that goes on has read
  full pages of its window (`PageOK`), so one that stops has read all of it if it fits in
  the pages (the lemma `PageRead`, on cardinalities), and what a search has to find is
  captured or still in hand (`SearchOK`) until the check is saved; what was captured is
  announced by the one that captured it (`BoxOK`, `CreatedOK`), and a decision in hand is
  alone while nobody reopened (`ReviewOK`). The days of polls do not lie ahead (`DaysOK`).
- `RemindersObeyed` (`RemindersKept`) from `TrgInv`: a job carries the key of the thing as
  it was listed (`JobsOK`), a run has fired its key (`RunsOK`), and while the rule stays
  on everything due is listed by a tick of the slot or has fired (`SweepOK`).
- `NewsObeyed` (`NewsToldOnce`) from `MonInv`: a check that is not the first has the
  history behind it (`ChecksOK`, `HistoryOK`), two checks hold different movements
  (`ChecksApart`), and what was told was stored (`ToldOK`, `HeardOK`).
- `SuggestionsObeyed` (`SuggestionsKept`) from `SugInv`: copies that will be written name
  no rule (`CopiesOpen`), and without crossing a handler is alone with the row
  (`AloneOK`).
- `PieceObeyed` (`PieceKept`) from `PieceInv`: texts in copies were approved when their
  status says so (`TextsOK`), the conditional update of a video charges once (`OpsOK`,
  `PaidOK`), and a copy is fresh or the row was written over (`FreshOK`).
- `ConfirmationObeyed` (`ConfirmationHolds`) from `DocInv`: while nobody overtook, a
  handler that saves holds the row as it is (`HeldOK`), with its tasks (`AgendaOK`).
- `EventsAreKept` (`CalendarsAgree`) from `CsInv`: who creates the event is alone
  (`CreatorsOK`) and what it pushes is what the task says, or a message is still to come
  (`PushOK`, `DoneOK`); what the person changed in Google is later than the token and still
  to be pulled, or was seen by the pull under way, or both agree (`DateOK`); the event has
  the date chosen last, and so has the task while a push is due (`WishOK`). Writing this
  proof showed that the step of the model in which a patch finds its event deleted and
  creates it again while another worker creates one too was disabled by mistake; it is
  enabled now, and the property and the theorem hold with it.
- `CalendarObeyed` (`DeadlinesAreRight`), for any years, courts, holidays, suspensions and
  lengths: an ordinal and a date determine each other (`FromOrdinal`, `OneDate`), so that
  the reasons found day by day are the rules over whole years (`BusinessRight`, from one
  lemma for each rule); from `CcInv`, the loop has counted the business days since the
  publication and skipped the others (`CountingOK`), and on the way back one business day
  more has to come than are left after the publication (`WayBack`). Easter is a Sunday
  in any year (`EasterTerms`, from the formula modulo 7), and for three centuries that of the
  tables (`EasterHolds`). Stating it for any rows showed that the rule for a holiday of
  every year was wrong in the model for one on 29 February: it fell on 1 March of the
  years without that day. `RowDays` leaves those years out now, as the code does.
- `DeadlinesTypesOK` (`TypesOK` of `MCDeadlines`): the types of the eight.

Only model-checked:

- liveness (`RunsEnd`, `PendingEnds`): out of the prover's reach;
- the refutations.

## What is left out, and why

- Contents: messages, templates, payloads, amounts of money, descriptions. Steps
  and actions have a kind and an outcome. The check of amounts in
  `stripe_sync.py` is left out: Stripe charges what the session said.
- `RuleRuns`: an event is the queueing of a key (`emit`); the loops of `tick` that produce
  keys are in `Triggers`; conditions are a nondeterministic choice.
- `Triggers`: what the day of a trigger is called in its configuration, and the triggers
  that are not of time. The hour of the rule is one for all.
- `Suggestions`: what the detectors look for. `Assistant`: undoing an action within 24
  hours.
- `EmailIntake`: `process_email`, which only a script that seeds data calls.
- `Credits`: lots that expire by date; an office that is paused starts no request.
- `Subscriptions`: promotions (they are in `Coupons`), period ends, add-ons granted
  as a courtesy, and what a status gives (`entitlements.py`), which depends on
  dates.
- Tenancy: every module is about one office. Handlers find rows by office, and
  offices share only workers and the head of the audit chain.
