# ChamberForge: formal models

TLA+ models of the parts of ChamberForge whose correctness depends on order:
concurrent calls, retries, crashes, clocks that disagree, rows read by one
statement and written by another, timers and replies that outlive the screen
they were started from. Each module is written from the code named in
its header; `PROJECT.json` maps every definition to its source lines.

    tlc -workers 2 -config MCPartnerCalls.cfg MCPartnerCalls     # a run
    tlapm PartnerCalls_proofs.tla                                # a proof

Paths below are under `src/backend/app/`, those of pages under
`src/frontend/src/app/`, unless they say otherwise.

## 1. The system

A FastAPI backend (several worker processes, several instances behind a load
balancer) and a Next.js client over PostgreSQL and Redis, with Celery workers
and a beat schedule, the Anthropic API for its agents, and two telephone/media
partners, VoiceForge and VisionAudioForge. Requests pass a middleware stack
(`main.py`: tenant, audit, performance, logging, rate limiter, headers, gzip).

| Component | State | Operations | What is hard | What makes it correct | Modelled |
|---|---|---|---|---|---|
| Partner calls: `services/integrations/_resilience.py`, the two clients | one breaker per partner and process; requests on the wire | admit, send, retry, give up, record success/failure, cooldown | callers share the breaker across awaits; a timeout says nothing about whether the partner acted | a telephone call is placed at most once; the answer says truly whether anything was sent; every caller is answered | `PartnerCalls` |
| Voice flows: `voiceforge_crisis.py`, `voiceforge_secure_comms.py` | escalations and deliveries in process memory | ring contacts in turn; verify, then speak | they share the breaker with every other call; the process may die between contacts | nothing is spoken to a recipient the partner did not verify, or said it was unsure of; nobody is reported called who was not | `VoiceCalls` |
| AI spend ceiling: `services/backbone/budget_guard.py`, `services/agents/base_agent.py` | a row per workspace, the usage log | check (create, roll over, compare), call the provider, record | check and record are separate transactions; the month turns between them | spending stops near the ceiling; what is spent is logged and metered; last month's spend refuses nobody | `BudgetGuard` |
| Audit trail: `middleware/audit.py`, `services/backbone/audit_*.py`, `src/frontend/src/lib/audit.ts` | an append-only table of hash-chained rows | link to the tip, commit, verify | writers read one tip; timestamps come from several clocks | verification names what was edited and nothing else | `AuditChain` |
| Request rate limiter: `middleware/rate_limiter.py` | sorted sets in Redis, windows and a connection state per instance | hit, fail over, reconnect, refuse | instances hit one window with times out of order; Redis fails, or acts and its reply is lost | the limit holds over all instances; infrastructure refuses nobody; degraded is not unlimited | `RateLimiter` |
| Retention and legal holds: `services/backbone/records_governance.py`, `legal_hold.py`, `jobs/tasks/retention_tasks.py`, `api/v1/admin.py` | policies, holds in a table and in each server's memory, the records | set a policy, place and release a hold, sweep | holds placed, released or lost during a sweep; sweeps from two processes; a table that refuses deletion | a sweep deletes nothing that was held from before it began | `RetentionSweep` |
| Drip sequences: `services/backbone/email_drip.py`, `jobs/tasks/drip_tasks.py` | a row per user and sequence | enrol, advance, stop, process what is due | read-modify-write from requests and workers, tasks delivered again | each step once and in order; a stopped sequence stays stopped; the first email is not lost | `Drip` |
| Template versions: `services/backbone/template_versioning.py` | version rows with an active flag | create, roll back | bulk updates that wait for each other's rows and do not see rows inserted meanwhile | one active version, and never none | `TemplateVersions` |
| Discovery: `discover/page.tsx`, `api/discover/problems/route.ts` | the page shown, requests and scans under way | page, change the page size, filter, scan | replies in any order; a scan that outlives its dialog | the cards, their label and the page belong together; a complete scan has results | `Discover` |
| Crisis console: `build/crisis/page.tsx`, `services/backbone/crisis_console.py` | incidents with a timeline in one JSON column; the detail shown | add an event, resolve, lock down, look | read, copy, write without a lock; details that arrive late | an acknowledged event is lost to an overlap at most, and none is doubled or out of order; the screen shows a state there was | `Crisis` |
| Playbook library: `playbooks/page.tsx`, `api/playbooks/[id]/red-team/route.ts` | results, the audit in progress, the drawer | audit, tick issues, run again | audits that overlap share one slot | ready means activatable; a spinner means an audit, and a result is of its own playbook | `Playbooks` |
| Fulfilment: `deliver/page.tsx` | selection, checklists, drawers, a delayed "delivered" | select, tick, deliver | a timer that closes whatever drawer is open | a header stands for the rows on screen; one marking per opening | `Deliver` |
| Composer: `build/composer/page.tsx`, `api/v1/playbooks.py`, `services/backbone/playbook_engine.py` | the selection; activation rows | activate, compose, make an offer | three calls that commit one by one; check-then-insert | the offer is the composition; no playbook twice | `Composer` |
| Exports: `exports/page.tsx` | the modal, generators, history and selection | configure, generate, download, select | intervals and timers that closing does not clear | success is announced once its file was generated | `Exports` |
| Decision room: `clients/[id]/decision-room/page.tsx` | forms, toasts and their timers | move the stage, schedule, log a decision | a form edited or reopened while it is sent; timers that take newer toasts down | one decision is posted; nothing typed is erased unsent | `DecisionRoom` |
| Partner vetting: `partners/page.tsx` | step and ticks, kept while closed | tick, next, back, complete, close | the wizard reopens where it was | vetted means every step ticked | `Vetting`, `GatedSteps` |
| Onboarding: `onboarding/page.tsx` | step, answers, the scan's interval | next, back, skip, run the scan | the interval outlives its step | one interval at most; gates hold behind the operator | `Onboarding` |
| Risk queue: `risk-queue/page.tsx` | statuses, tab, rule, the drawer's copy | filter, open, decide | three surfaces decide on one row | the drawer is current; a decision is final | `RiskQueue` |
| Automation: `automation/page.tsx` | rules, the builder's fields | build, start from a template, toggle, delete | a builder that is abandoned and reopened | one rule per number; a builder starts clean | `Automation` |
| Erasure: `services/backbone/deletion_service.py` | requests | request, execute | four of its tables exist in no migration | an executed request ends | no: every execution fails at its first statement |
| Job queue and schedule: `jobs/` | the broker's queue, task results | dispatch, deliver again, retry, fan out | late acknowledgement, retries of finished work | a sweep covers everybody | where a task keeps state: `RetentionSweep`, `Drip` |
| Email and notifications: `email_service.py`, `notifications.py` | logs | send, log, list | logged after sending | no message twice | no |
| Offers, reviews, consent, other JSON columns: `api/v1/offers.py`, `risk_review_queue.py`, `consent_ledger.py`, `household_graph.py`, `mfa_service.py` | a status or a list per row | update, approve, grant, append | check-then-write of one row | a decision is not undone by a stale one | no: the pattern is `Crisis` and `Composer` |
| Identity and tenant scope: `core/identity.py`, `db/scope.py`, `middleware/tenant.py` | a context variable per request | resolve, bind, filter | none across requests | a query stays in its workspace | no: no interleaving to explore |
| Billing: `stripe_service.py` | mock dictionaries; otherwise Stripe's | pass-through; webhook summaries | the handlers change nothing | - | no: no state |
| Caches and search: `core/cache.py`, `search_service.py` | derived copies | get, set, index | the response cache decorates no endpoint | - | no |
| Agents, orchestration, guardrails | text | compose, score, screen | - | - | metering only, in `BudgetGuard` |
| Scoring, ontology, playbooks, rules | rows written once | pure computation | arithmetic, graph walks | agreement with a reference definition | no: nothing to interleave |
| Client lifecycle, content, platform plumbing | rows or dictionaries written by one call | request-scoped | - | - | no |
| The other pages and routes of `src/frontend/` | a tab, a filter, a drawer; seed data and templates | show, filter, compute text | - | - | no: nothing outlives a click |

How they interact: the voice flows and every other partner feature go through
the partner clients and so through one breaker per partner; agent calls go
through the budget guard; every mutating request ends in the audit trail, whose
rows the retention sweep meets and may not delete; the limiter runs before all
of them; jobs call the same services from other processes. Modules compose where
parts interact: `VoiceCalls` EXTENDS `PartnerCalls`, which implements
`PartnerContract`; `Crisis`, `Composer`, `Discover` and `Playbooks` hold a page
and the handlers it reaches in one module; `Vetting` implements `GatedSteps`.
The others share no state: no page keeps any when another is opened, and no two
of the services write one table.

## 2. The modules

### PartnerContract, PartnerCalls, PartnerProbes

`PartnerCalls` is one process, one partner. Between two `await`s a coroutine is
not interrupted, so a step is the code from one `await` to the next:
`StartAdmitted` is `before_request` and the first send, `Reply` and
`AttemptFails` (`BackOff`, `GiveUp`) the code after `await operation()`, `Wake`
the code after `await asyncio.sleep()`. `wire` holds attempts the partner has
not seen yet; it may act on one long after the caller gave up, or never.
`Restart` is a worker that is replaced: its breaker starts afresh and its calls
are lost, their requests are not. `elapsed` stands for `time.monotonic() -
_opened_at` up to the cooldown. Payloads are reduced to "ok" and "contract" (a
reply the schema refuses).

`PartnerContract` is what callers rely on, without breaker, retries or clock:
how often the partner may perform a call, and what each answer says of that.
`ImplementsContract` is the refinement, checked by `partner` and proved.
`PartnerProbes` adds a history variable that tells probes from other calls.

### VoiceCalls

An escalation rings its contacts one after the other, each ring a call of
`PartnerCalls`; a delivery asks the partner to verify its recipient, then calls.
`ProcessDies` takes `_escalations` and every running task with it.

What the partner says of a recipient is one of `Identities`. The code compares
a confidence with its threshold only when the answer holds a number
(`voiceforge_secure_comms.py:105`), and the answer need not
(`_schemas.py:145`): a recipient verified with no confidence stated is called,
like one verified with enough. `Disclosable` has both. The comment at lines
29-32, that an answer the partner is unsure about is not a verification, is
therefore true of an unsureness the partner states and of no other, and
`SpokenOnlyToVerified` claims no more.

### BudgetGuard

One workspace. Each database statement that another session can come between is
a step: the check reads the row (`CheckFindsNoRow`, `CheckFindsStaleRow`,
`CheckFindsRow`), may insert it (`CheckInserts`), roll it over
(`CheckRollsOver`) and reads it again (`CheckRefreshes`) before it decides;
`record` reads, may roll over, and adds in SQL. `zeroes` is a detail of the ORM
that matters: its UPDATE names only columns whose value changed, so a rollover
that read a zero does not write one.

### AuditChain

An entry is one mutating request: answered, then linked to the tip it reads
(`Links`), then committed (`Commits`), in a background thread of some worker.
sha256 has no collisions here: `prev[e]` is the entry whose hash `e` carries,
and a recomputed hash differs exactly when the row was edited. `Alters` and
`Removes` are a table restored from a doctored copy; the live one's trigger
refuses both. `Breaks` is `verify_chain`. The frontend's trail
(`src/frontend/src/lib/audit.ts`) is the same algorithm per operator, and is
covered by the same module with operators for trails.

### RateLimiter

Several instances. `dispatch` does not await before its hits, so an instance
works on one request at a time; between the reading of the time (`Arrives`), the
attempt to connect (`Connects`), and a hit, other instances, Redis and the clock
move. `HitsShared` is the Lua script, which is atomic; `FailsOver` is the
exception path, with Redis down or with a reply that was lost after the script
ran; `HitsLocal` is an instance with no client. A request stands for its uuid,
the member the script adds. The sweep of the local windows, and the expiry of
Redis keys, drop only what the next hit would prune.

### The pages of the console

Eleven modules, one per page with the handlers it reaches, and a contract. A page's
state is its `useState` cells, an action is one event handler, one timer or
interval firing, or one reply arriving, with every state change it makes;
what is drawn disabled or not at all is a guard (`CanNext`, `FixOffered`,
`Uncovered`). Requests, intervals and timers that are under way are sets of
records with a slot, because the code keeps no handle to most of them: closing
a modal or starting another leaves them where they are.

- `Discover`: `requests` and `scans` hold what was captured when each was sent;
  `Answered` shows whatever reply comes, whoever asked last. `Rows(view)` is the
  slice the route returns; it clamps neither page nor limit, so beyond the end
  it is empty and before the start it counts from the end. The filters and the
  search are the page's own: `ChangeFilter` goes to page 1 and sends nothing
  unless the page was another, and `Cards` are the rows of the reply that pass.
  `newest` and `behind` are history: the request sent last, and whether it was
  lost, overtaken, or for a page the operator had left, as a scan's may be.
- `Crisis`: handlers from this page and from other sessions go through `Begin`,
  `Read`, `Commit` (append to the copy, set the status if it changed) or `Fail`;
  `asked` are details on their way to the page. An entry is a number, given at
  its commit; the history `written` notes for each how many were committed
  when its handler read, so that `Accounts` can say what an entry that is
  missing from a timeline was lost to.
- `Playbooks`: an audit is `Audit`, `AuditEnds`, and for the drawer's re-run
  `SecondAnswer`, which the code asks for and reads separately
  (`playbooks/page.tsx:905`). During the second no spinner shows and the button
  can start the audit again, as it can once another audit has cleared the slot,
  so a playbook may be audited twice at once. `Verdict` is the route's scoring
  over the dimensions a playbook fails.
- `Deliver`: the checklist is drawn from the seeded count until the first tick
  (`Boxes`), and the first tick starts from an empty one, not from what was
  drawn; `DeliveredTimer` is the one-second timer of "Mark delivered".
- `Composer`: activation is checked and inserted by separate steps
  (`CheckActivated`, `ActivatePlaybook`), for the page and for other sessions;
  `CustomizePlaybook` and `ActivateToOffer` are the calls that follow. A call
  may fail, or succeed and its answer be lost.
- `Exports`: `generators` are the intervals and the timers that follow them.
- `DecisionRoom`: the forms, the requests that go to routes outside the
  repository, the toasts and their timers.
- `Vetting` is the wizard of `partners/page.tsx`; `GatedSteps` is what such a
  wizard promises: steps walked one at a time, each left through its gate,
  completion only with every gate open. `VettingIsGated` is the refinement,
  with `at <- vetStep + 1`, checked and proved.
- `Onboarding`: six steps, three gates, a Skip, and the interval of the scan.
- `RiskQueue`: the rows, tab, rule, and the drawer's copy of a row.
- `Automation`: the rule list and a builder whose fields survive its closing.

### RetentionSweep

One workspace. `SweepStarts` is `execute_retention` in the worker or in a server;
for each class `ReadsRows` is the query of the expired rows with that of the
holds in the table, `ReadsMemory` the loop over the process's own holds, and
`Commits` the deletes and the single commit. `holds` are pairs of a place (the
table, or the memory of one process) and a record; at most one hold per place
and record. The worker's memory holds nothing, because no endpoint runs in it.
`Restart` empties the memory of a process. The audit class has the trigger of
its migration: a sweep that would delete from it fails as a whole.

### Drip

One user and one sequence. A session reads the row at `EnrolReads`,
`AdvanceReads` or `StopReads` and writes the columns it assigned at its commit;
`SessionFails` is a task that dies and may be delivered again. `reported` are the
steps `advance_drip` reported sent; it sends nothing itself. The processor of due
rows calls the same `advance` as the administrators' endpoint and is the same
session kind here. `BecomesDue` is the passing of the days between steps.

### TemplateVersions

One template. A writer's UPDATE takes its rows at `UpdateStarts`, waits for
whoever holds one of them, and goes through at `UpdateEnds`, when it looks at
the rows it waited for again: READ COMMITTED, as in the engine the code creates.
`overtaken` is the history variable for the overlaps `OneActiveVersion` excludes.

## 3. The runs

Every run is one `.cfg`; the passing ones take between a few seconds and three
minutes (`console_data`, half a million states). Deadlock checking is off in all of
them because the systems really stop: requests, calls and entries are made once
each, modals close, and then nothing is left to do.

| Run | Constants | What it shows |
|---|---|---|
| `partner` | 4 calls (2 repeatable), one client without a key, 2 attempts, threshold 2, cooldown 2 ticks, restarts | `SideEffectAtMostOnce`, `AnswerIsHonest`, `OpenMeansManyFailed`, `CallsReturn`, `BreakerLetsAProbeThrough`, `ImplementsContract` |
| `partner_reopens` | 3 calls, threshold 1 | violated: `FailedProbeReopens` |
| `voice` | 1 escalation of 3 contacts, 1 delivery, threshold 2 | `SpokenOnlyToVerified`, `NeverOverReports`, `EscalationCompletes` |
| `voice_not_placed` | the same | violated: `NotPlacedWasNotRung` |
| `budget` | 3 calls of cost 2, 1, 2 under a ceiling of 2, with and without a row, faults, one turn of the month | `OvershootBounded`, `MeteredIsLogged`, `RefusedForThisMonth`, `AnsweredIsMetered` |
| `budget_falls` | the same, no faults, two turns | violated: `MeterFallsOnlyAtRollover` |
| `audit` | 5 entries in 2 trails, one older than the chain, clocks of 2 values, 1 row edited or removed, faults | `NamesExactlyTheEdited`, `RemovalInsideIsNoticed`, `AnsweredIsOnRecord` |
| `audit_fork` | 2 entries | violated: `BreakMeansTampering` |
| `rate_limiter` | 3 requests of 2 clients of one workspace, 2 instances, window 1, clock 0..2, 1 outage, any restarts | `SharedWindowHolds`, `RefusedOnlyWhenFull`, `AdmittedIsCounted` |
| `rate_pinned` | the same | violated: `SharedWindowResumes` |
| `console_forms` | six pages, one open per behaviour: 5 vetting steps, a scan of 2 ticks, 3 rules, 3 records of 2 types, 2 generators, 3 reviews, 2 toasts at once | `VettingIsGated`, `GatesHoldBehind`, `ScanFinishes`, `OneRulePerNumber`, `BuilderStartsClean`, `AnnouncedWhenGenerated`, `DecisionIsFinal`, `ErasesWhatItSent`, `FormsTypeOK` |
| `console_data` | five pages and three services, one open per behaviour: 2 requests and a scan, or 2 audits, handlers, sessions or sweeps at once, 3 problems on pages of 2 and of 4, asked for up to 1 page beyond either end, with and without a filter, a timeline no handler reads once 2 events were added, checklists of 2 items, 3 versions, 2 records of 2 classes with 1 server and the worker, 3 drip steps | `LabelCountsRows`, `TimelineKeepsAcknowledged`, `AuditsAnswerTheirOwn`, `ReadyIsActivatable`, `MarkedOncePerOpening`, `OffersAreSound`, `OneActiveVersion`, `HoldsStopSweeps`, `CountsAreExact`, `EachStepOnce`, `UnsentIsDue`, `DataTypeOK` |

The runs check what needs checking on an instance; type invariants and
properties that section 5 proves for every value of the constants are repeated
in a run only where they carry a hazard. Each property of a passing run has a
mutant of the code, an operator whose name is the mutated one's and a suffix,
which makes it fail.

Why the bounds are enough. The hazards are between two, sometimes three actors,
and every bound leaves room for the worst of them: two callers to open a
breaker, one more to meet it open or half open, and one with a request late on
the wire; two calls that overlap at the ceiling and a third that meets their
rollover; an entry before, between and after a removed one, plus a fork; two
instances on one bucket and a third request that shares only the workspace; two
replies, timers or sessions that can arrive in either order, over a list whose
last page is shorter than the others and a page size that holds all of it, with
a filter that drops a card of one page and none of the other, two entries of
which the second was read for before the first was committed, a scan that asks
for a page the operator has left, a sequence with a first, a middle and a last
step, a class that can be deleted and one that cannot. Limits of 1 and 2 put
every counter at its boundary. What a larger instance could add, for the
properties of section 5, the proofs exclude.

### Conditions on the properties

Several properties hold only under a condition, kept in a history variable, and
each condition is a weakness of the code that the property locates: outside it
the property fails.

| Property | Holds unless |
|---|---|
| `LabelCountsRows` | the request sent last was lost, overtaken by the reply to an older one, or, after a scan, was for a page the operator had left (`behind`): the label then counts another page than the cards are of; or hurried clicks on Previous asked for a page before the first, which the route counts from the end |
| `MarkedOncePerOpening` | a drawer is opened over a running timer (`reopened`) |
| `AnnouncedWhenGenerated` | the modal is changed or reopened over a generator (`overlapped`): a file nobody generated is announced |
| `ErasesWhatItSent` | the form is edited while it is saved (`retyped`) |
| `OneRulePerNumber` | a rule other than the newest is deleted (`gap`): two rules then share a number |
| `OffersAreSound` | two activations of one playbook are checked at once (`raced`), for its second half |
| `OneActiveVersion` | a creation overlaps with a writer (`overtaken`); an active version exists even then |
| `CountsAreExact` | two sweeps overlap (`overlapped`): both report the same records |
| `EachStepOnce` | a session commits while another has read (`crossing`): a step is reported sent twice, or the next one early |

### What the failing runs show

1. `FailedProbeReopens`: a failed probe adds to `_failures` but leaves
   `_opened_at`, so the state stays half open and the partner is never failed
   fast again until some call succeeds.
2. `NotPlacedWasNotRung`: `voiceforge_crisis.py` says a degraded result means
   "no call was placed". A lost reply is a degraded result too.
3. `MeterFallsOnlyAtRollover`: a rollover is a read and an unconditional UPDATE;
   two of them around an increment erase it.
4. `BreakMeansTampering`: `audit_chain.py` reports a mismatch as "an entry was
   altered or removed". Two writers that read the same tip make one as well.
5. `SharedWindowResumes`: `rate_limiter.py` promises to "re-check on the next
   one rather than pinning to memory". `_get_redis` sets `_redis_ready` before
   it pings, so one failed reconnection pins the instance for its lifetime.

Met while modelling, and not given a run of their own:

- `_resilience.py:23-24` says the breaker "lets exactly one request through
  after a cooldown"; `before_request` (line 124) admits every caller while the
  state is half open. Nothing marks the probe as taken.
- `budget_guard.py:26-27` bounds the overshoot by one invocation; with
  overlapping calls it is one per call, which is what `OvershootBounded` says.
- `base_agent.py:231` answers `budget_unavailable` ("could not be reached") to
  the loser of a race to insert the row; line 262 counts a response whose usage
  cannot be read as zero tokens.
- `audit_chain.py:140` calls timestamps within a trail a total order; a fork may
  have ties.
- `audit_chain.py:8-9` says removal is detectable; rows cut from either end of a
  trail are not missed. `RemovalInsideIsNoticed` is what does hold.
- `audit_chain.py:186-187` speaks of one edit breaking every later entry;
  verification names the edited row only, which `NamesExactlyTheEdited` states.
- `middleware/audit.py:1` logs every mutation; a handler that raises, also one
  that committed first (line 168), leaves no entry (`Raises`).
- `records_governance.py`: one expired audit row in a class with automatic
  deletion stops the deletion of every class, every week (`AllClassesOrNone`
  says that it is everything or nothing). Holds placed through the admin
  endpoint are in one server's memory and do not reach the weekly sweep, which
  runs in the worker; `HoldsStopSweeps` says which holds do.
- `voiceforge_secure_comms.py:29-32`: the comment promises more than the
  comparison of line 105 does, as section 2 says of `Disclosable`.
- `discover/page.tsx`: a scan that fails shows numbers as a scan that succeeds.
  Previous and Next add to the page asked for and are enabled by the reply on
  screen, so hurried clicks leave the list at either end.
- `deliver/page.tsx`: the first click on a checklist undoes the ticks it was
  drawn with; `TicksAreKept` says that no later one does.
- `build/crisis/page.tsx`: two handlers of one incident that overlap keep one
  entry of the two; `Accounts` says so of every entry that is missing.
- `playbooks/page.tsx:910` announces a playbook as ready to activate also when
  it is listed as failed, or when the answer on record is that of a service that
  could not be reached; then its card still asks for a fix. The "Inline editor
  not yet wired" toast of line 864 has no timer and stays until another comes.
  The page `playbooks/[slug]/activate` posts no body to an endpoint that needs
  one and is refused.
- `decision-room/page.tsx:511` announces "Decision logged to client history"
  whatever became of the request.
- `onboarding/page.tsx`: the checklist says "First AI scan completed" also after
  Skip. `risk-queue/page.tsx`: the note of "Approve with Notes" is not stored.
  `build/crisis/page.tsx` listens for "incident-update" events nothing publishes.
- Several routers pass UUID values to queries on columns that the migrations make
  `varchar(36)`; a database may refuse the comparison. The models take the
  statements as accepted.
- `deletion_service.py` erases from four tables that no migration creates, so
  every execution fails at its first statement (line 15); a process that dies
  between its commits leaves a request executing (line 53). `email_service.py:210`
  awaits a synchronous commit, fails after the email was sent and is retried.
  `celery_app.py:26` acknowledges late, so effects may be repeated.
  `mfa_service.py:128` and `api/v1/offers.py:196` check and write in two steps.
  Redis may lose the windows of `rate_limiter.py:59` altogether. None of these is
  modelled; section 6 says why.

## 4. Fairness

Liveness is checked under no more than the scheduler gives.

- `PartnerCalls`: an attempt ends (httpx's timeout, if nothing else), a back-off
  ends, time passes. Neither the partner nor any caller owes a step, so
  `CallsReturn` holds with a partner that never answers.
- `VoiceCalls`: the same, and the event loop resumes a task whose call returned.
- `BudgetGuard`: a thread that has its answer goes on with its record. Checks,
  the provider and the calendar owe nothing. `RecordFails` is not fair.
- `AuditChain`: the background task of a response runs. `Reports`, `Dies` and
  the requests themselves are not fair.
- `Onboarding`: the scan's interval ticks. The operator owes nothing, and may go
  back, skip or rerun in any order, so `ScanFinishes` is about the interval
  alone.

`RateLimiter` and `console_data` are checked for safety only. The latter uses
symmetry over its request slots, which is sound there because no property of
that run is a liveness property; `console_forms` uses none.

## 5. The proofs

For every value of the constants under the named assumptions of each module.

| Module | Theorems | Inductive invariant |
|---|---|---|
| `PartnerCalls_proofs` | `TypeCorrect`, `AtMostOnce`, `Honest`, `OpenSound`, `FailsFast`, `Implements` | `CallInv`: what a call may have on the wire and at the partner in each phase (at most once needs `wire` and `performed` within `1..sends` and disjoint, and `sends` within the limit). `BreakerInv`: open exactly from the threshold on, and `_failures` at most the callers told "unavailable". |
| `BudgetGuard_proofs` | `TypeCorrect`, `CeilingHolds`, `NoUnloggedSpend`, `NoUnchargedProvider`, `RefusalsAreCurrent` | The properties themselves, with `PeakBounds` (`peak` bounds the calls in flight) and `SeenRow` (a call between its read and its refresh has seen a row). A call that enters raises the left side of `OvershootBounded` by `MaxCost` only when the meter was below the ceiling; one that records trades its `MaxCost` for its cost. `RefusalsAreCurrent` rests on `MonthInv` (a rollover writes the last month there is, and a check that refreshes finds no earlier period than the month it read) and assumes `MaxMonth <= 1`: over two turns it is false, as TLC shows. |
| `AuditChain_proofs` | `TypeCorrect`, `NoCycles`, `VerificationIsExact`, `GapsAreNoticed` | `Placed` (who is in the table), `Ascending` (links go back in time, within a trail), `Sequential` (in a trail written one at a time each hashed row links to the latest before it). `VerificationIsExact` is `Sequential` read through `Breaks`; `GapsAreNoticed` takes the least row after the gap, by well-foundedness of the timestamps. |
| `RateLimiter_proofs` | `TypeCorrect`, `SharedLimitHolds`, `LocalLimitHolds`, `FailsOpen`, `AdmissionsCount` | `RecentIsShared`: whatever the script has counted and the latest time still covers is in the sorted set. Each hit prunes by its own time, which may be old, so the set may hold more than the window, never less; a hit that finds it below the limit leaves at most the limit. `CountedHasArrived` keeps the counted times fixed, `HasBucket`: a request between its two hits has a workspace to be counted under. |
| `VoiceCalls_proofs` | `VoiceTypeCorrect`, `FlowsAreCalls`, `SpokenVerified`, `NeverOver` | `DeliveryInv`: the order of verification and message in the two calls of a delivery. `EscalationInv`: what is reported of a contact against the phase of its call. Both rest on `CallInv`, which `FlowsAreCalls` carries over: every behaviour of the flows is one of `PartnerCalls`. |
| `ConsoleForms_proofs` | `VettedWhole`, `VettingImplementsGates`, `OneInterval`, `GatesHold`, `DrawerCurrent`, `ListsAgree`, `DecisionsFinal`, `DecisionPostedOnce`, `SaveErasesSent`, `ToastTimed`, `AnnouncedOnlyGenerated`, `HeaderStands`, `NumbersUnique`, `BuilderClean`, `FormsRunAlone`, `FormsTypesCorrect` | `PassedStepsTicked`: a step behind the one on screen was ticked when it was passed and cannot be unticked since, which is why testing the last tick alone is enough. Onboarding's and the queue's properties are inductive together. `LogInv` (none posted while none is on its way or logged, and the form never open over one logged), `ToastInv`, `GeneratorInv` (one generator, for the choice on screen, until the modal is changed over it), `SelectionInv`. `NumbersAscend`: while only the newest rule is ever deleted, the rules' numbers ascend along the list and none is above its length, so the next number is free. |
| `ConsoleData_proofs` | `LabelCounts`, `PagesDivideTheList`, `TimelineKept`, `ScreenPast`, `LockdownReopens`, `SelectAllRows`, `MarkedOnce`, `TicksKept`, `AuditsAnswered`, `ReadyActivates`, `OffersSound` | `FollowsInv`: unless the list is behind, the request sent last is for the operator's page and is in flight until its reply is on screen; `RowsOfPage` turns a page into the rows the label counts. `ReadInv`: the copy a handler holds accounts for the entries committed when it read, and so for what its own commit will put on record without the others (`CommitAccounts`). `PastInv`: so does the timeline of every detail under way, and of the screen, for the entries of the time the server read it. `TimerInv`, `RowsInv` (`Deliver`), `SpinnerInv`, `VerdictInv` (`Playbooks`), `PageInv`, `OfferInv`, `OnceInv` (`Composer`). |
| `ServiceRows_proofs` | `HoldsProtect`, `SweepsAreWhole`, `CountsExact`, `UnsentStaysDue`, `CompletedStays`, `StepsInOrder`, `OneActive`, `DataRunAlone`, `DataTypesCorrect` | `AskedInv`: what a sweep has seen or found free is under no hold it must respect from before it began. `CountsInv`: unless sweeps overlapped, what the one sweep has found is still in the tables and what is gone has been counted. `HeldRowInv`: a session that has read writes to a row there is, none holds a step after the last, and a row at that step is completed. `OrderInv`: unless sessions crossed, the steps reported are in order, the row's step is their number, and a session holds the row as it is. `HighestInv`, `UpdateInv`: there is a highest number, and unless it was overtaken an UPDATE under way finds, and in the end has locked, every row it is to take the flag from. |

Every page's and service's own type theorem (`CrisisTypeCorrect`,
`AutomationTypeCorrect` and so on) is in the module that proves its properties.

The two console runs compose pages that share nothing. `FormsRunAlone` and
`DataRunAlone` prove that every behaviour of the composition is a behaviour of
each page and service by itself, so what is proved of one alone holds in the
composition TLC checks. `FormsTypesCorrect` and `DataTypesCorrect` are stated
of the composition itself.

`FailsFast`, `RefusalsAreCurrent`, `FailsOpen`, `AdmissionsCount`,
`DecisionsFinal`, `LockdownReopens`, `TicksKept`, `HoldsProtect`,
`SweepsAreWhole` and `CompletedStays` are action properties, `Implements` and
`VettingImplementsGates` refinements, `PagesDivideTheList` is a fact about the
page operators; the rest are invariants.

Every invariant, action property and refinement a passing run checks has a
theorem here. Only model-checked is liveness under fairness: `CallsReturn`,
`BreakerLetsAProbeThrough`, `EscalationCompletes`, `AnsweredIsMetered`,
`AnsweredIsOnRecord` and `ScanFinishes`. They speak of `ENABLED`, which the
prover does not reach.

## 6. What the models leave out

- `PartnerCalls`: cancellation of a handler by a disconnecting client; the
  length of back-offs (a `Retry-After` of any length is one sleep); more than
  one partner (breakers are independent).
- `VoiceCalls`: personas, the trainer, the intelligence brief and the health
  endpoint of the same router, which keep no shared state.
- `BudgetGuard`: agent calls without a workspace, which nothing meters; the
  money's decimals; the two endpoints that only read the same check. It assumes
  READ COMMITTED, the default of the engine the code creates.
- `AuditChain`: the contents of entries; collisions; the order in which one
  process starts its background tasks (any order is allowed).
- `RateLimiter`: the headers; different window lengths per path (`main.py` gives
  every path 60 s); sorted sets lost by Redis itself; `_WindowStore.clear`,
  which only tests call.
- `Discover`: which criteria a filter has (it is the set of problems it lets
  through), the order the cards are sorted in, the drawer of one problem and the
  selection for bulk actions. `Playbooks`: filters, toasts of another text, the
  composer mock and the readiness modal of the page. `DecisionRoom`: the tabs and
  the brief, which are drawn from seed data. `Composer`: section progress and
  exports of an activation. `Onboarding`: sources and readiness answers, which
  change only what is counted on screen.
- `Crisis`: creating incidents (they are there from the start) and the
  escalation tree, a column written whole that no other operation reads.
- `Deliver`: the search, the sorting and the filters beside the tabs, which
  change the rows as a tab does.
- `RetentionSweep`: the older in-memory policies, which no sweep reads; the query
  of the expired rows and that of the holds in the table are one step; which
  records are expired changes with the policy and not with the calendar, and
  none is added.
- `Drip`: the texts, and the test of a step past the last, which no row reaches
  without being completed.
- `TemplateVersions`: histories and differences, which only read.

## 7. Not modelled

- Erasure: its first statement fails on a table that does not exist, and there
  is no behaviour behind it.
- The job queue and the schedule: at-least-once delivery around short tasks. The
  tasks that keep state are modelled where the state is, a repetition being one
  more session (`Drip`, `RetentionSweep`). The others send or refresh derived
  data.
- Email and notifications: a provider call and a log row.
- Offers, reviews, consent, household graphs, backup codes: one read and one
  write of one row. `Crisis`, `Composer` and `TemplateVersions` model the three
  forms this takes in the repository; the others would repeat them.
- Identity, billing, caches, search, plumbing: no state shared between requests,
  or none at all.
- Agents, prompts, scoring, ontology, the offer and narrative routes: text and
  arithmetic computed from one input, without an order to get wrong.
- The remaining pages of `src/frontend/`: most of the repository's TypeScript.
  They are tables of seed data, markup, and one drawer, one tab or one filter
  that a click sets and a render reads. No timer, request or second actor meets
  that state, so a module about it could only restate its assignments. The share
  of all source lines that the modules stand for is small for this reason; of
  the code in which order matters, the table in section 1 says what is covered.
