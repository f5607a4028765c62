# Recover_AI: TLA+ models, checks and proofs

Recover_AI takes `payment.failed` and `payment.captured` webhooks from
Razorpay, opens a recovery case for a failed payment, and works the case with
actions (voice calls, payment links, retries, escalations) until the money
arrives. Everything it knows is in one PostgreSQL database shared by any number
of API processes and stand-alone scripts, so its correctness is a matter of what
happens *between* the awaited calls of these processes. This directory models
that: TLA+ modules, TLC configurations, and proofs checked by TLAPS.

Source paths are relative to the repository root. `PROJECT.json` maps every
definition that stands for code to its lines.

## 1. The system

| Component | Code | State it keeps | Operations |
|---|---|---|---|
| Razorpay webhook intake | `apps/api/src/routes/webhook.routes.ts` | `WebhookEvent` rows | insert, duplicate check, move to PROCESSING, dispatch, result |
| Webhook retry | `apps/api/src/workers/webhook-retry.*`, `events/webhook-retry.*` | the same rows; a batch per pass | poll, claim, dispatch, result, re-read of the count |
| Action creation and policy | `services/recovery-action.service.ts`, `policy/` | `RecoveryAction` rows | verdict on case, payment and attempts; insert APPROVED or REJECTED |
| Action execution | `workers/recovery-action.*`, `execution/action-executor.service.ts`, `execution/handlers/` | the same rows; a batch per worker | poll, claim, run of a handler, result |
| WAIT scheduler | `execution/action-scheduler.*` | `lockedAt`, `result` of WAIT actions | poll, claim, resume |
| Payment handlers | `events/handlers/payment-*.handler.ts` | `Payment`, `PaymentAttempt`, `RecoveryCase`, `PromiseToPay` | failure and capture, one transaction each |
| Voice recovery | `recovery/voice-recovery.service.ts` | `VoiceCall`, `RecoveryCase` | call the customer, move the case |
| Voice outcomes | `recovery/voice-outcome.service.ts` | `VoiceCall`, `RecoveryCase`, `PromiseToPay` | store what was said, in one transaction |
| Promises to pay | `recovery/promise-to-pay.*` | `PromiseToPay` | create, fulfil at a capture, break when due |
| Voice webhook intake | `routes/webhook.routes.ts` (`/voice`, `/sarvam`), `events/voice-webhook*.ts`, `recovery/voice-call.service.ts` | `VoiceWebhookEvent` rows, `VoiceCall` status, transcript and outcome | admit once, update the status, store the transcript, extract and hand on the outcome |
| Database package | `packages/database` | schema, migrations, the client Prisma generates | the types and unique indexes that everything above relies on |
| Recovery agent | `agent/` | `AgentExecution` rows | start a run, ask a model, request an action, report the run |
| Providers, REST API, dashboard | `providers/`, `routes/`, `apps/web` | none of their own | calls to the outside; reads |

How they interact:

- The intake stores an event and dispatches it in the HTTP handler. If the
  dispatch throws, the row becomes RETRY_PENDING and the retry pass of *some*
  process dispatches it again. Razorpay may deliver the event again meanwhile.
- `handlePaymentFailed` commits an attempt and a case, then, in a second
  transaction, asks for the first action. The policy reads case, payment and
  attempts; an approved action is in the table for the workers.
- The worker of every API process polls that table. A claim is a conditional
  `updateMany`; the handler then reads and writes cases, payments and attempts
  with no lock held between its calls.
- A voice call reports back by webhook; its outcome moves the case and may
  create a promise. A capture settles payment, promise and case together.

What makes it hard: no process owns a row; most updates go by id after an
earlier read; a crash between two calls leaves what was written before it; a
dispatch may run again after it has half succeeded; webhooks are late, repeated
and out of order; time-outs (`lockedAt`, `nextRetryAt`) compete with slow
processes. `PROJECT.json` lists these hazards with their lines. What each
component has to get right:

- *Webhook events*: one dispatcher at a time, bounded retries, none given up
  early, none lost, a processed event stays processed.
- *Actions*: outside work at most once, a status that tells what was done, every
  approved action gets executed.
- *Payments and cases*: a failure is pursued until it is paid; nothing counts as
  recovered without a captured attempt; a case gets one first action; a
  recovered case stays so.
- *Voice webhooks*: one delivery at a time works on an event, its outcome is
  committed once, PROCESSED means done, and no event undoes what another has
  stored of the call.
- *Promises*: one pending promise per case, none for a paid payment, a kept
  promise is never reported as broken.
- *Agent*: the report of a run says whether there is an action.

## 2. Plan

| Order | Module | State |
|---|---|---|
| 1 | `RetryQueue` (abstract), `WebhookEvents` (refines it), `MCWebhookEvents`, `WebhookEvents_proofs` | modelled, checked, safety, action properties and refinement proved |
| 2 | `OneShotWork` (abstract), `ActionExecution` (refines it), `MCActionExecution`, `ActionExecution_proofs` | modelled, checked, safety and refinement proved |
| 3 | `PaymentRecovery`, `MCPaymentRecovery`, `PaymentRecovery_proofs` | modelled, checked, safety and action properties proved |
| 4 | `Inbox` (abstract), `VoiceWebhooks` (refines it), `MCVoiceWebhooks`, `VoiceWebhooks_proofs` | modelled, checked, safety, action properties and refinement proved |
| 5 | `CaseLife` (abstract), which `PaymentRecovery` refines | checked, refinement proved |
| 6 | `WebhookEvents` composed with the dispatch of `PaymentRecovery`: its retry limit against the work left undone | open |

The modules are cut where components meet through a small interface. What
`WebhookEvents` knows of a dispatch is that it returns or throws; what
`ActionExecution` knows of a handler is that it calls the outside or throws;
`PaymentRecovery` opens both boxes and in turn sees only that a failed dispatch
runs again and that an approved action is taken once, which are the properties
the other two establish. `VoiceWebhooks` follows a voice event to the commit of
its outcome on the call; `PaymentRecovery` takes the outcome from there, with
what it does to case and promises.

All modules take their sets of rows and processes as CONSTANTS with named
assumptions, have an action per awaited call, and use no RECURSIVE operator, so
that theorems can be proved about them.

## 3. The modules

### Conventions

A *step* is one awaited call: JavaScript runs a handler without interruption up
to its next `await`, and one statement is atomic in the database. A process is a
record whose `pc` names the call it awaits next, with the local values that
survive the await. A transaction is one step where nothing another process can
commit changes its result, and is split where it can. A *rejected* call has no
effect on the database. A *crash* forgets the process and rolls back its open
transaction; the process starts again empty.

Times are abstracted to what the code compares: `nextRetryAt` and `scheduledFor`
are `null`, `later` or `due`; `lockedAt` is `null`, `held` or `expired`; two
actions of the environment let time pass. A lock may expire under a slow
process, as in the code. The order by `createdAt`/`receivedAt` that a query uses
is kept as the number of the insert.

Definitions marked "Variant for a mutation" are what a plausible mistake in the
code would make of the definition after them; they are not part of any
specification and serve to show that each property can fail.

### `RetryQueue` and `WebhookEvents`

`RetryQueue` says what intake and retry promise, without handlers, batches, locks
and crashes: an event is tried by one process at a time, a try counts when it
begins, the event waits for another try only while it has one left, is given up
only at the limit, and is done for good. This ends, for one event, when Razorpay
delivers it again before it is done: from then on tries may overlap, and a late
failure may undo a success, but FAILED still takes the limit. Stages are read off
`status`, tries off `processingAttempts`, reopened events off `readmitted`.

`WebhookEvents` is the `WebhookEvent` table, the handlers of Razorpay deliveries and the retry
passes.

| State | Code |
|---|---|
| `row[e]` | the row of an event: `status`, `processed`, `processingAttempts`, `nextRetryAt`, `lockedAt`, order of `receivedAt` |
| `request[d]` | the handler of a delivery; `snapshot` is the count it read in its duplicate check |
| `worker[i]` | the pass of an API process or of the stand-alone script; `current` is the count re-read in the catch block |
| `claims`, `readmitted` | history: claims by API processes; a redelivery that passed the duplicate check |

`Create`, `Lookup`, `Mark`, `Dispatched`, `Succeed`, `Fail` are the route in its
order. `Mark` increments by id whatever the status has become, and `Fail`
decides with the snapshot. `Poll`, `Visit`, `Claim`, `RetryDispatched`,
`RetrySucceed`, `Reread`, `RetryFail` are a pass of
`workers/webhook-retry.worker.ts`; `ScriptPoll` and `ScriptClaim` are the other
query and claim of `events/webhook-retry.service.ts`, whose dispatch and result
are the same. `RequestCallFails` and `WorkerCallFails` distinguish calls inside
a `try` from those outside it.

### `OneShotWork` and `ActionExecution`

`OneShotWork` says what executing actions promises, without workers, batches or
locks: work is submitted or refused, taken by nobody twice at a time, calls the
outside at most once over its life, and is done only after the call. It may stay
taken for ever. Work that failed may become ready again (`Retry`): the action life
cycle of the README (`src/README.md:404-414`) draws
`FAILED --> APPROVED: retry / reschedule`, and line 632 forbids that external work
is duplicated, hence `calls[w] = 0`. **The code never makes that move**: for it
FAILED is final. `ImplementsPromise` alone would not show that, since an
implementation need not take every step it is allowed, so `FailedIsFinal` states
it and PROJECT.json lists it as a finding.

`ActionExecution` is the code: `Create` (createRecoveryAction), `Poll`, `Start`,
`Claim`, `Run`, `Finish`, `Fail` (worker and executor), `Notify`, `Send`,
`RecordSent`, `RecordUnsent` (the second action that the payment-link handler
inserts and sends by itself), `WaitPoll`, `WaitClaim`, `WaitResume` (the WAIT
scheduler). `action[a]` is a row, `executor[i]` a worker, `waiter[w]` a
scheduler pass, `effects[a]` the history of outside work done for a row: a
provider call or, for WAIT, the write of `scheduledFor`. `Run` may throw before
the work, do it, or do it and then throw (the provider answers with a failure,
or a write after the call is rejected).

### `CaseLife` and `PaymentRecovery`

`CaseLife` says what the recovery of failed payments promises, without attempts,
locks, actions, calls and promises: a failure is one step that makes the payment
due and leaves it with exactly one active case, opened in that step if need be;
the money is one step that ends the due and closes an active case; only a payment
that is not due may keep one, which was opened again beside the capture; a case
belongs to one payment for good; a closed case is opened again only where its
payment has no active one. A case counts as active when it is OPEN, IN_PROGRESS or ESCALATED; a
payment is due when it is FAILED, and paid once it has a captured attempt.

In `PaymentRecovery`, `payment`, `attempts`, `recovery`, `promise`, `action`,
`agent` and `call` are the tables; `orders` are the orders known to Razorpay; `lock` is the row lock that the first
update of a failure's transaction takes on the payment and a capture waits for.
A case's first action is the row named by the case.

- *handlePaymentFailed*: `FailedBegin` (lock the payment, read the last
  attempt), `FailedCommit` (insert attempt and case, or throw when a retry has
  taken the attempt number), then `Policy` and `Insert` for a new case.
- *handlePaymentCaptured*: `CapturedBegin` reads the attempt of the order,
  `CapturedPromise` locks the payment and reads the latest pending promise,
  `CapturedCase` reads the active case, and `CapturedCommit` marks attempt and
  payment and writes promise and case by their ids. The script may break the
  promise, an outcome or an escalation move the case, between those reads and
  the writes. All the transaction's writes become visible at its commit; a
  process that would meet one of its row locks comes after it.
- *Handlers of actions*: `VoiceRead`/`VoiceDial`/`VoiceProgress`,
  `RetryOrder`/`RetryNumber`/`RetryAttempt`, `LinkRead`/`LinkCreate`, `Notify`,
  `EscalateRead`/`EscalateWrite`, and `Complete`, the executor's write of
  COMPLETED. WAIT writes its own row only and is left to `ActionExecution`.
- *Voice outcomes*: `OutcomeRead`, `OutcomeCommit`. DECLINED escalates, a
  promise is stored, the remaining outcomes only move the case to IN_PROGRESS
  and are one.
- *createPromiseToPay*: `PromiseRead` (case and payment), `PromiseLook` (a
  pending promise of the case), `PromiseInsert`: three awaited calls of one
  transaction that locks nothing.
- *The promise script*: `ScriptRead` takes due promises with the payment status
  of that moment, `ScriptWrite` settles them one by one.
- *Agent*: `AgentStart` inserts the RUNNING `AgentExecution` for a case,
  `AgentRecommend` is the model's answer or its failure, `Policy` and `Insert`
  are createRecoveryAction as for a new case, `AgentReport` writes COMPLETED or,
  in the catch block, FAILED.
- *Faults*: `HandlerCallFails` rolls the transaction back and dispatches again,
  or goes to the agent's catch block; `WorkerCallFails` fails the action;
  `CrashHandler` and `CrashWorker` lose a process with its locks.

The fields `overtaken` of workers and makers are history: another transaction
has meanwhile written what the process has read.

Two unique indexes of the database are part of the model: one attempt number per
payment, and one active case per payment (a partial index of the migrations;
`Admits`). An update that violates one is an error of that call.
Nothing in the repository creates payments in production: `Init` finds them
CREATED, without an attempt (as the seed leaves them) or with the attempt of
their order.

### `Inbox` and `VoiceWebhooks`

`Inbox` says what the intake of voice events promises: an item is taken up when
it is new or has failed, has its effect at most once and only while somebody
works on it, and stays done when done.

| State | Code |
|---|---|
| `event[i]` | status of the `VoiceWebhookEvent` row with id `i` |
| `call[c]` | the `VoiceCall` row: stored, status, transcript, outcome |
| `request[d]` | the handler of a delivery: `pc`, its message, what it has extracted |
| `applied`, `overtaken` | history: outcomes committed for an event; a handler whose read another has overwritten |

`Receive` and `Reject` are the two routes; `Match` is the Sarvam route's question
for the call and its case. `Find`, `Create` (with the P2002 of the unique index),
`Claim` (the conditional `updateMany` of a FAILED row), `Finish` and `Fail` are
`handleVoiceWebhook`; `Lookup`, `ReadStatus`/`Move` (`updateVoiceCallStatus`),
`StoreFailure`, `StoreTranscript` and `Extract` are `processVoiceWebhook`;
`ReadOutcome`/`Commit` are `processVoiceRecoveryOutcome`. `StoreCall` is the
insert of `initiateVoiceRecovery`, which may come after the provider's first
webhooks. `CallFails` and `Crash` are the faults. `EventIdOf` makes up the id a
Sarvam message lacks from call and status, as the route does, and `Moves` is the
comparison by `STATUS_ORDER`, in which a status outside the enum passes.

## 4. The runs

Every property of a passing run has a mutant of the code that breaks it
(`PROJECT.json`, "mutants").

| Run | Instance | Result |
|---|---|---|
| `webhook_events` | 2 events, 2 deliveries, 1 API process + 1 script, 3 attempts, 1 fault | holds |
| `webhook_limit` | 1 event, 2 deliveries, 1 process, 2 attempts, no fault | `PendingBelowLimit` violated |
| `webhook_crash` | 1 event, 2 deliveries, 1 process + 1 script, 2 attempts, 1 fault | `ExpiredLockReleases` violated |
| `action_execution` | 1 link action with notice, 1 WAIT action, 2 workers, 1 scheduler, 1 fault | holds |
| `action_notice` | the same rows and processes, no fault | `NoticeSentOnce` violated |
| `action_crash` | 1 worker, no scheduler, 1 fault | `InterruptedIsSettled` violated |
| `payment_recovery` | 1 payment failing twice, 2 cases, no agent run, 2 dispatches, 1 worker, 1 listener, 1 promise maker, 1 script, 2 promises, no fault | holds |
| `payment_faults` | 1 failure, 1 agent run that may retry, send a link, notify or ESCALATE, 2 dispatches, 1 worker, 1 rejected call, 1 crash | holds |
| `payment_escalate` | 1 failure, 1 case, 1 agent run | `RecoveredNotEscalated` violated |
| `payment_start` | 1 failure, 2 cases, 1 rejected call | `WorkflowStarts` violated |
| `voice_webhooks` | 1 call, 4 messages under 3 event ids, 3 deliveries, 1 fault | holds |
| `voice_outcome` | 1 call, 2 transcripts under 2 event ids, 2 deliveries, no fault | `OneFinalOutcome` violated |

### What the passing runs show

`webhook_events`. `SingleHolder`: as long as no redelivery was admitted, one
process at most is between the move to PROCESSING and its result, whatever stale
batches the passes hold. `ProcessedIsFinal`: under the same proviso a PROCESSED
row stays PROCESSED. The proviso is necessary: a redelivery admitted while the
row was RETRY_PENDING marks it by id beside a retry that already runs.
`ClaimsBounded` and `GivenUpOnlyAtLimit` need none: passes claim an event at
most MAX_ATTEMPTS times, and FAILED means at least that many attempts.
`Settles`: a stored event ends PROCESSED or FAILED; a fault can leave it
RECEIVED or PROCESSING for good, but never waiting for its retry.
`NothingStranded` is the safety side of that: a RECEIVED row has the delivery that
will mark it, a PROCESSING row has a holder, unless there was a fault; and a row
that waits for its retry has attempts left, a time and no lock, unless it was
readmitted (`webhook_limit` shows why). `KeepsQueue`: the module implements
`RetryQueue`. (With
MAX_ATTEMPTS = 1 it could wait for ever: the route's comparison with its snapshot
0 would schedule a retry that no query selects. The code has 5, the run 3;
the two theorems that need it assume MaxAttempts > 1.)

`action_execution`. `ExclusiveExecution`, `EffectAtMostOnce` and
`StatusTellsEffect`: two workers never run one action's handler; outside work is
done at most once even with crashes and expiring locks; COMPLETED means it was
done, APPROVED and REJECTED that it was not, EXECUTING that a worker is at it
unless there was a fault. FAILED tells nothing: the work may have been done. `ApprovedIsUnlocked`: an approved row is never locked, so the
lock time-out in the queries selects nothing. `ResumedAfterWait`: a WAIT is
resumed only when its time has come. `KeepsPromise`: the module implements
`OneShotWork`. `FailedIsFinal`: no stale batch, script or fault takes a FAILED
action up again, so the retry that `OneShotWork` allows and the README draws
never happens. `ApprovedIsSettled`: every approved action is executed, unless a
fault leaves it EXECUTING. These say "action", not "notice": a notice may go out twice (`action_notice`),
and by `NoticeTwiceAtMost` never more often, since each of its two ways, the
inserting handler and a worker's claim, is open once.

`payment_recovery`. `FailedIsPursued`: while a payment is FAILED one of its cases
is active, in every interleaving of failures, captures, calls, outcomes and the
script. `RecoveredIsPaid`: a CAPTURED payment, a RECOVERED case and a FULFILLED
promise have a captured attempt. `FirstActionOnce`: repeated and concurrent
dispatches of `payment.failed` insert one first action per case at most.
`OnlyOvertakenPromises`: createPromiseToPay makes a second pending promise of a
case, or one for a paid payment, only if another transaction came between its
first read and its insert; nothing in the database would refuse it.
`KeptStaysKept`: no script that read the payment before the capture reports a
fulfilled promise as broken. `KeepsLife`: the module implements `CaseLife`; that
transactions commit in two or more steps and that most writes go by id never
shows in the life of the cases.

`payment_faults`. `CompletedIsStored`: a COMPLETED retry has left the attempt a
capture is found by, a COMPLETED voice action the call a webhook is found by,
whoever took the attempt's number meanwhile. `AddsOneAttempt`: an action adds one
attempt at most, to the payment of its own case; `handlePaymentCaptured` relies
on that when it looks an attempt up by an order that no index makes unique.
`NothingAbandoned`: as long as there was no fault, a case that still lacks its first action,
a RUNNING `AgentExecution` and an EXECUTING action each have a process at work on
them. The run's liveness properties rest on it. `AgentRunIsTold`: COMPLETED means
there is an action, FAILED that there is none unless a call was rejected (the
report itself may be refused after the insert). `CaseGetsAction`: only a fault keeps
a new case without its first action. `CaptureIsRecorded`: the capture of an order
that has an attempt is recorded however dispatches of failures take the
payment's row and calls are rejected; a crash can prevent it.
`OnlyOvertakenReopen`: an action's handler, a voice call or an escalation, reopens
a recovered case only if the capture came between its read and its write. Voice
outcomes reopen a recovered case in any order, since they never ask for its status.

`voice_webhooks`. `ExclusiveProcessing`: at most one delivery works on an event,
and one that is PROCESSING has such a delivery unless there was a fault.
`AppliedOnce`: the outcome of an event is committed once at most, also when the
write of PROCESSED is rejected after it, the event becomes FAILED and is taken
up again: the second pass finds the outcome on the call and either agrees or
throws. `ProcessedIsDone`: PROCESSED means that the transcript and an outcome are
on the call; it speaks of event ids whose messages all bring a transcript, since
an id made of call and status may name messages that do and messages that do not.
`OnlyOvertakenStepsBack`, `OnlyOvertakenReplaces`: the status of a call goes back,
or its outcome is replaced, only through a handler that was overtaken between
its read and its write. `EventSettles`: an event taken up ends PROCESSED or
FAILED unless a fault leaves it PROCESSING, where redeliveries are duplicates.
`KeepsInbox`: the module implements `Inbox`.

### What the violated runs show

Each states what the repository says of itself and exhibits a behaviour that
contradicts it.

- `webhook_limit`. The retry test expects an event that fails at the limit to be
  FAILED. An event waits for its last retry; Razorpay delivers it again; the
  route increments the count to the limit and, failing, decides with the count
  before the increment. The row is RETRY_PENDING with no attempts left, and no
  query selects it.
- `webhook_crash`. The comment at the lock time-out says that a crashed worker
  cannot lock an event permanently. A claim also moves the row to PROCESSING,
  and no query looks for PROCESSING rows, locked or not.
- `action_notice`. The README promises no duplicate external work. The
  notice is visible as APPROVED while the handler that inserted it sends it; a
  polling worker sends it too.
- `action_crash`. The README says that persisted actions are recoverable after
  process failures. A crash after the claim leaves the action EXECUTING, and
  polling asks for APPROVED.
- `payment_escalate`. A comment says that a recovered case is never escalated.
  The capture may commit between the check and the update by id.
- `payment_start`. The README says that a failed payment becomes an executable
  workflow. If createRecoveryAction is rejected, the webhook runs again, reuses
  the case it has committed before, and asks for no action.

- `voice_outcome`. A comment says that a call can only have one final outcome.
  The outcome is asked for before the transaction and written by id in it; two
  events of one call both find none, and the later one replaces what the earlier
  one has acted on.

One finding rests on a run that passes. `FailedIsFinal` of `action_execution` says
what the code does; the life cycle of `src/README.md:412` draws a retry or
reschedule of a FAILED action, and line 636 says that recovery failures can be
retried with bounded retry behaviour. The executor's catch block writes FAILED,
polling and claim ask for APPROVED, the WAIT scheduler for COMPLETED: no query
selects FAILED, and nothing makes such an action APPROVED again. Two mutants of
the code, `FailRetry` and `ThrowAgain`, are that retry in its plain form, a write of
APPROVED in the catch block: they break `EffectAtMostOnce`, `NoticeTwiceAtMost`
and `AddsOneAttempt`, because FAILED does not tell whether the outward work
was done. A retry would have to know that first.

### Bounds and why they are enough

- Two of each kind of process, or one of each of two kinds, show every
  interference between two actors; the proofs of section 5 cover any number.
- `MaxAttempts` is 3 (2 in the violated runs) instead of 5: a first attempt, one
  in between and the last, which is where the comparisons differ.
- `BatchSize` is 1 instead of 10, so that with two rows a query really leaves
  one out and starvation would show.
- `MaxFaults`, `MaxRejected` and `MaxCrashes` are 0 or 1: one fault anywhere is
  where a single recovery is needed.
- `MaxPaymentAttempts` is the code's 3; `MaxFailures` is 2, so that a second
  failure meets an active or a recovered case. Each such failure may be a new
  event or a repeated dispatch. `MaxPromises` is 2, so that an outcome and
  createPromiseToPay can both promise.
- The agent's actions are in `payment_faults` only, outcomes and promises in
  `payment_recovery` only, which keeps each within a few minutes; voice calls are in
  both. The proofs do not know the split: what `payment_recovery` checks without
  agent and faults is proved with any number of both.
- One call is enough in `VoiceWebhooks`, whose events of different calls share
  nothing. Its messages are chosen for the paths they take: a transcript of the
  call's own case and of another one under one derived id, a blank transcript
  with an unknown status, and a failure that brings a transcript. Three
  deliveries give a first one, a redelivery and a competitor.
- Two cases suffice for one payment: its first and the one a failure after a
  capture opens. Symmetry is used only in runs without liveness.
- Runs say CHECK_DEADLOCK FALSE because the system may come to rest: the
  deliveries are bounded and everything stored may be settled.

### Fairness

Weak fairness is assumed of started work and of time only. A handler that has
been entered runs on: Node resumes it when its call returns, and a call that
never returns is not modelled. The retry scheduler polls every 10 s and the
action worker every 5 s, with one pass at a time (`running` flags). Dates pass.
Deliveries, the creation of actions, the start of an agent's run, captures, faults
and the WAIT and promise scripts, which somebody has to start, are never forced.
In `PaymentRecovery` a dispatch that throws is run again by its process; the limit
on retries is the matter of `WebhookEvents`. In `VoiceWebhooks` only the steps of
a handler that was entered are fair; there is no retry but the provider's.

## 5. The proofs

`tlapm` checks all proofs to the last leaf, from the assumptions on constants
named in the modules: finite sets of events and rows, MaxAttempts and BatchSize
positive, different names for different processes, and each link action with a
notice of its own; cases, requests and payments that are different things; and
messages of the declared form, of which two with one event id are about one call.

**`WebhookEvents_proofs`**

- `TypeCorrect`. `TypeInv` adds to `TypeOK` that a process that is at work has an
  event. Lemmas `RowWriters`, `RequestWriters`, ... say once which actions write
  which variable; the later proofs split on them.
- `RetriesAreBounded`. `Counted`: claims never exceed the attempts of the row,
  and are at most MaxAttempts. A claim is made below the limit and counts one up
  on both sides; `AttemptsGrow` says that nothing decreases attempts.
- `GivesUpOnlyAtLimit`. `ReadsAreOld`: a snapshot or re-read count is never above
  the row's. Hence a count at the limit means a row at the limit, however old.
- `NoneStranded`. `AttendedInv`: without faults, a RECEIVED row has a delivery at
  `Mark` and a PROCESSING row a holder; each step that gives a row up writes its
  next status. `Orderly(e)`, for an event that was not readmitted: a new row
  counts no attempts, the delivery that inserted it decides by 0, the count a pass
  has re-read is the row's, and a row that waits has attempts left, a time
  and no lock. It is inductive only with `Sole` and for MaxAttempts > 1.
- `ImplementsQueue`. `QueueInv` joins `Sole`, `Orderly`, `ReadsAreOld` and `Known` (a
  handler looks up only rows that exist): `Sole` makes the end of a try the end of
  the only one, `Orderly` puts the choice between Postpone and GiveUp on
  the right side of the limit, and what happens to a readmitted event is `Overlap`.
- `OneHolder` and `ProcessedStays`. `Sole(e)`, for an event that was not
  readmitted: at most one process holds it; a holder means PROCESSING; a
  delivery that is about to mark a new row means RECEIVED and nobody else.
  `SingleHolder` is not inductive without the link to the status, because the claim's
  guard speaks of the status only.

**`ActionExecution_proofs`**

- `TypeCorrect`, from `TypeInv` as above.
- `ExecutedByOne`, `CalledOnce`, `StatusIsTrue`. `Sound(a)`: a worker inside the
  handler of `a` means EXECUTING and is alone; no work has been done before
  EXECUTING or by a worker that has not run the handler yet; a worker past the
  call has done it exactly once. This links status, `pc` and history, so that
  the conditional claim excludes a second run.
  EXECUTING has its worker by `CarriedInv`, the converse of `Sound`: a worker leaves
  an action only by writing its result, unless it fails.
- `SentTwiceAtMost`. `Twice(n)` counts the ways a notice may still go out: its
  inserting handler before `Send`, and a claim while the row is APPROVED or a
  worker has just claimed it. What was sent and what is open never exceed two.
- `ApprovedHasNoLock`. `FreshInv`: a worker's rows are stored rows (`RowsKnown`),
  a link that has not passed `Notify` has no notice yet (`Fresh`), and approved
  rows have no lock (`FreshUnlocked`). The middle part is what makes the
  insert of the notice an insert and not a change of a locked row.
- `FailureIsFinal`. By `Sound`, a worker that is past its claim sees EXECUTING, so
  none of the writes by id meets a FAILED row; claim and scheduler ask for
  APPROVED and COMPLETED.
- `ImplementsPromise`. Initial states map to initial states, and each step to
  `Submit`, `Take`, `Call`, `Done`, `GiveUp` or a stutter, and none to `Retry`; it
  uses `TypeInv` and `SoundInv`.
- `WaitsAreOver`. `WaitInv`: from the scheduler's claim on, a WAIT action is
  completed and due. No step takes that back, since a worker runs EXECUTING rows
  only (`Sound`) and claims none that is COMPLETED.

**`PaymentRecovery_proofs`**

- `TypeCorrect`. `TypeInv` adds what rows and processes refer to: an open case
  has a payment, an action has a case, a call has its action, and each process
  works on rows that exist. `ByHandler`, `ByWorker`, ... split a step by its
  actor and say which tables it leaves alone.
- `OnceForACase`, `RunIsTold`. `HeldInv`: a row still to be inserted is in the hands
  of one dispatch or agent run, which opened its case or its run, and while it is
  there nobody has inserted it. `FirstActionOnce` alone is not inductive: nothing in
  it says that the dispatch about to insert is the only one.
- `FailedPaymentsPursued`. Inductive over `TypeInv`: only the transactions of the
  webhook handlers write the payment's status, one with the case and one with all
  active cases; every other write of a case leaves it active or makes it so.
- `RecoveredArePaid`. `PaidInv`: a capture under way has an attempt to mark, and a
  script that read a payment as captured is right for good, since captured
  attempts stay (`AttemptsExtend`).
- `PromisesKept`, from the same invariant: a script writes BROKEN over a pending
  promise only.
- `CompletedAreStored`, `ReopenedWhenOvertaken`. `WorkInv` says what a handler knows
  at each `pc`: the type of its action, that its attempt or call is stored, and,
  as long as nobody overtook it, that the case it has read is not recovered.
- `OneAttemptEach`. `OneWorker`: a worker under way has an EXECUTING row to itself,
  since the claim takes APPROVED rows only and nobody else ends one that is
  executed. `Unspent`: a row that is not yet taken, or whose worker has not yet
  come past `RetryAttempt`, has no attempt. Together they make the append the
  first with its order, and `HeldInv` keeps the row's type and case.
- `NothingLeftLying`. `Attended` names the process for each unfinished row, and is
  inductive as long as there is no fault (`NoFaultStep`): a handler keeps its row
  until its insert or report (`HoldsOn`), a worker until its result (`WorkerMoves`).
- `PromisedWhenOvertaken`. `SeenInv`, the same for the callers of
  createPromiseToPay: unless overtaken, what they read is still true.

- `ImplementsLife`. A commit of a failure is `Fail`, of a capture `Pay` (a capture
  marks its attempt by `PaidInv`, and only a capture pays, `PaidOnlyByCapture`).
  That the case a capture has read is the one to close when it commits is
  `LockInv`: it holds the payment's row (`HasLock`), so that no other capture closes
  the case and no failure opens one meanwhile (`Found`);
  any other write of a case keeps it active or is `Reopen`, which the unique index
  admits only beside no other active case (`StatusWriters`).

**`VoiceWebhooks_proofs`**

- `TypeCorrect`. `Engaged`: a handler under way has a message, and one past the
  extraction a result.
- `OneAtATime`. `HoldInv`: an event somebody works on is PROCESSING, so that both
  the insert and the conditional claim exclude a second one. Every step is one of
  three kinds (`Quiet`, `Enters`, `Leaves`), and the invariants are proved on those.
  That a PROCESSING event has its delivery is `CarriedInv`, which holds while
  there was no fault (`NoFaultSteps`).
- `DoneWhenProcessed`. `LocalInv`: what holds of the call at each place of
  `processVoiceWebhook`.
- `AtMostOnce`. `AppliedInv`: an applied outcome shows on the call, so that no
  handler that found none there is about to commit for the same event.
- `StepsBackWhenOvertaken`, `ReplacedWhenOvertaken`. `FreshInv`: unless overtaken,
  the status or the missing outcome a handler has read is still there.
- `ImplementsInbox`. Each step is `TakeUp`, `Affect`, `Conclude`, `Miscarry` or a
  stutter, by `HoldInv` and `AppliedInv`.

**Only model-checked.** Liveness (`Settles`, `ApprovedIsSettled`,
`CaseGetsAction`, `CaptureIsRecorded`, `EventSettles`), since
fairness and ENABLED are out of the prover's reach; and the seven violations.
Every invariant and action property of a passing run is proved.

## 6. Modelled, but covered by no property

Some steps that can go wrong are in the models without a property that would call
them wrong, because nothing in the repository says what should happen instead.
`PROJECT.json` lists each as a hazard with a note in place of a property: a failure
dispatched after the capture, which turns the payment back to FAILED; a voice
call or an outcome that moves a case recovered meanwhile; a call status overwritten in the overlap of
two handlers; Sarvam events that share a derived id; a lost process, or a call
rejected between insert and PROCESSING, that leaves a row nothing takes up; a WAIT
action resumed at each pass; the capture of a link's order or of an order whose
attempt was refused; a second promise fulfilled by a second dispatch, or made in
the window of createPromiseToPay; the report of an agent's run that is itself
refused. Properties whose names begin with `OnlyOvertaken` allow such a window by
name and show that there is no other.

## 7. What is not modelled

- *Most of the repository's lines*: about 26,400 of 34,800 are the client that
  Prisma generates from its schema (`packages/database/src/generated`). They
  declare types, keep no state and decide nothing, so a definition that claimed
  to translate them would translate nothing. Of the API's sources, the models
  cover about half; the rest is reads for the dashboard, provider clients,
  formatting, validation and test runners.
- *Providers, language models, HTTP, signatures, JSON*: a call to the outside
  returns or fails; a delivery with a bad signature or body is `Reject`.
- *REST API, metrics, dashboard*: reads without state.
- *Amounts, reasons, priorities, approval flags, audit log*: stored, but no
  decision modelled here depends on them.
- *The migrations*, except for the unique indexes; *test runners*, except as a
  source of what the code is expected to do.
- *A call that never returns*, and a database that loses committed rows.
