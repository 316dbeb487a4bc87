# A verification project for Zia

Zia is a payment gateway in Go: merchants create payment intents, the gateway
has a payment service provider (PSP: M-Pesa or Paystack) collect the money,
books it in a double-entry ledger, tells the merchant, and pays the merchant
out. This directory holds TLA+ models of that program, TLC configurations that
check them on small instances, and proofs of their main properties that TLAPS
checks for every instance.

Paths such as `orchestrator/engine.go` are below `src/internal/`. `PROJECT.json`
names, for each definition, the lines of code it stands for.

## 1. The system

### 1.1 Processes and what they share

Three programs run side by side: `cmd/api` (the HTTP server, any number of
goroutines), `cmd/worker` (one loop for PSP events, one for notifications) and
`cmd/cron` (one settlement per process). They share PostgreSQL, Redis and NATS
JetStream and have no other way to coordinate. Two facts shape everything below:

* **No transaction and no lock spans two statements.** Every repository method
  is one statement on the connection pool. A call that reads a status, decides
  and writes is open to every other call between any two of its statements.
* **Any process can stop between any two statements**, and what it kept in
  memory (a timer, a half-done posting, the event of an HTTP request already
  answered with 200) is gone.

So each SQL statement, Redis command, publication and PSP call is one step of
the models.

### 1.2 Inventory

| Component | State it keeps | Operations | What is hard | What makes it correct |
|---|---|---|---|---|
| Orchestrator (`orchestrator/`) | `payment_intents.status`, `attempts.status`, a timer per M-Pesa payment | `CreatePaymentIntent`, `HandleWebhookEvent`, the delayed status query | its three entry points write the same rows without coordination; stale reads; half-done calls | statuses follow the state machine; success is final; a collection is booked once and only if the PSP confirmed it |
| Idempotency store (`idempotency/`) | Redis: key to intent, 24 h | `Check`, `Store` | check and insertion race; keys expire | one collection per key; same answers |
| Webhook ingest (`api/webhook.go`) | `webhook_events` by dedup key | `Ingest` | answers 200 before publishing; falls back to handling the event itself | no event is lost or applied twice |
| Webhook processor (`webhook/processor.go`) | the stream's unacknowledged messages | `Publish`, `StartConsumer`, `HandleEventAndDispatch` | redelivery, crashes between steps, poison messages | what is acknowledged is dealt with; what can be handled ends |
| Webhook dispatcher (`webhook/dispatcher.go`) | `webhook_deliveries` | `Dispatch`, `Retry` | tells merchants of ignored events too; retries by hand only | merchants hear what was applied |
| Ledger (`ledger/`) | `ledger_entries`, append-only | `PostCollection`, `PostPayoutInit`, `PostPayoutComplete`, `Balance` | a posting is several inserts; balances are read in between | debits equal credits; no credit without a debit |
| Settlement (`settlement/`) | `payouts` | `Settle` | the PSP is called first, everything is stored after; errors are skipped over | pays only what was collected; books what it pays |
| Connectors (`connector/`) | none of their own | `InitiateCollection`, `GetStatus`, `InitiatePayout`, `ParseWebhook` | lost answers; statuses collapsed to two; events they do not know | an answer means what the PSP said |
| M-Pesa token manager (`connector/mpesa/auth.go`) | one token with the time it expires, under a mutex | `Token`, `fetchToken` | the mutex is held while M-Pesa is asked; two clocks | no token is used after M-Pesa stopped taking it |
| Notification dispatcher (`notification/`) | `notifications`, its own stream consumer and what its client has buffered | `Publish`, `StartConsumer`, `processNotification`, `sendWithRetry` | blocks for longer than the stream waits; one consumer for all merchants; repeats on every redelivery | a notice leaves the stream only when it was heard; no merchant waits for another for ever |
| Routing and circuit breaker (`routing/`) | failures per PSP, in memory | `Route`, `IsAvailable`, `RecordFailure`, `RecordSuccess` | asking changes the state; the first failure is not compared with the threshold; the last two operations have no caller | a PSP that keeps failing gets no payment, one that does not gets its own |
| Risk engine (`risk/`) | recent attempts per phone and email, in memory | `Evaluate` | window boundaries; two windows, one after the other | never more than the limit in any window |
| Portal accounts (`api/portal.go`) | one-time codes in memory; merchants, users, team, invitations, sessions | `SendOTP`, `Signup`, `Login`, `InviteMember`, `RevokeInvitation`, `AcceptInvitation` | a code is read, checked and deleted in separate steps; sign-up is seven statements; failed lookups count as "none" | who belongs to a merchant founded it or was invited; a request that breaks off leaves nobody's account half-done but its own |
| Reconciliation (`reconciliation/`) | none | `Reconcile` | none: it only logs | — |
| HTTP API, authentication, repositories, telemetry, utilities | rows, nothing else | single reads and writes | none found | — |

How they interact:

    merchant --> api --CreatePaymentIntent--> Orchestrator --> connector --> PSP
                          | Redis key               | rows        ^
    PSP ---> Ingest ---> JetStream ---> worker --HandleWebhookEvent
                |  (publishing fails)                ^  |
                +------- HandleEventAndDispatch -----+  +--> Ledger, notification, merchant endpoint
    timer (M-Pesa) -----> delayed query -----------------^
    cron ----> Settlement --> connector --> PSP, then payouts and Ledger

### 1.3 Hazards

`PROJECT.json` lists under `hazards` what can go wrong here that a test would
hardly reach, with the line and the properties that watch it. The main ones are
the races between webhook handlers, the delayed query and the creation of a
payment; crashes between the status and the ledger; lost or repeated
publications; a settlement that calls the PSP before it writes anything; a
notification consumer that is slower than its stream expects; and portal
requests of many statements without a transaction. Where no property can watch
a hazard, because the code does what it does on every run, its note says so.

## 2. Modules

    PaymentStates      statuses and the transition table (orchestrator/state.go)
    PaymentLifecycle   abstract specification: what a payment promises
    Orchestrator       detailed specification  --implements-->  PaymentLifecycle
    WebhookPipeline    EXTENDS Orchestrator: ingest, stream, worker
    Ledger             postings and balances
    PayoutStages       abstract specification: the stages of the money paid out
    Settlement         EXTENDS Ledger: the settlement run  --implements-->  PayoutStages
    DeliveryLog        abstract specification: the list of a merchant's deliveries
    Delivery           posting an event to the merchant's endpoints, and retries
                       --implements-->  DeliveryLog
    Notifications      the notification consumer, its stream and its retries
    Admission          risk windows and circuit breaker before a payment is made
    Tokens             the M-Pesa access token
    Accounts           portal codes, sign-up, invitations, team, sessions
    MC*                instances for TLC
    *Proofs            theorems, each module EXTENDS the specification it is about

### 2.1 Orchestrator

A request `r` of `CreatePaymentIntent` names the payment intent, the attempt
and the delayed query that it creates. `pi`, `att` and `rows` are the database
(`rows[r][l]` counts how often ledger line `l` of `r` was inserted), `idem` is
Redis, `asked` and `verdicts` the PSP, `told` the published notifications.
`cpc`/`reply` are the calls of `CreatePaymentIntent`; `pc`/`job` are the webhook
handlers and the delayed queries with their local variables (the event, the
status they read, the ledger line they are at).

| Code | Actions |
|---|---|
| `CreatePaymentIntent` | `Replay`, `Admit`, `InsertIntent`, `InsertConflicts`, `StoreKey`, `CollectionAccepted`, `CollectionRefused`, `MarkFailed`, `SaveAttempt`, `MarkWaiting`; an error or crash at any of them is `CreateFails` |
| `HandleWebhookEvent` | `LookupAttempt`, `ReadIntent` (with the transition check), `WriteAttempt`, `WriteStatus` (unconditional), `PostEntry` per ledger line, `PublishNotification`; `HandlerFails` |
| `scheduleDelayedQuery`, `applyQueryResult` | `FireQuery`, `AskPSP`, `WriteAttempt`, `WriteStatusSafe` (conditional), `PostEntry`, `PublishNotification`; `QueryFails` |
| PSP, Redis, callbacks (external) | `Announce`, `ForgetKey`, `Deliver` |

Abstractions: amounts, names, payloads and risk, routing and connector choice
are data that no property here depends on; a refusal by any of them is
`CreateFails`. The M-Pesa connector's `GetStatus` is modelled by its mapping:
everything but success, a payment still waiting for its payer included, is
"failed"; so is an error answer in JSON, whose HTTP status the connector does
not look at (`connector/mpesa/connector.go:252`), even after a success. `ParseWebhook` is the connectors' mapping of a callback: M-Pesa's is
the same as above; Paystack's understands `charge.success`, and gives any other
event of a charge the status "unknown" and no reference, so that no attempt is
found for it. A call without a key gets a fresh one, so it never collides. The
PSP announces one outcome per collection, except that the payer of a
`Retriable` one, a card payment, may succeed after a failed try (Paystack
reports both under one reference).

### 2.2 WebhookPipeline

Extends the orchestrator: `Deliver`, the orchestrator's picture of "an outcome
reaches some handler at some time", is replaced by what delivers it. `call[c]`
is one HTTP callback on its way through `Ingest` (`Callback`, `Record`,
`Publish`, or `PublishFails` and `Conclude` on the synchronous path, `CallDies`
for a crash of the API). A body that `ParseWebhook` cannot read is answered 200
and dropped (`Callback` to "done"), and an insertion of the event may fail
without one being there (`Record`). `stream` and `cur` are JetStream and the message the
worker holds (`Take`, `Release`); `heard` is what the merchant's endpoint was
sent. `UsesOrchestrator` states (and a theorem proves) that every step of the
pipeline is a step of the orchestrator or leaves its variables alone.

The consumer may deliver any unacknowledged message next, which covers
redelivery after Nak and after a missing acknowledgement. A message carries
what its HTTP call did, so messages are named after calls.

### 2.3 Ledger and Settlement

`posted` keeps the ledger as the total per merchant, currency and kind of entry
(account, side and reference type), which is all that any query of the running
code reads. `PostCollection` inserts one entry per step; `PostingBreaks` is an
insert that fails. The settlement is one action per statement of
`settleMerchant`, with its local variables `cur`, `amount` and `answer`; an
error of reading the balance (`ReadFails`) passes the merchant over.
`Balance` adds an account's entries whatever their currency, as
`repository/ledger.go` does. The merchant's default currency is "home".
`PostRefund` and `PostPayoutReversal` have no caller and are not modelled.
How often one payment is posted is the orchestrator's concern
(`BookedAtMostOnce`); here each confirmed payment is posted once.

### 2.4 Delivery

Begins where `WebhookPipeline` calls `Dispatch`. `rows` is `webhook_deliveries`
in the order of insertion, `received` the rows whose request an endpoint
accepted. The agents (`pc`, `job`) are the worker and the API's goroutines; any
of them may dispatch an event or serve a manual retry, so both overlap.

| Code | Actions |
|---|---|
| `Dispatch`, `deliver` | `Dispatch` (lists the active endpoints), then per endpoint `Insert` or `InsertFails`; `End` |
| `sendAndRecord`, `failDelivery` | `Accepted`, `AnswerLost` (the endpoint accepted, the timeout of ten seconds passed), `Refused`; then `Mark` or `MarkFails` |
| `RetryWebhookDelivery` (portal), `Retry` | `AskRetry` (the portal's check), `Retry` (the dispatcher's, on a second read) |
| process death, unreadable rows | `Dies` |

The payload, headers and response bodies are data. A comment in the worker
(`webhook/processor.go:155`) says that without an event id the dispatcher skips
the row; `deliver` inserts it with an empty `webhook_event_id`, and so does the
model.

### 2.5 Notifications

Begins where the orchestrator publishes (`told` there, `Publish` here).
`published`, `due` and `acked` are the stream, `buffer` what its client library
has received ahead of the consumer, `cur`, `step`, `url` and `attempt` the one
consumer goroutine with its local variables. `rows` and `heard` count, up to
"several", the rows stored and the posts accepted for a notice.

| Code | Actions |
|---|---|
| `Publish` | `Publish` |
| `StartConsumer` | `NextMsg`, `Ack`, `Nak`, `AnswerLost` |
| `processNotification` | `Lookup` (the merchant and its URL), `LookupFails`; `Persist`, `PersistFails` (logged only) |
| `sendWithRetry` | `SendAccepted`, `SendAnswerLost`, `SendRefused`: up to four posts, then an error |
| `UpdateSettings` (merchant API) | `UpdateSettings`, which replaces the whole configuration |
| stream and worker process (external) | `Deliver`, `ExpireLost`, `ExpireHeld`, `Crash` |

The pauses between the posts have no length of their own: a stream that stops
waiting meanwhile is `ExpireHeld`, at any step. `Dead` are merchants whose
endpoint never accepts; they may refuse without bound.

### 2.6 Admission

What `CreatePaymentIntent` asks between its key and its row, under one clock
that every caller reads. `accepted[k]` is a history variable, all counted
attempts of a contact; `velocities[k]` are those the engine still remembers.

| Code | Actions |
|---|---|
| `risk.Evaluate` | `Evaluate` (a call with its contacts), `RiskPassed` |
| `checkVelocity` | `Count`, `RefuseFrequent`, in `CheckVelocity`, one critical section per contact |
| `routing.Route`, `IsAvailable`, `registry.Get` | `RouteTo` (with the breaker closed after its cooldown), `RouteFails` |
| `RecordFailure`, `RecordSuccess` | the actions of these names |

No code of the repository calls `RecordFailure` and `RecordSuccess` outside the
tests: the model has an environment that calls them as it pleases, so what is
shown of the breaker is shown of its interface. `failedAt` is a history
variable. The default rules name no fallbacks, and nothing replaces them.

### 2.7 Tokens

Callers of `Token` (`Call`, `Token`, `Return`) share one cached token under one
mutex. `fetchToken` and `FetchFails` are the two ends of a fetch that began
under the mutex; `Issue` is M-Pesa, which counts the token's life from that
moment, while the manager counts it from when the answer was read. `goodUntil`
and `slow` are history variables. The life is the one the answer names or, if
that is no number, the one the code assumes (`Fallback`). That an answer of 200
in JSON carries a token is assumed of M-Pesa: `fetchToken` does not look, and
would keep an empty one for an hour (`connector/mpesa/auth.go:80`).

### 2.8 Accounts

`otp` is the store of one-time codes, in memory; the other tables are those of
`repository/portal.go`, and each statement of a handler is one step of an agent
(`pc`, `job`). `invited`, `loggedIn` and `broken` are history variables:
`broken` holds the statements that a request broke off at, or passed over after
an error, with the account they were for, until another request makes up for
them.

| Code | Actions |
|---|---|
| `SendOTP` | `AskCode`, `SetCode`; `ExpireCode` |
| `Signup` | `Signup` (the code is right), `SpendCode`, `JoinInviter` or `NotInvited` and `CreateMerchant`, `CreateUser`, `HashRefused` (the password is over 72 bytes) or `UserExists`, `CreateMember`, `SignupUninvites`, `CreateSession`; `SignupFails` |
| `Login` | `Login`, `ClearSessions`, `LoginStores`; `LoginFails` |
| `InviteMember` | `InviteMember`, `CheckMember`, `CheckInvited`, `Invite` |
| `RevokeInvitation` | `RevokeInvitation`, `Revoke` |
| `AcceptInvitation` | `AcceptInvitation`, `ReadInvitation` or `WrongInvitation`, `Join`, `AcceptUninvites` |
| errors and restarts | `TeamFails`, `Restart` |

Requests refused before their first statement (a wrong code or password, a
missing field) leave no trace and are left out. The order of the rows is not
kept, so "the newest" invitation or user of an email is any of them.
`ResendInvitation` is left out: its upsert names a unique index that the schema
does not have, so it fails and changes nothing (see 3.2).

### 2.9 The abstract specifications

`PaymentLifecycle` is one payment: it is created, waits, succeeds only after the
PSP confirmed it or fails, and is booked only once it has succeeded.
`ImplementsLifecycle` is the refinement mapping from the orchestrator's
variables. It holds while executions about one payment do not overlap.

`DeliveryLog` is the list of deliveries a merchant sees: tries are added, each
as the first on an active endpoint or behind one that failed, and concluded
once. `ImplementsLog` maps `log` to `rows`; who posts, with which retries and
which crashes, is a stutter or a step of the log. It holds whatever fails.

`PayoutStages` is the money paid out to each merchant as it goes from the PSP's
acceptance into the payouts table, out of the balance, into and out of the
in-transit account and into the operating account. `ImplementsPayoutStages` maps
its totals to those of `posted`, `payouts` and the PSP. It holds whatever fails,
and implies `WithdrawnWasSent` and `SettledIsConfirmed`.

## 3. What the runs check

The deadlock check is on in `TokReuse`, where a caller can always go on: a mutex
that is not given back would stop it. The other runs leave it off, because calls,
callbacks and settlement runs are finite and the system simply comes to rest.

### 3.1 Runs that pass

| Run | Instance | Shows |
|---|---|---|
| `OrcCards` | 3 card payments, 2 with one key, Redis may forget it; 1 handler, 1 payer who may retry, PSP answers after the call; a fee, so 4 ledger lines | `TypeOK`; `BookedAtMostOnce`; `OneCollectionPerKey`, `RepliesAgree`; `ImplementsLifecycle` |
| `OrcMpesa` | 1 M-Pesa payment, 2 handlers, delayed query, callbacks that may overtake the creation | `MoneyNeedsVerdict`, `NotifiedAfterBooked`, `EntriesInOrder`, `CreateSparesSettled`, `QueryYieldsToVerdict` |
| `PipeWorker` | 1 card payment whose payer may retry, 2 callbacks (the failed try's is never understood), 1 worker, up to 2 handler faults, reliable stream, fairness | `PipelineTypeOK`, `AckedIsBookedUnlessFaulty`, and the liveness properties `ConfirmedIsSettled`, `KnownIsAcked` |
| `PipeFallback` | 1 M-Pesa payment with its delayed query, a stream that loses publications or confirmations, 2 callbacks, 1 fault | `AckedIsSettled`, `UsesOrchestrator` |
| `SetRuns` | 2 merchants (1 unpayable), 3 collections of 5 and 3 (the smaller without a fee), 2 runs, up to 2 faults, fairness | `SettlementTypeOK`, `PaidWasCollected`, `InTransitCovered`, `BalancedWhenQuiet`; `ImplementsPayoutStages`; the liveness property `EarnerIsPaid` |
| `DelRetries` | 2 agents, 1 event, 3 endpoints (2 active), 4 rows, 1 fault | `DeliveryTypeOK`, `DeliveredWasReceived`, `TriesAreChained`, `PendingIsBeingSent`, `EveryEndpointTried`; `ImplementsLog` |
| `NotRetries` | 2 notices, one for an endpoint that never accepts; 5 refusals of the other, 2 faults, 1 late redelivery, 1 change of a URL, fairness | `NotificationTypeOK`, `AckedIsHeard`, `OnceUnlessTroubled`, and the liveness property `LiveMerchantsHear` |
| `AdmFlow` | 2 callers, a phone and an email, 3 calls, limit 2 in a window of 2; threshold 2, cooldown 1, 3 reports, clock to 4 | `AdmissionTypeOK`, `WindowHolds`, `LeftOutWhileFailing` |
| `TokReuse` | 3 callers, tokens that live 4 or 5, margin 1, clock to 14 | `TokensTypeOK`, `TokenUsable`, no deadlock |
| `AccTeam` | 2 requests at a time, 6 in all; a founder, a second email, 1 phone, 3 merchants, 2 invitations, 1 fault, any number of refused passwords | `AccountsTypeOK`, `JoinedWasInvited`, `WholeUnlessBroken` |

### 3.2 Runs that find a disagreement

Each checks one sentence of the repository's documents (quoted under `findings`
in `PROJECT.json`) and ends in a counterexample.

| Run | Sentence | What the code does |
|---|---|---|
| `OrcQueryDoubleBooking` | a success posts its entries once | callback and delayed query both post it |
| `PipeCrashUnbooked` | every success is posted | after a crash the redelivery is dropped, unbooked |

Five more sentences are stated as properties that no run keeps, because the
counterexample is short and the instance of another run, or a small change of
it, shows it. Put the property into a configuration of the instance named and
TLC refutes it:

| Property | Instance | Sentence | What the code does |
|---|---|---|---|
| `ReplayReturnsOriginal` | `OrcCards` with 2 payments of one key | a replayed key returns the original (`readme.md:337`) | it can fail on the unique index (`orchestrator/engine.go:210`) |
| `OnlyAppliedIsDispatched` | `PipeFallback` | an ignored event is only logged (`architecture.md:503`) | the merchant's endpoint is told of it (`webhook/processor.go:158`) |
| `FailureIsApplied` | `PipeWorker` | `charge.failed` makes a payment failed (`implementation.md:614`) | Paystack's connector does not know it (`connector/paystack/connector.go:361`); the payment waits for ever |
| `PaidWasCollected` | `SetRuns` with 1 merchant, `k1` and `k2`, `Payee <- PaidToOne`, `Currency <- SomeForeign`, `FeeMinimum = 1`, no faults | balances are summed per currency (`architecture.md:527`) | the sum of all currencies is paid in one (`repository/ledger.go:85`) |
| `FailedIsRetried` | `Delivery` with `FairDelivery`, 1 agent, 1 endpoint | a failed delivery is retried (`readme.md:350`) | `next_retry_at` is stored and nothing acts on it (`repository/webhookdelivery.go:95`) |

The models contain more disagreements of the same kinds. They limit where a
property above holds, and anyone can see them by widening the instance named:

* With callbacks that overtake the creation (`EarlyVerdicts = TRUE`) its last
  write turns failed into requires_action (`orchestrator/engine.go:330`), which
  is no step of `PaymentLifecycle`; `architecture.md:512` has the state machine
  guard every transition. A success that comes before it is ignored as an invalid
  transition and acknowledged, so `AckedIsSettled` is false in `PipeFallback`
  with this constant.
* In `PipeFallback` a publication that is stored but not confirmed is handled
  twice at once (`api/webhook.go:118`) and may be booked twice, so that run does
  not check `BookedAtMostOnce`.
* A message that no handler can deal with is refused and redelivered for ever
  (`webhook/processor.go:140`); `KnownIsAcked` therefore speaks only of messages
  that the connector understood and that have an attempt.
  `implementation.md:892` wants a dead letter queue.
* When a statement after `InitiatePayout` fails (`settlement/runner.go:142`,
  `146`) the transfer is under way and the ledger does not have it. The next run
  pays the balance again, so `PaidWasCollected` holds only while nothing failed.
* A collection whose posting stops half-way leaves the books unbalanced, because
  its inserts share no transaction (`repository/ledger.go:24`); hence
  `broken = {}` in `BalancedWhenQuiet`.
* A transfer that Paystack accepts without completing it stays in transit: the
  completion is posted only when `InitiatePayout` itself says so
  (`settlement/runner.go:152`).
* A delivery whose outcome could not be stored stays pending for good
  (`webhook/dispatcher.go:170`, `184`), and only failed ones can be retried;
  hence `faults = 0` in `PendingIsBeingSent` and `EveryEndpointTried`.
* A notice for an endpoint that never accepts is stored and posted again at
  each of its endless redeliveries (`notification/dispatcher.go:120`); hence
  the condition on `rows` in `OnceUnlessTroubled`, and `Dead` in
  `LiveMerchantsHear`.
* The circuit breaker never opens in the program as it is: nothing reports a
  failure to it (`routing/circuitbreaker.go:43`).
* Resending an invitation always fails: `ON CONFLICT (merchant_id, email)` needs
  a unique index that `migrations/000002_portal_tables.up.sql` does not create.
* A sign-up that ends after its code was spent leaves a merchant without a user
  (`api/portal.go:395`). It takes no failed statement: bcrypt refuses a password
  over 72 bytes, which is hashed only after the merchant was inserted
  (`api/portal.go:427`). `WholeUnlessBroken` therefore excepts the accounts
  whose own request broke off, and says that no other is harmed. One of two
  overlapping sign-ups with one code can end as "exists".

### 3.3 Bounds, and why they are enough

* **One to three payments.** Payments share no row; they meet only through an
  idempotency key, and the races there are between two calls (`OrcCards` adds a
  third call without a key).
* **Two handlers.** Every race in `HandleWebhookEvent` is between one stale
  handler and whatever else changed the row; the second handler, the delayed
  query and the creation are all there in `OrcMpesa`.
* **Two or four ledger lines.** The code has exactly these two lengths.
* **Two callbacks** give a repeated outcome, or two different ones of a payer
  who tried twice. `MaxFaults` bounds failures; each property that a fault can
  break is already broken by one, so two show that the others hold beyond that.
* **Two settlement runs, three collections**: a second run sees what the first
  one left, a merchant can exceed the maximum payout, and collections can be
  posted before, during and between the runs.
* **Four delivery rows**: the first tries at both endpoints and two repeats, or
  the same event dispatched twice; two agents can retry one row at once, and a
  retry can meet a dispatch. A third endpoint is inactive.
* **Two notices** for a merchant that answers and one that never does: the only
  thing they share is the consumer. Five refusals exceed the four posts of one
  delivery, so the working merchant's notice is refused and comes back; three
  places in the buffer hold both notices and a repeat.
* **Three calls, two callers**: with a limit of two the third attempt is the
  first to be refused, two callers can be between their phone and their email at
  once, and a clock to 4 lets a window of 2 pass twice. Three reports open a
  breaker whose threshold is 2, and fail or succeed once more.
* **Three callers of the token**: one fetches, one waits, one finds it cached;
  a clock to 14 covers nearly three lives.
* **Six portal requests, two at a time**: to ask for a code, sign up, invite,
  ask and sign up again, accept. Two invitations and one phone make two sign-ups
  meet over one code, and an invitation meet an acceptance of it.
* Handlers, callbacks, callers and agents are interchangeable, and so are the
  two free merchants, hence the symmetry in `OrcMpesa`, `PipeFallback`,
  `DelRetries`, `AdmFlow`, `TokReuse` and `AccTeam`; no run that checks liveness
  uses symmetry.

### 3.4 Fairness

`FairPipeline` assumes that the worker's loop goes on (weak fairness of its
steps and of `Release`) and that the server keeps redelivering each
unacknowledged message (strong fairness of `Take`: the worker is busy again and
again, and free again and again). Both are what a running worker and a
JetStream consumer without a delivery limit do. Nothing is assumed of HTTP
handlers, of the PSP or of the delayed query, which may die. `FairSettlement`
assumes only that a run that was started goes on while it does not die.
`FairDelivery` assumes that a goroutine that posts goes on unless it dies;
nothing makes a user of the portal ask for a retry. `FairNotifications` assumes
that the consumer goroutine runs (weak fairness of `Consume`), that the stream
delivers what is due and notices what a client lost (weak fairness of `Deliver`
and `ExpireLost`); nothing is assumed of redeliveries to a client that still
holds a copy. `Admission`, `Tokens` and `Accounts` assume no fairness.
Infinitely many failures are excluded by `MaxFaults`: a worker that fails for
ever settles nothing.

## 4. What is proved

The theorems hold for any number of requests, handlers, keys, callbacks,
merchants, collections and faults, unless an assumption is named. All proofs
are by an inductive invariant; each proof module states its own. The refinements
map every step of the detailed specification to a step of the abstract one or
to a stutter.

| Module | Theorems | Argument |
|---|---|---|
| `OrchestratorProofs` | `TypeCorrect`, `NoMoneyInvented`, `CollectsOncePerKey`, `AnswersAgree`; `CreationIsHarmless`, `QueryIsHarmless`, `NotifiesAfterBooking`; `BooksInOrder`; `BooksOnceWithoutOverlap`, `SuccessIsFinalWithoutOverlap`, `LifecycleWithoutOverlap`, `TransitionsAreValid`, and their corollaries `BooksAtMostOnce`, `SuccessIsFinal`, `OrchestratorImplementsLifecycle` | `Typed` adds to `TypeOK` what each step may assume of its local variables (a handler past the lookup has a payment and an event, a query works on its own payment). Every write of "succeeded" carries an event, and events come from `verdicts`. `IntentsSound`: a call past the insertion has its row, and no two rows share a key; so only one call with a key gets that far, and what Redis stores for the key is that call's intent. `CreationSound`: before `MarkWaiting` the intent is only created or failed, and no success can be under way, because the state machine accepts one only from requires_action or processing. `PostingSound`: an agent that posts has posted all the earlier lines. `BooksInOrder` counts executions: an entry is in the ledger as often as the one after it, plus the executions (a finite set, of that cardinality) that have posted the one and not the other. The theorems without overlap hold of any number of handlers and queries, in every behaviour in which no two executions are between judging a transition of one payment and the last entry (`NoOverlap`): then the status an execution judged is still there when it writes, and entries exist only for succeeded intents, or up to the line the one execution is at. If none of them settles a payment whose creation is still under way (`AfterCreation`), each step is a step of `PaymentLifecycle` or a stutter; `TransitionsAreValid` follows from that. `OneHandler` and `NoQueries` give `NoOverlap`, and `LateAnswers` gives `AfterCreation`; so the corollaries need no condition on the behaviour |
| `PipelineProofs` | `PipelineUsesOrchestrator`, `AcknowledgesSettled`, `AcknowledgesBooked`, `PipelineTypeCorrect`; `PipelineBooksAtMostOnce`, `PipelineSuccessIsFinal`, `PipelineImplementsLifecycle` | Each outcome in a callback, a message or a handler was announced; so `Take` and `PublishFails` are instances of `Deliver`. With `LateAnswers` a handler that returns without an error has found, or made, the payment settled. `WorkerSound`, under `NatsReliable` and `NoQueries` as well: the worker is alone, a success it settles or books is not acknowledged yet (the state machine accepts it only while the payment waits, and a payment waits only after its creation returned), and while nothing failed the only settled success that may lack entries is the one at hand. With a reliable stream and no delayed query only the worker ever handles an event (`OnlyWorker`), so the pipeline keeps executions apart for any number of callbacks and the theorems without overlap apply to it. |
| `SettlementProofs` | `SettlementTypeCorrect`, `WithdrawsOnlySent`, `SettlesOnlyConfirmed`; `PaysOnlyCollectedInAll`, `PaysOnlyCollected`, `InTransitIsCovered`; `BalancesWhenQuiet`; `SettlementImplementsStages` | `RunnerSound` ties the run's local variables to where it is, `MoneySound` says for each merchant how far the ledger, the payouts table and the PSP may be apart at that point. `OnTime`, before the first failure: each total is exactly the one before it, but for what the run has yet to add; the balance only shrinks by a collection's fee after its credit. `PaysOnlyCollected` also assumes one currency (it is false without, see 3.2), `PaysOnlyCollectedInAll` compares with the credits of all currencies instead. `Paired`: what was debited by collections and not yet credited is the number of units of the collections that are between the two entries. A sum over a set would need induction; the cardinality of the set of these units does not, because a step adds or removes the units of one collection. At rest the set is empty, hence the balance. `StagesSound`: what the run is about to add to a stage is already in the one before. |
| `DeliveryProofs` | `DeliveryTypeCorrect`, `RecordsOnlyReceived`, `ChainsTries`, `OutcomesAreFinal`; `DeliveryImplementsLog`; `SendsWhatIsPending`, `TriesEveryEndpoint` | `DeliverySound`: the row at hand of an agent is pending, is its own, and was received if the agent holds "delivered"; an agent on a repeat knows the failed row behind it. So the unconditional `UpdateStatus` only ever meets a pending row, and each step is a step of `DeliveryLog` or a stutter (`FirstsActive`: a dispatch has listed only active endpoints). `UndisturbedSound`, while nothing failed: a pending row has its sender, a dispatch has tried every endpoint before the one it is at, and one that returned has tried them all. |
| `NotificationProofs` | `NotificationTypeCorrect`, `AcknowledgesHeard`; `CalmMeansOnce` | The consumer is at "ack" only when the endpoint accepted the notice at hand, or when its look-up found no URL; what was acknowledged stays heard or unwanted. `CalmSound`, while nothing failed, was refused or came late: a notice for a working endpoint is in exactly one of the stream, the client's buffer, the consumer's hands and the acknowledged ones, and how often it was stored and heard follows from which. |
| `AdmissionProofs` | `WindowNeverOverfull`, `LeavesOutWhileFailing`, `AdmissionTypeCorrect` | `WindowSound`: attempts are in the order of their times, what the engine forgot has left the window, and an attempt and the one `MaxAttempts` later are a window apart. When an attempt is counted fewer than `MaxAttempts` are remembered, so one of the last `MaxAttempts` attempts is forgotten, and the earliest of them is a window away. `BreakerSound`: an open breaker knows its last failure and has failed `Threshold` times; one that is closed has counted fewer than that, and those before had left the cooldown when it was closed. |
| `TokensProofs` | `TokensTypeCorrect`, `TokensAreUsable` | `LateByMargin`: the manager is at most a margin late about the end of the cached token, unless its fetch took longer than the margin; it stops using the token a margin before. |
| `AccountsProofs` | `AccountsTypeCorrect`, `JoinedByInvitation`; `RestsWhole` | `AccountsSound`: what a request read stays true while it works, because nobody who was invited is ever taken from the history and no merchant or user is deleted (`Grows`); at each statement the request's merchant and email are those of a founder, of an invitation that was there, or of a user. `Following`, whatever fails: a merchant without a user, a user outside its team and a token without a session each have a request under way that will add what is missing, or one that broke off at the statement that would have. |

The conditions are needed: `OrcQueryDoubleBooking` is a behaviour in which two
executions overlap and a collection is booked twice, and 3.2 names one that
leaves the lifecycle because the callback overtakes the creation. The constants
that exclude them, `OneHandler`, `NoQueries` and `LateAnswers`, describe
deployments the program supports (one worker, card payments, a PSP slower than a
database write); `NoOverlap` and `AfterCreation` say of any deployment what has
to be kept apart for the code to be correct; no lock or condition in the code does.

`NatsReliable` is needed for the theorems on the pipeline that name it: when the
confirmation of a publication is lost, the HTTP handler settles the payment
itself while the worker takes the same message. Both may book it, or the worker
finds the payment succeeded and acknowledges it before the handler has booked it.

**Only model-checked**: the liveness properties (`ConfirmedIsSettled`,
`KnownIsAcked`, `EarnerIsPaid`, `LiveMerchantsHear`), because fairness is beyond
the prover. Every other property that a run checks is a theorem.

## 5. What is not modelled

* HTTP, JSON, signatures, authentication, telemetry and wiring: no state that
  any property here depends on.
* The webhook dedup store in Redis: it is written and never read.
* Reconciliation: it compares and logs, and changes nothing.
* Refunds and payout reversals: the ledger has postings for them, and nothing
  calls these.
* Expiry of intents and the statuses processing, expired and refunded: no code
  writes them, though the transition table knows them.
* Payouts requested in the portal (`api/portal.go:831`): a pending row that
  nothing executes.
* API keys, notification preferences, customers, saved lists, workspace settings
  of the portal: rows that one statement writes and others read. The preferences
  are read, merged and written back, so one of two overlapping changes can be
  lost; nothing in the code depends on it.
* `ResendInvitation`, which always fails (3.2), and the end of a session's life,
  after which the user has to log in again.
* Checkout sessions: a row per session, read by its id.
* `SetConfig` of the router, `ScheduleRetry` and `DueForRetry` of the deliveries:
  no code calls them.

## 6. Plan

Done, in this order: `PaymentStates`, `PaymentLifecycle`, `Orchestrator`,
`WebhookPipeline`, `Ledger`, `Settlement`, `Delivery`, `Notifications`,
`Admission`, `Tokens`, `Accounts`, `DeliveryLog`, `PayoutStages`, and the proofs of
section 4.

Left:

1. The composition of `WebhookPipeline` with `Delivery`, so that the rows a
   merchant's endpoint is sent are bounded by what the PSP announced. The two
   meet in one call, `Dispatch`; each promises its side of it today.
2. An abstract notice board that `Notifications` implements, as `DeliveryLog` is
   for `Delivery`, and one of who belongs to a merchant for `Accounts`.
3. The settings of the portal that are read, merged and written back.

The runs stay few: a run that finds a disagreement is given up for a new one
when the sentence it refutes is settled, or when the new one tells more.
