# SettleFlow: a TLA+ verification project

SettleFlow is a payment platform: an HTTP API records payments, captures and
refunds them against an execution provider, posts double-entry ledger
transactions and writes an outbox; a worker publishes the outbox to RabbitMQ,
projects the events into settlement positions and webhook deliveries, signs and
sends the webhooks, and reconciles provider reports. PostgreSQL is the only
durable store; every guarantee comes from its transactions, row locks, unique
indexes, triggers and leases, and from the order in which the TypeScript code
uses them. That is what these modules model.

## 1. Inventory

Paths are relative to `src/packages/modules/` unless they start with `apps/`,
`packages/` or `prisma/`.

| Component | State it keeps | Operations | Talks to |
|---|---|---|---|
| Idempotency (`idempotency/`) | `idempotency_keys`: state, owner token, 30 s lease, 24 h expiry, request hash, stored response | `acquire` (insert, replay, take over, refuse), `complete` (one transaction holding the command's own writes) | every command of the API |
| Payments (`payments/`) | `payment_intents`, `refunds`: status, amounts | `create`, `capture`, `refund`, `get` | idempotency, provider, ledger, eventing, audit |
| Payment execution (`payments/src/payment-execution.ts`) | none (external) | capture, refund: approve, decline, fail | payments |
| Ledger (`ledger/`) | accounts, transactions, entries; deferred balance trigger, immutability triggers | `provisionAccounts`, `postCapture`, `postRefund`, `postSettlement`, `reverse` | payments, settlements |
| Outbox and relay (`eventing/`) | `outbox_events`: published_at, available_at, lease, attempt_count, locked_by | `append`, `claimPending`, `publishBatch`, `finalize` | every writer of events; publisher |
| Publisher (`eventing/src/rabbitmq-outbox.publisher.ts`) | one confirm channel, the batch awaiting confirms | publish, confirm, nack, return, timeout, close | broker |
| Consumers (`eventing/src/rabbitmq-*.consumer.ts`) | one channel per consumer, in-flight deliveries; in the broker, quorum queues that count what they take back, and dead letters | handle, ack, dead-letter, invalidate, reconnect | inbox, webhook and settlement projections |
| Inbox (`eventing/src/inbox.service.ts`) | `inbox_messages`: one row per consumer and message | `process`: insert the row and run the effect in one serializable transaction | consumers |
| Settlements (`settlements/`) | streams, positions, pending adjustments, batches and their items | event projection, settlement run, lifecycle projection, reads | payments, ledger, idempotency, outbox |
| Webhook projection (`webhooks/src/payment-created-webhook-projection.service.ts`) | webhook events and deliveries | project one event of any type into deliveries of the subscribed endpoints | inbox |
| Webhook delivery (`webhooks/src/webhook-delivery.service.ts`) | deliveries (claim token, lease, attempt count), attempts | recover expired, claim due, start attempt, send, finalize | endpoints, HTTP client |
| Webhook HTTP client and URL policy (`webhooks/src/node-webhook-http-client.ts`, `node-webhook-url-policy.ts`) | requests under way | one result per request, abort at shutdown; normalize and resolve a URL | webhook delivery, webhook endpoints |
| Webhook endpoints (`webhooks/src/webhook-endpoint.service.ts`) | endpoint, version, subscriptions, encrypted secret and its overlap | create, patch, rotate | audit |
| Reconciliation (`reconciliation/`) | imports, rows, results, summaries; 30 s claim lease | `stage`, `claimAndProcess`, classification, reports | payments, settlements and ledger readers, outbox |
| Merchant access (`merchant-access/`) | merchants, API keys, scopes; in each process a bounded cache of verified credentials and the derivations under way | authenticate, issue, disable, revoke, rotate | API guard |
| Operations (`operations/`) | `audit_logs` | append | every command |
| Worker runtime (`apps/worker/src/runtime/`) | timers, operations in flight, stopping flag | start, cycles, shutdown | relay, delivery, reconciliation, consumers |
| API requests (`apps/api/src/*/*.controller.ts`, validators and parsers) | none | check headers and bodies in an order of their own, read amounts exactly, answer in pages | services |
| Error filter (`apps/api/src/http/problem-details.filter.ts`) | none | the status of every error | all routes |
| Event contracts (`eventing/src/*-event.ts`, message validators) | none | build rows, serialize, accept | outbox, publisher, consumers |
| API application (`apps/api/src/`) | none but readiness | wiring | services |
| Infrastructure (`packages/infrastructure/`) | connection pools, ULID counter | transactions, error classification, telemetry | all |

### What is hard, and what makes each component correct

- **A command under an idempotency key.** Two API processes run the same key at
  once; leases expire while a request is alive; a transaction is restarted;
  a commit succeeds and its acknowledgement is lost; a process dies after the
  provider was asked. Correct: the effect happens at most once, the answers
  given under a key all agree, and the stored answer is the one of the effect.
- **Payments.** A capture and a refund, or two refunds under different keys, of
  one payment. Correct: money refunded never exceeds money captured, each
  captured or refunded amount has exactly one balanced ledger transaction,
  one refund row and one event, and the status is a projection of the amounts.
- **Outbox to inbox.** A relay dies between publish and finalize, a lease ends
  during a publish, a confirm arrives late, a consumer dies between commit and
  ack, a queue takes a message back once too often. Correct: an event is never
  marked published unless the broker had it, every committed event finally has its
  effect at each consumer, exactly once, or lies in its dead letters.
- **Settlements.** A run reads current payment rows while the events it is
  driven by are late, duplicated or out of order; refunds arrive after the batch.
  Correct: each payment is settled at most once, and each refund of a settled
  payment is deducted exactly once: in the item's snapshot or as an adjustment.
- **Webhook delivery.** The lease of a slow attempt ends and another worker
  takes the delivery over; the endpoint is disabled or its secret rotated in
  between. Correct: one active attempt at a time, seven at most, no attempt's
  outcome overwritten by a stale worker, every delivery ends with a history
  that has no gap and no duplicate.
- **Event contracts.** Writers, publisher and consumers check events in code
  written apart. Correct: what a service may write passes the publisher, and
  what the publisher sends is accepted by each consumer of its type; anything
  else is retried for ever or dead-lettered.
- **Reconciliation.** A claim's lease ends while the import is classified, one
  file is uploaded twice at once, an import is too heavy for its transaction.
  Correct: one import per file, one set of results and one event per import;
  each platform fact is used by one row at most, totals and pages account for
  all of them; a heavy import does not starve the others for ever.
- **Webhook endpoints and merchant access.** Clients race on one endpoint under
  a version they read earlier, operators retire the key they use, and a
  rotation's answer, the only one that shows the new secret, is lost. Correct:
  each version has one author whose key allowed the change, a key is replaced
  once, and a receiver keeps a secret it can verify with.
- **API requests.** Bodies repeat keys under several spellings, amounts are
  written in several ways, pages are read while rows are added. Correct: an
  amount is read exactly or refused, two bodies that mean the same give one
  command, a reader who follows the cursors sees each row once.
- **Worker shutdown.** Cycles and deliveries in flight while the process stops,
  among them claims whose cycle has already failed. Correct: nothing new starts
  after shutdown begins, dependencies close after the operations that use them,
  except where a drain times out or, as section 4 shows, nothing drains, and it ends.

## 2. Modules and plan

The order followed what would hurt most if it were wrong: money moved twice or
not at all (idempotency, payments, ledger), then facts lost or applied twice on
their way out (outbox, inbox, contracts), then money paid out wrongly
(settlements), then what merchants are told (webhooks), then reconciliation, the
control plane, the worker and the reading of requests.

| Module | Models | Composes or implements |
|---|---|---|
| `IdempotencyStore` | one `idempotency_keys` row and the decisions of `acquire` on it | |
| `CommandOnce` | the promise: one decision and one effect per key, all answers equal | abstract |
| `IdempotentCommands` | acquire, provider call, completing transaction with locks, retries, lost commits, crashes | implements `CommandOnce` |
| `LedgerEntries` | the entries of capture, refund, settlement and reversal as functions from account to signed amount | |
| `Ledger` | the ledger service: provisioning and posting as functions of the tables, the triggers and unique keys | extends `LedgerEntries` |
| `PaymentBook` | what payment commands write, each command one atomic step | abstract; implements `PaymentFacts` |
| `PaymentCommands` | create, capture and refund inside the completing transaction | extends `IdempotentCommands` and `PaymentBook`; implements both and `PaymentFacts` |
| `EventContracts` | rows, messages and the checks of publisher and consumers | |
| `EventQueues` | the broker's queues, which relays fill and consumers empty | |
| `OutboxRelay` | outbox rows, relay cycles, confirm channel, broker | |
| `InboxConsumers` | consumers, channels, serializable inbox transaction, delivery limit, dead letters | |
| `EventOnce` | the promise: an event takes effect at most once per consumer | abstract |
| `EventDelivery` | relay and consumers over shared queues | composes the two; implements `EventOnce` |
| `PaymentFacts` | captured, refunded and announced amounts, as other modules see them | abstract |
| `Settlements` | projection of payment events and settlement runs, over `PaymentFacts` | extends `PaymentFacts`, `LedgerEntries` |
| `WebhookProjection` | what a projected event adds to the webhook tables, identifier collisions, redelivery | extends `EventContracts` |
| `WebhookDelivery` | claim, start, send, finalize and recover a delivery | |
| `WebhookHttp` | URL policy, HTTP client, classification of results | |
| `WebhookEndpoints` | registration, patch and rotation under `If-Match`, secrets, audit | extends `WebhookHttp`, `ProblemDetails` |
| `MerchantAccess` | keys, their cache and shared derivations, operators | |
| `ProblemDetails` | the status of each error | |
| `ControlPlane` | a request from its key to its answer | composes `MerchantAccess` and `WebhookEndpoints` |
| `ReconciliationMatching` | classifier, summaries, report pages | |
| `Reconciliation` | staging, claim lease, guarded transaction, reports | extends `ReconciliationMatching` |
| `JsonBodies`, `ApiRequests` | the scan for repeated keys, exact amounts, and what the controllers accept | |
| `Pages` | batches, reports and endpoint lists read page by page | instantiates `ReconciliationMatching` |
| `WorkerRuntime` | cycles, the claims of a delivery cycle, connections and shutdown of a worker | |
| `IdempotentCommands_proofs` | theorems about `IdempotentCommands` | |
| `LedgerEntries_proofs` | theorems about `LedgerEntries`, and the lemmas on sums over finite sets | |
| `PaymentCommands_proofs` | theorems about `PaymentBook` and `PaymentCommands` | extends the two above |
| `Settlements_proofs` | theorems about `Settlements` and `Ledger` | extends `LedgerEntries_proofs` |
| `EventDelivery_proofs` | theorems about `OutboxRelay`, `InboxConsumers`, `EventDelivery`, `EventContracts`, `WebhookProjection` | |
| `WebhookDelivery_proofs` | theorems about `WebhookDelivery` | |
| `Worker_proofs` | theorems about `Reconciliation` and `WorkerRuntime` | |
| `ControlPlane_proofs` | theorems about `MerchantAccess`, `WebhookEndpoints`, `ControlPlane` | |
| `MC*` | constants for TLC, and evaluations of operators over bounded inputs | |

`PaymentFacts` is the joint between the two halves: `PaymentCommands` is proved
to implement it, and `Settlements` uses nothing else of payments.
`EventContracts` is the joint between writers and consumers, and between
`InboxConsumers` and `WebhookProjection`.

Every invariant that a passing run checks is a theorem. What the plan has left: the
settlement runs under their idempotency key, with `Settlements` in place of the
book in `IdempotentCommands`, as `PaymentCommands` does for payments.

## 3. How the modules correspond to the code

`PROJECT.json` maps every definition to the lines it stands for. The rules are
the same everywhere:

- A database transaction that takes its row lock first and never waits again is
  one step. One that can be overtaken between two statements is cut there:
  `complete` at its lock, a settlement run at each of its locking statements,
  `startAttempt` between its locked read and its update, the serializable
  projections at their snapshot, a key rotation between its read and its update.
- Read-committed statements read the current rows; a serializable transaction
  reads the snapshot it began with and fails if a row it must change or refer to
  has changed. That includes foreign keys: the `FOR UPDATE` and later update of
  a payment row makes the reference check of a position written under an older
  snapshot fail, which is what keeps a capture projection from racing a refund.
- `SKIP LOCKED`, `ORDER BY` and `LIMIT`, where no property depends on the order,
  choose any subset of the unlocked candidates; the relay's order is kept as
  `line` (the pairs of due events of which one goes before the other), because whether a poisonous event starves others depends on it, and so
  is that of the imports a reconciliation worker claims.
- Time is an integer clock for idempotency leases, whose expiry is compared
  across processes, ticks for reconciliation leases, and elsewhere the event
  "this lease ended" or "this became due". A lease that ends under a live holder
  is always possible.
- UUIDs and ULIDs are tokens of finite sets; a token held nowhere can be drawn
  again. Amounts are integers, with the largest safe one as a constant.
- Lost connections, crashes, broker faults and expiries under live holders are
  actions, bounded by a counter (`MaxFaults`, `MaxUpsets`, `MaxIncidents`).
- Code that runs inside another's transaction and keeps no state between calls
  (ledger, contracts, webhook projection, URL policy, parsers, page reads) is
  operators, from tables or requests to results.

### Idempotent commands

A *slot* is one client conversation: it sends its command under its key and
sends it again until the answer is final. `rows` is the table; `pc`, `token`,
`now`, `goal`, `attempt`, `ident`, `answer` are the locals of the request being
served. `acquire` is one step (one short transaction), the provider call is a
step, and the completing transaction is cut at its lock (`LockOwnedRow`), so that the
lease can expire, the key be taken over and the process die between. A commit
may succeed without its acknowledgement. `PaymentCommands` fills the domain
operation in: the payment row is locked and read, the command validated, and
refund, ledger transaction, payment row and event written with the key.

### Outbox, broker, inbox, contracts

`OutboxRelay` keeps a row's state (`outbox`, `line`, `holder`, `leased`), the
relay's batch and what became of each publish (`onWire`, `acking`, `confirmed`),
and the broker's `queues`, declared in `EventQueues`. `InboxConsumers` keeps the channels, the deliveries
in hand (slots), the inbox and the effects. When a channel ends its messages go
back to the queue while the handlers go on without it; they may no longer
acknowledge. The queues are quorum queues, which count what they take back:
`requeued` keeps the copies that were returned once, twice and so on, and a copy
that is returned `DeliveryLimit` + 1 times goes to the dead letters, since the
queues name a dead-letter exchange and no limit of their own
(`rabbitmq-topology.ts:78-110`), so that the broker's default of 20 holds. Dead
letters carry their reason, `"rejected"` or `"delivery_limit"`. The two consumers
differ as in the code: the webhook consumer dead-letters after exhausted retries,
the settlement consumer drops its channel.
`EventContracts` says which rows are unserializable and which messages are
malformed: `MCEventDelivery` computes `Unserializable` and `Malformed` from it.
A contract-invalid message can also make the code throw before it is judged (an
operational event whose `occurredAt` is no date): the verdict `"fails"`, after
which the message returns instead of being dead-lettered.

### Settlements

Handlers project events under a snapshot; a run goes through its statements
(stream, candidates, payments, adjustments, batch) holding locks. A run takes
any subset of the admissible candidates up to the limit, which stands for cutoff,
limit and `SKIP LOCKED`. Initial states are a merchant that is new and every
state the migration's backfill can leave: any history of refunds before it
(`RefundHistory`), one position per captured payment dated by its latest event,
and any part of those events projected since, the rest lost or still to come. A failed projection (`ProjectionFails`)
stands for serialization failures and for crashes alike.

### Webhook deliveries

`row` holds status, count, active attempt, claim token, whether the lease has
ended, and whether the next attempt is absent, later or due. A slot's `job` is
`processClaim` between two awaits. Requests are sent outside transactions;
`accepted` is what the receiver took, whatever the dispatcher learned of it.
`WebhookHttp` is the inside of such a request: a sequence of callbacks
(response, data, end, error, deadline, abort) of which the first that settles
it decides, and the outcome the dispatcher records for it.

### Reconciliation

A request parses its file, looks for an import of the same checksum and creates
one, each a step of its own, since two uploads of one file race between them
(`CreateCollides` is the unique index, which sends the request back to its
look-up). A worker's `Claim` is a short transaction that sets a lease, `Read` is
the snapshot in which the platform's records are read, and `Finish` writes
results, summaries and event, guarded by the owner and status it wrote earlier.
Facts go on being recorded meanwhile. Matching is a function of rows and
evidence, held in the run against a declarative reference. A tick is much
longer than a worker's polling interval, so time stands while an idle worker has
an import to claim; an import that is not heavy outlasts its lease only as a fault.

### Control plane

`auth[r]` is `MerchantApiKeyGuard` for one request: the look-up, the wait for a
shared derivation, the scopes. `cache` and `inFlight` are the two maps of
`ApiKeyCredentialService`. `command[r]` is the request inside the endpoint
service; the rotation's encryption happens before its transaction, for a version
read earlier. A command's secrets are named by their version, and `heard` is
what a merchant was shown, which is less than what was committed when an answer
is lost. `ControlPlane` runs one after the other and answers every error by
`descriptor`.

### API requests

A request is a record of what the checks can tell apart. A number is its token,
negative sign, digits and exponent apart, since `exactSafeIntegerFromToken`
shifts digits and never uses floating point. Keys of a body are characters,
because the scan for repeated keys is a state machine over characters that must
agree with `JSON.parse`. Settlement runs read their body with `JSON.parse` alone,
so a repeated key is accepted there and its last value taken. A page read is a
function from the tables of its moment to rows and a cursor.

### Worker

`cycle`, `wait`, `link`, `closing`, `handling` are the fields of
`WorkerRuntimeService` and of the two consumers. The work of a delivery cycle is
that of its `claims`, which run at once under a `Promise.all`: the first that
throws ends the cycle (`DeliveryFails`) and makes the others `strays`, which no
field knows of. A relay's publishes report their outcome and throw nothing, and
its finalizations come one after the other, so that a relay cycle that fails
leaves nothing at work; a reconciliation is one transaction at a time. `collecting`
is a collection of operational metrics, which the shutdown awaits before it looks
at what is in flight. The shutdown's `Promise.all`
is a state in which each wait ends by its operation or by its timer; what follows
it (abort of requests, close of publisher, of database) are states of `app`. The
two consumers differ where the code does: only the projection's looks, after
connecting, whether it was stopped.

## 4. What is checked

| Run | Instance | Question |
|---|---|---|
| `idempotency` | three conversations on one key, two of them with the same request; clock to 2, two faults | one effect, equal answers, kept leases, refinement of `CommandOnce`, and an answer for every client that keeps asking |
| `payment_capture` | two creations and two captures under four keys | one transition per effect; rows read under lock stay current; refinement of the protocol |
| `payment_refund` | a capture, one refund under two keys and a second one that exceeds the capture together with it | ledger, payments and events agree; every step is atomic on the books |
| `outbox_relay` | two relays, three events of which two never serialize, batches of two, two faults | published means routed; the healthy event is published in the end |
| `inbox_consumers` | two webhook deliveries on one channel, a settlement delivery on another, one malformed event, two faults, queues that take a copy back once | no message is lost: it is ready, in hand, applied or in the dead letters |
| `event_delivery` | one relay and three consumers, one event for two queues, one fault and two upsets, queues that take a copy back once | the whole path implements `EventOnce`; the effect comes in the end |
| `settlements` | a new merchant or one from before the migration, with refunds in one step or several; one payment of up to 3 minor units with two handlers and two runs, or two payments handled in turn; a batch limit and an overflow limit that bite | each refund counted once; positions converge; batches add up; what is payable is conserved |
| `settlement_backfill` | one payment backfilled by the migration | expected violation, see below |
| `webhook_delivery` | one delivery of up to three attempts, two slots, four upsets | numbered history, status and claims agree with it, the delivery ends |
| `reconciliation` | five uploads of three files, two workers, two faults, one file that is too slow and one that overflows, a fact recorded late | reports account for everything, one import per file, one report per import, processing goes on |
| `control_plane` | ten requests, four of which race on one endpoint and one has a forged secret; operators replace, retire and issue keys; a cache of one; one disturbance | authorised changes, one author per version, one replacement per key, no unneeded derivation, a usable secret |
| `worker_runtime` | one worker with one message per consumer, two claims per delivery cycle and one upset | work is cut only after its drain, with two exceptions; the shutdown ends, and without one everything goes on |

Operators that are functions of their inputs are evaluated by assumptions of the
`MC` modules, each over a bounded set of inputs:

| Module | Assumptions | Inputs |
|---|---|---|
| `MCEventDelivery` | writers and publisher agree and consumers accept (`WrittenIffSerializable`); a tampered message is refused (`TamperedIsRefused`); one delivery per subscribed endpoint and no conflict on redelivery (`ProjectedOnceEach`) | every event type, inputs with up to two fields at fault |
| `MCSettlements` | the ledger's operations leave tables the database accepts, and every result occurs (`LedgersCommit`) | tables that four operations reach |
| `MCWebhookDelivery` | a request has one result, the deadline and a shutdown are retried (`RequestsEndOnce`); what it came to can be recorded (`ResultsAreRecordable`) | requests of up to four callbacks, statuses at each boundary |
| `MCApiRequests` | amounts are exact, repeated keys are found, requests become commands or the right error, pages show every row once even while endpoints are registered, cursors are not exchanged | amounts up to 31, bodies with up to two faults, tables of up to five rows |

Why the bounds are enough. A race on a key, a row or a position needs two actors
and one object, and a third actor where a takeover can itself be overtaken (the
idempotency run). Two attempts show a retry, three a retry that is neither first
nor last. Amounts up to 3 give a partial refund, a second one, and a remainder
equal to the fee. The limits (batch size, batch limit, overflow limit, cache
size, row limit) are set below the number of objects so that they are reached,
and the delivery limit below the number of faults: a message can be returned
once, given out again, and returned past the limit.
Deliveries and events are independent of each other except where they share a
batch or a queue, and there the instances have two or three. Two payments in
`settlements` are handled in turn (`OneOrInTurn`), since they share nothing but
a batch and the adjustments it picks up; races are those of one payment. Two
reconciliation workers are needed for one to take over from the other, and a
heavy import for that to happen again and again. In the control plane what races
is one endpoint and one key; the later requests come one after the other, so
that each has its answer to one state. The theorems below do not depend on
bounds.

### The violation

`settlement_backfill` shows a disagreement of a plan with the code. The migration
creates positions for payments refunded before it, dated by the refund; the
trigger on positions refuses an update dated earlier. A capture event projected
onto such a position therefore fails each time, until its queue dead-letters it, while
the plan
(`docs/plans/2026-10-16-settlement-projection-event-ordering.md:45`) says that
capture projection continues to update an existing position.

### Noticed while modelling

None of these contradicts a property above; the models behave as the code does.

- A sound message can be dead-lettered though no consumer rejected it. Both
  consumers leave a message unacknowledged when the database is unavailable, and
  the settlement consumer after any failure of its handler; they close their
  channel and reconnect, without limit. But a quorum queue counts, and the
  settlement consumer's back-off starts anew with every connection
  (`rabbitmq-settlement-lifecycle.consumer.ts:131`), so that some twenty returns take
  little time. The plan of the relay
  (`docs/plans/2026-08-01-transactional-outbox-relay.md:263`) says that "production
  dead-lettering begins only when a future consumer explicitly rejects/nacks
  messages". What holds is `NoMessageLost` and `EventsTakeEffect`: the message is
  not lost, and it has its effect or lies among the dead letters.
- When one claim of a delivery cycle throws, the `Promise.all` of `runOnce`
  rejects (`webhook-delivery.service.ts:109`) and the cycle ends
  (`worker-runtime.service.ts:312`) while its other claims go on. A shutdown
  after it finds no cycle in flight, or a later one, and closes the database
  under them without waiting for them or destroying their sockets, as
  `docs/adr/0019-webhook-delivery-reliability-and-lifecycle.md:186-187` says of
  all active delivery work. The claims recover when their leases end, which
  `webhook_delivery` shows; `strays` is the exception for them in
  `WorkIsCutOnlyAfterItsDrain`.
- A reconciliation cycle whose promise is rejected while the shutdown waits for
  it rejects the shutdown's `Promise.all`: the process exits without closing
  the publisher and the database. The state `failed` of `WorkerRuntime` is that
  exit.
- The settlement consumer does not look at its stopping flag after connecting
  (`rabbitmq-settlement-lifecycle.consumer.ts:93`), so it may subscribe after its
  `close()`; `midway` is the exception for it in `WorkIsCutOnlyAfterItsDrain`.
- With a single worker and an import whose processing always outlasts its
  transaction, `ImportsAreProcessed` does not hold: the claim takes the oldest
  staged import, and that one is always the heavy one. Two workers get past it.
- `docs/plans/2026-08-02-settlements-and-reconciliation.md:246` says of a report's
  summaries that "no currencies are summed together". A row and a record that
  differ in currency are one result, under the row's currency, and both of its
  sides are summed there (`prisma-reconciliation.repository.ts:302`): the
  platform's amount in its own currency is added to totals of the other.
  `ReportAccountsForAll` therefore speaks of counts, buckets and pages, and not
  of the totals per currency.
- An event dated ahead of the database's clock is refused by
  `projection_order_check` and returns until the clock has caught up.
- An HTTP status below 200 or above 599 is classified, then refused by the CHECK
  of its attempt: that attempt ends as unknown when its lease does.
- `reverse` and `provisionAccounts` of the ledger have no caller in the API or
  the worker.

### Fairness

- *Idempotent commands*: steps of a request in progress (weak; strong where it
  waits for a lock or retries after conflicts, which end), the client's resend,
  and the clock.
- *Relay*: the cycles of a worker reschedule themselves whatever their outcome
  (`worker-runtime.service.ts` 322-368), the broker answers or the confirm times
  out, delays and leases pass.
- *Consumers*: a lost channel is reopened by the reconnect timer; a handler
  finishes.
- *Webhooks*: cycles keep running, requests have a timeout, leases of dead
  holders end. No fairness is assumed of leases of live holders.
- *Reconciliation*: time passes, a request goes on, each worker claims when there
  is something to claim and its processing ends, by the transaction's timeout if
  not before.
- *Worker*: an armed timer fires, an operation of a running worker ends, an
  attempt to connect ends, a collection of metrics ends (its queries have
  timeouts), and the steps of a shutdown are taken. Nothing is assumed of an
  operation the shutdown waits for, nor of any handler or claim without its
  cycle: that is what the drains' timers are for. A failed cycle ends because
  what it awaits, the readiness refresh, rejects nothing: `checkConnectivity`
  answers false for what it catches (`packages/infrastructure/src/prisma-database.ts:75-87`),
  and so do the publisher's and the consumers' `ensureReady`.

No fairness is assumed of faults, crashes or clients' first requests, and the
number of faults is finite: an adversary that always crashes the worker at the
same place would defeat any progress property.

Deadlock is checked except in runs where the system may have nothing left to do
(all events published, the delivery ended, every request answered, the process
over).

## 5. What is proved

All proofs are checked by TLAPS from the assumptions on constants named in the
modules, for every number of conversations, keys, payments, handlers, runs,
events, relays, queues, deliveries, attempts, imports, requests and operators,
and every amount and set of tables. The assumptions say that limits and bounds
are natural numbers, that a null differs from every value it stands beside
(`NoToken`, `NoEvent`, `Nobody`, `NoWorker`), that maps given as constants have
the domain and range their comment states, and, where rows are counted or
summed, that the set they are keyed by is finite (`Keys` in `PaymentAssumption`,
`Payments` in `SettlementAssumption`, `Slots` in `ConsumerAssumption`, `Workers`
in `ReconciliationAssumption`, whose platform facts are in a known currency each
and differ by event and public reference, as their unique ids do). TLC evaluates each of them on the runs.

Each inductive invariant was an invariant of a TLC run before it was proved.

- **`IdempotentCommands_proofs`**: type correctness; one effect exactly for a
  stored success; all answers agree; leases are kept; refinement of
  `CommandOnce`. None of these is inductive: that a completing transaction may
  write depends on who holds the lock and whose token is in the row. `IInv` adds
  the shape of rows (`RowShape`), that a token in a row is that of a live
  conversation or of none (`TokenHeld`), that the lock holder is in the locked
  part of its code (`LockHeld`) and that it owns the row it locked
  (`WorkerOwns`). `LInv`, for the leases, adds that tokens of different
  conversations differ and that clocks read earlier are not ahead.
- **`LedgerEntries_proofs`**: entries balance for every amount and a reversal
  undoes its original account by account. Here are also the lemmas on sums that
  the money proofs share. A sum of the community modules folds a function by
  repeatedly choosing an element, so nothing about it follows before it is shown
  not to depend on the choices (`SumOfUnion`, `SumRenamed`); that needs induction
  over the size of a set, which `SubsetInduction` provides for a *set* of sets, in
  place of the predicate that the provers cannot instantiate, from the least
  element of a set of naturals.
- **`PaymentCommands_proofs`**: the books keep the lifecycle of payment rows and
  implement `PaymentFacts`; with the books hidden the commands are the
  idempotency protocol; with the protocol hidden every step is one atomic step of
  the books or none; rows read under lock are current. The invariant `PInv` joins
  the two earlier ones with "what a transaction has read of a payment is still
  the row" (`Reading`, `Current`), which the row lock provides, and with the
  uniqueness of ids drawn from tokens. `SumsInv` relates money across tables: the
  ledger transactions of a payment sum to what its row says
  (`LedgerMatchesPayments`), and its events carry running totals from which the
  row can be rebuilt in any order (`EventsCarryRunningTotals`). It is inductive
  with two parts added: a refund, its ledger transaction and its event name each
  other (`Tied`), and no event announces more than the row's total
  (`TotalsAnnounced`), so that a new event is the last in order. `TInv` counts:
  the effects a type of command has had under all keys are its events, and its
  ledger transactions (`OneTransitionPerEffect`), under any interleaving.
- **`EventDelivery_proofs`**: a row marked published was routed to all its
  queues (`PublishedIsRouted`) and only the holder of a claim ends it
  (`ClaimsEnd`), from `RelayInv`: what was taken by the broker is in the queues,
  and the stages of a message in a relay's hands are disjoint. A routed message is
  ready, in hand, dead-lettered or done (`MessagesNotLost`), for every delivery
  limit, from `ConsumerInv`, which follows each slot through its transaction and
  accounts for the copies that a closed channel returned. `FlowInv` joins the two with
  "whatever is in a queue or in hand was committed to the outbox"
  (`QueuesCommitted`, `HeldCommitted`), and the whole path implements `EventOnce`
  (`DeliveryKeepsPromise`). Of contracts: whatever the services write passes the
  publisher's check (`WrittenIsSerializable`), whatever passes it is accepted by
  the consumers of its type (`PublishedIsAccepted`), and what is accepted names
  one event, merchant and request throughout (`AcceptedIsAttributed`). Of the
  projection: its row satisfies the CHECKs of its type, is recognised when the
  same message returns, and exactly one pending delivery per active subscribed
  endpoint is left, whatever identifiers collide.
- **`Settlements_proofs`**: every refund of a settled payment is deducted once
  (`EveryRefundCountsOnce`), and positions converge (`PositionsConverge`).
  `SettlementInv` says that events tell what the payments are (the latest refund
  event carries the running total); that a position is between the projected
  refunds and the payment; that a settled payment has a position; that
  adjustments match exactly the projected refunds beyond the item's snapshot;
  that a projection's snapshot, while it can still commit, agrees with what it
  will change; and that what a run has read under its locks is still so. That it
  holds at first is a fact about histories of refunds: each total but the first
  goes on from the highest below it (`Predecessor`, `HistoryTells`). Money
  rests on it: the stored totals of a batch stay the sums of its rows
  (`BatchesEqualTheirRows`), and what the books owe a merchant is what is unsettled
  less what is still to be deducted (`NothingIsPaidTwice`). `AccountsInv` adds that
  tables are finite and that rows belong to batches that exist (`RowsInBatches`):
  a new batch then has no rows before it is made, and no step gives an old one
  rows. Of the ledger: the tables after a capture, a refund, a settlement or a
  reversal pass the deferred triggers and the unique keys; neither a reversed
  transaction nor its reversal can be reversed again; provisioning completes any
  part of a chart and repeating it changes nothing.
- **`WebhookDelivery_proofs`**: the attempts of a delivery are numbered without a
  gap or a duplicate (`HistoryHasNoGap`), its status is the one its history
  decides (`StatusFollowsHistory`), every request the receiver took belongs to
  an attempt of the history or to the active one (`NoRequestForgotten`), and only
  a claim's holder, or recovery after its lease, ends it (`ClaimsRespected`).
  `DeliveryInv` adds that a token is held by one job (`TokensHeldOnce`), that row
  and history agree (`HistoriesAgree`), and what a job between two awaits may rely
  on (`JobOK`).
- **`Worker_proofs`**: one import per file with one audit record and truthful
  answers (`ImportsAreUnique`); one report and one event per completed import
  (`ReportsAreUnique`), because the update that closes an import finds it staged;
  leases only save work. And a report accounts for everything
  (`ReportsAccount`): each row has one result, each platform record no row took
  has one, and summaries, event, backlog and pages agree with them. `AccountInv`
  says that each report and its event are what the classifier makes of the rows
  and the evidence, and that an import which did not fail has a file that
  parses; the rest is about the operators. They are built so that it can be
  proved: a filter keeps the places of a set in order (`PlacesInOrder`,
  `PlacesAfter`), and the two recursive functions, the loop's consumed records
  and the pages, are shown to be a closed form at a least place where they would
  differ (`ConsumedIsNamed`, `PagesShowAll`, `LeastElement`). Of the runtime:
  work is cut only after its drain has run out, but for the two kinds of work that
  nothing waits for (`WorkIsDrainedFirst`), from an invariant that says for each
  state of the shutdown which cycles, claims, handlers and subscriptions can
  still be there (`CyclesSound`, `ConsumerSound`).
- **`ControlPlane_proofs`**: `ControlInv` is `AccessInv` (keys, rotations, what
  the cache remembers, whose derivation a request waits for) with what the
  endpoints' history, the audit records and a command in progress say of each
  other. From it, and from what one step can change of it: each change was made
  with a genuine credential of the endpoint's own merchant whose key has the
  scopes required, and a refused request changed nothing
  (`ChangesAreAuthorised`); a key is replaced once (`KeysAreReplacedOnce`); the
  process remembers each genuine credential once, within its limit, and a
  derivation is registered exactly while one request performs it
  (`DerivationsAreShared`); each version has one author
  (`VersionsAreWrittenOnce`); and a receiver that has heard of the newest secret,
  or of the one before it within its overlap, can verify a delivery sent now
  (`ReceiversKeepVerifying`).

## 6. What is only model-checked

- Every liveness property, and `ENABLED`-based fairness: out of TLAPS's reach.
- What recursive definitions over data compute (the parsers, the scan for
  repeated keys): induction over data, by evaluation on bounded inputs. The loops
  of reconciliation are the exception, see `Worker_proofs` above.
- The sums in a report's summaries, beyond the counts: no property is stated of
  them (section 4 says why).

## 7. What is not modelled, and why

Components with their reasons are in `PROJECT.json`. Inside the modelled ones:

- Connection blocking and back pressure of RabbitMQ are one flag. Its dead-letter
  queues are where messages end: what operators do with them is not modelled.
- The outbox attempt count (it has no limit) and jittered delays ("later").
- Wording, rendering and layout of responses, OpenAPI descriptions, telemetry.
- Audit and outbox rows of settlement runs, and their own idempotency key, which
  is the protocol of `IdempotentCommands`; the same key around staging an import.
- Character-level reading of CSV files, hash formats, HMAC and encryption, and
  the ranges of prohibited addresses: a row is valid or not by its fields, a
  credential genuine or not, an address prohibited or not.
- The order in which due deliveries are claimed, and with it the starvation of
  deliveries behind others whose key is missing (a hazard without a property).
- A fee that is not less than the gross ends the run, as documented; that it also
  ends every later run of the merchant until the amount changes is a hazard
  without a property.
- Serializable-snapshot aborts that PostgreSQL may add beyond real conflicts:
  they are covered by a projection that may fail at any time.
- Worker configuration, health and the content of its metrics, wiring of the API, connection
  pools, telemetry, and the tools and scripts around the system.
