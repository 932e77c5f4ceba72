--------------------------- MODULE EventContracts ---------------------------
(***************************************************************************)
(* What a domain event looks like on its way: the row a service writes     *)
(* into the outbox, the check the publisher makes before it builds a       *)
(* message from the row, and the checks the consumers make before they     *)
(* handle a message.  The two sides are written apart from each other in   *)
(* the code: a row that one side builds and the other refuses would be     *)
(* retried for ever, or dead-lettered at every consumer.                   *)
(*                                                                         *)
(* An identifier is well formed when it is in its constant set, a time is  *)
(* a number of milliseconds, and a text of a time names its instant in the *)
(* one form toISOString writes or in another.  A body is what JSON.parse   *)
(* makes of it (fields) with what the checks see besides: its encoding, a  *)
(* repeated top-level key, its size, and how the digits of amountMinor are *)
(* written.                                                                *)
(***************************************************************************)
EXTENDS Integers

CONSTANTS
    EventIds, PaymentIds, RefundIds, LedgerIds, BatchIds, ImportIds, RequestIds,
    Uuids,           \* merchant ids, in letters of either case
    LowerUuids,      \* those in lower case
    Times,           \* the instants a Date takes
    NoInstant,       \* the Invalid Date
    MaxSafeInteger   \* Number.MAX_SAFE_INTEGER

ASSUME ContractAssumption ==
    /\ LowerUuids \subseteq Uuids
    /\ Times \subseteq Nat
    /\ NoInstant \notin Times
    /\ MaxSafeInteger \in Nat \ {0}

PaymentTypes == {"payment.created.v1", "payment.captured.v1", "payment.refunded.v1"}
OperationalTypes == {"settlement.finalized.v1", "reconciliation.completed.v1"}
EventTypes == PaymentTypes \cup OperationalTypes

Currencies == {"ETB", "USD"}

\* toISOString and new Date(...): only the text toISOString writes is read
\* back as the same text.
Iso(t) == <<"utc", t>>
TimeTexts == {"utc", "other"} \X Times
Instant(text) == IF text \in TimeTexts THEN text[2] ELSE NoInstant
ExactTime(text) == Instant(text) \in Times /\ text = Iso(Instant(text))

\* AMQP timestamps are in seconds.
Seconds(t) == t \div 1000

SafeInteger(n) == n \in -MaxSafeInteger..MaxSafeInteger
SafeAmount(n) == n \in 1..MaxSafeInteger

-----------------------------------------------------------------------------
\* The rows of the outbox.

CommonKeys == {"eventId", "eventType", "occurredAt", "requestId", "merchantId"}

\* The keys toPayload writes for each type.
PayloadKeys(type) ==
    CommonKeys \cup
    CASE type = "payment.created.v1" ->
            {"paymentId", "amountMinor", "currency", "status"}
      [] type = "payment.captured.v1" ->
            {"paymentId", "capturedAmountMinor", "currency", "availableOn",
             "ledgerTransactionId"}
      [] type = "payment.refunded.v1" ->
            {"paymentId", "refundId", "amountMinor", "currency",
             "cumulativeRefundedAmountMinor", "ledgerTransactionId"}
      [] type = "settlement.finalized.v1" ->
            {"batchId", "cutoffAt", "grossAmountMinor", "feeAmountMinor",
             "netAmountMinor", "currency", "itemCount"}
      [] type = "reconciliation.completed.v1" ->
            {"importId", "matchedExactCount", "mismatchCount",
             "unexplainedDifferenceMinorByCurrency"}

\* create...Event: the caller's input, an identifier and the instant.
EventOf(type, input, id, at) ==
    [k \in PayloadKeys(type) |->
        CASE k = "eventId" -> id
          [] k = "eventType" -> type
          [] k = "occurredAt" -> at
          [] k = "status" -> "CREATED"
          [] OTHER -> input[k]]

\* toPayload: dates become texts.
PayloadOf(event) ==
    [k \in DOMAIN event |->
        IF k \in {"occurredAt", "availableOn", "cutoffAt"} THEN Iso(event[k]) ELSE event[k]]

AggregateType(type) ==
    CASE type = "settlement.finalized.v1" -> "settlement_batch"
      [] type = "reconciliation.completed.v1" -> "reconciliation_import"
      [] OTHER -> "payment_intent"

AggregateKey(type) ==
    CASE type = "settlement.finalized.v1" -> "batchId"
      [] type = "reconciliation.completed.v1" -> "importId"
      [] OTHER -> "paymentId"

\* The row insertDomainEvent writes, as the attempt-th claim reads it.
RowOf(event, attempt) ==
    [aggregateId   |-> event[AggregateKey(event.eventType)],
     aggregateType |-> AggregateType(event.eventType),
     attemptCount  |-> attempt,
     eventId       |-> event.eventId,
     eventType     |-> event.eventType,
     merchantId    |-> event.merchantId,
     occurredAt    |-> event.occurredAt,
     requestId     |-> event.requestId,
     payload       |-> PayloadOf(event)]

-----------------------------------------------------------------------------
\* The publisher's side.

\* serializePaymentCreatedEvent.
CreatedKeys ==
    {"eventId", "eventType", "occurredAt", "requestId", "merchantId", "paymentId",
     "amountMinor", "currency", "status"}

CreatedSerializable(r) ==
    LET p == r.payload
    IN  /\ r.aggregateType = "payment_intent"
        /\ r.eventId \in EventIds
        /\ r.aggregateId \in PaymentIds
        /\ r.merchantId \in Uuids
        /\ r.requestId \in RequestIds
        /\ r.attemptCount \in Nat \ {0}
        /\ DOMAIN p = CreatedKeys
        /\ p.eventId = r.eventId
        /\ p.eventType = r.eventType
        /\ p.occurredAt = Iso(r.occurredAt)
        /\ p.requestId = r.requestId
        /\ p.merchantId = r.merchantId
        /\ p.paymentId = r.aggregateId
        /\ SafeAmount(p.amountMinor)
        /\ p.currency \in Currencies
        /\ p.status = "CREATED"

\* validCommon of the lifecycle contract.
ValidCommon(f) ==
    /\ f.eventId \in EventIds
    /\ ExactTime(f.occurredAt)
    /\ f.requestId \in RequestIds
    /\ f.merchantId \in Uuids
    /\ f.paymentId \in PaymentIds
    /\ f.currency \in Currencies

CapturedKeys ==
    {"eventId", "eventType", "occurredAt", "requestId", "merchantId", "paymentId",
     "capturedAmountMinor", "currency", "availableOn", "ledgerTransactionId"}

\* toCaptured: the funds are available when they are captured.
Captured(f) ==
    /\ DOMAIN f = CapturedKeys
    /\ ValidCommon(f)
    /\ f.eventType = "payment.captured.v1"
    /\ SafeAmount(f.capturedAmountMinor)
    /\ f.availableOn = f.occurredAt
    /\ f.ledgerTransactionId \in LedgerIds

RefundedKeys ==
    {"eventId", "eventType", "occurredAt", "requestId", "merchantId", "paymentId",
     "refundId", "amountMinor", "currency", "cumulativeRefundedAmountMinor",
     "ledgerTransactionId"}

\* toRefunded.
Refunded(f) ==
    /\ DOMAIN f = RefundedKeys
    /\ ValidCommon(f)
    /\ f.eventType = "payment.refunded.v1"
    /\ f.refundId \in RefundIds
    /\ SafeAmount(f.amountMinor)
    /\ SafeAmount(f.cumulativeRefundedAmountMinor)
    /\ f.cumulativeRefundedAmountMinor >= f.amountMinor
    /\ f.ledgerTransactionId \in LedgerIds

\* serializePaymentLifecycleEvent.
LifecycleSerializable(r) ==
    LET p == r.payload
    IN  /\ r.aggregateType = "payment_intent"
        /\ IF r.eventType = "payment.captured.v1" THEN Captured(p) ELSE Refunded(p)
        /\ p.eventId = r.eventId
        /\ p.paymentId = r.aggregateId
        /\ p.merchantId = r.merchantId
        /\ p.requestId = r.requestId
        /\ Instant(p.occurredAt) = r.occurredAt

\* serializeOperationalEvent: what every operational event has in common.
OperationalCommon(r) ==
    LET p == r.payload
    IN  /\ CommonKeys \subseteq DOMAIN p
        /\ p.eventId = r.eventId
        /\ p.eventType = r.eventType
        /\ p.merchantId = r.merchantId
        /\ p.requestId = r.requestId
        /\ p.occurredAt = Iso(r.occurredAt)
        /\ r.eventId \in EventIds
        /\ r.merchantId \in LowerUuids
        /\ r.requestId \in RequestIds
        /\ ExactTime(p.occurredAt)

SettlementKeys ==
    {"eventId", "eventType", "occurredAt", "requestId", "merchantId", "batchId",
     "cutoffAt", "grossAmountMinor", "feeAmountMinor", "netAmountMinor", "currency",
     "itemCount"}

SettlementFinalized(r) ==
    LET p == r.payload
    IN  /\ DOMAIN p = SettlementKeys
        /\ r.aggregateType = "settlement_batch"
        /\ p.batchId = r.aggregateId
        /\ r.aggregateId \in BatchIds
        /\ p.currency \in Currencies
        /\ p.grossAmountMinor \in 1..MaxSafeInteger
        /\ p.feeAmountMinor \in 0..MaxSafeInteger
        /\ p.netAmountMinor \in 1..MaxSafeInteger
        /\ p.itemCount \in 1..500
        /\ p.grossAmountMinor = p.feeAmountMinor + p.netAmountMinor
        /\ ExactTime(p.cutoffAt)

ReconciliationKeys ==
    {"eventId", "eventType", "occurredAt", "requestId", "merchantId", "importId",
     "matchedExactCount", "mismatchCount", "unexplainedDifferenceMinorByCurrency"}

ReconciliationCompleted(r) ==
    LET p == r.payload
        differences == p.unexplainedDifferenceMinorByCurrency
    IN  /\ DOMAIN p = ReconciliationKeys
        /\ r.aggregateType = "reconciliation_import"
        /\ p.importId = r.aggregateId
        /\ r.aggregateId \in ImportIds
        /\ p.matchedExactCount \in 0..MaxSafeInteger
        /\ p.mismatchCount \in 0..MaxSafeInteger
        /\ DOMAIN differences = Currencies
        /\ \A c \in Currencies : SafeInteger(differences[c])

OperationalSerializable(r) ==
    /\ OperationalCommon(r)
    /\ \/ r.eventType = "settlement.finalized.v1" /\ SettlementFinalized(r)
       \/ r.eventType = "reconciliation.completed.v1" /\ ReconciliationCompleted(r)

\* publishBatch: the contract of the row's type; an unknown type has none.
Serializable(r) ==
    CASE r.eventType = "payment.created.v1" -> CreatedSerializable(r)
      [] r.eventType \in {"payment.captured.v1", "payment.refunded.v1"} ->
            LifecycleSerializable(r)
      [] OTHER -> OperationalSerializable(r)

\* The lifecycle contract writes its dates anew; the others copy the payload.
BodyFields(r) ==
    [k \in DOMAIN r.payload |->
        IF r.eventType \in {"payment.captured.v1", "payment.refunded.v1"}
                /\ k \in {"occurredAt", "availableOn"}
          THEN Iso(Instant(r.payload[k])) ELSE r.payload[k]]

Exchange == "settleflow.domain-events"

PublisherEnvelope ==
    [appId           |-> "settleflow-worker",
     contentEncoding |-> "utf-8",
     contentType     |-> "application/json",
     deliveryMode    |-> 2]

-----------------------------------------------------------------------------
\* What the services hand to create...Event: the amounts were checked when the
\* payment, the batch or the report was made, and the identifiers were made by
\* the services themselves.
WellFormedInput(type, input, at) ==
    /\ input.merchantId \in LowerUuids
    /\ input.requestId \in RequestIds
    /\ CASE type = "payment.created.v1" ->
                /\ input.paymentId \in PaymentIds
                /\ SafeAmount(input.amountMinor)
                /\ input.currency \in Currencies
          [] type = "payment.captured.v1" ->
                /\ input.paymentId \in PaymentIds
                /\ SafeAmount(input.capturedAmountMinor)
                /\ input.currency \in Currencies
                /\ input.availableOn = at
                /\ input.ledgerTransactionId \in LedgerIds
          [] type = "payment.refunded.v1" ->
                /\ input.paymentId \in PaymentIds
                /\ input.refundId \in RefundIds
                /\ SafeAmount(input.amountMinor)
                /\ input.currency \in Currencies
                /\ input.cumulativeRefundedAmountMinor \in input.amountMinor..MaxSafeInteger
                /\ input.ledgerTransactionId \in LedgerIds
          [] type = "settlement.finalized.v1" ->
                /\ input.batchId \in BatchIds
                /\ input.cutoffAt \in Times
                /\ SafeAmount(input.grossAmountMinor)
                /\ SafeAmount(input.netAmountMinor)
                /\ input.feeAmountMinor \in Nat
                /\ input.grossAmountMinor = input.feeAmountMinor + input.netAmountMinor
                /\ input.currency \in Currencies
                /\ input.itemCount \in 1..500
          [] type = "reconciliation.completed.v1" ->
                /\ input.importId \in ImportIds
                /\ input.matchedExactCount \in 0..MaxSafeInteger
                /\ input.mismatchCount \in 0..MaxSafeInteger
                /\ input.unexplainedDifferenceMinorByCurrency
                        \in [Currencies -> -MaxSafeInteger..MaxSafeInteger]

-----------------------------------------------------------------------------
\* The message publishBatch writes to the channel for the row.
MessageOf(r) ==
    [exchange      |-> Exchange,
     routingKey    |-> r.eventType,
     envelope      |-> PublisherEnvelope,
     type          |-> r.eventType,
     messageId     |-> r.eventId,
     correlationId |-> r.requestId,
     timestamp     |-> Seconds(r.occurredAt),
     aggregateId   |-> r.aggregateId,
     aggregateType |-> r.aggregateType,
     merchantId    |-> r.merchantId,
     attempt       |-> r.attemptCount,
     schemaVersion |-> 1,
     body          |-> [encoding |-> "utf8", json |-> "object", tooLarge |-> FALSE,
                        plainAmount |-> TRUE, fields |-> BodyFields(r)]]

-----------------------------------------------------------------------------
\* The consumers' side.

\* Fatal decoding, no byte order mark.
Decodes(body) == body.encoding = "utf8"

\* assertNoDuplicateTopLevelKeys, JSON.parse and isRecord.
OneObject(body) == body.json = "object"

\* parseEventBody: the fields of a created event, read from an untrusted body.
CreatedBody(body) ==
    LET f == body.fields
    IN  /\ Decodes(body)
        /\ OneObject(body)
        /\ DOMAIN f = CreatedKeys
        /\ f.eventId \in EventIds
        /\ f.eventType = "payment.created.v1"
        /\ ExactTime(f.occurredAt)
        /\ f.requestId \in RequestIds
        /\ f.merchantId \in Uuids
        /\ f.paymentId \in PaymentIds
        /\ body.plainAmount /\ SafeAmount(f.amountMinor)
        /\ f.currency \in Currencies
        /\ f.status = "CREATED"

\* parseBody of the lifecycle contract.
LifecycleBody(body) ==
    /\ Decodes(body)
    /\ OneObject(body)
    /\ Captured(body.fields) \/ Refunded(body.fields)

\* What the metadata of a payment message must say about its body.
PaymentMetadata(m) ==
    LET f == m.body.fields
    IN  /\ m.schemaVersion = 1
        /\ m.exchange = Exchange
        /\ m.routingKey = f.eventType
        /\ m.messageId = f.eventId
        /\ m.type = f.eventType
        /\ m.correlationId = f.requestId
        /\ m.envelope = PublisherEnvelope
        /\ m.timestamp = Seconds(Instant(f.occurredAt))
        /\ m.aggregateType = "payment_intent"
        /\ m.aggregateId = f.paymentId
        /\ m.merchantId = f.merchantId
        /\ m.attempt \in Nat \ {0}

CreatedAccepted(m) == ~m.body.tooLarge /\ CreatedBody(m.body) /\ PaymentMetadata(m)

LifecycleAccepted(m) == ~m.body.tooLarge /\ LifecycleBody(m.body) /\ PaymentMetadata(m)

\* validateOperationalEventMessage, before the body is parsed.
OperationalMetadata(m) ==
    /\ m.type \in OperationalTypes
    /\ m.exchange = Exchange
    /\ m.routingKey = m.type
    /\ m.envelope = PublisherEnvelope
    /\ m.schemaVersion = 1
    /\ m.attempt \in Nat \ {0}

\* The row the metadata claims for the body.
ClaimedBy(m) ==
    [aggregateId   |-> m.aggregateId,
     aggregateType |-> m.aggregateType,
     attemptCount  |-> 1,
     eventId       |-> m.messageId,
     eventType     |-> m.type,
     merchantId    |-> m.merchantId,
     occurredAt    |-> IF "occurredAt" \in DOMAIN m.body.fields
                         THEN Instant(m.body.fields.occurredAt) ELSE NoInstant,
     requestId     |-> m.correlationId,
     payload       |-> m.body.fields]

\* The comparisons that come before toISOString of the claimed time.
SameIdentity(r) ==
    /\ {"eventId", "eventType", "merchantId", "requestId"} \subseteq DOMAIN r.payload
    /\ r.payload.eventId = r.eventId
    /\ r.payload.eventType = r.eventType
    /\ r.payload.merchantId = r.merchantId
    /\ r.payload.requestId = r.requestId

\* A body without a valid time makes toISOString throw a RangeError, which is
\* not a contract error.
OperationalVerdict(m) ==
    LET r == ClaimedBy(m)
        legible == ~m.body.tooLarge /\ m.body.encoding # "bom" /\ m.body.json # "other"
    IN  IF ~(legible /\ OperationalMetadata(m) /\ SameIdentity(r)) THEN "rejected"
        ELSE IF r.occurredAt = NoInstant THEN "fails"
        ELSE IF OperationalSerializable(r) /\ m.timestamp = Seconds(r.occurredAt)
          THEN "accepted" ELSE "rejected"

\* The webhook projection: "accepted", "rejected" to the dead letters, or
\* "fails", which costs the channel and brings the message back.
Verdict(m) ==
    IF m.type \in OperationalTypes THEN OperationalVerdict(m)
    ELSE IF \/ m.type = "payment.created.v1" /\ CreatedAccepted(m)
            \/ m.type \in PaymentTypes \ {"payment.created.v1"} /\ LifecycleAccepted(m)
      THEN "accepted" ELSE "rejected"

\* The settlement projection reads payment lifecycle events only.
SettlementVerdict(m) == IF LifecycleAccepted(m) THEN "accepted" ELSE "rejected"
=============================================================================
