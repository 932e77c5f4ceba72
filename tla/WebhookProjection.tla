-------------------------- MODULE WebhookProjection --------------------------
(***************************************************************************)
(* The webhook projection: what one accepted event (EventContracts) adds to *)
(* the tables the webhook dispatcher works from, the event as the receivers *)
(* will see it and a delivery for each endpoint that wants it.  The inbox   *)
(* runs it in its own transaction; these operators say what the transaction *)
(* makes of the tables, or which error rolls it back.                       *)
(*                                                                         *)
(* tables is [events, deliveries], two sets of rows.  The digest that is    *)
(* stored and compared beside the payload is a function of the payload.     *)
(***************************************************************************)
EXTENDS EventContracts

CONSTANTS
    LowerCase,   \* [Uuids -> LowerUuids]: what a UUID column gives back
    Null         \* an empty column

ASSUME ProjectionAssumption ==
    /\ LowerCase \in [Uuids -> LowerUuids]
    /\ \A u \in LowerUuids : LowerCase[u] = u

\* The event of a validated message: its body, with the times read.
EventIn(m) ==
    [k \in DOMAIN m.body.fields |->
        IF k \in {"occurredAt", "availableOn"}
          THEN Instant(m.body.fields[k]) ELSE m.body.fields[k]]

AggregateOf(e) == e[AggregateKey(e.eventType)]

projectionInput(m, at) ==
    LET e == EventIn(m)
        created == e.eventType = "payment.created.v1"
        captured == e.eventType = "payment.captured.v1"
        refunded == e.eventType = "payment.refunded.v1"
        payment == created \/ captured \/ refunded
    IN  [eventId |-> e.eventId, eventType |-> e.eventType, merchantId |-> e.merchantId,
         occurredAt |-> e.occurredAt, requestId |-> e.requestId, schemaVersion |-> 1,
         payload |-> m.body, projectedAt |-> at,
         aggregateId |-> AggregateOf(e), aggregateType |-> AggregateType(e.eventType),
         paymentId |-> IF payment THEN e.paymentId ELSE Null,
         currency |-> IF payment THEN e.currency ELSE Null,
         amountMinor |-> IF captured THEN e.capturedAmountMinor
                         ELSE IF payment THEN e.amountMinor ELSE Null,
         paymentStatus |-> IF created THEN "CREATED" ELSE Null,
         availableOn |-> IF captured THEN e.availableOn ELSE Null,
         ledgerTransactionId |-> IF captured \/ refunded THEN e.ledgerTransactionId ELSE Null,
         refundId |-> IF refunded THEN e.refundId ELSE Null,
         cumulativeRefundedAmountMinor |->
             IF refunded THEN e.cumulativeRefundedAmountMinor ELSE Null]

\* The row as it is read back.
RowOfProjection(input) == [input EXCEPT !.merchantId = LowerCase[@]]

PaymentMatches(existing, e) ==
    /\ existing.paymentId = e.paymentId
    /\ existing.currency = e.currency
    /\ IF e.eventType = "payment.created.v1"
       THEN existing.amountMinor = e.amountMinor /\ existing.paymentStatus = "CREATED"
       ELSE /\ existing.ledgerTransactionId = e.ledgerTransactionId
            /\ IF e.eventType = "payment.captured.v1"
               THEN /\ existing.amountMinor = e.capturedAmountMinor
                    /\ existing.availableOn = e.availableOn
               ELSE /\ existing.amountMinor = e.amountMinor
                    /\ existing.cumulativeRefundedAmountMinor = e.cumulativeRefundedAmountMinor
                    /\ existing.refundId = e.refundId

\* Whether an event projected before is the one the message carries.
eventMatches(existing, m) ==
    LET e == EventIn(m)
    IN  /\ existing.eventId = e.eventId
        /\ existing.eventType = e.eventType
        /\ existing.schemaVersion = m.schemaVersion
        /\ existing.merchantId = e.merchantId
        /\ existing.aggregateId = AggregateOf(e)
        /\ existing.occurredAt = e.occurredAt
        /\ existing.requestId = e.requestId
        /\ existing.payload = m.body
        /\ e.eventType \in OperationalTypes \/ PaymentMatches(existing, e)

\* The CHECKs of webhook_event_projections on what differs between the types,
\* and the one that compares the clock of the database with that of the API.
FieldsFit(row) ==
    LET payment == row.eventType \in PaymentTypes
        captured == row.eventType = "payment.captured.v1"
        refunded == row.eventType = "payment.refunded.v1"
    IN  /\ row.eventType \in EventTypes
        /\ row.aggregateType = AggregateType(row.eventType)
        /\ IF payment
           THEN /\ row.aggregateId = row.paymentId /\ row.paymentId \in PaymentIds
                /\ SafeAmount(row.amountMinor) /\ row.currency \in Currencies
           ELSE /\ row.eventType = "settlement.finalized.v1" => row.aggregateId \in BatchIds
                /\ row.eventType = "reconciliation.completed.v1" => row.aggregateId \in ImportIds
                /\ row.paymentId = Null /\ row.amountMinor = Null /\ row.currency = Null
        /\ row.paymentStatus = IF row.eventType = "payment.created.v1" THEN "CREATED" ELSE Null
        /\ IF captured \/ refunded THEN row.ledgerTransactionId \in LedgerIds
                                   ELSE row.ledgerTransactionId = Null
        /\ row.availableOn = IF captured THEN row.occurredAt ELSE Null
        /\ IF refunded
           THEN /\ row.refundId \in RefundIds
                /\ row.cumulativeRefundedAmountMinor \in row.amountMinor..MaxSafeInteger
           ELSE row.refundId = Null /\ row.cumulativeRefundedAmountMinor = Null

InOrder(row) == row.projectedAt >= row.occurredAt

\* endpoints: [ids -> [merchant, status, subscriptions]].
findEligibleEndpointIds(endpoints, m) ==
    LET e == EventIn(m)
    IN  {i \in DOMAIN endpoints : /\ endpoints[i].merchant = LowerCase[e.merchantId]
                                  /\ endpoints[i].status = "active"
                                  /\ e.eventType \in endpoints[i].subscriptions}

\* names: the public id generated for the delivery to each endpoint.
DeliveriesTo(endpointIds, m, at, names) ==
    {[endpointId |-> i, eventId |-> EventIn(m).eventId, publicId |-> names[i],
      merchantId |-> LowerCase[EventIn(m).merchantId], status |-> "pending",
      attemptCount |-> 0, nextAttemptAt |-> at] : i \in endpointIds}

Rejected(tables, error) == [tables |-> tables, outcome |-> error]

\* The INSERTs of the event and its deliveries, or the constraint they meet.
create(tables, row, deliveries) ==
    LET taken == {d.publicId : d \in tables.deliveries}
    IN  IF ~(FieldsFit(row) /\ InOrder(row)) THEN Rejected(tables, "check_violation")
        ELSE IF {d.publicId : d \in deliveries} \cap taken # {}
          THEN Rejected(tables, "identifier_collision")
        ELSE [tables |-> [events |-> tables.events \cup {row},
                          deliveries |-> tables.deliveries \cup deliveries],
              outcome |-> "projected"]

project(tables, endpoints, m, at, names) ==
    LET existing == {row \in tables.events : row.eventId = EventIn(m).eventId}
    IN  IF existing # {}
        THEN IF \A row \in existing : eventMatches(row, m)
               THEN Rejected(tables, "already_projected")
               ELSE Rejected(tables, "projection_conflict")
        ELSE create(tables, RowOfProjection(projectionInput(m, at)),
                    DeliveriesTo(findEligibleEndpointIds(endpoints, m), m, at, names))

MaxIdentifierAttempts == 3

\* generated: the names each attempt draws; a collision is tried again in a
\* transaction of its own.
handle(tables, endpoints, m, at, generated) ==
    LET result(n) == project(tables, endpoints, m, at, generated[n])
        collides(n) == result(n).outcome = "identifier_collision"
        tries == 1..MaxIdentifierAttempts
    IN  IF \A n \in tries : collides(n) THEN Rejected(tables, "identifiers_exhausted")
        ELSE result(CHOOSE n \in tries : ~collides(n) /\ \A k \in 1..(n - 1) : collides(k))
=============================================================================
