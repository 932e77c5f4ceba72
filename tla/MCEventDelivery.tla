-------------------------- MODULE MCEventDelivery --------------------------
(* EventDelivery on a small instance: one event, a capture, which its type  *)
(* routes to the webhook queue q1 and the settlement queue q2; q1 is read   *)
(* by two processes, q2 by one.  That the event is fit for both is computed *)
(* with EventContracts, whose operators are evaluated here over inputs with *)
(* up to two fields at fault, as are those of WebhookProjection.            *)
EXTENDS EventDelivery, WebhookProjection, TLC

CONSTANTS e1, w1, q1, q2, c1, c2, c3, s1, s2, s3

MCTimes == {1000, 1999}

\* A sound input for every type, and the values each of its fields may take.
MCSound ==
    [merchantId |-> "m1", requestId |-> "r1", paymentId |-> "pi_1", refundId |-> "rf_1",
     ledgerTransactionId |-> "ltx_1", batchId |-> "stb_1", importId |-> "rec_1",
     currency |-> "ETB", availableOn |-> 1999, cutoffAt |-> 1000, itemCount |-> 500,
     amountMinor |-> 2, capturedAmountMinor |-> 3, cumulativeRefundedAmountMinor |-> 2,
     grossAmountMinor |-> 3, feeAmountMinor |-> 1, netAmountMinor |-> 2,
     matchedExactCount |-> 0, mismatchCount |-> 3,
     unexplainedDifferenceMinorByCurrency |-> [ETB |-> -3, USD |-> 0]]

MCValues(k) ==
    CASE k \in {"merchantId"} -> {"m1", "M1", "none"}
      [] k \in {"availableOn", "cutoffAt"} -> MCTimes
      [] k = "itemCount" -> {0, 1, 500, 501}
      [] k = "unexplainedDifferenceMinorByCurrency" -> {[ETB |-> -4, USD |-> 0]}
      [] k \in {"requestId", "paymentId", "refundId", "ledgerTransactionId", "batchId",
                "importId", "currency"} -> {"none"}
      [] OTHER -> 0..4

\* Every input with up to two fields that differ from the sound one.
MCInputs(type) ==
    LET keys == DOMAIN MCSound \cap PayloadKeys(type)
    IN  UNION {{[MCSound EXCEPT ![k] = v, ![l] = u] : v \in MCValues(k), u \in MCValues(l)}
                : k \in keys, l \in keys}

MCRowFor(type, input) == RowOf(EventOf(type, input, "evt_1", 1999), 1)

\* The writers and the publisher agree on every input, and the consumers accept
\* all that is published.
ASSUME WrittenIffSerializable ==
    \A type \in EventTypes : \A input \in MCInputs(type) :
        LET r == MCRowFor(type, input)
        IN  /\ WellFormedInput(type, input, 1999) => Serializable(r)
            /\ Serializable(r) => Verdict(MessageOf(r)) = "accepted"
            /\ Serializable(r) /\ input.merchantId \in LowerUuids
                  => WellFormedInput(type, input, 1999)

\* What may differ in a message that nobody here published.
MCTampered(m) ==
    {[m EXCEPT !.messageId = "evt_2"], [m EXCEPT !.merchantId = "M1"],
     [m EXCEPT !.correlationId = "r2"], [m EXCEPT !.timestamp = @ + 1],
     [m EXCEPT !.aggregateId = "none"], [m EXCEPT !.schemaVersion = 2],
     [m EXCEPT !.attempt = 0], [m EXCEPT !.routingKey = "none"],
     [m EXCEPT !.body.encoding = "bom"], [m EXCEPT !.body.json = "other"],
     [m EXCEPT !.body.tooLarge = TRUE]}

\* Each of these differences is noticed; a settlement or reconciliation event
\* without a valid time is not rejected but fails.
ASSUME TamperedIsRefused ==
    \A type \in EventTypes :
        LET m == MessageOf(MCRowFor(type, MCSound))
        IN  /\ \A t \in MCTampered(m) : Verdict(t) = "rejected"
            /\ Verdict([m EXCEPT !.body.fields.occurredAt = <<"local", 1999>>]) =
                  IF type \in OperationalTypes THEN "fails" ELSE "rejected"
            /\ Verdict([m EXCEPT !.body.json = "repeated_key"]) =
                  IF type \in OperationalTypes THEN "accepted" ELSE "rejected"

MCLowerCase == [u \in Uuids |-> "m1"]

\* Endpoints of two merchants, of either status, with and without the type.
MCEndpoints ==
    [i \in {"both", "other", "off", "created"} |->
        [merchant |-> IF i = "other" THEN "m2" ELSE "m1",
         status |-> IF i = "off" THEN "inactive" ELSE "active",
         subscriptions |-> IF i = "created" THEN {"payment.created.v1"} ELSE EventTypes]]

MCNames(n) == [i \in DOMAIN MCEndpoints |-> <<n, i>>]
MCNothing == [events |-> {}, deliveries |-> {}]

\* Every accepted message is projected, once, to the endpoints that want it; a
\* clock behind the event's refuses it, another event under its identifier is a
\* conflict, and two collisions of the names are survived, three are not.
ASSUME ProjectedOnceEach ==
    \A type \in EventTypes : \A input \in MCInputs(type) :
        LET r == MCRowFor(type, input)
            m == MessageOf(r)
            first == project(MCNothing, MCEndpoints, m, 1999, MCNames(1))
            taken == [MCNothing EXCEPT !.deliveries = {[publicId |-> <<1, "both">>]}]
            drawn(n) == [k \in 1..3 |-> MCNames(IF k <= n THEN 1 ELSE k)]
        IN  Serializable(r) =>
            /\ first.outcome = "projected"
            /\ {d.endpointId : d \in first.tables.deliveries} =
                   {"both"} \cup IF type = "payment.created.v1" THEN {"created"} ELSE {}
            /\ project(MCNothing, MCEndpoints, m, 1000, MCNames(1)).outcome = "check_violation"
            /\ project(first.tables, MCEndpoints, [m EXCEPT !.body.fields.requestId = "r2"], 1999,
                       MCNames(2)).outcome = "projection_conflict"
            /\ project(first.tables, MCEndpoints, m, 1999, MCNames(2)).outcome =
                   IF input.merchantId \in LowerUuids THEN "already_projected"
                   ELSE "projection_conflict"
            /\ handle(taken, MCEndpoints, m, 1999, drawn(2)).outcome = "projected"
            /\ handle(taken, MCEndpoints, m, 1999, drawn(3)) =
                   Rejected(taken, "identifiers_exhausted")

\* e1 is the capture: whether it passes the publisher's and the consumers'
\* checks, and the queues it is bound to: one of the webhook projection for
\* every type, and the settlement projection's for the payment lifecycle.
MCRow == MCRowFor("payment.captured.v1", MCSound)
MCPublishable == Serializable(MCRow)
MCHandled ==
    Verdict(MessageOf(MCRow)) = "accepted" /\ SettlementVerdict(MessageOf(MCRow)) = "accepted"
MCLifecycle == MessageOf(MCRow).routingKey \in {"payment.captured.v1", "payment.refunded.v1"}

MCUnserializable == IF MCPublishable THEN {} ELSE Events
MCMalformed == IF MCHandled THEN {} ELSE Events
MCRoutes == [e \in Events |-> IF MCLifecycle THEN {q1, q2} ELSE {q1}]
MCChannelOf == (s1 :> c1) @@ (s2 :> c2) @@ (s3 :> c3)
MCQueueOf == (s1 :> q1) @@ (s2 :> q1) @@ (s3 :> q2)
=============================================================================
