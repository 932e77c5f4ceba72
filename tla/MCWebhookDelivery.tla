------------------------- MODULE MCWebhookDelivery -------------------------
(* WebhookDelivery on a small instance: one delivery contended by two      *)
(* slots, since deliveries share only slots and the endpoint.  And the     *)
(* HTTP client over up to four callbacks of a request.                     *)
EXTENDS WebhookDelivery, Sequences

CONSTANTS d1, s1, s2

MCTokens == 1..Cardinality(Deliveries) + Cardinality(Slots)

-----------------------------------------------------------------------------
H == INSTANCE WebhookHttp WITH DevelopmentOrigins <- {}, MaxAnswers <- 16, MaxResponseBytes <- 2

MCErrors ==
    {H!TimedOut, H!Aborted} \cup
    {[on |-> "error", code |-> c] : c \in {"ECONNRESET", "ENOTFOUND", "CERT_HAS_EXPIRED", "EPROTO"}}
MCStatuses == {99, 200, 299, 300, 407, 408, 409, 428, 429, 430, 499, 500, 599, 600}

\* What comes after a response's head, or instead of it.
MCBodyCallbacks == {[on |-> "data", bytes |-> 1], [on |-> "data", bytes |-> 2], [on |-> "end"]}
                       \cup MCErrors
MCBodies == UNION {[1..n -> MCBodyCallbacks] : n \in 0..3}
MCRequests ==
    {<<e>> : e \in MCErrors}
    \cup {<<[on |-> "response", status |-> s]>> \o body : s \in MCStatuses, body \in MCBodies}

\* A request has one result, that of the first callback that gives it one: what
\* its receiver, the deadline or the shutdown do afterwards changes nothing.
\* An error or the deadline alone is never a delivery, and every request the
\* deadline or a shutdown ended is tried again.
ASSUME RequestsEndOnce ==
    \A callbacks \in MCRequests :
        LET client == H!deliver(callbacks)
            before == H!deliver(SubSeq(callbacks, 1, Len(callbacks) - 1))
            last == callbacks[Len(callbacks)]
        IN  /\ before.settled => client = before
            /\ client.settled /\ ~before.settled =>
                 /\ (client.result.kind = "failure") = (last \in MCErrors)
                 /\ last \in {H!TimedOut, H!Aborted} =>
                       H!OutcomeOf(client.result) = "retryable_failure"

\* Whatever a request came to is one of the answers FinalizeAttempt knows, and
\* the database takes its record, unless the status is no HTTP status.
ASSUME ResultsAreRecordable ==
    \A callbacks \in MCRequests :
        LET client == H!deliver(callbacks)
            evidence == H!classifyWebhookResult(client.result)
        IN  client.settled =>
              /\ evidence.outcome \in Answers
              /\ H!EvidenceFits(evidence)
              /\ H!StatusFits(evidence) <=> evidence.httpStatus \in {0} \cup 200..599
=============================================================================
