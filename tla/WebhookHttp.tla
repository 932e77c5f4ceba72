---------------------------- MODULE WebhookHttp ----------------------------
(***************************************************************************)
(* Where a webhook may be sent and what comes of sending it: the policy    *)
(* on URLs, the HTTP client that ends every request with one result, and   *)
(* what is made of the result.                                             *)
(*                                                                         *)
(* A URL is a record that says what it is (wellFormed, credentials,        *)
(* scheme, port, origin), and answers is what its host stands for now: for *)
(* each address family the addresses, or "failed".  An address is          *)
(* [prohibited |-> BOOLEAN, name |-> ...].                                 *)
(***************************************************************************)
EXTENDS FiniteSets, Integers, Sequences

CONSTANTS
    DevelopmentOrigins,  \* WEBHOOK_DEVELOPMENT_ALLOWED_ORIGINS, {} in production
    MaxAnswers,          \* addresses a host may have
    MaxResponseBytes     \* 65536

normalize(url) ==
    CASE ~url.wellFormed -> "InvalidWebhookEndpointRequestError"
      [] url.wellFormed /\ (url.credentials \/ url.scheme \notin {"http", "https"}) ->
            "WebhookEndpointUrlProhibitedError"
      [] OTHER -> "none"

developmentException(url) == url.origin \in DevelopmentOrigins

\* The host's addresses of both families; a failure or the deadline of
\* either family is a failure, no data is not.
resolve(url) == url.ipv4.addresses \cup url.ipv6.addresses

Resolved(url) == ~url.ipv4.failed /\ ~url.ipv6.failed

resolveAndValidate(url) ==
    IF ~developmentException(url) /\ (url.scheme # "https" \/ url.port # "default")
    THEN "WebhookEndpointUrlProhibitedError"
    ELSE IF ~Resolved(url) THEN "WebhookEndpointUrlResolutionUnavailableError"
    ELSE IF resolve(url) = {} THEN "WebhookEndpointUrlUnresolvableError"
    ELSE IF \/ Cardinality(resolve(url)) > MaxAnswers
            \/ ~developmentException(url) /\ \E a \in resolve(url) : a.prohibited
    THEN "WebhookEndpointUrlProhibitedError"
    ELSE "none"

normalizeAndValidate(url) ==
    IF normalize(url) # "none" THEN normalize(url) ELSE resolveAndValidate(url)

-----------------------------------------------------------------------------
(* deliver: a request ends by its first callback that has a result; the    *)
(* deadline and abortActive destroy the request, which is an error to it.  *)
(* A callback is [on, status], [on, bytes], [on] or [on, code].            *)

classifyTransportError(code) ==
    CASE code = "SETTLEFLOW_WEBHOOK_TIMEOUT" -> "request_timeout"
      [] code = "ECONNREFUSED" -> "connection_refused"
      [] code \in {"ECONNRESET", "EPIPE"} -> "connection_reset"
      [] code \in {"EAI_AGAIN", "ENOTFOUND", "ESERVFAIL"} -> "dns_unavailable"
      [] code \in {"CERT_HAS_EXPIRED", "ERR_TLS_CERT_ALTNAME_INVALID"} -> "tls_verification_failed"
      [] OTHER -> "network_error"

Failure(code) == [kind |-> "failure", code |-> classifyTransportError(code)]
Response(status, truncated) == [kind |-> "response", statusCode |-> status, bodyTruncated |-> truncated]

Sent == [settled |-> FALSE, status |-> 0, consumed |-> 0, result |-> Failure("none")]

finish(client, result) == [client EXCEPT !.settled = TRUE, !.result = result]

Consume(client, bytes) ==
    IF client.consumed + bytes > MaxResponseBytes
    THEN finish(client, Response(client.status, TRUE))
    ELSE [client EXCEPT !.consumed = @ + bytes]

Callback(client, c) ==
    IF client.settled THEN client
    ELSE CASE c.on = "response" -> [client EXCEPT !.status = c.status]
           [] c.on = "data" -> Consume(client, c.bytes)
           [] c.on = "end" -> finish(client, Response(client.status, FALSE))
           [] c.on = "error" -> finish(client, Failure(c.code))

TimedOut == [on |-> "error", code |-> "SETTLEFLOW_WEBHOOK_TIMEOUT"]
Aborted == [on |-> "error", code |-> "SETTLEFLOW_WEBHOOK_SHUTDOWN"]

deliver(callbacks) ==
    LET client[i \in 0..Len(callbacks)] ==
            IF i = 0 THEN Sent ELSE Callback(client[i - 1], callbacks[i])
    IN  client[Len(callbacks)]

-----------------------------------------------------------------------------
RETRYABLE_TRANSPORT_CODES ==
    {"connection_refused", "connection_reset", "dns_unavailable", "network_error", "request_timeout"}

httpErrorCode(status) ==
    CASE status \in 200..299 -> "none"
      [] status = 408 -> "http_408"
      [] status = 429 -> "http_429"
      [] status >= 500 -> "http_5xx"
      [] status \in 300..399 -> "http_redirect"
      [] status \in 400..499 \ {408, 429} -> "http_client_error"
      [] OTHER -> "http_unexpected_status"

OutcomeOf(result) ==
    IF result.kind = "failure"
    THEN IF result.code \in RETRYABLE_TRANSPORT_CODES THEN "retryable_failure"
                                                      ELSE "non_retryable_failure"
    ELSE IF result.statusCode \in 200..299 THEN "delivered"
    ELSE IF result.statusCode \in {408, 429} \/ result.statusCode >= 500 THEN "retryable_failure"
    ELSE "non_retryable_failure"

\* hashed: whether there is a digest of the whole body.
classifyWebhookResult(result) ==
    IF result.kind = "failure"
    THEN [outcome |-> OutcomeOf(result), errorCode |-> result.code, httpStatus |-> 0,
          hashed |-> FALSE, truncated |-> FALSE]
    ELSE [outcome |-> OutcomeOf(result), errorCode |-> httpErrorCode(result.statusCode),
          httpStatus |-> result.statusCode, hashed |-> ~result.bodyTruncated,
          truncated |-> result.bodyTruncated]

\* The CHECKs of webhook_delivery_attempts on what is recorded.
StatusFits(e) ==
    CASE e.outcome = "delivered" -> e.httpStatus \in 200..299 /\ e.errorCode = "none"
      [] e.outcome = "retryable_failure" ->
            e.errorCode # "none" /\ e.httpStatus \in {0, 408, 429} \cup 500..599
      [] e.outcome = "non_retryable_failure" ->
            e.errorCode # "none" /\ e.httpStatus \in {0} \cup (300..499 \ {408, 429})

EvidenceFits(e) == IF e.httpStatus = 0 THEN ~e.hashed /\ ~e.truncated ELSE e.hashed # e.truncated
=============================================================================
