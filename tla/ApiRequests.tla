---------------------------- MODULE ApiRequests ----------------------------
(***************************************************************************)
(* What the controllers of the payment intents, settlement runs and        *)
(* reconciliation imports make of an HTTP request: the command they hand   *)
(* to their service, or the error they throw before they call it.  A       *)
(* refused request has no idempotency record, so which error comes first   *)
(* is all that its client ever learns.                                     *)
(*                                                                         *)
(* A request is [contentTypes, keys, id, body]: the values of its two      *)
(* headers, content types without their parameters, in lower case, each    *)
(* key as [length, clean, key] (clean: no blank at its ends, no control or *)
(* lone surrogate in it), the id of its path, and the body as              *)
(* [text, json, value], its characters, whether it is an object to the     *)
(* parser, and the values the parser gives its keys.  The body of an       *)
(* import is a form, [files, value].                                       *)
(***************************************************************************)
EXTENDS JsonBodies

Invalid(field) == [error |-> "InvalidPaymentIntentRequestError", field |-> field]
Unsupported(error) == [error |-> error, field |-> "none"]
Accepted == [error |-> "none", field |-> "none"]

EXPECTED_FIELDS == {"amountMinor", "captureMethod", "currency", "externalRef"}
CAPTURE_FIELDS == {"amountMinor", "currency"}
REFUND_FIELDS == {"amountMinor", "currency", "externalRef"}

FieldsOf(op) ==
    CASE op = "create" -> EXPECTED_FIELDS
      [] op = "capture" -> CAPTURE_FIELDS
      [] op = "refund" -> REFUND_FIELDS

requireJsonContentType(r) == r.contentTypes = <<"application/json">>

requireIdempotencyKey(r) ==
    Len(r.keys) = 1 /\ r.keys[1].length \in 1..255 /\ r.keys[1].clean

parseStrictBody(r, fields) ==
    /\ r.body.json = "object"
    /\ ~RepeatsAKey(r.body.text)
    /\ DOMAIN r.body.value = fields

Amount(value) == IF value.kind = "number" THEN exactSafeIntegerFromToken(value.token) ELSE 0

\* Three capital letters are a currency, of which two are taken.
ThreeLetters == {"ETB", "USD", "EUR"}
Taken == {"ETB", "USD"}

Text(value, k) == IF value[k].kind = "text" THEN value[k].text ELSE "none"

\* validateExternalReference, of a value that is a text or is not.
ReferenceFits(value) ==
    value.kind = "text" /\ value.length \in 1..255 /\ value.clean

\* The validators in the order they are called, and what the first of them
\* throws.
FieldRefusal(value) ==
    LET has(k) == k \in DOMAIN value
    IN  IF Amount(value["amountMinor"]) = 0 THEN Invalid("amountMinor")
        ELSE IF has("captureMethod") /\ value["captureMethod"].kind # "text"
          THEN Invalid("captureMethod")
        ELSE IF has("captureMethod") /\ Text(value, "captureMethod") # "manual"
          THEN Unsupported("UnsupportedCaptureMethodError")
        ELSE IF Text(value, "currency") \notin ThreeLetters THEN Invalid("currency")
        ELSE IF Text(value, "currency") \notin Taken
          THEN Unsupported("UnsupportedPaymentCurrencyError")
        ELSE IF has("externalRef") /\ ~ReferenceFits(value["externalRef"])
          THEN Invalid("externalRef")
        ELSE Accepted

CommandIn(op, r) ==
    LET value == r.body.value
    IN  [op |-> op, key |-> r.keys[1].key, payment |-> r.id,
         amount |-> Amount(value["amountMinor"]), currency |-> Text(value, "currency"),
         ref |-> IF op = "capture" THEN "none" ELSE Text(value, "externalRef")]

\* create, capture, refund: what is thrown first, or Accepted.
Refusal(op, r) ==
    IF ~requireJsonContentType(r) THEN Invalid("Content-Type")
    ELSE IF ~requireIdempotencyKey(r) THEN Invalid("Idempotency-Key")
    ELSE IF ~parseStrictBody(r, FieldsOf(op)) THEN Invalid("none")
    ELSE FieldRefusal(r.body.value)

Handled(op, r) == IF Refusal(op, r) = Accepted THEN CommandIn(op, r) ELSE Refusal(op, r)

-----------------------------------------------------------------------------
\* run: the body goes through JSON.parse alone, so of a repeated key the last
\* value counts.  A header carries no lone surrogate, so clean is the same.
idempotencyKey(r) == Len(r.keys) = 1 /\ r.keys[1].length \in 1..255 /\ r.keys[1].clean

RunIsSound(r) ==
    /\ r.body.json = "object"
    /\ DOMAIN r.body.value = {"currency", "cutoffDate"}
    /\ Text(r.body.value, "currency") \in Taken
    /\ r.body.value["cutoffDate"].kind = "text"
    /\ idempotencyKey(r)

run(r) ==
    IF ~RunIsSound(r) THEN Unsupported("InvalidSettlementRequestError")
    ELSE [key |-> r.keys[1].key, currency |-> Text(r.body.value, "currency"),
          cutoffDate |-> Text(r.body.value, "cutoffDate")]

\* stage: an instant is taken in its one canonical form.
requireKey(r) == idempotencyKey(r)

IsInstant(value) == value.kind = "text" /\ value.clean

FormIsSound(r) ==
    /\ Len(r.body.files) = 1
    /\ DOMAIN r.body.value = {"periodStart", "periodEnd"}
    /\ IsInstant(r.body.value["periodStart"]) /\ IsInstant(r.body.value["periodEnd"])
    /\ requireKey(r)

stage(r) ==
    IF ~FormIsSound(r) THEN Unsupported("InvalidReconciliationRequestError")
    ELSE [key |-> r.keys[1].key, bytes |-> r.body.files[1],
          from |-> Text(r.body.value, "periodStart"), to |-> Text(r.body.value, "periodEnd")]

StatusOf(result) == IF result = "STAGED" THEN 202 ELSE 201
=============================================================================
