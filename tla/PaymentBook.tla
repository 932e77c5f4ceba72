----------------------------- MODULE PaymentBook -----------------------------
(***************************************************************************)
(* What the payment commands write, and the abstract system in which each  *)
(* of them is one atomic step on the current state: payment intents, their *)
(* refunds, the ledger transactions and the outbox events of one merchant. *)
(* PaymentCommands runs the same writes inside locked, retried and fenced  *)
(* transactions and is shown to implement BookSpec.                        *)
(*                                                                         *)
(* Ids (payments, refunds, events) are fresh ULIDs; a refund, its ledger   *)
(* transaction's business reference and its event are named by one id.     *)
(***************************************************************************)
EXTENDS LedgerEntries, Functions

CONSTANTS PaymentIds, ExternalRefs, Ids, Currencies, NoRef, NoCurrency,
          MaxAmount    \* Number.MAX_SAFE_INTEGER: the largest amount accepted

ASSUME BookAssumption ==
    /\ MaxAmount \in Nat
    /\ NoRef \notin ExternalRefs
    /\ NoCurrency \notin Currencies

Amounts == 1..MaxAmount

VARIABLES
    payments,  \* payment_intents
    refunds,   \* refunds
    postings,  \* posted ledger transactions
    outbox     \* outbox_events

books == <<payments, refunds, postings, outbox>>

Statuses == {"absent", "created", "captured", "partially_refunded", "refunded"}

PaymentRows == [status : Statuses, ref : ExternalRefs \cup {NoRef}, amount : Nat,
                currency : Currencies \cup {NoCurrency},
                captured : Nat, refunded : Nat, version : Nat]

AbsentPayment == [status |-> "absent", ref |-> NoRef, amount |-> 0,
                  currency |-> NoCurrency, captured |-> 0, refunded |-> 0, version |-> 0]

BookTypeOK ==
    /\ payments \in [PaymentIds -> PaymentRows]
    /\ refunds \subseteq [id : Ids, payment : PaymentIds, ref : ExternalRefs,
                          amount : Amounts]
    /\ postings \subseteq [type : {"capture", "refund"}, ref : PaymentIds \cup Ids,
                           currency : Currencies, entries : Entries]
    /\ outbox \subseteq [type : {"payment.created", "payment.captured", "payment.refunded"},
                         payment : PaymentIds, amount : Amounts, cumulative : Nat, id : Ids]

BookInit ==
    /\ payments = [p \in PaymentIds |-> AbsentPayment]
    /\ refunds = {}
    /\ postings = {}
    /\ outbox = {}

-----------------------------------------------------------------------------
(***************************************************************************)
(* Validation of a command against a payment row, in the service's order.  *)
(***************************************************************************)
\* Mutant: the status is not looked at.
CaptureErrorAnyStatus(row, amount, currency) ==
    IF row.status = "absent" THEN "payment_intent_not_found"
    ELSE IF row.currency # currency THEN "currency_mismatch"
    ELSE IF row.amount # amount THEN "capture_amount_mismatch"
    ELSE "none"

CaptureError(row, amount, currency) ==
    IF row.status = "absent" THEN "payment_intent_not_found"
    ELSE IF row.currency # currency THEN "currency_mismatch"
    ELSE IF row.status # "created" THEN "payment_intent_not_capturable"
    ELSE IF row.amount # amount THEN "capture_amount_mismatch"
    ELSE "none"

RefundError(row, amount, currency) ==
    IF row.status = "absent" THEN "payment_intent_not_found"
    ELSE IF row.currency # currency THEN "currency_mismatch"
    ELSE IF row.status \notin {"captured", "partially_refunded"}
         THEN "payment_intent_not_refundable"
    ELSE IF amount > row.captured - row.refunded
         THEN "refund_amount_exceeds_available"
    ELSE "none"

\* The unique indexes on (merchant_id, external_ref).
RefTaken(ref) == \E p \in PaymentIds : payments[p].ref = ref
RefundRefTaken(ref) == \E r \in refunds : r.ref = ref

-----------------------------------------------------------------------------
(***************************************************************************)
(* The rows and records the commands write.                                *)
(***************************************************************************)
CreatedRow(ref, amount, currency) ==
    [status |-> "created", ref |-> ref, amount |-> amount, currency |-> currency,
     captured |-> 0, refunded |-> 0, version |-> 0]

CapturedRow(row) ==
    [row EXCEPT !.status = "captured", !.captured = row.amount, !.version = @ + 1]

\* Mutants: the status of a full refund for every refund; the amount taken
\* off instead of added.
RefundedRowAlways(row, amount) ==
    [row EXCEPT !.status = "refunded", !.refunded = @ + amount, !.version = @ + 1]

RefundedRow(row, amount) ==
    [row EXCEPT !.status = IF row.refunded + amount = row.captured
                           THEN "refunded" ELSE "partially_refunded",
                !.refunded = @ + amount,
                !.version = @ + 1]

Event(type, p, amount, cumulative, id) ==
    [type |-> type, payment |-> p, amount |-> amount, cumulative |-> cumulative, id |-> id]

Posting(type, ref, currency, entries) ==
    [type |-> type, ref |-> ref, currency |-> currency, entries |-> entries]

WriteCreate(p, ref, amount, currency, id) ==
    /\ payments' = [payments EXCEPT ![p] = CreatedRow(ref, amount, currency)]
    /\ outbox' = outbox \cup {Event("payment.created", p, amount, 0, id)}
    /\ UNCHANGED <<refunds, postings>>

WriteCapture(p, amount, currency, id) ==
    /\ postings' = postings \cup {Posting("capture", p, currency, CaptureEntries(amount))}
    /\ payments' = [payments EXCEPT ![p] = CapturedRow(@)]
    /\ outbox' = outbox \cup {Event("payment.captured", p, amount, 0, id)}
    /\ UNCHANGED refunds

\* Mutant: the event carries the total of before the refund.
WriteRefundStaleTotal(p, ref, amount, currency, id) ==
    /\ refunds' = refunds \cup {[id |-> id, payment |-> p, ref |-> ref, amount |-> amount]}
    /\ postings' = postings \cup {Posting("refund", id, currency, RefundEntries(amount))}
    /\ payments' = [payments EXCEPT ![p] = RefundedRow(@, amount)]
    /\ outbox' = outbox \cup {Event("payment.refunded", p, amount,
                                    payments[p].refunded, id)}

WriteRefund(p, ref, amount, currency, id) ==
    /\ refunds' = refunds \cup {[id |-> id, payment |-> p, ref |-> ref, amount |-> amount]}
    /\ postings' = postings \cup {Posting("refund", id, currency, RefundEntries(amount))}
    /\ payments' = [payments EXCEPT ![p] = RefundedRow(@, amount)]
    /\ outbox' = outbox \cup {Event("payment.refunded", p, amount,
                                    payments'[p].refunded, id)}

-----------------------------------------------------------------------------
(***************************************************************************)
(* The abstract system: validate and write in one step.                    *)
(***************************************************************************)
FreshId(id) == \A e \in outbox : e.id # id

BookCreate(p, ref, amount, currency, id) ==
    /\ payments[p].status = "absent"
    /\ ~RefTaken(ref)
    /\ FreshId(id)
    /\ WriteCreate(p, ref, amount, currency, id)

BookCapture(p, amount, currency, id) ==
    /\ CaptureError(payments[p], amount, currency) = "none"
    /\ FreshId(id)
    /\ WriteCapture(p, amount, currency, id)

BookRefund(p, ref, amount, currency, id) ==
    /\ RefundError(payments[p], amount, currency) = "none"
    /\ ~RefundRefTaken(ref)
    /\ FreshId(id)
    /\ WriteRefund(p, ref, amount, currency, id)

BookNext ==
    \E p \in PaymentIds, amount \in Amounts, currency \in Currencies, id \in Ids :
        \/ BookCapture(p, amount, currency, id)
        \/ \E ref \in ExternalRefs :
              \/ BookCreate(p, ref, amount, currency, id)
              \/ BookRefund(p, ref, amount, currency, id)

BookSpec == BookInit /\ [][BookNext]_books

-----------------------------------------------------------------------------
(***************************************************************************)
(* Properties of the books.                                                *)
(***************************************************************************)
RefundsOf(p) == {r \in refunds : r.payment = p}

\* The lifecycle CHECK constraint of payment_intents: status and amounts
\* agree in every row, and no row was ever refunded beyond its capture.
StatusProjection ==
    \A p \in PaymentIds :
        LET row == payments[p]
        IN \/ /\ row.status \in {"absent", "created"}
              /\ row.captured = 0 /\ row.refunded = 0
           \/ /\ row.status = "captured"
              /\ row.captured = row.amount /\ row.refunded = 0
           \/ /\ row.status = "partially_refunded"
              /\ row.captured = row.amount
              /\ row.refunded \in 1..(row.captured - 1)
           \/ /\ row.status = "refunded"
              /\ row.captured = row.amount /\ row.refunded = row.captured

\* Ledger transactions about a payment: its capture, and the refunds posted
\* under the references of its refund rows.
PostingsOf(p) ==
    {t \in postings : \/ t.type = "capture" /\ t.ref = p
                      \/ t.type = "refund" /\ \E r \in RefundsOf(p) : r.id = t.ref}

OnAccount(ts, account) == SumFunction([t \in ts |-> t.entries[account]])

\* The ledger and the payments tell the same story: what the ledger holds
\* for a payment at the provider, and owes to the merchant, is what the row
\* says was captured and not refunded, in the payment's currency; and no
\* ledger transaction is about anything else.
LedgerMatchesPayments ==
    /\ \A p \in PaymentIds :
          LET net == payments[p].captured - payments[p].refunded
          IN /\ OnAccount(PostingsOf(p), "provider_clearing") = net
             /\ OnAccount(PostingsOf(p), "merchant_payable") = -net
             /\ \A t \in PostingsOf(p) : t.currency = payments[p].currency
    /\ postings = UNION {PostingsOf(p) : p \in PaymentIds}

RefundEvents(p) == {e \in outbox : e.type = "payment.refunded" /\ e.payment = p}

TotalAmount(es) == SumFunction([e \in es |-> e.amount])

\* A consumer can rebuild the refunded total from the events in any order:
\* an event's cumulative amount is the sum of the refund events up to it,
\* and every refund row has exactly its own event.
EventsCarryRunningTotals ==
    \A p \in PaymentIds :
        /\ \A e \in RefundEvents(p) :
              e.cumulative = TotalAmount({x \in RefundEvents(p) : x.cumulative <= e.cumulative})
        /\ {<<e.id, e.amount>> : e \in RefundEvents(p)}
              = {<<r.id, r.amount>> : r \in RefundsOf(p)}

\* What other modules see of the books.
FactEvents ==
    {[type |-> IF e.type = "payment.captured" THEN "captured" ELSE "refunded",
      payment |-> e.payment, amount |-> e.amount, total |-> e.cumulative] :
        e \in {x \in outbox : x.type # "payment.created"}}

Facts == INSTANCE PaymentFacts
    WITH Payments <- PaymentIds,
         captured <- [p \in PaymentIds |-> payments[p].captured],
         refunded <- [p \in PaymentIds |-> payments[p].refunded],
         events <- FactEvents

\* Everything the books do looks from outside like captures and refunds that
\* announce themselves, each event with the running total it led to.
ImplementsFacts == Facts!FactsSpec
=============================================================================
