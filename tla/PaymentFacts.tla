----------------------------- MODULE PaymentFacts -----------------------------
(***************************************************************************)
(* The payments of one merchant in one currency as another module sees     *)
(* them: what was captured, what has been refunded, and the events that    *)
(* announce it.  Settlements builds on this; PaymentBook implements it.    *)
(*                                                                         *)
(* A payment's running total grows with every refund, so a refund and its  *)
(* event are named by the payment and the total they reach; the capture    *)
(* has total 0.                                                            *)
(***************************************************************************)
EXTENDS Integers, FiniteSets

CONSTANTS Payments, MaxAmount

ASSUME FactsAssumption == MaxAmount \in Nat

VARIABLES
    captured,   \* payment_intents.captured_amount_minor
    refunded,   \* payment_intents.refunded_amount_minor
    events      \* outbox_events: payment.captured.v1 and payment.refunded.v1

facts == <<captured, refunded, events>>

PaymentEvents == [type : {"captured", "refunded"}, payment : Payments,
                  amount : 1..MaxAmount, total : Nat]

PaymentEvent(type, p, amount, total) ==
    [type |-> type, payment |-> p, amount |-> amount, total |-> total]

FactsTypeOK ==
    /\ captured \in [Payments -> 0..MaxAmount]
    /\ refunded \in [Payments -> 0..MaxAmount]
    /\ events \subseteq PaymentEvents

FactsInit ==
    /\ captured = [p \in Payments |-> 0]
    /\ refunded = [p \in Payments |-> 0]
    /\ events = {}

\* One transaction: the payment row and its outbox event.
Capture(p, amount) ==
    /\ captured[p] = 0
    /\ captured' = [captured EXCEPT ![p] = amount]
    /\ events' = events \cup {PaymentEvent("captured", p, amount, 0)}
    /\ UNCHANGED refunded

Refund(p, amount) ==
    /\ amount <= captured[p] - refunded[p]
    /\ refunded' = [refunded EXCEPT ![p] = @ + amount]
    /\ events' = events \cup {PaymentEvent("refunded", p, amount, refunded[p] + amount)}
    /\ UNCHANGED captured

FactsNext ==
    \E p \in Payments, amount \in 1..MaxAmount : Capture(p, amount) \/ Refund(p, amount)

FactsSpec == FactsInit /\ [][FactsNext]_facts

Net(p) == captured[p] - refunded[p]

RefundsOf(p) == {e \in events : e.type = "refunded" /\ e.payment = p}
=============================================================================
