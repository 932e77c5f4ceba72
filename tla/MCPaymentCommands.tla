-------------------------- MODULE MCPaymentCommands --------------------------
\* Small sets of conversations over one payment.  Each conversation is a key
\* and a command.
EXTENDS PaymentCommands, TLC

CONSTANTS s1, s2, s3, s4, s5, kCreate, kCreate2, kCapture, kCapture2,
          kRefund, kRefund2, kRefund3, p1, x1, x2, x3

Create(ref) == [op |-> "create", payment |-> NoPayment, ref |-> ref,
                amount |-> 2, currency |-> "ETB"]
CaptureOf(p, amount, currency) ==
    [op |-> "capture", payment |-> p, ref |-> NoRef, amount |-> amount, currency |-> currency]
RefundOf(p, ref, amount) ==
    [op |-> "refund", payment |-> p, ref |-> ref, amount |-> amount, currency |-> "ETB"]

\* Two UUIDs per conversation: one it may have left behind as a dead owner
\* of the key, and one for the attempt it is making.
MCTokens == {s1, s2, s3, s4, s5} \X {1, 2}
MCTokensOf == [s \in Slots |-> {s} \X {1, 2}]

\* Two creations that compete for an external reference and two captures of
\* the payment under different keys.
CaptureCmds == (s1 :> Create(x1)) @@ (s2 :> Create(x1))
               @@ (s3 :> CaptureOf(p1, 2, "ETB")) @@ (s4 :> CaptureOf(p1, 2, "ETB"))
CaptureKeys == (s1 :> kCreate) @@ (s2 :> kCreate2) @@ (s3 :> kCapture) @@ (s4 :> kCapture2)

\* One capture, the same refund asked for under one external reference and
\* two keys, and a refund that together with it exceeds the capture.
RefundCmds == (s1 :> Create(x1)) @@ (s2 :> CaptureOf(p1, 2, "ETB"))
              @@ (s3 :> RefundOf(p1, x2, 1)) @@ (s4 :> RefundOf(p1, x2, 1))
              @@ (s5 :> RefundOf(p1, x3, 2))
RefundKeys == (s1 :> kCreate) @@ (s2 :> kCapture) @@ (s3 :> kRefund)
              @@ (s4 :> kRefund2) @@ (s5 :> kRefund3)

\* Bound: how many conversations are in progress at a time.
InProgress == {s \in Slots : pc[s] \notin {"idle", "done"}}
TwoAtATime == Cardinality(InProgress) <= 2

\* Bound: the payment has been created before anything else happens to it.
Created == \E p \in PaymentIds : payments[p].status # "absent"
CreatedFirst ==
    IF Created /\ pc[s1] = "done" THEN answer[s1] = "replied"
    ELSE InProgress \subseteq {s1} /\ faults = 0
CapturedMeanwhile == TwoAtATime /\ CreatedFirst
=============================================================================
