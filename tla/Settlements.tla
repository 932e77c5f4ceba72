------------------------------ MODULE Settlements ------------------------------
(***************************************************************************)
(* Settling captured payments to one merchant in one currency.             *)
(*                                                                         *)
(* Handlers project payment events into settlement positions and, for a    *)
(* refund of a payment already settled, into an adjustment.  A projection  *)
(* is a serializable transaction: it works on the snapshot it began with,  *)
(* and fails when a row it must change or refer to has changed since.      *)
(*                                                                         *)
(* Runs settle what is unsettled, in read-committed transactions that hold *)
(* row locks to their end: each statement reads what is committed when it  *)
(* runs.  Payments go on being captured and refunded meanwhile.            *)
(***************************************************************************)
EXTENDS PaymentFacts, LedgerEntries, Functions, Sequences

CONSTANTS
    Handlers, Runs,
    FlatFee, BasisPoints,      \* settlement_fee_policies, one currency
    BatchLimit,                \* 500 positions, 500 adjustments
    MaxTotal,                  \* Number.MAX_SAFE_INTEGER
    NoPosition, NoItem, Idle

ASSUME SettlementAssumption ==
    /\ IsFiniteSet(Payments)
    /\ FlatFee \in Nat /\ BasisPoints \in 0..10000
    /\ BatchLimit \in Nat /\ MaxTotal \in Nat

VARIABLES
    stream,       \* the settlement_streams row exists
    positions,    \* settlement_positions
    items,        \* settlement_batch_items, at most one for a payment
    adjustments,  \* settlement_adjustments; batch 0: pending
    batches,      \* settlement_batches with their ledger transactions
    projected,    \* inbox_messages of the two projection consumers
    handler,      \* the event a handler projects and the snapshot it reads
    run           \* where a run is and what it has locked

tables == <<stream, positions, items, adjustments, batches, projected>>
vars == <<facts, tables, handler, run>>

\* "last" orders events of a payment: last_event_occurred_at never falls as
\* the running total rises, the capture being first.
PositionRows == [captured : 1..MaxAmount, refunded : 0..MaxAmount, last : Nat]

ItemRows == [captured : 1..MaxAmount, refunded : 0..MaxAmount, fee : Nat, batch : Nat \ {0}]

Snapshots == [event : PaymentEvents, stream : BOOLEAN, refunded : 0..MaxAmount,
              position : PositionRows \cup {NoPosition}, item : ItemRows \cup {NoItem}]

BatchRows == [paymentGross : Nat, adjustment : Nat, fee : Nat, net : Nat \ {0},
              entries : Entries]

RunStates == {"idle", "streamed", "scanned", "positions", "payments", "adjustments"}

\* "read" is the refunded amount of a payment as the run read it.
RunRows == [at : RunStates, stream : BOOLEAN, chosen : SUBSET Payments,
            read : [Payments -> 0..MaxAmount], adjustments : SUBSET PaymentEvents]

AdjustmentRows == [refund : PaymentEvents, batch : Nat]

IdleRun == [at |-> "idle", stream |-> FALSE, chosen |-> {},
            read |-> [p \in Payments |-> 0], adjustments |-> {}]

\* A row that is not there is no row.
ASSUME AbsenceAssumption ==
    NoPosition \notin PositionRows /\ NoItem \notin ItemRows /\ Idle \notin Snapshots

SettlementTypeOK ==
    /\ FactsTypeOK
    /\ stream \in BOOLEAN
    /\ positions \in [Payments -> PositionRows \cup {NoPosition}]
    /\ items \in [Payments -> ItemRows \cup {NoItem}]
    /\ adjustments \subseteq AdjustmentRows
    /\ batches \in Seq(BatchRows)
    /\ projected \subseteq events
    /\ handler \in [Handlers -> Snapshots \cup {Idle}]
    /\ run \in [Runs -> RunRows]

NothingSettled ==
    /\ items = [p \in Payments |-> NoItem]
    /\ adjustments = {}
    /\ batches = <<>>
    /\ handler = [h \in Handlers |-> Idle]
    /\ run = [r \in Runs |-> IdleRun]

\* A merchant that signed up after the migration,
NewMerchantInit ==
    /\ FactsInit
    /\ stream = FALSE
    /\ positions = [p \in Payments |-> NoPosition]
    /\ projected = {}
    /\ NothingSettled

\* or before: the migration that created the tables gave a position to each
\* payment captured by then, as of its latest event.  Of those events some
\* were relayed before the consumers' queues existed and will not arrive.
BackfilledPosition(p) ==
    IF captured[p] = 0 THEN NoPosition
    ELSE [captured |-> captured[p], refunded |-> refunded[p], last |-> refunded[p]]

\* Refunds that reached these totals, each going on from the one before.
Consecutive(totals) ==
    {pair \in ({0} \cup totals) \X totals :
        pair[1] < pair[2] /\ \A t \in totals : ~(pair[1] < t /\ t < pair[2])}

RefundHistory(p, totals) ==
    {PaymentEvent("refunded", p, pair[2] - pair[1], pair[2]) : pair \in Consecutive(totals)}

MigratedInit ==
    /\ captured \in [Payments -> 0..MaxAmount]
    /\ refunded \in [Payments -> 0..MaxAmount]
    /\ \A p \in Payments : refunded[p] <= captured[p]
    /\ \E reached \in [Payments -> SUBSET (1..MaxAmount)] :
          /\ \A p \in Payments : reached[p] \subseteq 1..refunded[p]
          /\ \A p \in Payments : refunded[p] > 0 => refunded[p] \in reached[p]
          /\ events = {PaymentEvent("captured", p, captured[p], 0) :
                          p \in {q \in Payments : captured[q] > 0}}
                      \cup UNION {RefundHistory(p, reached[p]) : p \in Payments}
    /\ stream = TRUE
    /\ positions = [p \in Payments |-> BackfilledPosition(p)]
    /\ projected \in SUBSET events
    /\ NothingSettled

SettlementInit == NewMerchantInit \/ MigratedInit

-----------------------------------------------------------------------------
(***************************************************************************)
(* Row locks.                                                              *)
(***************************************************************************)
HoldsStream(r) == run[r].at # "idle" /\ run[r].stream

HoldsPosition(r, p) ==
    p \in run[r].chosen /\ run[r].at \in {"positions", "payments", "adjustments"}

\* Mutant: payment facts are read without FOR UPDATE.
HoldsNoPayment(r, p) == FALSE

HoldsPayment(r, p) == p \in run[r].chosen /\ run[r].at \in {"payments", "adjustments"}

PositionFree(p) == \A r \in Runs : ~HoldsPosition(r, p)

PaymentFree(p) == \A r \in Runs : ~HoldsPayment(r, p)

\* A payment command's transaction waits for the payment's row lock.
PaymentStep ==
    /\ \E p \in Payments, amount \in 1..MaxAmount :
          PaymentFree(p) /\ (Capture(p, amount) \/ Refund(p, amount))
    /\ UNCHANGED <<tables, handler, run>>

-----------------------------------------------------------------------------
(***************************************************************************)
(* Projection of the payment lifecycle.                                    *)
(***************************************************************************)
BeginProjection(h, e) ==
    /\ handler[h] = Idle
    /\ e \notin projected
    /\ handler' = [handler EXCEPT ![h] =
          [event |-> e, stream |-> stream, refunded |-> refunded[e.payment],
           position |-> positions[e.payment], item |-> items[e.payment]]]
    /\ UNCHANGED <<facts, tables, run>>

Projecting(h, type) == handler[h] # Idle /\ handler[h].event.type = type

\* The inbox row commits with the effect, and only if nobody else's did.
Record(h) ==
    /\ handler[h].event \notin projected
    /\ projected' = projected \cup {handler[h].event}
    /\ handler' = [handler EXCEPT ![h] = Idle]

\* Mutant: the foreign key does not lock the payment row.
ReferencesAnyPayment(h) == TRUE

\* A row that refers to a payment locks it FOR KEY SHARE, which fails when a
\* command that held the payment FOR UPDATE has updated it since the
\* snapshot.
ReferencesPayment(h) ==
    LET p == handler[h].event.payment
    IN PaymentFree(p) /\ refunded[p] = handler[h].refunded

NewPosition(h) ==
    [captured |-> handler[h].event.amount, refunded |-> handler[h].refunded, last |-> 0]

ProjectCapture(h) ==
    LET p == handler[h].event.payment
    IN /\ Projecting(h, "captured")
       /\ handler[h].position = NoPosition
       /\ Record(h)
       /\ ReferencesPayment(h)
       /\ stream = handler[h].stream   \* ON CONFLICT sees no row newer than the snapshot
       /\ stream' = TRUE
       /\ positions' = [positions EXCEPT ![p] = NewPosition(h)]
       /\ UNCHANGED <<facts, items, adjustments, batches, run>>

\* An update waits for the row's lock, and finds the row of the snapshot.
UpdatesPosition(h) ==
    LET p == handler[h].event.payment
    IN /\ handler[h].position # NoPosition
       /\ PositionFree(p)
       /\ positions[p] = handler[h].position

\* The trigger on settlement_positions lets no last_event_occurred_at fall.
GuardAccepts(old, new) ==
    /\ new.captured >= old.captured
    /\ new.refunded >= old.refunded /\ new.refunded <= new.captured
    /\ new.last >= old.last

RecapturedPosition(h) ==
    [handler[h].position EXCEPT !.captured = handler[h].event.amount, !.last = 0]

ReprojectCapture(h) ==
    LET p == handler[h].event.payment
    IN /\ Projecting(h, "captured")
       /\ UpdatesPosition(h)
       /\ GuardAccepts(positions[p], RecapturedPosition(h))
       /\ Record(h)
       /\ positions' = [positions EXCEPT ![p] = RecapturedPosition(h)]
       /\ UNCHANGED <<facts, stream, items, adjustments, batches, run>>

\* A refund that finds no position leaves only its inbox row: the capture
\* will bring the running total.
ProjectEarlyRefund(h) ==
    /\ Projecting(h, "refunded")
    /\ handler[h].position = NoPosition
    /\ Record(h)
    /\ UNCHANGED <<facts, stream, positions, items, adjustments, batches, run>>

\* GREATEST, and the event's time only with its total.
RefundedPosition(h) ==
    LET total == handler[h].event.total
    IN IF total >= handler[h].position.refunded
       THEN [handler[h].position EXCEPT !.refunded = total, !.last = total]
       ELSE handler[h].position

AdjustmentDue(h) ==
    handler[h].item # NoItem /\ handler[h].event.total > handler[h].item.refunded

ProjectRefund(h) ==
    LET e == handler[h].event
    IN /\ Projecting(h, "refunded")
       /\ UpdatesPosition(h)
       /\ GuardAccepts(positions[e.payment], RefundedPosition(h))
       /\ Record(h)
       /\ positions' = [positions EXCEPT ![e.payment] = RefundedPosition(h)]
       /\ \/ /\ AdjustmentDue(h)
             /\ ReferencesPayment(h)
             /\ adjustments' = adjustments \cup {[refund |-> e, batch |-> 0]}
          \/ ~AdjustmentDue(h) /\ UNCHANGED adjustments
       /\ UNCHANGED <<facts, stream, items, batches, run>>

\* A conflict, a timeout, a refusal by the trigger, a crash: the transaction
\* is undone, and the message will be handled again.
ProjectionFails(h) ==
    /\ handler[h] # Idle
    /\ handler' = [handler EXCEPT ![h] = Idle]
    /\ UNCHANGED <<facts, tables, run>>

-----------------------------------------------------------------------------
(***************************************************************************)
(* A settlement run: the transaction of one POST /v1/settlement-runs.      *)
(***************************************************************************)
\* SELECT ... FOR UPDATE of the stream row: it waits for the run that holds
\* it, and a row that is not there yet locks nothing.
LockStream(r) ==
    /\ run[r].at = "idle"
    /\ stream => \A q \in Runs : ~HoldsStream(q)
    /\ run' = [run EXCEPT ![r].at = "streamed", ![r].stream = stream]
    /\ UNCHANGED <<facts, tables, handler>>

Candidate(p) ==
    /\ positions[p] # NoPosition
    /\ positions[p].captured > positions[p].refunded
    /\ items[p] = NoItem

\* The candidate query joins positions and items as they are when it begins,
ScanCandidates(r) ==
    /\ run[r].at = "streamed"
    /\ run' = [run EXCEPT ![r].at = "scanned", ![r].chosen = {p \in Payments : Candidate(p)}]
    /\ UNCHANGED <<facts, tables, handler>>

\* then locks the positions and looks again at those alone.  It skips what
\* is locked, and takes what the cutoff and the limit admit.
LockPositions(r) ==
    /\ run[r].at = "scanned"
    /\ \E taken \in SUBSET {p \in run[r].chosen :
                               /\ PositionFree(p)
                               /\ positions[p].captured > positions[p].refunded} :
          /\ Cardinality(taken) <= BatchLimit
          /\ run' = [run EXCEPT ![r].at = "positions", ![r].chosen = taken]
    /\ UNCHANGED <<facts, tables, handler>>

\* Mutant: the amounts of the projection are good enough.
AmountProjected(p) == IF positions[p] = NoPosition THEN 0 ELSE positions[p].refunded

AmountRefunded(p) == refunded[p]

\* lockSettlementCandidates: the payment rows themselves are locked and read.
LockPayments(r) ==
    /\ run[r].at = "positions"
    /\ \A p \in run[r].chosen : PaymentFree(p)
    /\ run' = [run EXCEPT ![r].at = "payments",
                          ![r].read = [p \in Payments |-> IF p \in run[r].chosen
                                                          THEN AmountRefunded(p) ELSE 0]]
    /\ UNCHANGED <<facts, tables, handler>>

OpenAdjustments == {a \in adjustments : a.batch = 0}

\* All of the pending adjustments, up to the limit; a run waits for another
\* that holds some.
LockAdjustments(r) ==
    /\ run[r].at = "payments"
    /\ \A q \in Runs : run[q].at = "adjustments" =>
          \A a \in OpenAdjustments : a.refund \notin run[q].adjustments
    /\ \E taken \in SUBSET {a.refund : a \in OpenAdjustments} :
          /\ Cardinality(taken) <= BatchLimit
          /\ Cardinality(taken) < BatchLimit => \A a \in OpenAdjustments : a.refund \in taken
          /\ run' = [run EXCEPT ![r].at = "adjustments", ![r].adjustments = taken]
    /\ UNCHANGED <<facts, tables, handler>>

Gross(r, p) == captured[p] - run[r].read[p]

Fee(gross) == FlatFee + ((gross * BasisPoints) \div 10000)

FeeTooLarge(r, p) == Fee(Gross(r, p)) >= Gross(r, p)

\* What is left to settle of the locked candidates.
Payable(r) == {p \in run[r].chosen : Gross(r, p) > 0}

GrossOf(r, ps) == SumFunction([p \in ps |-> Gross(r, p)])
FeeOf(r, ps) == SumFunction([p \in ps |-> Fee(Gross(r, p))])
AdjustmentOf(r) == SumFunction([e \in run[r].adjustments |-> e.amount])

\* The loop stops at the first candidate that would overflow the sums; some
\* order of the candidates leads to these.
Prefix(r, ps) ==
    /\ GrossOf(r, ps) <= MaxTotal /\ FeeOf(r, ps) <= MaxTotal
    /\ \A p \in ps : ~FeeTooLarge(r, p)

Taken(r, ps) ==
    /\ ps \subseteq Payable(r)
    /\ Prefix(r, ps)
    /\ ps # Payable(r) => \E p \in Payable(r) \ ps : /\ ~FeeTooLarge(r, p)
                                                     /\ ~Prefix(r, ps \cup {p})

NetPositive(r, ps) ==
    ps # {} /\ GrossOf(r, ps) - AdjustmentOf(r) > FeeOf(r, ps)

\* The rows a settlement writes are the ones it locked: each payment and
\* each adjustment once, or the transaction fails.
RowsFree(r, ps) ==
    /\ \A p \in ps : items[p] = NoItem
    /\ \A e \in run[r].adjustments : [refund |-> e, batch |-> 0] \in adjustments

ItemFor(r, p, batch) ==
    [captured |-> captured[p], refunded |-> run[r].read[p], fee |-> Fee(Gross(r, p)),
     batch |-> batch]

\* Mutant: the adjustments are left out of what is paid.
BatchForgetsAdjustments(r, ps) ==
    LET gross == GrossOf(r, ps)
        fee == FeeOf(r, ps)
    IN [paymentGross |-> gross, adjustment |-> AdjustmentOf(r), fee |-> fee,
        net |-> gross - fee, entries |-> SettlementEntries(gross, fee, gross - fee)]

BatchFor(r, ps) ==
    LET gross == GrossOf(r, ps) - AdjustmentOf(r)
        fee == FeeOf(r, ps)
    IN [paymentGross |-> GrossOf(r, ps), adjustment |-> AdjustmentOf(r), fee |-> fee,
        net |-> gross - fee, entries |-> SettlementEntries(gross, fee, gross - fee)]

EndRun(r) == run' = [run EXCEPT ![r] = IdleRun]

\* postSettlement, persistSettlement: the batch is finalized in the
\* transaction that creates it.
Settle(r) ==
    LET batch == Len(batches) + 1
    IN /\ run[r].at = "adjustments"
       /\ \E ps \in SUBSET run[r].chosen :
             /\ Taken(r, ps)
             /\ NetPositive(r, ps)
             /\ RowsFree(r, ps)
             /\ batches' = Append(batches, BatchFor(r, ps))
             /\ items' = [p \in Payments |-> IF p \in ps THEN ItemFor(r, p, batch)
                                             ELSE items[p]]
       /\ adjustments' = {IF a.refund \in run[r].adjustments
                          THEN [a EXCEPT !.batch = batch] ELSE a : a \in adjustments}
       /\ EndRun(r)
       /\ UNCHANGED <<facts, stream, positions, projected, handler>>

\* createNoopRun: nothing to settle, or not enough to bear the adjustments.
NoEligibleItems(r) ==
    /\ run[r].at = "adjustments"
    /\ \E ps \in SUBSET run[r].chosen : Taken(r, ps) /\ ~NetPositive(r, ps)
    /\ EndRun(r)
    /\ UNCHANGED <<facts, tables, handler>>

\* SettlementFeeExceedsGrossError: one candidate stops the whole run.
FeeExceedsGross(r) ==
    /\ run[r].at = "adjustments"
    /\ \E p \in Payable(r) : /\ FeeTooLarge(r, p)
                             /\ \E ps \in SUBSET (Payable(r) \ {p}) : Prefix(r, ps)
    /\ EndRun(r)
    /\ UNCHANGED <<facts, tables, handler>>

\* A unique violation, a timeout, a crash: everything is rolled back.
RunFails(r) ==
    /\ run[r].at # "idle"
    /\ EndRun(r)
    /\ UNCHANGED <<facts, tables, handler>>

-----------------------------------------------------------------------------
ProjectionStep(h) ==
    \/ \E e \in events : BeginProjection(h, e)
    \/ ProjectCapture(h) \/ ReprojectCapture(h)
    \/ ProjectEarlyRefund(h) \/ ProjectRefund(h)
    \/ ProjectionFails(h)

RunStep(r) ==
    \/ LockStream(r) \/ ScanCandidates(r) \/ LockPositions(r)
    \/ LockPayments(r) \/ LockAdjustments(r)
    \/ Settle(r) \/ NoEligibleItems(r) \/ FeeExceedsGross(r) \/ RunFails(r)

SettlementNext ==
    \/ PaymentStep
    \/ \E h \in Handlers : ProjectionStep(h)
    \/ \E r \in Runs : RunStep(r)

SettlementSpec == SettlementInit /\ [][SettlementNext]_vars

-----------------------------------------------------------------------------
(***************************************************************************)
(* Properties.                                                             *)
(***************************************************************************)
\* What the plan of the projection's ordering says: for an existing position,
\* capture projection continues to update the capture's metadata.
CaptureUpdatesExistingPosition ==
    \A h \in Handlers :
        Projecting(h, "captured") /\ UpdatesPosition(h) =>
            GuardAccepts(positions[handler[h].event.payment], RecapturedPosition(h))

Settled(p) == items[p] # NoItem

\* No refund of a settled payment is lost and none is deducted twice: those
\* the item's snapshot includes never get an adjustment, and each later one
\* gets its own when it is projected, whatever the order of refunds, runs
\* and projections.  An unsettled payment has no adjustments.
RefundsCountedOnce ==
    \A p \in Payments : \A e \in RefundsOf(p) :
        LET adjusted == {a \in adjustments : a.refund = e}
        IN IF Settled(p) /\ e.total > items[p].refunded /\ e \in projected
           THEN Cardinality(adjusted) = 1
           ELSE adjusted = {}

\* The projection converges: a position never runs ahead of its payment,
\* and agrees with it once every event of the payment has been projected, in
\* whatever order and with whatever overlap.
ProjectionConverges ==
    \A p \in Payments : positions[p] # NoPosition =>
        /\ positions[p].captured = captured[p]
        /\ positions[p].refunded <= refunded[p]
        /\ RefundsOf(p) \subseteq projected => positions[p].refunded = refunded[p]

\* What belongs to a batch.
ItemsOf(b) == {p \in Payments : Settled(p) /\ items[p].batch = b}
DeductedBy(b) == {a \in adjustments : a.batch = b}

\* The deferred constraint triggers on batches: stored totals are those of
\* the rows that belong to the batch, the merchant is paid something, and
\* the ledger transaction balances.
BatchesAddUp ==
    \A b \in DOMAIN batches :
        /\ ItemsOf(b) # {}
        /\ batches[b].paymentGross
              = SumFunction([p \in ItemsOf(b) |-> items[p].captured - items[p].refunded])
        /\ batches[b].adjustment = SumFunction([a \in DeductedBy(b) |-> a.refund.amount])
        /\ batches[b].fee = SumFunction([p \in ItemsOf(b) |-> items[p].fee])
        /\ batches[b].paymentGross - batches[b].adjustment = batches[b].fee + batches[b].net
        /\ batches[b].net > 0
        /\ Postable(batches[b].entries)

NetOf(ps) == SumFunction([p \in ps |-> Net(p)])

Debited == SumFunction([b \in DOMAIN batches |-> batches[b].entries["merchant_payable"]])

\* What the ledger owes the merchant: captured, less refunded, less what the
\* batches debited.
MerchantPayable == NetOf(Payments) - Debited

Unsettled == {p \in Payments : ~Settled(p)}

\* Refunds of settled payments that the projection has not seen yet.
RefundsToCome ==
    {e \in events \ projected : /\ e.type = "refunded" /\ Settled(e.payment)
                               /\ e.total > items[e.payment].refunded}

AmountOpen == SumFunction([a \in OpenAdjustments |-> a.refund.amount])

AmountToCome == SumFunction([e \in RefundsToCome |-> e.amount])

\* ... is exactly what unsettled payments are worth, less the adjustments
\* that wait for a batch and the refunds that wait for their projection: no
\* amount is paid twice, and none is forgotten.
PayableConserved == MerchantPayable = NetOf(Unsettled) - AmountOpen - AmountToCome
=============================================================================
