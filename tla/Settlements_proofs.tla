------------------------- MODULE Settlements_proofs -------------------------
(***************************************************************************)
(* Proofs about Settlements, for any number of payments, handlers and runs *)
(* and any amounts.  Refunds are counted once and the projection converges;*)
(* this needs no sums: it relates each refund event to the item, the       *)
(* position and the snapshots of its payment.  Money then rests on it: the *)
(* batches add up, and nothing is paid twice or forgotten.  Last, about    *)
(* Ledger: what its service posts can be committed.                        *)
(***************************************************************************)
EXTENDS Settlements, Ledger, LedgerEntries_proofs

(***************************************************************************)
(* The inductive invariant.                                                *)
(***************************************************************************)
\* Types.  Of the batches only that they are a sequence is needed
\* before the section on money.
RowsTyped ==
    /\ FactsTypeOK
    /\ stream \in BOOLEAN
    /\ positions \in [Payments -> PositionRows \cup {NoPosition}]
    /\ items \in [Payments -> ItemRows \cup {NoItem}]
    /\ adjustments \subseteq AdjustmentRows
    /\ projected \subseteq events
    /\ \E S : batches \in Seq(S)

ActorsTyped ==
    /\ handler \in [Handlers -> Snapshots \cup {Idle}]
    /\ run \in [Runs -> RunRows]

\* Events tell what the payments are: the latest refund event carries the
\* running total, and none carries more.
EventsTell ==
    /\ \A e \in events :
          /\ captured[e.payment] > 0
          /\ e.type = "refunded" => e.total > 0 /\ e.total <= refunded[e.payment]
          /\ e.type = "captured" => e.amount = captured[e.payment]
    /\ \A p \in Payments : refunded[p] > 0 => \E e \in RefundsOf(p) : e.total = refunded[p]

\* A position is between the projected refunds and the payment.
PositionsFollow ==
    /\ \A p \in Payments : positions[p] # NoPosition =>
          /\ captured[p] > 0 /\ positions[p].captured = captured[p]
          /\ positions[p].refunded <= refunded[p]
    /\ \A e \in projected : e.type = "refunded" /\ positions[e.payment] # NoPosition =>
          e.total <= positions[e.payment].refunded

ItemsHavePositions ==
    \A p \in Payments : items[p] # NoItem => positions[p] # NoPosition

Later(e) == /\ e.type = "refunded" /\ items[e.payment] # NoItem
            /\ e.total > items[e.payment].refunded

\* Adjustments are exactly the projected refunds later than the item.
AdjustmentsMatch ==
    /\ \A a \in adjustments : a.refund \in projected /\ Later(a.refund)
    /\ \A a, b \in adjustments : a.refund = b.refund => a = b
    /\ \A e \in projected : Later(e) => \E a \in adjustments : a.refund = e

\* A snapshot holds an event and the total it reached; an item or a position
\* made behind its back already includes what the payment had refunded then.
SnapshotHolds(s) ==
    LET p == s.event.payment
    IN /\ s.event \in events
       /\ s.refunded <= refunded[p]
       /\ s.event.type = "refunded" => s.event.total <= s.refunded
       /\ s.item # NoItem => items[p] = s.item
       /\ s.item = NoItem /\ items[p] # NoItem => s.refunded <= items[p].refunded
       /\ s.position = NoPosition => s.item = NoItem
       /\ s.position = NoPosition /\ positions[p] # NoPosition =>
             s.refunded <= positions[p].refunded

SnapshotsHold == \A h \in Handlers : handler[h] # Idle => SnapshotHolds(handler[h])

\* What a run has read of a payment stays true while it holds the row.
RunsHold ==
    \A r \in Runs : \A p \in run[r].chosen :
        /\ positions[p] # NoPosition
        /\ HoldsPayment(r, p) => run[r].read[p] = refunded[p]

SettlementInv ==
    /\ RowsTyped /\ ActorsTyped
    /\ EventsTell /\ PositionsFollow /\ ItemsHavePositions /\ AdjustmentsMatch
    /\ SnapshotsHold /\ RunsHold

-----------------------------------------------------------------------------
(***************************************************************************)
(* The invariant gives the properties.                                     *)
(***************************************************************************)
LEMMA InvCountsRefunds == SettlementInv => RefundsCountedOnce
<1> SUFFICES ASSUME SettlementInv, NEW p \in Payments, NEW e \in RefundsOf(p)
             PROVE  LET adjusted == {a \in adjustments : a.refund = e}
                    IN IF Settled(p) /\ e.total > items[p].refunded /\ e \in projected
                       THEN Cardinality(adjusted) = 1
                       ELSE adjusted = {}
  BY DEF RefundsCountedOnce
<1> DEFINE adjusted == {a \in adjustments : a.refund = e}
<1>1. e.type = "refunded" /\ e.payment = p
  BY DEF RefundsOf
<1>2. CASE Settled(p) /\ e.total > items[p].refunded /\ e \in projected
  <2>1. PICK a \in adjustments : a.refund = e
    BY <1>1, <1>2 DEF SettlementInv, AdjustmentsMatch, Later, Settled
  <2>2. adjusted = {a}
    BY <2>1 DEF SettlementInv, AdjustmentsMatch
  <2> QED
    BY <1>2, <2>2, FS_Singleton
<1>3. CASE ~(Settled(p) /\ e.total > items[p].refunded /\ e \in projected)
  <2>1. adjusted = {}
    BY <1>1, <1>3 DEF SettlementInv, AdjustmentsMatch, Later, Settled
  <2> QED
    BY <1>3, <2>1
<1> QED
  BY <1>2, <1>3

LEMMA InvConverges == SettlementInv => ProjectionConverges
<1> SUFFICES ASSUME SettlementInv, NEW p \in Payments, positions[p] # NoPosition,
                    RefundsOf(p) \subseteq projected
             PROVE  positions[p].refunded = refunded[p]
  BY DEF SettlementInv, PositionsFollow, ProjectionConverges
<1>1. /\ positions[p].refunded \in Nat /\ refunded[p] \in Nat
      /\ positions[p].refunded <= refunded[p]
  BY DEF SettlementInv, RowsTyped, FactsTypeOK, PositionRows, PositionsFollow
<1>2. CASE refunded[p] = 0
  BY <1>1, <1>2
<1>3. CASE refunded[p] > 0
  <2>1. PICK e \in RefundsOf(p) : e.total = refunded[p]
    BY <1>3 DEF SettlementInv, EventsTell
  <2>2. e.total <= positions[p].refunded
    BY <2>1 DEF RefundsOf, SettlementInv, PositionsFollow
  <2> QED
    BY <1>1, <2>1, <2>2
<1> QED
  BY <1>1, <1>2, <1>3

-----------------------------------------------------------------------------
(***************************************************************************)
(* Initial states.                                                         *)
(***************************************************************************)
LEMMA IdleRunTyped == IdleRun \in RunRows
BY FactsAssumption DEF IdleRun, RunRows, RunStates

LEMMA NothingSettledInv ==
    ASSUME RowsTyped, NothingSettled
    PROVE  ActorsTyped /\ ItemsHavePositions /\ AdjustmentsMatch /\ SnapshotsHold /\ RunsHold
<1>1. ActorsTyped
  BY IdleRunTyped DEF NothingSettled, ActorsTyped
<1>2. ItemsHavePositions /\ AdjustmentsMatch
  BY DEF NothingSettled, ItemsHavePositions, AdjustmentsMatch, Later, RowsTyped, FactsTypeOK,
         PaymentEvents
<1>3. SnapshotsHold /\ RunsHold
  BY DEF NothingSettled, SnapshotsHold, RunsHold, IdleRun
<1> QED
  BY <1>1, <1>2, <1>3

LEMMA NewMerchantInv == NewMerchantInit => SettlementInv
<1> SUFFICES ASSUME NewMerchantInit PROVE SettlementInv
  OBVIOUS
<1>1. RowsTyped
  <2>1. FactsTypeOK
    BY FactsAssumption DEF NewMerchantInit, FactsInit, FactsTypeOK
  <2>2. <<>> \in Seq({})
    OBVIOUS
  <2> QED
    BY <2>1, <2>2 DEF NewMerchantInit, FactsInit, NothingSettled, RowsTyped
<1>2. EventsTell /\ PositionsFollow
  BY DEF NewMerchantInit, FactsInit, EventsTell, PositionsFollow
<1> QED
  BY <1>1, <1>2, NothingSettledInv DEF NewMerchantInit, SettlementInv

\* Of the totals below a refund's the highest is the one it went on from.
LEMMA Predecessor ==
    ASSUME NEW totals \in SUBSET Nat, NEW t \in totals, t > 0
    PROVE  \E s \in {0} \cup totals : s < t /\ \A u \in totals : ~(s < u /\ u < t)
<1> DEFINE R == {ss \in Nat \X Nat : ss[1] < ss[2]}
           gaps == {d \in Nat : d > 0 /\ t - d \in {0} \cup totals}
<1>1. t \in gaps
  OBVIOUS
<1>2. gaps \in SUBSET Nat
  OBVIOUS
<1>3. PICK d \in gaps : \A x \in gaps : ~(<<x, d>> \in R)
  <2> HIDE DEF gaps
  <2> QED
    BY <1>1, <1>2, WFMin, NatWellFounded
<1>4. t - d \in {0} \cup totals /\ t - d < t
  BY <1>3
<1>5. ASSUME NEW u \in totals, t - d < u, u < t PROVE FALSE
  <2>1. t - u \in gaps
    BY <1>5
  <2>2. t - u \in Nat /\ d \in Nat /\ t - u < d
    BY <1>3, <1>5, <2>1
  <2> QED
    BY <1>3, <2>1, <2>2
<1> QED
  BY <1>4, <1>5

\* What a payment's refunds have left behind.
LEMMA HistoryTells ==
    ASSUME NEW p \in Payments, NEW top \in 0..MaxAmount, NEW totals \in SUBSET (1..top),
           top > 0 => top \in totals
    PROVE  /\ \A e \in RefundHistory(p, totals) :
                 /\ e \in PaymentEvents /\ e.payment = p /\ e.type = "refunded"
                 /\ e.total > 0 /\ e.total <= top
           /\ top > 0 => \E e \in RefundHistory(p, totals) : e.total = top
<1>1. ASSUME NEW e \in RefundHistory(p, totals)
      PROVE  /\ e \in PaymentEvents /\ e.payment = p /\ e.type = "refunded"
             /\ e.total > 0 /\ e.total <= top
  <2>1. PICK pair \in Consecutive(totals) :
           e = PaymentEvent("refunded", p, pair[2] - pair[1], pair[2])
    BY <1>1 DEF RefundHistory
  <2>2. top \in Nat /\ MaxAmount \in Nat /\ top <= MaxAmount
    BY FactsAssumption
  <2>3. pair[1] \in {0} \cup totals /\ pair[2] \in totals /\ pair[1] < pair[2]
    BY DEF Consecutive
  <2>4. pair[1] \in 0..top /\ pair[2] \in 1..top
    <3>1. \A t \in totals : t \in 1..top
      OBVIOUS
    <3>2. pair[2] \in 1..top
      BY <2>3, <3>1
    <3>3. pair[1] = 0 \/ pair[1] \in 1..top
      BY <2>3, <3>1
    <3> QED
      BY <2>2, <3>2, <3>3
  <2>5. pair[2] - pair[1] \in 1..MaxAmount /\ pair[2] \in Nat
    BY <2>2, <2>3, <2>4
  <2> QED
    BY <2>1, <2>4, <2>5 DEF PaymentEvent, PaymentEvents
<1>2. ASSUME top > 0 PROVE \E e \in RefundHistory(p, totals) : e.total = top
  <2>1. totals \in SUBSET Nat /\ top \in totals
    BY <1>2
  <2>2. PICK s \in {0} \cup totals : s < top /\ \A u \in totals : ~(s < u /\ u < top)
    BY <1>2, <2>1, Predecessor
  <2>3. <<s, top>> \in Consecutive(totals)
    BY <2>1, <2>2 DEF Consecutive
  <2>4. PaymentEvent("refunded", p, top - s, top) \in RefundHistory(p, totals)
    BY <2>3 DEF RefundHistory
  <2> QED
    BY <2>4 DEF PaymentEvent
<1> QED
  BY <1>1, <1>2

LEMMA MigratedInv == MigratedInit => SettlementInv
<1> SUFFICES ASSUME MigratedInit PROVE SettlementInv
  OBVIOUS
<1>1. /\ captured \in [Payments -> 0..MaxAmount] /\ refunded \in [Payments -> 0..MaxAmount]
      /\ \A p \in Payments : refunded[p] <= captured[p]
  BY DEF MigratedInit
<1>2. PICK reached \in [Payments -> SUBSET (1..MaxAmount)] :
         /\ \A p \in Payments : reached[p] \subseteq 1..refunded[p]
         /\ \A p \in Payments : refunded[p] > 0 => refunded[p] \in reached[p]
         /\ events = {PaymentEvent("captured", p, captured[p], 0) :
                         p \in {q \in Payments : captured[q] > 0}}
                     \cup UNION {RefundHistory(p, reached[p]) : p \in Payments}
  BY DEF MigratedInit
<1>3. ASSUME NEW p \in Payments
      PROVE  /\ \A e \in RefundHistory(p, reached[p]) :
                   /\ e \in PaymentEvents /\ e.payment = p /\ e.type = "refunded"
                   /\ e.total > 0 /\ e.total <= refunded[p]
             /\ refunded[p] > 0 => \E e \in RefundHistory(p, reached[p]) : e.total = refunded[p]
  <2>1. refunded[p] \in 0..MaxAmount /\ reached[p] \in SUBSET (1..refunded[p])
    BY <1>1, <1>2
  <2>2. refunded[p] > 0 => refunded[p] \in reached[p]
    BY <1>2
  <2> QED
    BY <2>1, <2>2, HistoryTells
<1>4. ASSUME NEW e \in events
      PROVE  /\ e \in PaymentEvents /\ captured[e.payment] > 0
             /\ e.type = "refunded" => e.total > 0 /\ e.total <= refunded[e.payment]
             /\ e.type = "captured" => e.amount = captured[e.payment]
  <2>1. CASE \E p \in Payments : captured[p] > 0 /\ e = PaymentEvent("captured", p, captured[p], 0)
    <3>1. PICK p \in Payments : captured[p] > 0 /\ e = PaymentEvent("captured", p, captured[p], 0)
      BY <2>1
    <3>2. captured[p] \in 1..MaxAmount
      BY <1>1, <3>1, FactsAssumption
    <3> QED
      BY <3>1, <3>2 DEF PaymentEvent, PaymentEvents
  <2>2. CASE \E p \in Payments : e \in RefundHistory(p, reached[p])
    <3>1. PICK p \in Payments : e \in RefundHistory(p, reached[p])
      BY <2>2
    <3>2. /\ e \in PaymentEvents /\ e.payment = p /\ e.type = "refunded"
          /\ e.total > 0 /\ e.total <= refunded[p]
      BY <1>3, <3>1
    <3>3. /\ refunded[p] \in Nat /\ captured[p] \in Nat /\ refunded[p] <= captured[p]
          /\ e.total \in Nat
      BY <1>1, <3>2, FactsAssumption DEF PaymentEvents
    <3>4. captured[p] > 0
      BY <3>2, <3>3
    <3> QED
      BY <3>2, <3>4
  <2> QED
    BY <1>2, <2>1, <2>2
<1>5. RowsTyped
  <2>1. <<>> \in Seq({})
    OBVIOUS
  <2>2. \A p \in Payments : BackfilledPosition(p) \in PositionRows \cup {NoPosition}
    BY <1>1, FactsAssumption DEF BackfilledPosition, PositionRows
  <2>3. positions \in [Payments -> PositionRows \cup {NoPosition}]
    BY <2>2 DEF MigratedInit
  <2>4. events \subseteq PaymentEvents
    BY <1>4
  <2> QED
    BY <1>1, <2>1, <2>3, <2>4 DEF MigratedInit, NothingSettled, RowsTyped, FactsTypeOK
<1>6. EventsTell
  <2>1. ASSUME NEW p \in Payments, refunded[p] > 0
        PROVE  \E e \in RefundsOf(p) : e.total = refunded[p]
    <3>1. PICK e \in RefundHistory(p, reached[p]) : e.total = refunded[p]
      BY <1>3, <2>1
    <3>2. e \in events
      BY <1>2, <3>1
    <3> QED
      BY <1>3, <3>1, <3>2 DEF RefundsOf
  <2> QED
    BY <1>4, <2>1 DEF EventsTell
<1>7. PositionsFollow
  <2>1. \A p \in Payments : positions[p] # NoPosition =>
           /\ captured[p] # 0
           /\ positions[p].captured = captured[p] /\ positions[p].refunded = refunded[p]
    BY DEF MigratedInit, BackfilledPosition
  <2>2. projected \subseteq events
    BY DEF MigratedInit
  <2>3. \A e \in projected : e.payment \in Payments
    BY <1>4, <2>2 DEF PaymentEvents
  <2> QED
    BY <1>1, <1>4, <2>1, <2>2, <2>3, FactsAssumption DEF PositionsFollow
<1> QED
  BY <1>5, <1>6, <1>7, NothingSettledInv DEF MigratedInit, SettlementInv

-----------------------------------------------------------------------------
(***************************************************************************)
(* Steps of the payments.                                                  *)
(***************************************************************************)
LEMMA CaptureInv ==
    ASSUME SettlementInv, NEW p \in Payments, NEW amount \in 1..MaxAmount,
           Capture(p, amount), UNCHANGED <<tables, handler, run>>
    PROVE  SettlementInv'
<1> DEFINE e == PaymentEvent("captured", p, amount, 0)
<1> USE DEF SettlementInv, tables
<1>0. /\ captured[p] = 0 /\ captured' = [captured EXCEPT ![p] = amount]
      /\ events' = events \cup {e} /\ refunded' = refunded
  BY DEF Capture
<1>1. /\ captured \in [Payments -> 0..MaxAmount] /\ refunded \in [Payments -> 0..MaxAmount]
      /\ events \subseteq PaymentEvents
  BY DEF RowsTyped, FactsTypeOK
<1>2. /\ e \in PaymentEvents /\ e.payment = p /\ e.type = "captured" /\ e.amount = amount
  BY DEF PaymentEvent, PaymentEvents
<1>3. \A q \in Payments : q # p => captured'[q] = captured[q]
  BY <1>0, <1>1
<1>4. captured'[p] = amount /\ captured' \in [Payments -> 0..MaxAmount]
  BY <1>0, <1>1, FactsAssumption
<1>5. RowsTyped' /\ ActorsTyped'
  BY <1>0, <1>1, <1>2, <1>4 DEF RowsTyped, FactsTypeOK, ActorsTyped
<1>6. \A x \in events : x.payment # p /\ x.payment \in Payments
  BY <1>0, <1>1 DEF EventsTell, PaymentEvents
<1>7. EventsTell'
  <2>1. \A x \in events' :
          /\ captured'[x.payment] > 0
          /\ x.type = "refunded" => x.total > 0 /\ x.total <= refunded[x.payment]
          /\ x.type = "captured" => x.amount = captured'[x.payment]
    BY <1>0, <1>2, <1>3, <1>4, <1>6 DEF EventsTell
  <2>2. \A q \in Payments : RefundsOf(q)' = RefundsOf(q)
    BY <1>0, <1>2 DEF RefundsOf
  <2> QED
    BY <1>0, <2>1, <2>2 DEF EventsTell
<1>8. PositionsFollow'
  BY <1>0, <1>3 DEF PositionsFollow
<1>9. SnapshotsHold' /\ RunsHold'
  BY <1>0 DEF SnapshotsHold, SnapshotHolds, RunsHold, HoldsPayment
<1> QED
  BY <1>5, <1>7, <1>8, <1>9 DEF ItemsHavePositions, AdjustmentsMatch, Later

LEMMA RefundInv ==
    ASSUME SettlementInv, NEW p \in Payments, NEW amount \in 1..MaxAmount, PaymentFree(p),
           Refund(p, amount), UNCHANGED <<tables, handler, run>>
    PROVE  SettlementInv'
<1> DEFINE e == PaymentEvent("refunded", p, amount, refunded[p] + amount)
<1> USE DEF SettlementInv, tables
<1>0. /\ amount <= captured[p] - refunded[p] /\ captured' = captured
      /\ refunded' = [refunded EXCEPT ![p] = @ + amount] /\ events' = events \cup {e}
  BY DEF Refund
<1>1. /\ captured \in [Payments -> 0..MaxAmount] /\ refunded \in [Payments -> 0..MaxAmount]
      /\ events \subseteq PaymentEvents
  BY DEF RowsTyped, FactsTypeOK
<1>2. /\ captured[p] \in 0..MaxAmount /\ refunded[p] \in 0..MaxAmount
      /\ refunded[p] + amount \in 0..MaxAmount
  BY <1>0, <1>1, FactsAssumption
<1>3. /\ e \in PaymentEvents /\ e.payment = p /\ e.type = "refunded"
      /\ e.total = refunded[p] + amount
  BY <1>2 DEF PaymentEvent, PaymentEvents
<1>4. /\ refunded' \in [Payments -> 0..MaxAmount] /\ refunded'[p] = refunded[p] + amount
      /\ \A q \in Payments : q # p => refunded'[q] = refunded[q]
  BY <1>0, <1>1, <1>2
<1>5. \A q \in Payments : refunded[q] <= refunded'[q] /\ refunded[q] \in Nat /\ refunded'[q] \in Nat
  BY <1>1, <1>2, <1>4
<1>6. RowsTyped' /\ ActorsTyped'
  BY <1>0, <1>1, <1>3, <1>4 DEF RowsTyped, FactsTypeOK, ActorsTyped
<1>7. \A x \in events : x.payment \in Payments /\ x.total \in Nat
  BY <1>1 DEF PaymentEvents
<1>8. EventsTell'
  <2>1. \A x \in events' :
          /\ captured[x.payment] > 0
          /\ x.type = "refunded" => x.total > 0 /\ x.total <= refunded'[x.payment]
          /\ x.type = "captured" => x.amount = captured[x.payment]
    <3>1. captured[p] > 0 /\ e.total > 0 /\ e.total <= refunded'[p]
      BY <1>0, <1>2, <1>3, <1>4
    <3>2. \A x \in events : x.type = "refunded" => x.total > 0 /\ x.total <= refunded'[x.payment]
      BY <1>5, <1>7 DEF EventsTell
    <3> QED
      BY <1>0, <1>3, <3>1, <3>2 DEF EventsTell
  <2>2. ASSUME NEW q \in Payments, refunded'[q] > 0
        PROVE  \E x \in RefundsOf(q)' : x.total = refunded'[q]
    BY <1>0, <1>3, <1>4, <2>2 DEF EventsTell, RefundsOf
  <2> QED
    BY <1>0, <2>1, <2>2 DEF EventsTell
<1>9. PositionsFollow'
  BY <1>0, <1>5 DEF PositionsFollow, RowsTyped, PositionRows
<1>10. SnapshotsHold'
  <2> SUFFICES ASSUME NEW h \in Handlers, handler[h] # Idle
               PROVE  handler[h].refunded <= refunded'[handler[h].event.payment]
    BY <1>0 DEF SnapshotsHold, SnapshotHolds
  <2>1. handler[h].refunded \in Nat /\ handler[h].event \in events
    BY DEF ActorsTyped, Snapshots, SnapshotsHold, SnapshotHolds
  <2> QED
    BY <1>5, <1>7, <2>1 DEF SnapshotsHold, SnapshotHolds
<1>11. RunsHold'
  BY <1>4 DEF RunsHold, HoldsPayment, PaymentFree, ActorsTyped, RunRows
<1> QED
  BY <1>6, <1>8, <1>9, <1>10, <1>11 DEF ItemsHavePositions, AdjustmentsMatch, Later

-----------------------------------------------------------------------------
(***************************************************************************)
(* Steps of the projection.                                                *)
(***************************************************************************)
\* What a handler that projects an event knows.
LEMMA HandlerFacts ==
    ASSUME SettlementInv, NEW h \in Handlers, handler[h] # Idle
    PROVE  /\ handler[h] \in Snapshots /\ SnapshotHolds(handler[h])
           /\ handler[h].event \in events /\ handler[h].event \in PaymentEvents
           /\ handler[h].event.payment \in Payments
BY DEF SettlementInv, ActorsTyped, SnapshotsHold, SnapshotHolds, Snapshots, PaymentEvents

LEMMA BeginInv ==
    ASSUME SettlementInv, NEW h \in Handlers, NEW e \in events, BeginProjection(h, e)
    PROVE  SettlementInv'
<1> DEFINE p == e.payment
           s == [event |-> e, stream |-> stream, refunded |-> refunded[p],
                 position |-> positions[p], item |-> items[p]]
<1> USE DEF SettlementInv, BeginProjection
<1>0. UNCHANGED <<facts, tables, run>> /\ handler' = [handler EXCEPT ![h] = s]
  OBVIOUS
<1>1. e \in PaymentEvents /\ p \in Payments
  BY DEF RowsTyped, FactsTypeOK, PaymentEvents
<1>2. s \in Snapshots
  BY <1>1 DEF Snapshots, RowsTyped, FactsTypeOK
<1>3. ActorsTyped' /\ RowsTyped'
  BY <1>0, <1>2 DEF ActorsTyped, RowsTyped, FactsTypeOK, facts, tables
<1>4. refunded[p] \in Nat
  BY <1>1 DEF RowsTyped, FactsTypeOK
<1>5. SnapshotHolds(s)
  BY <1>1, <1>4 DEF SnapshotHolds, EventsTell, ItemsHavePositions
<1>6. SnapshotsHold'
  BY <1>0, <1>5 DEF SnapshotsHold, SnapshotHolds, ActorsTyped, facts, tables
<1> QED
  BY <1>0, <1>3, <1>6 DEF facts, tables, EventsTell, RefundsOf, PositionsFollow,
     ItemsHavePositions, AdjustmentsMatch, Later, RunsHold, HoldsPayment

\* A handler that ends takes nothing with it.
LEMMA HandlerEnds ==
    ASSUME SettlementInv, NEW h \in Handlers, handler' = [handler EXCEPT ![h] = Idle]
    PROVE  /\ handler' \in [Handlers -> Snapshots \cup {Idle}]
           /\ \A g \in Handlers : handler'[g] # Idle => handler'[g] = handler[g]
BY DEF SettlementInv, ActorsTyped

LEMMA FailInv ==
    ASSUME SettlementInv, NEW h \in Handlers, ProjectionFails(h)
    PROVE  SettlementInv'
<1> USE DEF SettlementInv, ProjectionFails, facts, tables
<1>1. ActorsTyped' /\ RowsTyped'
  BY HandlerEnds DEF ActorsTyped, RowsTyped, FactsTypeOK
<1>2. SnapshotsHold'
  BY HandlerEnds DEF SnapshotsHold, SnapshotHolds
<1> QED
  BY <1>1, <1>2 DEF EventsTell, RefundsOf, PositionsFollow,
     ItemsHavePositions, AdjustmentsMatch, Later, RunsHold, HoldsPayment

\* When a position is written with no less than before, and with no less
\* than any total a snapshot could miss, everything else goes on holding.
LEMMA PositionWritten ==
    ASSUME SettlementInv, NEW h \in Handlers, handler[h] # Idle,
           NEW row \in PositionRows, NEW p, p = handler[h].event.payment,
           row.captured = captured[p], row.refunded <= refunded[p],
           handler[h].event.type = "refunded" => handler[h].event.total <= row.refunded,
           IF positions[p] = NoPosition THEN row.refunded = refunded[p]
                                        ELSE positions[p].refunded <= row.refunded,
           Record(h), positions' = [positions EXCEPT ![p] = row],
           UNCHANGED <<facts, items, batches, run>>
    PROVE  /\ positions' \in [Payments -> PositionRows \cup {NoPosition}]
           /\ projected' \subseteq events
           /\ PositionsFollow' /\ ItemsHavePositions' /\ SnapshotsHold' /\ RunsHold'
<1> USE DEF SettlementInv, facts
<1>0. /\ handler[h] \in Snapshots /\ handler[h].event \in events /\ p \in Payments
      /\ handler' = [handler EXCEPT ![h] = Idle]
      /\ projected' = projected \cup {handler[h].event}
  BY HandlerFacts DEF Record
<1>1. /\ positions' \in [Payments -> PositionRows \cup {NoPosition}]
      /\ positions'[p] = row /\ row # NoPosition
      /\ \A q \in Payments : q # p => positions'[q] = positions[q]
  BY <1>0, AbsenceAssumption DEF RowsTyped
<1>2. /\ \A q \in Payments : refunded[q] \in Nat
      /\ row.refunded \in Nat
      /\ \A q \in Payments : positions[q] # NoPosition => positions[q].refunded \in Nat
      /\ \A e \in events : e.total \in Nat /\ e.payment \in Payments
      /\ projected \subseteq events
  BY DEF RowsTyped, FactsTypeOK, PositionRows, PaymentEvents
<1>3. PositionsFollow'
  <2>1. \A q \in Payments : positions'[q] # NoPosition =>
          /\ captured[q] > 0 /\ positions'[q].captured = captured[q]
          /\ positions'[q].refunded <= refunded[q]
    BY <1>0, <1>1 DEF PositionsFollow, EventsTell
  <2>2. ASSUME NEW e \in projected', e.type = "refunded", positions'[e.payment] # NoPosition
        PROVE  e.total <= positions'[e.payment].refunded
    <3>1. CASE e = handler[h].event
      BY <1>1, <2>2, <3>1
    <3>2. CASE e # handler[h].event /\ e.payment # p
      BY <1>0, <1>1, <1>2, <2>2, <3>2 DEF PositionsFollow
    <3>3. CASE e # handler[h].event /\ e.payment = p
      <4>1. e \in projected /\ e.total <= refunded[p] /\ e.total \in Nat
        BY <1>0, <1>2, <2>2, <3>3 DEF EventsTell
      <4>2. CASE positions[p] = NoPosition
        BY <1>1, <3>3, <4>1, <4>2
      <4>3. CASE positions[p] # NoPosition
        <5>1. e.total <= positions[p].refunded
          BY <2>2, <3>3, <4>1, <4>3 DEF PositionsFollow
        <5> QED
          BY <1>0, <1>1, <1>2, <3>3, <4>1, <4>3, <5>1
      <4> QED
        BY <4>2, <4>3
    <3> QED
      BY <3>1, <3>2, <3>3
  <2> QED
    BY <2>1, <2>2 DEF PositionsFollow
<1>4. ItemsHavePositions'
  BY <1>1 DEF ItemsHavePositions
<1>5. SnapshotsHold'
  <2> SUFFICES ASSUME NEW g \in Handlers, handler[g] # Idle, handler[g].event.payment = p,
                      handler[g].position = NoPosition
               PROVE  handler[g].refunded <= row.refunded
    BY <1>1, HandlerEnds, HandlerFacts, <1>0 DEF SnapshotsHold, SnapshotHolds
  <2>1. handler[g].refunded \in Nat /\ SnapshotHolds(handler[g])
    BY HandlerFacts DEF Snapshots
  <2>2. CASE positions[p] = NoPosition
    BY <2>1, <2>2 DEF SnapshotHolds
  <2>3. CASE positions[p] # NoPosition
    BY <1>0, <1>2, <2>1, <2>3 DEF SnapshotHolds
  <2> QED
    BY <2>2, <2>3
<1>6. RunsHold'
  BY <1>1 DEF RunsHold, HoldsPayment, ActorsTyped, RunRows
<1> QED
  BY <1>0, <1>1, <1>2, <1>3, <1>4, <1>5, <1>6

\* A capture event and an event that is no longer due need no adjustment.
LEMMA NothingToAdjust ==
    ASSUME SettlementInv, NEW e \in events, ~Later(e), projected' = projected \cup {e},
           UNCHANGED <<items, adjustments>>
    PROVE  AdjustmentsMatch'
BY DEF SettlementInv, AdjustmentsMatch, Later

LEMMA ProjectCaptureInv ==
    ASSUME SettlementInv, NEW h \in Handlers, ProjectCapture(h)
    PROVE  SettlementInv'
<1> DEFINE e == handler[h].event
           p == e.payment
           row == NewPosition(h)
<1> USE DEF SettlementInv
<1>0. /\ handler[h] # Idle /\ e.type = "captured" /\ Record(h)
      /\ refunded[p] = handler[h].refunded /\ stream' = TRUE
      /\ positions' = [positions EXCEPT ![p] = row]
      /\ UNCHANGED <<facts, items, adjustments, batches, run>>
  BY DEF ProjectCapture, Projecting, ReferencesPayment
<1>1. /\ e \in events /\ e \in PaymentEvents /\ p \in Payments
      /\ e.amount = captured[p] /\ e.amount \in 1..MaxAmount /\ refunded[p] \in 0..MaxAmount
  BY <1>0, HandlerFacts DEF EventsTell, PaymentEvents, RowsTyped, FactsTypeOK
<1>2. row \in PositionRows /\ row.captured = captured[p] /\ row.refunded = refunded[p]
  BY <1>0, <1>1 DEF NewPosition, PositionRows
<1>3. positions[p] # NoPosition => positions[p].refunded <= refunded[p]
  BY <1>1 DEF PositionsFollow
<1>4. refunded[p] <= refunded[p]
  BY <1>1
<1>5. /\ positions' \in [Payments -> PositionRows \cup {NoPosition}]
      /\ projected' \subseteq events
      /\ PositionsFollow' /\ ItemsHavePositions' /\ SnapshotsHold' /\ RunsHold'
  BY <1>0, <1>2, <1>3, <1>4, PositionWritten
<1>6. ~Later(e) /\ projected' = projected \cup {e} /\ handler' = [handler EXCEPT ![h] = Idle]
  BY <1>0 DEF Later, Record
<1>7. AdjustmentsMatch'
  BY <1>0, <1>1, <1>6, NothingToAdjust
<1>8. RowsTyped' /\ ActorsTyped' /\ EventsTell'
  BY <1>0, <1>5, <1>6, HandlerEnds
     DEF RowsTyped, FactsTypeOK, facts, ActorsTyped, EventsTell, RefundsOf
<1> QED
  BY <1>5, <1>7, <1>8

LEMMA ReprojectCaptureInv ==
    ASSUME SettlementInv, NEW h \in Handlers, ReprojectCapture(h)
    PROVE  SettlementInv'
<1> DEFINE e == handler[h].event
           p == e.payment
           row == RecapturedPosition(h)
<1> USE DEF SettlementInv
<1>0. /\ handler[h] # Idle /\ e.type = "captured" /\ Record(h)
      /\ positions[p] = handler[h].position /\ positions[p] # NoPosition
      /\ positions' = [positions EXCEPT ![p] = row]
      /\ UNCHANGED <<facts, stream, items, adjustments, batches, run>>
  BY DEF ReprojectCapture, Projecting, UpdatesPosition
<1>1. /\ e \in events /\ e \in PaymentEvents /\ p \in Payments
      /\ e.amount = captured[p] /\ e.amount \in 1..MaxAmount
      /\ positions[p] \in PositionRows /\ positions[p].refunded <= refunded[p]
  BY <1>0, HandlerFacts DEF EventsTell, PaymentEvents, RowsTyped, PositionsFollow
<1>2. /\ row \in PositionRows /\ row.captured = captured[p]
      /\ row.refunded = positions[p].refunded /\ row.refunded \in Nat
  <2>1. row = [positions[p] EXCEPT !.captured = e.amount, !.last = 0]
    BY <1>0 DEF RecapturedPosition
  <2>2. 0 \in Nat
    OBVIOUS
  <2>3. row \in PositionRows
    BY <1>1, <2>1, <2>2, Zenon DEF PositionRows
  <2>4. row.captured = captured[p] /\ row.refunded = positions[p].refunded
    BY <1>1, <2>1 DEF PositionRows
  <2> QED
    BY <2>3, <2>4 DEF PositionRows
<1>3. row.refunded <= refunded[p] /\ positions[p].refunded <= row.refunded
  BY <1>1, <1>2
<1>4. /\ positions' \in [Payments -> PositionRows \cup {NoPosition}]
      /\ projected' \subseteq events
      /\ PositionsFollow' /\ ItemsHavePositions' /\ SnapshotsHold' /\ RunsHold'
  BY <1>0, <1>2, <1>3, PositionWritten
<1>5. ~Later(e) /\ projected' = projected \cup {e} /\ handler' = [handler EXCEPT ![h] = Idle]
  BY <1>0 DEF Later, Record
<1>6. AdjustmentsMatch'
  BY <1>0, <1>1, <1>5, NothingToAdjust
<1>7. RowsTyped' /\ ActorsTyped' /\ EventsTell'
  BY <1>0, <1>4, <1>5, HandlerEnds
     DEF RowsTyped, FactsTypeOK, facts, ActorsTyped, EventsTell, RefundsOf
<1> QED
  BY <1>4, <1>6, <1>7

\* The item of a snapshot decides as the item that is there now would.
LEMMA SnapshotDecides ==
    ASSUME SettlementInv, NEW h \in Handlers, handler[h] # Idle,
           handler[h].event.type = "refunded"
    PROVE  AdjustmentDue(h) <=> Later(handler[h].event)
<1> DEFINE s == handler[h]
           p == s.event.payment
<1>1. /\ s \in Snapshots /\ SnapshotHolds(s) /\ p \in Payments
      /\ s.refunded \in Nat /\ s.event.total \in Nat /\ s.event.total <= s.refunded
  BY HandlerFacts DEF SnapshotHolds, Snapshots, PaymentEvents
<1>2. CASE s.item # NoItem
  BY <1>1, <1>2 DEF SnapshotHolds, AdjustmentDue, Later
<1>3. CASE s.item = NoItem /\ items[p] = NoItem
  BY <1>3 DEF AdjustmentDue, Later
<1>4. CASE s.item = NoItem /\ items[p] # NoItem
  <2>1. items[p].refunded \in Nat /\ s.refunded <= items[p].refunded
    BY <1>1, <1>4 DEF SnapshotHolds, SettlementInv, RowsTyped, ItemRows
  <2> QED
    BY <1>1, <1>4, <2>1 DEF AdjustmentDue, Later
<1> QED
  BY <1>2, <1>3, <1>4

LEMMA EarlyRefundInv ==
    ASSUME SettlementInv, NEW h \in Handlers, ProjectEarlyRefund(h)
    PROVE  SettlementInv'
<1> DEFINE e == handler[h].event
           p == e.payment
<1> USE DEF SettlementInv
<1>0. /\ handler[h] # Idle /\ e.type = "refunded" /\ handler[h].position = NoPosition
      /\ projected' = projected \cup {e} /\ handler' = [handler EXCEPT ![h] = Idle]
      /\ UNCHANGED <<facts, stream, positions, items, adjustments, batches, run>>
  BY DEF ProjectEarlyRefund, Projecting, Record
<1>1. /\ e \in events /\ e.total \in Nat /\ p \in Payments
      /\ handler[h].refunded \in Nat /\ SnapshotHolds(handler[h])
  BY <1>0, HandlerFacts DEF PaymentEvents, Snapshots
<1>2. ~AdjustmentDue(h)
  BY <1>0, <1>1 DEF SnapshotHolds, AdjustmentDue
<1>3. AdjustmentsMatch'
  BY <1>0, <1>1, <1>2, SnapshotDecides, NothingToAdjust
<1>4. positions[p] # NoPosition => e.total <= positions[p].refunded
  <2> HAVE positions[p] # NoPosition
  <2>1. positions[p].refunded \in Nat
    BY <1>1 DEF RowsTyped, PositionRows
  <2> QED
    BY <1>0, <1>1, <2>1 DEF SnapshotHolds
<1>5. PositionsFollow'
  BY <1>0, <1>4 DEF PositionsFollow, facts
<1>6. SnapshotsHold'
  BY <1>0, HandlerEnds DEF SnapshotsHold, SnapshotHolds, facts
<1>7. RowsTyped' /\ ActorsTyped'
  BY <1>0, <1>1, HandlerEnds DEF RowsTyped, FactsTypeOK, facts, ActorsTyped
<1> QED
  BY <1>0, <1>3, <1>5, <1>6, <1>7
     DEF EventsTell, RefundsOf, ItemsHavePositions, RunsHold, HoldsPayment, facts

LEMMA ProjectRefundInv ==
    ASSUME SettlementInv, NEW h \in Handlers, ProjectRefund(h)
    PROVE  SettlementInv'
<1> DEFINE e == handler[h].event
           p == e.payment
           row == RefundedPosition(h)
<1> USE DEF SettlementInv
<1>0. /\ handler[h] # Idle /\ e.type = "refunded" /\ Record(h)
      /\ positions[p] = handler[h].position /\ positions[p] # NoPosition
      /\ positions' = [positions EXCEPT ![p] = row]
      /\ UNCHANGED <<facts, stream, items, batches, run>>
      /\ \/ AdjustmentDue(h) /\ adjustments' = adjustments \cup {[refund |-> e, batch |-> 0]}
         \/ ~AdjustmentDue(h) /\ UNCHANGED adjustments
  BY DEF ProjectRefund, Projecting, UpdatesPosition
<1>1. /\ e \in events /\ e \in PaymentEvents /\ p \in Payments
      /\ e.total \in Nat /\ e.total <= refunded[p]
      /\ refunded[p] \in 0..MaxAmount /\ positions[p] \in PositionRows
      /\ positions[p].refunded <= refunded[p] /\ positions[p].captured = captured[p]
  BY <1>0, HandlerFacts
     DEF EventsTell, PaymentEvents, RowsTyped, FactsTypeOK, PositionsFollow
<1>2. /\ row \in PositionRows /\ row.captured = captured[p]
      /\ row.refunded <= refunded[p] /\ positions[p].refunded <= row.refunded
      /\ e.total <= row.refunded
  <2>1. /\ positions[p].refunded \in Nat /\ MaxAmount \in Nat
        /\ e.total >= positions[p].refunded => e.total \in 0..MaxAmount
    BY <1>1, FactsAssumption DEF PositionRows
  <2>2. CASE e.total >= positions[p].refunded
    <3>1. row = [positions[p] EXCEPT !.refunded = e.total, !.last = e.total]
      BY <1>0, <2>2 DEF RefundedPosition
    <3>2. row \in PositionRows
      BY <1>1, <2>1, <2>2, <3>1, Zenon DEF PositionRows
    <3>3. row.captured = positions[p].captured /\ row.refunded = e.total
      BY <1>1, <3>1 DEF PositionRows
    <3> QED
      BY <1>1, <2>1, <2>2, <3>2, <3>3
  <2>3. CASE ~(e.total >= positions[p].refunded)
    <3>1. row = positions[p]
      BY <1>0, <2>3 DEF RefundedPosition
    <3> QED
      BY <1>1, <2>1, <2>3, <3>1
  <2> QED
    BY <2>2, <2>3
<1>3. /\ positions' \in [Payments -> PositionRows \cup {NoPosition}]
      /\ projected' \subseteq events
      /\ PositionsFollow' /\ ItemsHavePositions' /\ SnapshotsHold' /\ RunsHold'
  BY <1>0, <1>2, PositionWritten
<1>4. /\ projected' = projected \cup {e} /\ e \notin projected
      /\ handler' = [handler EXCEPT ![h] = Idle]
  BY <1>0 DEF Record
<1>5. AdjustmentsMatch' /\ adjustments' \subseteq AdjustmentRows
  <2>1. CASE AdjustmentDue(h)
    <3>1. Later(e)
      BY <1>0, <2>1, SnapshotDecides
    <3>2. adjustments' = adjustments \cup {[refund |-> e, batch |-> 0]}
      BY <1>0, <2>1
    <3>3. \A a \in adjustments : a.refund # e
      BY <1>4 DEF AdjustmentsMatch
    <3>4. AdjustmentsMatch'
      <4> DEFINE new == [refund |-> e, batch |-> 0]
      <4>1. \A x : Later(x)' <=> Later(x)
        BY <1>0 DEF Later
      <4>2. new.refund = e /\ adjustments' = adjustments \cup {new}
        BY <3>2
      <4> HIDE DEF new
      <4>3. \A a \in adjustments' : a.refund \in projected' /\ Later(a.refund)'
        BY <1>4, <3>1, <4>1, <4>2 DEF AdjustmentsMatch
      <4>4. \A a, b \in adjustments' : a.refund = b.refund => a = b
        BY <3>3, <4>2 DEF AdjustmentsMatch
      <4>5. \A x \in projected' : Later(x)' => \E a \in adjustments' : a.refund = x
        BY <1>4, <4>1, <4>2 DEF AdjustmentsMatch
      <4> QED
        BY <4>3, <4>4, <4>5 DEF AdjustmentsMatch
    <3> QED
      BY <1>1, <3>2, <3>4 DEF RowsTyped, AdjustmentRows
  <2>2. CASE ~AdjustmentDue(h)
    <3>1. ~Later(e) /\ UNCHANGED adjustments
      BY <1>0, <2>2, SnapshotDecides
    <3> QED
      BY <1>0, <1>1, <1>4, <3>1, NothingToAdjust DEF RowsTyped
  <2> QED
    BY <2>1, <2>2
<1>6. RowsTyped' /\ ActorsTyped' /\ EventsTell'
  BY <1>0, <1>3, <1>4, <1>5, HandlerEnds
     DEF RowsTyped, FactsTypeOK, facts, ActorsTyped, EventsTell, RefundsOf
<1> QED
  BY <1>3, <1>5, <1>6

-----------------------------------------------------------------------------
(***************************************************************************)
(* Steps of the runs.                                                      *)
(***************************************************************************)
\* A step that changes one run, and nothing else, has only that run to care
\* about.
LEMMA RunWritten ==
    ASSUME SettlementInv, NEW r \in Runs, NEW row \in RunRows,
           run' = [run EXCEPT ![r] = row], UNCHANGED <<facts, tables, handler>>,
           \A p \in row.chosen :
               /\ positions[p] # NoPosition
               /\ row.at \in {"payments", "adjustments"} => row.read[p] = refunded[p]
    PROVE  SettlementInv'
<1> USE DEF SettlementInv, facts, tables
<1>1. /\ run' \in [Runs -> RunRows] /\ run'[r] = row
      /\ \A q \in Runs : q # r => run'[q] = run[q]
  BY DEF ActorsTyped
<1>2. RunsHold'
  BY <1>1 DEF RunsHold, HoldsPayment
<1>3. RowsTyped' /\ ActorsTyped'
  BY <1>1 DEF RowsTyped, FactsTypeOK, ActorsTyped
<1>4. SnapshotsHold'
  BY DEF SnapshotsHold, SnapshotHolds
<1> QED
  BY <1>2, <1>3, <1>4 DEF EventsTell, RefundsOf, PositionsFollow, ItemsHavePositions,
     AdjustmentsMatch, Later

LEMMA EndRunInv ==
    ASSUME SettlementInv, NEW r \in Runs, EndRun(r), UNCHANGED <<facts, tables, handler>>
    PROVE  SettlementInv'
<1>1. run' = [run EXCEPT ![r] = IdleRun] /\ IdleRun.chosen = {}
  BY DEF EndRun, IdleRun
<1> QED
  BY <1>1, IdleRunTyped, RunWritten

\* What is known of a run's row when a statement of it is executed.
LEMMA RunFacts ==
    ASSUME SettlementInv, NEW r \in Runs
    PROVE  /\ run[r] \in RunRows /\ run[r].chosen \subseteq Payments
           /\ run[r].read \in [Payments -> 0..MaxAmount]
           /\ run[r].adjustments \subseteq PaymentEvents
           /\ \A p \in run[r].chosen : positions[p] # NoPosition
BY DEF SettlementInv, ActorsTyped, RunRows, RunsHold

LEMMA LockInv ==
    ASSUME SettlementInv, NEW r \in Runs,
           \/ LockStream(r) \/ ScanCandidates(r) \/ LockPositions(r)
           \/ LockPayments(r) \/ LockAdjustments(r)
    PROVE  SettlementInv'
<1> DEFINE old == run[r]
<1>0. /\ old \in RunRows /\ run \in [Runs -> RunRows] /\ old.chosen \subseteq Payments
      /\ \A p \in old.chosen : positions[p] # NoPosition
  BY RunFacts DEF SettlementInv, ActorsTyped
<1>1. CASE LockStream(r)
  <2> DEFINE row == [old EXCEPT !.at = "streamed", !.stream = stream]
  <2>1. run' = [run EXCEPT ![r] = row] /\ UNCHANGED <<facts, tables, handler>>
    BY <1>0, <1>1 DEF LockStream
  <2>2. stream \in BOOLEAN
    BY DEF SettlementInv, RowsTyped
  <2>3. row \in RunRows
    BY <1>0, <2>2, Zenon DEF RunRows, RunStates
  <2>4. row.chosen = old.chosen /\ row.at = "streamed"
    BY <1>0 DEF RunRows
  <2> HIDE DEF row
  <2> QED
    BY <1>0, <2>1, <2>3, <2>4, RunWritten
<1>2. CASE ScanCandidates(r)
  <2> DEFINE chosen == {p \in Payments : Candidate(p)}
             row == [old EXCEPT !.at = "scanned", !.chosen = chosen]
  <2>1. run' = [run EXCEPT ![r] = row] /\ UNCHANGED <<facts, tables, handler>>
    BY <1>0, <1>2 DEF ScanCandidates
  <2>2. chosen \in SUBSET Payments
    OBVIOUS
  <2>3. \A p \in chosen : positions[p] # NoPosition
    BY DEF Candidate
  <2> HIDE DEF chosen
  <2>4. row \in RunRows
    BY <1>0, <2>2, Zenon DEF RunRows, RunStates
  <2>5. row.chosen = chosen /\ row.at = "scanned"
    BY <1>0 DEF RunRows
  <2> HIDE DEF row
  <2> QED
    BY <2>1, <2>3, <2>4, <2>5, RunWritten
<1>3. CASE LockPositions(r)
  <2>1. PICK taken \in SUBSET old.chosen :
           run' = [run EXCEPT ![r].at = "positions", ![r].chosen = taken]
    BY <1>3 DEF LockPositions
  <2> DEFINE row == [old EXCEPT !.at = "positions", !.chosen = taken]
  <2>2. run' = [run EXCEPT ![r] = row] /\ UNCHANGED <<facts, tables, handler>>
    BY <1>0, <1>3, <2>1 DEF LockPositions
  <2>3. taken \in SUBSET Payments
    BY <1>0, <2>1
  <2>4. row \in RunRows
    BY <1>0, <2>3, Zenon DEF RunRows, RunStates
  <2>5. row.chosen = taken /\ row.at = "positions"
    BY <1>0 DEF RunRows
  <2> HIDE DEF row
  <2> QED
    BY <1>0, <2>1, <2>2, <2>4, <2>5, RunWritten
<1>4. CASE LockPayments(r)
  <2> DEFINE read == [p \in Payments |-> IF p \in old.chosen THEN AmountRefunded(p) ELSE 0]
             row == [old EXCEPT !.at = "payments", !.read = read]
  <2>1. run' = [run EXCEPT ![r] = row] /\ UNCHANGED <<facts, tables, handler>>
    BY <1>0, <1>4 DEF LockPayments
  <2>2. read \in [Payments -> 0..MaxAmount]
    BY FactsAssumption DEF AmountRefunded, SettlementInv, RowsTyped, FactsTypeOK
  <2>3. \A p \in old.chosen : read[p] = refunded[p]
    BY <1>0 DEF AmountRefunded
  <2> HIDE DEF read
  <2>4. row \in RunRows
    BY <1>0, <2>2, Zenon DEF RunRows, RunStates
  <2>5. row.chosen = old.chosen /\ row.read = read
    BY <1>0 DEF RunRows
  <2> HIDE DEF row
  <2> QED
    BY <1>0, <2>1, <2>3, <2>4, <2>5, RunWritten
<1>5. CASE LockAdjustments(r)
  <2>1. PICK taken \in SUBSET {a.refund : a \in OpenAdjustments} :
           run' = [run EXCEPT ![r].at = "adjustments", ![r].adjustments = taken]
    BY <1>5 DEF LockAdjustments
  <2> DEFINE row == [old EXCEPT !.at = "adjustments", !.adjustments = taken]
  <2>2. /\ run' = [run EXCEPT ![r] = row] /\ UNCHANGED <<facts, tables, handler>>
        /\ old.at = "payments"
    BY <1>0, <1>5, <2>1 DEF LockAdjustments
  <2>3. taken \in SUBSET PaymentEvents
    BY <2>1 DEF OpenAdjustments, SettlementInv, RowsTyped, AdjustmentRows
  <2>4. row \in RunRows
    BY <1>0, <2>3, Zenon DEF RunRows, RunStates
  <2>5. row.chosen = old.chosen /\ row.read = old.read
    BY <1>0 DEF RunRows
  <2>6. \A p \in old.chosen : old.read[p] = refunded[p]
    BY <2>2 DEF SettlementInv, RunsHold, HoldsPayment
  <2> HIDE DEF row
  <2> QED
    BY <1>0, <2>2, <2>4, <2>5, <2>6, RunWritten
<1> QED
  BY <1>1, <1>2, <1>3, <1>4, <1>5

LEMMA FeeTyped == ASSUME NEW gross \in Nat PROVE Fee(gross) \in Nat
<1>1. BasisPoints \in Nat /\ FlatFee \in Nat
  BY SettlementAssumption
<1>2. gross * BasisPoints \in Nat
  BY <1>1
<1>3. \A n \in Nat : n \div 10000 \in Nat
  OBVIOUS
<1> QED
  BY <1>1, <1>2, <1>3 DEF Fee

LEMMA BatchAppended ==
    ASSUME NEW S, NEW b \in Seq(S), NEW x
    PROVE  Append(b, x) \in Seq(S \cup {x}) /\ Len(b) + 1 \in Nat \ {0}
<1>1. b \in Seq(S \cup {x})
  OBVIOUS
<1> QED
  BY <1>1

LEMMA SettleInv ==
    ASSUME SettlementInv, NEW r \in Runs, Settle(r)
    PROVE  SettlementInv'
<1> USE DEF SettlementInv
<1> DEFINE batch == Len(batches) + 1
           mine(a) == a.refund \in run[r].adjustments
           stamp(a) == IF mine(a) THEN [a EXCEPT !.batch = batch] ELSE a
<1>1. PICK ps \in SUBSET run[r].chosen :
         /\ Taken(r, ps) /\ RowsFree(r, ps)
         /\ batches' = Append(batches, BatchFor(r, ps))
         /\ items' = [p \in Payments |-> IF p \in ps THEN ItemFor(r, p, batch) ELSE items[p]]
  BY DEF Settle
<1>2. /\ run[r].at = "adjustments" /\ adjustments' = {stamp(a) : a \in adjustments}
      /\ run' = [run EXCEPT ![r] = IdleRun]
      /\ UNCHANGED <<facts, stream, positions, projected, handler>>
  BY DEF Settle, EndRun
<1>3. batch \in Nat \ {0} /\ \E S : batches' \in Seq(S)
  <2>1. PICK S : batches \in Seq(S)
    BY DEF RowsTyped
  <2> QED
    BY <1>1, <2>1, BatchAppended
<1> HIDE DEF batch
<1>4. ASSUME NEW p \in ps
      PROVE  /\ p \in Payments /\ positions[p] # NoPosition /\ items[p] = NoItem
             /\ ItemFor(r, p, batch) \in ItemRows
             /\ ItemFor(r, p, batch).refunded = refunded[p]
  <2>1. /\ p \in run[r].chosen /\ Gross(r, p) > 0 /\ items[p] = NoItem
    BY <1>1, <1>4 DEF Taken, Payable, RowsFree
  <2>2. p \in Payments /\ positions[p] # NoPosition /\ run[r].read[p] = refunded[p]
    BY <1>2, <2>1, RunFacts DEF RunsHold, HoldsPayment
  <2>3. captured[p] \in 1..MaxAmount /\ refunded[p] \in 0..MaxAmount
    BY <2>2, FactsAssumption DEF PositionsFollow, RowsTyped, FactsTypeOK
  <2>4. Gross(r, p) \in Nat
    BY <2>1, <2>2, <2>3 DEF Gross
  <2> QED
    BY <1>3, <2>1, <2>2, <2>3, <2>4, FeeTyped DEF ItemFor, ItemRows
<1>5. /\ items' \in [Payments -> ItemRows \cup {NoItem}]
      /\ \A p \in Payments : p \notin ps => items'[p] = items[p]
      /\ \A p \in ps : items'[p] # NoItem /\ items'[p].refunded = refunded[p]
  BY <1>1, <1>4, AbsenceAssumption DEF RowsTyped
<1>6. \A p \in Payments : items[p] # NoItem => items'[p] = items[p]
  BY <1>4, <1>5
<1>7. \A a \in adjustments : stamp(a).refund = a.refund /\ stamp(a) \in AdjustmentRows
  <2> SUFFICES ASSUME NEW a \in adjustments
               PROVE  stamp(a).refund = a.refund /\ stamp(a) \in AdjustmentRows
    OBVIOUS
  <2>1. a \in AdjustmentRows
    BY DEF RowsTyped
  <2>2. [a EXCEPT !.batch = batch] \in AdjustmentRows
    BY <1>3, <2>1, Zenon DEF AdjustmentRows
  <2>3. [a EXCEPT !.batch = batch].refund = a.refund
    BY <2>1 DEF AdjustmentRows
  <2> QED
    BY <2>1, <2>2, <2>3
<1>8. RowsTyped'
  BY <1>2, <1>3, <1>5, <1>7 DEF RowsTyped, FactsTypeOK, facts
<1>9. ActorsTyped' /\ \A q \in Runs : q # r => run'[q] = run[q]
  BY <1>2, IdleRunTyped DEF ActorsTyped
<1>10. ASSUME NEW e \in projected PROVE Later(e)' <=> Later(e)
  <2>1. e \in events /\ e.payment \in Payments /\ e.total \in Nat
    BY DEF RowsTyped, FactsTypeOK, PaymentEvents
  <2>2. CASE e.payment \in ps
    <3>1. e.type = "refunded" => e.total <= refunded[e.payment] /\ refunded[e.payment] \in Nat
      BY <2>1 DEF EventsTell, RowsTyped, FactsTypeOK
    <3> QED
      BY <1>4, <1>5, <2>1, <2>2, <3>1 DEF Later
  <2>3. CASE e.payment \notin ps
    BY <1>5, <2>1, <2>3 DEF Later
  <2> QED
    BY <2>2, <2>3
<1>11. AdjustmentsMatch'
  <2> HIDE DEF stamp
  <2>1. projected' = projected
    BY <1>2
  <2>2. \A a \in adjustments' : a.refund \in projected' /\ Later(a.refund)'
    BY <1>2, <1>7, <1>10, <2>1 DEF AdjustmentsMatch
  <2>3. \A a, b \in adjustments' : a.refund = b.refund => a = b
    BY <1>2, <1>7 DEF AdjustmentsMatch
  <2>4. \A e \in projected' : Later(e)' => \E a \in adjustments' : a.refund = e
    BY <1>2, <1>7, <1>10, <2>1 DEF AdjustmentsMatch
  <2> QED
    BY <2>2, <2>3, <2>4 DEF AdjustmentsMatch
<1>12. ItemsHavePositions'
  BY <1>2, <1>4, <1>5 DEF ItemsHavePositions
<1>13. SnapshotsHold'
  <2> SUFFICES ASSUME NEW h \in Handlers, handler[h] # Idle
               PROVE  SnapshotHolds(handler[h])'
    BY <1>2 DEF SnapshotsHold
  <2> DEFINE s == handler[h]
             p == s.event.payment
  <2>1. SnapshotHolds(s) /\ p \in Payments
    BY HandlerFacts
  <2>2. s.item # NoItem => items'[p] = s.item
    BY <1>6, <2>1 DEF SnapshotHolds
  <2>3. s.item = NoItem /\ items'[p] # NoItem => s.refunded <= items'[p].refunded
    BY <1>5, <2>1 DEF SnapshotHolds
  <2> QED
    BY <1>2, <2>1, <2>2, <2>3 DEF SnapshotHolds, facts
<1>14. RunsHold'
  <2>1. run'[r].chosen = {}
    BY <1>2 DEF IdleRun, ActorsTyped
  <2> QED
    BY <1>2, <1>9, <2>1 DEF RunsHold, HoldsPayment, facts
<1>15. EventsTell' /\ PositionsFollow'
  BY <1>2 DEF EventsTell, RefundsOf, PositionsFollow, facts
<1> QED
  BY <1>8, <1>9, <1>11, <1>12, <1>13, <1>14, <1>15

-----------------------------------------------------------------------------
(***************************************************************************)
(* The theorems.                                                           *)
(***************************************************************************)
LEMMA SettlementInvNext == SettlementInv /\ [SettlementNext]_vars => SettlementInv'
<1> SUFFICES ASSUME SettlementInv, [SettlementNext]_vars PROVE SettlementInv'
  OBVIOUS
<1>1. CASE PaymentStep
  BY <1>1, CaptureInv, RefundInv DEF PaymentStep
<1>2. ASSUME NEW h \in Handlers, ProjectionStep(h) PROVE SettlementInv'
  BY <1>2, BeginInv, ProjectCaptureInv, ReprojectCaptureInv, EarlyRefundInv,
     ProjectRefundInv, FailInv DEF ProjectionStep
<1>3. ASSUME NEW r \in Runs, RunStep(r) PROVE SettlementInv'
  <2>1. CASE NoEligibleItems(r) \/ FeeExceedsGross(r) \/ RunFails(r)
    BY <2>1, EndRunInv DEF NoEligibleItems, FeeExceedsGross, RunFails
  <2> QED
    BY <1>3, <2>1, LockInv, SettleInv DEF RunStep
<1>4. CASE UNCHANGED vars
  BY <1>4 DEF vars, facts, tables, SettlementInv, RowsTyped, FactsTypeOK, ActorsTyped,
     EventsTell, RefundsOf, PositionsFollow, ItemsHavePositions, AdjustmentsMatch, Later,
     SnapshotsHold, SnapshotHolds, RunsHold, HoldsPayment
<1> QED
  BY <1>1, <1>2, <1>3, <1>4 DEF SettlementNext

LEMMA SettlementInvHolds == SettlementSpec => []SettlementInv
<1>1. SettlementInit => SettlementInv
  BY NewMerchantInv, MigratedInv DEF SettlementInit
<1> QED
  BY <1>1, SettlementInvNext, PTL DEF SettlementSpec

\* Whatever the order of refunds, runs and projections, a refund of a
\* settled payment that the item does not include has one adjustment once it
\* is projected, and no other refund has any (RefundsCountedOnce).
THEOREM EveryRefundCountsOnce == SettlementSpec => []RefundsCountedOnce
BY SettlementInvHolds, InvCountsRefunds, PTL

\* A position never runs ahead of its payment and agrees with it once all
\* events of the payment have been projected (ProjectionConverges).
THEOREM PositionsConverge == SettlementSpec => []ProjectionConverges
BY SettlementInvHolds, InvConverges, PTL

-----------------------------------------------------------------------------
(***************************************************************************)
(* Money: a batch adds up to its rows, and what the ledger owes the        *)
(* merchant is what remains to be settled.                                 *)
(***************************************************************************)
\* Sums are over finite tables.
RowsFinite == IsFiniteSet(events) /\ IsFiniteSet(adjustments)

\* Rows belong to batches that exist, and an item includes no refund that
\* its payment has not had.
RowsInBatches ==
    /\ \A p \in Payments : items[p] # NoItem =>
          items[p].batch <= Len(batches) /\ items[p].refunded <= refunded[p]
    /\ \A a \in adjustments : a.batch <= Len(batches)

AccountsHold ==
    /\ batches \in Seq(BatchRows)
    /\ RowsFinite /\ RowsInBatches
    /\ BatchesAddUp /\ PayableConserved

AccountsInv == SettlementInv /\ AccountsHold

\* The sums of PayableConserved are over finite sets of integers.
LEMMA NetTyped ==
    ASSUME SettlementInv, NEW S \in SUBSET Payments
    PROVE  IsFiniteSet(S) /\ [p \in S |-> Net(p)] \in [S -> Int]
<1>1. IsFiniteSet(S)
  BY SettlementAssumption, FS_Subset
<1>2. \A p \in S : Net(p) \in Int
  BY DEF SettlementInv, RowsTyped, FactsTypeOK, Net
<1> QED
  BY <1>1, <1>2

LEMMA DebitsTyped ==
    ASSUME batches \in Seq(BatchRows)
    PROVE  /\ IsFiniteSet(DOMAIN batches)
           /\ [b \in DOMAIN batches |-> batches[b].entries["merchant_payable"]]
                 \in [DOMAIN batches -> Int]
<1>1. IsFiniteSet(DOMAIN batches)
  <2>1. DOMAIN batches = 1..Len(batches) /\ Len(batches) \in Nat
    OBVIOUS
  <2> QED
    BY <2>1, FS_Interval
<1>2. \A b \in DOMAIN batches : batches[b].entries["merchant_payable"] \in Int
  <2> SUFFICES ASSUME NEW b \in DOMAIN batches
               PROVE  batches[b].entries["merchant_payable"] \in Int
    OBVIOUS
  <2>1. batches[b] \in BatchRows
    OBVIOUS
  <2>2. batches[b].entries \in Entries
    BY <2>1 DEF BatchRows
  <2> QED
    BY <2>2 DEF Entries, AccountCodes
<1> QED
  BY <1>1, <1>2

LEMMA AmountsTyped ==
    ASSUME SettlementInv, RowsFinite
    PROVE  /\ IsFiniteSet(OpenAdjustments)
           /\ [a \in OpenAdjustments |-> a.refund.amount] \in [OpenAdjustments -> Int]
           /\ IsFiniteSet(RefundsToCome)
           /\ [e \in RefundsToCome |-> e.amount] \in [RefundsToCome -> Int]
<1>1. OpenAdjustments \subseteq adjustments /\ RefundsToCome \subseteq events
  BY DEF OpenAdjustments, RefundsToCome
<1>2. IsFiniteSet(OpenAdjustments) /\ IsFiniteSet(RefundsToCome)
  BY <1>1, FS_Subset DEF RowsFinite
<1>3. \A e \in events : e.amount \in Int
  BY FactsAssumption DEF SettlementInv, RowsTyped, FactsTypeOK, PaymentEvents
<1>4. \A a \in adjustments : a.refund.amount \in Int
  BY FactsAssumption DEF SettlementInv, RowsTyped, AdjustmentRows, PaymentEvents
<1> QED
  BY <1>1, <1>2, <1>3, <1>4

LEMMA TermsTyped ==
    ASSUME AccountsInv
    PROVE  /\ NetOf(Payments) \in Int /\ NetOf(Unsettled) \in Int
           /\ Debited \in Int /\ AmountOpen \in Int /\ AmountToCome \in Int
<1>1. Unsettled \in SUBSET Payments /\ Payments \in SUBSET Payments
  BY DEF Unsettled
<1>2. NetOf(Payments) \in Int /\ NetOf(Unsettled) \in Int
  BY <1>1, NetTyped, TotalIsInt DEF AccountsInv, NetOf
<1>3. Debited \in Int
  BY DebitsTyped, TotalIsInt DEF AccountsInv, AccountsHold, Debited
<1>4. AmountOpen \in Int /\ AmountToCome \in Int
  BY AmountsTyped, TotalIsInt DEF AccountsInv, AccountsHold, AmountOpen, AmountToCome
<1> QED
  BY <1>2, <1>3, <1>4

\* Initial states.
LEMMA NothingSettledAccounts ==
    ASSUME SettlementInv, NothingSettled, IsFiniteSet(events)
    PROVE  AccountsHold
<1> USE DEF NothingSettled
<1>1. batches \in Seq(BatchRows) /\ DOMAIN batches = {}
  OBVIOUS
<1>2. RowsFinite /\ RowsInBatches /\ BatchesAddUp
  BY <1>1, FS_EmptySet DEF RowsFinite, RowsInBatches, BatchesAddUp
<1>3. Unsettled = Payments /\ OpenAdjustments = {} /\ RefundsToCome = {}
  BY DEF Unsettled, Settled, OpenAdjustments, RefundsToCome, SettlementInv, RowsTyped,
     FactsTypeOK, PaymentEvents
<1>4. Debited = 0 /\ AmountOpen = 0 /\ AmountToCome = 0
  BY <1>1, <1>3, TotalOfNone DEF Debited, AmountOpen, AmountToCome
<1>5. NetOf(Payments) \in Int
  <2>1. Payments \in SUBSET Payments
    OBVIOUS
  <2> QED
    BY <2>1, NetTyped, TotalIsInt DEF NetOf
<1>6. PayableConserved
  BY <1>3, <1>4, <1>5 DEF PayableConserved, MerchantPayable
<1> QED
  BY <1>1, <1>2, <1>6 DEF AccountsHold

LEMMA FiniteTriples ==
    ASSUME NEW A, NEW B, IsFiniteSet(A), IsFiniteSet(B)
    PROVE  IsFiniteSet(A \X B \X B)
<1> DEFINE nested == (A \X B) \X B
           triple == [n \in nested |-> <<n[1][1], n[1][2], n[2]>>]
<1>1. IsFiniteSet(A \X B)
  BY FS_Product
<1>2. IsFiniteSet(nested)
  BY <1>1, FS_Product
<1>3. ASSUME NEW t \in A \X B \X B PROVE t \in {triple[n] : n \in nested}
  <2>1. <<<<t[1], t[2]>>, t[3]>> \in nested
    OBVIOUS
  <2>2. triple[<<<<t[1], t[2]>>, t[3]>>] = t
    BY <2>1
  <2> QED
    BY <2>1, <2>2
<1>4. A \X B \X B \subseteq {triple[n] : n \in nested}
  BY <1>3
<1> HIDE DEF nested, triple
<1>5. IsFiniteSet({triple[n] : n \in nested})
  BY <1>2, FiniteImage
<1> QED
  BY <1>4, <1>5, FS_Subset

LEMMA AccountsInit == SettlementInit => AccountsInv
<1> SUFFICES ASSUME SettlementInit PROVE AccountsInv
  OBVIOUS
<1>1. SettlementInv
  BY NewMerchantInv, MigratedInv DEF SettlementInit
<1>2. IsFiniteSet(events) /\ NothingSettled
  <2>1. CASE NewMerchantInit
    BY <2>1, FS_EmptySet DEF NewMerchantInit, FactsInit
  <2>2. CASE MigratedInit
    <3> DEFINE slots == Payments \X (0..MaxAmount) \X (0..MaxAmount)
               named == [k \in slots |-> PaymentEvent("refunded", k[1], k[3] - k[2], k[3])]
               capture == [q \in Payments |-> PaymentEvent("captured", q, captured[q], 0)]
    <3>1. ASSUME NEW p \in Payments, NEW totals \in SUBSET (1..MaxAmount)
          PROVE  RefundHistory(p, totals) \subseteq {named[k] : k \in slots}
      <4>1. ASSUME NEW pair \in Consecutive(totals)
            PROVE  PaymentEvent("refunded", p, pair[2] - pair[1], pair[2])
                      \in {named[k] : k \in slots}
        <5>0. pair[1] \in {0} \cup totals /\ pair[2] \in totals
          BY DEF Consecutive
        <5>1. pair[1] \in 0..MaxAmount /\ pair[2] \in 0..MaxAmount
          <6>1. \A t \in totals : t \in 1..MaxAmount
            OBVIOUS
          <6>2. pair[2] \in 1..MaxAmount
            BY <5>0, <6>1
          <6>3. pair[1] = 0 \/ pair[1] \in 1..MaxAmount
            BY <5>0, <6>1
          <6> QED
            BY <6>2, <6>3, FactsAssumption
        <5>2. <<p, pair[1], pair[2]>> \in slots
          BY <5>1
        <5> QED
          BY <5>2
      <4> QED
        BY <4>1 DEF RefundHistory
    <3>2. PICK reached \in [Payments -> SUBSET (1..MaxAmount)] :
             events = {PaymentEvent("captured", p, captured[p], 0) :
                         p \in {q \in Payments : captured[q] > 0}}
                     \cup UNION {RefundHistory(p, reached[p]) : p \in Payments}
      BY <2>2 DEF MigratedInit
    <3>3. events \subseteq {capture[q] : q \in Payments} \cup {named[k] : k \in slots}
      <4> HIDE DEF named, slots
      <4> QED
        BY <3>1, <3>2
    <3>4. IsFiniteSet(slots)
      <4> DEFINE k == 0..MaxAmount
      <4>1. IsFiniteSet(k) /\ IsFiniteSet(Payments)
        BY SettlementAssumption, FactsAssumption, FS_Interval
      <4> HIDE DEF k
      <4>2. IsFiniteSet(Payments \X k \X k)
        BY <4>1, FiniteTriples
      <4> QED
        BY <4>2 DEF k
    <3> HIDE DEF slots, named, capture
    <3>5. IsFiniteSet({capture[q] : q \in Payments}) /\ IsFiniteSet({named[k] : k \in slots})
      BY <3>4, SettlementAssumption, FiniteImage
    <3>6. IsFiniteSet(events)
      BY <3>3, <3>5, FS_Union, FS_Subset
    <3> QED
      BY <2>2, <3>6 DEF MigratedInit
  <2> QED
    BY <2>1, <2>2 DEF SettlementInit
<1> QED
  BY <1>1, <1>2, NothingSettledAccounts DEF AccountsInv

\* Steps that change no payment, item, adjustment or batch, nor the refunds
\* that are still to come.
LEMMA BatchesKept ==
    ASSUME BatchesAddUp, UNCHANGED <<items, adjustments, batches>>
    PROVE  BatchesAddUp'
BY DEF BatchesAddUp, ItemsOf, DeductedBy, Settled

LEMMA QuietAccounts ==
    ASSUME AccountsHold, UNCHANGED <<facts, items, adjustments, batches>>,
           RefundsToCome' = RefundsToCome
    PROVE  AccountsHold'
<1> USE DEF AccountsHold, facts
<1>1. BatchesAddUp'
  BY BatchesKept
<1>2. PayableConserved'
  BY DEF PayableConserved, MerchantPayable, NetOf, Net, Unsettled, Settled, Debited,
     AmountOpen, OpenAdjustments, AmountToCome
<1> QED
  BY <1>1, <1>2 DEF RowsFinite, RowsInBatches

\* What has been projected was to come if it is a refund later than the item.
LEMMA ToComeProjected ==
    ASSUME SettlementInv, NEW e \in events, projected' = projected \cup {e},
           UNCHANGED <<events, items>>
    PROVE  RefundsToCome' = RefundsToCome \ {e}
BY DEF RefundsToCome, Settled

LEMMA NotToCome ==
    ASSUME NEW e, ~Later(e)
    PROVE  e \notin RefundsToCome
BY DEF Later, RefundsToCome, Settled

LEMMA ProjectionAccounts ==
    ASSUME AccountsInv, NEW h \in Handlers, ProjectionStep(h)
    PROVE  AccountsHold'
<1> USE DEF AccountsInv
<1>1. ASSUME NEW e \in events, BeginProjection(h, e) PROVE AccountsHold'
  <2>1. UNCHANGED <<facts, tables>>
    BY <1>1 DEF BeginProjection
  <2>2. RefundsToCome' = RefundsToCome
    BY <2>1 DEF RefundsToCome, Settled, facts, tables
  <2> QED
    BY <2>1, <2>2, QuietAccounts DEF tables
<1>2. CASE ProjectionFails(h)
  <2>1. UNCHANGED <<facts, tables>>
    BY <1>2 DEF ProjectionFails
  <2>2. RefundsToCome' = RefundsToCome
    BY <2>1 DEF RefundsToCome, Settled, facts, tables
  <2> QED
    BY <2>1, <2>2, QuietAccounts DEF tables
<1> DEFINE e == handler[h].event
<1>3. CASE /\ handler[h] # Idle /\ Record(h) /\ ~Later(e)
           /\ UNCHANGED <<facts, items, adjustments, batches>>
  <2>1. e \in events /\ projected' = projected \cup {e} /\ UNCHANGED <<events, items>>
    BY <1>3, HandlerFacts DEF Record, facts
  <2>2. RefundsToCome' = RefundsToCome
    BY <1>3, <2>1, ToComeProjected, NotToCome
  <2> QED
    BY <1>3, <2>2, QuietAccounts
<1>4. CASE ProjectCapture(h) \/ ReprojectCapture(h)
  <2>1. /\ handler[h] # Idle /\ Record(h) /\ e.type = "captured"
        /\ UNCHANGED <<facts, items, adjustments, batches>>
    BY <1>4 DEF ProjectCapture, ReprojectCapture, Projecting
  <2>2. ~Later(e)
    BY <2>1 DEF Later
  <2> QED
    BY <1>3, <2>1, <2>2
<1>5. CASE ProjectEarlyRefund(h)
  <2>1. /\ handler[h] # Idle /\ Record(h) /\ e.type = "refunded"
        /\ handler[h].position = NoPosition
        /\ UNCHANGED <<facts, items, adjustments, batches>>
    BY <1>5 DEF ProjectEarlyRefund, Projecting
  <2>2. ~AdjustmentDue(h)
    BY <2>1, HandlerFacts DEF SnapshotHolds, AdjustmentDue
  <2>3. ~Later(e)
    BY <2>1, <2>2, SnapshotDecides
  <2> QED
    BY <1>3, <2>1, <2>3
<1>6. CASE ProjectRefund(h)
  <2>1. /\ handler[h] # Idle /\ Record(h) /\ e.type = "refunded"
        /\ UNCHANGED <<facts, items, batches>>
        /\ \/ AdjustmentDue(h) /\ adjustments' = adjustments \cup {[refund |-> e, batch |-> 0]}
           \/ ~AdjustmentDue(h) /\ UNCHANGED adjustments
    BY <1>6 DEF ProjectRefund, Projecting
  <2>2. CASE ~AdjustmentDue(h)
    <3>1. ~Later(e)
      BY <2>1, <2>2, SnapshotDecides
    <3> QED
      BY <1>3, <2>1, <2>2, <3>1
  <2>3. CASE AdjustmentDue(h)
    <3> DEFINE new == [refund |-> e, batch |-> 0]
    <3>1. /\ e \in events /\ e \in PaymentEvents /\ e \notin projected
          /\ projected' = projected \cup {e} /\ UNCHANGED <<events, items>>
      BY <2>1, HandlerFacts DEF Record, facts
    <3>2. Later(e)
      BY <2>1, <2>3, SnapshotDecides
    <3>3. e \in RefundsToCome /\ RefundsToCome' = RefundsToCome \ {e}
      BY <3>1, <3>2, ToComeProjected DEF Later, RefundsToCome, Settled
    <3>4. new.refund = e /\ new.batch = 0 /\ adjustments' = adjustments \cup {new}
      BY <2>1, <2>3
    <3>5. \A a \in adjustments : a.refund # e
      BY <3>1 DEF SettlementInv, AdjustmentsMatch
    <3> HIDE DEF new
    <3>6. new \notin OpenAdjustments /\ OpenAdjustments' = OpenAdjustments \cup {new}
      BY <3>4, <3>5 DEF OpenAdjustments
    <3>7. e.amount \in Int
      BY <3>1, FactsAssumption DEF PaymentEvents
    <3>8. RowsFinite' /\ RowsInBatches'
      <4>1. Len(batches) \in Nat
        BY DEF AccountsHold
      <4>2. 0 <= Len(batches)
        BY <4>1
      <4> QED
        BY <2>1, <3>4, <4>2, FS_AddElement DEF AccountsHold, RowsFinite, RowsInBatches, facts
    <3>9. BatchesAddUp'
      <4>1. \A b \in DOMAIN batches : b # 0
        BY DEF AccountsHold
      <4>2. \A b \in DOMAIN batches : ItemsOf(b)' = ItemsOf(b) /\ DeductedBy(b)' = DeductedBy(b)
        BY <2>1, <3>4, <4>1 DEF ItemsOf, DeductedBy, Settled
      <4> QED
        BY <2>1, <4>2 DEF AccountsHold, BatchesAddUp
    <3>10. AmountOpen' = AmountOpen + e.amount
      <4> DEFINE S == OpenAdjustments
                 f == [a \in S |-> a.refund.amount]
                 g == [a \in S \cup {new} |-> a.refund.amount]
      <4>1. IsFiniteSet(S) /\ f \in [S -> Int]
        BY AmountsTyped DEF AccountsHold
      <4>2. g[new] = e.amount /\ \A a \in S : f[a] = g[a]
        BY <3>4
      <4>3. /\ DOMAIN g = S \cup {new} /\ DOMAIN f = S /\ new \notin S
            /\ \A a \in S : f[a] \in Int
        BY <3>6, <4>1
      <4>4. AmountOpen' = SumFunction(g) /\ AmountOpen = SumFunction(f)
        BY <3>6 DEF AmountOpen
      <4> HIDE DEF f, g, S
      <4>5. SumFunction(g) = g[new] + SumFunction(f)
        <5>1. g[new] \in Int
          BY <3>7, <4>2
        <5> QED
          BY <4>1, <4>2, <4>3, <5>1, TotalWith
      <4>6. SumFunction(f) \in Int
        BY <4>1, TotalIsInt
      <4> QED
        BY <3>7, <4>2, <4>4, <4>5, <4>6
    <3>11. AmountToCome = AmountToCome' + e.amount
      <4> DEFINE S == RefundsToCome \ {e}
                 f == [x \in S |-> x.amount]
                 g == [x \in RefundsToCome |-> x.amount]
      <4>1. IsFiniteSet(RefundsToCome) /\ g \in [RefundsToCome -> Int]
        BY AmountsTyped DEF AccountsHold
      <4>2. IsFiniteSet(S) /\ f \in [S -> Int]
        BY <4>1, FS_Subset
      <4>3. g[e] = e.amount /\ \A x \in S : f[x] = g[x]
        BY <3>3
      <4>4. /\ DOMAIN g = S \cup {e} /\ DOMAIN f = S /\ e \notin S
            /\ \A x \in S : f[x] \in Int
        BY <3>3, <4>2
      <4>5. AmountToCome' = SumFunction(f) /\ AmountToCome = SumFunction(g)
        BY <3>3 DEF AmountToCome
      <4> HIDE DEF f, g, S
      <4>6. SumFunction(g) = g[e] + SumFunction(f)
        <5>1. g[e] \in Int
          BY <3>7, <4>3
        <5> QED
          BY <4>2, <4>3, <4>4, <5>1, TotalWith
      <4>7. SumFunction(f) \in Int
        BY <4>2, TotalIsInt
      <4> QED
        BY <3>7, <4>3, <4>5, <4>6, <4>7
    <3>12. MerchantPayable' = MerchantPayable /\ NetOf(Unsettled)' = NetOf(Unsettled)
      BY <2>1 DEF MerchantPayable, NetOf, Net, Debited, Unsettled, Settled, facts
    <3>13. PayableConserved'
      <4>1. AmountToCome' \in Int
        BY <3>3, AmountsTyped, FS_Subset, TotalIsInt DEF AccountsHold, AmountToCome
      <4>2. /\ MerchantPayable = NetOf(Unsettled) - AmountOpen - AmountToCome
            /\ NetOf(Unsettled) \in Int /\ AmountOpen \in Int
        BY TermsTyped DEF AccountsHold, PayableConserved
      <4> HIDE DEF e
      <4>3. MerchantPayable' = NetOf(Unsettled)' - AmountOpen' - AmountToCome'
        BY <3>7, <3>10, <3>11, <3>12, <4>1, <4>2
      <4> QED
        BY <4>3 DEF PayableConserved
    <3> QED
      BY <2>1, <3>8, <3>9, <3>13 DEF AccountsHold
  <2> QED
    BY <2>2, <2>3
<1> QED
  BY <1>1, <1>2, <1>4, <1>5, <1>6 DEF ProjectionStep

\* Payments that are captured or refunded.
LEMMA NetChanges ==
    ASSUME SettlementInv, SettlementInv', NEW S \in SUBSET Payments, NEW p \in Payments,
           \A q \in Payments \ {p} : captured'[q] = captured[q] /\ refunded'[q] = refunded[q]
    PROVE  SumFunction([q \in S |-> captured'[q] - refunded'[q]])
             = SumFunction([q \in S |-> Net(q)])
               + (IF p \in S THEN captured'[p] - refunded'[p] - Net(p) ELSE 0)
<1> DEFINE f == [q \in S |-> Net(q)]
           g == [q \in S |-> captured'[q] - refunded'[q]]
<1>1. IsFiniteSet(S) /\ f \in [S -> Int]
  BY NetTyped
<1>2. g \in [S -> Int]
  BY DEF SettlementInv, RowsTyped, FactsTypeOK
<1>3. \A q \in S \ {p} : f[q] = g[q]
  BY DEF Net
<1>4. SumFunction(f) \in Int
  BY <1>1, TotalIsInt
<1>5. CASE p \in S
  <2>1. f[p] = Net(p) /\ g[p] = captured'[p] - refunded'[p] /\ f[p] \in Int /\ g[p] \in Int
    BY <1>1, <1>2, <1>5
  <2> HIDE DEF f, g
  <2>2. SumFunction(g) = SumFunction(f) + g[p] - f[p]
    BY <1>1, <1>2, <1>3, <1>5, TotalChanged
  <2>3. SumFunction(g) = SumFunction(f) + (g[p] - f[p])
    BY <1>4, <2>1, <2>2
  <2> QED
    BY <1>5, <2>1, <2>3 DEF f, g
<1>6. CASE p \notin S
  <2>1. f = g
    BY <1>3, <1>6
  <2> HIDE DEF f, g
  <2>2. SumFunction(g) = SumFunction(f) + 0
    BY <1>4, <2>1
  <2> QED
    BY <1>6, <2>2 DEF f, g
<1> QED
  BY <1>5, <1>6

LEMMA CaptureAccounts ==
    ASSUME AccountsInv, SettlementInv', NEW p \in Payments, NEW amount \in 1..MaxAmount,
           Capture(p, amount), UNCHANGED <<tables, handler, run>>
    PROVE  AccountsHold'
<1> DEFINE e == PaymentEvent("captured", p, amount, 0)
<1> USE DEF AccountsInv, tables
<1>0. /\ captured[p] = 0 /\ captured' = [captured EXCEPT ![p] = amount]
      /\ events' = events \cup {e} /\ refunded' = refunded
  BY DEF Capture
<1>1. e.type = "captured"
  BY DEF PaymentEvent
<1> HIDE DEF e
<1>2. /\ captured'[p] - refunded'[p] - Net(p) = amount /\ amount \in Int
      /\ \A q \in Payments \ {p} : captured'[q] = captured[q] /\ refunded'[q] = refunded[q]
  <2>1. refunded[p] \in Int /\ captured[p] \in Int /\ captured'[p] = amount /\ amount \in Int
    BY <1>0, FactsAssumption DEF SettlementInv, RowsTyped, FactsTypeOK
  <2>2. captured'[p] - refunded'[p] - Net(p) = amount
    BY <1>0, <2>1 DEF Net
  <2>3. \A q \in Payments \ {p} : captured'[q] = captured[q] /\ refunded'[q] = refunded[q]
    BY <1>0 DEF SettlementInv, RowsTyped, FactsTypeOK
  <2> QED
    BY <2>1, <2>2, <2>3
<1>3. p \in Unsettled /\ Unsettled' = Unsettled
  BY <1>0 DEF Unsettled, Settled, SettlementInv, ItemsHavePositions, PositionsFollow
<1>4. NetOf(Payments)' = NetOf(Payments) + amount
  <2>1. Payments \in SUBSET Payments
    OBVIOUS
  <2> QED
    BY <1>2, <2>1, NetChanges DEF NetOf, Net
<1>5. NetOf(Unsettled)' = NetOf(Unsettled) + amount
  <2>1. Unsettled \in SUBSET Payments
    BY DEF Unsettled
  <2> QED
    BY <1>2, <1>3, <2>1, NetChanges DEF NetOf, Net
<1>6. Debited' = Debited /\ AmountOpen' = AmountOpen
  BY DEF Debited, AmountOpen, OpenAdjustments
<1>7. AmountToCome' = AmountToCome
  <2>1. RefundsToCome' = RefundsToCome
    BY <1>0, <1>1 DEF RefundsToCome, Settled
  <2> QED
    BY <2>1 DEF AmountToCome
<1>8. PayableConserved'
  <2>1. /\ NetOf(Payments) - Debited = NetOf(Unsettled) - AmountOpen - AmountToCome
        /\ NetOf(Payments) \in Int /\ NetOf(Unsettled) \in Int
        /\ Debited \in Int /\ AmountOpen \in Int /\ AmountToCome \in Int
    BY TermsTyped DEF AccountsHold, PayableConserved, MerchantPayable
  <2>2. NetOf(Payments)' - Debited' = NetOf(Unsettled)' - AmountOpen' - AmountToCome'
    BY <1>2, <1>4, <1>5, <1>6, <1>7, <2>1
  <2> QED
    BY <2>2 DEF PayableConserved, MerchantPayable
<1>9. RowsFinite' /\ RowsInBatches' /\ BatchesAddUp'
  BY <1>0, BatchesKept, FS_AddElement DEF AccountsHold, RowsFinite, RowsInBatches
<1> QED
  BY <1>8, <1>9 DEF AccountsHold

LEMMA RefundAccounts ==
    ASSUME AccountsInv, SettlementInv', NEW p \in Payments, NEW amount \in 1..MaxAmount,
           Refund(p, amount), UNCHANGED <<tables, handler, run>>
    PROVE  AccountsHold'
<1> DEFINE e == PaymentEvent("refunded", p, amount, refunded[p] + amount)
<1> USE DEF AccountsInv, tables
<1>0. /\ captured' = captured /\ refunded' = [refunded EXCEPT ![p] = @ + amount]
      /\ events' = events \cup {e}
  BY DEF Refund
<1>1. /\ refunded[p] \in Int /\ refunded[p] >= 0 /\ captured[p] \in Int
      /\ refunded'[p] = refunded[p] + amount /\ amount \in Int /\ amount > 0
      /\ \A q \in Payments \ {p} : refunded'[q] = refunded[q]
  BY <1>0, FactsAssumption DEF SettlementInv, RowsTyped, FactsTypeOK
<1>2. /\ e.type = "refunded" /\ e.payment = p /\ e.total = refunded[p] + amount
      /\ e.amount = amount
  BY DEF PaymentEvent
<1> HIDE DEF e
<1>3. e \notin events
  <2>1. e \in events => e.total <= refunded[p]
    BY <1>2 DEF SettlementInv, EventsTell
  <2> QED
    BY <1>1, <1>2, <2>1
<1>4. captured'[p] - refunded'[p] - Net(p) = -amount
  BY <1>0, <1>1 DEF Net
<1>5. NetOf(Payments)' = NetOf(Payments) - amount
  <2>1. Payments \in SUBSET Payments /\ NetOf(Payments) \in Int
    BY TermsTyped
  <2>2. NetOf(Payments)' = NetOf(Payments) + (-amount)
    BY <1>0, <1>1, <1>4, <2>1, NetChanges DEF NetOf, Net
  <2> QED
    BY <1>1, <2>1, <2>2
<1>6. Unsettled' = Unsettled /\ Unsettled \in SUBSET Payments
  BY DEF Unsettled, Settled
<1>7. Debited' = Debited /\ AmountOpen' = AmountOpen
  BY DEF Debited, AmountOpen, OpenAdjustments
<1>8. NetOf(Unsettled)' - AmountToCome' = NetOf(Unsettled) - AmountToCome - amount
  <2>0. NetOf(Unsettled) \in Int /\ AmountToCome \in Int
    BY TermsTyped
  <2>1. CASE p \in Unsettled
    <3>1. NetOf(Unsettled)' = NetOf(Unsettled) + (-amount)
      BY <1>0, <1>1, <1>4, <1>6, <2>1, NetChanges DEF NetOf, Net
    <3>2. RefundsToCome' = RefundsToCome
      BY <1>0, <1>2, <2>1 DEF RefundsToCome, Unsettled, Settled
    <3>3. AmountToCome' = AmountToCome
      BY <3>2 DEF AmountToCome
    <3> QED
      BY <1>1, <2>0, <3>1, <3>3
  <2>2. CASE p \notin Unsettled
    <3>1. NetOf(Unsettled)' = NetOf(Unsettled)
      <4>1. NetOf(Unsettled)' = NetOf(Unsettled) + 0
        BY <1>0, <1>1, <1>6, <2>2, NetChanges DEF NetOf, Net
      <4> QED
        BY <2>0, <4>1
    <3>2. Settled(p) /\ e.total > items[p].refunded
      <4>1. Settled(p) /\ items[p] \in ItemRows
        BY <2>2, AbsenceAssumption DEF Unsettled, Settled, SettlementInv, RowsTyped
      <4>2. items[p].refunded \in Int /\ items[p].refunded <= refunded[p]
        BY <4>1 DEF ItemRows, Settled, AccountsHold, RowsInBatches
      <4> QED
        BY <1>1, <1>2, <4>1, <4>2
    <3>3. RefundsToCome' = RefundsToCome \cup {e} /\ e \notin RefundsToCome
      BY <1>0, <1>2, <1>3, <3>2 DEF RefundsToCome, Settled, SettlementInv, RowsTyped
    <3>4. AmountToCome' = amount + AmountToCome
      <4> DEFINE S == RefundsToCome
                 f == [x \in S |-> x.amount]
                 g == [x \in S \cup {e} |-> x.amount]
      <4>1. IsFiniteSet(S) /\ f \in [S -> Int]
        BY AmountsTyped DEF AccountsHold
      <4>2. /\ g[e] = amount /\ g[e] \in Int
            /\ DOMAIN g = S \cup {e} /\ DOMAIN f = S /\ e \notin S
            /\ \A x \in S : f[x] = g[x] /\ f[x] \in Int
        BY <1>1, <1>2, <3>3, <4>1
      <4>3. AmountToCome' = SumFunction(g) /\ AmountToCome = SumFunction(f)
        BY <3>3 DEF AmountToCome
      <4> HIDE DEF f, g, S
      <4>4. SumFunction(g) = g[e] + SumFunction(f)
        BY <4>1, <4>2, TotalWith
      <4> QED
        BY <4>2, <4>3, <4>4
    <3> QED
      BY <1>1, <2>0, <3>1, <3>4
  <2> QED
    BY <2>1, <2>2
<1>9. PayableConserved'
  <2>1. /\ NetOf(Payments) - Debited = NetOf(Unsettled) - AmountOpen - AmountToCome
        /\ NetOf(Payments) \in Int /\ NetOf(Unsettled) \in Int
        /\ Debited \in Int /\ AmountOpen \in Int /\ AmountToCome \in Int
    BY TermsTyped DEF AccountsHold, PayableConserved, MerchantPayable
  <2>2. NetOf(Unsettled)' \in Int /\ AmountToCome' \in Int
    <3>1. RowsFinite'
      BY <1>0, FS_AddElement DEF AccountsHold, RowsFinite
    <3>2. NetOf(Unsettled)' \in Int
      <4>1. [q \in Unsettled |-> captured'[q] - refunded'[q]] \in [Unsettled -> Int]
        BY <1>6 DEF SettlementInv, RowsTyped, FactsTypeOK
      <4>2. IsFiniteSet(Unsettled)
        BY <1>6, NetTyped
      <4> QED
        BY <1>6, <4>1, <4>2, TotalIsInt DEF NetOf, Net
    <3>3. AmountToCome' \in Int
      <4>1. IsFiniteSet(RefundsToCome')
        BY <3>1, FS_Subset DEF RowsFinite, RefundsToCome
      <4>2. [x \in RefundsToCome' |-> x.amount] \in [RefundsToCome' -> Int]
        BY FactsAssumption DEF RefundsToCome, SettlementInv, RowsTyped, FactsTypeOK, PaymentEvents
      <4> QED
        BY <4>1, <4>2, TotalIsInt DEF AmountToCome
    <3> QED
      BY <3>2, <3>3
  <2>3. NetOf(Payments)' - Debited' = NetOf(Unsettled)' - AmountOpen' - AmountToCome'
    BY <1>1, <1>5, <1>7, <1>8, <2>1, <2>2
  <2> QED
    BY <2>3 DEF PayableConserved, MerchantPayable
<1>10. RowsInBatches'
  <2> SUFFICES ASSUME NEW q \in Payments, items[q] # NoItem
               PROVE  items[q].refunded <= refunded'[q]
    BY DEF AccountsHold, RowsInBatches
  <2>1. items[q].refunded \in Int /\ items[q].refunded <= refunded[q] /\ refunded[q] \in Int
    BY DEF AccountsHold, RowsInBatches, SettlementInv, RowsTyped, FactsTypeOK, ItemRows
  <2> QED
    BY <1>1, <2>1
<1>11. RowsFinite' /\ BatchesAddUp'
  BY <1>0, BatchesKept, FS_AddElement DEF AccountsHold, RowsFinite
<1> QED
  BY <1>9, <1>10, <1>11 DEF AccountsHold

\* What a run that settles payments ps knows of them and of its adjustments.
Settles(r, ps) ==
    /\ ps \in SUBSET run[r].chosen
    /\ Taken(r, ps) /\ NetPositive(r, ps) /\ RowsFree(r, ps)
    /\ batches' = Append(batches, BatchFor(r, ps))
    /\ items' = [p \in Payments |-> IF p \in ps THEN ItemFor(r, p, Len(batches) + 1)
                                    ELSE items[p]]

LEMMA SettledRows ==
    ASSUME SettlementInv, NEW r \in Runs, run[r].at = "adjustments", NEW ps, Settles(r, ps)
    PROVE  /\ ps \in SUBSET Payments /\ ps \subseteq Unsettled
           /\ \A p \in ps : /\ run[r].read[p] = refunded[p] /\ Gross(r, p) = Net(p)
                            /\ Gross(r, p) \in Nat /\ Fee(Gross(r, p)) \in Nat
<1> USE DEF Settles
<1>1. ps \in SUBSET Payments /\ ps \subseteq Unsettled
  BY RunFacts DEF RowsFree, Unsettled, Settled
<1> SUFFICES ASSUME NEW p \in ps
             PROVE  /\ run[r].read[p] = refunded[p] /\ Gross(r, p) = Net(p)
                    /\ Gross(r, p) \in Nat /\ Fee(Gross(r, p)) \in Nat
  BY <1>1
<1>2. run[r].read[p] = refunded[p]
  BY DEF SettlementInv, RunsHold, HoldsPayment
<1>3. captured[p] \in Int /\ refunded[p] \in Int /\ Gross(r, p) > 0
  BY <1>1 DEF SettlementInv, RowsTyped, FactsTypeOK, Taken, Payable
<1>4. Gross(r, p) = Net(p) /\ Gross(r, p) \in Nat
  BY <1>2, <1>3 DEF Gross, Net
<1> QED
  BY <1>2, <1>4, FeeTyped

\* The adjustments of the run are pending: each is a row of its own.
LEMMA TakenAdjustments ==
    ASSUME SettlementInv, RowsFinite, NEW r \in Runs, NEW ps, Settles(r, ps)
    PROVE  /\ run[r].adjustments \subseteq events /\ IsFiniteSet(run[r].adjustments)
           /\ \A a \in adjustments : a.refund \in run[r].adjustments =>
                 a = [refund |-> a.refund, batch |-> 0]
           /\ \A e \in run[r].adjustments : /\ [refund |-> e, batch |-> 0] \in OpenAdjustments
                                            /\ e.amount \in Nat
<1>1. \A e \in run[r].adjustments : [refund |-> e, batch |-> 0] \in adjustments
  BY DEF Settles, RowsFree
<1>2. run[r].adjustments \subseteq events
  <2> SUFFICES ASSUME NEW e \in run[r].adjustments PROVE e \in events
    OBVIOUS
  <2> DEFINE a == [refund |-> e, batch |-> 0]
  <2>1. a \in adjustments /\ a.refund = e
    BY <1>1
  <2> HIDE DEF a
  <2> QED
    BY <2>1 DEF SettlementInv, RowsTyped, AdjustmentsMatch
<1>3. IsFiniteSet(run[r].adjustments)
  BY <1>2, FS_Subset DEF RowsFinite
<1>4. ASSUME NEW a \in adjustments, a.refund \in run[r].adjustments
      PROVE  a = [refund |-> a.refund, batch |-> 0]
  <2> DEFINE b == [refund |-> a.refund, batch |-> 0]
  <2>1. b \in adjustments /\ b.refund = a.refund
    BY <1>1, <1>4
  <2> HIDE DEF b
  <2>2. a = b
    BY <2>1 DEF SettlementInv, AdjustmentsMatch
  <2> QED
    BY <2>2 DEF b
<1>5. ASSUME NEW e \in run[r].adjustments
      PROVE  [refund |-> e, batch |-> 0] \in OpenAdjustments /\ e.amount \in Nat
  BY <1>1, <1>2, <1>5, FactsAssumption
     DEF OpenAdjustments, SettlementInv, RowsTyped, FactsTypeOK, PaymentEvents
<1> QED
  BY <1>2, <1>3, <1>4, <1>5

\* The batch of a settlement pays something and balances.
LEMMA BatchBalances ==
    ASSUME SettlementInv, RowsFinite, NEW r \in Runs, run[r].at = "adjustments",
           NEW ps, Settles(r, ps)
    PROVE  LET b == BatchFor(r, ps)
           IN  /\ b \in BatchRows /\ Postable(b.entries)
               /\ b.paymentGross = GrossOf(r, ps) /\ b.adjustment = AdjustmentOf(r)
               /\ b.fee = FeeOf(r, ps)
               /\ b.paymentGross - b.adjustment = b.fee + b.net /\ b.net > 0
               /\ b.entries["merchant_payable"] = GrossOf(r, ps) - AdjustmentOf(r)
<1> DEFINE gross == GrossOf(r, ps) - AdjustmentOf(r)
           fee == FeeOf(r, ps)
           entries == SettlementEntries(gross, fee, gross - fee)
           b == BatchFor(r, ps)
<1>1. IsFiniteSet(ps)
  BY SettledRows, SettlementAssumption, FS_Subset
<1>2. [p \in ps |-> Gross(r, p)] \in [ps -> Nat] /\ [p \in ps |-> Fee(Gross(r, p))] \in [ps -> Nat]
  BY SettledRows
<1>3. GrossOf(r, ps) \in Nat /\ fee \in Nat
  BY <1>1, <1>2, TotalIsNat DEF GrossOf, FeeOf
<1>4. AdjustmentOf(r) \in Nat
  <2>1. [e \in run[r].adjustments |-> e.amount] \in [run[r].adjustments -> Nat]
    BY TakenAdjustments
  <2> QED
    BY <2>1, TakenAdjustments, TotalIsNat DEF AdjustmentOf
<1>5. gross > fee
  BY DEF Settles, NetPositive
<1>6. /\ b.paymentGross = GrossOf(r, ps) /\ b.adjustment = AdjustmentOf(r) /\ b.fee = fee
      /\ b.net = gross - fee /\ b.entries = entries
      /\ b = [paymentGross |-> GrossOf(r, ps), adjustment |-> AdjustmentOf(r), fee |-> fee,
              net |-> gross - fee, entries |-> entries]
  BY DEF BatchFor
<1>7. gross \in Nat /\ gross - fee \in Nat \ {0} /\ gross = fee + (gross - fee)
  BY <1>3, <1>4, <1>5
<1> HIDE DEF gross, fee, b
<1>8. entries \in Entries /\ Postable(entries)
  BY <1>3, <1>7, SettlementsArePostable
<1>9. entries["merchant_payable"] = gross
  BY DEF SettlementEntries, NoEntries, AccountCodes
<1> HIDE DEF entries
<1>10. b \in BatchRows
  BY <1>3, <1>4, <1>6, <1>7, <1>8 DEF BatchRows
<1>11. b.paymentGross - b.adjustment = b.fee + b.net /\ b.net > 0
  BY <1>6, <1>7 DEF gross
<1> QED
  BY <1>6, <1>8, <1>9, <1>10, <1>11 DEF b, fee, gross


LEMMA SettleAccounts ==
    ASSUME AccountsInv, SettlementInv', NEW r \in Runs, Settle(r)
    PROVE  AccountsHold'
<1> USE DEF AccountsInv
<1>0. PICK n : n = Len(batches) + 1
  OBVIOUS
<1> DEFINE mine == run[r].adjustments
           open == [e \in mine |-> [refund |-> e, batch |-> 0]]
           paid == [e \in mine |-> [refund |-> e, batch |-> n]]
<1>1. PICK ps : Settles(r, ps)
  BY DEF Settle, Settles
<1> DEFINE new == BatchFor(r, ps)
<1>2. /\ run[r].at = "adjustments"
      /\ adjustments' = {IF a.refund \in mine THEN [a EXCEPT !.batch = n] ELSE a : a \in adjustments}
      /\ UNCHANGED <<facts, projected>>
  BY <1>0 DEF Settle
<1>3. /\ RowsFinite /\ batches \in Seq(BatchRows) /\ Len(batches) \in Nat
      /\ n \in Nat /\ n = Len(batches) + 1
  BY <1>0 DEF AccountsHold
<1>4. /\ new \in BatchRows /\ Postable(new.entries)
      /\ new.paymentGross = GrossOf(r, ps) /\ new.adjustment = AdjustmentOf(r)
      /\ new.fee = FeeOf(r, ps)
      /\ new.paymentGross - new.adjustment = new.fee + new.net /\ new.net > 0
      /\ new.entries["merchant_payable"] = GrossOf(r, ps) - AdjustmentOf(r)
  BY <1>1, <1>2, <1>3, BatchBalances
<1>5. /\ ps \in SUBSET Payments /\ ps \subseteq Unsettled /\ ps # {}
      /\ \A p \in ps : run[r].read[p] = refunded[p] /\ Gross(r, p) = Net(p)
                       /\ Gross(r, p) \in Nat /\ Fee(Gross(r, p)) \in Nat
  BY <1>1, <1>2, SettledRows DEF Settles, NetPositive
<1>6. /\ mine \subseteq events /\ IsFiniteSet(mine)
      /\ \A a \in adjustments : a.refund \in mine => a = [refund |-> a.refund, batch |-> 0]
      /\ \A e \in mine : /\ [refund |-> e, batch |-> 0] \in OpenAdjustments
                         /\ e.amount \in Int
  <2>1. \A e \in mine : e.amount \in Nat => e.amount \in Int
    OBVIOUS
  <2> QED
    BY <1>1, <1>3, <2>1, TakenAdjustments
<1>7. /\ batches' = Append(batches, new)
      /\ \A p \in Payments : items'[p] = IF p \in ps THEN ItemFor(r, p, n) ELSE items[p]
  BY <1>0, <1>1 DEF Settles
<1>8. /\ batches' \in Seq(BatchRows) /\ Len(batches') = n /\ batches'[n] = new
      /\ DOMAIN batches' = DOMAIN batches \cup {n} /\ n \notin DOMAIN batches
      /\ DOMAIN batches = 1..Len(batches)
      /\ \A b \in DOMAIN batches : batches'[b] = batches[b]
  BY <1>3, <1>4, <1>7
<1> HIDE DEF new
\* The adjustments of the run change hands, and no others do.
<1>9. /\ adjustments' = (adjustments \ {open[e] : e \in mine}) \cup {paid[e] : e \in mine}
      /\ {open[e] : e \in mine} \subseteq OpenAdjustments
  <2>1. \A e \in mine : open[e] \in adjustments /\ open[e].refund = e
    BY <1>6 DEF OpenAdjustments
  <2>2. \A e \in mine : [open[e] EXCEPT !.batch = n] = paid[e]
    OBVIOUS
  <2>3. \A a \in adjustments : a.refund \in mine => a = open[a.refund]
    BY <1>6
  <2>4. \A e \in mine : open[e] \in OpenAdjustments
    BY <1>6
  <2> DEFINE Stamp(a) == IF a.refund \in mine THEN [a EXCEPT !.batch = n] ELSE a
             kept == adjustments \ {open[e] : e \in mine}
             stamped == {paid[e] : e \in mine}
  <2>5. adjustments' = {Stamp(a) : a \in adjustments}
    BY <1>2
  <2>6. \A a \in adjustments : Stamp(a) \in kept \cup stamped
    <3> SUFFICES ASSUME NEW a \in adjustments PROVE Stamp(a) \in kept \cup stamped
      OBVIOUS
    <3>1. CASE a.refund \in mine
      <4>1. a = open[a.refund] /\ Stamp(a) = [a EXCEPT !.batch = n]
        BY <2>3, <3>1
      <4>2. Stamp(a) = paid[a.refund]
        BY <2>2, <3>1, <4>1
      <4> QED
        BY <3>1, <4>2
    <3>2. CASE a.refund \notin mine
      <4>1. a \notin {open[e] : e \in mine} /\ Stamp(a) = a
        BY <2>1, <3>2
      <4> QED
        BY <4>1
    <3> QED
      BY <3>1, <3>2
  <2>7. \A a \in kept : a \in adjustments /\ Stamp(a) = a
    <3> SUFFICES ASSUME NEW a \in kept PROVE a.refund \notin mine
      OBVIOUS
    <3>1. a.refund \in mine => a = open[a.refund]
      BY <2>3
    <3> HIDE DEF open
    <3> QED
      BY <3>1
  <2>8. \A e \in mine : open[e] \in adjustments /\ Stamp(open[e]) = paid[e]
    BY <2>1, <2>2
  <2> HIDE DEF open, paid, mine, Stamp
  <2>9. kept \cup stamped \subseteq {Stamp(a) : a \in adjustments}
    BY <2>7, <2>8
  <2>10. {Stamp(a) : a \in adjustments} \subseteq kept \cup stamped
    BY <2>6
  <2> QED
    BY <2>4, <2>5, <2>9, <2>10
<1>10. /\ OpenAdjustments' = OpenAdjustments \ {open[e] : e \in mine}
       /\ DeductedBy(n)' = {paid[e] : e \in mine}
       /\ \A b \in DOMAIN batches : DeductedBy(b)' = DeductedBy(b)
  <2>1. /\ \A e \in mine : open[e].batch = 0 /\ paid[e].batch = n
        /\ n # 0 /\ \A b \in DOMAIN batches : b # 0 /\ b # n
    BY <1>8, <1>3
  <2>2. \A a \in adjustments : a.batch # n
    BY <1>3 DEF AccountsHold, RowsInBatches, SettlementInv, RowsTyped, AdjustmentRows
  <2> DEFINE opened == {open[e] : e \in mine}
             stamped == {paid[e] : e \in mine}
  <2>3. /\ adjustments' = (adjustments \ opened) \cup stamped
        /\ \A a \in opened : a.batch = 0
        /\ \A a \in stamped : a.batch = n
    BY <1>9, <2>1
  <2> HIDE DEF opened, stamped
  <2>4. OpenAdjustments' = OpenAdjustments \ opened
    BY <2>1, <2>3 DEF OpenAdjustments
  <2>5. DeductedBy(n)' = stamped
    BY <2>2, <2>3 DEF DeductedBy
  <2>6. \A b \in DOMAIN batches : DeductedBy(b)' = DeductedBy(b)
    BY <2>1, <2>3 DEF DeductedBy
  <2> QED
    BY <2>4, <2>5, <2>6 DEF opened, stamped
\* Its payments are the items of the new batch.
<1>11. \A p \in ps : /\ items[p] = NoItem /\ items'[p] # NoItem
                     /\ items'[p].batch = n /\ items'[p].fee = Fee(Gross(r, p))
                     /\ items'[p].captured - items'[p].refunded = Gross(r, p)
                     /\ items'[p].refunded = refunded[p]
  <2> SUFFICES ASSUME NEW p \in ps
               PROVE  /\ items[p] = NoItem /\ items'[p] # NoItem
                      /\ items'[p].batch = n /\ items'[p].fee = Fee(Gross(r, p))
                      /\ items'[p].captured - items'[p].refunded = Gross(r, p)
                      /\ items'[p].refunded = refunded[p]
    OBVIOUS
  <2>1. items'[p] = ItemFor(r, p, n) /\ p \in Payments /\ items[p] = NoItem
    BY <1>5, <1>7 DEF Unsettled, Settled
  <2>2. items'[p] # NoItem
    <3>1. p \in run[r].chosen /\ positions[p] # NoPosition
      BY <1>1, RunFacts DEF Settles
    <3>2. captured[p] \in 1..MaxAmount /\ refunded[p] \in 0..MaxAmount
      BY <2>1, <3>1, FactsAssumption DEF SettlementInv, PositionsFollow, RowsTyped, FactsTypeOK
    <3>3. ItemFor(r, p, n) \in ItemRows
      BY <1>3, <1>5, <3>2 DEF ItemFor, ItemRows
    <3> QED
      BY <2>1, <3>3, AbsenceAssumption
  <2> QED
    BY <1>5, <2>1, <2>2 DEF ItemFor, Gross
<1>12. /\ Unsettled' = Unsettled \ ps
       /\ ItemsOf(n)' = ps
       /\ \A b \in DOMAIN batches : ItemsOf(b)' = ItemsOf(b) /\ ItemsOf(b) \cap ps = {}
  <2>1. \A p \in Payments : p \notin ps => items'[p] = items[p]
    BY <1>7
  <2>2. \A p \in Payments : items[p] # NoItem => items[p].batch # n
    BY <1>3 DEF AccountsHold, RowsInBatches, SettlementInv, RowsTyped, ItemRows
  <2>3. \A b \in DOMAIN batches : b # n
    BY <1>8
  <2>4. Unsettled' = Unsettled \ ps
    BY <1>5, <1>11, <2>1 DEF Unsettled, Settled
  <2>5. {p \in Payments : items'[p] # NoItem /\ items'[p].batch = n} = ps
    BY <1>5, <1>11, <2>1, <2>2
  <2>6. \A b \in DOMAIN batches : ItemsOf(b)' = ItemsOf(b) /\ ItemsOf(b) \cap ps = {}
    <3> QED
      BY <1>5, <1>11, <2>1, <2>3 DEF ItemsOf, Settled
  <2> QED
    BY <2>4, <2>5, <2>6 DEF ItemsOf, Settled
<1>13. RowsFinite'
  <2>1. IsFiniteSet({paid[e] : e \in mine})
    BY <1>6, FiniteImage
  <2>2. IsFiniteSet(adjustments \ {open[e] : e \in mine})
    BY <1>3, FS_Subset DEF RowsFinite
  <2>3. IsFiniteSet(adjustments')
    BY <1>9, <2>1, <2>2, FS_Union
  <2> QED
    BY <1>2, <1>3, <2>3 DEF RowsFinite, facts
<1>14. RowsInBatches'
  <2>1. ASSUME NEW p \in Payments, items'[p] # NoItem
        PROVE  items'[p].batch <= n /\ items'[p].refunded <= refunded[p]
    <3>1. refunded[p] \in Int
      BY DEF SettlementInv, RowsTyped, FactsTypeOK
    <3>2. CASE p \in ps
      BY <1>3, <1>11, <3>1, <3>2
    <3>3. CASE p \notin ps
      <4>1. items'[p] = items[p] /\ items[p] # NoItem
        BY <1>7, <2>1, <3>3
      <4>2. items[p].batch \in Int /\ items[p].batch <= Len(batches) /\ items[p].refunded <= refunded[p]
        BY <4>1 DEF AccountsHold, RowsInBatches, SettlementInv, RowsTyped, ItemRows
      <4> QED
        BY <1>3, <4>1, <4>2
    <3> QED
      BY <3>2, <3>3
  <2>2. ASSUME NEW a \in adjustments' PROVE a.batch <= n
    <3>1. CASE a \in adjustments
      <4>1. a.batch \in Int /\ a.batch <= Len(batches)
        BY <3>1 DEF AccountsHold, RowsInBatches, SettlementInv, RowsTyped, AdjustmentRows
      <4> QED
        BY <1>3, <4>1
    <3>2. CASE a \notin adjustments
      <4>1. \A e \in mine : paid[e].batch = n
        OBVIOUS
      <4>2. a \in {paid[e] : e \in mine}
        BY <1>9, <2>2, <3>2
      <4> HIDE DEF paid
      <4>3. a.batch = n
        BY <4>1, <4>2
      <4> QED
        BY <1>3, <4>3
    <3> QED
      BY <3>1, <3>2
  <2>3. refunded' = refunded
    BY <1>2 DEF facts
  <2> QED
    BY <1>8, <2>1, <2>2, <2>3 DEF RowsInBatches
\* The sum of what the run deducts is the sum over its adjustments.
<1>15. AdjustmentOf(r) \in Int
  <2>1. [e \in mine |-> e.amount] \in [mine -> Int]
    BY <1>6
  <2> QED
    BY <1>6, <2>1, TotalIsInt DEF AdjustmentOf
<1>16. SumFunction([a \in DeductedBy(n)' |-> a.refund.amount]) = AdjustmentOf(r)
  <2> DEFINE f == [e \in mine |-> e.amount]
             g == [a \in DeductedBy(n)' |-> a.refund.amount]
  <2>1. f \in [mine -> Int]
    BY <1>6
  <2>2. \A x, y \in mine : paid[x] = paid[y] => x = y
    <3>1. \A x \in mine : paid[x].refund = x
      OBVIOUS
    <3> HIDE DEF paid
    <3> QED
      BY <3>1
  <2>3. DOMAIN g = {paid[e] : e \in mine} /\ \A e \in mine : g[paid[e]] = f[e]
    BY <1>10
  <2>4. AdjustmentOf(r) = SumFunction(f)
    BY DEF AdjustmentOf
  <2> HIDE DEF f, paid, mine
  <2>5. SumFunction(g) = SumFunction(f)
    <3> HIDE DEF g
    <3> QED
      BY <1>6, <2>1, <2>2, <2>3, TotalRenamed
  <2> QED
    BY <2>4, <2>5
<1>17. BatchesAddUp'
  <2> SUFFICES ASSUME NEW b \in DOMAIN batches'
               PROVE  /\ ItemsOf(b)' # {}
                      /\ batches'[b].paymentGross
                           = SumFunction([p \in ItemsOf(b)' |-> items'[p].captured - items'[p].refunded])
                      /\ batches'[b].adjustment
                           = SumFunction([a \in DeductedBy(b)' |-> a.refund.amount])
                      /\ batches'[b].fee = SumFunction([p \in ItemsOf(b)' |-> items'[p].fee])
                      /\ batches'[b].paymentGross - batches'[b].adjustment
                           = batches'[b].fee + batches'[b].net
                      /\ batches'[b].net > 0
                      /\ Postable(batches'[b].entries)
    BY DEF BatchesAddUp
  <2>1. CASE b = n
    <3>1. /\ [p \in ItemsOf(n)' |-> items'[p].captured - items'[p].refunded]
               = [p \in ps |-> Gross(r, p)]
          /\ [p \in ItemsOf(n)' |-> items'[p].fee] = [p \in ps |-> Fee(Gross(r, p))]
      BY <1>11, <1>12
    <3>2. /\ GrossOf(r, ps) = SumFunction([p \in ps |-> Gross(r, p)])
          /\ FeeOf(r, ps) = SumFunction([p \in ps |-> Fee(Gross(r, p))])
      BY DEF GrossOf, FeeOf
    <3>3. batches'[b] = new /\ ItemsOf(b)' = ps /\ ItemsOf(b)' # {}
      BY <1>5, <1>8, <1>12, <2>1
    <3>4. batches'[b].paymentGross
            = SumFunction([p \in ItemsOf(b)' |-> items'[p].captured - items'[p].refunded])
      BY <1>4, <2>1, <3>1, <3>2, <3>3
    <3>5. batches'[b].adjustment = SumFunction([a \in DeductedBy(b)' |-> a.refund.amount])
      BY <1>4, <1>16, <2>1, <3>3
    <3>6. batches'[b].fee = SumFunction([p \in ItemsOf(b)' |-> items'[p].fee])
      BY <1>4, <2>1, <3>1, <3>2, <3>3
    <3> QED
      BY <1>4, <3>3, <3>4, <3>5, <3>6
  <2>2. CASE b \in DOMAIN batches
    <3>1. batches'[b] = batches[b] /\ ItemsOf(b)' = ItemsOf(b) /\ DeductedBy(b)' = DeductedBy(b)
      BY <1>8, <1>10, <1>12, <2>2
    <3>2. \A p \in ItemsOf(b) : items'[p] = items[p]
      BY <1>7, <1>12, <2>2 DEF ItemsOf
    <3>3. /\ [p \in ItemsOf(b)' |-> items'[p].captured - items'[p].refunded]
               = [p \in ItemsOf(b) |-> items[p].captured - items[p].refunded]
          /\ [p \in ItemsOf(b)' |-> items'[p].fee] = [p \in ItemsOf(b) |-> items[p].fee]
      BY <3>1, <3>2
    <3> QED
      BY <2>2, <3>1, <3>3 DEF AccountsHold, BatchesAddUp
  <2> QED
    BY <1>8, <2>1, <2>2
\* What the batch debits is what its payments were worth less its adjustments.
<1>18. GrossOf(r, ps) \in Int /\ NetOf(Unsettled) = NetOf(Unsettled)' + GrossOf(r, ps)
       /\ NetOf(Unsettled)' \in Int
  <2> DEFINE S == Unsettled \ ps
             f == [p \in S |-> Net(p)]
             g == [p \in ps |-> Gross(r, p)]
             h == [p \in Unsettled |-> Net(p)]
  <2>1. Unsettled \in SUBSET Payments /\ S \in SUBSET Payments
    BY DEF Unsettled
  <2>2. IsFiniteSet(S) /\ IsFiniteSet(ps) /\ S \cap ps = {} /\ S \cup ps = Unsettled
    BY <1>5, <2>1, SettlementAssumption, FS_Subset
  <2>3. f \in [S -> Int] /\ h \in [Unsettled -> Int]
    BY <2>1, NetTyped
  <2>4. g \in [ps -> Int] /\ \A p \in ps : h[p] = g[p]
    BY <1>5
  <2>5. \A p \in S : h[p] = f[p]
    OBVIOUS
  <2>6. /\ NetOf(Unsettled)' = SumFunction(f) /\ NetOf(Unsettled) = SumFunction(h)
        /\ GrossOf(r, ps) = SumFunction(g)
    BY <1>2, <1>12 DEF NetOf, Net, GrossOf, facts
  <2> HIDE DEF S, f, g, h
  <2>7. SumFunction(h) = SumFunction(f) + SumFunction(g)
    <3>1. h \in [S \cup ps -> Int]
      BY <2>2, <2>3
    <3> QED
      BY <2>2, <2>3, <2>4, <2>5, <3>1, TotalOfUnion
  <2>8. SumFunction(f) \in Int /\ SumFunction(g) \in Int
    BY <2>2, <2>3, <2>4, TotalIsInt
  <2> QED
    BY <2>6, <2>7, <2>8
<1>19. AmountOpen = AmountOpen' + AdjustmentOf(r) /\ AmountOpen' \in Int
  <2> DEFINE T == {open[e] : e \in mine}
             S == OpenAdjustments \ T
             f == [a \in S |-> a.refund.amount]
             g == [a \in T |-> a.refund.amount]
             h == [a \in OpenAdjustments |-> a.refund.amount]
             m == [e \in mine |-> e.amount]
  <2>1. IsFiniteSet(OpenAdjustments) /\ h \in [OpenAdjustments -> Int]
    BY <1>3, AmountsTyped
  <2>2. /\ IsFiniteSet(S) /\ IsFiniteSet(T) /\ S \cap T = {} /\ S \cup T = OpenAdjustments
        /\ f \in [S -> Int] /\ g \in [T -> Int]
        /\ \A a \in S : h[a] = f[a]
        /\ \A a \in T : h[a] = g[a]
    BY <1>9, <2>1, FS_Subset
  <2>3. /\ m \in [mine -> Int]
        /\ \A e \in mine : g[open[e]] = m[e] /\ open[e].refund = e
        /\ DOMAIN g = {open[e] : e \in mine}
    <3>1. m \in [mine -> Int]
      BY <1>6
    <3>2. \A e \in mine : open[e] \in T /\ open[e].refund = e
      OBVIOUS
    <3> QED
      BY <3>1, <3>2
  <2>4. \A x, y \in mine : open[x] = open[y] => x = y
    <3> HIDE DEF open, g, m
    <3> QED
      BY <2>3
  <2>5. /\ AmountOpen' = SumFunction(f) /\ AmountOpen = SumFunction(h)
        /\ AdjustmentOf(r) = SumFunction(m)
    BY <1>10 DEF AmountOpen, AdjustmentOf
  <2> HIDE DEF S, T, f, g, h, m, open, mine
  <2>6. SumFunction(h) = SumFunction(f) + SumFunction(g)
    <3>1. h \in [S \cup T -> Int]
      BY <2>1, <2>2
    <3> QED
      BY <2>2, <3>1, TotalOfUnion
  <2>7. SumFunction(g) = SumFunction(m)
    BY <1>6, <2>3, <2>4, TotalRenamed
  <2>8. SumFunction(f) \in Int
    BY <2>2, TotalIsInt
  <2> QED
    BY <2>5, <2>6, <2>7, <2>8
<1>20. Debited' = GrossOf(r, ps) - AdjustmentOf(r) + Debited
  <2> DEFINE S == DOMAIN batches
             f == [b \in S |-> batches[b].entries["merchant_payable"]]
             g == [b \in S \cup {n} |-> batches'[b].entries["merchant_payable"]]
  <2>1. IsFiniteSet(S) /\ f \in [S -> Int]
    BY <1>3, DebitsTyped
  <2>2. /\ g[n] = GrossOf(r, ps) - AdjustmentOf(r) /\ n \notin S
        /\ DOMAIN f = S /\ DOMAIN g = S \cup {n}
        /\ \A b \in S : f[b] = g[b]
    BY <1>4, <1>8
  <2>3. g[n] \in Int /\ \A b \in S : f[b] \in Int
    BY <1>15, <1>18, <2>1, <2>2
  <2>4. Debited' = SumFunction(g) /\ Debited = SumFunction(f)
    BY <1>8 DEF Debited
  <2> HIDE DEF S, f, g
  <2>5. SumFunction(g) = g[n] + SumFunction(f)
    <3>1. n \notin S /\ DOMAIN f = S /\ DOMAIN g = S \cup {n}
      BY <2>2
    <3>2. \A b \in S : f[b] = g[b]
      BY <2>2
    <3> QED
      BY <2>1, <2>3, <3>1, <3>2, TotalWith
  <2> QED
    BY <2>2, <2>4, <2>5
\* Refunds that were to come still are; of the payments of the run none was.
<1>21. AmountToCome' = AmountToCome
  <2>1. \A e \in events : e.payment \in Payments
    BY DEF SettlementInv, RowsTyped, FactsTypeOK, PaymentEvents
  <2>2. \A e \in events : e.type = "refunded" => ~(e.total > refunded[e.payment])
    BY <2>1 DEF SettlementInv, EventsTell, RowsTyped, FactsTypeOK, PaymentEvents
  <2>3. RefundsToCome' = RefundsToCome
    BY <1>2, <1>7, <1>11, <2>1, <2>2 DEF RefundsToCome, Settled, facts
  <2> QED
    BY <2>3 DEF AmountToCome
<1>22. PayableConserved'
  <2>1. /\ NetOf(Payments) - Debited = NetOf(Unsettled) - AmountOpen - AmountToCome
        /\ NetOf(Payments) \in Int /\ NetOf(Unsettled) \in Int
        /\ Debited \in Int /\ AmountOpen \in Int /\ AmountToCome \in Int
    BY TermsTyped DEF AccountsHold, PayableConserved, MerchantPayable
  <2>2. NetOf(Payments)' = NetOf(Payments)
    BY <1>2 DEF NetOf, Net, facts
  <2> DEFINE g == GrossOf(r, ps)
             a == AdjustmentOf(r)
             u == NetOf(Unsettled)'
             o == AmountOpen'
  <2>3. g \in Int /\ a \in Int /\ u \in Int /\ o \in Int
    BY <1>15, <1>18, <1>19
  <2>4. NetOf(Unsettled) = u + g /\ AmountOpen = o + a /\ Debited' = g - a + Debited
    BY <1>18, <1>19, <1>20
  <2> HIDE DEF g, a, u, o
  <2>5. NetOf(Payments) - (g - a + Debited) = u - o - AmountToCome
    BY <2>1, <2>3, <2>4
  <2>6. NetOf(Payments)' - Debited' = NetOf(Unsettled)' - AmountOpen' - AmountToCome'
    BY <1>21, <2>2, <2>4, <2>5 DEF u, o
  <2> QED
    BY <2>6 DEF PayableConserved, MerchantPayable
<1> QED
  BY <1>8, <1>13, <1>14, <1>17, <1>22 DEF AccountsHold

LEMMA AccountsInvNext == AccountsInv /\ [SettlementNext]_vars => AccountsInv'
<1> SUFFICES ASSUME AccountsInv, [SettlementNext]_vars PROVE AccountsInv'
  OBVIOUS
<1>1. SettlementInv'
  BY SettlementInvNext DEF AccountsInv
<1>2. CASE PaymentStep
  <2>1. AccountsHold'
    BY <1>1, <1>2, CaptureAccounts, RefundAccounts DEF PaymentStep
  <2> QED
    BY <1>1, <2>1 DEF AccountsInv
<1>3. ASSUME NEW h \in Handlers, ProjectionStep(h) PROVE AccountsInv'
  BY <1>1, <1>3, ProjectionAccounts DEF AccountsInv
<1>4. CASE UNCHANGED <<facts, tables>>
  <2>1. RefundsToCome' = RefundsToCome
    BY <1>4 DEF RefundsToCome, Settled, facts, tables
  <2>2. AccountsHold'
    BY <1>4, <2>1, QuietAccounts DEF AccountsInv, tables
  <2> QED
    BY <1>1, <2>2 DEF AccountsInv
<1>5. ASSUME NEW r \in Runs, RunStep(r) PROVE AccountsInv'
  <2>1. CASE Settle(r)
    <3>1. AccountsHold'
      BY <1>1, <2>1, SettleAccounts
    <3> QED
      BY <1>1, <3>1 DEF AccountsInv
  <2>2. CASE ~Settle(r)
    BY <1>4, <1>5, <2>2 DEF RunStep, LockStream, ScanCandidates, LockPositions, LockPayments,
       LockAdjustments, NoEligibleItems, FeeExceedsGross, RunFails
  <2> QED
    BY <2>1, <2>2
<1> QED
  BY <1>2, <1>3, <1>4, <1>5 DEF SettlementNext, vars

LEMMA AccountsInvHolds == SettlementSpec => []AccountsInv
BY AccountsInit, AccountsInvNext, PTL DEF SettlementSpec

\* The stored totals of every batch are those of the items and adjustments
\* that belong to it, it pays the merchant something, and its ledger
\* transaction balances (BatchesAddUp).
THEOREM BatchesEqualTheirRows == SettlementSpec => []BatchesAddUp
<1>1. AccountsInv => BatchesAddUp
  BY DEF AccountsInv, AccountsHold
<1> QED
  BY <1>1, AccountsInvHolds, PTL

\* At every moment, between any captures, refunds, projections and runs, the
\* ledger owes the merchant what is unsettled less the refunds that have yet
\* to be deducted (PayableConserved).
THEOREM NothingIsPaidTwice == SettlementSpec => []PayableConserved
<1>1. AccountsInv => PayableConserved
  BY DEF AccountsInv, AccountsHold
<1> QED
  BY <1>1, AccountsInvHolds, PTL

-----------------------------------------------------------------------------
(***************************************************************************)
(* Whatever the ledger service posts, the database accepts when its caller *)
(* commits; and a transaction is reversed at most once.                    *)
(***************************************************************************)
\* A new transaction that createPosting lets in, and that is right in itself,
\* leaves the tables right.
LEMMA NewTransaction ==
    ASSUME NEW db \in LedgerTables, NEW t \in TransactionRows,
           CommitAccepts(db), UniqueKeys(db),
           createPosting(db, t).result = "posted",
           Postable(t.entries), AmountsInRange(t.entries), ReversalIsExact(db, t),
           (t.type = "reversal") = (t.reversalOf # NoReversal)
    PROVE  LET new == createPosting(db, t).db
           IN  new \in LedgerTables /\ CommitAccepts(new) /\ UniqueKeys(new)
<1> DEFINE new == [db EXCEPT !.transactions = @ \cup {t}]
<1>1. /\ createPosting(db, t).db = new
      /\ Provisioned(db, t.merchant)
      /\ ~\E u \in db.transactions : u.publicId = t.publicId
      /\ ~\E u \in db.transactions :
            u.merchant = t.merchant /\ u.type = t.type /\ u.reference = t.reference
      /\ t.reversalOf # NoReversal => ~\E u \in db.transactions : u.reversalOf = t.reversalOf
  BY DEF createPosting, Refused
<1>2. /\ new.transactions = db.transactions \cup {t}
      /\ new.accounts = db.accounts
      /\ new \in LedgerTables
  BY DEF LedgerTables
<1>3. \A m : Provisioned(new, m) <=> Provisioned(db, m)
  BY <1>2 DEF Provisioned, AccountsOf
<1>4. \A u : ReversalIsExact(db, u) => ReversalIsExact(new, u)
  BY <1>2 DEF ReversalIsExact
<1>5. CommitAccepts(new)
  BY <1>1, <1>2, <1>3, <1>4 DEF CommitAccepts
<1>6. UniqueKeys(new)
  <2> SUFFICES ASSUME NEW u \in new.transactions, NEW v \in new.transactions, u # v
               PROVE  /\ u.publicId # v.publicId
                      /\ <<u.merchant, u.type, u.reference>> # <<v.merchant, v.type, v.reference>>
                      /\ u.reversalOf # NoReversal => u.reversalOf # v.reversalOf
    BY DEF UniqueKeys
  <2>1. CASE u \in db.transactions /\ v \in db.transactions
    BY <2>1 DEF UniqueKeys
  <2>2. CASE u = t /\ v \in db.transactions
    BY <1>1, <2>2
  <2>3. CASE u \in db.transactions /\ v = t
    BY <1>1, <2>3
  <2> QED
    BY <1>2, <2>1, <2>2, <2>3
<1> QED
  BY <1>1, <1>2, <1>5, <1>6

\* What a posting refuses, it leaves as it was.
LEMMA RefusalChangesNothing ==
    ASSUME NEW db, NEW t, createPosting(db, t).result # "posted"
    PROVE  createPosting(db, t).db = db
BY DEF createPosting, Refused

\* A capture or a refund that the service posts is one the deferred triggers
\* accept: it balances, is in range and belongs to a complete chart; and the
\* unique keys hold, whether it was posted or refused.
THEOREM CapturesAndRefundsCommit ==
    ASSUME NEW db \in LedgerTables, CommitAccepts(db), UniqueKeys(db), MaxSafe \in Nat,
           NoReversal \notin LedgerIds,
           NEW c, NEW type \in {"capture", "refund"}, NEW id \in LedgerIds
    PROVE  LET new == post(db, c, type, id).db
           IN  new \in LedgerTables /\ CommitAccepts(new) /\ UniqueKeys(new)
<1> DEFINE entries == IF type = "capture" THEN CaptureEntries(c.amount)
                                          ELSE RefundEntries(c.amount)
           t == Posting(c, type, c.currency, entries, id, NoReversal)
<1>1. CASE ~assertMoneyCommand(c)
  BY <1>1 DEF post, Refused
<1>2. CASE assertMoneyCommand(c)
  <2>1. c.amount \in Nat \ {0} /\ c.amount \in 1..MaxSafe
    BY <1>2 DEF assertMoneyCommand
  <2>2. entries \in Entries /\ Postable(entries)
    BY <2>1, CapturesArePostable, RefundsArePostable
  <2>3. AmountsInRange(entries)
    BY <2>1 DEF AmountsInRange, CaptureEntries, RefundEntries, NoEntries, AccountCodes
  <2>4. t \in TransactionRows
    BY <1>2, <2>2 DEF Posting, TransactionRows, assertMoneyCommand, assertCommonCommand
  <2>5. /\ t.entries = entries /\ t.type = type /\ t.reversalOf = NoReversal
        /\ ReversalIsExact(db, t)
    BY DEF Posting, ReversalIsExact
  <2>6. post(db, c, type, id) = createPosting(db, t)
    BY <1>2 DEF post
  <2> HIDE DEF t, entries
  <2>7. CASE createPosting(db, t).result = "posted"
    BY <2>2, <2>3, <2>4, <2>5, <2>6, <2>7, NewTransaction
  <2>8. CASE createPosting(db, t).result # "posted"
    BY <2>6, <2>8, RefusalChangesNothing
  <2> QED
    BY <2>7, <2>8
<1> QED
  BY <1>1, <1>2

\* A settlement's entries are within range and balance for every gross, fee
\* and net the service lets through, a zero fee included.
THEOREM SettlementsCommit ==
    ASSUME NEW db \in LedgerTables, CommitAccepts(db), UniqueKeys(db), MaxSafe \in Nat,
           NoReversal \notin LedgerIds,
           NEW c, c.fee \in Int, c.net \in Int, NEW id \in LedgerIds
    PROVE  LET new == postSettlement(db, c, id).db
           IN  new \in LedgerTables /\ CommitAccepts(new) /\ UniqueKeys(new)
<1> DEFINE entries == SettlementEntries(c.gross, c.fee, c.net)
           t == Posting(c, "settlement", c.currency, entries, id, NoReversal)
<1>1. CASE ~assertSettlementCommand(c)
  BY <1>1 DEF postSettlement, Refused
<1>2. CASE assertSettlementCommand(c)
  <2>1. /\ c.gross \in 1..MaxSafe /\ c.gross \in Nat
        /\ c.fee \in Nat /\ c.net \in Nat /\ c.net > 0 /\ c.gross = c.fee + c.net
    BY <1>2 DEF assertSettlementCommand
  <2>2. entries \in Entries /\ Postable(entries)
    BY <2>1, SettlementsArePostable
  <2>3. AmountsInRange(entries)
    BY <2>1 DEF AmountsInRange, SettlementEntries, NoEntries, AccountCodes
  <2>4. t \in TransactionRows
    BY <1>2, <2>2 DEF Posting, TransactionRows, assertSettlementCommand, assertCommonCommand
  <2>5. /\ t.entries = entries /\ t.type = "settlement" /\ t.reversalOf = NoReversal
        /\ ReversalIsExact(db, t)
    BY DEF Posting, ReversalIsExact
  <2>6. postSettlement(db, c, id) = createPosting(db, t)
    BY <1>2 DEF postSettlement
  <2> HIDE DEF t, entries
  <2>7. CASE createPosting(db, t).result = "posted"
    BY <2>2, <2>3, <2>4, <2>5, <2>6, <2>7, NewTransaction
  <2>8. CASE createPosting(db, t).result # "posted"
    BY <2>6, <2>8, RefusalChangesNothing
  <2> QED
    BY <2>7, <2>8
<1> QED
  BY <1>1, <1>2

\* A reversal that is let in inverts its original exactly, so the deferred
\* triggers accept it, and the original cannot be reversed a second time, nor
\* the reversal itself.
THEOREM ReversalsCommitOnce ==
    ASSUME NEW db \in LedgerTables, CommitAccepts(db), UniqueKeys(db), MaxSafe \in Nat,
           NoReversal \notin LedgerIds, NEW c, NEW id \in LedgerIds
    PROVE  LET done == reverse(db, c, id)
           IN  /\ done.db \in LedgerTables /\ CommitAccepts(done.db) /\ UniqueKeys(done.db)
               /\ done.result = "posted" =>
                     \A d, other :
                        d.original \in {c.original, id} /\ d.merchant = c.merchant =>
                            reverse(done.db, d, other).result # "posted"
<1> DEFINE found == findPostedForReversal(db, c.merchant, c.original)
           o == CHOOSE t \in found : TRUE
           t == Posting(c, "reversal", o.currency, ReversalEntries(o.entries), id, c.original)
           done == reverse(db, c, id)
<1>1. CASE ~(/\ assertCommonCommand(c) /\ c.original \in LedgerIds
             /\ found # {} /\ o.type # "reversal")
  BY <1>1 DEF reverse, Refused
<1>2. CASE /\ assertCommonCommand(c) /\ c.original \in LedgerIds
           /\ found # {} /\ o.type # "reversal"
  <2>1. /\ o \in db.transactions /\ o.merchant = c.merchant /\ o.publicId = c.original
    BY <1>2 DEF findPostedForReversal
  <2>2. o \in TransactionRows
    BY <2>1 DEF LedgerTables
  <2>3. /\ Postable(o.entries) /\ AmountsInRange(o.entries) /\ o.entries \in Entries
    BY <2>1, <2>2 DEF CommitAccepts, TransactionRows
  <2>4. /\ ReversalEntries(o.entries) \in Entries /\ Postable(ReversalEntries(o.entries))
    BY <2>3, ReversalsUndo
  <2>5. AmountsInRange(ReversalEntries(o.entries))
    BY <2>3 DEF AmountsInRange, ReversalEntries, Entries
  <2>6. t \in TransactionRows
    BY <1>2, <2>2, <2>4 DEF Posting, TransactionRows, assertCommonCommand
  <2>7. /\ t.entries = ReversalEntries(o.entries) /\ t.type = "reversal"
        /\ t.reversalOf = c.original /\ t.merchant = c.merchant /\ t.currency = o.currency
        /\ t.publicId = id
    BY DEF Posting
  <2>8. t.reversalOf # NoReversal /\ ReversalIsExact(db, t)
    BY <1>2, <2>1, <2>7 DEF ReversalIsExact, ReversalEntries
  <2>9. done = createPosting(db, t)
    BY <1>2 DEF reverse
  <2> HIDE DEF t, o, found, done
  <2>10. CASE done.result # "posted"
    <3>1. done.db = db
      BY <2>9, <2>10, RefusalChangesNothing
    <3> QED
      BY <2>10, <3>1 DEF done
  <2>11. CASE done.result = "posted"
    <3>1. done.db \in LedgerTables /\ CommitAccepts(done.db) /\ UniqueKeys(done.db)
      BY <2>3, <2>4, <2>5, <2>6, <2>7, <2>8, <2>9, <2>11, NewTransaction
    <3>2. t \in done.db.transactions
      BY <2>9, <2>11 DEF createPosting, Refused, LedgerTables
    <3>3. ASSUME NEW d, NEW other, d.original \in {c.original, id}, d.merchant = c.merchant
          PROVE  reverse(done.db, d, other).result # "posted"
      <4> DEFINE foundNow == findPostedForReversal(done.db, d.merchant, d.original)
                 now == CHOOSE u \in foundNow : TRUE
                 again == Posting(d, "reversal", now.currency, ReversalEntries(now.entries),
                                  other, d.original)
      <4>1. CASE d.original = id
        <5>1. foundNow = {t}
          BY <2>7, <3>1, <3>2, <3>3, <4>1 DEF findPostedForReversal, UniqueKeys
        <5>2. now.type = "reversal"
          BY <2>7, <5>1
        <5> QED
          BY <5>1, <5>2 DEF reverse, Refused
      <4>2. CASE d.original = c.original
        <5>1. again.reversalOf = t.reversalOf /\ again.reversalOf # NoReversal
          BY <2>7, <2>8, <4>2 DEF Posting
        <5> HIDE DEF again
        <5>2. createPosting(done.db, again).result # "posted"
          BY <3>2, <5>1 DEF createPosting, Refused
        <5> QED
          BY <5>2 DEF reverse, Refused, again
      <4> QED
        BY <3>3, <4>1, <4>2
    <3> QED
      BY <3>1, <3>3 DEF done
  <2> QED
    BY <2>10, <2>11 DEF done
<1> QED
  BY <1>1, <1>2

\* Provisioning completes whatever part of the chart a merchant already has,
\* and doing it again changes nothing.
THEOREM ProvisioningCompletes ==
    ASSUME NEW db \in LedgerTables, NEW m \in Merchants,
           AccountsOf(db, m) \subseteq ProvisionRecords(m)
    PROVE  LET done == provisionAccounts(db, m)
           IN  /\ done.result = "provisioned"
               /\ Provisioned(done.db, m)
               /\ provisionAccounts(done.db, m).db = done.db
<1> DEFINE filled == [db EXCEPT !.accounts = WithMissing(db, m)]
<1>1. filled.accounts = WithMissing(db, m) /\ filled.transactions = db.transactions
  BY DEF LedgerTables
<1>2. \A a \in ProvisionRecords(m) :
          /\ a.merchant = m
          /\ \A b \in ProvisionRecords(m) :
                b.code = a.code /\ b.currency = a.currency => b = a
  BY DEF ProvisionRecords
<1>3. AccountsOf(filled, m) = ProvisionRecords(m)
  BY <1>1, <1>2 DEF AccountsOf, WithMissing
<1>4. Provisioned(filled, m)
  BY <1>3 DEF Provisioned
<1>5. provisionAccounts(db, m) = [result |-> "provisioned", db |-> filled]
  BY <1>4 DEF provisionAccounts
<1>6. WithMissing(filled, m) = filled.accounts
  BY <1>2, <1>3 DEF WithMissing
<1>7. [filled EXCEPT !.accounts = WithMissing(filled, m)] = filled
  BY <1>6 DEF LedgerTables
<1>8. provisionAccounts(filled, m).db = filled
  BY <1>4, <1>7 DEF provisionAccounts
<1> QED
  BY <1>4, <1>5, <1>8
=============================================================================
