------------------------ MODULE PaymentCommands_proofs ------------------------
(***************************************************************************)
(* Proofs about PaymentBook, the abstract books, and PaymentCommands:      *)
(* with the books hidden the commands are idempotent commands, with the    *)
(* protocol hidden they are atomic steps on the books; so what is proved   *)
(* of either holds of the composition.                                     *)
(***************************************************************************)
EXTENDS PaymentCommands, IdempotentCommands_proofs, LedgerEntries_proofs

(***************************************************************************)
(* The books, for every amount up to every MaxAmount.                      *)
(***************************************************************************)
BookInv == BookTypeOK /\ StatusProjection

LEMMA BookInvInit == BookInit => BookInv
BY DEF BookInit, BookInv, BookTypeOK, StatusProjection, AbsentPayment, PaymentRows, Statuses

\* An accepted capture finds a created row and leaves a captured one.
LEMMA CaptureRow ==
    ASSUME BookInv, NEW p \in PaymentIds, NEW amount, NEW currency,
           CaptureError(payments[p], amount, currency) = "none"
    PROVE  LET row == CapturedRow(payments[p])
           IN /\ row \in PaymentRows
              /\ row.status = "captured" /\ row.captured = row.amount /\ row.refunded = 0
              /\ amount = payments[p].amount
              /\ currency = payments[p].currency
<1>1. payments[p] \in PaymentRows
  BY DEF BookInv, BookTypeOK
<1>2. /\ payments[p].status = "created" /\ payments[p].amount = amount
      /\ payments[p].currency = currency
  BY DEF CaptureError
<1>3. payments[p].refunded = 0
  BY <1>2 DEF BookInv, StatusProjection
<1>4. /\ "captured" \in Statuses
      /\ payments[p].amount \in Nat
      /\ payments[p].version + 1 \in Nat
  BY <1>1 DEF Statuses, PaymentRows
<1>5. CapturedRow(payments[p]) \in PaymentRows
  BY <1>1, <1>4, Zenon DEF CapturedRow, PaymentRows
<1>6. /\ CapturedRow(payments[p]).status = "captured"
      /\ CapturedRow(payments[p]).captured = payments[p].amount
      /\ CapturedRow(payments[p]).amount = payments[p].amount
      /\ CapturedRow(payments[p]).refunded = payments[p].refunded
  BY <1>1 DEF CapturedRow, PaymentRows
<1> QED
  BY <1>2, <1>3, <1>5, <1>6

\* An accepted refund fits in what is left, and the row says so.
LEMMA RefundRow ==
    ASSUME BookInv, NEW p \in PaymentIds, NEW amount \in Amounts, NEW currency,
           RefundError(payments[p], amount, currency) = "none"
    PROVE  LET row == RefundedRow(payments[p], amount)
           IN /\ row \in PaymentRows
              /\ row.captured = row.amount
              /\ row.refunded = payments[p].refunded + amount
              /\ \/ row.status = "partially_refunded" /\ row.refunded \in 1..(row.captured - 1)
                 \/ row.status = "refunded" /\ row.refunded = row.captured
              /\ currency = payments[p].currency
<1>1. payments[p] \in PaymentRows
  BY DEF BookInv, BookTypeOK
<1>2. /\ payments[p].status \in {"captured", "partially_refunded"}
      /\ ~(amount > payments[p].captured - payments[p].refunded)
      /\ payments[p].currency = currency
  BY DEF RefundError
<1>3. payments[p].captured = payments[p].amount
  BY <1>2 DEF BookInv, StatusProjection
<1>4. amount \in Nat /\ amount >= 1
  BY BookAssumption DEF Amounts
<1> DEFINE row == RefundedRow(payments[p], amount)
           old == payments[p]
           status == IF old.refunded + amount = old.captured
                     THEN "refunded" ELSE "partially_refunded"
<1>5. old.refunded \in Nat /\ old.captured \in Nat
  BY <1>1 DEF PaymentRows
<1>6. /\ status \in Statuses
      /\ old.refunded + amount \in Nat
      /\ old.version + 1 \in Nat
  BY <1>1, <1>4 DEF Statuses, PaymentRows
<1>7. row \in PaymentRows
  BY <1>1, <1>6, Zenon DEF RefundedRow, PaymentRows
<1>8. /\ row.status = status
      /\ row.refunded = old.refunded + amount
      /\ row.captured = old.captured
      /\ row.amount = old.amount
  BY <1>1 DEF RefundedRow, PaymentRows
<1> QED
  BY <1>2, <1>3, <1>4, <1>5, <1>7, <1>8

LEMMA BookInvNext == BookInv /\ [BookNext]_books => BookInv'
<1> SUFFICES ASSUME BookInv, [BookNext]_books
             PROVE  BookInv'
  OBVIOUS
<1> USE BookAssumption
<1>1. Amounts \subseteq Nat \ {0}
  BY DEF Amounts
<1>2. ASSUME NEW p \in PaymentIds, NEW amount \in Amounts, NEW currency \in Currencies,
             NEW id \in Ids, NEW ref \in ExternalRefs,
             BookCreate(p, ref, amount, currency, id)
      PROVE  BookInv'
  <2>1. /\ CreatedRow(ref, amount, currency) \in PaymentRows
        /\ payments' = [payments EXCEPT ![p] = CreatedRow(ref, amount, currency)]
    BY <1>1, <1>2 DEF BookCreate, WriteCreate, CreatedRow, PaymentRows, Statuses
  <2>2. payments' \in [PaymentIds -> PaymentRows]
    BY <2>1 DEF BookInv, BookTypeOK
  <2>3. StatusProjection'
    BY <2>1 DEF BookInv, BookTypeOK, StatusProjection, CreatedRow
  <2>4. BookTypeOK'
    BY <1>2, <2>2 DEF BookInv, BookTypeOK, BookCreate, WriteCreate, Event
  <2> QED
    BY <2>3, <2>4 DEF BookInv
<1>3. ASSUME NEW p \in PaymentIds, NEW amount \in Amounts, NEW currency \in Currencies,
             NEW id \in Ids, BookCapture(p, amount, currency, id)
      PROVE  BookInv'
  <2>1. payments' = [payments EXCEPT ![p] = CapturedRow(payments[p])]
    BY <1>3 DEF BookCapture, WriteCapture
  <2>2. payments' \in [PaymentIds -> PaymentRows]
    BY <1>3, <2>1, CaptureRow DEF BookCapture, BookInv, BookTypeOK
  <2>3. StatusProjection'
    BY <1>3, <2>1, CaptureRow DEF BookCapture, BookInv, BookTypeOK, StatusProjection
  <2>4. CaptureEntries(amount) \in Entries
    BY <1>1, CapturesArePostable
  <2>5. BookTypeOK'
    BY <1>3, <2>2, <2>4 DEF BookInv, BookTypeOK, BookCapture, WriteCapture, Event, Posting
  <2> QED
    BY <2>3, <2>5 DEF BookInv
<1>4. ASSUME NEW p \in PaymentIds, NEW amount \in Amounts, NEW currency \in Currencies,
             NEW id \in Ids, NEW ref \in ExternalRefs,
             BookRefund(p, ref, amount, currency, id)
      PROVE  BookInv'
  <2>1. payments' = [payments EXCEPT ![p] = RefundedRow(payments[p], amount)]
    BY <1>4 DEF BookRefund, WriteRefund
  <2>2. payments' \in [PaymentIds -> PaymentRows]
    BY <1>4, <2>1, RefundRow DEF BookRefund, BookInv, BookTypeOK
  <2>3. StatusProjection'
    BY <1>4, <2>1, RefundRow DEF BookRefund, BookInv, BookTypeOK, StatusProjection
  <2>4. RefundEntries(amount) \in Entries
    BY <1>1, RefundsArePostable
  <2>5. payments'[p].refunded \in Nat
    BY <2>2 DEF PaymentRows
  <2>6. refunds' \subseteq [id : Ids, payment : PaymentIds, ref : ExternalRefs, amount : Amounts]
    BY <1>4 DEF BookInv, BookTypeOK, BookRefund, WriteRefund
  <2>7. BookTypeOK'
    BY <1>4, <2>2, <2>4, <2>5, <2>6
       DEF BookInv, BookTypeOK, BookRefund, WriteRefund, Event, Posting
  <2> QED
    BY <2>3, <2>7 DEF BookInv
<1>5. CASE UNCHANGED books
  BY <1>5 DEF books, BookInv, BookTypeOK, StatusProjection
<1> QED
  BY <1>2, <1>3, <1>4, <1>5 DEF BookNext

\* The lifecycle CHECK constraint holds in every state of the books, and
\* with it INV-07 row by row.
THEOREM BooksAreConsistent == BookSpec => []StatusProjection
<1>1. BookInv => StatusProjection
  BY DEF BookInv
<1> QED
  BY BookInvInit, BookInvNext, <1>1, PTL DEF BookSpec

-----------------------------------------------------------------------------
(***************************************************************************)
(* The books add up.                                                       *)
(***************************************************************************)
\* What was captured, refunded or posted was there before.
Tied ==
    /\ IsFiniteSet(outbox) /\ IsFiniteSet(postings)
    /\ \A r \in refunds : /\ \E e \in outbox : e.id = r.id
                          /\ payments[r.payment].status \notin {"absent", "created"}
    /\ \A t \in postings :
          IF t.type = "refund" THEN \E r \in refunds : r.id = t.ref
          ELSE t.ref \in PaymentIds /\ payments[t.ref].status \notin {"absent", "created"}

\* The row's total is that of its refund events, and none announces more.
TotalsAnnounced ==
    \A p \in PaymentIds :
        /\ payments[p].refunded = TotalAmount(RefundEvents(p))
        /\ \A e \in RefundEvents(p) : e.cumulative <= payments[p].refunded

SumsInv == Tied /\ TotalsAnnounced /\ LedgerMatchesPayments /\ EventsCarryRunningTotals

LEMMA NothingAddsUp ==
    /\ TotalAmount({}) = 0
    /\ \A a : OnAccount({}, a) = 0
BY TotalOfNone DEF TotalAmount, OnAccount

LEMMA SumsInvInit == BookInit => SumsInv
<1> SUFFICES ASSUME BookInit PROVE SumsInv
  OBVIOUS
<1>1. /\ \A p \in PaymentIds : payments[p].captured = 0 /\ payments[p].refunded = 0
      /\ refunds = {} /\ postings = {} /\ outbox = {}
  BY DEF BookInit, AbsentPayment
<1>2. Tied
  BY <1>1, FS_EmptySet DEF Tied
<1>3. \A p \in PaymentIds : PostingsOf(p) = {} /\ RefundEvents(p) = {} /\ RefundsOf(p) = {}
  BY <1>1 DEF PostingsOf, RefundEvents, RefundsOf
<1>4. TotalsAnnounced
  BY <1>1, <1>3, NothingAddsUp DEF TotalsAnnounced
<1>5. LedgerMatchesPayments
  BY <1>1, <1>3, NothingAddsUp DEF LedgerMatchesPayments
<1>6. EventsCarryRunningTotals
  BY <1>3 DEF EventsCarryRunningTotals
<1> QED
  BY <1>2, <1>4, <1>5, <1>6 DEF SumsInv

\* One more posting, one more event.
LEMMA OnAccountWith ==
    ASSUME NEW ts, IsFiniteSet(ts), \A t \in ts : t.entries \in Entries,
           NEW n, n \notin ts, n.entries \in Entries, NEW a \in AccountCodes
    PROVE  OnAccount(ts \cup {n}, a) = n.entries[a] + OnAccount(ts, a)
<1> DEFINE f == [t \in ts |-> t.entries[a]]
           g == [t \in ts \cup {n} |-> t.entries[a]]
<1>1. /\ DOMAIN f = ts /\ \A t \in ts : f[t] \in Int /\ f[t] = g[t]
      /\ DOMAIN g = ts \cup {n} /\ g[n] \in Int
  BY DEF Entries
<1>2. g[n] = n.entries[a]
  OBVIOUS
<1>3. OnAccount(ts, a) = SumFunction(f) /\ OnAccount(ts \cup {n}, a) = SumFunction(g)
  BY DEF OnAccount
<1> HIDE DEF f, g
<1>4. SumFunction(g) = g[n] + SumFunction(f)
  BY <1>1, TotalWith
<1> QED
  BY <1>2, <1>3, <1>4

LEMMA TotalAmountWith ==
    ASSUME NEW es, IsFiniteSet(es), \A e \in es : e.amount \in Int,
           NEW n, n \notin es, n.amount \in Int
    PROVE  TotalAmount(es \cup {n}) = n.amount + TotalAmount(es)
<1> DEFINE f == [e \in es |-> e.amount]
           g == [e \in es \cup {n} |-> e.amount]
<1>1. /\ DOMAIN f = es /\ \A e \in es : f[e] \in Int /\ f[e] = g[e]
      /\ DOMAIN g = es \cup {n} /\ g[n] \in Int
  OBVIOUS
<1>2. g[n] = n.amount
  OBVIOUS
<1>3. TotalAmount(es) = SumFunction(f) /\ TotalAmount(es \cup {n}) = SumFunction(g)
  BY DEF TotalAmount
<1> HIDE DEF f, g
<1>4. SumFunction(g) = g[n] + SumFunction(f)
  <2>1. DOMAIN f = es /\ DOMAIN g = es \cup {n}
    BY <1>1
  <2>2. (\A e \in es : f[e] \in Int) /\ (\A e \in es : f[e] = g[e]) /\ g[n] \in Int
    BY <1>1
  <2> QED
    BY <2>1, <2>2, TotalWith
<1> QED
  BY <1>2, <1>3, <1>4

\* A step that writes at most one row of each kind, all of them new.
LEMMA CreateSums ==
    ASSUME BookInv, SumsInv, NEW p \in PaymentIds, NEW amount \in Amounts,
           NEW currency \in Currencies, NEW id \in Ids, NEW ref \in ExternalRefs,
           BookCreate(p, ref, amount, currency, id)
    PROVE  SumsInv'
<1>1. /\ payments[p].status = "absent" /\ UNCHANGED <<refunds, postings>>
      /\ payments' = [payments EXCEPT ![p] = CreatedRow(ref, amount, currency)]
      /\ outbox' = outbox \cup {Event("payment.created", p, amount, 0, id)}
  BY DEF BookCreate, WriteCreate
<1>2. payments[p].captured = 0 /\ payments[p].refunded = 0
  BY <1>1 DEF BookInv, StatusProjection
<1>3. \A q \in PaymentIds : /\ payments'[q].captured = payments[q].captured
                            /\ payments'[q].refunded = payments[q].refunded
                            /\ q # p => payments'[q] = payments[q]
  BY <1>1, <1>2 DEF CreatedRow, BookInv, BookTypeOK
<1>4. \A q \in PaymentIds : RefundEvents(q)' = RefundEvents(q)
  BY <1>1 DEF RefundEvents, Event
<1>5. \A q \in PaymentIds : PostingsOf(q)' = PostingsOf(q) /\ RefundsOf(q)' = RefundsOf(q)
  BY <1>1 DEF PostingsOf, RefundsOf
<1>6. Tied'
  <2>1. IsFiniteSet(outbox')
    BY <1>1, FS_AddElement DEF SumsInv, Tied
  <2>2. \A r \in refunds : r.payment \in PaymentIds
    BY DEF BookInv, BookTypeOK
  <2> QED
    BY <1>1, <1>3, <2>1, <2>2 DEF SumsInv, Tied
<1>7. \A t \in PostingsOf(p) : FALSE
  <2>1. \A r \in RefundsOf(p) : FALSE
    BY <1>1 DEF RefundsOf, SumsInv, Tied
  <2> QED
    BY <1>1, <2>1 DEF PostingsOf, SumsInv, Tied
<1>8. LedgerMatchesPayments'
  BY <1>1, <1>3, <1>5, <1>7 DEF SumsInv, LedgerMatchesPayments
<1>9. TotalsAnnounced' /\ EventsCarryRunningTotals'
  BY <1>3, <1>4, <1>5 DEF SumsInv, TotalsAnnounced, EventsCarryRunningTotals
<1> QED
  BY <1>6, <1>8, <1>9 DEF SumsInv

\* The ledger gains one transaction about p, which moves what p's row moves.
LEMMA LedgerWith ==
    ASSUME BookInv, SumsInv, NEW p \in PaymentIds, NEW amount \in Int, NEW n,
           n \notin postings, postings' = postings \cup {n}, n.entries \in Entries,
           PostingsOf(p)' = PostingsOf(p) \cup {n},
           \A q \in PaymentIds \ {p} : PostingsOf(q)' = PostingsOf(q) /\ payments'[q] = payments[q],
           n.currency = payments[p].currency, payments'[p].currency = payments[p].currency,
           payments'[p].captured - payments'[p].refunded
              = payments[p].captured - payments[p].refunded + amount,
           n.entries["provider_clearing"] = amount, n.entries["merchant_payable"] = -amount
    PROVE  LedgerMatchesPayments'
<1> DEFINE net == payments[p].captured - payments[p].refunded
<1>1. IsFiniteSet(PostingsOf(p)) /\ PostingsOf(p) \subseteq postings
  BY FS_Subset DEF PostingsOf, SumsInv, Tied
<1>2. \A t \in PostingsOf(p) : t.entries \in Entries
  BY <1>1 DEF BookInv, BookTypeOK
<1>3. /\ OnAccount(PostingsOf(p) \cup {n}, "provider_clearing")
            = amount + OnAccount(PostingsOf(p), "provider_clearing")
      /\ OnAccount(PostingsOf(p) \cup {n}, "merchant_payable")
            = -amount + OnAccount(PostingsOf(p), "merchant_payable")
  BY <1>1, <1>2, OnAccountWith DEF AccountCodes
<1>4. /\ OnAccount(PostingsOf(p), "provider_clearing") = net
      /\ OnAccount(PostingsOf(p), "merchant_payable") = -net
      /\ \A t \in PostingsOf(p) : t.currency = payments[p].currency
  BY DEF SumsInv, LedgerMatchesPayments
<1>5. net \in Int /\ payments'[p].captured - payments'[p].refunded = net + amount
  BY DEF BookInv, BookTypeOK, PaymentRows
<1>6. /\ OnAccount(PostingsOf(p)', "provider_clearing") = net + amount
      /\ OnAccount(PostingsOf(p)', "merchant_payable") = -(net + amount)
  BY <1>3, <1>4, <1>5
<1>7. \A t \in PostingsOf(p)' : t.currency = payments'[p].currency
  BY <1>4
<1>8. \A q \in PaymentIds \ {p} :
         LET own == payments'[q].captured - payments'[q].refunded
         IN /\ OnAccount(PostingsOf(q)', "provider_clearing") = own
            /\ OnAccount(PostingsOf(q)', "merchant_payable") = -own
            /\ \A t \in PostingsOf(q)' : t.currency = payments'[q].currency
  BY DEF SumsInv, LedgerMatchesPayments
<1>9. postings' = UNION {PostingsOf(q)' : q \in PaymentIds}
  <2>1. postings = UNION {PostingsOf(q) : q \in PaymentIds}
    BY DEF SumsInv, LedgerMatchesPayments
  <2> QED
    BY <2>1
<1>10. \A q \in PaymentIds :
         LET own == payments'[q].captured - payments'[q].refunded
         IN /\ OnAccount(PostingsOf(q)', "provider_clearing") = own
            /\ OnAccount(PostingsOf(q)', "merchant_payable") = -own
            /\ \A t \in PostingsOf(q)' : t.currency = payments'[q].currency
  BY <1>5, <1>6, <1>7, <1>8
<1> QED
  BY <1>9, <1>10 DEF LedgerMatchesPayments, OnAccount

LEMMA CaptureSums ==
    ASSUME BookInv, SumsInv, NEW p \in PaymentIds, NEW amount \in Amounts,
           NEW currency \in Currencies, NEW id \in Ids,
           BookCapture(p, amount, currency, id)
    PROVE  SumsInv'
<1> DEFINE n == Posting("capture", p, currency, CaptureEntries(amount))
<1>1. /\ CaptureError(payments[p], amount, currency) = "none" /\ refunds' = refunds
      /\ payments' = [payments EXCEPT ![p] = CapturedRow(payments[p])]
      /\ postings' = postings \cup {n}
      /\ outbox' = outbox \cup {Event("payment.captured", p, amount, 0, id)}
  BY DEF BookCapture, WriteCapture
<1>2. payments[p] \in PaymentRows /\ payments \in [PaymentIds -> PaymentRows]
  BY DEF BookInv, BookTypeOK
<1>3. /\ payments'[p].status = "captured"
      /\ payments'[p].captured = amount /\ payments'[p].refunded = 0
      /\ payments'[p].currency = payments[p].currency /\ currency = payments[p].currency
      /\ \A q \in PaymentIds \ {p} : payments'[q] = payments[q]
  <2>1. /\ payments'[p] = CapturedRow(payments[p])
        /\ \A q \in PaymentIds \ {p} : payments'[q] = payments[q]
    BY <1>1, <1>2
  <2>2. /\ CapturedRow(payments[p]).status = "captured"
        /\ CapturedRow(payments[p]).captured = payments[p].amount
        /\ CapturedRow(payments[p]).refunded = payments[p].refunded
        /\ CapturedRow(payments[p]).currency = payments[p].currency
    BY <1>2 DEF CapturedRow, PaymentRows
  <2>3. /\ payments[p].status = "created" /\ payments[p].amount = amount
        /\ payments[p].currency = currency
    BY <1>1 DEF CaptureError
  <2>4. payments[p].refunded = 0
    BY <2>3 DEF BookInv, StatusProjection
  <2> QED
    BY <2>1, <2>2, <2>3, <2>4
<1>4. payments[p].status = "created" /\ payments[p].captured = 0 /\ payments[p].refunded = 0
  BY <1>1 DEF CaptureError, BookInv, StatusProjection
<1>5. amount \in Nat \ {0}
  BY BookAssumption DEF Amounts
<1>6. /\ n.entries \in Entries
      /\ n.entries["provider_clearing"] = amount /\ n.entries["merchant_payable"] = -amount
      /\ n.currency = currency /\ n.type = "capture" /\ n.ref = p
  BY <1>5, CapturesArePostable DEF Posting, CaptureEntries, NoEntries, AccountCodes
<1>7. n \notin postings
  BY <1>4, <1>6 DEF SumsInv, Tied
<1> HIDE DEF n
<1>8. PostingsOf(p)' = PostingsOf(p) \cup {n}
  BY <1>1, <1>6 DEF PostingsOf, RefundsOf
<1>9. \A q \in PaymentIds \ {p} : PostingsOf(q)' = PostingsOf(q)
  BY <1>1, <1>6 DEF PostingsOf, RefundsOf
<1>10. LedgerMatchesPayments'
  <2>1. payments'[p].captured - payments'[p].refunded
          = payments[p].captured - payments[p].refunded + amount
    BY <1>3, <1>4, <1>5
  <2>2. n.currency = payments[p].currency /\ amount \in Int
    BY <1>3, <1>5, <1>6
  <2> QED
    BY <1>1, <1>3, <1>6, <1>7, <1>8, <1>9, <2>1, <2>2, LedgerWith
<1>11. \A q \in PaymentIds : RefundEvents(q)' = RefundEvents(q) /\ RefundsOf(q)' = RefundsOf(q)
  BY <1>1 DEF RefundEvents, RefundsOf, Event
<1>12. \A q \in PaymentIds : payments'[q].refunded = payments[q].refunded
  BY <1>3, <1>4
<1>13. TotalsAnnounced' /\ EventsCarryRunningTotals'
  BY <1>11, <1>12 DEF SumsInv, TotalsAnnounced, EventsCarryRunningTotals
<1>14. Tied'
  <2>1. IsFiniteSet(outbox') /\ IsFiniteSet(postings')
    BY <1>1, FS_AddElement DEF SumsInv, Tied
  <2>2. \A r \in refunds : r.payment \in PaymentIds
    BY DEF BookInv, BookTypeOK
  <2> QED
    BY <1>1, <1>3, <1>6, <2>1, <2>2 DEF SumsInv, Tied
<1> QED
  BY <1>10, <1>13, <1>14 DEF SumsInv

\* One more refund event, with the total it leads to.
LEMMA TotalsWith ==
    ASSUME BookInv, SumsInv, NEW p \in PaymentIds, NEW amount \in Amounts, NEW n,
           RefundEvents(p)' = RefundEvents(p) \cup {n},
           n.amount = amount, n.cumulative = payments[p].refunded + amount,
           \A q \in PaymentIds \ {p} :
              RefundEvents(q)' = RefundEvents(q) /\ payments'[q] = payments[q],
           payments'[p].refunded = payments[p].refunded + amount
    PROVE  /\ TotalsAnnounced'
           /\ \A q \in PaymentIds : \A e \in RefundEvents(q)' :
                 e.cumulative = TotalAmount({x \in RefundEvents(q)' : x.cumulative <= e.cumulative})
<1> DEFINE es == RefundEvents(p)
           total == payments[p].refunded
<1>1. total \in Nat /\ amount \in Nat /\ amount >= 1
  BY BookAssumption DEF Amounts, BookInv, BookTypeOK, PaymentRows
<1>2. IsFiniteSet(es)
  BY FS_Subset DEF RefundEvents, SumsInv, Tied
<1>3. \A e \in es : e.cumulative \in Nat /\ e.amount \in Int /\ e.cumulative <= total
  <2>1. \A e \in es : e \in outbox
    BY DEF RefundEvents
  <2>2. \A e \in outbox : e.cumulative \in Nat /\ e.amount \in Amounts
    BY DEF BookInv, BookTypeOK
  <2>3. Amounts \subseteq Int
    BY BookAssumption DEF Amounts
  <2>4. \A e \in es : e.cumulative <= total
    BY DEF SumsInv, TotalsAnnounced
  <2> QED
    BY <2>1, <2>2, <2>3, <2>4
<1>4. n \notin es
  BY <1>1, <1>3
<1>5. TotalAmount(es \cup {n}) = total + amount
  <2>1. TotalAmount(es) = total
    BY DEF SumsInv, TotalsAnnounced
  <2>2. TotalAmount(es \cup {n}) = n.amount + TotalAmount(es)
    BY <1>1, <1>2, <1>3, <1>4, TotalAmountWith
  <2> QED
    BY <1>1, <2>1, <2>2
<1>6. \A e \in es \cup {n} : e.cumulative <= total + amount
  BY <1>1, <1>3
<1>7. TotalsAnnounced'
  <2>1. /\ payments'[p].refunded = TotalAmount(RefundEvents(p)')
        /\ \A e \in RefundEvents(p)' : e.cumulative <= payments'[p].refunded
    BY <1>5, <1>6
  <2>2. \A q \in PaymentIds \ {p} :
            /\ payments'[q].refunded = TotalAmount(RefundEvents(q)')
            /\ \A e \in RefundEvents(q)' : e.cumulative <= payments'[q].refunded
    BY DEF SumsInv, TotalsAnnounced
  <2>3. \A q \in PaymentIds :
            /\ payments'[q].refunded = TotalAmount(RefundEvents(q)')
            /\ \A e \in RefundEvents(q)' : e.cumulative <= payments'[q].refunded
    BY <2>1, <2>2
  <2> QED
    BY <2>3 DEF TotalsAnnounced, TotalAmount
<1>8. ASSUME NEW e \in es \cup {n}
      PROVE  e.cumulative = TotalAmount({x \in es \cup {n} : x.cumulative <= e.cumulative})
  <2>1. CASE e = n
    <3>1. {x \in es \cup {n} : x.cumulative <= e.cumulative} = es \cup {n}
      BY <1>6, <2>1
    <3> QED
      BY <1>5, <2>1, <3>1
  <2>2. CASE e \in es
    <3>1. ~(n.cumulative <= e.cumulative)
      BY <1>1, <1>3, <2>2
    <3>2. {x \in es \cup {n} : x.cumulative <= e.cumulative} = {x \in es : x.cumulative <= e.cumulative}
      BY <3>1
    <3> QED
      BY <2>2, <3>2 DEF SumsInv, EventsCarryRunningTotals
  <2> QED
    BY <2>1, <2>2
<1>9. \A q \in PaymentIds \ {p} : \A e \in RefundEvents(q) :
         e.cumulative = TotalAmount({x \in RefundEvents(q) : x.cumulative <= e.cumulative})
  BY DEF SumsInv, EventsCarryRunningTotals
<1> HIDE DEF es
<1>10. ASSUME NEW q \in PaymentIds, NEW e \in RefundEvents(q)'
       PROVE  e.cumulative = TotalAmount({x \in RefundEvents(q)' : x.cumulative <= e.cumulative})
  <2>1. CASE q = p
    BY <1>8, <2>1 DEF es
  <2>2. CASE q # p
    <3>1. RefundEvents(q)' = RefundEvents(q)
      BY <2>2
    <3> QED
      BY <1>9, <2>2, <3>1
  <2> QED
    BY <2>1, <2>2
<1> QED
  BY <1>7, <1>10

LEMMA RefundSums ==
    ASSUME BookInv, SumsInv, NEW p \in PaymentIds, NEW amount \in Amounts,
           NEW currency \in Currencies, NEW id \in Ids, NEW ref \in ExternalRefs,
           BookRefund(p, ref, amount, currency, id)
    PROVE  SumsInv'
<1> DEFINE r == [id |-> id, payment |-> p, ref |-> ref, amount |-> amount]
           n == Posting("refund", id, currency, RefundEntries(amount))
           e == Event("payment.refunded", p, amount, payments'[p].refunded, id)
<1>1. /\ RefundError(payments[p], amount, currency) = "none" /\ FreshId(id)
      /\ payments' = [payments EXCEPT ![p] = RefundedRow(payments[p], amount)]
      /\ refunds' = refunds \cup {r}
      /\ postings' = postings \cup {n}
      /\ outbox' = outbox \cup {e}
  BY DEF BookRefund, WriteRefund
<1>2. payments[p] \in PaymentRows /\ payments \in [PaymentIds -> PaymentRows]
  BY DEF BookInv, BookTypeOK
<1>3. /\ payments'[p].status \in {"partially_refunded", "refunded"}
      /\ payments'[p].captured = payments[p].captured
      /\ payments'[p].refunded = payments[p].refunded + amount
      /\ payments'[p].currency = payments[p].currency /\ currency = payments[p].currency
      /\ \A q \in PaymentIds \ {p} : payments'[q] = payments[q]
  <2>1. /\ payments'[p] = RefundedRow(payments[p], amount)
        /\ \A q \in PaymentIds \ {p} : payments'[q] = payments[q]
    BY <1>1, <1>2
  <2>2. /\ RefundedRow(payments[p], amount).status \in {"partially_refunded", "refunded"}
        /\ RefundedRow(payments[p], amount).captured = payments[p].captured
        /\ RefundedRow(payments[p], amount).refunded = payments[p].refunded + amount
        /\ RefundedRow(payments[p], amount).currency = payments[p].currency
    BY <1>2 DEF RefundedRow, PaymentRows
  <2>3. payments[p].currency = currency
    BY <1>1 DEF RefundError
  <2> QED
    BY <2>1, <2>2, <2>3
<1>4. payments[p].status \notin {"absent", "created"}
  BY <1>1 DEF RefundError
<1>5. amount \in Nat \ {0} /\ payments[p].captured \in Nat /\ payments[p].refunded \in Nat
  BY <1>2, BookAssumption DEF Amounts, PaymentRows
<1>6. /\ n.entries \in Entries
      /\ n.entries["provider_clearing"] = -amount /\ n.entries["merchant_payable"] = amount
      /\ n.currency = currency /\ n.type = "refund" /\ n.ref = id
  BY <1>5, RefundsArePostable DEF Posting, RefundEntries, NoEntries, AccountCodes
<1>7. r.id = id /\ r.payment = p /\ r.amount = amount
  OBVIOUS
<1>8. /\ e.type = "payment.refunded" /\ e.payment = p /\ e.amount = amount /\ e.id = id
      /\ e.cumulative = payments[p].refunded + amount
  BY <1>3 DEF Event
<1>9. \A x \in refunds : x.id # id
  BY <1>1 DEF FreshId, SumsInv, Tied
<1>10. \A t \in postings : ~(t.type = "refund" /\ t.ref = id)
  BY <1>9 DEF SumsInv, Tied
<1>11. n \notin postings
  BY <1>6, <1>10
<1> HIDE DEF n, r, e
<1>12. PostingsOf(p)' = PostingsOf(p) \cup {n}
  BY <1>1, <1>6, <1>7, <1>10 DEF PostingsOf, RefundsOf
<1>13. \A q \in PaymentIds \ {p} : PostingsOf(q)' = PostingsOf(q)
  BY <1>1, <1>6, <1>7, <1>9, <1>10 DEF PostingsOf, RefundsOf
<1>14. LedgerMatchesPayments'
  <2>1. payments'[p].captured - payments'[p].refunded
          = payments[p].captured - payments[p].refunded + (-amount)
    BY <1>3, <1>5
  <2>2. n.currency = payments[p].currency /\ -amount \in Int /\ -(-amount) = amount
    BY <1>3, <1>5, <1>6
  <2>3. n.entries["merchant_payable"] = -(-amount)
    BY <1>6, <2>2
  <2> QED
    BY <1>1, <1>3, <1>6, <1>11, <1>12, <1>13, <2>1, <2>2, <2>3, LedgerWith
<1>15. /\ RefundEvents(p)' = RefundEvents(p) \cup {e}
       /\ \A q \in PaymentIds \ {p} : RefundEvents(q)' = RefundEvents(q)
  BY <1>1, <1>8 DEF RefundEvents
<1>16. /\ TotalsAnnounced'
       /\ \A q \in PaymentIds : \A x \in RefundEvents(q)' :
             x.cumulative = TotalAmount({y \in RefundEvents(q)' : y.cumulative <= x.cumulative})
  BY <1>3, <1>8, <1>15, TotalsWith
<1>17. \A q \in PaymentIds : {<<x.id, x.amount>> : x \in RefundEvents(q)'}
                                = {<<x.id, x.amount>> : x \in RefundsOf(q)'}
  <2>1. /\ RefundsOf(p)' = RefundsOf(p) \cup {r}
        /\ \A q \in PaymentIds \ {p} : RefundsOf(q)' = RefundsOf(q)
    BY <1>1, <1>7 DEF RefundsOf
  <2>2. \A q \in PaymentIds : {<<x.id, x.amount>> : x \in RefundEvents(q)}
                                 = {<<x.id, x.amount>> : x \in RefundsOf(q)}
    BY DEF SumsInv, EventsCarryRunningTotals
  <2>3. <<e.id, e.amount>> = <<r.id, r.amount>>
    BY <1>7, <1>8
  <2>4. {<<x.id, x.amount>> : x \in RefundEvents(p)'} = {<<x.id, x.amount>> : x \in RefundsOf(p)'}
    <3>1. {<<x.id, x.amount>> : x \in RefundEvents(p)'}
             = {<<x.id, x.amount>> : x \in RefundEvents(p)} \cup {<<e.id, e.amount>>}
      BY <1>15
    <3>2. {<<x.id, x.amount>> : x \in RefundsOf(p)'}
             = {<<x.id, x.amount>> : x \in RefundsOf(p)} \cup {<<r.id, r.amount>>}
      BY <2>1
    <3> QED
      BY <2>2, <2>3, <3>1, <3>2
  <2> QED
    BY <1>15, <2>1, <2>2, <2>4
<1>18. EventsCarryRunningTotals'
  BY <1>16, <1>17 DEF EventsCarryRunningTotals, TotalAmount
<1>19. Tied'
  <2>1. IsFiniteSet(outbox') /\ IsFiniteSet(postings')
    BY <1>1, FS_AddElement DEF SumsInv, Tied
  <2>2. \A x \in refunds : x.payment \in PaymentIds
    BY DEF BookInv, BookTypeOK
  <2>3. \A x \in refunds' : /\ \E y \in outbox' : y.id = x.id
                            /\ payments'[x.payment].status \notin {"absent", "created"}
    BY <1>1, <1>3, <1>7, <1>8, <2>2 DEF SumsInv, Tied
  <2>4. \A t \in postings' :
          IF t.type = "refund" THEN \E x \in refunds' : x.id = t.ref
          ELSE t.ref \in PaymentIds /\ payments'[t.ref].status \notin {"absent", "created"}
    BY <1>1, <1>3, <1>6, <1>7 DEF SumsInv, Tied
  <2> QED
    BY <2>1, <2>3, <2>4 DEF Tied
<1> QED
  BY <1>14, <1>16, <1>18, <1>19 DEF SumsInv

LEMMA SumsInvNext == BookInv /\ SumsInv /\ [BookNext]_books => SumsInv'
<1> SUFFICES ASSUME BookInv, SumsInv, [BookNext]_books PROVE SumsInv'
  OBVIOUS
<1>1. CASE UNCHANGED books
  <2>1. /\ UNCHANGED <<payments, refunds, postings, outbox>>
        /\ \A p \in PaymentIds : /\ PostingsOf(p)' = PostingsOf(p)
                                 /\ RefundEvents(p)' = RefundEvents(p)
                                 /\ RefundsOf(p)' = RefundsOf(p)
    BY <1>1 DEF books, PostingsOf, RefundEvents, RefundsOf
  <2>2. Tied'
    BY <2>1 DEF SumsInv, Tied
  <2>3. TotalsAnnounced'
    BY <2>1 DEF SumsInv, TotalsAnnounced
  <2>4. LedgerMatchesPayments'
    BY <2>1 DEF SumsInv, LedgerMatchesPayments
  <2>5. EventsCarryRunningTotals'
    BY <2>1 DEF SumsInv, EventsCarryRunningTotals
  <2> QED
    BY <2>2, <2>3, <2>4, <2>5 DEF SumsInv
<1> QED
  BY <1>1, CreateSums, CaptureSums, RefundSums DEF BookNext

\* For every payment the ledger holds, and owes to the merchant, what its row
\* says was captured and not refunded (LedgerMatchesPayments).
THEOREM LedgerTellsTheStory == BookSpec => []LedgerMatchesPayments
<1>1. SumsInv => LedgerMatchesPayments
  BY DEF SumsInv
<1> QED
  BY BookInvInit, BookInvNext, SumsInvInit, SumsInvNext, <1>1, PTL DEF BookSpec

\* Refund events carry the running totals (EventsCarryRunningTotals).
THEOREM TotalsCanBeRebuilt == BookSpec => []EventsCarryRunningTotals
<1>1. SumsInv => EventsCarryRunningTotals
  BY DEF SumsInv
<1> QED
  BY BookInvInit, BookInvNext, SumsInvInit, SumsInvNext, <1>1, PTL DEF BookSpec

-----------------------------------------------------------------------------
(***************************************************************************)
(* The books implement what other modules see of them.                     *)
(***************************************************************************)
SeenAs(e) == [type |-> IF e.type = "payment.captured" THEN "captured" ELSE "refunded",
              payment |-> e.payment, amount |-> e.amount, total |-> e.cumulative]

\* A new event that is not a creation is seen; a creation is not.
LEMMA EventIsSeen ==
    ASSUME NEW p, NEW amount, NEW total, NEW id,
           NEW type \in {"payment.captured", "payment.refunded"},
           outbox' = outbox \cup {Event(type, p, amount, total, id)}
    PROVE  FactEvents' = FactEvents \cup {SeenAs(Event(type, p, amount, total, id))}
BY DEF FactEvents, SeenAs, Event

LEMMA CreationIsNotSeen ==
    ASSUME NEW p, NEW amount, NEW id,
           outbox' = outbox \cup {Event("payment.created", p, amount, 0, id)}
    PROVE  FactEvents' = FactEvents
BY DEF FactEvents, Event

LEMMA FactsInitStep == BookInit => Facts!FactsInit
<1> SUFFICES ASSUME BookInit PROVE Facts!FactsInit
  OBVIOUS
<1>1. FactEvents = {}
  BY DEF BookInit, FactEvents
<1> QED
  BY <1>1 DEF BookInit, AbsentPayment, Facts!FactsInit

LEMMA FactsNextStep == BookInv /\ [BookNext]_books => [Facts!FactsNext]_(Facts!facts)
<1> SUFFICES ASSUME BookInv, [BookNext]_books
             PROVE  [Facts!FactsNext]_(Facts!facts)
  OBVIOUS
<1>0. \A q \in PaymentIds : payments[q] \in PaymentRows
  BY DEF BookInv, BookTypeOK
<1>1. ASSUME NEW p \in PaymentIds, NEW amount \in Amounts, NEW currency \in Currencies,
             NEW id \in Ids, NEW ref \in ExternalRefs,
             BookCreate(p, ref, amount, currency, id)
      PROVE  UNCHANGED Facts!facts
  <2>1. FactEvents' = FactEvents
    BY <1>1, CreationIsNotSeen DEF BookCreate, WriteCreate
  <2>2. /\ payments[p].status = "absent"
        /\ payments' = [payments EXCEPT ![p] = CreatedRow(ref, amount, currency)]
    BY <1>1 DEF BookCreate, WriteCreate
  <2>3. payments[p].captured = 0 /\ payments[p].refunded = 0
    BY <2>2 DEF BookInv, StatusProjection
  <2>4. \A q \in PaymentIds : /\ payments'[q].captured = payments[q].captured
                              /\ payments'[q].refunded = payments[q].refunded
    BY <1>0, <2>2, <2>3 DEF CreatedRow, BookInv, BookTypeOK
  <2> QED
    BY <2>1, <2>4 DEF Facts!facts
<1>2. ASSUME NEW p \in PaymentIds, NEW amount \in Amounts, NEW currency \in Currencies,
             NEW id \in Ids, BookCapture(p, amount, currency, id)
      PROVE  Facts!Capture(p, amount)
  <2>1. /\ payments' = [payments EXCEPT ![p] = CapturedRow(payments[p])]
        /\ outbox' = outbox \cup {Event("payment.captured", p, amount, 0, id)}
        /\ payments[p].status = "created" /\ payments[p].amount = amount
    BY <1>2 DEF BookCapture, WriteCapture, CaptureError
  <2>2. payments[p].captured = 0
    BY <2>1 DEF BookInv, StatusProjection
  <2>3. /\ CapturedRow(payments[p]).captured = amount
        /\ CapturedRow(payments[p]).refunded = payments[p].refunded
    BY <1>0, <2>1 DEF CapturedRow, PaymentRows
  <2>4. FactEvents' = FactEvents \cup {Facts!PaymentEvent("captured", p, amount, 0)}
    BY <2>1, EventIsSeen DEF SeenAs, Event, Facts!PaymentEvent
  <2>5. payments \in [PaymentIds -> PaymentRows]
    BY DEF BookInv, BookTypeOK
  <2> QED
    BY <2>1, <2>2, <2>3, <2>4, <2>5 DEF Facts!Capture
<1>3. ASSUME NEW p \in PaymentIds, NEW amount \in Amounts, NEW currency \in Currencies,
             NEW id \in Ids, NEW ref \in ExternalRefs,
             BookRefund(p, ref, amount, currency, id)
      PROVE  Facts!Refund(p, amount)
  <2>1. /\ payments' = [payments EXCEPT ![p] = RefundedRow(payments[p], amount)]
        /\ outbox' = outbox \cup
              {Event("payment.refunded", p, amount, payments'[p].refunded, id)}
        /\ ~(amount > payments[p].captured - payments[p].refunded)
    BY <1>3 DEF BookRefund, WriteRefund, RefundError
  <2>2. payments \in [PaymentIds -> PaymentRows]
    BY DEF BookInv, BookTypeOK
  <2>3. /\ RefundedRow(payments[p], amount).captured = payments[p].captured
        /\ RefundedRow(payments[p], amount).refunded = payments[p].refunded + amount
    BY <1>0 DEF RefundedRow, PaymentRows
  <2>4. payments'[p].refunded = payments[p].refunded + amount
    BY <2>1, <2>2, <2>3
  <2>5. FactEvents' = FactEvents \cup
          {Facts!PaymentEvent("refunded", p, amount, payments[p].refunded + amount)}
    BY <2>1, <2>4, EventIsSeen DEF SeenAs, Event, Facts!PaymentEvent
  <2>6. /\ amount \in Nat
        /\ payments[p].captured \in Nat /\ payments[p].refunded \in Nat
    BY <1>0, BookAssumption DEF Amounts, PaymentRows
  <2>7. amount <= payments[p].captured - payments[p].refunded
    BY <2>1, <2>6
  <2> QED
    BY <2>1, <2>2, <2>3, <2>5, <2>7 DEF Facts!Refund
<1>4. CASE UNCHANGED books
  BY <1>4 DEF books, Facts!facts, FactEvents
<1> QED
  BY <1>1, <1>2, <1>3, <1>4 DEF BookNext, Facts!FactsNext, Amounts

\* Every behaviour of the books is one of the captures and refunds that
\* Settlements builds on.
THEOREM BooksImplementFacts == BookSpec => ImplementsFacts
<1>1. BookSpec => []BookInv
  BY BookInvInit, BookInvNext, PTL DEF BookSpec
<1> QED
  BY <1>1, FactsInitStep, FactsNextStep, PTL DEF BookSpec, ImplementsFacts, Facts!FactsSpec

-----------------------------------------------------------------------------
(***************************************************************************)
(* The commands are idempotent commands.                                   *)
(***************************************************************************)
\* What validation refuses with is a stored problem.
LEMMA ErrorsAreProblems ==
    ASSUME NEW s \in Slots, CommandError(s) # "none"
    PROVE  CommandError(s) \in Problems
BY PaymentAssumption DEF CommandError, CaptureError, RefundError, PaymentProblems

LEMMA HiddenStep == [PaymentNext]_vars => [Next]_idemVars
<1> SUFFICES ASSUME [PaymentNext]_vars
             PROVE  [Next]_idemVars
  OBVIOUS
<1>1. ASSUME NEW s \in Slots, Outside(s)
      PROVE  Next
  <2>1. ProviderRefuses(s) => ProviderStep(s) \/ FaultStep(s)
    BY PaymentAssumption DEF ProviderRefuses, ProviderStep, FaultStep, PaymentProblems
  <2>2. ProviderApproves(s) => ProviderStep(s)
    BY DEF ProviderStep
  <2>3. LockOwnedRow(s) \/ LoseOwnership(s) => CompleteStep(s)
    BY DEF CompleteStep
  <2> QED
    BY <1>1, <2>1, <2>2, <2>3 DEF Outside, Next
<1>2. ASSUME NEW s \in Slots, Operate(s)
      PROVE  CompleteStep(s) \/ UNCHANGED idemVars
  <2>1. CASE LockPayment(s)
    BY <2>1 DEF LockPayment
  <2>2. CASE RefuseCommand(s)
    BY <2>2, ErrorsAreProblems DEF RefuseCommand, CompleteStep
  <2>3. CASE CreatePayment(s) \/ CapturePayment(s) \/ RefundPayment(s)
    BY <2>3 DEF CreatePayment, CapturePayment, RefundPayment, CompleteStep
  <2>4. CASE CreateConflict(s) \/ RefundConflict(s)
    BY <2>4, PaymentAssumption
       DEF CreateConflict, RefundConflict, CompleteStep, PaymentProblems
  <2>5. CASE RecordProblem(s)
    BY <2>5 DEF RecordProblem, CompleteStep
  <2> QED
    BY <1>2, <2>1, <2>2, <2>3, <2>4, <2>5 DEF Operate
<1>3. ASSUME NEW s \in Slots, RollBack(s)
      PROVE  FaultStep(s)
  BY <1>3 DEF RollBack, FaultStep
<1>4. CASE Tick \/ Finished
  BY <1>4 DEF Next
<1>5. CASE UNCHANGED vars
  BY <1>5 DEF vars
<1> QED
  BY <1>1, <1>2, <1>3, <1>4, <1>5 DEF PaymentNext, Next

\* With the books hidden, the payment commands behave as IdempotentCommands
\* says (ImplementsIdempotency).
THEOREM CommandsAreIdempotent == PaymentSpec => ImplementsIdempotency
<1>1. PaymentInit => Init
  BY DEF PaymentInit
<1> QED
  BY <1>1, HiddenStep, PTL DEF PaymentSpec, Spec, ImplementsIdempotency

\* So a capture or refund under one key moves money once, whatever was
\* retried, taken over or lost.
THEOREM PaymentEffectOnce == PaymentSpec => []EffectMatchesResponse
BY CommandsAreIdempotent, EffectOnce, PTL DEF ImplementsIdempotency

-----------------------------------------------------------------------------
(***************************************************************************)
(* The inductive invariant.  A payment row read under its lock is still    *)
(* the row when the transaction writes, because every writer holds the     *)
(* lock or finds the payment absent.  Ids are fresh because a token that   *)
(* named an event is stored in the response of its key.                    *)
(***************************************************************************)
Reading ==
    \A s \in Slots : seen[s] # NotRead =>
        pc[s] = "working" /\ goal[s] = "operation" /\ Cmd(s).op \in {"capture", "refund"}

Current ==
    \A s \in Slots : seen[s] # NotRead /\ seen[s].status # "absent" =>
        payments[Cmd(s).payment] = seen[s] /\ payLock[Cmd(s).payment] = s

CapturesPosted ==
    \A t \in postings :
        t.type = "capture" => /\ t.ref \in PaymentIds
                              /\ payments[t.ref].status \notin {"absent", "created"}

TokenUnanswered ==
    \A s \in Slots : Active(s) => \A k \in Keys, kind \in Kinds :
        rows[k].response # [kind |-> kind, id |-> token[s]]

EventsAnswered ==
    \A e \in outbox : \E k \in Keys : rows[k].response = [kind |-> "ok", id |-> e.id]

PInv ==
    /\ IInv /\ LInv /\ BookInv
    /\ PaymentTypeOK
    /\ Reading /\ Current
    /\ CapturesPosted
    /\ TokenUnanswered /\ EventsAnswered

LEMMA PInvInit == PaymentInit => PInv
<1> SUFFICES ASSUME PaymentInit
             PROVE  PInv
  OBVIOUS
<1>1. IInv /\ LInv /\ BookInv
  BY InvInit, LInvInit, BookInvInit DEF PaymentInit
<1>2. PaymentTypeOK
  BY <1>1 DEF PaymentInit, PaymentTypeOK, BookInv
<1>3. Reading /\ Current
  BY DEF PaymentInit, Reading, Current
<1>4. CapturesPosted /\ EventsAnswered
  BY DEF PaymentInit, BookInit, CapturesPosted, EventsAnswered
<1>5. TokenUnanswered
  BY DEF PaymentInit, Init, TokenUnanswered, Active
<1> QED
  BY <1>1, <1>2, <1>3, <1>4, <1>5 DEF PInv

-----------------------------------------------------------------------------
(***************************************************************************)
(* What the steps of one conversation leave alone.                         *)
(***************************************************************************)
OthersStay(s) ==
    \A q \in Slots \ {s} : pc'[q] = pc[q] /\ goal'[q] = goal[q] /\ token'[q] = token[q]

LEMMA FinishStays ==
    ASSUME TypeOK, NEW s \in Slots, NEW a \in Answers, Finish(s, a)
    PROVE  OthersStay(s) /\ pc'[s] = "done"
BY DEF Finish, TypeOK, OthersStay

\* A token stays with its conversation while it runs.
KeepsToken(s) == Active(s)' => Active(s) /\ token'[s] = token[s]

\* No response but s's own appears, and none disappears.
ResponsesStay == \A k \in Keys : rows'[k].response = rows[k].response

OwnResponse(s, kind) ==
    /\ rows[KeyOf[s]].response = NoResponse
    /\ rows'[KeyOf[s]].response = [kind |-> kind, id |-> token[s]]
    /\ \A k \in Keys \ {KeyOf[s]} : rows'[k].response = rows[k].response

LEMMA CommitStays ==
    ASSUME IInv, NEW s \in Slots, NEW kind \in Kinds, Commit(s, kind)
    PROVE  OthersStay(s) /\ pc'[s] = "done" /\ OwnResponse(s, kind)
<1>1. OthersStay(s) /\ pc'[s] = "done"
  BY FinishStays DEF Commit, Answers, IInv
<1>2. KeyOf[s] \in Keys /\ rows[KeyOf[s]].state # "completed"
  BY CommandAssumption DEF Commit, IInv, WorkerOwns, Owns, Row
<1>3. OwnResponse(s, kind)
  BY <1>2 DEF OwnResponse, Commit, CompletedRow, IInv, TypeOK, RowShape
<1> QED
  BY <1>1, <1>3

LEMMA OutsideStays ==
    ASSUME IInv, NEW s \in Slots, Outside(s)
    PROVE  /\ OthersStay(s) /\ ResponsesStay /\ pc[s] # "working"
           /\ Send(s) \/ KeepsToken(s)
<1> USE DEF IInv
<1>1. CASE Send(s)
  BY <1>1 DEF Send, storeVars, OthersStay, ResponsesStay, TypeOK
<1>2. CASE Acquire(s)
  <2>1. KeyOf[s] \in Keys /\ rows[KeyOf[s]].response = NoResponse
    BY <1>2, CommandAssumption
       DEF Acquire, Acquirable, TakeoverDue, SameRequest, Row, RowShape
  <2>2. ResponsesStay
    BY <1>2, <2>1 DEF Acquire, AcquiredRow, InProgressRow, ResponsesStay, TypeOK
  <2> QED
    BY <1>2, <2>2 DEF Acquire, OthersStay, KeepsToken, Active, TypeOK
<1>3. ASSUME NEW a \in Answers, Finish(s, a), UNCHANGED rows, pc[s] # "working"
      PROVE  OthersStay(s) /\ ResponsesStay /\ pc[s] # "working" /\ KeepsToken(s)
  BY <1>3, FinishStays DEF ResponsesStay, KeepsToken, Active
<1>4. CASE Replay(s) \/ (\E a \in Answers : Refuse(s, a)) \/ LoseOwnership(s) \/ ProviderFails(s)
  BY <1>3, <1>4 DEF Replay, Refuse, LoseOwnership, ProviderFails, storeVars, Answers
<1>5. CASE ProviderApproves(s) \/ ProviderDeclines(s, "payment_provider_declined")
           \/ LockOwnedRow(s)
  BY <1>5 DEF ProviderApproves, ProviderDeclines, LockOwnedRow, storeVars,
              OthersStay, ResponsesStay, KeepsToken, Active, TypeOK
<1> QED
  BY <1>1, <1>2, <1>4, <1>5 DEF Outside, AcquireStep, ProviderRefuses

LEMMA RollBackStays ==
    ASSUME IInv, NEW s \in Slots, RollBack(s)
    PROVE  OthersStay(s) /\ ResponsesStay /\ KeepsToken(s)
<1> USE DEF IInv
<1>1. UNCHANGED rows
  BY DEF RollBack, AbortOnCollision, TransientFailure, TransactionsLeft, Crash
<1>2. ASSUME NEW a \in Answers, Finish(s, a)
      PROVE  OthersStay(s) /\ KeepsToken(s)
  BY <1>2, FinishStays DEF KeepsToken, Active
<1>3. CASE AbortOnCollision(s)
  <2>1. CASE ident[s] < MaxIdent
    BY <1>1, <1>3, <2>1
       DEF AbortOnCollision, OthersStay, ResponsesStay, KeepsToken, Active, TypeOK
  <2> QED
    BY <1>1, <1>2, <1>3, <2>1 DEF AbortOnCollision, ResponsesStay, Answers
<1>4. CASE TransientFailure(s)
  <2>1. CASE attempt[s] < MaxTx
    BY <1>1, <1>4, <2>1
       DEF TransientFailure, TransactionsLeft, OthersStay, ResponsesStay, KeepsToken, Active, TypeOK
  <2> QED
    BY <1>1, <1>2, <1>4, <2>1 DEF TransientFailure, TransactionsLeft, ResponsesStay, Answers
<1>5. CASE Crash(s)
  BY <1>1, <1>2, <1>5 DEF Crash, ResponsesStay, Answers
<1> QED
  BY <1>1, <1>3, <1>4, <1>5 DEF RollBack, ResponsesStay

LEMMA ConflictStays ==
    ASSUME IInv, NEW s \in Slots, NEW code, AbortOnConflict(s, code)
    PROVE  OthersStay(s) /\ ResponsesStay /\ KeepsToken(s)
BY DEF AbortOnConflict, OthersStay, ResponsesStay, KeepsToken, Active, IInv, TypeOK

-----------------------------------------------------------------------------
(***************************************************************************)
(* Locks and reads.                                                        *)
(***************************************************************************)
\* A transaction that ends takes its reads and locks with it; it has only
\* written rows it had locked, and rows that were not there.
LEMMA LeaveKeeps ==
    ASSUME PInv, NEW s \in Slots, Leave(s), OthersStay(s),
           \A p \in PaymentIds : \/ payments'[p] = payments[p]
                                 \/ payments[p].status = "absent"
                                 \/ payLock[p] = s
    PROVE  /\ payLock' \in [PaymentIds -> Slots \cup {NoSlot}]
           /\ seen' \in [Slots -> PaymentRows \cup {NotRead}]
           /\ Reading' /\ Current'
<1> USE DEF PInv
<1>1. payLock' \in [PaymentIds -> Slots \cup {NoSlot}]
  BY DEF Leave, PaymentTypeOK
<1>2. seen' \in [Slots -> PaymentRows \cup {NotRead}]
  BY DEF Leave, PaymentTypeOK
<1>3. /\ seen'[s] = NotRead
      /\ \A q \in Slots \ {s} : seen'[q] = seen[q]
      /\ \A p \in PaymentIds, q \in Slots \ {s} : payLock[p] = q => payLock'[p] = q
  BY DEF Leave, PaymentTypeOK
<1>4. Reading'
  BY <1>3 DEF Reading, OthersStay, Cmd
<1>5. Current'
  <2> SUFFICES ASSUME NEW q \in Slots, seen'[q] # NotRead, seen'[q].status # "absent"
               PROVE  /\ payments'[Cmd(q).payment] = seen'[q]
                      /\ payLock'[Cmd(q).payment] = q
    BY DEF Current, Cmd
  <2>1. q # s /\ seen'[q] = seen[q]
    BY <1>3
  <2>2. /\ payments[Cmd(q).payment] = seen[q] /\ payLock[Cmd(q).payment] = q
        /\ Cmd(q).payment \in PaymentIds
    BY <2>1, PaymentAssumption DEF Current, Reading, Cmd, WellFormed
  <2> QED
    BY <1>3, <2>1, <2>2
<1> QED
  BY <1>1, <1>2, <1>4, <1>5

LEMMA LockKeeps ==
    ASSUME PInv, NEW s \in Slots, LockPayment(s)
    PROVE  /\ payLock' \in [PaymentIds -> Slots \cup {NoSlot}]
           /\ seen' \in [Slots -> PaymentRows \cup {NotRead}]
           /\ Reading' /\ Current'
<1> USE DEF PInv
<1> DEFINE p == Cmd(s).payment
<1>1. /\ p \in PaymentIds /\ payments[p] \in PaymentRows /\ payLock[p] = NoSlot
      /\ pc[s] = "working" /\ goal[s] = "operation" /\ Cmd(s).op \in {"capture", "refund"}
  BY PaymentAssumption
     DEF LockPayment, Operating, Cmd, WellFormed, PaymentRowFree, BookInv, BookTypeOK
<1>2. /\ seen' = [seen EXCEPT ![s] = payments[p]]
      /\ payLock' = IF payments[p].status = "absent" THEN payLock
                    ELSE [payLock EXCEPT ![p] = s]
      /\ UNCHANGED <<payments, pc, goal>>
  BY DEF LockPayment, books, idemVars, slotVars
<1>3. /\ payLock' \in [PaymentIds -> Slots \cup {NoSlot}]
      /\ seen' \in [Slots -> PaymentRows \cup {NotRead}]
  BY <1>1, <1>2 DEF PaymentTypeOK
<1>4. Reading'
  BY <1>1, <1>2 DEF Reading, PaymentTypeOK, Cmd
<1>5. Current'
  <2> SUFFICES ASSUME NEW q \in Slots, seen'[q] # NotRead, seen'[q].status # "absent"
               PROVE  /\ payments'[Cmd(q).payment] = seen'[q]
                      /\ payLock'[Cmd(q).payment] = q
    BY DEF Current, Cmd
  <2>1. CASE q = s
    BY <1>1, <1>2, <2>1 DEF PaymentTypeOK
  <2>2. CASE q # s
    <3>1. seen'[q] = seen[q]
      BY <1>2, <2>2 DEF PaymentTypeOK
    <3>2. payments[Cmd(q).payment] = seen[q] /\ payLock[Cmd(q).payment] = q
      BY <3>1 DEF Current
    <3>3. Cmd(q).payment # p
      BY <1>1, <3>2, CommandAssumption
    <3> QED
      BY <1>2, <3>1, <3>2, <3>3 DEF PaymentTypeOK
  <2> QED
    BY <2>1, <2>2
<1> QED
  BY <1>3, <1>4, <1>5

-----------------------------------------------------------------------------
(***************************************************************************)
(* Fresh ids.                                                              *)
(***************************************************************************)
\* The token of a conversation at work names no event yet.
LEMMA TokenIsFresh ==
    ASSUME PInv, NEW s \in Slots, pc[s] = "working"
    PROVE  token[s] \in Ids /\ FreshId(token[s])
<1>1. token[s] \in Ids
  BY PaymentAssumption DEF PInv, IInv, TokenHeld, Active
<1>2. ASSUME NEW e \in outbox, e.id = token[s]
      PROVE  FALSE
  <2>1. PICK k \in Keys : rows[k].response = [kind |-> "ok", id |-> token[s]]
    BY <1>2 DEF PInv, EventsAnswered
  <2>2. Active(s) /\ "ok" \in Kinds
    BY DEF Active, Kinds
  <2> QED
    BY <2>1, <2>2 DEF PInv, TokenUnanswered
<1> QED
  BY <1>1, <1>2 DEF FreshId

LEMMA TokensKeep ==
    ASSUME PInv, NEW s \in Slots, OthersStay(s),
           \/ ResponsesStay /\ (Send(s) \/ KeepsToken(s))
           \/ pc[s] = "working" /\ pc'[s] = "done" /\ \E kind \in Kinds : OwnResponse(s, kind)
    PROVE  TokenUnanswered'
<1> USE DEF PInv
<1> SUFFICES ASSUME NEW q \in Slots, Active(q)', NEW k \in Keys, NEW kind \in Kinds
             PROVE  rows'[k].response # [kind |-> kind, id |-> token'[q]]
  BY DEF TokenUnanswered
<1>1. CASE ResponsesStay /\ Send(s) /\ q = s
  <2>1. Fresh(token'[s])
    BY <1>1, TokenDrawn DEF Send, IInv, TypeOK
  <2> QED
    BY <1>1, <2>1 DEF Fresh, ResponsesStay, Kinds
<1>2. CASE ResponsesStay /\ (KeepsToken(s) \/ q # s)
  BY <1>2 DEF ResponsesStay, KeepsToken, OthersStay, TokenUnanswered, Active
<1>3. ASSUME pc[s] = "working", pc'[s] = "done",
             NEW own \in Kinds, OwnResponse(s, own)
      PROVE  rows'[k].response # [kind |-> kind, id |-> token'[q]]
  <2>1. q # s /\ Active(q) /\ Active(s) /\ token'[q] = token[q]
    BY <1>3 DEF OthersStay, Active
  <2>2. token[q] # token[s]
    BY <2>1 DEF LInv, TokensDistinct
  <2>3. CASE k = KeyOf[s]
    <3>1. rows'[k].response = [kind |-> own, id |-> token[s]]
      BY <1>3, <2>3 DEF OwnResponse
    <3>2. [kind |-> own, id |-> token[s]].id = token[s]
      OBVIOUS
    <3>3. [kind |-> kind, id |-> token[q]].id = token[q]
      OBVIOUS
    <3> QED
      BY <2>1, <2>2, <3>1, <3>2, <3>3
  <2>4. CASE k # KeyOf[s]
    BY <1>3, <2>1, <2>4 DEF OwnResponse, TokenUnanswered
  <2> QED
    BY <2>3, <2>4
<1> QED
  BY <1>1, <1>2, <1>3

\* Responses are never taken back, so events keep their keys.
LEMMA EventsKeep ==
    ASSUME PInv,
           NEW s \in Slots,
           \/ ResponsesStay /\ outbox' = outbox
           \/ \E kind \in Kinds : OwnResponse(s, kind) /\ outbox' = outbox
           \/ /\ OwnResponse(s, "ok")
              /\ \E type, p, amount, cumulative :
                    outbox' = outbox \cup {Event(type, p, amount, cumulative, token[s])}
    PROVE  EventsAnswered'
<1> USE DEF PInv
<1>1. ASSUME NEW e \in outbox
      PROVE  \E k \in Keys : rows'[k].response = [kind |-> "ok", id |-> e.id]
  <2>1. PICK k \in Keys : rows[k].response = [kind |-> "ok", id |-> e.id]
    BY <1>1 DEF EventsAnswered
  <2>2. rows[k].response # NoResponse
    <3>1. e.id \in Tokens
      BY PaymentAssumption DEF BookInv, BookTypeOK
    <3> QED
      BY <2>1, <3>1, NoResponseAssumption DEF Responses
  <2>3. rows'[k].response = rows[k].response
    BY <2>2 DEF ResponsesStay, OwnResponse
  <2> QED
    BY <2>1, <2>3
<1>2. ASSUME OwnResponse(s, "ok"), NEW e, e.id = token[s]
      PROVE  \E k \in Keys : rows'[k].response = [kind |-> "ok", id |-> e.id]
  BY <1>2, CommandAssumption DEF OwnResponse
<1> QED
  BY <1>1, <1>2 DEF EventsAnswered, Event

-----------------------------------------------------------------------------
(***************************************************************************)
(* The operations are the steps of the books.                              *)
(***************************************************************************)
LEMMA CreateBooks ==
    ASSUME PInv, NEW s \in Slots, CreatePayment(s)
    PROVE  \E p \in PaymentIds :
              /\ payments[p].status = "absent"
              /\ BookCreate(p, Cmd(s).ref, Cmd(s).amount, Cmd(s).currency, token[s])
BY TokenIsFresh DEF CreatePayment, BookCreate, Operating

\* A command that was accepted on the row it read stands on the row there is.
LEMMA AcceptedRow ==
    ASSUME PInv, NEW s \in Slots, NEW op \in {"capture", "refund"}, Accepted(s, op)
    PROVE  /\ Cmd(s).payment \in PaymentIds
           /\ seen[s].status # "absent" /\ seen[s].currency = Cmd(s).currency
           /\ payments[Cmd(s).payment] = seen[s]
           /\ payLock[Cmd(s).payment] = s
<1>1. Cmd(s).payment \in PaymentIds
  BY PaymentAssumption DEF Accepted, Operating, Cmd, WellFormed
<1>2. seen[s].status # "absent" /\ seen[s].currency = Cmd(s).currency
  BY DEF Accepted, CommandError, CaptureError, RefundError
<1> QED
  BY <1>1, <1>2 DEF Accepted, PInv, Current

LEMMA CaptureBooks ==
    ASSUME PInv, NEW s \in Slots, CapturePayment(s)
    PROVE  BookCapture(Cmd(s).payment, Cmd(s).amount, Cmd(s).currency, token[s])
<1>1. /\ payments[Cmd(s).payment] = seen[s] /\ seen[s].currency = Cmd(s).currency
      /\ FreshId(token[s])
  BY AcceptedRow, TokenIsFresh DEF CapturePayment, Accepted, Operating
<1>2. CaptureError(seen[s], Cmd(s).amount, Cmd(s).currency) = "none"
  BY DEF CapturePayment, Accepted, CommandError, Operating
<1> QED
  BY <1>1, <1>2 DEF CapturePayment, BookCapture

LEMMA RefundBooks ==
    ASSUME PInv, NEW s \in Slots, RefundPayment(s)
    PROVE  BookRefund(Cmd(s).payment, Cmd(s).ref, Cmd(s).amount, Cmd(s).currency, token[s])
<1>1. /\ payments[Cmd(s).payment] = seen[s] /\ seen[s].currency = Cmd(s).currency
      /\ FreshId(token[s])
  BY AcceptedRow, TokenIsFresh DEF RefundPayment, Accepted, Operating
<1>2. RefundError(seen[s], Cmd(s).amount, Cmd(s).currency) = "none"
  BY DEF RefundPayment, Accepted, CommandError, Operating
<1> QED
  BY <1>1, <1>2 DEF RefundPayment, BookRefund

LEMMA CommandsTyped ==
    ASSUME PInv, NEW s \in Slots
    PROVE  /\ Cmd(s).amount \in Amounts /\ Cmd(s).currency \in Currencies
           /\ Cmd(s).op \in {"create", "refund"} => Cmd(s).ref \in ExternalRefs
           /\ Cmd(s).op \in {"capture", "refund"} => Cmd(s).payment \in PaymentIds
BY PaymentAssumption DEF Cmd, Commands, WellFormed

LEMMA BookStep == PInv /\ [PaymentNext]_vars => [BookNext]_books
<1> SUFFICES ASSUME PInv, [PaymentNext]_vars
             PROVE  [BookNext]_books
  OBVIOUS
<1>1. ASSUME NEW s \in Slots, CreatePayment(s)
      PROVE  BookNext
  <2>1. Cmd(s).op = "create" /\ token[s] \in Ids
    BY <1>1, TokenIsFresh DEF CreatePayment, Operating
  <2> QED
    BY <1>1, <2>1, CreateBooks, CommandsTyped DEF BookNext
<1>2. ASSUME NEW s \in Slots, CapturePayment(s)
      PROVE  BookNext
  <2>1. Cmd(s).op = "capture" /\ token[s] \in Ids
    BY <1>2, TokenIsFresh DEF CapturePayment, Accepted, Operating
  <2> QED
    BY <1>2, <2>1, CaptureBooks, CommandsTyped DEF BookNext
<1>3. ASSUME NEW s \in Slots, RefundPayment(s)
      PROVE  BookNext
  <2>1. Cmd(s).op = "refund" /\ token[s] \in Ids
    BY <1>3, TokenIsFresh DEF RefundPayment, Accepted, Operating
  <2> QED
    BY <1>3, <2>1, RefundBooks, CommandsTyped DEF BookNext
<1>4. ASSUME NEW s \in Slots, Outside(s) \/ RollBack(s)
      PROVE  UNCHANGED books
  BY <1>4 DEF Outside, RollBack, payVars
<1>5. ASSUME NEW s \in Slots,
             LockPayment(s) \/ RefuseCommand(s) \/ CreateConflict(s) \/ RefundConflict(s)
             \/ RecordProblem(s)
      PROVE  UNCHANGED books
  BY <1>5 DEF LockPayment, RefuseCommand, CreateConflict, RefundConflict, RecordProblem
<1>6. (UNCHANGED payVars => UNCHANGED books) /\ (UNCHANGED vars => UNCHANGED books)
  BY DEF payVars, vars
<1> QED
  BY <1>1, <1>2, <1>3, <1>4, <1>5, <1>6 DEF PaymentNext, Operate

-----------------------------------------------------------------------------
(***************************************************************************)
(* The invariant is inductive.                                             *)
(***************************************************************************)
Remaining ==
    /\ payLock' \in [PaymentIds -> Slots \cup {NoSlot}]
    /\ seen' \in [Slots -> PaymentRows \cup {NotRead}]
    /\ Reading' /\ Current'
    /\ CapturesPosted'
    /\ TokenUnanswered' /\ EventsAnswered'

\* Steps outside the operation: the books and what was read of them stay.
LEMMA OutsideRemaining ==
    ASSUME PInv, NEW s \in Slots, Outside(s)
    PROVE  Remaining
<1> USE DEF PInv
<1>1. UNCHANGED <<payments, postings, outbox, payLock, seen>>
  BY DEF Outside, payVars, books
<1>2. OthersStay(s) /\ ResponsesStay /\ pc[s] # "working" /\ (Send(s) \/ KeepsToken(s))
  BY OutsideStays
<1>3. Reading' /\ Current'
  BY <1>1, <1>2 DEF Reading, Current, OthersStay, Cmd
<1>4. TokenUnanswered' /\ EventsAnswered'
  BY <1>1, <1>2, TokensKeep, EventsKeep
<1> QED
  BY <1>1, <1>3, <1>4 DEF Remaining, PaymentTypeOK, CapturesPosted

\* Transactions that end without writing to the books.
LEMMA EmptyHanded ==
    ASSUME PInv, NEW s \in Slots, Leave(s), UNCHANGED books, OthersStay(s),
           \/ ResponsesStay /\ KeepsToken(s)
           \/ pc[s] = "working" /\ pc'[s] = "done" /\ \E kind \in Kinds : OwnResponse(s, kind)
    PROVE  Remaining
<1>1. UNCHANGED <<payments, postings, outbox>>
  BY DEF books
<1>2. TokenUnanswered' /\ EventsAnswered'
  BY <1>1, TokensKeep, EventsKeep
<1> QED
  BY <1>1, <1>2, LeaveKeeps DEF Remaining, CapturesPosted, PInv

LEMMA CommitOperationIsCommit ==
    ASSUME NEW s \in Slots, NEW kind, CommitOperation(s, kind)
    PROVE  Commit(s, kind) /\ pc[s] = "working"
BY DEF CommitOperation, Commit

LEMMA CreateRemaining ==
    ASSUME PInv, NEW s \in Slots, CreatePayment(s)
    PROVE  Remaining
<1> USE DEF PInv
<1>1. pc[s] = "working" /\ OthersStay(s) /\ pc'[s] = "done" /\ OwnResponse(s, "ok")
  BY CommitOperationIsCommit, CommitStays DEF CreatePayment, Kinds
<1>2. PICK p \in PaymentIds :
          /\ payments[p].status = "absent"
          /\ WriteCreate(p, Cmd(s).ref, Cmd(s).amount, Cmd(s).currency, token[s])
  BY DEF CreatePayment
<1>3. \A x \in PaymentIds \ {p} : payments'[x] = payments[x]
  BY <1>2 DEF WriteCreate, BookInv, BookTypeOK
<1>4. CapturesPosted'
  BY <1>2, <1>3 DEF WriteCreate, CapturesPosted
<1>5. TokenUnanswered' /\ EventsAnswered'
  BY <1>1, <1>2, TokensKeep, EventsKeep DEF Kinds, WriteCreate
<1>6. Leave(s)
  BY DEF CreatePayment
<1> QED
  BY <1>1, <1>2, <1>3, <1>4, <1>5, <1>6, LeaveKeeps DEF Remaining

LEMMA CaptureRemaining ==
    ASSUME PInv, NEW s \in Slots, CapturePayment(s)
    PROVE  Remaining
<1> USE DEF PInv
<1> DEFINE p == Cmd(s).payment
<1>1. pc[s] = "working" /\ OthersStay(s) /\ pc'[s] = "done" /\ OwnResponse(s, "ok")
  BY CommitOperationIsCommit, CommitStays DEF CapturePayment, Kinds
<1>2. /\ WriteCapture(p, Cmd(s).amount, seen[s].currency, token[s])
      /\ Leave(s) /\ Accepted(s, "capture")
  BY DEF CapturePayment
<1>3. p \in PaymentIds /\ payLock[p] = s
  BY <1>2, AcceptedRow
<1>4. /\ \A x \in PaymentIds \ {p} : payments'[x] = payments[x]
      /\ payments'[p].status = "captured"
  BY <1>2, <1>3 DEF WriteCapture, CapturedRow, BookInv, BookTypeOK, PaymentRows
<1>5. CapturesPosted'
  BY <1>2, <1>3, <1>4 DEF WriteCapture, CapturesPosted, Posting
<1>6. TokenUnanswered' /\ EventsAnswered'
  BY <1>1, <1>2, TokensKeep, EventsKeep DEF Kinds, WriteCapture
<1> QED
  BY <1>1, <1>2, <1>3, <1>4, <1>5, <1>6, LeaveKeeps DEF Remaining

LEMMA RefundRemaining ==
    ASSUME PInv, NEW s \in Slots, RefundPayment(s)
    PROVE  Remaining
<1> USE DEF PInv
<1> DEFINE p == Cmd(s).payment
<1>1. pc[s] = "working" /\ OthersStay(s) /\ pc'[s] = "done" /\ OwnResponse(s, "ok")
  BY CommitOperationIsCommit, CommitStays DEF RefundPayment, Kinds
<1>2. /\ WriteRefund(p, Cmd(s).ref, Cmd(s).amount, seen[s].currency, token[s])
      /\ Leave(s) /\ Accepted(s, "refund")
  BY DEF RefundPayment
<1>3. p \in PaymentIds /\ payLock[p] = s
  BY <1>2, AcceptedRow
<1>4. /\ \A x \in PaymentIds \ {p} : payments'[x] = payments[x]
      /\ payments'[p].status \in {"refunded", "partially_refunded"}
  BY <1>2, <1>3 DEF WriteRefund, RefundedRow, BookInv, BookTypeOK, PaymentRows
<1>5. CapturesPosted'
  BY <1>2, <1>3, <1>4 DEF WriteRefund, CapturesPosted, Posting
<1>6. TokenUnanswered' /\ EventsAnswered'
  BY <1>1, <1>2, TokensKeep, EventsKeep DEF Kinds, WriteRefund
<1> QED
  BY <1>1, <1>2, <1>3, <1>4, <1>5, <1>6, LeaveKeeps DEF Remaining

LEMMA OperateRemaining ==
    ASSUME PInv, NEW s \in Slots, Operate(s)
    PROVE  Remaining
<1>1. CASE LockPayment(s)
  <2>1. UNCHANGED <<payments, postings, outbox, rows, pc, token>>
    BY <1>1 DEF LockPayment, books, idemVars, storeVars, slotVars
  <2>2. CapturesPosted' /\ TokenUnanswered' /\ EventsAnswered'
    BY <2>1 DEF PInv, CapturesPosted, TokenUnanswered, EventsAnswered, Active
  <2> QED
    BY <1>1, <2>2, LockKeeps DEF Remaining
<1>2. ASSUME NEW kind \in Kinds, Commit(s, kind), Leave(s), UNCHANGED books
      PROVE  Remaining
  <2>1. pc[s] = "working" /\ OthersStay(s) /\ pc'[s] = "done" /\ OwnResponse(s, kind)
    BY <1>2, CommitStays DEF Commit, PInv
  <2> QED
    BY <1>2, <2>1, EmptyHanded
<1>3. CASE RefuseCommand(s)
  BY <1>2, <1>3, ErrorsAreProblems DEF RefuseCommand, CommitOperation, Kinds
<1>4. CASE CreateConflict(s) \/ RefundConflict(s)
  BY <1>4, ConflictStays, EmptyHanded DEF CreateConflict, RefundConflict, PInv
<1>5. CASE RecordProblem(s)
  BY <1>2, <1>5 DEF RecordProblem, CommitProblem, Kinds, PInv, IInv, TypeOK
<1> QED
  BY <1>1, <1>3, <1>4, <1>5, CreateRemaining, CaptureRemaining, RefundRemaining DEF Operate

LEMMA PInvNext == PInv /\ [PaymentNext]_vars => PInv'
<1> SUFFICES ASSUME PInv, [PaymentNext]_vars
             PROVE  PInv'
  OBVIOUS
<1>1. IInv' /\ LInv' /\ BookInv'
  BY HiddenStep, InvNext, LInvNext, BookStep, BookInvNext DEF PInv
<1>2. ASSUME NEW s \in Slots, RollBack(s)
      PROVE  Remaining
  BY <1>2, RollBackStays, EmptyHanded DEF RollBack, PInv
<1>3. ASSUME ((Tick \/ Finished) /\ UNCHANGED payVars) \/ UNCHANGED vars
      PROVE  Remaining
  <2>1. /\ UNCHANGED <<payments, postings, outbox, payLock, seen>>
        /\ UNCHANGED <<rows, pc, goal, token>>
    BY <1>3 DEF Tick, Finished, vars, payVars, books, idemVars, storeVars, slotVars
  <2> QED
    BY <2>1 DEF PInv, PaymentTypeOK, Remaining, Reading, Current, CapturesPosted,
                TokenUnanswered, EventsAnswered, Active, Cmd
<1>4. Remaining
  BY <1>2, <1>3, OutsideRemaining, OperateRemaining DEF PaymentNext
<1> QED
  BY <1>1, <1>4 DEF PInv, Remaining, PaymentTypeOK, BookInv

-----------------------------------------------------------------------------
\* The state of the payment commands keeps its types (PaymentTypeOK).
THEOREM PaymentTypeCorrect == PaymentSpec => []PaymentTypeOK
<1>1. PInv => PaymentTypeOK
  BY DEF PInv
<1> QED
  BY PInvInit, PInvNext, <1>1, PTL DEF PaymentSpec

\* A row read under its lock is the row written, and the ledger reference
\* of an accepted capture is free (ReadsStayCurrent), for any number of
\* conversations over any payments.
THEOREM ReadsAreCurrent == PaymentSpec => []ReadsStayCurrent
<1>1. PInv => ReadsStayCurrent
  <2> SUFFICES ASSUME PInv, NEW s \in Slots, seen[s] # NotRead
               PROVE  /\ seen[s].status # "absent" =>
                            /\ payments[Cmd(s).payment] = seen[s]
                            /\ payLock[Cmd(s).payment] = s
                      /\ Accepted(s, "capture") =>
                            \A t \in postings : t.type = "capture" => t.ref # Cmd(s).payment
    BY DEF ReadsStayCurrent
  <2>1. ASSUME Accepted(s, "capture"), NEW t \in postings, t.type = "capture"
        PROVE  t.ref # Cmd(s).payment
    <3>1. CaptureError(seen[s], Cmd(s).amount, Cmd(s).currency) = "none"
      BY <2>1 DEF Accepted, CommandError, Operating
    <3>2. seen[s].status = "created"
      BY <3>1 DEF CaptureError
    <3> QED
      BY <2>1, <3>2, AcceptedRow DEF PInv, CapturesPosted
  <2> QED
    BY <2>1 DEF PInv, Current
<1> QED
  BY PInvInit, PInvNext, <1>1, PTL DEF PaymentSpec

\* Every step of the commands is one step of the abstract books or none
\* (ImplementsBook): nobody sees half a transaction, and no validation is
\* out of date when its writes land.
THEOREM CommandsAreAtomic == PaymentSpec => ImplementsBook
<1>1. PaymentInit => BookInit
  BY DEF PaymentInit
<1> QED
  BY <1>1, PInvInit, PInvNext, BookStep, PTL DEF PaymentSpec, BookSpec, ImplementsBook

\* And so the lifecycle constraint of the payment rows holds under any
\* interleaving (StatusProjection).
THEOREM PaymentsAreConsistent == PaymentSpec => []StatusProjection
BY CommandsAreAtomic, BooksAreConsistent, PTL DEF ImplementsBook

\* ... and Settlements may rely on PaymentFacts whatever commands overlap
\* (ImplementsFacts).
THEOREM CommandsImplementFacts == PaymentSpec => ImplementsFacts
BY CommandsAreAtomic, BooksImplementFacts, PTL DEF ImplementsBook

-----------------------------------------------------------------------------
(***************************************************************************)
(* One event and one ledger transaction for each effect of a key.          *)
(***************************************************************************)
LEMMA KeysForFinite == \A op : IsFiniteSet(KeysFor(op)) /\ KeysFor(op) \subseteq Keys
<1>1. \A op : KeysFor(op) \subseteq Keys
  BY DEF KeysFor
<1> QED
  BY <1>1, PaymentAssumption, FS_Subset

LEMMA EffectsAreCounted == PInv => \A op : Effects(op) \in Int
<1> SUFFICES ASSUME PInv, NEW op PROVE Effects(op) \in Int
  OBVIOUS
<1>1. \A k \in KeysFor(op) : applied[k] \in Int
  BY KeysForFinite DEF PInv, IInv, TypeOK
<1> QED
  BY <1>1, KeysForFinite, SumIsInt DEF Effects

\* A committed success counts for its own operation and for no other.
LEMMA EffectCounts ==
    ASSUME PInv, NEW s \in Slots, CommitOperation(s, "ok")
    PROVE  /\ Effects(Cmd(s).op)' = Effects(Cmd(s).op) + 1
           /\ \A op : op # Cmd(s).op => Effects(op)' = Effects(op)
<1> DEFINE k == KeyOf[s]
<1>1. k \in Keys /\ applied' = [applied EXCEPT ![k] = applied[k] + 1]
  BY CommandAssumption DEF CommitOperation, Commit
<1>2. applied \in [Keys -> Nat]
  BY DEF PInv, IInv, TypeOK
<1>3. k \in KeysFor(Cmd(s).op)
  BY <1>1 DEF KeysFor
<1>4. \A op : op # Cmd(s).op => k \notin KeysFor(op)
  BY PaymentAssumption DEF KeysFor, Cmd
<1>5. \A x \in Keys : x # k => applied'[x] = applied[x]
  BY <1>1, <1>2
<1>6. applied'[k] = applied[k] + 1 /\ applied[k] \in Int
  BY <1>1, <1>2
<1>7. \A op : Effects(op)' = SumFunctionOnSet(applied', KeysFor(op))
  BY DEF Effects, KeysFor, Cmd
<1> HIDE DEF k
<1>8. Effects(Cmd(s).op)' = Effects(Cmd(s).op) + 1
  <2> DEFINE S == KeysFor(Cmd(s).op)
  <2>1. IsFiniteSet(S) /\ S \subseteq Keys
    BY KeysForFinite
  <2>2. (\A y \in S : applied[y] \in Int) /\ \A y \in S \ {k} : applied[y] = applied'[y]
    BY <2>1, <1>2, <1>5
  <2>3. applied'[k] \in Int /\ k \in S
    BY <1>3, <1>6
  <2> HIDE DEF S
  <2>4. SumFunctionOnSet(applied', S) = SumFunctionOnSet(applied, S) + applied'[k] - applied[k]
    BY <2>1, <2>2, <2>3, SumChanged
  <2>5. SumFunctionOnSet(applied, S) \in Int
    BY <2>1, <2>2, SumIsInt
  <2>6. SumFunctionOnSet(applied', S) = SumFunctionOnSet(applied, S) + 1
    BY <1>6, <2>4, <2>5
  <2>7. Effects(Cmd(s).op)' = SumFunctionOnSet(applied', S)
    BY <1>7 DEF S
  <2> QED
    BY <2>6, <2>7 DEF Effects, S
<1>9. ASSUME NEW op, op # Cmd(s).op
      PROVE  Effects(op)' = Effects(op)
  <2> DEFINE S == KeysFor(op)
  <2>1. IsFiniteSet(S) /\ S \subseteq Keys
    BY KeysForFinite
  <2>2. (\A y \in S : applied[y] \in Int) /\ \A y \in S : applied[y] = applied'[y]
    BY <2>1, <1>2, <1>4, <1>5, <1>9
  <2> HIDE DEF S
  <2>3. SumFunctionOnSet(applied, S) = SumFunctionOnSet(applied', S)
    BY <2>1, <2>2, SumOfEqual
  <2>4. Effects(op)' = SumFunctionOnSet(applied', S)
    BY <1>7 DEF S
  <2> QED
    BY <2>3, <2>4 DEF Effects, S
<1> QED
  BY <1>8, <1>9

\* Every other step leaves the count alone.
LEMMA NothingCounts ==
    ASSUME PInv, NEW s \in Slots,
           \/ Outside(s) \/ RollBack(s)
           \/ LockPayment(s) \/ RefuseCommand(s) \/ CreateConflict(s) \/ RefundConflict(s)
           \/ RecordProblem(s)
    PROVE  UNCHANGED applied
<1>0. applied \in [Keys -> Nat] /\ KeyOf[s] \in Keys
  BY CommandAssumption DEF PInv, IInv, TypeOK
<1>1. CASE Outside(s)
  <2>1. Send(s) \/ ProviderApproves(s) \/ ProviderRefuses(s) => UNCHANGED applied
    BY DEF Send, ProviderApproves, ProviderRefuses, ProviderDeclines, ProviderFails, storeVars
  <2>2. AcquireStep(s) => UNCHANGED applied
    BY DEF AcquireStep, Acquire, Replay, Refuse, storeVars
  <2>3. LockOwnedRow(s) \/ LoseOwnership(s) => UNCHANGED applied
    BY DEF LockOwnedRow, LoseOwnership, storeVars
  <2> QED
    BY <1>1, <2>1, <2>2, <2>3 DEF Outside
<1>2. CASE RollBack(s)
  BY <1>2 DEF RollBack, AbortOnCollision, TransientFailure, Crash
<1>3. CASE LockPayment(s)
  BY <1>3 DEF LockPayment, idemVars, storeVars
<1>4. ASSUME NEW kind, kind # "ok", Commit(s, kind)
      PROVE  UNCHANGED applied
  BY <1>0, <1>4 DEF Commit
<1>5. CASE RefuseCommand(s)
  BY <1>4, <1>5, ErrorsAreProblems, CommandAssumption DEF RefuseCommand, CommitOperation
<1>6. CASE RecordProblem(s)
  <2>1. goal[s] # "ok"
    BY <1>6, CommandAssumption DEF RecordProblem, CommitProblem, PInv, IInv, TypeOK
  <2> QED
    BY <1>4, <1>6, <2>1 DEF RecordProblem, CommitProblem
<1>7. CASE CreateConflict(s) \/ RefundConflict(s)
  BY <1>7 DEF CreateConflict, RefundConflict, AbortOnConflict
<1> QED
  BY <1>1, <1>2, <1>3, <1>5, <1>6, <1>7

TInv == PInv /\ SumsInv /\ OneTransitionPerEffect

LEMMA TInvInit == PaymentInit => TInv
<1> SUFFICES ASSUME PaymentInit PROVE TInv
  OBVIOUS
<1>1. \A op : Effects(op) = 0
  <2>1. applied = [k \in Keys |-> 0]
    BY DEF PaymentInit, Init
  <2>2. \A op : \A k \in KeysFor(op) : applied[k] = 0
    BY <2>1, KeysForFinite
  <2> QED
    BY <2>2, KeysForFinite, SumOfZeros DEF Effects
<1>2. \A type : EventsOf(type) = {} /\ PostingsFor(type) = {}
  BY DEF PaymentInit, BookInit, EventsOf, PostingsFor
<1> QED
  BY <1>1, <1>2, FS_EmptySet, PInvInit, SumsInvInit
     DEF TInv, PaymentInit, OneTransitionPerEffect

\* One more record in a set of them.
LEMMA OneMore ==
    ASSUME NEW S, IsFiniteSet(S), NEW x, x \notin S
    PROVE  Cardinality(S \cup {x}) = Cardinality(S) + 1
BY FS_AddElement

LEMMA OneTransitionNext ==
    ASSUME TInv, [PaymentNext]_vars
    PROVE  OneTransitionPerEffect'
<1> USE DEF TInv
<1>1. /\ IsFiniteSet(outbox) /\ \A type : IsFiniteSet(EventsOf(type))
      /\ IsFiniteSet(postings) /\ \A type : IsFiniteSet(PostingsFor(type))
  BY FS_Subset DEF SumsInv, Tied, EventsOf, PostingsFor
<1>2. ASSUME UNCHANGED <<postings, outbox, applied>>
      PROVE  OneTransitionPerEffect'
  BY <1>2 DEF OneTransitionPerEffect, EventsOf, PostingsFor, Effects, KeysFor, Cmd
<1>3. ASSUME NEW s \in Slots, CreatePayment(s)
      PROVE  OneTransitionPerEffect'
  <2>1. CommitOperation(s, "ok") /\ Cmd(s).op = "create" /\ FreshId(token[s])
    BY <1>3, TokenIsFresh DEF CreatePayment, Operating
  <2>2. PICK p : WriteCreate(p, Cmd(s).ref, Cmd(s).amount, Cmd(s).currency, token[s])
    BY <1>3 DEF CreatePayment
  <2> DEFINE e == Event("payment.created", p, Cmd(s).amount, 0, token[s])
  <2>3. e.type = "payment.created" /\ e.id = token[s] /\ outbox' = outbox \cup {e}
    BY <2>2 DEF WriteCreate, Event
  <2> HIDE DEF e
  <2>4. e \notin outbox
    BY <2>1, <2>3 DEF FreshId
  <2>5. /\ EventsOf("payment.created")' = EventsOf("payment.created") \cup {e}
        /\ e \notin EventsOf("payment.created")
        /\ EventsOf("payment.captured")' = EventsOf("payment.captured")
        /\ EventsOf("payment.refunded")' = EventsOf("payment.refunded")
        /\ PostingsFor("capture")' = PostingsFor("capture")
        /\ PostingsFor("refund")' = PostingsFor("refund")
    BY <2>2, <2>3, <2>4 DEF EventsOf, PostingsFor, WriteCreate
  <2>6. Cardinality(EventsOf("payment.created")') = Cardinality(EventsOf("payment.created")) + 1
    BY <1>1, <2>5, OneMore
  <2>7. /\ Effects("create")' = Effects("create") + 1
        /\ Effects("capture")' = Effects("capture") /\ Effects("refund")' = Effects("refund")
    BY <2>1, EffectCounts
  <2> QED
    BY <2>5, <2>6, <2>7 DEF OneTransitionPerEffect
<1>4. ASSUME NEW s \in Slots, CapturePayment(s)
      PROVE  OneTransitionPerEffect'
  <2>1. /\ CommitOperation(s, "ok") /\ Cmd(s).op = "capture" /\ FreshId(token[s])
        /\ BookCapture(Cmd(s).payment, Cmd(s).amount, Cmd(s).currency, token[s])
        /\ Cmd(s).payment \in PaymentIds
    BY <1>4, TokenIsFresh, CaptureBooks, CommandsTyped DEF CapturePayment, Accepted, Operating
  <2> DEFINE e == Event("payment.captured", Cmd(s).payment, Cmd(s).amount, 0, token[s])
             n == Posting("capture", Cmd(s).payment, Cmd(s).currency, CaptureEntries(Cmd(s).amount))
  <2>2. /\ e.type = "payment.captured" /\ e.id = token[s] /\ outbox' = outbox \cup {e}
        /\ n.type = "capture" /\ n.ref = Cmd(s).payment /\ postings' = postings \cup {n}
    BY <2>1 DEF BookCapture, WriteCapture, Event, Posting
  <2> HIDE DEF e, n
  <2>3. payments[Cmd(s).payment].status = "created"
    BY <2>1 DEF BookCapture, CaptureError
  <2>4. e \notin outbox /\ n \notin postings
    BY <2>1, <2>2, <2>3 DEF FreshId, SumsInv, Tied
  <2>5. /\ EventsOf("payment.captured")' = EventsOf("payment.captured") \cup {e}
        /\ e \notin EventsOf("payment.captured")
        /\ EventsOf("payment.created")' = EventsOf("payment.created")
        /\ EventsOf("payment.refunded")' = EventsOf("payment.refunded")
        /\ PostingsFor("capture")' = PostingsFor("capture") \cup {n}
        /\ n \notin PostingsFor("capture")
        /\ PostingsFor("refund")' = PostingsFor("refund")
    BY <2>2, <2>4 DEF EventsOf, PostingsFor
  <2>6. /\ Cardinality(EventsOf("payment.captured")') = Cardinality(EventsOf("payment.captured")) + 1
        /\ Cardinality(PostingsFor("capture")') = Cardinality(PostingsFor("capture")) + 1
    BY <1>1, <2>5, OneMore
  <2>7. /\ Effects("capture")' = Effects("capture") + 1
        /\ Effects("create")' = Effects("create") /\ Effects("refund")' = Effects("refund")
    BY <2>1, EffectCounts
  <2> QED
    BY <2>5, <2>6, <2>7 DEF OneTransitionPerEffect
<1>5. ASSUME NEW s \in Slots, RefundPayment(s)
      PROVE  OneTransitionPerEffect'
  <2>1. /\ CommitOperation(s, "ok") /\ Cmd(s).op = "refund" /\ FreshId(token[s])
        /\ BookRefund(Cmd(s).payment, Cmd(s).ref, Cmd(s).amount, Cmd(s).currency, token[s])
    BY <1>5, TokenIsFresh, RefundBooks DEF RefundPayment, Accepted, Operating
  <2> DEFINE p == Cmd(s).payment
             e == Event("payment.refunded", p, Cmd(s).amount, payments'[p].refunded, token[s])
             n == Posting("refund", token[s], Cmd(s).currency, RefundEntries(Cmd(s).amount))
  <2>2. /\ e.type = "payment.refunded" /\ e.id = token[s] /\ outbox' = outbox \cup {e}
        /\ n.type = "refund" /\ n.ref = token[s] /\ postings' = postings \cup {n}
    BY <2>1 DEF BookRefund, WriteRefund, Event, Posting
  <2> HIDE DEF e, n
  <2>3. e \notin outbox /\ n \notin postings
    BY <2>1, <2>2 DEF FreshId, SumsInv, Tied
  <2>4. /\ EventsOf("payment.refunded")' = EventsOf("payment.refunded") \cup {e}
        /\ e \notin EventsOf("payment.refunded")
        /\ EventsOf("payment.created")' = EventsOf("payment.created")
        /\ EventsOf("payment.captured")' = EventsOf("payment.captured")
        /\ PostingsFor("refund")' = PostingsFor("refund") \cup {n}
        /\ n \notin PostingsFor("refund")
        /\ PostingsFor("capture")' = PostingsFor("capture")
    BY <2>2, <2>3 DEF EventsOf, PostingsFor
  <2>5. /\ Cardinality(EventsOf("payment.refunded")') = Cardinality(EventsOf("payment.refunded")) + 1
        /\ Cardinality(PostingsFor("refund")') = Cardinality(PostingsFor("refund")) + 1
    BY <1>1, <2>4, OneMore
  <2>6. /\ Effects("refund")' = Effects("refund") + 1
        /\ Effects("create")' = Effects("create") /\ Effects("capture")' = Effects("capture")
    BY <2>1, EffectCounts
  <2> QED
    BY <2>4, <2>5, <2>6 DEF OneTransitionPerEffect
<1>6. ASSUME NEW s \in Slots, Outside(s) \/ RollBack(s)
      PROVE  OneTransitionPerEffect'
  <2>1. UNCHANGED applied
    BY <1>6, NothingCounts
  <2> QED
    BY <1>2, <1>6, <2>1 DEF Outside, RollBack, payVars, books
<1>7. ASSUME NEW s \in Slots,
             LockPayment(s) \/ RefuseCommand(s) \/ CreateConflict(s) \/ RefundConflict(s)
             \/ RecordProblem(s)
      PROVE  OneTransitionPerEffect'
  <2>1. UNCHANGED applied
    BY <1>7, NothingCounts
  <2> QED
    BY <1>2, <1>7, <2>1
       DEF LockPayment, RefuseCommand, CreateConflict, RefundConflict, RecordProblem, books
<1>8. ASSUME ((Tick \/ Finished) /\ UNCHANGED payVars) \/ UNCHANGED vars
      PROVE  OneTransitionPerEffect'
  BY <1>2, <1>8 DEF Tick, Finished, vars, payVars, books, idemVars, storeVars
<1> QED
  BY <1>3, <1>4, <1>5, <1>6, <1>7, <1>8 DEF PaymentNext, Operate

LEMMA TInvNext == TInv /\ [PaymentNext]_vars => TInv'
<1> SUFFICES ASSUME TInv, [PaymentNext]_vars PROVE TInv'
  OBVIOUS
<1>1. PInv' /\ SumsInv'
  BY PInvNext, BookStep, SumsInvNext DEF TInv, PInv
<1> QED
  BY <1>1, OneTransitionNext DEF TInv

\* INV-10: retried, taken over or answered twice, a command leaves one event,
\* and one ledger transaction, for each effect (OneTransitionPerEffect).
THEOREM TransitionsAreSingle == PaymentSpec => []OneTransitionPerEffect
<1>1. TInv => OneTransitionPerEffect
  BY DEF TInv
<1> QED
  BY TInvInit, TInvNext, <1>1, PTL DEF PaymentSpec

\* What holds of the books holds of the commands (LedgerMatchesPayments,
\* EventsCarryRunningTotals), whatever overlaps.
THEOREM LedgerFollowsCommands == PaymentSpec => []LedgerMatchesPayments
BY CommandsAreAtomic, LedgerTellsTheStory, PTL DEF ImplementsBook

THEOREM EventsFollowCommands == PaymentSpec => []EventsCarryRunningTotals
BY CommandsAreAtomic, TotalsCanBeRebuilt, PTL DEF ImplementsBook
=============================================================================
