----------------------- MODULE ReconciliationMatching -----------------------
(***************************************************************************)
(* Reconciliation of a provider's rows with the platform's own records:   *)
(* which record a row names, the bucket each row and record falls in, the *)
(* summary of a report per currency and the pages it is read in.          *)
(*                                                                         *)
(* A provider row and a platform record are records with the fields       *)
(* event, providerRef, externalRef, currency, gross, fee and net; a row   *)
(* also has txn and status, a record has ref, its public reference.       *)
(* A result's "row" and "record" are sets of at most one element.         *)
(***************************************************************************)
EXTENDS Integers, Sequences, FiniteSets, Functions

NoRef == "none"
Currencies == {"ETB", "USD"}
Mismatches == {"provider_only", "platform_only", "currency_mismatch",
               "amount_mismatch", "status_mismatch", "duplicate_provider_row"}
Buckets == Mismatches \cup {"matched_exact"}

(***************************************************************************)
(* The places of a sequence that some test picks, in their order, and the *)
(* elements a filter by that test leaves.                                 *)
(***************************************************************************)
InOrder(places) ==
    [n \in 1..Cardinality(places) |->
        CHOOSE k \in places : Cardinality({j \in places : j <= k}) = n]

Filtered(s, places) ==
    LET kept == InOrder(places) IN [n \in DOMAIN kept |-> s[kept[n]]]

(***************************************************************************)
(* The record a row names: a reference that several records share names   *)
(* none of them, and the external reference is only tried when the        *)
(* provider's names none.                                                 *)
(***************************************************************************)
Sole(S) == IF Cardinality(S) = 1 THEN S ELSE {}

ByProviderRef(row, records) ==
    Sole({p \in records : p.event = row.event /\ p.providerRef = row.providerRef})

ByExternalRef(row, records) ==
    Sole({p \in records : /\ row.externalRef # NoRef
                          /\ p.event = row.event
                          /\ p.externalRef = row.externalRef})

Target(row, records) ==
    IF ByProviderRef(row, records) # {}
    THEN ByProviderRef(row, records)
    ELSE ByExternalRef(row, records)

Amounts(r) == <<r.gross, r.fee, r.net>>

BucketOf(row, p) ==
    CASE p.currency # row.currency     -> "currency_mismatch"
      [] p.currency = row.currency /\ Amounts(p) # Amounts(row) -> "amount_mismatch"
      [] p.currency = row.currency /\ Amounts(p) = Amounts(row)
                                   /\ row.status # "succeeded" -> "status_mismatch"
      [] OTHER -> "matched_exact"

Result(bucket, row, record) ==
    [bucket |-> bucket, row |-> row, record |-> record,
     currency |-> (CHOOSE r \in (IF row # {} THEN row ELSE record) : TRUE).currency]

(***************************************************************************)
(* The loop over the provider's rows, which remembers the transactions it *)
(* has seen and the records it has consumed, then the records left over.  *)
(***************************************************************************)
ClassifyRowConsumingTwice(row, records, seen, consumed) ==
    LET target == Target(row, records) IN
    CASE row.txn \in seen -> Result("duplicate_provider_row", {row}, {})
      [] row.txn \notin seen /\ target = {} -> Result("provider_only", {row}, {})
      [] OTHER -> Result(BucketOf(row, CHOOSE p \in target : TRUE), {row}, target)

ClassifyRow(row, records, seen, consumed) ==
    LET target == Target(row, records) IN
    CASE row.txn \in seen -> Result("duplicate_provider_row", {row}, {})
      [] row.txn \notin seen /\ target \subseteq consumed ->
            Result("provider_only", {row}, {})
      [] OTHER -> Result(BucketOf(row, CHOOSE p \in target : TRUE), {row}, target)

SeenBefore(rows, n) == {rows[k].txn : k \in 1..(n - 1)}

\* What the first rows, 0 up to all of them, have consumed.
Consumed(rows, records) ==
    LET consumed[n \in 0..Len(rows)] ==
            IF n = 0 THEN {}
            ELSE consumed[n - 1] \cup IF rows[n].txn \in SeenBefore(rows, n) THEN {}
                                      ELSE Target(rows[n], records)
    IN  consumed

LeftOver(platform, consumed) ==
    Filtered(platform, {n \in DOMAIN platform : platform[n] \notin consumed})

classifyReconciliation(rows, platform) ==
    LET records == Range(platform)
        consumed == Consumed(rows, records)
        left == LeftOver(platform, consumed[Len(rows)])
    IN  [n \in 1..Len(rows) |->
            ClassifyRow(rows[n], records, SeenBefore(rows, n), consumed[n - 1])] \o
        [n \in 1..Len(left) |-> Result("platform_only", {}, {left[n]})]

(***************************************************************************)
(* The summary of a report for each currency.                             *)
(***************************************************************************)
GrossOf(opt) == IF opt = {} THEN 0 ELSE (CHOOSE r \in opt : TRUE).gross
FeeOf(opt)   == IF opt = {} THEN 0 ELSE (CHOOSE r \in opt : TRUE).fee
NetOf(opt)   == IF opt = {} THEN 0 ELSE (CHOOSE r \in opt : TRUE).net

Summary(results, currency) ==
    LET selected == {n \in DOMAIN results : results[n].currency = currency}
        providerNet == SumFunction([n \in selected |-> NetOf(results[n].row)])
        platformNet == SumFunction([n \in selected |-> NetOf(results[n].record)])
    IN  [count |-> [b \in Buckets |-> Cardinality({n \in selected : results[n].bucket = b})],
         providerGross |-> SumFunction([n \in selected |-> GrossOf(results[n].row)]),
         providerFee   |-> SumFunction([n \in selected |-> FeeOf(results[n].row)]),
         providerNet   |-> providerNet,
         platformGross |-> SumFunction([n \in selected |-> GrossOf(results[n].record)]),
         platformFee   |-> SumFunction([n \in selected |-> FeeOf(results[n].record)]),
         platformNet   |-> platformNet,
         unexplainedDifference |-> providerNet - platformNet]

Summaries(results) == [c \in Currencies |-> Summary(results, c)]

SummaryOverflows(s, maxSafe) ==
    \E amount \in {s.providerGross, s.providerFee, s.providerNet, s.platformGross,
                   s.platformFee, s.platformNet, s.unexplainedDifference} :
        amount < -maxSafe \/ amount > maxSafe

\* A currency of a report counts in the backlog an operator watches.
InBacklog(s) == s.unexplainedDifference # 0 \/ \E b \in Mismatches : s.count[b] > 0

(***************************************************************************)
(* A page of a report: the mismatches after an ordinal, and the ordinal   *)
(* the next page starts after (0: there is none).                         *)
(***************************************************************************)
Mismatched(results) == {n \in DOMAIN results : results[n].bucket # "matched_exact"}

ReportPage(results, limit, after) ==
    LET due == InOrder({n \in Mismatched(results) : n > after})
        visible == SubSeq(due, 1, IF Len(due) > limit THEN limit ELSE Len(due))
    IN  [visible |-> visible,
         next |-> IF Len(due) > limit THEN visible[Len(visible)] ELSE 0]

=============================================================================
