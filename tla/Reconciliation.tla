--------------------------- MODULE Reconciliation ---------------------------
(***************************************************************************)
(* Reconciliation imports of one merchant: the API stages a provider's    *)
(* file, a worker claims the oldest staged import under a lease, compares *)
(* its rows with the platform's records in one snapshot, and publishes    *)
(* the report together with its event.                                    *)
(*                                                                         *)
(* A lease is counted down in ticks; an import whose file is Heavy never  *)
(* finishes within its transaction's timeout.                             *)
(***************************************************************************)
EXTENDS ReconciliationMatching

CONSTANTS
    Requests,      \* POST /v1/reconciliation-imports, each under a key of its own
    FileOf,        \* the file a request uploads
    After,         \* the requests whose answers its client has when it sends one
    PeriodOf,      \* the period a request names, [from |-> , to |-> ]
    Contents,      \* a file's [wellFormed, tooLarge, rows]
    Heavy,         \* files whose processing outlasts the transaction's timeout
    Merchant,      \* the merchant's code
    Facts,         \* captures, refunds, settled batches and adjustments, in order
    Initially,     \* the facts that exist before the first import
    Workers,
    LeaseTicks, MaxWindow, RowLimit, MaxSafe,
    MaxFaults      \* bound on crashes, dropped transactions and slow processing

Nobody == "nobody"
Files == {FileOf[r] : r \in Requests}

\* What the platform may come to record.
Recordable == Range(Facts)

ASSUME ReconciliationAssumption ==
    /\ IsFiniteSet(Workers) /\ Nobody \notin Workers
    /\ LeaseTicks \in Nat \ {0} /\ RowLimit \in Nat /\ MaxFaults \in Nat
    /\ \A file \in Files : Contents[file].rows \in Seq(Range(Contents[file].rows))
    /\ Facts \in Seq(Recordable)
    /\ \A n \in DOMAIN Facts : Facts[n].currency \in Currencies
    /\ \A m, n \in DOMAIN Facts :
          Facts[m].event = Facts[n].event /\ Facts[m].ref = Facts[n].ref => m = n
    /\ Initially \subseteq Recordable

VARIABLES
    request,    \* per request: pc, attempt, what its file was parsed to, its reply
    imports,    \* reconciliation_imports in order of creation
    audits,     \* audit records, the import each is about
    recorded,   \* the platform facts committed so far
    worker,     \* per worker: pc, the import it claimed, the evidence it read
    reports,    \* results and summaries written, one entry per write
    outbox,     \* reconciliation.completed events
    faults

vars == <<request, imports, audits, recorded, worker, reports, outbox, faults>>


(***************************************************************************)
(* Parsing and checking a file                                            *)
(***************************************************************************)
InMoney(n) == n \in 0..MaxSafe

RowIsValid(row) ==
    /\ row.currency \in Currencies
    /\ InMoney(row.gross) /\ InMoney(row.fee) /\ InMoney(row.net)
    /\ IF row.event = "settlement" THEN row.gross = row.fee + row.net
                                   ELSE row.fee = 0 /\ row.net = row.gross

\* Rows are read one by one: the first invalid one and the one beyond the
\* limit compete by their position.
parseReconciliationCsv(content) ==
    LET invalid == {n \in DOMAIN content.rows : n <= RowLimit /\ ~RowIsValid(content.rows[n])}
    IN  CASE content.tooLarge -> "file_too_large"
          [] ~content.tooLarge /\ (~content.wellFormed \/ content.rows = <<>> \/ invalid # {}) ->
               "csv_invalid"
          [] OTHER -> IF Len(content.rows) > RowLimit THEN "row_limit_exceeded" ELSE "valid"

BelongsTo(rows, period) ==
    \A n \in DOMAIN rows : /\ rows[n].merchant = Merchant
                           /\ period.from <= rows[n].at /\ rows[n].at < period.to

PeriodIsValid(period) ==
    period.from < period.to /\ period.to - period.from <= MaxWindow

CheckFile(content, period) ==
    IF parseReconciliationCsv(content) = "valid" /\ ~BelongsTo(content.rows, period)
    THEN "csv_invalid" ELSE parseReconciliationCsv(content)

Checked == [r \in Requests |-> CheckFile(Contents[FileOf[r]], PeriodOf[r])]

(***************************************************************************)
(* Staging                                                                *)
(***************************************************************************)
Idle == [pc |-> "idle", import |-> 0, evidence |-> {}]

Init ==
    /\ request = [r \in Requests |-> [pc |-> "new", attempt |-> 1, parsed |-> "valid",
                                      reply |-> [import |-> 0, status |-> "none"]]]
    /\ imports = <<>>
    /\ audits = <<>>
    /\ recorded = Initially
    /\ worker = [w \in Workers |-> Idle]
    /\ reports = <<>>
    /\ outbox = <<>>
    /\ faults = 0

ImportOf(file) == {i \in DOMAIN imports : imports[i].file = file}

\* The request is checked and its key acquired, then the file is parsed.
Receive(r) ==
    /\ request[r].pc = "new"
    /\ \A q \in After[r] : request[q].pc \in {"answered", "conflict", "refused"}
    /\ request' = [request EXCEPT
           ![r].pc = IF PeriodIsValid(PeriodOf[r]) /\ Checked[r] # "file_too_large"
                     THEN "parsed" ELSE "refused",
           ![r].parsed = Checked[r]]
    /\ UNCHANGED <<imports, audits, recorded, worker, reports, outbox, faults>>

RowCountOf(r) ==
    IF request[r].parsed = "valid" THEN Len(Contents[FileOf[r]].rows) ELSE 0

Reply(i) == [import |-> i, status |-> imports'[i].status]

SameUploadIfValid(r, i) ==
    request[r].parsed = "valid" => /\ imports[i].period = PeriodOf[r]
                                   /\ imports[i].rowCount = RowCountOf(r)

\* The import of the same bytes is the request's own if their periods agree
\* (and, for a valid file, the number of rows).
SameUpload(r, i) ==
    /\ imports[i].period = PeriodOf[r]
    /\ request[r].parsed = "valid" => imports[i].rowCount = RowCountOf(r)

\* stage and stageFailed look for an import of the same bytes first.
FindExisting(r) ==
    /\ request[r].pc = "parsed"
    /\ IF ImportOf(FileOf[r]) = {}
       THEN request' = [request EXCEPT ![r].pc = "absent"]
       ELSE LET i == CHOOSE i \in ImportOf(FileOf[r]) : TRUE
            IN  request' = IF SameUpload(r, i)
                           THEN [request EXCEPT ![r].pc = "answered",
                                                ![r].reply = [import |-> i, status |-> imports[i].status]]
                           ELSE [request EXCEPT ![r].pc = "conflict"]
    /\ UNCHANGED <<imports, audits, recorded, worker, reports, outbox, faults>>

\* ... and create one otherwise, with its rows and its audit record.
Create(r) ==
    /\ request[r].pc = "absent"
    /\ ImportOf(FileOf[r]) = {}
    /\ imports' = Append(imports,
           [file |-> FileOf[r], period |-> PeriodOf[r], rowCount |-> RowCountOf(r),
            status |-> IF request[r].parsed = "valid" THEN "staged" ELSE "failed",
            failure |-> IF request[r].parsed = "valid" THEN "none" ELSE request[r].parsed,
            owner |-> Nobody, lease |-> 0])
    /\ audits' = Append(audits, Len(imports'))
    /\ request' = [request EXCEPT ![r].pc = "answered", ![r].reply = Reply(Len(imports'))]
    /\ UNCHANGED <<recorded, worker, reports, outbox, faults>>

\* Another request created it in between: the unique index refuses the row,
\* and whether the error is retried depends on the text it arrives with.
CreateCollides(r) ==
    /\ request[r].pc = "absent"
    /\ ImportOf(FileOf[r]) # {}
    /\ \/ /\ request[r].attempt < 3
          /\ request' = [request EXCEPT ![r].pc = "parsed", ![r].attempt = @ + 1]
       \/ request' = [request EXCEPT ![r].pc = "new", ![r].attempt = 1]
    /\ UNCHANGED <<imports, audits, recorded, worker, reports, outbox, faults>>

\* The API process dies, or its transaction is dropped; the client sends the
\* request again when the lease of its key has ended.
RequestLost(r) ==
    /\ request[r].pc \in {"parsed", "absent"}
    /\ faults < MaxFaults
    /\ faults' = faults + 1
    /\ request' = [request EXCEPT ![r].pc = "new", ![r].attempt = 1]
    /\ UNCHANGED <<imports, audits, recorded, worker, reports, outbox>>

(***************************************************************************)
(* The platform's side: payments and settlements go on meanwhile.         *)
(***************************************************************************)
Record(fact) ==
    /\ fact \in Recordable \ recorded
    /\ recorded' = recorded \cup {fact}
    /\ UNCHANGED <<request, imports, audits, worker, reports, outbox, faults>>

InPeriod(f, period) == period.from <= f.at /\ f.at < period.to

readPaymentEvidence(f, period) ==
    f.event \in {"capture", "refund"} /\ InPeriod(f, period)

readSettlementEvidence(f, period) ==
    f.event \in {"settlement", "adjustment"} /\ InPeriod(f, period)

Evidence(period) ==
    {f \in recorded : readPaymentEvidence(f, period) \/ readSettlementEvidence(f, period)}

\* The ledger transaction of a business operation is the provider's
\* reference; an adjustment was posted with the batch that settled it.
LedgerReference(f) ==
    IF f.event = "adjustment" THEN <<"settlement", f.batch>> ELSE <<f.event, f.ref>>

PlatformRecord(f) ==
    [event |-> f.event, ref |-> f.ref, providerRef |-> LedgerReference(f),
     externalRef |-> f.externalRef, currency |-> f.currency, gross |-> f.gross,
     fee |-> IF f.event = "settlement" THEN f.fee ELSE 0,
     net |-> IF f.event = "settlement" THEN f.gross - f.fee ELSE f.gross]

\* Facts are in the order in which the adapter sorts them.
readPlatformRecords(evidence) ==
    LET sorted == Filtered(Facts, {n \in DOMAIN Facts : Facts[n] \in evidence})
    IN  [n \in DOMAIN sorted |-> PlatformRecord(sorted[n])]

(***************************************************************************)
(* Processing                                                             *)
(***************************************************************************)
ClaimableNeverOwned ==
    {i \in DOMAIN imports : imports[i].status = "staged" /\ imports[i].owner = Nobody}

Claimable == {i \in DOMAIN imports : imports[i].status = "staged" /\ imports[i].lease = 0}

Claim(w) ==
    /\ worker[w].pc = "idle"
    /\ \E i \in Claimable :
       /\ \A j \in Claimable : i <= j
       /\ imports' = [imports EXCEPT ![i].owner = w, ![i].lease = LeaseTicks]
       /\ worker' = [worker EXCEPT ![w] = [Idle EXCEPT !.pc = "claimed", !.import = i]]
    /\ UNCHANGED <<request, audits, recorded, reports, outbox, faults>>

OwnedBy(w, i) == imports[i].status = "staged" /\ imports[i].owner = w

\* The snapshot the processing transaction works in.
Read(w) ==
    LET i == worker[w].import IN
    /\ worker[w].pc = "claimed"
    /\ worker' = IF OwnedBy(w, i)
                 THEN [worker EXCEPT ![w].pc = "read",
                                     ![w].evidence = Evidence(imports[i].period)]
                 ELSE [worker EXCEPT ![w] = Idle]
    /\ UNCHANGED <<request, imports, audits, recorded, reports, outbox, faults>>

ResultsOf(i, evidence) ==
    classifyReconciliation(Contents[imports[i].file].rows, readPlatformRecords(evidence))

Overflows(results) ==
    \E c \in Currencies : SummaryOverflows(Summary(results, c), MaxSafe)

MatchedExactCount(results) ==
    Cardinality({n \in DOMAIN results : results[n].bucket = "matched_exact"})

CompletedEvent(i, results) ==
    [import |-> i, matchedExactCount |-> MatchedExactCount(results),
     mismatchCount |-> Len(results) - MatchedExactCount(results),
     difference |-> [c \in Currencies |-> Summary(results, c).unexplainedDifference]]

LeaseNotChecked(w, i) == imports[i].lease >= 0

LeaseHeldBy(w, i) == OwnedBy(w, i) /\ imports[i].lease > 0

Closed(i, status, failure) ==
    [imports EXCEPT ![i].status = status, ![i].failure = failure,
                    ![i].owner = Nobody, ![i].lease = 0]

\* The update that closes the import decides; results, summaries and the
\* event commit with it.
Finish(w) ==
    LET i == worker[w].import IN
    /\ worker[w].pc = "read"
    /\ imports[i].file \notin Heavy
    /\ \E results \in {ResultsOf(i, worker[w].evidence)} :
       IF ~LeaseHeldBy(w, i)
       THEN UNCHANGED <<imports, reports, outbox>>
       ELSE IF Overflows(results)
       THEN /\ imports' = Closed(i, "failed", "aggregate_overflow")
            /\ UNCHANGED <<reports, outbox>>
       ELSE /\ imports' = Closed(i, "completed", "none")
            /\ reports' = Append(reports, [import |-> i, evidence |-> worker[w].evidence,
                                           results |-> results, summaries |-> Summaries(results)])
            /\ outbox' = Append(outbox, CompletedEvent(i, results))
    /\ worker' = [worker EXCEPT ![w] = Idle]
    /\ UNCHANGED <<request, audits, recorded, faults>>

\* A heavy import runs into the timeout of its transaction, which starts
\* after the claim and lasts as long as the lease.
TimedOut(w) ==
    /\ worker[w].pc = "read"
    /\ imports[worker[w].import].file \in Heavy
    /\ imports[worker[w].import].lease = 0 \/ imports[worker[w].import].owner # w

TimeOut(w) ==
    /\ TimedOut(w)
    /\ worker' = [worker EXCEPT ![w] = Idle]
    /\ UNCHANGED <<request, imports, audits, recorded, reports, outbox, faults>>

\* The database drops the transaction or the process restarts.
Abort(w) ==
    /\ worker[w].pc # "idle"
    /\ faults < MaxFaults
    /\ faults' = faults + 1
    /\ worker' = [worker EXCEPT ![w] = Idle]
    /\ UNCHANGED <<request, imports, audits, recorded, reports, outbox>>

(***************************************************************************)
(* Time. A tick is far longer than a worker's poll interval: time passes  *)
(* only when no idle worker has an import to claim and no transaction is  *)
(* past its timeout; an import that is not heavy outlasts its lease only  *)
(* as a fault.                                                            *)
(***************************************************************************)
Leased == {i \in DOMAIN imports : imports[i].lease > 0}

Late == {w \in Workers : /\ worker[w].pc # "idle"
                         /\ imports[worker[w].import].file \notin Heavy
                         /\ imports[worker[w].import].owner = w
                         /\ imports[worker[w].import].lease = 1}

Starting == {w \in Workers : worker[w].pc = "claimed"
                             /\ imports[worker[w].import].file \in Heavy}

Tick ==
    /\ Leased # {}
    /\ Claimable # {} => \A w \in Workers : worker[w].pc # "idle"
    /\ \A w \in Workers : ~TimedOut(w)
    /\ Starting = {}
    /\ faults + Cardinality(Late) <= MaxFaults
    /\ faults' = faults + Cardinality(Late)
    /\ imports' = [i \in DOMAIN imports |->
                      [imports[i] EXCEPT !.lease = IF @ > 0 THEN @ - 1 ELSE 0]]
    /\ UNCHANGED <<request, audits, recorded, worker, reports, outbox>>

Staging == \E r \in Requests :
    Receive(r) \/ FindExisting(r) \/ Create(r) \/ CreateCollides(r) \/ RequestLost(r)

Processing == \E w \in Workers :
    Claim(w) \/ Read(w) \/ Finish(w) \/ TimeOut(w) \/ Abort(w)

Next == Staging \/ Processing \/ Tick \/ \E f \in Recordable : Record(f)

Spec == Init /\ [][Next]_vars

Ends(w) == worker[w].pc = "read" /\ worker' = [worker EXCEPT ![w] = Idle]

\* Requests are handled, workers keep polling, processing that began ends
\* (finished, timed out or aborted), time passes.
Fairness ==
    /\ WF_vars(Tick)
    /\ \A r \in Requests :
          WF_vars(Receive(r) \/ FindExisting(r) \/ Create(r) \/ CreateCollides(r))
    /\ \A w \in Workers :
          /\ WF_vars(Claim(w))
          /\ WF_vars(Read(w))
          /\ WF_worker(Ends(w))

FairSpec == Spec /\ Fairness

(***************************************************************************)
(* Properties                                                             *)
(***************************************************************************)
TypeOK ==
    /\ request \in [Requests -> [pc: {"new", "parsed", "absent", "answered", "conflict", "refused"},
                                 attempt: 1..3,
                                 parsed: {"valid", "csv_invalid", "row_limit_exceeded", "file_too_large"},
                                 reply: [import: 0..Len(imports),
                                         status: {"none", "staged", "completed", "failed"}]]]
    /\ \A i \in DOMAIN imports : imports[i] \in
          [file: Files, period: {PeriodOf[r] : r \in Requests}, rowCount: 0..RowLimit,
           status: {"staged", "completed", "failed"},
           failure: {"none", "csv_invalid", "row_limit_exceeded", "aggregate_overflow"},
           owner: Workers \cup {Nobody}, lease: 0..LeaseTicks]
    /\ \A w \in Workers : /\ worker[w].pc \in {"idle", "claimed", "read"}
                          /\ worker[w].import \in 0..Len(imports)
    /\ recorded \subseteq Recordable
    /\ faults \in 0..MaxFaults

\* The reference a report is held against: a row takes its target unless an
\* earlier row had the same transaction, or an earlier first row of its own
\* transaction took the target.
FirstOfItsTransaction(rows, n) == \A k \in 1..(n - 1) : rows[k].txn # rows[n].txn

Takes(rows, records, n) ==
    /\ FirstOfItsTransaction(rows, n)
    /\ Target(rows[n], records) # {}
    /\ \A k \in 1..(n - 1) : FirstOfItsTransaction(rows, k) =>
          Target(rows[k], records) # Target(rows[n], records)

RowAccountedFor(rows, records, n, result) ==
    /\ result.row = {rows[n]}
    /\ result.record = IF Takes(rows, records, n) THEN Target(rows[n], records) ELSE {}
    /\ result.record = {} =>
          result.bucket = IF FirstOfItsTransaction(rows, n)
                          THEN "provider_only" ELSE "duplicate_provider_row"
    /\ \A p \in result.record :
          /\ result.bucket = "matched_exact" <=>
                /\ p.currency = rows[n].currency /\ Amounts(p) = Amounts(rows[n])
                /\ rows[n].status = "succeeded"
          /\ result.bucket = "currency_mismatch" <=> p.currency # rows[n].currency
          /\ result.bucket = "amount_mismatch" =>
                p.currency = rows[n].currency /\ Amounts(p) # Amounts(rows[n])

PagesOf(results, limit) ==
    LET from[after \in 0..Len(results)] ==
            LET page == ReportPage(results, limit, after)
            IN  page.visible \o IF page.next = 0 THEN <<>> ELSE from[page.next]
    IN  from[0]

\* A report has one result for every row of the file and one for every
\* platform record no row took, each in its bucket; its summaries and its
\* event count each result once; its pages, read in turn, show every mismatch
\* once and in order; and a report with a mismatch is in the backlog
\* (classifyReconciliation, claimAndProcess, getReport, readBacklogMetrics;
\* docs/runbooks/reconciliation-unexplained-difference.md:14).
ReportAccountsForAll ==
    \A report \in Range(reports) :
        LET rows == Contents[imports[report.import].file].rows
            records == Range(readPlatformRecords(report.evidence))
            taken == UNION {report.results[n].record : n \in 1..Len(rows)}
            left == {n \in DOMAIN report.results : n > Len(rows)}
            mismatched == Mismatched(report.results)
            counted == [b \in Buckets |-> report.summaries["ETB"].count[b]
                                          + report.summaries["USD"].count[b]]
        IN  /\ \A n \in 1..Len(rows) : RowAccountedFor(rows, records, n, report.results[n])
            /\ {report.results[n].record : n \in left} = {{p} : p \in records \ taken}
            /\ Cardinality(left) = Cardinality(records \ taken)
            /\ \A b \in Buckets :
                  counted[b] = Cardinality({n \in DOMAIN report.results : report.results[n].bucket = b})
            /\ \A event \in Range(outbox) : event.import = report.import =>
                  event.mismatchCount = Cardinality(mismatched)
            /\ mismatched # {} => \E c \in Currencies : InBacklog(report.summaries[c])
            /\ \A limit \in 1..3 : PagesOf(report.results, limit) = InOrder(mismatched)

\* However processors overlap, restart or outlast their lease, an import is
\* closed once: it is completed exactly when one report and one event about it
\* exist, and a staged or failed import has none (claimAndProcess).
OneReportPerImport ==
    \A i \in DOMAIN imports :
        LET written == IF imports[i].status = "completed" THEN 1 ELSE 0 IN
        /\ Cardinality({n \in DOMAIN reports : reports[n].import = i}) = written
        /\ Cardinality({n \in DOMAIN outbox : outbox[n].import = i}) = written

\* Requests that carry the same file, sent at the same time, again after a
\* crash, or under different keys, end with one import of that file and one
\* audit record of its creation; a reply names the import of the request's own
\* file and period, and one that says the import is closed says how it ended
\* (ReconciliationService.stage, the repository's stage and stageFailed).
OneImportPerFile ==
    /\ \A i, j \in DOMAIN imports : imports[i].file = imports[j].file => i = j
    /\ \A i \in DOMAIN imports : Cardinality({n \in DOMAIN audits : audits[n] = i}) = 1
    /\ \A r \in Requests : request[r].pc = "answered" =>
          LET answer == imports[request[r].reply.import] IN
          /\ answer.file = FileOf[r] /\ answer.period = PeriodOf[r]
          /\ request[r].reply.status \in {"staged", answer.status}

\* An import that can be processed within its lease is completed or failed,
\* even while an older heavy one is claimed and timed out over and over, as
\* long as there are more workers than heavy imports (the claim's order and
\* lease in claimAndProcess).
ImportsAreProcessed ==
    <>[](\A i \in DOMAIN imports : imports[i].file \in Heavy \/ imports[i].status # "staged")

=============================================================================
