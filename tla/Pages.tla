------------------------------- MODULE Pages -------------------------------
(***************************************************************************)
(* The three reads that answer in pages: the entries of a settlement       *)
(* batch, the mismatches of a reconciliation report, and a merchant's      *)
(* webhook endpoints.                                                      *)
(*                                                                         *)
(* A query is [fields, limit, cursor]: the fields it gives, and the values *)
(* of two of them.  A cursor is what its text decodes to, [of |-> "batch", *)
(* batch, kind, id], [of |-> "report", ordinal], [of |-> "endpoints", id]  *)
(* or [of |-> "other"], and NoCursor if there is none.  A page is          *)
(* [error, rows, next].                                                    *)
(***************************************************************************)
EXTENDS Integers, Sequences, FiniteSets

CONSTANTS
    DefaultLimit,  \* 20
    MaxLimit       \* 100

NoCursor == [of |-> "none"]

Refused(error) == [error |-> error, rows |-> <<>>, next |-> NoCursor]
Page(rows, next) == [error |-> "none", rows |-> rows, next |-> next]

LimitOf(query) == IF "limit" \in query.fields THEN query.limit ELSE DefaultLimit

\* What every one of them allows, before it looks at the cursor.
Sound(query) == LimitOf(query) \in 1..MaxLimit

Sorted(rows, Before(_, _)) ==
    CHOOSE s \in [1..Cardinality(rows) -> rows] : \A i, j \in DOMAIN s : i < j => Before(s[i], s[j])

\* The first limit of the rows, and whether there are more.
First(rows, limit) == SubSeq(rows, 1, IF limit < Len(rows) THEN limit ELSE Len(rows))
Follows(rows, limit) == limit < Len(rows)
LastOf(rows) == rows[Len(rows)]

-----------------------------------------------------------------------------
(* Settlement batches: [merchant, id, items, adjustments], an entry        *)
(* [kind, id, at, payment]: at is available_at or occurred_at.             *)
pageToken(batch, entry) ==
    [of |-> "batch", batch |-> batch.id, kind |-> entry.kind, id |-> entry.id]

Earlier(x, y) ==
    x.at < y.at \/ (x.at = y.at /\ IF x.kind = "item" THEN x.payment < y.payment ELSE x.id < y.id)

Entries(batch) == Sorted(batch.items, Earlier) \o Sorted(batch.adjustments, Earlier)

\* findBatch: start is the place of the entry the cursor names.
findBatch(batch, query) ==
    LET entries == Entries(batch)
        at == {i \in DOMAIN entries : pageToken(batch, entries[i]) = query.cursor}
        start == IF at = {} THEN 0 ELSE CHOOSE i \in at : TRUE
        rest == SubSeq(entries, start + 1, Len(entries))
        page == First(rest, LimitOf(query))
    IN  IF query.cursor # NoCursor /\ at = {} THEN Refused("InvalidSettlementRequestError")
        ELSE Page(page, IF Follows(rest, LimitOf(query)) THEN pageToken(batch, LastOf(page)) ELSE NoCursor)

getBatch(batches, merchant, id, query) ==
    IF ~Sound(query) THEN Refused("InvalidSettlementRequestError")
    ELSE IF \A b \in batches : b.merchant # merchant \/ b.id # id
      THEN Refused("SettlementBatchNotFoundError")
    ELSE findBatch(CHOOSE b \in batches : b.merchant = merchant /\ b.id = id, query)

-----------------------------------------------------------------------------
(* Reconciliation reports: [merchant, id, status, results], the results in *)
(* the order of their ordinals; a page's rows are ordinals.                *)
M == INSTANCE ReconciliationMatching

decodeCursor(cursor) == IF cursor = NoCursor THEN 0 ELSE cursor.ordinal

Readable(cursor) == cursor = NoCursor \/ (cursor.of = "report" /\ cursor.ordinal >= 1)

getReport(reports, merchant, id, query) ==
    LET found == {r \in reports : r.merchant = merchant /\ r.id = id}
        report == CHOOSE r \in found : TRUE
        page == M!ReportPage(report.results, LimitOf(query), decodeCursor(query.cursor))
    IN  IF ~Sound(query) \/ ~Readable(query.cursor)
          THEN Refused("InvalidReconciliationRequestError")
        ELSE IF found = {} THEN Refused("ReconciliationImportNotFoundError")
        ELSE IF report.status = "STAGED" THEN Refused("ReconciliationReportNotReadyError")
        ELSE IF report.status = "FAILED" THEN Refused("ReconciliationImportFailedError")
        ELSE Page(page.visible, IF page.next = 0 THEN NoCursor ELSE [of |-> "report", ordinal |-> page.next])

-----------------------------------------------------------------------------
(* Webhook endpoints: [merchant, id], ids in the order they were made.     *)
decodeWebhookCursor(cursor) == cursor = NoCursor \/ cursor.of = "endpoints"

parseWebhookListQuery(query) ==
    /\ query.fields \subseteq {"cursor", "limit"}
    /\ Sound(query)
    /\ decodeWebhookCursor(query.cursor)

HigherId(x, y) == x.id > y.id

\* The merchant's, newest first; after the cursor, the ones below its id.
Listed(endpoints, merchant, cursor) ==
    Sorted({e \in endpoints : e.merchant = merchant /\ (cursor = NoCursor \/ e.id < cursor.id)}, HigherId)

list(endpoints, merchant, query) ==
    LET records == Listed(endpoints, merchant, query.cursor)
        page == First(records, LimitOf(query))
    IN  IF ~parseWebhookListQuery(query) THEN Refused("InvalidWebhookEndpointRequestError")
        ELSE Page(page, IF Follows(records, LimitOf(query))
                          THEN [of |-> "endpoints", id |-> LastOf(page).id] ELSE NoCursor)
=============================================================================
