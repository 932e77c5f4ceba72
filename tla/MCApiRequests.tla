--------------------------- MODULE MCApiRequests ---------------------------
(* The reading of requests, evaluated over small bodies: amounts up to 31,  *)
(* tokens of up to three and two digits with exponents up to 3, objects of  *)
(* up to two members whose keys are spelt in several ways; and the reads    *)
(* that answer in pages, over up to five rows.                              *)
EXTENDS Integers, Sequences, FiniteSets

P == INSTANCE ApiRequests WITH MaxAmount <- 31, MaxExponent <- 2

\* JSON writes no needless leading zero.
MCTokens ==
    LET digits == {0, 1, 3}
        upTo(n) == UNION {[1..k -> digits] : k \in 0..n}
        integers == {d \in upTo(3) : Len(d) = 1 \/ (Len(d) > 1 /\ d[1] # 0)}
    IN  [negative : BOOLEAN, integer : integers, fraction : upTo(2), exponent : -3..3]

\* What the token says: the amounts it equals, multiplied out.
MCMeant(t) ==
    LET shift == t.exponent - Len(t.fraction)
        digits == P!ValueOf(t.integer \o t.fraction)
        up == IF shift > 0 THEN 10^shift ELSE 1
        down == IF shift < 0 THEN 10^(-shift) ELSE 1
    IN  {n \in 1..31 : n * down = digits * up}

\* exactSafeIntegerFromToken is exact: it reads a token as the amount it
\* denotes, however that is written, and refuses the ones that denote none.
ASSUME TokensAreReadExactly ==
    \A t \in MCTokens :
        LET amount == P!exactSafeIntegerFromToken(t)
            meant == IF t.negative \/ t.exponent \notin -2..2 THEN {} ELSE MCMeant(t)
        IN  IF meant = {} THEN amount = 0 ELSE meant = {amount}

-----------------------------------------------------------------------------
\* Spellings of keys and values, as the characters between two quotes or as
\* those of a whole value.
MCSpellings == {<<>>, <<"a">>, <<"\\", "\"">>, <<"\\", "\\">>, <<"a", ",">>, <<"\\", "a">>}
Quoted(spelling) == <<"\"">> \o spelling \o <<"\"">>
MCValueTexts ==
    {<<"1">>, Quoted(<<"a">>), Quoted(<<"\\", "\"", ",">>), Quoted(<<"\\", "\\">>),
     <<"{">> \o Quoted(<<"a">>) \o <<":", "1", ",">> \o Quoted(<<"a">>) \o <<":", "1", "}">>,
     <<"[">> \o Quoted(<<"a">>) \o <<",">> \o Quoted(<<"a">>) \o <<"]">>}

\* The key a spelling stands for.
RECURSIVE Unescaped(_)
Unescaped(spelling) ==
    IF spelling = <<>> THEN <<>>
    ELSE IF Head(spelling) = "\\" THEN <<spelling[2]>> \o Unescaped(Tail(Tail(spelling)))
    ELSE <<Head(spelling)>> \o Unescaped(Tail(spelling))

Member(k, v) == Quoted(k) \o <<":">> \o v
ObjectOf(members) == <<"{">> \o members \o <<"}">>

\* The scan refuses an object exactly when it repeats a top-level key, in
\* whatever spelling, and whatever stands in its values.
ASSUME RepeatedKeysAreFound ==
    \A k, l \in MCSpellings : \A v, w \in MCValueTexts :
        LET text == ObjectOf(Member(k, v) \o <<",">> \o Member(l, w))
        IN  /\ P!RepeatsAKey(text) <=> Unescaped(k) = Unescaped(l)
            /\ ~P!RepeatsAKey(ObjectOf(Member(k, v)))

-----------------------------------------------------------------------------
\* Requests with up to two things at fault.
TextValue(text) == [kind |-> "text", text |-> text, length |-> 1, clean |-> TRUE]
NumberValue(exponent) ==
    [kind |-> "number",
     token |-> [negative |-> FALSE, integer |-> <<1>>, fraction |-> <<>>, exponent |-> exponent]]
OtherValue == [kind |-> "other"]

MCSoundValue ==
    [amountMinor |-> NumberValue(0), captureMethod |-> TextValue("manual"),
     currency |-> TextValue("ETB"), externalRef |-> TextValue("ref")]
MCValuesOf(field) ==
    {OtherValue} \cup
    CASE field = "amountMinor" -> {NumberValue(0), NumberValue(1), NumberValue(2)}
      [] field = "captureMethod" -> {TextValue("manual"), TextValue("automatic")}
      [] field = "currency" -> {TextValue("ETB"), TextValue("EUR"), TextValue("etb")}
      [] field = "externalRef" ->
            {TextValue("ref"), [TextValue("ref") EXCEPT !.length = 256],
             [TextValue("ref") EXCEPT !.clean = FALSE]}

MCBody(op, f, v, g, w) ==
    [json |-> "object", text |-> ObjectOf(Member(<<f>>, <<"1">>)),
     value |-> [k \in P!FieldsOf(op) |->
                   [MCSoundValue EXCEPT ![f] = v, ![g] = w][k]]]
MCBodies(op) ==
    UNION {{MCBody(op, f, v, g, w) : v \in MCValuesOf(f), w \in MCValuesOf(g)}
            : f \in P!FieldsOf(op), g \in P!FieldsOf(op)}

MCKey(length) == [length |-> length, clean |-> TRUE, key |-> "k1"]
MCRequest(types, keys, body) == [contentTypes |-> types, keys |-> keys, id |-> "pi_1", body |-> body]

MCSameAmounts ==
    {[negative |-> FALSE, integer |-> i, fraction |-> f, exponent |-> e]
        : i \in {<<1>>, <<1, 0>>, <<0>>}, f \in {<<>>, <<0>>, <<1>>}, e \in -1..2}

\* What is handed to the service is a command the payments modules start from,
\* and two bodies that mean the same give the same one, so that a repeated
\* request is a replay and not another use of its key; any other request is
\* told 400 or 422, the latter only for a sound request of an unsupported kind.
ASSUME RequestsBecomeCommands ==
    \A op \in {"create", "capture", "refund"} : \A body \in MCBodies(op) :
        LET r == MCRequest(<<"application/json">>, <<MCKey(255)>>, body)
            refusal == P!Refusal(op, r)
            command == P!Handled(op, r)
        IN  /\ refusal = P!Accepted =>
                 /\ command \in [op : {op}, key : {"k1"}, payment : {"pi_1"}, amount : 1..31,
                                 currency : {"ETB", "USD"}, ref : {"ref", "none"}]
                 /\ (command.ref = "none") = (op = "capture")
                 /\ op # "capture" => LET ref == body.value.externalRef
                                      IN  ref.length <= 255 /\ ref.clean
                 /\ \A t \in MCSameAmounts :
                       P!exactSafeIntegerFromToken(t) = command.amount =>
                          P!Handled(op, [r EXCEPT !.body.value.amountMinor.token = t]) = command
            /\ refusal.error \in {"none", "InvalidPaymentIntentRequestError",
                                  "UnsupportedCaptureMethodError",
                                  "UnsupportedPaymentCurrencyError"}
            /\ \A broken \in {[r EXCEPT !.contentTypes = <<>>],
                              [r EXCEPT !.keys = <<>>], [r EXCEPT !.keys = <<MCKey(256)>>],
                              [r EXCEPT !.keys = <<MCKey(1), MCKey(1)>>],
                              [r EXCEPT !.body.json = "other"],
                              [r EXCEPT !.body.text = ObjectOf(Member(<<"a">>, <<"1">>) \o <<",">>
                                                               \o Member(<<"a">>, <<"1">>))]} :
                  P!Refusal(op, broken).error = "InvalidPaymentIntentRequestError"

-----------------------------------------------------------------------------
\* A run and an import, with one or two things at fault.
MCRun(json, currency, date, keys) ==
    [MCRequest(<<"application/json">>, keys, [json |-> json])
        EXCEPT !.body = [json |-> json, value |-> [currency |-> currency, cutoffDate |-> date]]]
MCImport(files, from, to, keys) ==
    [MCRequest(<<"multipart/form-data">>, keys, [json |-> "other"])
        EXCEPT !.body = [files |-> files, value |-> [periodStart |-> from, periodEnd |-> to]]]
MCKeyLists == {<<>>, <<MCKey(1)>>, <<MCKey(256)>>, <<MCKey(1), MCKey(1)>>,
               <<[MCKey(1) EXCEPT !.clean = FALSE]>>}
MCTexts == {OtherValue, TextValue("ETB"), [TextValue("EUR") EXCEPT !.clean = FALSE]}

\* A settlement run or an import reaches its service exactly when nothing is at
\* fault with it, and then with one key and the values that were sent.
ASSUME RunsAndImportsAreChecked ==
    \A keys \in MCKeyLists : \A v, w \in MCTexts :
        /\ \A json \in {"object", "other"} :
              LET handled == P!run(MCRun(json, v, w, keys))
              IN  IF json = "object" /\ v = TextValue("ETB") /\ w # OtherValue
                        /\ keys = <<MCKey(1)>>
                  THEN handled = [key |-> "k1", currency |-> "ETB", cutoffDate |-> w.text]
                  ELSE handled = P!Unsupported("InvalidSettlementRequestError")
        /\ \A files \in {<<>>, <<"csv">>} :
              LET handled == P!stage(MCImport(files, v, w, keys))
              IN  IF files = <<"csv">> /\ v = TextValue("ETB") /\ w = v /\ keys = <<MCKey(1)>>
                  THEN handled = [key |-> "k1", bytes |-> "csv", from |-> "ETB", to |-> "ETB"]
                  ELSE handled = P!Unsupported("InvalidReconciliationRequestError")

-----------------------------------------------------------------------------
G == INSTANCE Pages WITH DefaultLimit <- 2, MaxLimit <- 3

\* What a client gathers that follows the cursors, its n-th page read from the
\* n-th of the tables.
Gather(n, Read(_, _)) ==
    LET Next(was, i) ==
            IF was.done THEN was
            ELSE LET page == Read(i, was.next)
                 IN  [error |-> page.error, rows |-> was.rows \o page.rows, next |-> page.next,
                      done |-> page.next = G!NoCursor]
        walk[i \in 0..n] ==
            IF i = 0 THEN [error |-> "none", rows |-> <<>>, next |-> G!NoCursor, done |-> FALSE]
            ELSE Next(walk[i - 1], i)
    IN  walk[n]
Query(limit, cursor) ==
    [fields |-> IF limit = 0 THEN {} ELSE {"limit"}, limit |-> limit, cursor |-> cursor]
MCLimits == 0..3

Item(id, at) == [kind |-> "item", id |-> id, at |-> at, payment |-> 4 - id]
Adjustment(id, at) == [kind |-> "adjustment", id |-> id, at |-> at, payment |-> id]
MCBatches ==
    {[merchant |-> "m1", id |-> id, items |-> {Item(i, at[i]) : i \in 1..n},
      adjustments |-> {Adjustment(i, at[i]) : i \in 1..k}]
        : id \in {"b1"}, n \in 1..3, k \in 0..2, at \in [1..3 -> 1..2]}

\* The pages of a batch show each of its items and adjustments once, the items
\* first, whatever the limit.
ASSUME BatchesAreReadInFull ==
    \A batch \in MCBatches, limit \in MCLimits :
        LET Read(i, cursor) == G!getBatch({batch}, "m1", "b1", Query(limit, cursor))
            seen == Gather(6, Read)
        IN  /\ seen.error = "none" /\ seen.done
            /\ Len(seen.rows) = Cardinality(batch.items) + Cardinality(batch.adjustments)
            /\ {seen.rows[i] : i \in 1..Len(seen.rows)} = batch.items \cup batch.adjustments
            /\ \A i \in 1..Len(seen.rows) :
                  seen.rows[i].kind = "item" <=> i <= Cardinality(batch.items)

MCReports ==
    {[merchant |-> "m1", id |-> "i1", status |-> "COMPLETED",
      results |-> [i \in 1..n |-> [bucket |-> bucket[i]]]]
        : n \in 0..5, bucket \in [1..5 -> {"matched_exact", "provider_only"}]}

\* The pages of a report show its mismatches in order, and nothing that matched.
ASSUME ReportsAreReadInFull ==
    \A report \in MCReports, limit \in MCLimits :
        LET Read(i, cursor) == G!getReport({report}, "m1", "i1", Query(limit, cursor))
            seen == Gather(6, Read)
        IN  /\ seen.error = "none" /\ seen.done
            /\ {seen.rows[i] : i \in 1..Len(seen.rows)} =
                 {n \in DOMAIN report.results : report.results[n].bucket = "provider_only"}
            /\ \A i \in 2..Len(seen.rows) : seen.rows[i - 1] < seen.rows[i]

Endpoints(ids) == {[merchant |-> "m1", id |-> id] : id \in ids} \cup {[merchant |-> "m2", id |-> 2]}

\* A merchant that registers endpoints while another client lists them disturbs
\* nothing: the ones that were there are listed once each, and none twice.
ASSUME ListingSurvivesRegistration ==
    \A old, new \in SUBSET (1..4) : \A limit \in MCLimits, late \in 0..4 :
        LET Tables(i) == IF i <= late THEN Endpoints(old) ELSE Endpoints(old \cup new)
            Read(i, cursor) == G!list(Tables(i), "m1", Query(limit, cursor))
            seen == Gather(5, Read)
            ids == {seen.rows[i].id : i \in 1..Len(seen.rows)}
        IN  /\ seen.error = "none" /\ seen.done
            /\ Cardinality(ids) = Len(seen.rows)
            /\ old \subseteq ids /\ ids \subseteq old \cup new

\* A cursor of one read is refused by the others, and a batch's by every other
\* batch; what another merchant owns is not found.
ASSUME CursorsAreNotExchanged ==
    LET batch == [merchant |-> "m1", id |-> "b1", items |-> {Item(1, 1), Item(2, 1)}, adjustments |-> {}]
        other == [batch EXCEPT !.id = "b2"]
        report == [merchant |-> "m1", id |-> "i1", status |-> "COMPLETED",
                   results |-> [i \in 1..2 |-> [bucket |-> "provider_only"]]]
        Batch(m, id, c) == G!getBatch({batch, other}, m, id, Query(1, c))
        Report(m, c) == G!getReport({report}, m, "i1", Query(1, c))
        List(c) == G!list(Endpoints({1, 2}), "m1", Query(1, c))
        ofBatch == Batch("m1", "b1", G!NoCursor).next
        ofReport == Report("m1", G!NoCursor).next
        ofList == List(G!NoCursor).next
        strange == [of |-> "other"]
    IN  /\ Batch("m1", "b1", ofBatch).error = "none" /\ Report("m1", ofReport).error = "none"
        /\ List(ofList).error = "none"
        /\ \A c \in {ofReport, ofList, strange} :
              Batch("m1", "b1", c).error = "InvalidSettlementRequestError"
        /\ Batch("m1", "b2", ofBatch).error = "InvalidSettlementRequestError"
        /\ \A c \in {ofBatch, ofList, strange} :
              Report("m1", c).error = "InvalidReconciliationRequestError"
        /\ \A c \in {ofBatch, ofReport, strange} :
              List(c).error = "InvalidWebhookEndpointRequestError"
        /\ Batch("m2", "b1", G!NoCursor).error = "SettlementBatchNotFoundError"
        /\ Report("m2", G!NoCursor).error = "ReconciliationImportNotFoundError"
=============================================================================
