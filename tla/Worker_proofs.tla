---------------------------- MODULE Worker_proofs ----------------------------
(***************************************************************************)
(* Proofs about what a worker process does on its own account.             *)
(* Reconciliation, for any number of requests, files, imports and workers: *)
(* a file has one import and one audit record, an answer agrees with its   *)
(* import, an import that is completed has one report and one event, and   *)
(* the report accounts for every row of the file and every record.         *)
(* WorkerRuntime, for any number of messages in hand and any number of     *)
(* failures: the shutdown cuts no work before its drain has run out.       *)
(***************************************************************************)
EXTENDS Reconciliation, WorkerRuntime, FiniteSetTheorems, SequenceTheorems, NaturalsInduction, TLAPS

\* The entries of a sequence of reports, or events, that are about import i.
Naming(s, i) == {n \in DOMAIN s : s[n].import = i}

IsSequence(s) == s \in Seq({s[n] : n \in DOMAIN s})

\* A completed import is named once, any other never.
WrittenOnce(s, rows) ==
    /\ IsSequence(s)
    /\ \A n \in DOMAIN s : s[n].import \in DOMAIN rows
    /\ \A i \in DOMAIN rows :
          IF rows[i].status = "completed" THEN \E n \in DOMAIN s : Naming(s, i) = {n}
                                          ELSE Naming(s, i) = {}

ImportRows ==
    [file: Files, period: {PeriodOf[r] : r \in Requests}, rowCount: 0..RowLimit,
     status: {"staged", "completed", "failed"},
     failure: {"none", "csv_invalid", "row_limit_exceeded", "aggregate_overflow"},
     owner: Workers \cup {Nobody}, lease: 0..LeaseTicks]

WorkersOK ==
    /\ worker \in [Workers -> [pc: {"idle", "claimed", "read"}, import: 0..Len(imports),
                               evidence: {worker[w].evidence : w \in Workers}]]
    /\ \A w \in Workers : worker[w].pc # "idle" => worker[w].import \in DOMAIN imports

FilesDiffer == \A i, j \in DOMAIN imports : imports[i].file = imports[j].file => i = j

AuditsOK == audits = [i \in 1..Len(imports) |-> i]

ParsedOnce ==
    \A r \in Requests :
        /\ request[r].pc # "new" => request[r].parsed = Checked[r]
        /\ request[r].pc \in {"parsed", "absent"} => request[r].parsed # "file_too_large"

RepliesAgree ==
    \A r \in Requests : request[r].pc = "answered" =>
        /\ request[r].reply.import \in DOMAIN imports
        /\ imports[request[r].reply.import].file = FileOf[r]
        /\ imports[request[r].reply.import].period = PeriodOf[r]
        /\ request[r].reply.status \in {"staged", imports[request[r].reply.import].status}

Replies == [import: 0..Len(imports), status: {"none", "staged", "completed", "failed"}]

RequestStates ==
    [pc: {"new", "parsed", "absent", "answered", "conflict", "refused"}, attempt: 1..3,
     parsed: {"valid", "csv_invalid", "row_limit_exceeded", "file_too_large"}, reply: Replies]

RequestsOK ==
    /\ request \in [Requests -> RequestStates]
    /\ ParsedOnce
    /\ RepliesAgree

ReconInv ==
    /\ imports \in Seq(ImportRows) /\ FilesDiffer /\ AuditsOK
    /\ RequestsOK /\ WorkersOK
    /\ WrittenOnce(reports, imports) /\ WrittenOnce(outbox, imports)
    /\ recorded \subseteq Recordable
    /\ faults \in 0..MaxFaults

-----------------------------------------------------------------------------
LEMMA CheckedTyped ==
    /\ \A r \in Requests : Checked[r] \in {"valid", "csv_invalid", "row_limit_exceeded", "file_too_large"}
    /\ \A r \in Requests : Checked[r] = "valid" => Len(Contents[FileOf[r]].rows) \in 0..RowLimit
<1> SUFFICES ASSUME NEW r \in Requests
             PROVE  /\ Checked[r] \in {"valid", "csv_invalid", "row_limit_exceeded", "file_too_large"}
                    /\ Checked[r] = "valid" => Len(Contents[FileOf[r]].rows) \in 0..RowLimit
  OBVIOUS
<1> DEFINE c == Contents[FileOf[r]]
           verdict == parseReconciliationCsv(c)
<1>1. FileOf[r] \in Files /\ Len(c.rows) \in Nat /\ RowLimit \in Nat
  BY ReconciliationAssumption DEF Files
<1>2. /\ verdict \in {"valid", "csv_invalid", "row_limit_exceeded", "file_too_large"}
      /\ verdict = "valid" => Len(c.rows) \in 0..RowLimit
  BY <1>1 DEF parseReconciliationCsv
<1> HIDE DEF c, verdict
<1> QED
  BY <1>2 DEF Checked, CheckFile, c, verdict

\* Two sequences after an element is appended to them.
LEMMA Appended ==
    ASSUME NEW s, IsSequence(s), NEW x
    PROVE  /\ IsSequence(Append(s, x))
           /\ Len(s) \in Nat /\ DOMAIN s = 1..Len(s)
           /\ DOMAIN Append(s, x) = DOMAIN s \cup {Len(s) + 1} /\ Len(s) + 1 \notin DOMAIN s
           /\ \A n \in DOMAIN s : Append(s, x)[n] = s[n]
           /\ Append(s, x)[Len(s) + 1] = x
<1> DEFINE S == {s[n] : n \in DOMAIN s}
           t == Append(s, x)
           T == {t[n] : n \in DOMAIN t}
<1>1. s \in Seq(S) /\ s \in Seq(S \cup {x})
  BY DEF IsSequence
<1>2. /\ Len(s) \in Nat /\ DOMAIN s = 1..Len(s)
      /\ t \in Seq(S \cup {x}) /\ Len(t) = Len(s) + 1
      /\ \A n \in 1..Len(s) : t[n] = s[n]
      /\ t[Len(s) + 1] = x
  BY <1>1
<1>3. DOMAIN t = 1..(Len(s) + 1)
  BY <1>2
<1>4. t \in Seq(T)
  <2>1. \A n \in 1..Len(t) : t[n] \in T
    BY <1>2, <1>3
  <2> QED
    BY <1>2, <2>1
<1> QED
  BY <1>2, <1>3, <1>4 DEF IsSequence

\* A report on import i is written as i is completed.
LEMMA WrittenAsCompleted ==
    ASSUME NEW s, NEW rows \in Seq(ImportRows), NEW changed \in Seq(ImportRows),
           WrittenOnce(s, rows), Len(changed) = Len(rows),
           NEW x, x.import \in DOMAIN rows,
           rows[x.import].status = "staged", changed[x.import].status = "completed",
           \A j \in DOMAIN rows : j # x.import => changed[j].status = rows[j].status
    PROVE  WrittenOnce(Append(s, x), changed)
<1> DEFINE t == Append(s, x)
           last == Len(s) + 1
<1>1. /\ IsSequence(t)
      /\ DOMAIN t = DOMAIN s \cup {last} /\ last \notin DOMAIN s
      /\ \A n \in DOMAIN s : t[n] = s[n]
      /\ t[last] = x
  BY Appended DEF WrittenOnce
<1>2. DOMAIN changed = DOMAIN rows
  OBVIOUS
<1> HIDE DEF t, last
<1>3. \A n \in DOMAIN t : t[n].import \in DOMAIN rows
  BY <1>1 DEF WrittenOnce
<1>4. ASSUME NEW i \in DOMAIN rows, i # x.import
      PROVE  Naming(t, i) = Naming(s, i)
  BY <1>1, <1>4 DEF Naming
<1>5. Naming(t, x.import) = {last}
  <2>1. Naming(s, x.import) = {}
    BY DEF WrittenOnce
  <2> QED
    BY <1>1, <2>1 DEF Naming
<1>6. ASSUME NEW i \in DOMAIN rows
      PROVE  IF changed[i].status = "completed" THEN \E n \in DOMAIN t : Naming(t, i) = {n}
                                                ELSE Naming(t, i) = {}
  <2>1. CASE i = x.import
    BY <1>1, <1>5, <2>1
  <2>2. CASE i # x.import
    BY <1>1, <1>4, <2>2 DEF WrittenOnce
  <2> QED
    BY <2>1, <2>2
<1> QED
  BY <1>1, <1>2, <1>3, <1>6 DEF WrittenOnce, t

\* Otherwise reports stay as they are while imports are added, or change in
\* anything but completion.
LEMMA WrittenStays ==
    ASSUME NEW s, NEW rows, NEW changed, WrittenOnce(s, rows),
           DOMAIN rows \subseteq DOMAIN changed,
           \A i \in DOMAIN rows : changed[i].status = "completed" <=> rows[i].status = "completed",
           \A i \in DOMAIN changed \ DOMAIN rows : changed[i].status # "completed"
    PROVE  WrittenOnce(s, changed)
<1>1. ASSUME NEW i \in DOMAIN changed \ DOMAIN rows PROVE Naming(s, i) = {}
  BY <1>1 DEF WrittenOnce, Naming
<1> QED
  BY <1>1 DEF WrittenOnce

LEMMA ReconInit == Init => ReconInv
<1> SUFFICES ASSUME Init PROVE ReconInv
  OBVIOUS
<1> USE DEF Init
<1>1. imports \in Seq(ImportRows) /\ FilesDiffer /\ AuditsOK
  BY DEF FilesDiffer, AuditsOK
<1>2. RequestsOK
  BY DEF RequestsOK, RequestStates, Replies, ParsedOnce, RepliesAgree
<1>3. WorkersOK
  BY DEF WorkersOK, Idle
<1>4. WrittenOnce(reports, imports) /\ WrittenOnce(outbox, imports)
  BY DEF WrittenOnce, IsSequence
<1> QED
  BY <1>1, <1>2, <1>3, <1>4, ReconciliationAssumption DEF ReconInv

\* Imports come, none goes; none changes its file or period, and one that is
\* closed keeps its status.
ImportsGrow ==
    /\ imports' \in Seq(ImportRows)
    /\ DOMAIN imports \subseteq DOMAIN imports'
    /\ \A i \in DOMAIN imports :
          /\ imports'[i].file = imports[i].file /\ imports'[i].period = imports[i].period
          /\ imports[i].status # "staged" => imports'[i].status = imports[i].status

LEMMA LengthGrows ==
    ASSUME ReconInv, ImportsGrow
    PROVE  /\ Len(imports) \in Nat /\ Len(imports') \in Nat /\ Len(imports) <= Len(imports')
           /\ DOMAIN imports = 1..Len(imports) /\ DOMAIN imports' = 1..Len(imports')
<1>1. imports \in Seq(ImportRows) /\ imports' \in Seq(ImportRows)
  BY DEF ReconInv, ImportsGrow
<1>2. /\ Len(imports) \in Nat /\ DOMAIN imports = 1..Len(imports)
      /\ Len(imports') \in Nat /\ DOMAIN imports' = 1..Len(imports')
  BY <1>1
<1>3. 1..Len(imports) \subseteq 1..Len(imports')
  BY <1>2 DEF ImportsGrow
<1>4. Len(imports) <= Len(imports')
  BY <1>2, <1>3
<1> QED
  BY <1>2, <1>4

LEMMA StatesGrow == ReconInv /\ ImportsGrow => RequestStates \subseteq RequestStates'
<1>1. ReconInv /\ ImportsGrow => 0..Len(imports) \subseteq 0..Len(imports')
  BY LengthGrows
<1>2. ReconInv /\ ImportsGrow => Replies \subseteq Replies'
  BY <1>1 DEF Replies
<1> QED
  BY <1>2 DEF RequestStates

\* The answers given stay right while the imports grow.
LEMMA RequestsKept ==
    ASSUME ReconInv, ImportsGrow, UNCHANGED request
    PROVE  RequestsOK'
<1> USE DEF RequestsOK
<1>1. ParsedOnce'
  BY DEF ReconInv, ParsedOnce
<1>2. RepliesAgree'
  <2> SUFFICES ASSUME NEW r \in Requests, request[r].pc = "answered"
               PROVE  /\ request[r].reply.import \in DOMAIN imports'
                      /\ imports'[request[r].reply.import].file = FileOf[r]
                      /\ imports'[request[r].reply.import].period = PeriodOf[r]
                      /\ request[r].reply.status \in {"staged", imports'[request[r].reply.import].status}
    BY DEF RepliesAgree
  <2> DEFINE i == request[r].reply.import
  <2>1. /\ i \in DOMAIN imports
        /\ imports[i].file = FileOf[r] /\ imports[i].period = PeriodOf[r]
        /\ request[r].reply.status \in {"staged", imports[i].status}
    BY DEF ReconInv, RepliesAgree
  <2> QED
    BY <2>1 DEF ImportsGrow
<1>3. request \in [Requests -> RequestStates']
  BY StatesGrow DEF ReconInv
<1> QED
  BY <1>1, <1>2, <1>3

LEMMA WorkersKept ==
    ASSUME ReconInv, ImportsGrow, UNCHANGED worker
    PROVE  WorkersOK'
<1>1. 0..Len(imports) \subseteq 0..Len(imports')
  BY LengthGrows
<1> QED
  BY <1>1 DEF ReconInv, WorkersOK, ImportsGrow

\* Nothing is completed: reports and events stay as they are.
LEMMA ReportsKept ==
    ASSUME ReconInv, ImportsGrow, UNCHANGED <<reports, outbox>>,
           \A i \in DOMAIN imports' : imports'[i].status = "completed" =>
                i \in DOMAIN imports /\ imports[i].status = "completed"
    PROVE  WrittenOnce(reports, imports)' /\ WrittenOnce(outbox, imports)'
<1>1. \A i \in DOMAIN imports :
          imports'[i].status = "completed" <=> imports[i].status = "completed"
  BY DEF ImportsGrow
<1>2. DOMAIN imports \subseteq DOMAIN imports'
  BY DEF ImportsGrow
<1>3. WrittenOnce(reports, imports') /\ WrittenOnce(outbox, imports')
  BY <1>1, <1>2, WrittenStays DEF ReconInv
<1> QED
  BY <1>3

LEMMA ImportsUnchanged == ReconInv /\ UNCHANGED imports => ImportsGrow
  BY DEF ReconInv, ImportsGrow

\* What is not imports: one request takes a step, or none.
LEMMA RequestStep ==
    ASSUME ReconInv, NEW r \in Requests, RequestsOK',
           UNCHANGED <<imports, audits, recorded, worker, reports, outbox>>, faults' \in 0..MaxFaults
    PROVE  ReconInv'
<1>1. ImportsGrow
  BY ImportsUnchanged
<1>2. WorkersOK' /\ WrittenOnce(reports, imports)' /\ WrittenOnce(outbox, imports)'
  BY <1>1, WorkersKept, ReportsKept
<1>3. FilesDiffer' /\ AuditsOK'
  BY DEF ReconInv, FilesDiffer, AuditsOK
<1> QED
  BY <1>2, <1>3 DEF ReconInv

LEMMA FaultCounted == faults \in 0..MaxFaults /\ faults < MaxFaults => faults + 1 \in 0..MaxFaults
  BY ReconciliationAssumption

\* The request r becomes x.
LEMMA RequestBecomes ==
    ASSUME ReconInv, ImportsGrow, NEW r \in Requests, NEW x \in RequestStates',
           request' = [request EXCEPT ![r] = x],
           x.pc # "new" => x.parsed = Checked[r],
           x.pc \in {"parsed", "absent"} => x.parsed # "file_too_large",
           x.pc = "answered" =>
              /\ x.reply.import \in DOMAIN imports'
              /\ imports'[x.reply.import].file = FileOf[r]
              /\ imports'[x.reply.import].period = PeriodOf[r]
              /\ x.reply.status \in {"staged", imports'[x.reply.import].status}
    PROVE  RequestsOK'
<1>1. request \in [Requests -> RequestStates] /\ request' \in [Requests -> RequestStates']
  BY StatesGrow DEF ReconInv, RequestsOK
<1>2. request'[r] = x /\ \A q \in Requests \ {r} : request'[q] = request[q]
  BY <1>1
<1>3. ParsedOnce'
  BY <1>2 DEF ReconInv, RequestsOK, ParsedOnce
<1>4. ASSUME NEW q \in Requests \ {r}, request[q].pc = "answered"
      PROVE  /\ request[q].reply.import \in DOMAIN imports'
             /\ imports'[request[q].reply.import].file = FileOf[q]
             /\ imports'[request[q].reply.import].period = PeriodOf[q]
             /\ request[q].reply.status \in {"staged", imports'[request[q].reply.import].status}
  <2> DEFINE i == request[q].reply.import
  <2>1. /\ i \in DOMAIN imports
        /\ imports[i].file = FileOf[q] /\ imports[i].period = PeriodOf[q]
        /\ request[q].reply.status \in {"staged", imports[i].status}
    BY <1>4 DEF ReconInv, RequestsOK, RepliesAgree
  <2> QED
    BY <2>1 DEF ImportsGrow
<1>5. RepliesAgree'
  BY <1>2, <1>4 DEF RepliesAgree
<1> QED
  BY <1>1, <1>3, <1>5 DEF RequestsOK

LEMMA RequestTyped ==
    ASSUME ReconInv, NEW r \in Requests
    PROVE  /\ request[r] \in RequestStates /\ request \in [Requests -> RequestStates]
           /\ request[r].pc # "new" => request[r].parsed = Checked[r]
           /\ request[r].pc \in {"parsed", "absent"} => request[r].parsed # "file_too_large"
  BY DEF ReconInv, RequestsOK, ParsedOnce

LEMMA ReceiveInv == ASSUME ReconInv, NEW r \in Requests, Receive(r) PROVE ReconInv'
<1> DEFINE x == [request[r] EXCEPT
                    !.pc = IF PeriodIsValid(PeriodOf[r]) /\ Checked[r] # "file_too_large"
                           THEN "parsed" ELSE "refused",
                    !.parsed = Checked[r]]
<1>1. x \in RequestStates
  BY CheckedTyped, RequestTyped DEF RequestStates
<1>2. /\ x.pc \in {"parsed", "refused"} /\ x.parsed = Checked[r]
      /\ x.pc = "parsed" => x.parsed # "file_too_large"
  BY RequestTyped DEF RequestStates
<1>3. request' = [request EXCEPT ![r] = x]
  BY RequestTyped DEF Receive
<1>4. UNCHANGED <<imports, audits, recorded, worker, reports, outbox, faults>>
  BY DEF Receive
<1> HIDE DEF x
<1>5. RequestsOK'
  BY <1>1, <1>2, <1>3, <1>4, RequestBecomes, ImportsUnchanged, StatesGrow
<1> QED
  BY <1>4, <1>5, RequestStep DEF ReconInv

LEMMA FindExistingInv == ASSUME ReconInv, NEW r \in Requests, FindExisting(r) PROVE ReconInv'
<1> DEFINE i == CHOOSE i \in ImportOf(FileOf[r]) : TRUE
           absent == [request[r] EXCEPT !.pc = "absent"]
           conflict == [request[r] EXCEPT !.pc = "conflict"]
           answered == [request[r] EXCEPT !.pc = "answered",
                                          !.reply = [import |-> i, status |-> imports[i].status]]
<1>1. /\ UNCHANGED <<imports, audits, recorded, worker, reports, outbox, faults>>
      /\ request[r].pc = "parsed"
  BY DEF FindExisting
<1>2. \/ request' = [request EXCEPT ![r] = absent]
      \/ request' = [request EXCEPT ![r] = conflict]
      \/ /\ ImportOf(FileOf[r]) # {} /\ SameUpload(r, i)
         /\ request' = [request EXCEPT ![r] = answered]
  BY RequestTyped DEF FindExisting
<1>3. /\ absent \in RequestStates /\ conflict \in RequestStates
      /\ absent.pc = "absent" /\ absent.parsed = request[r].parsed
      /\ conflict.pc = "conflict" /\ conflict.parsed = request[r].parsed
  BY RequestTyped DEF RequestStates
<1>4. ASSUME ImportOf(FileOf[r]) # {}, SameUpload(r, i)
      PROVE  /\ answered \in RequestStates
             /\ answered.pc = "answered" /\ answered.parsed = request[r].parsed
             /\ answered.reply.import = i /\ answered.reply.status = imports[i].status
             /\ i \in DOMAIN imports /\ imports[i].file = FileOf[r] /\ imports[i].period = PeriodOf[r]
  <2>1. i \in DOMAIN imports /\ imports[i].file = FileOf[r]
    BY <1>4 DEF ImportOf
  <2> HIDE DEF i
  <2>2. imports \in Seq(ImportRows)
    BY DEF ReconInv
  <2>3. imports[i] \in ImportRows /\ i \in 0..Len(imports)
    BY <2>1, <2>2
  <2> DEFINE reply == [import |-> i, status |-> imports[i].status]
  <2>4. reply \in Replies /\ reply.import = i /\ reply.status = imports[i].status
    BY <2>3 DEF Replies, ImportRows
  <2> HIDE DEF reply
  <2>5. /\ [request[r] EXCEPT !.pc = "answered", !.reply = reply] \in RequestStates
        /\ [request[r] EXCEPT !.pc = "answered", !.reply = reply].pc = "answered"
        /\ [request[r] EXCEPT !.pc = "answered", !.reply = reply].parsed = request[r].parsed
        /\ [request[r] EXCEPT !.pc = "answered", !.reply = reply].reply = reply
    BY <2>4, RequestTyped DEF RequestStates
  <2>6. imports[i].period = PeriodOf[r]
    BY <1>4 DEF SameUpload
  <2> QED
    BY <2>1, <2>4, <2>5, <2>6 DEF reply
<1> HIDE DEF absent, conflict, answered, i
<1>5. RequestsOK'
  BY <1>1, <1>2, <1>3, <1>4, RequestTyped, RequestBecomes, ImportsUnchanged, StatesGrow
<1> QED
  BY <1>1, <1>5, RequestStep DEF ReconInv

LEMMA RequestAnew ==
    ASSUME ReconInv, NEW r \in Requests
    PROVE  /\ [request[r] EXCEPT !.pc = "new", !.attempt = 1] \in RequestStates
           /\ [request[r] EXCEPT !.pc = "new", !.attempt = 1].pc = "new"
<1>1. 1 \in 1..3
  OBVIOUS
<1> QED
  BY <1>1, RequestTyped DEF RequestStates

LEMMA CreateCollidesInv == ASSUME ReconInv, NEW r \in Requests, CreateCollides(r) PROVE ReconInv'
<1> DEFINE again == [request[r] EXCEPT !.pc = "parsed", !.attempt = @ + 1]
           anew == [request[r] EXCEPT !.pc = "new", !.attempt = 1]
<1>1. /\ UNCHANGED <<imports, audits, recorded, worker, reports, outbox, faults>>
      /\ request[r].pc = "absent"
  BY DEF CreateCollides
<1>2. \/ request[r].attempt < 3 /\ request' = [request EXCEPT ![r] = again]
      \/ request' = [request EXCEPT ![r] = anew]
  BY RequestTyped DEF CreateCollides
<1>3. request[r].attempt < 3 => again \in RequestStates
  <2>1. request[r].attempt < 3 => request[r].attempt + 1 \in 1..3
    BY RequestTyped DEF RequestStates
  <2> QED
    BY <2>1, RequestTyped DEF RequestStates
<1>4. /\ again.pc = "parsed" /\ again.parsed = request[r].parsed
      /\ anew \in RequestStates /\ anew.pc = "new"
  BY RequestAnew, RequestTyped DEF RequestStates
<1> HIDE DEF again, anew
<1>5. RequestsOK'
  BY <1>1, <1>2, <1>3, <1>4, RequestTyped, RequestBecomes, ImportsUnchanged, StatesGrow
<1> QED
  BY <1>1, <1>5, RequestStep DEF ReconInv

LEMMA RequestLostInv == ASSUME ReconInv, NEW r \in Requests, RequestLost(r) PROVE ReconInv'
<1> DEFINE anew == [request[r] EXCEPT !.pc = "new", !.attempt = 1]
<1>1. /\ UNCHANGED <<imports, audits, recorded, worker, reports, outbox>>
      /\ faults' \in 0..MaxFaults
  BY FaultCounted DEF RequestLost, ReconInv
<1>2. request' = [request EXCEPT ![r] = anew]
  BY RequestTyped DEF RequestLost
<1>3. anew \in RequestStates /\ anew.pc = "new"
  BY RequestAnew
<1> HIDE DEF anew
<1>4. RequestsOK'
  BY <1>1, <1>2, <1>3, RequestBecomes, ImportsUnchanged, StatesGrow
<1> QED
  BY <1>1, <1>4, RequestStep

LEMMA CreateInv == ASSUME ReconInv, NEW r \in Requests, Create(r) PROVE ReconInv'
<1> DEFINE n == Len(imports) + 1
           row == [file |-> FileOf[r], period |-> PeriodOf[r], rowCount |-> RowCountOf(r),
                   status |-> IF request[r].parsed = "valid" THEN "staged" ELSE "failed",
                   failure |-> IF request[r].parsed = "valid" THEN "none" ELSE request[r].parsed,
                   owner |-> Nobody, lease |-> 0]
           x == [request[r] EXCEPT !.pc = "answered", !.reply = [import |-> n, status |-> row.status]]
<1>1. /\ request[r].pc = "absent" /\ request[r].parsed = Checked[r]
      /\ request[r].parsed \in {"valid", "csv_invalid", "row_limit_exceeded"}
      /\ UNCHANGED <<recorded, worker, reports, outbox, faults>>
  BY RequestTyped DEF Create, RequestStates
<1>2. row \in ImportRows
  <2>1. RowCountOf(r) \in 0..RowLimit
    BY <1>1, CheckedTyped, ReconciliationAssumption DEF RowCountOf
  <2>2. 0 \in 0..LeaseTicks
    BY ReconciliationAssumption
  <2> QED
    BY <1>1, <2>1, <2>2 DEF ImportRows, Files
<1>3. /\ row.status \in {"staged", "failed"} /\ row.file = FileOf[r] /\ row.period = PeriodOf[r]
  OBVIOUS
<1>4. imports \in Seq(ImportRows) /\ imports' = Append(imports, row) /\ audits' = Append(audits, Len(imports'))
  BY DEF Create, ReconInv
<1> HIDE DEF row
<1>5. /\ imports' \in Seq(ImportRows) /\ Len(imports) \in Nat /\ Len(imports') = n
      /\ DOMAIN imports = 1..Len(imports) /\ DOMAIN imports' = DOMAIN imports \cup {n}
      /\ \A i \in DOMAIN imports : imports'[i] = imports[i]
      /\ imports'[n] = row
  BY <1>2, <1>4
<1>6. ImportsGrow
  BY <1>5 DEF ImportsGrow
<1>7. RequestsOK'
  <2>1. request' = [request EXCEPT ![r] = x]
    BY <1>5, RequestTyped DEF Create, Reply
  <2> DEFINE reply == [import |-> n, status |-> row.status]
  <2>2. reply \in Replies' /\ reply.import = n /\ reply.status = row.status
    BY <1>3, <1>5 DEF Replies
  <2>3. request[r] \in RequestStates'
    BY <1>6, RequestTyped, StatesGrow
  <2> HIDE DEF reply
  <2>4. /\ [request[r] EXCEPT !.pc = "answered", !.reply = reply] \in RequestStates'
        /\ [request[r] EXCEPT !.pc = "answered", !.reply = reply].pc = "answered"
        /\ [request[r] EXCEPT !.pc = "answered", !.reply = reply].parsed = request[r].parsed
        /\ [request[r] EXCEPT !.pc = "answered", !.reply = reply].reply = reply
    BY <2>2, <2>3 DEF RequestStates
  <2>5. /\ x \in RequestStates' /\ x.pc = "answered" /\ x.parsed = Checked[r]
        /\ x.reply.import = n /\ x.reply.status = row.status
    BY <1>1, <2>2, <2>4 DEF reply
  <2> HIDE DEF x, n
  <2> QED
    BY <1>3, <1>5, <1>6, <2>1, <2>5, RequestBecomes
<1>8. FilesDiffer'
  BY <1>3, <1>5 DEF Create, ImportOf, ReconInv, FilesDiffer
<1>9. AuditsOK'
  <2>1. audits = [i \in 1..Len(imports) |-> i] /\ audits \in Seq(Nat) /\ Len(audits) = Len(imports)
    BY <1>5 DEF ReconInv, AuditsOK
  <2>2. /\ audits' \in Seq(Nat) /\ Len(audits') = n
        /\ \A i \in 1..Len(imports) : audits'[i] = i
        /\ audits'[n] = n
    BY <1>4, <1>5, <2>1
  <2>3. \A i \in 1..n : audits'[i] = i
    BY <1>5, <2>2
  <2> QED
    BY <1>5, <2>2, <2>3 DEF AuditsOK
<1>10. WorkersOK' /\ WrittenOnce(reports, imports)' /\ WrittenOnce(outbox, imports)'
  BY <1>1, <1>3, <1>5, <1>6, WorkersKept, ReportsKept
<1> QED
  BY <1>1, <1>5, <1>7, <1>8, <1>9, <1>10 DEF ReconInv

\* The platform records a fact, or a worker, or time, changes owners and leases.
LEMMA LeasesChange ==
    ASSUME ReconInv, imports' \in Seq(ImportRows), DOMAIN imports' = DOMAIN imports,
           \A i \in DOMAIN imports :
              /\ imports'[i].file = imports[i].file /\ imports'[i].period = imports[i].period
              /\ imports'[i].status = imports[i].status,
           UNCHANGED <<request, audits, reports, outbox>>,
           WorkersOK', recorded' \subseteq Recordable, faults' \in 0..MaxFaults
    PROVE  ReconInv'
<1>1. ImportsGrow
  BY DEF ImportsGrow
<1>2. RequestsOK' /\ WrittenOnce(reports, imports)' /\ WrittenOnce(outbox, imports)'
  BY <1>1, RequestsKept, ReportsKept
<1>3. FilesDiffer'
  BY DEF ReconInv, FilesDiffer
<1>4. Len(imports') = Len(imports)
  BY DEF ReconInv
<1>5. AuditsOK'
  BY <1>4 DEF ReconInv, AuditsOK
<1> QED
  BY <1>2, <1>3, <1>5 DEF ReconInv

LEMMA RecordInv == ASSUME ReconInv, NEW f, Record(f) PROVE ReconInv'
<1>1. WorkersOK'
  BY WorkersKept, ImportsUnchanged DEF Record
<1> QED
  BY <1>1, LeasesChange DEF Record, ReconInv

\* The worker w becomes x.
LEMMA WorkerBecomes ==
    ASSUME ReconInv, DOMAIN imports' = DOMAIN imports, Len(imports') = Len(imports),
           NEW w \in Workers, NEW x, NEW S, x \in [pc: {"idle", "claimed", "read"},
                                                 import: 0..Len(imports), evidence: S],
           x.pc # "idle" => x.import \in DOMAIN imports,
           worker' = [worker EXCEPT ![w] = x]
    PROVE  WorkersOK'
<1> DEFINE E == {worker'[v].evidence : v \in Workers}
           R == [pc: {"idle", "claimed", "read"}, import: 0..Len(imports), evidence: E]
<1>1. /\ worker \in [Workers -> [pc: {"idle", "claimed", "read"}, import: 0..Len(imports),
                                 evidence: {worker[v].evidence : v \in Workers}]]
      /\ \A v \in Workers : worker[v].pc # "idle" => worker[v].import \in DOMAIN imports
  BY DEF ReconInv, WorkersOK
<1>2. /\ worker'[w] = x /\ \A v \in Workers \ {w} : worker'[v] = worker[v]
      /\ worker' = [v \in Workers |-> worker'[v]]
  BY <1>1
<1>3. ASSUME NEW v \in Workers PROVE worker'[v] \in R
  <2>1. worker'[v].evidence \in E
    OBVIOUS
  <2> HIDE DEF E
  <2> QED
    BY <1>1, <1>2, <2>1
<1> HIDE DEF R
<1>4. worker' \in [Workers -> R]
  BY <1>2, <1>3
<1> QED
  BY <1>1, <1>2, <1>4 DEF WorkersOK, R

LEMMA IdleTyped ==
    /\ ReconInv => Idle \in [pc: {"idle", "claimed", "read"}, import: 0..Len(imports), evidence: {{}}]
    /\ Idle.pc = "idle"
  BY DEF Idle, ReconInv

\* Nothing but a worker changes: it reads, gives up or is stopped.
LEMMA WorkerStepInv ==
    ASSUME ReconInv, NEW w \in Workers, Read(w) \/ TimeOut(w) \/ Abort(w)
    PROVE  ReconInv'
<1>1. UNCHANGED <<request, imports, audits, recorded, reports, outbox>> /\ faults' \in 0..MaxFaults
  BY FaultCounted DEF Read, TimeOut, Abort, ReconInv
<1>2. WorkersOK'
  <2>1. CASE worker' = [worker EXCEPT ![w] = Idle]
    BY <1>1, <2>1, IdleTyped, WorkerBecomes
  <2>2. CASE /\ worker[w].pc = "claimed"
             /\ worker' = [worker EXCEPT ![w].pc = "read",
                                         ![w].evidence = Evidence(imports[worker[w].import].period)]
    <3> DEFINE evidence == Evidence(imports[worker[w].import].period)
               x == [worker[w] EXCEPT !.pc = "read", !.evidence = evidence]
    <3> HIDE DEF evidence
    <3>1. /\ worker[w] \in [pc: {"idle", "claimed", "read"}, import: 0..Len(imports),
                            evidence: {worker[v].evidence : v \in Workers}]
          /\ worker[w].import \in DOMAIN imports
      BY <2>2 DEF ReconInv, WorkersOK
    <3>2. /\ x \in [pc: {"idle", "claimed", "read"}, import: 0..Len(imports), evidence: {evidence}]
          /\ x.import \in DOMAIN imports
      BY <3>1
    <3>3. worker' = [worker EXCEPT ![w] = x]
      BY <2>2 DEF evidence, ReconInv, WorkersOK
    <3> HIDE DEF x
    <3> QED
      BY <1>1, <3>2, <3>3, WorkerBecomes
  <2> QED
    BY <2>1, <2>2 DEF Read, TimeOut, Abort
<1> QED
  BY <1>1, <1>2, LeasesChange DEF ReconInv

LEMMA ClaimInv == ASSUME ReconInv, NEW w \in Workers, Claim(w) PROVE ReconInv'
<1>1. imports \in Seq(ImportRows)
  BY DEF ReconInv
<1>2. PICK i \in Claimable :
        /\ imports' = [imports EXCEPT ![i].owner = w, ![i].lease = LeaseTicks]
        /\ worker' = [worker EXCEPT ![w] = [Idle EXCEPT !.pc = "claimed", !.import = i]]
  BY DEF Claim
<1> DEFINE x == [Idle EXCEPT !.pc = "claimed", !.import = i]
           row == [imports[i] EXCEPT !.owner = w, !.lease = LeaseTicks]
<1>3. /\ UNCHANGED <<request, audits, recorded, reports, outbox, faults>>
      /\ worker' = [worker EXCEPT ![w] = x]
  BY <1>2 DEF Claim
<1>4. i \in DOMAIN imports /\ imports[i] \in ImportRows /\ i \in 0..Len(imports)
  BY <1>1, <1>2 DEF Claimable
<1>5. /\ row \in ImportRows
      /\ row.file = imports[i].file /\ row.period = imports[i].period /\ row.status = imports[i].status
  <2>1. LeaseTicks \in 0..LeaseTicks
    BY ReconciliationAssumption
  <2> QED
    BY <1>4, <2>1 DEF ImportRows
<1>6. imports' = [imports EXCEPT ![i] = row]
  BY <1>2, <1>4 DEF ImportRows
<1> HIDE DEF row
<1>7. imports' \in Seq(ImportRows) /\ DOMAIN imports' = DOMAIN imports /\ Len(imports') = Len(imports)
  BY <1>1, <1>4, <1>5, <1>6
<1>8. \A j \in DOMAIN imports :
        /\ imports'[j].file = imports[j].file /\ imports'[j].period = imports[j].period
        /\ imports'[j].status = imports[j].status
  BY <1>4, <1>5, <1>6
<1>9. WorkersOK'
  <2>1. Idle \in [pc: {"idle", "claimed", "read"}, import: 0..Len(imports), evidence: {{}}]
    BY IdleTyped
  <2>2. /\ x \in [pc: {"idle", "claimed", "read"}, import: 0..Len(imports), evidence: {{}}]
        /\ x.import = i
    BY <1>4, <2>1
  <2> HIDE DEF x
  <2> QED
    BY <1>3, <1>4, <1>7, <2>2, WorkerBecomes
<1> QED
  BY <1>3, <1>7, <1>8, <1>9, LeasesChange DEF ReconInv

LEMMA TickInv == ReconInv /\ Tick => ReconInv'
<1> SUFFICES ASSUME ReconInv, Tick PROVE ReconInv'
  OBVIOUS
<1>1. imports \in Seq(ImportRows)
  BY DEF ReconInv
<1>2. ASSUME NEW i \in DOMAIN imports
      PROVE  /\ [imports[i] EXCEPT !.lease = IF @ > 0 THEN @ - 1 ELSE 0] \in ImportRows
             /\ [imports[i] EXCEPT !.lease = IF @ > 0 THEN @ - 1 ELSE 0].file = imports[i].file
             /\ [imports[i] EXCEPT !.lease = IF @ > 0 THEN @ - 1 ELSE 0].period = imports[i].period
             /\ [imports[i] EXCEPT !.lease = IF @ > 0 THEN @ - 1 ELSE 0].status = imports[i].status
  <2> DEFINE left == IF imports[i].lease > 0 THEN imports[i].lease - 1 ELSE 0
  <2>1. imports[i] \in ImportRows
    BY <1>1
  <2>2. left \in 0..LeaseTicks
    BY <2>1, ReconciliationAssumption DEF ImportRows
  <2> HIDE DEF left
  <2>3. /\ [imports[i] EXCEPT !.lease = left] \in ImportRows
        /\ [imports[i] EXCEPT !.lease = left].file = imports[i].file
        /\ [imports[i] EXCEPT !.lease = left].period = imports[i].period
        /\ [imports[i] EXCEPT !.lease = left].status = imports[i].status
    BY <2>1, <2>2 DEF ImportRows
  <2> QED
    BY <2>3 DEF left
<1>3. imports' = [i \in DOMAIN imports |-> [imports[i] EXCEPT !.lease = IF @ > 0 THEN @ - 1 ELSE 0]]
  BY DEF Tick
<1>4. /\ imports' \in Seq(ImportRows) /\ DOMAIN imports' = DOMAIN imports
      /\ \A i \in DOMAIN imports :
           /\ imports'[i].file = imports[i].file /\ imports'[i].period = imports[i].period
           /\ imports'[i].status = imports[i].status
  <2> DEFINE aged(i) == [imports[i] EXCEPT !.lease = IF @ > 0 THEN @ - 1 ELSE 0]
  <2>1. imports' = [i \in DOMAIN imports |-> aged(i)]
    BY <1>3
  <2>2. \A i \in DOMAIN imports :
           /\ aged(i) \in ImportRows /\ aged(i).file = imports[i].file
           /\ aged(i).period = imports[i].period /\ aged(i).status = imports[i].status
    BY <1>2
  <2> HIDE DEF aged
  <2>3. DOMAIN imports = 1..Len(imports) /\ Len(imports) \in Nat
    BY <1>1
  <2> QED
    BY <2>1, <2>2, <2>3
<1>5. faults' \in 0..MaxFaults
  <2>1. Cardinality(Late) \in Nat
    BY ReconciliationAssumption, FS_Subset, FS_CardinalityType DEF Late
  <2> QED
    BY <2>1, ReconciliationAssumption DEF Tick, ReconInv
<1>6. WorkersOK'
  <2>1. ImportsGrow
    BY <1>4 DEF ImportsGrow
  <2> QED
    BY <2>1, WorkersKept DEF Tick
<1> QED
  BY <1>4, <1>5, <1>6, LeasesChange DEF Tick, ReconInv

\* A staged import is closed, and told of if it is completed.
LEMMA ClosedInv ==
    ASSUME ReconInv, NEW w \in Workers, NEW i \in DOMAIN imports, imports[i].status = "staged",
           NEW status \in {"completed", "failed"}, NEW failure \in {"none", "aggregate_overflow"},
           imports' = Closed(i, status, failure),
           NEW report, report.import = i, NEW event, event.import = i,
           reports' = IF status = "completed" THEN Append(reports, report) ELSE reports,
           outbox' = IF status = "completed" THEN Append(outbox, event) ELSE outbox,
           worker' = [worker EXCEPT ![w] = Idle],
           UNCHANGED <<request, audits, recorded, faults>>
    PROVE  ReconInv'
<1> DEFINE row == [imports[i] EXCEPT !.status = status, !.failure = failure,
                                     !.owner = Nobody, !.lease = 0]
<1>1. imports \in Seq(ImportRows) /\ imports[i] \in ImportRows
  BY DEF ReconInv
<1>2. /\ row \in ImportRows /\ row.status = status
      /\ row.file = imports[i].file /\ row.period = imports[i].period
  <2>1. 0 \in 0..LeaseTicks
    BY ReconciliationAssumption
  <2> QED
    BY <1>1, <2>1 DEF ImportRows
<1>3. imports' = [imports EXCEPT ![i] = row]
  BY <1>1 DEF Closed, ImportRows
<1> HIDE DEF row
<1>4. /\ imports' \in Seq(ImportRows) /\ DOMAIN imports' = DOMAIN imports /\ Len(imports') = Len(imports)
      /\ imports'[i] = row /\ \A j \in DOMAIN imports : j # i => imports'[j] = imports[j]
  BY <1>1, <1>2, <1>3
<1>5. ImportsGrow /\ FilesDiffer'
  <2>1. \A j \in DOMAIN imports :
          /\ imports'[j].file = imports[j].file /\ imports'[j].period = imports[j].period
          /\ j # i => imports'[j].status = imports[j].status
    BY <1>2, <1>4
  <2>2. ImportsGrow
    BY <1>4, <2>1 DEF ImportsGrow
  <2>3. FilesDiffer'
    BY <1>4, <2>1 DEF ReconInv, FilesDiffer
  <2> QED
    BY <2>2, <2>3
<1>6. RequestsOK'
  BY <1>5, RequestsKept
<1>7. AuditsOK'
  BY <1>4 DEF ReconInv, AuditsOK
<1>8. WorkersOK'
  BY <1>4, IdleTyped, WorkerBecomes
<1>9. WrittenOnce(reports, imports)' /\ WrittenOnce(outbox, imports)'
  <2>1. WrittenOnce(reports, imports) /\ WrittenOnce(outbox, imports)
    BY DEF ReconInv
  <2>2. CASE status = "completed"
    <3>1. WrittenOnce(Append(reports, report), imports')
      BY <1>1, <1>2, <1>4, <2>1, <2>2, WrittenAsCompleted
    <3>2. WrittenOnce(Append(outbox, event), imports')
      BY <1>1, <1>2, <1>4, <2>1, <2>2, WrittenAsCompleted
    <3> QED
      BY <2>2, <3>1, <3>2
  <2>3. CASE status = "failed"
    <3>1. UNCHANGED <<reports, outbox>>
      BY <2>3
    <3>2. \A j \in DOMAIN imports' : imports'[j].status = "completed" =>
             j \in DOMAIN imports /\ imports[j].status = "completed"
      BY <1>2, <1>4, <2>3
    <3> QED
      BY <1>5, <3>1, <3>2, ReportsKept
  <2> QED
    BY <2>2, <2>3
<1> QED
  BY <1>4, <1>5, <1>6, <1>7, <1>8, <1>9 DEF ReconInv

LEMMA FinishInv == ASSUME ReconInv, NEW w \in Workers, Finish(w) PROVE ReconInv'
<1> DEFINE i == worker[w].import
           results == ResultsOf(i, worker[w].evidence)
           report == [import |-> i, evidence |-> worker[w].evidence,
                      results |-> results, summaries |-> Summaries(results)]
<1>1. /\ worker' = [worker EXCEPT ![w] = Idle]
      /\ UNCHANGED <<request, audits, recorded, faults>>
      /\ i \in DOMAIN imports
  BY DEF Finish, ReconInv, WorkersOK
<1>2. \/ UNCHANGED <<imports, reports, outbox>>
      \/ /\ LeaseHeldBy(w, i) /\ imports' = Closed(i, "failed", "aggregate_overflow")
         /\ UNCHANGED <<reports, outbox>>
      \/ /\ LeaseHeldBy(w, i) /\ imports' = Closed(i, "completed", "none")
         /\ reports' = Append(reports, report)
         /\ outbox' = Append(outbox, CompletedEvent(i, results))
  BY DEF Finish
<1>3. report.import = i /\ CompletedEvent(i, results).import = i
  BY DEF CompletedEvent
<1>4. LeaseHeldBy(w, i) => imports[i].status = "staged"
  BY DEF LeaseHeldBy, OwnedBy
<1> HIDE DEF i, results, report
<1>5. CASE UNCHANGED <<imports, reports, outbox>>
  <2>1. WorkersOK'
    BY <1>1, <1>5, IdleTyped, WorkerBecomes
  <2> QED
    BY <1>1, <1>5, <2>1, LeasesChange DEF ReconInv
<1>6. CASE LeaseHeldBy(w, i) /\ imports' = Closed(i, "failed", "aggregate_overflow")
           /\ UNCHANGED <<reports, outbox>>
  BY <1>1, <1>3, <1>4, <1>6, ClosedInv
<1>7. CASE /\ LeaseHeldBy(w, i) /\ imports' = Closed(i, "completed", "none")
           /\ reports' = Append(reports, report)
           /\ outbox' = Append(outbox, CompletedEvent(i, results))
  BY <1>1, <1>3, <1>4, <1>7, ClosedInv
<1> QED
  BY <1>2, <1>5, <1>6, <1>7

LEMMA ReconNextInv == ReconInv /\ [Next]_vars => ReconInv'
<1> SUFFICES ASSUME ReconInv, [Next]_vars PROVE ReconInv'
  OBVIOUS
<1>1. CASE UNCHANGED vars
  <2>1. ImportsGrow /\ UNCHANGED <<imports, request, worker, reports, outbox, audits, recorded, faults>>
    BY <1>1, ImportsUnchanged DEF vars
  <2>2. WorkersOK'
    BY <2>1, WorkersKept
  <2> QED
    BY <2>1, <2>2, LeasesChange DEF ReconInv
<1>2. CASE Staging
  BY <1>2, ReceiveInv, FindExistingInv, CreateInv, CreateCollidesInv, RequestLostInv DEF Staging
<1>3. CASE Processing
  BY <1>3, ClaimInv, WorkerStepInv, FinishInv DEF Processing
<1> QED
  BY <1>1, <1>2, <1>3, TickInv, RecordInv DEF Next

-----------------------------------------------------------------------------
THEOREM ReconSpecInv == Spec => []ReconInv
<1> QED
  BY ReconInit, ReconNextInv, PTL DEF Spec

\* Type correctness of requests, imports and workers.
THEOREM ReconTypeCorrect == Spec => []TypeOK
<1>1. ReconInv => TypeOK
  <2> SUFFICES ASSUME ReconInv PROVE TypeOK
    OBVIOUS
  <2>1. \A i \in DOMAIN imports : imports[i] \in ImportRows
    BY DEF ReconInv
  <2>2. \A w \in Workers : worker[w].pc \in {"idle", "claimed", "read"} /\ worker[w].import \in 0..Len(imports)
    BY DEF ReconInv, WorkersOK
  <2>3. request \in [Requests -> RequestStates] /\ recorded \subseteq Recordable /\ faults \in 0..MaxFaults
    BY DEF ReconInv, RequestsOK
  <2> QED
    BY <2>1, <2>2, <2>3 DEF RequestStates, Replies, ImportRows, TypeOK
<1> QED
  BY <1>1, ReconSpecInv, PTL

\* claimAndProcess writes one report and one event for an import that it
\* completes and none for any other, however many workers claim it over time.
THEOREM ReportsAreUnique == Spec => []OneReportPerImport
<1>1. ASSUME NEW s, WrittenOnce(s, imports), NEW i \in DOMAIN imports
      PROVE  Cardinality({n \in DOMAIN s : s[n].import = i})
               = IF imports[i].status = "completed" THEN 1 ELSE 0
  <2>1. CASE imports[i].status = "completed"
    BY <1>1, <2>1, FS_Singleton DEF WrittenOnce, Naming
  <2>2. CASE imports[i].status # "completed"
    BY <1>1, <2>2, FS_EmptySet DEF WrittenOnce, Naming
  <2> QED
    BY <2>1, <2>2
<1>2. ReconInv => OneReportPerImport
  BY <1>1 DEF ReconInv, OneReportPerImport
<1> QED
  BY <1>2, ReconSpecInv, PTL

\* stage and stageFailed: a file has one import and one audit record, whoever
\* sends it again, and every answer agrees with the import it names.
THEOREM ImportsAreUnique == Spec => []OneImportPerFile
<1>1. ASSUME ReconInv, NEW i \in DOMAIN imports
      PROVE  Cardinality({n \in DOMAIN audits : audits[n] = i}) = 1
  <2>1. i \in 1..Len(imports)
    BY <1>1 DEF ReconInv
  <2>2. {n \in DOMAIN audits : audits[n] = i} = {i}
    BY <1>1, <2>1 DEF ReconInv, AuditsOK
  <2> QED
    BY <2>2, FS_Singleton
<1>2. ReconInv => OneImportPerFile
  BY <1>1 DEF ReconInv, FilesDiffer, RequestsOK, RepliesAgree, OneImportPerFile
<1> QED
  BY <1>2, ReconSpecInv, PTL

-----------------------------------------------------------------------------
LEMMA NatWellFounded == IsWellFoundedOn({ss \in Nat \X Nat : ss[1] < ss[2]}, Nat)
  BY NatLessThanWellFounded DEF OpToRel

\* A set of natural numbers has a least element.
LEMMA LeastElement ==
    ASSUME NEW S \in SUBSET Nat, S # {}
    PROVE  \E x \in S : \A y \in S : x <= y
<1> DEFINE R == {ss \in Nat \X Nat : ss[1] < ss[2]}
<1>1. PICK x \in S : \A y \in S : ~(<<y, x>> \in R)
  BY WFMin, NatWellFounded
<1>2. ASSUME NEW y \in S PROVE x <= y
  <2>1. x \in Nat /\ y \in Nat
    OBVIOUS
  <2>2. ~(y < x)
    BY <1>1, <2>1
  <2> QED
    BY <2>1, <2>2
<1> QED
  BY <1>2

(***************************************************************************)
(* Places in order.                                                        *)
(***************************************************************************)
Rank(K, k) == Cardinality({j \in K : j <= k})

LEMMA RankCounts ==
    ASSUME NEW K \in SUBSET Nat, IsFiniteSet(K), NEW k \in K
    PROVE  Rank(K, k) \in 1..Cardinality(K)
<1> DEFINE A == {j \in K : j <= k}
<1>1. A \in SUBSET K /\ k \in A
  OBVIOUS
<1> HIDE DEF A
<1>2. /\ IsFiniteSet(A) /\ Cardinality(A) <= Cardinality(K)
      /\ Cardinality(A) \in Nat /\ Cardinality(K) \in Nat
  BY <1>1, FS_Subset, FS_CardinalityType
<1>3. Cardinality(A) # 0
  BY <1>1, <1>2, FS_EmptySet
<1>4. Rank(K, k) = Cardinality(A)
  BY DEF Rank, A
<1> QED
  BY <1>2, <1>3, <1>4

LEMMA RankGrows ==
    ASSUME NEW K \in SUBSET Nat, IsFiniteSet(K), NEW k \in K, NEW m \in K, k < m
    PROVE  Rank(K, k) < Rank(K, m)
<1> DEFINE A == {j \in K : j <= k}
           B == {j \in K : j <= m}
<1>0. \A j \in K : j \in Nat
  OBVIOUS
<1>1. B \in SUBSET K /\ A \in SUBSET B /\ m \in B /\ m \notin A
  <2>1. ~(m <= k) /\ m <= m /\ \A j \in K : j <= k => j <= m
    BY <1>0
  <2>2. B \in SUBSET K /\ m \in B /\ m \notin A
    BY <2>1
  <2>3. A \in SUBSET B
    BY <2>1
  <2> QED
    BY <2>2, <2>3
<1> HIDE DEF A, B
<1>2. IsFiniteSet(B)
  BY <1>1, FS_Subset
<1>3. Cardinality(A) <= Cardinality(B) /\ Cardinality(A) # Cardinality(B) /\ IsFiniteSet(A)
  BY <1>1, <1>2, FS_Subset
<1>4. Cardinality(A) \in Nat /\ Cardinality(B) \in Nat
  BY <1>2, <1>3, FS_CardinalityType
<1>5. Rank(K, k) = Cardinality(A) /\ Rank(K, m) = Cardinality(B)
  BY DEF Rank, A, B
<1> QED
  BY <1>3, <1>4, <1>5

\* InOrder counts the places off.
LEMMA PlacesInOrder ==
    ASSUME NEW K \in SUBSET Nat, IsFiniteSet(K)
    PROVE  /\ InOrder(K) \in [1..Cardinality(K) -> K]
           /\ \A n \in 1..Cardinality(K) : Rank(K, InOrder(K)[n]) = n
           /\ \A k \in K : Rank(K, k) \in 1..Cardinality(K) /\ InOrder(K)[Rank(K, k)] = k
<1> DEFINE c == Cardinality(K)
           f == [k \in K |-> Rank(K, k)]
<1>1. f \in [K -> 1..c]
  BY RankCounts
<1>2. \A k, m \in K : Rank(K, k) = Rank(K, m) => k = m
  <2> SUFFICES ASSUME NEW k \in K, NEW m \in K, Rank(K, k) = Rank(K, m), k # m PROVE FALSE
    OBVIOUS
  <2>1. Rank(K, k) \in Nat /\ Rank(K, m) \in Nat
    BY <1>1, RankCounts
  <2>2. CASE k < m
    BY <2>1, <2>2, RankGrows
  <2>3. CASE m < k
    BY <2>1, <2>3, RankGrows
  <2> QED
    BY <2>2, <2>3
<1>3. f \in Injection(K, 1..c)
  BY <1>1, <1>2 DEF Injection, IsInjective
<1>4. c \in Nat /\ IsFiniteSet(1..c) /\ Cardinality(1..c) = c
  <2>1. c \in Nat
    BY FS_CardinalityType
  <2>2. IsFiniteSet(1..c) /\ Cardinality(1..c) = IF 1 > c THEN 0 ELSE c - 1 + 1
    BY <2>1, FS_Interval
  <2> HIDE DEF c
  <2> QED
    BY <2>1, <2>2
<1> HIDE DEF f
<1>5. f \in Surjection(K, 1..c)
  BY <1>3, <1>4, FS_Injection
<1>6. \A n \in 1..c : \E k \in K : Rank(K, k) = n
  BY <1>5 DEF Surjection, f
<1> HIDE DEF c
<1>7. \A n \in 1..c : InOrder(K)[n] = CHOOSE k \in K : Rank(K, k) = n
  BY DEF InOrder, Rank, c
<1>8. \A n \in 1..c : InOrder(K)[n] \in K /\ Rank(K, InOrder(K)[n]) = n
  BY <1>6, <1>7
<1>9. InOrder(K) \in [1..c -> K]
  <2>1. \A n \in 1..c : (CHOOSE k \in K : Cardinality({j \in K : j <= k}) = n) \in K
    BY <1>6 DEF Rank
  <2> QED
    BY <2>1 DEF InOrder, c
<1>10. \A k \in K : Rank(K, k) \in 1..c /\ InOrder(K)[Rank(K, k)] = k
  <2> SUFFICES ASSUME NEW k \in K PROVE Rank(K, k) \in 1..c /\ InOrder(K)[Rank(K, k)] = k
    OBVIOUS
  <2>1. Rank(K, k) \in 1..c
    BY RankCounts DEF c
  <2> QED
    BY <2>1, <1>2, <1>8
<1> QED
  BY <1>8, <1>9, <1>10 DEF c

\* The n-th place and what comes after it.
LEMMA PlacesAfter ==
    ASSUME NEW K \in SUBSET Nat, IsFiniteSet(K), NEW n \in 1..Cardinality(K),
           NEW L, L = {m \in K : m > InOrder(K)[n]}
    PROVE  /\ Cardinality(L) = Cardinality(K) - n
           /\ \A j \in 1..Cardinality(L) : InOrder(L)[j] = InOrder(K)[n + j]
<1> DEFINE k == InOrder(K)[n]
           A == {j \in K : j <= k}
<1>1. /\ k \in K /\ Rank(K, k) = n /\ Cardinality(K) \in Nat
      /\ L \in SUBSET Nat /\ L \in SUBSET K /\ A \in SUBSET K
  BY PlacesInOrder, FS_CardinalityType
<1>9. \A j : j \in L <=> j \in K /\ j > k
  OBVIOUS
<1> HIDE DEF k
<1>0. \A i, j \in K : i \in Nat /\ (i <= j <=> ~(i > j)) /\ (i <= k /\ j > k => i <= j)
  <2>1. k \in Nat /\ \A i \in K : i \in Nat
    BY <1>1
  <2> QED
    BY <2>1
<1>2. IsFiniteSet(L) /\ Cardinality(L) \in Nat /\ IsFiniteSet(A) /\ Cardinality(A) = n
  BY <1>1, FS_Subset, FS_CardinalityType DEF Rank
<1>7. n \in Nat
  BY <1>1
<1>3. ASSUME NEW B, B \in SUBSET L
      PROVE  Cardinality(A \cup B) = n + Cardinality(B) /\ Cardinality(B) \in Nat
  <2>1. IsFiniteSet(B) /\ Cardinality(B) \in Nat
    BY <1>2, <1>3, FS_Subset, FS_CardinalityType
  <2>3. \A j \in A : j \notin B
    BY <1>0, <1>1, <1>3, <1>9
  <2>4. A \cap B = {}
    BY <2>3
  <2> HIDE DEF A
  <2>2. Cardinality(A \cup B) = Cardinality(A) + Cardinality(B) - Cardinality(A \cap B)
    BY <1>2, <2>1, FS_Union
  <2> QED
    <3>1. Cardinality(A \cap B) = 0
      BY <2>4, FS_EmptySet
    <3> QED
      BY <1>2, <1>7, <2>1, <2>2, <3>1
<1>4. A \cup L = K
  BY <1>0, <1>1, <1>9
<1>5. Cardinality(L) = Cardinality(K) - n
  <2>1. Cardinality(A \cup L) = n + Cardinality(L)
    BY <1>3
  <2>2. Cardinality(A \cup L) = Cardinality(K)
    BY <1>4
  <2> HIDE DEF A
  <2> QED
    BY <1>1, <1>2, <1>7, <2>1, <2>2
<1> HIDE DEF A
<1>6. ASSUME NEW j \in 1..Cardinality(L) PROVE InOrder(L)[j] = InOrder(K)[n + j]
  <2> DEFINE x == InOrder(L)[j]
             B == {i \in L : i <= x}
  <2>0. L \in SUBSET Nat /\ IsFiniteSet(L) /\ j \in 1..Cardinality(L)
    BY <1>1, <1>2, <1>6
  <2>1. x \in L /\ Rank(L, x) = j
    <3>1. InOrder(L) \in [1..Cardinality(L) -> L] /\ Rank(L, InOrder(L)[j]) = j
      BY <2>0, PlacesInOrder
    <3> QED
      BY <2>0, <3>1
  <2>7. x \in K /\ x > k
    BY <2>1, <1>9
  <2> HIDE DEF x
  <2>2. {i \in K : i <= x} = A \cup B
    <3>1. ASSUME NEW i PROVE i \in K /\ i <= x <=> i \in A \cup B
      BY <1>0, <1>1, <1>9, <2>7 DEF A
    <3> QED
      BY <3>1
  <2>3. Cardinality(B) = j
    BY <2>1 DEF Rank, x
  <2>4. Rank(K, x) = n + j
    BY <1>3, <2>2, <2>3 DEF Rank
  <2>5. x \in K
    BY <1>1, <2>1
  <2>6. InOrder(K)[Rank(K, x)] = x
    BY <2>5, PlacesInOrder
  <2> QED
    BY <2>4, <2>6 DEF x
<1> QED
  BY <1>5, <1>6

(***************************************************************************)
(* Matching.                                                               *)
(***************************************************************************)
LEMMA FunctionIsSequence ==
    ASSUME NEW m \in Nat, NEW S, NEW f \in [1..m -> S]
    PROVE  f \in Seq(S) /\ Len(f) = m /\ DOMAIN f = 1..m
<1>1. f \in Seq(S)
  BY SeqDef
<1>2. DOMAIN f = 1..m /\ DOMAIN f = 1..Len(f) /\ Len(f) \in Nat
  BY <1>1
<1> QED
  BY <1>1, <1>2

LEMMA RangeIsFinite ==
    ASSUME NEW m \in Nat, NEW f, DOMAIN f = 1..m
    PROVE  IsFiniteSet(Range(f))
<1>1. IsFiniteSet(1..m)
  BY FS_Interval
<1> DEFINE g == [n \in 1..m |-> f[n]]
<1>2. g \in Surjection(1..m, Range(f))
  BY DEF Surjection, Range
<1> QED
  BY <1>1, <1>2, FS_Surjection

\* A row names one record or none.
LEMMA TargetIsSole ==
    ASSUME NEW records, IsFiniteSet(records), NEW row
    PROVE  Target(row, records) = {} \/ \E p \in records : Target(row, records) = {p}
<1>1. ASSUME NEW S \in SUBSET records
      PROVE  Sole(S) = {} \/ \E p \in records : Sole(S) = {p}
  <2>1. IsFiniteSet(S)
    BY FS_Subset
  <2> QED
    BY <2>1, FS_Singleton DEF Sole
<1> QED
  BY <1>1 DEF Target, ByProviderRef, ByExternalRef

\* The rows up to the n-th that may take a record, and what they name.
Takers(rows, n) == {k \in 1..n : FirstOfItsTransaction(rows, k)}

Named(rows, records, n) == UNION {Target(rows[k], records) : k \in Takers(rows, n)}

LEMMA SeenOrFirst ==
    ASSUME NEW rows, NEW n
    PROVE  rows[n].txn \in SeenBefore(rows, n) <=> ~FirstOfItsTransaction(rows, n)
  BY DEF SeenBefore, FirstOfItsTransaction

\* The loop has consumed what the first row of each transaction named.
LEMMA ConsumedIsNamed ==
    ASSUME NEW rows, Len(rows) \in Nat, NEW records, NEW n \in 0..Len(rows)
    PROVE  Consumed(rows, records)[n] = Named(rows, records, n)
<1> DEFINE L == Len(rows)
           Rec(g) == [i \in 0..L |->
                         IF i = 0 THEN {}
                         ELSE g[i - 1] \cup IF rows[i].txn \in SeenBefore(rows, i) THEN {}
                                            ELSE Target(rows[i], records)]
           c == Consumed(rows, records)
           h == [i \in 0..L |-> Named(rows, records, i)]
<1>1. \A i \in 0..L : h[i] = Rec(h)[i]
  <2>1. Named(rows, records, 0) = {}
    BY DEF Named, Takers
  <2>2. ASSUME NEW i \in 1..L
        PROVE  Named(rows, records, i) =
                 Named(rows, records, i - 1) \cup
                 IF rows[i].txn \in SeenBefore(rows, i) THEN {} ELSE Target(rows[i], records)
    <3>1. 1..i = 1..(i - 1) \cup {i}
      OBVIOUS
    <3>2. Takers(rows, i) = Takers(rows, i - 1) \cup
                            IF rows[i].txn \in SeenBefore(rows, i) THEN {} ELSE {i}
      BY <3>1, SeenOrFirst DEF Takers
    <3> QED
      BY <3>2 DEF Named
  <2>3. \A i \in 1..L : i - 1 \in 0..L
    OBVIOUS
  <2> QED
    BY <2>1, <2>2, <2>3
<1>2. h = Rec(h)
  BY <1>1
<1>3. c = CHOOSE g : g = Rec(g)
  BY DEF Consumed
<1> HIDE DEF c, h
<1>4. c = Rec(c)
  BY <1>2, <1>3
<1>5. \A i \in 0..L : c[i] = h[i]
  <2> DEFINE Wrong == {i \in 0..L : c[i] # h[i]}
  <2> SUFFICES ASSUME Wrong # {} PROVE FALSE
    OBVIOUS
  <2>0. Wrong \in SUBSET Nat /\ Wrong # {}
    OBVIOUS
  <2>4. \A j \in 0..L : c[j] # h[j] => j \in Wrong
    OBVIOUS
  <2>5. \A j \in Wrong : j \in 0..L /\ c[j] # h[j]
    OBVIOUS
  <2> HIDE DEF Wrong
  <2>1. PICK i \in Wrong : \A j \in Wrong : i <= j
    BY <2>0, LeastElement
  <2>2. c[i] = Rec(c)[i] /\ h[i] = Rec(h)[i]
    BY <1>2, <1>4
  <2>3. i # 0 => i - 1 \in 0..L /\ c[i - 1] = h[i - 1]
    <3>1. i \in 0..L
      BY <2>5
    <3> QED
      BY <2>1, <2>4, <3>1
  <2> QED
    BY <2>2, <2>3, <2>5
<1> QED
  BY <1>5 DEF c, h

\* What the loop makes of the n-th row.
RowResult(rows, records, n) ==
    ClassifyRow(rows[n], records, SeenBefore(rows, n), Consumed(rows, records)[n - 1])

\* Nothing is left of a target exactly if an earlier first row named it.
LEMMA TakesIfLeft ==
    ASSUME NEW rows, Len(rows) \in Nat, NEW records, IsFiniteSet(records),
           NEW n \in 1..Len(rows), FirstOfItsTransaction(rows, n)
    PROVE  Takes(rows, records, n)
             <=> ~(Target(rows[n], records) \subseteq Consumed(rows, records)[n - 1])
<1> DEFINE target == Target(rows[n], records)
<1>1. Consumed(rows, records)[n - 1] = Named(rows, records, n - 1)
  BY ConsumedIsNamed
<1>2. CASE target = {}
  BY <1>2 DEF Takes
<1>3. CASE target # {}
  <2>1. PICK p : target = {p}
    BY <1>3, TargetIsSole
  <2>2. \A k \in 1..(n - 1) : p \in Target(rows[k], records) <=> Target(rows[k], records) = target
    BY <2>1, TargetIsSole
  <2>3. target \subseteq Named(rows, records, n - 1) <=> \E k \in Takers(rows, n - 1) : p \in Target(rows[k], records)
    BY <2>1 DEF Named
  <2> QED
    BY <1>1, <1>3, <2>2, <2>3 DEF Takes, Takers
<1> QED
  BY <1>2, <1>3

LEMMA RowsAreAccounted ==
    ASSUME NEW rows, Len(rows) \in Nat, NEW records, IsFiniteSet(records),
           NEW n \in 1..Len(rows), NEW r, r = RowResult(rows, records, n)
    PROVE  /\ RowAccountedFor(rows, records, n, r)
           /\ r.bucket \in Buckets /\ r.currency = rows[n].currency
<1> DEFINE row == rows[n]
           target == Target(row, records)
           consumed == Consumed(rows, records)[n - 1]
<1>0. (CHOOSE x \in {row} : TRUE) = row
  OBVIOUS
<1>1. CASE ~FirstOfItsTransaction(rows, n)
  <2>1. r = Result("duplicate_provider_row", {row}, {})
    BY <1>1, SeenOrFirst DEF RowResult, ClassifyRow
  <2> QED
    BY <1>0, <1>1, <2>1 DEF Result, RowAccountedFor, Takes, Buckets, Mismatches
<1>2. CASE FirstOfItsTransaction(rows, n) /\ ~Takes(rows, records, n)
  <2>1. r = Result("provider_only", {row}, {})
    BY <1>2, SeenOrFirst, TakesIfLeft DEF RowResult, ClassifyRow
  <2> QED
    BY <1>0, <1>2, <2>1 DEF Result, RowAccountedFor, Buckets, Mismatches
<1>3. CASE Takes(rows, records, n)
  <2>1. FirstOfItsTransaction(rows, n) /\ target # {}
    BY <1>3 DEF Takes
  <2>2. PICK p : target = {p}
    BY <2>1, TargetIsSole
  <2>3. r = Result(BucketOf(row, CHOOSE x \in target : TRUE), {row}, target)
    BY <1>3, <2>1, SeenOrFirst, TakesIfLeft DEF RowResult, ClassifyRow
  <2>4. (CHOOSE x \in target : TRUE) = p
    BY <2>2
  <2> HIDE DEF target, row
  <2>5. r = Result(BucketOf(row, p), {row}, {p})
    BY <2>2, <2>3, <2>4
  <2>6. r.bucket = BucketOf(row, p) /\ r.row = {row} /\ r.record = {p} /\ r.currency = row.currency
    BY <1>0, <2>5 DEF Result
  <2>7. /\ BucketOf(row, p) \in Buckets
        /\ BucketOf(row, p) = "matched_exact" <=>
              p.currency = row.currency /\ Amounts(p) = Amounts(row) /\ row.status = "succeeded"
        /\ BucketOf(row, p) = "currency_mismatch" <=> p.currency # row.currency
        /\ BucketOf(row, p) = "amount_mismatch" => p.currency = row.currency /\ Amounts(p) # Amounts(row)
    BY DEF BucketOf, Buckets, Mismatches
  <2> QED
    BY <1>3, <2>2, <2>6, <2>7 DEF RowAccountedFor, target, row
<1> QED
  BY <1>1, <1>2, <1>3

\* What first rows name is what rows take.
LEMMA TakenIsNamed ==
    ASSUME NEW rows, Len(rows) \in Nat, NEW records, IsFiniteSet(records)
    PROVE  Named(rows, records, Len(rows))
             = UNION {RowResult(rows, records, n).record : n \in 1..Len(rows)}
<1> DEFINE T == {RowResult(rows, records, n).record : n \in 1..Len(rows)}
<1>1. \A n \in 1..Len(rows) : RowResult(rows, records, n).record =
          IF Takes(rows, records, n) THEN Target(rows[n], records) ELSE {}
  BY RowsAreAccounted DEF RowAccountedFor
<1>2. ASSUME NEW p \in Named(rows, records, Len(rows)) PROVE p \in UNION T
  <2> DEFINE K == {k \in Takers(rows, Len(rows)) : p \in Target(rows[k], records)}
  <2>1. K \in SUBSET Nat /\ K # {}
    BY <1>2 DEF Named, Takers
  <2>2. PICK k \in K : \A j \in K : k <= j
    BY <2>1, LeastElement
  <2>3. k \in 1..Len(rows) /\ FirstOfItsTransaction(rows, k) /\ p \in Target(rows[k], records)
    BY DEF Takers
  <2>4. ASSUME NEW j \in 1..(k - 1), FirstOfItsTransaction(rows, j)
        PROVE  Target(rows[j], records) # Target(rows[k], records)
    <3>1. j \in 1..Len(rows) /\ ~(k <= j)
      BY <2>3
    <3>2. j \notin K
      BY <2>2, <3>1
    <3> QED
      BY <2>3, <2>4, <3>1, <3>2 DEF Takers
  <2>5. Takes(rows, records, k)
    BY <2>3, <2>4 DEF Takes
  <2> QED
    BY <1>1, <2>3, <2>5
<1>3. ASSUME NEW p \in UNION T PROVE p \in Named(rows, records, Len(rows))
  <2>1. PICK n \in 1..Len(rows) : p \in RowResult(rows, records, n).record
    BY <1>3
  <2>2. Takes(rows, records, n) /\ p \in Target(rows[n], records)
    BY <1>1, <2>1
  <2> QED
    BY <2>2 DEF Takes, Named, Takers
<1> QED
  BY <1>2, <1>3

(***************************************************************************)
(* The results of a report.                                                *)
(***************************************************************************)
DiffersThroughout(s) == \A m, n \in DOMAIN s : s[m] = s[n] => m = n

\* A sequence of different elements, and one that lists the elements of a set.
Listing(s) == (\E m \in Nat : DOMAIN s = 1..m) /\ DiffersThroughout(s)

Lists(s, S) ==
    /\ IsFiniteSet(S)
    /\ s \in [1..Cardinality(S) -> S]
    /\ \A p \in S : \E j \in 1..Cardinality(S) : s[j] = p

\* What is left over: each element that was not consumed, once.
LEMMA LeftOverIsTheRest ==
    ASSUME NEW platform, Listing(platform), NEW consumed
    PROVE  Lists(LeftOver(platform, consumed), Range(platform) \ consumed)
<1>15. PICK m \in Nat : DOMAIN platform = 1..m
  BY DEF Listing
<1>16. DiffersThroughout(platform)
  BY DEF Listing
<1> DEFINE K == {n \in DOMAIN platform : platform[n] \notin consumed}
           g == [n \in K |-> platform[n]]
           rest == Range(platform) \ consumed
           left == LeftOver(platform, consumed)
<1>1. K \in SUBSET Nat /\ K \in SUBSET (1..m) /\ IsFiniteSet(1..m)
  BY <1>15, FS_Interval
<1>2. IsFiniteSet(K)
  BY <1>1, FS_Subset
<1>3. g \in Bijection(K, rest)
  BY <1>16 DEF Bijection, Injection, IsInjective, Surjection, Range, DiffersThroughout
<1>10. \A n \in K : platform[n] \in rest
  BY DEF Range
<1>11. \A p \in rest : \E n \in K : platform[n] = p
  BY DEF Range
<1>12. left = Filtered(platform, K)
  BY DEF LeftOver
<1> HIDE DEF K, g, rest, left
<1>13. ExistsBijection(K, rest)
  BY <1>3 DEF ExistsBijection
<1>4. IsFiniteSet(rest) /\ Cardinality(K) = Cardinality(rest)
  BY <1>2, <1>13, FS_Bijection
<1>5. /\ InOrder(K) \in [1..Cardinality(K) -> K]
      /\ \A k \in K : \E j \in 1..Cardinality(K) : InOrder(K)[j] = k
  BY <1>1, <1>2, PlacesInOrder
<1>6. left = [j \in 1..Cardinality(K) |-> platform[InOrder(K)[j]]]
  BY <1>5, <1>12 DEF Filtered
<1>7. left \in [1..Cardinality(rest) -> rest]
  BY <1>4, <1>5, <1>6, <1>10
<1>8. ASSUME NEW p \in rest PROVE \E j \in 1..Cardinality(rest) : left[j] = p
  <2>1. PICK n \in K : platform[n] = p
    BY <1>11
  <2>2. PICK j \in 1..Cardinality(K) : InOrder(K)[j] = n
    BY <1>5
  <2> QED
    BY <1>4, <1>6, <2>1, <2>2
<1> QED
  BY <1>4, <1>7, <1>8 DEF Lists, rest, left

\* Two functions from places on, put one after the other.
LEMMA Joined ==
    ASSUME NEW a \in Nat, NEW b \in Nat, NEW f, f = [n \in 1..a |-> f[n]],
           NEW g, g = [n \in 1..b |-> g[n]]
    PROVE  /\ Len(f \o g) = a + b /\ DOMAIN (f \o g) = 1..(a + b)
           /\ \A n \in 1..a : (f \o g)[n] = f[n]
           /\ \A j \in 1..b : (f \o g)[a + j] = g[j]
<1> DEFINE S == {f[n] : n \in 1..a} \cup {g[n] : n \in 1..b}
<1>1. f \in [1..a -> S] /\ g \in [1..b -> S]
  OBVIOUS
<1> HIDE DEF S
<1>2. f \in Seq(S) /\ Len(f) = a /\ g \in Seq(S) /\ Len(g) = b
  BY <1>1, FunctionIsSequence
<1>3. /\ f \o g \in Seq(S) /\ Len(f \o g) = a + b
      /\ \A i \in 1..(a + b) : (f \o g)[i] = IF i <= a THEN f[i] ELSE g[i - a]
  BY <1>2, ConcatProperties
<1>4. DOMAIN (f \o g) = 1..(a + b)
  BY <1>3
<1>5. ASSUME NEW n \in 1..a PROVE (f \o g)[n] = f[n]
  BY <1>3
<1>6. ASSUME NEW j \in 1..b PROVE (f \o g)[a + j] = g[j]
  <2>1. a + j \in 1..(a + b) /\ ~(a + j <= a) /\ (a + j) - a = j
    OBVIOUS
  <2> QED
    BY <1>3, <2>1
<1> QED
  BY <1>3, <1>4, <1>5, <1>6

\* The records no row takes.
Untaken(rows, platform) ==
    Range(platform) \ UNION {RowResult(rows, Range(platform), n).record : n \in 1..Len(rows)}

\* The rows' results, then those of the rest.
RowsThenRest(results, rows, records, rest) ==
    /\ IsFiniteSet(rest) /\ Cardinality(rest) \in Nat
    /\ Len(results) = Len(rows) + Cardinality(rest)
    /\ DOMAIN results = 1..(Len(rows) + Cardinality(rest))
    /\ \A n \in 1..Len(rows) : results[n] = RowResult(rows, records, n)
    /\ \A j \in 1..Cardinality(rest) : \E p \in rest :
          results[Len(rows) + j] = Result("platform_only", {}, {p})
    /\ \A p \in rest : \E j \in 1..Cardinality(rest) :
          results[Len(rows) + j] = Result("platform_only", {}, {p})

LEMMA Classified ==
    ASSUME NEW rows, Len(rows) \in Nat, NEW platform, Listing(platform)
    PROVE  RowsThenRest(classifyReconciliation(rows, platform), rows, Range(platform),
                        Untaken(rows, platform))
<1> DEFINE results == classifyReconciliation(rows, platform)
           rest == Untaken(rows, platform)
           records == Range(platform)
           consumed == Consumed(rows, records)[Len(rows)]
           left == LeftOver(platform, consumed)
           f == [n \in 1..Len(rows) |-> RowResult(rows, records, n)]
           g == [n \in 1..Len(left) |-> Result("platform_only", {}, {left[n]})]
<1>1. IsFiniteSet(records)
  BY RangeIsFinite DEF Listing
<1>2. consumed = Named(rows, records, Len(rows))
  <2>1. Len(rows) \in 0..Len(rows)
    OBVIOUS
  <2> QED
    BY <2>1, ConsumedIsNamed
<1>3. rest = records \ consumed
  BY <1>1, <1>2, TakenIsNamed DEF Untaken, rest
<1>4. results = f \o g
  BY DEF classifyReconciliation, RowResult
<1> HIDE DEF consumed
<1>11. left = LeftOver(platform, consumed)
  OBVIOUS
<1> HIDE DEF left, rest, results
<1>5. /\ IsFiniteSet(rest)
      /\ left \in [1..Cardinality(rest) -> rest]
      /\ \A p \in rest : \E j \in 1..Cardinality(rest) : left[j] = p
  <2>1. Lists(LeftOver(platform, consumed), Range(platform) \ consumed)
    BY LeftOverIsTheRest
  <2>2. Lists(left, rest)
    BY <1>3, <1>11, <2>1
  <2> QED
    BY <2>2 DEF Lists
<1>6. Cardinality(rest) \in Nat
  BY <1>5, FS_CardinalityType
<1> HIDE DEF records
<1>7. Len(left) = Cardinality(rest)
  BY <1>5, <1>6, FunctionIsSequence
<1>8. /\ Len(results) = Len(rows) + Cardinality(rest)
      /\ DOMAIN results = 1..(Len(rows) + Cardinality(rest))
      /\ \A n \in 1..Len(rows) : results[n] = f[n]
      /\ \A j \in 1..Cardinality(rest) : results[Len(rows) + j] = g[j]
  <2>1. f = [n \in 1..Len(rows) |-> f[n]] /\ g = [n \in 1..Cardinality(rest) |-> g[n]]
    BY <1>7
  <2> HIDE DEF f, g
  <2> QED
    BY <1>4, <1>6, <2>1, Joined
<1>9. \A n \in 1..Len(rows) : results[n] = RowResult(rows, records, n)
  BY <1>8
<1>10. \A j \in 1..Cardinality(rest) :
          results[Len(rows) + j] = Result("platform_only", {}, {left[j]}) /\ left[j] \in rest
  BY <1>5, <1>7, <1>8
<1> HIDE DEF f, g
<1>12. \A p \in rest : \E j \in 1..Cardinality(rest) :
          results[Len(rows) + j] = Result("platform_only", {}, {p})
  BY <1>5, <1>10
<1>13. \A j \in 1..Cardinality(rest) : \E p \in rest :
          results[Len(rows) + j] = Result("platform_only", {}, {p})
  BY <1>10
<1>14. IsFiniteSet(rest)
  BY <1>5
<1> QED
  BY <1>6, <1>8, <1>9, <1>12, <1>13, <1>14 DEF records, rest, results, RowsThenRest

\* A file whose rows have known currencies, and the platform's records.
Reportable(rows, platform) ==
    /\ Len(rows) \in Nat
    /\ \A n \in 1..Len(rows) : rows[n].currency \in Currencies
    /\ Listing(platform)
    /\ \A p \in Range(platform) : p.currency \in Currencies

\* Where each result comes from, its bucket and its currency.
LEMMA ResultsTyped ==
    ASSUME NEW rows, NEW platform, Reportable(rows, platform),
           NEW results, results = classifyReconciliation(rows, platform)
    PROVE  /\ Len(results) \in Nat /\ DOMAIN results = 1..Len(results)
           /\ \A n \in DOMAIN results :
                 results[n].bucket \in Buckets /\ results[n].currency \in Currencies
<1> DEFINE rest == Untaken(rows, platform)
<1>1. Len(rows) \in Nat /\ Listing(platform)
  BY DEF Reportable
<1>2. IsFiniteSet(Range(platform))
  BY <1>1, RangeIsFinite DEF Listing
<1>3. /\ Cardinality(rest) \in Nat
      /\ Len(results) = Len(rows) + Cardinality(rest)
      /\ DOMAIN results = 1..(Len(rows) + Cardinality(rest))
      /\ \A n \in 1..Len(rows) : results[n] = RowResult(rows, Range(platform), n)
      /\ \A j \in 1..Cardinality(rest) : \E p \in rest :
            results[Len(rows) + j] = Result("platform_only", {}, {p})
  <2>1. RowsThenRest(results, rows, Range(platform), Untaken(rows, platform))
    BY <1>1, Classified
  <2> QED
    BY <2>1 DEF RowsThenRest
<1>4. \A p \in rest : p.currency \in Currencies
  BY DEF Reportable, Untaken
<1> HIDE DEF rest
<1>5. ASSUME NEW n \in 1..Len(rows)
      PROVE  results[n].bucket \in Buckets /\ results[n].currency \in Currencies
  <2>1. results[n].bucket \in Buckets /\ results[n].currency = rows[n].currency
    BY <1>1, <1>2, <1>3, RowsAreAccounted
  <2> QED
    BY <2>1 DEF Reportable
<1>6. ASSUME NEW j \in 1..Cardinality(rest)
      PROVE  /\ results[Len(rows) + j].bucket \in Buckets
             /\ results[Len(rows) + j].currency \in Currencies
  <2>1. PICK p \in rest : results[Len(rows) + j] = Result("platform_only", {}, {p})
    BY <1>3
  <2>2. (CHOOSE r \in {p} : TRUE) = p
    OBVIOUS
  <2> QED
    BY <1>4, <2>1, <2>2 DEF Result, Buckets, Mismatches
<1>7. ASSUME NEW n \in DOMAIN results
      PROVE  results[n].bucket \in Buckets /\ results[n].currency \in Currencies
  <2>1. CASE n \in 1..Len(rows)
    BY <1>5, <2>1
  <2>2. CASE n \notin 1..Len(rows)
    <3>1. n - Len(rows) \in 1..Cardinality(rest) /\ Len(rows) + (n - Len(rows)) = n
      BY <1>1, <1>3, <2>2
    <3> QED
      BY <1>6, <3>1
  <2> QED
    BY <2>1, <2>2
<1> QED
  BY <1>1, <1>3, <1>7

\* A result for every row, and one for every record that no row took.
EachOnce(rows, records, results, taken, left) ==
    /\ \A n \in 1..Len(rows) : RowAccountedFor(rows, records, n, results[n])
    /\ {results[n].record : n \in left} = {{p} : p \in records \ taken}
    /\ Cardinality(left) = Cardinality(records \ taken)

LEMMA RecordsAreAccounted ==
    ASSUME NEW rows, NEW platform, Reportable(rows, platform),
           NEW results, results = classifyReconciliation(rows, platform)
    PROVE  EachOnce(rows, Range(platform), results,
                    UNION {results[n].record : n \in 1..Len(rows)},
                    {n \in DOMAIN results : n > Len(rows)})
<1> DEFINE taken == UNION {results[n].record : n \in 1..Len(rows)}
           left == {n \in DOMAIN results : n > Len(rows)}
           rest == Untaken(rows, platform)
           c == Cardinality(rest)
<1>1. Len(rows) \in Nat /\ Listing(platform)
  BY DEF Reportable
<1>2. IsFiniteSet(Range(platform))
  BY <1>1, RangeIsFinite DEF Listing
<1>3. /\ c \in Nat
      /\ DOMAIN results = 1..(Len(rows) + c)
      /\ \A n \in 1..Len(rows) : results[n] = RowResult(rows, Range(platform), n)
      /\ \A j \in 1..c : \E p \in rest :
            results[Len(rows) + j] = Result("platform_only", {}, {p})
      /\ \A p \in rest : \E j \in 1..c :
            results[Len(rows) + j] = Result("platform_only", {}, {p})
  <2>1. RowsThenRest(results, rows, Range(platform), Untaken(rows, platform))
    BY <1>1, Classified
  <2> QED
    BY <2>1 DEF RowsThenRest
<1>4. rest = Range(platform) \ taken
  BY <1>3 DEF Untaken
<1>10. c = Cardinality(rest)
  OBVIOUS
<1> HIDE DEF rest, c, taken
<1>5. \A n \in 1..Len(rows) : RowAccountedFor(rows, Range(platform), n, results[n])
  BY <1>1, <1>2, <1>3, RowsAreAccounted
<1>6. left = (Len(rows) + 1)..(Len(rows) + c)
  BY <1>1, <1>3
<1>7. \A p : Result("platform_only", {}, {p}).record = {p}
  BY DEF Result
<1> HIDE DEF left
<1>8. {results[n].record : n \in left} = {{p} : p \in rest}
  <2>1. ASSUME NEW n \in left PROVE \E p \in rest : results[n].record = {p}
    <3> DEFINE j == n - Len(rows)
    <3>1. j \in 1..c /\ Len(rows) + j = n
      BY <1>1, <1>3, <1>6
    <3> HIDE DEF j
    <3>2. PICK p \in rest : results[Len(rows) + j] = Result("platform_only", {}, {p})
      BY <1>3, <3>1
    <3> QED
      BY <1>7, <3>1, <3>2
  <2>2. ASSUME NEW p \in rest PROVE \E n \in left : results[n].record = {p}
    <3>1. PICK j \in 1..c : results[Len(rows) + j] = Result("platform_only", {}, {p})
      BY <1>3
    <3>2. Len(rows) + j \in left
      BY <1>1, <1>3, <1>6
    <3> QED
      BY <1>7, <3>1, <3>2
  <2> DEFINE A == {results[n].record : n \in left}
             B == {{p} : p \in rest}
  <2>3. ASSUME NEW x \in A PROVE x \in B
    <3>1. PICK n \in left : x = results[n].record
      OBVIOUS
    <3>2. PICK p \in rest : results[n].record = {p}
      BY <2>1
    <3> QED
      BY <3>1, <3>2
  <2>4. ASSUME NEW x \in B PROVE x \in A
    <3>1. PICK p \in rest : x = {p}
      OBVIOUS
    <3>2. PICK n \in left : results[n].record = {p}
      BY <2>2
    <3> QED
      BY <3>1, <3>2
  <2> QED
    BY <2>3, <2>4
<1>9. Cardinality(left) = c
  <2>1. Len(rows) + 1 \in Int /\ Len(rows) + c \in Int
    BY <1>1, <1>3
  <2>2. Cardinality(left) = IF Len(rows) + 1 > Len(rows) + c THEN 0
                            ELSE (Len(rows) + c) - (Len(rows) + 1) + 1
    BY <1>6, <2>1, FS_Interval
  <2> QED
    BY <1>1, <1>3, <2>2
<1> QED
  BY <1>4, <1>5, <1>8, <1>9, <1>10 DEF EachOnce, taken, left

\* Each result counts in its bucket and in its currency, once.
LEMMA CountsAddUp ==
    ASSUME NEW rows, NEW platform, Reportable(rows, platform),
           NEW results, results = classifyReconciliation(rows, platform),
           NEW b \in Buckets
    PROVE  Summaries(results)["ETB"].count[b] + Summaries(results)["USD"].count[b]
             = Cardinality({n \in DOMAIN results : results[n].bucket = b})
<1> DEFINE In(c) == {n \in {k \in DOMAIN results : results[k].currency = c} : results[n].bucket = b}
           all == {n \in DOMAIN results : results[n].bucket = b}
<1>1. /\ Len(results) \in Nat /\ DOMAIN results = 1..Len(results)
      /\ \A n \in DOMAIN results : results[n].currency \in Currencies
  BY ResultsTyped
<1>2. \A c \in Currencies : Summaries(results)[c].count[b] = Cardinality(In(c))
  BY DEF Summaries, Summary
<1>3. all = In("ETB") \cup In("USD") /\ In("ETB") \cap In("USD") = {}
  BY <1>1 DEF Currencies
<1>4. all \in SUBSET (1..Len(results)) /\ IsFiniteSet(1..Len(results))
      /\ In("ETB") \in SUBSET all /\ In("USD") \in SUBSET all
  BY <1>1, FS_Interval
<1> HIDE DEF In, all
<1>5. IsFiniteSet(all)
  BY <1>4, FS_Subset
<1>6. IsFiniteSet(In("ETB")) /\ IsFiniteSet(In("USD"))
  BY <1>4, <1>5, FS_Subset
<1>7. Cardinality(In("ETB")) \in Nat /\ Cardinality(In("USD")) \in Nat
  BY <1>6, FS_CardinalityType
<1>8. Cardinality(In("ETB") \cup In("USD"))
        = Cardinality(In("ETB")) + Cardinality(In("USD")) - Cardinality(In("ETB") \cap In("USD"))
  BY <1>6, FS_Union
<1>9. Cardinality(In("ETB") \cap In("USD")) = 0
  BY <1>3, FS_EmptySet
<1>10. Cardinality(all) = Cardinality(In("ETB")) + Cardinality(In("USD"))
  BY <1>3, <1>7, <1>8, <1>9
<1>11. "ETB" \in Currencies /\ "USD" \in Currencies
  BY DEF Currencies
<1> QED
  BY <1>2, <1>10, <1>11 DEF all

\* The event counts the mismatches.
LEMMA EventCounts ==
    ASSUME NEW rows, NEW platform, Reportable(rows, platform),
           NEW results, results = classifyReconciliation(rows, platform)
    PROVE  Len(results) - MatchedExactCount(results) = Cardinality(Mismatched(results))
<1> DEFINE matched == {n \in DOMAIN results : results[n].bucket = "matched_exact"}
           mismatched == Mismatched(results)
           L == Len(results)
<1>1. L \in Nat /\ DOMAIN results = 1..L
  BY ResultsTyped
<1>2. matched \in SUBSET (1..L) /\ mismatched \in SUBSET (1..L) /\ IsFiniteSet(1..L)
      /\ matched \cup mismatched = 1..L /\ matched \cap mismatched = {}
  <2>1. matched \in SUBSET DOMAIN results /\ mismatched \in SUBSET DOMAIN results
    BY DEF Mismatched
  <2>2. matched \cup mismatched = DOMAIN results
    BY DEF Mismatched
  <2>3. matched \cap mismatched = {}
    BY DEF Mismatched
  <2>4. IsFiniteSet(1..L)
    BY <1>1, FS_Interval
  <2> HIDE DEF matched, mismatched
  <2> QED
    BY <1>1, <2>1, <2>2, <2>3, <2>4
<1>3. MatchedExactCount(results) = Cardinality(matched)
  BY DEF MatchedExactCount
<1> HIDE DEF matched, mismatched, L
<1>4. IsFiniteSet(matched) /\ IsFiniteSet(mismatched)
  BY <1>2, FS_Subset
<1>5. Cardinality(matched) \in Nat /\ Cardinality(mismatched) \in Nat
  BY <1>4, FS_CardinalityType
<1>6. Cardinality(1..L) = Cardinality(matched) + Cardinality(mismatched) - 0
  BY <1>2, <1>4, FS_Union, FS_EmptySet
<1>7. Cardinality(1..L) = L
  <2>1. Cardinality(1..L) = IF 1 > L THEN 0 ELSE L - 1 + 1
    BY <1>1, FS_Interval
  <2> QED
    BY <1>1, <2>1
<1> QED
  BY <1>3, <1>5, <1>6, <1>7 DEF mismatched, L

\* A mismatch counts in the backlog of its currency.
LEMMA MismatchIsInBacklog ==
    ASSUME NEW rows, NEW platform, Reportable(rows, platform),
           NEW results, results = classifyReconciliation(rows, platform),
           Mismatched(results) # {}
    PROVE  \E c \in Currencies : InBacklog(Summaries(results)[c])
<1>1. /\ Len(results) \in Nat /\ DOMAIN results = 1..Len(results)
      /\ \A n \in DOMAIN results :
            results[n].bucket \in Buckets /\ results[n].currency \in Currencies
  BY ResultsTyped
<1>2. PICK n \in DOMAIN results : results[n].bucket # "matched_exact"
  BY DEF Mismatched
<1> DEFINE c == results[n].currency
           b == results[n].bucket
           S == {k \in {i \in DOMAIN results : results[i].currency = c} : results[k].bucket = b}
<1>3. c \in Currencies /\ b \in Mismatches /\ b \in Buckets
  BY <1>1, <1>2 DEF Buckets
<1>4. Summaries(results)[c].count[b] = Cardinality(S)
  BY <1>3 DEF Summaries, Summary
<1>5. n \in S /\ S \in SUBSET (1..Len(results)) /\ IsFiniteSet(1..Len(results))
  BY <1>1, FS_Interval
<1> HIDE DEF S, c, b
<1>6. IsFiniteSet(S)
  BY <1>5, FS_Subset
<1>7. Cardinality(S) \in Nat /\ Cardinality(S) # 0
  BY <1>5, <1>6, FS_CardinalityType, FS_EmptySet
<1>8. Summaries(results)[c].count[b] > 0
  BY <1>4, <1>7
<1> QED
  BY <1>3, <1>8 DEF InBacklog

(***************************************************************************)
(* Pages.                                                                  *)
(***************************************************************************)
Due(results, after) == InOrder({n \in Mismatched(results) : n > after})

LEMMA DueTyped ==
    ASSUME NEW results, Len(results) \in Nat, DOMAIN results = 1..Len(results),
           NEW after \in 0..Len(results)
    PROVE  /\ Due(results, after) \in Seq(1..Len(results))
           /\ Len(Due(results, after)) = Cardinality({n \in Mismatched(results) : n > after})
           /\ \A j \in 1..Len(Due(results, after)) : Due(results, after)[j] > after
           /\ Due(results, after) \in [1..Len(Due(results, after)) -> 1..Len(results)]
<1> DEFINE K == {n \in Mismatched(results) : n > after}
<1>1. K \in SUBSET Nat /\ K \in SUBSET (1..Len(results)) /\ IsFiniteSet(1..Len(results))
  <2>1. IsFiniteSet(1..Len(results))
    BY FS_Interval
  <2>2. Mismatched(results) \in SUBSET (1..Len(results))
    BY DEF Mismatched
  <2> QED
    BY <2>1, <2>2
<1>5. Due(results, after) = InOrder(K)
  BY DEF Due
<1>6. \A k \in K : k > after
  OBVIOUS
<1> HIDE DEF K
<1>2. IsFiniteSet(K) /\ Cardinality(K) \in Nat
  BY <1>1, FS_Subset, FS_CardinalityType
<1>3. InOrder(K) \in [1..Cardinality(K) -> K]
  BY <1>1, <1>2, PlacesInOrder
<1>4. InOrder(K) \in [1..Cardinality(K) -> 1..Len(results)]
  BY <1>1, <1>3
<1>7. /\ InOrder(K) \in Seq(1..Len(results)) /\ Len(InOrder(K)) = Cardinality(K)
  BY <1>2, <1>4, FunctionIsSequence
<1> QED
  BY <1>3, <1>4, <1>5, <1>6, <1>7 DEF K

\* A page is followed by what is due after its last mismatch.
LEMMA PageThenRest ==
    ASSUME NEW results, Len(results) \in Nat, DOMAIN results = 1..Len(results),
           NEW after \in 0..Len(results), NEW limit \in Nat \ {0},
           NEW page, page = ReportPage(results, limit, after)
    PROVE  \/ page.next = 0 /\ page.visible = Due(results, after)
           \/ /\ page.next \in 1..Len(results) /\ page.next > after
              /\ page.visible \o Due(results, page.next) = Due(results, after)
<1> DEFINE due == Due(results, after)
           L == Len(due)
           N == 1..Len(results)
<1>1. /\ due \in Seq(N) /\ L \in Nat
      /\ L = Cardinality({n \in Mismatched(results) : n > after})
      /\ \A j \in 1..L : due[j] > after /\ due[j] \in N
      /\ due \in [1..L -> N]
  <2> DEFINE d == Due(results, after)
  <2>1. /\ d \in Seq(1..Len(results))
        /\ Len(d) = Cardinality({n \in Mismatched(results) : n > after})
        /\ \A j \in 1..Len(d) : d[j] > after
        /\ d \in [1..Len(d) -> 1..Len(results)]
    BY DueTyped
  <2>2. due = d /\ L = Len(d) /\ N = 1..Len(results)
    OBVIOUS
  <2> HIDE DEF d, due, L, N
  <2>3. due \in Seq(N) /\ L \in Nat /\ due \in [1..L -> N]
    BY <2>1, <2>2
  <2> QED
    BY <2>1, <2>2, <2>3
<1>2. page = [visible |-> SubSeq(due, 1, IF L > limit THEN limit ELSE L),
              next |-> IF L > limit
                       THEN SubSeq(due, 1, IF L > limit THEN limit ELSE L)
                              [Len(SubSeq(due, 1, IF L > limit THEN limit ELSE L))]
                       ELSE 0]
  BY DEF ReportPage, Due
<1>3. CASE ~(L > limit)
  <2>1. SubSeq(due, 1, L) = due
    BY <1>1
  <2>2. page.visible = SubSeq(due, 1, L) /\ page.next = 0
    BY <1>2, <1>3
  <2> QED
    BY <2>1, <2>2
<1>4. CASE L > limit
  <2> DEFINE visible == SubSeq(due, 1, limit)
             last == due[limit]
             K == {n \in Mismatched(results) : n > after}
             rest == Due(results, last)
             R == {m \in K : m > InOrder(K)[limit]}
  <2>1. limit \in 1..L /\ limit \in Nat
    BY <1>1, <1>4
  <2>2. /\ visible \in Seq(N) /\ Len(visible) = limit
        /\ \A j \in 1..limit : visible[j] = due[j]
    <3>1. \A j \in 1..limit : due[j] \in N
      BY <1>1, <2>1
    <3> HIDE DEF due, L, N
    <3> QED
      BY <1>1, <2>1, <3>1, SubSeqProperties
  <2>3. page.visible = visible /\ page.next = last
    <3>1. page.visible = visible /\ page.next = visible[Len(visible)]
      BY <1>2, <1>4
    <3> QED
      BY <2>1, <2>2, <3>1
  <2>4. last \in N /\ last > after
    BY <1>1, <2>1
  <2>5. /\ K \in SUBSET Nat /\ K \in SUBSET (1..Len(results)) /\ IsFiniteSet(1..Len(results))
        /\ due = InOrder(K) /\ L = Cardinality(K)
    <3>1. IsFiniteSet(1..Len(results))
      BY FS_Interval
    <3>2. Mismatched(results) \in SUBSET (1..Len(results))
      BY DEF Mismatched
    <3>3. K \in SUBSET (1..Len(results))
      BY <3>2
    <3>4. due = InOrder(K) /\ L = Cardinality(K)
      BY <1>1 DEF Due
    <3> HIDE DEF K
    <3> QED
      BY <3>1, <3>3, <3>4
  <2>6. IsFiniteSet(K)
    BY <2>5, FS_Subset
  <2>7. R = {m \in Mismatched(results) : m > last} /\ last \in 0..Len(results)
    <3>1. \A m \in Mismatched(results) : m > last => m > after
      BY <2>4 DEF Mismatched
    <3>2. InOrder(K)[limit] = last
      BY <2>5
    <3> HIDE DEF last
    <3>3. R = {m \in K : m > last}
      BY <3>2
    <3> QED
      BY <2>4, <3>1, <3>3
  <2> HIDE DEF K, due, last, visible, rest
  <2>8. /\ Cardinality(R) = L - limit
        /\ \A j \in 1..Cardinality(R) : InOrder(R)[j] = due[limit + j]
    <3>1. limit \in 1..Cardinality(K)
      BY <2>1, <2>5
    <3>2. R = {m \in K : m > InOrder(K)[limit]}
      OBVIOUS
    <3> HIDE DEF R
    <3>3. /\ Cardinality(R) = Cardinality(K) - limit
          /\ \A j \in 1..Cardinality(R) : InOrder(R)[j] = InOrder(K)[limit + j]
      <4>1. K \in SUBSET Nat /\ IsFiniteSet(K)
        BY <2>5, <2>6
      <4> QED
        BY <4>1, <3>1, <3>2, PlacesAfter
    <3> QED
      BY <2>5, <3>3
  <2>9. /\ rest \in Seq(N) /\ Len(rest) = L - limit
        /\ \A j \in 1..(L - limit) : rest[j] = due[limit + j]
    <3>1. rest = InOrder(R)
      BY <2>7 DEF Due, rest
    <3>2. rest \in Seq(N) /\ Len(rest) = Cardinality(R)
      BY <2>7, DueTyped DEF rest
    <3> QED
      BY <2>8, <3>1, <3>2
  <2>10. visible \o rest = due
    <3>1. /\ visible \o rest \in Seq(N) /\ Len(visible \o rest) = limit + (L - limit)
          /\ \A i \in 1..(limit + (L - limit)) :
                (visible \o rest)[i] = IF i <= limit THEN visible[i] ELSE rest[i - limit]
      <4>1. visible \in Seq(N) /\ rest \in Seq(N) /\ Len(visible) = limit /\ Len(rest) = L - limit
        BY <2>2, <2>9
      <4> HIDE DEF N, L
      <4> QED
        BY <4>1, ConcatProperties
    <3>2. limit + (L - limit) = L
      BY <1>1, <2>1
    <3>3. ASSUME NEW i \in 1..L PROVE (visible \o rest)[i] = due[i]
      <4>1. CASE i <= limit
        BY <2>1, <2>2, <3>1, <3>2, <4>1
      <4>2. CASE ~(i <= limit)
        <5>1. i - limit \in 1..(L - limit) /\ limit + (i - limit) = i
          BY <1>1, <2>1, <4>2
        <5> QED
          BY <2>9, <3>1, <3>2, <4>2, <5>1
      <4> QED
        BY <4>1, <4>2
    <3>4. due \in Seq(N) /\ Len(due) = L
      BY <1>1
    <3> QED
      BY <3>1, <3>2, <3>3, <3>4, SeqEqual
  <2> QED
    BY <2>3, <2>4, <2>10 DEF rest, due, visible
<1> QED
  BY <1>3, <1>4

LEMMA PagesShowAll ==
    ASSUME NEW results, Len(results) \in Nat, DOMAIN results = 1..Len(results),
           NEW limit \in Nat \ {0}
    PROVE  PagesOf(results, limit) = InOrder(Mismatched(results))
<1> DEFINE L == Len(results)
           Page(a) == ReportPage(results, limit, a)
           Rec(g) == [a \in 0..L |-> LET page == ReportPage(results, limit, a)
                                     IN  page.visible \o IF page.next = 0 THEN <<>> ELSE g[page.next]]
           h == [a \in 0..L |-> Due(results, a)]
           from == CHOOSE g : g = Rec(g)
<1>1. ASSUME NEW a \in 0..L
      PROVE  \/ Page(a).next = 0 /\ Page(a).visible = Due(results, a)
             \/ /\ Page(a).next \in 1..L /\ Page(a).next > a
                /\ Page(a).visible \o Due(results, Page(a).next) = Due(results, a)
  BY PageThenRest
<1>2. \A a \in 0..L : Due(results, a) \o <<>> = Due(results, a)
  <2> SUFFICES ASSUME NEW a \in 0..L PROVE Due(results, a) \o <<>> = Due(results, a)
    OBVIOUS
  <2>1. Due(results, a) \in Seq(1..L)
    BY DueTyped
  <2> QED
    BY <2>1, ConcatEmptySeq
<1>3. \A g : Rec(g) = [a \in 0..L |-> Page(a).visible \o IF Page(a).next = 0 THEN <<>> ELSE g[Page(a).next]]
  OBVIOUS
<1>4. PagesOf(results, limit) = from[0]
  BY DEF PagesOf
<1> HIDE DEF Page, Rec, from
<1>5. h = Rec(h)
  <2>1. ASSUME NEW a \in 0..L
        PROVE  Due(results, a) = Page(a).visible \o IF Page(a).next = 0 THEN <<>> ELSE h[Page(a).next]
    BY <1>1, <1>2
  <2> QED
    BY <1>3, <2>1
<1> HIDE DEF h
<1>6. from = Rec(from)
  BY <1>5 DEF from
<1>7. \A a \in 0..L : h[a] = Due(results, a)
  BY DEF h
<1>8. \A a \in 0..L : from[a] = h[a]
  <2> DEFINE Wrong == {n \in 0..L : from[L - n] # h[L - n]}
  <2> SUFFICES ASSUME NEW a \in 0..L, from[a] # h[a] PROVE FALSE
    OBVIOUS
  <2>1. Wrong \in SUBSET Nat /\ Wrong # {}
    <3>1. L - a \in 0..L /\ L - (L - a) = a
      OBVIOUS
    <3>2. L - a \in Wrong
      BY <3>1
    <3>3. \A n \in 0..L : n \in Nat
      OBVIOUS
    <3>4. Wrong \in SUBSET (0..L)
      OBVIOUS
    <3> HIDE DEF Wrong
    <3> QED
      BY <3>2, <3>3, <3>4
  <2>2. \A n \in Wrong : n \in 0..L /\ from[L - n] # h[L - n]
    OBVIOUS
  <2>3. \A n \in 0..L : from[L - n] # h[L - n] => n \in Wrong
    OBVIOUS
  <2> HIDE DEF Wrong
  <2>4. PICK n \in Wrong : \A k \in Wrong : n <= k
    BY <2>1, LeastElement
  <2> DEFINE b == L - n
             next == Page(b).next
  <2>5. b \in 0..L /\ n \in 0..L /\ from[b] # h[b]
    BY <2>2
  <2>6. /\ from[b] = Page(b).visible \o IF next = 0 THEN <<>> ELSE from[next]
        /\ h[b] = Page(b).visible \o IF next = 0 THEN <<>> ELSE h[next]
    BY <1>3, <1>5, <1>6, <2>5
  <2>7. ASSUME next # 0 PROVE from[next] = h[next]
    <3>1. next \in 1..L /\ next > b
      BY <1>1, <2>5, <2>7
    <3> HIDE DEF next
    <3>2. L - next \in 0..L /\ L - (L - next) = next /\ ~(n <= L - next)
      BY <2>5, <3>1
    <3> QED
      BY <2>3, <2>4, <3>2
  <2> QED
    BY <2>5, <2>6, <2>7
<1>9. Due(results, 0) = InOrder(Mismatched(results))
  <2>1. {n \in Mismatched(results) : n > 0} = Mismatched(results)
    BY DEF Mismatched
  <2> QED
    BY <2>1 DEF Due
<1> QED
  BY <1>4, <1>7, <1>8, <1>9

(***************************************************************************)
(* The platform's records and the rows of a file.                          *)
(***************************************************************************)
LEMMA PlatformListed ==
    ASSUME NEW evidence, NEW platform, platform = readPlatformRecords(evidence)
    PROVE  Listing(platform) /\ \A p \in Range(platform) : p.currency \in Currencies
<1> DEFINE K == {n \in DOMAIN Facts : Facts[n] \in evidence}
           c == Cardinality(K)
<1>1. Facts \in Seq(Recordable)
  BY ReconciliationAssumption
<1>2. Len(Facts) \in Nat /\ DOMAIN Facts = 1..Len(Facts) /\ IsFiniteSet(1..Len(Facts))
  BY <1>1, FS_Interval
<1>3. K \in SUBSET Nat /\ K \in SUBSET (1..Len(Facts)) /\ K \in SUBSET DOMAIN Facts
  BY <1>2
<1>8. platform = [n \in DOMAIN Filtered(Facts, K) |-> PlatformRecord(Filtered(Facts, K)[n])]
  BY DEF readPlatformRecords
<1> HIDE DEF K
<1>4. IsFiniteSet(K) /\ c \in Nat
  BY <1>2, <1>3, FS_Subset, FS_CardinalityType
<1>5. /\ InOrder(K) \in [1..c -> K]
      /\ \A n \in 1..c : Rank(K, InOrder(K)[n]) = n
  BY <1>3, <1>4, PlacesInOrder
<1> HIDE DEF c
<1>6. platform = [n \in 1..c |-> PlatformRecord(Facts[InOrder(K)[n]])]
  BY <1>5, <1>8 DEF Filtered
<1>7. DOMAIN platform = 1..c
  BY <1>6
<1>9. ASSUME NEW m \in 1..c, NEW n \in 1..c, platform[m] = platform[n] PROVE m = n
  <2> DEFINE x == InOrder(K)[m]
             y == InOrder(K)[n]
  <2>1. x \in DOMAIN Facts /\ y \in DOMAIN Facts /\ Rank(K, x) = m /\ Rank(K, y) = n
    BY <1>3, <1>5
  <2>2. PlatformRecord(Facts[x]) = PlatformRecord(Facts[y])
    BY <1>6, <1>9
  <2> HIDE DEF x, y
  <2>3. Facts[x].event = Facts[y].event /\ Facts[x].ref = Facts[y].ref
    BY <2>2 DEF PlatformRecord
  <2>4. x = y
    BY <2>1, <2>3, ReconciliationAssumption
  <2> QED
    BY <2>1, <2>4
<1>10. ASSUME NEW p \in Range(platform) PROVE p.currency \in Currencies
  <2>1. PICK n \in 1..c : p = PlatformRecord(Facts[InOrder(K)[n]])
    BY <1>6, <1>7 DEF Range
  <2>2. InOrder(K)[n] \in DOMAIN Facts
    BY <1>3, <1>5
  <2>3. p.currency = Facts[InOrder(K)[n]].currency
    BY <2>1 DEF PlatformRecord
  <2> QED
    BY <2>2, <2>3, ReconciliationAssumption
<1> QED
  BY <1>4, <1>7, <1>9, <1>10 DEF Listing, DiffersThroughout

\* A file that parses has rows of known currencies.
LEMMA ValidRows ==
    ASSUME NEW r \in Requests, Checked[r] = "valid"
    PROVE  \A n \in 1..Len(Contents[FileOf[r]].rows) :
              Contents[FileOf[r]].rows[n].currency \in Currencies
<1> DEFINE content == Contents[FileOf[r]]
           rows == content.rows
           invalid == {n \in DOMAIN rows : n <= RowLimit /\ ~RowIsValid(rows[n])}
<1>1. parseReconciliationCsv(content) = "valid"
  BY DEF Checked, CheckFile
<1>2. FileOf[r] \in Files /\ rows \in Seq(Range(rows))
  BY ReconciliationAssumption DEF Files
<1>3. Len(rows) \in Nat /\ DOMAIN rows = 1..Len(rows) /\ RowLimit \in Nat
  BY <1>2, ReconciliationAssumption
<1>4. ~(Len(rows) > RowLimit) /\ invalid = {}
  BY <1>1 DEF parseReconciliationCsv
<1> HIDE DEF content
<1>5. ASSUME NEW n \in 1..Len(rows) PROVE RowIsValid(rows[n])
  BY <1>3, <1>4
<1> QED
  BY <1>5 DEF RowIsValid, content

\* A report holds what its import's file and its evidence come to, and its
\* event says so; an import that did not fail has rows of known currencies.
Tells(report, event) ==
    /\ report.results = ResultsOf(report.import, report.evidence)
    /\ report.summaries = Summaries(report.results)
    /\ event = CompletedEvent(report.import, report.results)

ResultsFor(file, evidence) ==
    classifyReconciliation(Contents[file].rows, readPlatformRecords(evidence))

ReportsTold ==
    /\ DOMAIN reports = DOMAIN outbox
    /\ \A n \in DOMAIN reports : Tells(reports[n], outbox[n])

RowsKnown(file) ==
    \A n \in 1..Len(Contents[file].rows) : Contents[file].rows[n].currency \in Currencies

FilesKnown ==
    \A i \in DOMAIN imports : imports[i].status # "failed" => RowsKnown(imports[i].file)

AccountInv == ReportsTold /\ FilesKnown

\* An import keeps its file and stays failed; one that is new and did not
\* fail has a file that parses.
FilesStay ==
    /\ \A i \in DOMAIN imports :
          /\ i \in DOMAIN imports' /\ imports'[i].file = imports[i].file
          /\ imports[i].status = "failed" => imports'[i].status = "failed"
    /\ \A i \in DOMAIN imports' \ DOMAIN imports :
          imports'[i].status # "failed" => RowsKnown(imports'[i].file)

LEMMA ClosedStay ==
    ASSUME ReconInv, NEW i \in DOMAIN imports, imports[i].status = "staged",
           NEW status, NEW failure, imports' = Closed(i, status, failure)
    PROVE  FilesStay
<1> DEFINE row == [imports[i] EXCEPT !.status = status, !.failure = failure,
                                     !.owner = Nobody, !.lease = 0]
<1>1. imports \in Seq(ImportRows) /\ imports[i] \in ImportRows
  BY DEF ReconInv
<1>2. row.file = imports[i].file
  BY <1>1 DEF ImportRows
<1>3. imports' = [imports EXCEPT ![i] = row]
  BY <1>1 DEF Closed, ImportRows
<1> HIDE DEF row
<1>4. /\ DOMAIN imports' = DOMAIN imports
      /\ imports'[i] = row /\ \A j \in DOMAIN imports : j # i => imports'[j] = imports[j]
  BY <1>1, <1>3
<1> QED
  BY <1>2, <1>4 DEF FilesStay

LEMMA NextFilesStay == ASSUME ReconInv, [Next]_vars PROVE FilesStay
<1>1. imports \in Seq(ImportRows)
  BY DEF ReconInv
<1>2. CASE UNCHANGED imports
  BY <1>2 DEF FilesStay
<1>3. ASSUME NEW r \in Requests, Create(r) PROVE FilesStay
  <2> DEFINE n == Len(imports) + 1
             row == [file |-> FileOf[r], period |-> PeriodOf[r], rowCount |-> RowCountOf(r),
                     status |-> IF request[r].parsed = "valid" THEN "staged" ELSE "failed",
                     failure |-> IF request[r].parsed = "valid" THEN "none" ELSE request[r].parsed,
                     owner |-> Nobody, lease |-> 0]
  <2>1. request[r].pc = "absent" /\ request[r].parsed = Checked[r]
    BY <1>3, RequestTyped DEF Create
  <2>2. row.status # "failed" => RowsKnown(row.file)
    BY <2>1, ValidRows DEF RowsKnown
  <2>3. imports' = Append(imports, row)
    BY <1>3 DEF Create
  <2> HIDE DEF row
  <2>4. /\ DOMAIN imports' = DOMAIN imports \cup {n}
        /\ \A i \in DOMAIN imports : imports'[i] = imports[i]
        /\ imports'[n] = row
    BY <1>1, <2>3
  <2> QED
    BY <2>2, <2>4 DEF FilesStay
<1>4. ASSUME NEW w \in Workers, Claim(w) PROVE FilesStay
  <2>1. PICK i \in DOMAIN imports : imports' = [imports EXCEPT ![i].owner = w, ![i].lease = LeaseTicks]
    BY <1>4 DEF Claim, Claimable
  <2> DEFINE row == [imports[i] EXCEPT !.owner = w, !.lease = LeaseTicks]
  <2>2. imports[i] \in ImportRows
    BY <1>1
  <2>3. row.file = imports[i].file /\ row.status = imports[i].status
    BY <2>2 DEF ImportRows
  <2>4. imports' = [imports EXCEPT ![i] = row]
    BY <2>1, <2>2 DEF ImportRows
  <2> HIDE DEF row
  <2>5. /\ DOMAIN imports' = DOMAIN imports
        /\ imports'[i] = row /\ \A j \in DOMAIN imports : j # i => imports'[j] = imports[j]
    BY <1>1, <2>4
  <2> QED
    BY <2>3, <2>5 DEF FilesStay
<1>5. ASSUME NEW w \in Workers, Finish(w) PROVE FilesStay
  <2> DEFINE i == worker[w].import
  <2>1. i \in DOMAIN imports
    BY <1>5 DEF Finish, ReconInv, WorkersOK
  <2>2. \/ UNCHANGED imports
        \/ LeaseHeldBy(w, i) /\ imports' = Closed(i, "failed", "aggregate_overflow")
        \/ LeaseHeldBy(w, i) /\ imports' = Closed(i, "completed", "none")
    BY <1>5 DEF Finish
  <2>3. LeaseHeldBy(w, i) => imports[i].status = "staged"
    BY DEF LeaseHeldBy, OwnedBy
  <2> HIDE DEF i
  <2> QED
    BY <1>2, <2>1, <2>2, <2>3, ClosedStay
<1>6. CASE Tick
  <2>1. imports' = [i \in DOMAIN imports |-> [imports[i] EXCEPT !.lease = IF @ > 0 THEN @ - 1 ELSE 0]]
    BY <1>6 DEF Tick
  <2>2. ASSUME NEW i \in DOMAIN imports
        PROVE  imports'[i].file = imports[i].file /\ imports'[i].status = imports[i].status
    <3>1. imports[i] \in ImportRows
      BY <1>1
    <3>2. imports'[i] = [imports[i] EXCEPT !.lease = IF @ > 0 THEN @ - 1 ELSE 0]
      BY <2>1
    <3> QED
      BY <3>1, <3>2 DEF ImportRows
  <2> QED
    BY <2>1, <2>2 DEF FilesStay
<1>7. CASE Staging
  BY <1>2, <1>3, <1>7 DEF Staging, Receive, FindExisting, CreateCollides, RequestLost
<1>8. CASE Processing
  BY <1>2, <1>4, <1>5, <1>8 DEF Processing, Read, TimeOut, Abort
<1>9. CASE \E f \in Recordable : Record(f)
  BY <1>2, <1>9 DEF Record
<1>10. CASE UNCHANGED vars
  BY <1>2, <1>10 DEF vars
<1> QED
  BY <1>6, <1>7, <1>8, <1>9, <1>10 DEF Next

LEMMA NextReports ==
    ASSUME ReconInv, [Next]_vars
    PROVE  \/ UNCHANGED <<reports, outbox>>
           \/ \E i \in DOMAIN imports : \E evidence :
                 LET results == ResultsOf(i, evidence) IN
                 /\ reports' = Append(reports, [import |-> i, evidence |-> evidence,
                                                results |-> results, summaries |-> Summaries(results)])
                 /\ outbox' = Append(outbox, CompletedEvent(i, results))
<1>1. ASSUME NEW w \in Workers, Finish(w)
      PROVE  \/ UNCHANGED <<reports, outbox>>
             \/ LET i == worker[w].import
                    results == ResultsOf(i, worker[w].evidence) IN
                /\ i \in DOMAIN imports
                /\ reports' = Append(reports, [import |-> i, evidence |-> worker[w].evidence,
                                               results |-> results, summaries |-> Summaries(results)])
                /\ outbox' = Append(outbox, CompletedEvent(i, results))
  <2>1. worker[w].import \in DOMAIN imports
    BY <1>1 DEF Finish, ReconInv, WorkersOK
  <2> QED
    BY <1>1, <2>1 DEF Finish
<1>2. CASE Staging
  BY <1>2 DEF Staging, Receive, FindExisting, Create, CreateCollides, RequestLost
<1>3. CASE Processing
  BY <1>1, <1>3 DEF Processing, Claim, Read, TimeOut, Abort
<1>4. CASE Tick \/ UNCHANGED vars \/ \E f \in Recordable : Record(f)
  BY <1>4 DEF Tick, vars, Record
<1> QED
  BY <1>2, <1>3, <1>4 DEF Next

LEMMA AccountNextInv == ReconInv /\ AccountInv /\ [Next]_vars => AccountInv'
<1> SUFFICES ASSUME ReconInv, AccountInv, [Next]_vars PROVE AccountInv'
  OBVIOUS
<1>1. FilesStay
  BY NextFilesStay
<1>2. FilesKnown'
  BY <1>1 DEF AccountInv, FilesKnown, FilesStay
<1>3. \A i \in DOMAIN imports : imports'[i].file = imports[i].file
  BY <1>1 DEF FilesStay
<1>4. \A n \in DOMAIN reports : reports[n].import \in DOMAIN imports
  BY DEF ReconInv, WrittenOnce
<1>5. ASSUME NEW n \in DOMAIN reports
      PROVE  /\ reports[n].results = ResultsFor(imports'[reports[n].import].file, reports[n].evidence)
             /\ reports[n].summaries = Summaries(reports[n].results)
             /\ outbox[n] = CompletedEvent(reports[n].import, reports[n].results)
  <2>1. Tells(reports[n], outbox[n])
    BY DEF AccountInv, ReportsTold
  <2>2. /\ reports[n].results = ResultsFor(imports[reports[n].import].file, reports[n].evidence)
        /\ reports[n].summaries = Summaries(reports[n].results)
        /\ outbox[n] = CompletedEvent(reports[n].import, reports[n].results)
    BY <2>1 DEF Tells, ResultsOf, ResultsFor
  <2> QED
    BY <1>3, <1>4, <2>2
<1>6. CASE UNCHANGED <<reports, outbox>>
  <2>1. DOMAIN reports' = DOMAIN outbox'
    BY <1>6 DEF AccountInv, ReportsTold
  <2>2. ASSUME NEW n \in DOMAIN reports' PROVE Tells(reports[n], outbox[n])'
    BY <1>5, <1>6 DEF Tells, ResultsOf, ResultsFor
  <2> QED
    BY <1>2, <2>1, <2>2 DEF AccountInv, ReportsTold
<1>7. ASSUME NEW i \in DOMAIN imports, NEW evidence, NEW results, results = ResultsOf(i, evidence),
             NEW report, report = [import |-> i, evidence |-> evidence,
                                   results |-> results, summaries |-> Summaries(results)],
             reports' = Append(reports, report),
             outbox' = Append(outbox, CompletedEvent(i, results))
      PROVE  AccountInv'
  <2>1. IsSequence(reports) /\ IsSequence(outbox) /\ DOMAIN reports = DOMAIN outbox
    BY DEF ReconInv, WrittenOnce, AccountInv, ReportsTold
  <2> DEFINE n == Len(reports) + 1
             event == CompletedEvent(i, results)
  <2>2. /\ Len(reports) \in Nat /\ DOMAIN reports = 1..Len(reports)
        /\ DOMAIN reports' = DOMAIN reports \cup {n} /\ reports'[n] = report
        /\ \A k \in DOMAIN reports : reports'[k] = reports[k]
    BY <1>7, <2>1, Appended
  <2>3. /\ Len(outbox) \in Nat /\ DOMAIN outbox = 1..Len(outbox)
        /\ DOMAIN outbox' = DOMAIN outbox \cup {Len(outbox) + 1} /\ outbox'[Len(outbox) + 1] = event
        /\ \A k \in DOMAIN outbox : outbox'[k] = outbox[k]
    BY <1>7, <2>1, Appended
  <2>4. Len(outbox) = Len(reports)
    BY <2>1
  <2>5. /\ report.import = i /\ report.results = results /\ report.summaries = Summaries(results)
        /\ report.results = ResultsFor(imports'[report.import].file, report.evidence)
    BY <1>3, <1>7 DEF ResultsOf, ResultsFor
  <2> HIDE DEF n, event
  <2>6. DOMAIN reports' = DOMAIN outbox' /\ outbox'[n] = event
    BY <2>1, <2>2, <2>3, <2>4 DEF n
  <2>7. ASSUME NEW k \in DOMAIN reports' PROVE Tells(reports[k], outbox[k])'
    <3>1. CASE k \in DOMAIN reports
      BY <1>5, <2>1, <2>2, <2>3, <3>1 DEF Tells, ResultsOf, ResultsFor
    <3>2. CASE k = n
      BY <2>2, <2>5, <2>6, <3>2 DEF Tells, event, ResultsOf, ResultsFor
    <3> QED
      BY <2>2, <3>1, <3>2
  <2> QED
    BY <1>2, <2>6, <2>7 DEF AccountInv, ReportsTold
<1> QED
  BY <1>6, <1>7, NextReports

\* claimAndProcess accounts for every row and every record, once, in results,
\* summaries, event, pages and backlog, whatever the file and the evidence.
THEOREM ReportsAccount == Spec => []ReportAccountsForAll
<1>1. Init => AccountInv
  BY DEF Init, AccountInv, ReportsTold, FilesKnown
<1>2. ASSUME ReconInv, AccountInv, NEW report \in Range(reports)
      PROVE  LET rows == Contents[imports[report.import].file].rows
                 records == Range(readPlatformRecords(report.evidence))
                 taken == UNION {report.results[n].record : n \in 1..Len(rows)}
                 left == {n \in DOMAIN report.results : n > Len(rows)}
                 mismatched == Mismatched(report.results)
                 counted == [b \in Buckets |-> report.summaries["ETB"].count[b]
                                               + report.summaries["USD"].count[b]]
             IN  /\ \A n \in 1..Len(rows) : RowAccountedFor(rows, records, n, report.results[n])
                 /\ {report.results[n].record : n \in left} = {{p} : p \in records \ taken}
                 /\ Cardinality(left) = Cardinality(records \ taken)
                 /\ \A b \in Buckets :
                       counted[b] = Cardinality({n \in DOMAIN report.results : report.results[n].bucket = b})
                 /\ \A event \in Range(outbox) : event.import = report.import =>
                       event.mismatchCount = Cardinality(mismatched)
                 /\ mismatched # {} => \E c \in Currencies : InBacklog(report.summaries[c])
                 /\ \A limit \in 1..3 : PagesOf(report.results, limit) = InOrder(mismatched)
  <2> DEFINE i == report.import
             rows == Contents[imports[i].file].rows
             platform == readPlatformRecords(report.evidence)
             results == report.results
             taken == UNION {results[n].record : n \in 1..Len(rows)}
             left == {n \in DOMAIN results : n > Len(rows)}
  <2>1. PICK n \in DOMAIN reports : report = reports[n]
    BY DEF Range
  <2>2. /\ i \in DOMAIN imports /\ n \in Naming(reports, i) /\ imports[i].status = "completed"
        /\ n \in DOMAIN outbox
    BY <1>2, <2>1 DEF ReconInv, WrittenOnce, Naming, AccountInv, ReportsTold
  <2>3. /\ results = classifyReconciliation(rows, platform)
        /\ report.summaries = Summaries(results)
        /\ outbox[n] = CompletedEvent(i, results)
    BY <1>2, <2>1 DEF AccountInv, ReportsTold, Tells, ResultsOf
  <2>4. imports[i].file \in Files
    <3>1. imports \in Seq(ImportRows)
      BY <1>2 DEF ReconInv
    <3>2. imports[i] \in ImportRows
      BY <2>2, <3>1
    <3> QED
      BY <3>2 DEF ImportRows
  <2>5. Reportable(rows, platform)
    <3>1. rows \in Seq(Range(rows))
      BY <2>4, ReconciliationAssumption
    <3>2. Len(rows) \in Nat
      BY <3>1
    <3>3. \A k \in 1..Len(rows) : rows[k].currency \in Currencies
      BY <1>2, <2>2 DEF AccountInv, FilesKnown, RowsKnown
    <3>4. Listing(platform) /\ \A p \in Range(platform) : p.currency \in Currencies
      BY PlatformListed
    <3> QED
      BY <3>2, <3>3, <3>4 DEF Reportable
  <2>6. taken = UNION {results[k].record : k \in 1..Len(rows)}
        /\ left = {k \in DOMAIN results : k > Len(rows)}
    OBVIOUS
  <2> HIDE DEF i, rows, platform, results, taken, left
  <2>7. /\ \A k \in 1..Len(rows) : RowAccountedFor(rows, Range(platform), k, results[k])
        /\ {results[k].record : k \in left} = {{p} : p \in Range(platform) \ taken}
        /\ Cardinality(left) = Cardinality(Range(platform) \ taken)
    <3>1. EachOnce(rows, Range(platform), results,
                   UNION {results[k].record : k \in 1..Len(rows)},
                   {k \in DOMAIN results : k > Len(rows)})
      BY <2>3, <2>5, RecordsAreAccounted
    <3>2. EachOnce(rows, Range(platform), results, taken, left)
      BY <2>6, <3>1
    <3> QED
      BY <3>2 DEF EachOnce
  <2>8. \A b \in Buckets : Summaries(results)["ETB"].count[b] + Summaries(results)["USD"].count[b]
                             = Cardinality({k \in DOMAIN results : results[k].bucket = b})
    BY <2>3, <2>5, CountsAddUp
  <2>9. ASSUME NEW event \in Range(outbox), event.import = i
        PROVE  event.mismatchCount = Cardinality(Mismatched(results))
    <3>1. PICK m \in DOMAIN outbox : event = outbox[m]
      BY DEF Range
    <3>2. m \in Naming(outbox, i) /\ n \in Naming(outbox, i)
      BY <2>2, <2>3, <2>9, <3>1 DEF Naming, CompletedEvent
    <3>3. \E k \in DOMAIN outbox : Naming(outbox, i) = {k}
      BY <1>2, <2>2 DEF ReconInv, WrittenOnce
    <3>4. event = CompletedEvent(i, results)
      BY <2>3, <3>1, <3>2, <3>3
    <3>5. event.mismatchCount = Len(results) - MatchedExactCount(results)
      BY <3>4 DEF CompletedEvent
    <3> QED
      BY <2>3, <2>5, <3>5, EventCounts
  <2>10. Mismatched(results) # {} => \E c \in Currencies : InBacklog(Summaries(results)[c])
    BY <2>3, <2>5, MismatchIsInBacklog
  <2>11. ASSUME NEW limit \in 1..3 PROVE PagesOf(results, limit) = InOrder(Mismatched(results))
    <3>1. Len(results) \in Nat /\ DOMAIN results = 1..Len(results)
      BY <2>3, <2>5, ResultsTyped
    <3>2. limit \in Nat \ {0}
      OBVIOUS
    <3> QED
      BY <3>1, <3>2, PagesShowAll
  <2> QED
    BY <2>3, <2>7, <2>8, <2>9, <2>10, <2>11 DEF i, rows, platform, results, taken, left
<1>3. ReconInv /\ AccountInv => ReportAccountsForAll
  BY <1>2 DEF ReportAccountsForAll
<1> QED
  BY <1>1, <1>3, AccountNextInv, ReconSpecInv, PTL DEF Spec

-----------------------------------------------------------------------------
(* The process: cycles, consumers and the shutdown. *)

\* How far each operation is when the shutdown has come to a stage.
Draining == app \in {"draining", "aborting", "flushing", "closed"}
DrainOver == app \in {"aborting", "flushing", "closed"}

CyclesSound ==
    /\ Running => \A c \in Cycles : wait[c] = "none"
    /\ ~Running => \A c \in Cycles : cycle[c] # "timer"
    /\ Draining => \A c \in Cycles : InFlight(c) => wait[c] \in {"waiting", "late", "given_up"}
    /\ DrainOver => \A c \in Cycles : wait[c] # "waiting"
    /\ app \in {"flushing", "closed"} /\ InFlight("delivery") => wait["delivery"] = "given_up"
    /\ app = "closed" /\ InFlight("relay") => wait["relay"] = "given_up"
    /\ wait["reconciliation"] # "given_up"
    /\ claims > 0 => cycle["delivery"] = "working"
    /\ Draining => ~collecting

\* A consumer that was not in the middle of subscribing when its close()
\* began subscribes to nothing after it, and handles nothing but what it
\* drains for.
ConsumerSound(k) ==
    /\ app \in {"running", "stopping"} => closing[k] = "no"
    /\ DrainOver => closing[k] \in {"drained", "late"}
    /\ closing[k] # "no" /\ k \notin midway =>
         link[k] # "opening" /\ (k = "settlement" => link[k] # "connecting")
    /\ closing[k] \in {"draining", "drained", "late"} /\ k \notin midway =>
         link[k] # "open" /\ handling[k] \subseteq awaited[k]
    /\ closing[k] = "drained" => awaited[k] = {}

RuntimeInv ==
    /\ RuntimeTypeOK
    /\ CyclesSound
    /\ \A k \in Consumers : ConsumerSound(k)

LEMMA RuntimeInitInv == RuntimeInit => RuntimeInv
  BY RuntimeAssumption
  DEF RuntimeInit, RuntimeInv, RuntimeTypeOK, CyclesSound, ConsumerSound, Running, Draining,
      DrainOver, InFlight, Cycles, Consumers, AppStates, CycleStates, WaitStates, LinkStates,
      CloseStates

LEMMA UpsetCounted == upsets \in 0 .. MaxUpsets /\ Upset => upsets' \in 0 .. MaxUpsets
  BY RuntimeAssumption DEF Upset

\* What is at work can be counted.
LEMMA WorkTyped ==
    ASSUME RuntimeTypeOK
    PROVE  /\ claims > 0 => claims - 1 \in 0 .. BatchSize
           /\ strays > 0 => strays - 1 \in Nat
           /\ strays + (IF claims > 0 THEN claims - 1 ELSE 0) \in Nat
           /\ 0 \in 0 .. BatchSize
<1>1. BatchSize \in Nat /\ claims \in 0 .. BatchSize /\ strays \in Nat
  BY RuntimeAssumption DEF RuntimeTypeOK
<1> QED
  BY <1>1

\* A cycle begins, ends or fails.
LEMMA CycleStepInv ==
    ASSUME RuntimeInv, NEW c \in Cycles,
           \/ TimerFires(c) \/ CycleEnds(c)
           \/ c = "reconciliation" /\ ReconciliationFails
           \/ c = "delivery" /\ DeliveryFails
    PROVE  RuntimeInv'
<1> USE DEF RuntimeInv, consumerVars, operationVars, deliveryVars, Running, Ended
<1>1. RuntimeTypeOK'
  <2>1. upsets' \in 0 .. MaxUpsets
    BY UpsetCounted DEF TimerFires, CycleEnds, ReconciliationFails, DeliveryFails, RuntimeTypeOK
  <2>2. claims' \in 0 .. BatchSize /\ strays' \in Nat /\ collecting' \in BOOLEAN
    BY WorkTyped
    DEF TimerFires, CycleEnds, ReconciliationFails, DeliveryFails, RuntimeTypeOK
  <2>3. cycle' \in [Cycles -> CycleStates]
    BY DEF RuntimeTypeOK, TimerFires, CycleEnds, ReconciliationFails, DeliveryFails, Rescheduled,
           CycleStates
  <2>4. app' \in AppStates /\ wait' \in [Cycles -> WaitStates]
    BY DEF RuntimeTypeOK, TimerFires, CycleEnds, ReconciliationFails, DeliveryFails, AppStates,
           WaitStates
  <2>5. UNCHANGED consumerVars
    BY DEF TimerFires, CycleEnds, ReconciliationFails, DeliveryFails
  <2> QED
    BY <2>1, <2>2, <2>3, <2>4, <2>5 DEF RuntimeTypeOK
<1>2. CyclesSound'
  <2>1. CASE TimerFires(c)
    <3>1. /\ app' = app /\ app = "running" /\ wait' = wait /\ cycle'[c] = "working"
          /\ \A d \in Cycles \ {c} : cycle'[d] = cycle[d]
          /\ c # "delivery" => claims' = claims
      BY <2>1 DEF RuntimeTypeOK, TimerFires
    <3> HIDE DEF RuntimeInv
    <3>2. CyclesSound /\ RuntimeTypeOK
      BY DEF RuntimeInv
    <3> QED
      BY <3>1, <3>2, c \in Cycles DEF CyclesSound, Draining, DrainOver, InFlight, Cycles
  <2>2. CASE CycleEnds(c)
    <3>1. /\ cycle'[c] = IF app = "running" THEN "timer" ELSE "none"
          /\ \A d \in Cycles \ {c} : cycle'[d] = cycle[d] /\ wait'[d] = wait[d]
          /\ wait'[c] = IF wait[c] = "waiting" THEN "drained" ELSE wait[c]
          /\ app' = app /\ claims' = claims /\ collecting' = collecting
          /\ c = "delivery" => claims = 0
      BY <2>2 DEF RuntimeTypeOK, CycleEnds, Rescheduled
    <3> HIDE DEF RuntimeInv
    <3>2. CyclesSound /\ RuntimeTypeOK
      BY DEF RuntimeInv
    <3> QED
      BY <3>1, <3>2, c \in Cycles DEF CyclesSound, Draining, DrainOver, InFlight, Cycles
  <2>3. CASE ReconciliationFails
    <3>1. /\ cycle["reconciliation"] = "working" /\ cycle'["reconciliation"] = "failed"
          /\ \A d \in Cycles \ {"reconciliation"} : cycle'[d] = cycle[d]
          /\ wait' = wait /\ app' = IF wait["reconciliation"] = "waiting" THEN "failed" ELSE app
          /\ claims' = claims /\ collecting' = collecting
      BY <2>3, "reconciliation" \in Cycles DEF RuntimeTypeOK, ReconciliationFails, Cycles
    <3> HIDE DEF RuntimeInv
    <3>2. CyclesSound /\ RuntimeTypeOK
      BY DEF RuntimeInv
    <3> QED
      BY <3>1, <3>2, "reconciliation" \in Cycles DEF CyclesSound, Draining, DrainOver, InFlight, Cycles
  <2>4. CASE DeliveryFails
    <3>1. /\ cycle["delivery"] = "working" /\ cycle'["delivery"] = "failed"
          /\ \A d \in Cycles \ {"delivery"} : cycle'[d] = cycle[d]
          /\ wait' = wait /\ app' = app /\ claims' = 0 /\ collecting' = collecting
      BY <2>4, "delivery" \in Cycles DEF RuntimeTypeOK, DeliveryFails, Cycles
    <3> HIDE DEF RuntimeInv
    <3>2. CyclesSound /\ RuntimeTypeOK
      BY DEF RuntimeInv
    <3> QED
      BY <3>1, <3>2, "delivery" \in Cycles DEF CyclesSound, Draining, DrainOver, InFlight, Cycles
  <2> QED
    BY <2>1, <2>2, <2>3, <2>4
<1>3. (\A k \in Consumers : ConsumerSound(k))'
  BY DEF ConsumerSound, TimerFires, CycleEnds, ReconciliationFails, DeliveryFails, DrainOver
<1> QED
  BY <1>1, <1>2, <1>3

\* A claim ends, in its cycle or after it, or a collection begins or ends.
LEMMA WorkStepInv ==
    ASSUME RuntimeInv, ClaimEnds \/ StrayEnds \/ Collect \/ CollectionEnds
    PROVE  RuntimeInv'
<1> USE DEF RuntimeInv, consumerVars, operationVars, deliveryVars, Running, Ended, ClaimEnds, StrayEnds, Collect,
            CollectionEnds
<1>1. UNCHANGED <<app, cycle, wait, consumerVars, upsets>>
  OBVIOUS
<1>2. /\ claims' \in 0 .. BatchSize /\ strays' \in Nat /\ collecting' \in BOOLEAN
      /\ claims' > 0 => claims > 0
      /\ collecting' => collecting \/ app = "running"
  <2>1. CASE ClaimEnds \/ StrayEnds
    BY <2>1, WorkTyped DEF RuntimeTypeOK
  <2>2. CASE Collect \/ CollectionEnds
    BY <2>2 DEF RuntimeTypeOK
  <2> QED
    BY <2>1, <2>2
<1>3. RuntimeTypeOK'
  BY <1>1, <1>2 DEF RuntimeTypeOK
<1>4. CyclesSound'
  BY <1>1, <1>2 DEF CyclesSound, Draining, DrainOver, InFlight
<1>5. (\A k \in Consumers : ConsumerSound(k))'
  BY <1>1 DEF ConsumerSound, DrainOver
<1> QED
  BY <1>3, <1>4, <1>5

\* A consumer connects, is disconnected, handles a message or closes.
LEMMA ConsumerStepInv ==
    ASSUME RuntimeInv, NEW k \in Consumers,
           \/ LinkStep(k) \/ LinkLost(k) \/ Cancelled(k)
           \/ \E h \in Handlers : Deliver(k, h) \/ HandlerEnds(k, h)
           \/ \E r \in {"drained", "late"} : ConsumerCloses(k, r)
    PROVE  RuntimeInv'
<1> USE DEF RuntimeInv, Running, Ended, operationVars, deliveryVars, LinkStep, EnsureReady, Connected, Subscribed, LinkLost,
            Cancelled, Deliver, HandlerEnds, ConsumerCloses, SetLink
<1>1. UNCHANGED <<app, cycle, deliveryVars, collecting, wait, midway>> /\ upsets' \in 0 .. MaxUpsets
  BY UpsetCounted DEF RuntimeTypeOK
<1>2. RuntimeTypeOK'
  <2>1. link' \in [Consumers -> LinkStates] /\ closing' \in [Consumers -> CloseStates]
    BY DEF RuntimeTypeOK, LinkStates, CloseStates
  <2>2. /\ handling' \in [Consumers -> SUBSET Handlers] /\ awaited' \in [Consumers -> SUBSET Handlers]
        /\ \A j \in Consumers : awaited'[j] \subseteq handling'[j]
    <3>1. CASE UNCHANGED <<handling, awaited>>
      BY <3>1 DEF RuntimeTypeOK
    <3>2. CASE Cancelled(k)
      <4>1. /\ handling' = handling /\ awaited' \in [Consumers -> SUBSET Handlers]
            /\ \A j \in Consumers : awaited'[j] \in {awaited[j], handling[j]}
        BY <3>2 DEF RuntimeTypeOK
      <4> QED
        BY <4>1 DEF RuntimeTypeOK
    <3>3. CASE \E h \in Handlers : Deliver(k, h)
      BY <3>3 DEF RuntimeTypeOK
    <3>4. CASE \E h \in Handlers : HandlerEnds(k, h)
      BY <3>4 DEF RuntimeTypeOK
    <3> QED
      BY <3>1, <3>2, <3>3, <3>4
  <2> QED
    BY <1>1, <2>1, <2>2 DEF RuntimeTypeOK
<1>3. CyclesSound'
  BY <1>1 DEF CyclesSound, Draining, DrainOver, InFlight
<1>4. ASSUME NEW j \in Consumers PROVE ConsumerSound(j)'
  <2> USE DEF RuntimeTypeOK, DrainOver
  <2>1. CASE LinkStep(k) \/ LinkLost(k)
    BY <1>1, <2>1 DEF ConsumerSound, Consumers
  <2>2. CASE Cancelled(k)
    <3>1. /\ closing'[k] = "draining" /\ handling' = handling /\ awaited'[k] = handling[k]
          /\ link'[k] = IF link[k] = "open" THEN "cancelled" ELSE link[k]
          /\ closing[k] = "cancelling"
          /\ j # k => UNCHANGED <<closing[j], awaited[j], link[j]>>
      BY <2>2
    <3> QED
      BY <1>1, <3>1 DEF ConsumerSound, Consumers
  <2>3. CASE \E h \in Handlers : Deliver(k, h)
    BY <1>1, <2>3 DEF ConsumerSound, Consumers
  <2>4. CASE \E h \in Handlers : HandlerEnds(k, h)
    <3>1. /\ UNCHANGED <<link, closing>>
          /\ \E h \in Handlers : /\ handling'[k] = handling[k] \ {h}
                                /\ awaited'[k] = awaited[k] \ {h}
          /\ j # k => UNCHANGED <<handling[j], awaited[j]>>
      BY <2>4
    <3> QED
      BY <1>1, <3>1 DEF ConsumerSound, Consumers
  <2>5. CASE \E r \in {"drained", "late"} : ConsumerCloses(k, r)
    BY <1>1, <2>5 DEF ConsumerSound, Consumers
  <2> QED
    BY <2>1, <2>2, <2>3, <2>4, <2>5
<1> QED
  BY <1>2, <1>3, <1>4

LEMMA ShutdownStepInv ==
    ASSUME RuntimeInv,
           \/ BeginShutdown \/ Drain \/ Drained \/ AbortEnds \/ FlushEnds
           \/ \E c \in Cycles : DrainTimesOut(c)
    PROVE  RuntimeInv'
<1> USE DEF RuntimeInv, Running, Ended, consumerVars, operationVars, deliveryVars, BeginShutdown, Drain, Drained, AbortEnds,
            FlushEnds, SecondWaitEnds, DrainTimesOut, TimesOut, AfterAbort
<1>1. RuntimeTypeOK'
  <2>1. app' \in AppStates
    BY DEF RuntimeTypeOK, AppStates
  <2>2. cycle' \in [Cycles -> CycleStates]
    BY DEF RuntimeTypeOK, CycleStates
  <2>3. wait' \in [Cycles -> WaitStates]
    <3>1. CASE UNCHANGED wait
      BY <3>1 DEF RuntimeTypeOK
    <3>2. CASE Drain
      BY <3>2 DEF WaitStates
    <3>3. CASE AbortEnds \/ FlushEnds
      BY <3>3 DEF RuntimeTypeOK, WaitStates
    <3>4. CASE \E c \in Cycles : DrainTimesOut(c)
      BY <3>4 DEF RuntimeTypeOK, WaitStates
    <3> QED
      BY <3>1, <3>2, <3>3, <3>4
  <2>4. closing' \in [Consumers -> CloseStates] /\ midway' \subseteq Consumers
    BY DEF RuntimeTypeOK, CloseStates
  <2>5. UNCHANGED <<claims, strays, collecting, link, handling, awaited, upsets>>
    OBVIOUS
  <2> QED
    BY <2>1, <2>2, <2>3, <2>4, <2>5 DEF RuntimeTypeOK
<1>2. CyclesSound'
  <2>1. CASE BeginShutdown
    BY <2>1 DEF CyclesSound, RuntimeTypeOK, Draining, DrainOver, InFlight, Cycles
  <2>2. CASE Drain
    BY <2>2 DEF CyclesSound, RuntimeTypeOK, Draining, DrainOver, InFlight, Snapshot, Cycles
  <2>3. CASE Drained
    BY <2>3 DEF CyclesSound, RuntimeTypeOK, Draining, DrainOver, InFlight, Cycles
  <2>4. CASE AbortEnds
    BY <2>4 DEF CyclesSound, RuntimeTypeOK, Draining, DrainOver, InFlight, Cycles
  <2>5. CASE FlushEnds
    BY <2>5 DEF CyclesSound, RuntimeTypeOK, Draining, DrainOver, InFlight, Cycles
  <2>6. ASSUME NEW c \in Cycles, DrainTimesOut(c) PROVE CyclesSound'
    BY <2>6 DEF CyclesSound, RuntimeTypeOK, Draining, DrainOver, InFlight, Cycles
  <2> QED
    BY <2>1, <2>2, <2>3, <2>4, <2>5, <2>6
<1>3. ASSUME NEW k \in Consumers PROVE ConsumerSound(k)'
  BY DEF ConsumerSound, RuntimeTypeOK, DrainOver, Consumers
<1> QED
  BY <1>1, <1>2, <1>3

LEMMA RuntimeNextInv == RuntimeInv /\ [RuntimeNext]_runtimeVars => RuntimeInv'
<1>1. RuntimeInv /\ UNCHANGED runtimeVars => RuntimeInv'
  BY DEF RuntimeInv, runtimeVars, consumerVars, operationVars, deliveryVars, RuntimeTypeOK, CyclesSound, ConsumerSound, Running,
         Draining, DrainOver, InFlight
<1>2. RuntimeInv /\ ReconciliationFails => RuntimeInv'
  BY CycleStepInv DEF Cycles
<1>3. RuntimeInv /\ DeliveryFails => RuntimeInv'
  BY CycleStepInv DEF Cycles
<1> QED
  BY <1>1, <1>2, <1>3, CycleStepInv, WorkStepInv, ConsumerStepInv, ShutdownStepInv DEF RuntimeNext, ShutdownStep

THEOREM RuntimeSpecInv == RuntimeSpec => []RuntimeInv
<1> QED
  BY RuntimeInitInv, RuntimeNextInv, PTL DEF RuntimeSpec

\* Type correctness of the worker's runtime.
THEOREM RuntimeTypeCorrect == RuntimeSpec => []RuntimeTypeOK
<1>1. RuntimeInv => RuntimeTypeOK
  BY DEF RuntimeInv
<1> QED
  BY <1>1, RuntimeSpecInv, PTL

\* onApplicationShutdown closes the database under a cycle, a claim of a running
\* cycle or an awaited handler only when every wait for it had run out, and under
\* a collection of metrics never.  Excepted are the messages that reach a consumer
\* closed in the middle of subscribing, and the claims that outlive their failed
\* delivery cycle: nothing waits for these.
THEOREM WorkIsDrainedFirst == RuntimeSpec => []WorkIsCutOnlyAfterItsDrain
<1>1. RuntimeInv => WorkIsCutOnlyAfterItsDrain
  BY DEF RuntimeInv, RuntimeTypeOK, CyclesSound, ConsumerSound, WorkIsCutOnlyAfterItsDrain, Running,
         Draining, DrainOver, InFlight, Cycles
<1> QED
  BY <1>1, RuntimeSpecInv, PTL
=============================================================================
