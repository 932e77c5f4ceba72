----------------------- MODULE WebhookDelivery_proofs -----------------------
(***************************************************************************)
(* Proofs about WebhookDelivery, for any number of deliveries, slots and   *)
(* attempts: the history of a delivery is numbered and its status is what  *)
(* the history says, no request is forgotten, and claims are respected.    *)
(*                                                                         *)
(* The argument has two halves.  One is about a row and its history alone: *)
(* each thing the code writes to a row keeps them in agreement.  The other *)
(* is about who writes: no two jobs have one token, so a job that holds a  *)
(* claim knows what the row is, and only recovery can take it away.        *)
(***************************************************************************)
EXTENDS WebhookDelivery, TLAPS

(***************************************************************************)
(* The inductive invariant.                                                *)
(***************************************************************************)
\* A row and the attempts H recorded of its delivery: their numbers, and what
\* the last of them made of the status.
Agree(r, H) ==
    /\ r.status = "absent" => r = Absent
    /\ r.status # "absent" => RowAgrees(r)
    /\ \A a, b \in H : a.number = b.number => a = b
    /\ \A n \in Nat : (\E a \in H : a.number = n) <=> n \in 1..r.count /\ n # r.active
    /\ \A a \in H :
        /\ a.outcome = "delivered" => r.status = "delivered" /\ a.number = r.count
        /\ a.outcome = "non_retryable_failure" =>
              r.status = "dead_lettered" /\ a.number = r.count
        /\ a.number = r.count /\ a.outcome \in {"retryable_failure", "unknown"} =>
              r.status = (IF a.number = MaxAttempts THEN "dead_lettered" ELSE "retrying")

HistoryOf(d) == {a \in attempts : a.delivery = d}
HistoriesAgree == \A d \in Deliveries : Agree(row[d], HistoryOf(d))

DeliveredWereAccepted == \A a \in attempts :
    a.outcome = "delivered" => <<a.delivery, a.number>> \in accepted

\* A token is held by one job and one row, and then the job is at work on
\* that row.
TokensHeldOnce ==
    /\ \A s, t \in Slots : job[s].token = job[t].token /\ job[s].token # NoToken => s = t
    /\ \A d, e \in Deliveries : row[d].token = row[e].token /\ row[d].token # NoToken => d = e
    /\ \A s \in Slots, d \in Deliveries :
          job[s].token = row[d].token /\ job[s].token # NoToken => job[s].delivery = d

\* A job that is not idle has a delivery and a token; one that sends or has
\* sent has counted its attempt.
JobShaped(s) ==
    /\ job[s].at = "idle" => job[s] = Idle
    /\ job[s].at # "idle" => job[s].delivery \in Deliveries /\ job[s].token \in Tokens
    /\ job[s].at \in {"sending", "answered"} => job[s].count >= 1
    /\ job[s].at = "answered" => job[s].answer \in Answers

\* What a job that holds its claim knows of the row.
JobKnows(s) ==
    /\ job[s].at \in {"claimed", "loaded", "locked"} /\ HoldsClaim(s) =>
          /\ RowOf(s).status \in Live
          /\ RowOf(s).active = 0
          /\ RowOf(s).count = job[s].count
    /\ job[s].at = "locked" => HoldsClaim(s)
    /\ job[s].at \in {"sending", "answered"} /\ HoldsClaim(s) => RowOf(s).active = job[s].count
    /\ job[s].at = "answered" /\ job[s].answer = "delivered" =>
          <<job[s].delivery, job[s].count>> \in accepted

UnknownOf(s) == [delivery |-> job[s].delivery, number |-> job[s].count, outcome |-> "unknown"]
RequestAccounted(s) == job[s].at \in {"sending", "answered"} =>
    HoldsClaim(s) \/ UnknownOf(s) \in attempts

JobOK(s) == JobShaped(s) /\ JobKnows(s) /\ RequestAccounted(s)

DeliveryInv ==
    /\ DeliveryTypeOK
    /\ TokensHeldOnce
    /\ HistoriesAgree
    /\ DeliveredWereAccepted
    /\ \A s \in Slots : JobOK(s)

-----------------------------------------------------------------------------
(***************************************************************************)
(* A row and its history.                                                  *)
(***************************************************************************)
\* A delivery is projected with an empty history.
LEMMA ProjectedAgrees ==
    ASSUME NEW H, Agree(Absent, H)
    PROVE  Agree(Projected, H)
  BY DeliveryAssumption DEF Agree, RowAgrees, Absent, Projected, Live, Terminal

\* The claim and the clock of a live row do not matter to its history.
LEMMA ClaimAgrees ==
    ASSUME NEW r \in Rows, NEW q \in Rows, NEW H, Agree(r, H),
           r.status \in Live, q.status = r.status, q.count = r.count, q.active = r.active,
           q.next = "none" <=> r.next = "none",
           r.active # 0 => q.token # NoToken
    PROVE  Agree(q, H)
  BY DEF Agree, RowAgrees, Rows, Live, Terminal

\* A started attempt is the next number and not recorded yet.
LEMMA StartedAgrees ==
    ASSUME NEW r \in Rows, NEW q \in Rows, NEW H, H \subseteq Attempts, Agree(r, H),
           r.status \in Live, r.active = 0, r.token # NoToken,
           q = [r EXCEPT !.count = r.count + 1, !.active = r.count + 1,
                         !.next = IF r.count + 1 = MaxAttempts THEN "none" ELSE "later"]
    PROVE  Agree(q, H)
<1>1. r.count \in Nat /\ MaxAttempts \in Nat \ {0} /\ q.count \in Nat
  BY DeliveryAssumption DEF Rows
<1>2. r.count < MaxAttempts
  BY <1>1 DEF Agree, RowAgrees, Rows, Live
<1>3. /\ q.status = r.status /\ q.count = r.count + 1 /\ q.active = q.count
      /\ q.token = r.token /\ q.next = IF q.count = MaxAttempts THEN "none" ELSE "later"
  BY DEF Rows
<1>4. RowAgrees(q)
  BY <1>1, <1>2, <1>3 DEF Agree, RowAgrees, Rows, Live, Terminal
<1>5. \A n \in Nat : n \in 1..q.count /\ n # q.active <=> n \in 1..r.count /\ n # r.active
  BY <1>1, <1>3
<1>6. \A a \in H : /\ a.outcome \notin {"delivered", "non_retryable_failure"}
                   /\ a.number # q.count
  <2> SUFFICES ASSUME NEW a \in H
               PROVE  /\ a.outcome \notin {"delivered", "non_retryable_failure"}
                      /\ a.number # q.count
    OBVIOUS
  <2>1. a.number \in Nat /\ a.number \in 1..r.count
    BY DEF Agree, Attempts
  <2> QED
    BY <1>1, <1>3, <2>1 DEF Agree, Live
<1> QED
  BY <1>3, <1>4, <1>5, <1>6 DEF Agree, Live

\* A recorded attempt is the active one, or the next: it decides the status.
LEMMA RecordedAgrees ==
    ASSUME NEW r \in Rows, NEW q \in Rows, NEW H, H \subseteq Attempts, Agree(r, H),
           NEW a \in Attempts, r.status \in Live,
           \/ r.active # 0 /\ a.number = r.active /\ q.count = r.count
           \/ /\ r.active = 0 /\ r.token # NoToken
              /\ a.number = r.count + 1 /\ q.count = r.count + 1
              /\ a.outcome = "non_retryable_failure",
           q.active = 0, q.token = NoToken,
           a.outcome = "delivered" => q.status = "delivered",
           a.outcome = "non_retryable_failure" => q.status = "dead_lettered",
           a.outcome \in {"retryable_failure", "unknown"} =>
              q.status = (IF a.number = MaxAttempts THEN "dead_lettered" ELSE "retrying"),
           q.next = IF q.status = "retrying" THEN r.next ELSE "none"
    PROVE  Agree(q, H \cup {a})
<1>1. /\ r.count \in Nat /\ MaxAttempts \in Nat \ {0} /\ q.count \in Nat /\ r.active \in Nat
      /\ a.number \in Nat \ {0} /\ a.outcome \in Answers \cup {"unknown"}
  BY DeliveryAssumption DEF Rows, Attempts
<1>2. RowAgrees(r)
  BY DEF Agree, Live
<1>3. a.number = q.count /\ q.count <= MaxAttempts /\ q.count >= 1
  BY <1>1, <1>2 DEF RowAgrees, Rows, Live
<1>4. q.status \in {"delivered", "dead_lettered", "retrying"}
  BY <1>1 DEF Answers
<1>5. q.status = "retrying" => q.count < MaxAttempts /\ r.active # 0 /\ r.next # "none"
  BY <1>1, <1>2, <1>3 DEF RowAgrees, Live, Answers
<1>6. RowAgrees(q)
  BY <1>1, <1>3, <1>4, <1>5 DEF RowAgrees, Live, Terminal
<1>7. \A n \in Nat : n \in 1..q.count <=> (n \in 1..r.count /\ n # r.active) \/ n = a.number
  BY <1>1, <1>2, <1>3 DEF RowAgrees
<1>8. \A b \in H : /\ b.outcome \notin {"delivered", "non_retryable_failure"}
                   /\ b.number \in Nat /\ b.number # a.number
  <2> SUFFICES ASSUME NEW b \in H
               PROVE  /\ b.outcome \notin {"delivered", "non_retryable_failure"}
                      /\ b.number \in Nat /\ b.number # a.number
    OBVIOUS
  <2>1. b.number \in Nat /\ b.number \in 1..r.count /\ b.number # r.active
    BY DEF Agree, Attempts
  <2> QED
    BY <1>1, <2>1 DEF Agree, Live
<1>9. \A n \in Nat : (\E b \in H \cup {a} : b.number = n) <=> n \in 1..q.count /\ n # q.active
  BY <1>1, <1>7 DEF Agree
<1> QED
  BY <1>1, <1>3, <1>4, <1>6, <1>8, <1>9 DEF Agree, Answers

-----------------------------------------------------------------------------
(***************************************************************************)
(* What a step does to one row and one job.                                *)
(***************************************************************************)
LEMMA HistoriesKept ==
    ASSUME DeliveryTypeOK, HistoriesAgree, NEW d \in Deliveries, NEW q \in Rows,
           row' = [row EXCEPT ![d] = q], attempts' = attempts,
           Agree(q, HistoryOf(d))
    PROVE  HistoriesAgree'
  BY DEF HistoriesAgree, DeliveryTypeOK, HistoryOf

LEMMA HistoriesExtended ==
    ASSUME DeliveryTypeOK, HistoriesAgree, NEW d \in Deliveries, NEW q \in Rows,
           NEW a \in Attempts, a.delivery = d,
           row' = [row EXCEPT ![d] = q], attempts' = attempts \cup {a},
           Agree(q, HistoryOf(d) \cup {a})
    PROVE  HistoriesAgree'
<1> SUFFICES ASSUME NEW e \in Deliveries
             PROVE  Agree(row[e], HistoryOf(e))'
  BY DEF HistoriesAgree
<1>1. CASE e = d
  <2>1. HistoryOf(e)' = HistoryOf(d) \cup {a} /\ row'[e] = q
    BY <1>1 DEF HistoryOf, DeliveryTypeOK
  <2> QED
    BY <2>1, <1>1 DEF Agree
<1>2. CASE e # d
  <2>1. HistoryOf(e)' = HistoryOf(e) /\ row'[e] = row[e]
    BY <1>2 DEF HistoryOf, DeliveryTypeOK
  <2> QED
    BY <2>1 DEF Agree, HistoriesAgree
<1> QED
  BY <1>1, <1>2

\* Claims only go: no job and no row gets a token.
LEMMA TokensKept ==
    ASSUME TokensHeldOnce,
           \A s \in Slots :
              \/ job'[s].token = NoToken
              \/ job'[s].token = job[s].token /\ job'[s].delivery = job[s].delivery,
           \A d \in Deliveries : row'[d].token \in {row[d].token, NoToken}
    PROVE  TokensHeldOnce'
  BY DEF TokensHeldOnce

\* A row still says of a job's claim what it said.
SameClaim(r, q) ==
    q.token = r.token /\ q.status = r.status /\ q.active = r.active /\ q.count = r.count

\* A job at rest keeps its invariant when its row keeps its claim, when it
\* had lost the claim and does not get it back, and when recovery takes it.
LEMMA JobKept ==
    ASSUME DeliveryTypeOK, NEW s \in Slots, JobOK(s), job'[s] = job[s],
           attempts \subseteq attempts', accepted \subseteq accepted',
           job[s] # Idle =>
              LET d == job[s].delivery IN
              \/ SameClaim(row[d], row'[d])
              \/ ~HoldsClaim(s) /\ row'[d].token # job[s].token
              \/ /\ row'[d].token = NoToken
                 /\ job[s].at # "locked"
                 /\ row[d].active # 0 =>
                       [delivery |-> d, number |-> row[d].active, outcome |-> "unknown"]
                          \in attempts'
    PROVE  JobOK(s)'
<1>1. CASE job[s] = Idle
  BY <1>1 DEF JobOK, JobShaped, JobKnows, RequestAccounted, Idle
<1>2. CASE job[s] # Idle
  <2>1. /\ job[s].at # "idle" /\ job[s].delivery \in Deliveries
        /\ job[s].token \in Tokens /\ job[s].token # NoToken
    BY <1>2, DeliveryAssumption DEF JobOK, JobShaped
  <2>2. JobShaped(s)'
    BY DEF JobOK, JobShaped
  <2>3. CASE SameClaim(RowOf(s), row'[job[s].delivery])
    BY <2>1, <2>2, <2>3 DEF SameClaim, JobOK, JobKnows, RequestAccounted, UnknownOf, HoldsClaim, RowOf
  <2>4. CASE ~HoldsClaim(s) /\ row'[job[s].delivery].token # job[s].token
    BY <2>1, <2>2, <2>4 DEF JobOK, JobKnows, RequestAccounted, UnknownOf, HoldsClaim, RowOf
  <2>5. CASE /\ HoldsClaim(s) /\ row'[job[s].delivery].token = NoToken
             /\ job[s].at # "locked"
             /\ RowOf(s).active # 0 =>
                   [delivery |-> job[s].delivery, number |-> RowOf(s).active,
                    outcome |-> "unknown"] \in attempts'
    <3>1. ~HoldsClaim(s)'
      BY <2>1, <2>5 DEF HoldsClaim, RowOf
    <3>2. JobKnows(s)'
      BY <2>5, <3>1 DEF JobOK, JobKnows
    <3>3. RequestAccounted(s)'
      BY <2>1, <2>5 DEF JobOK, JobShaped, JobKnows, RequestAccounted, UnknownOf,
                        DeliveryTypeOK, Jobs
    <3> QED
      BY <2>2, <3>2, <3>3 DEF JobOK
  <2> QED
    BY <1>2, <2>1, <2>3, <2>4, <2>5 DEF RowOf
<1> QED
  BY <1>1, <1>2

LEMMA IdleJobOK ==
    ASSUME NEW s \in Slots, job'[s] = Idle
    PROVE  JobOK(s)'
  BY DEF JobOK, JobShaped, JobKnows, RequestAccounted, Idle

\* A claimed row is live, and so is one whose next attempt is not due.
LEMMA ClaimedIsLive ==
    ASSUME DeliveryInv, NEW d \in Deliveries,
           row[d].token # NoToken \/ row[d].next # "none" \/ row[d].active # 0
    PROVE  row[d].status \in Live
  BY DeliveryAssumption
  DEF DeliveryInv, HistoriesAgree, Agree, RowAgrees, DeliveryTypeOK, Rows, Absent, Terminal, Live

LEMMA HistoriesTyped ==
    ASSUME DeliveryInv, NEW d \in Deliveries
    PROVE  row[d] \in Rows /\ HistoryOf(d) \subseteq Attempts /\ Agree(row[d], HistoryOf(d))
  BY DEF DeliveryInv, DeliveryTypeOK, HistoriesAgree, HistoryOf

-----------------------------------------------------------------------------
LEMMA InitInv == DeliveryInit => DeliveryInv
<1> SUFFICES ASSUME DeliveryInit PROVE DeliveryInv
  OBVIOUS
<1>1. DeliveryTypeOK
  BY DeliveryAssumption
  DEF DeliveryInit, DeliveryTypeOK, Rows, Jobs, Absent, Idle
<1>2. HistoriesAgree
  BY DEF DeliveryInit, HistoriesAgree, Agree, HistoryOf, Absent
<1>3. TokensHeldOnce /\ DeliveredWereAccepted
  BY DEF DeliveryInit, TokensHeldOnce, DeliveredWereAccepted, Idle, Absent
<1>4. \A s \in Slots : JobOK(s)
  BY DEF DeliveryInit, JobOK, JobShaped, JobKnows, RequestAccounted, Idle
<1> QED
  BY <1>1, <1>2, <1>3, <1>4 DEF DeliveryInv

LEMMA UnchangedInv == DeliveryInv /\ UNCHANGED deliveryVars => DeliveryInv'
  BY DEF deliveryVars, DeliveryInv, DeliveryTypeOK, TokensHeldOnce, HistoriesAgree, HistoryOf,
         DeliveredWereAccepted, JobOK, JobShaped, JobKnows, RequestAccounted, UnknownOf,
         HoldsClaim, RowOf

\* The projection of a delivery nobody has claimed.
LEMMA ProjectInv ==
    ASSUME DeliveryInv, NEW d \in Deliveries, Project(d)
    PROVE  DeliveryInv'
<1>1. row[d] = Absent /\ Projected \in Rows /\ Projected.token = NoToken /\ Absent.token = NoToken
  <2>1. row[d] = Absent
    BY DEF DeliveryInv, HistoriesAgree, Agree, Project
  <2>2. Absent \in Rows
    BY DEF Absent, Rows, Live
  <2>3. Projected \in Rows /\ Projected.token = Absent.token
    BY <2>2 DEF Projected, Rows, Live
  <2> QED
    BY <2>1, <2>3 DEF Absent
<1>2. DeliveryTypeOK'
  BY <1>1 DEF DeliveryInv, DeliveryTypeOK, Project
<1>3. HistoriesAgree'
  <2>1. Agree(Projected, HistoryOf(d))
    BY <1>1, HistoriesTyped, ProjectedAgrees
  <2> QED
    BY <1>1, <2>1, HistoriesKept DEF DeliveryInv, Project
<1>4. \A e \in Deliveries :
        \/ row'[e] = row[e]
        \/ row[e].token = NoToken /\ row'[e].token = NoToken
  BY <1>1 DEF DeliveryInv, DeliveryTypeOK, Project
<1>5. TokensHeldOnce'
  BY <1>4, TokensKept DEF DeliveryInv, Project
<1>6. \A s \in Slots : JobOK(s)'
  <2> SUFFICES ASSUME NEW s \in Slots PROVE JobOK(s)'
    OBVIOUS
  <2>1. job[s] # Idle => /\ job[s].delivery \in Deliveries /\ job[s].token # NoToken
    BY DeliveryAssumption DEF DeliveryInv, JobOK, JobShaped
  <2>2. job[s] # Idle =>
          LET e == job[s].delivery IN
          \/ SameClaim(row[e], row'[e])
          \/ ~HoldsClaim(s) /\ row'[e].token # job[s].token
    BY <1>4, <2>1 DEF SameClaim, HoldsClaim, RowOf
  <2> QED
    BY <2>2, JobKept DEF DeliveryInv, Project
<1>7. DeliveredWereAccepted'
  BY DEF DeliveryInv, DeliveredWereAccepted, Project
<1> QED
  BY <1>2, <1>3, <1>5, <1>6, <1>7 DEF DeliveryInv

\* Time, and the endpoint: nothing that a claim or a history is about.
LEMMA ClockInv ==
    ASSUME DeliveryInv, NEW d \in Deliveries, NEW q \in Rows,
           row' = [row EXCEPT ![d] = q], row[d].status \in Live, SameClaim(row[d], q),
           q.next = "none" <=> row[d].next = "none",
           UNCHANGED <<attempts, endpoint, job, accepted>>, upsets' \in 0..MaxUpsets
    PROVE  DeliveryInv'
<1>1. DeliveryTypeOK'
  BY DEF DeliveryInv, DeliveryTypeOK
<1>2. row[d].active # 0 => q.token # NoToken
  BY HistoriesTyped DEF SameClaim, Agree, RowAgrees, Live
<1>3. Agree(q, HistoryOf(d))
  BY <1>2, HistoriesTyped, ClaimAgrees DEF SameClaim
<1>4. HistoriesAgree'
  BY <1>3, HistoriesKept DEF DeliveryInv
<1>5. \A e \in Deliveries : SameClaim(row[e], row'[e])
  BY DEF SameClaim, DeliveryInv, DeliveryTypeOK
<1>6. TokensHeldOnce'
  BY <1>5, TokensKept DEF DeliveryInv, SameClaim
<1>7. \A s \in Slots : JobOK(s)'
  <2> SUFFICES ASSUME NEW s \in Slots PROVE JobOK(s)'
    OBVIOUS
  <2>1. job[s] # Idle => job[s].delivery \in Deliveries
    BY DEF DeliveryInv, JobOK, JobShaped
  <2> QED
    BY <1>5, <2>1, JobKept DEF DeliveryInv
<1>8. DeliveredWereAccepted'
  BY DEF DeliveryInv, DeliveredWereAccepted
<1> QED
  BY <1>1, <1>4, <1>6, <1>7, <1>8 DEF DeliveryInv

LEMMA ComeDueInv ==
    ASSUME DeliveryInv, NEW d \in Deliveries, ComeDue(d)
    PROVE  DeliveryInv'
<1> DEFINE q == [row[d] EXCEPT !.next = "due"]
<1>1. row[d] \in Rows /\ row[d].next = "later"
  BY HistoriesTyped DEF ComeDue
<1>2. q \in Rows /\ SameClaim(row[d], q) /\ q.next = "due"
  BY <1>1 DEF Rows, SameClaim
<1>3. row' = [row EXCEPT ![d] = q]
  BY DEF ComeDue
<1>4. row[d].status \in Live
  BY <1>1, ClaimedIsLive
<1>5. upsets' \in 0..MaxUpsets
  BY DEF ComeDue, DeliveryInv, DeliveryTypeOK
<1> HIDE DEF q
<1> QED
  BY <1>1, <1>2, <1>3, <1>4, <1>5, ClockInv DEF ComeDue

LEMMA LeaseEndsInv ==
    ASSUME DeliveryInv, NEW d \in Deliveries, LeaseEnds(d)
    PROVE  DeliveryInv'
<1> DEFINE q == [row[d] EXCEPT !.expired = TRUE]
<1>1. row[d] \in Rows /\ row[d].token # NoToken
  BY HistoriesTyped DEF LeaseEnds, EndLease
<1>2. q \in Rows /\ SameClaim(row[d], q) /\ q.next = row[d].next
  BY <1>1 DEF Rows, SameClaim
<1>3. row' = [row EXCEPT ![d] = q] /\ UNCHANGED <<attempts, endpoint, job, accepted>>
  BY DEF LeaseEnds, EndLease
<1>4. row[d].status \in Live
  BY <1>1, ClaimedIsLive
<1>5. upsets' \in 0..MaxUpsets
  BY DeliveryAssumption DEF LeaseEnds, Upset, DeliveryInv, DeliveryTypeOK
<1> HIDE DEF q
<1> QED
  BY <1>2, <1>3, <1>4, <1>5, ClockInv

\* A job goes on, or ends, and changes no row.
LEMMA WorkedInv ==
    ASSUME DeliveryInv, NEW s \in Slots, NEW j \in Jobs, job' = [job EXCEPT ![s] = j],
           \/ j = Idle
           \/ j.token = job[s].token /\ j.delivery = job[s].delivery,
           JobOK(s)', UNCHANGED <<row, attempts, endpoint>>,
           accepted \subseteq accepted', accepted' \subseteq Deliveries \X Nat,
           upsets' \in 0..MaxUpsets
    PROVE  DeliveryInv'
<1>1. DeliveryTypeOK'
  BY DEF DeliveryInv, DeliveryTypeOK
<1>2. HistoriesAgree' /\ DeliveredWereAccepted'
  BY DEF DeliveryInv, HistoriesAgree, HistoryOf, DeliveredWereAccepted
<1>3. job \in [Slots -> Jobs]
  BY DEF DeliveryInv, DeliveryTypeOK
<1>4. TokensHeldOnce'
  BY <1>3, TokensKept DEF DeliveryInv, Idle
<1>5. ASSUME NEW t \in Slots, t # s PROVE JobOK(t)'
  BY <1>3, <1>5, JobKept DEF DeliveryInv, SameClaim
<1> QED
  BY <1>1, <1>2, <1>4, <1>5 DEF DeliveryInv

LEMMA EndedInv ==
    ASSUME DeliveryInv, NEW s \in Slots, EndJob(s), UNCHANGED <<row, attempts, endpoint, accepted>>,
           upsets' \in 0..MaxUpsets
    PROVE  DeliveryInv'
<1>1. Idle \in Jobs
  BY DEF Idle, Jobs
<1>2. job' = [job EXCEPT ![s] = Idle] /\ job'[s] = Idle
  BY DEF EndJob, DeliveryInv, DeliveryTypeOK
<1>3. JobOK(s)'
  BY <1>2, IdleJobOK
<1> QED
  BY <1>1, <1>2, <1>3, WorkedInv DEF DeliveryInv, DeliveryTypeOK

\* A job changes the row it holds; no other job holds it.
LEMMA HolderInv ==
    ASSUME DeliveryInv, NEW s \in Slots, job[s].at # "idle", HoldsClaim(s),
           NEW j \in Jobs, job' = [job EXCEPT ![s] = j],
           \/ j = Idle
           \/ j.token = job[s].token /\ j.delivery = job[s].delivery,
           NEW q \in Rows, SetRow(s, q), q.token \in {job[s].token, NoToken},
           attempts \subseteq attempts', attempts' \subseteq Attempts,
           HistoriesAgree', DeliveredWereAccepted', JobOK(s)',
           UNCHANGED <<endpoint, accepted>>, upsets' \in 0..MaxUpsets
    PROVE  DeliveryInv'
<1> DEFINE d == job[s].delivery
<1>1. /\ job \in [Slots -> Jobs] /\ row \in [Deliveries -> Rows]
      /\ d \in Deliveries /\ job[s].token # NoToken /\ row[d].token = job[s].token
      /\ row' = [row EXCEPT ![d] = q]
  BY DeliveryAssumption
  DEF DeliveryInv, DeliveryTypeOK, JobOK, JobShaped, HoldsClaim, RowOf, SetRow
<1>2. DeliveryTypeOK'
  BY <1>1 DEF DeliveryInv, DeliveryTypeOK
<1>3. TokensHeldOnce'
  BY <1>1, TokensKept DEF DeliveryInv, Idle
<1>4. ASSUME NEW t \in Slots, t # s PROVE JobOK(t)'
  <2>1. job'[t] = job[t] /\ JobOK(t)
    BY <1>1, <1>4 DEF DeliveryInv
  <2>2. job[t] # Idle =>
          LET e == job[t].delivery IN
          \/ SameClaim(row[e], row'[e])
          \/ ~HoldsClaim(t) /\ row'[e].token # job[t].token
    <3> SUFFICES ASSUME job[t] # Idle, job[t].delivery = d
                 PROVE  ~HoldsClaim(t) /\ row'[d].token # job[t].token
      BY <1>1, <2>1 DEF SameClaim, JobOK, JobShaped
    <3>1. job[t].token # job[s].token /\ job[t].token # NoToken
      BY <1>1, <1>4, <2>1, DeliveryAssumption DEF DeliveryInv, TokensHeldOnce, JobOK, JobShaped
    <3> QED
      BY <1>1, <3>1 DEF HoldsClaim, RowOf
  <2> QED
    BY <2>1, <2>2, JobKept DEF DeliveryInv
<1> QED
  BY <1>2, <1>3, <1>4 DEF DeliveryInv

LEMMA EndpointInv ==
    ASSUME DeliveryInv, PatchStatus \/ RotateSecret
    PROVE  DeliveryInv'
<1>1. UNCHANGED <<row, attempts, job, accepted>>
  BY DEF PatchStatus, RotateSecret
<1>2. upsets' \in 0..MaxUpsets /\ endpoint' \in [active : BOOLEAN, secret : Nat]
  <2>1. upsets' \in 0..MaxUpsets /\ endpoint \in [active : BOOLEAN, secret : Nat]
    BY DeliveryAssumption DEF PatchStatus, RotateSecret, Upset, DeliveryInv, DeliveryTypeOK
  <2>2. CASE PatchStatus
    <3> DEFINE b == ~endpoint.active
    <3>1. b \in BOOLEAN /\ endpoint' = [endpoint EXCEPT !.active = b]
      BY <2>2 DEF PatchStatus
    <3> HIDE DEF b
    <3> QED
      BY <2>1, <3>1
  <2>3. CASE RotateSecret
    BY <2>1, <2>3 DEF RotateSecret
  <2> QED
    BY <2>1, <2>2, <2>3
<1>3. DeliveryTypeOK' /\ HistoriesAgree' /\ DeliveredWereAccepted' /\ TokensHeldOnce'
  BY <1>1, <1>2
  DEF DeliveryInv, DeliveryTypeOK, HistoriesAgree, HistoryOf, DeliveredWereAccepted, TokensHeldOnce
<1>4. \A s \in Slots : JobOK(s)'
  BY <1>1, JobKept DEF DeliveryInv, SameClaim
<1> QED
  BY <1>3, <1>4 DEF DeliveryInv

LEMMA LoseJobInv ==
    ASSUME DeliveryInv, NEW s \in Slots, LoseJob(s)
    PROVE  DeliveryInv'
<1>1. upsets' \in 0..MaxUpsets
  BY DeliveryAssumption DEF LoseJob, Upset, DeliveryInv, DeliveryTypeOK
<1> QED
  BY <1>1, EndedInv DEF LoseJob

LEMMA LoadContextInv ==
    ASSUME DeliveryInv, NEW s \in Slots, LoadContext(s)
    PROVE  DeliveryInv'
<1>1. upsets' \in 0..MaxUpsets
  BY DEF LoadContext, DeliveryInv, DeliveryTypeOK
<1>2. CASE ~HoldsClaim(s)
  BY <1>1, <1>2, EndedInv DEF LoadContext
<1>3. CASE HoldsClaim(s)
  <2> DEFINE j == [job[s] EXCEPT !.at = "loaded", !.active = endpoint.active,
                                 !.secret = endpoint.secret]
  <2>1. job[s] \in Jobs /\ job \in [Slots -> Jobs] /\ job[s].at = "claimed" /\ JobOK(s)
        /\ endpoint \in [active : BOOLEAN, secret : Nat]
    BY DEF LoadContext, DeliveryInv, DeliveryTypeOK
  <2>2. /\ j \in Jobs /\ j.token = job[s].token /\ j.delivery = job[s].delivery
        /\ j.at = "loaded" /\ j.count = job[s].count
    BY <2>1 DEF Jobs
  <2>3. job' = [job EXCEPT ![s] = j] /\ job'[s] = j
    BY <1>3, <2>1 DEF LoadContext
  <2> HIDE DEF j
  <2>4. JobOK(s)'
    BY <2>1, <2>2, <2>3
    DEF LoadContext, JobOK, JobShaped, JobKnows, RequestAccounted, HoldsClaim, RowOf
  <2> QED
    BY <1>1, <2>2, <2>3, <2>4, WorkedInv DEF LoadContext, DeliveryInv, DeliveryTypeOK
<1> QED
  BY <1>2, <1>3

LEMMA AnswerInv ==
    ASSUME DeliveryInv, NEW s \in Slots, NEW outcome \in Answers, Answer(s, outcome)
    PROVE  DeliveryInv'
<1> DEFINE j == [job[s] EXCEPT !.at = "answered", !.answer = outcome]
           taken == accepted \cup {<<job[s].delivery, job[s].count>>}
<1>1. job[s] \in Jobs /\ job \in [Slots -> Jobs] /\ job[s].at = "sending" /\ JobOK(s)
  BY DEF Answer, DeliveryInv, DeliveryTypeOK
<1>2. /\ j \in Jobs /\ j.token = job[s].token /\ j.delivery = job[s].delivery
      /\ j.at = "answered" /\ j.count = job[s].count /\ j.answer = outcome
  BY <1>1 DEF Jobs
<1>3. job' = [job EXCEPT ![s] = j] /\ job'[s] = j
  BY <1>1 DEF Answer
<1>4. accepted' \in {accepted, taken} /\ (outcome = "delivered" => accepted' = taken)
  <2>1. CASE outcome = "delivered"
    BY <2>1 DEF Answer
  <2>2. CASE outcome = "retryable_failure"
    BY <2>2 DEF Answer
  <2>3. CASE outcome = "non_retryable_failure"
    BY <2>3 DEF Answer
  <2> QED
    BY <2>1, <2>2, <2>3 DEF Answers
<1>5. job[s].delivery \in Deliveries /\ job[s].count \in Nat
  BY <1>1 DEF JobOK, JobShaped, Jobs
<1>6. accepted \subseteq accepted' /\ accepted' \subseteq Deliveries \X Nat
  BY <1>4, <1>5 DEF DeliveryInv, DeliveryTypeOK
<1> HIDE DEF j
<1>7. UNCHANGED <<row, attempts, endpoint, upsets>>
  BY DEF Answer
<1>8. JobOK(s)'
  BY <1>1, <1>2, <1>3, <1>4, <1>7
  DEF JobOK, JobShaped, JobKnows, RequestAccounted, UnknownOf, HoldsClaim, RowOf
<1> QED
  BY <1>2, <1>3, <1>6, <1>7, <1>8, WorkedInv DEF DeliveryInv, DeliveryTypeOK

\* An unstarted claim is given back.
LEMMA ClearClaimInv ==
    ASSUME DeliveryInv, NEW s \in Slots, job[s].at # "idle", ClearClaim(s), EndJob(s),
           UNCHANGED <<attempts, endpoint, accepted>>, upsets' \in 0..MaxUpsets
    PROVE  DeliveryInv'
<1> DEFINE d == job[s].delivery
           q == ClearedClaim(row[d])
<1>1. CASE ~(HoldsClaim(s) /\ RowOf(s).active = 0)
  BY <1>1, EndedInv DEF ClearClaim
<1>2. CASE HoldsClaim(s) /\ RowOf(s).active = 0
  <2>1. d \in Deliveries /\ row[d].token # NoToken /\ row[d].active = 0
    BY <1>2, DeliveryAssumption DEF DeliveryInv, JobOK, JobShaped, HoldsClaim, RowOf
  <2>2. row[d] \in Rows /\ row[d].status \in Live
    BY <2>1, HistoriesTyped, ClaimedIsLive
  <2>3. /\ q \in Rows /\ q.token = NoToken /\ q.status = row[d].status
        /\ q.count = row[d].count /\ q.active = row[d].active /\ q.next = row[d].next
    BY <2>2 DEF ClearedClaim, Rows
  <2>4. SetRow(s, q) /\ row' = [row EXCEPT ![d] = q]
    BY <1>2 DEF ClearClaim, SetRow, RowOf
  <2> HIDE DEF q
  <2>5. Agree(q, HistoryOf(d))
    BY <2>1, <2>2, <2>3, HistoriesTyped, ClaimAgrees
  <2>6. HistoriesAgree'
    BY <2>1, <2>3, <2>4, <2>5, HistoriesKept DEF DeliveryInv
  <2>7. Idle \in Jobs
    BY DEF Idle, Jobs
  <2>8. job' = [job EXCEPT ![s] = Idle] /\ JobOK(s)'
    BY IdleJobOK DEF EndJob, DeliveryInv, DeliveryTypeOK
  <2>9. DeliveredWereAccepted' /\ attempts' \subseteq Attempts
    BY DEF DeliveryInv, DeliveryTypeOK, DeliveredWereAccepted
  <2> QED
    BY <1>2, <2>3, <2>4, <2>6, <2>7, <2>8, <2>9, HolderInv
<1> QED
  BY <1>1, <1>2

LEMMA ReleaseUnstartedInv ==
    ASSUME DeliveryInv, NEW s \in Slots, ReleaseUnstarted(s)
    PROVE  DeliveryInv'
<1>1. upsets' \in 0..MaxUpsets
  BY DeliveryAssumption DEF ReleaseUnstarted, Upset, DeliveryInv, DeliveryTypeOK
<1> QED
  BY <1>1, ClearClaimInv DEF ReleaseUnstarted

LEMMA FinalStatusIs ==
    ASSUME NEW outcome \in Answers, NEW n \in Nat, n <= MaxAttempts
    PROVE  /\ outcome = "delivered" => FinalStatus(outcome, n) = "delivered"
           /\ outcome = "non_retryable_failure" => FinalStatus(outcome, n) = "dead_lettered"
           /\ outcome = "retryable_failure" =>
                FinalStatus(outcome, n) = IF n = MaxAttempts THEN "dead_lettered" ELSE "retrying"
<1>1. outcome = "delivered" => FinalStatus(outcome, n) = "delivered"
  BY DEF FinalStatus
<1>2. outcome = "non_retryable_failure" => FinalStatus(outcome, n) = "dead_lettered"
  BY DEF FinalStatus
<1>3. outcome = "retryable_failure" =>
         FinalStatus(outcome, n) = IF n = MaxAttempts THEN "dead_lettered" ELSE "retrying"
  BY DeliveryAssumption DEF FinalStatus
<1> QED
  BY <1>1, <1>2, <1>3

\* An attempt's outcome is recorded and its claim given back.
LEMMA RecordInv ==
    ASSUME DeliveryInv, NEW s \in Slots, job[s].at # "idle", HoldsClaim(s),
           NEW n \in Nat \ {0}, NEW outcome \in Answers, NEW q \in Rows,
           SetRow(s, q), Record(job[s].delivery, n, outcome), EndJob(s),
           \/ RowOf(s).active # 0 /\ n = RowOf(s).active /\ q.count = RowOf(s).count
           \/ /\ RowOf(s).active = 0
              /\ n = RowOf(s).count + 1 /\ q.count = n
              /\ outcome = "non_retryable_failure",
           q.active = 0, q.token = NoToken,
           q.status = FinalStatus(outcome, n), n <= MaxAttempts,
           q.next = IF q.status = "retrying" THEN RowOf(s).next ELSE "none",
           outcome = "delivered" => <<job[s].delivery, n>> \in accepted,
           UNCHANGED <<endpoint, accepted, upsets>>
    PROVE  DeliveryInv'
<1> DEFINE d == job[s].delivery
           a == [delivery |-> d, number |-> n, outcome |-> outcome]
<1>1. /\ d \in Deliveries /\ row[d].token # NoToken
      /\ row' = [row EXCEPT ![d] = q] /\ attempts' = attempts \cup {a}
  BY DeliveryAssumption
  DEF DeliveryInv, JobOK, JobShaped, HoldsClaim, RowOf, SetRow, Record
<1>2. row[d] \in Rows /\ row[d].status \in Live
  BY <1>1, HistoriesTyped, ClaimedIsLive
<1>3. a \in Attempts /\ a.delivery = d /\ a.number = n /\ a.outcome = outcome
  BY <1>1 DEF Attempts
<1> HIDE DEF a
<1>4. Agree(q, HistoryOf(d) \cup {a})
  <2>1. /\ HistoryOf(d) \subseteq Attempts /\ Agree(row[d], HistoryOf(d))
        /\ outcome # "unknown"
    BY <1>1, HistoriesTyped DEF Answers
  <2>2. /\ outcome = "delivered" => q.status = "delivered"
        /\ outcome = "non_retryable_failure" => q.status = "dead_lettered"
        /\ outcome \in {"retryable_failure", "unknown"} =>
              q.status = IF n = MaxAttempts THEN "dead_lettered" ELSE "retrying"
    BY <2>1, FinalStatusIs
  <2> QED
    BY <1>1, <1>2, <1>3, <2>1, <2>2, RecordedAgrees DEF RowOf
<1>5. HistoriesAgree'
  BY <1>1, <1>3, <1>4, HistoriesExtended DEF DeliveryInv
<1>6. DeliveredWereAccepted' /\ attempts' \subseteq Attempts /\ attempts \subseteq attempts'
  BY <1>1, <1>3 DEF DeliveryInv, DeliveryTypeOK, DeliveredWereAccepted
<1>7. Idle \in Jobs
  BY DEF Idle, Jobs
<1>8. job' = [job EXCEPT ![s] = Idle] /\ JobOK(s)'
  BY IdleJobOK DEF EndJob, DeliveryInv, DeliveryTypeOK
<1> QED
  BY <1>5, <1>6, <1>7, <1>8, HolderInv DEF DeliveryInv, DeliveryTypeOK

LEMMA LockForStartInv ==
    ASSUME DeliveryInv, NEW s \in Slots, LockForStart(s)
    PROVE  DeliveryInv'
<1>1. /\ job[s] \in Jobs /\ job \in [Slots -> Jobs] /\ job[s].at = "loaded" /\ JobOK(s)
      /\ upsets' \in 0..MaxUpsets /\ UNCHANGED <<endpoint, accepted, upsets>>
  BY DEF LockForStart, DeliveryInv, DeliveryTypeOK
<1>2. CASE EndJob(s) /\ UNCHANGED <<row, attempts>>
  BY <1>1, <1>2, EndedInv
<1>3. CASE ClearClaim(s) /\ EndJob(s) /\ UNCHANGED attempts
  BY <1>1, <1>3, ClearClaimInv
<1>4. CASE Startable(s) /\ PersistInactiveAttempt(s) /\ EndJob(s)
  <2> DEFINE n == job[s].count + 1
             q == [Ended(RowOf(s), "dead_lettered") EXCEPT !.count = n]
  <2>1. /\ HoldsClaim(s) /\ RowOf(s).status \in Live /\ RowOf(s).active = 0
        /\ RowOf(s).count = job[s].count
    BY <1>4 DEF Startable, HoldsLease
  <2>2. RowOf(s) \in Rows /\ RowAgrees(RowOf(s)) /\ job[s].count \in Nat
    BY <1>1, <2>1, HistoriesTyped DEF JobOK, JobShaped, Jobs, RowOf, Agree, Live
  <2>3. n \in Nat \ {0} /\ n <= MaxAttempts
    BY <2>1, <2>2, DeliveryAssumption DEF RowAgrees, Live
  <2>4. /\ q \in Rows /\ q.active = 0 /\ q.token = NoToken /\ q.count = n
        /\ q.status = "dead_lettered" /\ q.next = "none"
    BY <2>2, <2>3 DEF Ended, ClearedClaim, Rows, Terminal
  <2>5. SetRow(s, q) /\ Record(job[s].delivery, n, "non_retryable_failure")
    BY <1>4 DEF PersistInactiveAttempt
  <2> HIDE DEF n, q
  <2>6. FinalStatus("non_retryable_failure", n) = "dead_lettered"
    BY <2>3, FinalStatusIs DEF Answers
  <2>7. n = RowOf(s).count + 1
    BY <2>1 DEF n
  <2> QED
    BY <1>1, <1>4, <2>1, <2>3, <2>4, <2>5, <2>6, <2>7, RecordInv DEF Answers
<1>5. CASE Startable(s) /\ job' = [job EXCEPT ![s].at = "locked"] /\ UNCHANGED <<row, attempts>>
  <2> DEFINE j == [job[s] EXCEPT !.at = "locked"]
  <2>1. /\ j \in Jobs /\ j.token = job[s].token /\ j.delivery = job[s].delivery
        /\ j.at = "locked" /\ j.count = job[s].count
    BY <1>1 DEF Jobs
  <2>2. job' = [job EXCEPT ![s] = j] /\ job'[s] = j
    BY <1>1, <1>5
  <2> HIDE DEF j
  <2>3. JobOK(s)'
    BY <1>1, <1>5, <2>1, <2>2
    DEF JobOK, JobShaped, JobKnows, RequestAccounted, Startable, HoldsLease, HoldsClaim, RowOf
  <2> QED
    BY <1>1, <1>5, <2>1, <2>2, <2>3, WorkedInv DEF DeliveryInv, DeliveryTypeOK
<1> QED
  BY <1>2, <1>3, <1>4, <1>5 DEF LockForStart

LEMMA StartAttemptInv ==
    ASSUME DeliveryInv, NEW s \in Slots, StartAttempt(s)
    PROVE  DeliveryInv'
<1>1. /\ job[s] \in Jobs /\ job \in [Slots -> Jobs] /\ job[s].at = "locked" /\ JobOK(s)
      /\ upsets' \in 0..MaxUpsets /\ UNCHANGED <<attempts, endpoint, accepted, upsets>>
  BY DEF StartAttempt, DeliveryInv, DeliveryTypeOK
<1>2. CASE ~HoldsLease(s)
  BY <1>1, <1>2, EndedInv DEF StartAttempt
<1>3. CASE HoldsLease(s)
  <2> DEFINE d == job[s].delivery
             n == job[s].count + 1
             j == [job[s] EXCEPT !.at = "sending", !.count = n]
             q == [row[d] EXCEPT !.count = n, !.active = n,
                                 !.next = IF n = MaxAttempts THEN "none" ELSE "later"]
  <2>1. /\ HoldsClaim(s) /\ d \in Deliveries /\ row[d].token # NoToken
        /\ row[d].status \in Live /\ row[d].active = 0 /\ row[d].count = job[s].count
        /\ row[d].token = job[s].token /\ job[s].count \in Nat
    BY <1>1, <1>3, DeliveryAssumption
    DEF JobOK, JobShaped, JobKnows, HoldsLease, HoldsClaim, RowOf, Jobs
  <2>2. row[d] \in Rows /\ HistoryOf(d) \subseteq Attempts /\ Agree(row[d], HistoryOf(d))
    BY <2>1, HistoriesTyped
  <2>0. n \in Nat /\ n >= 1
    BY <2>1
  <2>3. q \in Rows /\ q.token = job[s].token /\ q.active = n /\ q.count = n
    <3> HIDE DEF n
    <3> QED
      BY <2>0, <2>1, <2>2 DEF Rows
  <2>4. Agree(q, HistoryOf(d))
    BY <2>1, <2>2, <2>3, StartedAgrees
  <2>5. /\ j \in Jobs /\ j.token = job[s].token /\ j.delivery = d
        /\ j.at = "sending" /\ j.count = n /\ n >= 1
    <3> HIDE DEF n
    <3> QED
      BY <1>1, <2>0, <2>1 DEF Jobs
  <2>6. /\ job' = [job EXCEPT ![s] = j] /\ job'[s] = j
        /\ SetRow(s, q) /\ row' = [row EXCEPT ![d] = q] /\ row'[d] = q
    BY <1>1, <1>3, <2>1 DEF StartAttempt, SetRow, RowOf, DeliveryInv, DeliveryTypeOK
  <2> HIDE DEF j, q, n
  <2>7. JobOK(s)'
    BY <1>1, <2>1, <2>3, <2>5, <2>6
    DEF JobOK, JobShaped, JobKnows, RequestAccounted, HoldsClaim, RowOf
  <2>8. HistoriesAgree' /\ DeliveredWereAccepted'
    BY <1>1, <2>1, <2>3, <2>4, <2>6, HistoriesKept DEF DeliveryInv, DeliveredWereAccepted
  <2> QED
    BY <1>1, <2>1, <2>3, <2>5, <2>6, <2>7, <2>8, HolderInv DEF DeliveryInv, DeliveryTypeOK
<1> QED
  BY <1>2, <1>3

LEMMA FinalizeAttemptInv ==
    ASSUME DeliveryInv, NEW s \in Slots, FinalizeAttempt(s)
    PROVE  DeliveryInv'
<1>1. /\ job[s] \in Jobs /\ job[s].at = "answered" /\ JobOK(s) /\ EndJob(s)
      /\ upsets' \in 0..MaxUpsets /\ UNCHANGED <<endpoint, accepted, upsets>>
  BY DEF FinalizeAttempt, DeliveryInv, DeliveryTypeOK
<1>2. CASE ~Finalizable(s)
  BY <1>1, <1>2, EndedInv DEF FinalizeAttempt
<1>3. CASE Finalizable(s)
  <2> DEFINE n == job[s].count
             status == FinalStatus(job[s].answer, n)
             q == IF status = "retrying" THEN Retried(RowOf(s)) ELSE Ended(RowOf(s), status)
  <2>1. /\ HoldsClaim(s) /\ job[s].delivery \in Deliveries /\ RowOf(s).token # NoToken
        /\ RowOf(s).active = n /\ n \in Nat \ {0} /\ job[s].answer \in Answers
        /\ job[s].answer = "delivered" => <<job[s].delivery, n>> \in accepted
    BY <1>1, <1>3, DeliveryAssumption
    DEF JobOK, JobShaped, JobKnows, Finalizable, HoldsLease, HoldsClaim, RowOf, Jobs
  <2>2. RowOf(s) \in Rows /\ RowOf(s).status \in Live /\ RowAgrees(RowOf(s))
    BY <2>1, HistoriesTyped, ClaimedIsLive DEF RowOf, Agree, Live
  <2>3. n <= MaxAttempts
    BY <2>1, <2>2 DEF RowAgrees
  <2>4. status \in {"retrying", "delivered", "dead_lettered"}
    BY <2>1, <2>3, FinalStatusIs DEF Answers
  <2> HIDE DEF status
  <2>5. /\ q \in Rows /\ q.active = 0 /\ q.token = NoToken /\ q.count = RowOf(s).count
        /\ q.status = status
        /\ q.next = IF q.status = "retrying" THEN RowOf(s).next ELSE "none"
    <3>1. CASE status = "retrying"
      BY <2>2, <3>1 DEF Retried, ClearedClaim, Rows, Live
    <3>2. CASE status \in Terminal
      BY <2>2, <3>2 DEF Ended, ClearedClaim, Rows, Terminal
    <3> QED
      BY <2>4, <3>1, <3>2 DEF Terminal
  <2>6. SetRow(s, q) /\ Record(job[s].delivery, n, job[s].answer)
    BY <1>3 DEF FinalizeAttempt, status
  <2> HIDE DEF q
  <2> QED
    BY <1>1, <2>1, <2>3, <2>5, <2>6, RecordInv DEF status
<1> QED
  BY <1>2, <1>3

\* A fresh token is held by nobody else.
LEMMA ClaimInv ==
    ASSUME DeliveryInv, NEW s \in Slots, NEW d \in Deliveries, Claim(s, d)
    PROVE  DeliveryInv'
<1>1. PICK t \in UnusedTokens :
        /\ row' = [row EXCEPT ![d] = [@ EXCEPT !.token = t, !.expired = FALSE]]
        /\ job' = [job EXCEPT ![s] = [Idle EXCEPT !.at = "claimed", !.delivery = d,
                                                  !.token = t, !.count = row[d].count]]
  BY DEF Claim
<1> DEFINE q == [row[d] EXCEPT !.token = t, !.expired = FALSE]
           j == [Idle EXCEPT !.at = "claimed", !.delivery = d, !.token = t,
                             !.count = row[d].count]
<1>2. /\ t \in Tokens /\ t # NoToken
      /\ \A e \in Deliveries : row[e].token # t
      /\ \A u \in Slots : job[u].token # t
  BY DeliveryAssumption DEF UnusedTokens
<1>3. row[d] \in Rows /\ row[d].status \in Live /\ row[d].token = NoToken /\ job[s] = Idle
      /\ Agree(row[d], HistoryOf(d)) /\ UNCHANGED <<attempts, endpoint, accepted, upsets>>
  BY HistoriesTyped DEF Claim
<1>4. row[d].active = 0 /\ row[d].count \in Nat
  BY <1>3 DEF Agree, RowAgrees, Live, Rows
<1>5. /\ q \in Rows /\ q.token = t /\ q.status = row[d].status /\ q.count = row[d].count
      /\ q.active = row[d].active /\ q.next = row[d].next
  BY <1>2, <1>3 DEF Rows
<1>6. /\ j \in Jobs /\ j.token = t /\ j.delivery = d /\ j.at = "claimed"
      /\ j.count = row[d].count
  <2>1. Idle \in Jobs
    BY DEF Idle, Jobs
  <2> QED
    BY <1>2, <1>4, <2>1 DEF Jobs
<1>7. /\ job \in [Slots -> Jobs] /\ row \in [Deliveries -> Rows]
      /\ row' = [row EXCEPT ![d] = q] /\ job' = [job EXCEPT ![s] = j]
      /\ row'[d] = q /\ job'[s] = j
  BY <1>1 DEF DeliveryInv, DeliveryTypeOK
<1> HIDE DEF q, j
<1>8. DeliveryTypeOK'
  BY <1>3, <1>5, <1>6, <1>7 DEF DeliveryInv, DeliveryTypeOK
<1>9. HistoriesAgree' /\ DeliveredWereAccepted'
  <2>1. Agree(q, HistoryOf(d))
    BY <1>2, <1>3, <1>5, HistoriesTyped, ClaimAgrees
  <2> QED
    BY <1>3, <1>5, <1>7, <2>1, HistoriesKept DEF DeliveryInv, DeliveredWereAccepted
<1>10. TokensHeldOnce'
  BY <1>2, <1>5, <1>6, <1>7 DEF DeliveryInv, TokensHeldOnce
<1>11. JobOK(s)'
  BY <1>2, <1>3, <1>4, <1>5, <1>6, <1>7
  DEF JobOK, JobShaped, JobKnows, RequestAccounted, HoldsClaim, RowOf
<1>12. ASSUME NEW u \in Slots, u # s PROVE JobOK(u)'
  <2>1. job'[u] = job[u] /\ JobOK(u)
    BY <1>7, <1>12 DEF DeliveryInv
  <2>2. job[u] # Idle =>
          LET e == job[u].delivery IN
          \/ SameClaim(row[e], row'[e])
          \/ ~HoldsClaim(u) /\ row'[e].token # job[u].token
    <3> SUFFICES ASSUME job[u] # Idle, job[u].delivery = d
                 PROVE  ~HoldsClaim(u) /\ row'[d].token # job[u].token
      BY <1>7, <2>1 DEF SameClaim, JobOK, JobShaped
    <3>1. job[u].token # NoToken
      BY <2>1, DeliveryAssumption DEF JobOK, JobShaped
    <3> QED
      BY <1>2, <1>3, <1>5, <1>7, <3>1 DEF HoldsClaim, RowOf
  <2> QED
    BY <1>3, <2>1, <2>2, JobKept DEF DeliveryInv
<1> QED
  BY <1>8, <1>9, <1>10, <1>11, <1>12 DEF DeliveryInv

\* Recovery takes the claim of a job that may be at work, and records the
\* attempt it may have sent.
LEMMA RecoverExpiredInv ==
    ASSUME DeliveryInv, NEW d \in Deliveries, RecoverExpired(d)
    PROVE  DeliveryInv'
<1> DEFINE r == row[d]
           n == r.active
           a == [delivery |-> d, number |-> n, outcome |-> "unknown"]
           q == IF n = 0 THEN ClearedClaim(r) ELSE RecoveredRow(r)
<1>1. /\ row[d] \in Rows /\ row[d].token # NoToken /\ row[d].status \in Live /\ ~Locked(d)
      /\ HistoryOf(d) \subseteq Attempts /\ Agree(row[d], HistoryOf(d)) /\ RowAgrees(row[d])
      /\ UNCHANGED <<endpoint, job, accepted, upsets>>
  BY HistoriesTyped, ClaimedIsLive DEF RecoverExpired, Recoverable, Agree, Live
<1>2. /\ row \in [Deliveries -> Rows] /\ row' = [row EXCEPT ![d] = q] /\ row'[d] = q
      /\ attempts' = IF n = 0 THEN attempts ELSE attempts \cup {a}
  BY DEF RecoverExpired, Record, DeliveryInv, DeliveryTypeOK
<1>3. /\ q \in Rows /\ q.token = NoToken /\ q.active = 0 /\ q.count = r.count
      /\ n # 0 => /\ q.status = IF n = MaxAttempts THEN "dead_lettered" ELSE "retrying"
                  /\ q.next = IF q.status = "retrying" THEN r.next ELSE "none"
      /\ n = 0 => q.status = r.status /\ q.next = r.next
  <2>1. CASE n = 0
    BY <1>1, <2>1 DEF ClearedClaim, Rows
  <2>2. CASE n # 0 /\ n >= MaxAttempts
    <3>1. n = MaxAttempts
      BY <1>1, <2>2, DeliveryAssumption DEF RowAgrees, Rows
    <3> QED
      BY <1>1, <2>2, <3>1 DEF RecoveredRow, Ended, ClearedClaim, Rows, Terminal
  <2>3. CASE n # 0 /\ ~(n >= MaxAttempts)
    <3>1. q = Retried(row[d]) /\ n # MaxAttempts /\ n # 0
      BY <1>1, <2>3, DeliveryAssumption DEF RecoveredRow, Rows
    <3> HIDE DEF n, q
    <3>2. /\ q \in Rows /\ q.token = NoToken /\ q.active = 0 /\ q.count = row[d].count
          /\ q.status = "retrying" /\ q.next = row[d].next
      BY <1>1, <3>1 DEF Retried, ClearedClaim, Rows, Live
    <3> QED
      BY <3>1, <3>2
  <2> QED
    BY <2>1, <2>2, <2>3
<1> HIDE DEF q
<1>4. n # 0 => a \in Attempts /\ a.delivery = d /\ a.number = n /\ a.outcome = "unknown"
  BY <1>1 DEF Attempts, Rows
<1>5. attempts \subseteq attempts' /\ attempts' \subseteq Attempts
  BY <1>2, <1>4 DEF DeliveryInv, DeliveryTypeOK
<1>6. HistoriesAgree'
  <2>1. CASE n = 0
    <3>1. Agree(q, HistoryOf(d))
      BY <1>1, <1>3, <2>1, ClaimAgrees
    <3> QED
      BY <1>2, <1>3, <2>1, <3>1, HistoriesKept DEF DeliveryInv
  <2>2. CASE n # 0
    <3> HIDE DEF a
    <3>1. Agree(q, HistoryOf(d) \cup {a})
      BY <1>1, <1>3, <1>4, <2>2, RecordedAgrees
    <3> QED
      BY <1>2, <1>3, <1>4, <2>2, <3>1, HistoriesExtended DEF DeliveryInv
  <2> QED
    BY <2>1, <2>2
<1>7. DeliveredWereAccepted'
  BY <1>1, <1>2, <1>4 DEF DeliveryInv, DeliveredWereAccepted
<1>8. DeliveryTypeOK'
  BY <1>1, <1>2, <1>3, <1>5 DEF DeliveryInv, DeliveryTypeOK
<1>9. TokensHeldOnce'
  BY <1>1, <1>2, <1>3, TokensKept DEF DeliveryInv
<1>10. ASSUME NEW s \in Slots PROVE JobOK(s)'
  <2>1. job'[s] = job[s] /\ JobOK(s) /\ accepted \subseteq accepted'
    BY <1>1 DEF DeliveryInv
  <2>2. CASE job[s].delivery # d
    <3>1. job[s] # Idle => SameClaim(row[job[s].delivery], row'[job[s].delivery])
      BY <1>2, <2>1, <2>2 DEF SameClaim, JobOK, JobShaped
    <3> QED
      BY <1>5, <2>1, <3>1, JobKept DEF DeliveryInv
  <2>3. CASE job[s].delivery = d
    <3>1. job[s].at # "locked"
      BY <1>1, <2>3 DEF Locked
    <3>2. n # 0 => a \in attempts'
      BY <1>2
    <3> QED
      BY <1>2, <1>3, <1>5, <2>1, <2>3, <3>1, <3>2, JobKept DEF DeliveryInv
  <2> QED
    BY <2>2, <2>3
<1> QED
  BY <1>6, <1>7, <1>8, <1>9, <1>10 DEF DeliveryInv

LEMMA NextInv == DeliveryInv /\ [DeliveryNext]_deliveryVars => DeliveryInv'
<1> SUFFICES ASSUME DeliveryInv, [DeliveryNext]_deliveryVars
             PROVE  DeliveryInv'
  OBVIOUS
<1>1. ASSUME NEW d \in Deliveries, Project(d) PROVE DeliveryInv'
  BY <1>1, ProjectInv
<1>2. ASSUME NEW d \in Deliveries, ComeDue(d) PROVE DeliveryInv'
  BY <1>2, ComeDueInv
<1>3. ASSUME NEW d \in Deliveries, LeaseEnds(d) PROVE DeliveryInv'
  BY <1>3, LeaseEndsInv
<1>4. ASSUME NEW d \in Deliveries, RecoverExpired(d) PROVE DeliveryInv'
  BY <1>4, RecoverExpiredInv
<1>5. ASSUME NEW s \in Slots, JobStep(s) PROVE DeliveryInv'
  BY <1>5, ClaimInv, LoadContextInv, LockForStartInv, StartAttemptInv, AnswerInv,
     FinalizeAttemptInv DEF JobStep
<1>6. ASSUME NEW s \in Slots, ReleaseUnstarted(s) PROVE DeliveryInv'
  BY <1>6, ReleaseUnstartedInv
<1>7. ASSUME NEW s \in Slots, LoseJob(s) PROVE DeliveryInv'
  BY <1>7, LoseJobInv
<1>8. CASE PatchStatus \/ RotateSecret
  BY <1>8, EndpointInv
<1>9. CASE UNCHANGED deliveryVars
  BY <1>9, UnchangedInv
<1> QED
  BY <1>1, <1>2, <1>3, <1>4, <1>5, <1>6, <1>7, <1>8, <1>9 DEF DeliveryNext

THEOREM DeliverySpecInv == DeliverySpec => []DeliveryInv
<1> QED
  BY InitInv, NextInv, PTL DEF DeliverySpec

-----------------------------------------------------------------------------
(***************************************************************************)
(* The properties.                                                         *)
(***************************************************************************)
\* Type correctness of the dispatcher's rows, attempts and jobs.
THEOREM DeliveryTypeCorrect == DeliverySpec => []DeliveryTypeOK
<1>1. DeliveryInv => DeliveryTypeOK
  BY DEF DeliveryInv
<1> QED
  BY <1>1, DeliverySpecInv, PTL

\* No interleaving of claims, attempts and recoveries writes a row that the
\* CHECK constraints of webhook_deliveries refuse.
THEOREM RowsKeepConstraints == DeliverySpec => []StateFieldsAgree
<1>1. DeliveryInv => StateFieldsAgree
  BY DEF DeliveryInv, HistoriesAgree, Agree, StateFieldsAgree
<1> QED
  BY <1>1, DeliverySpecInv, PTL

\* A delivery's attempts are numbered from 1 without gap or duplicate,
\* however finalizeAttempt and recoverExpired race.
THEOREM HistoryHasNoGap == DeliverySpec => []AttemptsAreNumbered
<1>1. DeliveryInv => AttemptsAreNumbered
  <2> SUFFICES ASSUME DeliveryInv PROVE AttemptsAreNumbered
    OBVIOUS
  <2>1. ASSUME NEW a \in attempts, NEW b \in attempts,
               a.delivery = b.delivery, a.number = b.number
        PROVE  a = b
    <3>1. a.delivery \in Deliveries
      BY DEF DeliveryInv, DeliveryTypeOK, Attempts
    <3> QED
      BY <2>1, <3>1 DEF DeliveryInv, HistoriesAgree, Agree, HistoryOf
  <2>2. ASSUME NEW d \in Deliveries
        PROVE  {a.number : a \in {b \in attempts : b.delivery = d}}
                 = 1..row[d].count \ {row[d].active}
    <3>1. row[d].count \in Nat /\ HistoryOf(d) \subseteq Attempts /\ Agree(row[d], HistoryOf(d))
      BY HistoriesTyped DEF Rows
    <3>2. \A n \in Nat : n \in {a.number : a \in HistoryOf(d)}
                          <=> n \in 1..row[d].count \ {row[d].active}
      BY <3>1 DEF Agree
    <3>3. {a.number : a \in HistoryOf(d)} \subseteq Nat /\ 1..row[d].count \subseteq Nat
      BY <3>1 DEF Attempts
    <3>4. {a.number : a \in HistoryOf(d)} = 1..row[d].count \ {row[d].active}
      BY <3>2, <3>3
    <3> QED
      BY <3>4 DEF HistoryOf
  <2> QED
    BY <2>1, <2>2 DEF AttemptsAreNumbered
<1> QED
  BY <1>1, DeliverySpecInv, PTL

\* A request sent is the active attempt of its sender's claim or is recorded
\* as unknown by the recovery that took the claim.
THEOREM NoRequestForgotten == DeliverySpec => []RequestsAreAccounted
<1>1. DeliveryInv => RequestsAreAccounted
  BY DEF DeliveryInv, JobOK, JobKnows, RequestAccounted, UnknownOf, RequestsAreAccounted
<1> QED
  BY <1>1, DeliverySpecInv, PTL

\* The status of a delivery is decided by its recorded attempts.
THEOREM StatusFollowsHistory == DeliverySpec => []OutcomeDecides
<1>1. DeliveryInv => OutcomeDecides
  <2> SUFFICES ASSUME DeliveryInv, NEW a \in attempts
               PROVE  LET r == row[a.delivery] IN
                      /\ a.outcome = "delivered" =>
                          /\ r.status = "delivered" /\ a.number = r.count
                          /\ <<a.delivery, a.number>> \in accepted
                      /\ a.outcome = "non_retryable_failure" =>
                          r.status = "dead_lettered" /\ a.number = r.count
                      /\ a.number = r.count /\ a.outcome \in {"retryable_failure", "unknown"} =>
                          r.status = (IF a.number = MaxAttempts THEN "dead_lettered"
                                                                ELSE "retrying")
    BY DEF OutcomeDecides
  <2>1. a.delivery \in Deliveries /\ a \in HistoryOf(a.delivery)
    BY DEF DeliveryInv, DeliveryTypeOK, Attempts, HistoryOf
  <2> QED
    BY <2>1 DEF DeliveryInv, HistoriesAgree, Agree, DeliveredWereAccepted
<1> QED
  BY <1>1, DeliverySpecInv, PTL

(***************************************************************************)
(* What a step may do to a claim.                                          *)
(***************************************************************************)
\* The row of a job: nothing but the job that holds it ends its claim.
LEMMA HolderRespects ==
    ASSUME DeliveryInv, NEW s \in Slots, job[s].at # "idle", HoldsClaim(s),
           NEW q, SetRow(s, q),
           q.token = job[s].token \/ EndJob(s),
           q.count = RowOf(s).count \/ ~RowOf(s).expired,
           NEW d \in Deliveries
    PROVE  ClaimChanges(d)
<1>1. /\ job \in [Slots -> Jobs] /\ row \in [Deliveries -> Rows]
      /\ job[s].delivery \in Deliveries /\ job[s].token # NoToken
      /\ row[job[s].delivery].token = job[s].token
      /\ row' = [row EXCEPT ![job[s].delivery] = q]
  BY DeliveryAssumption
  DEF DeliveryInv, DeliveryTypeOK, JobOK, JobShaped, HoldsClaim, RowOf, SetRow
<1>2. CASE d # job[s].delivery
  BY <1>1, <1>2 DEF ClaimChanges
<1>3. CASE d = job[s].delivery
  BY <1>1, <1>3 DEF ClaimChanges, EndJob, RowOf
<1> QED
  BY <1>2, <1>3

LEMMA ClearClaimRespects ==
    ASSUME DeliveryInv, NEW s \in Slots, job[s].at # "idle", ClearClaim(s), EndJob(s),
           NEW d \in Deliveries
    PROVE  ClaimChanges(d)
<1>1. CASE ~(HoldsClaim(s) /\ RowOf(s).active = 0)
  BY <1>1 DEF ClearClaim, ClaimChanges
<1>2. CASE HoldsClaim(s) /\ RowOf(s).active = 0
  <2>1. job[s].delivery \in Deliveries
    BY DEF DeliveryInv, JobOK, JobShaped
  <2>2. RowOf(s) \in Rows
    BY <2>1 DEF DeliveryInv, DeliveryTypeOK, RowOf
  <2>3. ClearedClaim(RowOf(s)).count = RowOf(s).count
    BY <2>2 DEF ClearedClaim, Rows
  <2> QED
    BY <1>2, <2>3, HolderRespects DEF ClearClaim
<1> QED
  BY <1>1, <1>2

LEMMA JobStepRespects ==
    ASSUME DeliveryInv, NEW s \in Slots, JobStep(s), NEW d \in Deliveries
    PROVE  ClaimChanges(d)
<1>1. JobOK(s) /\ row \in [Deliveries -> Rows]
  BY DEF DeliveryInv, DeliveryTypeOK
<1>2. ASSUME NEW e \in Deliveries, Claim(s, e) PROVE ClaimChanges(d)
  <2>1. PICK t : row' = [row EXCEPT ![e] = [@ EXCEPT !.token = t, !.expired = FALSE]]
    BY <1>2 DEF Claim
  <2>2. row[e] \in Rows /\ row[e].token = NoToken
    BY <1>1, <1>2 DEF Claim
  <2> DEFINE q == [row[e] EXCEPT !.token = t, !.expired = FALSE]
  <2>3. q.count = row[e].count
    BY <2>2 DEF Rows
  <2>4. row' = [row EXCEPT ![e] = q]
    BY <2>1
  <2> HIDE DEF q
  <2> QED
    BY <1>1, <2>2, <2>3, <2>4 DEF ClaimChanges
<1>3. CASE LoadContext(s)
  BY <1>3 DEF LoadContext, ClaimChanges
<1>4. CASE LockForStart(s)
  <2>1. job[s].at # "idle"
    BY <1>4 DEF LockForStart
  <2>2. CASE UNCHANGED row
    BY <2>2 DEF ClaimChanges
  <2>3. CASE ClearClaim(s) /\ EndJob(s)
    BY <2>1, <2>3, ClearClaimRespects
  <2>4. CASE Startable(s) /\ PersistInactiveAttempt(s) /\ EndJob(s)
    BY <2>1, <2>4, HolderRespects DEF Startable, HoldsLease, PersistInactiveAttempt
  <2> QED
    BY <1>4, <2>2, <2>3, <2>4 DEF LockForStart
<1>5. CASE StartAttempt(s)
  <2>1. CASE UNCHANGED row
    BY <2>1 DEF ClaimChanges
  <2>2. CASE HoldsLease(s)
    <3> DEFINE n == job[s].count + 1
               q == [RowOf(s) EXCEPT !.count = n, !.active = n,
                                     !.next = IF n = MaxAttempts THEN "none" ELSE "later"]
    <3>1. RowOf(s) \in Rows /\ job[s].at # "idle" /\ HoldsClaim(s) /\ ~RowOf(s).expired
      BY <1>1, <1>5, <2>2 DEF JobOK, JobShaped, RowOf, HoldsLease, StartAttempt
    <3>2. q.token = job[s].token
      BY <3>1 DEF Rows, HoldsClaim
    <3>3. SetRow(s, q)
      BY <1>5, <2>2 DEF StartAttempt
    <3> HIDE DEF q
    <3> QED
      BY <3>1, <3>2, <3>3, HolderRespects
  <2> QED
    BY <1>5, <2>1, <2>2 DEF StartAttempt
<1>6. ASSUME NEW outcome \in Answers, Answer(s, outcome) PROVE ClaimChanges(d)
  BY <1>6 DEF Answer, ClaimChanges
<1>7. CASE FinalizeAttempt(s)
  <2>1. CASE UNCHANGED row
    BY <2>1 DEF ClaimChanges
  <2>2. CASE Finalizable(s)
    <3>1. job[s].at # "idle" /\ HoldsClaim(s) /\ ~RowOf(s).expired /\ EndJob(s)
      BY <1>7, <2>2 DEF FinalizeAttempt, Finalizable, HoldsLease
    <3>2. PICK q : SetRow(s, q)
      BY <1>7, <2>2 DEF FinalizeAttempt
    <3> QED
      BY <3>1, <3>2, HolderRespects
  <2> QED
    BY <1>7, <2>1, <2>2 DEF FinalizeAttempt
<1> QED
  BY <1>2, <1>3, <1>4, <1>5, <1>6, <1>7 DEF JobStep

LEMMA StepRespects ==
    ASSUME DeliveryInv, [DeliveryNext]_deliveryVars, NEW d \in Deliveries
    PROVE  ClaimChanges(d)
<1>1. row \in [Deliveries -> Rows]
  BY DEF DeliveryInv, DeliveryTypeOK
<1>2. CASE UNCHANGED row
  BY <1>2 DEF ClaimChanges
<1>3. ASSUME NEW e \in Deliveries, Project(e) PROVE ClaimChanges(d)
  <2>1. row[e] = Absent
    BY <1>3 DEF Project, DeliveryInv, HistoriesAgree, Agree
  <2>2. Absent \in Rows /\ Absent.token = NoToken
    BY DEF Absent, Rows, Live
  <2>3. Projected.token = NoToken /\ Projected.count = Absent.count
    BY <2>2 DEF Projected, Rows
  <2> QED
    BY <1>1, <1>3, <2>1, <2>2, <2>3 DEF Project, ClaimChanges
<1>4. ASSUME NEW e \in Deliveries, ComeDue(e) PROVE ClaimChanges(d)
  BY <1>1, <1>4 DEF ComeDue, ClaimChanges, Rows
<1>5. ASSUME NEW e \in Deliveries, LeaseEnds(e) PROVE ClaimChanges(d)
  BY <1>1, <1>5 DEF LeaseEnds, EndLease, ClaimChanges, Rows
<1>6. ASSUME NEW e \in Deliveries, RecoverExpired(e) PROVE ClaimChanges(d)
  <2>1. PICK q : row' = [row EXCEPT ![e] = q] /\ q.count = row[e].count
    <3>1. /\ ClearedClaim(row[e]).count = row[e].count
          /\ RecoveredRow(row[e]).count = row[e].count
      BY <1>1 DEF RecoveredRow, Ended, Retried, ClearedClaim, Rows
    <3> QED
      BY <1>6, <3>1 DEF RecoverExpired
  <2>2. row[e].expired
    BY <1>6 DEF RecoverExpired, Recoverable
  <2> QED
    BY <1>1, <2>1, <2>2 DEF ClaimChanges
<1>7. ASSUME NEW s \in Slots, ReleaseUnstarted(s) PROVE ClaimChanges(d)
  BY <1>7, ClearClaimRespects DEF ReleaseUnstarted
<1>8. ASSUME NEW s \in Slots, LoseJob(s) PROVE UNCHANGED row
  BY <1>8 DEF LoseJob
<1>9. PatchStatus \/ RotateSecret \/ UNCHANGED deliveryVars => UNCHANGED row
  BY DEF PatchStatus, RotateSecret, deliveryVars
<1> QED
  BY <1>2, <1>3, <1>4, <1>5, <1>6, <1>7, <1>8, <1>9, JobStepRespects DEF DeliveryNext

\* A claim ends by the job that holds it or after its lease, and an attempt
\* starts only under a claim that is held.
THEOREM ClaimsRespected == DeliverySpec => ClaimsAreRespected
<1>1. DeliveryInv /\ [DeliveryNext]_deliveryVars =>
        [\A d \in Deliveries : ClaimChanges(d)]_deliveryVars
  BY StepRespects
<1> QED
  BY <1>1, DeliverySpecInv, PTL DEF DeliverySpec, ClaimsAreRespected
=============================================================================
