-------------------------- MODULE WebhookDelivery --------------------------
(***************************************************************************)
(* The dispatcher of merchant webhooks.  A slot is one claimed delivery in *)
(* the hands of a worker (processClaim): it claims a due delivery under a  *)
(* lease and a fresh token, reads the endpoint and its secret, starts an   *)
(* attempt, sends the request outside any transaction and records what the *)
(* receiver answered.  A delivery whose lease has run out is recovered by  *)
(* any worker, whatever its holder is doing.                               *)
(*                                                                         *)
(* Slots run independently: that the claims of one worker cycle start      *)
(* together and that the next cycle waits for all of them is left out, so  *)
(* more interleavings are allowed than the worker has.  Time is the order  *)
(* of two events per delivery, its lease ending and its next attempt       *)
(* coming due; all deliveries are for one endpoint.                        *)
(***************************************************************************)
EXTENDS Integers, FiniteSets

CONSTANTS
    Deliveries,
    Slots,
    Tokens,        \* claim tokens; one held nowhere may be drawn again
    NoToken, NoDelivery,
    MaxAttempts,   \* attempts of a delivery: 7 in the code
    MaxUpsets      \* bound: expiries under a live holder, lost workers,
                   \* missing keys and changes of the endpoint

ASSUME DeliveryAssumption ==
    /\ NoToken \notin Tokens
    /\ NoDelivery \notin Deliveries
    /\ MaxAttempts \in Nat \ {0}
    /\ MaxUpsets \in Nat

VARIABLES
    row,       \* [Deliveries -> Rows]: webhook_deliveries
    attempts,  \* webhook_delivery_attempts
    endpoint,  \* [active, secret]: the endpoint, its current secret version
    job,       \* [Slots -> Jobs]: where processClaim stands
    accepted,  \* the requests, by delivery and number, the receiver took
    upsets

deliveryVars == <<row, attempts, endpoint, job, accepted, upsets>>

Live == {"pending", "retrying"}
Terminal == {"delivered", "dead_lettered"}
Answers == {"delivered", "retryable_failure", "non_retryable_failure"}

\* next is next_attempt_at: NULL, in the future, or passed.
Rows == [status : {"absent"} \cup Live \cup Terminal,
         count : Nat, active : Nat,
         token : Tokens \cup {NoToken}, expired : BOOLEAN,
         next : {"none", "later", "due"}]

Attempts == [delivery : Deliveries, number : Nat \ {0}, outcome : Answers \cup {"unknown"}]

\* locked: startAttempt's transaction holds the row between its statements.
Jobs == [at : {"idle", "claimed", "loaded", "locked", "sending", "answered"},
         delivery : Deliveries \cup {NoDelivery}, token : Tokens \cup {NoToken},
         count : Nat, active : BOOLEAN, secret : Nat,
         answer : Answers \cup {"none"}]

Absent == [status |-> "absent", count |-> 0, active |-> 0,
           token |-> NoToken, expired |-> FALSE, next |-> "none"]
Projected == [Absent EXCEPT !.status = "pending", !.next = "due"]
Idle == [at |-> "idle", delivery |-> NoDelivery, token |-> NoToken,
         count |-> 0, active |-> FALSE, secret |-> 0, answer |-> "none"]

DeliveryInit ==
    /\ row = [d \in Deliveries |-> Absent]
    /\ attempts = {}
    /\ endpoint = [active |-> TRUE, secret |-> 1]
    /\ job = [s \in Slots |-> Idle]
    /\ accepted = {}
    /\ upsets = 0

-----------------------------------------------------------------------------
Upset == upsets < MaxUpsets /\ upsets' = upsets + 1

RowOf(s) == row[job[s].delivery]
SetRow(s, r) == row' = [row EXCEPT ![job[s].delivery] = r]
EndJob(s) == job' = [job EXCEPT ![s] = Idle]

\* The claim is still this job's: nobody recovered the delivery meanwhile.
HoldsClaim(s) == RowOf(s).token = job[s].token
HoldsLease(s) == HoldsClaim(s) /\ ~RowOf(s).expired

Locked(d) == \E s \in Slots : job[s].at = "locked" /\ job[s].delivery = d
Held(d) == \E s \in Slots : job[s].delivery = d /\ job[s].token = row[d].token

ClearedClaim(r) == [r EXCEPT !.token = NoToken, !.expired = FALSE]
Ended(r, status) ==
    [ClearedClaim(r) EXCEPT !.status = status, !.active = 0, !.next = "none"]
Retried(r) == [ClearedClaim(r) EXCEPT !.status = "retrying", !.active = 0]

Record(d, n, outcome) ==
    attempts' = attempts \cup {[delivery |-> d, number |-> n, outcome |-> outcome]}

\* Mistake: off by one at the last attempt.
FinalStatusOneMore(outcome, n) ==
    CASE outcome = "delivered" -> "delivered"
      [] outcome = "retryable_failure" /\ n <= MaxAttempts -> "retrying"
      [] OTHER -> "dead_lettered"

FinalStatus(outcome, n) ==
    CASE outcome = "delivered" -> "delivered"
      [] outcome = "retryable_failure" /\ n < MaxAttempts -> "retrying"
      [] OTHER -> "dead_lettered"

UnusedTokens == {t \in Tokens : /\ \A d \in Deliveries : row[d].token # t
                                /\ \A s \in Slots : job[s].token # t}

-----------------------------------------------------------------------------
(* The webhook consumer's projection, and time. *)

Project(d) ==
    /\ row[d].status = "absent"
    /\ endpoint.active
    /\ row' = [row EXCEPT ![d] = Projected]
    /\ UNCHANGED <<attempts, endpoint, job, accepted, upsets>>

ComeDue(d) ==
    /\ row[d].next = "later"
    /\ row' = [row EXCEPT ![d].next = "due"]
    /\ UNCHANGED <<attempts, endpoint, job, accepted, upsets>>

\* A lease ends long after its request must have timed out: under a holder
\* at work it is an upset.
EndLease(d) ==
    /\ row[d].token # NoToken
    /\ ~row[d].expired
    /\ row' = [row EXCEPT ![d].expired = TRUE]
    /\ UNCHANGED <<attempts, endpoint, job, accepted>>

LeaseEnds(d) == EndLease(d) /\ IF Held(d) THEN Upset ELSE UNCHANGED upsets

-----------------------------------------------------------------------------
(* The dispatcher. *)

\* claimDue; the attempt count goes with the claim.
Claim(s, d) ==
    /\ job[s] = Idle
    /\ row[d].status \in Live
    /\ row[d].next = "due"
    /\ row[d].token = NoToken
    /\ UnusedTokens # {}
    /\ LET t == CHOOSE u \in UnusedTokens : TRUE IN
        /\ row' = [row EXCEPT ![d].token = t, ![d].expired = FALSE]
        /\ job' = [job EXCEPT ![s] = [Idle EXCEPT !.at = "claimed", !.delivery = d,
                                                  !.token = t, !.count = row[d].count]]
    /\ UNCHANGED <<attempts, endpoint, accepted, upsets>>

LoadContext(s) ==
    /\ job[s].at = "claimed"
    /\ IF HoldsClaim(s)
         THEN job' = [job EXCEPT ![s].at = "loaded", ![s].active = endpoint.active,
                                 ![s].secret = endpoint.secret]
         ELSE EndJob(s)
    /\ UNCHANGED <<row, attempts, endpoint, accepted, upsets>>

\* clearClaim: only the claim goes, and only before an attempt has started.
ClearClaim(s) ==
    IF HoldsClaim(s) /\ RowOf(s).active = 0
      THEN SetRow(s, ClearedClaim(RowOf(s)))
      ELSE UNCHANGED row

\* The keyring has no key for the endpoint's secret.
ReleaseUnstarted(s) ==
    /\ job[s].at = "loaded"
    /\ job[s].active
    /\ ClearClaim(s)
    /\ EndJob(s)
    /\ Upset
    /\ UNCHANGED <<attempts, endpoint, accepted>>

\* startAttempt up to its UPDATE: the row is read FOR UPDATE.
Startable(s) ==
    /\ HoldsLease(s)
    /\ RowOf(s).status \in Live
    /\ RowOf(s).active = 0
    /\ RowOf(s).count = job[s].count

StaleContext(s) == ~job[s].active \/ job[s].secret # endpoint.secret

PersistInactiveAttempt(s) ==
    LET n == job[s].count + 1 IN
    /\ Record(job[s].delivery, n, "non_retryable_failure")
    /\ SetRow(s, [Ended(RowOf(s), "dead_lettered") EXCEPT !.count = n])

LockForStart(s) ==
    /\ job[s].at = "loaded"
    /\ \/ /\ ~Startable(s)
          /\ EndJob(s)
          /\ UNCHANGED <<row, attempts>>
       \/ /\ Startable(s) /\ ~endpoint.active
          /\ PersistInactiveAttempt(s)
          /\ EndJob(s)
       \/ /\ Startable(s) /\ endpoint.active /\ StaleContext(s)
          /\ ClearClaim(s)
          /\ EndJob(s)
          /\ UNCHANGED attempts
       \/ /\ Startable(s) /\ endpoint.active /\ ~StaleContext(s)
          /\ job' = [job EXCEPT ![s].at = "locked"]
          /\ UNCHANGED <<row, attempts>>
    /\ UNCHANGED <<endpoint, accepted, upsets>>

\* The UPDATE looks at the clock again; then the transaction commits.
StartAttempt(s) ==
    /\ job[s].at = "locked"
    /\ IF HoldsLease(s)
         THEN LET n == job[s].count + 1 IN
              /\ SetRow(s, [RowOf(s) EXCEPT !.count = n, !.active = n,
                              !.next = IF n = MaxAttempts THEN "none" ELSE "later"])
              /\ job' = [job EXCEPT ![s].at = "sending", ![s].count = n]
         ELSE EndJob(s) /\ UNCHANGED row
    /\ UNCHANGED <<attempts, endpoint, accepted, upsets>>

\* The request ends: a receiver may have taken one whose answer was lost.
Answer(s, outcome) ==
    /\ job[s].at = "sending"
    /\ job' = [job EXCEPT ![s].at = "answered", ![s].answer = outcome]
    /\ LET taken == accepted \cup {<<job[s].delivery, job[s].count>>} IN
       CASE outcome = "delivered" -> accepted' = taken
         [] outcome = "retryable_failure" -> accepted' \in {accepted, taken}
         [] OTHER -> UNCHANGED accepted
    /\ UNCHANGED <<row, attempts, endpoint, upsets>>

\* Mistake: the attempt is matched by the row's count alone.
FinalizableByCount(s) == RowOf(s).count = job[s].count

Finalizable(s) ==
    /\ HoldsLease(s)
    /\ RowOf(s).active = job[s].count

FinalizeAttempt(s) ==
    /\ job[s].at = "answered"
    /\ IF Finalizable(s)
         THEN LET status == FinalStatus(job[s].answer, job[s].count) IN
              /\ Record(job[s].delivery, job[s].count, job[s].answer)
              /\ SetRow(s, IF status = "retrying" THEN Retried(RowOf(s))
                                                  ELSE Ended(RowOf(s), status))
         ELSE UNCHANGED <<row, attempts>>
    /\ EndJob(s)
    /\ UNCHANGED <<endpoint, accepted, upsets>>

\* The worker dies, or a transaction of the job fails and rolls back; an
\* answer whose record the database refuses is lost the same way.
LoseJob(s) ==
    /\ job[s] # Idle
    /\ Upset
    /\ EndJob(s)
    /\ UNCHANGED <<row, attempts, endpoint, accepted>>

-----------------------------------------------------------------------------
(* recoverExpired, one of the rows it locks. *)

\* Mistakes: a claim is recovered before its lease ends; an unstarted one never.
RecoverableEarly(d) == row[d].token # NoToken /\ ~Locked(d)
RecoverableStarted(d) == row[d].active # 0 /\ row[d].expired /\ ~Locked(d)

Recoverable(d) == row[d].token # NoToken /\ row[d].expired /\ ~Locked(d)

RecoveredRow(r) ==
    IF r.active >= MaxAttempts THEN Ended(r, "dead_lettered") ELSE Retried(r)

\* Mistake: a lost attempt leaves no record.
RecoverUnrecorded(d) ==
    /\ Recoverable(d)
    /\ row' = [row EXCEPT ![d] = IF @.active = 0 THEN ClearedClaim(@) ELSE RecoveredRow(@)]
    /\ UNCHANGED <<attempts, endpoint, job, accepted, upsets>>

RecoverExpired(d) ==
    /\ Recoverable(d)
    /\ IF row[d].active = 0
         THEN /\ row' = [row EXCEPT ![d] = ClearedClaim(@)]
              /\ UNCHANGED attempts
         ELSE /\ Record(d, row[d].active, "unknown")
              /\ row' = [row EXCEPT ![d] = RecoveredRow(@)]
    /\ UNCHANGED <<endpoint, job, accepted, upsets>>

-----------------------------------------------------------------------------
(* What the merchant does to the endpoint. *)

PatchStatus ==
    /\ Upset
    /\ endpoint' = [endpoint EXCEPT !.active = ~@]
    /\ UNCHANGED <<row, attempts, job, accepted>>

RotateSecret ==
    /\ Upset
    /\ endpoint' = [endpoint EXCEPT !.secret = @ + 1]
    /\ UNCHANGED <<row, attempts, job, accepted>>

-----------------------------------------------------------------------------
JobStep(s) ==
    \/ \E d \in Deliveries : Claim(s, d)
    \/ LoadContext(s)
    \/ LockForStart(s)
    \/ StartAttempt(s)
    \/ \E outcome \in Answers : Answer(s, outcome)
    \/ FinalizeAttempt(s)

DeliveryNext ==
    \/ \E d \in Deliveries : Project(d) \/ ComeDue(d) \/ LeaseEnds(d) \/ RecoverExpired(d)
    \/ \E s \in Slots : JobStep(s) \/ ReleaseUnstarted(s) \/ LoseJob(s)
    \/ PatchStatus
    \/ RotateSecret

DeliverySpec == DeliveryInit /\ [][DeliveryNext]_deliveryVars

\* Cycles keep running; requests time out; clocks advance.
DeliveryFairness ==
    /\ \A s \in Slots : WF_deliveryVars(JobStep(s))
    /\ \A d \in Deliveries :
        /\ WF_deliveryVars(ComeDue(d))
        /\ WF_deliveryVars(RecoverExpired(d))
        /\ WF_deliveryVars(EndLease(d) /\ ~Held(d) /\ UNCHANGED upsets)

FairDeliverySpec == DeliverySpec /\ DeliveryFairness

-----------------------------------------------------------------------------
(* Properties. *)

\* Every variable keeps its type.
DeliveryTypeOK ==
    /\ row \in [Deliveries -> Rows]
    /\ attempts \subseteq Attempts
    /\ endpoint \in [active : BOOLEAN, secret : Nat]
    /\ job \in [Slots -> Jobs]
    /\ accepted \subseteq Deliveries \X Nat
    /\ upsets \in 0..MaxUpsets

\* What the CHECK constraints of webhook_deliveries demand of a row's status,
\* its count, its active attempt, its claim and its next attempt: no legal
\* interleaving makes a transaction fail on them for good.
RowAgrees(r) ==
    /\ r.active # 0 => r.token # NoToken /\ r.active = r.count
    /\ r.count <= MaxAttempts
    /\ r.status = "pending" => r.count = r.active /\ r.active <= 1
    /\ r.status = "retrying" =>
        IF r.active = 0 THEN r.count \in 1..MaxAttempts - 1 ELSE r.count >= 2
    /\ r.status \in Live => (r.next = "none" <=> r.active = MaxAttempts)
    /\ r.status \in Terminal =>
        r.count >= 1 /\ r.next = "none" /\ r.token = NoToken /\ r.active = 0
StateFieldsAgree == \A d \in Deliveries : row[d].status # "absent" => RowAgrees(row[d])

\* A delivery's history has no gap and no duplicate: the attempts recorded
\* and the one under way are numbered 1 to attempt_count, each once, however
\* finalization and recovery race.
AttemptsAreNumbered ==
    /\ \A a, b \in attempts :
        a.delivery = b.delivery /\ a.number = b.number => a = b
    /\ \A d \in Deliveries :
        {a.number : a \in {b \in attempts : b.delivery = d}}
            = 1..row[d].count \ {row[d].active}

\* A request sent and not finalized is the delivery's active attempt under
\* its sender's claim, or is recorded as unknown: no two requests of a
\* delivery carry the same attempt, and none is forgotten.
RequestsAreAccounted == \A s \in Slots : job[s].at \in {"sending", "answered"} =>
    \/ HoldsClaim(s) /\ RowOf(s).active = job[s].count
    \/ [delivery |-> job[s].delivery, number |-> job[s].count, outcome |-> "unknown"]
         \in attempts

\* The status of a delivery is what its history says: delivered exactly when
\* its last attempt was and the receiver took it; dead-lettered when that
\* attempt cannot be retried or was the last allowed; retried while none was.
OutcomeDecides == \A a \in attempts :
    LET r == row[a.delivery] IN
    /\ a.outcome = "delivered" =>
        /\ r.status = "delivered" /\ a.number = r.count
        /\ <<a.delivery, a.number>> \in accepted
    /\ a.outcome = "non_retryable_failure" =>
        r.status = "dead_lettered" /\ a.number = r.count
    /\ a.number = r.count /\ a.outcome \in {"retryable_failure", "unknown"} =>
        r.status = (IF a.number = MaxAttempts THEN "dead_lettered" ELSE "retrying")

\* A claim ends only by the job that holds it or after its lease ran out, and
\* an attempt starts only under a claim that was held: a worker that lost its
\* lease changes nothing of the delivery.
ClaimChanges(d) ==
    /\ row[d].token \notin {NoToken, row'[d].token} =>
        \/ row[d].expired
        \/ \E s \in Slots : job[s].token = row[d].token /\ job'[s] = Idle
    /\ row'[d].count # row[d].count => row[d].token # NoToken /\ ~row[d].expired
ClaimsAreRespected == [][\A d \in Deliveries : ClaimChanges(d)]_deliveryVars

\* Every projected delivery is at some time delivered or dead-lettered,
\* whatever workers, leases, keys and the endpoint do on the way.
DeliveriesEnd == \A d \in Deliveries :
    row[d].status # "absent" ~> row[d].status \in Terminal
=============================================================================
