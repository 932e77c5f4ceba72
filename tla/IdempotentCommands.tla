------------------------- MODULE IdempotentCommands -------------------------
(***************************************************************************)
(* Money commands under an Idempotency-Key: acquire the key, run the       *)
(* external part of the command, then complete key and domain effect in    *)
(* one database transaction.  The API is several processes over one        *)
(* PostgreSQL; a "slot" is one client conversation, which sends its        *)
(* command under its key and sends it again until the answer is final.     *)
(* Each attempt draws a fresh owner token (randomUUID).                    *)
(*                                                                         *)
(* acquire is one short transaction and one step here.  complete is cut at *)
(* its lock, so that lease expiry, takeovers, crashes, transient failures  *)
(* and lock waits interleave with the running transaction.  The domain     *)
(* operation itself is a parameter: a counter of effects, which a module   *)
(* of a real command strengthens with what the operation reads and writes. *)
(***************************************************************************)
EXTENDS IdempotencyStore

CONSTANTS
    Slots, Keys, Tokens, Hashes,
    KeyOf,        \* [Slots -> Keys]: the key a conversation uses
    TokensOf,     \* [Slots -> SUBSET Tokens]: the UUIDs a conversation draws from
    HashOf,       \* [Slots -> Hashes]: the digest of its canonical request
    Problems,     \* the codes of the deterministic refusals that are stored
    NoSlot,
    MaxTx,        \* MAX_TRANSACTION_ATTEMPTS
    MaxIdent,     \* MAX_IDENTIFIER_ATTEMPTS
    MaxClock,     \* bound: the last instant modelled
    MaxFaults     \* bound: how many faults the environment injects

ASSUME CommandAssumption ==
    /\ KeyOf \in [Slots -> Keys]
    /\ HashOf \in [Slots -> Hashes]
    /\ TokensOf \in [Slots -> SUBSET Tokens]
    /\ NoSlot \notin Slots
    /\ NoToken \notin Tokens
    /\ "ok" \notin Problems
    /\ "operation" \notin Problems
    /\ MaxTx \in Nat \ {0}
    /\ MaxIdent \in Nat \ {0}
    /\ MaxClock \in Nat
    /\ MaxFaults \in Nat

Responses == [kind : {"ok"} \cup Problems, id : Tokens]

ASSUME NoResponseAssumption == NoResponse \notin Responses

VARIABLES
    clock,    \* the API processes' clock
    rows,     \* idempotency_keys, by key
    rowLock,  \* the slot whose transaction holds the row lock
    applied,  \* committed domain effects, by key
    heard,    \* responses that reached a client, by key
    faults,   \* faults injected so far
    pc, token, now, goal, attempt, ident, answer   \* each conversation

storeVars == <<clock, rows, rowLock, applied, heard, faults>>
slotVars == <<pc, token, now, goal, attempt, ident, answer>>
idemVars == <<storeVars, slotVars>>

Locations == {"idle", "acquiring", "executing", "completing", "working", "done"}
Answers == {"none", "replied", "key_reused", "key_expired", "in_progress",
            "ownership_lost", "unavailable", "exhausted"}
FinalAnswers == {"replied", "key_reused", "key_expired"}

TypeOK ==
    /\ clock \in 0..MaxClock
    /\ rows \in [Keys -> [state : {"absent", "in_progress", "completed"},
                          hash : Hashes \cup {NoHash},
                          owner : Tokens \cup {NoToken},
                          lease : Nat,
                          response : Responses \cup {NoResponse},
                          expires : Nat]]
    /\ rowLock \in [Keys -> Slots \cup {NoSlot}]
    /\ applied \in [Keys -> Nat]
    /\ heard \in [Keys -> SUBSET Responses]
    /\ faults \in 0..MaxFaults
    /\ pc \in [Slots -> Locations]
    /\ token \in [Slots -> Tokens \cup {NoToken}]
    /\ now \in [Slots -> 0..MaxClock]
    /\ goal \in [Slots -> {"operation"} \cup Problems]
    /\ attempt \in [Slots -> 1..MaxTx]
    /\ ident \in [Slots -> 1..MaxIdent]
    /\ answer \in [Slots -> Answers]

Init ==
    /\ clock = 0
    /\ rows = [k \in Keys |-> AbsentRow]
    /\ rowLock = [k \in Keys |-> NoSlot]
    /\ applied = [k \in Keys |-> 0]
    /\ heard = [k \in Keys |-> {}]
    /\ faults = 0
    /\ pc = [s \in Slots |-> "idle"]
    /\ token = [s \in Slots |-> NoToken]
    /\ now = [s \in Slots |-> 0]
    /\ goal = [s \in Slots |-> "operation"]
    /\ attempt = [s \in Slots |-> 1]
    /\ ident = [s \in Slots |-> 1]
    /\ answer = [s \in Slots |-> "none"]

-----------------------------------------------------------------------------
Row(s) == rows[KeyOf[s]]

\* Mutant: SELECT without FOR UPDATE.
NeverWaits(s) == TRUE

\* A statement that locks the row waits while another transaction holds it.
RowFree(s) == rowLock[KeyOf[s]] = NoSlot

\* A UUID nobody has seen: not held, not stored, not in a response.
Fresh(t) ==
    /\ \A s \in Slots : token[s] # t
    /\ \A k \in Keys : /\ rows[k].owner # t
                       /\ \A kind \in {"ok"} \cup Problems :
                              rows[k].response # [kind |-> kind, id |-> t]

\* Tokens differ in nothing but their identity, so any fresh one will do.
NewToken(s) == CHOOSE t \in TokensOf[s] : Fresh(t)

Unlock(s) ==
    rowLock' = [rowLock EXCEPT ![KeyOf[s]] = IF @ = s THEN NoSlot ELSE @]

\* The conversation ends its attempt with an answer; its locals die with it.
Finish(s, a) ==
    /\ pc' = [pc EXCEPT ![s] = "done"]
    /\ answer' = [answer EXCEPT ![s] = a]
    /\ token' = [token EXCEPT ![s] = NoToken]
    /\ now' = [now EXCEPT ![s] = 0]
    /\ goal' = [goal EXCEPT ![s] = "operation"]
    /\ attempt' = [attempt EXCEPT ![s] = 1]
    /\ ident' = [ident EXCEPT ![s] = 1]

\* Bound on the environment: finitely many faults, none so late that a lease
\* it strands would outlive the modelled time.
Fault ==
    /\ faults < MaxFaults
    /\ clock + LeaseDuration <= MaxClock
    /\ faults' = faults + 1

-----------------------------------------------------------------------------
(***************************************************************************)
(* Sending a command and acquiring its key.                                *)
(***************************************************************************)
Send(s) ==
    /\ pc[s] \in {"idle", "done"}
    /\ answer[s] \notin FinalAnswers
    /\ \E t \in TokensOf[s] : Fresh(t)
    /\ token' = [token EXCEPT ![s] = NewToken(s)]
    /\ now' = [now EXCEPT ![s] = clock]
    /\ pc' = [pc EXCEPT ![s] = "acquiring"]
    /\ answer' = [answer EXCEPT ![s] = "none"]
    /\ UNCHANGED <<storeVars, goal, attempt, ident>>

\* The INSERT ... ON CONFLICT DO UPDATE waits for the row lock and then
\* sees what its holder committed.
Acquire(s) ==
    /\ pc[s] = "acquiring"
    /\ RowFree(s)
    /\ Acquirable(Row(s), HashOf[s], token[s], now[s])
    /\ rows' = [rows EXCEPT ![KeyOf[s]] =
                    AcquiredRow(@, HashOf[s], token[s], now[s])]
    /\ pc' = [pc EXCEPT ![s] = "executing"]
    /\ UNCHANGED <<clock, rowLock, applied, heard, faults>>
    /\ UNCHANGED <<token, now, goal, attempt, ident, answer>>

Replay(s) ==
    /\ pc[s] = "acquiring"
    /\ RowFree(s)
    /\ Replayable(Row(s), HashOf[s], now[s])
    /\ heard' = [heard EXCEPT ![KeyOf[s]] = @ \cup {Row(s).response}]
    /\ Finish(s, "replied")
    /\ UNCHANGED <<clock, rows, rowLock, applied, faults>>

Refuse(s, a) ==
    /\ pc[s] = "acquiring"
    /\ RowFree(s)
    /\ \/ a = "key_reused" /\ KeyReused(Row(s), HashOf[s])
       \/ a = "key_expired" /\ KeyExpired(Row(s), HashOf[s], now[s])
       \/ a = "in_progress" /\ OwnedElsewhere(Row(s), HashOf[s], token[s], now[s])
    /\ Finish(s, a)
    /\ UNCHANGED storeVars

-----------------------------------------------------------------------------
(***************************************************************************)
(* The external part of the command, outside any transaction.              *)
(***************************************************************************)
ProviderApproves(s) ==
    /\ pc[s] = "executing"
    /\ pc' = [pc EXCEPT ![s] = "completing"]
    /\ UNCHANGED <<storeVars, token, now, goal, attempt, ident, answer>>

\* A decline is a decision: it is recorded as the command's response.
ProviderDeclines(s, code) ==
    /\ pc[s] = "executing"
    /\ pc' = [pc EXCEPT ![s] = "completing"]
    /\ goal' = [goal EXCEPT ![s] = code]
    /\ UNCHANGED <<storeVars, token, now, attempt, ident, answer>>

\* The provider is unreachable: the key stays owned until its lease ends.
ProviderFails(s) ==
    /\ pc[s] = "executing"
    /\ Fault
    /\ Finish(s, "unavailable")
    /\ UNCHANGED <<clock, rows, rowLock, applied, heard>>

-----------------------------------------------------------------------------
(***************************************************************************)
(* The completing transaction.                                             *)
(***************************************************************************)
LockOwnedRow(s) ==
    /\ pc[s] = "completing"
    /\ RowFree(s)
    /\ Owns(Row(s), token[s])
    /\ rowLock' = [rowLock EXCEPT ![KeyOf[s]] = s]
    /\ pc' = [pc EXCEPT ![s] = "working"]
    /\ UNCHANGED <<clock, rows, applied, heard, faults>>
    /\ UNCHANGED <<token, now, goal, attempt, ident, answer>>

LoseOwnership(s) ==
    /\ pc[s] = "completing"
    /\ RowFree(s)
    /\ ~Owns(Row(s), token[s])
    /\ Finish(s, "ownership_lost")
    /\ UNCHANGED storeVars

\* The operation's writes, the response snapshot and the release of the key
\* commit together.  The answer reaches the client, or the connection is
\* lost with the commit done.
Commit(s, kind) ==
    /\ pc[s] = "working"
    /\ LET k == KeyOf[s]
           r == [kind |-> kind, id |-> token[s]]
       IN /\ rows' = [rows EXCEPT ![k] = CompletedRow(@, r, clock)]
          /\ applied' = [applied EXCEPT ![k] = IF kind = "ok" THEN @ + 1 ELSE @]
          /\ \/ /\ heard' = [heard EXCEPT ![k] = @ \cup {r}]
                /\ Finish(s, "replied")
                /\ UNCHANGED faults
             \/ /\ Fault
                /\ Finish(s, "unavailable")
                /\ UNCHANGED heard
    /\ Unlock(s)
    /\ UNCHANGED clock

\* The operation ran: a success, or a validation refusal stored in the same
\* transaction without any effect.
CommitOperation(s, kind) ==
    goal[s] = "operation" /\ Commit(s, kind)

\* completeProblem: a transaction that only stores the refusal.
CommitProblem(s) ==
    goal[s] # "operation" /\ Commit(s, goal[s])

\* A unique index already holds the command's external reference: the
\* transaction rolls back and the refusal is stored by a second one.
AbortOnConflict(s, code) ==
    /\ pc[s] = "working"
    /\ goal[s] = "operation"
    /\ pc' = [pc EXCEPT ![s] = "completing"]
    /\ goal' = [goal EXCEPT ![s] = code]
    /\ attempt' = [attempt EXCEPT ![s] = 1]
    /\ Unlock(s)
    /\ UNCHANGED <<clock, rows, applied, heard, faults, token, now, ident, answer>>

\* A generated identifier is taken: everything rolls back and the command
\* draws another one, MaxIdent times.
AbortOnCollision(s) ==
    /\ pc[s] = "working"
    /\ goal[s] = "operation"
    /\ Fault
    /\ Unlock(s)
    /\ IF ident[s] < MaxIdent
       THEN /\ ident' = [ident EXCEPT ![s] = @ + 1]
            /\ attempt' = [attempt EXCEPT ![s] = 1]
            /\ pc' = [pc EXCEPT ![s] = "completing"]
            /\ UNCHANGED <<token, now, goal, answer>>
       ELSE Finish(s, "exhausted")
    /\ UNCHANGED <<clock, rows, applied, heard>>

TransactionsLeft(s) == attempt[s] < MaxTx

\* Serialization failure, deadlock victim, lock or statement timeout: the
\* whole transaction restarts, MaxTx times, or the request fails.  A lock
\* timeout strikes while waiting for the row, the rest while working on it.
TransientFailure(s) ==
    /\ pc[s] \in {"completing", "working"}
    /\ Fault
    /\ Unlock(s)
    /\ IF TransactionsLeft(s)
       THEN /\ attempt' = [attempt EXCEPT ![s] = @ + 1]
            /\ pc' = [pc EXCEPT ![s] = "completing"]
            /\ UNCHANGED <<token, now, goal, ident, answer>>
       ELSE Finish(s, "unavailable")
    /\ UNCHANGED <<clock, rows, applied, heard>>

\* The process dies, the database goes away, or acquire times out on the
\* row lock: an open transaction rolls back, the client gets no decision.
Crash(s) ==
    /\ pc[s] \in {"acquiring", "executing", "completing", "working"}
    /\ Fault
    /\ Unlock(s)
    /\ Finish(s, "unavailable")
    /\ UNCHANGED <<clock, rows, applied, heard>>

Tick ==
    /\ clock < MaxClock
    /\ clock' = clock + 1
    /\ UNCHANGED <<rows, rowLock, applied, heard, faults, slotVars>>

-----------------------------------------------------------------------------
AcquireStep(s) ==
    \/ Acquire(s)
    \/ Replay(s)
    \/ \E a \in Answers : Refuse(s, a)

ProviderStep(s) ==
    \/ ProviderApproves(s)
    \/ \E code \in Problems : ProviderDeclines(s, code)

CompleteStep(s) ==
    \/ LockOwnedRow(s)
    \/ LoseOwnership(s)
    \/ \E kind \in {"ok"} \cup Problems : CommitOperation(s, kind)
    \/ CommitProblem(s)
    \/ \E code \in Problems : AbortOnConflict(s, code)

FaultStep(s) ==
    ProviderFails(s) \/ AbortOnCollision(s) \/ TransientFailure(s) \/ Crash(s)

\* Every client has its final answer and the modelled time is over.
Finished ==
    /\ \A s \in Slots : answer[s] \in FinalAnswers
    /\ clock = MaxClock
    /\ UNCHANGED idemVars

Next ==
    \/ \E s \in Slots : Send(s) \/ AcquireStep(s) \/ ProviderStep(s)
                            \/ CompleteStep(s) \/ FaultStep(s)
    \/ Tick
    \/ Finished

Spec == Init /\ [][Next]_idemVars

\* Clients retry, the server keeps running what it started, and time passes.
\* A waiter for the row lock gets it if it is released again and again:
\* PostgreSQL queues lock requests.
Fairness ==
    /\ \A s \in Slots : /\ WF_idemVars(Send(s))
                        /\ SF_idemVars(AcquireStep(s))
                        /\ WF_idemVars(ProviderStep(s))
                        /\ SF_idemVars(CompleteStep(s))
    /\ WF_idemVars(Tick)

FairSpec == Spec /\ Fairness

-----------------------------------------------------------------------------
(***************************************************************************)
(* Properties.                                                             *)
(***************************************************************************)

\* INV-10: whatever takeovers, restarts and lost answers happened, a key has
\* had one domain effect if its stored response is a success and none
\* otherwise: no effect without the response, no response without the
\* effect, no second effect from a client that asked again.
EffectMatchesResponse ==
    \A k \in Keys :
        applied[k] = IF rows[k].state = "completed" /\ rows[k].response.kind = "ok"
                     THEN 1 ELSE 0

\* Every response a client received under a key, first hand or replayed, by
\* whichever attempt, is the one response stored for the key.
HeardIsStored ==
    \A k \in Keys : \A r \in heard[k] :
        rows[k].state = "completed" /\ rows[k].response = r

\* An owner keeps its key for as long as it was promised: it is told that
\* the ownership is lost only after the lease of its own acquisition ended,
\* however many transactions it restarted in between.
OwnershipLostIsLate ==
    \A s \in Slots :
        (answer[s] # "ownership_lost" /\ answer'[s] = "ownership_lost")
        => now[s] + LeaseDuration <= clock

LeaseIsKept == [][OwnershipLostIsLate]_idemVars

\* The idempotent outcome: a client that keeps asking ends with a final
\* answer, even when attempts before it died holding the key.
EveryClientIsAnswered == \A s \in Slots : <>(answer[s] \in FinalAnswers)

Once == INSTANCE CommandOnce WITH
    Successes <- {r \in Responses : r.kind = "ok"},
    Undecided <- NoResponse,
    outcome <- [k \in Keys |-> rows[k].response],
    effects <- applied,
    told <- heard

\* The protocol with its leases, retries and crashes implements the plain
\* promise of CommandOnce.
ImplementsOnce == Once!Spec
=============================================================================
