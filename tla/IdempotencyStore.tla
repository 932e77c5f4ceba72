-------------------------- MODULE IdempotencyStore --------------------------
(***************************************************************************)
(* One row of "idempotency_keys" and the decisions the Idempotency         *)
(* repository takes on it.  There is one row per (merchant, method, route, *)
(* key digest); "absent" is the state of a row not inserted yet.  The      *)
(* request hash, the owner token and the response snapshot are opaque:     *)
(* the code only compares the first two and stores the third.  Instants    *)
(* and durations are integers of one clock.                                *)
(***************************************************************************)
EXTENDS Integers

CONSTANTS
    LeaseDuration,   \* leaseDurationMs: how long an owner is left alone
    ReplayDuration,  \* replayDurationMs: how long a response is replayed
    NoHash, NoToken, NoResponse   \* SQL NULL in the three columns

ASSUME StoreAssumption ==
    /\ LeaseDuration \in Nat \ {0}
    /\ ReplayDuration \in Nat \ {0}

AbsentRow ==
    [state |-> "absent", hash |-> NoHash, owner |-> NoToken, lease |-> 0,
     response |-> NoResponse, expires |-> 0]

InProgressRow(hash, token, now) ==
    [state |-> "in_progress", hash |-> hash, owner |-> token,
     lease |-> now + LeaseDuration, response |-> NoResponse, expires |-> 0]

CompletedRow(row, response, at) ==
    [state |-> "completed", hash |-> row.hash, owner |-> NoToken, lease |-> 0,
     response |-> response, expires |-> at + ReplayDuration]

-----------------------------------------------------------------------------
(***************************************************************************)
(* The outcomes of acquire, in the order the code tests them: the hash     *)
(* first, then completion, then ownership, then the lease.  "now" is the   *)
(* caller's clock, read before the transaction began.                      *)
(***************************************************************************)
SameRequest(row, hash) == row.state # "absent" /\ row.hash = hash

KeyReused(row, hash) == row.state # "absent" /\ row.hash # hash

KeyExpired(row, hash, now) ==
    SameRequest(row, hash) /\ row.state = "completed" /\ row.expires <= now

Replayable(row, hash, now) ==
    SameRequest(row, hash) /\ row.state = "completed" /\ row.expires > now

OwnedElsewhere(row, hash, token, now) ==
    /\ SameRequest(row, hash)
    /\ row.state = "in_progress"
    /\ row.owner # token
    /\ row.lease > now

\* Mutants: the conditional UPDATE without its lease test, and left out.
TakeoverAnytime(row, hash, now) == SameRequest(row, hash) /\ row.state = "in_progress"
TakeoverNever(row, hash, now) == FALSE

\* The conditional UPDATE ... WHERE state = 'in_progress' AND lease <= now.
TakeoverDue(row, hash, now) ==
    SameRequest(row, hash) /\ row.state = "in_progress" /\ row.lease <= now

\* Mutant: an expired response is taken for a free key.
AcquirableAgain(row, hash, token, now) ==
    \/ row.state = "absent"
    \/ KeyExpired(row, hash, now)
    \/ TakeoverDue(row, hash, now)

Acquirable(row, hash, token, now) ==
    \/ row.state = "absent"
    \/ SameRequest(row, hash) /\ row.state = "in_progress" /\ row.owner = token
    \/ TakeoverDue(row, hash, now)

\* The row after a successful acquire.
AcquiredRow(row, hash, token, now) ==
    IF row.state = "in_progress" /\ row.owner = token
    THEN row
    ELSE InProgressRow(hash, token, now)

\* Mutant: the row is found by its key alone.
OwnsByKey(row, token) == row.state # "absent"

\* The WHERE clause of complete's SELECT ... FOR UPDATE.  The lease is not
\* consulted: only the token fences a late owner.
Owns(row, token) == row.state = "in_progress" /\ row.owner = token
=============================================================================
