--------------------------- MODULE PaymentCommands ---------------------------
(***************************************************************************)
(* Creating, capturing and refunding payment intents.  Each command is an  *)
(* idempotent command (the extended module); here the domain operation it  *)
(* runs inside its completing transaction is filled in: the payment row is *)
(* locked and read, the command validated against what was read, and the   *)
(* refund, the ledger transaction, the payment projection and the outbox   *)
(* event are written in that same transaction.                             *)
(*                                                                         *)
(* One merchant; another merchant's payments are simply not found.         *)
(***************************************************************************)
EXTENDS IdempotentCommands, PaymentBook

CONSTANTS
    CmdOf,     \* [Slots -> Commands]: what each conversation asks for
    NotRead, NoPayment

Operations == {"create", "capture", "refund"}

Commands == [op : Operations, payment : PaymentIds \cup {NoPayment},
             ref : ExternalRefs \cup {NoRef}, amount : Amounts, currency : Currencies]

WellFormed(c) ==
    /\ c.op \in {"create", "refund"} => c.ref \in ExternalRefs
    /\ c.op \in {"capture", "refund"} => c.payment \in PaymentIds

PaymentProblems ==
    {"external_reference_conflict", "payment_intent_not_found", "currency_mismatch",
     "capture_amount_mismatch", "payment_intent_not_capturable",
     "payment_intent_not_refundable", "refund_amount_exceeds_available",
     "refund_external_reference_conflict", "payment_provider_declined"}

\* The request digest covers exactly the semantic fields, the key is scoped
\* by the route and so by the operation, and the fresh ids a transaction
\* writes are named by its owner token.  The keys are finitely many.
ASSUME PaymentAssumption ==
    /\ IsFiniteSet(Keys)
    /\ CmdOf \in [Slots -> Commands]
    /\ \A s \in Slots : WellFormed(CmdOf[s])
    /\ HashOf = CmdOf
    /\ Ids = Tokens
    /\ Problems = PaymentProblems
    /\ NotRead \notin PaymentRows
    /\ \A s, q \in Slots : KeyOf[s] = KeyOf[q] => CmdOf[s].op = CmdOf[q].op

VARIABLES
    payLock,   \* the slot whose transaction holds a payment's row lock
    seen       \* the payment row a slot read under its lock

payVars == <<books, payLock, seen>>
vars == <<idemVars, payVars>>

PaymentTypeOK ==
    /\ BookTypeOK
    /\ payLock \in [PaymentIds -> Slots \cup {NoSlot}]
    /\ seen \in [Slots -> PaymentRows \cup {NotRead}]

PaymentInit ==
    /\ Init
    /\ BookInit
    /\ payLock = [p \in PaymentIds |-> NoSlot]
    /\ seen = [s \in Slots |-> NotRead]

-----------------------------------------------------------------------------
Cmd(s) == CmdOf[s]

\* The end of the transaction, one way or the other: row locks are released.
Leave(s) ==
    /\ payLock' = [p \in PaymentIds |-> IF payLock[p] = s THEN NoSlot ELSE payLock[p]]
    /\ seen' = [seen EXCEPT ![s] = NotRead]

Operating(s, ops) ==
    /\ pc[s] = "working"
    /\ goal[s] = "operation"
    /\ Cmd(s).op \in ops

\* Mutant: the payment is read without FOR UPDATE.
PaymentRowUnlocked(p) == TRUE

PaymentRowFree(p) == payLock[p] = NoSlot

\* lockByPublicId: SELECT ... FOR UPDATE, which waits for the row, then the
\* row itself.  A payment that is not there is not locked.
LockPayment(s) ==
    LET p == Cmd(s).payment
    IN /\ Operating(s, {"capture", "refund"})
       /\ seen[s] = NotRead
       /\ PaymentRowFree(p)
       /\ seen' = [seen EXCEPT ![s] = payments[p]]
       /\ payLock' = IF payments[p].status = "absent" THEN payLock
                     ELSE [payLock EXCEPT ![p] = s]
       /\ UNCHANGED <<idemVars, books>>

CommandError(s) ==
    IF Cmd(s).op = "capture"
    THEN CaptureError(seen[s], Cmd(s).amount, Cmd(s).currency)
    ELSE RefundError(seen[s], Cmd(s).amount, Cmd(s).currency)

\* The row has been read and the command stands against it.
Accepted(s, op) ==
    /\ Operating(s, {op})
    /\ seen[s] # NotRead
    /\ CommandError(s) = "none"

\* updateMany names the version, status and amounts that were read; a row
\* that changed since makes the command fail with an invariant error.
RowAsRead(s) == payments[Cmd(s).payment] = seen[s]

\* A refusal commits as the stored response of the key and nothing else.
RefuseCommand(s) ==
    /\ Operating(s, {"capture", "refund"})
    /\ seen[s] # NotRead
    /\ CommandError(s) # "none"
    /\ CommitOperation(s, CommandError(s))
    /\ Leave(s)
    /\ UNCHANGED books

CreatePayment(s) ==
    /\ Operating(s, {"create"})
    /\ ~RefTaken(Cmd(s).ref)
    /\ CommitOperation(s, "ok")
    /\ \E p \in PaymentIds :
          /\ payments[p].status = "absent"
          /\ WriteCreate(p, Cmd(s).ref, Cmd(s).amount, Cmd(s).currency, token[s])
    /\ Leave(s)

\* Mutant: the conflict is answered and not recorded under the key.
CreateConflictUnrecorded(s) ==
    /\ Operating(s, {"create"})
    /\ RefTaken(Cmd(s).ref)
    /\ Finish(s, "replied")
    /\ Unlock(s)
    /\ Leave(s)
    /\ UNCHANGED <<clock, rows, applied, heard, faults, books>>

CreateConflict(s) ==
    /\ Operating(s, {"create"})
    /\ RefTaken(Cmd(s).ref)
    /\ AbortOnConflict(s, "external_reference_conflict")
    /\ Leave(s)
    /\ UNCHANGED books

CapturePayment(s) ==
    /\ Accepted(s, "capture")
    /\ RowAsRead(s)
    /\ CommitOperation(s, "ok")
    /\ WriteCapture(Cmd(s).payment, Cmd(s).amount, seen[s].currency, token[s])
    /\ Leave(s)

\* Mutant: no unique index on the refunds' external references.
RefundPaymentUnchecked(s) ==
    /\ Accepted(s, "refund")
    /\ RowAsRead(s)
    /\ CommitOperation(s, "ok")
    /\ WriteRefund(Cmd(s).payment, Cmd(s).ref, Cmd(s).amount, seen[s].currency, token[s])
    /\ Leave(s)

RefundPayment(s) ==
    /\ Accepted(s, "refund")
    /\ ~RefundRefTaken(Cmd(s).ref)
    /\ RowAsRead(s)
    /\ CommitOperation(s, "ok")
    /\ WriteRefund(Cmd(s).payment, Cmd(s).ref, Cmd(s).amount, seen[s].currency, token[s])
    /\ Leave(s)

RefundConflict(s) ==
    /\ Accepted(s, "refund")
    /\ RefundRefTaken(Cmd(s).ref)
    /\ AbortOnConflict(s, "refund_external_reference_conflict")
    /\ Leave(s)
    /\ UNCHANGED books

-----------------------------------------------------------------------------
(***************************************************************************)
(* The steps of the idempotency protocol around the operation.             *)
(***************************************************************************)
\* create has no provider call: it goes straight to its transaction.
ProviderRefuses(s) ==
    /\ Cmd(s).op # "create"
    /\ ProviderDeclines(s, "payment_provider_declined") \/ ProviderFails(s)

Outside(s) ==
    /\ \/ Send(s) \/ AcquireStep(s) \/ ProviderApproves(s) \/ ProviderRefuses(s)
       \/ LockOwnedRow(s) \/ LoseOwnership(s)
    /\ UNCHANGED payVars

RollBack(s) ==
    /\ AbortOnCollision(s) \/ TransientFailure(s) \/ Crash(s)
    /\ Leave(s)
    /\ UNCHANGED books

RecordProblem(s) ==
    /\ CommitProblem(s)
    /\ Leave(s)
    /\ UNCHANGED books

Operate(s) ==
    \/ LockPayment(s) \/ RefuseCommand(s)
    \/ CreatePayment(s) \/ CreateConflict(s)
    \/ CapturePayment(s)
    \/ RefundPayment(s) \/ RefundConflict(s)
    \/ RecordProblem(s)

PaymentNext ==
    \/ \E s \in Slots : Outside(s) \/ Operate(s) \/ RollBack(s)
    \/ (Tick \/ Finished) /\ UNCHANGED payVars

PaymentSpec == PaymentInit /\ [][PaymentNext]_vars

-----------------------------------------------------------------------------
(***************************************************************************)
(* Properties.                                                             *)
(***************************************************************************)

KeysFor(op) == {k \in Keys : \E s \in Slots : KeyOf[s] = k /\ Cmd(s).op = op}
Effects(op) == SumFunctionOnSet(applied, KeysFor(op))
EventsOf(type) == {e \in outbox : e.type = type}
PostingsFor(type) == {t \in postings : t.type = type}

\* INV-10: one event, and one ledger transaction unless the command is a
\* creation, for each effect a key has had, under any interleaving of
\* retries, takeovers and lost answers.
OneTransitionPerEffect ==
    /\ Cardinality(EventsOf("payment.created")) = Effects("create")
    /\ Cardinality(EventsOf("payment.captured")) = Effects("capture")
    /\ Cardinality(PostingsFor("capture")) = Effects("capture")
    /\ Cardinality(EventsOf("payment.refunded")) = Effects("refund")
    /\ Cardinality(PostingsFor("refund")) = Effects("refund")

\* What a transaction read under its payment lock is still true when it
\* writes: the guarded update finds its row, PaymentProjectionInvariantError
\* is never raised, and the ledger reference it is about to use is free.
ReadsStayCurrent ==
    \A s \in Slots : seen[s] # NotRead =>
        /\ seen[s].status # "absent" =>
              /\ payments[Cmd(s).payment] = seen[s]
              /\ payLock[Cmd(s).payment] = s
        /\ Accepted(s, "capture") =>
              \A t \in postings : t.type = "capture" => t.ref # Cmd(s).payment

\* The commands are idempotent commands: with the books hidden, the system
\* behaves as IdempotentCommands says.
ImplementsIdempotency == Spec

\* The commands are atomic on the books: with locks, keys, retries and
\* crashes hidden, only the steps of the abstract system are left.
ImplementsBook == BookSpec
=============================================================================
