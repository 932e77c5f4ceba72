---------------------- MODULE IdempotentCommands_proofs ----------------------
(***************************************************************************)
(* Proofs about IdempotentCommands, for every set of conversations, keys   *)
(* and tokens, every lease and replay duration and every bound.            *)
(***************************************************************************)
EXTENDS IdempotentCommands, TLAPS

Kinds == {"ok"} \cup Problems

RowType == [state : {"absent", "in_progress", "completed"},
            hash : Hashes \cup {NoHash},
            owner : Tokens \cup {NoToken},
            lease : Nat,
            response : Responses \cup {NoResponse},
            expires : Nat]

\* The rows the repository writes are rows.
LEMMA RowsAreTyped ==
    /\ AbsentRow \in RowType
    /\ \A row \in RowType, h \in Hashes, t \in Tokens \cup {NoToken}, n \in Nat :
          AcquiredRow(row, h, t, n) \in RowType
    /\ \A row \in RowType, r \in Responses, n \in Nat :
          CompletedRow(row, r, n) \in RowType
BY StoreAssumption
   DEF AbsentRow, AcquiredRow, InProgressRow, CompletedRow, RowType

-----------------------------------------------------------------------------
(***************************************************************************)
(* The inductive invariant.  TypeOK is not inductive alone: a replay only  *)
(* hands out a response because a completed row has one.  The one effect   *)
(* per key rests on the row lock: a slot at work holds the lock of its row *)
(* and still owns the row, so the row is not completed when it commits.    *)
(***************************************************************************)
Active(s) == pc[s] \notin {"idle", "done"}

RowShape ==
    \A k \in Keys :
        /\ rows[k].state = "completed" => rows[k].response \in Responses
        /\ rows[k].state # "completed" => rows[k].response = NoResponse

TokenHeld == \A s \in Slots : Active(s) => token[s] \in Tokens

LockHeld ==
    \A s \in Slots, k \in Keys :
        rowLock[k] = s <=> pc[s] = "working" /\ KeyOf[s] = k

WorkerOwns == \A s \in Slots : pc[s] = "working" => Owns(Row(s), token[s])

IInv ==
    /\ TypeOK
    /\ RowShape
    /\ TokenHeld
    /\ LockHeld
    /\ WorkerOwns
    /\ EffectMatchesResponse
    /\ HeardIsStored

-----------------------------------------------------------------------------
(***************************************************************************)
(* Type correctness.                                                       *)
(***************************************************************************)
LEMMA TypeInit == Init => TypeOK
BY RowsAreTyped, CommandAssumption DEF Init, TypeOK, Locations, Answers, RowType

\* The locals of a conversation that ends keep their types.
LEMMA FinishTyped ==
    ASSUME TypeOK, NEW s \in Slots, NEW a \in Answers, Finish(s, a)
    PROVE  /\ pc' \in [Slots -> Locations]
           /\ token' \in [Slots -> Tokens \cup {NoToken}]
           /\ now' \in [Slots -> 0..MaxClock]
           /\ goal' \in [Slots -> {"operation"} \cup Problems]
           /\ attempt' \in [Slots -> 1..MaxTx]
           /\ ident' \in [Slots -> 1..MaxIdent]
           /\ answer' \in [Slots -> Answers]
BY CommandAssumption DEF Finish, TypeOK, Locations

LEMMA UnlockTyped ==
    ASSUME TypeOK, NEW s \in Slots, Unlock(s)
    PROVE  rowLock' \in [Keys -> Slots \cup {NoSlot}]
BY DEF Unlock, TypeOK

LEMMA FaultTyped == TypeOK /\ Fault => faults' \in 0..MaxFaults
BY CommandAssumption DEF Fault, TypeOK

\* A commit writes a completed row and a response of the right kind.
LEMMA CommitTyped ==
    ASSUME TypeOK, TokenHeld, NEW s \in Slots, NEW kind \in Kinds, Commit(s, kind)
    PROVE  TypeOK'
<1> DEFINE r == [kind |-> kind, id |-> token[s]]
<1>1. r \in Responses
  BY DEF Commit, TokenHeld, Active, Responses, Kinds
<1>2. rows[KeyOf[s]] \in RowType /\ clock \in Nat
  BY CommandAssumption DEF TypeOK, RowType
<1>3. rows' \in [Keys -> RowType]
  BY <1>1, <1>2, RowsAreTyped DEF Commit, TypeOK, RowType
<1>4a. heard' \in [Keys -> SUBSET Responses]
  <2>1. heard' = heard \/ heard' = [heard EXCEPT ![KeyOf[s]] = @ \cup {r}]
    BY DEF Commit
  <2> QED
    BY <1>1, <2>1, CommandAssumption DEF TypeOK
<1>4b. applied' \in [Keys -> Nat]
  BY CommandAssumption DEF Commit, TypeOK
<1>5. faults' \in 0..MaxFaults /\ clock' \in 0..MaxClock
  BY FaultTyped DEF Commit, TypeOK
<1>6. Finish(s, "replied") \/ Finish(s, "unavailable")
  BY DEF Commit
<1> QED
  BY <1>3, <1>4a, <1>4b, <1>5, <1>6, FinishTyped, UnlockTyped DEF Commit, TypeOK, RowType, Answers

\* A conversation that sends draws a token nobody has.
LEMMA TokenDrawn ==
    ASSUME NEW s \in Slots, Send(s)
    PROVE  NewToken(s) \in Tokens /\ Fresh(NewToken(s))
BY CommandAssumption DEF Send, NewToken

LEMMA TypeNext == TypeOK /\ RowShape /\ TokenHeld /\ [Next]_idemVars => TypeOK'
<1> SUFFICES ASSUME TypeOK, RowShape, TokenHeld, [Next]_idemVars
             PROVE  TypeOK'
  OBVIOUS
<1> USE CommandAssumption
<1>1. ASSUME NEW s \in Slots, Send(s)
      PROVE  TypeOK'
  BY <1>1, TokenDrawn DEF Send, storeVars, TypeOK, Locations, Answers
<1>2. ASSUME NEW s \in Slots, Acquire(s)
      PROVE  TypeOK'
  <2>1. /\ rows[KeyOf[s]] \in RowType
        /\ now[s] \in Nat
        /\ token[s] \in Tokens \cup {NoToken}
    BY DEF TypeOK, RowType
  <2>2. AcquiredRow(rows[KeyOf[s]], HashOf[s], token[s], now[s]) \in RowType
    BY <2>1, RowsAreTyped
  <2> QED
    BY <1>2, <2>2 DEF Acquire, TypeOK, RowType, Locations
<1>3. ASSUME NEW s \in Slots, Replay(s)
      PROVE  TypeOK'
  <2>1. Row(s).response \in Responses
    BY <1>3 DEF Replay, Replayable, Row, RowShape, SameRequest
  <2>2. heard' \in [Keys -> SUBSET Responses]
    BY <1>3, <2>1 DEF Replay, TypeOK
  <2> QED
    BY <1>3, <2>2, FinishTyped DEF Replay, TypeOK, Answers
<1>4. ASSUME NEW s \in Slots, NEW a \in Answers, Refuse(s, a)
      PROVE  TypeOK'
  BY <1>4, FinishTyped DEF Refuse, storeVars, TypeOK
<1>5. ASSUME NEW s \in Slots, ProviderStep(s)
      PROVE  TypeOK'
  <2>1. CASE ProviderApproves(s)
    BY <2>1 DEF ProviderApproves, storeVars, TypeOK, Locations
  <2>2. ASSUME NEW code \in Problems, ProviderDeclines(s, code)
        PROVE  TypeOK'
    BY <2>2 DEF ProviderDeclines, storeVars, TypeOK, Locations
  <2> QED
    BY <1>5, <2>1, <2>2 DEF ProviderStep
<1>6. ASSUME NEW s \in Slots, ProviderFails(s)
      PROVE  TypeOK'
  BY <1>6, FinishTyped, FaultTyped DEF ProviderFails, TypeOK, Answers
<1>7. ASSUME NEW s \in Slots, LockOwnedRow(s)
      PROVE  TypeOK'
  BY <1>7 DEF LockOwnedRow, TypeOK, Locations
<1>8. ASSUME NEW s \in Slots, LoseOwnership(s)
      PROVE  TypeOK'
  BY <1>8, FinishTyped DEF LoseOwnership, storeVars, TypeOK, Answers
<1>9. ASSUME NEW s \in Slots, NEW kind \in Kinds, Commit(s, kind)
      PROVE  TypeOK'
  BY <1>9, CommitTyped
<1>10. ASSUME NEW s \in Slots, NEW code \in Problems, AbortOnConflict(s, code)
       PROVE  TypeOK'
  BY <1>10, UnlockTyped DEF AbortOnConflict, TypeOK, Locations
<1>11. ASSUME NEW s \in Slots, AbortOnCollision(s)
       PROVE  TypeOK'
  <2>1. CASE ident[s] < MaxIdent
    <3>1. ident[s] + 1 \in 1..MaxIdent
      BY <2>1 DEF TypeOK
    <3>2. /\ ident' = [ident EXCEPT ![s] = ident[s] + 1]
          /\ attempt' = [attempt EXCEPT ![s] = 1]
          /\ pc' = [pc EXCEPT ![s] = "completing"]
          /\ UNCHANGED <<clock, rows, applied, heard, token, now, goal, answer>>
      BY <1>11, <2>1 DEF AbortOnCollision
    <3> QED
      BY <1>11, <3>1, <3>2, UnlockTyped, FaultTyped DEF AbortOnCollision, TypeOK, Locations
  <2>2. CASE ~(ident[s] < MaxIdent)
    BY <1>11, <2>2, UnlockTyped, FaultTyped, FinishTyped DEF AbortOnCollision, TypeOK, Answers
  <2> QED
    BY <2>1, <2>2
<1>12. ASSUME NEW s \in Slots, TransientFailure(s)
       PROVE  TypeOK'
  <2>1. CASE attempt[s] < MaxTx
    <3>1. attempt[s] + 1 \in 1..MaxTx
      BY <2>1 DEF TypeOK
    <3>2. /\ attempt' = [attempt EXCEPT ![s] = attempt[s] + 1]
          /\ pc' = [pc EXCEPT ![s] = "completing"]
          /\ UNCHANGED <<clock, rows, applied, heard, token, now, goal, ident, answer>>
      BY <1>12, <2>1 DEF TransientFailure, TransactionsLeft
    <3> QED
      BY <1>12, <3>1, <3>2, UnlockTyped, FaultTyped DEF TransientFailure, TransactionsLeft, TypeOK, Locations
  <2>2. CASE ~(attempt[s] < MaxTx)
    BY <1>12, <2>2, UnlockTyped, FaultTyped, FinishTyped DEF TransientFailure, TransactionsLeft, TypeOK, Answers
  <2> QED
    BY <2>1, <2>2
<1>13. ASSUME NEW s \in Slots, Crash(s)
       PROVE  TypeOK'
  BY <1>13, UnlockTyped, FaultTyped, FinishTyped DEF Crash, TypeOK, Answers
<1>14. CASE Tick
  BY <1>14 DEF Tick, slotVars, TypeOK
<1>15. CASE UNCHANGED idemVars
  BY <1>15 DEF idemVars, storeVars, slotVars, TypeOK
<1> QED
  BY <1>1, <1>2, <1>3, <1>4, <1>5, <1>6, <1>7, <1>8, <1>9, <1>10, <1>11, <1>12,
     <1>13, <1>14, <1>15
     DEF Next, AcquireStep, CompleteStep, FaultStep, CommitOperation, CommitProblem,
         Finished, Kinds, TypeOK

-----------------------------------------------------------------------------
(***************************************************************************)
(* The invariant.                                                          *)
(***************************************************************************)
Rest == RowShape /\ TokenHeld /\ LockHeld /\ WorkerOwns
        /\ EffectMatchesResponse /\ HeardIsStored

LEMMA InvInit == Init => IInv
<1> SUFFICES ASSUME Init
             PROVE  IInv
  OBVIOUS
<1>1. TypeOK
  BY TypeInit
<1>2. RowShape /\ EffectMatchesResponse /\ HeardIsStored
  BY NoResponseAssumption
     DEF Init, AbsentRow, RowShape, EffectMatchesResponse, HeardIsStored
<1>3. TokenHeld /\ LockHeld /\ WorkerOwns
  BY CommandAssumption DEF Init, TokenHeld, LockHeld, WorkerOwns, Active
<1> QED
  BY <1>1, <1>2, <1>3 DEF IInv

\* A step that leaves the stored rows alone and at most lets one slot leave
\* its transaction, giving back the lock, keeps the invariant.
LEMMA QuietStep ==
    ASSUME IInv, NEW s \in Slots,
           UNCHANGED <<rows, applied, heard>>,
           \A q \in Slots \ {s} : pc'[q] = pc[q] /\ token'[q] = token[q],
           pc'[s] # "working",
           pc'[s] \notin {"idle", "done"} => token'[s] \in Tokens,
           \/ Unlock(s)
           \/ pc[s] # "working" /\ UNCHANGED rowLock
    PROVE  Rest'
<1> USE CommandAssumption DEF IInv
<1>1. RowShape' /\ EffectMatchesResponse' /\ HeardIsStored'
  BY DEF RowShape, EffectMatchesResponse, HeardIsStored
<1>2. TokenHeld'
  BY DEF TokenHeld, Active
<1>3. \A k \in Keys : rowLock'[k] = IF rowLock[k] = s THEN NoSlot ELSE rowLock[k]
  <2>1. \A k \in Keys : rowLock[k] = s => KeyOf[s] = k /\ pc[s] = "working"
    BY DEF LockHeld
  <2>2. CASE Unlock(s)
    BY <2>1, <2>2 DEF Unlock, TypeOK
  <2>3. CASE pc[s] # "working" /\ UNCHANGED rowLock
    BY <2>1, <2>3
  <2> QED
    BY <2>2, <2>3
<1>4. LockHeld'
  BY <1>3 DEF LockHeld, TypeOK
<1>5. WorkerOwns'
  BY DEF WorkerOwns, Row
<1> QED
  BY <1>1, <1>2, <1>4, <1>5 DEF Rest

\* What the end of an attempt does to the other conversations: nothing.
LEMMA FinishLocal ==
    ASSUME TypeOK, NEW s \in Slots, NEW a \in Answers, Finish(s, a)
    PROVE  /\ pc'[s] = "done"
           /\ \A q \in Slots \ {s} : pc'[q] = pc[q] /\ token'[q] = token[q]
BY DEF Finish, TypeOK

LEMMA SendInv ==
    ASSUME IInv, NEW s \in Slots, Send(s)
    PROVE  Rest'
<1>1. /\ pc'[s] = "acquiring" /\ token'[s] \in Tokens
      /\ \A q \in Slots \ {s} : pc'[q] = pc[q] /\ token'[q] = token[q]
  BY TokenDrawn DEF IInv, TypeOK, Send
<1>2. UNCHANGED <<rows, applied, heard, rowLock>> /\ pc[s] # "working"
  BY DEF Send, storeVars
<1> QED
  BY <1>1, <1>2, QuietStep

\* The acquirer finds the row unlocked, so nobody is at work on it, and
\* writes it in progress: nothing has happened under a fresh row, and an
\* in-progress row stays without effect.
LEMMA AcquireInv ==
    ASSUME IInv, NEW s \in Slots, Acquire(s)
    PROVE  Rest'
<1> USE CommandAssumption DEF IInv
<1> DEFINE k == KeyOf[s]
<1>1. k \in Keys /\ rows[k].state # "completed"
  BY DEF Acquire, Acquirable, TakeoverDue, SameRequest, Row
<1>2. /\ \A j \in Keys \ {k} : rows'[j] = rows[j]
      /\ rows'[k].state = "in_progress"
      /\ rows'[k].response = NoResponse
  BY <1>1 DEF Acquire, AcquiredRow, InProgressRow, TypeOK, RowShape
<1>3. RowShape' /\ EffectMatchesResponse' /\ HeardIsStored'
  BY <1>1, <1>2 DEF Acquire, RowShape, EffectMatchesResponse, HeardIsStored
<1>4. /\ pc'[s] = "executing"
      /\ \A q \in Slots \ {s} : pc'[q] = pc[q]
      /\ UNCHANGED <<token, rowLock>>
      /\ pc[s] = "acquiring" /\ rowLock[k] = NoSlot
  BY DEF Acquire, RowFree, TypeOK
<1>5. TokenHeld'
  BY <1>4 DEF TokenHeld, Active
<1>6. LockHeld'
  BY <1>4 DEF LockHeld, TypeOK
<1>7. \A q \in Slots : pc'[q] = "working" => pc[q] = "working" /\ KeyOf[q] # k
  BY <1>4 DEF LockHeld
<1>8. WorkerOwns'
  BY <1>2, <1>4, <1>7 DEF WorkerOwns, Row
<1> QED
  BY <1>3, <1>5, <1>6, <1>8 DEF Rest

LEMMA ReplayInv ==
    ASSUME IInv, NEW s \in Slots, Replay(s)
    PROVE  Rest'
<1> USE CommandAssumption DEF IInv
<1> DEFINE k == KeyOf[s]
<1>1. rows[k].state = "completed" /\ heard' = [heard EXCEPT ![k] = @ \cup {rows[k].response}]
  BY DEF Replay, Replayable, Row
<1>2. HeardIsStored'
  <2> SUFFICES ASSUME NEW j \in Keys, NEW x \in heard'[j]
               PROVE  rows'[j].state = "completed" /\ rows'[j].response = x
    BY DEF HeardIsStored
  <2>1. UNCHANGED rows
    BY DEF Replay
  <2>2. CASE j = k /\ x = rows[k].response
    BY <1>1, <2>1, <2>2
  <2>3. CASE x \in heard[j]
    BY <2>1, <2>3 DEF HeardIsStored
  <2> QED
    BY <1>1, <2>2, <2>3 DEF TypeOK
<1>3. RowShape' /\ EffectMatchesResponse'
  BY DEF Replay, RowShape, EffectMatchesResponse
<1>4. /\ pc'[s] = "done" /\ pc[s] = "acquiring"
      /\ \A q \in Slots \ {s} : pc'[q] = pc[q] /\ token'[q] = token[q]
      /\ UNCHANGED <<rows, rowLock>>
  BY FinishLocal DEF Replay, Answers
<1>5. TokenHeld'
  BY <1>4 DEF TokenHeld, Active
<1>6. LockHeld'
  BY <1>4 DEF LockHeld
<1>7. WorkerOwns'
  BY <1>4 DEF WorkerOwns, Row
<1> QED
  BY <1>2, <1>3, <1>5, <1>6, <1>7 DEF Rest

LEMMA LockOwnedRowInv ==
    ASSUME IInv, NEW s \in Slots, LockOwnedRow(s)
    PROVE  Rest'
<1> USE CommandAssumption DEF IInv
<1>1. RowShape' /\ EffectMatchesResponse' /\ HeardIsStored'
  BY DEF LockOwnedRow, RowShape, EffectMatchesResponse, HeardIsStored
<1>2. TokenHeld'
  BY DEF LockOwnedRow, TokenHeld, Active, TypeOK
<1>3. LockHeld'
  BY DEF LockOwnedRow, RowFree, LockHeld, TypeOK
<1>4. WorkerOwns'
  BY DEF LockOwnedRow, WorkerOwns, Row, TypeOK
<1> QED
  BY <1>1, <1>2, <1>3, <1>4 DEF Rest

\* The heart of the matter: the committing slot owns an in-progress row, so
\* no effect and no response exist under the key yet, and both appear now.
LEMMA CommitInv ==
    ASSUME IInv, NEW s \in Slots, NEW kind \in Kinds, Commit(s, kind)
    PROVE  Rest'
<1> USE CommandAssumption DEF IInv
<1> DEFINE k == KeyOf[s]
           r == [kind |-> kind, id |-> token[s]]
<1>1. /\ pc[s] = "working" /\ k \in Keys /\ r \in Responses
      /\ rows[k].state = "in_progress" /\ rowLock[k] = s
  BY DEF Commit, WorkerOwns, Owns, Row, LockHeld, TokenHeld, Active, Responses, Kinds
<1>2. /\ \A j \in Keys \ {k} : rows'[j] = rows[j]
      /\ rows'[k].state = "completed" /\ rows'[k].response = r
  BY <1>1 DEF Commit, CompletedRow, TypeOK
<1>3. /\ applied' = [applied EXCEPT ![k] = IF kind = "ok" THEN @ + 1 ELSE @]
      /\ heard' = heard \/ heard' = [heard EXCEPT ![k] = @ \cup {r}]
  BY DEF Commit
<1>4. RowShape'
  BY <1>1, <1>2 DEF RowShape
<1>5. EffectMatchesResponse'
  BY <1>1, <1>2, <1>3 DEF EffectMatchesResponse, TypeOK
<1>6. HeardIsStored'
  <2> SUFFICES ASSUME NEW j \in Keys, NEW x \in heard'[j]
               PROVE  rows'[j].state = "completed" /\ rows'[j].response = x
    BY DEF HeardIsStored
  <2>1. heard[k] = {}
    BY <1>1 DEF HeardIsStored, TypeOK
  <2>2. CASE j = k
    BY <1>1, <1>2, <1>3, <2>1, <2>2 DEF TypeOK
  <2>3. CASE j # k
    BY <1>1, <1>2, <1>3, <2>3 DEF HeardIsStored, TypeOK
  <2> QED
    BY <2>2, <2>3
<1>7. /\ pc'[s] = "done"
      /\ \A q \in Slots \ {s} : pc'[q] = pc[q] /\ token'[q] = token[q]
  BY FinishLocal DEF Commit, Answers
<1>8. rowLock' = [rowLock EXCEPT ![k] = NoSlot]
  BY <1>1 DEF Commit, Unlock, TypeOK
<1>9. TokenHeld'
  BY <1>7 DEF TokenHeld, Active
<1>10. LockHeld'
  BY <1>1, <1>7, <1>8 DEF LockHeld, TypeOK
<1>11. \A q \in Slots : pc'[q] = "working" => pc[q] = "working" /\ KeyOf[q] # k
  BY <1>1, <1>7 DEF LockHeld
<1>12. WorkerOwns'
  BY <1>2, <1>7, <1>11 DEF WorkerOwns, Row
<1> QED
  BY <1>4, <1>5, <1>6, <1>9, <1>10, <1>12 DEF Rest

LEMMA FaultInv ==
    ASSUME IInv, NEW s \in Slots, FaultStep(s)
    PROVE  Rest'
<1> USE CommandAssumption DEF IInv
<1>1. CASE ProviderFails(s)
  BY <1>1, FinishLocal, QuietStep DEF ProviderFails, Answers
<1>2. CASE AbortOnCollision(s)
  <2>1. CASE ident[s] < MaxIdent
    <3>1. /\ pc'[s] = "completing" /\ token'[s] \in Tokens
          /\ \A q \in Slots \ {s} : pc'[q] = pc[q] /\ token'[q] = token[q]
      BY <1>2, <2>1 DEF AbortOnCollision, TypeOK, TokenHeld, Active
    <3> QED
      BY <1>2, <3>1, QuietStep DEF AbortOnCollision
  <2>2. CASE ~(ident[s] < MaxIdent)
    BY <1>2, <2>2, FinishLocal, QuietStep DEF AbortOnCollision, Answers
  <2> QED
    BY <2>1, <2>2
<1>3. CASE TransientFailure(s)
  <2>1. CASE attempt[s] < MaxTx
    <3>1. /\ pc'[s] = "completing" /\ token'[s] \in Tokens
          /\ \A q \in Slots \ {s} : pc'[q] = pc[q] /\ token'[q] = token[q]
      BY <1>3, <2>1 DEF TransientFailure, TransactionsLeft, TypeOK, TokenHeld, Active
    <3> QED
      BY <1>3, <3>1, QuietStep DEF TransientFailure, TransactionsLeft
  <2>2. CASE ~(attempt[s] < MaxTx)
    BY <1>3, <2>2, FinishLocal, QuietStep DEF TransientFailure, TransactionsLeft, Answers
  <2> QED
    BY <2>1, <2>2
<1>4. CASE Crash(s)
  BY <1>4, FinishLocal, QuietStep DEF Crash, Answers
<1> QED
  BY <1>1, <1>2, <1>3, <1>4 DEF FaultStep

THEOREM InvNext == IInv /\ [Next]_idemVars => IInv'
<1> SUFFICES ASSUME IInv, [Next]_idemVars
             PROVE  IInv'
  OBVIOUS
<1> USE CommandAssumption
<1>1. TypeOK'
  BY TypeNext DEF IInv
<1>2. ASSUME NEW s \in Slots, Send(s)
      PROVE  Rest'
  BY <1>2, SendInv
<1>3. ASSUME NEW s \in Slots, AcquireStep(s)
      PROVE  Rest'
  <2>1. ASSUME NEW a \in Answers, Refuse(s, a)
        PROVE  Rest'
    BY <2>1, FinishLocal, QuietStep DEF Refuse, storeVars, IInv
  <2> QED
    BY <1>3, <2>1, AcquireInv, ReplayInv DEF AcquireStep
<1>4. ASSUME NEW s \in Slots, ProviderStep(s)
      PROVE  Rest'
  <2>1. /\ pc[s] = "executing" /\ pc' = [pc EXCEPT ![s] = "completing"]
        /\ UNCHANGED <<rows, applied, heard, rowLock, token>>
    BY <1>4 DEF ProviderStep, ProviderApproves, ProviderDeclines, storeVars
  <2>2. /\ pc'[s] = "completing" /\ token'[s] \in Tokens
        /\ \A q \in Slots \ {s} : pc'[q] = pc[q] /\ token'[q] = token[q]
    BY <2>1 DEF IInv, TypeOK, TokenHeld, Active
  <2> QED
    BY <2>1, <2>2, QuietStep
<1>5. ASSUME NEW s \in Slots, CompleteStep(s)
      PROVE  Rest'
  <2>1. CASE LockOwnedRow(s)
    BY <2>1, LockOwnedRowInv
  <2>2. CASE LoseOwnership(s)
    BY <2>2, FinishLocal, QuietStep DEF LoseOwnership, storeVars, IInv, Answers
  <2>3. ASSUME NEW kind \in Kinds, Commit(s, kind)
        PROVE  Rest'
    BY <2>3, CommitInv
  <2>4. ASSUME NEW code \in Problems, AbortOnConflict(s, code)
        PROVE  Rest'
    <3>1. /\ pc'[s] = "completing" /\ token'[s] \in Tokens
          /\ \A q \in Slots \ {s} : pc'[q] = pc[q] /\ token'[q] = token[q]
      BY <2>4 DEF AbortOnConflict, IInv, TypeOK, TokenHeld, Active
    <3> QED
      BY <2>4, <3>1, QuietStep DEF AbortOnConflict
  <2> QED
    BY <1>5, <2>1, <2>2, <2>3, <2>4
       DEF CompleteStep, CommitOperation, CommitProblem, Kinds, IInv, TypeOK
<1>6. ASSUME NEW s \in Slots, FaultStep(s)
      PROVE  Rest'
  BY <1>6, FaultInv
<1>7. ASSUME Tick \/ Finished \/ UNCHANGED idemVars
      PROVE  Rest'
  <2>1. UNCHANGED <<rows, rowLock, applied, heard, pc, token>>
    BY <1>7 DEF Tick, Finished, idemVars, storeVars, slotVars
  <2>2. RowShape' /\ EffectMatchesResponse' /\ HeardIsStored'
    BY <2>1 DEF IInv, RowShape, EffectMatchesResponse, HeardIsStored
  <2>3. TokenHeld' /\ LockHeld'
    BY <2>1 DEF IInv, TokenHeld, Active, LockHeld
  <2>4. WorkerOwns'
    BY <2>1 DEF IInv, WorkerOwns, Row
  <2> QED
    BY <2>2, <2>3, <2>4 DEF Rest
<1>8. Rest'
  BY <1>2, <1>3, <1>4, <1>5, <1>6, <1>7 DEF Next
<1> QED
  BY <1>1, <1>8 DEF IInv, Rest

\* The invariant holds in every reachable state.
THEOREM Invariance == Spec => []IInv
BY InvInit, InvNext, PTL DEF Spec

\* Every variable keeps its type.
THEOREM TypeCorrect == Spec => []TypeOK
<1>1. IInv => TypeOK
  BY DEF IInv
<1> QED
  BY Invariance, <1>1, PTL

\* INV-10: one domain effect per key if the stored response is a success,
\* none otherwise.
THEOREM EffectOnce == Spec => []EffectMatchesResponse
<1>1. IInv => EffectMatchesResponse
  BY DEF IInv
<1> QED
  BY Invariance, <1>1, PTL

\* Whatever a client is told under a key is the response stored for it.
THEOREM AnswersAgree == Spec => []HeardIsStored
<1>1. IInv => HeardIsStored
  BY DEF IInv
<1> QED
  BY Invariance, <1>1, PTL

-----------------------------------------------------------------------------
(***************************************************************************)
(* Owners keep their leases.  Tokens are unique among running attempts and *)
(* a token that has not acquired yet owns nothing, so the only step that   *)
(* takes a row away from its owner is a takeover, and its guard is the     *)
(* lease.                                                                  *)
(***************************************************************************)
Owning(s) == pc[s] \in {"executing", "completing", "working"}

TokensDistinct ==
    \A s, q \in Slots : s # q /\ Active(s) /\ Active(q) => token[s] # token[q]

FreshUntilAcquired ==
    \A s \in Slots : pc[s] = "acquiring" => \A k \in Keys : rows[k].owner # token[s]

NowIsPast == \A s \in Slots : now[s] <= clock

LeaseRuns ==
    \A s \in Slots : Owning(s) =>
        \/ Owns(Row(s), token[s]) /\ Row(s).lease = now[s] + LeaseDuration
        \/ now[s] + LeaseDuration <= clock

LInv == TokensDistinct /\ FreshUntilAcquired /\ NowIsPast /\ LeaseRuns

LEMMA LInvInit == Init => LInv
BY DEF Init, LInv, TokensDistinct, FreshUntilAcquired, NowIsPast, LeaseRuns, Active, Owning

\* A step of one conversation that neither writes rows nor draws a token.
LEMMA QuietLease ==
    ASSUME IInv, LInv, NEW s \in Slots,
           UNCHANGED <<rows, clock>>,
           \A q \in Slots \ {s} : pc'[q] = pc[q] /\ token'[q] = token[q] /\ now'[q] = now[q],
           \/ pc'[s] = "done" /\ now'[s] = 0
           \/ Owning(s) /\ Owning(s)' /\ token'[s] = token[s] /\ now'[s] = now[s]
    PROVE  LInv'
<1> USE DEF LInv
<1>1. TokensDistinct'
  BY DEF TokensDistinct, Active, Owning
<1>2. FreshUntilAcquired'
  BY DEF FreshUntilAcquired, Owning
<1>3. NowIsPast'
  BY CommandAssumption DEF NowIsPast, IInv, TypeOK
<1>4. LeaseRuns'
  BY DEF LeaseRuns, Owning, Row
<1> QED
  BY <1>1, <1>2, <1>3, <1>4

LEMMA FinishLease ==
    ASSUME IInv, LInv, NEW s \in Slots, NEW a \in Answers, Finish(s, a),
           UNCHANGED <<rows, clock>>
    PROVE  LInv'
<1>1. /\ pc'[s] = "done" /\ now'[s] = 0
      /\ \A q \in Slots \ {s} : pc'[q] = pc[q] /\ token'[q] = token[q] /\ now'[q] = now[q]
  BY DEF Finish, IInv, TypeOK
<1> QED
  BY <1>1, QuietLease

LEMMA SendLease ==
    ASSUME IInv, LInv, NEW s \in Slots, Send(s)
    PROVE  LInv'
<1> USE DEF LInv
<1> DEFINE t == NewToken(s)
<1>1. t \in Tokens /\ Fresh(t) /\ token' = [token EXCEPT ![s] = t]
  BY TokenDrawn DEF Send
<1>2. /\ pc'[s] = "acquiring" /\ token'[s] = t /\ now'[s] = clock
      /\ \A q \in Slots \ {s} : pc'[q] = pc[q] /\ token'[q] = token[q] /\ now'[q] = now[q]
      /\ UNCHANGED <<rows, clock>>
  BY <1>1 DEF Send, storeVars, IInv, TypeOK
<1>3. /\ \A q \in Slots : token[q] # t
      /\ \A k \in Keys : rows[k].owner # t
  BY <1>1 DEF Fresh
<1>4. TokensDistinct'
  BY <1>2, <1>3 DEF TokensDistinct, Active
<1>5. FreshUntilAcquired'
  BY <1>2, <1>3 DEF FreshUntilAcquired
<1>6. NowIsPast'
  BY <1>2, CommandAssumption DEF NowIsPast, IInv, TypeOK
<1>7. LeaseRuns'
  BY <1>2 DEF LeaseRuns, Owning, Row
<1> QED
  BY <1>4, <1>5, <1>6, <1>7

LEMMA AcquireLease ==
    ASSUME IInv, LInv, NEW s \in Slots, Acquire(s)
    PROVE  LInv'
<1> USE CommandAssumption DEF LInv
<1> DEFINE k == KeyOf[s]
<1>1. /\ pc[s] = "acquiring" /\ pc'[s] = "executing" /\ k \in Keys
      /\ \A q \in Slots \ {s} : pc'[q] = pc[q]
      /\ UNCHANGED <<token, now, clock>>
  BY DEF Acquire, IInv, TypeOK
<1>2. rows[k].owner # token[s]
  BY <1>1 DEF FreshUntilAcquired
<1>3. /\ \A j \in Keys \ {k} : rows'[j] = rows[j]
      /\ rows'[k] = InProgressRow(HashOf[s], token[s], now[s])
  BY <1>1, <1>2 DEF Acquire, AcquiredRow, IInv, TypeOK
<1>4. TokensDistinct'
  BY <1>1 DEF TokensDistinct, Active
<1>5. FreshUntilAcquired'
  BY <1>1, <1>3 DEF FreshUntilAcquired, TokensDistinct, Active, InProgressRow
<1>6. NowIsPast'
  BY <1>1 DEF NowIsPast
<1>7. ASSUME NEW q \in Slots, Owning(q)', q # s, KeyOf[q] = k, Owns(rows[k], token[q])
      PROVE  rows[k].lease <= now[s]
  BY <1>2, <1>7 DEF Acquire, Acquirable, TakeoverDue, Owns, Row
<1>8. LeaseRuns'
  <2> SUFFICES ASSUME NEW q \in Slots, Owning(q)'
               PROVE  \/ Owns(Row(q), token[q])' /\ Row(q)'.lease = now'[q] + LeaseDuration
                      \/ now'[q] + LeaseDuration <= clock'
    BY DEF LeaseRuns
  <2>1. CASE q = s
    BY <1>1, <1>3, <2>1 DEF Owns, Row, InProgressRow
  <2>2. CASE q # s /\ KeyOf[q] # k
    BY <1>1, <1>3, <2>2 DEF LeaseRuns, Owning, Owns, Row
  <2>3. CASE q # s /\ KeyOf[q] = k
    <3>1. Owning(q)
      BY <1>1, <2>3 DEF Owning
    <3>2. CASE now[q] + LeaseDuration <= clock
      BY <1>1, <3>2
    <3>3. CASE Owns(rows[k], token[q]) /\ rows[k].lease = now[q] + LeaseDuration
      BY <1>1, <1>7, <2>3, <3>3, StoreAssumption DEF NowIsPast, IInv, TypeOK
    <3> QED
      BY <2>3, <3>1, <3>2, <3>3 DEF LeaseRuns, Row
  <2> QED
    BY <2>1, <2>2, <2>3
<1> QED
  BY <1>4, <1>5, <1>6, <1>8

LEMMA CommitLease ==
    ASSUME IInv, LInv, NEW s \in Slots, NEW kind \in Kinds, Commit(s, kind)
    PROVE  LInv'
<1> USE CommandAssumption DEF LInv
<1> DEFINE k == KeyOf[s]
<1>1. /\ pc[s] = "working" /\ Owns(rows[k], token[s]) /\ k \in Keys
      /\ \A j \in Keys \ {k} : rows'[j] = rows[j]
      /\ rows'[k].owner = NoToken
      /\ UNCHANGED clock
  BY DEF Commit, CompletedRow, IInv, TypeOK, WorkerOwns, Row
<1>2. /\ pc'[s] = "done" /\ now'[s] = 0
      /\ \A q \in Slots \ {s} : pc'[q] = pc[q] /\ token'[q] = token[q] /\ now'[q] = now[q]
  BY DEF Commit, Finish, IInv, TypeOK
<1>3. TokensDistinct'
  BY <1>2 DEF TokensDistinct, Active
<1>4. FreshUntilAcquired'
  <2> SUFFICES ASSUME NEW q \in Slots, pc'[q] = "acquiring", NEW j \in Keys
               PROVE  rows'[j].owner # token'[q]
    BY DEF FreshUntilAcquired
  <2>1. q # s /\ pc[q] = "acquiring" /\ token'[q] = token[q] /\ token[q] \in Tokens
    BY <1>2 DEF IInv, TokenHeld, Active
  <2> QED
    BY <1>1, <2>1 DEF FreshUntilAcquired
<1>5. NowIsPast'
  BY <1>1, <1>2 DEF NowIsPast, IInv, TypeOK
<1>6. ASSUME NEW q \in Slots, Owning(q), q # s
      PROVE  token[q] # token[s]
  BY <1>1, <1>6 DEF TokensDistinct, Active, Owning
<1>7. LeaseRuns'
  <2> SUFFICES ASSUME NEW q \in Slots, Owning(q)'
               PROVE  \/ Owns(Row(q), token[q])' /\ Row(q)'.lease = now'[q] + LeaseDuration
                      \/ now'[q] + LeaseDuration <= clock'
    BY DEF LeaseRuns
  <2>1. q # s /\ Owning(q) /\ token'[q] = token[q] /\ now'[q] = now[q]
    BY <1>2 DEF Owning
  <2>2. ~Owns(rows[k], token[q])
    BY <1>1, <1>6, <2>1 DEF Owns
  <2> QED
    BY <1>1, <2>1, <2>2 DEF LeaseRuns, Row, Owns
<1> QED
  BY <1>3, <1>4, <1>5, <1>7

LEMMA OwnerStepLease ==
    ASSUME IInv, LInv, NEW s \in Slots, Owning(s), Owning(s)',
           UNCHANGED <<rows, clock, token, now>>,
           \A q \in Slots \ {s} : pc'[q] = pc[q]
    PROVE  LInv'
BY QuietLease

LEMMA LInvNext == IInv /\ LInv /\ [Next]_idemVars => LInv'
<1> SUFFICES ASSUME IInv, LInv, [Next]_idemVars
             PROVE  LInv'
  OBVIOUS
<1>1. ASSUME NEW s \in Slots, AcquireStep(s)
      PROVE  LInv'
  <2>1. CASE Replay(s)
    BY <2>1, FinishLease DEF Replay, Answers
  <2>2. ASSUME NEW a \in Answers, Refuse(s, a)
        PROVE  LInv'
    BY <2>2, FinishLease DEF Refuse, storeVars
  <2> QED
    BY <1>1, <2>1, <2>2, AcquireLease DEF AcquireStep
<1>2. ASSUME NEW s \in Slots, ProviderStep(s)
      PROVE  LInv'
  <2>1. /\ pc[s] = "executing" /\ pc' = [pc EXCEPT ![s] = "completing"]
        /\ UNCHANGED <<rows, clock, token, now>>
    BY <1>2 DEF ProviderStep, ProviderApproves, ProviderDeclines, storeVars
  <2> QED
    BY <2>1, OwnerStepLease DEF Owning, IInv, TypeOK
<1>3. ASSUME NEW s \in Slots, CompleteStep(s)
      PROVE  LInv'
  <2>1. CASE LockOwnedRow(s)
    BY <2>1, OwnerStepLease DEF LockOwnedRow, Owning, IInv, TypeOK
  <2>2. CASE LoseOwnership(s)
    BY <2>2, FinishLease DEF LoseOwnership, storeVars, Answers
  <2>3. ASSUME NEW kind \in Kinds, Commit(s, kind)
        PROVE  LInv'
    BY <2>3, CommitLease
  <2>4. ASSUME NEW code \in Problems, AbortOnConflict(s, code)
        PROVE  LInv'
    BY <2>4, OwnerStepLease DEF AbortOnConflict, Owning, IInv, TypeOK
  <2> QED
    BY <1>3, <2>1, <2>2, <2>3, <2>4
       DEF CompleteStep, CommitOperation, CommitProblem, Kinds, IInv, TypeOK
<1>4. ASSUME NEW s \in Slots, FaultStep(s)
      PROVE  LInv'
  <2>1. UNCHANGED <<rows, clock>>
    BY <1>4 DEF FaultStep, ProviderFails, AbortOnCollision, TransientFailure, TransactionsLeft, Crash
  <2>2. ASSUME NEW a \in Answers, Finish(s, a)
        PROVE  LInv'
    BY <2>1, <2>2, FinishLease
  <2>3. CASE AbortOnCollision(s) /\ ident[s] < MaxIdent
    BY <2>1, <2>3, OwnerStepLease DEF AbortOnCollision, Owning, IInv, TypeOK
  <2>4. CASE TransientFailure(s) /\ attempt[s] < MaxTx
    BY <2>1, <2>4, OwnerStepLease DEF TransientFailure, TransactionsLeft, Owning, IInv, TypeOK
  <2> QED
    BY <1>4, <2>2, <2>3, <2>4
       DEF FaultStep, ProviderFails, AbortOnCollision, TransientFailure, TransactionsLeft, Crash, Answers
<1>5. CASE Tick
  <2>1. UNCHANGED <<rows, pc, token, now>> /\ clock' = clock + 1 /\ clock \in Nat
    BY <1>5, CommandAssumption DEF Tick, slotVars, IInv, TypeOK
  <2>2. TokensDistinct' /\ FreshUntilAcquired'
    BY <2>1 DEF LInv, TokensDistinct, FreshUntilAcquired, Active
  <2>3. NowIsPast'
    BY <2>1 DEF LInv, NowIsPast, IInv, TypeOK
  <2>4. LeaseRuns'
    BY <2>1, StoreAssumption DEF LInv, LeaseRuns, Owning, Owns, Row, IInv, TypeOK
  <2> QED
    BY <2>2, <2>3, <2>4 DEF LInv
<1>6. CASE Finished \/ UNCHANGED idemVars
  <2>1. UNCHANGED <<rows, clock, pc, token, now>>
    BY <1>6 DEF Finished, idemVars, storeVars, slotVars
  <2> QED
    BY <2>1 DEF LInv, TokensDistinct, FreshUntilAcquired, NowIsPast, LeaseRuns,
                Active, Owning, Owns, Row
<1> QED
  BY <1>1, <1>2, <1>3, <1>4, <1>5, <1>6, SendLease DEF Next

LEMMA OwnershipLostStep == IInv /\ LInv /\ [Next]_idemVars => OwnershipLostIsLate
<1> SUFFICES ASSUME IInv, LInv, [Next]_idemVars, NEW s \in Slots,
                    answer[s] # "ownership_lost", answer'[s] = "ownership_lost"
             PROVE  now[s] + LeaseDuration <= clock
  BY DEF OwnershipLostIsLate
<1>1. LoseOwnership(s)
  <2>1. PICK q \in Slots : Send(q) \/ AcquireStep(q) \/ ProviderStep(q)
                             \/ CompleteStep(q) \/ FaultStep(q)
    BY DEF Next, Tick, Finished, idemVars, slotVars
  <2>2. CASE Send(q) \/ ProviderStep(q)
    BY <2>2 DEF Send, ProviderStep, ProviderApproves, ProviderDeclines, IInv, TypeOK
  <2>3. CASE AcquireStep(q)
    BY <2>3 DEF AcquireStep, Acquire, Replay, Refuse, Finish, IInv, TypeOK
  <2>4. CASE FaultStep(q)
    BY <2>4 DEF FaultStep, ProviderFails, AbortOnCollision, TransientFailure, TransactionsLeft, Crash,
                Finish, IInv, TypeOK
  <2>5. CASE CompleteStep(q)
    <3>1. CASE LoseOwnership(q)
      BY <3>1 DEF LoseOwnership, Finish, IInv, TypeOK
    <3>2. ASSUME NEW kind \in Kinds, Commit(q, kind)
          PROVE  FALSE
      <4>1. Finish(q, "replied") \/ Finish(q, "unavailable")
        BY <3>2 DEF Commit
      <4> QED
        BY <4>1 DEF Finish, IInv, TypeOK
    <3>3. ~LockOwnedRow(q) /\ \A code \in Problems : ~AbortOnConflict(q, code)
      BY DEF LockOwnedRow, AbortOnConflict
    <3> QED
      BY <2>5, <3>1, <3>2, <3>3
         DEF CompleteStep, CommitOperation, CommitProblem, Kinds, IInv, TypeOK
  <2> QED
    BY <2>1, <2>2, <2>3, <2>4, <2>5
<1> QED
  BY <1>1 DEF LoseOwnership, LInv, LeaseRuns, Owning

\* No owner is turned away before the lease it was granted is over.
THEOREM OwnersKeepLeases == Spec => LeaseIsKept
<1>1. Init => LInv
  BY LInvInit
<1>2. Spec => []LInv
  BY <1>1, LInvNext, Invariance, PTL DEF Spec
<1> QED
  BY <1>2, OwnershipLostStep, Invariance, PTL DEF Spec, LeaseIsKept

-----------------------------------------------------------------------------
(***************************************************************************)
(* The refinement.                                                         *)
(***************************************************************************)
LEMMA OnceInit == Init => Once!Init
BY DEF Init, Once!Init, AbsentRow

LEMMA OnceNext == IInv /\ [Next]_idemVars => [Once!Next]_(Once!vars)
<1> SUFFICES ASSUME IInv, [Next]_idemVars
             PROVE  [Once!Next]_(Once!vars)
  OBVIOUS
<1> USE CommandAssumption DEF IInv
<1>1. ASSUME UNCHANGED <<rows, applied, heard>>
      PROVE  UNCHANGED Once!vars
  BY <1>1 DEF Once!vars
<1>2. ASSUME NEW s \in Slots, Acquire(s)
      PROVE  UNCHANGED Once!vars
  <2>1. rows[KeyOf[s]].state # "completed"
    BY <1>2 DEF Acquire, Acquirable, TakeoverDue, SameRequest, Row
  <2>2. \A k \in Keys : rows'[k].response = rows[k].response
    BY <1>2, <2>1 DEF Acquire, AcquiredRow, InProgressRow, RowShape, TypeOK
  <2> QED
    BY <1>2, <2>2 DEF Acquire, Once!vars
<1>3. ASSUME NEW s \in Slots, Replay(s)
      PROVE  Once!Next
  <2>1. rows[KeyOf[s]].response # NoResponse
    BY <1>3, NoResponseAssumption DEF Replay, Replayable, RowShape, Row
  <2>2. Once!Tell(KeyOf[s])
    BY <1>3, <2>1 DEF Replay, Once!Tell, Row, TypeOK
  <2> QED
    BY <2>2 DEF Once!Next
<1>4. ASSUME NEW s \in Slots, NEW kind \in Kinds, Commit(s, kind)
      PROVE  Once!Next
  <2> DEFINE k == KeyOf[s]
             r == [kind |-> kind, id |-> token[s]]
  <2>1. /\ k \in Keys /\ r \in Responses
        /\ rows[k].response = NoResponse
    BY <1>4 DEF Commit, WorkerOwns, Owns, Row, RowShape, TokenHeld, Active, Responses, Kinds
  <2>2. [j \in Keys |-> rows'[j].response]
          = [[j \in Keys |-> rows[j].response] EXCEPT ![k] = r]
    BY <1>4, <2>1 DEF Commit, CompletedRow, TypeOK
  <2>3. applied' = [applied EXCEPT ![k] = IF r \in {x \in Responses : x.kind = "ok"}
                                          THEN @ + 1 ELSE @]
    BY <1>4, <2>1 DEF Commit
  <2>4. Once!Decide(k, r)
    BY <2>1, <2>2, <2>3 DEF Once!Decide
  <2>5. heard' = heard \/ heard' = [heard EXCEPT ![k] = @ \cup {r}]
    BY <1>4 DEF Commit
  <2>6. Once!DecideAndTell(k, r) \/ Once!DecideSilently(k, r)
    BY <2>4, <2>5 DEF Once!DecideAndTell, Once!DecideSilently
  <2> QED
    BY <2>1, <2>6 DEF Once!Next
<1>5. ASSUME NEW s \in Slots,
             \/ Send(s) \/ ProviderStep(s) \/ FaultStep(s)
             \/ LockOwnedRow(s) \/ LoseOwnership(s)
             \/ \E a \in Answers : Refuse(s, a)
             \/ \E code \in Problems : AbortOnConflict(s, code)
      PROVE  UNCHANGED <<rows, applied, heard>>
  BY <1>5 DEF Send, ProviderStep, ProviderApproves, ProviderDeclines, FaultStep,
              ProviderFails, AbortOnCollision, TransientFailure, Crash, LockOwnedRow,
              LoseOwnership, Refuse, AbortOnConflict, storeVars
<1>6. CASE Tick \/ Finished \/ UNCHANGED idemVars
  BY <1>1, <1>6 DEF Tick, Finished, idemVars, storeVars
<1> QED
  BY <1>1, <1>2, <1>3, <1>4, <1>5, <1>6
     DEF Next, AcquireStep, CompleteStep, CommitOperation, CommitProblem, Kinds, TypeOK

\* The protocol implements the promise: every step decides a key once, tells
\* a decision that was made, or changes neither.
THEOREM Implementation == Spec => ImplementsOnce
BY OnceInit, OnceNext, Invariance, PTL DEF Spec, ImplementsOnce, Once!Spec
=============================================================================
