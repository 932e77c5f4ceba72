---------------------------- MODULE MCSettlements ----------------------------
\* A merchant with one or two payments, settled under a fee of one unit.
EXTENDS Settlements, TLC

CONSTANTS p1, p2, h1, h2, r1, r2

Symmetry == Permutations({p1, p2}) \cup Permutations({h1, h2}) \cup Permutations({r1, r2})

Busy == {h \in Handlers : handler[h] # Idle} \cup {r \in Runs : run[r].at # "idle"}

\* Bound: with one payment captured every handler and run may be at work;
\* with both, one at a time, on payments captured in full of which one is
\* never refunded.
OneOrInTurn ==
    \/ \E p \in Payments : captured[p] = 0
    \/ /\ Cardinality(Busy) <= 1
       /\ \A p \in Payments : captured[p] = MaxAmount
       /\ \E p \in Payments : refunded[p] = 0

-----------------------------------------------------------------------------
\* The ledger module, on which the settlement runs post: every set of tables
\* that up to four operations reach, refused ones included.
L == INSTANCE Ledger WITH
        Merchants <- {"m1", "m2"}, LedgerIds <- {"l1", "l2", "l3"}, References <- {"b1", "b2"},
        RequestIds <- {"r"}, Times <- {1}, MaxSafe <- 3, NoReversal <- "none"

MCMoney ==
    [merchant : {"m1"}, reference : {"b1", "b2"}, request : {"r"}, occurredAt : {1},
     currency : {"ETB"}, amount : {2, 4}]
MCSettled ==
    [merchant : {"m1"}, reference : {"b1"}, request : {"r"}, occurredAt : {1},
     currency : {"ETB"}, gross : {3}, fee : {0, 1, 3}, net : {0, 2, 3}]
MCReversals ==
    [merchant : {"m1", "m2"}, reference : {"b1", "b2"}, request : {"r"}, occurredAt : {1},
     original : {"l1", "l2", "l3"}]

MCOutcomes(db) ==
    {L!provisionAccounts(db, m) : m \in {"m1", "none"}}
    \cup {L!post(db, c, type, id) : c \in MCMoney, type \in {"capture", "refund"}, id \in {"l1", "l2"}}
    \cup {L!postSettlement(db, c, id) : c \in MCSettled, id \in {"l1", "l2"}}
    \cup {L!reverse(db, c, id) : c \in MCReversals, id \in {"l2", "l3"}}

MCAfter(ledgers) == ledgers \cup UNION {{o.db : o \in MCOutcomes(db)} : db \in ledgers}
MCLedgers == MCAfter(MCAfter(MCAfter(MCAfter({L!EmptyLedger}))))

\* The database accepts every set of tables, and every result occurs.
ASSUME LedgersCommit ==
    /\ \A db \in MCLedgers :
          db \in L!LedgerTables /\ L!UniqueKeys(db) /\ L!CommitAccepts(db)
    /\ {"provisioned", "posted", "invalid_command", "accounts_not_provisioned",
        "identifier_collision", "business_reference_conflict", "reversal_conflict",
        "transaction_not_found"}
          = UNION {{o.result : o \in MCOutcomes(db)} : db \in MCAfter(MCAfter(MCAfter({L!EmptyLedger})))}
=============================================================================
