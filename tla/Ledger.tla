-------------------------------- MODULE Ledger --------------------------------
(***************************************************************************)
(* The ledger module: provisioning a merchant's accounts, and posting a    *)
(* capture, a refund, a settlement or the reversal of an earlier           *)
(* transaction.  Every operation runs inside the caller's database         *)
(* transaction, so it is a function from the ledger's tables to a result   *)
(* and new tables; whatever it refuses leaves no trace, because the caller *)
(* rolls back.                                                             *)
(*                                                                         *)
(* An identifier, a reference or a request id is well formed when it is in *)
(* its constant set.  A transaction of the tables is one with posted_at:   *)
(* createPosting sets it before it returns.                                *)
(***************************************************************************)
EXTENDS LedgerEntries

CONSTANTS
    Merchants, LedgerIds, References, RequestIds, Times,
    MaxSafe,    \* MAX_LEDGER_AMOUNT and Number.MAX_SAFE_INTEGER
    NoReversal

Currencies == {"ETB", "USD"}

NormalSide(code) == IF code = "provider_clearing" THEN "debit" ELSE "credit"

\* A set of tables: accounts, and transactions with their entries.
EmptyLedger == [accounts |-> {}, transactions |-> {}]

AccountRows ==
    [merchant : Merchants, code : AccountCodes, currency : Currencies, side : {"debit", "credit"}]

TransactionRows ==
    [publicId : LedgerIds, merchant : Merchants, type : {"capture", "refund", "settlement", "reversal"},
     reference : References, currency : Currencies, entries : Entries,
     reversalOf : LedgerIds \cup {NoReversal}]

LedgerTables == [accounts : SUBSET AccountRows, transactions : SUBSET TransactionRows]

Refused(db, error) == [result |-> error, db |-> db]

-----------------------------------------------------------------------------
\* Accounts.

ProvisionRecords(merchant) ==
    {[merchant |-> merchant, code |-> code, currency |-> currency, side |-> NormalSide(code)]
        : code \in AccountCodes, currency \in Currencies}

AccountsOf(db, merchant) == {a \in db.accounts : a.merchant = merchant}

\* The eight accounts, each on its normal side: what provisionAccounts and
\* createPosting ask of the rows they read.
Provisioned(db, merchant) == AccountsOf(db, merchant) = ProvisionRecords(merchant)

\* createMany with skipDuplicates: a row whose merchant, code and currency are
\* taken is left out.
WithMissing(db, merchant) ==
    db.accounts \cup
        {a \in ProvisionRecords(merchant) :
            ~\E b \in AccountsOf(db, merchant) : b.code = a.code /\ b.currency = a.currency}

provisionAccounts(db, merchant) ==
    LET filled == [db EXCEPT !.accounts = WithMissing(db, merchant)]
    IN  IF merchant \notin Merchants THEN Refused(db, "invalid_command")
        ELSE IF ~Provisioned(filled, merchant) THEN Refused(db, "accounts_not_provisioned")
        ELSE [result |-> "provisioned", db |-> filled]

-----------------------------------------------------------------------------
\* The service's checks of a command.

assertCommonCommand(c) ==
    /\ c.merchant \in Merchants
    /\ c.reference \in References
    /\ c.request \in RequestIds
    /\ c.occurredAt \in Times

assertMoneyCommand(c) ==
    /\ assertCommonCommand(c)
    /\ c.currency \in Currencies
    /\ c.amount \in 1..MaxSafe

assertSettlementCommand(c) ==
    /\ assertCommonCommand(c)
    /\ c.currency \in Currencies
    /\ c.gross \in 1..MaxSafe
    /\ c.fee >= 0
    /\ c.net >= 1
    /\ c.gross = c.fee + c.net

-----------------------------------------------------------------------------
\* createPosting: the unique keys in the order of their indexes, then the
\* entries and posted_at.
createPosting(db, t) ==
    IF ~Provisioned(db, t.merchant) THEN Refused(db, "accounts_not_provisioned")
    ELSE IF \E u \in db.transactions : u.publicId = t.publicId
      THEN Refused(db, "identifier_collision")
    ELSE IF \E u \in db.transactions :
              u.merchant = t.merchant /\ u.type = t.type /\ u.reference = t.reference
      THEN Refused(db, "business_reference_conflict")
    ELSE IF t.reversalOf # NoReversal /\ \E u \in db.transactions : u.reversalOf = t.reversalOf
      THEN Refused(db, "reversal_conflict")
    ELSE [result |-> "posted", db |-> [db EXCEPT !.transactions = @ \cup {t}]]

\* The row of a command under a fresh public id.
Posting(c, type, currency, entries, id, reversalOf) ==
    [publicId |-> id, merchant |-> c.merchant, type |-> type, reference |-> c.reference,
     currency |-> currency, entries |-> entries, reversalOf |-> reversalOf]

\* post: captures and refunds.
post(db, c, type, id) ==
    IF ~assertMoneyCommand(c) THEN Refused(db, "invalid_command")
    ELSE createPosting(db, Posting(c, type, c.currency,
            IF type = "capture" THEN CaptureEntries(c.amount) ELSE RefundEntries(c.amount),
            id, NoReversal))

postSettlement(db, c, id) ==
    IF ~assertSettlementCommand(c) THEN Refused(db, "invalid_command")
    ELSE createPosting(db, Posting(c, "settlement", c.currency,
            SettlementEntries(c.gross, c.fee, c.net), id, NoReversal))

\* findPostedForReversal, under a row lock: the merchant's own transaction.
findPostedForReversal(db, merchant, id) ==
    {t \in db.transactions : t.merchant = merchant /\ t.publicId = id}

reverse(db, c, id) ==
    LET found == findPostedForReversal(db, c.merchant, c.original)
        original == CHOOSE t \in found : TRUE
    IN  IF ~(assertCommonCommand(c) /\ c.original \in LedgerIds)
          THEN Refused(db, "invalid_command")
        ELSE IF found = {} THEN Refused(db, "transaction_not_found")
        ELSE IF original.type = "reversal" THEN Refused(db, "reversal_conflict")
        ELSE createPosting(db, Posting(c, "reversal", original.currency,
                ReversalEntries(original.entries), id, c.original))

-----------------------------------------------------------------------------
\* What the database demands when the caller commits.

UniqueKeys(db) ==
    \A t, u \in db.transactions : t # u =>
        /\ t.publicId # u.publicId
        /\ <<t.merchant, t.type, t.reference>> # <<u.merchant, u.type, u.reference>>
        /\ t.reversalOf # NoReversal => t.reversalOf # u.reversalOf

AmountsInRange(entries) == \A a \in AccountCodes : entries[a] \in -MaxSafe..MaxSafe

\* settleflow_assert_ledger_transaction.
ReversalIsExact(db, t) ==
    t.type = "reversal" =>
        \E o \in db.transactions :
            /\ o.publicId = t.reversalOf
            /\ o.type # "reversal"
            /\ o.merchant = t.merchant
            /\ o.currency = t.currency
            /\ \A a \in AccountCodes : t.entries[a] = -o.entries[a]

CommitAccepts(db) ==
    \A t \in db.transactions :
        /\ Provisioned(db, t.merchant)
        /\ Postable(t.entries)
        /\ AmountsInRange(t.entries)
        /\ ReversalIsExact(db, t)
        /\ (t.type = "reversal") = (t.reversalOf # NoReversal)
=============================================================================
