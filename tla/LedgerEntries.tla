---------------------------- MODULE LedgerEntries ----------------------------
(***************************************************************************)
(* The entries of one ledger transaction.  A merchant has four accounts in *)
(* each currency, and a transaction is written against the accounts of one *)
(* currency.  Its entries are a function from account codes to signed      *)
(* amounts: a debit is positive, a credit negative, and an account without *)
(* an entry has zero.                                                      *)
(***************************************************************************)
EXTENDS Integers, FiniteSets

AccountCodes == {"provider_clearing", "merchant_payable", "fee_revenue", "settlement_clearing"}

Entries == [AccountCodes -> Int]

NoEntries == [a \in AccountCodes |-> 0]

CaptureEntries(amount) ==
    [NoEntries EXCEPT !["provider_clearing"] = amount,
                      !["merchant_payable"] = -amount]

\* Mutant: the sides of a capture.
RefundEntriesSwapped(amount) == CaptureEntries(amount)

RefundEntries(amount) ==
    [NoEntries EXCEPT !["merchant_payable"] = amount,
                      !["provider_clearing"] = -amount]

\* The service refuses a gross that is not fee plus net; a zero fee leaves
\* fee_revenue without an entry.
SettlementEntries(gross, fee, net) ==
    [NoEntries EXCEPT !["merchant_payable"] = gross,
                      !["fee_revenue"] = -fee,
                      !["settlement_clearing"] = -net]

\* Every entry changes side.
ReversalEntries(entries) == [a \in AccountCodes |-> -entries[a]]

-----------------------------------------------------------------------------
\* Debits minus credits, and the number of entries.
Balance(entries) ==
    entries["provider_clearing"] + entries["merchant_payable"]
    + entries["fee_revenue"] + entries["settlement_clearing"]

EntryAccounts(entries) == {a \in AccountCodes : entries[a] # 0}

\* INV-02 and INV-03: what the deferred constraint triggers demand of a
\* transaction when it commits.
Postable(entries) ==
    Balance(entries) = 0 /\ Cardinality(EntryAccounts(entries)) >= 2
=============================================================================
