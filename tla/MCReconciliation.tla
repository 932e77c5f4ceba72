-------------------------- MODULE MCReconciliation --------------------------
(* Two workers, three concurrent requests (two upload one file for two     *)
(* periods) and two later ones, five platform facts, one of them late.     *)
EXTENDS Reconciliation, TLC

CONSTANTS r1, r2, r3, r4, r5, fMixed, fHeavy, fLarge

MCFileOf == r1 :> fMixed @@ r2 :> fMixed @@ r3 :> fHeavy @@ r4 :> fLarge @@ r5 :> fMixed
MCAfter == [r \in {r1, r2, r3} |-> {}] @@ r4 :> {r1, r2, r3} @@ r5 :> {r4}
Period(from, to) == [from |-> from, to |-> to]
MCPeriodOf == r1 :> Period(0, 3) @@ r2 :> Period(0, 2) @@ r3 :> Period(0, 3)
              @@ r4 :> Period(1, 3) @@ r5 :> Period(0, 3)

Row(txn, event, providerRef, externalRef, currency, gross, fee, status, at) ==
    [txn |-> txn, event |-> event, providerRef |-> providerRef, externalRef |-> externalRef,
     currency |-> currency, gross |-> gross, fee |-> fee, net |-> gross - fee,
     status |-> status, merchant |-> Merchant, at |-> at]

Fact(event, ref, batch, externalRef, currency, gross, fee, at) ==
    [event |-> event, ref |-> ref, batch |-> batch, externalRef |-> externalRef,
     currency |-> currency, gross |-> gross, fee |-> fee, at |-> at]

MCFacts == <<
    Fact("capture", "pay1", NoRef, "order1", "ETB", 5, 0, 0),
    Fact("capture", "pay2", NoRef, NoRef, "USD", 3, 0, 0),
    Fact("adjustment", "adj1", "stb1", "adj1", "ETB", 1, 0, 1),
    Fact("adjustment", "adj2", "stb1", "adj2", "ETB", 2, 0, 1),
    Fact("settlement", "stb1", NoRef, "stb1", "ETB", 5, 1, 2)>>
MCInitially == {MCFacts[n] : n \in 1..4}

MCContents ==
    fMixed :> [wellFormed |-> TRUE, tooLarge |-> FALSE, rows |-> <<
        Row("t1", "capture", <<"capture", "pay1">>, NoRef, "ETB", 5, 0, "succeeded", 0),
        Row("t1", "capture", <<"capture", "pay1">>, NoRef, "ETB", 5, 0, "succeeded", 0),
        Row("t2", "capture", <<"capture", "lost">>, "order1", "ETB", 4, 0, "succeeded", 0),
        Row("t3", "adjustment", <<"settlement", "stb1">>, "adj2", "ETB", 2, 0, "failed", 1),
        Row("t4", "settlement", <<"settlement", "stb1">>, NoRef, "USD", 5, 1, "succeeded", 2)>>]
 @@ fHeavy :> [wellFormed |-> TRUE, tooLarge |-> FALSE, rows |-> <<
        Row("t5", "capture", <<"capture", "pay2">>, NoRef, "USD", 3, 0, "succeeded", 0)>>]
 @@ fLarge :> [wellFormed |-> TRUE, tooLarge |-> FALSE, rows |-> <<
        Row("t6", "adjustment", <<"settlement", "stb1">>, "adj1", "ETB", 20, 0, "succeeded", 1),
        Row("t7", "adjustment", <<"settlement", "stb1">>, "adj3", "ETB", 1, 0, "succeeded", 2)>>]
=============================================================================
