------------------------ MODULE LedgerEntries_proofs ------------------------
(***************************************************************************)
(* The entries that the ledger module builds can be posted, whatever the   *)
(* amounts are; and the laws of sums over finite sets, which what is said  *)
(* of many entries rests on.                                               *)
(***************************************************************************)
EXTENDS LedgerEntries, FiniteSetTheorems, TLAPS

\* Entries on two different accounts are at least two entries.
LEMMA TwoEntries ==
    ASSUME NEW e \in Entries, NEW a \in AccountCodes, NEW b \in AccountCodes,
           a # b, e[a] # 0, e[b] # 0
    PROVE  Cardinality(EntryAccounts(e)) >= 2
<1>1. IsFiniteSet(AccountCodes)
  <2>1. AccountCodes = {"provider_clearing"} \cup {"merchant_payable"}
                       \cup {"fee_revenue"} \cup {"settlement_clearing"}
    BY DEF AccountCodes
  <2> QED
    BY <2>1, FS_Singleton, FS_Union
<1>2. {a, b} \subseteq EntryAccounts(e) /\ EntryAccounts(e) \subseteq AccountCodes
  BY DEF EntryAccounts
<1>3. IsFiniteSet(EntryAccounts(e))
  BY <1>1, <1>2, FS_Subset
<1>4. IsFiniteSet({a, b}) /\ Cardinality({a, b}) = 2
  <2>1. IsFiniteSet({a}) /\ Cardinality({a}) = 1
    BY FS_Singleton
  <2>2. IsFiniteSet({a} \cup {b}) /\ Cardinality({a} \cup {b}) = Cardinality({a}) + 1
    BY <2>1, FS_AddElement
  <2>3. {a, b} = {a} \cup {b}
    OBVIOUS
  <2> QED
    BY <2>1, <2>2, <2>3
<1>5. Cardinality({a, b}) <= Cardinality(EntryAccounts(e))
  BY <1>2, <1>3, FS_Subset
<1>6. Cardinality(EntryAccounts(e)) \in Nat
  BY <1>3, FS_CardinalityType
<1> QED
  BY <1>4, <1>5, <1>6

\* INV-02 and INV-03 for captures.
THEOREM CapturesArePostable ==
    \A amount \in Nat \ {0} :
        CaptureEntries(amount) \in Entries /\ Postable(CaptureEntries(amount))
<1> SUFFICES ASSUME NEW amount \in Nat \ {0}
             PROVE  CaptureEntries(amount) \in Entries /\ Postable(CaptureEntries(amount))
  OBVIOUS
<1> DEFINE e == CaptureEntries(amount)
<1>1. e \in Entries
  BY DEF CaptureEntries, NoEntries, Entries, AccountCodes
<1>2. /\ e["provider_clearing"] = amount /\ e["merchant_payable"] = -amount
      /\ e["fee_revenue"] = 0 /\ e["settlement_clearing"] = 0
  <2>1. e["provider_clearing"] = amount
    BY DEF CaptureEntries, NoEntries, AccountCodes
  <2>2. e["merchant_payable"] = -amount
    BY DEF CaptureEntries, NoEntries, AccountCodes
  <2>3. e["fee_revenue"] = 0
    BY DEF CaptureEntries, NoEntries, AccountCodes
  <2>4. e["settlement_clearing"] = 0
    BY DEF CaptureEntries, NoEntries, AccountCodes
  <2> HIDE DEF e
  <2> QED
    BY <2>1, <2>2, <2>3, <2>4
<1>3. Balance(e) = 0
  BY <1>2 DEF Balance
<1>4. Cardinality(EntryAccounts(e)) >= 2
  <2>1. {"provider_clearing", "merchant_payable"} \subseteq AccountCodes
    BY DEF AccountCodes
  <2> HIDE DEF e
  <2> QED
    BY <1>1, <1>2, <2>1, TwoEntries
<1> QED
  BY <1>1, <1>3, <1>4 DEF Postable

\* INV-02 and INV-03 for refunds.
THEOREM RefundsArePostable ==
    \A amount \in Nat \ {0} :
        RefundEntries(amount) \in Entries /\ Postable(RefundEntries(amount))
<1> SUFFICES ASSUME NEW amount \in Nat \ {0}
             PROVE  RefundEntries(amount) \in Entries /\ Postable(RefundEntries(amount))
  OBVIOUS
<1> DEFINE e == RefundEntries(amount)
<1>1. e \in Entries
  BY DEF RefundEntries, NoEntries, Entries, AccountCodes
<1>2. /\ e["provider_clearing"] = -amount /\ e["merchant_payable"] = amount
      /\ e["fee_revenue"] = 0 /\ e["settlement_clearing"] = 0
  <2>1. e["provider_clearing"] = -amount
    BY DEF RefundEntries, NoEntries, AccountCodes
  <2>2. e["merchant_payable"] = amount
    BY DEF RefundEntries, NoEntries, AccountCodes
  <2>3. e["fee_revenue"] = 0
    BY DEF RefundEntries, NoEntries, AccountCodes
  <2>4. e["settlement_clearing"] = 0
    BY DEF RefundEntries, NoEntries, AccountCodes
  <2> HIDE DEF e
  <2> QED
    BY <2>1, <2>2, <2>3, <2>4
<1>3. Balance(e) = 0
  BY <1>2 DEF Balance
<1>4. Cardinality(EntryAccounts(e)) >= 2
  <2>1. {"provider_clearing", "merchant_payable"} \subseteq AccountCodes
    BY DEF AccountCodes
  <2> HIDE DEF e
  <2> QED
    BY <1>1, <1>2, <2>1, TwoEntries
<1> QED
  BY <1>1, <1>3, <1>4 DEF Postable

\* INV-02 and INV-03 for settlements, with and without a fee: the service's
\* precondition on gross, fee and net is what makes them balance.
THEOREM SettlementsArePostable ==
    \A gross, fee, net \in Nat :
        gross = fee + net /\ net > 0 =>
            /\ SettlementEntries(gross, fee, net) \in Entries
            /\ Postable(SettlementEntries(gross, fee, net))
<1> SUFFICES ASSUME NEW gross \in Nat, NEW fee \in Nat, NEW net \in Nat,
                    gross = fee + net, net > 0
             PROVE  /\ SettlementEntries(gross, fee, net) \in Entries
                    /\ Postable(SettlementEntries(gross, fee, net))
  OBVIOUS
<1> DEFINE e == SettlementEntries(gross, fee, net)
<1>1. e \in Entries
  BY DEF SettlementEntries, NoEntries, Entries, AccountCodes
<1>2. /\ e["provider_clearing"] = 0 /\ e["merchant_payable"] = gross
      /\ e["fee_revenue"] = -fee /\ e["settlement_clearing"] = -net
  <2>1. e["provider_clearing"] = 0
    BY DEF SettlementEntries, NoEntries, AccountCodes
  <2>2. e["merchant_payable"] = gross
    BY DEF SettlementEntries, NoEntries, AccountCodes
  <2>3. e["fee_revenue"] = -fee
    BY DEF SettlementEntries, NoEntries, AccountCodes
  <2>4. e["settlement_clearing"] = -net
    BY DEF SettlementEntries, NoEntries, AccountCodes
  <2> HIDE DEF e
  <2> QED
    BY <2>1, <2>2, <2>3, <2>4
<1>3. Balance(e) = 0
  BY <1>2 DEF Balance
<1>4. Cardinality(EntryAccounts(e)) >= 2
  <2>1. {"merchant_payable", "settlement_clearing"} \subseteq AccountCodes
    BY DEF AccountCodes
  <2>2. e["merchant_payable"] # 0 /\ e["settlement_clearing"] # 0
    BY <1>2
  <2> HIDE DEF e
  <2> QED
    BY <1>1, <2>1, <2>2, TwoEntries
<1> QED
  BY <1>1, <1>3, <1>4 DEF Postable

\* INV-06: the reversal of a transaction that could be posted can be posted,
\* and together they leave every account where it was.
THEOREM ReversalsUndo ==
    \A e \in Entries : Postable(e) =>
        /\ ReversalEntries(e) \in Entries
        /\ Postable(ReversalEntries(e))
        /\ \A a \in AccountCodes : e[a] + ReversalEntries(e)[a] = 0
<1> SUFFICES ASSUME NEW e \in Entries, Postable(e)
             PROVE  /\ ReversalEntries(e) \in Entries
                    /\ Postable(ReversalEntries(e))
                    /\ \A a \in AccountCodes : e[a] + ReversalEntries(e)[a] = 0
  OBVIOUS
<1>1. ReversalEntries(e) \in Entries /\ \A a \in AccountCodes : ReversalEntries(e)[a] = -e[a]
  BY DEF ReversalEntries, Entries
<1>2. \A a \in AccountCodes : e[a] \in Int
  BY DEF Entries
<1>3. Balance(ReversalEntries(e)) = 0
  BY <1>1, <1>2 DEF Postable, Balance, AccountCodes
<1>4. EntryAccounts(ReversalEntries(e)) = EntryAccounts(e)
  BY <1>1, <1>2 DEF EntryAccounts
<1> QED
  BY <1>1, <1>2, <1>3, <1>4 DEF Postable

-----------------------------------------------------------------------------
(***************************************************************************)
(* Sums over finite sets: what the community modules' sum of a function    *)
(* does when its domain grows, shrinks or is split.                        *)
(***************************************************************************)

\* The order of the natural numbers has a least element in every set of them.
LEMMA NatWellFounded == IsWellFoundedOn({ss \in Nat \X Nat : ss[1] < ss[2]}, Nat)
  BY NatLessThanWellFounded DEF OpToRel

\* A set of natural numbers that has 0 and, with a number, the next one.
LEMMA SetInduction ==
    ASSUME NEW P, P \subseteq Nat, 0 \in P, \A n \in P : n + 1 \in P
    PROVE  P = Nat
<1> SUFFICES ASSUME Nat \ P # {} PROVE FALSE
  OBVIOUS
<1> DEFINE R == {ss \in Nat \X Nat : ss[1] < ss[2]}
<1>1. PICK x \in Nat \ P : \A y \in Nat \ P : ~(<<y, x>> \in R)
  BY WFMin, NatWellFounded
<1>2. x # 0
  OBVIOUS
<1>3. x - 1 \in Nat /\ x - 1 \notin P
  BY <1>2
<1>4. <<x - 1, x>> \in R
  BY <1>3
<1> QED
  BY <1>1, <1>3, <1>4

\* h[s] is the sum of f over s for every subset s of S, added up in the order
\* in which the community modules choose the elements.
Chosen(s) == CHOOSE x \in s : TRUE

AddsUp(h, f, S) ==
    \A s \in SUBSET S :
        h[s] = IF s = {} THEN 0 ELSE f[Chosen(s)] + h[s \ {Chosen(s)}]

LEMMA ChosenIsElement == \A s : s # {} => Chosen(s) \in s
  BY DEF Chosen

LEMMA Smaller ==
    ASSUME NEW S, IsFiniteSet(S), NEW x \in S
    PROVE  /\ IsFiniteSet(S \ {x})
           /\ Cardinality(S) \in Nat /\ Cardinality(S \ {x}) \in Nat
           /\ Cardinality(S) = Cardinality(S \ {x}) + 1
  BY FS_RemoveElement, FS_CardinalityType, FS_Subset

LEMMA SumsExist ==
    ASSUME NEW S, IsFiniteSet(S), NEW f, \A x \in S : f[x] \in Int
    PROVE  \E h \in [SUBSET S -> Int] : AddsUp(h, f, S)
<1> DEFINE Rec(h, s) == IF s = {} THEN 0 ELSE f[Chosen(s)] + h[s \ {Chosen(s)}]
           Upto(n) == {s \in SUBSET S : Cardinality(s) <= n}
           P == {n \in Nat : \E h \in [SUBSET S -> Int] : \A s \in Upto(n) : h[s] = Rec(h, s)}
<1>0. \A s \in SUBSET S : IsFiniteSet(s) /\ Cardinality(s) \in Nat
  BY FS_Subset, FS_CardinalityType
<1>1. 0 \in P
  <2>1. \A s \in Upto(0) : s = {}
    BY <1>0, FS_EmptySet
  <2>2. [s \in SUBSET S |-> 0] \in [SUBSET S -> Int]
    OBVIOUS
  <2> QED
    BY <2>1, <2>2
<1>2. ASSUME NEW n \in P PROVE n + 1 \in P
  <2>1. PICK h \in [SUBSET S -> Int] : \A s \in Upto(n) : h[s] = Rec(h, s)
    OBVIOUS
  <2> DEFINE g == [s \in SUBSET S |-> IF Cardinality(s) <= n THEN h[s] ELSE Rec(h, s)]
  <2>2. ASSUME NEW s \in SUBSET S PROVE Rec(h, s) \in Int
    <3>1. s # {} => Chosen(s) \in S /\ s \ {Chosen(s)} \in SUBSET S
      BY ChosenIsElement
    <3> QED
      BY <3>1
  <2>3. g \in [SUBSET S -> Int]
    BY <2>2
  <2>4. ASSUME NEW s \in Upto(n + 1) PROVE g[s] = Rec(g, s)
    <3>1. CASE s = {}
      BY <3>1, <2>1, FS_EmptySet
    <3>2. CASE s # {}
      <4> DEFINE x == Chosen(s)
      <4>1. x \in s
        BY <3>2, ChosenIsElement
      <4>2. s \ {x} \in SUBSET S /\ Cardinality(s \ {x}) <= n
        BY <4>1, <1>0, Smaller
      <4>3. g[s \ {x}] = h[s \ {x}]
        BY <4>2
      <4>4. g[s] = Rec(h, s)
        BY <2>1
      <4> QED
        BY <4>3, <4>4, <3>2
    <3> QED
      BY <3>1, <3>2
  <2>5. n + 1 \in Nat
    BY DEF P
  <2> HIDE DEF Rec, Upto, g
  <2> QED
    BY <2>3, <2>4, <2>5
<1> HIDE DEF P
<1>3. P = Nat
  <2>1. P \subseteq Nat
    BY DEF P
  <2> QED
    BY <1>1, <1>2, <2>1, SetInduction
<1>4. Cardinality(S) \in P
  BY <1>3, <1>0
<1>5. PICK h \in [SUBSET S -> Int] : \A s \in Upto(Cardinality(S)) : h[s] = Rec(h, s)
  BY <1>4 DEF P
<1>6. \A s \in SUBSET S : s \in Upto(Cardinality(S))
  BY FS_Subset
<1> QED
  BY <1>5, <1>6 DEF AddsUp

\* Functions that agree on S have the same sums on it.
LEMMA AddingUpAgrees ==
    ASSUME NEW S, IsFiniteSet(S), NEW f, NEW g, \A x \in S : f[x] = g[x],
           NEW h, AddsUp(h, f, S), NEW k, AddsUp(k, g, S)
    PROVE  h[S] = k[S]
<1> DEFINE P == {n \in Nat : \A s \in SUBSET S : Cardinality(s) <= n => h[s] = k[s]}
<1>0. \A s \in SUBSET S : IsFiniteSet(s) /\ Cardinality(s) \in Nat
  BY FS_Subset, FS_CardinalityType
<1>1. 0 \in P
  <2>1. \A s \in SUBSET S : Cardinality(s) <= 0 => s = {}
    BY <1>0, FS_EmptySet
  <2> QED
    BY <2>1 DEF AddsUp
<1>2. ASSUME NEW n \in P PROVE n + 1 \in P
  <2>0. h[{}] = k[{}] /\ n + 1 \in Nat
    BY DEF AddsUp
  <2> SUFFICES ASSUME NEW s \in SUBSET S, Cardinality(s) <= n + 1, s # {}
               PROVE  h[s] = k[s]
    BY <2>0
  <2> DEFINE x == Chosen(s)
  <2>1. x \in s
    BY ChosenIsElement
  <2>2. s \ {x} \in SUBSET S /\ Cardinality(s \ {x}) <= n
    BY <2>1, <1>0, Smaller
  <2>3. h[s \ {x}] = k[s \ {x}]
    BY <2>2
  <2> QED
    BY <2>1, <2>3 DEF AddsUp
<1> HIDE DEF P
<1>3. P = Nat
  <2>1. P \subseteq Nat
    BY DEF P
  <2> QED
    BY <1>1, <1>2, <2>1, SetInduction
<1>4. Cardinality(S) \in P
  BY <1>3, <1>0
<1> QED
  BY <1>4, <1>0 DEF P

\* The community modules' sum is such a function at S.
LEMMA SumAddsUp ==
    ASSUME NEW S, IsFiniteSet(S), NEW f, \A x \in S : f[x] \in Int
    PROVE  \E h \in [SUBSET S -> Int] : AddsUp(h, f, S) /\ SumFunctionOnSet(f, S) = h[S]
<1> DEFINE iter[s \in SUBSET S] ==
              IF s = {} THEN 0
              ELSE LET x == CHOOSE x \in s : TRUE IN f[x] + iter[s \ {x}]
           Rec(g) == [s \in SUBSET S |-> IF s = {} THEN 0
                      ELSE LET x == CHOOSE x \in s : TRUE IN f[x] + g[s \ {x}]]
<1>1. SumFunctionOnSet(f, S) = iter[S]
  BY DEF SumFunctionOnSet, FoldFunctionOnSet, MapThenFoldSet
<1>2. PICK h \in [SUBSET S -> Int] : AddsUp(h, f, S)
  BY SumsExist
<1>3. h = Rec(h)
  BY <1>2 DEF AddsUp, Chosen
<1>4. iter = CHOOSE g : g = Rec(g)
  OBVIOUS
<1> HIDE DEF iter, Rec
<1>5. iter = Rec(iter)
  BY <1>3, <1>4
<1>6. AddsUp(iter, f, S)
  BY <1>5 DEF AddsUp, Rec, Chosen
<1>7. iter[S] = h[S]
  BY <1>2, <1>6, AddingUpAgrees
<1> QED
  BY <1>1, <1>2, <1>7

\* The order in which elements are taken does not matter.
AnyOrder(h, f, S) == \A s \in SUBSET S : \A x \in s : h[s] = f[x] + h[s \ {x}]

LEMMA AddsUpInAnyOrder ==
    ASSUME NEW S, IsFiniteSet(S), NEW f, \A x \in S : f[x] \in Int,
           NEW h \in [SUBSET S -> Int], AddsUp(h, f, S)
    PROVE  AnyOrder(h, f, S)
<1> DEFINE P == {n \in Nat : \A s \in SUBSET S : Cardinality(s) <= n =>
                                \A x \in s : h[s] = f[x] + h[s \ {x}]}
<1>0. \A s \in SUBSET S : IsFiniteSet(s) /\ Cardinality(s) \in Nat
  BY FS_Subset, FS_CardinalityType
<1>1. 0 \in P
  <2>1. \A s \in SUBSET S : Cardinality(s) <= 0 => s = {}
    BY <1>0, FS_EmptySet
  <2> QED
    BY <2>1
<1>2. ASSUME NEW n \in P PROVE n + 1 \in P
  <2> SUFFICES ASSUME NEW s \in SUBSET S, Cardinality(s) <= n + 1, NEW x \in s
               PROVE  h[s] = f[x] + h[s \ {x}]
    OBVIOUS
  <2> DEFINE c == Chosen(s)
  <2>1. c \in s
    BY ChosenIsElement
  <2>2. h[s] = f[c] + h[s \ {c}]
    BY DEF AddsUp
  <2>3. CASE x = c
    BY <2>2, <2>3
  <2>4. CASE x # c
    <3>1. /\ s \ {c} \in SUBSET S /\ Cardinality(s \ {c}) <= n /\ x \in s \ {c}
          /\ s \ {x} \in SUBSET S /\ Cardinality(s \ {x}) <= n /\ c \in s \ {x}
      BY <2>1, <2>4, <1>0, Smaller
    <3>2. h[s \ {c}] = f[x] + h[(s \ {c}) \ {x}]
      BY <3>1
    <3>3. h[s \ {x}] = f[c] + h[(s \ {x}) \ {c}]
      BY <3>1
    <3>4. (s \ {c}) \ {x} = (s \ {x}) \ {c}
      OBVIOUS
    <3>5. f[c] \in Int /\ f[x] \in Int /\ h[(s \ {x}) \ {c}] \in Int
      BY <2>1
    <3> DEFINE rest == h[(s \ {x}) \ {c}]
    <3>6. h[s \ {c}] = f[x] + rest /\ h[s \ {x}] = f[c] + rest
      BY <3>2, <3>3, <3>4
    <3> HIDE DEF rest, c
    <3>7. h[s] = f[c] + (f[x] + rest)
      BY <2>2, <3>6
    <3>8. rest \in Int
      BY <3>5 DEF rest
    <3> QED
      BY <3>5, <3>6, <3>7, <3>8
  <2> QED
    BY <2>3, <2>4
<1> HIDE DEF P
<1>3. P = Nat
  <2>1. P \subseteq Nat
    BY DEF P
  <2> QED
    BY <1>1, <1>2, <2>1, SetInduction
<1>4. Cardinality(S) \in P
  BY <1>3, <1>0
<1>5. \A s \in SUBSET S : Cardinality(s) <= Cardinality(S)
  BY FS_Subset
<1> QED
  BY <1>4, <1>5 DEF P, AnyOrder

\* What proofs about sums rest on.
LEMMA SumOfNone == \A f : SumFunctionOnSet(f, {}) = 0
<1> TAKE f
<1>1. PICK h \in [SUBSET {} -> Int] : AddsUp(h, f, {}) /\ SumFunctionOnSet(f, {}) = h[{}]
  BY SumAddsUp, FS_EmptySet
<1> QED
  BY <1>1 DEF AddsUp

LEMMA SumIsInt ==
    ASSUME NEW S, IsFiniteSet(S), NEW f, \A x \in S : f[x] \in Int
    PROVE  SumFunctionOnSet(f, S) \in Int
<1>1. PICK h \in [SUBSET S -> Int] : AddsUp(h, f, S) /\ SumFunctionOnSet(f, S) = h[S]
  BY SumAddsUp
<1> QED
  BY <1>1

LEMMA SumOfEqual ==
    ASSUME NEW S, IsFiniteSet(S), NEW f, \A x \in S : f[x] \in Int,
           NEW g, \A x \in S : f[x] = g[x]
    PROVE  SumFunctionOnSet(f, S) = SumFunctionOnSet(g, S)
<1>1. PICK h \in [SUBSET S -> Int] : AddsUp(h, f, S) /\ SumFunctionOnSet(f, S) = h[S]
  BY SumAddsUp
<1>2. PICK k \in [SUBSET S -> Int] : AddsUp(k, g, S) /\ SumFunctionOnSet(g, S) = k[S]
  BY SumAddsUp
<1> QED
  BY <1>1, <1>2, AddingUpAgrees

LEMMA SumWithout ==
    ASSUME NEW S, IsFiniteSet(S), NEW f, \A x \in S : f[x] \in Int, NEW x \in S
    PROVE  SumFunctionOnSet(f, S) = f[x] + SumFunctionOnSet(f, S \ {x})
<1> DEFINE T == S \ {x}
<1>1. PICK h \in [SUBSET S -> Int] : AddsUp(h, f, S) /\ SumFunctionOnSet(f, S) = h[S]
  BY SumAddsUp
<1>2. AnyOrder(h, f, S)
  BY <1>1, AddsUpInAnyOrder
<1>3. IsFiniteSet(T)
  BY FS_RemoveElement
<1>4. PICK k \in [SUBSET T -> Int] : AddsUp(k, f, T) /\ SumFunctionOnSet(f, T) = k[T]
  BY <1>3, SumAddsUp
<1>5. AddsUp(h, f, T)
  BY <1>1 DEF AddsUp
<1>6. h[T] = k[T]
  BY <1>3, <1>4, <1>5, AddingUpAgrees
<1> QED
  BY <1>1, <1>2, <1>4, <1>6 DEF AnyOrder

LEMMA SumWith ==
    ASSUME NEW S, IsFiniteSet(S), NEW f, \A x \in S : f[x] \in Int, NEW x, x \notin S, f[x] \in Int
    PROVE  SumFunctionOnSet(f, S \cup {x}) = f[x] + SumFunctionOnSet(f, S)
<1>1. IsFiniteSet(S \cup {x}) /\ (S \cup {x}) \ {x} = S
  BY FS_AddElement
<1> HIDE DEF AddsUp
<1> QED
  BY <1>1, SumWithout

LEMMA SumOfZeros ==
    ASSUME NEW S, IsFiniteSet(S), NEW f, \A x \in S : f[x] = 0
    PROVE  SumFunctionOnSet(f, S) = 0
<1> DEFINE h == [s \in SUBSET S |-> 0]
<1>1. AddsUp(h, f, S)
  BY ChosenIsElement DEF AddsUp
<1>0. \A x \in S : f[x] \in Int
  OBVIOUS
<1>2. PICK k \in [SUBSET S -> Int] : AddsUp(k, f, S) /\ SumFunctionOnSet(f, S) = k[S]
  BY <1>0, SumAddsUp
<1>3. k[S] = h[S]
  BY <1>1, <1>2, AddingUpAgrees
<1> QED
  BY <1>2, <1>3

-----------------------------------------------------------------------------
\* The same for the sum of all values of a function.
LEMMA TotalOfNone == ASSUME NEW f, DOMAIN f = {} PROVE SumFunction(f) = 0
  BY SumOfNone DEF SumFunction

LEMMA TotalIsInt ==
    ASSUME NEW S, IsFiniteSet(S), NEW f \in [S -> Int]
    PROVE  SumFunction(f) \in Int
  BY SumIsInt DEF SumFunction

LEMMA TotalWith ==
    ASSUME NEW S, IsFiniteSet(S), NEW x, x \notin S,
           NEW f, DOMAIN f = S, \A y \in S : f[y] \in Int,
           NEW g, DOMAIN g = S \cup {x}, g[x] \in Int, \A y \in S : f[y] = g[y]
    PROVE  SumFunction(g) = g[x] + SumFunction(f)
<1>1. SumFunction(g) = SumFunctionOnSet(g, S \cup {x}) /\ SumFunction(f) = SumFunctionOnSet(f, S)
  BY DEF SumFunction
<1>2. SumFunctionOnSet(g, S \cup {x}) = g[x] + SumFunctionOnSet(g, S)
  BY SumWith
<1>3. SumFunctionOnSet(f, S) = SumFunctionOnSet(g, S)
  BY SumOfEqual
<1> QED
  BY <1>1, <1>2, <1>3

LEMMA TotalOfEqual ==
    ASSUME NEW S, IsFiniteSet(S), NEW f \in [S -> Int], NEW g,
           S = DOMAIN g, \A y \in S : f[y] = g[y]
    PROVE  SumFunction(f) = SumFunction(g)
  BY SumOfEqual DEF SumFunction

\* One value changes.
LEMMA SumChanged ==
    ASSUME NEW S, IsFiniteSet(S), NEW f, \A y \in S : f[y] \in Int,
           NEW g, NEW x \in S, g[x] \in Int, \A y \in S \ {x} : f[y] = g[y]
    PROVE  SumFunctionOnSet(g, S) = SumFunctionOnSet(f, S) + g[x] - f[x]
<1> DEFINE T == S \ {x}
<1>1. IsFiniteSet(T) /\ \A y \in T : f[y] \in Int
  BY FS_RemoveElement
<1>2. \A y \in S : g[y] \in Int
  OBVIOUS
<1>3. /\ SumFunctionOnSet(f, S) = f[x] + SumFunctionOnSet(f, T)
      /\ SumFunctionOnSet(g, S) = g[x] + SumFunctionOnSet(g, T)
  BY <1>2, SumWithout
<1>4. SumFunctionOnSet(f, T) = SumFunctionOnSet(g, T)
  BY <1>1, SumOfEqual
<1>5. SumFunctionOnSet(f, T) \in Int
  BY <1>1, SumIsInt
<1> QED
  BY <1>3, <1>4, <1>5
\* A set of subsets that has the empty one and, with a subset, every larger
\* one by an element, has the whole of a finite set.
LEMMA SubsetInduction ==
    ASSUME NEW S, IsFiniteSet(S), NEW P, {} \in P,
           \A s \in P : \A x \in S \ s : s \cup {x} \in P
    PROVE  S \in P
<1> DEFINE N == {n \in Nat : \A s \in SUBSET S : Cardinality(s) <= n => s \in P}
<1>0. \A s \in SUBSET S : IsFiniteSet(s) /\ Cardinality(s) \in Nat
  BY FS_Subset, FS_CardinalityType
<1>1. 0 \in N
  <2>1. \A s \in SUBSET S : Cardinality(s) <= 0 => s = {}
    BY <1>0, FS_EmptySet
  <2> QED
    BY <2>1
<1>2. ASSUME NEW n \in N PROVE n + 1 \in N
  <2> SUFFICES ASSUME NEW s \in SUBSET S, Cardinality(s) <= n + 1, s # {}
               PROVE  s \in P
    OBVIOUS
  <2>1. PICK x \in s : TRUE
    OBVIOUS
  <2>2. s \ {x} \in SUBSET S /\ Cardinality(s \ {x}) <= n
    BY <2>1, <1>0, Smaller
  <2>3. s \ {x} \in P /\ x \in S \ (s \ {x}) /\ (s \ {x}) \cup {x} = s
    BY <2>1, <2>2
  <2> QED
    BY <2>3
<1> HIDE DEF N
<1>3. N = Nat
  <2>1. N \subseteq Nat
    BY DEF N
  <2> QED
    BY <1>1, <1>2, <2>1, SetInduction
<1>4. Cardinality(S) \in N
  BY <1>3, <1>0
<1> QED
  BY <1>4, <1>0 DEF N

LEMMA FiniteImage ==
    ASSUME NEW S, IsFiniteSet(S), NEW name
    PROVE  IsFiniteSet({name[x] : x \in S})
<1> DEFINE Names(s) == {name[x] : x \in s}
           P == {s \in SUBSET S : IsFiniteSet(Names(s))}
<1>1. {} \in P
  <2>1. Names({}) = {}
    OBVIOUS
  <2> HIDE DEF Names
  <2> QED
    BY <2>1, FS_EmptySet
<1>2. ASSUME NEW s \in P, NEW x \in S \ s PROVE s \cup {x} \in P
  <2>1. Names(s \cup {x}) = Names(s) \cup {name[x]} /\ IsFiniteSet(Names(s))
    OBVIOUS
  <2> HIDE DEF Names
  <2>2. IsFiniteSet(Names(s) \cup {name[x]})
    BY <2>1, FS_AddElement
  <2> QED
    BY <2>1, <2>2
<1> HIDE DEF P
<1>3. S \in P
  BY <1>1, <1>2, SubsetInduction
<1> QED
  BY <1>3 DEF P

LEMMA SumIsNat ==
    ASSUME NEW S, IsFiniteSet(S), NEW f, \A x \in S : f[x] \in Nat
    PROVE  SumFunctionOnSet(f, S) \in Nat
<1> DEFINE P == {s \in SUBSET S : SumFunctionOnSet(f, s) \in Nat}
<1>1. {} \in P
  BY SumOfNone
<1>2. ASSUME NEW s \in P, NEW x \in S \ s PROVE s \cup {x} \in P
  <2>1. IsFiniteSet(s) /\ \A y \in s : f[y] \in Int
    BY FS_Subset
  <2>2. SumFunctionOnSet(f, s \cup {x}) = f[x] + SumFunctionOnSet(f, s)
    BY <2>1, SumWith
  <2> QED
    BY <2>2
<1> HIDE DEF P
<1>3. S \in P
  BY <1>1, <1>2, SubsetInduction
<1> QED
  BY <1>3 DEF P

\* The parts of a set.
LEMMA SumOfUnion ==
    ASSUME NEW S, IsFiniteSet(S), NEW T, IsFiniteSet(T), S \cap T = {},
           NEW f, \A x \in S \cup T : f[x] \in Int
    PROVE  SumFunctionOnSet(f, S \cup T) = SumFunctionOnSet(f, S) + SumFunctionOnSet(f, T)
<1> DEFINE P == {t \in SUBSET T : SumFunctionOnSet(f, S \cup t)
                                    = SumFunctionOnSet(f, S) + SumFunctionOnSet(f, t)}
<1>0. SumFunctionOnSet(f, S) \in Int
  BY SumIsInt
<1>1. {} \in P
  <2>1. S \cup {} = S
    OBVIOUS
  <2> QED
    BY <1>0, <2>1, SumOfNone
<1>2. ASSUME NEW t \in P, NEW x \in T \ t PROVE t \cup {x} \in P
  <2>1. /\ IsFiniteSet(t) /\ IsFiniteSet(S \cup t) /\ x \notin S \cup t /\ f[x] \in Int
        /\ \A y \in t : f[y] \in Int
        /\ \A y \in S \cup t : f[y] \in Int
    BY FS_Subset, FS_Union
  <2>2. SumFunctionOnSet(f, t \cup {x}) = f[x] + SumFunctionOnSet(f, t)
    BY <2>1, SumWith
  <2>3. SumFunctionOnSet(f, (S \cup t) \cup {x}) = f[x] + SumFunctionOnSet(f, S \cup t)
    BY <2>1, SumWith
  <2>4. (S \cup t) \cup {x} = S \cup (t \cup {x})
    OBVIOUS
  <2>5. SumFunctionOnSet(f, t) \in Int
    BY <2>1, SumIsInt
  <2>6. SumFunctionOnSet(f, S \cup t) = SumFunctionOnSet(f, S) + SumFunctionOnSet(f, t)
    OBVIOUS
  <2>7. t \cup {x} \in SUBSET T /\ f[x] \in Int
    OBVIOUS
  <2> HIDE DEF P
  <2>8. SumFunctionOnSet(f, S \cup (t \cup {x}))
          = SumFunctionOnSet(f, S) + SumFunctionOnSet(f, t \cup {x})
    <3> DEFINE a == SumFunctionOnSet(f, S)
               b == SumFunctionOnSet(f, t)
    <3>1. SumFunctionOnSet(f, S \cup (t \cup {x})) = f[x] + (a + b)
      BY <2>3, <2>4, <2>6
    <3>2. f[x] + (a + b) = a + (f[x] + b)
      BY <1>0, <2>5, <2>7
    <3> QED
      BY <2>2, <3>1, <3>2
  <2> QED
    BY <2>7, <2>8 DEF P
<1> HIDE DEF P
<1>3. T \in P
  BY <1>1, <1>2, SubsetInduction
<1> QED
  BY <1>3 DEF P

\* A sum over other names for the same summands.
LEMMA SumRenamed ==
    ASSUME NEW S, IsFiniteSet(S), NEW f, \A x \in S : f[x] \in Int,
           NEW name, \A x, y \in S : name[x] = name[y] => x = y,
           NEW g, \A x \in S : g[name[x]] = f[x]
    PROVE  SumFunctionOnSet(g, {name[x] : x \in S}) = SumFunctionOnSet(f, S)
<1> DEFINE Names(s) == {name[x] : x \in s}
           P == {s \in SUBSET S : /\ IsFiniteSet(Names(s))
                                  /\ SumFunctionOnSet(g, Names(s)) = SumFunctionOnSet(f, s)}
<1>1. {} \in P
  <2>1. Names({}) = {}
    OBVIOUS
  <2> HIDE DEF Names
  <2> QED
    BY <2>1, FS_EmptySet, SumOfNone
<1>2. ASSUME NEW s \in P, NEW x \in S \ s PROVE s \cup {x} \in P
  <2>1. /\ Names(s \cup {x}) = Names(s) \cup {name[x]} /\ name[x] \notin Names(s)
        /\ \A y \in Names(s) : g[y] \in Int
    OBVIOUS
  <2>2. IsFiniteSet(Names(s)) /\ SumFunctionOnSet(g, Names(s)) = SumFunctionOnSet(f, s)
    OBVIOUS
  <2>3. IsFiniteSet(s) /\ s \cup {x} \in SUBSET S
    BY FS_Subset
  <2> HIDE DEF Names
  <2>4. IsFiniteSet(Names(s) \cup {name[x]})
    BY <2>2, FS_AddElement
  <2>5. SumFunctionOnSet(g, Names(s) \cup {name[x]}) = g[name[x]] + SumFunctionOnSet(g, Names(s))
    BY <2>1, <2>2, SumWith
  <2>6. SumFunctionOnSet(f, s \cup {x}) = f[x] + SumFunctionOnSet(f, s)
    BY <2>3, SumWith
  <2> QED
    BY <2>1, <2>2, <2>3, <2>4, <2>5, <2>6
<1> HIDE DEF P
<1>3. S \in P
  BY <1>1, <1>2, SubsetInduction
<1> QED
  BY <1>3 DEF P

LEMMA TotalIsNat ==
    ASSUME NEW S, IsFiniteSet(S), NEW f \in [S -> Nat]
    PROVE  SumFunction(f) \in Nat
BY SumIsNat DEF SumFunction

LEMMA TotalChanged ==
    ASSUME NEW S, IsFiniteSet(S), NEW f \in [S -> Int], NEW g \in [S -> Int],
           NEW x \in S, \A y \in S \ {x} : f[y] = g[y]
    PROVE  SumFunction(g) = SumFunction(f) + g[x] - f[x]
BY SumChanged DEF SumFunction

LEMMA TotalOfUnion ==
    ASSUME NEW S, IsFiniteSet(S), NEW T, IsFiniteSet(T), S \cap T = {},
           NEW f \in [S -> Int], NEW g \in [T -> Int], NEW h \in [S \cup T -> Int],
           \A x \in S : h[x] = f[x], \A x \in T : h[x] = g[x]
    PROVE  SumFunction(h) = SumFunction(f) + SumFunction(g)
<1>1. SumFunctionOnSet(h, S \cup T) = SumFunctionOnSet(h, S) + SumFunctionOnSet(h, T)
  BY SumOfUnion
<1>2. SumFunctionOnSet(h, S) = SumFunctionOnSet(f, S)
  BY SumOfEqual
<1>3. SumFunctionOnSet(h, T) = SumFunctionOnSet(g, T)
  BY SumOfEqual
<1> QED
  BY <1>1, <1>2, <1>3 DEF SumFunction

LEMMA TotalRenamed ==
    ASSUME NEW S, IsFiniteSet(S), NEW f \in [S -> Int],
           NEW name, \A x, y \in S : name[x] = name[y] => x = y,
           NEW g, DOMAIN g = {name[x] : x \in S}, \A x \in S : g[name[x]] = f[x]
    PROVE  SumFunction(g) = SumFunction(f)
BY SumRenamed DEF SumFunction
=============================================================================
