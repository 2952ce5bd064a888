---------------------------- MODULE LedgerProofs ----------------------------
(***************************************************************************)
(* Proofs about the rebuilt ledger and the analysis that rests on it: that *)
(* its postings are QuickBooks' own and balance, and that what is on       *)
(* record as reconciled is a balance QuickBooks reported.                  *)
(*                                                                         *)
(* The ledger adds up amounts over sets, by a recursion of the library.    *)
(* The first section proves what a sum over a finite set is, by induction  *)
(* over its subsets: strict inclusion among them is well founded.          *)
(***************************************************************************)
EXTENDS AnalysisRuns, FiniteSetTheorems, SequenceTheorems, TLAPS

Total(f, S) == SumFunctionOnSet(f, S)

\* g is the recursion that sums f over the subsets of S.
Recursion(f, S, g) ==
  g = [s \in SUBSET S |-> IF s = {} THEN 0
                          ELSE LET x == CHOOSE y \in s : TRUE IN f[x] + g[s \ {x}]]

First(s) == CHOOSE y \in s : TRUE

LEMMA SumIsRecursion ==
  \A f, S : Total(f, S) = (CHOOSE g : Recursion(f, S, g))[S]
  BY DEF Total, SumFunctionOnSet, FoldFunctionOnSet, MapThenFoldSet, Recursion

LEMMA RecursionSteps ==
  ASSUME NEW f, NEW S, NEW g, Recursion(f, S, g), NEW s \in SUBSET S
  PROVE  /\ s = {} => g[s] = 0
         /\ s # {} => /\ First(s) \in s
                      /\ g[s] = f[First(s)] + g[s \ {First(s)}]
<1>1. g[s] = IF s = {} THEN 0
             ELSE LET x == CHOOSE y \in s : TRUE IN f[x] + g[s \ {x}]
  BY DEF Recursion
<1> QED
  BY <1>1 DEF First

\* Induction over the subsets of a finite set.
LEMMA SubsetInduction ==
  ASSUME NEW S, IsFiniteSet(S), NEW A \in SUBSET SUBSET S,
         \A s \in SUBSET S : (\A t \in SUBSET s : t # s => t \in A) => s \in A
  PROVE  A = SUBSET S
<1> SUFFICES ASSUME A # SUBSET S PROVE FALSE
  OBVIOUS
<1> DEFINE B == (SUBSET S) \ A
<1>1. B # {} /\ B \subseteq FiniteSubsetsOf(S)
  BY FS_FiniteSubsetsOfFinite
<1>2. PICK s \in B : \A t \in B : <<t, s>> \notin StrictSubsetOrdering(S)
  <2> HIDE DEF B
  <2> QED BY <1>1, FS_StrictSubsetOrderingWellFounded, WFMin
<1>3. \A t \in SUBSET s : t # s => t \in A
  BY <1>2 DEF StrictSubsetOrdering
<1> QED
  BY <1>2, <1>3

LEMMA SameRecursion ==
  ASSUME NEW f, NEW S, NEW g, Recursion(f, S, g), NEW T, NEW h, Recursion(f, T, h),
         IsFiniteSet(S), S \subseteq T
  PROVE  g[S] = h[S]
<1> DEFINE A == {s \in SUBSET S : g[s] = h[s]}
<1>1. ASSUME NEW s \in SUBSET S, \A t \in SUBSET s : t # s => t \in A
      PROVE  s \in A
  <2>1. CASE s = {}
    BY <2>1, RecursionSteps
  <2>2. CASE s # {}
    <3>1. /\ First(s) \in s
          /\ g[s] = f[First(s)] + g[s \ {First(s)}]
          /\ h[s] = f[First(s)] + h[s \ {First(s)}]
      BY <2>2, RecursionSteps
    <3>2. s \ {First(s)} \in A
      BY <1>1, <3>1
    <3> QED
      BY <3>1, <3>2
  <2> QED
    BY <2>1, <2>2
<1>2. A = SUBSET S
  <2> HIDE DEF A
  <2>1. A \in SUBSET SUBSET S
    BY DEF A
  <2> QED BY <1>1, <2>1, SubsetInduction
<1> QED
  BY <1>2

LEMMA RecursionExists ==
  ASSUME NEW f, NEW S, IsFiniteSet(S)
  PROVE  \E g : Recursion(f, S, g)
<1> DEFINE A == {s \in SUBSET S : \E g : Recursion(f, s, g)}
<1>1. ASSUME NEW s \in SUBSET S, \A t \in SUBSET s : t # s => t \in A
      PROVE  \E g : Recursion(f, s, g)
  <2> DEFINE h(t) == CHOOSE g : Recursion(f, t, g)
             G == [t \in SUBSET s |-> IF t = {} THEN 0
                     ELSE f[First(t)] + h(t \ {First(t)})[t \ {First(t)}]]
  <2>1. ASSUME NEW t \in SUBSET s, t # s
        PROVE  Recursion(f, t, h(t)) /\ G[t] = h(t)[t]
    <3>1. Recursion(f, t, h(t))
      BY <1>1, <2>1
    <3>2. CASE t = {}
      BY <3>1, <3>2, RecursionSteps
    <3>3. CASE t # {}
      <4> DEFINE u == t \ {First(t)}
      <4>1. First(t) \in t /\ h(t)[t] = f[First(t)] + h(t)[u]
        <5> HIDE DEF h
        <5> QED BY <3>1, <3>3, RecursionSteps
      <4>2. u \in SUBSET s /\ u # s /\ u \subseteq t /\ IsFiniteSet(u)
        BY <4>1, <2>1, FS_Subset
      <4>3. Recursion(f, u, h(u))
        BY <1>1, <4>2
      <4>4. h(u)[u] = h(t)[u]
        <5> HIDE DEF h, u
        <5> QED BY <3>1, <4>2, <4>3, SameRecursion
      <4>5. G[t] = f[First(t)] + h(u)[u]
        BY <3>3
      <4> HIDE DEF h, G, u
      <4> QED BY <3>1, <4>1, <4>4, <4>5
    <3> QED BY <3>1, <3>2, <3>3
  <2>2. ASSUME NEW t \in SUBSET s, t # {}
        PROVE  /\ First(t) \in t
               /\ t \ {First(t)} \in SUBSET s /\ t \ {First(t)} # s
    BY <2>2 DEF First
  <2>3. \A t \in SUBSET s : t # {} => G[t] = f[First(t)] + G[t \ {First(t)}]
    BY <2>1, <2>2
  <2>4. G = [t \in SUBSET s |-> IF t = {} THEN 0 ELSE f[First(t)] + G[t \ {First(t)}]]
    <3>1. G = [t \in SUBSET s |-> G[t]] /\ (G[{}] = 0)
      OBVIOUS
    <3> HIDE DEF G
    <3> QED BY <2>3, <3>1
  <2>5. Recursion(f, s, G)
    <3> HIDE DEF G
    <3> QED BY <2>4 DEF Recursion, First
  <2> QED BY <2>5
<1>2. \A s \in SUBSET S : (\A t \in SUBSET s : t # s => t \in A) => s \in A
  BY <1>1
<1>3. A = SUBSET S
  <2> HIDE DEF A
  <2>1. A \in SUBSET SUBSET S
    BY DEF A
  <2> QED BY <1>2, <2>1, SubsetInduction
<1> QED
  BY <1>3

\* A sum over nothing is zero; any other is that of its first element and of the rest.
LEMMA SumUnfolds ==
  ASSUME NEW f, NEW S, IsFiniteSet(S)
  PROVE  /\ S = {} => Total(f, S) = 0
         /\ S # {} => /\ First(S) \in S
                      /\ Total(f, S) = f[First(S)] + Total(f, S \ {First(S)})
<1> DEFINE h(t) == CHOOSE g : Recursion(f, t, g)
<1>1. \A t : Total(f, t) = h(t)[t]
  BY SumIsRecursion
<1>2. \A t \in SUBSET S : IsFiniteSet(t) /\ Recursion(f, t, h(t))
  BY RecursionExists, FS_Subset
<1> HIDE DEF h
<1>3. CASE S = {}
  BY <1>1, <1>2, <1>3, RecursionSteps
<1>4. CASE S # {}
  <2> DEFINE u == S \ {First(S)}
  <2>1. First(S) \in S /\ h(S)[S] = f[First(S)] + h(S)[u]
    BY <1>2, <1>4, RecursionSteps
  <2>2. h(u)[u] = h(S)[u]
    <3>1. u \in SUBSET S /\ u \subseteq S
      OBVIOUS
    <3>2. Recursion(f, u, h(u)) /\ IsFiniteSet(u) /\ Recursion(f, S, h(S))
      BY <1>2
    <3> HIDE DEF u
    <3> QED BY <3>1, <3>2, SameRecursion
  <2> QED
    BY <1>1, <2>1, <2>2
<1> QED
  BY <1>3, <1>4

LEMMA SumSame ==
  ASSUME NEW S, IsFiniteSet(S), NEW f, NEW g, \A x \in S : f[x] = g[x]
  PROVE  Total(f, S) = Total(g, S)
<1> DEFINE A == {s \in SUBSET S : Total(f, s) = Total(g, s)}
<1>1. ASSUME NEW s \in SUBSET S, \A t \in SUBSET s : t # s => t \in A
      PROVE  s \in A
  <2>1. IsFiniteSet(s)
    BY FS_Subset
  <2>2. CASE s = {}
    BY <2>1, <2>2, SumUnfolds
  <2>3. CASE s # {}
    <3>1. /\ First(s) \in s
          /\ Total(f, s) = f[First(s)] + Total(f, s \ {First(s)})
          /\ Total(g, s) = g[First(s)] + Total(g, s \ {First(s)})
      BY <2>1, <2>3, SumUnfolds
    <3>2. s \ {First(s)} \in A
      BY <1>1, <3>1
    <3> QED
      BY <3>1, <3>2
  <2> QED
    BY <2>2, <2>3
<1>2. A = SUBSET S
  <2> HIDE DEF A
  <2>1. A \in SUBSET SUBSET S
    BY DEF A
  <2> QED BY <1>1, <2>1, SubsetInduction
<1> QED
  BY <1>2

LEMMA SumTyped ==
  ASSUME NEW S, IsFiniteSet(S), NEW f, \A x \in S : f[x] \in Int
  PROVE  Total(f, S) \in Int
<1> DEFINE A == {s \in SUBSET S : Total(f, s) \in Int}
<1>1. ASSUME NEW s \in SUBSET S, \A t \in SUBSET s : t # s => t \in A
      PROVE  s \in A
  <2>1. IsFiniteSet(s)
    BY FS_Subset
  <2>2. CASE s = {}
    <3>1. Total(f, s) = 0
      BY <2>1, <2>2, SumUnfolds
    <3> QED BY <3>1
  <2>3. CASE s # {}
    <3>1. First(s) \in s /\ Total(f, s) = f[First(s)] + Total(f, s \ {First(s)})
      BY <2>1, <2>3, SumUnfolds
    <3>2. s \ {First(s)} \in A
      BY <1>1, <3>1
    <3> QED
      BY <3>1, <3>2
  <2> QED
    BY <2>2, <2>3
<1>2. A = SUBSET S
  <2> HIDE DEF A
  <2>1. A \in SUBSET SUBSET S
    BY DEF A
  <2> QED BY <1>1, <2>1, SubsetInduction
<1> QED
  BY <1>2

LEMMA SumWithout ==
  ASSUME NEW S, IsFiniteSet(S), NEW f, \A x \in S : f[x] \in Int
  PROVE  \A x \in S : Total(f, S) = f[x] + Total(f, S \ {x})
<1> DEFINE A == {s \in SUBSET S : \A x \in s : Total(f, s) = f[x] + Total(f, s \ {x})}
<1>1. ASSUME NEW s \in SUBSET S, \A t \in SUBSET s : t # s => t \in A
      PROVE  s \in A
  <2> SUFFICES ASSUME NEW x \in s
               PROVE  Total(f, s) = f[x] + Total(f, s \ {x})
    OBVIOUS
  <2>1. \A t \in SUBSET s : IsFiniteSet(t) /\ Total(f, t) \in Int
    BY SumTyped, FS_Subset
  <2> DEFINE y == First(s)
  <2>2. y \in s /\ Total(f, s) = f[y] + Total(f, s \ {y})
    BY <2>1, SumUnfolds
  <2>3. CASE x = y
    BY <2>2, <2>3
  <2>4. CASE x # y
    <3> HIDE DEF y
    <3>1. s \ {x} \in A /\ s \ {y} \in A
      BY <1>1, <2>2
    <3>2. /\ Total(f, s \ {y}) = f[x] + Total(f, (s \ {y}) \ {x})
          /\ Total(f, s \ {x}) = f[y] + Total(f, (s \ {x}) \ {y})
      BY <2>2, <2>4, <3>1
    <3>3. (s \ {x}) \ {y} = (s \ {y}) \ {x}
      OBVIOUS
    <3>4. f[x] \in Int /\ f[y] \in Int /\ Total(f, (s \ {x}) \ {y}) \in Int
      BY <2>1, <2>2
    <3>5. Total(f, s \ {y}) = f[x] + Total(f, (s \ {x}) \ {y})
      BY <3>2, <3>3
    <3> HIDE DEF A
    <3> QED
      BY <2>2, <3>2, <3>4, <3>5
  <2> QED
    BY <2>3, <2>4
<1>2. A = SUBSET S
  <2> HIDE DEF A
  <2>1. A \in SUBSET SUBSET S
    BY DEF A
  <2> QED BY <1>1, <2>1, SubsetInduction
<1> QED
  BY <1>2

LEMMA SumPlus ==
  ASSUME NEW S, IsFiniteSet(S), NEW f, NEW g, NEW h,
         \A x \in S : f[x] \in Int /\ g[x] \in Int /\ h[x] = f[x] + g[x]
  PROVE  Total(h, S) = Total(f, S) + Total(g, S)
<1> DEFINE A == {s \in SUBSET S : Total(h, s) = Total(f, s) + Total(g, s)}
<1>1. ASSUME NEW s \in SUBSET S, \A t \in SUBSET s : t # s => t \in A
      PROVE  s \in A
  <2>1. \A t \in SUBSET s : IsFiniteSet(t) /\ Total(f, t) \in Int /\ Total(g, t) \in Int
    BY SumTyped, FS_Subset
  <2>2. CASE s = {}
    <3>1. Total(f, s) = 0 /\ Total(g, s) = 0 /\ Total(h, s) = 0
      BY <2>1, <2>2, SumUnfolds
    <3> QED BY <3>1
  <2>3. CASE s # {}
    <3> DEFINE x == First(s)
               r == s \ {x}
    <3>1. /\ x \in s
          /\ Total(f, s) = f[x] + Total(f, r)
          /\ Total(g, s) = g[x] + Total(g, r)
          /\ Total(h, s) = h[x] + Total(h, r)
      BY <2>1, <2>3, SumUnfolds
    <3>2. Total(h, r) = Total(f, r) + Total(g, r)
      BY <1>1, <3>1
    <3>3. r \in SUBSET s
      OBVIOUS
    <3> HIDE DEF A, r, x
    <3>4. Total(h, s) = Total(f, s) + Total(g, s)
      BY <2>1, <3>1, <3>2, <3>3
    <3> QED
      BY <3>4 DEF A
  <2> QED
    BY <2>2, <2>3
<1>2. A = SUBSET S
  <2> HIDE DEF A
  <2>1. A \in SUBSET SUBSET S
    BY DEF A
  <2> QED BY <1>1, <2>1, SubsetInduction
<1> QED
  BY <1>2

LEMMA SumOfPart ==
  ASSUME NEW S, IsFiniteSet(S), NEW f, \A x \in S : f[x] \in Int,
         NEW T \in SUBSET S, \A x \in S \ T : f[x] = 0
  PROVE  Total(f, S) = Total(f, T)
<1> DEFINE A == {s \in SUBSET S : Total(f, s) = Total(f, s \cap T)}
<1>1. ASSUME NEW s \in SUBSET S, \A t \in SUBSET s : t # s => t \in A
      PROVE  s \in A
  <2>1. IsFiniteSet(s) /\ IsFiniteSet(s \cap T)
    BY FS_Subset
  <2>2. CASE s \subseteq T
    <3>1. s \cap T = s
      BY <2>2
    <3> QED BY <3>1
  <2>3. CASE ~(s \subseteq T)
    <3>1. PICK x \in s : x \notin T
      BY <2>3
    <3>2. Total(f, s) = f[x] + Total(f, s \ {x})
      BY <2>1, SumWithout
    <3>3. Total(f, s \ {x}) = Total(f, (s \ {x}) \cap T)
      BY <1>1
    <3>4. (s \ {x}) \cap T = s \cap T /\ f[x] = 0
      BY <3>1
    <3>5. Total(f, s \cap T) \in Int
      BY <2>1, SumTyped
    <3> HIDE DEF A
    <3>6. Total(f, s) = 0 + Total(f, s \cap T)
      BY <3>2, <3>3, <3>4
    <3>7. Total(f, s) = Total(f, s \cap T)
      BY <3>5, <3>6
    <3> QED BY <3>7 DEF A
  <2> QED
    BY <2>2, <2>3
<1>2. A = SUBSET S
  <2> HIDE DEF A
  <2>1. A \in SUBSET SUBSET S
    BY DEF A
  <2> QED BY <1>1, <2>1, SubsetInduction
<1>3. S \cap T = T
  OBVIOUS
<1> QED
  BY <1>2, <1>3

LEMMA SumOfOne ==
  ASSUME NEW x, NEW f, f[x] \in Int
  PROVE  Total(f, {x}) = f[x]
<1>1. IsFiniteSet({x}) /\ IsFiniteSet({})
  BY FS_Singleton, FS_EmptySet
<1>2. Total(f, {}) = 0
  BY <1>1, SumUnfolds
<1>3. Total(f, {x}) = f[x] + Total(f, {x} \ {x})
  BY <1>1, SumWithout
<1>4. {x} \ {x} = {}
  OBVIOUS
<1>5. Total(f, {x}) = f[x] + 0
  BY <1>2, <1>3, <1>4
<1> QED
  BY <1>5

LEMMA SumZero ==
  ASSUME NEW S, IsFiniteSet(S), NEW f, \A x \in S : f[x] = 0
  PROVE  Total(f, S) = 0
<1>1. {} \in SUBSET S /\ IsFiniteSet({})
  BY FS_EmptySet
<1>2. Total(f, S) = Total(f, {})
  BY <1>1, SumOfPart
<1> QED
  BY <1>1, <1>2, SumUnfolds

\* Rows and columns of a table sum to the same.
Row(F, s, T) == Total([t \in T |-> F[s][t]], T)
Column(F, S, t) == Total([s \in S |-> F[s][t]], S)

LEMMA SumExchange ==
  ASSUME NEW S, IsFiniteSet(S), NEW T, IsFiniteSet(T),
         NEW F, \A s \in S, t \in T : F[s][t] \in Int
  PROVE  Total([s \in S |-> Row(F, s, T)], S) = Total([t \in T |-> Column(F, S, t)], T)
<1> DEFINE rows == [s \in S |-> Row(F, s, T)]
           columns(R) == [t \in T |-> Column(F, R, t)]
           A == {R \in SUBSET S : Total(rows, R) = Total(columns(R), T)}
<1>1. ASSUME NEW R \in SUBSET S, \A Q \in SUBSET R : Q # R => Q \in A
      PROVE  R \in A
  <2>1. \A Q \in SUBSET R : IsFiniteSet(Q)
    BY FS_Subset
  <2>2. CASE R = {}
    <3>1. \A t \in T : columns(R)[t] = 0
      <4> SUFFICES ASSUME NEW t \in T PROVE Column(F, {}, t) = 0
        BY <2>2
      <4> QED
        BY FS_EmptySet, SumUnfolds DEF Column
    <3> HIDE DEF columns
    <3>2. Total(columns(R), T) = 0
      BY <3>1, SumZero
    <3>3. Total(rows, R) = 0
      BY <2>1, <2>2, SumUnfolds
    <3> QED
      BY <3>2, <3>3
  <2>3. CASE R # {}
    <3> DEFINE x == First(R)
               Q == R \ {x}
               line == [t \in T |-> F[x][t]]
    <3>1. x \in R /\ Total(rows, R) = rows[x] + Total(rows, Q)
      <4> HIDE DEF rows
      <4> QED BY <2>1, <2>3, SumUnfolds
    <3>2. Q \in SUBSET R /\ Q # R /\ IsFiniteSet(Q)
      BY <2>1, <3>1
    <3>3. Total(rows, Q) = Total(columns(Q), T)
      <4> HIDE DEF rows, columns, Q
      <4> QED BY <1>1, <3>2
    <3>4. rows[x] = Total(line, T)
      BY <3>1 DEF Row
    <3>5. ASSUME NEW t \in T
          PROVE  /\ line[t] \in Int /\ columns(Q)[t] \in Int
                 /\ columns(R)[t] = line[t] + columns(Q)[t]
      <4> DEFINE over(P) == [s \in P |-> F[s][t]]
      <4>1. Total(over(Q), Q) \in Int
        BY <2>1, SumTyped
      <4>2. Total(over(R), R) = over(R)[x] + Total(over(R), Q)
        <5>1. \A s \in R : over(R)[s] \in Int
          OBVIOUS
        <5> HIDE DEF over
        <5> QED BY <2>1, <3>1, <5>1, SumWithout
      <4>3. Total(over(R), Q) = Total(over(Q), Q)
        <5>1. \A s \in Q : over(R)[s] = over(Q)[s]
          OBVIOUS
        <5> HIDE DEF over
        <5> QED BY <3>2, <5>1, SumSame
      <4>4. columns(R)[t] = Total(over(R), R) /\ columns(Q)[t] = Total(over(Q), Q)
        BY DEF Column
      <4>5. over(R)[x] = line[t] /\ line[t] \in Int
        BY <3>1
      <4> HIDE DEF over, columns, line, Q, x
      <4> QED
        BY <4>1, <4>2, <4>3, <4>4, <4>5
    <3>6. Total(columns(R), T) = Total(line, T) + Total(columns(Q), T)
      <4> HIDE DEF columns, line, Q, x
      <4> QED BY <3>5, SumPlus
    <3>7. Total(rows, R) = Total(columns(R), T)
      <4> HIDE DEF columns, line, Q, x, rows
      <4> QED BY <3>1, <3>3, <3>4, <3>6
    <3> QED
      BY <3>7
  <2> QED
    BY <2>2, <2>3
<1>2. A = SUBSET S
  <2> HIDE DEF A
  <2>1. A \in SUBSET SUBSET S
    BY DEF A
  <2> QED BY <1>1, <2>1, SubsetInduction
<1> QED
  BY <1>2

-----------------------------------------------------------------------------
(* One document.                                                           *)

\* Where a kind posts its total, on which side, and what bears the other one.
LEMMA RuleShapes ==
  ASSUME NEW k \in POSTING_TYPES
  PROVE  /\ Rules[k].head \in {"receivable", "payable", "cash", "none"}
         /\ Rules[k].side \in {1, -1}
         /\ Rules[k].rest \in {"lines_and_tax", "lines", "receivable", "payable", "from", "stated"}
         /\ Rules[k].head = "none" => Rules[k].rest = "stated"
<1>1. k \in {"Invoice", "CreditMemo", "Bill", "VendorCredit", "Purchase", "SalesReceipt",
              "RefundReceipt", "Deposit", "Payment", "BillPayment", "Transfer", "JournalEntry"}
  BY DEF POSTING_TYPES, Rules
<1>2. Rules[k] \in {InvoiceRule, Flip(InvoiceRule), BillRule, Flip(BillRule), SaleRule, Flip(SaleRule),
                    Rule("cash", -1, "lines_and_tax"), Rule("cash", 1, "lines"),
                    Rule("cash", 1, "receivable"), Rule("cash", -1, "payable"),
                    Rule("cash", 1, "from"), Rule("none", 1, "stated")}
  BY <1>1 DEF Rules
<1> QED
  BY <1>2 DEF Rule, Flip, InvoiceRule, BillRule, SaleRule

\* The one account of a family, if it is one.
LEMMA OnlyOne ==
  ASSUME NEW S, IsFiniteSet(S), Only(S) # Unnamed
  PROVE  S = {Only(S)}
<1>1. Cardinality(S) = 1
  BY DEF Only
<1>2. PICK x : S = {x}
  BY <1>1, FS_Singleton
<1> QED
  BY <1>1, <1>2 DEF Only

LEMMA FamilyInChart ==
  ASSUME NEW chart, IsFiniteSet(DOMAIN chart)
  PROVE  \A family \in {Receivables(chart), Payables(chart), Liabilities(chart)} :
           IsFiniteSet(family) /\ family \subseteq DOMAIN chart
<1>1. \A type : OfType(chart, type) \subseteq DOMAIN chart
  BY DEF OfType
<1>2. \A type : IsFiniteSet(OfType(chart, type))
  BY <1>1, FS_Subset
<1> QED
  BY <1>1, <1>2, Zenon DEF Receivables, Payables, Liabilities

LEMMA ControlShown ==
  ASSUME NEW family, IsFiniteSet(family), Unnamed \notin family,
         NEW d, NEW f, d.control \in {f.control, Unnamed}, f.control \in family,
         Control(d, family) # Unnamed
  PROVE  Control(d, family) = Control(f, family)
<1>1. Control(f, family) = f.control
  BY DEF Control
<1>2. CASE d.control = Unnamed
  <2>1. Only(family) # Unnamed /\ Control(d, family) = Only(family)
    BY <1>2 DEF Control
  <2> QED
    BY <1>1, <2>1, OnlyOne
<1>3. CASE d.control # Unnamed
  BY <1>1, <1>3 DEF Control
<1> QED
  BY <1>2, <1>3

LEMMA CashShown ==
  ASSUME NEW chart, Unnamed \notin DOMAIN chart, NEW d, NEW f, IsFiniteSet(d.cash),
         d.cash = {} \/ f.cash \subseteq d.cash, \E a \in DOMAIN chart : f.cash = {a},
         Cash(d) \in DOMAIN chart
  PROVE  Cash(d) = Cash(f)
<1>1. PICK a \in DOMAIN chart : f.cash = {a}
  OBVIOUS
<1>2. f.cash \ {Unnamed} = {a}
  BY <1>1
<1>3. Cash(f) = a
  <2>1. Cardinality({a}) = 1
    BY FS_Singleton
  <2> QED
    BY <1>2, <2>1 DEF Cash, Only
<1>4. d.cash \ {Unnamed} = {Cash(d)}
  <2>1. IsFiniteSet(d.cash \ {Unnamed})
    BY FS_Difference
  <2> QED
    BY <2>1, OnlyOne DEF Cash
<1>5. f.cash \subseteq d.cash
  BY <1>4
<1> QED
  BY <1>1, <1>2, <1>3, <1>4, <1>5

\* An account that is settled on is the one QuickBooks used.
LEMMA AccountShown ==
  ASSUME NEW chart, IsFiniteSet(DOMAIN chart), Unnamed \notin DOMAIN chart,
         NEW d, NEW f, Legible(d), Shows(d, f), NamesSides(f, chart),
         NEW role \in {Rules[d.kind].head, Rules[d.kind].rest},
         role \in {"receivable", "payable", "cash", "from"},
         AccountOf(d, chart, role) \in DOMAIN chart
  PROVE  AccountOf(d, chart, role) = AccountOf(f, chart, role)
<1>1. f.kind = d.kind /\ d.control \in {f.control, Unnamed}
      /\ (d.cash = {} \/ f.cash \subseteq d.cash) /\ IsFiniteSet(d.cash)
  BY DEF Shows, Legible
<1>2. CASE role = "receivable"
  <2>1. f.control \in Receivables(chart)
    BY <1>1, <1>2 DEF NamesSides
  <2>2. \A e : AccountOf(e, chart, role) = Control(e, Receivables(chart))
    BY <1>2 DEF AccountOf
  <2>3. IsFiniteSet(Receivables(chart)) /\ Unnamed \notin Receivables(chart)
    BY FamilyInChart
  <2> QED
    BY <1>1, <2>1, <2>2, <2>3, ControlShown
<1>3. CASE role = "payable"
  <2>1. f.control \in Payables(chart)
    BY <1>1, <1>3 DEF NamesSides
  <2>2. \A e : AccountOf(e, chart, role) = Control(e, Payables(chart))
    BY <1>3 DEF AccountOf
  <2>3. IsFiniteSet(Payables(chart)) /\ Unnamed \notin Payables(chart)
    BY FamilyInChart
  <2> QED
    BY <1>1, <2>1, <2>2, <2>3, ControlShown
<1>4. CASE role = "cash"
  <2>1. \E a \in DOMAIN chart : f.cash = {a}
    BY <1>1, <1>4 DEF NamesSides
  <2>2. \A e : AccountOf(e, chart, role) = Cash(e)
    BY <1>4 DEF AccountOf
  <2> QED
    BY <1>1, <2>1, <2>2, CashShown
<1>5. CASE role = "from"
  BY <1>1, <1>5 DEF AccountOf
<1> QED
  BY <1>2, <1>3, <1>4, <1>5

\* The tax of a document d is taken to be on the account that f names.
TakesTaxOf(d, f, chart) ==
  IF d.taxRef \in DOMAIN chart THEN f.taxRef = d.taxRef ELSE f.taxRef \in Liabilities(chart)

LEMMA TaxShown ==
  ASSUME NEW chart, IsFiniteSet(DOMAIN chart), Unnamed \notin DOMAIN chart,
         NEW d, NEW f, TakesTaxOf(d, f, chart), TaxAccount(d, chart) \in DOMAIN chart
  PROVE  TaxAccount(d, chart) = TaxAccount(f, chart)
<1>0. CASE d.taxRef \in DOMAIN chart
  BY <1>0 DEF TakesTaxOf, TaxAccount
<1> SUFFICES ASSUME d.taxRef \notin DOMAIN chart, f.taxRef \in Liabilities(chart)
             PROVE  TaxAccount(d, chart) = TaxAccount(f, chart)
  BY <1>0 DEF TakesTaxOf
<1> DEFINE family == Liabilities(chart)
<1>1. IsFiniteSet(family) /\ f.taxRef \in DOMAIN chart
  BY FamilyInChart
<1>2. TaxAccount(d, chart) = Only(family) /\ TaxAccount(f, chart) = f.taxRef
  BY <1>1 DEF TaxAccount
<1> HIDE DEF family
<1>3. Only(family) # Unnamed
  BY <1>2
<1>4. family = {Only(family)}
  BY <1>1, <1>3, OnlyOne
<1>5. f.taxRef \in family
  BY DEF family
<1> QED
  BY <1>2, <1>4, <1>5

\* What a document's own figures are worth.
LEMMA MoneyTyped ==
  ASSUME NEW d, Legible(d)
  PROVE  /\ Money(d.total) \in Int
         /\ \A i \in DOMAIN d.lines : Money(d.lines[i].amount) \in Int
         /\ \A s \in {1, -1} : /\ s * Money(d.total) \in Int
                              /\ s * d.tax \in Int
                              /\ \A i \in DOMAIN d.lines : s * Money(d.lines[i].amount) \in Int
<1>1. Money(d.total) \in Int /\ d.tax \in Int
  BY DEF Money, Legible
<1>2. \A i \in DOMAIN d.lines : Money(d.lines[i].amount) \in Int
  BY DEF Money, Legible
<1> QED
  BY <1>1, <1>2

\* A posting, the postings of lines, and perhaps one more.
LEMMA Pieces ==
  ASSUME NEW S, NEW h \in S, NEW L \in Seq(S), NEW T \in Seq(S)
  PROVE  LET c == <<h>> \o L \o T IN
         /\ c \in Seq(S) /\ DOMAIN c = 1 .. 1 + Len(L) + Len(T)
         /\ 1 \in DOMAIN c /\ c[1] = h
         /\ \A i \in DOMAIN L : i + 1 \in DOMAIN c /\ c[i + 1] = L[i]
         /\ \A i \in DOMAIN T : Len(L) + 1 + i \in DOMAIN c /\ c[Len(L) + 1 + i] = T[i]
<1>1. <<h>> \in Seq(S) /\ Len(<<h>>) = 1 /\ <<h>>[1] = h
  OBVIOUS
<1> DEFINE b == <<h>> \o L
           c == b \o T
<1>2. /\ b \in Seq(S) /\ Len(b) = 1 + Len(L)
      /\ \A i \in 1 .. 1 + Len(L) : b[i] = IF i <= 1 THEN <<h>>[i] ELSE L[i - 1]
  BY <1>1, ConcatProperties, Zenon
<1>3. b[1] = h /\ \A i \in 1 .. Len(L) : b[i + 1] = L[i]
  <2> HIDE DEF b
  <2>1. Len(L) \in Nat
    OBVIOUS
  <2> QED
    BY <1>1, <1>2, <2>1
<1>4. /\ c \in Seq(S) /\ Len(c) = Len(b) + Len(T)
      /\ \A i \in 1 .. Len(b) + Len(T) : c[i] = IF i <= Len(b) THEN b[i] ELSE T[i - Len(b)]
  <2> HIDE DEF b
  <2> QED BY <1>2, ConcatProperties, Zenon DEF c
<1>5. Len(L) \in Nat /\ Len(T) \in Nat /\ DOMAIN L = 1 .. Len(L) /\ DOMAIN T = 1 .. Len(T)
      /\ DOMAIN c = 1 .. Len(c)
  <2> HIDE DEF c
  <2> QED BY <1>4
<1> HIDE DEF b, c
<1>6. 1 \in DOMAIN c /\ c[1] = h
  BY <1>2, <1>3, <1>4, <1>5
<1>7. \A i \in DOMAIN L : i + 1 \in DOMAIN c /\ c[i + 1] = L[i]
  BY <1>2, <1>3, <1>4, <1>5
<1>8. \A i \in DOMAIN T : Len(L) + 1 + i \in DOMAIN c /\ c[Len(L) + 1 + i] = T[i]
  BY <1>2, <1>4, <1>5
<1>9. DOMAIN c = 1 .. 1 + Len(L) + Len(T)
  BY <1>2, <1>4, <1>5
<1> QED
  BY <1>4, <1>6, <1>7, <1>8, <1>9 DEF b, c

\* The accounts a candidate may post on.
Bearers(d, chart) ==
  {AccountOf(d, chart, Rules[d.kind].head), AccountOf(d, chart, Rules[d.kind].rest),
   TaxAccount(d, chart)} \cup {d.lines[i].account : i \in DOMAIN d.lines}

LEMMA PartsTyped ==
  ASSUME NEW d, Legible(d), NEW chart, NEW side \in {1, -1}
  PROVE  /\ LinePostings(d, side) \in Seq(Bearers(d, chart) \X Int)
         /\ TaxPosting(d, chart, side) \in Seq(Bearers(d, chart) \X Int)
         /\ <<AccountOf(d, chart, Rules[d.kind].head), side * Money(d.total)>>
              \in Bearers(d, chart) \X Int
         /\ <<AccountOf(d, chart, Rules[d.kind].rest), side * Money(d.total)>>
              \in Bearers(d, chart) \X Int
<1> DEFINE B == Bearers(d, chart)
<1>1. /\ side * Money(d.total) \in Int /\ side * d.tax \in Int
      /\ \A i \in DOMAIN d.lines : side * Money(d.lines[i].amount) \in Int
  BY MoneyTyped
<1>2. LinePostings(d, side) \in Seq(B \X Int)
  <2> DEFINE n == Len(d.lines)
             entry(i) == <<d.lines[i].account, side * Money(d.lines[i].amount)>>
  <2>1. n \in Nat /\ DOMAIN d.lines = 1 .. n
    BY DEF Legible
  <2>2. \A i \in DOMAIN d.lines : d.lines[i].account \in B
    BY DEF Bearers
  <2>3. \A i \in 1 .. n : entry(i) \in B \X Int
    <3> HIDE DEF B
    <3> QED BY <1>1, <2>1, <2>2
  <2>4. LinePostings(d, side) = [i \in 1 .. n |-> entry(i)]
    BY <2>1 DEF LinePostings
  <2> HIDE DEF n, entry, B
  <2> QED
    BY <2>1, <2>3, <2>4
<1>3. TaxPosting(d, chart, side) \in Seq(B \X Int)
  <2>1. <<TaxAccount(d, chart), side * d.tax>> \in B \X Int
    BY <1>1 DEF Bearers
  <2> HIDE DEF B
  <2> QED
    BY <2>1 DEF TaxPosting
<1> QED
  BY <1>1, <1>2, <1>3 DEF Bearers

\* A candidate is a sequence of postings.
LEMMA CandidateTyped ==
  ASSUME NEW d, Legible(d), NEW chart
  PROVE  Candidate(d, chart) \in Seq(Bearers(d, chart) \X Int)
<1> DEFINE B == Bearers(d, chart)
           rule == Rules[d.kind]
           head == <<AccountOf(d, chart, rule.head), rule.side * Money(d.total)>>
           other == <<AccountOf(d, chart, rule.rest), -rule.side * Money(d.total)>>
<1>1. rule.side \in {1, -1} /\ -rule.side \in {1, -1}
  BY RuleShapes DEF Legible
<1>2. head \in B \X Int /\ other \in B \X Int
  <2>1. \A side \in {1, -1} :
          /\ <<AccountOf(d, chart, rule.head), side * Money(d.total)>> \in B \X Int
          /\ <<AccountOf(d, chart, rule.rest), side * Money(d.total)>> \in B \X Int
    BY PartsTyped
  <2> HIDE DEF B
  <2> QED
    BY <1>1, <2>1
<1>3. /\ LinePostings(d, 1) \in Seq(B \X Int)
      /\ LinePostings(d, -rule.side) \in Seq(B \X Int)
      /\ TaxPosting(d, chart, -rule.side) \in Seq(B \X Int)
  BY <1>1, PartsTyped
<1>4. <<head>> \o LinePostings(d, -rule.side) \o TaxPosting(d, chart, -rule.side) \in Seq(B \X Int)
  <2> HIDE DEF B, head
  <2> QED BY <1>2, <1>3, Pieces
<1>5. <<head, other>> \in Seq(B \X Int)
  <2> HIDE DEF B, head, other
  <2> QED BY <1>2
<1>6. Candidate(d, chart) \in {LinePostings(d, 1), <<head, other>>,
         <<head>> \o LinePostings(d, -rule.side) \o TaxPosting(d, chart, -rule.side)}
  BY DEF Candidate
<1> HIDE DEF B, head, other, rule
<1> QED
  BY <1>3, <1>4, <1>5, <1>6 DEF B

\* Each piece of a candidate that stands on accounts of the chart is the piece QuickBooks
\* posted.
LEMMA HeadShown ==
  ASSUME NEW chart, IsFiniteSet(DOMAIN chart), Unnamed \notin DOMAIN chart,
         NEW d, NEW f, Legible(d), Shows(d, f), NamesSides(f, chart),
         Money(d.total) = Money(f.total),
         NEW role \in {Rules[d.kind].head, Rules[d.kind].rest},
         role \in {"receivable", "payable", "cash", "from"}, NEW side,
         <<AccountOf(d, chart, role), side * Money(d.total)>>[1] \in DOMAIN chart
  PROVE  <<AccountOf(d, chart, role), side * Money(d.total)>>
           = <<AccountOf(f, chart, role), side * Money(f.total)>>
<1>1. AccountOf(d, chart, role) = AccountOf(f, chart, role)
  BY AccountShown
<1> QED
  BY <1>1

LEMMA LinesShown ==
  ASSUME NEW chart, Unnamed \notin DOMAIN chart,
         NEW d, NEW f, Shows(d, f), NEW side,
         \A i \in DOMAIN d.lines : d.lines[i].amount # Unstated,
         \A i \in DOMAIN d.lines : LinePostings(d, side)[i][1] \in DOMAIN chart
  PROVE  LinePostings(d, side) = LinePostings(f, side)
<1>1. DOMAIN d.lines = DOMAIN f.lines
  BY DEF Shows
<1>2. ASSUME NEW i \in DOMAIN d.lines
      PROVE  d.lines[i].account = f.lines[i].account /\ d.lines[i].amount = f.lines[i].amount
  <2>1. d.lines[i].account \in DOMAIN chart
    BY <1>2 DEF LinePostings
  <2>2. /\ d.lines[i].account \in {f.lines[i].account, Unnamed}
        /\ d.lines[i].amount \in {f.lines[i].amount, Unstated}
    BY <1>1, <1>2 DEF Shows
  <2> QED
    BY <2>1, <2>2
<1> QED
  BY <1>1, <1>2 DEF LinePostings

LEMMA TaxLineShown ==
  ASSUME NEW chart, IsFiniteSet(DOMAIN chart), Unnamed \notin DOMAIN chart,
         NEW d, NEW f, Shows(d, f), Taxed(f) => TakesTaxOf(d, f, chart), NEW side,
         \A i \in DOMAIN TaxPosting(d, chart, side) : TaxPosting(d, chart, side)[i][1] \in DOMAIN chart
  PROVE  TaxPosting(d, chart, side) = TaxPosting(f, chart, side)
<1>1. (Taxed(d) <=> Taxed(f)) /\ d.tax = f.tax
  BY DEF Shows, Taxed
<1>2. CASE ~Taxed(d)
  BY <1>1, <1>2 DEF TaxPosting
<1>3. CASE Taxed(d)
  <2>1. TaxPosting(d, chart, side) = <<<<TaxAccount(d, chart), side * d.tax>>>>
    BY <1>3 DEF TaxPosting
  <2>2. TaxAccount(d, chart) \in DOMAIN chart
    <3>1. 1 \in DOMAIN TaxPosting(d, chart, side)
      BY <2>1
    <3>2. TaxPosting(d, chart, side)[1][1] = TaxAccount(d, chart)
      BY <2>1
    <3> QED
      BY <3>1, <3>2
  <2>3. TakesTaxOf(d, f, chart)
    BY <1>1, <1>3
  <2>4. TaxAccount(d, chart) = TaxAccount(f, chart)
    BY <2>2, <2>3, TaxShown
  <2> QED
    BY <1>1, <1>3, <2>4 DEF TaxPosting
<1> QED
  BY <1>2, <1>3

\* A candidate on accounts of the chart alone is what QuickBooks posted.
LEMMA CandidateShown ==
  ASSUME NEW chart, IsFiniteSet(DOMAIN chart), Unnamed \notin DOMAIN chart,
         NEW d, NEW f, Legible(d), Shows(d, f), NamesSides(f, chart),
         Money(d.total) = Money(f.total), Taxed(f) => TakesTaxOf(d, f, chart),
         \A i \in DOMAIN d.lines : d.lines[i].amount # Unstated,
         \A i \in DOMAIN Candidate(d, chart) : Candidate(d, chart)[i][1] \in DOMAIN chart
  PROVE  Candidate(d, chart) = Candidate(f, chart)
<1> DEFINE rule == Rules[d.kind]
           HeadOf(x) == <<AccountOf(x, chart, rule.head), rule.side * Money(x.total)>>
           OtherOf(x) == <<AccountOf(x, chart, rule.rest), -rule.side * Money(x.total)>>
           B == Bearers(d, chart)
<1>1. f.kind = d.kind
  BY DEF Shows
<1>2. /\ rule.head \in {"receivable", "payable", "cash", "none"}
      /\ rule.side \in {1, -1} /\ -rule.side \in {1, -1}
      /\ rule.rest \in {"lines_and_tax", "lines", "receivable", "payable", "from", "stated"}
      /\ rule.head = "none" => rule.rest = "stated"
  BY RuleShapes DEF Legible
<1>3. CASE rule.rest = "stated"
  <2>1. Candidate(d, chart) = LinePostings(d, 1) /\ Candidate(f, chart) = LinePostings(f, 1)
    BY <1>1, <1>3 DEF Candidate
  <2>2. DOMAIN LinePostings(d, 1) = DOMAIN d.lines
    BY DEF LinePostings
  <2> QED
    BY <2>1, <2>2, LinesShown
<1>4. CASE rule.rest \in {"lines", "lines_and_tax"}
  <2> DEFINE lines(x) == LinePostings(x, -rule.side)
             tax(x) == TaxPosting(x, chart, -rule.side)
  <2>1. /\ Candidate(d, chart) = <<HeadOf(d)>> \o lines(d) \o tax(d)
        /\ Candidate(f, chart) = <<HeadOf(f)>> \o lines(f) \o tax(f)
    BY <1>1, <1>4 DEF Candidate
  <2>2. HeadOf(d) \in B \X Int /\ lines(d) \in Seq(B \X Int) /\ tax(d) \in Seq(B \X Int)
    <3>1. \A side \in {1, -1} :
            <<AccountOf(d, chart, rule.head), side * Money(d.total)>> \in B \X Int
      BY PartsTyped
    <3>2. \A side \in {1, -1} :
            LinePostings(d, side) \in Seq(B \X Int) /\ TaxPosting(d, chart, side) \in Seq(B \X Int)
      BY PartsTyped
    <3> HIDE DEF B
    <3> QED
      BY <1>2, <3>1, <3>2
  <2>3. /\ HeadOf(d)[1] \in DOMAIN chart
        /\ \A i \in DOMAIN lines(d) : lines(d)[i][1] \in DOMAIN chart
        /\ \A i \in DOMAIN tax(d) : tax(d)[i][1] \in DOMAIN chart
    <3> DEFINE S == B \X Int
               h == HeadOf(d)
               L == lines(d)
               T == tax(d)
    <3> HIDE DEF B, h, L, T
    <3>1. h \in S /\ L \in Seq(S) /\ T \in Seq(S) /\ Candidate(d, chart) = <<h>> \o L \o T
      BY <2>1, <2>2 DEF h, L, T
    <3> HIDE DEF S
    <3>2. /\ 1 \in DOMAIN Candidate(d, chart) /\ Candidate(d, chart)[1] = h
          /\ \A i \in DOMAIN L :
               i + 1 \in DOMAIN Candidate(d, chart) /\ Candidate(d, chart)[i + 1] = L[i]
          /\ \A i \in DOMAIN T :
               /\ Len(L) + 1 + i \in DOMAIN Candidate(d, chart)
               /\ Candidate(d, chart)[Len(L) + 1 + i] = T[i]
      BY <3>1, Pieces
    <3>3. /\ h[1] \in DOMAIN chart
          /\ \A i \in DOMAIN L : L[i][1] \in DOMAIN chart
          /\ \A i \in DOMAIN T : T[i][1] \in DOMAIN chart
      BY <3>2
    <3> QED
      BY <3>3 DEF h, L, T
  <2>4. HeadOf(d) = HeadOf(f)
    BY <1>2, <1>4, <2>3, HeadShown
  <2>5. lines(d) = lines(f)
    <3>1. DOMAIN lines(d) = DOMAIN d.lines
      BY DEF LinePostings
    <3> QED
      BY <2>3, <3>1, LinesShown
  <2>6. tax(d) = tax(f)
    BY <2>3, TaxLineShown
  <2> HIDE DEF HeadOf, lines, tax
  <2> QED
    BY <2>1, <2>4, <2>5, <2>6
<1>5. CASE rule.rest \in {"receivable", "payable", "from"}
  <2>1. /\ Candidate(d, chart) = <<HeadOf(d), OtherOf(d)>>
        /\ Candidate(f, chart) = <<HeadOf(f), OtherOf(f)>>
    BY <1>1, <1>5 DEF Candidate
  <2>2. HeadOf(d)[1] \in DOMAIN chart /\ OtherOf(d)[1] \in DOMAIN chart
    <3> HIDE DEF HeadOf, OtherOf
    <3>1. /\ 1 \in DOMAIN <<HeadOf(d), OtherOf(d)>> /\ <<HeadOf(d), OtherOf(d)>>[1] = HeadOf(d)
          /\ 2 \in DOMAIN <<HeadOf(d), OtherOf(d)>> /\ <<HeadOf(d), OtherOf(d)>>[2] = OtherOf(d)
      OBVIOUS
    <3> QED BY <2>1, <3>1
  <2>3. HeadOf(d) = HeadOf(f)
    BY <1>2, <1>5, <2>2, HeadShown
  <2>4. OtherOf(d) = OtherOf(f)
    BY <1>2, <1>5, <2>2, HeadShown
  <2> HIDE DEF HeadOf, OtherOf
  <2> QED
    BY <2>1, <2>3, <2>4
<1> QED
  BY <1>2, <1>3, <1>4, <1>5

\* What is posted of a document is what QuickBooks posted.
LEMMA PostedShown ==
  ASSUME NEW chart, IsFiniteSet(DOMAIN chart), Unnamed \notin DOMAIN chart,
         NEW d, NEW f, Legible(d), Shows(d, f), NamesSides(f, chart),
         Money(d.total) = Money(f.total), Taxed(f) => TakesTaxOf(d, f, chart),
         Derived(d, chart).outcome = "posted"
  PROVE  Derived(d, chart).postings = Entry(f, chart)
<1>1. /\ Derived(d, chart).postings = Candidate(d, chart)
      /\ \A i \in DOMAIN d.lines : d.lines[i].amount # Unstated
      /\ Sound(Candidate(d, chart), chart)
  BY DEF Derived, Refusal, PostsNothing, Posts
<1> QED
  BY <1>1, CandidateShown DEF Sound, Entry

LEMMA DerivedShown ==
  ASSUME NEW chart, IsFiniteSet(DOMAIN chart), Unnamed \notin DOMAIN chart,
         NEW d, NEW f, Legible(d), Shows(d, f), Held(f, chart),
         d.total # Unstated, d.taxRef \notin DOMAIN chart,
         Derived(d, chart).outcome = "posted"
  PROVE  Derived(d, chart).postings = Entry(f, chart)
<1>1. NamesSides(f, chart) /\ (Taxed(f) => TakesTaxOf(d, f, chart))
  BY DEF Held, TakesTaxOf
<1>2. d.total = f.total
  BY DEF Shows
<1> QED
  BY <1>1, <1>2, PostedShown

\* A document that is taken for something is shown by what arrives all the same.
LEMMA TakenShown ==
  ASSUME NEW chart, NEW d, NEW f, Legible(f), Shows(d, f), Held(f, chart)
  PROVE  LET g == TakenFor(d, f, chart) IN
         /\ Shows(d, g) /\ NamesSides(g, chart)
         /\ Money(d.total) = Money(g.total)
         /\ Taxed(g) => TakesTaxOf(d, g, chart)
<1> DEFINE g == TakenFor(d, f, chart)
<1>1. /\ g.kind = f.kind /\ g.cash = f.cash /\ g.control = f.control /\ g.lines = f.lines
      /\ g.tax = f.tax
      /\ g.total = IF d.total = Unstated THEN 0 ELSE f.total
      /\ g.taxRef = IF d.taxRef \in DOMAIN chart THEN d.taxRef ELSE f.taxRef
  BY DEF TakenFor, Legible
<1> HIDE DEF g
<1>2. d.total \in {f.total, Unstated}
  BY DEF Shows
<1>3. Money(d.total) = Money(g.total)
  BY <1>1, <1>2 DEF Money
<1>4. Shows(d, g)
  BY <1>1, <1>2 DEF Shows
<1>5. NamesSides(g, chart)
  BY <1>1 DEF Held, NamesSides
<1>6. Taxed(g) => TakesTaxOf(d, g, chart)
  BY <1>1 DEF Taxed, Held, TakesTaxOf
<1> QED
  BY <1>3, <1>4, <1>5, <1>6 DEF g

\* Whatever the books, and whatever accounts and amounts a document leaves out, what the
\* rebuilt ledger posts of it are the postings of the full document, but for a total read as
\* zero and a tax account taken from the id of a rate.
THEOREM PostedAsQuickBooksDidHolds == AnalysisSpec => []PostedAsQuickBooksDid
<1>1. PostedAsQuickBooksDid
  <2> SUFFICES ASSUME NEW d \in Docs(There), Derived(d, Chart).outcome = "posted"
               PROVE  Derived(d, Chart).postings = Entry(TakenFor(d, d.full, Chart), Chart)
    BY DEF PostedAsQuickBooksDid
  <2>1. PICK n \in DOMAIN Documents : d = Documents[n]
    BY DEF Docs, There
  <2>2. /\ IsFiniteSet(DOMAIN Chart) /\ Unnamed \notin DOMAIN Chart
        /\ Legible(d) /\ Legible(d.full) /\ Shows(d, d.full) /\ Held(d.full, Chart)
    BY <2>1, AnalysisAssumption
  <2> DEFINE g == TakenFor(d, d.full, Chart)
  <2>3. /\ Shows(d, g) /\ NamesSides(g, Chart)
        /\ Money(d.total) = Money(g.total) /\ (Taxed(g) => TakesTaxOf(d, g, Chart))
    BY <2>2, TakenShown
  <2> HIDE DEF g
  <2>4. Derived(d, Chart).postings = Entry(g, Chart)
    BY <2>2, <2>3, PostedShown
  <2> QED
    BY <2>4 DEF g
<1> QED
  BY <1>1, PTL

-----------------------------------------------------------------------------
(* All documents of a pull.                                                *)

LEMMA PostingsTyped ==
  ASSUME NEW d, Legible(d), NEW chart
  PROVE  /\ Derived(d, chart).postings \in Seq(Bearers(d, chart) \X Int)
         /\ Net(Derived(d, chart).postings) = 0
<1> DEFINE B == Bearers(d, chart)
<1>1. \/ Derived(d, chart) \in {Refusal, PostsNothing}
      \/ Derived(d, chart) = Posts(Candidate(d, chart)) /\ Sound(Candidate(d, chart), chart)
  BY DEF Derived
<1>2. CASE Derived(d, chart) \in {Refusal, PostsNothing}
  <2>1. Derived(d, chart).postings = <<>>
    BY <1>2 DEF Refusal, PostsNothing
  <2>2. Net(<<>>) = 0
    <3>1. DOMAIN Figures(<<>>) = {}
      BY DEF Figures
    <3>2. Net(<<>>) = Total(Figures(<<>>), {})
      BY <3>1 DEF Net, SumFunction, Total
    <3> QED
      BY <3>2, FS_EmptySet, SumUnfolds
  <2>3. <<>> \in Seq(B \X Int)
    <3> HIDE DEF B
    <3> QED OBVIOUS
  <2> QED
    BY <2>1, <2>2, <2>3
<1>3. CASE Derived(d, chart) = Posts(Candidate(d, chart)) /\ Sound(Candidate(d, chart), chart)
  BY <1>3, CandidateTyped DEF Posts, Sound
<1> QED
  BY <1>1, <1>2, <1>3

LEMMA Postings ==
  ASSUME NEW B, NEW p \in Seq(B \X Int)
  PROVE  /\ IsFiniteSet(DOMAIN p) /\ IsFiniteSet(Touched(p))
         /\ \A i \in DOMAIN p : Figures(p)[i] = p[i][2] /\ p[i][2] \in Int
         /\ DOMAIN Figures(p) = DOMAIN p
         /\ \A a : /\ On(a, p) = Total(Figures(p), {i \in DOMAIN p : p[i][1] = a})
                  /\ On(a, p) \in Int
<1>1. IsFiniteSet(DOMAIN p)
  <2>1. DOMAIN p = 1 .. Len(p) /\ Len(p) \in Nat
    OBVIOUS
  <2> QED
    BY <2>1, FS_Interval
<1>2. IsFiniteSet(Touched(p))
  <2> DEFINE account == [i \in DOMAIN p |-> p[i][1]]
  <2>1. account \in Surjection(DOMAIN p, Touched(p))
    BY DEF Surjection, Touched
  <2> HIDE DEF account
  <2> QED
    BY <1>1, <2>1, FS_Surjection
<1>3. \A i \in DOMAIN p : Figures(p)[i] = p[i][2] /\ p[i][2] \in Int
  <2>1. \A i \in DOMAIN p : p[i] \in B \X Int
    OBVIOUS
  <2>2. \A i \in DOMAIN p : p[i][2] \in Int
    BY <2>1
  <2> QED
    BY <2>2 DEF Figures
<1>4. DOMAIN Figures(p) = DOMAIN p
  BY DEF Figures
<1>5. ASSUME NEW a
      PROVE  /\ On(a, p) = Total(Figures(p), {i \in DOMAIN p : p[i][1] = a})
             /\ On(a, p) \in Int
  <2>1. IsFiniteSet({i \in DOMAIN p : p[i][1] = a})
    BY <1>1, FS_Subset
  <2>2. On(a, p) = Total(Figures(p), {i \in DOMAIN p : p[i][1] = a})
    BY DEF On, Total
  <2> QED
    BY <1>3, <2>1, <2>2, SumTyped
<1> QED
  BY <1>1, <1>2, <1>3, <1>4, <1>5

\* What postings come to is spread over the accounts they touch.
LEMMA Spread ==
  ASSUME NEW B, NEW p \in Seq(B \X Int), NEW D, IsFiniteSet(D), Touched(p) \subseteq D
  PROVE  Total([a \in D |-> On(a, p)], D) = Net(p)
<1> DEFINE I == DOMAIN p
           F == [i \in I |-> [a \in D |-> IF p[i][1] = a THEN p[i][2] ELSE 0]]
<1>1. IsFiniteSet(I) /\ \A i \in I : Figures(p)[i] = p[i][2] /\ p[i][2] \in Int /\ p[i][1] \in D
  BY Postings DEF Touched
<1>2. \A i \in I, a \in D : F[i][a] \in Int /\ F[i][a] = IF p[i][1] = a THEN p[i][2] ELSE 0
  BY <1>1
<1>3. ASSUME NEW i \in I
      PROVE  Row(F, i, D) = Figures(p)[i]
  <2> DEFINE f == [a \in D |-> F[i][a]]
             b == p[i][1]
  <2>1. b \in D /\ (\A a \in D : f[a] \in Int) /\ f[b] = p[i][2] /\ \A a \in D \ {b} : f[a] = 0
    <3> HIDE DEF F
    <3> QED BY <1>1, <1>2
  <2>2. Row(F, i, D) = Total(f, D)
    BY DEF Row
  <2> HIDE DEF f, b, F
  <2>3. Total(f, D) = Total(f, {b})
    BY <2>1, SumOfPart
  <2>4. Total(f, {b}) = f[b]
    BY <2>1, SumOfOne
  <2> QED
    BY <1>1, <2>1, <2>2, <2>3, <2>4
<1>4. ASSUME NEW a \in D
      PROVE  Column(F, I, a) = On(a, p)
  <2> DEFINE f == [i \in I |-> F[i][a]]
             T == {i \in I : p[i][1] = a}
  <2>1. /\ \A i \in I : f[i] \in Int
        /\ \A i \in I \ T : f[i] = 0
        /\ \A i \in T : f[i] = Figures(p)[i]
    <3> HIDE DEF F
    <3> QED BY <1>1, <1>2
  <2>2. Column(F, I, a) = Total(f, I)
    <3> HIDE DEF F, I
    <3> QED BY DEF Column
  <2>6. On(a, p) = Total(Figures(p), T)
    BY DEF On, Total
  <2>3. T \in SUBSET I /\ IsFiniteSet(T)
    BY <1>1, FS_Subset
  <2> HIDE DEF f, T, F, I
  <2>4. Total(f, I) = Total(f, T)
    BY <1>1, <2>1, <2>3, SumOfPart
  <2>5. Total(f, T) = Total(Figures(p), T)
    BY <2>1, <2>3, SumSame
  <2> QED
    BY <2>2, <2>4, <2>5, <2>6
<1>5. Total([i \in I |-> Row(F, i, D)], I) = Total([a \in D |-> Column(F, I, a)], D)
  <2> HIDE DEF F, I
  <2> QED BY <1>1, <1>2, SumExchange
<1>6. Total([i \in I |-> Row(F, i, D)], I) = Total(Figures(p), I)
  <2> HIDE DEF F
  <2> QED BY <1>1, <1>3, SumSame
<1>7. [a \in D |-> Column(F, I, a)] = [a \in D |-> On(a, p)]
  <2> HIDE DEF F, I
  <2> QED BY <1>4
<1>8. Net(p) = Total(Figures(p), I)
  BY Postings DEF Net, SumFunction, Total
<1> HIDE DEF F, I
<1> QED
  BY <1>5, <1>6, <1>7, <1>8

\* The accounts of a ledger are finitely many, and each balance is a number.
LEMMA BalancesTyped ==
  ASSUME NEW docs, IsFiniteSet(docs), \A d \in docs : Legible(d), NEW chart
  PROVE  /\ IsFiniteSet(DOMAIN Balances(docs, chart))
         /\ \A d \in docs : Touched(Derived(d, chart).postings) \subseteq DOMAIN Balances(docs, chart)
         /\ \A d \in docs : \A a : On(a, Derived(d, chart).postings) \in Int
         /\ \A a \in DOMAIN Balances(docs, chart) :
              Balances(docs, chart)[a] = Total([d \in docs |-> On(a, Derived(d, chart).postings)], docs)
<1> DEFINE p(d) == Derived(d, chart).postings
           touched == {Touched(p(d)) : d \in docs}
<1>1. \A d \in docs : p(d) \in Seq(Bearers(d, chart) \X Int)
  BY PostingsTyped
<1>2. \A d \in docs : IsFiniteSet(Touched(p(d))) /\ \A a : On(a, p(d)) \in Int
  <2> HIDE DEF p
  <2> QED BY <1>1, Postings
<1>3. IsFiniteSet(UNION touched)
  <2> HIDE DEF p
  <2>1. [d \in docs |-> Touched(p(d))] \in Surjection(docs, touched)
    BY DEF Surjection
  <2>2. IsFiniteSet(touched)
    BY <2>1, FS_Surjection
  <2>3. \A t \in touched : IsFiniteSet(t)
    BY <1>2
  <2> QED
    BY <2>2, <2>3, FS_UNION
<1>4. Balances(docs, chart) = [a \in UNION touched |-> SumFunction([d \in docs |-> On(a, p(d))])]
  BY DEF Balances
<1>5. \A a : SumFunction([d \in docs |-> On(a, p(d))]) = Total([d \in docs |-> On(a, p(d))], docs)
  <2> HIDE DEF p
  <2> QED BY DEF SumFunction, Total
<1> HIDE DEF p
<1>6. DOMAIN Balances(docs, chart) = UNION touched
  BY <1>4
<1>7. \A a \in UNION touched : Balances(docs, chart)[a] = Total([d \in docs |-> On(a, p(d))], docs)
  BY <1>4, <1>5
<1> QED
  BY <1>2, <1>3, <1>6, <1>7 DEF p

\* Debits equal credits: the balances of a rebuilt ledger come to zero, whatever documents
\* it was rebuilt from and whichever of them it refused.
THEOREM LedgerBalances ==
  ASSUME NEW docs, IsFiniteSet(docs), \A d \in docs : Legible(d), NEW chart
  PROVE  SumFunction(Balances(docs, chart)) = 0
<1> DEFINE p(d) == Derived(d, chart).postings
           D == DOMAIN Balances(docs, chart)
           F == [d \in docs |-> [a \in D |-> On(a, p(d))]]
<1>1. /\ IsFiniteSet(D)
      /\ \A d \in docs : Touched(p(d)) \subseteq D
      /\ \A d \in docs, a \in D : On(a, p(d)) \in Int
      /\ \A a \in D : Balances(docs, chart)[a] = Total([d \in docs |-> On(a, p(d))], docs)
  BY BalancesTyped
<1>2. \A d \in docs : p(d) \in Seq(Bearers(d, chart) \X Int) /\ Net(p(d)) = 0
  BY PostingsTyped
<1> HIDE DEF p, D
<1>3. \A d \in docs, a \in D : F[d][a] = On(a, p(d)) /\ F[d][a] \in Int
  BY <1>1
<1>4. ASSUME NEW d \in docs
      PROVE  Row(F, d, D) = 0
  <2>1. [a \in D |-> F[d][a]] = [a \in D |-> On(a, p(d))]
    OBVIOUS
  <2>2. Total([a \in D |-> On(a, p(d))], D) = Net(p(d))
    BY <1>1, <1>2, Spread
  <2> HIDE DEF F
  <2> QED
    BY <1>2, <2>1, <2>2 DEF Row
<1>5. ASSUME NEW a \in D
      PROVE  Column(F, docs, a) = Balances(docs, chart)[a]
  <2>1. [d \in docs |-> F[d][a]] = [d \in docs |-> On(a, p(d))]
    OBVIOUS
  <2> HIDE DEF F
  <2> QED
    BY <1>1, <2>1 DEF Column
<1> HIDE DEF F
<1>6. Total([d \in docs |-> Row(F, d, D)], docs) = Total([a \in D |-> Column(F, docs, a)], D)
  BY <1>1, <1>3, SumExchange
<1>7. Total([d \in docs |-> Row(F, d, D)], docs) = 0
  BY <1>4, SumZero
<1>8. Total([a \in D |-> Column(F, docs, a)], D) = Total(Balances(docs, chart), D)
  BY <1>1, <1>5, SumSame
<1> QED
  BY <1>6, <1>7, <1>8 DEF SumFunction, Total, D

\* A document that moved no account moved none in QuickBooks.
LEMMA NothingShown ==
  ASSUME NEW chart, NEW d, NEW f, Legible(d), Legible(f), Shows(d, f),
         d.lines = <<>>, d.tax = 0, d.total = 0, d.total # Unstated, NEW a
  PROVE  On(a, Entry(f, chart)) = 0
<1> DEFINE p == Candidate(f, chart)
           rule == Rules[f.kind]
           B == Bearers(f, chart)
           head == <<AccountOf(f, chart, rule.head), rule.side * Money(f.total)>>
           other == <<AccountOf(f, chart, rule.rest), -rule.side * Money(f.total)>>
           lines(side) == LinePostings(f, side)
<1>1. DOMAIN f.lines = {} /\ f.tax = 0 /\ f.total = 0 /\ Money(f.total) = 0
  BY DEF Shows, Money
<1>2. /\ rule.side \in {1, -1} /\ -rule.side \in {1, -1}
      /\ rule.side * Money(f.total) = 0 /\ -rule.side * Money(f.total) = 0
  <2>1. rule.side \in {1, -1}
    BY RuleShapes DEF Legible
  <2> HIDE DEF rule
  <2> QED BY <1>1, <2>1
<1>3. \A side : DOMAIN lines(side) = {}
  BY <1>1 DEF LinePostings
<1>4. p \in Seq(B \X Int)
  BY CandidateTyped
<1>5. ASSUME NEW i \in DOMAIN p
      PROVE  p[i][2] = 0
  <2>1. CASE rule.rest = "stated"
    BY <1>3, <1>5, <2>1 DEF Candidate
  <2>2. CASE rule.rest \in {"lines", "lines_and_tax"}
    <3>1. TaxPosting(f, chart, -rule.side) = <<>>
      BY <1>1 DEF TaxPosting, Taxed
    <3>2. p = <<head>> \o lines(-rule.side) \o <<>>
      BY <2>2, <3>1 DEF Candidate
    <3>3. /\ head \in B \X Int /\ lines(-rule.side) \in Seq(B \X Int)
          /\ Len(lines(-rule.side)) = 0
      <4>1. \A side \in {1, -1} :
              /\ <<AccountOf(f, chart, rule.head), side * Money(f.total)>> \in B \X Int
              /\ lines(side) \in Seq(B \X Int)
        BY PartsTyped
      <4> HIDE DEF B, rule, lines
      <4>2. head \in B \X Int /\ lines(-rule.side) \in Seq(B \X Int)
        BY <1>2, <4>1
      <4>3. Len(lines(-rule.side)) = 0
        BY <1>3, <4>2
      <4> QED
        BY <4>2, <4>3
    <3>4. head[2] = 0
      BY <1>2
    <3> DEFINE h == head
               L == lines(-rule.side)
               S == B \X Int
               q == p
    <3>5. h \in S /\ L \in Seq(S) /\ Len(L) = 0 /\ q = <<h>> \o L \o <<>> /\ h[2] = 0
      BY <3>2, <3>3, <3>4
    <3>6. i \in DOMAIN q
      BY <1>5
    <3> HIDE DEF h, L, S, q
    <3>7. <<>> \in Seq(S) /\ Len(<<>>) = 0
      OBVIOUS
    <3>8. DOMAIN q = 1 .. 1 + Len(L) + Len(<<>>) /\ q[1] = h
      BY <3>5, <3>7, Pieces
    <3>9. q[i][2] = 0
      BY <3>5, <3>6, <3>7, <3>8
    <3> QED
      BY <3>9 DEF q
  <2>3. CASE rule.rest \in {"receivable", "payable", "from"}
    <3>1. p = <<head, other>>
      BY <2>3 DEF Candidate
    <3>2. head[2] = 0 /\ other[2] = 0
      BY <1>2
    <3> HIDE DEF head, other, p
    <3>3. DOMAIN p = {1, 2} /\ p[1] = head /\ p[2] = other
      BY <3>1
    <3> QED
      BY <1>5, <3>2, <3>3
  <2> QED
    BY <2>1, <2>2, <2>3, RuleShapes DEF Legible
<1> HIDE DEF p, B
<1>6. On(a, p) = Total(Figures(p), {i \in DOMAIN p : p[i][1] = a})
  BY DEF On, Total
<1>7. /\ IsFiniteSet({i \in DOMAIN p : p[i][1] = a})
      /\ \A i \in {j \in DOMAIN p : p[j][1] = a} : Figures(p)[i] = 0
  <2>1. IsFiniteSet(DOMAIN p) /\ \A i \in DOMAIN p : Figures(p)[i] = p[i][2]
    BY <1>4, Postings
  <2> QED
    BY <1>5, <2>1, FS_Subset
<1> QED
  BY <1>6, <1>7, SumZero DEF Entry, p

\* What a document was posted as moves each account as QuickBooks moved it.
LEMMA MovesShown ==
  ASSUME NEW chart, IsFiniteSet(DOMAIN chart), Unnamed \notin DOMAIN chart,
         NEW d, NEW f, Legible(d), Legible(f), Shows(d, f), Held(f, chart),
         d.total # Unstated, d.taxRef \notin DOMAIN chart,
         Derived(d, chart).outcome # "refused", NEW a
  PROVE  On(a, Derived(d, chart).postings) = On(a, Entry(f, chart))
<1>1. CASE Derived(d, chart).outcome = "posted"
  BY <1>1, DerivedShown
<1>2. CASE Derived(d, chart).outcome # "posted"
  <2>1. /\ Derived(d, chart).postings = <<>>
        /\ Blank(d) /\ d.total = 0
    BY <1>2 DEF Derived, Refusal, PostsNothing, Posts
  <2>2. On(a, <<>>) = 0
    <3>1. On(a, <<>>) = Total(Figures(<<>>), {})
      BY DEF On, Total
    <3> QED
      BY <3>1, FS_EmptySet, SumUnfolds
  <2> QED
    BY <2>1, <2>2, NothingShown DEF Blank
<1> QED
  BY <1>1, <1>2

\* A complete ledger is QuickBooks' own: where nothing is refused, every account has the
\* balance it has in QuickBooks, which no trial balance is needed to tell, unless a document
\* arrives without its total or the id of a tax rate is also the id of an account.
THEOREM CompleteIsQuickBooks ==
  ASSUME NEW docs, IsFiniteSet(docs),
         \A d \in docs : /\ Legible(d) /\ Legible(d.full)
                         /\ Shows(d, d.full) /\ Held(d.full, Chart)
                         /\ d.total # Unstated /\ d.taxRef \notin DOMAIN Chart,
         Complete(docs, Chart), NEW a
  PROVE  BalanceOf(Balances(docs, Chart), a) = TrueBalance(docs, a)
<1> DEFINE moved == [d \in docs |-> On(a, Derived(d, Chart).postings)]
           real == [d \in docs |-> On(a, Entry(d.full, Chart))]
<1>1. moved = real
  <2>1. \A d \in docs : On(a, Derived(d, Chart).postings) = On(a, Entry(d.full, Chart))
    BY MovesShown, AnalysisAssumption DEF Complete
  <2> QED
    BY <2>1
<1>2. TrueBalance(docs, a) = Total(real, docs)
  <2>1. TrueBalance(docs, a) = SumFunction(real)
    BY DEF TrueBalance
  <2>2. DOMAIN real = docs
    OBVIOUS
  <2> HIDE DEF real
  <2> QED
    BY <2>1, <2>2 DEF SumFunction, Total
<1>3. CASE a \in DOMAIN Balances(docs, Chart)
  <2>1. Balances(docs, Chart)[a] = Total(moved, docs)
    BY <1>3, BalancesTyped
  <2> QED
    BY <1>1, <1>2, <1>3, <2>1 DEF BalanceOf
<1>4. CASE a \notin DOMAIN Balances(docs, Chart)
  <2>1. ASSUME NEW d \in docs
        PROVE  moved[d] = 0
    <3> DEFINE p == Derived(d, Chart).postings
    <3>1. a \notin Touched(p)
      BY <1>4, BalancesTyped
    <3>2. {i \in DOMAIN p : p[i][1] = a} = {}
      BY <3>1 DEF Touched
    <3>3. On(a, p) = Total(Figures(p), {})
      BY <3>2 DEF On, Total
    <3>4. On(a, p) = 0
      BY <3>3, FS_EmptySet, SumUnfolds
    <3> QED
      BY <3>4
  <2>2. Total(moved, docs) = 0
    <3> HIDE DEF moved
    <3> QED BY <2>1, SumZero
  <2> QED
    BY <1>1, <1>2, <1>4, <2>2 DEF BalanceOf
<1> QED
  BY <1>3, <1>4

-----------------------------------------------------------------------------
(* Runs.                                                                   *)

\* What a scan that pulls works with: a stored run and its report, if it refreshes one.
ScanInv ==
  scan = AtRest \/
    /\ DOMAIN scan = {"pc", "run", "report", "statements", "todo", "start", "pulled"}
    /\ scan.pc = "pulling"
    /\ scan.todo \subseteq Kinds /\ scan.pulled \subseteq DOMAIN Documents
    /\ scan.statements \subseteq Statements
    /\ scan.run = 0 => Len(runs) < MaxRuns
    /\ scan.run # 0 => /\ scan.run \in DOMAIN runs /\ scan.report = runs[scan.run].report
                       /\ scan.statements = runs[scan.run].statements

RunsInv ==
  /\ \E S : runs \in Seq(S)
  /\ Len(runs) <= MaxRuns
  /\ \A r \in DOMAIN runs :
       /\ DOMAIN runs[r] = {"report", "statements", "findings", "reconciliation"}
       /\ runs[r].statements \subseteq Statements

\* A proposal on record is some run's.
ProposalsInv ==
  /\ \A p \in DOMAIN proposals : \E r \in DOMAIN runs : \E f \in runs[r].findings : f.proposal = p
  /\ \A p \in DOMAIN proposals : proposals[p] \in {"detected", "approved", "rejected", "verified"}

CompanyInv ==
  /\ company \in [DOMAIN Documents -> {"unborn", "there", "deleted"}]
  /\ changes \in 0 .. MaxChanges
  /\ mapped \subseteq Statements

AnalysisInv == CompanyInv /\ ScanInv /\ RunsInv /\ ProposalsInv /\ ReconciledWithQuickBooks

-----------------------------------------------------------------------------
\* Finitely many numbers have a last one.
LEMMA LastOne ==
  ASSUME NEW S, IsFiniteSet(S), S # {}, NEW n, \A x \in S : n[x] \in Int
  PROVE  \E x \in S : \A y \in S : n[y] <= n[x]
<1> DEFINE A == {R \in SUBSET S : R # {} => \E x \in R : \A y \in R : n[y] <= n[x]}
<1>1. \A R \in SUBSET S : (\A x \in R : R \ {x} \in A) => R \in A
  <2> SUFFICES ASSUME NEW R \in SUBSET S, \A x \in R : R \ {x} \in A, R # {}
               PROVE  \E x \in R : \A y \in R : n[y] <= n[x]
    BY DEF A
  <2>1. PICK z \in R : TRUE
    OBVIOUS
  <2>2. CASE R \ {z} = {}
    BY <2>1, <2>2
  <2>3. CASE R \ {z} # {}
    <3>1. PICK x \in R \ {z} : \A y \in R \ {z} : n[y] <= n[x]
      BY <2>1, <2>3
    <3>2. n[x] \in Int /\ n[z] \in Int /\ \A y \in R : n[y] \in Int
      BY <3>1
    <3>3. CASE n[z] <= n[x]
      BY <3>1, <3>3
    <3>4. CASE n[x] < n[z]
      BY <3>1, <3>2, <3>4
    <3> QED
      BY <3>2, <3>3, <3>4
  <2> QED
    BY <2>2, <2>3
<1>2. A = SUBSET S
  <2> HIDE DEF A
  <2>1. A \in SUBSET SUBSET S
    BY DEF A
  <2> QED BY <1>1, <2>1, SubsetInduction
<1> QED
  BY <1>2

\* What ReconciledWithQuickBooks says of one row.
RowStands(row, k, report, statements) ==
  /\ report.supplied => row.ledger = BalanceOf(report.balances, k[1])
  /\ \E s \in statements :
       Latest(s, k, statements) /\ (row.status = "reconciled" <=> row.ledger = s.closing)

LEMMA RowsStand ==
  ReconciledWithQuickBooks <=>
    \A r \in DOMAIN runs : \A k \in DOMAIN runs[r].reconciliation :
      runs[r].reconciliation[k].status # "no_source" =>
        RowStands(runs[r].reconciliation[k], k, runs[r].report, runs[r].statements)
  BY DEF ReconciledWithQuickBooks, RowStands

\* What a reconciliation states of a ledger that was put against the report, if there is one.
LEMMA ReconcileStates ==
  ASSUME NEW docs, NEW report, NEW statements \in SUBSET Statements,
         NEW k \in DOMAIN Reconcile(docs, report, statements),
         Reconcile(docs, report, statements)[k].status # "no_source"
  PROVE  RowStands(Reconcile(docs, report, statements)[k], k, report, statements)
<1> DEFINE s == CHOOSE x \in statements : Latest(x, k, statements)
           row(l) == [ledger |-> l, status |-> IF l = s.closing THEN "reconciled" ELSE "exception"]
           l == BalanceOf(Balances(docs, Chart), s.account)
<1>1. statements # {} /\ TrustedLedger(docs, report)
  BY DEF Reconcile
<1>2. /\ k \in {<<x.account, x.period>> : x \in statements}
      /\ Reconcile(docs, report, statements)[k] = row(l)
  BY <1>1 DEF Reconcile
<1>3. s \in statements /\ Latest(s, k, statements)
  <2> DEFINE S == {x \in statements : <<x.account, x.period>> = k}
             n == [x \in S |-> x.id]
  <2>1. IsFiniteSet(S) /\ S # {} /\ \A x \in S : n[x] \in Int
    <3>1. IsFiniteSet(statements)
      BY AnalysisAssumption, FS_Subset
    <3> QED
      BY <1>2, <3>1, AnalysisAssumption, FS_Subset
  <2>2. PICK x \in S : \A y \in S : n[y] <= n[x]
    <3> HIDE DEF S, n
    <3> QED BY <2>1, LastOne
  <2>3. Latest(x, k, statements)
    BY <2>2 DEF Latest
  <2> QED
    BY <2>2, <2>3
<1>4. k[1] = s.account
  <2> HIDE DEF s
  <2> QED BY <1>3 DEF Latest
<1>5. report.supplied => l = BalanceOf(report.balances, s.account)
  <2>1. report.supplied => Agrees(Balances(docs, Chart), report.balances)
    BY <1>1 DEF TrustedLedger
  <2> HIDE DEF s
  <2> QED BY <2>1 DEF Agrees, BalanceOf
<1>6. row(l).ledger = l /\ (row(l).status = "reconciled" <=> l = s.closing)
  OBVIOUS
<1> HIDE DEF s, row, l
<1> QED
  BY <1>2, <1>3, <1>4, <1>5, <1>6 DEF RowStands

LEMMA AnalysisInitInv == AnalysisInit => AnalysisInv
<1> SUFFICES ASSUME AnalysisInit PROVE AnalysisInv
  OBVIOUS
<1>1. runs = <<>> /\ <<>> \in Seq({}) /\ Len(<<>>) = 0 /\ DOMAIN runs = {}
  BY DEF AnalysisInit
<1>2. CompanyInv
  BY AnalysisAssumption DEF AnalysisInit, CompanyInv
<1>3. RunsInv
  BY <1>1, AnalysisAssumption DEF RunsInv
<1>4. ScanInv /\ ProposalsInv
  BY DEF AnalysisInit, ScanInv, ProposalsInv
<1>5. ReconciledWithQuickBooks
  BY <1>1 DEF ReconciledWithQuickBooks
<1> QED
  BY <1>2, <1>3, <1>4, <1>5 DEF AnalysisInv

LEMMA ReadPageInv ==
  ASSUME AnalysisInv, ReadPage
  PROVE  AnalysisInv'
<1> DEFINE kind == FirstOf(scan.todo)
           rows == {n \in There : Documents[n].kind = kind}
           before(n) == Cardinality({m \in rows : Documents[m].id < Documents[n].id})
           page == {n \in rows : before(n) + 1 \in scan.start .. scan.start + PAGE_SIZE - 1}
<1>1. page \subseteq DOMAIN Documents
  BY DEF There
<1>2. scan' \in {[scan EXCEPT !.pulled = @ \cup page, !.todo = @ \ {kind}, !.start = 1],
                 [scan EXCEPT !.pulled = @ \cup page, !.start = @ + PAGE_SIZE]}
  BY DEF ReadPage
<1>3. scan # AtRest
  BY DEF ReadPage, AtRest
<1>4. UNCHANGED <<company, changes, mapped, runs, proposals>>
  BY DEF ReadPage
<1>5. ScanInv'
  <2> HIDE DEF page, kind
  <2>1. DOMAIN scan = {"pc", "run", "report", "statements", "todo", "start", "pulled"}
    BY <1>3 DEF AnalysisInv, ScanInv
  <2>2. /\ DOMAIN scan' = DOMAIN scan /\ scan'.pc = scan.pc /\ scan'.run = scan.run
        /\ scan'.report = scan.report /\ scan'.statements = scan.statements
        /\ scan'.todo \subseteq scan.todo /\ scan'.pulled = scan.pulled \cup page
    BY <1>2, <2>1
  <2> QED
    BY <1>1, <1>3, <1>4, <2>1, <2>2 DEF AnalysisInv, ScanInv, Kinds
<1>6. CompanyInv' /\ RunsInv' /\ ProposalsInv' /\ ReconciledWithQuickBooks'
  BY <1>4 DEF AnalysisInv, CompanyInv, RunsInv, ProposalsInv, ReconciledWithQuickBooks
<1> QED
  BY <1>5, <1>6 DEF AnalysisInv

LEMMA PersistInv ==
  ASSUME AnalysisInv, Persist
  PROVE  AnalysisInv'
<1> DEFINE found == Found(Docs(scan.pulled), scan.report, scan.statements)
           table == Reconcile(Docs(scan.pulled), scan.report, scan.statements)
           run == [report |-> scan.report, statements |-> scan.statements, findings |-> found,
                   reconciliation |-> table]
<1>1. /\ scan' = AtRest /\ UNCHANGED <<company, changes, mapped>>
      /\ runs' = Append(runs, run)
      /\ proposals' = [p \in ProposalsOf(found) \cup DOMAIN proposals |->
                         IF p \in ProposalsOf(found) THEN "detected" ELSE proposals[p]]
  BY DEF Persist
<1>2. scan.statements \subseteq Statements /\ Len(runs) < MaxRuns
  <2>1. scan # AtRest /\ scan.run = 0
    BY DEF Persist, AtRest
  <2> QED
    BY <2>1 DEF AnalysisInv, ScanInv
<1>3. /\ DOMAIN run = {"report", "statements", "findings", "reconciliation"}
      /\ run.statements = scan.statements /\ run.report = scan.report
      /\ run.findings = found /\ run.reconciliation = table
  OBVIOUS
<1>4. ASSUME NEW k \in DOMAIN run.reconciliation, run.reconciliation[k].status # "no_source"
      PROVE  RowStands(run.reconciliation[k], k, run.report, run.statements)
  BY <1>2, <1>4, ReconcileStates
<1> HIDE DEF found, table, run
<1>5. PICK S : runs \in Seq(S)
  BY DEF AnalysisInv, RunsInv
<1>6. runs \in Seq(S \cup {run})
  BY <1>5, SeqMonotonic
<1>7. /\ runs' \in Seq(S \cup {run})
      /\ Len(runs) \in Nat /\ Len(runs') = Len(runs) + 1
      /\ DOMAIN runs = 1 .. Len(runs) /\ DOMAIN runs' = 1 .. Len(runs) + 1
      /\ \A r \in DOMAIN runs : runs'[r] = runs[r]
      /\ runs'[Len(runs) + 1] = run
  BY <1>1, <1>6
<1>8. \A r \in DOMAIN runs' : r \in DOMAIN runs \/ r = Len(runs) + 1
  BY <1>7
<1>9. RunsInv'
  <2>1. Len(runs') <= MaxRuns
    BY <1>2, <1>7, AnalysisAssumption
  <2>2. \A r \in DOMAIN runs' :
          /\ DOMAIN runs'[r] = {"report", "statements", "findings", "reconciliation"}
          /\ runs'[r].statements \subseteq Statements
    BY <1>2, <1>3, <1>7, <1>8 DEF AnalysisInv, RunsInv
  <2> QED
    BY <1>7, <2>1, <2>2 DEF RunsInv
<1>10. ProposalsInv'
  <2> SUFFICES ASSUME NEW p \in DOMAIN proposals'
               PROVE  /\ \E r \in DOMAIN runs' : \E f \in runs'[r].findings : f.proposal = p
                      /\ proposals'[p] \in {"detected", "approved", "rejected", "verified"}
    BY DEF ProposalsInv
  <2>1. CASE p \in ProposalsOf(found)
    <3>1. \E f \in run.findings : f.proposal = p
      BY <1>3, <2>1 DEF ProposalsOf
    <3>2. Len(runs) + 1 \in DOMAIN runs'
      BY <1>7
    <3> QED
      BY <1>1, <1>7, <2>1, <3>1, <3>2
  <2>2. CASE p \notin ProposalsOf(found)
    <3>1. p \in DOMAIN proposals /\ proposals'[p] = proposals[p]
      BY <1>1, <2>2
    <3>2. PICK r \in DOMAIN runs : \E f \in runs[r].findings : f.proposal = p
      BY <3>1 DEF AnalysisInv, ProposalsInv
    <3>3. r \in DOMAIN runs' /\ runs'[r] = runs[r]
      BY <1>7, <3>2
    <3> QED
      BY <3>1, <3>2, <3>3 DEF AnalysisInv, ProposalsInv
  <2> QED
    BY <2>1, <2>2
<1>11. ReconciledWithQuickBooks'
  <2> SUFFICES ASSUME NEW r \in DOMAIN runs', NEW k \in DOMAIN runs'[r].reconciliation,
                      runs'[r].reconciliation[k].status # "no_source"
               PROVE  RowStands(runs'[r].reconciliation[k], k, runs'[r].report, runs'[r].statements)
    BY DEF RowStands, ReconciledWithQuickBooks
  <2>1. CASE r \in DOMAIN runs
    BY <1>7, <2>1, RowsStand DEF AnalysisInv
  <2>2. CASE r = Len(runs) + 1
    BY <1>4, <1>7, <2>2
  <2> QED
    BY <1>8, <2>1, <2>2
<1>12. CompanyInv' /\ ScanInv'
  BY <1>1 DEF AnalysisInv, CompanyInv, ScanInv, AtRest
<1> QED
  BY <1>9, <1>10, <1>11, <1>12 DEF AnalysisInv

LEMMA ReleaseInv ==
  ASSUME AnalysisInv, NEW p \in DOMAIN proposals, Release(p)
  PROVE  AnalysisInv'
<1>1. /\ UNCHANGED <<changes, mapped, runs>>
      /\ proposals' = [proposals EXCEPT ![p] = "verified"]
      /\ company' = [company EXCEPT ![Correction[p]] = "there"]
      /\ scan' = Pull(RunOf(p), runs[RunOf(p)].report, runs[RunOf(p)].statements)
  BY DEF Release
<1>2. RunOf(p) \in DOMAIN runs
  <2>1. \E r \in DOMAIN runs : \E f \in runs[r].findings : f.proposal = p
    BY DEF AnalysisInv, ProposalsInv
  <2> QED
    BY <2>1 DEF RunOf
<1>3. RunOf(p) # 0 /\ runs[RunOf(p)].statements \subseteq Statements
  BY <1>2 DEF AnalysisInv, RunsInv
<1>4. ScanInv'
  BY <1>1, <1>2, <1>3 DEF ScanInv, Pull, Kinds
<1>5. CompanyInv'
  BY <1>1 DEF AnalysisInv, CompanyInv
<1>6. RunsInv' /\ ReconciledWithQuickBooks'
  BY <1>1 DEF AnalysisInv, RunsInv, ReconciledWithQuickBooks
<1>7. ProposalsInv'
  BY <1>1 DEF AnalysisInv, ProposalsInv
<1> QED
  BY <1>4, <1>5, <1>6, <1>7 DEF AnalysisInv

LEMMA RefreshInv ==
  ASSUME AnalysisInv, Refresh
  PROVE  AnalysisInv'
<1> DEFINE table == Reconcile(Docs(scan.pulled), scan.report, scan.statements)
           rows == Replacing(runs[scan.run].reconciliation, table)
<1>1. /\ scan' = AtRest /\ UNCHANGED <<company, changes, mapped, proposals>>
      /\ runs' = [runs EXCEPT ![scan.run].reconciliation = rows]
  BY DEF Refresh
<1>2. /\ scan.run \in DOMAIN runs /\ scan.report = runs[scan.run].report
      /\ scan.statements \subseteq Statements /\ scan.statements = runs[scan.run].statements
  <2>1. scan # AtRest /\ scan.run # 0
    BY DEF Refresh, AtRest
  <2> QED
    BY <2>1 DEF AnalysisInv, ScanInv
<1>3. ASSUME NEW k \in DOMAIN rows, rows[k].status # "no_source"
      PROVE  RowStands(rows[k], k, scan.report, scan.statements)
  <2>1. CASE k \in DOMAIN table
    <3>1. rows[k] = table[k]
      <4> HIDE DEF table
      <4> QED BY <2>1 DEF Replacing
    <3> QED
      BY <1>2, <1>3, <2>1, <3>1, ReconcileStates
  <2>2. CASE k \notin DOMAIN table
    <3> DEFINE old == runs[scan.run].reconciliation
    <3>1. k \in DOMAIN old /\ rows[k] = old[k]
      <4> HIDE DEF table
      <4> QED BY <1>3, <2>2 DEF Replacing
    <3> HIDE DEF table
    <3> QED
      BY <1>2, <1>3, <3>1, RowsStand DEF AnalysisInv
  <2> QED
    BY <2>1, <2>2
<1> HIDE DEF table, rows
<1>4. DOMAIN runs[scan.run] = {"report", "statements", "findings", "reconciliation"}
  BY <1>2 DEF AnalysisInv, RunsInv
<1>5. DOMAIN runs' = DOMAIN runs
  BY <1>1
<1>6. ASSUME NEW r \in DOMAIN runs
      PROVE  /\ DOMAIN runs'[r] = {"report", "statements", "findings", "reconciliation"}
             /\ runs'[r].report = runs[r].report /\ runs'[r].statements = runs[r].statements
             /\ runs'[r].findings = runs[r].findings
             /\ runs'[r].reconciliation = IF r = scan.run THEN rows ELSE runs[r].reconciliation
  <2>1. CASE r = scan.run
    <3>1. runs'[r] = [runs[r] EXCEPT !.reconciliation = rows]
      BY <1>1, <2>1
    <3> QED
      BY <1>4, <2>1, <3>1
  <2>2. CASE r # scan.run
    <3>1. runs'[r] = runs[r]
      BY <1>1, <2>2
    <3> QED
      BY <2>2, <3>1 DEF AnalysisInv, RunsInv
  <2> QED
    BY <2>1, <2>2
<1>7. RunsInv'
  <2>1. PICK S : runs \in Seq(S)
    BY DEF AnalysisInv, RunsInv
  <2>2. runs' \in Seq(S \cup {[runs[scan.run] EXCEPT !.reconciliation = rows]})
        /\ Len(runs') = Len(runs)
    <3> DEFINE e == [runs[scan.run] EXCEPT !.reconciliation = rows]
    <3>1. runs \in Seq(S \cup {e})
      BY <2>1, SeqMonotonic
    <3>2. runs' = [runs EXCEPT ![scan.run] = e]
      BY <1>1
    <3>3. scan.run \in 1 .. Len(runs)
      BY <1>2, <2>1
    <3> HIDE DEF e
    <3>4. runs' \in Seq(S \cup {e}) /\ Len(runs') = Len(runs)
      BY <3>1, <3>2, <3>3, ExceptSeq
    <3> QED
      BY <3>4 DEF e
  <2>3. \A r \in DOMAIN runs' :
          /\ DOMAIN runs'[r] = {"report", "statements", "findings", "reconciliation"}
          /\ runs'[r].statements \subseteq Statements
    BY <1>5, <1>6 DEF AnalysisInv, RunsInv
  <2>4. Len(runs') <= MaxRuns
    BY <2>2 DEF AnalysisInv, RunsInv
  <2> QED
    BY <2>2, <2>3, <2>4 DEF RunsInv
<1>8. ProposalsInv'
  BY <1>1, <1>5, <1>6 DEF AnalysisInv, ProposalsInv
<1>9. ReconciledWithQuickBooks'
  <2> SUFFICES ASSUME NEW r \in DOMAIN runs', NEW k \in DOMAIN runs'[r].reconciliation,
                      runs'[r].reconciliation[k].status # "no_source"
               PROVE  RowStands(runs'[r].reconciliation[k], k, runs'[r].report, runs'[r].statements)
    BY DEF RowStands, ReconciledWithQuickBooks
  <2>1. CASE r = scan.run
    BY <1>2, <1>3, <1>5, <1>6, <2>1
  <2>2. CASE r # scan.run
    BY <1>5, <1>6, <2>2, RowsStand DEF AnalysisInv
  <2> QED
    BY <2>1, <2>2
<1>10. CompanyInv' /\ ScanInv'
  BY <1>1 DEF AnalysisInv, CompanyInv, ScanInv, AtRest
<1> QED
  BY <1>7, <1>8, <1>9, <1>10 DEF AnalysisInv

LEMMA AnalysisNextInv == AnalysisInv /\ [AnalysisNext]_analysisVars => AnalysisInv'
<1> SUFFICES ASSUME AnalysisInv, [AnalysisNext]_analysisVars
             PROVE  AnalysisInv'
  OBVIOUS
<1>1. ASSUME UNCHANGED <<scan, runs, proposals>>, CompanyInv'
      PROVE  AnalysisInv'
  BY <1>1 DEF AnalysisInv, ScanInv, RunsInv, ProposalsInv, ReconciledWithQuickBooks
<1>2. ASSUME NEW n \in DOMAIN Documents, Record(n) \/ Delete(n)
      PROVE  AnalysisInv'
  <2>1. CompanyInv'
    BY <1>2, AnalysisAssumption DEF Record, Delete, AnalysisInv, CompanyInv
  <2> QED
    BY <1>1, <1>2, <2>1 DEF Record, Delete
<1>3. ASSUME NEW s \in Statements, MapStatement(s)
      PROVE  AnalysisInv'
  <2>1. CompanyInv'
    BY <1>3 DEF MapStatement, AnalysisInv, CompanyInv
  <2> QED
    BY <1>1, <1>3, <2>1 DEF MapStatement
<1>4. CASE StartScan
  <2>1. /\ UNCHANGED <<company, changes, mapped, runs, proposals>> /\ Len(runs) < MaxRuns
        /\ \E report : scan' = Pull(0, report, mapped)
    BY <1>4 DEF StartScan
  <2>2. ScanInv'
    BY <2>1 DEF AnalysisInv, CompanyInv, ScanInv, Pull, Kinds
  <2> QED
    BY <2>1, <2>2 DEF AnalysisInv, CompanyInv, RunsInv, ProposalsInv, ReconciledWithQuickBooks
<1>5. ASSUME NEW p \in DOMAIN proposals, NEW v \in {"approved", "rejected"}, Decide(p, v)
      PROVE  AnalysisInv'
  <2>1. /\ UNCHANGED <<company, changes, mapped, scan, runs>>
        /\ proposals' = [proposals EXCEPT ![p] = v]
    BY <1>5 DEF Decide
  <2>2. ProposalsInv'
    BY <2>1 DEF AnalysisInv, ProposalsInv
  <2> QED
    BY <2>1, <2>2 DEF AnalysisInv, CompanyInv, ScanInv, RunsInv, ReconciledWithQuickBooks
<1>6. CASE ScanFails \/ LoseScan
  <2>1. scan' = AtRest /\ UNCHANGED <<company, changes, mapped, runs, proposals>>
    BY <1>6 DEF ScanFails, LoseScan
  <2> QED
    BY <2>1 DEF AnalysisInv, CompanyInv, ScanInv, RunsInv, ProposalsInv, ReconciledWithQuickBooks
<1>7. CASE UNCHANGED analysisVars
  BY <1>7 DEF analysisVars, AnalysisInv, CompanyInv, ScanInv, RunsInv, ProposalsInv,
     ReconciledWithQuickBooks
<1> QED
  BY <1>2, <1>3, <1>4, <1>5, <1>6, <1>7, ReadPageInv, PersistInv, ReleaseInv, RefreshInv
     DEF AnalysisNext

\* The inductive invariant of the analysis: a refresh works with the report and the statements
\* of the run it refreshes, and what a run says of an account agrees with both.
THEOREM AnalysisInvariant == AnalysisSpec => []AnalysisInv
  BY AnalysisInitInv, AnalysisNextInv, PTL DEF AnalysisSpec

\* The books, the pull, the runs and the proposals are of their types.
THEOREM AnalysisTypeCorrect == AnalysisSpec => []AnalysisTypeOK
<1>1. AnalysisInv => AnalysisTypeOK
  <2> SUFFICES ASSUME AnalysisInv PROVE AnalysisTypeOK
    OBVIOUS
  <2>1. \A r \in DOMAIN runs : r \in 1 .. Len(runs)
    BY DEF AnalysisInv, RunsInv
  <2>2. Len(runs) \in Nat
    BY DEF AnalysisInv, RunsInv
  <2> QED
    BY <2>1, <2>2 DEF AnalysisInv, CompanyInv, ScanInv, RunsInv, ProposalsInv, AnalysisTypeOK
<1> QED
  BY <1>1, AnalysisInvariant, PTL

\* Whatever comes and goes between the report and the last page, and after a release, a
\* reconciliation on record states the balance QuickBooks reported, if it reported one, and is
\* reconciled just if the last statement its run holds for the account closes at it.
THEOREM ReconciledWithQuickBooksHolds == AnalysisSpec => []ReconciledWithQuickBooks
<1>1. AnalysisInv => ReconciledWithQuickBooks
  BY DEF AnalysisInv
<1> QED
  BY <1>1, AnalysisInvariant, PTL

\* What a stored scan adds are proposals nobody has seen.
LEMMA PersistAdds ==
  ASSUME Persist
  PROVE  \A p \in DOMAIN proposals : p \in DOMAIN proposals' /\ proposals'[p] = proposals[p]
<1> DEFINE found == Found(Docs(scan.pulled), scan.report, scan.statements)
<1>1. /\ ProposalsOf(found) \cap DOMAIN proposals = {}
      /\ proposals' = [p \in ProposalsOf(found) \cup DOMAIN proposals |->
                         IF p \in ProposalsOf(found) THEN "detected" ELSE proposals[p]]
  BY DEF Persist, Storable
<1> HIDE DEF found
<1> QED
  BY <1>1

\* A step of the analysis leaves every proposal on record, and none that was decided is
\* open again.
LEMMA StepOutlives ==
  ASSUME [AnalysisNext]_analysisVars, NEW p \in DOMAIN proposals
  PROVE  /\ p \in DOMAIN proposals'
         /\ proposals[p] # "detected" => proposals'[p] # "detected"
<1>1. CASE Persist
  BY <1>1, PersistAdds
<1>2. ASSUME NEW q \in DOMAIN proposals, Release(q)
      PROVE  /\ p \in DOMAIN proposals'
             /\ proposals[p] # "detected" => proposals'[p] # "detected"
  BY <1>2 DEF Release
<1>3. ASSUME NEW q \in DOMAIN proposals, NEW v \in {"approved", "rejected"}, Decide(q, v)
      PROVE  /\ p \in DOMAIN proposals'
             /\ proposals[p] # "detected" => proposals'[p] # "detected"
  BY <1>3 DEF Decide
<1>4. ASSUME \/ \E n \in DOMAIN Documents : Record(n) \/ Delete(n)
             \/ \E s \in Statements : MapStatement(s)
             \/ StartScan \/ ReadPage \/ ScanFails \/ LoseScan \/ Refresh
             \/ UNCHANGED analysisVars
      PROVE  UNCHANGED proposals
  BY <1>4 DEF Record, Delete, MapStatement, StartScan, ReadPage, ScanFails, LoseScan, Refresh,
     analysisVars
<1> QED
  BY <1>1, <1>2, <1>3, <1>4 DEF AnalysisNext

\* What every step keeps of the proposals.
OutlivesScan ==
  \A p \in DOMAIN proposals :
    /\ p \in DOMAIN proposals'
    /\ proposals[p] # "detected" => proposals'[p] # "detected"

\* Whatever is scanned again, and from whatever books, proposals of earlier runs stay and
\* keep what an operator decided about them.
THEOREM ScansKeepDecisions == AnalysisSpec => DecisionsOutliveScans
<1>1. [AnalysisNext]_analysisVars => OutlivesScan
  BY StepOutlives DEF OutlivesScan
<1>2. DecisionsOutliveScans <=> [][OutlivesScan]_analysisVars
  BY DEF DecisionsOutliveScans, OutlivesScan
<1> QED
  BY <1>1, <1>2, PTL DEF AnalysisSpec
=============================================================================
