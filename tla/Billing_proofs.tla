--------------------------- MODULE Billing_proofs ---------------------------
(***************************************************************************)
(* Proofs about Billing for any number of payments, jobs and plans: the    *)
(* laws of sums, then in layers what each job holds and how far the        *)
(* receipts are numbered (TypeInv); which one job may still grant a        *)
(* payment (GrantInv); the months of the plan in force; the balance of the *)
(* credits (CreditInv).  Last, those about Payouts (DueInv).               *)
(***************************************************************************)
EXTENDS Billing, Payouts, FiniteSetTheorems, WellFoundedInduction, TLAPS

-----------------------------------------------------------------------------
(***************************************************************************)
(* Sums.  SumFunction is a fold, defined by a recursive function: such a   *)
(* function exists (SumExists), is unique (SumUnique), adds its elements   *)
(* in any order (TotalsSplit); each by a least counterexample, the         *)
(* induction theorems taking an operator as a parameter.                   *)
(***************************************************************************)
First(s) == CHOOSE x \in s : TRUE
Adds(f, g, S) ==
    \A s \in SUBSET S : g[s] = IF s = {} THEN 0 ELSE f[First(s)] + g[s \ {First(s)}]
Adding(f, g, S) ==
    [s \in SUBSET S |-> IF s = {} THEN 0 ELSE f[First(s)] + g[s \ {First(s)}]]

LEMMA FirstIn == \A s : s # {} => First(s) \in s
BY DEF First

LEMMA Least ==
    ASSUME NEW B, B \subseteq Nat, B # {}
    PROVE  \E n \in B : \A m \in B : n <= m
<1>1. PICK n \in B : \A m \in B : ~(<<m, n>> \in OpToRel(<, Nat))
  BY NatLessThanWellFounded, WFMin
<1>2. \A m \in B : ~(m < n)
  BY <1>1 DEF OpToRel
<1> QED
  BY <1>2

LEMMA Smaller ==
    ASSUME NEW s, IsFiniteSet(s), NEW x \in s
    PROVE  /\ IsFiniteSet(s \ {x}) /\ Cardinality(s) \in Nat /\ Cardinality(s \ {x}) \in Nat
           /\ Cardinality(s \ {x}) < Cardinality(s)
<1>1. IsFiniteSet(s \ {x}) /\ Cardinality(s \ {x}) = Cardinality(s) - 1
  BY FS_RemoveElement
<1>2. Cardinality(s) \in Nat /\ Cardinality(s \ {x}) \in Nat
  BY <1>1, FS_CardinalityType
<1> QED
  BY <1>1, <1>2

\* A sum over subsets is what it is, whatever function computes it
LEMMA SumUnique ==
    ASSUME NEW S, IsFiniteSet(S), NEW f, \A x \in S : f[x] \in Int,
           NEW g, NEW h, Adds(f, g, S), Adds(f, h, S)
    PROVE  \A s \in SUBSET S : g[s] = h[s] /\ g[s] \in Int
<1> DEFINE wrong(s) == ~(g[s] = h[s] /\ g[s] \in Int)
           sizes == {n \in Nat : \E s \in SUBSET S : Cardinality(s) = n /\ wrong(s)}
<1> SUFFICES ASSUME \E s \in SUBSET S : wrong(s) PROVE FALSE
  OBVIOUS
<1>f. \A s \in SUBSET S : IsFiniteSet(s) /\ Cardinality(s) \in Nat
  BY FS_Subset, FS_CardinalityType
<1>1. sizes # {} /\ sizes \subseteq Nat
  BY <1>f
<1>2. PICK n \in sizes : \A m \in sizes : n <= m
  BY <1>1, Least
<1>3. PICK s \in SUBSET S : Cardinality(s) = n /\ wrong(s)
  BY <1>2
<1>4. s # {}
  <2>1. s = {} => g[s] = 0 /\ h[s] = 0
    BY DEF Adds
  <2> QED
    BY <1>3, <2>1
<1> DEFINE x == First(s)
           r == s \ {x}
<1>5. x \in s /\ x \in S
  BY <1>4, FirstIn
<1>6. r \in SUBSET S /\ Cardinality(r) \in Nat /\ Cardinality(r) < n
  BY <1>f, <1>3, <1>5, Smaller
<1>7. ~wrong(r)
  BY <1>2, <1>6
<1>8. g[s] = f[x] + g[r] /\ h[s] = f[x] + h[r]
  BY <1>4 DEF Adds
<1> QED
  BY <1>3, <1>5, <1>7, <1>8

LEMMA AddsOnLess ==
    ASSUME NEW S, NEW f, NEW g, Adds(f, g, S), NEW T \in SUBSET S
    PROVE  Adds(f, g, T)
BY DEF Adds

LEMMA AddingAdds ==
    ASSUME NEW S, NEW f, NEW g, g = Adding(f, g, S)
    PROVE  Adds(f, g, S)
BY Zenon DEF Adding, Adds

\* The function that the library's folds choose exists
LEMMA SumExists ==
    ASSUME NEW S, IsFiniteSet(S), NEW f, \A x \in S : f[x] \in Int
    PROVE  \E g : g = Adding(f, g, S)
<1> DEFINE has(T) == \E g : g = Adding(f, g, T)
           sizes == {n \in Nat : \E T \in SUBSET S : Cardinality(T) = n /\ ~has(T)}
<1> SUFFICES ASSUME ~has(S) PROVE FALSE
  OBVIOUS
<1>f. \A s \in SUBSET S : IsFiniteSet(s) /\ Cardinality(s) \in Nat
  BY FS_Subset, FS_CardinalityType
<1>1. sizes # {} /\ sizes \subseteq Nat
  BY <1>f
<1>2. PICK n \in sizes : \A m \in sizes : n <= m
  BY <1>1, Least
<1>3. PICK T \in SUBSET S : Cardinality(T) = n /\ ~has(T)
  BY <1>2
<1> DEFINE sum(U) == CHOOSE g : g = Adding(f, g, U)
           rest(s) == s \ {First(s)}
           total == [s \in SUBSET T |-> IF s = {} THEN 0 ELSE f[First(s)] + sum(rest(s))[rest(s)]]
<1>4. ASSUME NEW s \in SUBSET T, s # {}
      PROVE  /\ rest(s) \in SUBSET T /\ has(rest(s))
             /\ First(s) \in s /\ First(s) \in T
  <2>1. First(s) \in s
    BY <1>4, FirstIn
  <2>2. Cardinality(rest(s)) < Cardinality(T) /\ Cardinality(rest(s)) \in Nat
    <3>1. First(s) \in T /\ rest(s) \in SUBSET (T \ {First(s)})
      BY <2>1
    <3>2. IsFiniteSet(T \ {First(s)}) /\ Cardinality(T \ {First(s)}) < Cardinality(T)
          /\ Cardinality(T \ {First(s)}) \in Nat /\ Cardinality(T) \in Nat
      BY <1>f, <3>1, Smaller
    <3>3. Cardinality(rest(s)) <= Cardinality(T \ {First(s)}) /\ Cardinality(rest(s)) \in Nat
      BY <3>1, <3>2, FS_Subset, FS_CardinalityType
    <3> QED
      BY <3>2, <3>3
  <2>3. has(rest(s))
    <3>1. rest(s) \in SUBSET S
      OBVIOUS
    <3>2. ~has(rest(s)) => Cardinality(rest(s)) \in sizes
      BY <2>2, <3>1
    <3> QED
      BY <1>2, <1>3, <2>2, <3>2
  <2> QED
    BY <2>1, <2>3
<1>5. ASSUME NEW s \in SUBSET T, s # {} PROVE sum(rest(s)) = Adding(f, sum(rest(s)), rest(s))
  <2>1. has(rest(s))
    BY <1>4, <1>5
  <2> QED
    BY <2>1
<1>6. ASSUME NEW s \in SUBSET T, s # {} PROVE total[rest(s)] = sum(rest(s))[rest(s)]
  <2> DEFINE u == rest(s)
             v == rest(u)
  <2>1. u \in SUBSET T /\ Adds(f, sum(u), u)
    BY <1>4, <1>5, <1>6, AddingAdds
  <2>2. CASE u = {}
    BY <2>1, <2>2 DEF Adds
  <2>3. CASE u # {}
    <3>1. v \in SUBSET u /\ Adds(f, sum(v), v) /\ First(u) \in u
      BY <1>4, <1>5, <2>1, <2>3, AddingAdds
    <3>2. Adds(f, sum(u), v)
      BY <2>1, <3>1, AddsOnLess
    <3>3. IsFiniteSet(v) /\ \A x \in v : f[x] \in Int
      BY <1>f, <2>1, <3>1
    <3>4. sum(u)[v] = sum(v)[v]
      BY <3>1, <3>2, <3>3, SumUnique
    <3>5. sum(u)[u] = f[First(u)] + sum(u)[v]
      BY <2>1, <2>3 DEF Adds
    <3> QED
      BY <2>1, <2>3, <3>4, <3>5
  <2> QED
    BY <2>2, <2>3
<1>7. total = Adding(f, total, T)
  <2>1. ASSUME NEW s \in SUBSET T
        PROVE  total[s] = IF s = {} THEN 0 ELSE f[First(s)] + total[rest(s)]
    <3>1. CASE s = {}
      BY <3>1
    <3>2. CASE s # {}
      <4>1. total[s] = f[First(s)] + sum(rest(s))[rest(s)]
        BY <3>2
      <4>2. total[rest(s)] = sum(rest(s))[rest(s)]
        BY <1>6, <3>2
      <4> HIDE DEF total, sum
      <4> QED
        BY <3>2, <4>1, <4>2
    <3> QED
      BY <3>1, <3>2
  <2>2. total = [s \in SUBSET T |-> total[s]]
    OBVIOUS
  <2> HIDE DEF total, sum
  <2>3. [s \in SUBSET T |-> total[s]]
        = [s \in SUBSET T |-> IF s = {} THEN 0 ELSE f[First(s)] + total[rest(s)]]
    BY <2>1
  <2> QED
    BY <2>2, <2>3 DEF Adding
<1> QED
  BY <1>3, <1>7

Totals(f, S) == CHOOSE g : g = Adding(f, g, S)

LEMMA SumIsTotal == \A f, S : SumFunctionOnSet(f, S) = Totals(f, S)[S]
BY Zenon DEF SumFunctionOnSet, FoldFunctionOnSet, MapThenFoldSet, Totals, Adding, First

LEMMA TotalsAdd ==
    ASSUME NEW S, IsFiniteSet(S), NEW f, \A x \in S : f[x] \in Int
    PROVE  /\ Adds(f, Totals(f, S), S)
           /\ \A T \in SUBSET S : Totals(f, S)[T] \in Int
<1>1. Totals(f, S) = Adding(f, Totals(f, S), S)
  BY SumExists DEF Totals
<1>2. Adds(f, Totals(f, S), S)
  BY <1>1, AddingAdds
<1> QED
  BY <1>2, SumUnique

\* Any element may be added last
LEMMA TotalsSplit ==
    ASSUME NEW S, IsFiniteSet(S), NEW f, \A x \in S : f[x] \in Int,
           NEW T \in SUBSET S, NEW x \in T
    PROVE  Totals(f, S)[T] = f[x] + Totals(f, S)[T \ {x}]
<1> DEFINE G == Totals(f, S)
           wrong(U) == \E y \in U : G[U] # f[y] + G[U \ {y}]
           sizes == {n \in Nat : \E U \in SUBSET S : Cardinality(U) = n /\ wrong(U)}
<1> SUFFICES ASSUME wrong(T) PROVE FALSE
  OBVIOUS
<1>a. Adds(f, G, S) /\ \A U \in SUBSET S : G[U] \in Int
  BY TotalsAdd
<1> HIDE DEF G
<1>f. \A s \in SUBSET S : IsFiniteSet(s) /\ Cardinality(s) \in Nat
  BY FS_Subset, FS_CardinalityType
<1>1. sizes # {} /\ sizes \subseteq Nat
  BY <1>f
<1>2. PICK n \in sizes : \A m \in sizes : n <= m
  BY <1>1, Least
<1>3. PICK U \in SUBSET S : Cardinality(U) = n /\ wrong(U)
  BY <1>2
<1>4. PICK y \in U : G[U] # f[y] + G[U \ {y}]
  BY <1>3
<1> DEFINE z == First(U)
           both == U \ {y, z}
<1>5. z \in U /\ G[U] = f[z] + G[U \ {z}]
  BY <1>a, <1>4, FirstIn DEF Adds
<1> HIDE DEF z
<1>6. z # y
  BY <1>4, <1>5
<1>7. \A w \in U : U \ {w} \in SUBSET S /\ ~wrong(U \ {w})
  <2> SUFFICES ASSUME NEW w \in U PROVE ~wrong(U \ {w})
    OBVIOUS
  <2>1. Cardinality(U \ {w}) < n /\ Cardinality(U \ {w}) \in Nat /\ U \ {w} \in SUBSET S
    BY <1>f, <1>3, Smaller
  <2>2. wrong(U \ {w}) => Cardinality(U \ {w}) \in sizes
    BY <2>1
  <2> QED
    BY <1>2, <1>3, <2>1, <2>2
<1>8. G[U \ {z}] = f[y] + G[both]
  <2>1. y \in U \ {z} /\ (U \ {z}) \ {y} = both
    BY <1>4, <1>6
  <2> QED
    BY <1>5, <1>7, <2>1
<1>9. G[U \ {y}] = f[z] + G[both]
  <2>1. z \in U \ {y} /\ (U \ {y}) \ {z} = both
    BY <1>5, <1>6
  <2> QED
    BY <1>4, <1>7, <2>1
<1>10. f[y] \in Int /\ f[z] \in Int /\ G[both] \in Int
  BY <1>a, <1>4, <1>5
<1> QED
  BY <1>4, <1>5, <1>8, <1>9, <1>10

\* The library's sum of a function
LEMMA SumIs ==
    ASSUME NEW S, NEW f \in [S -> Int]
    PROVE  SumFunction(f) = Totals(f, S)[S]
<1>1. DOMAIN f = S
  OBVIOUS
<1> QED
  BY <1>1, SumIsTotal DEF SumFunction

LEMMA SumInt ==
    ASSUME NEW S, IsFiniteSet(S), NEW f \in [S -> Int]
    PROVE  SumFunction(f) \in Int
BY SumIs, TotalsAdd

\* One value of a function changes its sum by as much
LEMMA SumUpdate ==
    ASSUME NEW S, IsFiniteSet(S), NEW f \in [S -> Int], NEW x \in S, NEW v \in Int
    PROVE  SumFunction([f EXCEPT ![x] = v]) = SumFunction(f) - f[x] + v
<1> DEFINE h == [f EXCEPT ![x] = v]
           r == S \ {x}
<1>1. h \in [S -> Int] /\ h[x] = v /\ \A y \in r : h[y] = f[y]
  OBVIOUS
<1> HIDE DEF h
<1>2. SumFunction(f) = f[x] + Totals(f, S)[r] /\ SumFunction(h) = v + Totals(h, S)[r]
  <2>1. SumFunction(f) = Totals(f, S)[S] /\ SumFunction(h) = Totals(h, S)[S]
    BY <1>1, SumIs
  <2>2. S \in SUBSET S
    OBVIOUS
  <2>3. Totals(f, S)[S] = f[x] + Totals(f, S)[r]
    <3>1. \A y \in S : f[y] \in Int
      OBVIOUS
    <3> QED
      BY <2>2, <3>1, TotalsSplit
  <2>4. Totals(h, S)[S] = h[x] + Totals(h, S)[r]
    <3>1. \A y \in S : h[y] \in Int
      BY <1>1
    <3> QED
      BY <2>2, <3>1, TotalsSplit
  <2> QED
    BY <1>1, <2>1, <2>3, <2>4
<1>3. IsFiniteSet(r) /\ \A y \in r : f[y] \in Int
  BY FS_Subset
<1>4. Adds(f, Totals(f, S), r) /\ Adds(h, Totals(h, S), r)
  <2>1. Adds(f, Totals(f, S), S) /\ Adds(h, Totals(h, S), S)
    BY <1>1, TotalsAdd
  <2> QED
    BY <2>1, AddsOnLess
<1>5. Adds(f, Totals(h, S), r)
  BY <1>1, <1>4, FirstIn DEF Adds
<1>6. Totals(f, S)[r] = Totals(h, S)[r] /\ Totals(f, S)[r] \in Int
  BY <1>3, <1>4, <1>5, SumUnique
<1> QED
  BY <1>2, <1>6 DEF h

LEMMA SumZero ==
    ASSUME NEW S, IsFiniteSet(S), NEW f \in [S -> Int], \A x \in S : f[x] = 0
    PROVE  SumFunction(f) = 0
<1> DEFINE g == [s \in SUBSET S |-> 0]
<1>1. Adds(f, g, S)
  BY FirstIn DEF Adds
<1>2. Adds(f, Totals(f, S), S)
  BY TotalsAdd
<1> QED
  BY <1>1, <1>2, SumIs, SumUnique
-----------------------------------------------------------------------------
(***************************************************************************)
(* Layer 1: types, and the numbers of the receipts.  The number a job is   *)
(* about to give is at most one more than the highest given, so that no    *)
(* number is skipped.                                                      *)
(***************************************************************************)
Confirms == [at : {"check", "fail", "claim", "grant"}, payment : Payments]
Numbering == [at : {"receipt", "number"}, payment : Payments, attempt : 1..MaxAttempts,
              grants : BOOLEAN, number : Nat]
Extending == [at : {"extend"}, payment : Payments, sub : Rows]
Quoting == [at : {"quote"}, size : BatchSizes, credits : Nat]
Prints == [at : {"take", "print", "return"}, size : BatchSizes, taken : Nat]
Busy == Confirms \cup Numbering \cup Extending \cup Quoting \cup Prints

Numbered == {p \in Payments : receipt[p] # 0}
InSequence == {receipt[p] : p \in Numbered} = 1..Cardinality(Numbered)
NextNumber(j) == At(j, "number") => job[j].number \in 1..(Cardinality(Numbered) + 1)

PayOK ==
    /\ status \in [Payments -> {"none", "PENDING"} \cup Ending]
    /\ ordered \subseteq Payments /\ late \subseteq Payments
    /\ checkout \in [Payments -> {"idle", "created", "accepted", "closing", "over"}]
    /\ flexpay \in [Payments -> {"none", "waiting", "paid", "refused"}]
PlanOK ==
    /\ sub \in Rows /\ month \in 0..MaxMonths /\ changes \in 0..MaxChanges
    /\ due \in Int /\ crossed \in BOOLEAN
CountsOK ==
    /\ credits \in Nat /\ printed \in 0..MaxPrinted
    /\ granted \in [Payments -> Nat] /\ spent \in Nat /\ lost \in Nat
JobsOK ==
    /\ job \in [Jobs -> {Idle} \cup Busy]
    /\ \A j \in Jobs : At(j, "extend") /\ job[j].sub # NoRow => sub # NoRow  \* a row stays
ReceiptsOK ==
    /\ receipt \in [Payments -> Nat]
    /\ InSequence
    /\ \A j \in Jobs : NextNumber(j)

TypeInv == PayOK /\ PlanOK /\ CountsOK /\ JobsOK /\ ReceiptsOK

LEMMA JobAt ==
    ASSUME JobsOK, NEW j \in Jobs
    PROVE  /\ job[j].at \in {"check", "fail", "claim", "grant"} => job[j] \in Confirms
           /\ job[j].at \in {"receipt", "number"} => job[j] \in Numbering
           /\ job[j].at = "extend" => job[j] \in Extending
           /\ job[j].at = "quote" => job[j] \in Quoting
           /\ job[j].at \in {"take", "print", "return"} => job[j] \in Prints
           /\ job[j].at = "idle" => job[j] = Idle
<1>1. job[j] \in {Idle} \cup Busy
  BY DEF JobsOK
<1>2. \A k \in Confirms : k.at \in {"check", "fail", "claim", "grant"}
  BY DEF Confirms
<1>3. \A k \in Numbering : k.at \in {"receipt", "number"}
  BY DEF Numbering
<1>4. \A k \in Extending : k.at = "extend"
  BY DEF Extending
<1>5. \A k \in Quoting : k.at = "quote"
  BY DEF Quoting
<1>6. \A k \in Prints : k.at \in {"take", "print", "return"}
  BY DEF Prints
<1>7. Idle.at = "idle"
  BY DEF Idle
<1> QED
  BY <1>1, <1>2, <1>3, <1>4, <1>5, <1>6, <1>7 DEF Busy

LEMMA NumberedFinite == IsFiniteSet(Numbered) /\ Cardinality(Numbered) \in Nat
                        /\ Cardinality(Numbered) <= Cardinality(Payments)
BY PaymentsAssumption, FS_Subset, FS_CardinalityType DEF Numbered

LEMMA TypeInvImplies == TypeInv => TypeOK
<1> SUFFICES ASSUME TypeInv PROVE TypeOK
  OBVIOUS
<1>1. \A j \in Jobs : LET k == job[j] IN
         \/ k = Idle
         \/ k.at \in {"check", "fail", "claim", "grant"} /\ k.payment \in Payments
         \/ /\ k.at \in {"receipt", "number"} /\ k.payment \in Payments
            /\ k.attempt \in 1..MaxAttempts /\ k.grants \in BOOLEAN /\ k.number \in Nat
         \/ k.at = "extend" /\ k.payment \in Payments /\ k.sub \in Rows
         \/ k.at = "quote" /\ k.size \in BatchSizes /\ k.credits \in Nat
         \/ k.at \in {"take", "print", "return"} /\ k.size \in BatchSizes /\ k.taken \in Nat
  BY DEF TypeInv, JobsOK, Busy, Confirms, Numbering, Extending, Quoting, Prints
<1>2. receipt \in [Payments -> 0..Cardinality(Payments)]
  <2>1. receipt \in [Payments -> Nat] /\ InSequence
    BY DEF TypeInv, ReceiptsOK
  <2>2. Cardinality(Payments) \in Nat
    BY PaymentsAssumption, FS_CardinalityType
  <2>3. ASSUME NEW p \in Payments PROVE receipt[p] \in 0..Cardinality(Payments)
    <3>1. CASE receipt[p] = 0
      BY <2>2, <3>1
    <3>2. CASE receipt[p] # 0
      <4>1. receipt[p] \in 1..Cardinality(Numbered)
        BY <2>1, <3>2 DEF InSequence, Numbered
      <4> QED
        BY <2>2, <4>1, NumberedFinite
    <3> QED
      BY <3>1, <3>2
  <2> QED
    BY <2>1, <2>3
<1> QED
  BY <1>1, <1>2 DEF TypeInv, PayOK, PlanOK, CountsOK, TypeOK

LEMMA PlanBounds ==
    /\ MaxMonths \in Nat /\ MaxChanges \in Nat
    /\ \A p \in Payments : Plan[p] \in Plans
    /\ NoPlan \notin Plans \cup {FreePlan} /\ FreePlan \notin Plans
BY PlanAssumption

LEMMA OfferBounds ==
    \A o \in Offers : o[1] \in Plans \cup {FreePlan} /\ o[2] \in Nat /\ o[3] \in BOOLEAN
BY PlanAssumption

LEMMA InitTypeInv == Init => TypeInv
<1> SUFFICES ASSUME Init PROVE TypeInv
  OBVIOUS
<1>1. Numbered = {}
  BY DEF Init, Numbered
<1>2. InSequence
  BY <1>1, FS_EmptySet DEF InSequence
<1>3. \A j \in Jobs : NextNumber(j)
  BY DEF Init, NextNumber, At, Idle
<1>4. PayOK
  BY DEF Init, PayOK
<1>5. PlanOK
  <2>1. sub \in Rows
    BY DEF Init, Rows
  <2>2. month \in 0..MaxMonths /\ changes \in 0..MaxChanges
    BY PlanBounds DEF Init
  <2>3. due \in Int
    BY DEF Init
  <2>4. crossed \in BOOLEAN
    BY Zenon DEF Init
  <2> QED
    BY <2>1, <2>2, <2>3, <2>4 DEF PlanOK
<1>6. CountsOK
  BY PrintAssumption DEF Init, CountsOK
<1>7. JobsOK
  BY DEF Init, JobsOK, At, Idle
<1>8. ReceiptsOK
  BY <1>2, <1>3 DEF Init, ReceiptsOK
<1> QED
  BY <1>4, <1>5, <1>6, <1>7, <1>8 DEF TypeInv

\* The highest number given is how many were given
LEMMA HighestNumber ==
    ASSUME ReceiptsOK, NEW p \in Payments
    PROVE  Max(Numbers) = Cardinality(Numbered)
<1> DEFINE n == Cardinality(Numbered)
<1>1. n \in Nat /\ \A q \in Numbered : receipt[q] \in 1..n
  BY NumberedFinite DEF ReceiptsOK, InSequence
<1>2. \A q \in Payments : receipt[q] \in 0..n
  BY <1>1 DEF Numbered, ReceiptsOK
<1>3. \A x \in Numbers : x \in 0..n
  BY <1>2 DEF Numbers
<1>4. n \in Numbers
  <2>1. CASE n = 0
    BY <1>2, <2>1 DEF Numbers
  <2>2. CASE n # 0
    <3>1. n \in 1..n
      BY <1>1, <2>2
    <3>2. PICK q \in Numbered : receipt[q] = n
      BY <3>1 DEF ReceiptsOK, InSequence
    <3> QED
      BY <3>2 DEF Numbered, Numbers
  <2> QED
    BY <2>1, <2>2
<1> HIDE DEF n
<1>5. \A x \in Numbers : (\A y \in Numbers : x >= y) => x = n
  BY <1>1, <1>3, <1>4
<1>6. \A y \in Numbers : n >= y
  BY <1>1, <1>3
<1> QED
  BY <1>4, <1>5, <1>6 DEF Max, n

LEMMA BeyondType == \A n \in BatchSizes : Beyond(n) \subseteq Nat
<1> SUFFICES ASSUME NEW n \in BatchSizes, NEW r \in 0..Included PROVE n - Min({n, r}) \in Nat
  BY DEF Beyond
<1>1. n \in Nat /\ r \in Nat
  BY PrintAssumption
<1>2. Min({n, r}) = IF n <= r THEN n ELSE r
  <2> DEFINE m == IF n <= r THEN n ELSE r
  <2>1. m \in {n, r} /\ \A y \in {n, r} : m <= y
    BY <1>1
  <2>2. \A x \in {n, r} : (\A y \in {n, r} : x <= y) => x = m
    BY <1>1
  <2> QED
    BY <2>1, <2>2 DEF Min
<1> QED
  BY <1>1, <1>2

LEMMA StepTypeInv == TypeInv /\ [Next]_vars => TypeInv'
<1> SUFFICES ASSUME TypeInv, [Next]_vars PROVE TypeInv'
  OBVIOUS
<1>a. PayOK /\ PlanOK /\ CountsOK /\ JobsOK /\ ReceiptsOK
  BY DEF TypeInv
\* What a step leaves alone, and the parts most steps change
<1>p. UNCHANGED <<status, payVars>> => PayOK'
  BY <1>a DEF PayOK, payVars
<1>s. UNCHANGED planVars => PlanOK'
  BY <1>a DEF PlanOK, planVars
<1>c. UNCHANGED <<credits, granted, printVars>> => CountsOK'
  BY <1>a DEF CountsOK, printVars
<1>u. UNCHANGED <<receipt, job>> => ReceiptsOK'
  BY <1>a DEF ReceiptsOK, InSequence, NextNumber, Numbered, At
<1>v. UNCHANGED job /\ (UNCHANGED planVars \/ UNCHANGED sub \/ sub' # NoRow) => JobsOK'
  BY <1>a DEF JobsOK, At, planVars
<1>o. ASSUME NEW j \in Jobs, NEW k \in {Idle} \cup Busy, Goto(j, k)
      PROVE  job'[j] = k /\ \A i \in Jobs : i # j => job'[i] = job[i]
  BY <1>a, <1>o DEF JobsOK, Goto
<1>g. ASSUME NEW j \in Jobs, NEW k \in {Idle} \cup Busy, Goto(j, k),
             k.at = "extend" => k.sub = sub, UNCHANGED planVars \/ UNCHANGED sub \/ sub' # NoRow
      PROVE  JobsOK'
  <2>1. job'[j] = k /\ \A i \in Jobs : i # j => job'[i] = job[i]
    BY <1>o, <1>g
  <2>2. job' \in [Jobs -> {Idle} \cup Busy]
    BY <1>a, <1>g DEF JobsOK, Goto
  <2>3. UNCHANGED planVars => sub' = sub
    BY DEF planVars
  <2> QED
    BY <1>a, <1>g, <2>1, <2>2, <2>3 DEF JobsOK, At
<1>j. ASSUME NEW j \in Jobs, NEW k \in {Idle} \cup Busy, Goto(j, k),
             k.at \notin {"number", "extend"}, UNCHANGED receipt,
             UNCHANGED planVars \/ UNCHANGED sub \/ sub' # NoRow
      PROVE  JobsOK' /\ ReceiptsOK'
  <2>1. Numbered' = Numbered /\ (InSequence <=> InSequence')
    BY <1>j DEF Numbered, InSequence
  <2>2. job'[j] = k /\ \A i \in Jobs : i # j => job'[i] = job[i]
    BY <1>j, <1>o
  <2>3. \A i \in Jobs : NextNumber(i)'
    BY <1>a, <1>j, <2>1, <2>2 DEF ReceiptsOK, NextNumber, At
  <2> QED
    BY <1>a, <1>g, <1>j, <2>1, <2>3 DEF ReceiptsOK
<1>d. ASSUME NEW j \in Jobs, Done(j), UNCHANGED receipt,
             UNCHANGED planVars \/ UNCHANGED sub \/ sub' # NoRow
      PROVE  JobsOK' /\ ReceiptsOK'
  BY <1>j, <1>d DEF Done, Idle
<1>n. ASSUME NEW j \in Jobs, NEW step \in {"check", "fail", "claim", "grant"},
             job[j].payment \in Payments, Proceed(j, step), UNCHANGED receipt, UNCHANGED planVars
      PROVE  JobsOK' /\ ReceiptsOK'
  <2>1. [at |-> step, payment |-> job[j].payment] \in Busy
    BY <1>n DEF Busy, Confirms
  <2> QED
    BY <1>j, <1>n, <2>1 DEF Proceed
<1>q. ASSUME NEW p \in Payments, NEW attempt \in 1..MaxAttempts, NEW grants, grants \in BOOLEAN
      PROVE  /\ AskNumber(p, attempt, grants) \in Busy
             /\ AskNumber(p, attempt, grants).at = "receipt"
  BY <1>q DEF AskNumber, Busy, Numbering
<1>b. ASSUME NEW p \in Payments
      PROVE  /\ AskNumber(p, 1, TRUE) \in Busy /\ AskNumber(p, 1, TRUE).at = "receipt"
             /\ AskNumber(p, 1, FALSE) \in Busy /\ AskNumber(p, 1, FALSE).at = "receipt"
  <2>1. 1 \in 1..MaxAttempts
    BY AttemptsAssumption
  <2> QED
    BY <2>1 DEF AskNumber, Busy, Numbering
<1>1. ASSUME NEW p \in Payments, Paying(p) PROVE TypeInv'
  <2>1. UNCHANGED <<receipt, credits, planVars, job, granted, printVars>>
    BY <1>1 DEF Paying, CreatePayment, FlexPayAccepts, StoreOrderNumber, StartFails, CloseCheckout,
       RequestDies, PayerDecides, QuarterPasses, Checkout
  <2>2. status' \in [Payments -> {"none", "PENDING"} \cup Ending]
    BY <1>1, <1>a DEF Paying, CreatePayment, FlexPayAccepts, StoreOrderNumber, StartFails,
       CloseCheckout, RequestDies, PayerDecides, QuarterPasses, Checkout, PayOK, SetStatus, Ending
  <2>3. ordered' \subseteq Payments /\ late' \subseteq Payments
    BY <1>1, <1>a DEF Paying, CreatePayment, FlexPayAccepts, StoreOrderNumber, StartFails,
       CloseCheckout, RequestDies, PayerDecides, QuarterPasses, PayOK
  <2>4. checkout' \in [Payments -> {"idle", "created", "accepted", "closing", "over"}]
    BY <1>1, <1>a DEF Paying, CreatePayment, FlexPayAccepts, StoreOrderNumber, StartFails,
       CloseCheckout, RequestDies, PayerDecides, QuarterPasses, Checkout, PayOK
  <2>5. flexpay' \in [Payments -> {"none", "waiting", "paid", "refused"}]
    BY <1>1, <1>a DEF Paying, CreatePayment, FlexPayAccepts, StoreOrderNumber, StartFails,
       CloseCheckout, RequestDies, PayerDecides, QuarterPasses, PayOK
  <2> QED
    BY <1>s, <1>c, <1>u, <1>v, <2>1, <2>2, <2>3, <2>4, <2>5 DEF TypeInv, PayOK
<1>2. ASSUME NEW j \in Jobs, NEW p \in Payments,
             HandleCallback(j, p) \/ CheckStatus(j, p) \/ AskReceipt(j, p)
      PROVE  TypeInv'
  <2>1. PICK k \in Busy : Start(j, k) /\ k.at \notin {"number", "extend"}
    <3>1. [at |-> "fail", payment |-> p] \in Busy /\ [at |-> "check", payment |-> p] \in Busy
      BY DEF Busy, Confirms
    <3> QED
      BY <1>2, <1>b, <3>1 DEF HandleCallback, CheckStatus, AskReceipt
  <2> QED
    BY <1>p, <1>s, <1>c, <1>j, <2>1 DEF Start, TypeInv
<1>3. ASSUME NEW j \in Jobs, Verify(j) PROVE TypeInv'
  <2>1. job[j].payment \in Payments
    BY <1>3, <1>a, JobAt DEF Verify, At, Confirms
  <2>2. JobsOK' /\ ReceiptsOK'
    BY <1>3, <1>n, <1>d, <2>1 DEF Verify
  <2> QED
    BY <1>3, <1>p, <1>s, <1>c, <2>2 DEF Verify, TypeInv
<1>4. ASSUME NEW j \in Jobs, Fail(j) PROVE TypeInv'
  <2>1. job[j].payment \in Payments
    BY <1>4, <1>a, JobAt DEF Fail, At, Confirms
  <2>2. JobsOK' /\ ReceiptsOK' /\ PlanOK' /\ CountsOK'
    BY <1>4, <1>d, <1>s, <1>c DEF Fail
  <2>3. PayOK'
    BY <1>4, <1>a, <2>1 DEF Fail, PayOK, Ending, payVars
  <2> QED
    BY <2>2, <2>3 DEF TypeInv
<1>5. ASSUME NEW j \in Jobs, Claim(j) PROVE TypeInv'
  <2>1. job[j].payment \in Payments
    BY <1>5, <1>a, JobAt DEF Claim, At, Confirms
  <2>2. JobsOK' /\ ReceiptsOK'
    BY <1>5, <1>d, <1>j, <1>b, <2>1 DEF Claim
  <2>3. PayOK'
    BY <1>5, <1>a, <2>1 DEF Claim, SetStatus, PayOK, Ending, payVars
  <2> QED
    BY <1>5, <1>s, <1>c, <2>2, <2>3 DEF Claim, TypeInv
<1>6. ASSUME NEW j \in Jobs, ReadNumbers(j) PROVE TypeInv'
  <2> DEFINE n == Cardinality(Numbered) + 1
             k == [job[j] EXCEPT !.at = "number", !.number = Max(Numbers) + 1]
  <2>1. job[j] \in Numbering
    BY <1>6, <1>a, JobAt DEF ReadNumbers, At
  <2>2. Max(Numbers) + 1 = n /\ n \in Nat /\ n \in 1..n
    BY <1>a, <2>1, HighestNumber, NumberedFinite DEF Numbering
  <2>3. k \in Busy /\ k.number = n /\ k.at = "number"
    BY <2>1, <2>2 DEF Numbering, Busy
  <2>4. Goto(j, k) /\ UNCHANGED <<status, receipt, credits, planVars, granted, payVars, printVars>>
    BY <1>6 DEF ReadNumbers
  <2> HIDE DEF k
  <2>5. Numbered' = Numbered /\ (InSequence <=> InSequence')
    BY <2>4 DEF Numbered, InSequence
  <2>6. \A i \in Jobs : NextNumber(i)'
    BY <1>a, <1>o, <2>2, <2>3, <2>4, <2>5 DEF ReceiptsOK, NextNumber, At
  <2>7. ReceiptsOK' /\ JobsOK'
    BY <1>a, <1>g, <2>3, <2>4, <2>5, <2>6 DEF ReceiptsOK
  <2> QED
    BY <1>p, <1>s, <1>c, <2>4, <2>7 DEF TypeInv
<1>7. ASSUME NEW j \in Jobs, AssignNumber(j) PROVE TypeInv'
  <2> DEFINE p == job[j].payment
  <2>1. job[j] \in Numbering /\ p \in Payments
    BY <1>7, <1>a, JobAt DEF AssignNumber, At, Numbering
  <2>2. PayOK' /\ PlanOK' /\ CountsOK'
    BY <1>7, <1>p, <1>s, <1>c DEF AssignNumber
  <2>c. UNCHANGED planVars
    BY <1>7 DEF AssignNumber
  <2>3. AfterNumber(j) /\ UNCHANGED receipt => JobsOK' /\ ReceiptsOK'
    BY <1>d, <1>n, <2>1, <2>c DEF AfterNumber
  <2>4. CASE receipt[p] # 0 \/ job[j].number \in Numbers
    <3>1. CASE AfterNumber(j) /\ UNCHANGED receipt
      BY <2>2, <2>3, <3>1 DEF TypeInv
    <3>2. CASE /\ job[j].attempt < MaxAttempts /\ UNCHANGED receipt
               /\ Goto(j, AskNumber(p, job[j].attempt + 1, job[j].grants))
      <4>1. job[j].attempt + 1 \in 1..MaxAttempts /\ job[j].grants \in BOOLEAN
        BY <2>1, <3>2, AttemptsAssumption DEF Numbering
      <4> QED
        BY <1>j, <1>q, <2>1, <2>2, <2>c, <3>2, <4>1 DEF TypeInv
    <3> QED
      BY <1>7, <2>4, <3>1, <3>2 DEF AssignNumber
  <2>5. CASE receipt[p] = 0 /\ job[j].number \notin Numbers
    <3> DEFINE n == Cardinality(Numbered)
               k == job[j].number
    <3>1. receipt' = [receipt EXCEPT ![p] = k] /\ AfterNumber(j)
      BY <1>7, <2>5 DEF AssignNumber
    <3>2. PICK z \in {Idle} \cup Busy : Goto(j, z) /\ z.at \notin {"number", "extend"}
      <4>1. [at |-> "grant", payment |-> p] \in Busy
        BY <2>1 DEF Busy, Confirms
      <4> QED
        BY <3>1, <4>1 DEF AfterNumber, Proceed, Done, Idle
    <3>3. job'[j] = z /\ JobsOK' /\ \A i \in Jobs : i # j => job'[i] = job[i]
      BY <1>g, <1>o, <2>c, <3>2
    <3>4. n \in Nat /\ k \in 1..(n + 1) /\ {receipt[q] : q \in Numbered} = 1..n
      BY <1>7, <1>a, NumberedFinite DEF AssignNumber, ReceiptsOK, NextNumber, InSequence
    <3>5. k = n + 1
      <4>1. {receipt[q] : q \in Numbered} \subseteq Numbers
        BY DEF Numbered, Numbers
      <4> QED
        BY <2>5, <3>4, <4>1
    <3> HIDE DEF k
    <3>6. receipt' \in [Payments -> Nat] /\ receipt'[p] = n + 1
          /\ \A q \in Payments : q # p => receipt'[q] = receipt[q]
      BY <1>a, <2>1, <3>1, <3>4, <3>5 DEF ReceiptsOK
    <3>7. Numbered' = Numbered \cup {p} /\ p \notin Numbered
      BY <2>1, <2>5, <3>4, <3>6 DEF Numbered
    <3>8. Cardinality(Numbered)' = n + 1
      BY <3>7, NumberedFinite, FS_AddElement
    <3>9. {receipt'[q] : q \in Numbered'} = {receipt[q] : q \in Numbered} \cup {n + 1}
      <4>1. \A q \in Numbered : receipt'[q] = receipt[q]
        BY <3>6, <3>7 DEF Numbered
      <4> QED
        BY <3>6, <3>7, <4>1
    <3>10. InSequence'
      <4>1. (1..n) \cup {n + 1} = 1..(n + 1)
        BY <3>4
      <4> QED
        BY <3>4, <3>8, <3>9, <4>1 DEF InSequence
    <3>11. \A i \in Jobs : NextNumber(i)'
      BY <1>a, <3>2, <3>3, <3>4, <3>8 DEF ReceiptsOK, NextNumber, At
    <3> QED
      BY <2>2, <3>3, <3>6, <3>10, <3>11 DEF ReceiptsOK, TypeInv
  <2> QED
    BY <2>4, <2>5
<1>8. ASSUME NEW j \in Jobs, AddCredits(j) PROVE TypeInv'
  <2>1. job[j].payment \in Payments
    BY <1>8, <1>a, JobAt DEF AddCredits, At, Confirms
  <2>2. CountsOK'
    BY <1>8, <1>a, <2>1, QuantityAssumption DEF AddCredits, CountsOK, Granted, printVars
  <2> QED
    BY <1>8, <1>p, <1>s, <1>d, <2>2 DEF AddCredits, TypeInv
<1>9. ASSUME NEW j \in Jobs, ReadPlan(j) PROVE TypeInv'
  <2> DEFINE k == [at |-> "extend", payment |-> job[j].payment, sub |-> sub]
  <2>1. job[j].payment \in Payments
    BY <1>9, <1>a, JobAt DEF ReadPlan, At, Confirms
  <2>2. k \in Busy /\ k.sub = sub /\ k.at = "extend"
    BY <1>a, <2>1 DEF Busy, Extending, PlanOK
  <2>3. Goto(j, k) /\ UNCHANGED <<status, receipt, credits, planVars, granted, payVars, printVars>>
    BY <1>9 DEF ReadPlan
  <2> HIDE DEF k
  <2>4. Numbered' = Numbered /\ (InSequence <=> InSequence')
    BY <2>3 DEF Numbered, InSequence
  <2>5. \A i \in Jobs : NextNumber(i)'
    BY <1>a, <1>o, <2>2, <2>3, <2>4 DEF ReceiptsOK, NextNumber, At
  <2>6. ReceiptsOK' /\ JobsOK'
    BY <1>a, <1>g, <2>2, <2>3, <2>4, <2>5 DEF ReceiptsOK
  <2> QED
    BY <1>p, <1>s, <1>c, <2>3, <2>6 DEF TypeInv
<1>10. ASSUME NEW j \in Jobs, ExtendPlan(j) PROVE TypeInv'
  <2>1. job[j].payment \in Payments /\ job[j].sub \in Rows /\ At(j, "extend")
    BY <1>10, <1>a, JobAt DEF ExtendPlan, At, Extending
  <2>2. CountsOK'
    BY <1>10, <1>a, <2>1 DEF ExtendPlan, CountsOK, Granted, printVars
  <2>3. job[j].sub # NoRow
    BY <1>10, PlanBounds DEF ExtendPlan, Extends, Running, NoRow, Row
  <2>4. sub \in [plan : Plans \cup {FreePlan}, ends : Nat, active : BOOLEAN]
        /\ job[j].sub \in [plan : Plans \cup {FreePlan}, ends : Nat, active : BOOLEAN]
    BY <1>a, <2>1, <2>3 DEF PlanOK, JobsOK, Rows
  <2>5. sub' = [sub EXCEPT !.ends = job[j].sub.ends + 1]
    BY <1>10 DEF ExtendPlan
  <2>6. sub' \in [plan : Plans \cup {FreePlan}, ends : Nat, active : BOOLEAN]
    BY <2>4, <2>5
  <2>7. sub' # NoRow /\ sub' \in Rows
    BY <2>6, PlanBounds DEF NoRow, Row, Rows
  <2>8. PlanOK'
    BY <1>10, <1>a, <2>7 DEF ExtendPlan, PlanOK, Unseen
  <2> QED
    BY <1>10, <1>p, <1>d, <2>2, <2>7, <2>8 DEF ExtendPlan, TypeInv
<1>r. ASSUME NEW plan \in Plans \cup {FreePlan}, NEW ends \in Nat, NEW active, active \in BOOLEAN
      PROVE  Row(plan, ends, active) \in Rows /\ Row(plan, ends, active) # NoRow
  <2>1. Row(plan, ends, active).plan # NoPlan
    BY PlanBounds DEF Row
  <2>2. NoRow.plan = NoPlan
    BY DEF NoRow, Row
  <2> QED
    BY <1>r, <2>1, <2>2 DEF Row, Rows
<1>m. month \in Nat /\ \A s \in Rows : MonthsLeft(s) \in Nat
  <2>1. month \in Nat /\ \A s \in Rows : s.ends \in Nat
    BY <1>a, PlanBounds DEF PlanOK, Rows, NoRow, Row
  <2> QED
    BY <2>1 DEF MonthsLeft, Running
<1>11. ASSUME NEW j \in Jobs, StartPlan(j) PROVE TypeInv'
  <2> DEFINE new == Row(Plan[job[j].payment], month + 1, TRUE)
  <2>1. job[j].payment \in Payments /\ job[j].sub \in Rows
    BY <1>11, <1>a, JobAt DEF StartPlan, At, Extending
  <2>2. CountsOK'
    <3>1. Granted(job[j].payment) \/ UNCHANGED granted
      BY <1>11 DEF StartPlan
    <3>2. granted' \in [Payments -> Nat]
      BY <1>a, <2>1, <3>1 DEF Granted, CountsOK
    <3> QED
      BY <1>11, <1>a, <3>2 DEF StartPlan, CountsOK, printVars
  <2>3. new \in Rows /\ new # NoRow
    <3>1. Plan[job[j].payment] \in Plans \cup {FreePlan} /\ month + 1 \in Nat
      BY <1>m, <2>1, PlanBounds
    <3>2. new.plan # NoPlan /\ NoRow.plan = NoPlan
      BY <3>1, PlanBounds DEF Row, NoRow
    <3> QED
      BY <3>1, <3>2 DEF Row, Rows
  <2>4. MonthsLeft(sub) \in Nat /\ due \in Int
    BY <1>a, <1>m DEF PlanOK
  <2>5. (UNCHANGED <<sub, due>>) \/ (sub' = new /\ due' \in Int)
    <3> DEFINE given == IF sub.plan = Plan[job[j].payment] THEN 0 ELSE MonthsLeft(sub)
    <3>1. given \in Nat
      BY <2>4
    <3>2. (UNCHANGED <<sub, due>>) \/ (sub' = new /\ due' = due + 1 - given)
      BY <1>11 DEF StartPlan
    <3> HIDE DEF given
    <3>3. due + 1 - given \in Int
      BY <2>4, <3>1
    <3> QED
      BY <3>2, <3>3
  <2> HIDE DEF new
  <2>6. PlanOK'
    BY <1>11, <1>a, <2>3, <2>5 DEF StartPlan, PlanOK, Unseen
  <2> QED
    BY <1>11, <1>p, <1>d, <2>2, <2>3, <2>5, <2>6 DEF StartPlan, TypeInv
<1>12. ASSUME NEW j \in Jobs, NEW n \in BatchSizes, StartPrint(j, n) PROVE TypeInv'
  <2>1. [at |-> "quote", size |-> n, credits |-> credits] \in Busy
    BY <1>a DEF Busy, Quoting, CountsOK
  <2> QED
    BY <1>12, <1>p, <1>s, <1>c, <1>j, <2>1 DEF StartPrint, Start, TypeInv
<1>13. ASSUME NEW j \in Jobs, Quote(j) PROVE TypeInv'
  <2>1. job[j].size \in BatchSizes
    BY <1>13, <1>a, JobAt DEF Quote, At, Quoting
  <2>2. \A n \in Beyond(job[j].size) : [at |-> "take", size |-> job[j].size, taken |-> n] \in Busy
    BY <2>1, BeyondType DEF Busy, Prints
  <2>3. JobsOK' /\ ReceiptsOK'
    BY <1>13, <1>d, <1>j, <2>2 DEF Quote
  <2> QED
    BY <1>13, <1>p, <1>s, <1>c, <2>3 DEF Quote, TypeInv
<1>x. ASSUME NEW j \in Jobs, job[j].at \in {"take", "print", "return"},
             NEW step \in {"take", "print", "return"}
      PROVE  [job[j] EXCEPT !.at = step] \in Busy /\ [job[j] EXCEPT !.at = step].at = step
  <2>1. job[j] \in Prints
    BY <1>a, <1>x, JobAt
  <2> QED
    BY <2>1 DEF Prints, Busy
<1>z. ASSUME NEW j \in Jobs, job[j].at \in {"take", "print", "return"}
      PROVE  job[j].taken \in Nat /\ job[j].size \in Nat
  <2>1. job[j] \in Prints
    BY <1>a, <1>z, JobAt
  <2> QED
    BY <2>1, PrintAssumption DEF Prints
<1>14. ASSUME NEW j \in Jobs, TakeCredits(j) PROVE TypeInv'
  <2>1. JobsOK' /\ ReceiptsOK'
    BY <1>14, <1>d, <1>j, <1>x DEF TakeCredits, At
  <2>2. CountsOK'
    BY <1>14, <1>a, <1>z DEF TakeCredits, At, CountsOK, printVars
  <2> QED
    BY <1>14, <1>p, <1>s, <2>1, <2>2 DEF TakeCredits, TypeInv
<1>15. ASSUME NEW j \in Jobs, MakeTickets(j) PROVE TypeInv'
  <2>1. CountsOK'
    BY <1>15, <1>a, <1>z, PrintAssumption DEF MakeTickets, At, CountsOK
  <2> QED
    BY <1>15, <1>p, <1>s, <1>d, <2>1 DEF MakeTickets, TypeInv
<1>16. ASSUME NEW j \in Jobs, PrintFails(j) PROVE TypeInv'
  <2>1. JobsOK' /\ ReceiptsOK'
    BY <1>16, <1>j, <1>x DEF PrintFails, At
  <2> QED
    BY <1>16, <1>p, <1>s, <1>c, <2>1 DEF PrintFails, TypeInv
<1>17. ASSUME NEW j \in Jobs, RefundCredits(j) PROVE TypeInv'
  <2>1. CountsOK'
    BY <1>17, <1>a, <1>z DEF RefundCredits, At, CountsOK, printVars
  <2> QED
    BY <1>17, <1>p, <1>s, <1>d, <2>1 DEF RefundCredits, TypeInv
<1>18. ASSUME NEW j \in Jobs, Crash(j) PROVE TypeInv'
  <2>1. CountsOK'
    BY <1>18, <1>a, <1>z DEF Crash, CountsOK
  <2> QED
    BY <1>18, <1>p, <1>s, <1>d, <2>1 DEF Crash, TypeInv
<1>y. ASSUME NEW s \in Rows, s # NoRow, ChangePlan(s) PROVE TypeInv'
  <2>1. changes' = changes + 1 /\ changes < MaxChanges /\ sub' = s
        /\ due' = due + MonthsLeft(s) - MonthsLeft(sub)
        /\ UNCHANGED <<status, receipt, credits, month, crossed, job, granted, payVars, printVars>>
    BY <1>y DEF ChangePlan
  <2>2. MonthsLeft(s) \in Nat /\ MonthsLeft(sub) \in Nat
    BY <1>a, <1>m DEF PlanOK
  <2>3. due' \in Int
    BY <1>a, <2>1, <2>2 DEF PlanOK
  <2>4. changes' \in 0..MaxChanges
    BY <1>a, <2>1, PlanBounds DEF PlanOK
  <2>5. PlanOK'
    BY <1>a, <2>1, <2>3, <2>4 DEF PlanOK
  <2> QED
    BY <1>p, <1>c, <1>u, <1>v, <1>y, <2>1, <2>5 DEF TypeInv
<1>19. CASE ChooseFreePlan
  <2> DEFINE s == Row(FreePlan, 0, TRUE)
  <2>1. s \in Rows /\ s # NoRow
    <3>1. s.plan = FreePlan /\ NoRow.plan = NoPlan
      BY DEF Row, NoRow
    <3> QED
      BY <3>1, PlanBounds DEF Row, Rows
  <2>2. ChangePlan(s)
    BY <1>19 DEF ChooseFreePlan
  <2> HIDE DEF s
  <2> QED
    BY <1>y, <2>1, <2>2
<1>20. CASE AdminChanges
  <2>1. PICK o \in Offers : ChangePlan(Row(o[1], IF o[2] = 0 THEN 0 ELSE month + o[2], o[3]))
    BY <1>20 DEF AdminChanges
  <2> DEFINE s == Row(o[1], IF o[2] = 0 THEN 0 ELSE month + o[2], o[3])
  <2>2. s \in Rows /\ s # NoRow
    <3>1. (IF o[2] = 0 THEN 0 ELSE month + o[2]) \in Nat
      BY <1>m, OfferBounds
    <3> QED
      BY <1>r, <3>1, OfferBounds
  <2> HIDE DEF s
  <2> QED
    BY <1>y, <2>1, <2>2 DEF s
<1>21. CASE MonthPasses
  <2>1. month' \in 0..MaxMonths /\ due' \in Int
    BY <1>21, <1>a, PlanBounds DEF MonthPasses, PlanOK
  <2>2. UNCHANGED <<status, receipt, credits, sub, changes, crossed, job, granted, payVars, printVars>>
    BY <1>21 DEF MonthPasses
  <2> QED
    BY <1>a, <1>p, <1>c, <1>u, <1>v, <2>1, <2>2 DEF PlanOK, TypeInv
<1>22. CASE UNCHANGED vars
  BY <1>22, <1>p, <1>s, <1>c, <1>u, <1>v DEF vars, printVars, payVars, TypeInv
<1> QED
  BY <1>1, <1>2, <1>3, <1>4, <1>5, <1>6, <1>7, <1>8, <1>9, <1>10, <1>11, <1>12, <1>13, <1>14,
     <1>15, <1>16, <1>17, <1>18, <1>19, <1>20, <1>21, <1>22
  DEF Next, Confirming, Printing, Changing

\* Every variable of the payments, the plan and the prints holds what the code
\* stores in it; the receipts are never numbered beyond the payments.
THEOREM TypeCorrect == Spec => []TypeOK
<1>1. Spec => []TypeInv
  BY InitTypeInv, StepTypeInv, PTL DEF Spec
<1> QED
  BY <1>1, TypeInvImplies, PTL

-----------------------------------------------------------------------------
(***************************************************************************)
(* Layer 2: who may still grant a payment.  The claim leaves one job that  *)
(* will, before which nothing was granted; every job past the claim, or    *)
(* asking for a receipt, is at a payment FlexPay holds.                    *)
(***************************************************************************)
Granting(j, p) ==
    /\ job[j].at \in {"receipt", "number", "grant", "extend"} /\ job[j].payment = p
    /\ job[j].at \in {"receipt", "number"} => job[j].grants
Knowing(j, p) ==
    job[j].at \in {"claim", "receipt", "number", "grant", "extend"} /\ job[j].payment = p

Asked(p) ==
    /\ checkout[p] = "idle" => status[p] = "none"
    /\ checkout[p] \in {"idle", "created"} => flexpay[p] = "none"
Confirmed(p) ==
    /\ \A j \in Jobs : Knowing(j, p) => flexpay[p] = "paid"
    /\ status[p] = "COMPLETED" \/ receipt[p] # 0 \/ granted[p] # 0 => flexpay[p] = "paid"
OneGrants(p) ==
    /\ \A i, j \in Jobs : Granting(i, p) /\ Granting(j, p) => i = j
    /\ \A j \in Jobs : Granting(j, p) => granted[p] = 0 /\ status[p] \in Ending
    /\ status[p] \notin Ending => granted[p] = 0
    /\ granted[p] <= 1

Good(p) == Asked(p) /\ Confirmed(p) /\ OneGrants(p)
GrantInv == \A p \in Payments : Good(p)

LEMMA InitGrantInv == Init => GrantInv
<1> SUFFICES ASSUME Init, NEW p \in Payments PROVE Good(p)
  BY DEF GrantInv
<1>1. status[p] = "none" /\ flexpay[p] = "none" /\ receipt[p] = 0 /\ granted[p] = 0
  BY DEF Init
<1>2. \A j \in Jobs : ~Granting(j, p) /\ ~Knowing(j, p)
  BY DEF Init, Idle, Granting, Knowing
<1> QED
  BY <1>1, <1>2 DEF Good, Asked, Confirmed, OneGrants, Ending

LEMMA StepGrantInv == TypeInv /\ GrantInv /\ [Next]_vars => GrantInv'
<1> SUFFICES ASSUME TypeInv, GrantInv, [Next]_vars, NEW p \in Payments PROVE Good(p)'
  BY DEF GrantInv
<1>a. PayOK /\ CountsOK /\ JobsOK /\ ReceiptsOK
  BY DEF TypeInv
<1>g. Asked(p) /\ Confirmed(p) /\ OneGrants(p)
  BY DEF GrantInv, Good
\* What a step of a job at the payment, or at another one, leaves alone
<1>o. ASSUME NEW j \in Jobs, NEW k, Goto(j, k)
      PROVE  job'[j] = k /\ \A i \in Jobs : i # j => job'[i] = job[i]
  BY <1>a, <1>o DEF JobsOK, Goto
<1>j. ASSUME NEW j \in Jobs, NEW k, Goto(j, k), Granting(j, p)' => Granting(j, p),
             Knowing(j, p)' => Knowing(j, p) \/ flexpay[p] = "paid",
             status'[p] = status[p], receipt'[p] = receipt[p], granted'[p] = granted[p],
             checkout'[p] = checkout[p], flexpay'[p] = flexpay[p]
      PROVE  Good(p)'
  <2>1. \A i \in Jobs : Granting(i, p)' => Granting(i, p)
    BY <1>o, <1>j DEF Granting
  <2>2. \A i \in Jobs : Knowing(i, p)' => Knowing(i, p) \/ flexpay[p] = "paid"
    BY <1>o, <1>j DEF Knowing
  <2>3. Asked(p)'
    BY <1>g, <1>j DEF Asked
  <2>4. Confirmed(p)'
    BY <1>g, <1>j, <2>2 DEF Confirmed
  <2>5. OneGrants(p)'
    BY <1>g, <1>j, <2>1 DEF OneGrants
  <2> QED
    BY <2>3, <2>4, <2>5 DEF Good
<1>d. ASSUME NEW j \in Jobs, Done(j), UNCHANGED <<status, receipt, granted, payVars>>
      PROVE  Good(p)'
  <2>1. ~Granting(j, p)' /\ ~Knowing(j, p)'
    BY <1>d, <1>o DEF Done, Granting, Knowing, Idle
  <2> QED
    BY <1>d, <1>j, <2>1 DEF Done, payVars
\* Nobody is at the payment but jobs that were
<1>u. ASSUME UNCHANGED <<receipt, granted, job>>
      PROVE  /\ \A i \in Jobs : Granting(i, p)' <=> Granting(i, p)
             /\ \A i \in Jobs : Knowing(i, p)' <=> Knowing(i, p)
  BY <1>u DEF Granting, Knowing
<1>e. ASSUME NEW q \in Payments, q # p, Paying(q) PROVE Good(p)'
  <2>1. UNCHANGED <<receipt, granted, job>>
    BY <1>e DEF Paying, CreatePayment, FlexPayAccepts, StoreOrderNumber, StartFails, CloseCheckout,
       RequestDies, PayerDecides, QuarterPasses, Checkout
  <2>2. status'[p] = status[p] /\ checkout'[p] = checkout[p] /\ flexpay'[p] = flexpay[p]
    BY <1>e, <1>a DEF Paying, CreatePayment, FlexPayAccepts, StoreOrderNumber, StartFails,
       CloseCheckout, RequestDies, PayerDecides, QuarterPasses, Checkout, SetStatus, PayOK
  <2> QED
    BY <1>g, <1>u, <2>1, <2>2 DEF Good, Asked, Confirmed, OneGrants
<1>1. CASE Paying(p)
  <2>1. UNCHANGED <<receipt, granted, job>>
    BY <1>1 DEF Paying, CreatePayment, FlexPayAccepts, StoreOrderNumber, StartFails, CloseCheckout,
       RequestDies, PayerDecides, QuarterPasses, Checkout
  <2>2. \/ checkout[p] = "idle" /\ checkout'[p] = "created" /\ status'[p] = "PENDING"
           /\ flexpay'[p] = flexpay[p]
        \/ /\ checkout[p] # "idle" /\ checkout'[p] \notin {"idle", "created"}
           /\ status'[p] \in {status[p], "FAILED"}
           /\ flexpay'[p] = flexpay[p] \/ checkout[p] = "created"
        \/ /\ checkout'[p] = checkout[p] /\ status'[p] = status[p]
           /\ flexpay'[p] = flexpay[p] \/ flexpay[p] = "waiting"
    BY <1>1, <1>a DEF Paying, CreatePayment, FlexPayAccepts, StoreOrderNumber, StartFails,
       CloseCheckout, RequestDies, PayerDecides, QuarterPasses, Checkout, SetStatus, PayOK
  <2>3. Asked(p)'
    BY <1>g, <2>2 DEF Asked
  <2>4. flexpay[p] = "paid" => flexpay'[p] = "paid"
    BY <1>g, <2>2 DEF Asked
  <2>5. status'[p] = "COMPLETED" => status[p] = "COMPLETED"
    BY <2>2
  <2>6. Confirmed(p)'
    BY <1>g, <1>u, <2>1, <2>4, <2>5 DEF Confirmed
  <2>7. (status[p] \in Ending => status'[p] \in Ending) /\ (checkout[p] = "idle" => status[p] \notin Ending)
    BY <1>g, <2>2 DEF Ending, Asked
  <2>8. OneGrants(p)'
    BY <1>g, <1>u, <2>1, <2>7 DEF OneGrants
  <2> QED
    BY <2>3, <2>6, <2>8 DEF Good
<1>2. ASSUME NEW j \in Jobs, NEW q \in Payments,
             HandleCallback(j, q) \/ CheckStatus(j, q) \/ AskReceipt(j, q)
      PROVE  Good(p)'
  <2>1. PICK k : Start(j, k) /\ (k.at \in {"fail", "check"}
                                 \/ (k = AskNumber(q, 1, FALSE) /\ status[q] = "COMPLETED"))
    <3> DEFINE fail == [at |-> "fail", payment |-> q]
               check == [at |-> "check", payment |-> q]
    <3>1. fail.at = "fail" /\ check.at = "check"
      OBVIOUS
    <3>2. \/ Start(j, fail) \/ Start(j, check)
          \/ Start(j, AskNumber(q, 1, FALSE)) /\ status[q] = "COMPLETED"
      BY <1>2 DEF HandleCallback, CheckStatus, AskReceipt
    <3> QED
      BY <3>1, <3>2
  <2>2. Goto(j, k) /\ UNCHANGED <<status, receipt, granted, payVars>>
    BY <2>1 DEF Start
  <2>3. ~Granting(j, p)'
    BY <1>o, <2>1, <2>2 DEF Granting, AskNumber
  <2>4. Knowing(j, p)' => q = p /\ status[q] = "COMPLETED"
    BY <1>o, <2>1, <2>2 DEF Knowing, AskNumber
  <2>5. Knowing(j, p)' => flexpay[p] = "paid"
    BY <1>g, <2>4 DEF Confirmed
  <2> QED
    BY <1>j, <2>2, <2>3, <2>5 DEF payVars
<1>3. ASSUME NEW j \in Jobs, Verify(j) PROVE Good(p)'
  <2>1. CASE Done(j)
    BY <1>3, <1>d, <2>1 DEF Verify
  <2>2. CASE Proceed(j, "fail")
    <3>1. ~Granting(j, p)' /\ ~Knowing(j, p)'
      BY <1>o, <2>2 DEF Proceed, Granting, Knowing
    <3> QED
      BY <1>3, <1>j, <2>2, <3>1 DEF Verify, Proceed, payVars
  <2>3. CASE flexpay[job[j].payment] = "paid" /\ Proceed(j, "claim")
    <3>1. ~Granting(j, p)' /\ (Knowing(j, p)' => flexpay[p] = "paid")
      BY <1>o, <2>3 DEF Proceed, Granting, Knowing
    <3> QED
      BY <1>3, <1>j, <2>3, <3>1 DEF Verify, Proceed, payVars
  <2> QED
    BY <1>3, <2>1, <2>2, <2>3 DEF Verify
<1>4. ASSUME NEW j \in Jobs, Fail(j) PROVE Good(p)'
  <2>1. status'[p] \in {status[p], "FAILED"} /\ (status'[p] # status[p] => status[p] = "PENDING")
    BY <1>4, <1>a DEF Fail, PayOK
  <2>2. \A i \in Jobs : (Granting(i, p)' => Granting(i, p)) /\ (Knowing(i, p)' => Knowing(i, p))
    BY <1>4, <1>o DEF Fail, Done, Granting, Knowing, Idle
  <2>3. UNCHANGED <<receipt, granted, checkout, flexpay>>
    BY <1>4 DEF Fail, payVars
  <2>4. Asked(p)'
    BY <1>g, <2>1, <2>3 DEF Asked
  <2>5. Confirmed(p)'
    BY <1>g, <2>1, <2>2, <2>3 DEF Confirmed
  <2>6. OneGrants(p)'
    BY <1>g, <2>1, <2>2, <2>3 DEF OneGrants, Ending
  <2> QED
    BY <2>4, <2>5, <2>6 DEF Good
<1>5. ASSUME NEW j \in Jobs, Claim(j) PROVE Good(p)'
  <2> DEFINE q == job[j].payment
  <2>1. q \in Payments /\ job[j].at = "claim"
    BY <1>5, <1>a, JobAt DEF Claim, At, Confirms
  <2>2. CASE status[q] # "PENDING"
    BY <1>5, <1>d, <2>2 DEF Claim
  <2>3. CASE status[q] = "PENDING"
    <3>1. SetStatus(q, "COMPLETED") /\ Goto(j, AskNumber(q, 1, TRUE))
          /\ UNCHANGED <<receipt, granted, checkout, flexpay>>
      BY <1>5, <2>3 DEF Claim, payVars
    <3>2. CASE q # p
      <4>1. ~Granting(j, p)' /\ ~Knowing(j, p)'
        BY <1>o, <3>1, <3>2 DEF AskNumber, Granting, Knowing
      <4>2. status'[p] = status[p]
        BY <1>a, <3>1, <3>2 DEF SetStatus, PayOK
      <4> QED
        BY <1>j, <3>1, <4>1, <4>2
    <3>3. CASE q = p
      <4>1. status'[p] = "COMPLETED"
        BY <1>a, <3>1, <3>3 DEF SetStatus, PayOK
      <4>2. flexpay[p] = "paid"
        BY <1>g, <2>1, <3>3 DEF Confirmed, Knowing
      <4>3. granted[p] = 0 /\ \A i \in Jobs : ~Granting(i, p)
        BY <1>g, <2>3, <3>3 DEF OneGrants, Ending
      <4>4. \A i \in Jobs : Granting(i, p)' => i = j
        BY <1>o, <3>1, <4>3 DEF Granting
      <4>5. Asked(p)'
        BY <1>g, <2>3, <3>1, <3>3 DEF Asked
      <4>6. Confirmed(p)'
        BY <3>1, <4>2 DEF Confirmed
      <4>7. OneGrants(p)'
        BY <3>1, <4>1, <4>3, <4>4 DEF OneGrants, Ending
      <4> QED
        BY <4>5, <4>6, <4>7 DEF Good
    <3> QED
      BY <3>2, <3>3
  <2> QED
    BY <2>2, <2>3
<1>6. ASSUME NEW j \in Jobs, ReadNumbers(j) PROVE Good(p)'
  <2> DEFINE k == [job[j] EXCEPT !.at = "number", !.number = Max(Numbers) + 1]
  <2>1. job[j] \in Numbering /\ job[j].at = "receipt"
    BY <1>6, <1>a, JobAt DEF ReadNumbers, At
  <2>2. k.at = "number" /\ k.payment = job[j].payment /\ k.grants = job[j].grants
    BY <2>1 DEF Numbering
  <2>3. Goto(j, k) /\ UNCHANGED <<status, receipt, granted, payVars>>
    BY <1>6 DEF ReadNumbers
  <2> HIDE DEF k
  <2>4. (Granting(j, p)' => Granting(j, p)) /\ (Knowing(j, p)' => Knowing(j, p))
    BY <1>o, <2>1, <2>2, <2>3 DEF Granting, Knowing
  <2> QED
    BY <1>j, <2>3, <2>4 DEF payVars
\* A number is given or not, asked again or not: the job goes on as it was
<1>7. ASSUME NEW j \in Jobs, AssignNumber(j) PROVE Good(p)'
  <2> DEFINE q == job[j].payment
  <2>1. job[j] \in Numbering /\ q \in Payments /\ job[j].at = "number"
    BY <1>7, <1>a, JobAt DEF AssignNumber, At, Numbering
  <2>2. PICK k : /\ Goto(j, k)
                 /\ \/ k = AskNumber(q, job[j].attempt + 1, job[j].grants)
                    \/ job[j].grants /\ k = [at |-> "grant", payment |-> q]
                    \/ k = Idle
    BY <1>7 DEF AssignNumber, AfterNumber, Proceed, Done
  <2>3. \/ k.at = "receipt" /\ k.payment = q /\ k.grants = job[j].grants
        \/ job[j].grants /\ k.at = "grant" /\ k.payment = q
        \/ k.at = "idle"
    BY <2>2 DEF AskNumber, Idle
  <2>4. \A i \in Jobs : (Granting(i, p)' => Granting(i, p)) /\ (Knowing(i, p)' => Knowing(i, p))
    BY <1>o, <2>1, <2>2, <2>3 DEF Granting, Knowing
  <2>5. receipt'[p] = receipt[p] \/ q = p
    BY <1>7, <1>a, <2>1 DEF AssignNumber, ReceiptsOK
  <2>6. q = p => flexpay[p] = "paid"
    BY <1>g, <2>1 DEF Confirmed, Knowing
  <2>7. UNCHANGED <<status, granted, checkout, flexpay>>
    BY <1>7 DEF AssignNumber, payVars
  <2>8. Asked(p)'
    BY <1>g, <2>7 DEF Asked
  <2>9. Confirmed(p)'
    BY <1>g, <2>4, <2>5, <2>6, <2>7 DEF Confirmed
  <2>10. OneGrants(p)'
    BY <1>g, <2>4, <2>7 DEF OneGrants
  <2> QED
    BY <2>8, <2>9, <2>10 DEF Good
\* The job that grants ends with it
<1>t. ASSUME NEW j \in Jobs, job[j].at \in {"grant", "extend"}, Granted(job[j].payment), Done(j),
             UNCHANGED <<status, receipt, payVars>>
      PROVE  Good(p)'
  <2> DEFINE q == job[j].payment
  <2>1. q \in Payments
    BY <1>a, <1>t, JobAt DEF Confirms, Extending
  <2>2. CASE q # p
    <3>1. ~Granting(j, p)' /\ ~Knowing(j, p)'
      BY <1>t, <1>o DEF Done, Granting, Knowing, Idle
    <3>2. granted'[p] = granted[p]
      BY <1>a, <1>t, <2>2 DEF Granted, CountsOK
    <3> QED
      BY <1>j, <1>t, <3>1, <3>2 DEF Done, payVars
  <2>3. CASE q = p
    <3>1. Granting(j, p) /\ Knowing(j, p)
      BY <1>t, <2>3 DEF Granting, Knowing
    <3>2. flexpay[p] = "paid" /\ granted[p] = 0 /\ status[p] \in Ending
      BY <1>g, <3>1 DEF Confirmed, OneGrants
    <3>3. granted'[p] = 1
      BY <1>a, <1>t, <2>3, <3>2 DEF Granted, CountsOK
    <3>4. \A i \in Jobs : ~Granting(i, p)'
      BY <1>g, <1>t, <1>o, <3>1 DEF OneGrants, Done, Granting, Idle
    <3>5. UNCHANGED <<status, receipt, checkout, flexpay>>
      BY <1>t DEF payVars
    <3>6. Asked(p)'
      BY <1>g, <3>5 DEF Asked
    <3>7. Confirmed(p)'
      BY <3>2, <3>5 DEF Confirmed
    <3>8. OneGrants(p)'
      BY <3>2, <3>3, <3>4, <3>5 DEF OneGrants
    <3> QED
      BY <3>6, <3>7, <3>8 DEF Good
  <2> QED
    BY <2>2, <2>3
<1>8. ASSUME NEW j \in Jobs, AddCredits(j) PROVE Good(p)'
  BY <1>8, <1>t DEF AddCredits, At
<1>9. ASSUME NEW j \in Jobs, ReadPlan(j) PROVE Good(p)'
  <2> DEFINE k == [at |-> "extend", payment |-> job[j].payment, sub |-> sub]
  <2>1. Goto(j, k) /\ UNCHANGED <<status, receipt, granted, payVars>> /\ job[j].at = "grant"
    BY <1>9 DEF ReadPlan, At
  <2>2. k.at = "extend" /\ k.payment = job[j].payment
    OBVIOUS
  <2> HIDE DEF k
  <2>3. (Granting(j, p)' => Granting(j, p)) /\ (Knowing(j, p)' => Knowing(j, p))
    BY <1>o, <2>1, <2>2 DEF Granting, Knowing
  <2> QED
    BY <1>j, <2>1, <2>3 DEF payVars
<1>10. ASSUME NEW j \in Jobs, ExtendPlan(j) PROVE Good(p)'
  BY <1>10, <1>t DEF ExtendPlan, At
<1>11. ASSUME NEW j \in Jobs, StartPlan(j) PROVE Good(p)'
  BY <1>11, <1>t, <1>d DEF StartPlan, At
\* Prints have nothing to do with payments
<1>i. ASSUME NEW j \in Jobs, NEW k, k.at \in {"quote", "take", "print", "return"}, Goto(j, k),
             UNCHANGED <<status, receipt, granted, payVars>>
      PROVE  Good(p)'
  <2>1. ~Granting(j, p)' /\ ~Knowing(j, p)'
    BY <1>i, <1>o DEF Granting, Knowing
  <2> QED
    BY <1>i, <1>j, <2>1 DEF payVars
<1>12. ASSUME NEW j \in Jobs, NEW n \in BatchSizes, StartPrint(j, n) PROVE Good(p)'
  BY <1>12, <1>i DEF StartPrint, Start
<1>13. ASSUME NEW j \in Jobs, Quote(j) PROVE Good(p)'
  BY <1>13, <1>i, <1>d DEF Quote
<1>x. ASSUME NEW j \in Jobs, job[j].at \in {"take", "print", "return"},
             NEW step \in {"take", "print", "return"}
      PROVE  [job[j] EXCEPT !.at = step].at = step
  BY <1>a, <1>x, JobAt DEF Prints
<1>14. ASSUME NEW j \in Jobs, TakeCredits(j) PROVE Good(p)'
  <2> DEFINE k == [job[j] EXCEPT !.at = "print"]
  <2>1. k.at = "print"
    BY <1>14, <1>x DEF TakeCredits, At
  <2>2. (Goto(j, k) \/ Done(j)) /\ UNCHANGED <<status, receipt, granted, payVars>>
    BY <1>14 DEF TakeCredits
  <2> HIDE DEF k
  <2> QED
    BY <1>i, <1>d, <2>1, <2>2
<1>15. ASSUME NEW j \in Jobs, MakeTickets(j) PROVE Good(p)'
  BY <1>15, <1>d DEF MakeTickets
<1>16. ASSUME NEW j \in Jobs, PrintFails(j) PROVE Good(p)'
  <2> DEFINE k == [job[j] EXCEPT !.at = "return"]
  <2>1. k.at = "return"
    BY <1>16, <1>x DEF PrintFails, At
  <2>2. Goto(j, k) /\ UNCHANGED <<status, receipt, granted, payVars>>
    BY <1>16 DEF PrintFails
  <2> HIDE DEF k
  <2> QED
    BY <1>i, <2>1, <2>2
<1>17. ASSUME NEW j \in Jobs, RefundCredits(j) PROVE Good(p)'
  BY <1>17, <1>d DEF RefundCredits
<1>18. ASSUME NEW j \in Jobs, Crash(j) PROVE Good(p)'
  BY <1>18, <1>d DEF Crash
<1>c. ASSUME UNCHANGED <<status, receipt, granted, job, payVars>> PROVE Good(p)'
  BY <1>c, <1>g, <1>u DEF Good, Asked, Confirmed, OneGrants, payVars
<1>19. CASE Changing
  <2>1. UNCHANGED <<status, receipt, granted, job, payVars>>
    BY <1>19 DEF Changing, ChooseFreePlan, AdminChanges, ChangePlan, MonthPasses
  <2> QED
    BY <1>c, <2>1
<1>20. CASE UNCHANGED vars
  BY <1>20, <1>c DEF vars, payVars
<1> QED
  BY <1>e, <1>1, <1>2, <1>3, <1>4, <1>5, <1>6, <1>7, <1>8, <1>9, <1>10, <1>11, <1>12, <1>13, <1>14,
     <1>15, <1>16, <1>17, <1>18, <1>19, <1>20
  DEF Next, Confirming, Printing

LEMMA GrantInvAlways == Spec => []GrantInv
<1>1. Spec => []TypeInv
  BY InitTypeInv, StepTypeInv, PTL DEF Spec
<1> QED
  BY <1>1, InitGrantInv, StepGrantInv, PTL DEF Spec

\* A payment is granted once, and only when FlexPay holds the money: the callback
\* and any number of status checks, receipts asked for and crashes together never
\* grant it again.
THEOREM GrantsOnce == Spec => []GrantedOnce
<1>1. TypeInv /\ GrantInv => GrantedOnce
  <2> SUFFICES ASSUME TypeInv, GrantInv, NEW p \in Payments
               PROVE  granted[p] <= (IF flexpay[p] = "paid" THEN 1 ELSE 0)
    BY DEF GrantedOnce
  <2>1. granted[p] \in Nat
    BY DEF TypeInv, CountsOK
  <2>2. granted[p] <= 1 /\ (granted[p] # 0 => flexpay[p] = "paid")
    BY DEF GrantInv, Good, OneGrants, Confirmed
  <2> QED
    BY <2>1, <2>2
<1>2. Spec => []TypeInv
  BY InitTypeInv, StepTypeInv, PTL DEF Spec
<1> QED
  BY <1>1, <1>2, GrantInvAlways, PTL

\* The receipts are numbered 1, 2, ... in the order they are given, without a gap
\* or a number given twice, and no unpaid payment has one.
THEOREM ReceiptsFollow == Spec => []ReceiptsInSequence
<1>1. TypeInv /\ GrantInv => ReceiptsInSequence
  <2> SUFFICES ASSUME TypeInv, GrantInv PROVE ReceiptsInSequence
    OBVIOUS
  <2>1. InSequence
    BY DEF TypeInv, ReceiptsOK
  <2>2. \A p \in Numbered : flexpay[p] = "paid"
    BY DEF GrantInv, Good, Confirmed, Numbered
  <2> QED
    BY <2>1, <2>2 DEF InSequence, Numbered, ReceiptsInSequence
<1>2. Spec => []TypeInv
  BY InitTypeInv, StepTypeInv, PTL DEF Spec
<1> QED
  BY <1>1, <1>2, GrantInvAlways, PTL

-----------------------------------------------------------------------------
(***************************************************************************)
(* Layer 3: the months of the plan in force.  Until a grant writes over a  *)
(* change it had not seen, the row a grant read is the row it writes.      *)
(***************************************************************************)
LEMMA MonthsType == PlanOK => month \in Nat /\ due \in Int /\ \A s \in Rows : MonthsLeft(s) \in Nat
<1> SUFFICES ASSUME PlanOK PROVE month \in Nat /\ due \in Int /\ \A s \in Rows : MonthsLeft(s) \in Nat
  OBVIOUS
<1>1. month \in Nat /\ due \in Int /\ \A s \in Rows : s.ends \in Nat
  BY PlanBounds DEF PlanOK, Rows, NoRow, Row
<1> QED
  BY <1>1 DEF MonthsLeft, Running

LEMMA InitMonths == Init => MonthsAccounted
<1> SUFFICES ASSUME Init PROVE MonthsLeft(sub) = due
  BY DEF MonthsAccounted
<1>1. sub = NoRow /\ due = 0
  BY DEF Init
<1>2. NoRow.plan \notin Plans
  BY PlanBounds DEF NoRow, Row
<1> QED
  BY <1>1, <1>2 DEF MonthsLeft, Running

LEMMA StepMonths == TypeInv /\ MonthsAccounted /\ [Next]_vars => MonthsAccounted'
<1> SUFFICES ASSUME TypeInv, MonthsAccounted, [Next]_vars, ~crossed' PROVE MonthsLeft(sub)' = due'
  BY DEF MonthsAccounted
<1>a. PlanOK /\ JobsOK
  BY DEF TypeInv
<1>m. month \in Nat /\ due \in Int /\ sub \in Rows /\ \A s \in Rows : s.ends \in Nat /\ MonthsLeft(s) \in Nat
  BY <1>a, MonthsType, PlanBounds DEF PlanOK, Rows, NoRow, Row
<1>g. ~crossed => MonthsLeft(sub) = due
  BY DEF MonthsAccounted
<1>u. ASSUME UNCHANGED planVars PROVE MonthsLeft(sub)' = due'
  BY <1>g, <1>u DEF planVars, MonthsLeft, Running
<1>1. ASSUME NEW p \in Payments, Paying(p) PROVE MonthsLeft(sub)' = due'
  <2>1. UNCHANGED planVars
    BY <1>1 DEF Paying, CreatePayment, FlexPayAccepts, StoreOrderNumber, StartFails, CloseCheckout,
       RequestDies, PayerDecides, QuarterPasses, Checkout
  <2> QED
    BY <1>u, <2>1
<1>2. ASSUME NEW j \in Jobs, Confirming(j), ~ExtendPlan(j), ~StartPlan(j) PROVE MonthsLeft(sub)' = due'
  <2>1. UNCHANGED planVars
    BY <1>2 DEF Confirming, HandleCallback, CheckStatus, AskReceipt, Start, Verify, Fail, Claim,
       ReadNumbers, AssignNumber, AddCredits, ReadPlan
  <2> QED
    BY <1>u, <2>1
<1>3. ASSUME NEW j \in Jobs, Printing(j) \/ Crash(j) PROVE MonthsLeft(sub)' = due'
  <2>1. UNCHANGED planVars
    BY <1>3 DEF Printing, StartPrint, Start, Quote, TakeCredits, MakeTickets, PrintFails,
       RefundCredits, Crash
  <2> QED
    BY <1>u, <2>1
<1>s. ASSUME NEW j \in Jobs, Unseen(j) PROVE sub = job[j].sub /\ MonthsLeft(sub) = due
  <2>1. crossed' = (crossed \/ sub # job[j].sub)
    BY <1>s DEF Unseen
  <2>2. ~(crossed \/ sub # job[j].sub)
    BY <2>1
  <2> QED
    BY <1>g, <2>2
<1>4. ASSUME NEW j \in Jobs, ExtendPlan(j) PROVE MonthsLeft(sub)' = due'
  <2>1. sub = job[j].sub /\ MonthsLeft(sub) = due /\ Running(sub)
    BY <1>4, <1>s DEF ExtendPlan, Extends
  <2>2. sub' = [sub EXCEPT !.ends = sub.ends + 1] /\ due' = due + 1 /\ month' = month
    BY <1>4, <2>1 DEF ExtendPlan
  <2>3. sub'.ends = sub.ends + 1 /\ sub'.plan = sub.plan /\ (sub'.active <=> sub.active)
    BY <1>m, <2>2 DEF Rows, NoRow, Row
  <2>4. Running(sub)'
    BY <1>m, <2>1, <2>2, <2>3 DEF Running
  <2>5. MonthsLeft(sub)' = sub'.ends - month'
    BY <2>4 DEF MonthsLeft, Running
  <2>6. MonthsLeft(sub) = sub.ends - month
    BY <2>1 DEF MonthsLeft
  <2> QED
    BY <1>m, <2>1, <2>2, <2>3, <2>5, <2>6
<1>5. ASSUME NEW j \in Jobs, StartPlan(j) PROVE MonthsLeft(sub)' = due'
  <2> DEFINE plan == Plan[job[j].payment]
             new == Row(plan, month + 1, TRUE)
             given == IF sub.plan = plan THEN 0 ELSE MonthsLeft(sub)
  <2>1. sub = job[j].sub /\ MonthsLeft(sub) = due
    BY <1>5, <1>s DEF StartPlan
  <2>2. plan \in Plans
    BY <1>5, <1>a, JobAt, PlanBounds DEF StartPlan, At, Extending
  <2>3. sub' = new /\ due' = due + 1 - given /\ month' = month
    BY <1>5, <2>1 DEF StartPlan
  <2>4. sub.plan = plan => MonthsLeft(sub) = 0
    BY <1>5, <2>1 DEF StartPlan, Extends, MonthsLeft
  <2>5. given = due
    BY <2>1, <2>4
  <2>6. new.ends = month + 1 /\ new.plan = plan /\ new.active
    BY DEF Row
  <2> HIDE DEF new, plan, given
  <2>7. MonthsLeft(sub)' = 1
    BY <1>m, <2>2, <2>3, <2>6 DEF MonthsLeft, Running
  <2> QED
    BY <1>m, <2>3, <2>5, <2>7
<1>c. ASSUME NEW s \in Rows, ChangePlan(s) PROVE MonthsLeft(sub)' = due'
  <2>1. sub' = s /\ month' = month /\ crossed' = crossed /\ due' = due + MonthsLeft(s) - MonthsLeft(sub)
    BY <1>c DEF ChangePlan
  <2>2. MonthsLeft(sub)' = MonthsLeft(s)
    BY <2>1 DEF MonthsLeft, Running
  <2>3. MonthsLeft(sub) = due
    BY <1>g, <2>1
  <2> QED
    BY <1>m, <2>1, <2>2, <2>3
<1>6. CASE ChooseFreePlan
  <2>1. Row(FreePlan, 0, TRUE) \in Rows
    BY DEF Row, Rows
  <2> QED
    BY <1>6, <1>c, <2>1 DEF ChooseFreePlan
<1>7. CASE AdminChanges
  <2>1. PICK o \in Offers : ChangePlan(Row(o[1], IF o[2] = 0 THEN 0 ELSE month + o[2], o[3]))
    BY <1>7 DEF AdminChanges
  <2> DEFINE n == IF o[2] = 0 THEN 0 ELSE month + o[2]
  <2>2. n \in Nat
    BY <1>m, OfferBounds
  <2> HIDE DEF n
  <2>3. Row(o[1], n, o[3]) \in Rows
    BY <2>2, OfferBounds DEF Row, Rows
  <2> QED
    BY <1>c, <2>1, <2>3 DEF n
<1>8. CASE MonthPasses
  <2>1. month' = month + 1 /\ UNCHANGED <<sub, crossed>> /\ due' = due - (IF Running(sub) THEN 1 ELSE 0)
    BY <1>8 DEF MonthPasses
  <2>2. MonthsLeft(sub) = due
    BY <1>g, <2>1
  <2>3. CASE Running(sub)
    <3>1. sub.ends > month /\ sub.ends \in Nat /\ MonthsLeft(sub) = sub.ends - month
      BY <1>m, <2>3 DEF Running, MonthsLeft
    <3>2. MonthsLeft(sub)' = sub.ends - (month + 1)
      <4>1. Running(sub)' \/ sub.ends = month + 1
        BY <1>m, <2>1, <2>3, <3>1 DEF Running
      <4>2. sub' = sub /\ month' = month + 1
        BY <2>1
      <4>3. Running(sub)' => sub.ends > month + 1
        BY <4>2 DEF Running
      <4> QED
        BY <1>m, <3>1, <4>1, <4>2, <4>3 DEF MonthsLeft
    <3> QED
      BY <1>m, <2>1, <2>2, <2>3, <3>1, <3>2
  <2>4. CASE ~Running(sub)
    <3>1. MonthsLeft(sub) = 0 /\ MonthsLeft(sub)' = 0
      BY <1>m, <2>1, <2>4 DEF Running, MonthsLeft
    <3>2. due' = due - 0 /\ due = 0
      BY <2>1, <2>2, <2>4, <3>1
    <3>3. due' = 0
      BY <3>2
    <3> QED
      BY <3>1, <3>3
  <2> QED
    BY <2>3, <2>4
<1>9. CASE UNCHANGED vars
  BY <1>9, <1>u DEF vars
<1> QED
  BY <1>1, <1>2, <1>3, <1>4, <1>5, <1>6, <1>7, <1>8, <1>9 DEF Next, Changing

\* The months paid or offered are the months the plan in force has still to run,
\* unless a grant wrote over a change of plan it had not seen.
THEOREM NoMonthLost == Spec => []MonthsAccounted
<1>1. Spec => []TypeInv
  BY InitTypeInv, StepTypeInv, PTL DEF Spec
<1> QED
  BY <1>1, InitMonths, StepMonths, PTL DEF Spec

-----------------------------------------------------------------------------
(***************************************************************************)
(* Layer 4: the credits.  A month of the plan buys none (FreeMonths); each *)
(* credit is in the account, held, spent or lost.                          *)
(***************************************************************************)
Hold(k) == IF k.at \in {"print", "return"} THEN k.taken ELSE 0
FreeMonths == \A j \in Jobs : At(j, "extend") => Quantity[job[j].payment] = 0
Balanced == credits + Held + spent + lost = Bought
CreditInv == Balanced /\ FreeMonths

LEMMA HoldType == \A k \in {Idle} \cup Busy : Hold(k) \in Nat
<1> SUFFICES ASSUME NEW k \in {Idle} \cup Busy PROVE Hold(k) \in Nat
  OBVIOUS
<1>1. k \in Prints => k.taken \in Nat
  BY DEF Prints
<1>2. k \notin Prints => k.at \notin {"print", "return"}
  BY DEF Busy, Idle, Confirms, Numbering, Extending, Quoting
<1> QED
  BY <1>1, <1>2 DEF Hold

LEMMA HeldType ==
    ASSUME JobsOK
    PROVE  /\ [j \in Jobs |-> Holding(j)] \in [Jobs -> Int] /\ Held \in Int
           /\ \A j \in Jobs : Holding(j) = Hold(job[j]) /\ Holding(j) \in Nat
<1>1. \A j \in Jobs : Holding(j) = Hold(job[j]) /\ Holding(j) \in Nat
  <2>1. \A j \in Jobs : job[j] \in {Idle} \cup Busy
    BY DEF JobsOK
  <2> QED
    BY <2>1, HoldType DEF Holding, Hold
<1>2. [j \in Jobs |-> Holding(j)] \in [Jobs -> Int]
  BY <1>1
<1>3. Held \in Int
  BY <1>2, SumInt, PaymentsAssumption DEF Held
<1> QED
  BY <1>1, <1>2, <1>3

LEMMA BoughtType ==
    ASSUME CountsOK
    PROVE  /\ [p \in Payments |-> granted[p] * Quantity[p]] \in [Payments -> Int] /\ Bought \in Int
           /\ \A p \in Payments : granted[p] \in Nat /\ Quantity[p] \in Nat
<1>1. \A p \in Payments : granted[p] \in Nat /\ Quantity[p] \in Nat
  BY QuantityAssumption DEF CountsOK
<1>2. \A m, n \in Nat : m * n \in Int
  OBVIOUS
<1>3. [p \in Payments |-> granted[p] * Quantity[p]] \in [Payments -> Int]
  BY <1>1, <1>2
<1>4. Bought \in Int
  BY <1>3, SumInt, PaymentsAssumption DEF Bought
<1> QED
  BY <1>1, <1>3, <1>4

LEMMA InitCreditInv == Init => CreditInv
<1> SUFFICES ASSUME Init PROVE CreditInv
  OBVIOUS
<1>1. TypeInv
  BY InitTypeInv
<1>2. Held = 0
  <2>1. \A j \in Jobs : Holding(j) = 0
    BY DEF Init, Idle, Holding
  <2> QED
    BY <1>1, <2>1, HeldType, SumZero, PaymentsAssumption DEF TypeInv, Held
<1>3. Bought = 0
  <2>1. \A p \in Payments : granted[p] = 0 /\ Quantity[p] \in Nat
    BY QuantityAssumption DEF Init
  <2>2. \A p \in Payments : granted[p] * Quantity[p] = 0
    BY <2>1
  <2> QED
    BY <1>1, <2>2, BoughtType, SumZero, PaymentsAssumption DEF TypeInv, Bought
<1>4. credits = 0 /\ spent = 0 /\ lost = 0
  BY DEF Init
<1>5. FreeMonths
  BY DEF Init, FreeMonths, At, Idle
<1> QED
  BY <1>2, <1>3, <1>4, <1>5 DEF CreditInv, Balanced

LEMMA StepCreditInv == TypeInv /\ TypeInv' /\ CreditInv /\ [Next]_vars => CreditInv'
<1> SUFFICES ASSUME TypeInv, TypeInv', CreditInv, [Next]_vars PROVE CreditInv'
  OBVIOUS
<1>a. CountsOK /\ JobsOK /\ CountsOK' /\ JobsOK'
  BY DEF TypeInv
<1>b. Balanced /\ FreeMonths
  BY DEF CreditInv
<1>i. /\ credits \in Int /\ spent \in Int /\ lost \in Int /\ Held \in Int /\ Bought \in Int
      /\ \A j \in Jobs : Holding(j) \in Nat /\ Holding(j) = Hold(job[j])
  BY <1>a, HeldType, BoughtType DEF CountsOK
<1>o. ASSUME NEW j \in Jobs, NEW k, Goto(j, k)
      PROVE  job'[j] = k /\ \A i \in Jobs : i # j => job'[i] = job[i]
  BY <1>a, <1>o DEF JobsOK, Goto
\* What one job comes to hold, and what one grant buys
<1>h. ASSUME NEW j \in Jobs, NEW k, Goto(j, k) PROVE Held' = Held - Holding(j) + Hold(k)
  <2> DEFINE f == [i \in Jobs |-> Holding(i)]
             h == [i \in Jobs |-> Holding(i)']
  <2>1. job'[j] = k /\ \A i \in Jobs : i # j => job'[i] = job[i]
    BY <1>h, <1>o
  <2>2. f \in [Jobs -> Int]
    BY <1>a, HeldType
  <2>3. Hold(k) \in Int
    <3>1. k \in {Idle} \cup Busy
      BY <1>a, <2>1 DEF JobsOK
    <3> QED
      BY <3>1, HoldType
  <2>4. h = [f EXCEPT ![j] = Hold(k)]
    BY <2>1 DEF Holding, Hold
  <2>5. f[j] = Holding(j)
    OBVIOUS
  <2>6. Held' = SumFunction(h) /\ Held = SumFunction(f)
    BY DEF Held
  <2> DEFINE v == Hold(k)
  <2> HIDE DEF f, h, v
  <2>7. SumFunction(h) = SumFunction(f) - f[j] + v
    <3>1. v \in Int /\ h = [f EXCEPT ![j] = v]
      BY <2>3, <2>4 DEF v
    <3> QED
      BY <2>2, <3>1, SumUpdate, PaymentsAssumption
  <2> QED
    BY <2>5, <2>6, <2>7 DEF v
<1>g. ASSUME NEW p \in Payments, Granted(p) PROVE Bought' = Bought + Quantity[p]
  <2> DEFINE f == [q \in Payments |-> granted[q] * Quantity[q]]
             h == [q \in Payments |-> granted'[q] * Quantity[q]]
             v == (granted[p] + 1) * Quantity[p]
  <2>1. granted'[p] = granted[p] + 1 /\ \A q \in Payments : q # p => granted'[q] = granted[q]
    BY <1>a, <1>g DEF Granted, CountsOK
  <2>2. f \in [Payments -> Int] /\ granted[p] \in Nat /\ Quantity[p] \in Nat
    BY <1>a, BoughtType
  <2>3. \A m, n \in Nat : m * n \in Int /\ (m + 1) * n = m * n + n
    OBVIOUS
  <2>4. v \in Int /\ v = f[p] + Quantity[p]
    BY <2>2, <2>3
  <2>5. h = [f EXCEPT ![p] = v]
    BY <2>1
  <2>6. Bought' = SumFunction(h) /\ Bought = SumFunction(f) /\ f[p] \in Int
    BY <2>2 DEF Bought
  <2>7. Bought \in Int
    BY <1>i
  <2> HIDE DEF f, h, v
  <2>8. SumFunction(h) = SumFunction(f) - f[p] + v
    BY <2>2, <2>4, <2>5, SumUpdate, PaymentsAssumption
  <2> QED
    BY <2>2, <2>4, <2>6, <2>7, <2>8
<1>m. ASSUME NEW j \in Jobs, NEW k, Goto(j, k), k.at # "extend" PROVE FreeMonths'
  BY <1>b, <1>m, <1>o DEF FreeMonths, At
<1>s. ASSUME UNCHANGED granted PROVE Bought' = Bought
  BY <1>s DEF Bought
<1>u. ASSUME UNCHANGED <<credits, granted, spent, lost, job>> PROVE CreditInv'
  BY <1>b, <1>u DEF CreditInv, Balanced, FreeMonths, Held, Holding, Bought, At
\* A job that holds no credits before or after
<1>f. ASSUME NEW j \in Jobs, NEW k, Goto(j, k), job[j].at \notin {"print", "return"},
             k.at \notin {"print", "return", "extend"}, UNCHANGED <<credits, granted, printVars>>
      PROVE  CreditInv'
  <2>1. Held' = Held - Holding(j) + Hold(k) /\ FreeMonths' /\ Bought' = Bought
    BY <1>f, <1>h, <1>m, <1>s
  <2>2. Holding(j) = 0 /\ Hold(k) = 0
    BY <1>f DEF Holding, Hold
  <2>3. Held' = Held
    BY <1>i, <2>1, <2>2
  <2> QED
    BY <1>b, <1>f, <2>1, <2>3 DEF CreditInv, Balanced, printVars
<1>d. ASSUME NEW j \in Jobs, Done(j), job[j].at \notin {"print", "return"},
             UNCHANGED <<credits, granted, printVars>>
      PROVE  CreditInv'
  BY <1>d, <1>f DEF Done, Idle
\* A job that holds none before it ends
<1>n. ASSUME NEW j \in Jobs, Done(j), job[j].at \notin {"print", "return"}
      PROVE  Held' = Held /\ FreeMonths'
  <2>1. Holding(j) = 0 /\ Hold(Idle) = 0 /\ Idle.at # "extend"
    BY <1>n DEF Holding, Hold, Idle
  <2>2. Held' = Held - Holding(j) + Hold(Idle)
    BY <1>n, <1>h DEF Done
  <2>3. FreeMonths'
    BY <1>n, <1>m, <2>1 DEF Done
  <2> QED
    BY <1>i, <2>1, <2>2, <2>3
<1>1. ASSUME NEW p \in Payments, Paying(p) PROVE CreditInv'
  <2>1. UNCHANGED <<credits, granted, spent, lost, job>>
    BY <1>1 DEF Paying, CreatePayment, FlexPayAccepts, StoreOrderNumber, StartFails, CloseCheckout,
       RequestDies, PayerDecides, QuarterPasses, Checkout, printVars
  <2> QED
    BY <1>u, <2>1
<1>2. ASSUME NEW j \in Jobs, NEW k, Start(j, k), k.at \notin {"print", "return", "extend"}
      PROVE  CreditInv'
  BY <1>2, <1>f DEF Start, At
<1>3. ASSUME NEW j \in Jobs, NEW p \in Payments,
             HandleCallback(j, p) \/ CheckStatus(j, p) \/ AskReceipt(j, p)
      PROVE  CreditInv'
  <2> DEFINE fail == [at |-> "fail", payment |-> p]
             check == [at |-> "check", payment |-> p]
             ask == AskNumber(p, 1, FALSE)
  <2>1. fail.at = "fail" /\ check.at = "check" /\ ask.at = "receipt"
    BY DEF AskNumber
  <2>2. Start(j, fail) \/ Start(j, check) \/ Start(j, ask)
    BY <1>3 DEF HandleCallback, CheckStatus, AskReceipt
  <2> HIDE DEF fail, check, ask
  <2> QED
    BY <1>2, <2>1, <2>2
<1>4. ASSUME NEW j \in Jobs, NEW s, s \notin {"print", "return", "extend"}, Proceed(j, s),
             job[j].at \notin {"print", "return"}, UNCHANGED <<credits, granted, printVars>>
      PROVE  CreditInv'
  BY <1>4, <1>f DEF Proceed
<1>5. ASSUME NEW j \in Jobs, Verify(j) \/ Fail(j) PROVE CreditInv'
  <2>1. job[j].at \notin {"print", "return"} /\ UNCHANGED <<credits, granted, printVars>>
    BY <1>5 DEF Verify, Fail, At
  <2>2. Done(j) \/ Proceed(j, "claim") \/ Proceed(j, "fail")
    BY <1>5 DEF Verify, Fail
  <2> QED
    BY <1>4, <1>d, <2>1, <2>2
<1>6. ASSUME NEW j \in Jobs, Claim(j) PROVE CreditInv'
  <2> DEFINE ask == AskNumber(job[j].payment, 1, TRUE)
  <2>1. job[j].at \notin {"print", "return"} /\ UNCHANGED <<credits, granted, printVars>>
    BY <1>6 DEF Claim, At
  <2>2. Done(j) \/ Goto(j, ask)
    BY <1>6 DEF Claim
  <2>3. ask.at = "receipt"
    BY DEF AskNumber
  <2> HIDE DEF ask
  <2> QED
    BY <1>f, <1>d, <2>1, <2>2, <2>3
<1>7. ASSUME NEW j \in Jobs, ReadNumbers(j) PROVE CreditInv'
  <2> DEFINE k == [job[j] EXCEPT !.at = "number", !.number = Max(Numbers) + 1]
  <2>1. job[j].at = "receipt" /\ UNCHANGED <<credits, granted, printVars>> /\ Goto(j, k)
    BY <1>7 DEF ReadNumbers, At
  <2>2. job[j] \in Numbering
    BY <1>a, <2>1, JobAt
  <2>3. k.at = "number"
    BY <2>2 DEF Numbering
  <2> HIDE DEF k
  <2> QED
    BY <1>f, <2>1, <2>3
<1>8. ASSUME NEW j \in Jobs, AssignNumber(j) PROVE CreditInv'
  <2> DEFINE ask == AskNumber(job[j].payment, job[j].attempt + 1, job[j].grants)
  <2>1. job[j].at \notin {"print", "return"} /\ UNCHANGED <<credits, granted, printVars>>
    BY <1>8 DEF AssignNumber, At
  <2>2. AfterNumber(j) \/ Goto(j, ask)
    BY <1>8 DEF AssignNumber
  <2>3. ask.at = "receipt"
    BY DEF AskNumber
  <2> HIDE DEF ask
  <2>4. AfterNumber(j) => Proceed(j, "grant") \/ Done(j)
    BY DEF AfterNumber
  <2> QED
    BY <1>4, <1>f, <1>d, <2>1, <2>2, <2>3, <2>4
\* The grant buys what it adds
<1>9. ASSUME NEW j \in Jobs, AddCredits(j) PROVE CreditInv'
  <2> DEFINE p == job[j].payment
  <2>1. At(j, "grant") /\ Done(j) /\ Granted(p) /\ credits' = credits + Quantity[p]
        /\ UNCHANGED <<spent, lost>>
    BY <1>9 DEF AddCredits, printVars
  <2>2. p \in Payments
    BY <1>a, <2>1, JobAt DEF At, Confirms
  <2>3. Held' = Held /\ FreeMonths'
    BY <1>n, <2>1 DEF At
  <2>4. Bought' = Bought + Quantity[p] /\ Quantity[p] \in Nat
    BY <1>g, <2>1, <2>2, QuantityAssumption
  <2> HIDE DEF p
  <2> QED
    BY <1>b, <1>i, <2>1, <2>3, <2>4 DEF CreditInv, Balanced
<1>10. ASSUME NEW j \in Jobs, ReadPlan(j) PROVE CreditInv'
  <2> DEFINE k == [at |-> "extend", payment |-> job[j].payment, sub |-> sub]
  <2>1. At(j, "grant") /\ Goto(j, k) /\ Quantity[job[j].payment] = 0
        /\ UNCHANGED <<credits, granted, spent, lost>>
    BY <1>10 DEF ReadPlan, printVars
  <2>2. k.at = "extend" /\ k.payment = job[j].payment
    OBVIOUS
  <2> HIDE DEF k
  <2>3. Holding(j) = 0 /\ Hold(k) = 0
    BY <2>1, <2>2 DEF Holding, Hold, At
  <2>4. Held' = Held - Holding(j) + Hold(k) /\ Bought' = Bought
    BY <1>h, <1>s, <2>1
  <2>5. FreeMonths'
    BY <1>b, <1>o, <2>1, <2>2 DEF FreeMonths, At
  <2> QED
    BY <1>b, <1>i, <2>1, <2>3, <2>4, <2>5 DEF CreditInv, Balanced
\* A month buys no credits
<1>11. ASSUME NEW j \in Jobs, ExtendPlan(j) \/ StartPlan(j) PROVE CreditInv'
  <2> DEFINE p == job[j].payment
  <2>1. At(j, "extend") /\ Done(j) /\ UNCHANGED <<credits, spent, lost>>
        /\ (Granted(p) \/ UNCHANGED granted)
    BY <1>11 DEF ExtendPlan, StartPlan, printVars
  <2>2. p \in Payments /\ Quantity[p] = 0
    BY <1>a, <1>b, <2>1, JobAt DEF At, Extending, FreeMonths
  <2>3. Held' = Held /\ FreeMonths'
    BY <1>n, <2>1 DEF At
  <2>4. Bought' = Bought \/ Bought' = Bought + Quantity[p]
    BY <1>g, <1>s, <2>1, <2>2
  <2>5. Bought' = Bought
    BY <1>i, <2>2, <2>4
  <2> QED
    BY <1>b, <2>1, <2>3, <2>5 DEF CreditInv, Balanced
<1>12. ASSUME NEW j \in Jobs, NEW n \in BatchSizes, StartPrint(j, n) PROVE CreditInv'
  <2> DEFINE k == [at |-> "quote", size |-> n, credits |-> credits]
  <2>1. Start(j, k) /\ k.at = "quote"
    BY <1>12 DEF StartPrint
  <2> HIDE DEF k
  <2> QED
    BY <1>2, <2>1
<1>13. ASSUME NEW j \in Jobs, Quote(j) PROVE CreditInv'
  <2>1. job[j].at \notin {"print", "return"} /\ UNCHANGED <<credits, granted, printVars>>
    BY <1>13 DEF Quote, At
  <2>2. CASE Done(j)
    BY <1>d, <2>1, <2>2
  <2>3. ASSUME NEW beyond, Goto(j, [at |-> "take", size |-> job[j].size, taken |-> beyond])
        PROVE  CreditInv'
    <3> DEFINE k == [at |-> "take", size |-> job[j].size, taken |-> beyond]
    <3>1. Goto(j, k) /\ k.at = "take"
      BY <2>3
    <3> HIDE DEF k
    <3> QED
      BY <1>f, <2>1, <3>1
  <2> QED
    BY <1>13, <2>2, <2>3 DEF Quote
\* Credits taken are held
<1>14. ASSUME NEW j \in Jobs, TakeCredits(j) PROVE CreditInv'
  <2> DEFINE k == [job[j] EXCEPT !.at = "print"]
  <2>1. At(j, "take") /\ UNCHANGED <<granted, spent, lost>>
    BY <1>14 DEF TakeCredits, printVars
  <2>2. job[j] \in Prints
    BY <1>a, <2>1, JobAt DEF At
  <2>3. k.at = "print" /\ k.taken = job[j].taken /\ job[j].taken \in Nat
    BY <2>2 DEF Prints
  <2>4. CASE Done(j) /\ UNCHANGED credits
    <3>1. Held' = Held /\ FreeMonths' /\ Bought' = Bought
      BY <1>n, <1>s, <2>1, <2>4 DEF At
    <3> QED
      BY <1>b, <2>1, <2>4, <3>1 DEF CreditInv, Balanced
  <2>5. CASE credits' = credits - job[j].taken /\ Goto(j, k)
    <3> HIDE DEF k
    <3>1. Holding(j) = 0 /\ Hold(k) = job[j].taken
      BY <2>1, <2>3 DEF Holding, Hold, At
    <3>2. Held' = Held - Holding(j) + Hold(k) /\ FreeMonths' /\ Bought' = Bought
      BY <1>h, <1>m, <1>s, <2>1, <2>3, <2>5
    <3> QED
      BY <1>b, <1>i, <2>1, <2>3, <2>5, <3>1, <3>2 DEF CreditInv, Balanced
  <2> QED
    BY <1>14, <2>4, <2>5 DEF TakeCredits
\* What a print held is spent, given back or lost
<1>15. ASSUME NEW j \in Jobs, Done(j), UNCHANGED granted, NEW back \in Int,
              back = Holding(j), credits' + spent' + lost' = credits + spent + lost + back,
              credits' \in Int, spent' \in Int, lost' \in Int
       PROVE  CreditInv'
  <2>1. Hold(Idle) = 0 /\ Idle.at # "extend"
    BY DEF Hold, Idle
  <2>2. Held' = Held - Holding(j) + Hold(Idle) /\ FreeMonths' /\ Bought' = Bought
    BY <1>15, <1>h, <1>m, <1>s, <2>1 DEF Done
  <2> QED
    BY <1>b, <1>i, <1>15, <2>1, <2>2 DEF CreditInv, Balanced
<1>t. credits' \in Int /\ spent' \in Int /\ lost' \in Int
  BY <1>a DEF CountsOK
<1>16. ASSUME NEW j \in Jobs, MakeTickets(j) PROVE CreditInv'
  <2>1. At(j, "print") /\ Done(j) /\ UNCHANGED <<credits, granted, lost>>
        /\ spent' = spent + job[j].taken
    BY <1>16 DEF MakeTickets
  <2>2. Holding(j) = job[j].taken
    BY <2>1 DEF Holding, At
  <2> QED
    BY <1>i, <1>t, <1>15, <2>1, <2>2
<1>17. ASSUME NEW j \in Jobs, PrintFails(j) PROVE CreditInv'
  <2> DEFINE k == [job[j] EXCEPT !.at = "return"]
  <2>1. At(j, "print") /\ UNCHANGED <<credits, granted, spent, lost>> /\ Goto(j, k)
    BY <1>17 DEF PrintFails, printVars
  <2>2. job[j] \in Prints
    BY <1>a, <2>1, JobAt DEF At
  <2>3. k.at = "return" /\ k.taken = job[j].taken
    BY <2>2 DEF Prints
  <2> HIDE DEF k
  <2>4. Hold(k) = Holding(j)
    BY <2>1, <2>3 DEF Holding, Hold, At
  <2>5. Held' = Held - Holding(j) + Hold(k) /\ FreeMonths' /\ Bought' = Bought
    BY <1>h, <1>m, <1>s, <2>1, <2>3
  <2>6. Held' = Held
    BY <1>i, <2>4, <2>5
  <2> QED
    BY <1>b, <2>1, <2>5, <2>6 DEF CreditInv, Balanced
<1>18. ASSUME NEW j \in Jobs, RefundCredits(j) PROVE CreditInv'
  <2>1. At(j, "return") /\ Done(j) /\ UNCHANGED <<granted, spent, lost>>
        /\ credits' = credits + job[j].taken
    BY <1>18 DEF RefundCredits, printVars
  <2>2. Holding(j) = job[j].taken
    BY <2>1 DEF Holding, At
  <2> QED
    BY <1>i, <1>t, <1>15, <2>1, <2>2
<1>19. ASSUME NEW j \in Jobs, Crash(j) PROVE CreditInv'
  <2>1. Done(j) /\ UNCHANGED <<credits, granted, spent>> /\ lost' = lost + Holding(j)
    BY <1>19 DEF Crash, Holding
  <2> QED
    BY <1>i, <1>t, <1>15, <2>1
<1>20. CASE Changing
  <2>1. UNCHANGED <<credits, granted, spent, lost, job>>
    BY <1>20 DEF Changing, ChooseFreePlan, AdminChanges, ChangePlan, MonthPasses, printVars
  <2> QED
    BY <1>u, <2>1
<1>21. CASE UNCHANGED vars
  BY <1>21, <1>u DEF vars
<1> QED
  BY <1>1, <1>3, <1>5, <1>6, <1>7, <1>8, <1>9, <1>10, <1>11, <1>12, <1>13, <1>14, <1>16, <1>17,
     <1>18, <1>19, <1>20, <1>21 DEF Next, Confirming, Printing

\* Every credit bought is in the account, held by a print under way, in a ticket or
\* lost with a print that died, however many payments are confirmed and prints compete.
THEOREM CreditsBalance == Spec => []CreditsAccounted
<1>1. Spec => []TypeInv
  BY InitTypeInv, StepTypeInv, PTL DEF Spec
<1>2. TypeInv /\ CreditInv => CreditsAccounted
  BY DEF TypeInv, CountsOK, CreditInv, Balanced, CreditsAccounted
<1> QED
  BY <1>1, <1>2, InitCreditInv, StepCreditInv, PTL DEF Spec

-----------------------------------------------------------------------------
(***************************************************************************)
(* What organizers are owed (Payouts), the other half of the directory     *)
(* billing/, which sums amounts as Billing does: the types, then what each *)
(* desk has read of the sales, compared with the orders and the rows of    *)
(* now (DueInv).                                                           *)
(***************************************************************************)
\* Types
Shown == [Parts -> Int \cup {None}]
Desk == [at : {"event", "refunded", "completed", "page", "record", "refunds", "closing"},
         for : {"page", "close"} \cup Parts, sent : Int, asShown : BOOLEAN,
         asRead : BOOLEAN, fees : Nat, paid : Shown, amounts : Amounts]

Account == [state : {"open", "closed", "retired"}, current : BOOLEAN, counted : BOOLEAN]
OrdersOK ==
    /\ order \in [Orders -> {"PENDING", "COMPLETED", "REFUNDED"}]
    /\ refund \in [Orders -> {"none", "REQUESTED", "PAID"}]
    /\ selling \in BOOLEAN
    /\ account \in Account
PayoutsOK == payout \in [Parts -> {None} \cup PayoutRows]
\* What is read for the page, the closing or a part stays so
DesksOK ==
    /\ desk \in [Clerks -> {IdleDesk} \cup Desk]
    /\ \A j \in Clerks : /\ DeskAt(j, "page") => desk[j].for = "page"
                         /\ DeskAt(j, "record") => desk[j].for \in Parts
                         /\ DeskAt(j, "refunds") \/ DeskAt(j, "closing") => desk[j].for = "close"

OwedTypes == OrdersOK /\ PayoutsOK /\ DesksOK

LEMMA OwedTypesImply == OwedTypes => PayoutsTypeOK
<1> SUFFICES ASSUME OwedTypes PROVE PayoutsTypeOK
  OBVIOUS
<1>1. \A p \in Parts : payout[p] = None \/ payout[p] \in PayoutRows
  BY DEF OwedTypes, PayoutsOK
<1>2. \A j \in Clerks : desk[j] = IdleDesk \/ desk[j] \in Desk
  BY DEF OwedTypes, DesksOK
<1> QED
  BY <1>1, <1>2 DEF OwedTypes, OrdersOK, Account, Desk, Shown, PayoutsTypeOK

LEMMA InitOwedTypes == PayoutsInit => OwedTypes
  BY DEF PayoutsInit, OwedTypes, OrdersOK, Account, PayoutsOK, DesksOK, DeskAt, IdleDesk

\* Amounts are rounded to cents: never below nothing, as prices are not
LEMMA RoundedInt ==
    ASSUME NEW n \in Int, NEW d \in {10, 100}
    PROVE  Rounded(n, d) \in Int /\ (n >= 0 => Rounded(n, d) >= 0)
<1>1. CASE d = 10
  BY <1>1 DEF Rounded
<1>2. CASE d = 100
  BY <1>2 DEF Rounded
<1> QED
  BY <1>1, <1>2

LEMMA FeeType ==
    ASSUME NEW o \in Orders
    PROVE  Fee(o) \in Nat /\ OrganizerGets(o) \in Int
<1>1. Cart[o].price \in Nat /\ Cart[o].quantity \in Nat /\ FeePayer[o] \in {"BUYER", "ORGANIZER", "NONE"}
  BY SalesAssumption
<1> DEFINE price == Cart[o].price
           quantity == Cart[o].quantity
<1>2. /\ price * quantity \in Nat /\ 9 * price \in Nat
      /\ 9 * price * quantity \in Nat
  BY <1>1
<1>3. Rounded(9 * price, 100) \in Nat /\ Rounded(9 * price * quantity, 100) \in Nat
  BY <1>2, RoundedInt
<1>4. quantity * Rounded(9 * price, 100) \in Nat
  BY <1>1, <1>3
<1>5. Fee(o) \in Nat
  BY <1>1, <1>3, <1>4 DEF Fee
<1>6. OrganizerGets(o) = price * quantity - (IF FeePayer[o] = "ORGANIZER" THEN Fee(o) ELSE 0)
  BY DEF OrganizerGets
<1> QED
  BY <1>2, <1>5, <1>6

\* A sum of naturals is one
LEMMA SumNat ==
    ASSUME NEW S, IsFiniteSet(S), NEW f, \A x \in S : f[x] \in Nat
    PROVE  Totals(f, S)[S] \in Nat
<1> DEFINE G == Totals(f, S)
           sizes == {n \in Nat : \E T \in SUBSET S : Cardinality(T) = n /\ G[T] < 0}
<1>1. Adds(f, G, S) /\ \A T \in SUBSET S : G[T] \in Int
  BY TotalsAdd
<1>2. \A T \in SUBSET S : IsFiniteSet(T) /\ Cardinality(T) \in Nat
  BY FS_Subset, FS_CardinalityType
<1> HIDE DEF G
<1>3. SUFFICES ASSUME G[S] < 0 PROVE FALSE
  BY <1>1 DEF G
<1>4. sizes # {} /\ sizes \subseteq Nat
  BY <1>2, <1>3
<1>5. PICK n \in sizes : \A m \in sizes : n <= m
  BY <1>4, Least
<1>6. PICK T \in SUBSET S : Cardinality(T) = n /\ G[T] < 0
  BY <1>5
<1> DEFINE x == First(T)
<1>7. T # {} /\ G[T] = f[x] + G[T \ {x}] /\ x \in T
  BY <1>1, <1>6, FirstIn DEF Adds
<1> HIDE DEF x
<1>8. f[x] \in Nat /\ G[T \ {x}] \in Int /\ T \ {x} \in SUBSET S
  BY <1>1, <1>7
<1>9. Cardinality(T \ {x}) < n /\ Cardinality(T \ {x}) \in Nat
  BY <1>2, <1>6, <1>7, Smaller
<1>10. G[T \ {x}] < 0
  BY <1>6, <1>7, <1>8, <1>1
<1>11. Cardinality(T \ {x}) \in sizes
  BY <1>8, <1>9, <1>10
<1>12. n <= Cardinality(T \ {x}) /\ n \in Nat
  BY ONLY <1>4, <1>5, <1>11
<1> QED
  BY <1>9, <1>12

LEMMA NetType ==
    RefundedFees \in Nat /\ Collected \in Int /\ Net \in Int
<1> DEFINE back == {o \in Orders : order[o] = "REFUNDED"}
           sold == {o \in Orders : order[o] = "COMPLETED"}
           fee == [o \in Orders |-> Fee(o)]
           gets == [o \in Orders |-> OrganizerGets(o)]
<1>1. IsFiniteSet(back) /\ IsFiniteSet(sold)
  <2>1. IsFiniteSet(Orders)
    BY SalesAssumption
  <2> QED
    BY <2>1, FS_Subset
<1>2. (\A o \in back : fee[o] \in Nat) /\ (\A o \in sold : gets[o] \in Int)
  BY FeeType
<1>3. Totals(fee, back)[back] \in Nat /\ Totals(gets, sold)[sold] \in Int
  <2> HIDE DEF back, sold, fee, gets
  <2> QED
    BY <1>1, <1>2, SumNat, TotalsAdd
<1>4. RefundedFees \in Nat /\ Collected \in Int
  BY <1>3, SumIsTotal DEF RefundedFees, Collected
<1> QED
  BY <1>4 DEF Net

\* The advance on the net of the sales, and what is left after the main part
Advance == Net - Rounded(Net, 10)

\* The two parts of what is owed, whatever was paid
LEMMA SharesAre ==
    ASSUME NEW net \in Int, NEW paid \in Shown
    PROVE  LET shares == Shares(net, paid) IN
           /\ shares \in Amounts
           /\ shares["MAIN"] = IF paid["MAIN"] # None THEN paid["MAIN"] ELSE net - Rounded(net, 10)
           /\ paid["RESERVE"] = None => shares["RESERVE"] = net - shares["MAIN"]
<1>1. Rounded(net, 10) \in Int
  BY RoundedInt
<1>2. paid["MAIN"] \in Int \cup {None} /\ paid["RESERVE"] \in Int \cup {None}
  BY DEF Shown, Parts
<1> QED
  BY <1>1, <1>2 DEF Shares, Amounts, Parts

LEMMA PaidShown == ASSUME PayoutsOK PROVE Paid \in Shown
  BY DEF PayoutsOK, Paid, IsPaid, PayoutRows, Shown

\* A row is no lack of one
LEMMA PaidAre ==
    ASSUME PayoutsOK, NEW p \in Parts
    PROVE  /\ IsPaid(p) =>
                payout[p] \in PayoutRows /\ Paid[p] = payout[p].amount /\ Paid[p] # None
           /\ ~IsPaid(p) => payout[p] = None /\ Paid[p] = None
  BY SalesAssumption DEF PayoutsOK, Paid, IsPaid, PayoutRows

\* What a desk may go to
Fits(k) ==
    \/ k = IdleDesk
    \/ /\ k \in Desk
       /\ k.at = "page" => k.for = "page"
       /\ k.at = "record" => k.for \in Parts
       /\ k.at \in {"refunds", "closing"} => k.for = "close"

LEMMA DeskStep ==
    ASSUME DesksOK, NEW j \in Clerks, NEW k, Fits(k), SetDesk(j, k)
    PROVE  DesksOK'
<1>1. desk' \in [Clerks -> {IdleDesk} \cup Desk]
  BY DEF DesksOK, SetDesk, Fits
<1>2. \A i \in Clerks : desk'[i] = IF i = j THEN k ELSE desk[i]
  BY DEF DesksOK, SetDesk
<1> QED
  BY <1>1, <1>2 DEF DesksOK, DeskAt, IdleDesk, Fits

\* A step of a desk from what it has
LEMMA DeskIs ==
    ASSUME DesksOK, NEW j \in Clerks
    PROVE  /\ desk[j] = IdleDesk \/ desk[j] \in Desk
           /\ Fits(desk[j])
           /\ ~DeskAt(j, "idle") => desk[j] \in Desk
  BY DEF DesksOK, DeskAt, IdleDesk, Fits

LEMMA AskFits ==
    ASSUME DesksOK, NEW j \in Clerks, NEW for \in {"page", "close"} \cup Parts,
           NEW sent \in Int
    PROVE  \A shown \in BOOLEAN : Ask(j, for, sent, shown) => DesksOK'
<1> TAKE shown \in BOOLEAN
<1> HAVE Ask(j, for, sent, shown)
<1> DEFINE k == [at |-> "event", for |-> for, sent |-> sent, asShown |-> shown, asRead |-> TRUE,
                 fees |-> 0, paid |-> [p \in Parts |-> None], amounts |-> Zero]
<1>1. k \in Desk
  BY DEF Desk, Shown, Amounts, Zero
<1>2. Fits(k) /\ SetDesk(j, k)
  BY <1>1 DEF Fits, Ask, Step
<1> QED
  BY <1>2, DeskStep

\* The orders change under every desk
LEMMA ChangedTypes ==
    ASSUME OwedTypes, OrderChanged
    PROVE  /\ PayoutsOK' /\ DesksOK'
           /\ account' \in Account
<1>1. PayoutsOK'
  <2>1. \A p \in Parts : payout[p] = None \/ payout[p] \in PayoutRows
    BY DEF OwedTypes, PayoutsOK
  <2> QED
    BY <2>1 DEF PayoutsOK, OrderChanged, PayoutRows
<1>2. DesksOK'
  <2>1. \A j \in Clerks :
           desk'[j] = IF desk[j] = IdleDesk THEN IdleDesk
                      ELSE [desk[j] EXCEPT !.asShown = FALSE, !.asRead = FALSE]
    BY DEF OrderChanged
  <2>2. \A j \in Clerks : desk[j] # IdleDesk => desk[j] \in Desk
    BY DEF OwedTypes, DesksOK
  <2>3. desk' \in [Clerks -> {IdleDesk} \cup Desk]
    BY <2>2 DEF OrderChanged, Desk
  <2>4. \A j \in Clerks : desk'[j] = IdleDesk \/ (desk'[j].at = desk[j].at /\ desk'[j].for = desk[j].for)
    BY <2>1, <2>2 DEF Desk
  <2> QED
    BY <2>3, <2>4 DEF OwedTypes, DesksOK, DeskAt, IdleDesk
<1>3. account' \in Account
  BY DEF OwedTypes, OrdersOK, OrderChanged, Account
<1> QED
  BY <1>1, <1>2, <1>3

LEMMA StepOwedTypes ==
    ASSUME OwedTypes, [PayoutsNext]_payoutsVars
    PROVE  OwedTypes'
<1>u. CASE UNCHANGED payoutsVars
  BY <1>u DEF payoutsVars, OwedTypes, OrdersOK, PayoutsOK, DesksOK, DeskAt
<1> SUFFICES ASSUME PayoutsNext PROVE OwedTypes'
  BY <1>u
<1>t. DesksOK /\ PayoutsOK /\ OrdersOK
  BY DEF OwedTypes
\* Sales
<1>1. ASSUME NEW o \in Orders, CompleteOrder(o) PROVE OwedTypes'
  <2>1. order' \in [Orders -> {"PENDING", "COMPLETED", "REFUNDED"}] /\ UNCHANGED <<refund, selling>>
    BY <1>1, <1>t DEF CompleteOrder, OrdersOK
  <2> QED
    BY <1>1, <1>t, <2>1, ChangedTypes DEF CompleteOrder, OwedTypes, OrdersOK
<1>2. ASSUME NEW o \in Orders, Refund(o) PROVE OwedTypes'
  <2>1. /\ order' \in [Orders -> {"PENDING", "COMPLETED", "REFUNDED"}] /\ UNCHANGED selling
        /\ refund' \in [Orders -> {"none", "REQUESTED", "PAID"}]
    BY <1>2, <1>t DEF Refund, OrdersOK
  <2> QED
    BY <1>2, <1>t, <2>1, ChangedTypes DEF Refund, OwedTypes, OrdersOK
<1>3. ASSUME NEW o \in Orders, RefundPaid(o) PROVE OwedTypes'
  BY <1>3, <1>t DEF RefundPaid, OwedTypes, OrdersOK, PayoutsOK, DesksOK, DeskAt
<1>4. CASE EventOver
  BY <1>4, <1>t DEF EventOver, OwedTypes, OrdersOK, PayoutsOK, DesksOK, DeskAt
<1>r. CASE RetireAccount
  <2>1. account' \in Account
    BY <1>r, <1>t DEF RetireAccount, OrdersOK, Account
  <2> QED
    BY <1>r, <1>t, <2>1 DEF RetireAccount, OwedTypes, OrdersOK, PayoutsOK, DesksOK, DeskAt
\* The summary
<1>s. ASSUME UNCHANGED <<order, refund, payout, selling, account>>, DesksOK' PROVE OwedTypes'
  BY <1>s, <1>t DEF OwedTypes, OrdersOK, PayoutsOK
<1>5. ASSUME NEW j \in Clerks, ReadEvent(j) PROVE OwedTypes'
  <2>1. DeskAt(j, "event") /\ desk[j] \in Desk
    BY <1>5, <1>t, DeskIs DEF ReadEvent, DeskAt
  <2>2. PICK k : Step(j, k) /\
           \/ k = IdleDesk
           \/ /\ desk[j].for = "close"
              /\ k = [desk[j] EXCEPT !.at = "refunds", !.asRead = TRUE]
           \/ k = [desk[j] EXCEPT !.at = "refunded", !.asRead = TRUE,
                      !.asShown = @ \/ desk[j].for = "page", !.paid = Paid]
    BY <1>5 DEF ReadEvent
  <2>3. Fits(k)
    BY <1>t, <2>1, <2>2, PaidShown DEF Fits, Desk
  <2> QED
    BY <1>s, <1>t, <2>2, <2>3, DeskStep DEF Step
<1>6. ASSUME NEW j \in Clerks, ReadRefunded(j) PROVE OwedTypes'
  <2>1. DeskAt(j, "refunded") /\ desk[j] \in Desk
    BY <1>6, <1>t, DeskIs DEF ReadRefunded, DeskAt
  <2> DEFINE k == [desk[j] EXCEPT !.at = "completed", !.fees = RefundedFees]
  <2>2. Fits(k)
    BY <2>1, NetType DEF Fits, Desk
  <2> QED
    BY <1>6, <1>s, <1>t, <2>2, DeskStep DEF Step, ReadRefunded
<1>7. ASSUME NEW j \in Clerks, ReadCompleted(j) PROVE OwedTypes'
  <2>1. DeskAt(j, "completed") /\ desk[j] \in Desk
    BY <1>7, <1>t, DeskIs DEF ReadCompleted, DeskAt
  <2> DEFINE amounts == Shares(Collected - desk[j].fees, desk[j].paid)
             read(at, keep) == [desk[j] EXCEPT !.at = at, !.fees = 0, !.amounts = keep]
  <2>2. amounts \in Amounts /\ Zero \in Amounts
    <3>1. desk[j].fees \in Nat /\ desk[j].paid \in Shown
      BY <2>1 DEF Desk
    <3> QED
      BY <3>1, NetType, SharesAre DEF Zero, Amounts
  <2>3. PICK k : Step(j, k) /\
           \/ k = IdleDesk
           \/ desk[j].for = "page" /\ k = read("page", amounts)
           \/ desk[j].for = "close" /\ k = read("refunds", Zero)
           \/ desk[j].for \in Parts /\ k = read("record", amounts)
    BY <1>7 DEF ReadCompleted
  <2> HIDE DEF amounts
  <2>4. \A keep \in Amounts, at \in {"page", "refunds", "record"} :
           /\ read(at, keep) \in Desk
           /\ read(at, keep).at = at /\ read(at, keep).for = desk[j].for
    BY <2>1 DEF Desk
  <2> HIDE DEF read
  <2>5. Fits(k)
    BY <2>2, <2>3, <2>4 DEF Fits, Parts
  <2> QED
    BY <1>s, <1>t, <2>3, <2>5, DeskStep DEF Step
\* Administrators
<1>8. ASSUME NEW j \in Clerks, OpenPage(j) PROVE OwedTypes'
  <2>1. DesksOK'
    <3> DEFINE k == [at |-> "event", for |-> "page", sent |-> 0, asShown |-> TRUE, asRead |-> TRUE,
                     fees |-> 0, paid |-> [p \in Parts |-> None], amounts |-> Zero]
    <3>1. k \in Desk
      BY DEF Desk, Shown, Amounts, Zero
    <3>2. Fits(k) /\ SetDesk(j, k)
      BY <1>8, <3>1 DEF Fits, OpenPage, Ask, Step
    <3> QED
      BY <1>t, <3>2, DeskStep
  <2> QED
    BY <1>8, <1>s, <2>1 DEF OpenPage, Ask, Step
<1>9. ASSUME NEW j \in Clerks, NEW p \in Parts, MarkPaid(j, p) PROVE OwedTypes'
  <2>1. desk[j] \in Desk
    BY <1>9, <1>t, DeskIs DEF MarkPaid, DeskAt
  <2>2. desk[j].amounts[p] \in Int /\ desk[j].asShown \in BOOLEAN
    BY <2>1 DEF Desk, Amounts
  <2>3. DesksOK'
    BY <1>9, <1>t, <2>2, AskFits DEF MarkPaid
  <2> QED
    BY <1>9, <1>s, <2>3 DEF MarkPaid, Ask, Step
<1>10. ASSUME NEW j \in Clerks, LeavePage(j) PROVE OwedTypes'
  BY <1>10, <1>s, <1>t, DeskStep DEF LeavePage, Step, Fits
<1>11. ASSUME NEW j \in Clerks, RecordPayout(j) PROVE OwedTypes'
  <2>1. desk[j] \in Desk /\ desk[j].for \in Parts
    BY <1>11, <1>t, DeskIs DEF RecordPayout, DeskAt, DesksOK
  <2>2. Recorded(j, desk[j].amounts[desk[j].for]) \in PayoutRows
    BY <2>1 DEF Recorded, PayoutRows, Desk, Amounts
  <2>3. PayoutsOK'
    BY <1>11, <1>t, <2>1, <2>2 DEF RecordPayout, PayoutsOK
  <2>4. DesksOK'
    BY <1>11, <1>t, DeskStep DEF RecordPayout, ClearDesk, Fits
  <2> QED
    BY <1>11, <1>t, <2>3, <2>4 DEF RecordPayout, OwedTypes, OrdersOK
\* Closing
<1>12. ASSUME NEW j \in Clerks, AskToClose(j) PROVE OwedTypes'
  <2>1. DesksOK'
    <3> DEFINE k == [at |-> "event", for |-> "close", sent |-> 0, asShown |-> FALSE, asRead |-> TRUE,
                     fees |-> 0, paid |-> [p \in Parts |-> None], amounts |-> Zero]
    <3>1. k \in Desk
      BY DEF Desk, Shown, Amounts, Zero
    <3>2. Fits(k) /\ SetDesk(j, k)
      BY <1>12, <3>1 DEF Fits, AskToClose, Ask, Step
    <3> QED
      BY <1>t, <3>2, DeskStep
  <2> QED
    BY <1>12, <1>s, <2>1 DEF AskToClose, Ask, Step
<1>c. ASSUME NEW j \in Clerks, CountRefunds(j) PROVE OwedTypes'
  <2>1. desk[j] \in Desk /\ desk[j].for = "close"
    BY <1>c, <1>t, DeskIs DEF CountRefunds, DeskAt, DesksOK
  <2>2. PICK k : Step(j, k) /\ (k = IdleDesk \/ k = [desk[j] EXCEPT !.at = "closing", !.asShown = TRUE])
    BY <1>c DEF CountRefunds
  <2>3. Fits(k)
    BY <2>1, <2>2 DEF Fits, Desk
  <2> QED
    BY <1>s, <1>t, <2>2, <2>3, DeskStep DEF Step
<1>13. ASSUME NEW j \in Clerks, CloseAccount(j) PROVE OwedTypes'
  <2>1. desk[j] \in Desk
    BY <1>13, <1>t, DeskIs DEF CloseAccount, DeskAt
  <2>2. account' \in Account
    BY <1>13, <1>t, <2>1 DEF CloseAccount, Account, Desk
  <2>3. DesksOK'
    BY <1>13, <1>t, DeskStep DEF CloseAccount, ClearDesk, Fits
  <2> QED
    BY <1>13, <1>t, <2>2, <2>3 DEF CloseAccount, OwedTypes, OrdersOK, PayoutsOK
<1> QED
  BY <1>1, <1>2, <1>3, <1>4, <1>5, <1>6, <1>7, <1>8, <1>9, <1>10, <1>11, <1>12, <1>13,
     <1>c, <1>r DEF PayoutsNext

(***************************************************************************)
(* A change of an order marks every desk, row and closing as older than    *)
(* it; the rest is about those that no order changed since.                *)
(***************************************************************************)
Sold == \E o \in Orders : order[o] \in {"COMPLETED", "REFUNDED"}
NoneStale == \A p \in Parts : ~Stale(p)
Settled == \A p \in Parts : IsPaid(p) \/ Left[p] = 0

\* A row that no order changed since holds its share of the sales; the reserve
\* holds what is left after the main part
RowsFit ==
    /\ \A p \in Parts : IsPaid(p) => Sold
    /\ \A p \in Parts : IsPaid(p) /\ payout[p].current => payout[p].asRead
    /\ IsPaid("MAIN") /\ payout["MAIN"].current => payout["MAIN"].amount = Advance
    /\ IsPaid("RESERVE") /\ payout["RESERVE"].current /\ ~IsPaid("MAIN")
         => payout["RESERVE"].amount = Net - Advance
    /\ IsPaid("RESERVE") /\ payout["RESERVE"].current /\ IsPaid("MAIN") /\ payout["MAIN"].asRead
         => payout["MAIN"].amount + payout["RESERVE"].amount = Net

\* Rows are never rewritten; one written since was written on the same orders,
\* or shows that it was not
RowsRead(k) ==
    k.at \in {"refunded", "completed", "page", "record"} =>
      \A p \in Parts :
         /\ k.paid[p] # None => IsPaid(p) /\ payout[p].amount = k.paid[p]
         /\ k.paid[p] = None /\ IsPaid(p) /\ k.asRead => Stale(p) \/ payout[p].current
SoldFits(k) == k.at \in {"refunded", "completed", "page", "record"} => Sold
ShownIsRead(k) == k # IdleDesk /\ k.at # "closing" /\ k.asShown => k.asRead
FeesFit(k) == k.at = "completed" /\ k.asRead => k.fees = RefundedFees
AmountsFit(k) ==
    /\ k.at \in {"page", "record"} /\ k.asRead => k.amounts = Shares(Net, k.paid)
    /\ k.at = "record" => k.paid[k.for] = None
SentFits(k) ==
    k.at \in {"event", "refunded", "completed", "record"} /\ k.for \in Parts
    /\ k.asShown /\ ~Stale("MAIN") /\ ~IsPaid(k.for)
      => k.sent = Left[k.for]
NoneAsked == \A o \in Orders : refund[o] # "REQUESTED"
ClosingFits(k) ==
    /\ k.at \in {"refunds", "closing"} /\ k.asRead /\ NoneStale => Settled
    /\ k.at = "closing" /\ k.asShown => NoneAsked
DeskFits(k) ==
    /\ RowsRead(k) /\ SoldFits(k) /\ ShownIsRead(k) /\ FeesFit(k) /\ AmountsFit(k)
    /\ SentFits(k) /\ ClosingFits(k)

ClosedFits ==
    account.state = "closed" => /\ account.current /\ NoneStale => Settled
                                /\ account.counted => NoneAsked

DueInv ==
    /\ OwedTypes /\ RowsFit /\ ClosedFits
    /\ \A j \in Clerks : DeskFits(desk[j])

LEMMA InitDue == PayoutsInit => DueInv
<1> SUFFICES ASSUME PayoutsInit PROVE DueInv
  OBVIOUS
<1>1. OwedTypes
  BY InitOwedTypes
<1>2. RowsFit
  BY DEF PayoutsInit, RowsFit, IsPaid, Parts
<1>3. ClosedFits
  BY DEF PayoutsInit, ClosedFits
<1>4. \A j \in Clerks : DeskFits(desk[j])
  BY DEF PayoutsInit, IdleDesk, DeskFits, RowsRead, SoldFits, ShownIsRead, FeesFit, AmountsFit, SentFits, ClosingFits
<1> QED
  BY <1>1, <1>2, <1>3, <1>4 DEF DueInv

\* The sales are a matter of the orders
LEMMA SameSales ==
    ASSUME UNCHANGED order
    PROVE  /\ Net' = Net /\ RefundedFees' = RefundedFees
           /\ Advance' = Advance /\ Sold' = Sold
BY DEF Net, RefundedFees, Collected, Advance, Sold

LEMMA SameRows ==
    ASSUME UNCHANGED <<order, payout>>,
           \A o \in Orders : refund'[o] = "REQUESTED" => refund[o] = "REQUESTED"
    PROVE  /\ Left' = Left /\ (NoneAsked => NoneAsked') /\ NoneStale' = NoneStale /\ Settled' = Settled
           /\ \A p : IsPaid(p)' = IsPaid(p) /\ Stale(p)' = Stale(p)
           /\ RowsFit' = RowsFit
           /\ \A k : DeskFits(k) => DeskFits(k)'
<1>1. \A p : IsPaid(p)' = IsPaid(p)
  BY DEF IsPaid
<1>2. \A p : Stale(p)' = Stale(p)
  BY <1>1 DEF Stale
<1>3. Paid' = Paid
  BY DEF Paid, IsPaid
<1>4. Left' = Left
  BY <1>3, SameSales DEF Left
<1>5. NoneStale' = NoneStale /\ (NoneAsked => NoneAsked')
  BY <1>2 DEF NoneStale, NoneAsked
<1>6. Settled' = Settled
  BY <1>1, <1>4, SameSales DEF Settled
<1>7. RowsFit' = RowsFit
  BY <1>1, SameSales DEF RowsFit
<1>8. \A k : DeskFits(k) => DeskFits(k)'
  BY <1>1, <1>2, <1>4, <1>5, <1>6, SameSales
  DEF DeskFits, RowsRead, SoldFits, ShownIsRead, FeesFit, AmountsFit, SentFits, ClosingFits
<1> QED
  BY <1>1, <1>2, <1>4, <1>5, <1>6, <1>7, <1>8

\* What is left of a part that was not paid
LEMMA LeftAre ==
    ASSUME PayoutsOK, NEW p \in Parts, ~IsPaid(p)
    PROVE  /\ p = "MAIN" => Left[p] = Advance
           /\ p = "RESERVE" =>
                Left[p] = Net - (IF IsPaid("MAIN") THEN payout["MAIN"].amount ELSE Advance)
<1>1. Net \in Int /\ Paid \in Shown
  BY NetType, PaidShown
<1>2. "MAIN" \in Parts /\ "RESERVE" \in Parts
  BY DEF Parts
<1>3. Paid[p] = None
  BY PaidAre
<1>4. Left["MAIN"] = IF IsPaid("MAIN") THEN payout["MAIN"].amount ELSE Advance
  BY <1>1, <1>2, PaidAre, SharesAre DEF Left, Advance
<1>5. Paid["RESERVE"] = None => Left["RESERVE"] = Net - Left["MAIN"]
  BY <1>1, SharesAre DEF Left
<1> QED
  BY <1>3, <1>4, <1>5

\* What a desk read is what is left
LEMMA ReadIsLeft ==
    ASSUME PayoutsOK, RowsFit, NEW k \in Desk, RowsRead(k), k.asRead,
           k.at \in {"completed", "page", "record"},
           ~Stale("MAIN"), NEW p \in Parts, ~IsPaid(p)
    PROVE  Shares(Net, k.paid)[p] = Left[p]
<1>1. Net \in Int /\ k.paid \in Shown
  BY NetType DEF Desk
<1>2. "MAIN" \in Parts /\ "RESERVE" \in Parts /\ p \in {"MAIN", "RESERVE"}
  BY DEF Parts
<1> DEFINE shares == Shares(Net, k.paid)
<1>3. /\ shares["MAIN"] = IF k.paid["MAIN"] # None THEN k.paid["MAIN"] ELSE Advance
      /\ k.paid["RESERVE"] = None => shares["RESERVE"] = Net - shares["MAIN"]
  BY <1>1, SharesAre DEF Advance
<1> HIDE DEF shares
<1>4. k.paid[p] = None
  BY DEF RowsRead
<1>5. /\ k.paid["MAIN"] # None => IsPaid("MAIN") /\ payout["MAIN"].amount = k.paid["MAIN"]
      /\ k.paid["MAIN"] = None /\ IsPaid("MAIN") => payout["MAIN"].amount = Advance
  BY <1>2 DEF RowsRead, RowsFit
<1>6. shares["MAIN"] = IF IsPaid("MAIN") THEN payout["MAIN"].amount ELSE Advance
  BY <1>3, <1>5
<1>7. shares[p] = Left[p]
  BY <1>2, <1>3, <1>4, <1>6, LeftAre
<1> QED
  BY <1>7 DEF shares

\* Nothing sold, nothing left of it
LEMMA NothingSold == ASSUME PayoutsOK, RowsFit, ~Sold PROVE Settled
<1>1. \A f : Totals(f, {})[{}] = 0
  <2>1. \A f : Adds(f, Totals(f, {}), {})
    <3>1. IsFiniteSet({})
      BY FS_EmptySet
    <3> QED
      BY <3>1, TotalsAdd
  <2> QED
    BY <2>1 DEF Adds
<1>2. {o \in Orders : order[o] = "REFUNDED"} = {} /\ {o \in Orders : order[o] = "COMPLETED"} = {}
  BY DEF Sold
<1>3. RefundedFees = 0 /\ Collected = 0
  BY <1>1, <1>2, SumIsTotal DEF RefundedFees, Collected
<1>4. Net = 0
  BY <1>3 DEF Net
<1>5. Rounded(0, 10) = 0
  BY DEF Rounded
<1>6. Advance = 0
  BY <1>4, <1>5 DEF Advance
<1>7. \A p \in Parts : ~IsPaid(p) /\ p \in {"MAIN", "RESERVE"}
  BY DEF RowsFit, Parts
<1> QED
  BY <1>4, <1>6, <1>7, LeftAre DEF Settled, Parts

\* All settled, the reserve on the sales of now: the rows are the net
LEMMA SettledAre ==
    ASSUME PayoutsOK, RowsFit, NoneStale, Settled,
           IsPaid("RESERVE") => payout["RESERVE"].current
    PROVE  Transferred = Net
<1>1. "MAIN" \in Parts /\ "RESERVE" \in Parts /\ Net \in Int /\ Advance \in Int
  BY NetType, RoundedInt DEF Parts, Advance
<1>2. \A p \in Parts : IsPaid(p) => payout[p].amount \in Int /\ payout[p].asRead
  BY PaidAre DEF NoneStale, Stale, PayoutRows
<1>3. /\ ~IsPaid("MAIN") => Advance = 0
      /\ ~IsPaid("RESERVE") =>
           Net = IF IsPaid("MAIN") THEN payout["MAIN"].amount ELSE Advance
  BY <1>1, <1>2, LeftAre DEF Settled
<1>4. IsPaid("RESERVE") /\ ~IsPaid("MAIN") => payout["RESERVE"].amount = Net
  BY <1>1, <1>3 DEF RowsFit
<1>5. IsPaid("RESERVE") /\ IsPaid("MAIN") => payout["MAIN"].amount + payout["RESERVE"].amount = Net
  BY <1>1, <1>2 DEF RowsFit
<1> QED
  BY <1>1, <1>2, <1>3, <1>4, <1>5 DEF Transferred

\* A step of a desk alone
LEMMA DeskDue ==
    ASSUME DueInv, OwedTypes', NEW j \in Clerks, NEW k, Step(j, k), DeskFits(k)
    PROVE  DueInv'
<1>1. \A i \in Clerks : desk'[i] = IF i = j THEN k ELSE desk[i]
  BY DEF DueInv, OwedTypes, DesksOK, Step, SetDesk
<1>2. \A i \in Clerks : DeskFits(desk'[i])
  BY <1>1 DEF DueInv
<1>3. UNCHANGED <<order, refund, payout, account>>
  BY DEF Step
<1>4. \A i \in Clerks : DeskFits(desk[i])'
  <2> TAKE i \in Clerks
  <2> DEFINE d == desk'[i]
  <2>1. DeskFits(d)
    BY <1>2
  <2> QED
    BY <1>3, <2>1, SameRows, SameSales
    DEF DeskFits, RowsRead, SoldFits, ShownIsRead, FeesFit, AmountsFit, SentFits, ClosingFits
<1>5. ClosedFits'
  BY <1>3, SameRows DEF DueInv, ClosedFits
<1> QED
  BY <1>3, <1>4, <1>5, SameRows DEF DueInv

LEMMA IdleFits == DeskFits(IdleDesk)
BY DEF IdleDesk, DeskFits, RowsRead, SoldFits, ShownIsRead, FeesFit, AmountsFit, SentFits, ClosingFits

\* An order changes: whatever was read, shown, recorded or closed is before it
LEMMA ChangedDue ==
    ASSUME DueInv, OwedTypes', OrderChanged, Sold => Sold'
    PROVE  DueInv'
<1>1. \A p \in Parts :
         /\ IsPaid(p)' <=> IsPaid(p)
         /\ IsPaid(p) => payout'[p].amount = payout[p].amount /\ payout'[p].current = FALSE
  <2> SUFFICES ASSUME NEW p \in Parts
               PROVE  /\ IsPaid(p)' <=> IsPaid(p)
                      /\ IsPaid(p) => payout'[p].amount = payout[p].amount /\ payout'[p].current = FALSE
    OBVIOUS
  <2>1. payout[p] = None \/ payout[p] \in PayoutRows
    BY DEF DueInv, OwedTypes, PayoutsOK
  <2>2. payout'[p] = IF payout[p] = None THEN None ELSE [payout[p] EXCEPT !.current = FALSE]
    BY DEF OrderChanged
  <2>3. payout'[p] \in PayoutRows => payout'[p] # None
    BY SalesAssumption
  <2> QED
    BY <2>1, <2>2, <2>3 DEF IsPaid, PayoutRows
<1>2. RowsFit'
  BY <1>1 DEF RowsFit, Parts, DueInv
<1>3. ClosedFits'
  <2>1. account'.current = FALSE /\ account'.counted = FALSE
    BY DEF OrderChanged, DueInv, OwedTypes, OrdersOK, Account
  <2> QED
    BY <2>1 DEF ClosedFits
<1>4. ASSUME NEW j \in Clerks PROVE DeskFits(desk[j])'
  <2>1. desk'[j] = IF desk[j] = IdleDesk THEN IdleDesk
                   ELSE [desk[j] EXCEPT !.asShown = FALSE, !.asRead = FALSE]
    BY DEF OrderChanged
  <2>2. desk[j] = IdleDesk \/ desk[j] \in Desk
    BY DEF DueInv, OwedTypes, DesksOK
  <2>3. CASE desk[j] = IdleDesk
    BY <2>1, <2>3 DEF IdleDesk, DeskFits, RowsRead, SoldFits, ShownIsRead, FeesFit, AmountsFit, SentFits, ClosingFits
  <2>4. CASE desk[j] # IdleDesk
    <3>1. /\ desk'[j].at = desk[j].at /\ desk'[j].for = desk[j].for /\ desk'[j].paid = desk[j].paid
          /\ desk'[j].asShown = FALSE /\ desk'[j].asRead = FALSE
      BY <2>1, <2>2, <2>4 DEF Desk
    <3>2. RowsRead(desk[j]) /\ AmountsFit(desk[j]) /\ SoldFits(desk[j])
      BY DEF DueInv, DeskFits
    <3> QED
      BY <1>1, <3>1, <3>2 DEF DeskFits, RowsRead, SoldFits, ShownIsRead, FeesFit, AmountsFit, SentFits, ClosingFits
  <2> QED
    BY <2>3, <2>4
<1> QED
  BY <1>2, <1>3, <1>4 DEF DueInv

\* What is recorded of a part, and what the desk had read
NewRow(j) == Recorded(j, desk[j].amounts[desk[j].for])

LEMMA RecordedAre ==
    ASSUME DueInv, NEW j \in Clerks, RecordPayout(j)
    PROVE  /\ desk[j] \in Desk /\ desk[j].at = "record" /\ desk[j].for \in Parts
           /\ NewRow(j) \in PayoutRows /\ NewRow(j) # None
           /\ payout' = [payout EXCEPT ![desk[j].for] = IF @ = None THEN NewRow(j) ELSE @]
           /\ NewRow(j).amount = desk[j].amounts[desk[j].for]
           /\ NewRow(j).asRead = desk[j].asRead /\ NewRow(j).current = desk[j].asRead
           /\ desk[j].paid[desk[j].for] = None
           /\ desk[j].asRead => desk[j].amounts = Shares(Net, desk[j].paid)
           /\ desk[j].asRead /\ desk[j].for = "MAIN" => NewRow(j).amount = Advance
<1> DEFINE for == desk[j].for
<1>1. desk[j] \in Desk /\ for \in Parts /\ desk[j].at = "record"
  <2>1. DeskAt(j, "record") /\ DesksOK
    BY DEF RecordPayout, DueInv, OwedTypes
  <2> QED
    BY <2>1, DeskIs DEF DeskAt, DesksOK
<1>2. NewRow(j) \in PayoutRows
  BY <1>1 DEF NewRow, Recorded, PayoutRows, Desk, Amounts
<1>3. AmountsFit(desk[j])
  BY DEF DueInv, DeskFits
<1>4. /\ desk[j].paid[for] = None
      /\ desk[j].asRead => desk[j].amounts = Shares(Net, desk[j].paid)
  BY <1>1, <1>3 DEF AmountsFit
<1>5. desk[j].asRead /\ for = "MAIN" => desk[j].amounts[for] = Advance
  <2>1. desk[j].paid \in Shown
    BY <1>1 DEF Desk
  <2> QED
    BY <1>4, <2>1, NetType, SharesAre DEF Advance
<1>6. NewRow(j) # None
  BY <1>2, SalesAssumption
<1>7. /\ NewRow(j).amount = desk[j].amounts[for]
      /\ NewRow(j).asRead = desk[j].asRead /\ NewRow(j).current = desk[j].asRead
  BY DEF NewRow, Recorded
<1>8. payout' = [payout EXCEPT ![for] = IF @ = None THEN NewRow(j) ELSE @]
  BY DEF RecordPayout, NewRow
<1> QED
  BY <1>1, <1>2, <1>4, <1>5, <1>6, <1>7, <1>8

\* Each row after that, and what is left
LEMMA RowsAfter ==
    ASSUME DueInv, OwedTypes', NEW j \in Clerks, RecordPayout(j)
    PROVE  /\ \A p \in Parts :
                /\ IsPaid(p) => IsPaid(p)' /\ payout'[p] = payout[p] /\ (Stale(p)' <=> Stale(p))
                /\ IsPaid(p)' /\ ~IsPaid(p) =>
                     /\ p = desk[j].for /\ payout'[p] = NewRow(j)
                     /\ Stale(p)' <=> ~desk[j].asRead
           /\ \A p \in Parts :
                ~IsPaid(p)' /\ ~Stale("MAIN")' => Left'[p] = Left[p]
<1>1. PayoutsOK /\ PayoutsOK' /\ UNCHANGED order
  BY DEF DueInv, OwedTypes, RecordPayout
<1>2. \A p \in Parts :
        /\ IsPaid(p) => IsPaid(p)' /\ payout'[p] = payout[p]
        /\ IsPaid(p)' /\ ~IsPaid(p) => p = desk[j].for /\ payout'[p] = NewRow(j)
  BY <1>1, RecordedAre DEF IsPaid, PayoutsOK
<1>3. \A p \in Parts :
        /\ IsPaid(p) => (Stale(p)' <=> Stale(p))
        /\ IsPaid(p)' /\ ~IsPaid(p) => (Stale(p)' <=> ~desk[j].asRead)
  BY <1>2, RecordedAre DEF Stale
<1>4. ASSUME NEW p \in Parts, ~IsPaid(p)', ~Stale("MAIN")'
      PROVE  Left'[p] = Left[p]
  <2>1. ~IsPaid(p) /\ "MAIN" \in Parts
    BY <1>2, <1>4 DEF Parts
  <2>2. /\ p = "MAIN" => Left[p] = Advance
        /\ p = "RESERVE" =>
             Left[p] = Net - (IF IsPaid("MAIN") THEN payout["MAIN"].amount ELSE Advance)
    BY <1>1, <2>1, LeftAre
  <2>3. Net' = Net /\ Net \in Int
    BY <1>1, SameSales, NetType
  <2>4. Left' = Shares(Net, Paid') /\ Paid' \in Shown
    BY <1>1, <2>3 DEF Left, PayoutsOK, Paid, IsPaid, PayoutRows, Shown
  <2>5. /\ Paid'[p] = None
        /\ Paid'["MAIN"] = IF IsPaid("MAIN")' THEN payout'["MAIN"].amount ELSE None
        /\ IsPaid("MAIN")' => payout'["MAIN"].amount # None
    BY <1>1, <1>4, <2>1, SalesAssumption DEF Paid, IsPaid, PayoutsOK, PayoutRows
  <2>6. Left'["MAIN"] = IF IsPaid("MAIN")' THEN payout'["MAIN"].amount ELSE Advance
    BY <2>3, <2>4, <2>5, SharesAre DEF Advance
  <2>7. p = "RESERVE" => Left'[p] = Net - Left'["MAIN"]
    BY <2>3, <2>4, <2>5, SharesAre
  <2>8. IsPaid("MAIN")' /\ ~IsPaid("MAIN") => payout'["MAIN"].amount = Advance
    BY <1>2, <1>3, <1>4, <2>1, RecordedAre
  <2> QED
    BY <1>2, <1>4, <2>1, <2>2, <2>6, <2>7, <2>8 DEF Parts
<1> QED
  BY <1>2, <1>3, <1>4

LEMMA RecordDue ==
    ASSUME DueInv, OwedTypes', NEW j \in Clerks, RecordPayout(j)
    PROVE  DueInv'
<1>1. UNCHANGED <<order, refund, account>> /\ Net' = Net /\ Advance' = Advance /\ Sold' = Sold
  BY SameSales DEF RecordPayout
<1>2. \A i \in Clerks : desk'[i] = IF i = j THEN IdleDesk ELSE desk[i]
  BY DEF DueInv, OwedTypes, DesksOK, RecordPayout, ClearDesk, SetDesk
<1> DEFINE for == desk[j].for
<1>3. RowsFit'
  <2>1. \A p \in Parts : IsPaid(p)' /\ payout'[p].current => payout'[p].asRead
    BY RowsAfter, RecordedAre DEF DueInv, RowsFit
  <2>2. IsPaid("MAIN")' /\ payout'["MAIN"].current => payout'["MAIN"].amount = Advance
    BY RowsAfter, RecordedAre DEF DueInv, RowsFit, Parts
  <2>3. ASSUME IsPaid("RESERVE")', payout'["RESERVE"].current, ~IsPaid("MAIN")'
        PROVE  payout'["RESERVE"].amount = Net - Advance
    <3>1. ~IsPaid("MAIN") /\ "RESERVE" \in Parts /\ "MAIN" \in Parts
      BY <2>3, RowsAfter DEF Parts
    <3>2. CASE IsPaid("RESERVE")
      BY <2>3, <3>1, <3>2, RowsAfter DEF DueInv, RowsFit
    <3>3. CASE ~IsPaid("RESERVE")
      <4>1. for = "RESERVE" /\ payout'["RESERVE"] = NewRow(j) /\ desk[j].asRead
        BY <2>3, <3>1, <3>3, RowsAfter, RecordedAre
      <4>2. RowsRead(desk[j]) /\ desk[j].paid \in Shown
        BY RecordedAre DEF DueInv, DeskFits, Desk
      <4>3. desk[j].paid["MAIN"] = None /\ desk[j].paid["RESERVE"] = None
        BY <3>1, <4>1, <4>2, RecordedAre DEF RowsRead
      <4> QED
        BY <4>1, <4>2, <4>3, RecordedAre, NetType, SharesAre DEF Advance
    <3> QED
      BY <3>2, <3>3
  <2>4. ASSUME IsPaid("RESERVE")', payout'["RESERVE"].current, IsPaid("MAIN")', payout'["MAIN"].asRead
        PROVE  payout'["MAIN"].amount + payout'["RESERVE"].amount = Net
    <3>1. "RESERVE" \in Parts /\ "MAIN" \in Parts /\ for \in {"MAIN", "RESERVE"}
      BY RecordedAre DEF Parts
    <3>2. /\ IsPaid("MAIN") \/ IsPaid("RESERVE")
          /\ ~IsPaid("MAIN") => for = "MAIN" /\ payout'["MAIN"] = NewRow(j)
          /\ ~IsPaid("RESERVE") => for = "RESERVE" /\ payout'["RESERVE"] = NewRow(j)
          /\ IsPaid("MAIN") => payout'["MAIN"] = payout["MAIN"]
          /\ IsPaid("RESERVE") => payout'["RESERVE"] = payout["RESERVE"]
      BY <2>4, <3>1, RowsAfter
    <3>3. /\ RowsFit /\ RowsRead(desk[j]) /\ desk[j].paid \in Shown /\ Net \in Int /\ Advance \in Int
          /\ desk[j].at = "record"
      BY RecordedAre, NetType, RoundedInt DEF DueInv, DeskFits, Desk, Advance
    <3>4. CASE IsPaid("MAIN") /\ IsPaid("RESERVE")
      BY <2>4, <3>2, <3>3, <3>4 DEF RowsFit
    <3>5. CASE ~IsPaid("MAIN") /\ IsPaid("RESERVE")
      <4>1. payout'["MAIN"].amount = Advance
        BY <2>4, <3>2, <3>5, RecordedAre
      <4>2. payout'["RESERVE"].amount = Net - Advance
        BY <2>4, <3>2, <3>3, <3>5 DEF RowsFit
      <4> QED
        BY <3>3, <4>1, <4>2
    <3>6. CASE IsPaid("MAIN") /\ ~IsPaid("RESERVE")
      <4> DEFINE shares == Shares(Net, desk[j].paid)
      <4>1. /\ desk[j].asRead /\ payout'["RESERVE"].amount = shares["RESERVE"]
            /\ desk[j].paid["RESERVE"] = None
        BY <2>4, <3>2, <3>6, RecordedAre
      <4>2. /\ shares["MAIN"] = IF desk[j].paid["MAIN"] # None THEN desk[j].paid["MAIN"] ELSE Advance
            /\ shares["RESERVE"] = Net - shares["MAIN"]
        BY <3>3, <4>1, SharesAre DEF Advance
      <4> HIDE DEF shares
      <4>3. payout["MAIN"].asRead /\ payout'["MAIN"].amount = payout["MAIN"].amount
        BY <2>4, <3>2, <3>6
      <4>4. desk[j].paid["MAIN"] # None => payout["MAIN"].amount = desk[j].paid["MAIN"]
        BY <3>1, <3>3 DEF RowsRead
      <4>5. desk[j].paid["MAIN"] = None => payout["MAIN"].amount = Advance
        <5>1. desk[j].paid["MAIN"] = None => Stale("MAIN") \/ payout["MAIN"].current
          BY <3>1, <3>3, <3>6, <4>1 DEF RowsRead
        <5> QED
          BY <3>3, <3>6, <4>3, <5>1 DEF Stale, RowsFit
      <4>6. payout["MAIN"].amount = shares["MAIN"] /\ shares["MAIN"] \in Int
        BY <3>1, <3>3, <4>2, <4>4, <4>5 DEF Shown
      <4> QED
        BY <3>3, <4>1, <4>2, <4>3, <4>6
    <3> QED
      BY <3>2, <3>4, <3>5, <3>6
  <2>5. \A p \in Parts : IsPaid(p)' => Sold
    BY RowsAfter, RecordedAre DEF DueInv, RowsFit, DeskFits, SoldFits
  <2> QED
    BY <1>1, <2>1, <2>2, <2>3, <2>4, <2>5 DEF RowsFit
<1>4. NoneStale' => NoneStale
  BY RowsAfter DEF NoneStale, Stale
<1>5. Settled /\ NoneStale' => Settled'
  BY <1>1, RowsAfter DEF Settled, NoneStale, Parts
<1>6. ASSUME NEW k, k = IdleDesk \/ k \in Desk, DeskFits(k) PROVE DeskFits(k)'
  <2>1. RowsRead(k)'
    <3>1. \A p \in Parts : IsPaid(p)' /\ ~IsPaid(p) =>
             Stale(p)' \/ payout'[p].current
      BY RowsAfter, RecordedAre
    <3> QED
      BY <1>6, <3>1, RowsAfter DEF DeskFits, RowsRead
  <2>2. SoldFits(k)' /\ ShownIsRead(k)' /\ FeesFit(k)' /\ AmountsFit(k)'
    BY <1>1, <1>6, SameSales DEF DeskFits, SoldFits, ShownIsRead, FeesFit, AmountsFit
  <2>3. SentFits(k)'
    <3>1. "MAIN" \in Parts
      BY DEF Parts
    <3>2. Stale("MAIN") => Stale("MAIN")'
      BY <3>1, RowsAfter DEF Stale
    <3> QED
      BY <1>6, <3>2, RowsAfter DEF DeskFits, SentFits
  <2>4. ClosingFits(k)'
    BY <1>1, <1>4, <1>5, <1>6 DEF DeskFits, ClosingFits, NoneAsked
  <2> QED
    BY <2>1, <2>2, <2>3, <2>4 DEF DeskFits
<1>7. \A i \in Clerks : DeskFits(desk[i])'
  <2> TAKE i \in Clerks
  <2> DEFINE d == desk'[i]
  <2>1. DeskFits(d) /\ (d = IdleDesk \/ d \in Desk)
    BY <1>2, IdleFits DEF DueInv, OwedTypes, DesksOK
  <2> QED
    BY <1>6, <2>1 DEF DeskFits, RowsRead, SoldFits, ShownIsRead, FeesFit, AmountsFit, SentFits, ClosingFits
<1>8. ClosedFits'
  BY <1>1, <1>4, <1>5 DEF DueInv, ClosedFits, NoneAsked
<1> QED
  BY <1>3, <1>7, <1>8 DEF DueInv

LEMMA StepDue ==
    ASSUME DueInv, [PayoutsNext]_payoutsVars
    PROVE  DueInv'
<1>t. OwedTypes'
  BY StepOwedTypes DEF DueInv
<1>d. DesksOK /\ PayoutsOK /\ RowsFit /\ \A j \in Clerks : DeskFits(desk[j])
  BY DEF DueInv, OwedTypes
<1>u. CASE UNCHANGED payoutsVars
  <2>1. \A j \in Clerks : DeskFits(desk[j])'
    BY <1>d, <1>u, SameRows, SameSales
    DEF payoutsVars, DeskFits, RowsRead, SoldFits, ShownIsRead, FeesFit, AmountsFit, SentFits, ClosingFits
  <2>2. ClosedFits'
    BY <1>u, SameRows DEF payoutsVars, DueInv, ClosedFits
  <2> QED
    BY <1>d, <1>t, <1>u, <2>1, <2>2, SameRows DEF payoutsVars, DueInv
<1> SUFFICES ASSUME PayoutsNext PROVE DueInv'
  BY <1>u
\* Sales
<1>1. ASSUME NEW o \in Orders, CompleteOrder(o) \/ Refund(o) PROVE DueInv'
  <2>1. OrderChanged /\ order' \in [Orders -> {"PENDING", "COMPLETED", "REFUNDED"}]
    BY <1>1, <1>t DEF CompleteOrder, Refund, OwedTypes, OrdersOK
  <2>2. Sold => Sold'
    BY <1>1 DEF CompleteOrder, Refund, Sold, DueInv, OwedTypes, OrdersOK
  <2> QED
    BY <1>t, <2>1, <2>2, ChangedDue
<1>2. ASSUME UNCHANGED <<order, payout, account, desk>>,
             \A o \in Orders : refund'[o] = "REQUESTED" => refund[o] = "REQUESTED"
      PROVE  DueInv'
  <2>1. \A j \in Clerks : DeskFits(desk[j])'
    BY <1>d, <1>2, SameRows, SameSales
    DEF DeskFits, RowsRead, SoldFits, ShownIsRead, FeesFit, AmountsFit, SentFits, ClosingFits
  <2>2. ClosedFits'
    BY <1>2, SameRows DEF DueInv, ClosedFits
  <2> QED
    BY <1>d, <1>t, <1>2, <2>1, <2>2, SameRows DEF DueInv
<1>3. ASSUME NEW o \in Orders, RefundPaid(o) PROVE DueInv'
  BY <1>2, <1>3 DEF RefundPaid, DueInv, OwedTypes, OrdersOK
<1>4. CASE EventOver
  BY <1>2, <1>4 DEF EventOver
<1>r. CASE RetireAccount
  <2>1. \A j \in Clerks : DeskFits(desk[j])'
    BY <1>d, <1>r, SameRows, SameSales
    DEF RetireAccount, DeskFits, RowsRead, SoldFits, ShownIsRead, FeesFit, AmountsFit, SentFits, ClosingFits
  <2>2. account'.state = "retired"
    BY <1>r DEF RetireAccount, DueInv, OwedTypes, OrdersOK, Account
  <2>3. RowsFit'
    BY <1>d, <1>r, SameRows DEF RetireAccount
  <2> QED
    BY <1>t, <2>1, <2>2, <2>3 DEF DueInv, ClosedFits
\* The summary
<1>5. ASSUME NEW j \in Clerks, ReadEvent(j) PROVE DueInv'
  <2>1. desk[j] \in Desk /\ desk[j].at = "event" /\ DeskFits(desk[j])
    BY <1>5, <1>d, DeskIs DEF ReadEvent, DeskAt
  <2>2. CASE /\ Sold
             /\ Step(j, [desk[j] EXCEPT !.at = "refunded", !.asRead = TRUE,
                                !.asShown = @ \/ desk[j].for = "page", !.paid = Paid])
    <3> DEFINE k == [desk[j] EXCEPT !.at = "refunded", !.asRead = TRUE,
                       !.asShown = @ \/ desk[j].for = "page", !.paid = Paid]
    <3>1. /\ k.at = "refunded" /\ k.for = desk[j].for /\ k.sent = desk[j].sent /\ k.asRead = TRUE
          /\ k.paid = Paid
          /\ k.for \in Parts => k.asShown = desk[j].asShown
      BY <2>1 DEF Desk, Parts
    <3> HIDE DEF k
    <3>2. RowsRead(k)
      BY <1>d, <3>1, PaidAre DEF RowsRead
    <3>3. SentFits(k)
      BY <2>1, <3>1 DEF DeskFits, SentFits
    <3>4. DeskFits(k)
      BY <2>2, <3>1, <3>2, <3>3 DEF DeskFits, SoldFits, ShownIsRead, FeesFit, AmountsFit, ClosingFits
    <3> QED
      BY <1>t, <2>2, <3>4, DeskDue DEF k
  <2>3. CASE /\ ~Sold /\ desk[j].for = "close"
             /\ Step(j, [desk[j] EXCEPT !.at = "refunds", !.asRead = TRUE])
    <3> DEFINE k == [desk[j] EXCEPT !.at = "refunds", !.asRead = TRUE]
    <3>1. k.at = "refunds" /\ k.asRead = TRUE
      BY <2>1 DEF Desk
    <3>2. DeskFits(k)
      <4>1. k.for = "close" /\ k # IdleDesk
        BY <2>1, <2>3, <3>1 DEF Desk, IdleDesk
      <4>2. Settled
        BY <1>d, <2>3, NothingSold
      <4> QED
        BY <3>1, <4>1, <4>2
        DEF DeskFits, RowsRead, SoldFits, ShownIsRead, FeesFit, AmountsFit, SentFits, ClosingFits, Parts
    <3> QED
      BY <1>t, <2>3, <3>2, DeskDue
  <2>4. CASE Step(j, IdleDesk)
    BY <1>t, <2>4, IdleFits, DeskDue
  <2> QED
    BY <1>5, <2>2, <2>3, <2>4 DEF ReadEvent, Sold
<1>6. ASSUME NEW j \in Clerks, ReadRefunded(j) PROVE DueInv'
  <2>1. desk[j] \in Desk /\ desk[j].at = "refunded" /\ DeskFits(desk[j])
    BY <1>6, <1>d, DeskIs DEF ReadRefunded, DeskAt
  <2> DEFINE k == [desk[j] EXCEPT !.at = "completed", !.fees = RefundedFees]
  <2>2. /\ k.at = "completed" /\ k.fees = RefundedFees
        /\ k.for = desk[j].for /\ k.sent = desk[j].sent /\ k.paid = desk[j].paid
        /\ k.asShown = desk[j].asShown /\ k.asRead = desk[j].asRead
    BY <2>1 DEF Desk
  <2>3. Step(j, k) /\ desk[j] # IdleDesk
    BY <1>6, <2>1 DEF ReadRefunded, IdleDesk
  <2> HIDE DEF k
  <2>4. DeskFits(k)
    BY <2>1, <2>2, <2>3 DEF DeskFits, RowsRead, SoldFits, ShownIsRead, FeesFit, AmountsFit, SentFits, ClosingFits
  <2> QED
    BY <1>t, <2>3, <2>4, DeskDue
<1>7. ASSUME NEW j \in Clerks, ReadCompleted(j) PROVE DueInv'
  <2>1. desk[j] \in Desk /\ desk[j].at = "completed" /\ DeskFits(desk[j])
    BY <1>7, <1>d, DeskIs DEF ReadCompleted, DeskAt
  <2> DEFINE amounts == Shares(Collected - desk[j].fees, desk[j].paid)
             read(at, keep) == [desk[j] EXCEPT !.at = at, !.fees = 0, !.amounts = keep]
  <2>2. desk[j].asRead => amounts = Shares(Net, desk[j].paid)
    BY <2>1 DEF DeskFits, FeesFit, Net
  <2>3. PICK k : Step(j, k) /\
           \/ k = IdleDesk
           \/ desk[j].for = "page" /\ k = read("page", amounts)
           \/ /\ desk[j].for = "close" /\ k = read("refunds", Zero)
              /\ \A p \in Parts : desk[j].paid[p] = None => amounts[p] = 0
           \/ /\ desk[j].for \in Parts /\ k = read("record", amounts)
              /\ desk[j].paid[desk[j].for] = None
    BY <1>7 DEF ReadCompleted, Pending, Unpaid
  <2>4. \A at, keep :
           LET r == read(at, keep) IN
           /\ r.at = at /\ r.amounts = keep
           /\ r.for = desk[j].for /\ r.sent = desk[j].sent /\ r.paid = desk[j].paid
           /\ r.asShown = desk[j].asShown /\ r.asRead = desk[j].asRead
    BY <2>1 DEF Desk
  <2>5. desk[j] # IdleDesk
    BY <2>1 DEF IdleDesk
  <2> HIDE DEF amounts, read
  <2>6. ASSUME \/ k = read("page", amounts)
               \/ k = read("record", amounts) /\ desk[j].paid[desk[j].for] = None
        PROVE  DeskFits(k)
    BY <2>1, <2>2, <2>4, <2>5, <2>6
    DEF DeskFits, RowsRead, SoldFits, ShownIsRead, FeesFit, AmountsFit, SentFits, ClosingFits
  <2>7. ASSUME k = read("refunds", Zero),
               \A p \in Parts : desk[j].paid[p] = None => amounts[p] = 0
        PROVE  DeskFits(k)
    <3>1. ASSUME desk[j].asRead, NoneStale, NEW p \in Parts, ~IsPaid(p) PROVE Left[p] = 0
      <4>1. Shares(Net, desk[j].paid)[p] = Left[p]
        <5>1. ~Stale("MAIN") /\ RowsRead(desk[j])
          BY <2>1, <3>1 DEF NoneStale, Parts, DeskFits
        <5> QED
          BY <1>d, <2>1, <3>1, <5>1, ReadIsLeft
      <4>2. desk[j].paid[p] = None
        BY <2>1, <3>1 DEF DeskFits, RowsRead
      <4> QED
        BY <2>2, <2>7, <3>1, <4>1, <4>2
    <3>2. ClosingFits(k)
      BY <2>4, <2>7, <3>1 DEF ClosingFits, Settled
    <3> QED
      BY <2>1, <2>4, <2>5, <2>7, <3>2
      DEF DeskFits, RowsRead, SoldFits, ShownIsRead, FeesFit, AmountsFit, SentFits
  <2> QED
    BY <1>t, <2>3, <2>6, <2>7, IdleFits, DeskDue
\* Administrators
<1>8. ASSUME NEW j \in Clerks, NEW for, NEW sent, NEW shown \in BOOLEAN, Ask(j, for, sent, shown),
             for \in Parts /\ shown /\ ~Stale("MAIN") /\ ~IsPaid(for)
               => sent = Left[for]
      PROVE  DueInv'
  <2> DEFINE k == [at |-> "event", for |-> for, sent |-> sent, asShown |-> shown, asRead |-> TRUE,
                   fees |-> 0, paid |-> [p \in Parts |-> None], amounts |-> Zero]
  <2>1. Step(j, k)
    BY <1>8 DEF Ask
  <2>2. DeskFits(k)
    BY <1>8 DEF DeskFits, RowsRead, SoldFits, ShownIsRead, FeesFit, AmountsFit, SentFits, ClosingFits
  <2> QED
    BY <1>t, <2>1, <2>2, DeskDue
<1>9. ASSUME NEW j \in Clerks, OpenPage(j) \/ AskToClose(j) PROVE DueInv'
  <2>1. PICK for \in {"page", "close"}, shown \in BOOLEAN : Ask(j, for, 0, shown)
    BY <1>9, Zenon DEF OpenPage, AskToClose
  <2> QED
    BY <1>8, <2>1 DEF Parts
<1>10. ASSUME NEW j \in Clerks, NEW p \in Parts, MarkPaid(j, p) PROVE DueInv'
  <2>1. desk[j] \in Desk /\ desk[j].at = "page" /\ DeskFits(desk[j])
    BY <1>10, <1>d, DeskIs DEF MarkPaid, DeskAt
  <2>2. Ask(j, p, desk[j].amounts[p], desk[j].asShown) /\ desk[j].asShown \in BOOLEAN
    BY <1>10, <2>1 DEF MarkPaid, Desk
  <2>3. ASSUME desk[j].asShown, ~Stale("MAIN"), ~IsPaid(p)
        PROVE  desk[j].amounts[p] = Left[p]
    <3>1. desk[j].asRead
      BY <2>1, <2>3 DEF DeskFits, ShownIsRead, IdleDesk
    <3>2. desk[j].amounts = Shares(Net, desk[j].paid) /\ RowsRead(desk[j])
      BY <2>1, <3>1 DEF DeskFits, AmountsFit
    <3> QED
      BY <1>d, <2>1, <2>3, <3>1, <3>2, ReadIsLeft
  <2> QED
    BY <1>8, <2>2, <2>3
<1>11. ASSUME NEW j \in Clerks, LeavePage(j) PROVE DueInv'
  BY <1>11, <1>t, IdleFits, DeskDue DEF LeavePage
<1>12. ASSUME NEW j \in Clerks, RecordPayout(j) PROVE DueInv'
  BY <1>12, <1>t, RecordDue
\* Closing
<1>c. ASSUME NEW j \in Clerks, CountRefunds(j) PROVE DueInv'
  <2>1. desk[j] \in Desk /\ desk[j].at = "refunds" /\ DeskFits(desk[j])
    BY <1>c, <1>d, DeskIs DEF CountRefunds, DeskAt
  <2>2. CASE Step(j, IdleDesk)
    BY <1>t, <2>2, IdleFits, DeskDue
  <2>3. CASE NoneAsked /\ Step(j, [desk[j] EXCEPT !.at = "closing", !.asShown = TRUE])
    <3> DEFINE k == [desk[j] EXCEPT !.at = "closing", !.asShown = TRUE]
    <3>1. k.at = "closing" /\ k.for = desk[j].for /\ k.asRead = desk[j].asRead
      BY <2>1 DEF Desk
    <3>2. DeskFits(k)
      <4> HIDE DEF k
      <4> QED
        BY <2>1, <2>3, <3>1
        DEF DeskFits, RowsRead, SoldFits, ShownIsRead, FeesFit, AmountsFit, SentFits, ClosingFits
    <3> QED
      BY <1>t, <2>3, <3>2, DeskDue
  <2> QED
    BY <1>c, <2>2, <2>3 DEF CountRefunds, NoneAsked
<1>13. ASSUME NEW j \in Clerks, CloseAccount(j) PROVE DueInv'
  <2>1. UNCHANGED <<order, refund, payout>> /\ desk[j].at = "closing"
    BY <1>13 DEF CloseAccount, DeskAt
  <2>2. \A i \in Clerks : desk'[i] = IF i = j THEN IdleDesk ELSE desk[i]
    BY <1>13, <1>d DEF CloseAccount, ClearDesk, SetDesk, DesksOK
  <2>3. \A i \in Clerks : DeskFits(desk[i])'
    <3> TAKE i \in Clerks
    <3> DEFINE d == desk'[i]
    <3>1. DeskFits(d)
      BY <1>d, <2>2, IdleFits
    <3> QED
      BY <2>1, <3>1, SameRows, SameSales
      DEF DeskFits, RowsRead, SoldFits, ShownIsRead, FeesFit, AmountsFit, SentFits, ClosingFits
  <2>4. ClosedFits'
    <3>1. /\ desk[j].asRead /\ NoneStale => Settled
          /\ desk[j].asShown => NoneAsked
      BY <1>d, <2>1 DEF DeskFits, ClosingFits
    <3>2. account'.current = desk[j].asRead /\ account'.counted = desk[j].asShown
      BY <1>13 DEF CloseAccount
    <3> QED
      BY <2>1, <3>1, <3>2, SameRows DEF ClosedFits
  <2> QED
    BY <1>d, <1>t, <2>1, <2>3, <2>4, SameRows DEF DueInv
<1> QED
  BY <1>1, <1>3, <1>4, <1>5, <1>6, <1>7, <1>9, <1>10, <1>11, <1>12, <1>13, <1>c, <1>r DEF PayoutsNext

\* A part is recorded by one desk, with what it computed again
LEMMA RecordsIs ==
    ASSUME DueInv, [PayoutsNext]_payoutsVars, NEW j \in Clerks, NEW p \in Parts,
           Records(j, p)
    PROVE  /\ RecordPayout(j) /\ desk[j].for = p /\ ~IsPaid(p)
           /\ payout'[p].amount = desk[j].amounts[p]
<1>1. /\ DeskAt(j, "record") /\ desk[j] # desk'[j] /\ desk[j].for = p
      /\ ~IsPaid(p) /\ IsPaid(p)' /\ payout'[p] # payout[p]
  BY DEF Records, DeskAt, IdleDesk, IsPaid
<1>2. ASSUME NEW o \in Orders, CompleteOrder(o) \/ Refund(o) PROVE FALSE
  BY <1>1, <1>2 DEF CompleteOrder, Refund, OrderChanged, IsPaid
<1>3. PICK i \in Clerks : RecordPayout(i)
  BY <1>1, <1>2
  DEF PayoutsNext, payoutsVars, RefundPaid, EventOver, OpenPage, LeavePage,
      AskToClose, CountRefunds, CloseAccount, RetireAccount, ReadEvent, ReadRefunded, ReadCompleted,
      MarkPaid, Ask, Step
<1>4. i = j
  <2>1. desk' = [desk EXCEPT ![i] = IdleDesk]
    BY <1>3 DEF RecordPayout, ClearDesk, SetDesk
  <2> QED
    BY <1>1, <2>1 DEF DueInv, OwedTypes, DesksOK
<1>5. OwedTypes'
  BY StepOwedTypes DEF DueInv
<1>6. payout'[p] = NewRow(j) /\ NewRow(j).amount = desk[j].amounts[p]
  BY <1>1, <1>3, <1>4, <1>5, RowsAfter, RecordedAre
<1> QED
  BY <1>1, <1>3, <1>4, <1>6

LEMMA StepReserveSettles ==
    ASSUME DueInv, [PayoutsNext]_payoutsVars, NEW j \in Clerks,
           NEW p \in Parts, NEW q \in Parts,
           Records(j, p), q # p, IsPaid(q), desk[j].asRead,
           payout[q].current \/ (q = "MAIN" /\ ~Unpaid(j, "MAIN"))
    PROVE  payout'[p].amount + payout[q].amount = Net
<1>1. /\ RecordPayout(j) /\ desk[j].for = p /\ ~IsPaid(p)
      /\ payout'[p].amount = desk[j].amounts[p]
  BY RecordsIs
<1>2. /\ desk[j] \in Desk /\ desk[j].at = "record" /\ desk[j].paid[p] = None
      /\ desk[j].amounts = Shares(Net, desk[j].paid)
  BY <1>1, RecordedAre
<1>3. RowsFit /\ RowsRead(desk[j]) /\ PayoutsOK
  BY DEF DueInv, DeskFits, OwedTypes
<1>4. desk[j].paid \in Shown /\ Net \in Int /\ Advance \in Int /\ payout[q].amount \in Int
  <2>1. desk[j].paid \in Shown /\ Net \in Int /\ Rounded(Net, 10) \in Int
    BY <1>2, NetType, RoundedInt DEF Desk
  <2>2. payout[q] \in PayoutRows
    BY <1>3, PaidAre
  <2> QED
    BY <2>1, <2>2 DEF Advance, PayoutRows
<1>5. /\ desk[j].amounts["MAIN"] = IF desk[j].paid["MAIN"] # None THEN desk[j].paid["MAIN"] ELSE Advance
      /\ desk[j].paid["RESERVE"] = None =>
           desk[j].amounts["RESERVE"] = Net - desk[j].amounts["MAIN"]
  BY <1>2, <1>4, SharesAre DEF Advance
<1>6. CASE p = "MAIN" /\ q = "RESERVE"
  BY <1>1, <1>2, <1>3, <1>4, <1>5, <1>6 DEF RowsFit
<1>7. CASE p = "RESERVE" /\ q = "MAIN"
  <2>1. payout["MAIN"].amount = desk[j].amounts["MAIN"]
    BY <1>2, <1>3, <1>5, <1>7 DEF RowsFit, RowsRead, Unpaid
  <2> QED
    BY <1>1, <1>2, <1>4, <1>5, <1>7, <2>1
<1> QED
  BY <1>6, <1>7 DEF Parts

LEMMA StepRecordedIsTransferred ==
    ASSUME DueInv, [PayoutsNext]_payoutsVars, NEW j \in Clerks, NEW p \in Parts,
           Records(j, p), desk[j].asShown, \A q \in Parts : ~Stale(q)
    PROVE  payout'[p].amount = desk[j].sent
<1>1. /\ RecordPayout(j) /\ desk[j].for = p /\ ~IsPaid(p)
      /\ payout'[p].amount = desk[j].amounts[p]
  BY RecordsIs
<1>2. desk[j] \in Desk /\ desk[j].at = "record" /\ DeskFits(desk[j]) /\ ~Stale("MAIN")
  BY <1>1, RecordedAre DEF DueInv, Parts
<1>3. desk[j].asRead
  BY <1>2 DEF DeskFits, ShownIsRead, IdleDesk
<1>4. desk[j].sent = Left[p]
  BY <1>1, <1>2 DEF DeskFits, SentFits
<1>5. desk[j].amounts[p] = Left[p]
  <2>1. desk[j].amounts = Shares(Net, desk[j].paid) /\ RowsRead(desk[j])
    BY <1>2, <1>3 DEF DeskFits, AmountsFit
  <2> QED
    BY <1>1, <1>2, <1>3, <2>1, ReadIsLeft DEF DueInv, OwedTypes
<1> QED
  BY <1>1, <1>4, <1>5

THEOREM DueInvariant == PayoutsSpec => []DueInv
BY InitDue, StepDue, PTL DEF PayoutsSpec

\* Every variable of the payouts holds what the code stores in it.
THEOREM PayoutsTypeCorrect == PayoutsSpec => []PayoutsTypeOK
<1>1. DueInv => PayoutsTypeOK
  BY OwedTypesImply DEF DueInv
<1> QED
  BY <1>1, DueInvariant, PTL

\* An account its organizer closed leaves no buyer whose refund the request
\* counted waiting; and the rows recorded are the net of its sales, when no order
\* changed since the request read them, nor since the reserve was recorded, nor
\* while a part was (privacy.service.ts, payouts.service.ts).  An account the
\* nightly retention retires promises neither.
THEOREM ClosedAccountSettled == PayoutsSpec => []ClosedOwesNothing
<1>1. DueInv => ClosedOwesNothing
  <2>1. SUFFICES ASSUME DueInv PROVE ClosedOwesNothing
    OBVIOUS
  <2>2. account.state = "closed" /\ account.counted => \A o \in Orders : refund[o] # "REQUESTED"
    BY <2>1 DEF DueInv, ClosedFits, NoneAsked
  <2>3. ASSUME ClosedOnSales, IsPaid("RESERVE") => payout["RESERVE"].current
        PROVE  Transferred = Net
    <3>1. NoneStale /\ Settled /\ RowsFit /\ PayoutsOK
      BY <2>1, <2>3 DEF DueInv, OwedTypes, ClosedOnSales, NoneStale, ClosedFits
    <3> QED
      BY <2>3, <3>1, SettledAre
  <2> QED
    BY <2>2, <2>3 DEF ClosedOwesNothing
<1> QED
  BY <1>1, DueInvariant, PTL

\* The second part recorded brings the two to the net of the sales, whichever
\* was first and whatever was refunded between them.
THEOREM ReserveCovers == PayoutsSpec => ReserveSettles
<1>1. DueInv /\ [PayoutsNext]_payoutsVars =>
        [\A j \in Clerks, p, q \in Parts :
           /\ Records(j, p) /\ q # p /\ IsPaid(q) /\ desk[j].asRead
           /\ payout[q].current \/ (q = "MAIN" /\ ~Unpaid(j, "MAIN"))
           => payout'[p].amount + payout[q].amount = Net]_payoutsVars
  BY StepReserveSettles
<1> QED
  BY <1>1, DueInvariant, PTL DEF PayoutsSpec, ReserveSettles

\* The row of a payout tells what was transferred by hand, unless an order
\* changed after the page that was read, or while the other part was recorded.
THEOREM RowsTellTransfers == PayoutsSpec => RecordedIsTransferred
<1>1. DueInv /\ [PayoutsNext]_payoutsVars =>
        [\A j \in Clerks, p \in Parts :
           Records(j, p) => \/ payout'[p].amount = desk[j].sent
                            \/ ~desk[j].asShown
                            \/ \E q \in Parts : Stale(q)]_payoutsVars
  BY StepRecordedIsTransferred
<1> QED
  BY <1>1, DueInvariant, PTL DEF PayoutsSpec, RecordedIsTransferred
=============================================================================
