---------------------------- MODULE CreditsProofs ----------------------------
(***************************************************************************)
(* Proofs about Credits, AICalls and EmailIntake, for any number of        *)
(* requests, members, lots, months, providers, mailboxes and messages.     *)
(*                                                                         *)
(* No member goes over the quota: a request about to finish holds the lock *)
(* of its month, and what it decided to charge still fits, because nobody  *)
(* else may charge that month meanwhile. The books add up: what was taken  *)
(* from the plan and from the lots, less what was bought, is what was      *)
(* paid, unless two months are charged at once. Client data goes where it  *)
(* may: the providers a request chose stay usable until the office changes *)
(* something. The guard and the breakers follow from who is inside and who *)
(* is about to record. An e-mail is handled once: a message is with the    *)
(* one reader that saved it, queued, or with the one triager that has      *)
(* taken it.                                                               *)
(***************************************************************************)
EXTENDS MCCredits, FiniteSetTheorems, SequenceTheorems, WellFoundedInduction, TLAPS

(***************************************************************************)
(* Sums.  What Total adds up exists and is unique, whatever order the      *)
(* column is added in: by induction over the subsets of its domain, as     *)
(* sets, since a theorem that takes an operator cannot be used here.       *)
(***************************************************************************)

\* A set of natural numbers that is not empty has a least one.
LEMMA LeastOf ==
    ASSUME NEW S \in SUBSET Nat, S # {}
    PROVE  \E n \in S : \A m \in S : n <= m
<1> DEFINE segments == {0 .. n : n \in S}
<1>1. segments \subseteq FiniteSubsetsOf(Nat) /\ segments # {}
  <2>1. \A n \in S : 0 .. n \in SUBSET Nat /\ IsFiniteSet(0 .. n)
    BY FS_Interval
  <2> QED
    BY <2>1 DEF FiniteSubsetsOf
<1>2. PICK X \in segments : \A Y \in segments : <<Y, X>> \notin StrictSubsetOrdering(Nat)
  <2> HIDE DEF segments
  <2> QED
    BY <1>1, FS_StrictSubsetOrderingWellFounded, WFMin
<1>3. PICK n \in S : X = 0 .. n
  OBVIOUS
<1>4. ASSUME NEW m \in S, ~(n <= m) PROVE FALSE
  <2>1. 0 .. m \subseteq 0 .. n /\ n \in 0 .. n /\ n \notin 0 .. m /\ 0 .. n \in SUBSET Nat
    BY <1>4
  <2>2. <<0 .. m, 0 .. n>> \in StrictSubsetOrdering(Nat)
    BY <2>1 DEF StrictSubsetOrdering
  <2> QED
    BY <1>2, <1>3, <2>2
<1> QED
  BY <1>4

\* A finite set of finite sets has a least one.
LEMMA SmallestSubset ==
    ASSUME NEW S, IsFiniteSet(S), NEW T, T \subseteq SUBSET S, T # {}
    PROVE  \E x \in T : \A y \in T : y \subseteq x => y = x
<1>1. IsWellFoundedOn(StrictSubsetOrdering(S), FiniteSubsetsOf(S))
  BY FS_StrictSubsetOrderingWellFounded
<1>2. T \subseteq FiniteSubsetsOf(S)
  BY FS_FiniteSubsetsOfFinite
<1>3. PICK x \in T : \A y \in T : ~(<<y, x>> \in StrictSubsetOrdering(S))
  BY <1>1, <1>2, WFMin
<1> QED
  BY <1>3 DEF StrictSubsetOrdering

\* Induction over the numbers, on the set of those for which a fact holds.
LEMMA Naturals ==
    ASSUME NEW N, 0 \in N, \A n \in Nat : n \in N => n + 1 \in N, NEW m \in Nat
    PROVE  m \in N
<1> SUFFICES ASSUME m \notin N PROVE FALSE
  OBVIOUS
<1>1. PICK k \in Nat \ N : \A j \in Nat \ N : k <= j
  <2>1. PICK T \in SUBSET Nat : T = Nat \ N
    OBVIOUS
  <2> QED
    BY <2>1, LeastOf
<1>2. k - 1 \in Nat /\ k = (k - 1) + 1 /\ k - 1 \in N
  BY <1>1
<1> QED
  BY <1>1, <1>2

Some(s) == CHOOSE x \in s : TRUE
Sums(f, D, g) == \A s \in D : g[s] = IF s = {} THEN 0 ELSE f[Some(s)] + g[s \ {Some(s)}]

LEMMA SumsExist ==
    ASSUME NEW S, IsFiniteSet(S), NEW f \in [S -> Int]
    PROVE  \E g \in [SUBSET S -> Int] : Sums(f, SUBSET S, g)
<1> DEFINE Upto(n) == {s \in SUBSET S : Cardinality(s) <= n}
           N == {n \in Nat : \E g \in [Upto(n) -> Int] : Sums(f, Upto(n), g)}
<1>1. \A s \in SUBSET S : IsFiniteSet(s) /\ Cardinality(s) \in Nat /\ (Cardinality(s) = 0 => s = {})
  BY FS_Subset, FS_CardinalityType, FS_EmptySet
<1>2. \A s \in SUBSET S : s # {} => Some(s) \in s /\ s \ {Some(s)} \in SUBSET S /\ Cardinality(s \ {Some(s)}) = Cardinality(s) - 1
  <2>1. \A s \in SUBSET S : s # {} => Some(s) \in s
    BY DEF Some
  <2>2. \A s \in SUBSET S : \A x \in s : Cardinality(s \ {x}) = Cardinality(s) - 1
    BY <1>1, FS_RemoveElement
  <2> QED
    BY <2>1, <2>2
<1>3. 0 \in N
  <2>1. Upto(0) = {{}}
    BY <1>1, FS_EmptySet
  <2>2. [s \in Upto(0) |-> 0] \in [Upto(0) -> Int] /\ Sums(f, Upto(0), [s \in Upto(0) |-> 0])
    BY <2>1 DEF Sums
  <2> QED
    BY <2>2
<1>4. ASSUME NEW n \in Nat, n \in N PROVE n + 1 \in N
  <2>1. PICK g \in [Upto(n) -> Int] : Sums(f, Upto(n), g)
    BY <1>4
  <2> DEFINE h == [s \in Upto(n + 1) |-> IF s = {} THEN 0 ELSE f[Some(s)] + g[s \ {Some(s)}]]
  <2>2. \A s \in Upto(n + 1) : s # {} => s \ {Some(s)} \in Upto(n) /\ f[Some(s)] \in Int
    BY <1>1, <1>2
  <2>3. h \in [Upto(n + 1) -> Int]
    BY <2>2
  <2>4. \A s \in Upto(n) : s \in Upto(n + 1) /\ h[s] = g[s]
    BY <1>1, <2>1 DEF Sums
  <2>5. Sums(f, Upto(n + 1), h)
    BY <2>2, <2>4 DEF Sums
  <2>6. n + 1 \in Nat
    OBVIOUS
  <2> HIDE DEF h, Upto
  <2> QED
    BY <2>3, <2>5, <2>6
<1>5. Cardinality(S) \in N
  <2> HIDE DEF N
  <2> QED
    BY <1>1, <1>3, <1>4, Naturals
<1>6. Upto(Cardinality(S)) = SUBSET S
  BY <1>1, FS_Subset
<1> QED
  BY <1>5, <1>6

LEMMA TotalSums ==
    ASSUME NEW S, IsFiniteSet(S), NEW f \in [S -> Int]
    PROVE  \E g \in [SUBSET S -> Int] : Sums(f, SUBSET S, g) /\ Total(f) = g[S]
<1> DEFINE IsSum(g) == g = [s \in SUBSET S |-> IF s = {} THEN 0 ELSE f[Some(s)] + g[s \ {Some(s)}]]
<1>1. PICK g \in [SUBSET S -> Int] : Sums(f, SUBSET S, g)
  BY SumsExist
<1>2. IsSum(g)
  BY <1>1 DEF Sums
<1> DEFINE h == CHOOSE h : IsSum(h)
<1>3. IsSum(h)
  <2> HIDE DEF IsSum
  <2> QED
    BY <1>2
<1>4. Total(f) = h[S]
  BY DEF Total, Some
<1> HIDE DEF h
<1>5. Sums(f, SUBSET S, h) /\ h = [s \in SUBSET S |-> h[s]]
  BY <1>3 DEF Sums
<1> HIDE DEF IsSum
<1>6. ASSUME NEW s \in SUBSET S PROVE h[s] \in Int
  <2> DEFINE T == {t \in SUBSET S : h[t] \notin Int}
  <2> SUFFICES ASSUME T # {} PROVE FALSE
    OBVIOUS
  <2>1. PICK t \in T : \A u \in T : u \subseteq t => u = t
    <3>1. T \subseteq SUBSET S
      OBVIOUS
    <3> HIDE DEF T
    <3> QED
      BY <3>1, SmallestSubset
  <2>2. h[t] = IF t = {} THEN 0 ELSE f[Some(t)] + h[t \ {Some(t)}]
    BY <1>5, <2>1 DEF Sums
  <2>3. t # {} /\ h[t] \notin Int
    BY <2>1, <2>2
  <2>4. Some(t) \in t
    BY <2>3 DEF Some
  <2>5. t \ {Some(t)} \in SUBSET S /\ t \ {Some(t)} # t /\ t \ {Some(t)} \subseteq t
    BY <2>1, <2>4
  <2>6. h[t \ {Some(t)}] \in Int
    BY <2>1, <2>5
  <2>7. f[Some(t)] \in Int
    BY <2>1, <2>4
  <2> QED
    BY <2>2, <2>3, <2>6, <2>7
<1> QED
  BY <1>4, <1>5, <1>6

\* g sums what f gives over each set of its arguments.
IsSumOf(g, f, S) == /\ g \in [SUBSET S -> Int] /\ g[{}] = 0
                    /\ \A s \in SUBSET S : \A x \in s : g[s] = f[x] + g[s \ {x}]

\* Whatever element is taken out first, the sum is the same.
LEMMA SumsAny ==
    ASSUME NEW S, IsFiniteSet(S), NEW f \in [S -> Int], NEW g \in [SUBSET S -> Int], Sums(f, SUBSET S, g)
    PROVE  IsSumOf(g, f, S)
<1>1. \A s \in SUBSET S : g[s] = IF s = {} THEN 0 ELSE f[Some(s)] + g[s \ {Some(s)}]
  BY DEF Sums
<1>2. g[{}] = 0
  BY <1>1
<1> DEFINE T == {s \in SUBSET S : \E x \in s : g[s] # f[x] + g[s \ {x}]}
<1>3. ASSUME T # {} PROVE FALSE
  <2>1. PICK t \in T : \A u \in T : u \subseteq t => u = t
    <3>1. T \subseteq SUBSET S
      OBVIOUS
    <3> HIDE DEF T
    <3> QED
      BY <1>3, <3>1, SmallestSubset
  <2>2. PICK x \in t : g[t] # f[x] + g[t \ {x}]
    BY <2>1
  <2>3. PICK c : c = Some(t)
    OBVIOUS
  <2>4. c \in t /\ t \in SUBSET S /\ g[t] = f[c] + g[t \ {c}]
    BY <1>1, <2>1, <2>2, <2>3 DEF Some
  <2>5. x # c
    BY <2>2, <2>4
  <2>6. \A y \in t : t \ {y} \in SUBSET S /\ t \ {y} # t /\ t \ {y} \subseteq t
    BY <2>4
  <2>7. \A y \in t : \A z \in t \ {y} : g[t \ {y}] = f[z] + g[(t \ {y}) \ {z}]
    BY <2>1, <2>6
  <2>8. g[t \ {c}] = f[x] + g[(t \ {c}) \ {x}] /\ g[t \ {x}] = f[c] + g[(t \ {x}) \ {c}]
    BY <2>2, <2>4, <2>5, <2>7
  <2>9. (t \ {c}) \ {x} = (t \ {x}) \ {c} /\ (t \ {x}) \ {c} \in SUBSET S
    BY <2>4
  <2>10. PICK rest \in Int : rest = g[(t \ {x}) \ {c}]
    BY <2>9
  <2>11. f[x] \in Int /\ f[c] \in Int
    BY <2>2, <2>4
  <2>12. g[t \ {c}] = f[x] + rest /\ g[t \ {x}] = f[c] + rest
    BY <2>8, <2>9, <2>10
  <2>13. g[t] = f[x] + g[t \ {x}]
    BY <2>4, <2>11, <2>12
  <2> QED
    BY <2>2, <2>13
<1> QED
  BY <1>2, <1>3 DEF IsSumOf

LEMMA Summing ==
    ASSUME NEW S, IsFiniteSet(S), NEW f \in [S -> Int]
    PROVE  \E g : IsSumOf(g, f, S) /\ Total(f) = g[S]
<1>1. PICK g \in [SUBSET S -> Int] : Sums(f, SUBSET S, g) /\ Total(f) = g[S]
  BY TotalSums
<1>2. IsSumOf(g, f, S)
  BY <1>1, SumsAny
<1> QED
  BY <1>1, <1>2

\* An equation between sums holds if it holds for each argument.
LEMMA SumsAgree ==
    ASSUME NEW S, IsFiniteSet(S), NEW f \in [S -> Int], NEW a \in [S -> Int], NEW b \in [S -> Int],
           \A x \in S : f[x] = a[x] + b[x],
           NEW gf, NEW ga, NEW gb, IsSumOf(gf, f, S), IsSumOf(ga, a, S), IsSumOf(gb, b, S)
    PROVE  \A s \in SUBSET S : gf[s] = ga[s] + gb[s]
<1> DEFINE T == {s \in SUBSET S : gf[s] # ga[s] + gb[s]}
<1> SUFFICES ASSUME T # {} PROVE FALSE
  OBVIOUS
<1>1. PICK t \in T : \A u \in T : u \subseteq t => u = t
  <2>1. T \subseteq SUBSET S
    OBVIOUS
  <2> HIDE DEF T
  <2> QED
    BY <2>1, SmallestSubset
<1>2. t # {}
  <2>1. gf[{}] = 0 /\ ga[{}] = 0 /\ gb[{}] = 0 /\ gf[t] # ga[t] + gb[t]
    BY <1>1 DEF IsSumOf
  <2> QED
    BY <2>1
<1>3. PICK x \in t : TRUE
  BY <1>2
<1>4. t \ {x} \in SUBSET S /\ t \ {x} # t /\ t \ {x} \subseteq t /\ x \in S
  BY <1>1, <1>3
<1>5. gf[t \ {x}] = ga[t \ {x}] + gb[t \ {x}]
  BY <1>1, <1>4
<1>6. gf[t] = f[x] + gf[t \ {x}] /\ ga[t] = a[x] + ga[t \ {x}] /\ gb[t] = b[x] + gb[t \ {x}]
  BY <1>1, <1>3 DEF IsSumOf
<1>7. ga[t \ {x}] \in Int /\ gb[t \ {x}] \in Int /\ a[x] \in Int /\ b[x] \in Int /\ f[x] = a[x] + b[x]
  BY <1>4 DEF IsSumOf
<1> QED
  BY <1>1, <1>5, <1>6, <1>7

LEMMA TotalAdds ==
    ASSUME NEW S, IsFiniteSet(S), NEW f \in [S -> Int], NEW a \in [S -> Int], NEW b \in [S -> Int],
           \A x \in S : f[x] = a[x] + b[x]
    PROVE  Total(f) = Total(a) + Total(b)
<1>1. PICK gf : IsSumOf(gf, f, S) /\ Total(f) = gf[S]
  BY Summing
<1>2. PICK ga : IsSumOf(ga, a, S) /\ Total(a) = ga[S]
  BY Summing
<1>3. PICK gb : IsSumOf(gb, b, S) /\ Total(b) = gb[S]
  BY Summing
<1> QED
  BY <1>1, <1>2, <1>3, SumsAgree

\* Two functions with the same values over a set have the same sum over it.
LEMMA SumsSame ==
    ASSUME NEW S, IsFiniteSet(S), NEW f, NEW g, IsSumOf(g, f, S), f \in [S -> Int],
           NEW R, NEW e, NEW h, IsSumOf(h, e, R), NEW D \in SUBSET S, D \subseteq R, \A x \in D : f[x] = e[x]
    PROVE  g[D] = h[D]
<1> DEFINE T == {s \in SUBSET D : g[s] # h[s]}
<1> SUFFICES ASSUME T # {} PROVE FALSE
  OBVIOUS
<1>1. PICK t \in T : \A u \in T : u \subseteq t => u = t
  <2>1. T \subseteq SUBSET S
    OBVIOUS
  <2> HIDE DEF T
  <2> QED
    BY <2>1, SmallestSubset
<1>2. t # {}
  <2>1. g[{}] = 0 /\ h[{}] = 0 /\ g[t] # h[t]
    BY <1>1 DEF IsSumOf
  <2> QED
    BY <2>1
<1>3. PICK x \in t : TRUE
  BY <1>2
<1>4. t \ {x} \in SUBSET D /\ t \ {x} # t /\ t \ {x} \subseteq t /\ x \in D /\ t \in SUBSET S /\ t \in SUBSET R
  BY <1>1, <1>3
<1>5. g[t \ {x}] = h[t \ {x}]
  BY <1>1, <1>4
<1>6. g[t] = f[x] + g[t \ {x}] /\ h[t] = e[x] + h[t \ {x}]
  BY <1>3, <1>4 DEF IsSumOf
<1> QED
  BY <1>1, <1>4, <1>5, <1>6

LEMMA TotalInt == ASSUME NEW S, IsFiniteSet(S), NEW f \in [S -> Int] PROVE Total(f) \in Int
<1>1. PICK g : IsSumOf(g, f, S) /\ Total(f) = g[S]
  BY Summing
<1> QED
  BY <1>1 DEF IsSumOf

\* What a function never makes negative has no negative sum.
LEMMA SumsNat ==
    ASSUME NEW S, IsFiniteSet(S), NEW f \in [S -> Nat], NEW g, IsSumOf(g, f, S)
    PROVE  \A s \in SUBSET S : g[s] \in Nat
<1> DEFINE T == {s \in SUBSET S : g[s] \notin Nat}
<1> SUFFICES ASSUME T # {} PROVE FALSE
  OBVIOUS
<1>1. PICK t \in T : \A u \in T : u \subseteq t => u = t
  <2>1. T \subseteq SUBSET S
    OBVIOUS
  <2> HIDE DEF T
  <2> QED
    BY <2>1, SmallestSubset
<1>2. t # {}
  <2>1. g[{}] = 0 /\ g[t] \notin Nat
    BY <1>1 DEF IsSumOf
  <2> QED
    BY <2>1
<1>3. PICK x \in t : TRUE
  BY <1>2
<1>4. t \ {x} \in SUBSET S /\ t \ {x} # t /\ t \ {x} \subseteq t /\ x \in S
  BY <1>1, <1>3
<1>5. g[t \ {x}] \in Nat /\ f[x] \in Nat
  BY <1>1, <1>4
<1>6. g[t] = f[x] + g[t \ {x}]
  BY <1>1, <1>3 DEF IsSumOf
<1> QED
  BY <1>1, <1>5, <1>6

LEMMA TotalNat ==
    ASSUME NEW S, IsFiniteSet(S), NEW f \in [S -> Nat]
    PROVE  Total(f) \in Nat /\ \A x \in S : f[x] <= Total(f)
<1>0. f \in [S -> Int]
  OBVIOUS
<1>1. PICK g : IsSumOf(g, f, S) /\ Total(f) = g[S]
  BY <1>0, Summing
<1>2. \A s \in SUBSET S : g[s] \in Nat
  BY <1>1, SumsNat
<1>3. ASSUME NEW x \in S PROVE f[x] <= g[S]
  <2>1. g[S] = f[x] + g[S \ {x}]
    BY <1>1 DEF IsSumOf
  <2>2. g[S \ {x}] \in Nat /\ f[x] \in Nat
    BY <1>2
  <2> QED
    BY <2>1, <2>2
<1> QED
  BY <1>1, <1>2, <1>3

LEMMA TotalZero == ASSUME NEW S, IsFiniteSet(S), NEW f \in [S -> Int], \A x \in S : f[x] = 0 PROVE Total(f) = 0
<1>1. Total(f) = Total(f) + Total(f)
  BY TotalAdds
<1> QED
  BY <1>1, TotalInt

LEMMA TotalChanges ==
    ASSUME NEW S, IsFiniteSet(S), NEW f \in [S -> Int], NEW x \in S, NEW n \in Int
    PROVE  Total([f EXCEPT ![x] = f[x] + n]) = Total(f) + n
<1> DEFINE e == [f EXCEPT ![x] = f[x] + n]
<1>1. e \in [S -> Int] /\ e[x] = f[x] + n /\ \A y \in S \ {x} : e[y] = f[y]
  OBVIOUS
<1> HIDE DEF e
<1>2. PICK g : IsSumOf(g, f, S) /\ Total(f) = g[S]
  BY Summing
<1>3. PICK h : IsSumOf(h, e, S) /\ Total(e) = h[S]
  BY <1>1, Summing
<1>4. PICK D \in SUBSET S : D = S \ {x}
  OBVIOUS
<1>5. g[D] = h[D]
  BY <1>1, <1>2, <1>3, <1>4, SumsSame
<1>6. g[S] = f[x] + g[D] /\ h[S] = e[x] + h[D] /\ g[D] \in Int /\ f[x] \in Int
  BY <1>2, <1>3, <1>4 DEF IsSumOf
<1>7. Total(e) = Total(f) + n
  BY <1>1, <1>2, <1>3, <1>5, <1>6
<1> QED
  BY <1>7 DEF e

-----------------------------------------------------------------------------
\* What the lots give.
LEMMA GreatestOf ==
    ASSUME NEW S \in SUBSET Nat, IsFiniteSet(S), S # {}
    PROVE  \E n \in S : \A m \in S : m <= n
<1> DEFINE above == {{k \in S : n <= k} : n \in S}
<1>1. PICK X \in above : \A Y \in above : Y \subseteq X => Y = X
  <2>1. PICK I : I = S
    OBVIOUS
  <2>2. IsFiniteSet(I) /\ above \subseteq SUBSET I /\ above # {}
    BY <2>1
  <2> HIDE DEF above
  <2> QED
    BY <2>2, SmallestSubset
<1>2. PICK n \in S : X = {k \in S : n <= k}
  BY <1>1
<1>3. ASSUME NEW m \in S, ~(m <= n) PROVE FALSE
  <2>1. PICK Y \in above : Y = {k \in S : m <= k}
    OBVIOUS
  <2>2. n \in X /\ n \notin Y
    BY <1>2, <1>3, <2>1
  <2>3. n <= m /\ \A k \in S : m <= k => n <= k
    BY <1>3
  <2>4. Y \subseteq X
    BY <1>2, <2>1, <2>3
  <2> QED
    BY <1>1, <2>1, <2>2, <2>4
<1> QED
  BY <1>3

LEMMA LotsGive ==
    ASSUME remaining \in [Lots -> Nat], NEW n \in Nat, NEW taken, taken = [l \in Lots |-> Taken(l, n)]
    PROVE  /\ taken \in [Lots -> Nat] /\ \A l \in Lots : taken[l] <= remaining[l]
           /\ Total(taken) = Lesser(n, Total(remaining))
<1>1. IsFiniteSet(Lots) /\ Lots \subseteq Nat /\ remaining \in [Lots -> Int]
  BY LotsAssumption
<1>2. PICK g : IsSumOf(g, remaining, Lots) /\ Total(remaining) = g[Lots]
  BY <1>1, Summing
<1>3. \A s \in SUBSET Lots : g[s] \in Nat
  BY <1>1, <1>2, SumsNat
<1>4. ASSUME NEW l \in Lots PROVE CreditsBefore(l) = g[Earlier(l)] /\ Earlier(l) \in SUBSET Lots
  <2>1. PICK R \in SUBSET Lots : R = Earlier(l)
    BY DEF Earlier
  <2>2. PICK e \in [R -> Int] : e = [k \in R |-> remaining[k]]
    BY <1>1
  <2>3. IsFiniteSet(R)
    BY <1>1, FS_Subset
  <2>4. PICK h : IsSumOf(h, e, R) /\ Total(e) = h[R]
    BY <2>3, Summing
  <2>5. g[R] = h[R]
    <3>1. \A x \in R : remaining[x] = e[x]
      BY <2>2
    <3>2. IsFiniteSet(Lots) /\ remaining \in [Lots -> Int] /\ R \in SUBSET Lots /\ R \subseteq R
      BY <1>1, <2>1
    <3>3. IsSumOf(g, remaining, Lots) /\ IsSumOf(h, e, R)
      BY <1>2, <2>4
    <3> QED
      BY <3>1, <3>2, <3>3, SumsSame
  <2> QED
    BY <2>1, <2>2, <2>4, <2>5 DEF CreditsBefore
<1>5. ASSUME NEW l \in Lots
      PROVE  taken[l] = (IF n <= g[Earlier(l)] THEN 0 ELSE Lesser(remaining[l], n - g[Earlier(l)]))
  BY <1>3, <1>4 DEF Taken
<1>6. ASSUME NEW l \in Lots PROVE taken[l] \in Nat /\ taken[l] <= remaining[l]
  <2>1. g[Earlier(l)] \in Nat /\ remaining[l] \in Nat
    BY <1>3, <1>4
  <2> QED
    BY <1>5, <2>1 DEF Lesser
<1>7. taken \in [Lots -> Nat] /\ taken \in [Lots -> Int]
  BY <1>6
<1>8. PICK h : IsSumOf(h, taken, Lots) /\ Total(taken) = h[Lots]
  BY <1>1, <1>7, Summing
<1> DEFINE First(A) == \A l \in A : Earlier(l) \subseteq A
           T == {A \in SUBSET Lots : First(A) /\ h[A] # Lesser(n, g[A])}
<1>9. ASSUME T # {} PROVE FALSE
  <2>1. PICK A \in T : \A B \in T : B \subseteq A => B = A
    <3>1. T \subseteq SUBSET Lots
      OBVIOUS
    <3> HIDE DEF T
    <3>2. IsFiniteSet(Lots)
      BY <1>1
    <3> QED
      BY <1>9, <3>1, <3>2, SmallestSubset
  <2>2. A # {}
    <3>1. h[{}] = 0 /\ g[{}] = 0
      BY <1>2, <1>8 DEF IsSumOf
    <3>2. h[A] # Lesser(n, g[A])
      BY <2>1
    <3> QED
      BY <3>1, <3>2 DEF Lesser
  <2>3. A \in SUBSET Nat /\ A \in SUBSET Lots /\ IsFiniteSet(A) /\ First(A)
    BY <1>1, <2>1, FS_Subset
  <2>4. PICK l \in A : \A m \in A : m <= l
    BY <2>2, <2>3, GreatestOf
  <2>5. l \in Lots /\ A \ {l} = Earlier(l)
    BY <1>1, <2>3, <2>4 DEF Earlier
  <2>6. First(Earlier(l))
    BY <1>1, <2>5 DEF Earlier
  <2>7. Earlier(l) \in SUBSET Lots /\ Earlier(l) \subseteq A /\ Earlier(l) # A
    BY <1>4, <2>4, <2>5
  <2>8. h[Earlier(l)] = Lesser(n, g[Earlier(l)])
    BY <2>1, <2>6, <2>7
  <2>9. h[A] = taken[l] + h[Earlier(l)] /\ g[A] = remaining[l] + g[Earlier(l)]
    <3>1. h[A] = taken[l] + h[A \ {l}] /\ g[A] = remaining[l] + g[A \ {l}]
      BY <1>2, <1>8, <2>3 DEF IsSumOf
    <3> QED
      BY <2>5, <3>1
  <2>10. g[Earlier(l)] \in Nat /\ remaining[l] \in Nat /\ h[A] # Lesser(n, g[A])
    BY <1>3, <2>1, <2>5, <2>7
  <2> QED
    BY <1>5, <2>5, <2>8, <2>9, <2>10 DEF Lesser
<1>10. h[Lots] = Lesser(n, g[Lots])
  <2>1. First(Lots)
    BY <1>4
  <2> QED
    BY <1>9, <2>1
<1> QED
  BY <1>2, <1>6, <1>7, <1>8, <1>10

-----------------------------------------------------------------------------
(* Credits: the locks.                                                     *)

\* What each step needs to know of the control state, the lots left out.
Control ==
    /\ month \in Months
    /\ trial \in BOOLEAN
    /\ lock \in [Months -> Requests \cup {NoRequest}]
    /\ pc \in [Requests -> PcValues]
    /\ req \in [Requests -> Reqs]

\* A request about to finish holds the row of the month it charges.
Locked == \A r \in Requests : pc[r] = "finish" => lock[req[r].month] = r

LEMMA NoReqType == NoReq \in Reqs
<1>1. 1 \in Months
  BY BoundsAssumption DEF Months
<1> QED
  BY <1>1 DEF NoReq, Reqs

LEMMA ControlInit == Init => Control /\ Locked
  BY NoReqType, BoundsAssumption DEF Init, Control, Locked, Months, PcValues

\* What a step does to the control state of the requests: r moves to p.
LEMMA Moves ==
    ASSUME Control, NEW r \in Requests, NEW p \in PcValues, Goto(r, p)
    PROVE  /\ pc' \in [Requests -> PcValues]
           /\ pc'[r] = p
           /\ \A q \in Requests : q # r => pc'[q] = pc[q]
  BY DEF Control, Goto

\* A request that ends is idle and forgotten; the others keep what they have.
LEMMA Ends ==
    ASSUME Control, NEW r \in Requests, End(r)
    PROVE  /\ pc' \in [Requests -> PcValues] /\ req' \in [Requests -> Reqs]
           /\ pc'[r] = "idle"
           /\ \A q \in Requests : q # r => pc'[q] = pc[q] /\ req'[q] = req[q]
  BY NoReqType, Moves DEF End, Control, PcValues

\* Starting a request changes no other request, and decides nothing yet.
LEMMA StartMoves ==
    ASSUME Control, NEW r \in Requests, Start(r)
    PROVE  /\ pc'[r] # "finish"
           /\ \A q \in Requests : q # r => pc'[q] = pc[q] /\ req'[q] = req[q]
<1>1. PICK f \in Flows, n \in Weights, u \in Members \cup {NoMember} :
          /\ req' = [req EXCEPT ![r] = [flow |-> f, amount |-> n, member |-> u,
                                        month |-> month, trial |-> trial]]
          /\ Goto(r, IF f = "depois" THEN "deliver" ELSE "enter")
  BY DEF Start
<1> QED
  BY <1>1 DEF Control, Goto

LEMMA ControlStep == Control /\ Locked /\ [Next]_vars => Control' /\ Locked'
<1> SUFFICES ASSUME Control, Locked, [Next]_vars PROVE Control' /\ Locked'
  OBVIOUS
<1> USE DEF Control, Locked
<1>1. ASSUME UNCHANGED vars PROVE Control' /\ Locked'
  BY <1>1 DEF vars
<1>2. ASSUME NEW r \in Requests, Start(r) PROVE Control' /\ Locked'
  <2>1. PICK f \in Flows, n \in Weights, u \in Members \cup {NoMember} :
            /\ req' = [req EXCEPT ![r] = [flow |-> f, amount |-> n, member |-> u,
                                          month |-> month, trial |-> trial]]
            /\ Goto(r, IF f = "depois" THEN "deliver" ELSE "enter")
    BY <1>2 DEF Start
  <2>2. [flow |-> f, amount |-> n, member |-> u,
         month |-> month, trial |-> trial] \in Reqs
    BY FlowsAssumption DEF Reqs
  <2>3. req' \in [Requests -> Reqs] /\ \A q \in Requests : q # r => req'[q] = req[q]
    BY <2>1, <2>2
  <2>4. pc' \in [Requests -> PcValues] /\ pc'[r] # "finish" /\ \A q \in Requests : q # r => pc'[q] = pc[q]
    BY <2>1, Moves DEF PcValues
  <2> QED
    BY <1>2, <2>3, <2>4 DEF Start
<1>3. ASSUME NEW r \in Requests, Deliver(r) PROVE Control' /\ Locked'
  BY <1>3, Moves DEF Deliver, PcValues
<1>4. ASSUME NEW r \in Requests, Enter(r) PROVE Control' /\ Locked'
  <2>1. [req[r] EXCEPT !.month = month] \in Reqs
    BY DEF Reqs
  <2>2. req' = [req EXCEPT ![r] = [req[r] EXCEPT !.month = month]]
    BY <1>4 DEF Enter
  <2>3. req' \in [Requests -> Reqs] /\ \A q \in Requests : q # r => req'[q] = req[q]
    BY <2>1, <2>2
  <2> QED
    BY <1>4, <2>3, Moves DEF Enter, PcValues
<1>5. ASSUME NEW r \in Requests, LockAndDecide(r) PROVE Control' /\ Locked'
  <2>1. req[r].month \in Months /\ \A q \in Requests : req[q].month \in Months
    BY DEF Reqs
  <2>2. CASE FromLots(r) <= Total(remaining) /\ WithinQuota(r)
    <3>1. /\ Goto(r, "finish") /\ UNCHANGED <<month, trial, req>>
          /\ lock' = [lock EXCEPT ![req[r].month] = r] /\ lock[req[r].month] = NoRequest
      BY <1>5, <2>2 DEF LockAndDecide
    <3>2. \A q \in Requests : q # r /\ pc[q] = "finish" => req[q].month # req[r].month
      BY <3>1, ProcessesAssumption
    <3> QED
      BY <2>1, <3>1, <3>2, Moves DEF PcValues
  <2>3. CASE ~(FromLots(r) <= Total(remaining) /\ WithinQuota(r))
    <3>1. End(r) /\ UNCHANGED <<month, trial, lock>>
      BY <1>5, <2>3 DEF LockAndDecide
    <3> QED
      BY <3>1, Ends
  <2> QED
    BY <2>2, <2>3
<1>6. ASSUME NEW r \in Requests, Finish(r) PROVE Control' /\ Locked'
  <2>1. \A q \in Requests : req[q].month \in Months
    BY DEF Reqs
  <2>2. End(r) /\ lock' = [lock EXCEPT ![req[r].month] = NoRequest] /\ UNCHANGED <<month, trial>>
    BY <1>6 DEF Finish
  <2>3. \A q \in Requests : q # r /\ pc[q] = "finish" => req[q].month # req[r].month
    BY <1>6 DEF Finish
  <2> QED
    BY <2>1, <2>2, <2>3, Ends
<1>7. ASSUME NEW l \in Lots, Buy(l) PROVE Control' /\ Locked'
  BY <1>7 DEF Buy
<1>8. ASSUME Subscribe PROVE Control' /\ Locked'
  BY <1>8 DEF Subscribe
<1>9. ASSUME MonthTurns PROVE Control' /\ Locked'
  BY <1>9, BoundsAssumption DEF MonthTurns, balances, Months
<1> QED
  BY <1>1, <1>2, <1>3, <1>4, <1>5, <1>6, <1>7, <1>8, <1>9 DEF Next

-----------------------------------------------------------------------------
(***************************************************************************)
(* Quotas of members.  A member's usage of a month is written only by the  *)
(* request that holds the row of that month.                               *)
(***************************************************************************)
Quotas ==
    /\ memberUsed \in [Members -> [Months -> Nat]]
    /\ QuotaKept
    /\ \A r \in Requests : pc[r] = "finish" => WithinQuota(r)

LEMMA QuotasStep == Control /\ Locked /\ Quotas /\ [Next]_vars => Quotas'
<1> SUFFICES ASSUME Control, Locked, Quotas, [Next]_vars PROVE Quotas'
  OBVIOUS
<1> USE DEF Control, Quotas, QuotaKept, WithinQuota
<1>1. ASSUME UNCHANGED vars PROVE Quotas'
  BY <1>1 DEF vars, balances
<1>2. ASSUME NEW r \in Requests, Start(r) PROVE Quotas'
  <2>1. UNCHANGED memberUsed
    BY <1>2 DEF Start, balances
  <2> QED
    BY <1>2, <2>1, StartMoves
<1>3. ASSUME NEW r \in Requests, Deliver(r) PROVE Quotas'
  BY <1>3 DEF Deliver, balances, Goto
<1>4. ASSUME NEW r \in Requests, Enter(r) PROVE Quotas'
  <2>1. \A q \in Requests : q # r => req'[q] = req[q] /\ pc'[q] = pc[q]
    BY <1>4 DEF Enter, Goto
  <2>2. pc'[r] # "finish"
    BY <1>4 DEF Enter, Goto
  <2> QED
    BY <1>4, <2>1, <2>2 DEF Enter, balances
<1>5. ASSUME NEW r \in Requests, LockAndDecide(r) PROVE Quotas'
  <2>1. UNCHANGED memberUsed
    BY <1>5 DEF LockAndDecide, balances
  <2>2. CASE WithinQuota(r) /\ Goto(r, "finish") /\ UNCHANGED req
    BY <2>1, <2>2 DEF Goto
  <2>3. CASE End(r)
    BY <2>1, <2>3, Ends
  <2> QED
    BY <1>5, <2>2, <2>3 DEF LockAndDecide
<1>6. ASSUME NEW r \in Requests, Finish(r) PROVE Quotas'
  <2> DEFINE m == req[r].month
             u == req[r].member
             a == req[r].amount
  <2>1. m \in Months /\ a \in Nat /\ lock[m] = r /\ WithinQuota(r)
    BY <1>6 DEF Finish, Locked, Reqs
  <2>2. pc'[r] # "finish" /\ \A q \in Requests : q # r => pc'[q] = pc[q] /\ req'[q] = req[q]
    BY <1>6, Ends DEF Finish
  <2>3. \A q \in Requests : q # r /\ pc[q] = "finish" => req[q].month # m
    BY <2>1 DEF Locked
  <2>4. CASE u \in Members /\ memberUsed' = [memberUsed EXCEPT ![u][m] = memberUsed[u][m] + a]
    <3>1. memberUsed[u][m] + a <= MemberLimit
      BY <2>1, <2>4
    <3>2. memberUsed' \in [Members -> [Months -> Nat]] /\ QuotaKept'
      BY <2>1, <2>4, <3>1
    <3>3. \A v \in Members, k \in Months : k # m => memberUsed'[v][k] = memberUsed[v][k]
      BY <2>1, <2>4
    <3>4. \A q \in Requests : pc'[q] = "finish" => WithinQuota(q)'
      BY <2>2, <2>3, <3>3 DEF Reqs
    <3> QED
      BY <3>2, <3>4
  <2>5. CASE UNCHANGED memberUsed
    BY <2>2, <2>5
  <2> QED
    BY <1>6, <2>4, <2>5 DEF Finish
<1>7. ASSUME NEW l \in Lots, Buy(l) PROVE Quotas'
  BY <1>7 DEF Buy
<1>8. ASSUME Subscribe PROVE Quotas'
  BY <1>8 DEF Subscribe, balances
<1>9. ASSUME MonthTurns PROVE Quotas'
  BY <1>9 DEF MonthTurns, balances
<1> QED
  BY <1>1, <1>2, <1>3, <1>4, <1>5, <1>6, <1>7, <1>8, <1>9 DEF Next

\* No member ever goes over the quota of a month, however requests, months and
\* purchases interleave.
THEOREM QuotaNeverExceeded == Spec => []QuotaKept
<1>1. Init => Quotas
  BY PlanAssumption, BoundsAssumption DEF Init, Quotas, QuotaKept, Months
<1>2. Quotas => QuotaKept
  BY DEF Quotas
<1> QED
  BY <1>1, <1>2, ControlInit, ControlStep, QuotasStep, PTL DEF Spec

-----------------------------------------------------------------------------
(***************************************************************************)
(* The balances.  A request about to finish took from the plan what the    *)
(* month, and a trial the package, has left, and from the lots what they   *)
(* have; who charges a month is alone on it, and unless two months are     *)
(* charged at once, alone on the lots and on the package of a trial.       *)
(***************************************************************************)
BalanceRows ==
    /\ used \in [Months -> Nat] /\ remaining \in [Lots -> Nat] /\ bought \subseteq Lots
    /\ fromPlan \in [Requests -> Nat] /\ paid \in Int /\ straddled \in BOOLEAN
    /\ \A l \in Lots \ bought : remaining[l] = 0

Finishing == {r \in Requests : pc[r] = "finish"}
LoadedOnTrial == trial => \A r \in Requests : pc[r] # "idle" => req[r].trial
PlanFits ==
    /\ PlanWithinMonth
    /\ \A r \in Finishing : fromPlan[r] <= req[r].amount /\ used[req[r].month] + fromPlan[r] <= PlanCredits

Balance == Total(used) + Cardinality(bought) * LotCredits - Total(remaining) = paid
AloneOnLots == \A r \in Finishing : Finishing = {r} /\ req[r].amount - fromPlan[r] <= Total(remaining)
PackageFits == trial => Total(used) <= TrialCredits /\ \A r \in Finishing : Total(used) + fromPlan[r] <= TrialCredits

Ledger == BalanceRows /\ LoadedOnTrial /\ PlanFits /\ (~straddled => Balance /\ AloneOnLots /\ PackageFits)

LEMMA Amounts == ASSUME Control, BalanceRows, NEW r \in Requests
    PROVE  req[r].month \in Months /\ req[r].amount \in Nat /\ req[r].trial \in BOOLEAN /\ fromPlan[r] \in Nat
  BY DEF Control, BalanceRows, Reqs

LEMMA MonthsFinite == IsFiniteSet(Months) /\ IsFiniteSet(Lots)
<1>1. IsFiniteSet(1 .. MaxMonth)
  BY BoundsAssumption, FS_Interval
<1> QED
  BY <1>1, LotsAssumption DEF Months

LEMMA Sums2 ==
    ASSUME BalanceRows
    PROVE  /\ Total(used) \in Nat /\ Total(remaining) \in Nat /\ \A m \in Months : used[m] <= Total(used)
  BY MonthsFinite, TotalNat DEF BalanceRows

\* What the plan has left fits in the month, and for a trial in its package.
LEMMA LeftFits ==
    ASSUME BalanceRows, PlanFits, NEW m \in Months, NEW t \in BOOLEAN
    PROVE  /\ PlanLeft(m, t) \in Nat /\ used[m] + PlanLeft(m, t) <= PlanCredits
           /\ t /\ Total(used) <= TrialCredits => Total(used) + PlanLeft(m, t) <= TrialCredits
<1>1. used[m] \in Nat /\ Total(used) \in Nat /\ used[m] <= Total(used) /\ used[m] <= PlanCredits
  BY Sums2 DEF BalanceRows, PlanFits, PlanWithinMonth
<1>2. PlanCredits \in Nat /\ TrialCredits \in Nat /\ TrialCredits <= PlanCredits
  BY PlanAssumption
<1>3. CASE t
  BY <1>1, <1>2, <1>3 DEF PlanLeft, PlanUsed
<1>4. CASE ~t
  BY <1>1, <1>2, <1>4 DEF PlanLeft, PlanUsed
<1> QED
  BY <1>3, <1>4

LEMMA DecidedFits ==
    ASSUME Control, BalanceRows, PlanFits, NEW r \in Requests
    PROVE  /\ FromPlan(r) \in Nat /\ FromPlan(r) <= req[r].amount /\ used[req[r].month] + FromPlan(r) <= PlanCredits
           /\ req[r].trial /\ Total(used) <= TrialCredits => Total(used) + FromPlan(r) <= TrialCredits
<1>1. req[r].month \in Months /\ req[r].amount \in Nat /\ req[r].trial \in BOOLEAN
  BY Amounts
<1>2. /\ PlanLeft(req[r].month, req[r].trial) \in Nat
      /\ used[req[r].month] + PlanLeft(req[r].month, req[r].trial) <= PlanCredits
      /\ req[r].trial /\ Total(used) <= TrialCredits =>
             Total(used) + PlanLeft(req[r].month, req[r].trial) <= TrialCredits
  BY <1>1, LeftFits
<1>3. used[req[r].month] \in Nat /\ Total(used) \in Nat /\ PlanCredits \in Nat /\ TrialCredits \in Nat
  BY <1>1, Sums2, PlanAssumption DEF BalanceRows
<1> QED
  BY <1>1, <1>2, <1>3 DEF FromPlan, Lesser

\* A step that leaves the balances alone and nobody newly about to finish.
LEMMA LedgerRests ==
    ASSUME Ledger, UNCHANGED <<used, remaining, bought, paid>>, fromPlan' \in [Requests -> Nat], straddled' = straddled,
           Finishing' \subseteq Finishing,
           \A r \in Finishing' : fromPlan'[r] = fromPlan[r] /\ req'[r] = req[r],
           trial' => trial, LoadedOnTrial'
    PROVE  Ledger'
<1>1. BalanceRows'
  BY DEF Ledger, BalanceRows
<1>2. PlanFits'
  BY DEF Ledger, PlanFits, PlanWithinMonth
<1>3. ASSUME ~straddled' PROVE Balance' /\ AloneOnLots' /\ PackageFits'
  <2>1. Balance /\ AloneOnLots /\ PackageFits
    BY <1>3 DEF Ledger
  <2>2. Balance'
    BY <2>1 DEF Balance
  <2>3. AloneOnLots'
    BY <2>1 DEF AloneOnLots
  <2>4. PackageFits'
    BY <2>1 DEF PackageFits
  <2> QED
    BY <2>2, <2>3, <2>4
<1> QED
  BY <1>1, <1>2, <1>3 DEF Ledger

LEMMA LockKeeps == ASSUME Control, Locked, Ledger, NEW r \in Requests, LockAndDecide(r) PROVE Ledger'
<1>0. BalanceRows /\ LoadedOnTrial /\ PlanFits
  BY DEF Ledger
<1>1. PICK m \in Months : m = req[r].month
  BY <1>0, Amounts
<1>2. /\ pc[r] = "lock" /\ lock[m] = NoRequest
      /\ UNCHANGED <<month, trial, used, memberUsed, remaining, bought, asked, paid, lost>>
  BY <1>1 DEF LockAndDecide, balances
<1>3. CASE FromLots(r) <= Total(remaining) /\ WithinQuota(r)
  <2>1. /\ fromPlan' = [fromPlan EXCEPT ![r] = FromPlan(r)] /\ req' = req /\ Goto(r, "finish")
        /\ straddled' = (straddled \/ \E k \in Months \ {m} : lock[k] # NoRequest)
    BY <1>1, <1>3 DEF LockAndDecide
  <2>2. /\ FromPlan(r) \in Nat /\ FromPlan(r) <= req[r].amount /\ used[m] + FromPlan(r) <= PlanCredits
        /\ req[r].trial /\ Total(used) <= TrialCredits => Total(used) + FromPlan(r) <= TrialCredits
    BY <1>0, <1>1, DecidedFits
  <2>3. /\ \A q \in Requests \ {r} : pc'[q] = pc[q] /\ fromPlan'[q] = fromPlan[q]
        /\ pc'[r] = "finish" /\ fromPlan'[r] = FromPlan(r) /\ fromPlan' \in [Requests -> Nat]
    <3>1. /\ \A q \in Requests \ {r} : pc'[q] = pc[q]
          /\ pc'[r] = "finish"
      BY <2>1 DEF Goto, Control
    <3> QED
      BY <1>0, <2>1, <2>2, <3>1 DEF BalanceRows
  <2>4. Finishing' = Finishing \cup {r}
    BY <2>3 DEF Finishing
  <2>5. BalanceRows'
    <3>1. straddled' \in BOOLEAN
      BY <2>1
    <3> QED
      BY <1>0, <1>2, <2>3, <3>1 DEF BalanceRows
  <2>6. LoadedOnTrial'
    BY <1>0, <1>2, <2>1, <2>3 DEF LoadedOnTrial
  <2>7. PlanFits'
    <3>1. PlanWithinMonth'
      BY <1>0, <1>2 DEF PlanFits, PlanWithinMonth
    <3>2. ASSUME NEW q \in Finishing'
          PROVE  fromPlan'[q] <= req'[q].amount /\ used'[req'[q].month] + fromPlan'[q] <= PlanCredits
      <4>1. CASE q = r
        BY <1>1, <1>2, <2>1, <2>2, <2>3, <4>1
      <4>2. CASE q # r
        <5>1. q \in Finishing /\ fromPlan'[q] = fromPlan[q]
          BY <2>3, <2>4, <4>2 DEF Finishing
        <5> QED
          BY <1>0, <1>2, <2>1, <5>1 DEF PlanFits
      <4> QED
        BY <4>1, <4>2
    <3> QED
      BY <3>1, <3>2 DEF PlanFits
  <2>8. ASSUME ~straddled' PROVE Balance' /\ AloneOnLots' /\ PackageFits'
    <3>1. Balance /\ AloneOnLots /\ PackageFits /\ ~straddled /\ \A k \in Months \ {m} : lock[k] = NoRequest
      BY <2>1, <2>8 DEF Ledger
    <3>2. Finishing = {}
      <4>1. SUFFICES ASSUME NEW q \in Finishing PROVE FALSE
        OBVIOUS
      <4>2. q \in Requests /\ lock[req[q].month] = q /\ req[q].month \in Months
        BY <1>0, Amounts DEF Finishing, Locked
      <4> QED
        BY <1>2, <3>1, <4>2, ProcessesAssumption
    <3>3. Finishing' = {r}
      BY <2>4, <3>2
    <3>4. Balance'
      BY <1>2, <3>1 DEF Balance
    <3>5. AloneOnLots'
      <4>1. req'[r].amount - fromPlan'[r] <= Total(remaining')
        BY <1>2, <1>3, <2>1, <2>3 DEF FromLots
      <4> QED
        BY <3>3, <4>1 DEF AloneOnLots
    <3>6. PackageFits'
      <4>1. SUFFICES ASSUME trial' PROVE Total(used') <= TrialCredits /\ Total(used') + fromPlan'[r] <= TrialCredits
        BY <3>3 DEF PackageFits
      <4>2. trial /\ Total(used) <= TrialCredits /\ req[r].trial
        BY <1>0, <1>2, <3>1, <4>1 DEF PackageFits, LoadedOnTrial
      <4> QED
        BY <1>2, <2>2, <2>3, <4>2
    <3> QED
      BY <3>4, <3>5, <3>6
  <2> QED
    BY <2>5, <2>6, <2>7, <2>8 DEF Ledger
<1>4. CASE ~(FromLots(r) <= Total(remaining) /\ WithinQuota(r))
  <2>1. End(r) /\ UNCHANGED straddled
    BY <1>4 DEF LockAndDecide
  <2>2. /\ pc'[r] = "idle" /\ \A q \in Requests \ {r} : pc'[q] = pc[q] /\ req'[q] = req[q] /\ fromPlan'[q] = fromPlan[q]
        /\ fromPlan' \in [Requests -> Nat]
    <3>1. fromPlan' = [fromPlan EXCEPT ![r] = 0]
      BY <2>1 DEF End
    <3>2. pc'[r] = "idle" /\ \A q \in Requests \ {r} : pc'[q] = pc[q] /\ req'[q] = req[q]
      BY <2>1, Ends
    <3> QED
      BY <1>0, <3>1, <3>2 DEF BalanceRows
  <2>3. Finishing' \subseteq Finishing \ {r}
    BY <2>2 DEF Finishing
  <2>4. \A q \in Finishing' : fromPlan'[q] = fromPlan[q] /\ req'[q] = req[q]
    BY <2>2, <2>3 DEF Finishing
  <2>5. LoadedOnTrial'
    BY <1>0, <1>2, <2>2 DEF LoadedOnTrial
  <2> QED
    BY <1>2, <2>1, <2>2, <2>3, <2>4, <2>5, LedgerRests
<1> QED
  BY <1>3, <1>4

LEMMA FinishKeeps == ASSUME Control, Locked, Ledger, NEW r \in Requests, Finish(r) PROVE Ledger'
<1>0. BalanceRows /\ LoadedOnTrial /\ PlanFits /\ pc[r] = "finish" /\ r \in Finishing
  BY DEF Ledger, Finish, Finishing
<1>1. PICK m \in Months, n \in Int : m = req[r].month /\ n = req[r].amount - fromPlan[r]
  BY <1>0, Amounts
<1>2. fromPlan[r] \in Nat /\ req[r].amount \in Nat /\ n \in Nat /\ used[m] + fromPlan[r] <= PlanCredits
  BY <1>0, <1>1, Amounts DEF PlanFits
<1>3. PICK taken : taken = [l \in Lots |-> Taken(l, n)]
  OBVIOUS
<1>4. /\ taken \in [Lots -> Nat] /\ \A l \in Lots : taken[l] <= remaining[l]
      /\ Total(taken) = Lesser(n, Total(remaining))
  BY <1>0, <1>2, <1>3, LotsGive DEF BalanceRows
<1>5. /\ remaining' = [l \in Lots |-> remaining[l] - taken[l]]
      /\ \/ /\ n = 0 \/ Total(taken) = n
            /\ used' = [used EXCEPT ![m] = used[m] + fromPlan[r]]
            /\ paid' = paid + req[r].amount
         \/ ~(n = 0 \/ Total(taken) = n) /\ UNCHANGED <<used, paid>>
      /\ End(r) /\ UNCHANGED <<month, trial, bought, asked, straddled>>
  BY <1>1, <1>3 DEF Finish
<1>6. /\ pc'[r] = "idle" /\ \A q \in Requests \ {r} : pc'[q] = pc[q] /\ req'[q] = req[q] /\ fromPlan'[q] = fromPlan[q]
      /\ fromPlan' \in [Requests -> Nat]
  <2>1. fromPlan' = [fromPlan EXCEPT ![r] = 0]
    BY <1>5 DEF End
  <2>2. pc'[r] = "idle" /\ \A q \in Requests \ {r} : pc'[q] = pc[q] /\ req'[q] = req[q]
    BY <1>5, Ends
  <2> QED
    BY <1>0, <2>1, <2>2 DEF BalanceRows
<1>7. Finishing' = Finishing \ {r} /\ \A q \in Finishing' : fromPlan'[q] = fromPlan[q] /\ req'[q] = req[q]
  BY <1>6 DEF Finishing
<1>8. \A q \in Finishing' : req[q].month # m /\ req[q].month \in Months
  BY <1>0, <1>1, <1>7, Amounts DEF Locked, Finishing
<1>9. remaining' \in [Lots -> Nat] /\ \A l \in Lots : remaining[l] = remaining'[l] + taken[l]
  <2>1. ASSUME NEW l \in Lots PROVE remaining[l] - taken[l] \in Nat /\ remaining[l] = (remaining[l] - taken[l]) + taken[l]
    BY <1>0, <1>4 DEF BalanceRows
  <2> QED
    BY <1>5, <2>1
<1>10. used' \in [Months -> Nat] /\ paid' \in Int /\ \A k \in Months \ {m} : used'[k] = used[k]
  BY <1>0, <1>2, <1>5 DEF BalanceRows
<1>11. BalanceRows'
  <2>1. ASSUME NEW l \in Lots \ bought PROVE remaining'[l] = 0
    <3>1. remaining[l] = 0 /\ remaining'[l] \in Nat /\ taken[l] \in Nat /\ remaining[l] = remaining'[l] + taken[l]
      BY <1>0, <1>4, <1>9 DEF BalanceRows
    <3> QED
      BY <3>1
  <2> QED
    BY <1>0, <1>5, <1>6, <1>9, <1>10, <2>1 DEF BalanceRows
<1>12. LoadedOnTrial'
  BY <1>0, <1>5, <1>6 DEF LoadedOnTrial
<1>13. PlanFits'
  <2>1. ASSUME NEW k \in Months PROVE used'[k] <= PlanCredits
    <3>1. used[k] <= PlanCredits
      BY <1>0 DEF PlanFits, PlanWithinMonth
    <3> QED
      BY <1>0, <1>2, <1>5, <3>1 DEF BalanceRows
  <2>2. ASSUME NEW q \in Finishing'
        PROVE  fromPlan'[q] <= req'[q].amount /\ used'[req'[q].month] + fromPlan'[q] <= PlanCredits
    BY <1>0, <1>7, <1>8, <1>10 DEF PlanFits
  <2> QED
    BY <2>1, <2>2 DEF PlanFits, PlanWithinMonth
<1>14. ASSUME ~straddled' PROVE Balance' /\ AloneOnLots' /\ PackageFits'
  <2>1. Balance /\ AloneOnLots /\ PackageFits
    BY <1>5, <1>14 DEF Ledger
  <2>2. n <= Total(remaining) /\ Finishing = {r}
    BY <1>0, <1>1, <2>1 DEF AloneOnLots
  <2>3. Total(remaining) \in Nat /\ Total(used) \in Nat
    BY <1>0, Sums2
  <2>4. Total(taken) = n
    BY <1>2, <1>4, <2>2, <2>3 DEF Lesser
  <2>5. used' = [used EXCEPT ![m] = used[m] + fromPlan[r]] /\ paid' = paid + req[r].amount
    BY <1>5, <2>4
  <2>6. Total(used') = Total(used) + fromPlan[r]
    <3>1. used \in [Months -> Int] /\ fromPlan[r] \in Int /\ m \in Months
      BY <1>0, <1>2 DEF BalanceRows
    <3> QED
      BY <2>5, <3>1, MonthsFinite, TotalChanges
  <2>7. Total(remaining) = Total(remaining') + n
    <3>1. remaining \in [Lots -> Int] /\ remaining' \in [Lots -> Int] /\ taken \in [Lots -> Int]
      BY <1>0, <1>4, <1>9 DEF BalanceRows
    <3>2. Total(remaining) = Total(remaining') + Total(taken)
      BY <1>9, <3>1, MonthsFinite, TotalAdds
    <3> QED
      BY <2>4, <3>2
  <2>8. Total(remaining') \in Int
    BY <1>11, MonthsFinite, <1>9, TotalNat
  <2>9. Finishing' = {}
    BY <1>7, <2>2
  <2>10. Balance'
    <3>1. PICK c \in Int : c = Cardinality(bought) * LotCredits
      <4>1. IsFiniteSet(bought)
        BY <1>0, MonthsFinite, FS_Subset DEF BalanceRows
      <4>2. Cardinality(bought) \in Nat /\ LotCredits \in Nat
        BY <4>1, FS_CardinalityType, LotsAssumption
      <4> QED
        BY <4>2
    <3>2. Total(used) + c - Total(remaining) = paid
      BY <2>1, <3>1 DEF Balance
    <3>3. Total(used') + c - Total(remaining') = paid'
      BY <1>1, <1>2, <2>3, <2>5, <2>6, <2>7, <2>8, <3>1, <3>2
    <3> QED
      BY <1>5, <3>1, <3>3 DEF Balance
  <2>11. AloneOnLots'
    BY <2>9 DEF AloneOnLots
  <2>12. PackageFits'
    <3>1. trial => Total(used) + fromPlan[r] <= TrialCredits
      BY <1>0, <2>1 DEF PackageFits
    <3> QED
      BY <1>5, <2>6, <2>9, <3>1 DEF PackageFits
  <2> QED
    BY <2>10, <2>11, <2>12
<1> QED
  BY <1>11, <1>12, <1>13, <1>14 DEF Ledger

LEMMA BuyKeeps == ASSUME Control, Ledger, NEW l \in Lots, Buy(l) PROVE Ledger'
<1>0. BalanceRows /\ LoadedOnTrial /\ PlanFits
  BY DEF Ledger
<1>1. /\ l \notin bought /\ bought' = bought \cup {l} /\ remaining' = [remaining EXCEPT ![l] = LotCredits]
      /\ UNCHANGED <<month, trial, used, memberUsed, lock, pc, req, fromPlan, asked, paid, lost, straddled>>
  BY DEF Buy, history
<1>2. remaining[l] = 0 /\ LotCredits \in Nat /\ remaining \in [Lots -> Nat] /\ remaining \in [Lots -> Int]
  BY <1>0, <1>1, LotsAssumption DEF BalanceRows
<1>3. remaining' = [remaining EXCEPT ![l] = remaining[l] + LotCredits]
  BY <1>1, <1>2
<1>4. Total(remaining') = Total(remaining) + LotCredits
  <2>1. LotCredits \in Int
    BY <1>2
  <2> QED
    BY <1>2, <1>3, <2>1, MonthsFinite, TotalChanges
<1>5. BalanceRows'
  BY <1>0, <1>1, <1>2 DEF BalanceRows
<1>6. Finishing' = Finishing /\ LoadedOnTrial' /\ PlanFits'
  BY <1>0, <1>1 DEF Finishing, LoadedOnTrial, PlanFits, PlanWithinMonth
<1>7. Total(remaining) \in Nat /\ Total(used) \in Nat
  BY <1>0, Sums2
<1>8. ASSUME ~straddled' PROVE Balance' /\ AloneOnLots' /\ PackageFits'
  <2>1. Balance /\ AloneOnLots /\ PackageFits
    BY <1>1, <1>8 DEF Ledger
  <2>2. Balance'
    <3>1. IsFiniteSet(bought)
      BY <1>0, MonthsFinite, FS_Subset DEF BalanceRows
    <3>2. Cardinality(bought') = Cardinality(bought) + 1 /\ Cardinality(bought) \in Nat
      BY <1>1, <3>1, FS_AddElement, FS_CardinalityType
    <3>3. Cardinality(bought') * LotCredits = Cardinality(bought) * LotCredits + LotCredits
          /\ Cardinality(bought) * LotCredits \in Int
      BY <1>2, <3>2
    <3> QED
      BY <1>1, <1>2, <1>4, <1>7, <2>1, <3>3 DEF Balance
  <2>3. AloneOnLots'
    <3>1. ASSUME NEW q \in Finishing PROVE Finishing = {q} /\ req[q].amount - fromPlan[q] <= Total(remaining')
      <4>1. Finishing = {q} /\ req[q].amount - fromPlan[q] <= Total(remaining) /\ req[q].amount \in Nat /\ fromPlan[q] \in Nat
        BY <1>0, <2>1, Amounts DEF AloneOnLots, Finishing
      <4> QED
        BY <1>2, <1>4, <1>7, <4>1
    <3> QED
      BY <1>1, <1>6, <3>1 DEF AloneOnLots
  <2>4. PackageFits'
    BY <1>1, <1>6, <2>1 DEF PackageFits
  <2> QED
    BY <2>2, <2>3, <2>4
<1> QED
  BY <1>5, <1>6, <1>8 DEF Ledger

LEMMA LedgerStep == Control /\ Locked /\ Ledger /\ [Next]_vars => Ledger'
<1> SUFFICES ASSUME Control, Locked, Ledger, [Next]_vars PROVE Ledger'
  OBVIOUS
<1>0. BalanceRows /\ LoadedOnTrial
  BY DEF Ledger
<1>1. ASSUME UNCHANGED vars PROVE Ledger'
  BY <1>0, <1>1, LedgerRests DEF vars, balances, history, Finishing, LoadedOnTrial, BalanceRows
<1>2. ASSUME NEW r \in Requests, Start(r) PROVE Ledger'
  <2>1. UNCHANGED <<used, remaining, bought, paid, fromPlan, straddled, trial>> /\ pc[r] = "idle"
    BY <1>2 DEF Start, balances, history
  <2>2. PICK f \in Flows, n \in Weights, u \in Members \cup {NoMember} :
            /\ req' = [req EXCEPT ![r] = [flow |-> f, amount |-> n, member |-> u,
                                          month |-> month, trial |-> trial]]
            /\ Goto(r, IF f = "depois" THEN "deliver" ELSE "enter")
    BY <1>2 DEF Start
  <2>3. req'[r].trial = trial /\ \A q \in Requests \ {r} : req'[q] = req[q] /\ pc'[q] = pc[q]
    BY <2>2 DEF Control, Goto
  <2>4. pc'[r] # "finish"
    BY <2>2 DEF Control, Goto
  <2>5. Finishing' \subseteq Finishing \ {r}
    BY <2>3, <2>4 DEF Finishing
  <2>6. LoadedOnTrial'
    BY <1>0, <2>1, <2>3 DEF LoadedOnTrial
  <2>7. \A q \in Finishing' : fromPlan'[q] = fromPlan[q] /\ req'[q] = req[q]
    BY <2>1, <2>3, <2>5 DEF Finishing
  <2> QED
    BY <1>0, <2>1, <2>5, <2>6, <2>7, LedgerRests DEF BalanceRows
<1>3. ASSUME NEW r \in Requests, Deliver(r) PROVE Ledger'
  <2>1. UNCHANGED <<used, remaining, bought, paid, fromPlan, straddled, trial, req>> /\ pc[r] = "deliver" /\ Goto(r, "enter")
    BY <1>3 DEF Deliver, balances, history
  <2>2. pc'[r] = "enter" /\ \A q \in Requests \ {r} : pc'[q] = pc[q]
    BY <2>1 DEF Control, Goto
  <2>3. Finishing' \subseteq Finishing
    BY <2>2 DEF Finishing
  <2>4. LoadedOnTrial'
    BY <1>0, <2>1, <2>2 DEF LoadedOnTrial
  <2> QED
    BY <1>0, <2>1, <2>3, <2>4, LedgerRests DEF BalanceRows
<1>4. ASSUME NEW r \in Requests, Enter(r) PROVE Ledger'
  <2>1. UNCHANGED <<used, remaining, bought, paid, fromPlan, straddled, trial>> /\ pc[r] = "enter"
        /\ req' = [req EXCEPT ![r].month = month] /\ Goto(r, "lock")
    BY <1>4 DEF Enter, balances, history
  <2>2. req'[r].trial = req[r].trial /\ \A q \in Requests \ {r} : req'[q] = req[q]
    BY <2>1 DEF Control, Reqs
  <2>3. pc'[r] = "lock" /\ \A q \in Requests \ {r} : pc'[q] = pc[q]
    BY <2>1 DEF Control, Goto
  <2>4. Finishing' \subseteq Finishing \ {r}
    BY <2>3 DEF Finishing
  <2>5. LoadedOnTrial'
    BY <1>0, <2>1, <2>2, <2>3 DEF LoadedOnTrial
  <2>6. \A q \in Finishing' : fromPlan'[q] = fromPlan[q] /\ req'[q] = req[q]
    BY <2>1, <2>2, <2>4 DEF Finishing
  <2> QED
    BY <1>0, <2>1, <2>4, <2>5, <2>6, LedgerRests DEF BalanceRows
<1>5. ASSUME NEW r \in Requests, LockAndDecide(r) PROVE Ledger'
  BY <1>5, LockKeeps
<1>6. ASSUME NEW r \in Requests, Finish(r) PROVE Ledger'
  BY <1>6, FinishKeeps
<1>7. ASSUME NEW l \in Lots, Buy(l) PROVE Ledger'
  BY <1>7, BuyKeeps
<1>8. ASSUME Subscribe \/ MonthTurns PROVE Ledger'
  <2>1. UNCHANGED <<used, remaining, bought, paid, fromPlan, straddled, pc, req>> /\ (trial' => trial)
    BY <1>8 DEF Subscribe, MonthTurns, balances, history
  <2>2. Finishing' = Finishing /\ LoadedOnTrial'
    BY <1>0, <2>1 DEF Finishing, LoadedOnTrial
  <2> QED
    BY <1>0, <2>1, <2>2, LedgerRests DEF BalanceRows
<1> QED
  BY <1>1, <1>2, <1>3, <1>4, <1>5, <1>6, <1>7, <1>8 DEF Next

LEMMA LedgerInit == Init => Ledger
<1> SUFFICES ASSUME Init PROVE Ledger
  OBVIOUS
<1>0. BalanceRows
  <2>1. /\ used = [m \in Months |-> 0] /\ remaining = [l \in Lots |-> 0] /\ bought = {}
        /\ fromPlan = [r \in Requests |-> 0] /\ paid = 0 /\ straddled = FALSE
    BY Zenon DEF Init
  <2>2. used \in [Months -> Nat] /\ remaining \in [Lots -> Nat] /\ fromPlan \in [Requests -> Nat]
    BY <2>1
  <2>3. \A l \in Lots : remaining[l] = 0
    BY <2>1
  <2>4. paid \in Int
    BY <2>1
  <2>5. bought \subseteq Lots /\ straddled \in BOOLEAN
    BY <2>1, Zenon
  <2> QED
    BY <2>2, <2>3, <2>4, <2>5, Zenon DEF BalanceRows
<1>1. LoadedOnTrial /\ Finishing = {}
  <2>1. \A r \in Requests : pc[r] = "idle"
    BY DEF Init
  <2> QED
    BY <2>1 DEF LoadedOnTrial, Finishing
<1>2. PlanFits
  BY <1>1, PlanAssumption DEF Init, PlanFits, PlanWithinMonth
<1>3. Total(used) = 0 /\ Total(remaining) = 0
  BY <1>1, MonthsFinite, TotalZero DEF Init
<1>4. Cardinality(bought) = 0
  BY FS_EmptySet DEF Init
<1>5. Balance /\ AloneOnLots /\ PackageFits
  BY <1>1, <1>3, <1>4, LotsAssumption, PlanAssumption DEF Init, Balance, AloneOnLots, PackageFits
<1> QED
  BY <1>0, <1>1, <1>2, <1>5 DEF Ledger

\* However requests, purchases and months overlap, no month uses more than the plan gives; and unless two
\* months were charged at once, every credit that left a balance was charged to a request that was told yes,
\* and the package of a trial is one (src/billing/credits.py:126).
THEOREM CreditsAreKept == Spec => []CreditsAddUp
<1>1. Ledger => CreditsAddUp
  BY DEF Ledger, PlanFits, Balance, PackageFits, CreditsAddUp, BooksBalance, TrialIsOnePackage
<1> QED
  BY <1>1, LedgerInit, LedgerStep, ControlInit, ControlStep, PTL DEF Spec

-----------------------------------------------------------------------------
(* AICalls: the providers chosen are the ones the office allows.           *)

\* A finite set of positions has, for each k up to its size, one with k of them up to it.
LEMMA KthOf ==
    ASSUME NEW n \in Nat, NEW S \in SUBSET (1 .. n), NEW k \in 1 .. Cardinality(S)
    PROVE  \E i \in S : Cardinality({j \in S : j <= i}) = k
<1> DEFINE upTo(i) == {j \in S : j <= i}
           enough == {i \in Nat : Cardinality(upTo(i)) >= k}
<1>0. IsFiniteSet(1 .. n)
  BY FS_Interval
<1>a. IsFiniteSet(S)
  BY <1>0, FS_Subset
<1>1. \A i \in Nat : IsFiniteSet(upTo(i)) /\ Cardinality(upTo(i)) \in Nat
  <2> SUFFICES ASSUME NEW i \in Nat PROVE IsFiniteSet(upTo(i)) /\ Cardinality(upTo(i)) \in Nat
    OBVIOUS
  <2>1. upTo(i) \in SUBSET S
    OBVIOUS
  <2> HIDE DEF upTo
  <2> QED
    BY <1>a, <2>1, FS_Subset, FS_CardinalityType
<1>2. upTo(n) = S /\ upTo(0) = {}
  <2>1. \A j \in S : j \in Nat /\ j <= n /\ ~(j <= 0)
    OBVIOUS
  <2> QED
    BY <2>1
<1>3. Cardinality(upTo(0)) = 0
  BY <1>2, FS_EmptySet
<1>4. k \in Nat /\ k > 0 /\ k <= Cardinality(S)
  BY <1>a, FS_CardinalityType
<1>5. n \in enough /\ enough \in SUBSET Nat
  BY <1>2, <1>4
<1> HIDE DEF enough
<1>6. PICK i \in enough : \A m \in enough : i <= m
  BY <1>5, LeastOf
<1> USE DEF enough
<1>7. i \in Nat /\ i # 0 /\ Cardinality(upTo(i)) >= k
  BY <1>3, <1>4, <1>6
<1>8. i - 1 \in Nat /\ ~(Cardinality(upTo(i - 1)) >= k)
  <2>1. i - 1 \in Nat /\ ~(i <= i - 1)
    BY <1>7
  <2> HIDE DEF upTo
  <2>2. Cardinality(upTo(i - 1)) >= k => i - 1 \in enough
    BY <2>1
  <2> QED
    BY <1>6, <2>1, <2>2
<1>9. upTo(i) \subseteq upTo(i - 1) \cup {i} /\ upTo(i - 1) \subseteq upTo(i)
  <2>1. \A j \in S : j \in Nat /\ (j <= i => j <= i - 1 \/ j = i) /\ (j <= i - 1 => j <= i)
    BY <1>7
  <2> QED
    BY <2>1
<1>10. i \in S
  <2>1. ASSUME i \notin S PROVE upTo(i) = upTo(i - 1)
    <3>1. i \notin upTo(i)
      BY <2>1
    <3> QED
      BY <1>9, <3>1
  <2> QED
    BY <1>7, <1>8, <2>1
<1>11. upTo(i) = upTo(i - 1) \cup {i} /\ i \notin upTo(i - 1)
  <2>1. i \in upTo(i) /\ i \notin upTo(i - 1)
    BY <1>7, <1>10
  <2> HIDE DEF upTo
  <2> QED
    BY <1>9, <2>1
<1> HIDE DEF upTo, enough
<1>12. Cardinality(upTo(i)) = Cardinality(upTo(i - 1)) + 1
  BY <1>1, <1>8, <1>11, FS_AddElement
<1>13. Cardinality(upTo(i)) = k
  BY <1>1, <1>4, <1>7, <1>8, <1>12
<1> QED
  BY <1>10, <1>13 DEF upTo

\* The elements of a sequence that are in a set are a sequence of this set.
LEMMA OnlyOfThese ==
    ASSUME NEW T, NEW s \in Seq(T), NEW S
    PROVE  Only(s, S) \in Seq(T \cap S)
<1> DEFINE picked == {i \in DOMAIN s : s[i] \in S}
           at(k) == CHOOSE i \in picked : Cardinality({j \in picked : j <= i}) = k
<1>1. Len(s) \in Nat /\ DOMAIN s = 1 .. Len(s) /\ picked \in SUBSET (1 .. Len(s))
  BY LenProperties
<1>2. Cardinality(picked) \in Nat
  <2> HIDE DEF picked
  <2>1. IsFiniteSet(1 .. Len(s))
    BY <1>1, FS_Interval
  <2> QED
    BY <1>1, <2>1, FS_Subset, FS_CardinalityType
<1>3. ASSUME NEW k \in 1 .. Cardinality(picked) PROVE s[at(k)] \in T \cap S
  <2>1. \E i \in picked : Cardinality({j \in picked : j <= i}) = k
    <3> HIDE DEF picked
    <3> QED
      BY <1>1, KthOf
  <2>2. at(k) \in picked
    <3> HIDE DEF picked
    <3> QED
      BY <2>1
  <2> HIDE DEF at
  <2> QED
    BY <1>1, <2>2, ElementOfSeq
<1>4. Only(s, S) = [k \in 1 .. Cardinality(picked) |-> s[at(k)]]
  BY DEF Only
<1> HIDE DEF picked, at
<1> QED
  BY <1>2, <1>3, <1>4, IsASeq

AskRow == [pc : {"idle", "chosen", "fillOn", "fillOff", "checked", "trying", "succeeded", "failed", "logging", "ended"},
           chain : Seq(Providers), at : Nat, read : Nat, chosen : Nat, answer : Providers \cup {NoAnswer}]
Live(ask) == ask.pc \notin {"idle", "ended"}
Usable(p) == OwnUsable(p) \/ PlatformUsable(p)
AiRows ==
    /\ aiAsk \in [AiRequests -> AskRow]
    /\ \A r \in AiRequests : Live(aiAsk[r]) => aiAsk[r].at \in 1 .. Len(aiAsk[r].chain)
    /\ policy \in [enabled : BOOLEAN, allowed : SUBSET Providers] /\ ownKey \in [Providers -> {"none", "paid", "free"}]
    /\ health \in [Providers -> [fails : Nat, open : BOOLEAN]] /\ counted \in [Providers -> [run : Nat, raced : BOOLEAN]]
    /\ aiLog \in Nat /\ office \in Nat

\* candidates() takes providers the office may use, and nothing else.
LEMMA CandidatesUsable == Candidates \in Seq({p \in Providers : Usable(p)})
<1> DEFINE own == {p \in Providers : OwnUsable(p)}
           platform == {p \in Providers \ own : PlatformUsable(p)}
           ok == {p \in Providers : Usable(p)}
           out == Only(Chain, own) \o Only(Chain, platform)
           keyed == {p \in Providers : ownKey[p] # "none"}
           open == {p \in Providers : health[p].open}
<1>1. Chain \in Seq(Providers)
  BY AiAssumption DEF Providers
<1>2. own \subseteq ok /\ platform \subseteq ok
  BY DEF Usable
<1> HIDE DEF own, platform, ok
<1>3. Only(Chain, own) \in Seq(ok) /\ Only(Chain, platform) \in Seq(ok)
  <2>1. Only(Chain, own) \in Seq(Providers \cap own) /\ Only(Chain, platform) \in Seq(Providers \cap platform)
    BY <1>1, OnlyOfThese
  <2>2. Providers \cap own \subseteq ok /\ Providers \cap platform \subseteq ok
    BY <1>2
  <2> QED
    BY <2>1, <2>2, SeqMonotonic
<1>4. out \in Seq(ok)
  BY <1>3, ConcatProperties
<1> HIDE DEF out
<1>5. \A S : Only(out, S) \in Seq(ok)
  <2> SUFFICES ASSUME NEW S PROVE Only(out, S) \in Seq(ok)
    OBVIOUS
  <2>1. Only(out, S) \in Seq(ok \cap S)
    BY <1>4, OnlyOfThese
  <2> QED
    BY <2>1, SeqMonotonic
<1>6. Only(out, keyed) \o Only(out, Providers \ (keyed \cup open)) \o Only(out, open \ keyed) \in Seq(ok)
  <2> HIDE DEF keyed, open
  <2> QED
    BY <1>5, ConcatProperties
<1> QED
  BY <1>6 DEF Candidates, own, platform, out, ok

\* The steps of a request move it alone, and keep the chain it has chosen.
Works(r) == Choose(r) \/ GlobalCached(r) \/ GlobalRead(r) \/ GlobalFill(r) \/ Check(r)
            \/ Call(r) \/ Record(r) \/ Log(r) \/ Again(r)

LEMMA NextOfRow ==
    ASSUME AiRows, NEW r \in AiRequests, Live(aiAsk[r])
    PROVE  /\ NextOf(r) \in AskRow /\ NextOf(r).at \in 1 .. Len(aiAsk[r].chain)
           /\ NextOf(r).chain = aiAsk[r].chain /\ NextOf(r).chosen = aiAsk[r].chosen
           /\ NextOf(r).pc \in {"trying", "logging"}
<1>1. aiAsk[r] \in AskRow /\ aiAsk[r].at \in 1 .. Len(aiAsk[r].chain)
  BY DEF AiRows
<1>2. Len(aiAsk[r].chain) \in Nat
  BY <1>1 DEF AskRow
<1>3. CASE aiAsk[r].at = Len(aiAsk[r].chain)
  <2>1. NextOf(r) = [aiAsk[r] EXCEPT !.pc = "logging"]
    BY <1>3 DEF NextOf
  <2> QED
    BY <1>1, <2>1 DEF AskRow
<1>4. CASE aiAsk[r].at # Len(aiAsk[r].chain)
  <2>1. NextOf(r) = [aiAsk[r] EXCEPT !.pc = "trying", !.at = aiAsk[r].at + 1]
    BY <1>4 DEF NextOf
  <2>2. aiAsk[r].at + 1 \in Nat /\ aiAsk[r].at + 1 \in 1 .. Len(aiAsk[r].chain)
    BY <1>1, <1>2, <1>4
  <2>3. aiAsk[r].at + 1 = NextOf(r).at
    BY <1>1, <2>1 DEF AskRow
  <2> QED
    BY <1>1, <2>1, <2>2, <2>3 DEF AskRow
<1> QED
  BY <1>3, <1>4

LEMMA RequestMoves ==
    ASSUME AiRows, NEW r \in AiRequests, Works(r)
    PROVE  \E next \in AskRow :
               /\ aiAsk' = [aiAsk EXCEPT ![r] = next]
               /\ Live(next) =>
                   /\ next.at \in 1 .. Len(next.chain)
                   /\ \/ Live(aiAsk[r]) /\ next.chain = aiAsk[r].chain /\ next.chosen = aiAsk[r].chosen
                      \/ next.chain = Candidates /\ next.chosen = office
<1>0. /\ aiAsk[r] \in AskRow /\ (Live(aiAsk[r]) => aiAsk[r].at \in 1 .. Len(aiAsk[r].chain)) /\ office \in Nat
      /\ Idle \in AskRow /\ ~Live(Idle)
  BY DEF AiRows, Idle, AskRow, Live
<1>1. CASE Choose(r)
  <2> DEFINE next == [Idle EXCEPT !.pc = IF Candidates = <<>> THEN "ended" ELSE "chosen",
                                  !.chain = Candidates, !.at = 1, !.chosen = office]
  <2>1. Candidates \in Seq(Providers)
    BY CandidatesUsable, SeqMonotonic
  <2>2. next \in AskRow /\ next.chain = Candidates /\ next.at = 1 /\ next.chosen = office
        /\ (next.pc = "ended" \/ Candidates # <<>>)
    BY <1>0, <2>1 DEF AskRow, Idle
  <2>3. Candidates # <<>> => 1 \in 1 .. Len(Candidates)
    BY <2>1, EmptySeq
  <2>5. Live(next) => next.at \in 1 .. Len(next.chain)
    BY <2>2, <2>3 DEF Live
  <2>4. aiAsk' = [aiAsk EXCEPT ![r] = next]
    BY <1>1 DEF Choose
  <2> HIDE DEF next
  <2> QED
    BY <2>2, <2>4, <2>5
<1>2. ASSUME NEW q \in {"checked", "ended", "fillOn", "fillOff", "trying"}, Live(aiAsk[r]), Goes(r, q)
      PROVE  \E next \in AskRow : /\ aiAsk' = [aiAsk EXCEPT ![r] = next] /\ next.at = aiAsk[r].at
                                  /\ next.chain = aiAsk[r].chain /\ next.chosen = aiAsk[r].chosen
  <2> DEFINE next == [aiAsk[r] EXCEPT !.pc = q]
  <2>1. next \in AskRow /\ next.at = aiAsk[r].at /\ next.chain = aiAsk[r].chain /\ next.chosen = aiAsk[r].chosen
    BY <1>0, <1>2 DEF AskRow
  <2>2. aiAsk' = [aiAsk EXCEPT ![r] = next]
    BY <1>2 DEF Goes
  <2> HIDE DEF next
  <2> QED
    BY <2>1, <2>2
<1>3. CASE GlobalCached(r) \/ GlobalRead(r) \/ GlobalFill(r) \/ Check(r) \/ Log(r)
  <2>1. Live(aiAsk[r]) /\ \E q \in {"checked", "ended", "fillOn", "fillOff", "trying"} : Goes(r, q)
    BY <1>3 DEF GlobalCached, GlobalRead, GlobalFill, Check, Log, Live
  <2> QED
    BY <1>0, <1>2, <2>1
<1>4. CASE Call(r)
  <2> DEFINE p == aiAsk[r].chain[aiAsk[r].at]
  <2>1. Live(aiAsk[r]) /\ p \in Providers
    BY <1>0, <1>4, ElementOfSeq DEF Call, Live, AskRow
  <2>2. health[p].fails \in Nat
    BY <2>1 DEF AiRows
  <2>3. CASE aiAsk' = [aiAsk EXCEPT ![r] = NextOf(r)]
    BY <2>1, <2>3, NextOfRow
  <2>4. CASE aiAsk' = [aiAsk EXCEPT ![r].pc = "logging", ![r].answer = p]
    <3> DEFINE next == [aiAsk[r] EXCEPT !.pc = "logging", !.answer = p]
    <3>1. next \in AskRow /\ next.at = aiAsk[r].at /\ next.chain = aiAsk[r].chain /\ next.chosen = aiAsk[r].chosen
      BY <1>0, <2>1 DEF AskRow
    <3>2. aiAsk' = [aiAsk EXCEPT ![r] = next]
      BY <2>4
    <3> HIDE DEF next, p
    <3> QED
      BY <1>0, <2>1, <3>1, <3>2
  <2>5. ASSUME NEW ok \in BOOLEAN,
               aiAsk' = [aiAsk EXCEPT ![r].pc = IF ok THEN "succeeded" ELSE "failed", ![r].read = health[p].fails]
        PROVE  \E next \in AskRow : /\ aiAsk' = [aiAsk EXCEPT ![r] = next] /\ next.at = aiAsk[r].at
                                    /\ next.chain = aiAsk[r].chain /\ next.chosen = aiAsk[r].chosen
    <3> DEFINE next == [aiAsk[r] EXCEPT !.pc = IF ok THEN "succeeded" ELSE "failed", !.read = health[p].fails]
    <3>1. next \in AskRow /\ next.at = aiAsk[r].at /\ next.chain = aiAsk[r].chain /\ next.chosen = aiAsk[r].chosen
      BY <1>0, <2>2 DEF AskRow
    <3>2. aiAsk' = [aiAsk EXCEPT ![r] = next]
      BY <2>5
    <3> HIDE DEF next, p
    <3> QED
      BY <3>1, <3>2
  <2> HIDE DEF p
  <2>6. \/ aiAsk' = [aiAsk EXCEPT ![r] = NextOf(r)]
        \/ aiAsk' = [aiAsk EXCEPT ![r].pc = "logging", ![r].answer = p]
        \/ \E ok \in BOOLEAN :
               aiAsk' = [aiAsk EXCEPT ![r].pc = IF ok THEN "succeeded" ELSE "failed", ![r].read = health[p].fails]
    BY <1>4 DEF Call, p
  <2> QED
    BY <1>0, <2>1, <2>3, <2>4, <2>5, <2>6
<1>5. CASE Record(r)
  <2> DEFINE p == aiAsk[r].chain[aiAsk[r].at]
             next == [aiAsk[r] EXCEPT !.pc = "logging", !.answer = p]
  <2>1. Live(aiAsk[r]) /\ p \in Providers
    BY <1>0, <1>5, ElementOfSeq DEF Record, Live, AskRow
  <2>2. next \in AskRow /\ next.at = aiAsk[r].at /\ next.chain = aiAsk[r].chain /\ next.chosen = aiAsk[r].chosen
    BY <1>0, <2>1 DEF AskRow
  <2>3. aiAsk' = [aiAsk EXCEPT ![r] = NextOf(r)] \/ aiAsk' = [aiAsk EXCEPT ![r] = next]
    BY <1>5 DEF Record
  <2> HIDE DEF next, p
  <2>4. CASE aiAsk' = [aiAsk EXCEPT ![r] = NextOf(r)]
    BY <2>1, <2>4, NextOfRow
  <2>5. CASE aiAsk' = [aiAsk EXCEPT ![r] = next]
    BY <1>0, <2>1, <2>2, <2>5
  <2> QED
    BY <2>3, <2>4, <2>5
<1>6. CASE Again(r)
  BY <1>0, <1>6 DEF Again
<1> QED
  BY <1>1, <1>3, <1>4, <1>5, <1>6 DEF Works

LEMMA AiRowsStep == ASSUME AiRows, [AiNext]_aiVars PROVE AiRows'
<1>1. ASSUME NEW r \in AiRequests, Works(r) PROVE AiRows'
  <2>1. PICK next \in AskRow : aiAsk' = [aiAsk EXCEPT ![r] = next] /\ (Live(next) => next.at \in 1 .. Len(next.chain))
    BY <1>1, RequestMoves
  <2>2. aiAsk' \in [AiRequests -> AskRow] /\ aiAsk'[r] = next /\ \A q \in AiRequests \ {r} : aiAsk'[q] = aiAsk[q]
    BY <2>1 DEF AiRows
  <2>3. \A q \in AiRequests : Live(aiAsk'[q]) => aiAsk'[q].at \in 1 .. Len(aiAsk'[q].chain)
    BY <2>1, <2>2 DEF AiRows
  <2>4. UNCHANGED <<policy, ownKey, office>> /\ (aiLog' = aiLog \/ aiLog' = aiLog + 1)
    BY <1>1 DEF Works, Choose, GlobalCached, GlobalRead, GlobalFill, Check, Call, Record, Log, Again
  <2>5. health' \in [Providers -> [fails : Nat, open : BOOLEAN]] /\ counted' \in [Providers -> [run : Nat, raced : BOOLEAN]]
    <3> DEFINE p == aiAsk[r].chain[aiAsk[r].at]
    <3>1. aiAsk[r] \in AskRow /\ aiAsk[r].read \in Nat
      BY DEF AiRows, AskRow
    <3>2. CASE UNCHANGED <<health, counted>>
      BY <3>2 DEF AiRows
    <3>3. CASE Call(r)
      <4>1. p \in Providers /\ UNCHANGED health
        BY <3>1, <3>3, ElementOfSeq DEF AiRows, Call, AskRow, Live
      <4>2. CASE UNCHANGED counted
        BY <4>1, <4>2 DEF AiRows
      <4>3. ASSUME NEW n \in Nat, NEW b \in BOOLEAN, counted' = [counted EXCEPT ![p] = [run |-> n, raced |-> b]]
            PROVE  counted' \in [Providers -> [run : Nat, raced : BOOLEAN]]
        BY <4>1, <4>3 DEF AiRows
      <4>4. counted[p].run \in Nat /\ counted[p].raced \in BOOLEAN
        BY <4>1 DEF AiRows
      <4>5. UNCHANGED counted \/ \E n \in Nat, b \in BOOLEAN : counted' = [counted EXCEPT ![p] = [run |-> n, raced |-> b]]
        <5> DEFINE raced == counted[p].raced \/ \E q \in AiRequests :
                                /\ aiAsk[q].pc \in {"succeeded", "failed"} /\ aiAsk[q].chain[aiAsk[q].at] = p
                   run(ok) == IF ok THEN 0 ELSE counted[p].run + 1
        <5>1. raced \in BOOLEAN /\ \A ok \in BOOLEAN : run(ok) \in Nat
          BY <4>4
        <5>2. UNCHANGED counted \/ \E ok \in BOOLEAN : counted' = [counted EXCEPT ![p] = [run |-> run(ok), raced |-> raced]]
          BY <3>3 DEF Call
        <5> HIDE DEF raced, run, p
        <5> QED
          BY <5>1, <5>2
      <4> QED
        BY <4>1, <4>2, <4>3, <4>5 DEF AiRows
    <3>4. CASE Record(r)
      <4>1. p \in Providers /\ UNCHANGED counted
        <5>1. aiAsk[r].chain \in Seq(Providers) /\ aiAsk[r].at \in 1 .. Len(aiAsk[r].chain)
          BY <3>1, <3>4 DEF AiRows, Record, AskRow, Live
        <5> QED
          BY <3>4, <5>1, ElementOfSeq DEF Record
      <4> DEFINE n == Counted(aiAsk[r].read, aiAsk[r].pc = "succeeded")
                 b == health[p].open \/ Opens(aiAsk[r].read, aiAsk[r].pc = "succeeded")
      <4>2. n \in Nat
        BY <3>1 DEF Counted
      <4>3. b \in BOOLEAN
        OBVIOUS
      <4>4. health' = [health EXCEPT ![p] = [fails |-> n, open |-> b]]
        BY <3>4 DEF Record
      <4> HIDE DEF n, b, p
      <4> QED
        BY <4>1, <4>2, <4>3, <4>4 DEF AiRows
    <3> QED
      BY <1>1, <3>2, <3>3, <3>4 DEF Works, Choose, GlobalCached, GlobalRead, GlobalFill, Check, Log, Again
  <2> QED
    BY <2>2, <2>3, <2>4, <2>5 DEF AiRows
<1>2. CASE OfficeChanges
  <2>1. UNCHANGED <<aiAsk, health, counted, aiLog>> /\ office' \in Nat
    BY <1>2 DEF OfficeChanges, AiRows
  <2>2. ownKey' \in [Providers -> {"none", "paid", "free"}]
    BY <1>2 DEF OfficeChanges, AiRows
  <2>3. policy' \in [enabled : BOOLEAN, allowed : SUBSET Providers]
    <3>1. policy \in [enabled : BOOLEAN, allowed : SUBSET Providers]
      BY DEF AiRows
    <3>2. CASE UNCHANGED policy
      BY <3>1, <3>2
    <3>3. CASE \E p \in policy.allowed : policy' = [policy EXCEPT !.allowed = OrDefault(policy.allowed \ {p})]
      BY <3>1, <3>3 DEF OrDefault
    <3>4. CASE policy' = [policy EXCEPT !.enabled = ~policy.enabled]
      BY <3>1, <3>4
    <3> QED
      BY <1>2, <3>2, <3>3, <3>4 DEF OfficeChanges
  <2> QED
    BY <2>1, <2>2, <2>3 DEF AiRows
<1>3. ASSUME NEW p \in Providers, BreakerCloses(p) PROVE AiRows'
  <2>1. UNCHANGED <<aiAsk, policy, ownKey, counted, aiLog, office>> /\ health' = [health EXCEPT ![p].open = FALSE]
    BY <1>3 DEF BreakerCloses
  <2>2. health' \in [Providers -> [fails : Nat, open : BOOLEAN]]
    BY <2>1 DEF AiRows
  <2> QED
    BY <2>1, <2>2 DEF AiRows
<1>4. CASE ThrowSwitch \/ DropCache \/ CacheExpires \/ UNCHANGED aiVars
  BY <1>4 DEF ThrowSwitch, DropCache, CacheExpires, aiVars, AiRows
<1> QED
  BY <1>1, <1>2, <1>3, <1>4 DEF AiNext, Works

\* As long as the office has changed nothing since, the providers a request chose are usable still.
ChosenOK == \A r \in AiRequests : Live(aiAsk[r]) =>
    /\ aiAsk[r].chosen <= office
    /\ aiAsk[r].chosen = office => \A i \in 1 .. Len(aiAsk[r].chain) : Usable(aiAsk[r].chain[i])

LEMMA ChosenStep == ASSUME AiRows, ChosenOK, [AiNext]_aiVars PROVE ChosenOK'
<1>0. office \in Nat
  BY DEF AiRows
<1>1. ASSUME NEW r \in AiRequests, Works(r) PROVE ChosenOK'
  <2>1. PICK next \in AskRow :
               /\ aiAsk' = [aiAsk EXCEPT ![r] = next]
               /\ Live(next) =>
                   \/ Live(aiAsk[r]) /\ next.chain = aiAsk[r].chain /\ next.chosen = aiAsk[r].chosen
                   \/ next.chain = Candidates /\ next.chosen = office
    BY <1>1, RequestMoves
  <2>2. aiAsk'[r] = next /\ \A q \in AiRequests \ {r} : aiAsk'[q] = aiAsk[q]
    BY <2>1 DEF AiRows
  <2>3. UNCHANGED <<policy, ownKey, office>>
    BY <1>1 DEF Works, Choose, GlobalCached, GlobalRead, GlobalFill, Check, Call, Record, Log, Again
  <2>4. \A p : Usable(p)' <=> Usable(p)
    BY <2>3 DEF Usable, OwnUsable, PlatformUsable, MayTrain
  <2>5. \A i \in 1 .. Len(Candidates) : Usable(Candidates[i])
    <3>1. \A i \in 1 .. Len(Candidates) : Candidates[i] \in {p \in Providers : Usable(p)}
      BY CandidatesUsable, ElementOfSeq
    <3> QED
      BY <3>1
  <2>6. Live(next) => next.chosen <= office /\ (next.chosen = office => \A i \in 1 .. Len(next.chain) : Usable(next.chain[i]))
    BY <1>0, <2>1, <2>5 DEF ChosenOK
  <2> QED
    BY <2>2, <2>3, <2>4, <2>6 DEF ChosenOK
<1>2. CASE OfficeChanges
  <2>1. UNCHANGED aiAsk /\ office' = office + 1
    BY <1>2 DEF OfficeChanges
  <2>2. \A r \in AiRequests : aiAsk[r].chosen \in Nat
    BY DEF AiRows, AskRow
  <2> QED
    BY <1>0, <2>1, <2>2 DEF ChosenOK
<1>3. CASE UNCHANGED <<aiAsk, policy, ownKey, office>>
  BY <1>3 DEF ChosenOK, Usable, OwnUsable, PlatformUsable, MayTrain
<1> QED
  BY <1>1, <1>2, <1>3 DEF AiNext, Works, ThrowSwitch, DropCache, CacheExpires, BreakerCloses, aiVars

LEMMA PrivateStep == ASSUME AiRows, ChosenOK, DataStaysPrivate, [AiNext]_aiVars PROVE DataStaysPrivate'
<1>1. ASSUME NEW r \in AiRequests, Call(r) PROVE DataStaysPrivate'
  <2> DEFINE p == aiAsk[r].chain[aiAsk[r].at]
             record == Sending(p, aiAsk[r].chosen # office)
  <2>1. p \in Providers /\ (aiAsk[r].chosen = office => Usable(p))
    BY <1>1, ElementOfSeq DEF AiRows, Call, AskRow, Live, ChosenOK
  <2>2. ownKey[p] \in {"none", "paid", "free"}
    BY <2>1 DEF AiRows
  <2>3. ~record.changed /\ ~record.shadowed => ~record.trains /\ record.allowed
    BY <2>1, <2>2 DEF Sending, Usable, OwnUsable, PlatformUsable, MayTrain
  <2>4. sent' \subseteq sent \cup {record}
    BY <1>1 DEF Call
  <2> HIDE DEF p, record
  <2> QED
    BY <2>3, <2>4 DEF DataStaysPrivate
<1>2. CASE UNCHANGED sent
  BY <1>2 DEF DataStaysPrivate
<1> QED
  BY <1>1, <1>2 DEF AiNext, Choose, GlobalCached, GlobalRead, GlobalFill, Check, Record, Log, Again, OfficeChanges,
                    ThrowSwitch, DropCache, CacheExpires, BreakerCloses, aiVars

-----------------------------------------------------------------------------
(* AICalls: the guard and the breakers.                                    *)

\* The switch is off from the moment it is saved.
SwitchOK == (thrower # "idle" => ~globalOn) /\ SwitchCuts
LEMMA SwitchStep == ASSUME SwitchOK, [AiNext]_aiVars PROVE SwitchOK'
<1>1. CASE UNCHANGED <<thrower, globalOn, cached, late>>
  BY <1>1 DEF SwitchOK, SwitchCuts
<1>2. CASE ThrowSwitch \/ DropCache \/ CacheExpires
  BY <1>2 DEF SwitchOK, SwitchCuts, ThrowSwitch, DropCache, CacheExpires
<1>3. ASSUME NEW r \in AiRequests, GlobalFill(r) PROVE SwitchOK'
  BY <1>3 DEF SwitchOK, SwitchCuts, GlobalFill
<1> QED
  BY <1>1, <1>2, <1>3 DEF AiNext, Choose, GlobalCached, GlobalRead, Check, Call, Record, Log, Again, OfficeChanges,
                          BreakerCloses, aiVars

\* Those the guard let in, and what they and the log may come to.
Inside == {r \in AiRequests : aiAsk[r].pc \in {"trying", "succeeded", "failed", "logging"}}
Ceiling == IF DailyRequests = 0 THEN 0 ELSE DailyRequests + Cardinality(AiRequests) - 1

LEMMA InsideFinite ==
    /\ Inside \in SUBSET AiRequests /\ IsFiniteSet(Inside)
    /\ Cardinality(Inside) \in Nat /\ Cardinality(Inside) <= Cardinality(AiRequests) /\ Cardinality(AiRequests) \in Nat
<1>1. Inside \in SUBSET AiRequests
  BY DEF Inside
<1>2. IsFiniteSet(AiRequests)
  BY AiAssumption
<1> QED
  BY <1>1, <1>2, FS_Subset, FS_CardinalityType

LEMMA InsideNext ==
    /\ IsFiniteSet(Inside') /\ Cardinality(Inside') \in Nat /\ Cardinality(Inside') <= Cardinality(AiRequests)
<1>1. Inside' \in SUBSET AiRequests
  BY DEF Inside
<1>2. IsFiniteSet(AiRequests)
  BY AiAssumption
<1> QED
  BY <1>1, <1>2, FS_Subset, FS_CardinalityType

\* Where a request that calls and records nothing goes.
LEMMA GoesTo ==
    ASSUME AiRows, NEW r \in AiRequests
    PROVE  /\ Choose(r) \/ GlobalCached(r) \/ GlobalRead(r) \/ GlobalFill(r) \/ Again(r) =>
                aiAsk'[r].pc \in {"idle", "chosen", "fillOn", "fillOff", "checked", "ended"}
           /\ Check(r) \/ Log(r) => aiAsk'[r].pc \in {"trying", "ended"}
<1>1. aiAsk \in [AiRequests -> AskRow]
  BY DEF AiRows
<1>2. ASSUME NEW q, Goes(r, q) PROVE aiAsk'[r].pc = q
  BY <1>1, <1>2 DEF Goes, AskRow
<1>3. Choose(r) => aiAsk'[r].pc \in {"chosen", "ended"}
  <2> DEFINE next == [Idle EXCEPT !.pc = IF Candidates = <<>> THEN "ended" ELSE "chosen",
                                  !.chain = Candidates, !.at = 1, !.chosen = office]
  <2>1. next.pc \in {"chosen", "ended"}
    BY DEF Idle
  <2>2. Choose(r) => aiAsk' = [aiAsk EXCEPT ![r] = next]
    BY DEF Choose
  <2> HIDE DEF next
  <2> QED
    BY <1>1, <2>1, <2>2
<1>4. Again(r) => aiAsk'[r].pc = "idle"
  BY <1>1 DEF Again, Idle
<1>5. GlobalCached(r) \/ GlobalRead(r) \/ GlobalFill(r) => aiAsk'[r].pc \in {"fillOn", "fillOff", "checked", "ended"}
  BY <1>2 DEF GlobalCached, GlobalRead, GlobalFill
<1>6. Check(r) \/ Log(r) => aiAsk'[r].pc \in {"trying", "ended"}
  BY <1>2 DEF Check, Log
<1> QED
  BY <1>3, <1>4, <1>5, <1>6

LEMMA OverrunStep ==
    ASSUME AiRows, AiRows', aiLog + Cardinality(Inside) <= Ceiling, [AiNext]_aiVars
    PROVE  aiLog' + Cardinality(Inside)' <= Ceiling
<1>0. aiLog \in Nat /\ aiLog' \in Nat
  BY DEF AiRows
<1>1. CASE aiLog' = aiLog /\ Inside' \subseteq Inside
  <2>1. Cardinality(Inside') <= Cardinality(Inside)
    BY <1>1, InsideFinite, FS_Subset
  <2>2. Ceiling \in Int
    BY InsideFinite, AiAssumption DEF Ceiling
  <2> QED
    BY <1>0, <1>1, <2>1, <2>2, InsideFinite, InsideNext
<1>2. ASSUME NEW r \in AiRequests, Check(r) PROVE aiLog' + Cardinality(Inside)' <= Ceiling
  <2>0. aiLog' = aiLog /\ aiAsk' = [aiAsk EXCEPT ![r].pc = IF Admits(r) THEN "trying" ELSE "ended"]
    BY <1>2 DEF Check, Goes
  <2>1. CASE Admits(r)
    <3>1. aiLog < DailyRequests /\ DailyRequests \in Nat
      BY <2>1, AiAssumption DEF Admits
    <3> QED
      BY <1>0, <2>0, <3>1, InsideFinite, InsideNext DEF Ceiling
  <2>2. CASE ~Admits(r)
    <3>1. Inside' \subseteq Inside
      BY <2>0, <2>2 DEF Inside, AiRows, AskRow
    <3> QED
      BY <1>1, <2>0, <3>1
  <2> QED
    BY <2>1, <2>2
<1>3. ASSUME NEW r \in AiRequests, Log(r) PROVE aiLog' + Cardinality(Inside)' <= Ceiling
  <2>0. aiLog' = aiLog + 1 /\ aiAsk[r].pc = "logging" /\ aiAsk' = [aiAsk EXCEPT ![r].pc = "ended"]
    BY <1>3 DEF Log, Goes
  <2>1. r \in Inside /\ Inside' \subseteq Inside \ {r}
    BY <2>0 DEF Inside, AiRows, AskRow
  <2>2. Cardinality(Inside \ {r}) = Cardinality(Inside) - 1 /\ IsFiniteSet(Inside \ {r})
    BY <2>1, InsideFinite, FS_RemoveElement
  <2>3. Cardinality(Inside') <= Cardinality(Inside) - 1
    BY <2>1, <2>2, FS_Subset
  <2>4. Ceiling \in Int
    BY InsideFinite, AiAssumption DEF Ceiling
  <2> QED
    BY <1>0, <2>0, <2>3, <2>4, InsideFinite, InsideNext
<1>4. ASSUME NEW r \in AiRequests,
             Choose(r) \/ GlobalCached(r) \/ GlobalRead(r) \/ GlobalFill(r) \/ Call(r) \/ Record(r) \/ Again(r)
      PROVE  aiLog' = aiLog /\ Inside' \subseteq Inside
  <2>1. aiLog' = aiLog
    BY <1>4 DEF Choose, GlobalCached, GlobalRead, GlobalFill, Call, Record, Again
  <2>2. PICK next \in AskRow : aiAsk' = [aiAsk EXCEPT ![r] = next]
    BY <1>4, RequestMoves DEF Works
  <2>3. aiAsk'[r] = next /\ \A q \in AiRequests \ {r} : aiAsk'[q] = aiAsk[q]
    BY <2>2 DEF AiRows
  <2>4. CASE r \in Inside
    <3> SUFFICES ASSUME NEW q \in AiRequests, q \in Inside' PROVE q \in Inside
      BY <2>1 DEF Inside
    <3> QED
      BY <2>3, <2>4 DEF Inside
  <2>5. CASE r \notin Inside
    <3>1. Choose(r) \/ GlobalCached(r) \/ GlobalRead(r) \/ GlobalFill(r) \/ Again(r)
      BY <1>4, <2>5 DEF Call, Record, Inside
    <3>2. next.pc \notin {"trying", "succeeded", "failed", "logging"}
      BY <2>3, <3>1, GoesTo
    <3>3. SUFFICES ASSUME NEW q \in AiRequests, q \in Inside' PROVE q \in Inside
      BY <2>1 DEF Inside
    <3> QED
      BY <2>3, <3>2, <3>3 DEF Inside
  <2> QED
    BY <2>1, <2>4, <2>5
<1>5. CASE UNCHANGED <<aiAsk, aiLog>>
  BY <1>1, <1>5 DEF Inside
<1> QED
  BY <1>1, <1>2, <1>3, <1>4, <1>5 DEF AiNext, OfficeChanges, ThrowSwitch, DropCache, CacheExpires, BreakerCloses, aiVars

\* As long as records of a provider have not overlapped, one request at most is about to record it,
\* and the counter it read is the failures in a row without the answer it got.
Records(r, p) == aiAsk[r].pc \in {"succeeded", "failed"} /\ aiAsk[r].chain[aiAsk[r].at] = p
BreakerOK(p) ==
    ~counted[p].raced =>
        /\ \A q, r \in AiRequests : Records(q, p) /\ Records(r, p) => q = r
        /\ \A r \in AiRequests : Records(r, p) => counted[p].run = Counted(aiAsk[r].read, aiAsk[r].pc = "succeeded")
        /\ (\A r \in AiRequests : ~Records(r, p)) => health[p].fails = counted[p].run

LEMMA BreakerStep ==
    ASSUME AiRows, \A p \in Providers : BreakerOK(p), [AiNext]_aiVars
    PROVE  \A p \in Providers : BreakerOK(p)'
<1>1. ASSUME NEW r \in AiRequests, Call(r) PROVE \A p \in Providers : BreakerOK(p)'
  <2>0. UNCHANGED health /\ aiAsk[r].pc = "trying" /\ aiAsk[r] \in AskRow
    BY <1>1 DEF Call, AiRows
  <2>p. PICK p \in Providers : p = aiAsk[r].chain[aiAsk[r].at]
    <3>1. aiAsk[r].chain \in Seq(Providers) /\ aiAsk[r].at \in 1 .. Len(aiAsk[r].chain)
      BY <2>0 DEF AiRows, AskRow, Live
    <3> QED
      BY <3>1, ElementOfSeq
  <2>1. PICK next \in AskRow :
               /\ aiAsk' = [aiAsk EXCEPT ![r] = next]
               /\ Live(next) => (Live(aiAsk[r]) /\ next.chain = aiAsk[r].chain) \/ next.chain = Candidates
    BY <1>1, RequestMoves DEF Works
  <2>2. aiAsk'[r] = next /\ \A q \in AiRequests \ {r} : aiAsk'[q] = aiAsk[q]
    BY <2>1 DEF AiRows
  <2>3. \A q \in AiRequests \ {r} : \A o \in Providers : Records(q, o)' <=> Records(q, o)
    BY <2>2 DEF Records
  <2>4. \A o \in Providers : ~Records(r, o)
    BY <2>0 DEF Records
  <2>5. CASE UNCHANGED counted /\ next.pc \in {"trying", "logging"}
    <3>1. \A o \in Providers : ~Records(r, o)'
      BY <2>2, <2>5 DEF Records
    <3> QED
      BY <2>0, <2>2, <2>3, <2>4, <2>5, <3>1 DEF BreakerOK
  <2>6. CASE \E ok \in BOOLEAN :
               /\ aiAsk' = [aiAsk EXCEPT ![r].pc = IF ok THEN "succeeded" ELSE "failed", ![r].read = health[p].fails]
               /\ counted' = [counted EXCEPT
                    ![p] = [run |-> IF ok THEN 0 ELSE counted[p].run + 1,
                            raced |-> counted[p].raced \/ \E q \in AiRequests :
                                /\ aiAsk[q].pc \in {"succeeded", "failed"} /\ aiAsk[q].chain[aiAsk[q].at] = p]]
    <3>1. PICK ok \in BOOLEAN :
               /\ aiAsk' = [aiAsk EXCEPT ![r].pc = IF ok THEN "succeeded" ELSE "failed", ![r].read = health[p].fails]
               /\ counted' = [counted EXCEPT
                    ![p] = [run |-> IF ok THEN 0 ELSE counted[p].run + 1,
                            raced |-> counted[p].raced \/ \E q \in AiRequests :
                                /\ aiAsk[q].pc \in {"succeeded", "failed"} /\ aiAsk[q].chain[aiAsk[q].at] = p]]
      BY <2>6
    <3>2. /\ aiAsk'[r].pc = (IF ok THEN "succeeded" ELSE "failed") /\ aiAsk'[r].read = health[p].fails
          /\ aiAsk'[r].chain[aiAsk'[r].at] = p
      BY <2>0, <2>p, <3>1 DEF AiRows, AskRow
    <3>3. /\ counted'[p].run = (IF ok THEN 0 ELSE counted[p].run + 1)
          /\ counted'[p].raced = (counted[p].raced \/ \E q \in AiRequests : Records(q, p))
          /\ \A o \in Providers \ {p} : counted'[o] = counted[o]
      BY <2>p, <3>1 DEF AiRows, Records
    <3>4. Records(r, p)' /\ \A o \in Providers \ {p} : ~Records(r, o)'
      BY <3>2 DEF Records
    <3>5. ASSUME NEW o \in Providers \ {p} PROVE BreakerOK(o)'
      BY <2>0, <2>2, <2>3, <2>4, <3>3, <3>4 DEF BreakerOK
    <3>6. BreakerOK(p)'
      <4> SUFFICES ASSUME ~counted'[p].raced PROVE BreakerOK(p)'
        BY DEF BreakerOK
      <4>1. ~counted[p].raced /\ \A q \in AiRequests : ~Records(q, p)
        BY <3>3
      <4>2. health[p].fails = counted[p].run
        BY <2>p, <4>1 DEF BreakerOK
      <4>3. \A q \in AiRequests : Records(q, p)' => q = r
        BY <2>p, <2>3, <4>1
      <4>4. counted'[p].run = Counted(aiAsk'[r].read, aiAsk'[r].pc = "succeeded")
        BY <3>2, <3>3, <4>2 DEF Counted
      <4> QED
        BY <3>4, <4>3, <4>4 DEF BreakerOK
    <3> QED
      BY <3>5, <3>6
  <2>7. CASE UNCHANGED counted /\ aiAsk' = [aiAsk EXCEPT ![r] = NextOf(r)]
    <3>1. next.pc \in {"trying", "logging"}
      BY <2>0, <2>2, <2>7, NextOfRow DEF Live, AiRows
    <3> QED
      BY <2>5, <2>7, <3>1
  <2>8. CASE UNCHANGED counted /\ aiAsk' = [aiAsk EXCEPT ![r].pc = "logging", ![r].answer = p]
    <3>1. next.pc = "logging"
      BY <2>0, <2>2, <2>8 DEF AiRows, AskRow
    <3> QED
      BY <2>5, <2>8, <3>1
  <2> QED
    BY <1>1, <2>p, <2>6, <2>7, <2>8 DEF Call
<1>2. ASSUME NEW r \in AiRequests, Record(r) PROVE \A p \in Providers : BreakerOK(p)'
  <2>a. UNCHANGED counted /\ aiAsk[r].pc \in {"succeeded", "failed"} /\ aiAsk[r] \in AskRow
    BY <1>2 DEF Record, AiRows
  <2>p. PICK p \in Providers : p = aiAsk[r].chain[aiAsk[r].at]
    <3>1. aiAsk[r].chain \in Seq(Providers) /\ aiAsk[r].at \in 1 .. Len(aiAsk[r].chain)
      BY <2>a DEF AiRows, AskRow, Live
    <3> QED
      BY <3>1, ElementOfSeq
  <2> DEFINE ok == aiAsk[r].pc = "succeeded"
  <2>0. UNCHANGED counted /\ aiAsk[r].pc \in {"succeeded", "failed"} /\ aiAsk[r] \in AskRow /\ Records(r, p)
    BY <2>a, <2>p DEF Records
  <2>1. health' = [health EXCEPT ![p] = [fails |-> Counted(aiAsk[r].read, ok),
                                         open |-> health[p].open \/ Opens(aiAsk[r].read, ok)]]
        /\ aiAsk' = [aiAsk EXCEPT ![r] = IF ok THEN [aiAsk[r] EXCEPT !.pc = "logging", !.answer = p] ELSE NextOf(r)]
    BY <1>2, <2>p DEF Record
  <2>2. aiAsk'[r].pc \in {"trying", "logging"} /\ \A q \in AiRequests \ {r} : aiAsk'[q] = aiAsk[q]
    BY <2>0, <2>1, NextOfRow DEF AiRows, Live, AskRow
  <2>3. health'[p].fails = Counted(aiAsk[r].read, ok) /\ \A o \in Providers \ {p} : health'[o] = health[o]
    BY <2>p, <2>1 DEF AiRows
  <2>4. \A o \in Providers : ~Records(r, o)' /\ \A q \in AiRequests \ {r} : Records(q, o)' <=> Records(q, o)
    BY <2>2 DEF Records
  <2>5. ASSUME NEW o \in Providers \ {p} PROVE BreakerOK(o)'
    <3>1. ~Records(r, o)
      BY <2>0 DEF Records
    <3> QED
      BY <2>0, <2>2, <2>3, <2>4, <3>1 DEF BreakerOK
  <2>6. BreakerOK(p)'
    BY <2>p, <2>0, <2>2, <2>3, <2>4 DEF BreakerOK
  <2> QED
    BY <2>5, <2>6
<1>3. ASSUME NEW r \in AiRequests,
             Choose(r) \/ GlobalCached(r) \/ GlobalRead(r) \/ GlobalFill(r) \/ Check(r) \/ Log(r) \/ Again(r)
      PROVE  \A p \in Providers : BreakerOK(p)'
  <2>1. PICK next \in AskRow : aiAsk' = [aiAsk EXCEPT ![r] = next]
    BY <1>3, RequestMoves DEF Works
  <2>2. aiAsk'[r] = next /\ \A q \in AiRequests \ {r} : aiAsk'[q] = aiAsk[q]
    BY <2>1 DEF AiRows
  <2>3. UNCHANGED <<health, counted>> /\ aiAsk[r].pc \notin {"succeeded", "failed"}
    BY <1>3 DEF Choose, GlobalCached, GlobalRead, GlobalFill, Check, Log, Again
  <2>4. next.pc \notin {"succeeded", "failed"}
    BY <1>3, <2>2, GoesTo
  <2>5. \A o \in Providers : \A q \in AiRequests : Records(q, o)' <=> Records(q, o)
    BY <2>2, <2>3, <2>4 DEF Records
  <2>6. \A o \in Providers : ~Records(r, o)
    BY <2>3 DEF Records
  <2> QED
    BY <2>2, <2>3, <2>5, <2>6 DEF BreakerOK
<1>4. ASSUME NEW o \in Providers, BreakerCloses(o) PROVE \A p \in Providers : BreakerOK(p)'
  <2>1. UNCHANGED <<aiAsk, counted>> /\ \A p \in Providers : health'[p].fails = health[p].fails
    BY <1>4 DEF BreakerCloses, AiRows
  <2> QED
    BY <2>1 DEF BreakerOK, Records
<1>5. CASE UNCHANGED <<aiAsk, health, counted>>
  BY <1>5 DEF BreakerOK, Records
<1> QED
  BY <1>1, <1>2, <1>3, <1>4, <1>5 DEF AiNext, OfficeChanges, ThrowSwitch, DropCache, CacheExpires, aiVars

AiInv ==
    /\ AiRows /\ ChosenOK /\ DataStaysPrivate /\ SwitchOK
    /\ aiLog + Cardinality(Inside) <= Ceiling
    /\ \A p \in Providers : BreakerOK(p)

LEMMA AiInvInit == AiInit => AiInv
<1> SUFFICES ASSUME AiInit PROVE AiInv
  OBVIOUS
<1>0. Idle \in AskRow /\ Idle.pc = "idle"
  BY DEF Idle, AskRow
<1>1. aiAsk \in [AiRequests -> AskRow] /\ \A r \in AiRequests : aiAsk[r].pc = "idle"
  BY <1>0 DEF AiInit
<1>2. AiRows
  BY <1>1 DEF AiInit, AiRows, Live
<1>3. ChosenOK /\ DataStaysPrivate /\ SwitchOK
  BY <1>1 DEF AiInit, ChosenOK, Live, DataStaysPrivate, SwitchOK, SwitchCuts
<1>4. aiLog = 0 /\ Inside = {}
  BY <1>1 DEF AiInit, Inside
<1>5. 0 <= Ceiling /\ Cardinality(Inside) = 0
  <2>1. Cardinality(AiRequests) \in Nat
    BY AiAssumption, FS_CardinalityType
  <2> QED
    BY <1>4, <2>1, FS_EmptySet, AiAssumption DEF Ceiling
<1>6. \A p \in Providers : BreakerOK(p)
  BY <1>1 DEF AiInit, BreakerOK, Records
<1> QED
  BY <1>2, <1>3, <1>4, <1>5, <1>6 DEF AiInv

LEMMA AiInvStep == AiInv /\ [AiNext]_aiVars => AiInv'
<1> SUFFICES ASSUME AiInv, [AiNext]_aiVars PROVE AiInv'
  OBVIOUS
<1>1. AiRows'
  BY AiRowsStep DEF AiInv
<1>2. ChosenOK' /\ DataStaysPrivate'
  BY ChosenStep, PrivateStep DEF AiInv
<1>3. SwitchOK'
  BY SwitchStep DEF AiInv
<1>4. aiLog' + Cardinality(Inside)' <= Ceiling
  BY <1>1, OverrunStep DEF AiInv
<1>5. \A p \in Providers : BreakerOK(p)'
  BY BreakerStep DEF AiInv
<1> QED
  BY <1>1, <1>2, <1>3, <1>4, <1>5 DEF AiInv, Ceiling

\* The record of a call opens the breaker at the failure that makes FailLimit in a row.
LEMMA RecordOpens == AiInv /\ [AiNext]_aiVars => BreakerIsRight
<1> SUFFICES ASSUME AiInv, NEW r \in AiRequests, NEW p \in Providers,
                    Record(r), p = aiAsk[r].chain[aiAsk[r].at], ~counted[p].raced
             PROVE  health'[p].open <=> health[p].open \/ (aiAsk[r].pc = "failed" /\ counted[p].run >= FailLimit)
  BY DEF BreakerIsRight
<1>1. Records(r, p) /\ aiAsk[r].read \in Nat
  BY DEF AiInv, AiRows, AskRow, Record, Records
<1>2. counted[p].run = Counted(aiAsk[r].read, aiAsk[r].pc = "succeeded")
  BY <1>1 DEF AiInv, BreakerOK
<1>3. health'[p].open <=> health[p].open \/ Opens(aiAsk[r].read, aiAsk[r].pc = "succeeded")
  BY DEF Record, AiInv, AiRows
<1> QED
  BY <1>1, <1>2, <1>3, AiAssumption DEF Records, Opens, Counted

LEMMA AiInvHolds == AiSpec => []AiInv
  BY AiInvInit, AiInvStep, PTL DEF AiSpec

\* Whatever the office, the platform and other requests do meanwhile, client data goes to no provider
\* that trains on it or that the office has not allowed, under the conditions of DataStaysPrivate.
THEOREM ClientDataStaysPrivate == AiSpec => []DataStaysPrivate
<1>1. AiInv => DataStaysPrivate
  BY DEF AiInv
<1> QED
  BY <1>1, AiInvHolds, PTL

\* Every step leaves the switch and the daily limit respected, and opens a breaker when it should.
THEOREM AICallsAreGuarded == AiSpec => AICallsKept
<1>1. AiInv => GuardHolds
  BY DEF AiInv, GuardHolds, SwitchOK, OverrunIsBounded, Inside, Ceiling
<1>2. AiInv' => GuardHolds'
  BY <1>1, PTL
<1>3. AiInv' /\ BreakerIsRight => [GuardHolds' /\ BreakerIsRight]_aiVars
  BY <1>2
<1> QED
  BY <1>3, RecordOpens, AiInvHolds, AiInvStep, PTL DEF AiSpec, AICallsKept

-----------------------------------------------------------------------------
(* EmailIntake: a message goes from the mailbox to the rules in one place at a time. *)

ReadRow == [pc : {"idle", "list", "enqueue"}, box : Boxes \cup {NoBox}, todo : SUBSET Mails, mail : Mails \cup {NoMail}]
TriageRow == [pc : {"idle", "classify", "create", "emit"}, row : Nat, attempt : 0 .. MaxAttempts]
MailRows ==
    /\ saved \in Seq([box : Boxes, mail : Mails]) /\ Len(saved) <= Cardinality(Sent)
    /\ reader \in [Readers -> ReadRow]
    /\ triager \in [Triagers -> TriageRow]
    /\ waiting \subseteq [row : RowIds, attempt : 1 .. MaxAttempts]
    /\ triaged \in [RowIds -> Nat] /\ told \in [RowIds -> Nat] /\ charged \in [RowIds -> Nat] /\ repaid \in Nat
    /\ dropped \subseteq RowIds

\* A message is one row; a reader with one to queue has its row, which is new, and no other has the same.
Busy(t) == triager[t].pc # "idle"
Has(f, i) == reader[f].pc = "enqueue" /\ saved[i].mail = reader[f].mail
OneRow == \A i, j \in DOMAIN saved : saved[i].mail = saved[j].mail => i = j
ReaderOK(f) ==
    /\ reader[f].pc # "idle" => reader[f].box \in Boxes
    /\ reader[f].pc = "enqueue" =>
        /\ \E i \in DOMAIN saved : Has(f, i)
        /\ \A g \in Readers \ {f} : reader[g].pc = "enqueue" => reader[g].mail # reader[f].mail
        /\ \A i \in DOMAIN saved : Has(f, i) =>
            /\ triaged[i] = 0 /\ charged[i] = 0
            /\ \A w \in waiting : w.row # i
            /\ \A t \in Triagers : Busy(t) => triager[t].row # i

\* A row to be triaged is in one place: queued, or with one triager.
QueueOK ==
    /\ \A w \in waiting :
        /\ w.row \in DOMAIN saved /\ (triaged[w.row] > 0 => w.row \in dropped)
        /\ \A v \in waiting : v.row = w.row => v = w
        /\ \A t \in Triagers : Busy(t) => triager[t].row # w.row
    /\ \A t \in Triagers : Busy(t) =>
        /\ triager[t].row \in DOMAIN saved /\ triager[t].attempt > 0
        /\ triaged[triager[t].row] = IF triager[t].pc = "emit" THEN 1 ELSE 0
        /\ triager[t].pc = "emit" => told[triager[t].row] = 0
        /\ \A u \in Triagers \ {t} : Busy(u) => triager[u].row # triager[t].row

\* What a row costs, and where it is until it is told.
Paying(i) == triaged[i] > 0 \/ \E t \in Triagers : triager[t].pc = "create" /\ triager[t].row = i
PayOK == \A i \in RowIds :
    /\ triaged[i] <= 1 /\ told[i] <= triaged[i]
    /\ charged[i] <= repaid + (IF Paying(i) THEN 1 ELSE 0)
    /\ i \notin DOMAIN saved => triaged[i] = 0 /\ charged[i] = 0
OnItsWay(i) ==
    \/ \E f \in Readers : Has(f, i)
    \/ \E w \in waiting : w.row = i
    \/ \E t \in Triagers : Busy(t) /\ triager[t].row = i
NoneLeft == \A i \in DOMAIN saved : i \in dropped \/ (triaged[i] = 1 /\ told[i] = 1) \/ OnItsWay(i)

MailInv == MailRows /\ OneRow /\ (\A f \in Readers : ReaderOK(f)) /\ QueueOK /\ PayOK /\ NoneLeft

\* The rows have the numbers of the list of saved messages.
LEMMA RowNumbers ==
    ASSUME MailRows
    PROVE  /\ Cardinality(Sent) \in Nat /\ Cardinality(RowIds) = Cardinality(Sent)
           /\ Len(saved) \in Nat /\ DOMAIN saved = 1 .. Len(saved)
           /\ DOMAIN saved \subseteq RowIds /\ RowIds \subseteq Nat
<1>1. Cardinality(Sent) \in Nat
  BY FS_CardinalityType, MailAssumption
<1>2. Cardinality(RowIds) = Cardinality(Sent)
  BY <1>1, FS_Interval DEF RowIds
<1>3. Len(saved) \in Nat /\ DOMAIN saved = 1 .. Len(saved)
  BY DEF MailRows
<1> QED
  BY <1>1, <1>2, <1>3 DEF MailRows, RowIds

\* The row a reader has to queue.
LEMMA InHand ==
    ASSUME MailRows, OneRow, NEW f \in Readers, ReaderOK(f), reader[f].pc = "enqueue"
    PROVE  RowInHand(f) \in DOMAIN saved /\ Has(f, RowInHand(f)) /\ \A i \in DOMAIN saved : Has(f, i) => i = RowInHand(f)
<1>1. PICK i \in DOMAIN saved : Has(f, i)
  BY DEF ReaderOK
<1>2. \A j \in DOMAIN saved : Has(f, j) => j = i
  BY <1>1 DEF Has, OneRow
<1>3. i \in Nat
  BY <1>1, RowNumbers
<1>4. \E j \in DOMAIN saved : saved[j].mail = reader[f].mail /\ \A k \in DOMAIN saved : saved[k].mail = reader[f].mail => k <= j
  BY <1>1, <1>2, <1>3 DEF Has
<1>5. RowInHand(f) \in DOMAIN saved /\ saved[RowInHand(f)].mail = reader[f].mail
  BY <1>4 DEF RowInHand
<1> QED
  BY <1>2, <1>5 DEF Has

\* A reader takes another place, and what it had to queue, if it had, is queued or dropped.
LEMMA ReaderMoves ==
    ASSUME MailInv, NEW f \in Readers, MailRows',
           reader'[f].pc # "enqueue", reader'[f].pc # "idle" => reader'[f].box \in Boxes,
           \A g \in Readers \ {f} : reader'[g] = reader[g],
           UNCHANGED <<saved, waiting, triager, triaged, told, charged, repaid>>, dropped \subseteq dropped',
           reader[f].pc = "enqueue" => RowInHand(f) \in dropped'
    PROVE  MailInv'
<1> USE DEF MailInv
<1>1. \A g \in Readers : \A i : Has(g, i)' => Has(g, i) /\ g # f
  BY DEF Has
<1>2. \A g \in Readers \ {f} : \A i : Has(g, i)' <=> Has(g, i)
  BY DEF Has
<1>3. \A g \in Readers : ReaderOK(g)'
  BY <1>2 DEF ReaderOK, Busy, Has
<1>4. QueueOK' /\ OneRow'
  BY DEF QueueOK, Busy, OneRow
<1>5. PayOK'
  BY DEF PayOK, Paying
<1>6. ASSUME NEW i \in DOMAIN saved PROVE i \in dropped' \/ (triaged'[i] = 1 /\ told'[i] = 1) \/ OnItsWay(i)'
  <2>1. CASE Has(f, i)
    BY <2>1, InHand DEF Has
  <2>2. CASE ~Has(f, i)
    BY <1>2, <2>2 DEF NoneLeft, OnItsWay, Busy
  <2> QED
    BY <2>1, <2>2
<1> QED
  BY <1>3, <1>4, <1>5, <1>6 DEF NoneLeft

LEMMA ReadStep == ASSUME MailInv, NEW f \in Readers, NEW b \in Boxes, Read(f, b) PROVE MailInv'
<1> DEFINE row == [pc |-> "list", box |-> b, todo |-> {m \in Mails : <<b, m>> \in Sent /\ inbox[b, m] = "unseen"}, mail |-> NoMail]
<1>1. reader' = [reader EXCEPT ![f] = row]
  BY DEF Read
<1>2. row \in ReadRow
  BY DEF ReadRow
<1>3. row.pc = "list" /\ row.box = b
  OBVIOUS
<1> HIDE DEF row
<1>4. MailRows'
  BY <1>1, <1>2 DEF Read, MailInv, MailRows, RowIds
<1>5. reader'[f] = row /\ \A g \in Readers \ {f} : reader'[g] = reader[g]
  BY <1>1 DEF MailInv, MailRows
<1> QED
  BY <1>3, <1>4, <1>5, ReaderMoves DEF Read

LEMMA EndStep == ASSUME MailInv, NEW f \in Readers, EndRead(f) \/ ReaderDies(f) PROVE MailInv'
<1>1. reader' = [reader EXCEPT ![f] = NotReading]
  BY DEF EndRead, ReaderDies
<1>2. NotReading \in ReadRow
      /\ NotReading.pc = "idle"
  BY DEF NotReading, ReadRow
<1>3. reader[f].pc = "enqueue" => RowInHand(f) \in RowIds
  BY InHand, RowNumbers DEF MailInv
<1>4. dropped \subseteq dropped' /\ dropped' \subseteq RowIds /\ (reader[f].pc = "enqueue" => RowInHand(f) \in dropped')
  BY <1>3 DEF EndRead, ReaderDies, MailInv, MailRows
<1>5. UNCHANGED <<saved, waiting, triager, triaged, told, charged, repaid>>
  BY DEF EndRead, ReaderDies
<1>6. MailRows'
  BY <1>1, <1>2, <1>4, <1>5 DEF MailInv, MailRows, RowIds
<1>7. reader'[f] = NotReading /\ \A g \in Readers \ {f} : reader'[g] = reader[g]
  BY <1>1 DEF MailInv, MailRows
<1> QED
  BY <1>2, <1>4, <1>5, <1>6, <1>7, ReaderMoves

LEMMA SaveStep == ASSUME MailInv, NEW f \in Readers, NEW m \in Mails, SaveMail(f, m) PROVE MailInv'
<1> USE DEF MailInv
<1>0. /\ reader[f].pc = "list" /\ reader[f].box \in Boxes
      /\ UNCHANGED <<waiting, triager, triaged, told, charged, dropped, repaid>>
      /\ reader[f] \in ReadRow /\ reader[f].todo \subseteq Mails
  BY DEF SaveMail, ReaderOK, MailRows, ReadRow
<1>1. CASE UNCHANGED saved /\ reader' = [reader EXCEPT ![f].todo = reader[f].todo \ {m}]
  <2> DEFINE next == [reader[f] EXCEPT !.todo = reader[f].todo \ {m}]
  <2>0. next \in ReadRow /\ next.pc = "list" /\ next.box = reader[f].box
    BY <1>0 DEF ReadRow
  <2>3. reader' = [reader EXCEPT ![f] = next]
    BY <1>1
  <2> HIDE DEF next
  <2>1. reader'[f] = next /\ \A g \in Readers \ {f} : reader'[g] = reader[g]
    BY <2>3 DEF MailRows
  <2>2. MailRows'
    BY <1>0, <1>1, <2>0, <2>3 DEF MailRows, RowIds
  <2> QED
    BY <1>0, <1>1, <2>0, <2>1, <2>2, ReaderMoves
<1>2. CASE /\ IsNew(m) /\ Len(saved) < Cardinality(RowIds)
           /\ saved' = Append(saved, [box |-> reader[f].box, mail |-> m])
           /\ reader' = [reader EXCEPT ![f].pc = "enqueue", ![f].mail = m, ![f].todo = reader[f].todo \ {m}]
  <2> DEFINE row == [box |-> reader[f].box, mail |-> m]
             next == [reader[f] EXCEPT !.pc = "enqueue", !.mail = m, !.todo = reader[f].todo \ {m}]
  <2>n. PICK n \in Nat : n = Len(saved) + 1
    BY RowNumbers
  <2>0. row \in [box : Boxes, mail : Mails] /\ row.mail = m
    BY <1>0
  <2> HIDE DEF row
  <2>1. n \in RowIds /\ n \notin DOMAIN saved
    BY <1>2, <2>n, RowNumbers DEF RowIds
  <2>2. /\ saved' \in Seq([box : Boxes, mail : Mails]) /\ Len(saved') = n /\ DOMAIN saved' = DOMAIN saved \cup {n}
        /\ saved'[n] = row /\ \A i \in DOMAIN saved : saved'[i] = saved[i]
    BY <1>2, <2>0, <2>n, RowNumbers DEF MailRows, row
  <2>a. next \in ReadRow /\ next.pc = "enqueue" /\ next.mail = m /\ next.box = reader[f].box
    BY <1>0 DEF ReadRow
  <2>b. reader' = [reader EXCEPT ![f] = next]
    BY <1>2
  <2> HIDE DEF next
  <2>3. /\ reader'[f].pc = "enqueue" /\ reader'[f].mail = m /\ reader'[f].box = reader[f].box
        /\ \A g \in Readers \ {f} : reader'[g] = reader[g]
        /\ reader' \in [Readers -> ReadRow]
    BY <2>a, <2>b DEF MailRows
  <2>4. MailRows'
    <3>2. Len(saved') <= Cardinality(Sent)
      BY <1>2, <2>n, <2>2, RowNumbers
    <3> QED
      BY <1>0, <2>2, <2>3, <3>2 DEF MailRows, RowIds
  <2>5. \A i \in DOMAIN saved : saved[i].mail # m
    BY <1>2 DEF IsNew
  <2>6. OneRow'
    BY <2>0, <2>2, <2>5 DEF OneRow
  <2>7. /\ \A g \in Readers \ {f} : \A i \in DOMAIN saved : Has(g, i)' <=> Has(g, i)
        /\ \A i \in DOMAIN saved : ~Has(f, i)'
        /\ Has(f, n)'
    BY <2>0, <2>2, <2>3, <2>5 DEF Has
  <2>8. \A g \in Readers \ {f} : reader[g].pc = "enqueue" => reader[g].mail # m
    BY <2>5 DEF ReaderOK, Has
  <2>9. \A g \in Readers \ {f} : ~Has(g, n)'
    BY <2>0, <2>2, <2>3, <2>8 DEF Has
  <2>10. triaged[n] = 0 /\ charged[n] = 0 /\ (\A w \in waiting : w.row # n) /\ \A t \in Triagers : Busy(t) => triager[t].row # n
    BY <2>1 DEF PayOK, QueueOK
  <2>11. ReaderOK(f)'
    BY <1>0, <2>2, <2>3, <2>7, <2>8, <2>10 DEF ReaderOK, Busy
  <2>12. ASSUME NEW g \in Readers \ {f} PROVE ReaderOK(g)'
    BY <1>0, <2>2, <2>3, <2>7, <2>8, <2>9 DEF ReaderOK, Busy
  <2>13. QueueOK'
    BY <1>0, <2>2 DEF QueueOK, Busy
  <2>14. PayOK'
    BY <1>0, <2>2 DEF PayOK, Paying
  <2>15. ASSUME NEW i \in DOMAIN saved PROVE i \in dropped' \/ (triaged'[i] = 1 /\ told'[i] = 1) \/ OnItsWay(i)'
    <3>1. ~Has(f, i)
      BY <1>0 DEF Has
    <3> QED
      BY <1>0, <2>7, <3>1 DEF NoneLeft, OnItsWay, Busy
  <2>16. OnItsWay(n)'
    BY <2>7 DEF OnItsWay
  <2>17. NoneLeft'
    BY <2>2, <2>15, <2>16 DEF NoneLeft
  <2> QED
    BY <2>4, <2>6, <2>11, <2>12, <2>13, <2>14, <2>17
<1> QED
  BY <1>1, <1>2 DEF SaveMail

LEMMA EnqueueStep == ASSUME MailInv, NEW f \in Readers, EnqueueTriage(f) PROVE MailInv'
<1> USE DEF MailInv
<1> DEFINE n == RowInHand(f)
           new == [row |-> n, attempt |-> 1]
<1>0. reader[f].pc = "enqueue" /\ reader[f].box \in Boxes
      /\ UNCHANGED <<saved, triager, triaged, told, charged, repaid>>
  BY DEF EnqueueTriage, ReaderOK
<1>1. n \in DOMAIN saved /\ Has(f, n) /\ \A i \in DOMAIN saved : Has(f, i) => i = n
  BY <1>0, InHand
<1>2. n \in RowIds
  BY <1>1, RowNumbers
<1> DEFINE next == [reader[f] EXCEPT !.pc = "list", !.mail = NoMail]
<1>3. reader' = [reader EXCEPT ![f] = next] /\ next \in ReadRow /\ next.pc = "list" /\ next.box = reader[f].box
  BY DEF EnqueueTriage, MailRows, ReadRow
<1> HIDE DEF next
<1>4. /\ reader'[f].pc = "list" /\ reader'[f].box = reader[f].box
      /\ \A g \in Readers \ {f} : reader'[g] = reader[g]
      /\ reader' \in [Readers -> ReadRow]
  BY <1>3 DEF MailRows
<1> HIDE DEF n
<1>5. CASE dropped' = dropped \cup {n} /\ UNCHANGED waiting
  <2>1. MailRows'
    BY <1>0, <1>2, <1>4, <1>5 DEF MailRows, RowIds
  <2> QED
    BY <1>0, <1>4, <1>5, <2>1, ReaderMoves DEF n
<1>6. CASE waiting' = waiting \cup {new} /\ UNCHANGED dropped
  <2>0. new \in [row : RowIds, attempt : 1 .. MaxAttempts] /\ new.row = n
    BY <1>2, MailAssumption
  <2> HIDE DEF new
  <2>1. MailRows'
    BY <1>0, <1>4, <1>6, <2>0 DEF MailRows, RowIds
  <2>2. triaged[n] = 0 /\ (\A w \in waiting : w.row # n) /\ \A t \in Triagers : Busy(t) => triager[t].row # n
    BY <1>0, <1>1 DEF ReaderOK
  <2>3. \A g \in Readers \ {f} : \A i : Has(g, i)' <=> Has(g, i)
    BY <1>0, <1>4 DEF Has
  <2>4. \A g \in Readers \ {f} : ~Has(g, n)
    BY <1>0, <1>1 DEF ReaderOK, Has
  <2>5. ReaderOK(f)'
    BY <1>0, <1>4 DEF ReaderOK
  <2>6. ASSUME NEW g \in Readers \ {f} PROVE ReaderOK(g)'
    BY <1>0, <1>4, <1>6, <2>0, <2>3, <2>4 DEF ReaderOK, Busy
  <2>7. QueueOK'
    BY <1>0, <1>1, <1>6, <2>0, <2>2 DEF QueueOK, Busy
  <2>8. PayOK' /\ OneRow'
    BY <1>0 DEF PayOK, Paying, OneRow
  <2>9. ASSUME NEW i \in DOMAIN saved PROVE i \in dropped' \/ (triaged'[i] = 1 /\ told'[i] = 1) \/ OnItsWay(i)'
    <3>1. CASE i = n
      BY <1>6, <2>0, <3>1 DEF OnItsWay
    <3>2. CASE i # n
      BY <1>0, <1>1, <1>6, <2>3, <3>2 DEF NoneLeft, OnItsWay, Busy
    <3> QED
      BY <3>1, <3>2
  <2>10. NoneLeft'
    BY <1>0, <2>9 DEF NoneLeft
  <2> QED
    BY <2>1, <2>5, <2>6, <2>7, <2>8, <2>10
<1> QED
  BY <1>5, <1>6 DEF EnqueueTriage, n, new

\* A triager and the row it takes, or has, go on together: what is asked of this row alone is enough.
LEMMA TriagerMoves ==
    ASSUME MailInv, MailRows', NEW t \in Triagers, NEW r \in DOMAIN saved, UNCHANGED <<saved, reader>>,
           \A f \in Readers : ~Has(f, r), \A u \in Triagers \ {t} : triager'[u] = triager[u],
           \A u \in Triagers \ {t} : Busy(u) => triager[u].row # r,
           Busy(t) => triager[t].row = r, Busy(t)' => triager'[t].row = r,
           \A i \in RowIds \ {r} : triaged'[i] = triaged[i] /\ told'[i] = told[i] /\ charged'[i] = charged[i],
           \A w : w.row # r => (w \in waiting' <=> w \in waiting),
           repaid <= repaid', dropped \subseteq dropped',
           \A w \in waiting' : w.row = r =>
                ~Busy(t)' /\ (triaged'[r] > 0 => r \in dropped') /\ \A v \in waiting' : v.row = r => v = w,
           Busy(t)' => triager'[t].attempt > 0 /\ triaged'[r] = (IF triager'[t].pc = "emit" THEN 1 ELSE 0)
                       /\ (triager'[t].pc = "emit" => told'[r] = 0),
           triaged'[r] <= 1 /\ told'[r] <= triaged'[r],
           charged'[r] <= repaid' + (IF triaged'[r] > 0 \/ triager'[t].pc = "create" THEN 1 ELSE 0),
           r \in dropped' \/ (triaged'[r] = 1 /\ told'[r] = 1) \/ Busy(t)' \/ \E w \in waiting' : w.row = r
    PROVE  MailInv'
<1> USE DEF MailInv
<1>0. DOMAIN saved' = DOMAIN saved /\ r \in RowIds /\ DOMAIN saved \subseteq RowIds
  BY RowNumbers
<1>1. \A f \in Readers : \A i : Has(f, i)' <=> Has(f, i)
  BY DEF Has
<1>2. OneRow'
  BY DEF OneRow
<1>3. ASSUME NEW f \in Readers PROVE ReaderOK(f)'
  <2>1. ASSUME NEW i \in DOMAIN saved, reader[f].pc = "enqueue", Has(f, i)
        PROVE  /\ triaged'[i] = 0 /\ charged'[i] = 0
               /\ \A w \in waiting' : w.row # i
               /\ \A u \in Triagers : Busy(u)' => triager'[u].row # i
    <3>1. i # r /\ i \in RowIds
      BY <1>0, <2>1
    <3>2. triaged[i] = 0 /\ charged[i] = 0 /\ (\A w \in waiting : w.row # i) /\ \A u \in Triagers : Busy(u) => triager[u].row # i
      BY <2>1 DEF ReaderOK
    <3>3. triaged'[i] = 0 /\ charged'[i] = 0
      BY <3>1, <3>2
    <3>4. \A w \in waiting' : w.row # i
      BY <3>1, <3>2
    <3>5. \A u \in Triagers : Busy(u)' => triager'[u].row # i
      BY <3>1, <3>2 DEF Busy
    <3> QED
      BY <3>3, <3>4, <3>5
  <2>2. reader[f].pc = "enqueue" => (\E i \in DOMAIN saved' : Has(f, i)')
    BY <1>1 DEF ReaderOK
  <2> QED
    BY <1>1, <2>1, <2>2 DEF ReaderOK
<1>4. QueueOK'
  <2>1. ASSUME NEW w \in waiting'
        PROVE  /\ w.row \in DOMAIN saved' /\ (triaged'[w.row] > 0 => w.row \in dropped')
               /\ \A v \in waiting' : v.row = w.row => v = w
               /\ \A u \in Triagers : Busy(u)' => triager'[u].row # w.row
    <3>1. CASE w.row = r
      BY <1>0, <2>1, <3>1 DEF Busy
    <3>2. CASE w.row # r
      <4>1. w \in waiting /\ w.row \in RowIds
        BY <2>1, <3>2 DEF MailRows
      <4> QED
        BY <1>0, <2>1, <3>2, <4>1 DEF QueueOK, Busy
    <3> QED
      BY <3>1, <3>2
  <2>2. ASSUME NEW u \in Triagers, Busy(u)'
        PROVE  /\ triager'[u].row \in DOMAIN saved' /\ triager'[u].attempt > 0
               /\ triaged'[triager'[u].row] = IF triager'[u].pc = "emit" THEN 1 ELSE 0
               /\ triager'[u].pc = "emit" => told'[triager'[u].row] = 0
               /\ \A v \in Triagers \ {u} : Busy(v)' => triager'[v].row # triager'[u].row
    <3>1. CASE u = t
      BY <1>0, <2>2, <3>1 DEF Busy
    <3>2. CASE u # t
      <4>1. triager'[u] = triager[u] /\ Busy(u) /\ triager[u].row # r /\ triager[u].row \in DOMAIN saved
        BY <2>2, <3>2 DEF Busy, QueueOK
      <4>2. triager[u].row \in RowIds \ {r}
        BY <1>0, <4>1
      <4>3. \A v \in Triagers \ {u} : Busy(v)' => triager'[v].row # triager'[u].row
        BY <4>1 DEF Busy, QueueOK
      <4> QED
        BY <1>0, <4>1, <4>2, <4>3 DEF QueueOK
    <3> QED
      BY <3>1, <3>2
  <2> QED
    BY <2>1, <2>2 DEF QueueOK
<1>5. PayOK'
  <2>1. ASSUME NEW i \in RowIds
        PROVE  /\ triaged'[i] <= 1 /\ told'[i] <= triaged'[i]
               /\ charged'[i] <= repaid' + (IF Paying(i)' THEN 1 ELSE 0)
               /\ i \notin DOMAIN saved' => triaged'[i] = 0 /\ charged'[i] = 0
    <3>1. CASE i = r
      <4>1. triaged'[r] > 0 \/ triager'[t].pc = "create" => Paying(r)'
        BY DEF Paying, Busy
      <4>2. charged'[r] \in Nat /\ repaid' \in Nat
        BY <1>0 DEF MailRows
      <4> QED
        BY <1>0, <3>1, <4>1, <4>2
    <3>2. CASE i # r
      <4>1. triaged'[i] = triaged[i] /\ told'[i] = told[i] /\ charged'[i] = charged[i]
        BY <2>1, <3>2
      <4>2. Paying(i) => Paying(i)'
        BY <3>2, <4>1 DEF Paying, Busy
      <4>3. charged[i] \in Nat /\ repaid \in Nat /\ repaid' \in Nat
        BY <2>1 DEF MailRows
      <4> QED
        BY <1>0, <4>1, <4>2, <4>3 DEF PayOK
    <3> QED
      BY <3>1, <3>2
  <2> QED
    BY <2>1 DEF PayOK, RowIds
<1>6. ASSUME NEW i \in DOMAIN saved PROVE i \in dropped' \/ (triaged'[i] = 1 /\ told'[i] = 1) \/ OnItsWay(i)'
  <2>1. CASE i = r
    BY <2>1 DEF OnItsWay
  <2>2. CASE i # r
    BY <1>0, <1>1, <2>2 DEF NoneLeft, OnItsWay, Busy
  <2> QED
    BY <2>1, <2>2
<1> QED
  BY <1>0, <1>2, <1>3, <1>4, <1>5, <1>6 DEF NoneLeft

\* What is known of the row of a triager at work.
LEMMA AtWork ==
    ASSUME MailInv, NEW t \in Triagers, Busy(t), NEW r, r = triager[t].row
    PROVE  /\ r \in DOMAIN saved /\ r \in RowIds /\ (\A f \in Readers : ~Has(f, r))
           /\ \A u \in Triagers \ {t} : Busy(u) => triager[u].row # r
           /\ \A w \in waiting : w.row # r
           /\ triager[t].attempt \in 1 .. MaxAttempts /\ triaged[r] = IF triager[t].pc = "emit" THEN 1 ELSE 0
           /\ triager[t].pc = "emit" => told[r] = 0
           /\ triaged[r] \in Nat /\ told[r] \in Nat /\ charged[r] \in Nat /\ repaid \in Nat /\ told[r] <= triaged[r]
           /\ charged[r] <= repaid + (IF triaged[r] > 0 \/ triager[t].pc = "create" THEN 1 ELSE 0)
<1> USE DEF MailInv
<1>1. r \in DOMAIN saved /\ triager[t].attempt > 0 /\ triaged[r] = (IF triager[t].pc = "emit" THEN 1 ELSE 0)
      /\ (triager[t].pc = "emit" => told[r] = 0) /\ \A u \in Triagers \ {t} : Busy(u) => triager[u].row # r
  BY DEF QueueOK
<1>2. r \in RowIds
  BY <1>1, RowNumbers
<1>3. \A w \in waiting : w.row # r
  BY DEF QueueOK
<1>4. \A f \in Readers : ~Has(f, r)
  BY <1>1 DEF ReaderOK, Has
<1>5. triager[t].attempt \in 1 .. MaxAttempts
  BY <1>1, MailAssumption DEF MailRows, TriageRow
<1>6. triaged[r] \in Nat /\ told[r] \in Nat /\ charged[r] \in Nat /\ repaid \in Nat
  BY <1>2 DEF MailRows
<1>7. Paying(r) => triaged[r] > 0 \/ triager[t].pc = "create"
  BY <1>1 DEF Paying, Busy
<1>8. told[r] <= triaged[r] /\ charged[r] <= repaid + (IF triaged[r] > 0 \/ triager[t].pc = "create" THEN 1 ELSE 0)
  BY <1>2, <1>6, <1>7 DEF PayOK
<1> QED
  BY <1>1, <1>2, <1>3, <1>4, <1>5, <1>6, <1>8

LEMMA TakeStep == ASSUME MailInv, NEW t \in Triagers, NEW w \in waiting, TakeMail(t, w) PROVE MailInv'
<1> DEFINE r == w.row
           next == [pc |-> "classify", row |-> r, attempt |-> w.attempt]
<1>0. /\ triager[t].pc = "idle" /\ waiting' = waiting \ {w} /\ dropped \subseteq dropped'
      /\ UNCHANGED <<saved, reader, triaged, told, charged, repaid>>
  BY DEF TakeMail
<1>1. r \in RowIds /\ w.attempt \in 1 .. MaxAttempts /\ triaged[r] \in Nat /\ told[r] \in Nat /\ charged[r] \in Nat /\ repaid \in Nat
  BY DEF MailInv, MailRows
<1>2. /\ r \in DOMAIN saved /\ (triaged[r] > 0 => r \in dropped) /\ (\A v \in waiting' : v.row # r)
      /\ \A u \in Triagers : Busy(u) => triager[u].row # r
  BY <1>0 DEF MailInv, QueueOK
<1>3. \A f \in Readers : ~Has(f, r)
  BY <1>2 DEF MailInv, ReaderOK, Has
<1>4. triaged[r] <= 1 /\ told[r] <= triaged[r] /\ charged[r] <= repaid + (IF triaged[r] > 0 THEN 1 ELSE 0)
  BY <1>1, <1>2 DEF MailInv, PayOK, Paying, Busy
<1>5. next \in TriageRow /\ next.pc = "classify" /\ next.row = r /\ next.attempt = w.attempt
  BY <1>1, MailAssumption DEF TriageRow, RowIds
<1>6. \A v : v.row # r => (v \in waiting' <=> v \in waiting)
  BY <1>0
<1> HIDE DEF r, next
<1>7. triager' = triager \/ triager' = [triager EXCEPT ![t] = next]
  BY DEF TakeMail, r, next
<1>8. /\ triager' \in [Triagers -> TriageRow] /\ (\A u \in Triagers \ {t} : triager'[u] = triager[u])
      /\ triager'[t] = next \/ (triager' = triager /\ ~Busy(t)')
  BY <1>0, <1>5, <1>7 DEF MailInv, MailRows, Busy
<1>9. dropped' \subseteq RowIds
  BY <1>1 DEF TakeMail, r, MailInv, MailRows
<1>10. MailRows'
  BY <1>0, <1>8, <1>9 DEF MailInv, MailRows, RowIds
<1>11. triager'[t] = next => triaged[r] = 0
  BY <1>0, <1>1, <1>5 DEF TakeMail, r, MailInv, MailRows
<1>12. r \in dropped' \/ triager'[t] = next
  BY <1>0, <1>1, <1>2, <1>7, <1>8 DEF TakeMail, r, next, MailInv, MailRows
<1>13. Busy(t)' => triager'[t] = next
  BY <1>8
<1>14. triager'[t] = next => Busy(t)'
  BY <1>5 DEF Busy
<1>15. ~Busy(t)
  BY <1>0 DEF Busy
<1> QED
  BY <1>0, <1>1, <1>2, <1>3, <1>4, <1>5, <1>6, <1>8, <1>10, <1>11, <1>12, <1>13, <1>14, <1>15, TriagerMoves

LEMMA ClassifyStep == ASSUME MailInv, NEW t \in Triagers, Classify(t) PROVE MailInv'
<1> DEFINE r == triager[t].row
           next == [triager[t] EXCEPT !.pc = "create"]
<1>0. /\ triager[t].pc = "classify" /\ Busy(t) /\ triager' = [triager EXCEPT ![t] = next]
      /\ UNCHANGED <<saved, reader, waiting, triaged, told, dropped, repaid>>
      /\ charged' = charged \/ charged' = [charged EXCEPT ![r] = charged[r] + 1]
  BY DEF Classify, Busy
<1>1. next \in TriageRow /\ next.pc = "create" /\ next.row = r /\ next.attempt = triager[t].attempt
  BY <1>0 DEF MailInv, MailRows, TriageRow
<1> HIDE DEF r, next
<1>2. /\ r \in DOMAIN saved /\ r \in RowIds /\ (\A f \in Readers : ~Has(f, r))
      /\ (\A u \in Triagers \ {t} : Busy(u) => triager[u].row # r) /\ (\A w \in waiting : w.row # r)
      /\ triager[t].attempt \in 1 .. MaxAttempts /\ triaged[r] = 0
      /\ told[r] \in Nat /\ charged[r] \in Nat /\ repaid \in Nat /\ told[r] <= triaged[r] /\ charged[r] <= repaid
  BY <1>0, AtWork DEF r
<1>3. triager' \in [Triagers -> TriageRow] /\ triager'[t] = next /\ \A u \in Triagers \ {t} : triager'[u] = triager[u]
  BY <1>0, <1>1 DEF MailInv, MailRows
<1>4. charged' \in [RowIds -> Nat] /\ charged'[r] <= repaid + 1 /\ \A i \in RowIds \ {r} : charged'[i] = charged[i]
  <2>1. charged \in [RowIds -> Nat]
    BY DEF MailInv, MailRows
  <2>2. CASE charged' = charged
    BY <1>2, <2>1, <2>2
  <2>3. CASE charged' = [charged EXCEPT ![r] = charged[r] + 1]
    BY <1>2, <2>1, <2>3
  <2> QED
    BY <1>0, <2>2, <2>3
<1>5. MailRows'
  BY <1>0, <1>3, <1>4 DEF MailInv, MailRows, RowIds
<1>6. Busy(t)' /\ triager'[t].row = r /\ triager[t].row = r
  BY <1>1, <1>3 DEF Busy, r
<1> QED
  BY <1>0, <1>1, <1>2, <1>3, <1>4, <1>5, <1>6, TriagerMoves

LEMMA CreateStep == ASSUME MailInv, NEW t \in Triagers, CreateTriage(t) PROVE MailInv'
<1> DEFINE r == triager[t].row
           next == [triager[t] EXCEPT !.pc = "emit"]
<1>0. triager[t].pc = "create" /\ Busy(t)
  BY DEF CreateTriage, Busy
<1>1. next \in TriageRow /\ next.pc = "emit" /\ next.row = r /\ next.attempt = triager[t].attempt
  BY <1>0 DEF MailInv, MailRows, TriageRow
<1>2. /\ r \in DOMAIN saved /\ r \in RowIds /\ (\A f \in Readers : ~Has(f, r))
      /\ (\A u \in Triagers \ {t} : Busy(u) => triager[u].row # r) /\ (\A w \in waiting : w.row # r)
      /\ triager[t].attempt \in 1 .. MaxAttempts /\ triaged[r] = 0
      /\ told[r] \in Nat /\ charged[r] \in Nat /\ repaid \in Nat /\ told[r] <= triaged[r] /\ charged[r] <= repaid + 1
  BY <1>0, AtWork
<1>3. /\ triaged' = [triaged EXCEPT ![r] = 1] /\ triager' = [triager EXCEPT ![t] = next]
      /\ UNCHANGED <<saved, reader, waiting, told, charged, dropped, repaid>>
  BY <1>2 DEF CreateTriage
<1> HIDE DEF r, next
<1>4. triager' \in [Triagers -> TriageRow] /\ triager'[t] = next /\ \A u \in Triagers \ {t} : triager'[u] = triager[u]
  BY <1>1, <1>3 DEF MailInv, MailRows
<1>5. triaged' \in [RowIds -> Nat] /\ triaged'[r] = 1 /\ \A i \in RowIds \ {r} : triaged'[i] = triaged[i]
  BY <1>2, <1>3 DEF MailInv, MailRows
<1>6. MailRows'
  BY <1>3, <1>4, <1>5 DEF MailInv, MailRows, RowIds
<1>7. Busy(t)' /\ triager'[t].row = r /\ triager[t].row = r
  BY <1>1, <1>4 DEF Busy, r
<1>8. told[r] = 0
  BY <1>2
<1> QED
  BY <1>1, <1>2, <1>3, <1>4, <1>5, <1>6, <1>7, <1>8, TriagerMoves

LEMMA TellStep == ASSUME MailInv, NEW t \in Triagers, TellRules(t) PROVE MailInv'
<1> DEFINE r == triager[t].row
<1>0. /\ triager[t].pc = "emit" /\ Busy(t) /\ triager' = [triager EXCEPT ![t] = NotTriaging]
      /\ UNCHANGED <<saved, reader, waiting, triaged, charged, repaid>>
      /\ \/ told' = [told EXCEPT ![r] = told[r] + 1] /\ dropped' = dropped
         \/ dropped' = dropped \cup {r} /\ told' = told
  BY DEF TellRules, Busy
<1>1. NotTriaging \in TriageRow /\ NotTriaging.pc = "idle"
  BY MailAssumption DEF NotTriaging, TriageRow
<1> HIDE DEF r
<1>2. /\ r \in DOMAIN saved /\ r \in RowIds /\ (\A f \in Readers : ~Has(f, r))
      /\ (\A u \in Triagers \ {t} : Busy(u) => triager[u].row # r) /\ (\A w \in waiting : w.row # r)
      /\ triaged[r] = 1 /\ told[r] = 0 /\ charged[r] \in Nat /\ repaid \in Nat /\ charged[r] <= repaid + 1
  BY <1>0, AtWork DEF r
<1>4. triager' \in [Triagers -> TriageRow] /\ triager'[t] = NotTriaging /\ \A u \in Triagers \ {t} : triager'[u] = triager[u]
  BY <1>0, <1>1 DEF MailInv, MailRows
<1>5. /\ told' \in [RowIds -> Nat] /\ (\A i \in RowIds \ {r} : told'[i] = told[i]) /\ told'[r] <= 1
      /\ r \in dropped' \/ told'[r] = 1
      /\ dropped \subseteq dropped' /\ dropped' \subseteq RowIds
  BY <1>0, <1>2 DEF MailInv, MailRows
<1>6. MailRows'
  BY <1>0, <1>4, <1>5 DEF MailInv, MailRows, RowIds
<1>7. ~Busy(t)' /\ triager[t].row = r
  BY <1>1, <1>4 DEF Busy, r
<1> QED
  BY <1>0, <1>2, <1>4, <1>5, <1>6, <1>7, TriagerMoves

LEMMA DieStep == ASSUME MailInv, NEW t \in Triagers, TriagerDies(t) PROVE MailInv'
<1> DEFINE r == triager[t].row
           k == triager[t].attempt
           new == [row |-> r, attempt |-> k + 1]
<1>0. /\ Busy(t) /\ triager' = [triager EXCEPT ![t] = NotTriaging]
      /\ UNCHANGED <<saved, reader, triaged, told, charged>>
      /\ dropped' = (IF triager[t].pc = "emit" \/ k = MaxAttempts THEN dropped \cup {r} ELSE dropped)
      /\ repaid' = (IF triager[t].pc = "create" THEN repaid + 1 ELSE repaid)
      /\ waiting' = (IF k < MaxAttempts THEN waiting \cup {new} ELSE waiting)
  BY DEF TriagerDies, Busy, ComesAgain
<1>1. NotTriaging \in TriageRow /\ NotTriaging.pc = "idle"
  BY MailAssumption DEF NotTriaging, TriageRow
<1> HIDE DEF r, k
<1>2. /\ r \in DOMAIN saved /\ r \in RowIds /\ (\A f \in Readers : ~Has(f, r))
      /\ (\A u \in Triagers \ {t} : Busy(u) => triager[u].row # r) /\ (\A w \in waiting : w.row # r)
      /\ k \in 1 .. MaxAttempts /\ triaged[r] = IF triager[t].pc = "emit" THEN 1 ELSE 0
      /\ told[r] \in Nat /\ charged[r] \in Nat /\ repaid \in Nat /\ told[r] <= triaged[r]
      /\ charged[r] <= repaid + (IF triaged[r] > 0 \/ triager[t].pc = "create" THEN 1 ELSE 0)
  BY <1>0, AtWork DEF r, k
<1>3. new.row = r /\ (k < MaxAttempts => new \in [row : RowIds, attempt : 1 .. MaxAttempts])
  BY <1>2, MailAssumption
<1> HIDE DEF new
<1>4. triager' \in [Triagers -> TriageRow] /\ triager'[t] = NotTriaging /\ \A u \in Triagers \ {t} : triager'[u] = triager[u]
  BY <1>0, <1>1 DEF MailInv, MailRows
<1>5. dropped \subseteq dropped' /\ dropped' \subseteq RowIds /\ repaid' \in Nat /\ repaid <= repaid'
  BY <1>0, <1>2 DEF MailInv, MailRows
<1>6. waiting' \subseteq [row : RowIds, attempt : 1 .. MaxAttempts]
  BY <1>0, <1>3 DEF MailInv, MailRows
<1>7. MailRows'
  BY <1>0, <1>4, <1>5, <1>6 DEF MailInv, MailRows, RowIds
<1>8. ~Busy(t)' /\ triager[t].row = r
  BY <1>1, <1>4 DEF Busy, r
<1>9. \A w : w.row # r => (w \in waiting' <=> w \in waiting)
  BY <1>0, <1>3
<1>10. \A w \in waiting' : w.row = r => w = new
  BY <1>0, <1>2
<1>11. r \in dropped' \/ \E w \in waiting' : w.row = r
  BY <1>0, <1>2, <1>3, MailAssumption
<1>12. triaged'[r] > 0 => r \in dropped'
  BY <1>0, <1>2
<1>13. charged'[r] <= repaid' + (IF triaged'[r] > 0 THEN 1 ELSE 0) /\ triaged'[r] <= 1
  BY <1>0, <1>2
<1> QED
  BY <1>0, <1>2, <1>4, <1>5, <1>7, <1>8, <1>9, <1>10, <1>11, <1>12, <1>13, TriagerMoves

LEMMA MailInvHolds == MailSpec => []MailInv
<1>1. MailInit => MailInv
  <2> SUFFICES ASSUME MailInit PROVE MailInv
    OBVIOUS
  <2>1. NotReading \in ReadRow /\ NotReading.pc = "idle" /\ NotTriaging \in TriageRow /\ NotTriaging.pc = "idle"
    BY MailAssumption DEF NotReading, NotTriaging, ReadRow, TriageRow
  <2>2. /\ saved = <<>> /\ waiting = {} /\ dropped = {} /\ repaid = 0
        /\ reader \in [Readers -> ReadRow] /\ (\A f \in Readers : reader[f].pc = "idle")
        /\ triager \in [Triagers -> TriageRow] /\ (\A t \in Triagers : triager[t].pc = "idle")
    BY <2>1 DEF MailInit
  <2>3. \A i \in RowIds : triaged[i] = 0 /\ told[i] = 0 /\ charged[i] = 0
    BY DEF MailInit
  <2>4. triaged \in [RowIds -> Nat] /\ told \in [RowIds -> Nat] /\ charged \in [RowIds -> Nat]
    BY DEF MailInit
  <2>5. Cardinality(Sent) \in Nat
    BY FS_CardinalityType, MailAssumption
  <2>6. MailRows
    BY <2>2, <2>4, <2>5 DEF MailRows
  <2>7. DOMAIN saved = {}
    BY <2>2
  <2>8. OneRow /\ NoneLeft /\ QueueOK /\ \A f \in Readers : ReaderOK(f)
    BY <2>2, <2>7 DEF OneRow, NoneLeft, QueueOK, ReaderOK, Busy
  <2>9. PayOK
    BY <2>2, <2>3 DEF PayOK
  <2> QED
    BY <2>6, <2>8, <2>9 DEF MailInv
<1>2. MailInv /\ [MailNext]_mailVars => MailInv'
  <2> SUFFICES ASSUME MailInv, [MailNext]_mailVars PROVE MailInv'
    OBVIOUS
  <2>1. CASE UNCHANGED <<saved, reader, waiting, triager, triaged, told, charged, dropped, repaid>>
    BY <2>1 DEF MailInv, MailRows, ReadRow, TriageRow, OneRow, ReaderOK, QueueOK, PayOK, NoneLeft, Busy, Has, Paying, OnItsWay, RowIds
  <2>2. CASE \E c \in Sent : Arrives(c) \/ PersonReads(c)
    BY <2>1, <2>2 DEF Arrives, PersonReads
  <2>3. CASE UNCHANGED mailVars
    BY <2>1, <2>3 DEF mailVars
  <2>4. ASSUME NEW f \in Readers,
               \/ \E b \in Boxes : Read(f, b)
               \/ \E m \in Mails : SaveMail(f, m)
               \/ EnqueueTriage(f) \/ EndRead(f) \/ ReaderDies(f)
        PROVE  MailInv'
    BY <2>4, ReadStep, SaveStep, EnqueueStep, EndStep
  <2>5. ASSUME NEW t \in Triagers,
               \/ \E w \in waiting : TakeMail(t, w)
               \/ Classify(t) \/ CreateTriage(t) \/ TellRules(t) \/ TriagerDies(t)
        PROVE  MailInv'
    BY <2>5, TakeStep, ClassifyStep, CreateStep, TellStep, DieStep
  <2> QED
    BY <2>2, <2>3, <2>4, <2>5 DEF MailNext
<1> QED
  BY <1>1, <1>2, PTL DEF MailSpec

\* One e-mail is one message saved, triaged, told to the rules and paid for once, unless a triage died
\* with its credit taken; and at rest nothing saved was left untold but what a death or the broker cut.
THEOREM MailsAreHandledOnce == MailSpec => []MailHandledOnce
<1>1. MailInv => MailHandledOnce
  <2> SUFFICES ASSUME MailInv PROVE MailHandledOnce
    OBVIOUS
  <2>1. ASSUME NEW i \in RowIds PROVE triaged[i] <= 1 /\ told[i] <= triaged[i] /\ charged[i] <= 1 + repaid
    <3>1. charged[i] \in Nat /\ repaid \in Nat
      BY <2>1 DEF MailInv, MailRows
    <3> QED
      BY <2>1, <3>1 DEF MailInv, PayOK
  <2>2. ASSUME Rests, NEW i \in DOMAIN saved PROVE i \in dropped \/ (triaged[i] = 1 /\ told[i] = 1)
    BY <2>2 DEF MailInv, NoneLeft, OnItsWay, Rests, Busy, Has
  <2> QED
    BY <2>1, <2>2 DEF MailInv, OneRow, MailHandledOnce
<1> QED
  BY <1>1, MailInvHolds, PTL

-----------------------------------------------------------------------------
(***************************************************************************)
(* The types of MCCredits: what the invariants above leave out, for each   *)
(* component, and then for the three of them together.                     *)
(***************************************************************************)
AskedRows == asked \in 0 .. MaxAsked /\ paid \in Nat /\ lost \in Nat

LEMMA FinishAdds == ASSUME Control, Ledger, AskedRows, NEW r \in Requests, Finish(r) PROVE AskedRows'
<1>0. BalanceRows /\ PlanFits /\ r \in Finishing
  BY DEF Ledger, Finish, Finishing
<1>1. req[r].amount \in Nat /\ fromPlan[r] \in Nat /\ fromPlan[r] <= req[r].amount
  BY <1>0, Amounts DEF PlanFits
<1>2. PICK n \in Nat : n = req[r].amount - fromPlan[r]
  BY <1>1
<1>3. PICK taken : taken = [l \in Lots |-> Taken(l, n)]
  OBVIOUS
<1>4. taken \in [Lots -> Nat]
  BY <1>0, <1>3, LotsGive DEF BalanceRows
<1>5. Total(taken) \in Nat
  BY <1>4, LotsAssumption, TotalNat
<1>6. /\ asked' = asked
      /\ \/ paid' = paid + req[r].amount /\ UNCHANGED lost
         \/ lost' = lost + Total(taken) /\ UNCHANGED paid
  BY <1>2, <1>3 DEF Finish
<1> QED
  BY <1>1, <1>5, <1>6 DEF AskedRows

LEMMA AskedStep == Control /\ Ledger /\ AskedRows /\ [Next]_vars => AskedRows'
<1> SUFFICES ASSUME Control, Ledger, AskedRows, [Next]_vars PROVE AskedRows'
  OBVIOUS
<1>1. CASE UNCHANGED <<asked, paid, lost>>
  BY <1>1 DEF AskedRows
<1>2. ASSUME NEW r \in Requests, Start(r) PROVE AskedRows'
  <2>1. PICK n \in Weights : asked + n <= MaxAsked /\ asked' = asked + n
    BY <1>2 DEF Start
  <2>2. UNCHANGED <<paid, lost>>
    BY <1>2 DEF Start, history
  <2> QED
    BY <2>1, <2>2, FlowsAssumption, BoundsAssumption DEF AskedRows
<1>3. ASSUME NEW r \in Requests, Finish(r) PROVE AskedRows'
  BY <1>3, FinishAdds
<1>4. ASSUME NEW r \in Requests, Deliver(r) \/ Enter(r) \/ LockAndDecide(r) PROVE AskedRows'
  BY <1>1, <1>4 DEF Deliver, Enter, LockAndDecide, history
<1>5. ASSUME NEW l \in Lots, Buy(l) PROVE AskedRows'
  BY <1>1, <1>5 DEF Buy, history
<1>6. CASE Subscribe \/ MonthTurns \/ UNCHANGED vars
  BY <1>1, <1>6 DEF Subscribe, MonthTurns, vars, history
<1> QED
  BY <1>2, <1>3, <1>4, <1>5, <1>6 DEF Next

LEMMA CreditsTyped == Spec => []TypeOK
<1>1. Init => AskedRows /\ Quotas
  BY PlanAssumption, BoundsAssumption DEF Init, AskedRows, Quotas, QuotaKept, Months
<1>2. Control /\ Ledger /\ Quotas /\ AskedRows => TypeOK
  BY DEF Control, Ledger, BalanceRows, Quotas, AskedRows, TypeOK
<1> QED
  BY <1>1, <1>2, LedgerInit, LedgerStep, ControlInit, ControlStep, QuotasStep, AskedStep, PTL DEF Spec

SwitchRows == cached \in {"none", "on", "off"} /\ thrower \in {"idle", "saved", "thrown"}

LEMMA CallsTyped == AiSpec => []AiTypeOK
<1>1. AiInit => SwitchRows
  BY DEF AiInit, SwitchRows
<1>2. SwitchRows /\ [AiNext]_aiVars => SwitchRows'
  BY DEF SwitchRows, AiNext, aiVars, Choose, GlobalCached, GlobalRead, GlobalFill, Check, Call, Record, Log, Again,
         OfficeChanges, ThrowSwitch, DropCache, CacheExpires, BreakerCloses
<1>3. AiInv /\ SwitchRows => AiTypeOK
  <2> SUFFICES ASSUME AiRows, SwitchRows PROVE AiTypeOK
    BY DEF AiInv
  <2>1. ASSUME NEW r \in AiRequests
        PROVE  /\ aiAsk[r].pc \in {"idle", "chosen", "fillOn", "fillOff", "checked", "trying", "succeeded", "failed",
                                   "logging", "ended"}
               /\ aiAsk[r].chain \in Seq(Providers) /\ aiAsk[r].answer \in Providers \cup {NoAnswer}
               /\ aiAsk[r].pc \notin {"idle", "ended"} => aiAsk[r].at \in DOMAIN aiAsk[r].chain
    <3>1. aiAsk[r] \in AskRow /\ (Live(aiAsk[r]) => aiAsk[r].at \in 1 .. Len(aiAsk[r].chain))
      BY <2>1 DEF AiRows
    <3>2. DOMAIN aiAsk[r].chain = 1 .. Len(aiAsk[r].chain)
      BY <3>1, LenProperties DEF AskRow
    <3> QED
      BY <3>1, <3>2 DEF AskRow, Live
  <2> QED
    BY <2>1 DEF AiRows, SwitchRows, AiTypeOK
<1> QED
  BY <1>1, <1>2, <1>3, AiInvHolds, PTL DEF AiSpec

InboxRows == inbox \in [Sent -> {"none", "unseen", "seen"}] /\ mishaps \in 0 .. MaxMishaps

LEMMA MailTyped == MailSpec => []MailTypeOK
<1>1. MailInit => InboxRows
  BY MailAssumption DEF MailInit, InboxRows
<1>2. InboxRows /\ [MailNext]_mailVars => InboxRows'
  <2> SUFFICES ASSUME InboxRows, [MailNext]_mailVars PROVE InboxRows'
    OBVIOUS
  <2>1. CASE UNCHANGED inbox /\ (UNCHANGED mishaps \/ Trouble)
    BY <2>1, MailAssumption DEF InboxRows, Trouble
  <2>2. ASSUME NEW c \in Sent, Arrives(c) \/ PersonReads(c) PROVE InboxRows'
    BY <2>2 DEF InboxRows, Arrives, PersonReads
  <2>3. ASSUME NEW f \in Readers,
               \/ \E b \in Boxes : Read(f, b)
               \/ \E m \in Mails : SaveMail(f, m)
               \/ EnqueueTriage(f) \/ EndRead(f) \/ ReaderDies(f)
        PROVE  InboxRows'
    BY <2>1, <2>3 DEF Read, SaveMail, EnqueueTriage, EndRead, ReaderDies
  <2>4. ASSUME NEW t \in Triagers,
               \/ \E w \in waiting : TakeMail(t, w)
               \/ Classify(t) \/ CreateTriage(t) \/ TellRules(t) \/ TriagerDies(t)
        PROVE  InboxRows'
    BY <2>1, <2>4 DEF TakeMail, Classify, CreateTriage, TellRules, TriagerDies
  <2>5. CASE UNCHANGED mailVars
    BY <2>1, <2>5 DEF mailVars
  <2> QED
    BY <2>2, <2>3, <2>4, <2>5 DEF MailNext
<1>3. MailInv /\ InboxRows => MailTypeOK
  BY RowNumbers DEF MailInv, MailRows, InboxRows, MailTypeOK
<1> QED
  BY <1>1, <1>2, <1>3, MailInvHolds, PTL DEF MailSpec

\* While one of the three moves the others rest, so each of them keeps its own specification.
LEMMA OneMovesAlone == CreditsSpec => Spec /\ AiSpec /\ MailSpec
<1>1. CreditsInit => Init /\ AiInit /\ MailInit
  BY DEF CreditsInit
<1>2. [CreditsNext]_<<moves, vars, aiVars, mailVars>> => [Next]_vars /\ [AiNext]_aiVars /\ [MailNext]_mailVars
  BY DEF CreditsNext
<1> QED
  BY <1>1, <1>2, PTL DEF CreditsSpec, Spec, AiSpec, MailSpec

\* Every variable of Credits, AICalls and EmailIntake keeps to its range: what a request has taken from
\* the plan or lost is never negative, a request that is served is at a provider of the chain it chose, and
\* no more rows are saved or queued than there are messages.
THEOREM CreditsTypesOK == CreditsSpec => []TypesOK
  BY OneMovesAlone, CreditsTyped, CallsTyped, MailTyped, PTL DEF TypesOK
=============================================================================
