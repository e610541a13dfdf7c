----------------------------- MODULE Sums_proofs -----------------------------
(***************************************************************************)
(* Induction over the naturals, and what follows by it about sums.         *)
(* The induction theorems of the library are about an operator; here they  *)
(* are about a set, which the provers can instantiate.                     *)
(***************************************************************************)
EXTENDS Sums, WellFoundedInduction, TLAPS

\* Induction, for a set of numbers.
LEMMA Induction ==
    ASSUME NEW S, 0 \in S, \A n \in Nat : n \in S => n + 1 \in S
    PROVE  Nat \subseteq S
<1> DEFINE T == Nat \ S
           Less == {p \in Nat \X Nat : p[1] < p[2]}
<1>1. IsWellFoundedOn(Less, Nat)
  BY NatLessThanWellFounded DEF OpToRel
<1> SUFFICES ASSUME T # {} PROVE FALSE
  OBVIOUS
<1>2. T \subseteq Nat
  OBVIOUS
<1> HIDE DEF T, Less
<1>3. PICK n \in T : \A k \in T : ~(<<k, n>> \in Less)
  BY <1>1, <1>2, WFMin
<1>4. n \in Nat /\ n \notin S /\ \A k \in Nat \ S : ~(k < n)
  BY <1>2, <1>3 DEF T, Less
<1>5. n # 0
  BY <1>4
<1>6. n - 1 \in Nat /\ n - 1 < n /\ n = (n - 1) + 1
  BY <1>4, <1>5
<1> QED BY <1>4, <1>6

\* g has the sums of the first 0 to k values of f.
Sums(f, g, k) == /\ g = [i \in 0..k |-> g[i]]
                 /\ g[0] = 0
                 /\ \A i \in 1..k : g[i] = g[i - 1] + f[i]

\* There are such sums, however many values.
LEMMA SumsExist ==
    ASSUME NEW f, NEW k \in Nat
    PROVE  \E g : Sums(f, g, k)
<1> DEFINE S == {n \in Nat : \E g : Sums(f, g, n)}
<1>1. 0 \in S
  <2> DEFINE g == [i \in 0..0 |-> 0]
  <2>1. Sums(f, g, 0)
    BY DEF Sums
  <2> QED BY <2>1
<1>2. ASSUME NEW n \in Nat, n \in S PROVE n + 1 \in S
  <2>1. PICK g : Sums(f, g, n)
    BY <1>2
  <2> DEFINE h == [i \in 0..(n + 1) |-> IF i = n + 1 THEN g[n] + f[n + 1] ELSE g[i]]
  <2>2. h[0] = 0
    BY <2>1 DEF Sums
  <2>3. ASSUME NEW i \in 1..(n + 1) PROVE h[i] = h[i - 1] + f[i]
    <3>1. CASE i = n + 1
      <4>1. h[i] = g[n] + f[n + 1] /\ h[i - 1] = g[n]
        BY <3>1
      <4> QED BY <3>1, <4>1
    <3>2. CASE i # n + 1
      <4>1. i \in 1..n /\ i \in 0..(n + 1) /\ i - 1 \in 0..(n + 1) /\ i - 1 # n + 1
        BY <2>3, <3>2
      <4>2. h[i] = g[i] /\ h[i - 1] = g[i - 1]
        BY <3>2, <4>1
      <4> QED BY <2>1, <4>1, <4>2 DEF Sums
    <3> QED BY <3>1, <3>2
  <2>4. h = [i \in 0..(n + 1) |-> h[i]]
    OBVIOUS
  <2> HIDE DEF h
  <2>5. Sums(f, h, n + 1)
    BY <2>2, <2>3, <2>4 DEF Sums
  <2> QED BY <2>5
<1> HIDE DEF S
<1>3. Nat \subseteq S
  BY <1>1, <1>2, Induction
<1> QED BY <1>3 DEF S

\* There is one of them only, as far as they go.
LEMMA SumsAgree ==
    ASSUME NEW f, NEW m \in Nat, NEW n \in Nat, NEW g, NEW h, Sums(f, g, m), Sums(f, h, n),
           NEW k \in Nat, k <= m, k <= n
    PROVE  g[k] = h[k]
<1> DEFINE S == {i \in Nat : i <= k => g[i] = h[i]}
<1>1. 0 \in S
  BY DEF Sums
<1>2. ASSUME NEW i \in Nat, i \in S PROVE i + 1 \in S
  <2> SUFFICES ASSUME i + 1 <= k PROVE g[i + 1] = h[i + 1]
    OBVIOUS
  <2>1. i + 1 \in 1..m /\ i + 1 \in 1..n /\ (i + 1) - 1 = i /\ i <= k
    OBVIOUS
  <2>2. g[i] = h[i]
    BY <1>2, <2>1
  <2>3. g[i + 1] = g[(i + 1) - 1] + f[i + 1] /\ h[i + 1] = h[(i + 1) - 1] + f[i + 1]
    BY <2>1 DEF Sums
  <2> QED BY <2>1, <2>2, <2>3
<1> HIDE DEF S
<1>3. Nat \subseteq S
  BY <1>1, <1>2, Induction
<1> QED BY <1>3 DEF S

\* A sum over nothing is 0, and over one more it is one more.
LEMMA TotalSteps ==
    ASSUME NEW f
    PROVE  Total(f, 0) = 0 /\ \A n \in Nat : Total(f, n + 1) = Total(f, n) + f[n + 1]
<1> DEFINE G(n) == CHOOSE g : Sums(f, g, n)
           t == [n \in Nat |-> G(n)[n]]
           u == CHOOSE upTo : upTo = [k \in Nat |-> IF k = 0 THEN 0 ELSE upTo[k - 1] + f[k]]
<1>1. \A n \in Nat : Sums(f, G(n), n)
  BY SumsExist
<1> HIDE DEF G
<1>2. t[0] = 0
  BY <1>1 DEF Sums
<1>3. ASSUME NEW k \in Nat, k # 0 PROVE t[k] = t[k - 1] + f[k]
  <2>1. k - 1 \in Nat /\ k - 1 <= k /\ k \in 1..k
    BY <1>3
  <2>2. Sums(f, G(k), k) /\ Sums(f, G(k - 1), k - 1)
    BY <1>1, <2>1
  <2>3. G(k)[k - 1] = G(k - 1)[k - 1]
    BY <2>1, <2>2, SumsAgree
  <2>4. G(k)[k] = G(k)[k - 1] + f[k]
    BY <2>1, <2>2 DEF Sums
  <2> QED BY <2>1, <2>3, <2>4
<1>4. t = [n \in Nat |-> t[n]]
  OBVIOUS
<1> HIDE DEF t
<1>5. t = [k \in Nat |-> IF k = 0 THEN 0 ELSE t[k - 1] + f[k]]
  BY <1>2, <1>3, <1>4
<1>6. u = [k \in Nat |-> IF k = 0 THEN 0 ELSE u[k - 1] + f[k]]
  BY <1>5
<1>7. \A n : Total(f, n) = u[n]
  BY DEF Total
<1> HIDE DEF u
<1>8. u[0] = 0
  BY <1>6
<1>9. ASSUME NEW n \in Nat PROVE u[n + 1] = u[n] + f[n + 1]
  <2>1. n + 1 \in Nat /\ n + 1 # 0 /\ (n + 1) - 1 = n
    OBVIOUS
  <2> QED BY <1>6, <2>1
<1> QED BY <1>7, <1>8, <1>9

\* Sums of integers are integers.
LEMMA TotalType ==
    ASSUME NEW n \in Nat, NEW f, \A i \in 1..n : f[i] \in Int
    PROVE  Total(f, n) \in Int
<1> DEFINE S == {k \in Nat : k <= n => Total(f, k) \in Int}
<1>1. 0 \in S
  BY TotalSteps
<1>2. ASSUME NEW k \in Nat, k \in S PROVE k + 1 \in S
  <2>1. k + 1 <= n => f[k + 1] \in Int /\ k <= n
    OBVIOUS
  <2> QED BY <1>2, <2>1, TotalSteps
<1> HIDE DEF S
<1>3. Nat \subseteq S
  BY <1>1, <1>2, Induction
<1> QED BY <1>3 DEF S

\* Sums of the same values are the same.
LEMMA TotalSame ==
    ASSUME NEW n \in Nat, NEW f, NEW g, \A i \in 1..n : g[i] = f[i]
    PROVE  Total(g, n) = Total(f, n)
<1> DEFINE S == {k \in Nat : k <= n => Total(g, k) = Total(f, k)}
<1>1. 0 \in S
  BY TotalSteps
<1>2. ASSUME NEW k \in Nat, k \in S PROVE k + 1 \in S
  <2>1. k + 1 <= n => g[k + 1] = f[k + 1] /\ k <= n
    OBVIOUS
  <2>2. /\ Total(g, k + 1) = Total(g, k) + g[k + 1]
        /\ Total(f, k + 1) = Total(f, k) + f[k + 1]
    BY TotalSteps
  <2> QED BY <1>2, <2>1, <2>2
<1> HIDE DEF S
<1>3. Nat \subseteq S
  BY <1>1, <1>2, Induction
<1> QED BY <1>3 DEF S

\* A sum of numbers that are not negative is not.
LEMMA TotalNat ==
    ASSUME NEW n \in Nat, NEW f, \A i \in 1..n : f[i] \in Nat
    PROVE  Total(f, n) \in Nat
<1> DEFINE S == {k \in Nat : k <= n => Total(f, k) \in Nat}
<1>1. 0 \in S
  BY TotalSteps
<1>2. ASSUME NEW k \in Nat, k \in S PROVE k + 1 \in S
  <2>1. k + 1 <= n => f[k + 1] \in Nat /\ k <= n
    OBVIOUS
  <2> QED BY <1>2, <2>1, TotalSteps
<1> HIDE DEF S
<1>3. Nat \subseteq S
  BY <1>1, <1>2, Induction
<1> QED BY <1>3 DEF S

\* A sum of zeros is zero.
LEMMA TotalZero ==
    ASSUME NEW n \in Nat, NEW f, \A i \in 1..n : f[i] = 0
    PROVE  Total(f, n) = 0
<1> DEFINE S == {k \in Nat : k <= n => Total(f, k) = 0}
<1>1. 0 \in S
  BY TotalSteps
<1>2. ASSUME NEW k \in Nat, k \in S PROVE k + 1 \in S
  <2>1. k + 1 <= n => f[k + 1] = 0 /\ k <= n
    OBVIOUS
  <2> QED BY <1>2, <2>1, TotalSteps
<1> HIDE DEF S
<1>3. Nat \subseteq S
  BY <1>1, <1>2, Induction
<1> QED BY <1>3 DEF S

\* One value more at the end is one summand more.
LEMMA TotalAppend ==
    ASSUME NEW n \in Nat, NEW f, NEW g, \A i \in 1..n : g[i] = f[i]
    PROVE  Total(g, n + 1) = Total(f, n) + g[n + 1]
  BY TotalSteps, TotalSame

\* A sum changes by as much as one of its values.
LEMMA TotalChange ==
    ASSUME NEW n \in Nat, NEW f, NEW g, NEW k \in 1..n,
           \A i \in 1..n : f[i] \in Int /\ g[i] \in Int,
           \A i \in 1..n : i # k => g[i] = f[i]
    PROVE  Total(g, n) = Total(f, n) + (g[k] - f[k])
<1> DEFINE S == {m \in Nat : m <= n => Total(g, m) = Total(f, m) + (IF k <= m THEN g[k] - f[k] ELSE 0)}
<1>1. 0 \in S
  BY TotalSteps
<1>2. ASSUME NEW m \in Nat, m \in S PROVE m + 1 \in S
  <2> SUFFICES ASSUME m + 1 <= n
               PROVE  Total(g, m + 1) = Total(f, m + 1) + (IF k <= m + 1 THEN g[k] - f[k] ELSE 0)
    OBVIOUS
  <2>1. m + 1 \in 1..n /\ m <= n /\ f[m + 1] \in Int /\ g[m + 1] \in Int /\ f[k] \in Int /\ g[k] \in Int
    OBVIOUS
  <2>2. Total(g, m) = Total(f, m) + (IF k <= m THEN g[k] - f[k] ELSE 0)
    BY <1>2, <2>1
  <2>3. /\ Total(g, m + 1) = Total(g, m) + g[m + 1]
        /\ Total(f, m + 1) = Total(f, m) + f[m + 1]
    BY TotalSteps
  <2>4. Total(f, m) \in Int /\ Total(g, m) \in Int
    <3>1. \A i \in 1..m : f[i] \in Int /\ g[i] \in Int
      BY <2>1
    <3> QED BY <3>1, TotalType
  <2>5. CASE k = m + 1
    <3>1. ~(k <= m) /\ k <= m + 1
      BY <2>5
    <3> QED BY <2>1, <2>2, <2>3, <2>4, <2>5, <3>1
  <2>6. CASE k # m + 1
    <3>1. g[m + 1] = f[m + 1] /\ (k <= m + 1 <=> k <= m)
      BY <2>1, <2>6
    <3> QED BY <2>1, <2>2, <2>3, <2>4, <3>1
  <2> QED BY <2>5, <2>6
<1> HIDE DEF S
<1>3. n \in S
  BY <1>1, <1>2, Induction
<1>4. k <= n
  OBVIOUS
<1> QED BY <1>3, <1>4 DEF S

\* A value in front of the others is added to their sum.
LEMMA TotalPrepend ==
    ASSUME NEW n \in Nat, NEW f, NEW g,
           \A i \in 1..n : f[i] \in Int, g[1] \in Int,
           \A i \in 1..n : g[i + 1] = f[i]
    PROVE  Total(g, n + 1) = g[1] + Total(f, n)
<1> DEFINE S == {m \in Nat : m <= n => Total(g, m + 1) = g[1] + Total(f, m)}
<1>1. 0 \in S
  <2>1. Total(f, 0) = 0 /\ Total(g, 0) = 0 /\ Total(g, 0 + 1) = Total(g, 0) + g[0 + 1]
    BY TotalSteps
  <2> QED BY <2>1
<1>2. ASSUME NEW m \in Nat, m \in S PROVE m + 1 \in S
  <2> SUFFICES ASSUME m + 1 <= n
               PROVE  Total(g, (m + 1) + 1) = g[1] + Total(f, m + 1)
    OBVIOUS
  <2>1. m + 1 \in 1..n /\ m <= n /\ f[m + 1] \in Int /\ g[(m + 1) + 1] = f[m + 1]
    OBVIOUS
  <2>2. Total(g, m + 1) = g[1] + Total(f, m)
    BY <1>2, <2>1
  <2>3. m + 1 \in Nat
    OBVIOUS
  <2>4. /\ Total(g, (m + 1) + 1) = Total(g, m + 1) + g[(m + 1) + 1]
        /\ Total(f, m + 1) = Total(f, m) + f[m + 1]
    BY <2>3, TotalSteps
  <2>5. Total(f, m) \in Int
    <3>1. \A i \in 1..m : f[i] \in Int
      BY <2>1
    <3> QED BY <3>1, TotalType
  <2> QED BY <2>1, <2>2, <2>4, <2>5
<1> HIDE DEF S
<1>3. n \in S
  BY <1>1, <1>2, Induction
<1> QED BY <1>3 DEF S

\* One of the first values is the greatest.
LEMMA GreatestValue ==
    ASSUME NEW n \in Nat \ {0}, NEW f, \A i \in 1..n : f[i] \in Int
    PROVE  \E k \in 1..n : \A i \in 1..n : f[i] <= f[k]
<1> DEFINE S == {m \in Nat : m < n => \E k \in 1..(m + 1) : \A i \in 1..(m + 1) : f[i] <= f[k]}
<1>1. 0 \in S
  <2>1. 1 \in 1..(0 + 1) /\ \A i \in 1..(0 + 1) : i = 1
    OBVIOUS
  <2>2. f[1] \in Int
    OBVIOUS
  <2> QED BY <2>1, <2>2
<1>2. ASSUME NEW m \in Nat, m \in S PROVE m + 1 \in S
  <2> SUFFICES ASSUME m + 1 < n PROVE \E k \in 1..(m + 1 + 1) : \A i \in 1..(m + 1 + 1) : f[i] <= f[k]
    OBVIOUS
  <2>1. PICK k \in 1..(m + 1) : \A i \in 1..(m + 1) : f[i] <= f[k]
    BY <1>2
  <2>2. /\ \A i \in 1..(m + 1 + 1) : i \in 1..(m + 1) \/ i = m + 1 + 1
        /\ \A i \in 1..(m + 1 + 1) : f[i] \in Int
        /\ k \in 1..(m + 1 + 1) /\ m + 1 + 1 \in 1..(m + 1 + 1)
    OBVIOUS
  <2>3. CASE f[m + 1 + 1] <= f[k]
    <3>1. \A i \in 1..(m + 1 + 1) : f[i] <= f[k]
      BY <2>1, <2>2, <2>3
    <3> QED BY <2>2, <3>1
  <2>4. CASE ~(f[m + 1 + 1] <= f[k])
    <3>1. \A i \in 1..(m + 1 + 1) : f[i] <= f[m + 1 + 1]
      BY <2>1, <2>2, <2>4
    <3> QED BY <2>2, <3>1
  <2> QED BY <2>3, <2>4
<1> HIDE DEF S
<1>3. Nat \subseteq S
  BY <1>1, <1>2, Induction
<1>4. n - 1 \in Nat /\ n - 1 < n /\ n - 1 + 1 = n
  OBVIOUS
<1>5. n - 1 \in S
  BY <1>3, <1>4
<1> QED BY <1>4, <1>5 DEF S
=============================================================================
