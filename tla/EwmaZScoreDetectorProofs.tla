---------------------- MODULE EwmaZScoreDetectorProofs ----------------------
(***************************************************************************)
(* The running statistics of EwmaZScoreDetector are the exponentially      *)
(* weighted ones, for every weight, threshold and number of samples.       *)
(***************************************************************************)
EXTENDS EwmaZScoreDetector, SequenceTheorems, NaturalsInduction, WellFoundedInduction, TLAPS

-----------------------------------------------------------------------------
(* Linear recursion over the whole numbers *)

Follows(f, c, a, t, n) ==
  f[0] = c /\ \A k \in 1 .. n : f[k] = a[k] * f[k - 1] + t[k]

LEMMA RunExists ==
  ASSUME NEW c \in Int, NEW N \in Nat, NEW a \in [1 .. N -> Int], NEW t \in [1 .. N -> Int]
  PROVE  \E f \in [0 .. N -> Int] : Follows(f, c, a, t, N)
<1> DEFINE T == {n \in 0 .. N : ~ \E f \in [0 .. n -> Int] : Follows(f, c, a, t, n)}
<1> SUFFICES ASSUME T # {} PROVE FALSE
  OBVIOUS
<1>1. T \subseteq Nat
  OBVIOUS
<1>2. PICK n \in T : \A j \in T : ~(<<j, n>> \in OpToRel(<, Nat))
  BY <1>1, NatLessThanWellFounded, WFMin
<1>3. n \in 0 .. N /\ ~ \E f \in [0 .. n -> Int] : Follows(f, c, a, t, n)
  OBVIOUS
<1>4. CASE n = 0
  <2>1. [k \in 0 .. 0 |-> c] \in [0 .. 0 -> Int] /\ Follows([k \in 0 .. 0 |-> c], c, a, t, 0)
    BY DEF Follows
  <2> QED
    BY <1>3, <1>4, <2>1
<1>5. CASE n # 0
  <2>1. /\ n - 1 \in 0 .. N /\ n - 1 < n /\ n - 1 \in Nat /\ n \in Nat /\ n \in 1 .. N
    BY <1>3, <1>5
  <2>2. <<n - 1, n>> \in OpToRel(<, Nat)
    BY <2>1 DEF OpToRel
  <2>3. PICK f \in [0 .. (n - 1) -> Int] : Follows(f, c, a, t, n - 1)
    BY <1>2, <2>1, <2>2
  <2>4. PICK next \in Int : next = a[n] * f[n - 1] + t[n]
    <3>1. a[n] \in Int /\ t[n] \in Int /\ f[n - 1] \in Int
      BY <2>1
    <3> QED
      BY <3>1
  <2> DEFINE g == [k \in 0 .. n |-> IF k = n THEN next ELSE f[k]]
  <2>5. g \in [0 .. n -> Int] /\ g[0] = f[0] /\ g[n] = next /\ g[n - 1] = f[n - 1]
    BY <2>1, <1>5
  <2>6. \A k \in 1 .. (n - 1) : g[k] = f[k] /\ g[k - 1] = f[k - 1]
    BY <2>1
  <2>7. \A k \in 1 .. n : k = n \/ k \in 1 .. (n - 1)
    BY <2>1
  <2> HIDE DEF g
  <2>8. Follows(g, c, a, t, n)
    BY <2>3, <2>4, <2>5, <2>6, <2>7, Zenon DEF Follows
  <2> QED
    BY <1>3, <2>5, <2>8
<1> QED
  BY <1>4, <1>5

-----------------------------------------------------------------------------
(* Powers *)

\* f holds the powers of b up to the n-th.
Powers(f, b, n) ==
  f[0] = 1 /\ \A k \in 1 .. n : f[k] = b * f[k - 1]

LEMMA PowersAgree ==
  ASSUME NEW b, NEW n \in Nat, NEW f, NEW g, NEW m \in Nat, n <= m,
         Powers(f, b, n), Powers(g, b, m)
  PROVE  f[n] = g[n]
<1> DEFINE T == {k \in 0 .. n : g[k] # f[k]}
<1>1. SUFFICES ASSUME T # {} PROVE FALSE
  <2>1. n \in 0 .. n
    OBVIOUS
  <2> QED
    BY <2>1
<1>2. T \subseteq Nat
  OBVIOUS
<1>3. PICK k \in T : \A j \in T : ~(<<j, k>> \in OpToRel(<, Nat))
  BY <1>1, <1>2, NatLessThanWellFounded, WFMin
<1>4. k \in 0 .. n /\ g[k] # f[k]
  OBVIOUS
<1>5. k # 0
  BY <1>4 DEF Powers
<1>6. /\ k - 1 \in 0 .. n /\ k - 1 < k /\ k - 1 \in Nat /\ k \in Nat
      /\ k \in 1 .. n /\ k \in 1 .. m
  BY <1>4, <1>5
<1>7. <<k - 1, k>> \in OpToRel(<, Nat)
  BY <1>6 DEF OpToRel
<1>8. g[k - 1] = f[k - 1]
  BY <1>3, <1>6, <1>7
<1> QED
  BY <1>4, <1>6, <1>8, Zenon DEF Powers

LEMMA PowerIs ==
  ASSUME NEW b \in Int, NEW n \in Nat
  PROVE  \E f \in [0 .. n -> Int] : Powers(f, b, n) /\ Power(b, n) = f[n]
<1> DEFINE Solves(f) == f = [k \in 0 .. n |-> IF k = 0 THEN 1 ELSE b * f[k - 1]]
<1>1. PICK a \in [1 .. n -> Int], t \in [1 .. n -> Int] :
        \A k \in 1 .. n : a[k] = b /\ t[k] = 0
  <2>1. /\ [k \in 1 .. n |-> b] \in [1 .. n -> Int] /\ [k \in 1 .. n |-> 0] \in [1 .. n -> Int]
        /\ \A k \in 1 .. n : [i \in 1 .. n |-> b][k] = b /\ [i \in 1 .. n |-> 0][k] = 0
    OBVIOUS
  <2> QED
    BY <2>1
<1>2. PICK f \in [0 .. n -> Int] : Follows(f, 1, a, t, n)
  BY <1>1, RunExists
<1>3. Powers(f, b, n)
  <2>1. ASSUME NEW k \in 1 .. n PROVE f[k] = b * f[k - 1]
    <3>1. PICK x \in Int : x = f[k - 1]
      BY <1>2
    <3>2. f[k] = b * x + 0
      BY <1>1, <1>2, <3>1 DEF Follows
    <3> QED
      BY <3>1, <3>2
  <2> QED
    BY <1>2, <2>1 DEF Powers, Follows
<1>4. Solves(f)
  <2>1. f = [k \in 0 .. n |-> f[k]]
    BY <1>2
  <2>2. ASSUME NEW k \in 0 .. n PROVE f[k] = IF k = 0 THEN 1 ELSE b * f[k - 1]
    <3>1. k = 0 \/ (k # 0 /\ k \in 1 .. n)
      OBVIOUS
    <3> QED
      BY <1>3, <3>1, Zenon DEF Powers
  <2> QED
    BY <2>1, <2>2, Zenon
<1>5. PICK g : Solves(g) /\ Power(b, n) = g[n]
  <2> DEFINE h == CHOOSE g : Solves(g)
  <2>1. Solves(h)
    BY <1>4, Zenon
  <2>2. Power(b, n) = h[n]
    BY Zenon DEF Power
  <2> QED
    BY <2>1, <2>2, Zenon
<1>6. Powers(g, b, n)
  <2>1. 0 \in 0 .. n /\ \A k \in 1 .. n : k \in 0 .. n /\ k # 0
    OBVIOUS
  <2> QED
    BY <1>5, <2>1, Zenon DEF Powers
<1> HIDE DEF Solves
<1>7. g[n] = f[n]
  BY <1>3, <1>6, PowersAgree
<1> QED
  BY <1>3, <1>5, <1>7

LEMMA PowerFacts ==
  ASSUME NEW b \in Int
  PROVE  /\ Power(b, 0) = 1
         /\ \A n \in Nat : Power(b, n) \in Int /\ Power(b, n + 1) = b * Power(b, n)
<1>1. Power(b, 0) = 1
  BY PowerIs DEF Powers
<1>2. ASSUME NEW n \in Nat
      PROVE  Power(b, n) \in Int /\ Power(b, n + 1) = b * Power(b, n)
  <2>1. PICK f \in [0 .. n -> Int] : Powers(f, b, n) /\ Power(b, n) = f[n]
    BY PowerIs
  <2>2. PICK g : Powers(g, b, n + 1) /\ Power(b, n + 1) = g[n + 1]
    <3>1. n + 1 \in Nat
      OBVIOUS
    <3>2. \E g \in [0 .. (n + 1) -> Int] : Powers(g, b, n + 1) /\ Power(b, n + 1) = g[n + 1]
      BY <3>1, PowerIs
    <3> QED
      BY <3>2
  <2>3. f[n] = g[n]
    BY <2>1, <2>2, PowersAgree
  <2>4. f[n] \in Int
    OBVIOUS
  <2>5. n + 1 \in 1 .. (n + 1) /\ (n + 1) - 1 = n
    OBVIOUS
  <2>6. g[n + 1] = b * g[n]
    BY <2>2, <2>5, Zenon DEF Powers
  <2> QED
    BY <2>1, <2>2, <2>3, <2>4, <2>6, Zenon
<1> QED
  BY <1>1, <1>2

LEMMA PowerPositive ==
  ASSUME NEW b \in Nat, b > 0, NEW n \in Nat
  PROVE  Power(b, n) \in Nat /\ Power(b, n) > 0
<1> DEFINE T == {k \in Nat : ~(Power(b, k) \in Nat /\ Power(b, k) > 0)}
<1>1. SUFFICES ASSUME T # {} PROVE FALSE
  OBVIOUS
<1>2. PICK k \in T : \A j \in T : ~(<<j, k>> \in OpToRel(<, Nat))
  BY <1>1, NatLessThanWellFounded, WFMin
<1>3. k \in Nat /\ ~(Power(b, k) \in Nat /\ Power(b, k) > 0)
  OBVIOUS
<1>4. k # 0
  BY <1>3, PowerFacts
<1>5. k - 1 \in Nat /\ k - 1 < k /\ (k - 1) + 1 = k
  BY <1>3, <1>4
<1>6. <<k - 1, k>> \in OpToRel(<, Nat)
  BY <1>5 DEF OpToRel
<1>7. PICK x \in Nat : x = Power(b, k - 1) /\ x > 0
  BY <1>2, <1>5, <1>6
<1>8. Power(b, (k - 1) + 1) = b * x
  BY <1>5, <1>7, PowerFacts
<1>9. b * x \in Nat /\ b * x > 0
  BY <1>7
<1> QED
  BY <1>3, <1>5, <1>8, <1>9

\* What a sample counts against a mean.
LEMMA UnitFacts ==
  ASSUME NEW k \in Nat, k > 0
  PROVE  /\ Unit(k) \in Nat /\ Unit(k) > 0 /\ Unit(k) = Power(AlphaDen, k - 1)
         /\ Unit(k + 1) = AlphaDen * Unit(k)
<1>1. AlphaDen \in Nat /\ AlphaDen > 0 /\ k - 1 \in Nat /\ k # 0 /\ k + 1 # 0
      /\ (k + 1) - 1 = (k - 1) + 1
  BY DetectorAssumption
<1>2. Unit(k) = Power(AlphaDen, k - 1) /\ Unit(k + 1) = Power(AlphaDen, (k - 1) + 1)
  BY <1>1, Zenon DEF Unit
<1>3. Power(AlphaDen, k - 1) \in Nat /\ Power(AlphaDen, k - 1) > 0
  BY <1>1, PowerPositive
<1>4. Power(AlphaDen, (k - 1) + 1) = AlphaDen * Power(AlphaDen, k - 1)
  BY <1>1, PowerFacts
<1> QED
  BY <1>2, <1>3, <1>4, Zenon

LEMMA UnitOfOne == Unit(1) = 1
BY PowerFacts, DetectorAssumption DEF Unit

-----------------------------------------------------------------------------
(* Weighted sums *)

Kept == AlphaDen - AlphaNum

LEMMA KeptIsInt == Kept \in Int /\ AlphaNum \in Int /\ AlphaDen \in Int
BY DetectorAssumption DEF Kept

LEMMA WeightIsInt ==
  ASSUME NEW k \in Nat, NEW j \in 1 .. k
  PROVE  Weight(j, k) \in Int
<1>1. CASE j = 1
  <2>1. k - 1 \in Nat
    BY <1>1
  <2>2. Weight(j, k) = Power(Kept, k - 1)
    BY <1>1, Zenon DEF Weight, Kept
  <2> QED
    BY <2>1, <2>2, PowerFacts, KeptIsInt
<1>2. CASE j # 1
  <2>1. k - j \in Nat /\ j - 2 \in Nat
    BY <1>2
  <2>2. PICK x \in Int, y \in Int : x = Power(Kept, k - j) /\ y = Power(AlphaDen, j - 2)
    BY <2>1, PowerFacts, KeptIsInt
  <2>3. Weight(j, k) = AlphaNum * x * y
    BY <1>2, <2>2, Zenon DEF Weight, Kept
  <2>4. PICK n \in Int : n = AlphaNum
    BY KeptIsInt
  <2> QED
    BY <2>3, <2>4
<1> QED
  BY <1>1, <1>2

\* One more sample makes all earlier ones count for less.
LEMMA WeightDecays ==
  ASSUME NEW k \in Nat, NEW j \in 1 .. k
  PROVE  Weight(j, k + 1) = Kept * Weight(j, k)
<1>1. CASE j = 1
  <2>1. k - 1 \in Nat /\ (k + 1) - 1 = (k - 1) + 1
    BY <1>1
  <2>2. Weight(j, k) = Power(Kept, k - 1) /\ Weight(j, k + 1) = Power(Kept, (k - 1) + 1)
    BY <1>1, <2>1, Zenon DEF Weight, Kept
  <2> QED
    BY <2>1, <2>2, PowerFacts, KeptIsInt
<1>2. CASE j # 1
  <2>1. k - j \in Nat /\ j - 2 \in Nat /\ (k + 1) - j = (k - j) + 1
    BY <1>2
  <2>2. PICK x \in Int, y \in Int, n \in Int, b \in Int :
          /\ x = Power(Kept, k - j) /\ y = Power(AlphaDen, j - 2)
          /\ n = AlphaNum /\ b = Kept
    BY <2>1, PowerFacts, KeptIsInt
  <2>3. Power(Kept, (k - j) + 1) = b * x
    BY <2>1, <2>2, PowerFacts
  <2>4. Weight(j, k) = n * x * y /\ Weight(j, k + 1) = n * (b * x) * y
    BY <1>2, <2>1, <2>2, <2>3, Zenon DEF Weight, Kept
  <2>5. n * (b * x) * y = b * (n * x * y)
    OBVIOUS
  <2> QED
    BY <2>2, <2>4, <2>5
<1> QED
  BY <1>1, <1>2

LEMMA WeightOfNewest ==
  ASSUME NEW k \in Nat, k > 0
  PROVE  Weight(k + 1, k + 1) = AlphaNum * Unit(k)
<1>1. k + 1 # 1 /\ (k + 1) - (k + 1) = 0 /\ (k + 1) - 2 = k - 1
  OBVIOUS
<1>2. Power(Kept, 0) = 1 /\ Unit(k) = Power(AlphaDen, k - 1) /\ Unit(k) \in Nat
  BY PowerFacts, KeptIsInt, UnitFacts
<1>3. PICK n \in Int, u \in Int : n = AlphaNum /\ u = Unit(k)
  BY <1>2, KeptIsInt
<1>4. Weight(k + 1, k + 1) = n * 1 * u
  BY <1>1, <1>2, <1>3, Zenon DEF Weight, Kept
<1> QED
  BY <1>3, <1>4

\* f holds the partial sums of terms, weighted as k of them are.
Sums(f, terms, k, n) ==
  f[0] = 0 /\ \A j \in 1 .. n : f[j] = f[j - 1] + Weight(j, k) * terms[j]

LEMMA SumsAgree ==
  ASSUME NEW terms, NEW k, NEW n \in Nat, NEW f, NEW g,
         Sums(f, terms, k, n), Sums(g, terms, k, n)
  PROVE  f[n] = g[n]
<1> DEFINE T == {j \in 0 .. n : f[j] # g[j]}
<1>1. SUFFICES ASSUME T # {} PROVE FALSE
  <2>1. n \in 0 .. n
    OBVIOUS
  <2> QED
    BY <2>1
<1>2. T \subseteq Nat
  OBVIOUS
<1>3. PICK j \in T : \A i \in T : ~(<<i, j>> \in OpToRel(<, Nat))
  BY <1>1, <1>2, NatLessThanWellFounded, WFMin
<1>4. j \in 0 .. n /\ f[j] # g[j]
  OBVIOUS
<1>5. j # 0
  BY <1>4 DEF Sums
<1>6. j - 1 \in 0 .. n /\ j - 1 < j /\ j - 1 \in Nat /\ j \in Nat /\ j \in 1 .. n
  BY <1>4, <1>5
<1>7. <<j - 1, j>> \in OpToRel(<, Nat)
  BY <1>6 DEF OpToRel
<1>8. f[j - 1] = g[j - 1]
  BY <1>3, <1>6, <1>7
<1> QED
  BY <1>4, <1>6, <1>8, Zenon DEF Sums

LEMMA WeightedIs ==
  ASSUME NEW terms \in Seq(Int)
  PROVE  \E f \in [0 .. Len(terms) -> Int] :
           Sums(f, terms, Len(terms), Len(terms)) /\ Weighted(terms) = f[Len(terms)]
<1>1. PICK n \in Nat : n = Len(terms)
  BY LenProperties
<1>2. terms \in [1 .. n -> Int]
  BY <1>1, LenProperties
<1> DEFINE Solves(f) == f = [j \in 0 .. n |->
                               IF j = 0 THEN 0 ELSE f[j - 1] + Weight(j, n) * terms[j]]
           t == [j \in 1 .. n |-> Weight(j, n) * terms[j]]
           a == [j \in 1 .. n |-> 1]
<1>3. t \in [1 .. n -> Int] /\ \A j \in 1 .. n : t[j] = Weight(j, n) * terms[j]
  <2>1. ASSUME NEW j \in 1 .. n PROVE Weight(j, n) * terms[j] \in Int
    <3>1. PICK x \in Int, y \in Int : x = Weight(j, n) /\ y = terms[j]
      BY <1>2, WeightIsInt
    <3> QED
      BY <3>1
  <2> QED
    BY <2>1, Zenon
<1>4. a \in [1 .. n -> Int] /\ \A j \in 1 .. n : a[j] = 1
  OBVIOUS
<1> HIDE DEF t, a
<1>5. PICK f \in [0 .. n -> Int] : Follows(f, 0, a, t, n)
  <2>1. PICK u \in [1 .. n -> Int], v \in [1 .. n -> Int] : u = a /\ v = t
    BY <1>3, <1>4
  <2>2. PICK c \in Int : c = 0
    OBVIOUS
  <2>3. \E f \in [0 .. n -> Int] : Follows(f, c, u, v, n)
    BY RunExists
  <2> QED
    BY <2>1, <2>2, <2>3
<1>6. Sums(f, terms, n, n)
  <2>1. ASSUME NEW j \in 1 .. n PROVE f[j] = f[j - 1] + Weight(j, n) * terms[j]
    <3>1. PICK x \in Int, y \in Int : x = f[j - 1] /\ y = t[j]
      BY <1>3, <1>5
    <3>2. f[j] = 1 * x + y
      BY <1>4, <1>5, <3>1, Zenon DEF Follows
    <3>3. f[j] = x + y
      BY <3>2
    <3> QED
      BY <1>3, <3>1, <3>3, Zenon
  <2>2. f[0] = 0
    BY <1>5 DEF Follows
  <2> QED
    BY <2>1, <2>2, Zenon DEF Sums
<1>7. Solves(f)
  <2>1. f = [j \in 0 .. n |-> f[j]]
    BY <1>5
  <2>2. ASSUME NEW j \in 0 .. n
        PROVE  f[j] = IF j = 0 THEN 0 ELSE f[j - 1] + Weight(j, n) * terms[j]
    <3>1. j = 0 \/ (j # 0 /\ j \in 1 .. n)
      OBVIOUS
    <3> QED
      BY <1>6, <3>1, Zenon DEF Sums
  <2> QED
    BY <2>1, <2>2, Zenon
<1>8. PICK g : Solves(g) /\ Weighted(terms) = g[n]
  <2> DEFINE h == CHOOSE g : Solves(g)
  <2>1. Solves(h)
    BY <1>7, Zenon
  <2>2. Weighted(terms) = h[n]
    BY <1>1, Zenon DEF Weighted
  <2> QED
    BY <2>1, <2>2, Zenon
<1>9. Sums(g, terms, n, n)
  <2>1. 0 \in 0 .. n /\ \A j \in 1 .. n : j \in 0 .. n /\ j # 0
    OBVIOUS
  <2> QED
    BY <1>8, <2>1, Zenon DEF Sums
<1> HIDE DEF Solves
<1>10. g[n] = f[n]
  BY <1>6, <1>9, SumsAgree
<1> QED
  BY <1>1, <1>6, <1>8, <1>10

\* What one more term does to a weighted sum.
LEMMA WeightedNext ==
  ASSUME NEW terms \in Seq(Int), NEW x \in Int, Len(terms) > 0
  PROVE  /\ Weighted(terms) \in Int
         /\ Weighted(Append(terms, x)) =
              Kept * Weighted(terms) + AlphaNum * Unit(Len(terms)) * x
<1>1. PICK k \in Nat : k = Len(terms) /\ k > 0
  BY LenProperties
<1>2. PICK more \in Seq(Int) : /\ more = Append(terms, x) /\ Len(more) = k + 1
                               /\ \A j \in 1 .. k : more[j] = terms[j]
                               /\ more[k + 1] = x
  BY <1>1, AppendProperties
<1>3. PICK f \in [0 .. k -> Int] : Sums(f, terms, k, k) /\ Weighted(terms) = f[k]
  BY <1>1, WeightedIs
<1>4. PICK g \in [0 .. (k + 1) -> Int] :
        Sums(g, more, k + 1, k + 1) /\ Weighted(more) = g[k + 1]
  BY <1>2, WeightedIs
<1>5. PICK b \in Int : b = Kept
  BY KeptIsInt
<1>6. \A j \in 0 .. k : g[j] = b * f[j]
  <2> DEFINE T == {j \in 0 .. k : g[j] # b * f[j]}
  <2>1. SUFFICES ASSUME T # {} PROVE FALSE
    OBVIOUS
  <2>2. T \subseteq Nat
    OBVIOUS
  <2>3. PICK j \in T : \A i \in T : ~(<<i, j>> \in OpToRel(<, Nat))
    BY <2>1, <2>2, NatLessThanWellFounded, WFMin
  <2>4. j \in 0 .. k /\ g[j] # b * f[j]
    OBVIOUS
  <2>5. j # 0
    BY <1>3, <1>4, <2>4 DEF Sums
  <2>6. /\ j - 1 \in 0 .. k /\ j - 1 < j /\ j - 1 \in Nat /\ j \in Nat
        /\ j \in 1 .. k /\ j \in 1 .. (k + 1)
    BY <2>4, <2>5
  <2>7. <<j - 1, j>> \in OpToRel(<, Nat)
    BY <2>6 DEF OpToRel
  <2>8. PICK p \in Int, w \in Int, y \in Int :
          p = f[j - 1] /\ w = Weight(j, k) /\ y = terms[j]
    <3>1. terms[j] \in Int
      BY <1>1, <2>6, ElementOfSeq
    <3> QED
      BY <2>6, <3>1, WeightIsInt
  <2>9. g[j - 1] = b * p
    BY <2>3, <2>6, <2>7, <2>8
  <2>10. Weight(j, k + 1) = b * w
    BY <1>5, <2>6, <2>8, WeightDecays
  <2>11. f[j] = p + w * y
    BY <1>3, <2>6, <2>8, Zenon DEF Sums
  <2>12. g[j] = b * p + (b * w) * y
    BY <1>2, <1>4, <2>6, <2>8, <2>9, <2>10, Zenon DEF Sums
  <2>13. b * p + (b * w) * y = b * (p + w * y)
    OBVIOUS
  <2> QED
    BY <2>4, <2>11, <2>12, <2>13
<1>7. PICK u \in Int, n \in Int : u = Unit(k) /\ n = AlphaNum
  BY <1>1, UnitFacts, KeptIsInt
<1>8. k + 1 \in 1 .. (k + 1) /\ (k + 1) - 1 = k /\ k \in 0 .. k
  OBVIOUS
<1>9. g[k + 1] = g[k] + (n * u) * x
  <2>1. Weight(k + 1, k + 1) = n * u
    BY <1>1, <1>7, WeightOfNewest
  <2> QED
    BY <1>2, <1>4, <1>8, <2>1, Zenon DEF Sums
<1>10. PICK m \in Int : m = f[k]
  OBVIOUS
<1>11. g[k + 1] = b * m + (n * u) * x
  BY <1>6, <1>8, <1>9, <1>10, Zenon
<1> QED
  BY <1>1, <1>2, <1>3, <1>4, <1>5, <1>7, <1>10, <1>11, Zenon

LEMMA WeightedOne ==
  ASSUME NEW x \in Int
  PROVE  Weighted(<<x>>) = x
<1>0. <<x>> \in Seq(Int) /\ Len(<<x>>) = 1 /\ <<x>>[1] = x
  OBVIOUS
<1>1. PICK terms \in Seq(Int) : terms = <<x>> /\ Len(terms) = 1 /\ terms[1] = x
  BY <1>0
<1>2. PICK f : Sums(f, terms, 1, 1) /\ Weighted(terms) = f[1]
  BY <1>1, WeightedIs
<1>3. 1 \in 1 .. 1 /\ 1 - 1 = 0
  OBVIOUS
<1>4. Weight(1, 1) = 1
  BY <1>3, PowerFacts, KeptIsInt DEF Weight, Kept
<1>5. f[1] = 0 + 1 * x
  BY <1>1, <1>2, <1>3, <1>4, Zenon DEF Sums
<1> QED
  BY <1>1, <1>2, <1>5

-----------------------------------------------------------------------------
(* The statistics of a list of samples *)

Squares(s) == [i \in DOMAIN s |-> s[i] * s[i]]

LEMMA SquaresAre ==
  ASSUME NEW s \in Seq(Int)
  PROVE  /\ Squares(s) \in Seq(Int) /\ Len(Squares(s)) = Len(s)
         /\ \A i \in 1 .. Len(s) : Squares(s)[i] = s[i] * s[i]
<1>1. PICK n \in Nat : n = Len(s) /\ DOMAIN s = 1 .. n
  BY LenProperties
<1>2. PICK q : q = [i \in 1 .. n |-> s[i] * s[i]]
  OBVIOUS
<1>3. Squares(s) = q
  BY <1>1, <1>2, Zenon DEF Squares
<1>4. ASSUME NEW i \in 1 .. n PROVE s[i] * s[i] \in Int
  <2>1. PICK x \in Int : x = s[i]
    BY <1>1, ElementOfSeq
  <2> QED
    BY <2>1
<1>5. q \in [1 .. n -> Int] /\ \A i \in 1 .. n : q[i] = s[i] * s[i]
  BY <1>2, <1>4, Zenon
<1>6. q \in Seq(Int)
  BY <1>5, IsASeq
<1>7. Len(q) = n
  BY <1>5, <1>6, LenProperties
<1> QED
  BY <1>1, <1>3, <1>5, <1>6, <1>7, Zenon

LEMMA SquaresNext ==
  ASSUME NEW s \in Seq(Int), NEW x \in Int
  PROVE  Squares(Append(s, x)) = Append(Squares(s), x * x)
<1>1. PICK n \in Nat : n = Len(s)
  BY LenProperties
<1>2. PICK more \in Seq(Int), xx \in Int :
        /\ more = Append(s, x) /\ xx = x * x /\ Len(more) = n + 1
        /\ (\A i \in 1 .. n : more[i] = s[i]) /\ more[n + 1] = x
  <2>1. /\ Append(s, x) \in Seq(Int) /\ Len(Append(s, x)) = n + 1
        /\ (\A i \in 1 .. n : Append(s, x)[i] = s[i]) /\ Append(s, x)[n + 1] = x
    BY <1>1, AppendProperties
  <2>2. x * x \in Int
    OBVIOUS
  <2> QED
    BY <2>1, <2>2
<1>3. PICK q \in Seq(Int) : /\ q = Squares(s) /\ Len(q) = n
                            /\ \A i \in 1 .. n : q[i] = s[i] * s[i]
  BY <1>1, SquaresAre
<1>4. PICK r \in Seq(Int) : /\ r = Squares(more) /\ Len(r) = n + 1
                            /\ \A i \in 1 .. (n + 1) : r[i] = more[i] * more[i]
  <2>1. /\ Squares(more) \in Seq(Int) /\ Len(Squares(more)) = Len(more)
        /\ \A i \in 1 .. Len(more) : Squares(more)[i] = more[i] * more[i]
    BY SquaresAre
  <2> QED
    BY <1>2, <2>1, Zenon
<1>5. PICK t \in Seq(Int) : /\ t = Append(q, xx) /\ Len(t) = n + 1
                            /\ (\A i \in 1 .. n : t[i] = q[i]) /\ t[n + 1] = xx
  <2>1. /\ Append(q, xx) \in Seq(Int) /\ Len(Append(q, xx)) = n + 1
        /\ (\A i \in 1 .. n : Append(q, xx)[i] = q[i]) /\ Append(q, xx)[n + 1] = xx
    BY <1>3, AppendProperties
  <2> QED
    BY <2>1, Zenon
<1>6. ASSUME NEW i \in 1 .. (n + 1) PROVE r[i] = t[i]
  <2>1. i = n + 1 \/ i \in 1 .. n
    OBVIOUS
  <2>2. CASE i = n + 1
    BY <1>2, <1>4, <1>5, <2>2, Zenon
  <2>3. CASE i \in 1 .. n
    BY <1>2, <1>3, <1>4, <1>5, <2>3, Zenon
  <2> QED
    BY <2>1, <2>2, <2>3
<1>7. r = t
  BY <1>4, <1>5, <1>6, SeqEqual
<1> QED
  BY <1>2, <1>3, <1>4, <1>5, <1>7, Zenon

\* The mean and the variance a state should hold after these samples.
StateOf(s) ==
  [mean |-> WeightedMean(s), variance |-> WeightedVariance(s), samples |-> Len(s)]

\* How both change with one more sample: the step of score().
LEMMA MeanAndVariance ==
  ASSUME NEW s \in Seq(Int), Len(s) > 0, NEW x \in Int, NEW delta,
         delta = x * Unit(Len(s)) - WeightedMean(s)
  PROVE  /\ WeightedMean(s) \in Int /\ WeightedVariance(s) \in Int /\ delta \in Int
         /\ WeightedMean(Append(s, x)) = AlphaDen * WeightedMean(s) + AlphaNum * delta
         /\ WeightedVariance(Append(s, x)) =
              (AlphaDen - AlphaNum) * (AlphaDen * WeightedVariance(s) + AlphaNum * delta * delta)
<1>1. PICK k \in Nat : k = Len(s) /\ k > 0
  BY LenProperties
<1>2. PICK u \in Int, d \in Int, n \in Int : u = Unit(k) /\ d = AlphaDen /\ n = AlphaNum
  BY <1>1, UnitFacts, KeptIsInt
<1>3. Kept = d - n /\ Unit(k + 1) = d * u
  BY <1>1, <1>2, UnitFacts DEF Kept
<1>4. PICK q \in Seq(Int), xx \in Int : q = Squares(s) /\ xx = x * x /\ Len(q) = k
  <2>1. x * x \in Int
    OBVIOUS
  <2> QED
    BY <1>1, <2>1, SquaresAre
<1>5. PICK m \in Int : m = Weighted(s)
  BY <1>1, WeightedNext
<1>6. PICK c \in Int : c = Weighted(q)
  BY <1>1, <1>4, WeightedNext
<1>7. Weighted(Append(s, x)) = (d - n) * m + n * u * x
  BY <1>1, <1>2, <1>3, <1>5, WeightedNext
<1>8. Weighted(Append(q, xx)) = (d - n) * c + n * u * xx
  BY <1>1, <1>2, <1>3, <1>4, <1>6, WeightedNext, SMTT(40)
<1>9. Len(Append(s, x)) = k + 1
  BY <1>1, AppendProperties
<1>10. WeightedMean(s) = m /\ WeightedMean(Append(s, x)) = (d - n) * m + n * u * x
  BY <1>5, <1>7, Zenon DEF WeightedMean
<1>11. WeightedVariance(s) = c * u - m * m
  BY <1>1, <1>2, <1>4, <1>6, <1>10, Zenon
     DEF WeightedVariance, WeightedSquares, Squares
<1>12. WeightedVariance(Append(s, x)) =
         ((d - n) * c + n * u * (x * x)) * (d * u)
           - ((d - n) * m + n * u * x) * ((d - n) * m + n * u * x)
  <2>1. Squares(Append(s, x)) = Append(q, xx)
    BY <1>4, SquaresNext
  <2>2. WeightedSquares(Append(s, x)) = (d - n) * c + n * u * (x * x)
    BY <1>4, <1>8, <2>1, Zenon DEF WeightedSquares, Squares
  <2>3. Unit(Len(Append(s, x))) = d * u
    BY <1>3, <1>9
  <2> QED
    BY <1>10, <2>2, <2>3, Zenon DEF WeightedVariance
<1>13. delta = x * u - m
  BY <1>1, <1>2, <1>10
<1>14. (d - n) * m + n * u * x = d * m + n * (x * u - m)
  OBVIOUS
<1>15. ((d - n) * c + n * u * (x * x)) * (d * u)
         - ((d - n) * m + n * u * x) * ((d - n) * m + n * u * x)
       = (d - n) * (d * (c * u - m * m) + n * (x * u - m) * (x * u - m))
  OBVIOUS
<1>16. x * u - m \in Int /\ c * u - m * m \in Int
  OBVIOUS
<1> QED
  BY <1>2, <1>10, <1>11, <1>12, <1>13, <1>14, <1>15, <1>16, Zenon

LEMMA UpdatedIsWeighted ==
  ASSUME NEW s \in Seq(Int), Len(s) > 0, NEW x \in Int
  PROVE  Updated(StateOf(s), x) = StateOf(Append(s, x))
<1>1. PICK k \in Nat : k = Len(s) /\ k # 0
  BY LenProperties
<1>2. PICK m, v, delta : /\ m = WeightedMean(s) /\ v = WeightedVariance(s)
                         /\ delta = x * Unit(Len(s)) - WeightedMean(s)
  BY Zenon
<1>3. /\ WeightedMean(Append(s, x)) = AlphaDen * m + AlphaNum * delta
      /\ WeightedVariance(Append(s, x)) =
           (AlphaDen - AlphaNum) * (AlphaDen * v + AlphaNum * delta * delta)
  BY <1>2, MeanAndVariance
<1>4. Len(Append(s, x)) = k + 1
  BY <1>1, AppendProperties
<1>5. PICK state : state = [mean |-> m, variance |-> v, samples |-> k]
  BY Zenon
<1>6. state.mean = m /\ state.variance = v /\ state.samples = k
  BY <1>5
<1>7. StateOf(s) = state
  BY <1>1, <1>2, <1>5, Zenon DEF StateOf
<1>8. Updated(state, x) =
        [mean     |-> AlphaDen * m + AlphaNum * delta,
         variance |-> (AlphaDen - AlphaNum) * (AlphaDen * v + AlphaNum * delta * delta),
         samples  |-> k + 1]
  BY <1>1, <1>2, <1>6, Zenon DEF Updated
<1> QED
  BY <1>3, <1>4, <1>7, <1>8, Zenon DEF StateOf

LEMMA FirstIsWeighted ==
  ASSUME NEW x \in Int
  PROVE  /\ WeightedMean(<<x>>) = x /\ WeightedVariance(<<x>>) = 0
         /\ Updated(NewState, x) = StateOf(<<x>>)
<1>1. PICK s \in Seq(Int) : s = <<x>> /\ Len(s) = 1
  <2>1. <<x>> \in Seq(Int) /\ Len(<<x>>) = 1
    OBVIOUS
  <2> QED
    BY <2>1
<1>2. WeightedMean(s) = x
  BY <1>1, WeightedOne, Zenon DEF WeightedMean
<1>3. Squares(s) = <<x * x>>
  BY <1>1 DEF Squares
<1>4. PICK xx \in Int : xx = x * x
  OBVIOUS
<1>5. WeightedSquares(s) = xx
  BY <1>3, <1>4, WeightedOne, Zenon DEF WeightedSquares, Squares
<1>6. WeightedVariance(s) = xx * 1 - x * x
  BY <1>1, <1>2, <1>5, UnitOfOne, Zenon DEF WeightedVariance
<1>7. WeightedVariance(s) = 0
  BY <1>4, <1>6
<1>8. NewState.samples = 0
  BY DEF NewState
<1>9. Updated(NewState, x) = [mean |-> x, variance |-> 0, samples |-> 1]
  BY <1>8, Zenon DEF Updated
<1> QED
  BY <1>1, <1>2, <1>7, <1>9, Zenon DEF StateOf

-----------------------------------------------------------------------------
(* A feature that does not move *)

Flat(s) == \A i \in 1 .. Len(s) : s[i] = s[1]

\* Its mean is the value it has and its variance is zero.
FlatHasNoVariance(s) ==
  s # << >> /\ Flat(s) =>
    WeightedMean(s) = s[1] * Unit(Len(s)) /\ WeightedVariance(s) = 0

LEMMA FlatNext ==
  ASSUME NEW s \in Seq(Int), FlatHasNoVariance(s), NEW x \in Int
  PROVE  FlatHasNoVariance(Append(s, x))
<1>1. PICK k \in Nat : k = Len(s)
  BY LenProperties
<1>2. PICK more : more = Append(s, x)
  OBVIOUS
<1>3. Len(more) = k + 1 /\ (\A i \in 1 .. k : more[i] = s[i]) /\ more[k + 1] = x
  BY <1>1, <1>2, AppendProperties
<1> SUFFICES ASSUME Flat(more)
             PROVE  WeightedMean(more) = more[1] * Unit(k + 1) /\ WeightedVariance(more) = 0
  BY <1>2, <1>3, Zenon DEF FlatHasNoVariance
<1>4. CASE k = 0
  <2>1. s = << >>
    BY <1>1, <1>4, EmptySeq
  <2>2. more = <<x>>
    BY <1>2, <2>1
  <2>3. WeightedMean(more) = x /\ WeightedVariance(more) = 0
    BY <2>2, FirstIsWeighted
  <2>4. more[1] = x /\ k + 1 = 1 /\ x * 1 = x
    BY <1>3, <1>4
  <2> QED
    BY <2>3, <2>4, UnitOfOne, Zenon
<1>5. CASE k # 0
  <2>1. 1 \in 1 .. k /\ k + 1 \in 1 .. (k + 1) /\ \A i \in 1 .. k : i \in 1 .. (k + 1)
    BY <1>5
  <2>2. Flat(s) /\ x = s[1] /\ more[1] = x
    BY <1>1, <1>3, <2>1, Zenon DEF Flat
  <2>3. s # << >> /\ Len(s) > 0
    BY <1>1, <1>5
  <2>4. PICK u \in Int, d \in Int, n \in Int : u = Unit(k) /\ d = AlphaDen /\ n = AlphaNum
    BY <1>1, <2>3, UnitFacts, KeptIsInt
  <2>5. WeightedMean(s) = x * u /\ WeightedVariance(s) = 0
    BY <1>1, <2>2, <2>3, <2>4, Zenon DEF FlatHasNoVariance
  <2>6. PICK delta : delta = x * Unit(Len(s)) - WeightedMean(s)
    OBVIOUS
  <2>7. delta = 0
    <3>1. delta = x * u - x * u
      BY <1>1, <2>4, <2>5, <2>6, Zenon
    <3> QED
      BY <3>1
  <2>8. /\ WeightedMean(more) = d * (x * u) + n * 0
        /\ WeightedVariance(more) = (d - n) * (d * 0 + n * 0 * 0)
    <3>1. /\ WeightedMean(more) = AlphaDen * WeightedMean(s) + AlphaNum * delta
          /\ WeightedVariance(more) =
               (AlphaDen - AlphaNum) * (AlphaDen * WeightedVariance(s) + AlphaNum * delta * delta)
      BY <1>2, <2>3, <2>6, MeanAndVariance
    <3> QED
      BY <2>4, <2>5, <2>7, <3>1, Zenon
  <2>9. Unit(k + 1) = d * u
    BY <1>1, <2>3, <2>4, UnitFacts
  <2>10. d * (x * u) + n * 0 = x * (d * u) /\ (d - n) * (d * 0 + n * 0 * 0) = 0
    OBVIOUS
  <2> QED
    BY <2>2, <2>8, <2>9, <2>10, Zenon
<1> QED
  BY <1>4, <1>5

-----------------------------------------------------------------------------
(* The detector *)

\* Each state is the one of its samples, and the last score fits them.
DetectorInv ==
  /\ states = [f \in Feature |-> states[f]]
  /\ history \in [Feature -> Seq(Int)]
  /\ \A f \in Feature :
       /\ states[f] = IF history[f] = << >> THEN NewState ELSE StateOf(history[f])
       /\ FlatHasNoVariance(history[f])
  /\ ScoredAgainstEarlier /\ FlatThenMove

\* Nothing has been scored since the last reset().
Unscored == scored = [feature |-> "none", z |-> "none"]

LEMMA UnscoredFits == Unscored => ScoredAgainstEarlier /\ FlatThenMove
<1> SUFFICES ASSUME Unscored PROVE ScoredAgainstEarlier /\ FlatThenMove
  OBVIOUS
<1>1. scored.feature = "none"
  BY DEF Unscored
<1> QED
  BY <1>1, Zenon DEF ScoredAgainstEarlier, FlatThenMove

LEMMA UnscoredFitsNext == Unscored' => ScoredAgainstEarlier' /\ FlatThenMove'
BY UnscoredFits, PTL

LEMMA NoSamples ==
  ASSUME NEW s, s = [f \in Feature |-> NewState], NEW h, h = [f \in Feature |-> << >>]
  PROVE  /\ s = [f \in Feature |-> s[f]] /\ h \in [Feature -> Seq(Int)]
         /\ \A f \in Feature : /\ s[f] = IF h[f] = << >> THEN NewState ELSE StateOf(h[f])
                               /\ FlatHasNoVariance(h[f])
<1>1. << >> \in Seq(Int)
  OBVIOUS
<1> QED
  BY <1>1, Zenon DEF FlatHasNoVariance

LEMMA FrontAndLastOfAppend ==
  ASSUME NEW s \in Seq(Int), NEW x \in Int
  PROVE  Front(Append(s, x)) = s /\ Last(Append(s, x)) = x
<1>1. PICK n \in Nat : n = Len(s)
  BY LenProperties
<1>2. PICK more : more = Append(s, x)
  OBVIOUS
<1>3. /\ more \in Seq(Int) /\ Len(more) = n + 1
      /\ (\A i \in 1 .. n : more[i] = s[i]) /\ more[n + 1] = x
  BY <1>1, <1>2, AppendProperties
<1>4. PICK t : t = SubSeq(more, 1, n)
  OBVIOUS
<1>5. /\ t \in Seq(Int) /\ Len(t) = n
      /\ \A i \in 1 .. n : t[i] = more[i]
  <2>1. \A i \in 1 .. n : more[i] \in Int
    BY <1>3, ElementOfSeq
  <2> QED
    BY <1>4, <2>1, SubSeqProperties
<1>6. t = s
  BY <1>1, <1>3, <1>5, SeqEqual
<1>7. Len(more) - 1 = n
  BY <1>3
<1> QED
  BY <1>2, <1>3, <1>4, <1>6, <1>7, Zenon DEF Front, Last

\* The z-score of a sample against those before it.
LEMMA ScoreOfNext ==
  ASSUME NEW s \in Seq(Int), Len(s) > 0, NEW x
  PROVE  ZScore(StateOf(s), x) =
           IF Len(s) < min_samples THEN "none"
           ELSE Stand(x * Unit(Len(s)) - WeightedMean(s), WeightedVariance(s), Unit(Len(s)))
<1>1. PICK m, v, k : m = WeightedMean(s) /\ v = WeightedVariance(s) /\ k = Len(s)
  BY Zenon
<1>2. PICK state : state = [mean |-> m, variance |-> v, samples |-> k]
  BY Zenon
<1>3. state.mean = m /\ state.variance = v /\ state.samples = k
  BY <1>2
<1>4. StateOf(s) = state
  BY <1>1, <1>2, Zenon DEF StateOf
<1>5. k >= min_samples <=> ~(k < min_samples)
  BY <1>1, LenProperties, DetectorAssumption
<1>6. ZScore(state, x) =
        IF k >= min_samples THEN Stand(x * Unit(k) - m, v, Unit(k)) ELSE "none"
  BY <1>3, Zenon DEF ZScore
<1> QED
  BY <1>1, <1>4, <1>5, <1>6, Zenon

\* Against a flat past only the sign of the move counts: a move of a whole unit
\* or more is past any threshold of at most 1 / sqrt(kVarianceFloor).
LEMMA StandOfFlat ==
  ASSUME NEW x \in Int, NEW y \in Int, NEW u \in Int, u > 0,
         Threshold * Threshold <= FloorDen
  PROVE  Stand(x * u - y * u, 0, u) =
           IF x = y THEN "mid" ELSE IF x > y THEN "high" ELSE "low"
<1>1. PICK d \in Int : d = x - y
  OBVIOUS
<1>2. PICK delta \in Int : delta = x * u - y * u /\ delta = d * u
  BY <1>1
<1>3. (d = 0 => delta = 0) /\ (d > 0 => delta > 0) /\ (d < 0 => delta < 0)
  <2>1. (d = 0 => d * u = 0) /\ (d > 0 => d * u > 0) /\ (d < 0 => d * u < 0)
    OBVIOUS
  <2> QED
    BY <1>2, <2>1
<1>4. PICK t \in Int : t = Threshold * Threshold /\ t > 0 /\ t <= FloorDen
  <2>1. Threshold \in Int /\ Threshold > 0
    BY DetectorAssumption
  <2>2. Threshold * Threshold \in Int /\ Threshold * Threshold > 0
    BY <2>1
  <2> QED
    BY <2>2
<1>5. PICK q \in Int : q = u * u /\ q > 0
  <2>1. u * u \in Int /\ u * u > 0
    OBVIOUS
  <2> QED
    BY <2>1
<1>6. FloorDen \in Int /\ FloorDen > 0
  BY DetectorAssumption
<1>7. Floored(0, u) = q
  BY <1>5, <1>6 DEF Floored
<1>8. FloorDen * (delta * delta) >= t * q <=> d # 0
  <2>1. CASE d = 0
    <3>1. delta * delta = 0 /\ FloorDen * 0 = 0
      BY <1>3, <1>6, <2>1
    <3>2. t * q > 0
      BY <1>4, <1>5
    <3>3. FloorDen * (delta * delta) = 0
      BY <3>1, Zenon
    <3> QED
      BY <1>4, <1>5, <2>1, <3>2, <3>3
  <2>2. CASE d # 0
    <3>1. PICK e \in Int : e = d * d /\ e >= 1
      <4>1. d * d \in Int /\ d * d >= 1
        BY <2>2
      <4> QED
        BY <4>1
    <3>2. delta * delta = e * q
      <4>1. (d * u) * (d * u) = (d * d) * (u * u)
        OBVIOUS
      <4> QED
        BY <1>2, <1>5, <3>1, <4>1
    <3>3. PICK w \in Int : w = e * q /\ w >= q
      <4>1. e * q \in Int /\ e * q >= q
        BY <1>5, <3>1
      <4> QED
        BY <4>1
    <3>4. FloorDen * w >= t * w
      BY <1>4, <1>5, <1>6, <3>3
    <3>5. t * w >= t * q
      BY <1>4, <1>5, <3>3
    <3>6. FloorDen * w >= t * q
      BY <1>4, <1>5, <1>6, <3>3, <3>4, <3>5
    <3> QED
      BY <2>2, <3>2, <3>3, <3>6
  <2> QED
    BY <2>1, <2>2
<1>9. Stand(delta, 0, u) = IF d = 0 THEN "mid" ELSE IF delta > 0 THEN "high" ELSE "low"
  BY <1>4, <1>7, <1>8, Zenon DEF Stand
<1> QED
  BY <1>1, <1>2, <1>3, <1>9

LEMMA ScoreKeepsInv ==
  ASSUME DetectorInv, NEW feature \in Feature, NEW value \in Value, score(feature, value)
  PROVE  DetectorInv'
<1>1. PICK x \in Int : x = value
  BY DetectorAssumption
<1>2. PICK s \in Seq(Int) : s = history[feature]
  BY DEF DetectorInv
<1>3. PICK k \in Nat : k = Len(s) /\ (k = 0 <=> s = << >>)
  BY EmptySeq, LenProperties
<1>4. PICK more \in Seq(Int) :
        /\ more = Append(s, x) /\ Len(more) = k + 1 /\ more # << >>
        /\ (\A i \in 1 .. k : more[i] = s[i]) /\ more[k + 1] = x
  <2>1. /\ Append(s, x) \in Seq(Int) /\ Len(Append(s, x)) = k + 1
        /\ (\A i \in 1 .. k : Append(s, x)[i] = s[i]) /\ Append(s, x)[k + 1] = x
    BY <1>3, AppendProperties
  <2>2. Append(s, x) # << >>
    BY <1>3, <2>1
  <2> QED
    BY <2>1, <2>2, Zenon
<1>5. PICK old : old = states[feature]
  OBVIOUS
<1>6. old = (IF k = 0 THEN NewState ELSE StateOf(s)) /\ FlatHasNoVariance(s)
  BY <1>2, <1>3, <1>5, Zenon DEF DetectorInv
<1>7. Updated(old, x) = StateOf(more)
  <2>1. CASE k = 0
    <3>1. more = <<x>>
      BY <1>3, <1>4, <2>1
    <3> QED
      BY <1>6, <2>1, <3>1, FirstIsWeighted
  <2>2. CASE k # 0
    BY <1>3, <1>4, <1>6, <2>2, UpdatedIsWeighted
  <2> QED
    BY <2>1, <2>2
<1>8. FlatHasNoVariance(more)
  BY <1>4, <1>6, FlatNext
<1>9. /\ states' = [states EXCEPT ![feature] = StateOf(more)]
      /\ history' = [history EXCEPT ![feature] = more]
      /\ scored' = [feature |-> feature, z |-> ZScore(old, x)]
  BY <1>1, <1>2, <1>4, <1>5, <1>7, Zenon DEF score
<1>10. /\ states' = [f \in Feature |-> states'[f]] /\ history' \in [Feature -> Seq(Int)]
       /\ states'[feature] = StateOf(more) /\ history'[feature] = more
       /\ \A f \in Feature : f # feature =>
            states'[f] = states[f] /\ history'[f] = history[f]
  <2>1. DOMAIN states = Feature /\ DOMAIN history = Feature
    BY Zenon DEF DetectorInv
  <2>2. history' \in [Feature -> Seq(Int)]
    BY <1>9 DEF DetectorInv
  <2> QED
    BY <1>9, <2>1, <2>2, Zenon
<1>11. \A f \in Feature :
         /\ states'[f] = IF history'[f] = << >> THEN NewState ELSE StateOf(history'[f])
         /\ FlatHasNoVariance(history'[f])
  BY <1>4, <1>8, <1>10, Zenon DEF DetectorInv
<1>12. PICK z : z = ZScore(old, x)
  BY Zenon
<1>13. scored'.feature = feature /\ scored'.z = z
  BY <1>9, <1>12
<1>14. Front(more) = s /\ Last(more) = x
  BY <1>4, FrontAndLastOfAppend
<1>15. ASSUME k # 0
       PROVE  z = IF k < min_samples THEN "none"
                  ELSE Stand(x * Unit(k) - WeightedMean(s), WeightedVariance(s), Unit(k))
  BY <1>3, <1>6, <1>12, <1>15, ScoreOfNext
<1>16. Len(more) > 1 <=> k # 0
  BY <1>4
<1>17. ScoredAgainstEarlier'
  BY <1>3, <1>10, <1>13, <1>14, <1>15, <1>16, Zenon DEF ScoredAgainstEarlier
<1>18. ASSUME k + 1 > 1, k + 1 > min_samples, \A i \in 1 .. k : more[i] = more[1],
              Threshold * Threshold <= FloorDen
       PROVE  z = IF more[k + 1] = more[1] THEN "mid"
                  ELSE IF more[k + 1] > more[1] THEN "high" ELSE "low"
  <2>1. k # 0 /\ ~(k < min_samples) /\ 1 \in 1 .. k
    BY <1>18, DetectorAssumption
  <2>2. PICK y \in Int : y = s[1] /\ y = more[1]
    BY <1>3, <1>4, <2>1, ElementOfSeq
  <2>3. Flat(s)
    BY <1>3, <1>4, <1>18, <2>1, <2>2, Zenon DEF Flat
  <2>4. PICK u \in Int : u = Unit(k) /\ u > 0
    BY <2>1, UnitFacts
  <2>5. WeightedMean(s) = y * u /\ WeightedVariance(s) = 0
    BY <1>3, <1>6, <2>1, <2>2, <2>3, <2>4, Zenon DEF FlatHasNoVariance
  <2>6. z = Stand(x * u - y * u, 0, u)
    BY <1>15, <2>1, <2>4, <2>5, Zenon
  <2>7. Stand(x * u - y * u, 0, u) = IF x = y THEN "mid" ELSE IF x > y THEN "high" ELSE "low"
    BY <1>18, <2>4, StandOfFlat
  <2> QED
    BY <1>4, <2>2, <2>6, <2>7, Zenon
<1>19. FlatThenMove'
  <2>1. Len(more) - 1 = k
    BY <1>4
  <2> QED
    BY <1>4, <1>10, <1>13, <1>18, <2>1, Zenon DEF FlatThenMove
<1> QED
  BY <1>10, <1>11, <1>17, <1>19, Zenon DEF DetectorInv

LEMMA DetectorInitOK == Init => DetectorInv
BY NoSamples, UnscoredFits DEF Init, DetectorInv, Unscored

LEMMA DetectorStepOK == DetectorInv /\ [Next]_detectorVars => DetectorInv'
<1> SUFFICES ASSUME DetectorInv, [Next]_detectorVars PROVE DetectorInv'
  OBVIOUS
<1>1. CASE reset
  BY <1>1, NoSamples, UnscoredFitsNext DEF reset, DetectorInv, Unscored
<1>2. ASSUME NEW feature \in Feature, NEW value \in Value, score(feature, value)
      PROVE  DetectorInv'
  BY <1>2, ScoreKeepsInv
<1>3. CASE UNCHANGED detectorVars
  BY <1>3, Zenon DEF detectorVars, DetectorInv, ScoredAgainstEarlier, FlatThenMove
<1> QED
  BY <1>1, <1>2, <1>3 DEF Next

LEMMA DetectorInvHolds == Spec => []DetectorInv
BY DetectorInitOK, DetectorStepOK, PTL DEF Spec

\* The update formula of score() computes the exponentially weighted mean and
\* variance of all samples of the feature since the last reset, for every
\* weight and any number of samples.
THEOREM StatisticsAreTrue == Spec => []StatisticsAreWeighted
<1>1. DetectorInv => StatisticsAreWeighted
  BY Zenon DEF DetectorInv, StatisticsAreWeighted, StateOf
<1> QED
  BY <1>1, DetectorInvHolds, PTL

\* score() measures a sample against the earlier samples only.
THEOREM ScoresAreFair == Spec => []ScoredAgainstEarlier
<1>1. DetectorInv => ScoredAgainstEarlier
  BY DEF DetectorInv
<1> QED
  BY <1>1, DetectorInvHolds, PTL

\* A feature that does not move is never anomalous, and its first move after
\* the warm-up always is.
THEOREM FirstMoveIsSeen == Spec => []FlatThenMove
<1>1. DetectorInv => FlatThenMove
  BY DEF DetectorInv
<1> QED
  BY <1>1, DetectorInvHolds, PTL
=============================================================================
