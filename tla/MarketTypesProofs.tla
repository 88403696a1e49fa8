------------------------- MODULE MarketTypesProofs -------------------------
(* Facts about the vocabulary of MarketTypes that the proofs of both books  *)
(* rest on.                                                                 *)
EXTENDS MarketTypes, SequenceTheorems, FiniteSetTheorems, WellFoundedInduction,
        NaturalsInduction, TLAPS

\* Machine words are closed under unsigned arithmetic.
LEMMA WordClosed ==
  ASSUME NEW a \in Int, NEW b \in Int
  PROVE  Plus(a, b) \in Quantity /\ Minus(a, b) \in Quantity
  BY WordAssumption DEF Quantity, Plus, Minus

\* What std::list::erase leaves of a list.
LEMMA RemoveAtProperties ==
  ASSUME NEW S, NEW q \in Seq(S), NEW i \in 1 .. Len(q)
  PROVE  /\ RemoveAt(q, i) \in Seq(S)
         /\ Len(RemoveAt(q, i)) = Len(q) - 1
         /\ \A j \in 1 .. (Len(q) - 1) :
              RemoveAt(q, i)[j] = IF j < i THEN q[j] ELSE q[j + 1]
<1> DEFINE front == SubSeq(q, 1, i - 1)
           back  == SubSeq(q, i + 1, Len(q))
<1>0. Len(q) \in Nat /\ i \in Int
  BY LenProperties
<1>1. /\ front \in Seq(S) /\ Len(front) = i - 1
      /\ \A j \in 1 .. (i - 1) : front[j] = q[j]
  BY <1>0, SubSeqProperties
<1>2. /\ back \in Seq(S) /\ Len(back) = Len(q) - i
      /\ \A j \in 1 .. (Len(q) - i) : back[j] = q[i + j]
  BY <1>0, SubSeqProperties
<1> HIDE DEF front, back
<1>3. /\ front \o back \in Seq(S)
      /\ Len(front \o back) = Len(q) - 1
      /\ \A j \in 1 .. (Len(q) - 1) :
           (front \o back)[j] = IF j < i THEN q[j] ELSE q[j + 1]
  <2>1. /\ front \o back \in Seq(S)
        /\ Len(front \o back) = Len(front) + Len(back)
        /\ \A j \in 1 .. (Len(front) + Len(back)) : (front \o back)[j] =
             IF j <= Len(front) THEN front[j] ELSE back[j - Len(front)]
    BY <1>1, <1>2, ConcatProperties
  <2>2. ASSUME NEW j \in 1 .. (Len(q) - 1)
        PROVE (front \o back)[j] = IF j < i THEN q[j] ELSE q[j + 1]
    <3>1. CASE j < i
      BY <3>1, <2>1, <1>0, <1>1, <1>2
    <3>2. CASE ~(j < i)
      <4>1. (front \o back)[j] = back[j - (i - 1)]
        BY <3>2, <2>1, <1>0, <1>1, <1>2
      <4>2. j - (i - 1) \in 1 .. (Len(q) - i) /\ i + (j - (i - 1)) = j + 1
        BY <3>2, <1>0
      <4>3. back[j - (i - 1)] = q[i + (j - (i - 1))]
        BY <4>2, <1>2
      <4>4. QED
        BY <3>2, <4>1, <4>2, <4>3
    <3>3. QED
      BY <3>1, <3>2
  <2>3. QED
    BY <2>1, <2>2, <1>0, <1>1, <1>2
<1>4. QED
  BY <1>3 DEF RemoveAt, front, back

\* An entry, and a queue's i-th entry, with the quantity set to q.
ResizedEntry(entry, q) ==
  [order_id |-> entry.order_id, timestamp |-> entry.timestamp, quantity |-> q]

Resized(queue, i, q) == [queue EXCEPT ![i].quantity = q]

LEMMA ResizedEntries ==
  ASSUME NEW queue \in Seq(OrderEntry), NEW i \in 1 .. Len(queue), NEW q \in Quantity
  PROVE  /\ Resized(queue, i, q) \in Seq(OrderEntry)
         /\ Len(Resized(queue, i, q)) = Len(queue)
         /\ Resized(queue, i, q)[i] = ResizedEntry(queue[i], q)
         /\ \A k \in 1 .. Len(queue) : k # i => Resized(queue, i, q)[k] = queue[k]
<1>1. PICK old \in OrderEntry : old = queue[i]
  BY ElementOfSeq
<1>2. /\ ResizedEntry(old, q) \in OrderEntry
      /\ [old EXCEPT !.quantity = q] = ResizedEntry(old, q)
  BY DEF OrderEntry, ResizedEntry
<1>3. Resized(queue, i, q) = [queue EXCEPT ![i] = ResizedEntry(old, q)]
  BY <1>1, <1>2, Zenon DEF Resized
<1>4. PICK entry \in OrderEntry : entry = ResizedEntry(old, q)
  BY <1>2
<1>5. /\ [queue EXCEPT ![i] = entry] \in Seq(OrderEntry)
      /\ Len([queue EXCEPT ![i] = entry]) = Len(queue)
      /\ \A k \in 1 .. Len(queue) :
           [queue EXCEPT ![i] = entry][k] = IF k = i THEN entry ELSE queue[k]
  BY ExceptSeq
<1> QED
  BY <1>1, <1>3, <1>4, <1>5

-----------------------------------------------------------------------------
(* Sums in machine words *)

\* What % Word does to a number less than one word out of range.
LEMMA WordCases ==
  ASSUME NEW a \in Int
  PROVE  /\ a \in 0 .. (Word - 1)             => a % Word = a
         /\ a \in Word .. (Word + Word - 1)   => a % Word = a - Word
         /\ a \in (0 - Word) .. (0 - 1)       => a % Word = a + Word
BY WordAssumption

\* Adding commutes with taking away, and undoes it.
LEMMA WordArithmetic ==
  ASSUME NEW a \in Quantity, NEW b \in Quantity, NEW c \in Quantity
  PROVE  /\ Plus(Minus(a, c), b) = Minus(Plus(a, b), c)
         /\ Minus(Plus(a, b), b) = a
         /\ Minus(a, 0) = a
         /\ c <= b => Plus(a, c) = Minus(Plus(a, b), b - c)
<1> USE WordAssumption
<1>1. /\ Plus(a, b) = IF a + b < Word THEN a + b ELSE a + b - Word
      /\ Plus(a, c) = IF a + c < Word THEN a + c ELSE a + c - Word
      /\ Plus(a, b) \in Quantity /\ Plus(a, c) \in Quantity
  BY WordCases DEF Plus, Quantity
<1>2. ASSUME NEW x \in Quantity, NEW y \in Quantity
      PROVE  /\ Minus(x, y) = IF y <= x THEN x - y ELSE x - y + Word
             /\ Minus(x, y) \in Quantity
  BY WordCases DEF Minus, Quantity
<1>3. ASSUME NEW x \in Quantity, NEW y \in Quantity
      PROVE  Plus(x, y) = IF x + y < Word THEN x + y ELSE x + y - Word
  BY WordCases DEF Plus, Quantity
<1>4. Plus(Minus(a, c), b) = Minus(Plus(a, b), c)
  <2>1. PICK less \in Quantity : less = Minus(a, c)
    BY <1>2
  <2>2. PICK more \in Quantity : more = Plus(a, b)
    BY <1>1
  <2>3. /\ Plus(less, b) = IF less + b < Word THEN less + b ELSE less + b - Word
        /\ Minus(more, c) = IF c <= more THEN more - c ELSE more - c + Word
    BY <1>2, <1>3
  <2>4. /\ less = IF c <= a THEN a - c ELSE a - c + Word
        /\ more = IF a + b < Word THEN a + b ELSE a + b - Word
    BY <1>1, <1>2, <2>1, <2>2
  <2>5. Plus(less, b) = Minus(more, c)
    BY <2>3, <2>4 DEF Quantity
  <2> QED
    BY <2>1, <2>2, <2>5
<1>5. Minus(Plus(a, b), b) = a
  <2>1. PICK more \in Quantity : more = Plus(a, b)
    BY <1>1
  <2>2. Minus(more, b) = IF b <= more THEN more - b ELSE more - b + Word
    BY <1>2
  <2>3. Minus(more, b) = a
    BY <1>1, <2>1, <2>2 DEF Quantity
  <2> QED
    BY <2>1, <2>3
<1>6. Minus(a, 0) = a
  BY <1>2 DEF Quantity
<1>7. ASSUME c <= b PROVE Plus(a, c) = Minus(Plus(a, b), b - c)
  <2>1. b - c \in Quantity
    BY <1>7 DEF Quantity
  <2>2. PICK more \in Quantity : more = Plus(a, b)
    BY <1>1
  <2>3. PICK d \in Quantity : d = b - c
    BY <2>1
  <2>4. Minus(more, d) = IF d <= more THEN more - d ELSE more - d + Word
    BY <1>2
  <2>5. Minus(more, d) = Plus(a, c)
    BY <1>1, <1>7, <2>2, <2>3, <2>4 DEF Quantity
  <2> QED
    BY <2>2, <2>3, <2>5
<1> QED
  BY <1>4, <1>5, <1>6, <1>7

\* A number that is r past a multiple of Word leaves the remainder r.
LEMMA WordRemainder ==
  ASSUME NEW d \in Int, NEW r \in 0 .. (Word - 1)
  PROVE  (Word * d + r) % Word = r
<1> USE WordAssumption
<1>1. PICK x \in Int : x = Word * d + r
  OBVIOUS
<1>2. /\ x % Word \in 0 .. (Word - 1) /\ x \div Word \in Int
      /\ x = Word * (x \div Word) + (x % Word)
  OBVIOUS
<1>3. PICK e \in Int, s \in 0 .. (Word - 1) : s = x % Word /\ x = Word * e + s
  BY <1>2
<1>4. PICK t \in Int : t = d - e
  OBVIOUS
<1>5. Word * t = s - r
  <2>1. Word * d + r = Word * e + s
    BY <1>1, <1>3
  <2>2. Word * (d - e) = Word * d - Word * e /\ Word * d \in Int /\ Word * e \in Int
    OBVIOUS
  <2>3. Word * (d - e) = s - r
    BY <2>1, <2>2
  <2> QED
    BY <1>4, <2>3
<1>6. \A k \in Int : k >= 1 => Word * k >= Word
  OBVIOUS
<1>7. ~(t >= 1)
  BY <1>5, <1>6
<1>8. ~(t <= 0 - 1)
  <2>1. SUFFICES ASSUME t <= 0 - 1 PROVE FALSE
    OBVIOUS
  <2>2. Word * (0 - t) >= Word
    BY <1>6, <2>1
  <2> QED
    BY <1>5, <2>2
<1>9. t = 0
  BY <1>7, <1>8
<1> QED
  BY <1>1, <1>3, <1>5, <1>9

\* Counting in machine words.
LEMMA NextWord ==
  ASSUME NEW n \in Nat
  PROVE  Plus(n % Word, 1) = (n + 1) % Word
<1> USE WordAssumption
<1>1. /\ n % Word \in 0 .. (Word - 1) /\ n \div Word \in Nat
      /\ n = Word * (n \div Word) + (n % Word)
  OBVIOUS
<1>2. PICK r \in 0 .. (Word - 1), d \in Nat : r = n % Word /\ n = Word * d + r
  BY <1>1
<1>3. CASE r < Word - 1
  <2>1. r + 1 \in 0 .. (Word - 1) /\ n + 1 = Word * d + (r + 1)
    BY <1>2, <1>3
  <2>2. (n + 1) % Word = r + 1
    <3>1. \A c \in 0 .. (Word - 1) : (Word * d + c) % Word = c
      BY WordRemainder
    <3>2. (Word * d + (r + 1)) % Word = r + 1
      BY <2>1, <3>1
    <3> QED
      BY <2>1, <3>2
  <2> QED
    BY <1>2, <2>1, <2>2, WordCases DEF Plus
<1>4. CASE r = Word - 1
  <2>1. n + 1 = Word * (d + 1) + 0 /\ r + 1 = Word
    BY <1>2, <1>4
  <2>2. (n + 1) % Word = 0
    BY <2>1, WordRemainder
  <2> QED
    BY <1>2, <2>1, <2>2, WordCases DEF Plus
<1> QED
  BY <1>3, <1>4

\* f holds the running sums of the first n entries of q.
SumsUp(f, q, n) ==
  /\ f \in [0 .. n -> Quantity]
  /\ f[0] = 0
  /\ \A k \in 1 .. n : f[k] = Plus(f[k - 1], q[k].quantity)

LEMMA SumsExist ==
  ASSUME NEW q \in Seq(OrderEntry), NEW N \in 0 .. Len(q)
  PROVE  \E f : SumsUp(f, q, N)
<1> DEFINE T == {n \in 0 .. Len(q) : ~ \E f : SumsUp(f, q, n)}
<1> SUFFICES ASSUME T # {} PROVE FALSE
  OBVIOUS
<1>1. T \subseteq Nat
  OBVIOUS
<1>2. PICK n \in T : \A j \in T : ~(<<j, n>> \in OpToRel(<, Nat))
  BY <1>1, NatLessThanWellFounded, WFMin
<1>3. n \in 0 .. Len(q) /\ Len(q) \in Nat /\ ~ \E f : SumsUp(f, q, n)
  BY LenProperties
<1>4. CASE n = 0
  <2>1. SumsUp([k \in 0 .. 0 |-> 0], q, 0)
    BY WordAssumption DEF SumsUp, Quantity
  <2> QED
    BY <1>3, <1>4, <2>1
<1>5. CASE n # 0
  <2>1. n - 1 \in 0 .. Len(q) /\ n - 1 < n /\ n - 1 \in Nat /\ n \in Nat
    BY <1>3, <1>5
  <2>2. <<n - 1, n>> \in OpToRel(<, Nat)
    BY <2>1 DEF OpToRel
  <2>3. PICK f : SumsUp(f, q, n - 1)
    BY <1>2, <2>1, <2>2
  <2> DEFINE next == Plus(f[n - 1], q[n].quantity)
             g    == [k \in 0 .. n |-> IF k = n THEN next ELSE f[k]]
  <2>4. next \in Quantity
    <3>1. n \in 1 .. Len(q) /\ n - 1 \in 0 .. (n - 1)
      BY <1>3, <1>5, <2>1
    <3>2. f[n - 1] \in Quantity
      BY <2>3, <3>1 DEF SumsUp
    <3>3. q[n] \in OrderEntry
      BY <3>1, ElementOfSeq
    <3>4. f[n - 1] \in Int /\ q[n].quantity \in Int
      BY <3>2, <3>3, WordAssumption DEF OrderEntry, Quantity
    <3> QED
      BY <3>4, WordClosed
  <2>5. SumsUp(g, q, n)
    BY <1>3, <1>5, <2>1, <2>3, <2>4 DEF SumsUp
  <2> QED
    BY <1>3, <2>5
<1> QED
  BY <1>4, <1>5

\* Running sums are determined by the recursion.
AddsUp(f, q, n) ==
  f[0] = 0 /\ \A k \in 1 .. n : f[k] = Plus(f[k - 1], q[k].quantity)

LEMMA SumsAreUnique ==
  ASSUME NEW q, NEW N \in Nat, NEW f, NEW g, AddsUp(f, q, N), AddsUp(g, q, N)
  PROVE  \A k \in 0 .. N : f[k] = g[k]
<1> DEFINE T == {k \in 0 .. N : f[k] # g[k]}
<1> SUFFICES ASSUME T # {} PROVE FALSE
  OBVIOUS
<1>1. T \subseteq Nat
  OBVIOUS
<1>2. PICK k \in T : \A j \in T : ~(<<j, k>> \in OpToRel(<, Nat))
  BY <1>1, NatLessThanWellFounded, WFMin
<1>3. k \in 0 .. N /\ f[k] # g[k]
  OBVIOUS
<1>4. k # 0
  BY <1>3 DEF AddsUp
<1>5. k - 1 \in 0 .. N /\ k - 1 < k /\ k - 1 \in Nat /\ k \in Nat /\ k \in 1 .. N
  BY <1>3, <1>4
<1>6. <<k - 1, k>> \in OpToRel(<, Nat)
  BY <1>5 DEF OpToRel
<1>7. f[k - 1] = g[k - 1]
  BY <1>2, <1>5, <1>6
<1> QED
  BY <1>3, <1>5, <1>7 DEF AddsUp

\* The recursion of RunningSum has a solution: it is the running sums.
LEMMA RunningSums ==
  ASSUME NEW q \in Seq(OrderEntry)
  PROVE  SumsUp(RunningSum(q), q, Len(q))
<1> DEFINE Solves(f) == f = [k \in 0 .. Len(q) |->
                               IF k = 0 THEN 0 ELSE Plus(f[k - 1], q[k].quantity)]
<1>1. Len(q) \in Nat
  BY LenProperties
<1>2. PICK f : SumsUp(f, q, Len(q))
  BY <1>1, SumsExist
<1>3. Solves(f)
  BY <1>1, <1>2 DEF SumsUp
<1>4. RunningSum(q) = CHOOSE g : Solves(g)
  BY DEF RunningSum
<1>5. Solves(RunningSum(q))
  BY <1>3, <1>4
<1> DEFINE R == RunningSum(q)
<1>6. DOMAIN R = 0 .. Len(q) /\ R = [k \in 0 .. Len(q) |-> R[k]]
  BY <1>5
<1>7. AddsUp(R, q, Len(q))
  BY <1>1, <1>5 DEF AddsUp
<1>8. AddsUp(f, q, Len(q))
  BY <1>2 DEF AddsUp, SumsUp
<1> HIDE DEF R, Solves
<1>9. \A k \in 0 .. Len(q) : f[k] = R[k]
  BY <1>1, <1>7, <1>8, SumsAreUnique
<1>10. R = f
  BY <1>2, <1>6, <1>9 DEF SumsUp
<1> QED
  BY <1>2, <1>10 DEF R

\* f and g hold the sums of q and r; r has, past its first a entries, the units
\* that q has past its first b ones, for m entries.
SameUnits(q, f, b, r, g, a, m) ==
  /\ q \in Seq(OrderEntry) /\ r \in Seq(OrderEntry)
  /\ SumsUp(f, q, Len(q)) /\ SumsUp(g, r, Len(r))
  /\ a \in Nat /\ b \in Nat /\ m \in Nat
  /\ a + m <= Len(r) /\ b + m <= Len(q)
  /\ \A k \in 1 .. m : r[a + k].quantity = q[b + k].quantity

\* Sums over the same units stay apart by what they were apart before them.
LEMMA SumsStayApart ==
  ASSUME NEW q, NEW f, NEW b, NEW r, NEW g, NEW a, NEW m, SameUnits(q, f, b, r, g, a, m),
         NEW d \in Quantity, g[a] = Minus(f[b], d)
  PROVE  g[a + m] = Minus(f[b + m], d)
<1> SUFFICES \A k \in 0 .. m : g[a + k] = Minus(f[b + k], d)
  BY DEF SameUnits
<1>0. /\ q \in Seq(OrderEntry) /\ r \in Seq(OrderEntry)
      /\ SumsUp(f, q, Len(q)) /\ SumsUp(g, r, Len(r))
      /\ a \in Nat /\ b \in Nat /\ m \in Nat
      /\ a + m <= Len(r) /\ b + m <= Len(q)
  BY DEF SameUnits
<1> DEFINE T == {k \in 0 .. m : g[a + k] # Minus(f[b + k], d)}
<1> SUFFICES ASSUME T # {} PROVE FALSE
  OBVIOUS
<1>1. T \subseteq Nat
  OBVIOUS
<1>2. PICK k \in T : \A j \in T : ~(<<j, k>> \in OpToRel(<, Nat))
  BY <1>1, NatLessThanWellFounded, WFMin
<1>3. k \in 0 .. m /\ g[a + k] # Minus(f[b + k], d) /\ Len(q) \in Nat /\ Len(r) \in Nat
  BY <1>0, LenProperties
<1>4. k # 0
  BY <1>0, <1>3
<1>5. /\ k - 1 \in 0 .. m /\ k - 1 < k /\ k - 1 \in Nat /\ k \in Nat /\ k \in 1 .. m
      /\ a + k \in 1 .. Len(r) /\ b + k \in 1 .. Len(q) /\ b + (k - 1) \in 0 .. Len(q)
      /\ a + k - 1 = a + (k - 1) /\ b + k - 1 = b + (k - 1)
  BY <1>0, <1>3, <1>4
<1>6. <<k - 1, k>> \in OpToRel(<, Nat)
  BY <1>5 DEF OpToRel
<1>7. g[a + (k - 1)] = Minus(f[b + (k - 1)], d)
  BY <1>2, <1>5, <1>6
<1>8. q[b + k] \in OrderEntry
  BY <1>0, <1>5, ElementOfSeq
<1>9. PICK units \in Quantity : units = q[b + k].quantity
  BY <1>8 DEF OrderEntry
<1>10. PICK before \in Quantity : before = f[b + (k - 1)]
  BY <1>0, <1>5 DEF SumsUp
<1>11. f[b + k] = Plus(before, units)
  <2>1. f[b + k] = Plus(f[b + k - 1], q[b + k].quantity)
    BY <1>0, <1>5 DEF SumsUp
  <2> QED
    BY <2>1, <1>5, <1>9, <1>10
<1>12. g[a + k] = Plus(Minus(before, d), units)
  <2>1. g[a + k] = Plus(g[a + k - 1], r[a + k].quantity)
    BY <1>0, <1>5 DEF SumsUp
  <2>2. r[a + k].quantity = units
    BY <1>5, <1>9 DEF SameUnits
  <2> QED
    BY <2>1, <2>2, <1>5, <1>7, <1>10
<1> QED
  BY <1>3, <1>11, <1>12, WordArithmetic

\* Before their first difference two queues have the same sums.
LEMMA SumsStartAlike ==
  ASSUME NEW q, NEW f, NEW r, NEW g, NEW m, SameUnits(q, f, 0, r, g, 0, m)
  PROVE  g[m] = f[m] /\ f[m] \in Quantity
<1>1. /\ SumsUp(f, q, Len(q)) /\ SumsUp(g, r, Len(r))
      /\ m \in Nat /\ 0 + m = m /\ m \in 0 .. Len(q) /\ 0 \in 0 .. Len(q)
  <2>1. q \in Seq(OrderEntry) /\ m \in Nat /\ 0 + m <= Len(q)
    BY DEF SameUnits
  <2> QED
    BY <2>1, LenProperties DEF SameUnits
<1>2. f[0] \in Quantity /\ f[m] \in Quantity /\ g[0] = f[0]
  BY <1>1 DEF SumsUp
<1>3. 0 \in Quantity
  BY WordAssumption DEF Quantity
<1>4. g[0] = Minus(f[0], 0)
  BY <1>2, WordArithmetic
<1>5. g[0 + m] = Minus(f[0 + m], 0)
  BY <1>3, <1>4, SumsStayApart
<1> QED
  BY <1>1, <1>2, <1>5, WordArithmetic

\* The units at a level after push_back, erase and a smaller quantity.
LEMMA SumAfterAppend ==
  ASSUME NEW q \in Seq(OrderEntry), NEW e \in OrderEntry
  PROVE  WordSum(Append(q, e)) = Plus(WordSum(q), e.quantity)
<1> DEFINE r == Append(q, e)
           n == Len(q)
<1>1. /\ r \in Seq(OrderEntry) /\ Len(r) = n + 1 /\ n \in Nat
      /\ r[n + 1] = e /\ \A k \in 1 .. n : r[k] = q[k]
  BY AppendProperties, LenProperties
<1> HIDE DEF r, n
<1>2. PICK f : f = RunningSum(q) /\ SumsUp(f, q, Len(q))
  BY RunningSums
<1>3. PICK g : g = RunningSum(r) /\ SumsUp(g, r, Len(r))
  BY <1>1, RunningSums
<1>4. SameUnits(q, f, 0, r, g, 0, n)
  <2>1. n = Len(q)
    BY DEF n
  <2> QED
    BY <1>1, <1>2, <1>3, <2>1 DEF SameUnits
<1>5. g[n] = f[n]
  BY <1>4, SumsStartAlike
<1>6. g[n + 1] = Plus(g[n], e.quantity)
  BY <1>1, <1>3 DEF SumsUp
<1>7. WordSum(q) = f[n] /\ WordSum(r) = g[n + 1]
  BY <1>1, <1>2, <1>3 DEF WordSum, n
<1> QED
  BY <1>5, <1>6, <1>7 DEF r

LEMMA SumAfterRemove ==
  ASSUME NEW q \in Seq(OrderEntry), NEW i \in 1 .. Len(q)
  PROVE  WordSum(RemoveAt(q, i)) = Minus(WordSum(q), q[i].quantity)
<1>1. PICK n \in Nat : n = Len(q)
  BY LenProperties
<1>2. PICK r \in Seq(OrderEntry) :
        /\ r = RemoveAt(q, i) /\ Len(r) = n - 1
        /\ \A k \in 1 .. (n - 1) : r[k] = IF k < i THEN q[k] ELSE q[k + 1]
  BY <1>1, RemoveAtProperties
<1>3. q[i] \in OrderEntry
  BY ElementOfSeq
<1>4. PICK units \in Quantity : units = q[i].quantity
  BY <1>3 DEF OrderEntry
<1>5. PICK f : f = RunningSum(q) /\ SumsUp(f, q, Len(q))
  BY RunningSums
<1>6. PICK g : g = RunningSum(r) /\ SumsUp(g, r, Len(r))
  BY RunningSums
<1>7. PICK a \in Nat : a = i - 1
  BY <1>1
<1>8. PICK m \in Nat : m = n - i
  <2>1. n - i \in Nat
    BY <1>1
  <2> QED
    BY <2>1
<1>9. /\ i \in Nat /\ i \in 1 .. n /\ a <= Len(r) /\ a <= Len(q) /\ a + m <= Len(r)
      /\ i + m <= Len(q) /\ a + m = n - 1 /\ i + m = n /\ m \in 0 .. m
  BY <1>1, <1>2, <1>7, <1>8
<1>10. g[a] = f[a] /\ f[a] \in Quantity
  <2>1. \A k \in 1 .. a : 0 + k = k /\ k < i /\ k \in 1 .. (n - 1)
    BY <1>7, <1>9
  <2>2. \A k \in 1 .. a : r[0 + k].quantity = q[0 + k].quantity
    BY <1>2, <2>1
  <2>3. SameUnits(q, f, 0, r, g, 0, a)
    BY <1>5, <1>6, <1>9, <2>2 DEF SameUnits
  <2> QED
    BY <2>3, SumsStartAlike
<1>11. g[a] = Minus(f[i], units)
  <2>1. f[i] = Plus(f[a], units)
    BY <1>1, <1>4, <1>5, <1>7, <1>9 DEF SumsUp
  <2> QED
    BY <1>4, <1>10, <2>1, WordArithmetic
<1>12. SameUnits(q, f, i, r, g, a, m)
  <2>1. ASSUME NEW k \in 1 .. m
        PROVE  a + k \in 1 .. (n - 1) /\ ~(a + k < i) /\ a + k + 1 = i + k
    BY <1>7, <1>8, <1>9
  <2>2. \A k \in 1 .. m : r[a + k].quantity = q[i + k].quantity
    BY <1>2, <2>1
  <2> QED
    BY <1>5, <1>6, <1>9, <2>2 DEF SameUnits
<1>13. g[a + m] = Minus(f[i + m], units)
  BY <1>11, <1>12, SumsStayApart
<1>14. g[n - 1] = Minus(f[n], units)
  BY <1>9, <1>13
<1>15. WordSum(q) = f[n] /\ WordSum(r) = g[n - 1]
  BY <1>1, <1>2, <1>5, <1>6 DEF WordSum
<1> QED
  BY <1>2, <1>4, <1>14, <1>15

LEMMA SumAfterResize ==
  ASSUME NEW q \in Seq(OrderEntry), NEW i \in 1 .. Len(q), NEW left \in Quantity,
         left <= q[i].quantity
  PROVE  WordSum(Resized(q, i, left)) = Minus(WordSum(q), q[i].quantity - left)
<1>1. PICK n \in Nat : n = Len(q)
  BY LenProperties
<1>2. PICK r \in Seq(OrderEntry) :
        /\ r = Resized(q, i, left) /\ Len(r) = n /\ r[i].quantity = left
        /\ \A k \in 1 .. n : k # i => r[k] = q[k]
  <2>1. ResizedEntry(q[i], left).quantity = left
    BY DEF ResizedEntry
  <2> QED
    BY <1>1, <2>1, ResizedEntries
<1>0. q[i] \in OrderEntry
  BY ElementOfSeq
<1>3. PICK old \in Quantity : old = q[i].quantity
  BY <1>0 DEF OrderEntry
<1>4. PICK new \in Quantity : new = left /\ new = r[i].quantity
  BY <1>2
<1>5. PICK f : f = RunningSum(q) /\ SumsUp(f, q, Len(q))
  BY RunningSums
<1>6. PICK g : g = RunningSum(r) /\ SumsUp(g, r, Len(r))
  BY RunningSums
<1>7. PICK a \in Nat : a = i - 1
  BY <1>1
<1>8. PICK m \in Nat : m = n - i
  <2>1. n - i \in Nat
    BY <1>1
  <2> QED
    BY <2>1
<1>9. /\ i \in Nat /\ i \in 1 .. n /\ a <= Len(r) /\ a <= Len(q)
      /\ i + m <= Len(r) /\ i + m <= Len(q) /\ i + m = n /\ m \in 0 .. m
  BY <1>1, <1>2, <1>7, <1>8
<1>10. g[a] = f[a] /\ f[a] \in Quantity
  <2>1. \A k \in 1 .. a : 0 + k = k /\ k # i /\ k \in 1 .. n
    BY <1>7, <1>9
  <2>2. \A k \in 1 .. a : r[0 + k].quantity = q[0 + k].quantity
    BY <1>2, <2>1
  <2>3. SameUnits(q, f, 0, r, g, 0, a)
    BY <1>5, <1>6, <1>9, <2>2 DEF SameUnits
  <2> QED
    BY <2>3, SumsStartAlike
<1>11. PICK units \in Quantity : units = old - new
  BY <1>3, <1>4, WordAssumption DEF Quantity
<1>12. g[i] = Minus(f[i], units)
  <2>1. f[i] = Plus(f[a], old) /\ g[i] = Plus(g[a], new)
    BY <1>1, <1>2, <1>3, <1>4, <1>5, <1>6, <1>7, <1>9 DEF SumsUp
  <2>2. new <= old
    BY <1>3, <1>4
  <2>3. PICK before \in Quantity : before = f[a] /\ before = g[a]
    BY <1>10
  <2>4. Plus(before, new) = Minus(Plus(before, old), old - new)
    BY <2>2, WordArithmetic
  <2> QED
    BY <1>11, <2>1, <2>3, <2>4
<1>13. SameUnits(q, f, i, r, g, i, m)
  <2>1. ASSUME NEW k \in 1 .. m PROVE i + k \in 1 .. n /\ i + k # i
    BY <1>9
  <2>2. \A k \in 1 .. m : r[i + k].quantity = q[i + k].quantity
    BY <1>2, <2>1
  <2> QED
    BY <1>5, <1>6, <1>9, <2>2 DEF SameUnits
<1>14. g[i + m] = Minus(f[i + m], units)
  BY <1>12, <1>13, SumsStayApart
<1>15. g[n] = Minus(f[n], units)
  BY <1>9, <1>14
<1>16. WordSum(q) = f[n] /\ WordSum(r) = g[n]
  BY <1>1, <1>2, <1>5, <1>6 DEF WordSum
<1> QED
  BY <1>2, <1>3, <1>4, <1>11, <1>15, <1>16

\* Nothing rests in an empty queue.
LEMMA SumOfNone == WordSum(<< >>) = 0
<1>1. << >> \in Seq(OrderEntry) /\ Len(<< >>) = 0
  OBVIOUS
<1>2. SumsUp(RunningSum(<< >>), << >>, Len(<< >>))
  BY <1>1, RunningSums
<1> QED
  BY <1>1, <1>2 DEF WordSum, SumsUp

-----------------------------------------------------------------------------
(* Counts and sums of a queue, taken from its set of orders *)

DistinctIds(queue) ==
  \A i, j \in 1 .. Len(queue) : queue[i].order_id = queue[j].order_id => i = j

IdSet(queue) == {queue[i].order_id : i \in 1 .. Len(queue)}

LEMMA IdsCounted ==
  ASSUME NEW q \in Seq(OrderEntry), DistinctIds(q)
  PROVE  IsFiniteSet(IdSet(q)) /\ Cardinality(IdSet(q)) = Len(q)
<1>1. Len(q) \in Nat
  BY LenProperties
<1>2. IsFiniteSet(1 .. Len(q)) /\ Cardinality(1 .. Len(q)) = Len(q)
  BY <1>1, FS_Interval
<1>3. [i \in 1 .. Len(q) |-> q[i].order_id] \in Bijection(1 .. Len(q), IdSet(q))
  BY DEF Bijection, Injection, Surjection, IsInjective, IdSet, DistinctIds
<1> QED
  BY <1>2, <1>3, FS_Bijection DEF ExistsBijection

\* A queue in which only the orders in ids have units.
Masked(queue, ids) ==
  [i \in 1 .. Len(queue) |->
     IF queue[i].order_id \in ids THEN queue[i] ELSE ResizedEntry(queue[i], 0)]

LEMMA MaskedIsQueue ==
  ASSUME NEW q \in Seq(OrderEntry), NEW ids
  PROVE  /\ Masked(q, ids) \in Seq(OrderEntry) /\ Len(Masked(q, ids)) = Len(q)
         /\ \A i \in 1 .. Len(q) : Masked(q, ids)[i] =
              IF q[i].order_id \in ids THEN q[i] ELSE ResizedEntry(q[i], 0)
<1>1. Len(q) \in Nat
  BY LenProperties
<1>2. ASSUME NEW i \in 1 .. Len(q)
      PROVE  q[i] \in OrderEntry /\ ResizedEntry(q[i], 0) \in OrderEntry
  <2>1. q[i] \in OrderEntry
    BY ElementOfSeq
  <2> QED
    BY <2>1, WordAssumption DEF OrderEntry, ResizedEntry, Quantity
<1>3. Masked(q, ids) \in [1 .. Len(q) -> OrderEntry]
  BY <1>2 DEF Masked
<1>4. Masked(q, ids) \in Seq(OrderEntry)
  BY <1>1, <1>3, SeqDef
<1>5. Len(Masked(q, ids)) = Len(q)
  BY <1>1, <1>3, <1>4, LenProperties
<1> QED
  BY <1>4, <1>5 DEF Masked

LEMMA MaskedAll ==
  ASSUME NEW q \in Seq(OrderEntry)
  PROVE  Masked(q, IdSet(q)) = q
<1>1. q = [i \in 1 .. Len(q) |-> q[i]]
  BY LenProperties
<1>2. \A i \in 1 .. Len(q) : q[i].order_id \in IdSet(q)
  BY DEF IdSet
<1> QED
  BY <1>1, <1>2 DEF Masked

LEMMA MaskedNone ==
  ASSUME NEW q \in Seq(OrderEntry)
  PROVE  WordSum(Masked(q, {})) = 0
<1>1. PICK r \in Seq(OrderEntry) :
        /\ r = Masked(q, {}) /\ Len(r) = Len(q)
        /\ \A i \in 1 .. Len(q) : r[i].quantity = 0
  <2>1. PICK r \in Seq(OrderEntry) :
          /\ r = Masked(q, {}) /\ Len(r) = Len(q)
          /\ \A i \in 1 .. Len(q) : r[i] = ResizedEntry(q[i], 0)
    BY MaskedIsQueue
  <2>2. \A i \in 1 .. Len(q) : r[i].quantity = 0
    <3>1. \A e : ResizedEntry(e, 0).quantity = 0
      BY DEF ResizedEntry
    <3> QED
      BY <2>1, <3>1
  <2> QED
    BY <2>1, <2>2
<1>2. Len(r) \in Nat
  BY LenProperties
<1>3. AddsUp([k \in 0 .. Len(r) |-> 0], r, Len(r))
  BY <1>1, <1>2, WordAssumption DEF AddsUp, Plus
<1>4. AddsUp(RunningSum(r), r, Len(r))
  BY RunningSums DEF AddsUp, SumsUp
<1>5. \A k \in 0 .. Len(r) : RunningSum(r)[k] = [j \in 0 .. Len(r) |-> 0][k]
  BY <1>2, <1>3, <1>4, SumsAreUnique
<1> QED
  BY <1>1, <1>2, <1>5 DEF WordSum

\* Without one of its orders a set has that order's units less.
LEMMA MaskedOneLess ==
  ASSUME NEW q \in Seq(OrderEntry), DistinctIds(q), NEW ids, NEW i \in 1 .. Len(q),
         q[i].order_id \in ids
  PROVE  WordSum(Masked(q, ids)) =
           Plus(WordSum(Masked(q, ids \ {q[i].order_id})), q[i].quantity)
<1>1. PICK r \in Seq(OrderEntry) :
        /\ r = Masked(q, ids) /\ Len(r) = Len(q)
        /\ \A k \in 1 .. Len(q) : r[k] =
             IF q[k].order_id \in ids THEN q[k] ELSE ResizedEntry(q[k], 0)
  BY MaskedIsQueue
<1>2. PICK s \in Seq(OrderEntry) :
        /\ s = Masked(q, ids \ {q[i].order_id}) /\ Len(s) = Len(q)
        /\ \A k \in 1 .. Len(q) : s[k] =
             IF q[k].order_id \in ids \ {q[i].order_id}
             THEN q[k] ELSE ResizedEntry(q[k], 0)
  BY MaskedIsQueue
<1>3. Len(q) \in Nat /\ q[i] \in OrderEntry /\ 0 \in Quantity
  BY LenProperties, ElementOfSeq, WordAssumption DEF Quantity
<1>4. PICK units \in Quantity : units = q[i].quantity
  BY <1>3 DEF OrderEntry
<1>5. r[i] = q[i] /\ s[i] = ResizedEntry(q[i], 0)
  BY <1>1, <1>2
<1>6. \A k \in 1 .. Len(q) : k # i => s[k] = r[k]
  BY <1>1, <1>2 DEF DistinctIds
<1>7. s = Resized(r, i, 0)
  <2>1. PICK t \in Seq(OrderEntry) :
          /\ t = Resized(r, i, 0) /\ Len(t) = Len(q) /\ t[i] = ResizedEntry(r[i], 0)
          /\ \A k \in 1 .. Len(q) : k # i => t[k] = r[k]
    <3>1. i \in 1 .. Len(r)
      BY <1>1
    <3>2. /\ Resized(r, i, 0) \in Seq(OrderEntry) /\ Len(Resized(r, i, 0)) = Len(r)
          /\ Resized(r, i, 0)[i] = ResizedEntry(r[i], 0)
          /\ \A k \in 1 .. Len(r) : k # i => Resized(r, i, 0)[k] = r[k]
      BY <1>3, <3>1, ResizedEntries
    <3> QED
      BY <1>1, <3>2
  <2>2. \A k \in 1 .. Len(q) : s[k] = t[k]
    BY <1>5, <1>6, <2>1
  <2>3. s = t
    BY <1>2, <2>1, <2>2, SeqEqual
  <2> QED
    BY <2>1, <2>3
<1>8. WordSum(s) = Minus(WordSum(r), units - 0)
  <2>1. 0 <= r[i].quantity /\ r[i].quantity = units
    BY <1>4, <1>5 DEF Quantity
  <2>2. i \in 1 .. Len(r)
    BY <1>1
  <2>3. WordSum(Resized(r, i, 0)) = Minus(WordSum(r), r[i].quantity - 0)
    BY <1>3, <2>1, <2>2, SumAfterResize
  <2> QED
    BY <1>7, <2>1, <2>3
<1>9. PICK sum \in Quantity : sum = WordSum(r)
  BY <1>3, <1>1, RunningSums DEF WordSum, SumsUp
<1>10. Plus(Minus(sum, units), units) = sum
  <2>1. Plus(Minus(sum, units), units) = Minus(Plus(sum, units), units)
    BY WordArithmetic
  <2> QED
    BY <2>1, WordArithmetic
<1>11. units - 0 = units
  BY WordAssumption DEF Quantity
<1> QED
  BY <1>1, <1>2, <1>4, <1>8, <1>9, <1>10, <1>11

\* The recursion of UnitsOnRecord over the orders of a queue: what it gives for
\* a set of orders is what their entries hold.
TakesUnits(f, records, ids) ==
  f = [s \in SUBSET ids |->
         IF s = {} THEN 0
         ELSE Plus(f[s \ {CHOOSE x \in s : TRUE}],
                   records[CHOOSE x \in s : TRUE].quantity)]

LEMMA UnitsStep ==
  ASSUME NEW ids, NEW records, NEW f, TakesUnits(f, records, ids), NEW s \in SUBSET ids
  PROVE  f[s] = IF s = {} THEN 0
                ELSE Plus(f[s \ {CHOOSE x \in s : TRUE}],
                          records[CHOOSE x \in s : TRUE].quantity)
<1> DEFINE Value(t) == IF t = {} THEN 0
                       ELSE Plus(f[t \ {CHOOSE x \in t : TRUE}],
                                 records[CHOOSE x \in t : TRUE].quantity)
<1>1. f = [t \in SUBSET ids |-> Value(t)]
  BY Zenon DEF TakesUnits
<1> HIDE DEF Value
<1>2. f[s] = Value(s)
  BY <1>1
<1> QED
  BY <1>2 DEF Value

LEMMA UnitsUnique ==
  ASSUME NEW ids, IsFiniteSet(ids), NEW records, NEW f, NEW g,
         TakesUnits(f, records, ids), TakesUnits(g, records, ids)
  PROVE  f[ids] = g[ids]
<1> DEFINE T == {n \in Nat : \E s \in SUBSET ids : Cardinality(s) = n /\ f[s] # g[s]}
<1>0. ASSUME NEW s \in SUBSET ids
      PROVE  IsFiniteSet(s) /\ Cardinality(s) \in Nat
  BY FS_Subset, FS_CardinalityType
<1> SUFFICES ASSUME T # {} PROVE FALSE
  <2>1. ids \in SUBSET ids
    OBVIOUS
  <2> QED
    BY <1>0, <2>1
<1>1. T \subseteq Nat
  OBVIOUS
<1>2. PICK n \in T : \A j \in T : ~(<<j, n>> \in OpToRel(<, Nat))
  BY <1>1, NatLessThanWellFounded, WFMin
<1>3. PICK s \in SUBSET ids : n \in Nat /\ Cardinality(s) = n /\ f[s] # g[s]
  OBVIOUS
<1>4. f[{}] = 0 /\ g[{}] = 0
  BY DEF TakesUnits
<1>5. s # {}
  BY <1>3, <1>4
<1>6. PICK x : x = CHOOSE y \in s : TRUE
  OBVIOUS
<1>7. x \in s
  BY <1>5, <1>6
<1>8. /\ f[s] = Plus(f[s \ {x}], records[x].quantity)
      /\ g[s] = Plus(g[s \ {x}], records[x].quantity)
  BY <1>5, <1>6, UnitsStep
<1>9. Cardinality(s \ {x}) = n - 1 /\ s \ {x} \in SUBSET ids /\ n - 1 \in Nat
  BY <1>0, <1>3, <1>7, FS_RemoveElement
<1>10. <<n - 1, n>> \in OpToRel(<, Nat)
  BY <1>3, <1>9 DEF OpToRel
<1>11. n - 1 \notin T
  BY <1>2, <1>10
<1>12. f[s \ {x}] = g[s \ {x}]
  BY <1>9, <1>11
<1> QED
  BY <1>3, <1>8, <1>12

LEMMA UnitsOfQueue ==
  ASSUME NEW q \in Seq(OrderEntry), DistinctIds(q), NEW records,
         \A i \in 1 .. Len(q) : records[q[i].order_id].quantity = q[i].quantity
  PROVE  UnitsOnRecord(records, IdSet(q)) = WordSum(q)
<1> DEFINE ids == IdSet(q)
           g == [s \in SUBSET ids |-> WordSum(Masked(q, s))]
<1>1. TakesUnits(g, records, ids)
  <2>1. ASSUME NEW s \in SUBSET ids, s # {}
        PROVE  g[s] = Plus(g[s \ {CHOOSE x \in s : TRUE}],
                           records[CHOOSE x \in s : TRUE].quantity)
    <3>1. PICK x : x = CHOOSE y \in s : TRUE
      OBVIOUS
    <3>2. x \in s
      BY <2>1, <3>1
    <3>3. PICK i \in 1 .. Len(q) : x = q[i].order_id
      BY <3>2 DEF IdSet
    <3>4. WordSum(Masked(q, s)) = Plus(WordSum(Masked(q, s \ {x})), records[x].quantity)
      <4>1. WordSum(Masked(q, s)) =
              Plus(WordSum(Masked(q, s \ {q[i].order_id})), q[i].quantity)
        BY <3>2, <3>3, MaskedOneLess
      <4>2. records[x].quantity = q[i].quantity
        BY <3>3
      <4> QED
        BY <3>3, <4>1, <4>2, Zenon
    <3>5. g[s] = WordSum(Masked(q, s)) /\ g[s \ {x}] = WordSum(Masked(q, s \ {x}))
      BY <2>1
    <3> QED
      BY <3>1, <3>4, <3>5, Zenon
  <2>2. g[{}] = 0
    BY MaskedNone
  <2> HIDE DEF ids
  <2>3. g = [s \in SUBSET ids |-> g[s]]
    OBVIOUS
  <2>4. \A s \in SUBSET ids : g[s] =
          IF s = {} THEN 0
          ELSE Plus(g[s \ {CHOOSE x \in s : TRUE}],
                    records[CHOOSE x \in s : TRUE].quantity)
    BY <2>1, <2>2, Zenon
  <2> HIDE DEF g
  <2> QED
    BY <2>3, <2>4, Zenon DEF TakesUnits
<1>2. g[ids] = WordSum(q)
  BY MaskedAll
<1> HIDE DEF g, ids
<1>3. PICK h : h = CHOOSE f : TakesUnits(f, records, ids)
  OBVIOUS
<1>4. TakesUnits(h, records, ids)
  BY <1>1, <1>3, Zenon
<1>5. UnitsOnRecord(records, ids) = h[ids]
  BY <1>3, Zenon DEF UnitsOnRecord, FoldSet, MapThenFoldSet, TakesUnits
<1>6. IsFiniteSet(ids)
  BY IdsCounted DEF ids
<1>7. h[ids] = g[ids]
  BY <1>1, <1>4, <1>6, UnitsUnique
<1> QED
  BY <1>2, <1>5, <1>7 DEF ids

-----------------------------------------------------------------------------
(* Prices, best first *)

LEMMA BetterOrders ==
  ASSUME NEW side, NEW p \in Int, NEW q \in Int, NEW r \in Int
  PROVE  /\ Better(side, p, q) \/ Better(side, q, p) \/ p = q
         /\ ~(Better(side, p, q) /\ Better(side, q, p)) /\ ~Better(side, p, p)
         /\ Better(side, p, q) /\ Better(side, q, r) => Better(side, p, r)
BY DEF Better

LEMMA WorstExists ==
  ASSUME NEW side, NEW S \in SUBSET Int, IsFiniteSet(S), S # {}
  PROVE  \E w \in S : \A p \in S : p = w \/ Better(side, p, w)
<1> DEFINE HasWorst(X) == \E w \in X : \A p \in X : p = w \/ Better(side, p, w)
           T == {n \in Nat : \E X \in SUBSET S : /\ X # {} /\ Cardinality(X) = n
                                                 /\ ~HasWorst(X)}
<1>0. ASSUME NEW X \in SUBSET S
      PROVE  IsFiniteSet(X) /\ Cardinality(X) \in Nat
  BY FS_Subset, FS_CardinalityType
<1> SUFFICES ASSUME T # {} PROVE FALSE
  <2>1. S \in SUBSET S
    OBVIOUS
  <2> QED
    BY <1>0, <2>1
<1>1. T \subseteq Nat
  OBVIOUS
<1>2. PICK n \in T : \A j \in T : ~(<<j, n>> \in OpToRel(<, Nat))
  BY <1>1, NatLessThanWellFounded, WFMin
<1>3. PICK X \in SUBSET S : n \in Nat /\ X # {} /\ Cardinality(X) = n /\ ~HasWorst(X)
  OBVIOUS
<1>4. PICK x \in X : TRUE
  BY <1>3
<1>5. Cardinality(X \ {x}) = n - 1 /\ n - 1 \in Nat /\ X \ {x} \in SUBSET S
  <2>1. X \ {x} \in SUBSET S
    OBVIOUS
  <2>2. Cardinality(X \ {x}) \in Nat
    BY <1>0, <2>1
  <2>3. Cardinality(X \ {x}) = Cardinality(X) - 1
    BY <1>0, <1>4, FS_RemoveElement
  <2> QED
    BY <1>3, <2>1, <2>2, <2>3
<1>6. <<n - 1, n>> \in OpToRel(<, Nat)
  BY <1>3, <1>5 DEF OpToRel
<1>7. n - 1 \notin T
  BY <1>2, <1>6
<1>8. CASE X \ {x} = {}
  BY <1>3, <1>8
<1>9. CASE X \ {x} # {}
  <2>1. PICK w \in X \ {x} : \A p \in X \ {x} : p = w \/ Better(side, p, w)
    BY <1>5, <1>7, <1>9
  <2>2. x \in Int /\ w \in Int /\ \A p \in X : p \in Int
    BY <1>3, <1>4, <2>1
  <2>3. CASE Better(side, x, w)
    BY <1>3, <2>1, <2>3
  <2>4. CASE Better(side, w, x)
    <3>1. ASSUME NEW p \in X PROVE p = x \/ Better(side, p, x)
      BY <2>1, <2>2, <2>4, BetterOrders
    <3> QED
      BY <1>3, <1>4, <3>1
  <2> QED
    BY <2>1, <2>2, <2>3, <2>4, BetterOrders
<1> QED
  BY <1>8, <1>9

\* seq lists the prices of S from the best to the worst.
Lists(seq, side, S) ==
  /\ seq \in [1 .. Cardinality(S) -> S]
  /\ \A i, j \in 1 .. Cardinality(S) : i < j => Better(side, seq[i], seq[j])

LEMMA ListExists ==
  ASSUME NEW side, NEW S \in SUBSET Int, IsFiniteSet(S)
  PROVE  \E seq : Lists(seq, side, S)
<1> DEFINE T == {n \in Nat : \E X \in SUBSET S : /\ Cardinality(X) = n
                                                 /\ ~ \E seq : Lists(seq, side, X)}
<1>0. ASSUME NEW X \in SUBSET S
      PROVE  IsFiniteSet(X) /\ Cardinality(X) \in Nat
  BY FS_Subset, FS_CardinalityType
<1> SUFFICES ASSUME T # {} PROVE FALSE
  <2>1. S \in SUBSET S
    OBVIOUS
  <2> QED
    BY <1>0, <2>1
<1>1. T \subseteq Nat
  OBVIOUS
<1>2. PICK n \in T : \A j \in T : ~(<<j, n>> \in OpToRel(<, Nat))
  BY <1>1, NatLessThanWellFounded, WFMin
<1>3. PICK X \in SUBSET S : n \in Nat /\ Cardinality(X) = n /\ ~ \E seq : Lists(seq, side, X)
  OBVIOUS
<1>4. CASE X = {}
  <2>1. Cardinality(X) = 0
    BY <1>4, FS_EmptySet
  <2>2. Lists([i \in 1 .. 0 |-> 0], side, X)
    BY <2>1 DEF Lists
  <2> QED
    BY <1>3, <2>2
<1>5. CASE X # {}
  <2>1. X \in SUBSET Int /\ IsFiniteSet(X)
    BY <1>0, <1>3
  <2>2. PICK w \in X : \A p \in X : p = w \/ Better(side, p, w)
    BY <1>5, <2>1, WorstExists
  <2>3. PICK Y \in SUBSET S : Y = X \ {w}
    BY <1>3
  <2>4. Cardinality(Y) = n - 1 /\ n - 1 \in Nat
    BY <1>0, <1>3, <2>1, <2>2, <2>3, FS_RemoveElement
  <2>5. <<n - 1, n>> \in OpToRel(<, Nat)
    BY <1>3, <2>4 DEF OpToRel
  <2>6. n - 1 \notin T
    BY <1>2, <2>5
  <2>7. PICK rest : Lists(rest, side, Y)
    BY <2>3, <2>4, <2>6
  <2>8. /\ rest \in [1 .. (n - 1) -> Y]
        /\ \A i, j \in 1 .. (n - 1) : i < j => Better(side, rest[i], rest[j])
    BY <2>4, <2>7, Zenon DEF Lists
  <2> DEFINE seq == [i \in 1 .. n |-> IF i = n THEN w ELSE rest[i]]
  <2>9. \A i \in 1 .. n : i # n => i \in 1 .. (n - 1)
    BY <1>3
  <2>10. seq \in [1 .. n -> X]
    BY <2>2, <2>3, <2>8, <2>9
  <2>11. ASSUME NEW i \in 1 .. n, NEW j \in 1 .. n, i < j
         PROVE  Better(side, seq[i], seq[j])
    <3>1. i # n /\ i \in 1 .. (n - 1)
      BY <1>3, <2>11
    <3>2. seq[i] = rest[i] /\ rest[i] \in Y
      BY <2>8, <3>1
    <3>3. CASE j = n
      BY <2>2, <2>3, <3>2, <3>3
    <3>4. CASE j # n
      BY <2>8, <2>9, <2>11, <3>1, <3>2, <3>4
    <3> QED
      BY <3>3, <3>4
  <2> HIDE DEF seq
  <2>12. Lists(seq, side, X)
    BY <1>3, <2>10, <2>11 DEF Lists
  <2> QED
    BY <1>3, <2>12
<1> QED
  BY <1>4, <1>5

LEMMA BestFirstLists ==
  ASSUME NEW side, NEW S \in SUBSET Int, IsFiniteSet(S)
  PROVE  Lists(BestFirst(side, S), side, S)
<1>1. PICK seq : Lists(seq, side, S)
  BY ListExists
<1> DEFINE Good(f) == \A i, j \in DOMAIN f : i < j => Better(side, f[i], f[j])
<1>2. seq \in [1 .. Cardinality(S) -> S] /\ Good(seq)
  BY <1>1 DEF Lists
<1>3. BestFirst(side, S) = CHOOSE f \in [1 .. Cardinality(S) -> S] : Good(f)
  BY DEF BestFirst
<1> HIDE DEF Good
<1>4. BestFirst(side, S) \in [1 .. Cardinality(S) -> S] /\ Good(BestFirst(side, S))
  BY <1>2, <1>3, Zenon
<1>5. DOMAIN BestFirst(side, S) = 1 .. Cardinality(S)
  BY <1>4
<1> QED
  BY <1>4, <1>5 DEF Lists, Good

LEMMA ListIsComplete ==
  ASSUME NEW side, NEW S \in SUBSET Int, IsFiniteSet(S), NEW seq, Lists(seq, side, S)
  PROVE  \A p \in S : \E i \in 1 .. Cardinality(S) : seq[i] = p
<1>1. Cardinality(S) \in Nat
  BY FS_CardinalityType
<1>2. IsFiniteSet(1 .. Cardinality(S)) /\ Cardinality(1 .. Cardinality(S)) = Cardinality(S)
  BY <1>1, FS_Interval
<1>3. ASSUME NEW i \in 1 .. Cardinality(S), NEW j \in 1 .. Cardinality(S), seq[i] = seq[j]
      PROVE  i = j
  <2>1. seq[i] \in Int /\ ~Better(side, seq[i], seq[i])
    BY BetterOrders DEF Lists
  <2> QED
    BY <1>1, <1>3, <2>1 DEF Lists
<1>4. seq \in Injection(1 .. Cardinality(S), S)
  BY <1>3 DEF Injection, IsInjective, Lists
<1>5. seq \in Surjection(1 .. Cardinality(S), S)
  BY <1>2, <1>4, FS_Injection
<1> QED
  BY <1>5 DEF Surjection

\* The price in place i has i - 1 better ones.
BetterIn(S, side, price) == {p \in S : Better(side, p, price)}

LEMMA PlaceIsRank ==
  ASSUME NEW side, NEW S \in SUBSET Int, IsFiniteSet(S), NEW seq, Lists(seq, side, S),
         NEW i \in 1 .. Cardinality(S)
  PROVE  Cardinality(BetterIn(S, side, seq[i])) = i - 1
<1>1. Cardinality(S) \in Nat
  BY FS_CardinalityType
<1>2. IsFiniteSet(1 .. (i - 1)) /\ Cardinality(1 .. (i - 1)) = i - 1
  <2>1. PICK k \in Nat : k = i - 1
    BY <1>1
  <2>2. IsFiniteSet(1 .. k) /\ Cardinality(1 .. k) = k
    BY FS_Interval
  <2> QED
    BY <2>1, <2>2
<1> DEFINE A == BetterIn(S, side, seq[i])
           f == [j \in 1 .. (i - 1) |-> seq[j]]
<1>3. ASSUME NEW j \in 1 .. Cardinality(S), NEW k \in 1 .. Cardinality(S)
      PROVE  /\ seq[j] \in Int /\ seq[j] \in S
             /\ j < k => Better(side, seq[j], seq[k])
             /\ Better(side, seq[j], seq[k]) => j < k
             /\ seq[j] = seq[k] => j = k
  <2>1. /\ seq[j] \in S /\ seq[k] \in S /\ seq[j] \in Int /\ seq[k] \in Int
        /\ j < k => Better(side, seq[j], seq[k])
        /\ k < j => Better(side, seq[k], seq[j])
    BY DEF Lists
  <2>2. j < k \/ k < j \/ j = k
    BY <1>1
  <2> QED
    BY <2>1, <2>2, BetterOrders
<1>4. \A j \in 1 .. (i - 1) : j \in 1 .. Cardinality(S) /\ j < i
  BY <1>1
<1>5. f \in [1 .. (i - 1) -> A]
  BY <1>3, <1>4 DEF BetterIn
<1>6. \A j, k \in 1 .. (i - 1) : f[j] = f[k] => j = k
  BY <1>3, <1>4
<1>7. ASSUME NEW p \in A PROVE \E j \in 1 .. (i - 1) : f[j] = p
  <2>1. PICK j \in 1 .. Cardinality(S) : seq[j] = p
    BY ListIsComplete DEF BetterIn
  <2>2. j < i
    BY <1>3, <2>1 DEF BetterIn
  <2>3. j \in 1 .. (i - 1)
    BY <1>1, <2>2
  <2> QED
    BY <2>1, <2>3
<1> HIDE DEF f, A
<1>8. f \in Bijection(1 .. (i - 1), A)
  BY <1>5, <1>6, <1>7 DEF Bijection, Injection, Surjection, IsInjective
<1>9. Cardinality(A) = i - 1
  BY <1>2, <1>8, FS_Bijection DEF ExistsBijection
<1> QED
  BY <1>9 DEF A

LEMMA BestFirstIsSeq ==
  ASSUME NEW side, NEW S \in SUBSET Price
  PROVE  LET seq == BestFirst(side, S)
         IN  /\ Lists(seq, side, S) /\ Len(seq) = Cardinality(S)
             /\ Cardinality(S) \in Nat /\ Cardinality(S) <= Cardinality(Price)
             /\ (Cardinality(S) = 0) <=> (S = {})
             /\ IsFiniteSet(S) /\ S \in SUBSET Int
<1>1. IsFiniteSet(S) /\ S \in SUBSET Int
  BY PriceAssumption, FS_Subset
<1>2. Cardinality(S) \in Nat /\ Cardinality(S) <= Cardinality(Price)
  BY <1>1, PriceAssumption, FS_Subset, FS_CardinalityType
<1>3. (Cardinality(S) = 0) <=> (S = {})
  BY <1>1, FS_EmptySet
<1>4. PICK seq : seq = BestFirst(side, S)
  OBVIOUS
<1>5. Lists(seq, side, S)
  BY <1>1, <1>4, BestFirstLists
<1>6. Len(seq) = Cardinality(S)
  <2>1. seq \in [1 .. Cardinality(S) -> S]
    BY <1>5 DEF Lists
  <2>2. seq \in Seq(S)
    BY <1>2, <2>1, SeqDef
  <2> QED
    BY <1>2, <2>1, <2>2, LenProperties
<1> QED
  BY <1>1, <1>2, <1>3, <1>4, <1>5, <1>6

-----------------------------------------------------------------------------
(* What a side shows, from the index alone *)

\* The orders on record at a price, the prices with such orders, and the place
\* of a price among them.
RecordedAt(records, s, p) ==
  {id \in DOMAIN records : records[id].side = s /\ records[id].price = p}
RecordedPrices(records, s) == {p \in Price : RecordedAt(records, s, p) # {}}
RankOf(records, s, p) ==
  Cardinality({q \in RecordedPrices(records, s) : Better(s, q, p)}) + 1

\* A view of the best n prices shows what is on record.
ShowsRecords(view, records, s, n) ==
  /\ {view[i].price : i \in DOMAIN view} =
       {p \in RecordedPrices(records, s) : RankOf(records, s, p) <= n}
  /\ \A i \in DOMAIN view :
       /\ RankOf(records, s, view[i].price) = i
       /\ view[i].order_count = Cardinality(RecordedAt(records, s, view[i].price))
       /\ view[i].quantity = UnitsOnRecord(records, RecordedAt(records, s, view[i].price))

\* The queues of a side, by price, hold the orders on record and no others.
QueueHolds(records, s, p, queue) ==
  /\ queue \in Seq(OrderEntry) /\ queue # << >> /\ DistinctIds(queue)
  /\ IdSet(queue) = RecordedAt(records, s, p)
  /\ \A i \in 1 .. Len(queue) : records[queue[i].order_id].quantity = queue[i].quantity

QueuesHold(records, s, queues) ==
  /\ DOMAIN queues \in SUBSET Price
  /\ \A p \in DOMAIN queues : QueueHolds(records, s, p, queues[p])
  /\ \A p \in Price : p \notin DOMAIN queues => RecordedAt(records, s, p) = {}

LEMMA RecordedPricesAreQueued ==
  ASSUME NEW records, NEW s, NEW queues, QueuesHold(records, s, queues)
  PROVE  RecordedPrices(records, s) = DOMAIN queues
<1>1. ASSUME NEW p \in DOMAIN queues PROVE RecordedAt(records, s, p) # {}
  <2>1. PICK q \in Seq(OrderEntry) :
          q # << >> /\ IdSet(q) = RecordedAt(records, s, p)
    BY DEF QueuesHold, QueueHolds
  <2>2. 1 \in 1 .. Len(q)
    BY <2>1, LenProperties, EmptySeq
  <2>3. q[1].order_id \in IdSet(q)
    BY <2>2 DEF IdSet
  <2> QED
    BY <2>1, <2>3
<1> QED
  BY <1>1 DEF RecordedPrices, QueuesHold

QueueView(price, queue) ==
  [price |-> price, quantity |-> WordSum(queue), order_count |-> Len(queue)]

LEMMA ViewShowsRecords ==
  ASSUME NEW records, NEW s, NEW queues, QueuesHold(records, s, queues), NEW n \in Nat,
         NEW prices, prices = BestFirst(s, DOMAIN queues),
         NEW m, m = (IF n < Len(prices) THEN n ELSE Len(prices)),
         NEW view, view = [i \in 1 .. m |-> QueueView(prices[i], queues[prices[i]])]
  PROVE  ShowsRecords(view, records, s, n)
<1>1. PICK S \in SUBSET Price : S = DOMAIN queues /\ RecordedPrices(records, s) = S
  BY RecordedPricesAreQueued DEF QueuesHold
<1>2. /\ Lists(prices, s, S) /\ Len(prices) = Cardinality(S) /\ Cardinality(S) \in Nat
      /\ IsFiniteSet(S) /\ S \in SUBSET Int
  BY <1>1, BestFirstIsSeq
<1>3. \A i \in 1 .. Cardinality(S) : prices[i] \in S /\ RankOf(records, s, prices[i]) = i
  <2>1. ASSUME NEW i \in 1 .. Cardinality(S)
        PROVE  prices[i] \in S /\ RankOf(records, s, prices[i]) = i
    <3>1. Cardinality(BetterIn(S, s, prices[i])) = i - 1
      BY <1>2, PlaceIsRank
    <3>2. RankOf(records, s, prices[i]) = i - 1 + 1
      BY <1>1, <3>1 DEF RankOf, BetterIn
    <3> QED
      BY <1>2, <3>2 DEF Lists
  <2> QED
    BY <2>1
<1>4. /\ m \in Nat /\ m <= Cardinality(S) /\ m <= n
      /\ \A i \in 1 .. Cardinality(S) : i <= n <=> i <= m
  BY <1>2
<1>5. DOMAIN view = 1 .. m /\ \A i \in 1 .. m : i \in 1 .. Cardinality(S)
  BY <1>2, <1>4
<1>6. ASSUME NEW i \in 1 .. m
      PROVE  /\ view[i].price = prices[i]
             /\ view[i].order_count = Cardinality(RecordedAt(records, s, prices[i]))
             /\ view[i].quantity = UnitsOnRecord(records, RecordedAt(records, s, prices[i]))
  <2>1. PICK p \in S : p = prices[i]
    BY <1>3, <1>5
  <2>2. PICK q : q = queues[p]
    OBVIOUS
  <2>3. view[i] = QueueView(p, q)
    BY <2>1, <2>2
  <2>4. view[i].price = p /\ view[i].order_count = Len(q) /\ view[i].quantity = WordSum(q)
    BY <2>3 DEF QueueView
  <2>5. QueueHolds(records, s, p, q)
    BY <1>1, <2>1, <2>2 DEF QueuesHold
  <2>6. Cardinality(IdSet(q)) = Len(q) /\ IdSet(q) = RecordedAt(records, s, p)
    BY <2>5, IdsCounted DEF QueueHolds
  <2>7. UnitsOnRecord(records, IdSet(q)) = WordSum(q)
    BY <2>5, UnitsOfQueue DEF QueueHolds
  <2> QED
    BY <2>1, <2>4, <2>6, <2>7, Zenon
<1>7. {view[i].price : i \in DOMAIN view} = {p \in S : RankOf(records, s, p) <= n}
  <2>1. ASSUME NEW i \in DOMAIN view
        PROVE  view[i].price \in {p \in S : RankOf(records, s, p) <= n}
    <3>1. i \in 1 .. m /\ i \in 1 .. Cardinality(S) /\ i <= n
      BY <1>4, <1>5
    <3> QED
      BY <1>3, <1>6, <3>1
  <2>2. ASSUME NEW p \in S, RankOf(records, s, p) <= n
        PROVE  \E i \in DOMAIN view : view[i].price = p
    <3>1. PICK i \in 1 .. Cardinality(S) : prices[i] = p
      BY <1>2, ListIsComplete
    <3>2. i <= n
      BY <1>3, <2>2, <3>1
    <3>3. i \in 1 .. m
      BY <1>4, <3>2
    <3> QED
      BY <1>5, <1>6, <3>1, <3>3
  <2> QED
    BY <2>1, <2>2
<1>8. ASSUME NEW i \in DOMAIN view
      PROVE  /\ RankOf(records, s, view[i].price) = i
             /\ view[i].order_count = Cardinality(RecordedAt(records, s, view[i].price))
             /\ view[i].quantity =
                  UnitsOnRecord(records, RecordedAt(records, s, view[i].price))
  <2>1. i \in 1 .. m /\ i \in 1 .. Cardinality(S)
    BY <1>5
  <2> QED
    BY <1>3, <1>6, <2>1, Zenon
<1> QED
  BY <1>1, <1>7, <1>8, Zenon DEF ShowsRecords
=============================================================================
