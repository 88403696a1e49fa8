------------------------ MODULE MonitoredFeedProofs ------------------------
(***************************************************************************)
(* What the monitor reports is true of the events and of the book, for     *)
(* every stream of events, every configuration and every scoring rule.     *)
(* All but the last section is about any call of observe(), whoever makes  *)
(* it: the proofs about replay rest on it too.  The last section is the    *)
(* loop of MonitoredFeed.                                                  *)
(***************************************************************************)
EXTENDS MonitoredFeed, LimitOrderBookProofs

-----------------------------------------------------------------------------
(* Lists *)

IsList(s) == s \in Seq(Range(s))

LEMMA ListFacts ==
  ASSUME NEW s, IsList(s)
  PROVE  Len(s) \in Nat /\ DOMAIN s = 1 .. Len(s)
BY LenProperties DEF IsList

LEMMA ListOfSeq == ASSUME NEW S, NEW s \in Seq(S) PROVE IsList(s)
BY SeqOfRange DEF IsList

LEMMA ConcatOfLists ==
  ASSUME NEW s, NEW t, IsList(s), IsList(t)
  PROVE  /\ IsList(s \o t) /\ Len(s \o t) = Len(s) + Len(t)
         /\ \A i \in 1 .. (Len(s) + Len(t)) :
              (s \o t)[i] = IF i <= Len(s) THEN s[i] ELSE t[i - Len(s)]
<1> DEFINE S == Range(s) \cup Range(t)
<1>1. s \in Seq(S) /\ t \in Seq(S)
  BY SeqMonotonic DEF IsList
<1> HIDE DEF S
<1> QED
  BY <1>1, ConcatProperties, ListOfSeq

LEMMA AppendToList ==
  ASSUME NEW s, NEW x, IsList(s)
  PROVE  /\ IsList(Append(s, x)) /\ Len(Append(s, x)) = Len(s) + 1
         /\ \A i \in 1 .. Len(s) : Append(s, x)[i] = s[i]
         /\ Append(s, x)[Len(s) + 1] = x
<1> DEFINE S == Range(s) \cup {x}
<1>1. s \in Seq(S) /\ x \in S
  BY SeqMonotonic DEF IsList
<1> HIDE DEF S
<1>2. /\ Append(s, x) \in Seq(S) /\ Len(Append(s, x)) = Len(s) + 1
      /\ \A i \in 1 .. Len(s) : Append(s, x)[i] = s[i]
      /\ Append(s, x)[Len(s) + 1] = x
  BY <1>1, AppendProperties
<1> QED
  BY <1>2, ListOfSeq
IsOptional(v) == v = << >> \/ \E x : v = <<x>>

LEMMA OptionalIsList ==
  ASSUME NEW v, IsOptional(v)
  PROVE  IsList(v)
<1>1. CASE v = << >>
  <2>1. << >> \in Seq({})
    OBVIOUS
  <2> QED
    BY <1>1, <2>1, ListOfSeq
<1>2. CASE \E x : v = <<x>>
  <2>1. PICK x : v = <<x>>
    BY <1>2
  <2>2. v \in Seq({x})
    BY <2>1
  <2> QED
    BY <2>2, ListOfSeq
<1> QED
  BY <1>1, <1>2 DEF IsOptional

LEMMA ListsEqual ==
  ASSUME NEW s, NEW t, IsList(s), IsList(t), Len(s) = Len(t),
         \A i \in 1 .. Len(s) : s[i] = t[i]
  PROVE  s = t
<1> DEFINE S == Range(s) \cup Range(t)
<1>1. s \in Seq(S) /\ t \in Seq(S)
  BY SeqMonotonic DEF IsList
<1> HIDE DEF S
<1> QED
  BY <1>1, SeqEqual

LEMMA FrontAndLast ==
  ASSUME NEW s, NEW x, IsList(s)
  PROVE  /\ Front(s \o <<x>>) = s /\ Last(s \o <<x>>) = x
         /\ Front(Append(s, x)) = s /\ Last(Append(s, x)) = x
         /\ IsList(s \o <<x>>)
<1>1. IsList(<<x>>) /\ Len(<<x>>) = 1 /\ Len(s) \in Nat
  BY OptionalIsList, ListFacts DEF IsOptional
<1>2. PICK t : t = Append(s, x)
  OBVIOUS
<1>3. /\ IsList(t) /\ Len(t) = Len(s) + 1
      /\ \A i \in 1 .. Len(s) : t[i] = s[i]
      /\ t[Len(s) + 1] = x
  BY <1>2, AppendToList
<1>4. s \o <<x>> = t
  <2>1. PICK u : u = s \o <<x>>
    OBVIOUS
  <2>2. /\ IsList(u) /\ Len(u) = Len(s) + 1
        /\ \A i \in 1 .. (Len(s) + 1) :
             u[i] = IF i <= Len(s) THEN s[i] ELSE <<x>>[i - Len(s)]
    BY <1>1, <2>1, ConcatOfLists
  <2>3. \A i \in 1 .. Len(u) : u[i] = t[i]
    BY <1>1, <1>3, <2>2
  <2> QED
    BY <1>3, <2>1, <2>2, <2>3, ListsEqual
<1>5. Last(t) = x
  BY <1>3 DEF Last
<1>6. Front(t) = s
  <2> DEFINE S == Range(t)
             u == SubSeq(t, 1, Len(s))
  <2>1. t \in Seq(S)
    BY <1>3 DEF IsList
  <2>2. \A i \in 1 .. Len(s) : i \in 1 .. Len(t)
    BY <1>1, <1>3
  <2> HIDE DEF S
  <2>3. /\ u \in Seq(S) /\ Len(u) = Len(s)
        /\ \A i \in 1 .. Len(s) : u[i] = t[i]
    BY <1>1, <1>3, <2>1, <2>2, SubSeqProperties
  <2>4. IsList(u)
    BY <2>3, ListOfSeq
  <2> HIDE DEF u
  <2>5. u = s
    BY <1>3, <2>3, <2>4, ListsEqual
  <2> QED
    BY <1>1, <1>3, <2>5 DEF Front, u
<1> QED
  BY <1>2, <1>3, <1>4, <1>5, <1>6

-----------------------------------------------------------------------------
(* What one observe() emits *)

LEMMA ScoringOrderFacts ==
  /\ Len(ScoringOrder) = 7
  /\ \A k \in 1 .. 7 : ScoringOrder[k] \in Feature
  /\ \A j, k \in 1 .. 7 : ScoringOrder[j] = ScoringOrder[k] => j = k
<1>1. Len(ScoringOrder) = 7
  BY DEF ScoringOrder
<1>2. Feature = {"bid_ask_spread", "top_n_bid_depth", "top_n_ask_depth",
                 "order_book_imbalance", "message_rate", "cancel_add_ratio",
                 "mid_price_volatility"}
  BY Zenon DEF Feature, Reason
<1>3. \A k \in 1 .. 7 : ScoringOrder[k] \in Feature
  BY <1>2 DEF ScoringOrder
<1>4. \A j, k \in 1 .. 7 : ScoringOrder[j] = ScoringOrder[k] => j = k
  BY DEF ScoringOrder
<1> QED
  BY <1>1, <1>3, <1>4

\* The anomaly the k-th feature scored may give.
EntryOf(event, samples, k) ==
  Anomaly(event, ScoringOrder[k], samples[ScoringOrder[k]][1])

Entries(event, samples) == {EntryOf(event, samples, k) : k \in 1 .. 7}

\* Given which features pass, f is what was emitted after each of the first n.
Collects(f, hits, event, samples, n) ==
  /\ f \in [0 .. n -> Seq(Entries(event, samples))]
  /\ f[0] = << >>
  /\ \A k \in 1 .. n :
       f[k] = IF k \in hits THEN Append(f[k - 1], EntryOf(event, samples, k))
                            ELSE f[k - 1]

LEMMA CollectionExists ==
  ASSUME NEW hits, NEW event, NEW samples, NEW N \in 0 .. 7
  PROVE  \E f : Collects(f, hits, event, samples, N)
<1> DEFINE T == {n \in 0 .. 7 : ~ \E f : Collects(f, hits, event, samples, n)}
           S == Entries(event, samples)
<1> SUFFICES ASSUME T # {} PROVE FALSE
  OBVIOUS
<1>1. T \subseteq Nat
  OBVIOUS
<1>2. PICK n \in T : \A j \in T : ~(<<j, n>> \in OpToRel(<, Nat))
  BY <1>1, NatLessThanWellFounded, WFMin
<1>3. n \in 0 .. 7 /\ ~ \E f : Collects(f, hits, event, samples, n)
  OBVIOUS
<1>4. CASE n = 0
  <2>1. Collects([k \in 0 .. 0 |-> << >>], hits, event, samples, 0)
    BY EmptySeq DEF Collects
  <2> QED
    BY <1>3, <1>4, <2>1
<1>5. CASE n # 0
  <2>1. /\ n - 1 \in 0 .. 7 /\ n - 1 < n /\ n - 1 \in Nat /\ n \in Nat
        /\ n \in 1 .. 7
    BY <1>3, <1>5
  <2>2. <<n - 1, n>> \in OpToRel(<, Nat)
    BY <2>1 DEF OpToRel
  <2>3. PICK f : Collects(f, hits, event, samples, n - 1)
    BY <1>2, <2>1, <2>2
  <2>4. PICK a : a = EntryOf(event, samples, n)
    OBVIOUS
  <2> DEFINE next == IF n \in hits THEN Append(f[n - 1], a) ELSE f[n - 1]
             g    == [k \in 0 .. n |-> IF k = n THEN next ELSE f[k]]
  <2>5. f[n - 1] \in Seq(S)
    <3>1. n - 1 \in 0 .. (n - 1)
      BY <2>1
    <3> QED
      BY <2>3, <3>1, Zenon DEF Collects
  <2>6. a \in S
    BY <2>1, <2>4, Zenon DEF Entries
  <2>7. next \in Seq(S)
    <3> HIDE DEF S
    <3> QED
      BY <2>5, <2>6, AppendProperties
  <2>8. /\ f \in [0 .. (n - 1) -> Seq(S)] /\ f[0] = << >>
        /\ \A k \in 1 .. (n - 1) :
             f[k] = IF k \in hits THEN Append(f[k - 1], EntryOf(event, samples, k))
                                  ELSE f[k - 1]
    BY <2>3, Zenon DEF Collects
  <2> HIDE DEF S, next
  <2>9. g \in [0 .. n -> Seq(S)] /\ g[0] = << >> /\ g[n] = next /\ g[n - 1] = f[n - 1]
    BY <2>1, <2>7, <2>8, <1>5
  <2>10. \A k \in 1 .. (n - 1) : g[k] = f[k] /\ g[k - 1] = f[k - 1]
    BY <2>1
  <2>11. \A k \in 1 .. n : k = n \/ k \in 1 .. (n - 1)
    BY <2>1
  <2> HIDE DEF g
  <2>12. \A k \in 1 .. n :
           g[k] = IF k \in hits THEN Append(g[k - 1], EntryOf(event, samples, k))
                                ELSE g[k - 1]
    BY <2>4, <2>8, <2>9, <2>10, <2>11, Zenon DEF next
  <2>13. Collects(g, hits, event, samples, n)
    BY <2>9, <2>12, Zenon DEF Collects, S
  <2> QED
    BY <1>3, <2>13
<1> QED
  BY <1>4, <1>5

\* Each entry is that of one of the first n features that passed, and no
\* feature has two.
DrawnFrom(list, hits, event, samples, n) ==
  /\ IsList(list)
  /\ \A i \in 1 .. Len(list) :
       \E k \in 1 .. n : k \in hits /\ list[i] = EntryOf(event, samples, k)
  /\ \A i, j \in 1 .. Len(list) : list[i].feature = list[j].feature => i = j

LEMMA EntryFeature ==
  ASSUME NEW event, NEW samples, NEW k \in 1 .. 7
  PROVE  EntryOf(event, samples, k).feature = ScoringOrder[k]
BY Zenon DEF EntryOf, Anomaly

LEMMA DrawnNext ==
  ASSUME NEW list, NEW hits, NEW event, NEW samples, NEW n \in 1 .. 7,
         DrawnFrom(list, hits, event, samples, n - 1)
  PROVE  /\ DrawnFrom(list, hits, event, samples, n)
         /\ n \in hits =>
              DrawnFrom(Append(list, EntryOf(event, samples, n)), hits, event, samples, n)
<1>1. /\ IsList(list) /\ Len(list) \in Nat
      /\ \A i \in 1 .. Len(list) :
           \E k \in 1 .. (n - 1) : k \in hits /\ list[i] = EntryOf(event, samples, k)
      /\ \A i, j \in 1 .. Len(list) : list[i].feature = list[j].feature => i = j
  BY ListFacts DEF DrawnFrom
<1>2. \A k \in 1 .. (n - 1) : k \in 1 .. n /\ k \in 1 .. 7 /\ k # n
  OBVIOUS
<1>3. DrawnFrom(list, hits, event, samples, n)
  BY <1>1, <1>2, Zenon DEF DrawnFrom
<1>4. ASSUME n \in hits
      PROVE  DrawnFrom(Append(list, EntryOf(event, samples, n)), hits, event, samples, n)
  <2>1. PICK a : a = EntryOf(event, samples, n)
    OBVIOUS
  <2> DEFINE more == Append(list, a)
             m    == Len(list)
  <2>2. /\ IsList(more) /\ Len(more) = m + 1
        /\ \A i \in 1 .. m : more[i] = list[i]
        /\ more[m + 1] = a
    BY <1>1, AppendToList
  <2> HIDE DEF more
  <2>3. \A i \in 1 .. (m + 1) : i \in 1 .. m \/ i = m + 1
    BY <1>1
  <2>4. n \in 1 .. n
    OBVIOUS
  <2>5. \A i \in 1 .. Len(more) :
          \E k \in 1 .. n : k \in hits /\ more[i] = EntryOf(event, samples, k)
    <3> TAKE i \in 1 .. Len(more)
    <3>1. CASE i \in 1 .. m
      BY <1>1, <1>2, <2>2, <3>1, ZenonT(40)
    <3>2. CASE i = m + 1
      BY <1>4, <2>1, <2>2, <2>4, <3>2, Zenon
    <3> QED
      BY <2>2, <2>3, <3>1, <3>2, Zenon
  <2>6. \A i \in 1 .. m : list[i].feature # a.feature
    <3> TAKE i \in 1 .. m
    <3>1. PICK k \in 1 .. (n - 1) : list[i] = EntryOf(event, samples, k)
      BY <1>1, Zenon
    <3>2. list[i].feature = ScoringOrder[k] /\ a.feature = ScoringOrder[n]
      BY <1>2, <2>1, <3>1, EntryFeature
    <3> QED
      BY <1>2, <3>2, ScoringOrderFacts
  <2>7. \A i, j \in 1 .. Len(more) : more[i].feature = more[j].feature => i = j
    BY <1>1, <2>2, <2>3, <2>6, Zenon
  <2>8. DrawnFrom(more, hits, event, samples, n)
    BY <2>2, <2>5, <2>7, Zenon DEF DrawnFrom
  <2> QED
    BY <2>1, <2>8 DEF more
<1> QED
  BY <1>3, <1>4

\* The features whose sample observe() reports.
Hits(samples) == {k \in 1 .. 7 : /\ samples[ScoringOrder[k]] # << >>
                                 /\ Passes(ScoringOrder[k], samples[ScoringOrder[k]][1])}

LEMMA EmittedIsDrawn ==
  ASSUME NEW event, NEW samples
  PROVE  DrawnFrom(Emitted(event, samples), Hits(samples), event, samples, 7)
<1> DEFINE Solves(g) == g = [k \in 0 .. 7 |->
                               IF k = 0 THEN << >>
                               ELSE IF /\ samples[ScoringOrder[k]] # << >>
                                       /\ Passes(ScoringOrder[k], samples[ScoringOrder[k]][1])
                               THEN Append(g[k - 1], EntryOf(event, samples, k))
                               ELSE g[k - 1]]
<1>2. PICK hits : hits = Hits(samples)
  OBVIOUS
<1>3. \A k \in 1 .. 7 :
        k \in hits <=> /\ samples[ScoringOrder[k]] # << >>
                       /\ Passes(ScoringOrder[k], samples[ScoringOrder[k]][1])
  BY <1>2, Zenon DEF Hits
<1>4. PICK f : Collects(f, hits, event, samples, 7)
  BY CollectionExists
<1>5. Solves(f)
  <2>1. f = [k \in 0 .. 7 |-> f[k]]
    BY <1>4 DEF Collects
  <2>2. ASSUME NEW k \in 0 .. 7
        PROVE  f[k] = IF k = 0 THEN << >>
                      ELSE IF /\ samples[ScoringOrder[k]] # << >>
                              /\ Passes(ScoringOrder[k], samples[ScoringOrder[k]][1])
                      THEN Append(f[k - 1], EntryOf(event, samples, k))
                      ELSE f[k - 1]
    <3>1. k = 0 \/ k \in 1 .. 7
      OBVIOUS
    <3> QED
      BY <1>3, <1>4, <3>1, Zenon DEF Collects
  <2> QED
    BY <2>1, <2>2, Zenon
<1>6. PICK g : Solves(g) /\ Emitted(event, samples) = g[7]
  <2> DEFINE h == CHOOSE g : Solves(g)
  <2>1. Solves(h)
    BY <1>5, Zenon
  <2>2. Emitted(event, samples) = h[7]
    BY ScoringOrderFacts, Zenon DEF Emitted, EntryOf
  <2> QED
    BY <2>1, <2>2, Zenon
<1>7. /\ g[0] = << >>
      /\ \A k \in 1 .. 7 : g[k] = IF k \in hits THEN Append(g[k - 1], EntryOf(event, samples, k))
                                   ELSE g[k - 1]
  <2>1. 0 \in 0 .. 7 /\ \A k \in 1 .. 7 : k \in 0 .. 7 /\ k # 0
    OBVIOUS
  <2> QED
    BY <1>3, <1>6, <2>1, Zenon
<1> HIDE DEF Solves
<1>8. \A k \in 0 .. 7 : DrawnFrom(g[k], hits, event, samples, k)
  <2> DEFINE T == {k \in 0 .. 7 : ~DrawnFrom(g[k], hits, event, samples, k)}
  <2> SUFFICES ASSUME T # {} PROVE FALSE
    OBVIOUS
  <2>1. T \subseteq Nat
    OBVIOUS
  <2>2. PICK k \in T : \A j \in T : ~(<<j, k>> \in OpToRel(<, Nat))
    BY <2>1, NatLessThanWellFounded, WFMin
  <2>3. DrawnFrom(<< >>, hits, event, samples, 0)
    <3>1. IsList(<< >>) /\ Len(<< >>) = 0
      BY OptionalIsList DEF IsOptional
    <3>2. 1 .. 0 = {}
      OBVIOUS
    <3> QED
      BY <3>1, <3>2, Zenon DEF DrawnFrom
  <2>4. k \in 0 .. 7 /\ ~DrawnFrom(g[k], hits, event, samples, k) /\ k # 0
    BY <1>7, <2>3
  <2>5. k - 1 \in 0 .. 7 /\ k - 1 < k /\ k - 1 \in Nat /\ k \in Nat /\ k \in 1 .. 7
    BY <2>4
  <2>6. <<k - 1, k>> \in OpToRel(<, Nat)
    BY <2>5 DEF OpToRel
  <2>7. DrawnFrom(g[k - 1], hits, event, samples, k - 1)
    BY <2>2, <2>5, <2>6
  <2>8. PICK before : before = g[k - 1]
    OBVIOUS
  <2> QED
    BY <1>7, <2>4, <2>5, <2>7, <2>8, DrawnNext, SMTT(20)
<1> QED
  BY <1>2, <1>6, <1>8

LEMMA EmittedIsList ==
  ASSUME NEW event, NEW samples
  PROVE  IsList(Emitted(event, samples))
BY EmittedIsDrawn DEF DrawnFrom

-----------------------------------------------------------------------------
(* What one observe() does to the samples *)

LEMMA MappedIsOptional ==
  ASSUME NEW v, IsOptional(v), NEW w, w = [i \in DOMAIN v |-> w[i]]
  PROVE  IsOptional(w)
<1>1. CASE v = << >>
  <2>1. DOMAIN v = {} /\ w = [i \in {} |-> w[i]]
    BY <1>1
  <2>2. w = << >>
    BY <2>1
  <2> QED
    BY <2>2 DEF IsOptional
<1>2. CASE \E x : v = <<x>>
  <2>1. DOMAIN v = {1} /\ w = [i \in {1} |-> w[i]]
    BY <1>2
  <2>2. w = <<w[1]>>
    BY <2>1
  <2> QED
    BY <2>2, Zenon DEF IsOptional
<1> QED
  BY <1>1, <1>2 DEF IsOptional

\* The features that may be absent are optionals.
IsFeatures(f) == /\ IsOptional(f.book.spread) /\ IsOptional(f.book.imbalance)
                 /\ IsOptional(f.volatility)

IsSamples(samples) ==
  DOMAIN samples = Feature /\ \A f \in Feature : IsOptional(samples[f])

LEMMA SamplesAreOptional ==
  ASSUME NEW f, IsFeatures(f)
  PROVE  IsSamples(Samples(f))
<1> DEFINE spread    == [i \in DOMAIN f.book.spread |-> <<f.book.spread[i], 1>>]
           imbalance == [i \in DOMAIN f.book.imbalance |-> Absolute(f.book.imbalance[i])]
<1>1. IsOptional(spread) /\ IsOptional(imbalance)
  <2>1. spread = [i \in DOMAIN f.book.spread |-> spread[i]]
    OBVIOUS
  <2>2. imbalance = [i \in DOMAIN f.book.imbalance |-> imbalance[i]]
    OBVIOUS
  <2> HIDE DEF spread, imbalance
  <2> QED
    BY <2>1, <2>2, MappedIsOptional DEF IsFeatures
<1>2. \A units : IsOptional(DepthSample(f.book, units))
  BY Zenon DEF DepthSample, IsOptional
<1>3. IsOptional(<<<<f.message_rate, 1>>>>) /\ IsOptional(<<f.cancel_add_ratio>>)
  BY Zenon DEF IsOptional
<1>4. IsOptional(f.volatility)
  BY DEF IsFeatures
<1>5. Samples(f) =
        [bid_ask_spread       |-> spread,
         top_n_bid_depth      |-> DepthSample(f.book, f.book.bid_depth),
         top_n_ask_depth      |-> DepthSample(f.book, f.book.ask_depth),
         order_book_imbalance |-> imbalance,
         message_rate         |-> <<<<f.message_rate, 1>>>>,
         cancel_add_ratio     |-> <<f.cancel_add_ratio>>,
         mid_price_volatility |-> f.volatility]
  BY Zenon DEF Samples
<1> HIDE DEF spread, imbalance
<1>6. Feature = {"bid_ask_spread", "top_n_bid_depth", "top_n_ask_depth",
                 "order_book_imbalance", "message_rate", "cancel_add_ratio",
                 "mid_price_volatility"}
  BY Zenon DEF Feature, Reason
<1>7. PICK v1, v2, v3, v4, v5, v6, v7 :
        /\ v1 = spread /\ v2 = DepthSample(f.book, f.book.bid_depth)
        /\ v3 = DepthSample(f.book, f.book.ask_depth) /\ v4 = imbalance
        /\ v5 = <<<<f.message_rate, 1>>>> /\ v6 = <<f.cancel_add_ratio>>
        /\ v7 = f.volatility
  BY Zenon
<1>8. PICK t : t = [bid_ask_spread |-> v1, top_n_bid_depth |-> v2, top_n_ask_depth |-> v3,
                    order_book_imbalance |-> v4, message_rate |-> v5,
                    cancel_add_ratio |-> v6, mid_price_volatility |-> v7]
  BY Zenon
<1>9. Samples(f) = t
  BY <1>5, <1>7, <1>8, Zenon
<1>10. IsOptional(v1) /\ IsOptional(v2) /\ IsOptional(v3) /\ IsOptional(v4)
       /\ IsOptional(v5) /\ IsOptional(v6) /\ IsOptional(v7)
  BY <1>1, <1>2, <1>3, <1>4, <1>7, Zenon
<1>11. DOMAIN t = Feature
  BY <1>6, <1>8, Zenon
<1>12. \A feature \in Feature : t[feature] \in {v1, v2, v3, v4, v5, v6, v7}
  BY <1>6, <1>8
<1> QED
  BY <1>9, <1>10, <1>11, <1>12, Zenon DEF IsSamples

LEMMA ExtractGivesFeatures ==
  ASSUME NEW event, extract(event)
  PROVE  IsFeatures(features'[1])
<1>1. PICK top, views, messages, ratios, mids :
        LET book == BookFeatures(top, views)
        IN  features' = <<[book |-> book, message_rate |-> messages,
                           cancel_add_ratio |-> ratios,
                           volatility |-> IF book.two_sided THEN mid_volatility(mids)
                                          ELSE << >>]>>
  BY Zenon DEF extract
<1> DEFINE book == BookFeatures(top, views)
<1>2. IsOptional(book.spread) /\ IsOptional(book.imbalance)
  BY Zenon DEF BookFeatures, IsOptional, Imbalance
<1>3. IsOptional(mid_volatility(mids)) /\ IsOptional(<< >>)
  BY Zenon DEF mid_volatility, IsOptional
<1> HIDE DEF book
<1>4. /\ features'[1].book = book
      /\ features'[1].volatility = IF book.two_sided THEN mid_volatility(mids) ELSE << >>
  BY <1>1 DEF book
<1> QED
  BY <1>2, <1>3, <1>4 DEF IsFeatures

LEMMA ObserveEmits ==
  ASSUME NEW event, observe(event)
  PROVE  \E samples : /\ samples = Samples(features'[1]) /\ IsSamples(samples)
                      /\ states' = [f \in Feature |-> states[f] \o samples[f]]
                      /\ anomalies' = Emitted(event, samples)
                      /\ DrawnFrom(anomalies', Hits(samples), event, samples, 7)
<1>1. PICK samples : samples = Samples(features'[1])
  OBVIOUS
<1>2. /\ extract(event) /\ states' = [f \in Feature |-> states[f] \o samples[f]]
      /\ anomalies' = Emitted(event, samples)
  BY <1>1, Zenon DEF observe
<1>3. IsSamples(samples)
  BY <1>1, <1>2, ExtractGivesFeatures, SamplesAreOptional
<1>4. DrawnFrom(anomalies', Hits(samples), event, samples, 7)
  BY <1>2, EmittedIsDrawn
<1> QED
  BY <1>1, <1>2, <1>3, <1>4

LEMMA ObservedGivesList ==
  ASSUME NEW event, observe(event)
  PROVE  IsList(anomalies')
BY ObserveEmits DEF DrawnFrom

LEMMA ExtractRecords ==
  ASSUME NEW event, extract(event)
  PROVE  observed' = Append(observed, [event |-> event, orders |-> order_lookup'])
BY Zenon DEF extract

-----------------------------------------------------------------------------
(* Every anomaly is justified *)

\* The samples of each feature are a list.
StatesAreLists == DOMAIN states = Feature /\ \A f \in Feature : IsList(states[f])

\* A reason names the direction in which its feature is watched.
LEMMA ReasonHasDirection ==
  ASSUME NEW f \in Feature
  PROVE  /\ Direction(f) \in {"Positive", "Negative"}
         /\ Direction(f) = "Negative" <=>
              Reason[f] \in {"bid_depth_collapse", "ask_depth_collapse"}
<1>1. Feature = {"bid_ask_spread", "top_n_bid_depth", "top_n_ask_depth",
                 "order_book_imbalance", "message_rate", "cancel_add_ratio",
                 "mid_price_volatility"}
  BY Zenon DEF Feature, Reason
<1> QED
  BY <1>1 DEF Direction, Reason

LEMMA PassesMeans ==
  ASSUME NEW f \in Feature, NEW x, Passes(f, x)
  PROVE  /\ Len(states[f]) >= min_samples
         /\ Score(states[f], x) =
              (IF Reason[f] \in {"bid_depth_collapse", "ask_depth_collapse"}
               THEN "low" ELSE "high")
<1>1. PICK d \in {"Positive", "Negative"} : d = Direction(f)
  BY ReasonHasDirection
<1>2. d = "Negative" <=> Reason[f] \in {"bid_depth_collapse", "ask_depth_collapse"}
  BY <1>1, ReasonHasDirection
<1>3. PICK v, s, b : v = Score(states[f], x) /\ s = states[f]
                     /\ b = (Reason[f] \in {"bid_depth_collapse", "ask_depth_collapse"})
  BY Zenon
<1>4. Len(s) >= min_samples /\ CASE d = "Positive" -> v = "high"
                                  [] d = "Negative" -> v = "low"
  BY <1>1, <1>3, Zenon DEF Passes
<1>5. (d = "Positive" /\ v = "high") \/ (d = "Negative" /\ v = "low")
  BY <1>1, <1>4
<1> QED
  BY <1>2, <1>3, <1>4, <1>5, Zenon

LEMMA AnomalyFields ==
  ASSUME NEW event, NEW f, NEW x, NEW a, a = Anomaly(event, f, x)
  PROVE  /\ a.feature = f /\ a.value = x /\ a.timestamp = event.timestamp
         /\ a.order_id = event.order_id /\ a.reason = Reason[f]
BY Zenon DEF Anomaly

LEMMA ObserveJustifies ==
  ASSUME NEW event, StatesAreLists, IsList(observed), observe(event)
  PROVE  StatesAreLists' /\ IsList(observed') /\ AnomaliesJustified'
<1>1. PICK samples : /\ IsSamples(samples)
                     /\ states' = [f \in Feature |-> states[f] \o samples[f]]
                     /\ DrawnFrom(anomalies', Hits(samples), event, samples, 7)
  BY ObserveEmits
<1>2. observed' = Append(observed, [event |-> event, orders |-> order_lookup'])
  BY ExtractRecords DEF observe
<1>3. IsList(observed') /\ Now' = event.timestamp /\ Last(observed').event = event
  <2>1. PICK o, t : o = [event |-> event, orders |-> order_lookup'] /\ t = observed
    BY Zenon
  <2>2. IsList(Append(t, o)) /\ Last(Append(t, o)) = o
    BY <2>1, AppendToList, FrontAndLast, ZenonT(40)
  <2>3. o.event = event
    BY <2>1, Zenon
  <2> QED
    BY <1>2, <2>1, <2>2, <2>3, Zenon DEF Now
<1>4. StatesAreLists'
  <2>1. \A f \in Feature : IsList(states[f] \o samples[f])
    <3> TAKE f \in Feature
    <3>1. PICK s, t : s = states[f] /\ t = samples[f]
      BY Zenon
    <3>2. IsList(s) /\ IsList(t)
      BY <1>1, <3>1, OptionalIsList DEF StatesAreLists, IsSamples
    <3> QED
      BY <3>1, <3>2, ConcatOfLists
  <2> QED
    BY <1>1, <2>1, Zenon DEF StatesAreLists
<1>5. ASSUME NEW i \in DOMAIN anomalies'
      PROVE  LET a == (anomalies')[i]
                 before == Front(states'[a.feature])
             IN  /\ Len(before) >= min_samples
                 /\ a.value = Last(states'[a.feature])
                 /\ a.timestamp = Now' /\ a.order_id = Last(observed').event.order_id
                 /\ Score(before, a.value) =
                      (IF a.reason \in {"bid_depth_collapse", "ask_depth_collapse"}
                       THEN "low" ELSE "high")
                 /\ \A j \in DOMAIN anomalies' :
                      (anomalies')[j].feature = a.feature => i = j
  <2>1. PICK l : l = anomalies'
    OBVIOUS
  <2>2. /\ DOMAIN l = 1 .. Len(l)
        /\ \A j, k \in 1 .. Len(l) : l[j].feature = l[k].feature => j = k
    BY <1>1, <2>1, ListFacts DEF DrawnFrom
  <2>3. PICK k \in 1 .. 7 : k \in Hits(samples) /\ l[i] = EntryOf(event, samples, k)
    BY <1>1, <2>1, <2>2 DEF DrawnFrom
  <2>4. PICK f \in Feature : f = ScoringOrder[k]
    BY ScoringOrderFacts
  <2>5. samples[f] # << >> /\ Passes(f, samples[f][1])
    BY <2>3, <2>4, Zenon DEF Hits
  <2>6. PICK x : samples[f] = <<x>>
    BY <1>1, <2>5 DEF IsSamples, IsOptional
  <2>7. samples[f][1] = x
    BY <2>6
  <2>8. PICK a : a = l[i]
    OBVIOUS
  <2>9. /\ a.feature = f /\ a.value = x /\ a.timestamp = event.timestamp
        /\ a.order_id = event.order_id /\ a.reason = Reason[f]
    <3>1. a = Anomaly(event, f, x)
      BY <2>3, <2>4, <2>7, <2>8, Zenon DEF EntryOf
    <3> QED
      BY <3>1, AnomalyFields
  <2>10. PICK s : s = states[f]
    OBVIOUS
  <2>11. IsList(s)
    BY <2>10 DEF StatesAreLists
  <2>12. states'[f] = s \o <<x>>
    BY <1>1, <2>6, <2>10, Zenon
  <2>13. Front(states'[f]) = s /\ Last(states'[f]) = x
    BY <2>11, <2>12, FrontAndLast
  <2>14. Passes(f, x)
    BY <2>5, <2>7, Zenon
  <2>15. /\ Len(s) >= min_samples
         /\ Score(s, x) = (IF Reason[f] \in {"bid_depth_collapse", "ask_depth_collapse"}
                           THEN "low" ELSE "high")
    BY <2>10, <2>14, PassesMeans, Zenon
  <2>16. \A j \in DOMAIN l : l[j].feature = a.feature => i = j
    BY <2>1, <2>2, <2>8
  <2> QED
    BY <1>3, <2>1, <2>8, <2>9, <2>13, <2>15, <2>16, Zenon
<1>6. AnomaliesJustified'
  BY <1>5, Zenon DEF AnomaliesJustified
<1> QED
  BY <1>3, <1>4, <1>6

-----------------------------------------------------------------------------
(* The units of some orders *)

\* The recursion of TrueUnits.
AddsUnits(f, records, ids) ==
  f = [s \in SUBSET ids |->
         IF s = {} THEN 0
         ELSE f[s \ {CHOOSE x \in s : TRUE}] + records[CHOOSE x \in s : TRUE].quantity]

AddsAt(f, records, s) ==
  f[s] = IF s = {} THEN 0
         ELSE f[s \ {CHOOSE x \in s : TRUE}] + records[CHOOSE x \in s : TRUE].quantity

LEMMA AddsUnitsStep ==
  ASSUME NEW ids, NEW records, NEW f, AddsUnits(f, records, ids), NEW s \in SUBSET ids
  PROVE  AddsAt(f, records, s)
<1> DEFINE Value(t) == IF t = {} THEN 0
                       ELSE f[t \ {CHOOSE x \in t : TRUE}]
                            + records[CHOOSE x \in t : TRUE].quantity
<1>1. f = [t \in SUBSET ids |-> Value(t)]
  BY Zenon DEF AddsUnits
<1> HIDE DEF Value
<1>2. f[s] = Value(s)
  BY <1>1
<1> QED
  BY <1>2, Zenon DEF Value, AddsAt

LEMMA OneLess ==
  ASSUME NEW s, IsFiniteSet(s), NEW n, Cardinality(s) = n, NEW x \in s
  PROVE  /\ Cardinality(s \ {x}) = n - 1 /\ n - 1 \in Nat
         /\ <<n - 1, n>> \in OpToRel(<, Nat)
<1>1. Cardinality(s \ {x}) = n - 1 /\ n \in Nat /\ Cardinality(s \ {x}) \in Nat
  BY FS_RemoveElement, FS_CardinalityType
<1> QED
  BY <1>1 DEF OpToRel

LEMMA AddsUnitsUnique ==
  ASSUME NEW ids, IsFiniteSet(ids), NEW records, NEW f, NEW g,
         AddsUnits(f, records, ids), AddsUnits(g, records, ids)
  PROVE  f[ids] = g[ids]
<1> DEFINE T == {n \in Nat : \E s \in SUBSET ids : Cardinality(s) = n /\ f[s] # g[s]}
<1>0. ASSUME NEW s \in SUBSET ids
      PROVE  IsFiniteSet(s) /\ Cardinality(s) \in Nat
  BY FS_Subset, FS_CardinalityType
<1> SUFFICES ASSUME T # {} PROVE FALSE
  <2>1. ids \in SUBSET ids
    OBVIOUS
  <2> QED
    BY <1>0, <2>1
<1>1. T \subseteq Nat
  OBVIOUS
<1>2. PICK n \in T : \A j \in T : ~(<<j, n>> \in OpToRel(<, Nat))
  BY <1>1, NatLessThanWellFounded, WFMin
<1>3. PICK s \in SUBSET ids : n \in Nat /\ Cardinality(s) = n /\ f[s] # g[s]
  OBVIOUS
<1>4. AddsAt(f, records, s) /\ AddsAt(g, records, s)
  BY AddsUnitsStep
<1>5. s # {}
  BY <1>3, <1>4, Zenon DEF AddsAt
<1>6. PICK x : x = CHOOSE y \in s : TRUE
  OBVIOUS
<1>7. x \in s
  BY <1>5, <1>6
<1>8. /\ f[s] = f[s \ {x}] + records[x].quantity
      /\ g[s] = g[s \ {x}] + records[x].quantity
  BY <1>4, <1>5, <1>6, Zenon DEF AddsAt
<1>9. Cardinality(s \ {x}) = n - 1 /\ s \ {x} \in SUBSET ids /\ n - 1 \in Nat
  BY <1>0, <1>3, <1>7, OneLess
<1>10. <<n - 1, n>> \in OpToRel(<, Nat)
  BY <1>0, <1>3, <1>7, OneLess
<1>11. n - 1 \notin T
  BY <1>2, <1>10
<1>12. f[s \ {x}] = g[s \ {x}]
  BY <1>9, <1>11
<1> QED
  BY <1>3, <1>8, <1>12

LEMMA TrueUnitsIs ==
  ASSUME NEW ids, NEW records
  PROVE  LET h == CHOOSE f : AddsUnits(f, records, ids)
         IN  TrueUnits(records, ids) = h[ids]
BY Zenon DEF TrueUnits, FoldSet, MapThenFoldSet, AddsUnits

\* The recursion holds of TrueUnits itself.
UnitsRecur(records, ids) ==
  TrueUnits(records, ids) =
    IF ids = {} THEN 0
    ELSE TrueUnits(records, ids \ {CHOOSE x \in ids : TRUE})
         + records[CHOOSE x \in ids : TRUE].quantity

LEMMA TrueUnitsRecur ==
  ASSUME NEW ids, IsFiniteSet(ids), NEW records
  PROVE  UnitsRecur(records, ids)
<1> DEFINE T == {n \in Nat : \E s \in SUBSET ids : Cardinality(s) = n /\ ~UnitsRecur(records, s)}
<1>0. ASSUME NEW s \in SUBSET ids
      PROVE  IsFiniteSet(s) /\ Cardinality(s) \in Nat
  BY FS_Subset, FS_CardinalityType
<1> SUFFICES ASSUME T # {} PROVE FALSE
  <2>1. ids \in SUBSET ids
    OBVIOUS
  <2> QED
    BY <1>0, <2>1
<1>1. T \subseteq Nat
  OBVIOUS
<1>2. PICK n \in T : \A j \in T : ~(<<j, n>> \in OpToRel(<, Nat))
  BY <1>1, NatLessThanWellFounded, WFMin
<1>3. PICK all \in SUBSET ids : n \in Nat /\ Cardinality(all) = n /\ ~UnitsRecur(records, all)
  OBVIOUS
<1>4. ASSUME NEW s \in SUBSET all, s # all
      PROVE  UnitsRecur(records, s)
  <2>1. IsFiniteSet(all) /\ s \in SUBSET ids
    BY <1>0
  <2>2. Cardinality(s) < n /\ Cardinality(s) \in Nat
    BY <1>0, <1>3, <1>4, <2>1, FS_Subset
  <2>3. <<Cardinality(s), n>> \in OpToRel(<, Nat)
    BY <1>3, <2>2 DEF OpToRel
  <2> QED
    BY <1>2, <2>1, <2>2, <2>3
<1> DEFINE Value(s) == IF s = {} THEN 0
                       ELSE TrueUnits(records, s \ {CHOOSE x \in s : TRUE})
                            + records[CHOOSE x \in s : TRUE].quantity
           g == [s \in SUBSET all |-> Value(s)]
<1>5. \A s \in SUBSET all : s # all => g[s] = TrueUnits(records, s)
  BY <1>4, Zenon DEF UnitsRecur
<1>6. AddsUnits(g, records, all)
  <2>1. ASSUME NEW s \in SUBSET all
        PROVE  g[s] = IF s = {} THEN 0
                      ELSE g[s \ {CHOOSE x \in s : TRUE}]
                           + records[CHOOSE x \in s : TRUE].quantity
    <3>1. CASE s = {}
      BY <3>1, Zenon
    <3>2. CASE s # {}
      <4>1. PICK x : x = CHOOSE y \in s : TRUE
        OBVIOUS
      <4>2. x \in s /\ s \ {x} \in SUBSET all /\ s \ {x} # all
        BY <3>2, <4>1
      <4>3. g[s \ {x}] = TrueUnits(records, s \ {x})
        BY <1>5, <4>2, Zenon
      <4>4. g[s] = TrueUnits(records, s \ {x}) + records[x].quantity
        BY <3>2, <4>1, Zenon
      <4> QED
        BY <3>2, <4>1, <4>3, <4>4, Zenon
    <3> QED
      BY <3>1, <3>2
  <2>2. g = [s \in SUBSET all |-> g[s]]
    <3> HIDE DEF Value
    <3> QED
      OBVIOUS
  <2> HIDE DEF g
  <2> QED
    BY <2>1, <2>2, Zenon DEF AddsUnits
<1>7. g[all] = Value(all)
  BY Zenon
<1> HIDE DEF g
<1>8. PICK h : h = CHOOSE f : AddsUnits(f, records, all)
  OBVIOUS
<1>9. AddsUnits(h, records, all) /\ TrueUnits(records, all) = h[all]
  BY <1>6, <1>8, TrueUnitsIs, Zenon
<1>10. h[all] = g[all]
  BY <1>0, <1>6, <1>9, AddsUnitsUnique
<1> QED
  BY <1>3, <1>7, <1>9, <1>10, Zenon DEF UnitsRecur

\* What some orders hold is a number of units.
HaveUnits(records, ids) == IsFiniteSet(ids) /\ \A id \in ids : records[id].quantity \in Nat

LEMMA TrueUnitsType ==
  ASSUME NEW ids, NEW records, HaveUnits(records, ids)
  PROVE  TrueUnits(records, ids) \in Nat
<1> DEFINE T == {n \in Nat : \E s \in SUBSET ids :
                   Cardinality(s) = n /\ TrueUnits(records, s) \notin Nat}
<1>0. ASSUME NEW s \in SUBSET ids
      PROVE  IsFiniteSet(s) /\ Cardinality(s) \in Nat
  BY FS_Subset, FS_CardinalityType DEF HaveUnits
<1> SUFFICES ASSUME T # {} PROVE FALSE
  <2>1. ids \in SUBSET ids
    OBVIOUS
  <2> QED
    BY <1>0, <2>1
<1>1. T \subseteq Nat
  OBVIOUS
<1>2. PICK n \in T : \A j \in T : ~(<<j, n>> \in OpToRel(<, Nat))
  BY <1>1, NatLessThanWellFounded, WFMin
<1>3. PICK s \in SUBSET ids :
        n \in Nat /\ Cardinality(s) = n /\ TrueUnits(records, s) \notin Nat
  OBVIOUS
<1>4. UnitsRecur(records, s)
  BY <1>0, TrueUnitsRecur
<1>5. s # {}
  BY <1>3, <1>4 DEF UnitsRecur
<1>6. PICK x : x = CHOOSE y \in s : TRUE
  OBVIOUS
<1>7. x \in s
  BY <1>5, <1>6
<1>8. TrueUnits(records, s) = TrueUnits(records, s \ {x}) + records[x].quantity
  BY <1>4, <1>5, <1>6, Zenon DEF UnitsRecur
<1>9. Cardinality(s \ {x}) = n - 1 /\ s \ {x} \in SUBSET ids /\ n - 1 \in Nat
  BY <1>0, <1>3, <1>7, OneLess
<1>10. <<n - 1, n>> \in OpToRel(<, Nat)
  BY <1>0, <1>3, <1>7, OneLess
<1>11. n - 1 \notin T
  BY <1>2, <1>10
<1>12. PICK a \in Nat, b \in Nat : a = TrueUnits(records, s \ {x}) /\ b = records[x].quantity
  BY <1>7, <1>9, <1>11 DEF HaveUnits
<1> QED
  BY <1>3, <1>8, <1>12

\* Units are added up in any order.
LEMMA TrueUnitsAdd ==
  ASSUME NEW ids, NEW records, HaveUnits(records, ids), NEW x \in ids
  PROVE  TrueUnits(records, ids) = TrueUnits(records, ids \ {x}) + records[x].quantity
<1> DEFINE Splits(s) == \A y \in s : TrueUnits(records, s) =
                                      TrueUnits(records, s \ {y}) + records[y].quantity
           T == {n \in Nat : \E s \in SUBSET ids : Cardinality(s) = n /\ ~Splits(s)}
<1>0. ASSUME NEW s \in SUBSET ids
      PROVE  IsFiniteSet(s) /\ Cardinality(s) \in Nat /\ HaveUnits(records, s)
  BY FS_Subset, FS_CardinalityType DEF HaveUnits
<1> SUFFICES ASSUME T # {} PROVE FALSE
  <2>1. ids \in SUBSET ids
    OBVIOUS
  <2>2. Splits(ids)
    BY <1>0, <2>1
  <2> QED
    BY <2>2
<1>1. T \subseteq Nat
  OBVIOUS
<1>2. PICK n \in T : \A j \in T : ~(<<j, n>> \in OpToRel(<, Nat))
  BY <1>1, NatLessThanWellFounded, WFMin
<1>3. PICK s \in SUBSET ids : n \in Nat /\ Cardinality(s) = n /\ ~Splits(s)
  OBVIOUS
<1>4. PICK y \in s : TrueUnits(records, s) # TrueUnits(records, s \ {y}) + records[y].quantity
  BY <1>3
<1> HIDE DEF Splits
<1>5. PICK z : z = CHOOSE v \in s : TRUE
  OBVIOUS
<1>6. z \in s /\ TrueUnits(records, s) = TrueUnits(records, s \ {z}) + records[z].quantity
  <2>1. UnitsRecur(records, s)
    BY <1>0, TrueUnitsRecur
  <2> QED
    BY <1>4, <1>5, <2>1, Zenon DEF UnitsRecur
<1>7. z # y
  BY <1>4, <1>6
<1>8. ASSUME NEW v \in s PROVE Splits(s \ {v})
  <2>1. Cardinality(s \ {v}) = n - 1 /\ s \ {v} \in SUBSET ids /\ n - 1 \in Nat
    BY <1>0, <1>3, OneLess
  <2>2. <<n - 1, n>> \in OpToRel(<, Nat)
    BY <1>0, <1>3, OneLess
  <2> QED
    BY <1>2, <2>1, <2>2
<1>9. y \in s \ {z} /\ z \in s \ {y} /\ (s \ {z}) \ {y} = (s \ {y}) \ {z}
  BY <1>6, <1>7
<1>10. PICK rest : rest = (s \ {y}) \ {z}
  OBVIOUS
<1>11. /\ TrueUnits(records, s \ {z}) = TrueUnits(records, rest) + records[y].quantity
       /\ TrueUnits(records, s \ {y}) = TrueUnits(records, rest) + records[z].quantity
  BY <1>6, <1>8, <1>9, <1>10, Zenon DEF Splits
<1>12. PICK a \in Nat, b \in Nat, c \in Nat :
         a = TrueUnits(records, rest) /\ b = records[y].quantity /\ c = records[z].quantity
  <2>1. HaveUnits(records, rest) /\ HaveUnits(records, s)
    BY <1>0, <1>10
  <2> QED
    BY <1>6, <2>1, TrueUnitsType DEF HaveUnits
<1> QED
  BY <1>4, <1>6, <1>11, <1>12

\* Two groups of orders hold what each of them holds.
LEMMA TrueUnitsUnion ==
  ASSUME NEW A, NEW B, NEW records, HaveUnits(records, A), HaveUnits(records, B),
         A \cap B = {}
  PROVE  TrueUnits(records, A \cup B) = TrueUnits(records, A) + TrueUnits(records, B)
<1> DEFINE T == {n \in Nat : \E s \in SUBSET B : Cardinality(s) = n /\
                   TrueUnits(records, A \cup s) # TrueUnits(records, A) + TrueUnits(records, s)}
<1>0. ASSUME NEW s \in SUBSET B
      PROVE  /\ IsFiniteSet(s) /\ Cardinality(s) \in Nat /\ HaveUnits(records, s)
             /\ HaveUnits(records, A \cup s)
  BY FS_Subset, FS_Union, FS_CardinalityType DEF HaveUnits
<1> SUFFICES ASSUME T # {} PROVE FALSE
  <2>1. B \in SUBSET B
    OBVIOUS
  <2> QED
    BY <1>0, <2>1
<1>1. T \subseteq Nat
  OBVIOUS
<1>2. PICK n \in T : \A j \in T : ~(<<j, n>> \in OpToRel(<, Nat))
  BY <1>1, NatLessThanWellFounded, WFMin
<1>3. PICK s \in SUBSET B : n \in Nat /\ Cardinality(s) = n /\
        TrueUnits(records, A \cup s) # TrueUnits(records, A) + TrueUnits(records, s)
  OBVIOUS
<1>4. PICK a \in Nat : a = TrueUnits(records, A)
  BY TrueUnitsType
<1>5. s # {}
  <2>1. SUFFICES ASSUME s = {} PROVE FALSE
    OBVIOUS
  <2>2. IsFiniteSet({}) /\ UnitsRecur(records, {})
    BY FS_EmptySet, TrueUnitsRecur
  <2>3. TrueUnits(records, {}) = 0 /\ A \cup {} = A
    BY <2>2 DEF UnitsRecur
  <2> QED
    BY <1>3, <1>4, <2>1, <2>3
<1>6. PICK x \in s : TRUE
  BY <1>5
<1>7. Cardinality(s \ {x}) = n - 1 /\ s \ {x} \in SUBSET B /\ n - 1 \in Nat
  BY <1>0, <1>3, OneLess
<1>8. <<n - 1, n>> \in OpToRel(<, Nat)
  BY <1>0, <1>3, OneLess
<1>9. n - 1 \notin T
  BY <1>2, <1>8
<1>10. TrueUnits(records, A \cup (s \ {x})) =
         TrueUnits(records, A) + TrueUnits(records, s \ {x})
  BY <1>7, <1>9
<1>11. (A \cup s) \ {x} = A \cup (s \ {x}) /\ x \in A \cup s
  OBVIOUS
<1>12. TrueUnits(records, A \cup s) = TrueUnits(records, A \cup (s \ {x})) + records[x].quantity
  BY <1>0, <1>11, TrueUnitsAdd
<1>13. TrueUnits(records, s) = TrueUnits(records, s \ {x}) + records[x].quantity
  BY <1>0, TrueUnitsAdd
<1>14. PICK b \in Nat, c \in Nat : b = TrueUnits(records, s \ {x}) /\ c = records[x].quantity
  <2>1. HaveUnits(records, s \ {x}) /\ HaveUnits(records, s)
    BY <1>0, <1>7
  <2> QED
    BY <2>1, TrueUnitsType DEF HaveUnits
<1> QED
  BY <1>3, <1>4, <1>10, <1>12, <1>13, <1>14

LEMMA PlusOfRemainders ==
  ASSUME NEW a \in Nat, NEW b \in Nat
  PROVE  /\ Plus(a % Word, b) = (a + b) % Word
         /\ Plus(a % Word, b % Word) = (a + b) % Word
<1> USE WordAssumption
<1>1. \A n \in Nat : \E d \in Nat, r \in 0 .. (Word - 1) : r = n % Word /\ n = Word * d + r
  <2> TAKE n \in Nat
  <2>1. /\ n % Word \in 0 .. (Word - 1) /\ n \div Word \in Nat
        /\ n = Word * (n \div Word) + (n % Word)
    OBVIOUS
  <2> QED
    BY <2>1
<1>2. PICK d \in Nat, r \in 0 .. (Word - 1) : r = a % Word /\ a = Word * d + r
  BY <1>1
<1>3. PICK e \in Nat, s \in 0 .. (Word - 1) : s = b % Word /\ b = Word * e + s
  BY <1>1
<1>4. PICK c \in Nat : c = r + s
  OBVIOUS
<1>5. PICK f \in Nat, t \in 0 .. (Word - 1) : t = c % Word /\ c = Word * f + t
  BY <1>1
<1>6. PICK x \in Int, y \in Int, z \in Int : x = Word * d /\ y = Word * e /\ z = Word * f
  OBVIOUS
<1>7. PICK g \in Int, h \in Int : g = d + e + f /\ h = e + f
  OBVIOUS
<1>8. Word * g = x + y + z /\ Word * h = y + z
  <2>1. Word * (d + e + f) = Word * d + Word * e + Word * f
    OBVIOUS
  <2>2. Word * (e + f) = Word * e + Word * f
    OBVIOUS
  <2> QED
    BY <1>6, <1>7, <2>1, <2>2
<1>9. a + b = Word * g + t /\ r + b = Word * h + t
  BY <1>2, <1>3, <1>4, <1>5, <1>6, <1>8
<1>10. (Word * g + t) % Word = t /\ (Word * h + t) % Word = t
  BY WordRemainder
<1>11. (a + b) % Word = t /\ (r + b) % Word = t /\ (r + s) % Word = t
  BY <1>4, <1>5, <1>9, <1>10, Zenon
<1> QED
  BY <1>2, <1>3, <1>11, Zenon DEF Plus

\* Added up in machine words: the remainder of the true sum.
LEMMA UnitsAreTrue ==
  ASSUME NEW ids, NEW records, HaveUnits(records, ids)
  PROVE  UnitsOnRecord(records, ids) = TrueUnits(records, ids) % Word
<1> DEFINE g == [s \in SUBSET ids |-> TrueUnits(records, s) % Word]
<1>1. ASSUME NEW s \in SUBSET ids
      PROVE  g[s] = IF s = {} THEN 0
                    ELSE Plus(g[s \ {CHOOSE x \in s : TRUE}],
                              records[CHOOSE x \in s : TRUE].quantity)
  <2>0. HaveUnits(records, s) /\ UnitsRecur(records, s)
    BY FS_Subset, TrueUnitsRecur DEF HaveUnits
  <2>1. CASE s = {}
    <3>1. TrueUnits(records, s) = 0
      BY <2>0, <2>1 DEF UnitsRecur
    <3>2. 0 % Word = 0
      BY WordAssumption
    <3> QED
      BY <2>1, <3>1, <3>2
  <2>2. CASE s # {}
    <3>1. PICK x : x = CHOOSE y \in s : TRUE
      OBVIOUS
    <3>2. x \in s /\ s \ {x} \in SUBSET ids
      BY <2>2, <3>1
    <3>3. TrueUnits(records, s) = TrueUnits(records, s \ {x}) + records[x].quantity
      BY <2>0, <3>2, TrueUnitsAdd
    <3>4. PICK a \in Nat, b \in Nat :
            a = TrueUnits(records, s \ {x}) /\ b = records[x].quantity
      <4>1. HaveUnits(records, s \ {x})
        BY <2>0, FS_Subset DEF HaveUnits
      <4> QED
        BY <2>0, <3>2, <4>1, TrueUnitsType DEF HaveUnits
    <3>5. g[s] = (a + b) % Word /\ g[s \ {x}] = a % Word
      BY <3>2, <3>3, <3>4
    <3>6. g[s] = Plus(g[s \ {x}], records[x].quantity)
      <4>1. Plus(a % Word, b) = (a + b) % Word
        BY PlusOfRemainders
      <4> QED
        BY <3>4, <3>5, <4>1, Zenon
    <3> QED
      BY <2>2, <3>1, <3>6, Zenon
  <2> QED
    BY <2>1, <2>2
<1>2. g = [s \in SUBSET ids |-> g[s]] /\ g[ids] = TrueUnits(records, ids) % Word
  OBVIOUS
<1> HIDE DEF g
<1>3. TakesUnits(g, records, ids)
  BY <1>1, <1>2, Zenon DEF TakesUnits
<1>4. PICK h : h = CHOOSE f : TakesUnits(f, records, ids)
  OBVIOUS
<1>5. TakesUnits(h, records, ids)
  BY <1>3, <1>4, Zenon
<1>6. UnitsOnRecord(records, ids) = h[ids]
  BY <1>4, Zenon DEF UnitsOnRecord, FoldSet, MapThenFoldSet, TakesUnits
<1>7. h[ids] = g[ids]
  BY <1>3, <1>5, UnitsUnique DEF HaveUnits
<1> QED
  BY <1>2, <1>6, <1>7

-----------------------------------------------------------------------------
(* What the book shows, from the recorded orders alone *)

\* Records as a book keeps them.
IsRecords(records) ==
  /\ IsFiniteSet(DOMAIN records)
  /\ \A id \in DOMAIN records :
       records[id].quantity \in Nat \ {0} /\ records[id].price \in Price

\* The orders at the best k prices of a side.
NearIds(records, s, k) ==
  {id \in DOMAIN records :
     records[id].side = s /\ RankOf(records, s, records[id].price) <= k}

LEMMA RankIsPlace ==
  ASSUME NEW records, NEW s, NEW p
  PROVE  RankOf(records, s, p) \in Nat /\ RankOf(records, s, p) >= 1
<1> DEFINE Q == {q \in RecordedPrices(records, s) : Better(s, q, p)}
<1>1. Q \subseteq Price
  BY DEF RecordedPrices
<1> HIDE DEF Q
<1>2. Cardinality(Q) \in Nat
  BY <1>1, PriceAssumption, FS_Subset, FS_CardinalityType
<1> QED
  BY <1>2 DEF RankOf, Q

LEMMA ViewSum ==
  ASSUME NEW records, IsRecords(records), NEW s, NEW n \in Nat,
         NEW view, IsList(view), ShowsRecords(view, records, s, n)
  PROVE  WordSum(view) = TrueUnits(records, NearIds(records, s, n)) % Word
<1> DEFINE L == Len(view)
           Rank(p) == RankOf(records, s, p)
           Near(k) == NearIds(records, s, k)
           At(k)   == RecordedAt(records, s, view[k].price)
<1>1. L \in Nat /\ DOMAIN view = 1 .. L
  BY ListFacts
<1>2. \A k \in 1 .. L : Rank(view[k].price) = k /\ view[k].quantity = UnitsOnRecord(records, At(k))
  BY <1>1 DEF ShowsRecords
<1>3. \A k \in 1 .. L : k <= n
  <2> TAKE k \in 1 .. L
  <2>1. view[k].price \in {p \in RecordedPrices(records, s) : RankOf(records, s, p) <= n}
    BY <1>1 DEF ShowsRecords
  <2> QED
    BY <1>2, <2>1
<1>4. ASSUME NEW id \in DOMAIN records, records[id].side = s, Rank(records[id].price) <= n
      PROVE  Rank(records[id].price) \in 1 .. L
             /\ view[Rank(records[id].price)].price = records[id].price
  <2>1. records[id].price \in RecordedPrices(records, s)
    BY <1>4 DEF RecordedPrices, RecordedAt, IsRecords
  <2>2. PICK i \in DOMAIN view : view[i].price = records[id].price
    BY <1>4, <2>1 DEF ShowsRecords
  <2>3. i \in 1 .. L /\ Rank(records[id].price) = i
    BY <1>1, <1>2, <2>2
  <2> QED
    BY <2>2, <2>3
<1>5. \A k \in 0 .. L : HaveUnits(records, Near(k))
  BY FS_Subset DEF HaveUnits, NearIds, IsRecords
<1>6. ASSUME NEW k \in 1 .. L
      PROVE  /\ Near(k) = Near(k - 1) \cup At(k) /\ Near(k - 1) \cap At(k) = {}
             /\ HaveUnits(records, At(k))
  <2>1. ASSUME NEW id \in DOMAIN records, records[id].side = s
        PROVE  /\ Rank(records[id].price) = k <=> records[id].price = view[k].price
               /\ Rank(records[id].price) \in Nat
    <3>1. Rank(records[id].price) \in Nat
      BY RankIsPlace
    <3>2. Rank(view[k].price) = k /\ k <= n
      BY <1>2, <1>3
    <3>3. Rank(records[id].price) = k => records[id].price = view[k].price
      BY <1>4, <2>1, <3>2
    <3> QED
      BY <3>1, <3>2, <3>3
  <2>2. \A r \in Nat : r <= k <=> (r <= k - 1 \/ r = k)
    BY <1>1
  <2>3. \A r \in Nat : ~(r <= k - 1 /\ r = k)
    BY <1>1
  <2> HIDE DEF Rank
  <2>4. Near(k) = Near(k - 1) \cup At(k)
    BY <2>1, <2>2 DEF NearIds, RecordedAt, Rank
  <2>5. Near(k - 1) \cap At(k) = {}
    BY <2>1, <2>3 DEF NearIds, RecordedAt, Rank
  <2>6. HaveUnits(records, At(k))
    BY FS_Subset DEF HaveUnits, RecordedAt, IsRecords
  <2> QED
    BY <2>4, <2>5, <2>6
<1>7. Near(0) = {}
  <2>1. \A id \in DOMAIN records : ~(RankOf(records, s, records[id].price) <= 0)
    BY RankIsPlace
  <2> QED
    BY <2>1, Zenon DEF NearIds
<1>8. Near(L) = Near(n)
  <2>1. ASSUME NEW id \in Near(n) PROVE id \in Near(L)
    BY <1>1, <1>4 DEF NearIds
  <2>2. ASSUME NEW id \in Near(L) PROVE id \in Near(n)
    <3>1. L <= n
      <4>1. L = 0 \/ L \in 1 .. L
        BY <1>1
      <4> QED
        BY <1>3, <4>1
    <3>2. RankOf(records, s, records[id].price) \in Nat
      BY RankIsPlace
    <3> QED
      BY <1>1, <3>1, <3>2 DEF NearIds
  <2> QED
    BY <2>1, <2>2
<1> DEFINE g == [k \in 0 .. L |-> TrueUnits(records, Near(k)) % Word]
           Solves(f) == f = [k \in 0 .. L |->
                               IF k = 0 THEN 0 ELSE Plus(f[k - 1], view[k].quantity)]
<1> HIDE DEF Near, At, Rank
<1>9. g[0] = 0
  <2>1. UnitsRecur(records, {})
    BY FS_EmptySet, TrueUnitsRecur
  <2>2. TrueUnits(records, {}) = 0
    BY <2>1 DEF UnitsRecur
  <2>3. 0 % Word = 0 /\ 0 \in 0 .. L
    BY <1>1, WordAssumption
  <2> QED
    BY <1>7, <2>2, <2>3
<1>10. ASSUME NEW k \in 1 .. L PROVE g[k] = Plus(g[k - 1], view[k].quantity)
  <2>1. k \in 0 .. L /\ k - 1 \in 0 .. L
    BY <1>1
  <2>2. PICK a \in Nat, b \in Nat :
          a = TrueUnits(records, Near(k - 1)) /\ b = TrueUnits(records, At(k))
    BY <1>5, <1>6, <2>1, TrueUnitsType
  <2>3. TrueUnits(records, Near(k)) = a + b
    BY <1>5, <1>6, <2>1, <2>2, TrueUnitsUnion
  <2>4. view[k].quantity = b % Word
    BY <1>2, <1>6, <2>2, UnitsAreTrue
  <2>5. g[k] = (a + b) % Word /\ g[k - 1] = a % Word
    BY <2>1, <2>2, <2>3
  <2>6. Plus(a % Word, b % Word) = (a + b) % Word
    BY PlusOfRemainders
  <2> QED
    BY <2>4, <2>5, <2>6, Zenon
<1>11. g = [k \in 0 .. L |-> g[k]] /\ g[L] = TrueUnits(records, Near(n)) % Word
  BY <1>1, <1>8
<1> HIDE DEF g
<1>12. Solves(g)
  <2>1. ASSUME NEW k \in 0 .. L
        PROVE  g[k] = IF k = 0 THEN 0 ELSE Plus(g[k - 1], view[k].quantity)
    <3>1. k = 0 \/ (k # 0 /\ k \in 1 .. L)
      BY <1>1
    <3> QED
      BY <1>9, <1>10, <3>1, Zenon
  <2> QED
    BY <1>11, <2>1, Zenon
<1>13. PICK f : Solves(f) /\ WordSum(view) = f[L]
  <2> DEFINE h == CHOOSE f : Solves(f)
  <2>1. Solves(h)
    BY <1>12, Zenon
  <2>2. WordSum(view) = h[L]
    BY Zenon DEF WordSum, RunningSum
  <2> QED
    BY <2>1, <2>2, Zenon
<1>14. AddsUp(f, view, L)
  <2>1. 0 \in 0 .. L /\ \A k \in 1 .. L : k \in 0 .. L /\ k # 0
    BY <1>1
  <2> QED
    BY <1>13, <2>1, Zenon DEF AddsUp
<1>15. AddsUp(g, view, L)
  BY <1>9, <1>10 DEF AddsUp
<1>16. L \in 0 .. L
  BY <1>1
<1> HIDE DEF Solves, L
<1>17. f[L] = g[L]
  BY <1>1, <1>14, <1>15, <1>16, SumsAreUnique
<1> QED
  BY <1>11, <1>13, <1>17 DEF Near

LEMMA PricesInRecords ==
  ASSUME NEW records, IsRecords(records), NEW s
  PROVE  PricesIn(records, s) = RecordedPrices(records, s)
BY DEF PricesIn, RecordedPrices, RecordedAt, IsRecords

LEMMA UnitsInNear ==
  ASSUME NEW records, IsRecords(records), NEW s
  PROVE  UnitsIn(records, s) = TrueUnits(records, NearIds(records, s, TopN))
<1> DEFINE Ahead(p) == {q \in PricesIn(records, s) : Better(s, q, p)}
           ids == {id \in DOMAIN records : /\ records[id].side = s
                                           /\ Cardinality(Ahead(records[id].price)) < TopN}
<1>1. UnitsIn(records, s) = TrueUnits(records, ids)
  BY Zenon DEF UnitsIn
<1>2. \A p : RankOf(records, s, p) = Cardinality(Ahead(p)) + 1
  BY PricesInRecords, Zenon DEF RankOf
<1>3. \A p : Cardinality(Ahead(p)) \in Nat
  <2> TAKE p
  <2>1. Ahead(p) \subseteq Price
    BY PricesInRecords DEF RecordedPrices
  <2> HIDE DEF Ahead
  <2> QED
    BY <2>1, PriceAssumption, FS_Subset, FS_CardinalityType
<1> HIDE DEF Ahead
<1>4. \A p : Cardinality(Ahead(p)) < TopN <=> RankOf(records, s, p) <= TopN
  BY <1>2, <1>3, ExtractorAssumption
<1>5. ids = NearIds(records, s, TopN)
  BY <1>4, Zenon DEF NearIds
<1> QED
  BY <1>1, <1>5

LEMMA PricesInFacts ==
  ASSUME NEW records, IsRecords(records), NEW s
  PROVE  LET P == PricesIn(records, s)
         IN  /\ P = RecordedPrices(records, s) /\ P \subseteq Price
             /\ P \subseteq Int /\ IsFiniteSet(P)
<1> DEFINE P == PricesIn(records, s)
<1>1. P = RecordedPrices(records, s)
  BY PricesInRecords
<1>2. P \subseteq Price
  BY <1>1 DEF RecordedPrices
<1> HIDE DEF P
<1>3. P \subseteq Int /\ IsFiniteSet(P)
  BY <1>2, PriceAssumption, FS_Subset
<1> QED
  BY <1>1, <1>2, <1>3 DEF P

LEMMA BestExists ==
  ASSUME NEW records, IsRecords(records), NEW s \in Side, PricesIn(records, s) # {}
  PROVE  \E p \in PricesIn(records, s) : RankOf(records, s, p) = 1
<1> DEFINE P == PricesIn(records, s)
<1>0. P # {}
  OBVIOUS
<1>1. P = RecordedPrices(records, s) /\ P \subseteq Int /\ IsFiniteSet(P)
  BY PricesInFacts
<1> HIDE DEF P
<1>2. PICK seq : Lists(seq, s, P)
  BY <1>1, ListExists
<1>3. Cardinality(P) \in Nat /\ Cardinality(P) # 0
  BY <1>0, <1>1, FS_EmptySet, FS_CardinalityType
<1>4. 1 \in 1 .. Cardinality(P)
  BY <1>3
<1>5. Cardinality(BetterIn(P, s, seq[1])) = 1 - 1 /\ seq[1] \in P
  BY <1>1, <1>2, <1>4, PlaceIsRank DEF Lists
<1>6. RankOf(records, s, seq[1]) = 1
  BY <1>1, <1>5 DEF RankOf, BetterIn
<1> QED
  BY <1>5, <1>6 DEF P

\* The depth of a side that has orders is not zero.
LEMMA UnitsPositive ==
  ASSUME NEW records, IsRecords(records), NEW s \in Side
  PROVE  /\ UnitsIn(records, s) \in Nat
         /\ PricesIn(records, s) # {} /\ TopN > 0 => UnitsIn(records, s) > 0
<1> DEFINE ids == NearIds(records, s, TopN)
<1>1. HaveUnits(records, ids) /\ UnitsIn(records, s) = TrueUnits(records, ids)
  BY UnitsInNear, FS_Subset DEF HaveUnits, NearIds, IsRecords
<1>2. ASSUME PricesIn(records, s) # {}, TopN > 0 PROVE \E id \in ids : TRUE
  <2>1. PICK p \in PricesIn(records, s) : RankOf(records, s, p) = 1
    BY <1>2, BestExists
  <2>2. PICK id \in DOMAIN records : records[id].side = s /\ records[id].price = p
    BY DEF PricesIn
  <2> QED
    BY <1>2, <2>1, <2>2, ExtractorAssumption DEF NearIds
<1>3. \A id \in ids : records[id].quantity \in Nat \ {0}
  BY DEF NearIds, IsRecords
<1> HIDE DEF ids
<1>4. ASSUME NEW id \in ids PROVE TrueUnits(records, ids) > 0
  <2>1. HaveUnits(records, ids \ {id})
    BY <1>1, FS_Subset DEF HaveUnits
  <2>2. PICK a \in Nat, b \in Nat \ {0} :
          a = TrueUnits(records, ids \ {id}) /\ b = records[id].quantity
    BY <1>3, <2>1, TrueUnitsType
  <2>3. TrueUnits(records, ids) = a + b
    BY <1>1, <2>2, TrueUnitsAdd
  <2> QED
    BY <2>2, <2>3
<1> QED
  BY <1>1, <1>2, <1>4, TrueUnitsType

\* A side has a best price as soon as it has one, and it is the first shown.
LEMMA BestShown ==
  ASSUME NEW records, IsRecords(records), NEW s \in Side,
         NEW top, IsList(top), ShowsRecords(top, records, s, 1)
  PROVE  /\ top # << >> <=> PricesIn(records, s) # {}
         /\ top # << >> => /\ top[1].price = BestIn(records, s)
                           /\ BestIn(records, s) \in Int
<1> DEFINE P == PricesIn(records, s)
<1>1. P = RecordedPrices(records, s) /\ P \subseteq Price /\ P \subseteq Int /\ IsFiniteSet(P)
  BY PricesInFacts
<1>2. DOMAIN top = 1 .. Len(top) /\ Len(top) \in Nat /\ (top # << >> => Len(top) # 0)
  <2>1. top \in Seq(Range(top))
    BY DEF IsList
  <2> QED
    BY <2>1, ListFacts, EmptySeq
<1>3. ASSUME NEW p \in P, RankOf(records, s, p) = 1
      PROVE  p = BestIn(records, s)
  <2> DEFINE Q == {q \in RecordedPrices(records, s) : Better(s, q, p)}
  <2>1. Q \subseteq Price
    BY DEF RecordedPrices
  <2>2. IsFiniteSet(Q)
    BY <2>1, PriceAssumption, FS_Subset
  <2>3. Cardinality(Q) \in Nat /\ Cardinality(Q) + 1 = 1
    BY <1>3, <2>2, FS_CardinalityType DEF RankOf
  <2>4. Cardinality(Q) = 0
    BY <2>3
  <2>5. Q = {}
    <3> HIDE DEF Q
    <3> QED
      BY <2>2, <2>4, FS_EmptySet
  <2>6. \A q \in P : q = p \/ Better(s, p, q)
    <3> TAKE q \in P
    <3>1. ~Better(s, q, p) /\ q \in Int /\ p \in Int
      BY <1>1, <2>5
    <3> QED
      BY <3>1, BetterOrders
  <2>7. ASSUME NEW r \in P, \A q \in P : q = r \/ Better(s, r, q)
        PROVE  r = p
    <3>1. r \in Int /\ p \in Int
      BY <1>1
    <3>2. (p = r \/ Better(s, r, p)) /\ (r = p \/ Better(s, p, r))
      BY <2>6, <2>7
    <3> QED
      BY <3>1, <3>2, BetterOrders
  <2>8. BestIn(records, s) = CHOOSE r \in P : \A q \in P : q = r \/ Better(s, r, q)
    BY DEF BestIn
  <2> HIDE DEF P
  <2>9. PICK b : b = CHOOSE r \in P : \A q \in P : q = r \/ Better(s, r, q)
    OBVIOUS
  <2>10. b \in P /\ \A q \in P : q = b \/ Better(s, b, q)
    BY <2>6, <2>9, Zenon
  <2> QED
    BY <2>7, <2>8, <2>9, <2>10
<1>4. ASSUME top # << >>
      PROVE  /\ P # {} /\ top[1].price = BestIn(records, s) /\ BestIn(records, s) \in Int
  <2>1. 1 \in DOMAIN top
    BY <1>2, <1>4
  <2>2. top[1].price \in P /\ RankOf(records, s, top[1].price) = 1
    BY <1>1, <2>1 DEF ShowsRecords
  <2> QED
    BY <1>1, <1>3, <2>2
<1>5. ASSUME P # {} PROVE top # << >>
  <2>1. PICK p \in P : RankOf(records, s, p) = 1
    BY <1>5, BestExists
  <2>2. \E i \in DOMAIN top : top[i].price = p
    BY <1>1, <2>1 DEF ShowsRecords
  <2> QED
    BY <2>2
<1> QED
  BY <1>4, <1>5

\* What extract() reads off the book, in terms of the recorded orders.
ShowsBook(top, views, orders) ==
  /\ IsRecords(orders)
  /\ \A s \in Side :
       /\ sum_depth(views[s]) = UnitsIn(orders, s) % Word
       /\ top[s] # << >> <=> PricesIn(orders, s) # {}
       /\ top[s] # << >> => top[s][1].price = BestIn(orders, s) /\ BestIn(orders, s) \in Int

LEMMA RecordsAreKept == ASSUME BookInv PROVE IsRecords(order_lookup)
<1>1. DOMAIN order_lookup \subseteq OrderId
      /\ \A id \in DOMAIN order_lookup : order_lookup[id] \in OrderRecord
  BY DEF BookInv, ContainersOK, IsMap
<1>2. IsFiniteSet(DOMAIN order_lookup)
  BY <1>1, OrderIdAssumption, FS_Subset
<1>3. ASSUME NEW id \in DOMAIN order_lookup PROVE order_lookup[id].quantity # 0
  <2>1. PICK s \in Side : \E p \in DOMAIN levels[s] :
          \E i \in DOMAIN levels[s][p].orders : levels[s][p].orders[i].order_id = id
    BY DEF BookInv, IndexConsistent, IndexComplete
  <2>2. PICK p \in DOMAIN levels[s] :
          \E i \in DOMAIN levels[s][p].orders : levels[s][p].orders[i].order_id = id
    BY <2>1
  <2>3. PICK i \in DOMAIN levels[s][p].orders : levels[s][p].orders[i].order_id = id
    BY <2>2
  <2>4. EntryAgrees(s, p, levels[s][p].orders[i])
    BY DEF BookInv, IndexConsistent, LevelsAgree
  <2> QED
    BY <2>3, <2>4 DEF EntryAgrees
<1> QED
  BY <1>1, <1>2, <1>3, WordAssumption DEF IsRecords, OrderRecord, Quantity

LEMMA DepthIsList ==
  ASSUME BookInv, NEW s \in Side, NEW n \in Nat
  PROVE  IsList(depth(n)[s])
<1>1. DOMAIN levels[s] \in SUBSET Price
  BY DEF BookInv, ContainersOK, IsMap
<1>2. PICK prices : prices = PricesOf(s)
  OBVIOUS
<1>3. Len(prices) \in Nat
  BY <1>1, <1>2, BestFirstIsSeq DEF PricesOf
<1>4. PICK m \in Nat : m = IF n < Len(prices) THEN n ELSE Len(prices)
  BY <1>3
<1> DEFINE Shown(i) == make_price_level_view(prices[i], levels[s][prices[i]])
           S == {Shown(i) : i \in 1 .. m}
<1>5. depth(n)[s] = [i \in 1 .. m |-> Shown(i)]
  BY <1>2, <1>4 DEF depth, SideDepth
<1> HIDE DEF Shown
<1>6. depth(n)[s] \in [1 .. m -> S]
  BY <1>5
<1> HIDE DEF S
<1>7. PICK view \in [1 .. m -> S] : view = depth(n)[s]
  BY <1>6
<1>8. view \in Seq(S)
  BY SeqDef
<1> QED
  BY <1>7, <1>8, ListOfSeq

BookShown == ShowsBook(top_of_book, depth(TopN), order_lookup)

LEMMA BookIsShown == BookInv /\ TotalsAgree => BookShown
<1> SUFFICES ASSUME BookInv, TotalsAgree PROVE BookShown
  OBVIOUS
<1>1. IsRecords(order_lookup)
  BY RecordsAreKept
<1>2. TopN \in Nat /\ 1 \in Nat
  BY ExtractorAssumption
<1>3. PICK records : records = order_lookup
  OBVIOUS
<1>4. ASSUME NEW s \in Side
      PROVE  /\ sum_depth(depth(TopN)[s]) = UnitsIn(records, s) % Word
             /\ top_of_book[s] # << >> <=> PricesIn(records, s) # {}
             /\ top_of_book[s] # << >> =>
                  /\ top_of_book[s][1].price = BestIn(records, s)
                  /\ BestIn(records, s) \in Int
  <2>1. PICK view, top : view = depth(TopN)[s] /\ top = top_of_book[s]
    OBVIOUS
  <2>2. IsList(view) /\ ShowsRecords(view, records, s, TopN)
    BY <1>2, <1>3, <2>1, DepthIsList, DepthIsShown
  <2>3. IsList(top) /\ ShowsRecords(top, records, s, 1)
    BY <1>2, <1>3, <2>1, DepthIsList, DepthIsShown
  <2>4. WordSum(view) = UnitsIn(records, s) % Word
    BY <1>1, <1>2, <1>3, <2>2, ViewSum, UnitsInNear
  <2>5. /\ top # << >> <=> PricesIn(records, s) # {}
        /\ top # << >> => top[1].price = BestIn(records, s) /\ BestIn(records, s) \in Int
    BY <1>1, <1>3, <2>3, BestShown
  <2> QED
    BY <2>1, <2>4, <2>5, Zenon DEF sum_depth
<1> QED
  BY <1>1, <1>3, <1>4, Zenon DEF BookShown, ShowsBook

LEMMA BookIsShownNext == (BookInv /\ TotalsAgree)' => BookShown'
BY BookIsShown, PTL

\* The book features, in terms of the recorded orders.
FeaturesMatch(book, orders) ==
  /\ book.two_sided = TwoSided(orders)
  /\ book.bid_depth = UnitsIn(orders, "Buy") % Word
  /\ book.ask_depth = UnitsIn(orders, "Sell") % Word
  /\ book.spread = IF TwoSided(orders)
                   THEN <<BestIn(orders, "Sell") - BestIn(orders, "Buy")>> ELSE << >>
  /\ book.mid = IF TwoSided(orders)
                THEN <<BestIn(orders, "Buy") + BestIn(orders, "Sell")>> ELSE << >>
  /\ book.imbalance = IF TwoSided(orders)
                      THEN Imbalance(UnitsIn(orders, "Buy") % Word,
                                     UnitsIn(orders, "Sell") % Word)
                      ELSE << >>

LEMMA FeaturesFollow ==
  ASSUME NEW top, NEW views, NEW orders, ShowsBook(top, views, orders),
         NEW book, book = BookFeatures(top, views)
  PROVE  FeaturesMatch(book, orders)
<1>1. "Buy" \in Side /\ "Sell" \in Side /\ \A s \in Side : s = "Buy" \/ s = "Sell"
  BY DEF Side
<1>2. PICK B, S : B = "Buy" /\ S = "Sell"
  OBVIOUS
<1> DEFINE two == top[B] # << >> /\ top[S] # << >>
<1>3. two <=> TwoSided(orders)
  BY <1>1, <1>2, Zenon DEF ShowsBook, TwoSided
<1>4. PICK bid, ask : /\ bid = UnitsIn(orders, B) % Word /\ ask = UnitsIn(orders, S) % Word
                      /\ bid = sum_depth(views[B]) /\ ask = sum_depth(views[S])
  BY <1>1, <1>2, Zenon DEF ShowsBook
<1>5. two => /\ top[S][1].price - top[B][1].price = BestIn(orders, S) - BestIn(orders, B)
             /\ top[S][1].price + top[B][1].price = BestIn(orders, B) + BestIn(orders, S)
  <2>1. SUFFICES ASSUME two
                 PROVE  /\ top[S][1].price - top[B][1].price = BestIn(orders, S) - BestIn(orders, B)
                        /\ top[S][1].price + top[B][1].price = BestIn(orders, B) + BestIn(orders, S)
    BY Zenon
  <2>2. PICK x \in Int, y \in Int : /\ x = BestIn(orders, B) /\ x = top[B][1].price
                                    /\ y = BestIn(orders, S) /\ y = top[S][1].price
    BY <1>1, <1>2, <2>1, Zenon DEF ShowsBook
  <2>3. x + y = y + x
    OBVIOUS
  <2> QED
    BY <2>2, <2>3, Zenon
<1>6. book = [two_sided |-> two, bid_depth |-> bid, ask_depth |-> ask,
              spread |-> IF two THEN <<top[S][1].price - top[B][1].price>> ELSE << >>,
              mid |-> IF two THEN <<top[S][1].price + top[B][1].price>> ELSE << >>,
              imbalance |-> IF two THEN Imbalance(bid, ask) ELSE << >>]
  BY <1>2, <1>4, Zenon DEF BookFeatures
<1> HIDE DEF two
<1>7. PICK spread, mid, imbalance :
        /\ spread = IF two THEN <<top[S][1].price - top[B][1].price>> ELSE << >>
        /\ mid = IF two THEN <<top[S][1].price + top[B][1].price>> ELSE << >>
        /\ imbalance = IF two THEN Imbalance(bid, ask) ELSE << >>
  OBVIOUS
<1>12. PICK t : t = two
  BY Zenon
<1>8. book = [two_sided |-> t, bid_depth |-> bid, ask_depth |-> ask, spread |-> spread,
              mid |-> mid, imbalance |-> imbalance]
  BY <1>6, <1>7, <1>12, Zenon
<1>9. /\ book.two_sided = t /\ book.bid_depth = bid /\ book.ask_depth = ask
      /\ book.spread = spread /\ book.mid = mid /\ book.imbalance = imbalance
  BY <1>8
<1>10. spread = IF two THEN <<BestIn(orders, S) - BestIn(orders, B)>> ELSE << >>
  BY <1>5, <1>7, Zenon
<1>11. mid = IF two THEN <<BestIn(orders, B) + BestIn(orders, S)>> ELSE << >>
  BY <1>5, <1>7, Zenon
<1>13. book.two_sided = TwoSided(orders)
  <2>1. two = TwoSided(orders)
    BY <1>3 DEF two, TwoSided
  <2> QED
    BY <1>9, <1>12, <2>1, Zenon
<1>14. book.spread = IF TwoSided(orders) THEN <<BestIn(orders, S) - BestIn(orders, B)>>
                                        ELSE << >>
  BY <1>3, <1>9, <1>10, Zenon
<1>15. book.mid = IF TwoSided(orders) THEN <<BestIn(orders, B) + BestIn(orders, S)>>
                                     ELSE << >>
  BY <1>3, <1>9, <1>11, Zenon
<1>16. book.imbalance = IF TwoSided(orders)
                       THEN Imbalance(UnitsIn(orders, B) % Word, UnitsIn(orders, S) % Word)
                       ELSE << >>
  BY <1>3, <1>4, <1>7, <1>9, Zenon
<1> QED
  BY <1>2, <1>4, <1>9, <1>13, <1>14, <1>15, <1>16, Zenon DEF FeaturesMatch

LEMMA ExtractReads ==
  ASSUME NEW event, extract(event), BookShown'
  PROVE  FeaturesMatch(features'[1].book, order_lookup')
<1>1. PICK top, views : top = top_of_book' /\ views = depth(TopN)'
  OBVIOUS
<1>2. ShowsBook(top, views, order_lookup')
  BY <1>1, Zenon DEF BookShown
<1>3. PICK orders : orders = order_lookup'
  OBVIOUS
<1>4. PICK book : book = BookFeatures(top, views)
  OBVIOUS
<1>5. FeaturesMatch(book, orders)
  BY <1>2, <1>3, <1>4, FeaturesFollow
<1>6. PICK rate, ratio, volatility :
        features' = <<[book |-> book, message_rate |-> rate, cancel_add_ratio |-> ratio,
                       volatility |-> volatility]>>
  BY <1>1, <1>4, Zenon DEF extract
<1>7. features'[1].book = book
  BY <1>6
<1> QED
  BY <1>3, <1>5, <1>7

-----------------------------------------------------------------------------
(* The imbalance *)

LEMMA ImbalanceFits ==
  ASSUME NEW orders, IsRecords(orders), NEW book, FeaturesMatch(book, orders),
         NEW bid, bid = UnitsIn(orders, "Buy"), NEW ask, ask = UnitsIn(orders, "Sell")
  PROVE  /\ book.imbalance # << >> => TwoSided(orders)
         /\ TwoSided(orders) /\ TopN > 0 /\ bid + ask < Word =>
              book.imbalance = <<<<bid - ask, bid + ask>>>>
<1>1. "Buy" \in Side /\ "Sell" \in Side
  BY DEF Side
<1>2. bid \in Nat /\ ask \in Nat
  BY <1>1, UnitsPositive
<1>3. ASSUME TwoSided(orders), TopN > 0, bid + ask < Word
      PROVE  book.imbalance = <<<<bid - ask, bid + ask>>>>
  <2>1. bid > 0
    BY <1>1, <1>3, UnitsPositive DEF TwoSided
  <2>2. bid % Word = bid /\ ask % Word = ask /\ (bid + ask) % Word = bid + ask
        /\ bid + ask > 0
    BY <1>2, <1>3, <2>1, WordAssumption
  <2>3. book.imbalance = Imbalance(bid % Word, ask % Word)
    BY <1>3, Zenon DEF FeaturesMatch
  <2>4. book.imbalance = Imbalance(bid, ask)
    BY <2>2, <2>3, Zenon
  <2> QED
    BY <2>2, <2>4, Zenon DEF Imbalance, Plus
<1>4. book.imbalance # << >> => TwoSided(orders)
  BY Zenon DEF FeaturesMatch
<1> QED
  BY <1>3, <1>4, Zenon

LEMMA ObserveBalances ==
  ASSUME NEW event, IsList(observed), extract(event), BookShown'
  PROVE  ImbalanceInRange'
<1>1. PICK orders : orders = order_lookup'
  OBVIOUS
<1>2. FeaturesMatch(features'[1].book, orders) /\ IsRecords(orders)
  BY <1>1, ExtractReads DEF BookShown, ShowsBook
<1>3. Last(observed').orders = orders
  <2>1. PICK o, t : o = [event |-> event, orders |-> orders] /\ t = observed
    BY Zenon
  <2>2. observed' = Append(t, o)
    BY <1>1, <2>1, ExtractRecords
  <2>3. Last(Append(t, o)) = o
    BY <2>1, FrontAndLast
  <2>4. o.orders = orders
    BY <2>1, Zenon
  <2> QED
    BY <2>2, <2>3, <2>4
<1>4. PICK book, bid, ask : /\ book = features'[1].book /\ bid = UnitsIn(orders, "Buy")
                            /\ ask = UnitsIn(orders, "Sell")
  OBVIOUS
<1>5. /\ book.imbalance # << >> => TwoSided(orders)
      /\ TwoSided(orders) /\ TopN > 0 /\ bid + ask < Word =>
           book.imbalance = <<<<bid - ask, bid + ask>>>>
  BY <1>2, <1>4, ImbalanceFits
<1> QED
  BY <1>3, <1>4, <1>5, Zenon DEF ImbalanceInRange

-----------------------------------------------------------------------------
(* The observations of two-sided books *)

\* f is what TwoSidedOnes keeps of each of the first n observations.
Keeps(f, h, n) ==
  /\ f[0] = << >>
  /\ \A k \in 1 .. n :
       f[k] = IF TwoSided(h[k].orders) THEN Append(f[k - 1], h[k]) ELSE f[k - 1]

LEMMA KeepsExists ==
  ASSUME NEW h, IsList(h), NEW N \in 0 .. Len(h)
  PROVE  \E f : f \in [0 .. N -> Seq(Range(h))] /\ Keeps(f, h, N)
<1> DEFINE S == Range(h)
           T == {n \in 0 .. Len(h) : ~ \E f : f \in [0 .. n -> Seq(S)] /\ Keeps(f, h, n)}
<1>0. Len(h) \in Nat /\ \A k \in 1 .. Len(h) : h[k] \in S
  BY ListFacts DEF Range
<1> HIDE DEF S
<1> SUFFICES ASSUME T # {} PROVE FALSE
  BY DEF S
<1>1. T \subseteq Nat
  BY <1>0
<1>2. PICK n \in T : \A j \in T : ~(<<j, n>> \in OpToRel(<, Nat))
  BY <1>1, NatLessThanWellFounded, WFMin
<1>3. n \in 0 .. Len(h) /\ ~ \E f : f \in [0 .. n -> Seq(S)] /\ Keeps(f, h, n)
  OBVIOUS
<1>4. CASE n = 0
  <2> DEFINE f == [k \in 0 .. 0 |-> << >>]
  <2>1. f \in [0 .. 0 -> Seq(S)] /\ Keeps(f, h, 0)
    BY EmptySeq DEF Keeps
  <2> HIDE DEF f
  <2> QED
    BY <1>3, <1>4, <2>1
<1>5. CASE n # 0
  <2>1. /\ n - 1 \in 0 .. Len(h) /\ n - 1 < n /\ n - 1 \in Nat /\ n \in Nat
        /\ n \in 1 .. Len(h)
    BY <1>0, <1>3, <1>5
  <2>2. <<n - 1, n>> \in OpToRel(<, Nat)
    BY <2>1 DEF OpToRel
  <2>3. PICK f : f \in [0 .. (n - 1) -> Seq(S)] /\ Keeps(f, h, n - 1)
    BY <1>2, <2>1, <2>2
  <2>4. PICK a \in S : a = h[n]
    BY <1>0, <2>1
  <2> DEFINE next == IF TwoSided(a.orders) THEN Append(f[n - 1], a) ELSE f[n - 1]
             g    == [k \in 0 .. n |-> IF k = n THEN next ELSE f[k]]
  <2>5. next \in Seq(S)
    <3>1. f[n - 1] \in Seq(S)
      BY <2>1, <2>3
    <3> QED
      BY <2>4, <3>1, AppendProperties
  <2> HIDE DEF next
  <2>6. g \in [0 .. n -> Seq(S)] /\ g[0] = f[0] /\ g[n] = next /\ g[n - 1] = f[n - 1]
    BY <2>1, <2>3, <2>5, <1>5
  <2>7. \A k \in 1 .. (n - 1) : g[k] = f[k] /\ g[k - 1] = f[k - 1]
    BY <2>1
  <2>8. \A k \in 1 .. n : k = n \/ k \in 1 .. (n - 1)
    BY <2>1
  <2> HIDE DEF g
  <2>9. Keeps(g, h, n)
    BY <2>3, <2>4, <2>6, <2>7, <2>8, Zenon DEF next, Keeps
  <2> QED
    BY <1>3, <2>6, <2>9
<1> QED
  BY <1>4, <1>5

LEMMA KeepsUnique ==
  ASSUME NEW h, NEW N \in Nat, NEW f, NEW g, Keeps(f, h, N), Keeps(g, h, N)
  PROVE  \A k \in 0 .. N : f[k] = g[k]
<1> DEFINE T == {k \in 0 .. N : f[k] # g[k]}
<1> SUFFICES ASSUME T # {} PROVE FALSE
  OBVIOUS
<1>1. T \subseteq Nat
  OBVIOUS
<1>2. PICK k \in T : \A j \in T : ~(<<j, k>> \in OpToRel(<, Nat))
  BY <1>1, NatLessThanWellFounded, WFMin
<1>3. k \in 0 .. N /\ f[k] # g[k]
  OBVIOUS
<1>4. k # 0
  BY <1>3 DEF Keeps
<1>5. k - 1 \in 0 .. N /\ k - 1 < k /\ k - 1 \in Nat /\ k \in Nat /\ k \in 1 .. N
  BY <1>3, <1>4
<1>6. <<k - 1, k>> \in OpToRel(<, Nat)
  BY <1>5 DEF OpToRel
<1>7. f[k - 1] = g[k - 1]
  BY <1>2, <1>5, <1>6
<1> QED
  BY <1>3, <1>5, <1>7, Zenon DEF Keeps

LEMMA TwoSidedOnesIs ==
  ASSUME NEW h, IsList(h)
  PROVE  /\ IsList(TwoSidedOnes(h))
         /\ \E f : Keeps(f, h, Len(h)) /\ TwoSidedOnes(h) = f[Len(h)]
<1> DEFINE L == Len(h)
           Solves(f) == f = [k \in 0 .. L |->
                               IF k = 0 THEN << >>
                               ELSE IF TwoSided(h[k].orders) THEN Append(f[k - 1], h[k])
                               ELSE f[k - 1]]
<1>1. L \in Nat /\ L \in 0 .. L
  BY ListFacts
<1>2. PICK f : f \in [0 .. L -> Seq(Range(h))] /\ Keeps(f, h, L)
  BY <1>1, KeepsExists
<1>3. Solves(f)
  <2>1. f = [k \in 0 .. L |-> f[k]]
    BY <1>2
  <2>2. ASSUME NEW k \in 0 .. L
        PROVE  f[k] = IF k = 0 THEN << >>
                      ELSE IF TwoSided(h[k].orders) THEN Append(f[k - 1], h[k])
                      ELSE f[k - 1]
    <3>1. k = 0 \/ (k # 0 /\ k \in 1 .. L)
      BY <1>1
    <3> QED
      BY <1>2, <3>1, Zenon DEF Keeps
  <2> QED
    BY <2>1, <2>2, Zenon
<1>4. PICK g : Solves(g) /\ TwoSidedOnes(h) = g[L]
  <2> DEFINE c == CHOOSE g : Solves(g)
  <2>1. Solves(c)
    BY <1>3, Zenon
  <2>2. TwoSidedOnes(h) = c[L]
    BY Zenon DEF TwoSidedOnes
  <2> QED
    BY <2>1, <2>2, Zenon
<1>5. Keeps(g, h, L)
  <2>1. 0 \in 0 .. L /\ \A k \in 1 .. L : k \in 0 .. L /\ k # 0
    BY <1>1
  <2> QED
    BY <1>4, <2>1, Zenon DEF Keeps
<1> HIDE DEF Solves, L
<1>6. g[L] = f[L] /\ f[L] \in Seq(Range(h))
  BY <1>1, <1>2, <1>5, KeepsUnique
<1> QED
  BY <1>4, <1>5, <1>6, ListOfSeq DEF L

LEMMA TwoSidedOnesNone == TwoSidedOnes(<< >>) = << >>
<1>1. PICK h : h = << >>
  OBVIOUS
<1>2. IsList(h) /\ Len(h) = 0
  BY <1>1, OptionalIsList DEF IsOptional
<1>3. PICK f : Keeps(f, h, 0) /\ TwoSidedOnes(h) = f[0]
  BY <1>2, TwoSidedOnesIs
<1> QED
  BY <1>1, <1>3 DEF Keeps

LEMMA TwoSidedOnesNext ==
  ASSUME NEW h, IsList(h), NEW o
  PROVE  TwoSidedOnes(Append(h, o)) =
           IF TwoSided(o.orders) THEN Append(TwoSidedOnes(h), o) ELSE TwoSidedOnes(h)
<1>1. PICK more : more = Append(h, o)
  OBVIOUS
<1>2. /\ IsList(more) /\ Len(more) = Len(h) + 1 /\ Len(h) \in Nat
      /\ \A i \in 1 .. Len(h) : more[i] = h[i]
      /\ more[Len(h) + 1] = o
  BY <1>1, AppendToList, ListFacts
<1>3. PICK n \in Nat : n = Len(h)
  BY <1>2
<1>4. PICK f : Keeps(f, h, n) /\ TwoSidedOnes(h) = f[n]
  BY <1>3, TwoSidedOnesIs
<1>5. PICK g : Keeps(g, more, n + 1) /\ TwoSidedOnes(more) = g[n + 1]
  BY <1>2, <1>3, TwoSidedOnesIs
<1>6. \A k \in 1 .. n : k \in 1 .. (n + 1) /\ more[k] = h[k]
  BY <1>2, <1>3
<1>7. Keeps(g, h, n)
  BY <1>5, <1>6, Zenon DEF Keeps
<1>8. g[n] = f[n]
  <2>1. n \in 0 .. n
    OBVIOUS
  <2> QED
    BY <1>4, <1>7, <2>1, KeepsUnique
<1>9. n + 1 \in 1 .. (n + 1) /\ (n + 1) - 1 = n /\ more[n + 1] = o
  BY <1>2, <1>3
<1>10. g[n + 1] = IF TwoSided(o.orders) THEN Append(g[n], o) ELSE g[n]
  BY <1>5, <1>9, Zenon DEF Keeps
<1> QED
  BY <1>1, <1>4, <1>5, <1>8, <1>10, Zenon

-----------------------------------------------------------------------------
(* Windows *)

\* What is left of a list after its first k entries.
From(h, k) == SubSeq(h, k + 1, Len(h))

LEMMA FromFacts ==
  ASSUME NEW h, IsList(h), NEW k \in 0 .. Len(h)
  PROVE  /\ IsList(From(h, k)) /\ Len(From(h, k)) = Len(h) - k
         /\ \A i \in 1 .. (Len(h) - k) : From(h, k)[i] = h[k + i]
<1> DEFINE S == Range(h)
<1>1. Len(h) \in Nat /\ \A i \in (k + 1) .. Len(h) : h[i] \in S
  BY ListFacts DEF Range
<1> HIDE DEF S
<1>0. PICK t : t = From(h, k)
  OBVIOUS
<1>2. PICK m \in Int, n \in Int : m = k + 1 /\ n = Len(h)
  BY <1>1
<1>3. /\ t \in Seq(S) /\ Len(t) = IF m <= n THEN n - m + 1 ELSE 0
      /\ \A i \in 1 .. (n - m + 1) : t[i] = h[m + i - 1]
  BY <1>1, <1>0, <1>2, SubSeqProperties DEF From
<1>4. Len(t) = Len(h) - k /\ \A i \in 1 .. (Len(h) - k) : t[i] = h[k + i]
  <2>1. /\ \A i \in 1 .. (Len(h) - k) : i \in 1 .. (n - m + 1) /\ m + i - 1 = k + i
        /\ Len(t) = Len(h) - k
    BY <1>1, <1>0, <1>2, <1>3
  <2> QED
    BY <1>3, <2>1
<1> QED
  BY <1>0, <1>2, <1>3, <1>4, ListOfSeq

LEMMA FromTwice ==
  ASSUME NEW h, IsList(h), NEW k \in 0 .. Len(h), NEW n \in 0 .. (Len(h) - k)
  PROVE  From(From(h, k), n) = From(h, k + n)
<1>1. Len(h) \in Nat /\ k + n \in 0 .. Len(h)
  BY ListFacts
<1>2. PICK t : t = From(h, k)
  OBVIOUS
<1>3. IsList(t) /\ Len(t) = Len(h) - k /\ \A i \in 1 .. (Len(h) - k) : t[i] = h[k + i]
  BY <1>2, FromFacts
<1>4. PICK u, v : u = From(t, n) /\ v = From(h, k + n)
  OBVIOUS
<1>5. /\ IsList(u) /\ Len(u) = Len(h) - k - n
      /\ \A i \in 1 .. (Len(h) - k - n) : u[i] = t[n + i]
  <2>1. PICK m \in Nat : m = Len(t)
    BY <1>3, ListFacts
  <2>2. n \in 0 .. Len(t)
    BY <1>3
  <2>3. IsList(u) /\ Len(u) = m - n /\ \A i \in 1 .. (m - n) : u[i] = t[n + i]
    BY <1>3, <1>4, <2>1, <2>2, FromFacts, ZenonT(40)
  <2> QED
    BY <1>3, <2>1, <2>3
<1>6. /\ IsList(v) /\ Len(v) = Len(h) - (k + n)
      /\ \A i \in 1 .. (Len(h) - (k + n)) : v[i] = h[(k + n) + i]
  BY <1>1, <1>4, FromFacts
<1>7. Len(u) = Len(v) /\ \A i \in 1 .. Len(u) :
        i \in 1 .. (Len(h) - (k + n)) /\ n + i \in 1 .. (Len(h) - k) /\ k + (n + i) = (k + n) + i
  BY <1>1, <1>5, <1>6
<1>8. \A i \in 1 .. Len(u) : u[i] = v[i]
  BY <1>3, <1>5, <1>6, <1>7
<1> QED
  BY <1>2, <1>4, <1>5, <1>6, <1>7, <1>8, ListsEqual

LEMMA FromAppend ==
  ASSUME NEW h, IsList(h), NEW k \in 0 .. Len(h), NEW e
  PROVE  From(Append(h, e), k) = Append(From(h, k), e)
<1>1. PICK g, t : g = Append(h, e) /\ t = From(h, k)
  OBVIOUS
<1>2. /\ IsList(g) /\ Len(g) = Len(h) + 1 /\ Len(h) \in Nat
      /\ \A i \in 1 .. Len(h) : g[i] = h[i]
      /\ g[Len(h) + 1] = e
  BY <1>1, AppendToList, ListFacts
<1>3. IsList(t) /\ Len(t) = Len(h) - k /\ \A i \in 1 .. (Len(h) - k) : t[i] = h[k + i]
  BY <1>1, FromFacts
<1>4. PICK u, v : u = From(g, k) /\ v = Append(t, e)
  OBVIOUS
<1>5. /\ IsList(u) /\ Len(u) = Len(g) - k
      /\ \A i \in 1 .. (Len(g) - k) : u[i] = g[k + i]
  <2>1. k \in 0 .. Len(g)
    BY <1>2
  <2> QED
    BY <1>2, <1>4, <2>1, FromFacts
<1>6. /\ IsList(v) /\ Len(v) = Len(t) + 1
      /\ \A i \in 1 .. Len(t) : v[i] = t[i]
      /\ v[Len(t) + 1] = e
  BY <1>3, <1>4, AppendToList
<1>7. PICK m \in Nat : m = Len(h) - k
  BY <1>2
<1>8. Len(u) = m + 1 /\ Len(v) = m + 1 /\ Len(t) = m /\ k + (m + 1) = Len(h) + 1
  BY <1>2, <1>3, <1>5, <1>6, <1>7
<1>9. ASSUME NEW i \in 1 .. (m + 1) PROVE u[i] = v[i]
  <2>1. u[i] = g[k + i]
    BY <1>5, <1>8
  <2>2. CASE i = m + 1
    BY <1>2, <1>6, <1>8, <2>1, <2>2
  <2>3. CASE i # m + 1
    <3>1. i \in 1 .. m /\ k + i \in 1 .. Len(h)
      BY <1>2, <1>7, <2>3
    <3> QED
      BY <1>2, <1>3, <1>6, <1>7, <1>8, <2>1, <3>1
  <2> QED
    BY <2>2, <2>3
<1> QED
  BY <1>1, <1>4, <1>5, <1>6, <1>8, <1>9, ListsEqual

\* A window is the end of a history and, if the feed is in order, all of it
\* that is not too old.
Exact(window, h, order, now, width) ==
  \E k \in 0 .. Len(h) :
    /\ window = SubSeq(h, k + 1, Len(h))
    /\ order /\ width >= 0 =>
         \A i \in DOMAIN h : i > k <=> now - h[i].timestamp <= width

\* A history that is in order, none of it later than now.
Timely(h, now) ==
  /\ \A i \in DOMAIN h : h[i].timestamp \in Int /\ now - h[i].timestamp \in 0 .. TimeMax
  /\ \A i, j \in DOMAIN h : i < j => h[i].timestamp <= h[j].timestamp

\* Expiry makes a window exact for a later time.
LEMMA ExpiryIsExact ==
  ASSUME NEW h, IsList(h), NEW window, NEW before, NEW then, NEW width \in Int,
         Exact(window, h, before, then, width),
         NEW order, NEW now \in Int,
         order => before /\ Timely(h, now) /\ \A i \in DOMAIN h : then \in Int /\ then <= now,
         NEW left \in Expired(window, now, width)
  PROVE  Exact(left, h, order, now, width)
<1>1. Len(h) \in Nat /\ DOMAIN h = 1 .. Len(h) /\ TimeMax \in Nat
  BY ListFacts, ExtractorAssumption
<1>2. PICK k \in 0 .. Len(h) :
        /\ window = From(h, k)
        /\ before /\ width >= 0 =>
             \A i \in DOMAIN h : i > k <=> then - h[i].timestamp <= width
  BY DEF Exact, From
<1>3. /\ Len(window) = Len(h) - k
      /\ \A i \in 1 .. (Len(h) - k) : window[i] = h[k + i]
  BY <1>2, FromFacts
<1>4. PICK n \in 0 .. Len(window) :
        /\ left = From(window, n)
        /\ \A i \in 1 .. n : TRUE \in MayExpire(now, window[i].timestamp, width)
        /\ n < Len(window) => FALSE \in MayExpire(now, window[n + 1].timestamp, width)
  BY DEF Expired, From
<1>5. n \in Nat /\ n \in 0 .. (Len(h) - k) /\ k + n \in 0 .. Len(h)
  BY <1>1, <1>3
<1>6. left = From(h, k + n)
  BY <1>2, <1>4, <1>5, FromTwice
<1>7. ASSUME order, width >= 0, NEW i \in 1 .. Len(h)
      PROVE  i > k + n <=> now - h[i].timestamp <= width
  <2>0. Timely(h, now) /\ before /\ then \in Int /\ then <= now
    BY <1>1, <1>7
  <2>1. \A j \in 1 .. Len(h) :
          /\ h[j].timestamp \in Int /\ now - h[j].timestamp \in 0 .. TimeMax
          /\ \A l \in 1 .. Len(h) : l < j => h[l].timestamp <= h[j].timestamp
    BY <1>1, <2>0 DEF Timely
  <2>2. \A j \in 1 .. Len(h) :
          MayExpire(now, h[j].timestamp, width) = {now - h[j].timestamp > width}
    <3> TAKE j \in 1 .. Len(h)
    <3>1. now - h[j].timestamp \in -TimeMax - 1 .. TimeMax
      BY <1>1, <2>1
    <3> QED
      BY <3>1, Zenon DEF MayExpire
  <2>3. CASE i <= k
    <3>1. ~(then - h[i].timestamp <= width)
      BY <1>1, <1>2, <1>7, <2>0, <2>3
    <3>2. PICK t \in Int : t = h[i].timestamp
      BY <2>1
    <3> QED
      BY <1>5, <2>0, <2>3, <3>1, <3>2
  <2>4. CASE k < i /\ i <= k + n
    <3>1. i - k \in 1 .. n /\ i - k \in 1 .. (Len(h) - k) /\ k + (i - k) = i
      BY <1>1, <1>5, <2>4
    <3>2. TRUE \in MayExpire(now, h[i].timestamp, width)
      BY <1>3, <1>4, <3>1
    <3>3. now - h[i].timestamp > width
      BY <2>2, <3>2
    <3>4. PICK t \in Int : t = h[i].timestamp
      BY <2>1
    <3> QED
      BY <1>5, <2>4, <3>3, <3>4
  <2>5. CASE k + n < i
    <3>1. /\ n < Len(window) /\ n + 1 \in 1 .. (Len(h) - k) /\ k + (n + 1) \in 1 .. Len(h)
      BY <1>1, <1>3, <1>5, <2>5
    <3>2. PICK j \in 1 .. Len(h) : j = k + (n + 1)
      BY <3>1
    <3>3. FALSE \in MayExpire(now, h[j].timestamp, width)
      BY <1>3, <1>4, <3>1, <3>2
    <3>4. ~(now - h[j].timestamp > width)
      BY <2>2, <3>3
    <3>5. PICK t \in Int, u \in Int : t = h[i].timestamp /\ u = h[j].timestamp
      BY <2>1
    <3>6. u <= t
      <4>1. j < i \/ j = i
        BY <1>5, <2>5, <3>2
      <4> QED
        BY <2>1, <3>5, <4>1
    <3> QED
      BY <1>5, <2>5, <3>4, <3>5, <3>6, SMTT(30)
  <2> QED
    BY <1>5, <2>3, <2>4, <2>5
<1> QED
  BY <1>1, <1>5, <1>6, <1>7 DEF Exact, From

\* A window that takes the new entry stays exact.
LEMMA EntryKeepsExact ==
  ASSUME NEW h, IsList(h), NEW window, NEW order, NEW now \in Int, NEW width \in Int,
         Exact(window, h, order, now, width), NEW e, e.timestamp = now
  PROVE  Exact(Append(window, e), Append(h, e), order, now, width)
<1>1. Len(h) \in Nat /\ DOMAIN h = 1 .. Len(h)
  BY ListFacts
<1>2. PICK k \in 0 .. Len(h) :
        /\ window = From(h, k)
        /\ order /\ width >= 0 =>
             \A i \in DOMAIN h : i > k <=> now - h[i].timestamp <= width
  BY DEF Exact, From
<1>3. PICK g : g = Append(h, e)
  OBVIOUS
<1>4. /\ IsList(g) /\ Len(g) = Len(h) + 1 /\ DOMAIN g = 1 .. (Len(h) + 1)
      /\ \A i \in 1 .. Len(h) : g[i] = h[i]
      /\ g[Len(h) + 1] = e
  BY <1>3, AppendToList, ListFacts
<1>5. k \in 0 .. Len(g) /\ Append(window, e) = From(g, k)
  BY <1>1, <1>2, <1>3, <1>4, FromAppend
<1>6. ASSUME order, width >= 0, NEW i \in DOMAIN g
      PROVE  i > k <=> now - g[i].timestamp <= width
  <2>1. CASE i \in 1 .. Len(h)
    BY <1>1, <1>2, <1>4, <1>6, <2>1
  <2>2. CASE i = Len(h) + 1
    BY <1>1, <1>4, <1>6, <2>2
  <2> QED
    BY <1>1, <1>4, <2>1, <2>2
<1> QED
  BY <1>3, <1>5, <1>6 DEF Exact, From

-----------------------------------------------------------------------------
(* What is taken from each observation *)

\* What an observation gives a window, or a statistic of the book.
Value(kind, o) ==
  IF kind = "bid_ask_spread" THEN <<BestIn(o.orders, "Sell") - BestIn(o.orders, "Buy"), 1>>
  ELSE IF kind = "top_n_bid_depth" THEN <<UnitsIn(o.orders, "Buy") % Word, 1>>
  ELSE IF kind = "top_n_ask_depth" THEN <<UnitsIn(o.orders, "Sell") % Word, 1>>
  ELSE IF kind = "mid" THEN [timestamp |-> o.event.timestamp,
                             mid |-> BestIn(o.orders, "Buy") + BestIn(o.orders, "Sell")]
  ELSE [timestamp |-> o.event.timestamp, type |-> o.event.type]

Mapped(kind, h) == [i \in DOMAIN h |-> Value(kind, h[i])]

LEMMA MappedFacts ==
  ASSUME NEW kind, NEW h, IsList(h)
  PROVE  /\ IsList(Mapped(kind, h)) /\ Len(Mapped(kind, h)) = Len(h)
         /\ \A i \in 1 .. Len(h) : Mapped(kind, h)[i] = Value(kind, h[i])
<1>1. PICK n \in Nat : n = Len(h)
  BY ListFacts
<1>2. DOMAIN h = 1 .. n
  BY <1>1, ListFacts
<1> DEFINE S == {Value(kind, h[i]) : i \in 1 .. n}
<1>3. PICK m : m = [i \in 1 .. n |-> Value(kind, h[i])]
  BY Zenon
<1>4. Mapped(kind, h) = m
  BY <1>2, <1>3, Zenon DEF Mapped
<1>5. m \in [1 .. n -> S] /\ \A i \in 1 .. n : m[i] = Value(kind, h[i])
  BY <1>3, Zenon
<1> HIDE DEF S
<1>6. m \in Seq(S)
  BY <1>5, SeqDef
<1>7. Len(m) = n
  BY <1>5, <1>6, LenProperties
<1> QED
  BY <1>1, <1>4, <1>5, <1>6, <1>7, ListOfSeq

LEMMA MappedAppend ==
  ASSUME NEW kind, NEW h, IsList(h), NEW o
  PROVE  Mapped(kind, Append(h, o)) = Append(Mapped(kind, h), Value(kind, o))
<1>1. PICK g, m, v : g = Append(h, o) /\ m = Mapped(kind, h) /\ v = Value(kind, o)
  BY Zenon
<1>2. PICK n \in Nat : n = Len(h)
  BY ListFacts
<1>3. /\ IsList(g) /\ Len(g) = n + 1 /\ \A i \in 1 .. n : g[i] = h[i]
      /\ g[n + 1] = o
  BY <1>1, <1>2, AppendToList
<1>4. PICK s, t : s = Mapped(kind, g) /\ t = Append(m, v)
  BY Zenon
<1>5. IsList(m) /\ Len(m) = n /\ \A i \in 1 .. n : m[i] = Value(kind, h[i])
  BY <1>1, <1>2, MappedFacts
<1>6. IsList(s) /\ Len(s) = n + 1 /\ \A i \in 1 .. (n + 1) : s[i] = Value(kind, g[i])
  BY <1>3, <1>4, MappedFacts
<1>7. IsList(t) /\ Len(t) = n + 1 /\ (\A i \in 1 .. n : t[i] = m[i]) /\ t[n + 1] = v
  BY <1>4, <1>5, AppendToList
<1>8. \A i \in 1 .. (n + 1) : i = n + 1 \/ i \in 1 .. n
  OBVIOUS
<1>9. ASSUME NEW i \in 1 .. (n + 1) PROVE s[i] = t[i]
  <2>1. s[i] = Value(kind, g[i])
    BY <1>6
  <2>2. CASE i = n + 1
    <3>1. g[i] = o /\ t[i] = v
      BY <1>3, <1>7, <2>2
    <3> QED
      BY <1>1, <2>1, <3>1, Zenon
  <2>3. CASE i \in 1 .. n
    <3>1. g[i] = h[i] /\ t[i] = Value(kind, h[i])
      BY <1>3, <1>5, <1>7, <2>3
    <3> QED
      BY <2>1, <3>1, Zenon
  <2> QED
    BY <1>8, <2>2, <2>3
<1> QED
  BY <1>1, <1>4, <1>6, <1>7, <1>9, ListsEqual

LEMMA MappedNone ==
  ASSUME NEW kind
  PROVE  Mapped(kind, << >>) = << >>
<1>1. PICK h, m : h = << >> /\ m = Mapped(kind, h)
  BY Zenon
<1>2. IsList(h) /\ Len(h) = 0
  BY <1>1, OptionalIsList DEF IsOptional
<1>3. IsList(m) /\ Len(m) = 0
  BY <1>1, <1>2, MappedFacts
<1>4. m = << >>
  BY <1>3, EmptySeq DEF IsList
<1> QED
  BY <1>1, <1>4

LEMMA ListWithNothing ==
  ASSUME NEW s, IsList(s)
  PROVE  s \o << >> = s
BY ConcatEmptySeq DEF IsList

LEMMA ListWithOne ==
  ASSUME NEW s, NEW x, IsList(s)
  PROVE  s \o <<x>> = Append(s, x)
<1>1. PICK t : t = Append(s, x)
  OBVIOUS
<1>2. s \in Seq(Range(s) \cup {x}) /\ x \in Range(s) \cup {x}
  BY SeqMonotonic DEF IsList
<1> QED
  BY <1>2, AppendIsConcat

-----------------------------------------------------------------------------
(* The samples *)

BookFeature == {"bid_ask_spread", "top_n_bid_depth", "top_n_ask_depth"}

\* What the features of a book add to the samples.
LEMMA SampleOfBook ==
  ASSUME NEW f, NEW o, FeaturesMatch(f.book, o.orders), NEW kind \in BookFeature,
         NEW samples, samples = Samples(f)
  PROVE  samples[kind] = IF TwoSided(o.orders) THEN <<Value(kind, o)>> ELSE << >>
<1>1. PICK spread : spread = [i \in DOMAIN f.book.spread |-> <<f.book.spread[i], 1>>]
  BY Zenon
<1>2. PICK book, orders : book = f.book /\ orders = o.orders
  BY Zenon
<1>3. PICK v2, v3, v4, v5, v6, v7 :
        samples = [bid_ask_spread |-> spread, top_n_bid_depth |-> v2, top_n_ask_depth |-> v3,
                   order_book_imbalance |-> v4, message_rate |-> v5,
                   cancel_add_ratio |-> v6, mid_price_volatility |-> v7]
        /\ v2 = DepthSample(book, book.bid_depth) /\ v3 = DepthSample(book, book.ask_depth)
  BY <1>1, <1>2, Zenon DEF Samples
<1>4. /\ samples["bid_ask_spread"] = spread /\ samples["top_n_bid_depth"] = v2
      /\ samples["top_n_ask_depth"] = v3
  BY <1>3
<1>5. PICK x : x = BestIn(orders, "Sell") - BestIn(orders, "Buy")
  BY Zenon
<1>6. book.spread = IF TwoSided(orders) THEN <<x>> ELSE << >>
  BY <1>2, <1>5, Zenon DEF FeaturesMatch
<1>7. spread = IF TwoSided(orders) THEN <<<<x, 1>>>> ELSE << >>
  <2>1. PICK v : v = book.spread
    OBVIOUS
  <2>2. spread = [i \in DOMAIN v |-> <<v[i], 1>>]
    BY <1>1, <1>2, <2>1, Zenon
  <2>3. CASE TwoSided(orders)
    <3>1. v = <<x>>
      BY <1>6, <2>1, <2>3
    <3>2. spread = <<<<x, 1>>>>
      BY <2>2, <3>1
    <3> QED
      BY <2>3, <3>2, Zenon
  <2>4. CASE ~TwoSided(orders)
    <3>1. v = << >>
      BY <1>6, <2>1, <2>4
    <3>2. spread = << >>
      BY <2>2, <3>1
    <3> QED
      BY <2>4, <3>2, Zenon
  <2> QED
    BY <2>3, <2>4
<1>8. /\ v2 = IF TwoSided(orders) THEN <<<<UnitsIn(orders, "Buy") % Word, 1>>>> ELSE << >>
      /\ v3 = IF TwoSided(orders) THEN <<<<UnitsIn(orders, "Sell") % Word, 1>>>> ELSE << >>
  BY <1>2, <1>3, Zenon DEF DepthSample, FeaturesMatch
<1>9. CASE kind = "bid_ask_spread"
  BY <1>2, <1>4, <1>5, <1>7, <1>9, Zenon DEF Value
<1>10. CASE kind = "top_n_bid_depth"
  BY <1>2, <1>4, <1>8, <1>10, Zenon DEF Value
<1>11. CASE kind = "top_n_ask_depth"
  BY <1>2, <1>4, <1>8, <1>11, Zenon DEF Value
<1> QED
  BY <1>9, <1>10, <1>11 DEF BookFeature

\* One more sample for each two-sided book, and what SamplesMatchBooks says.
SamplesOf(h) ==
  /\ \A kind \in BookFeature : states[kind] = Mapped(kind, TwoSidedOnes(h))
  /\ Len(states["message_rate"]) = Len(h)

LEMMA SamplesOfObserved == SamplesMatchBooks <=> SamplesOf(observed)
<1> DEFINE two == TwoSidedOnes(observed)
<1>1. /\ Mapped("bid_ask_spread", two) =
           [i \in DOMAIN two |-> <<BestIn(two[i].orders, "Sell")
                                     - BestIn(two[i].orders, "Buy"), 1>>]
      /\ Mapped("top_n_bid_depth", two) =
           [i \in DOMAIN two |-> <<UnitsIn(two[i].orders, "Buy") % Word, 1>>]
      /\ Mapped("top_n_ask_depth", two) =
           [i \in DOMAIN two |-> <<UnitsIn(two[i].orders, "Sell") % Word, 1>>]
  <2> HIDE DEF two
  <2> QED
    BY Zenon DEF Mapped, Value
<1>2. (\A kind \in BookFeature : states[kind] = Mapped(kind, two)) <=>
        /\ states["bid_ask_spread"] = Mapped("bid_ask_spread", two)
        /\ states["top_n_bid_depth"] = Mapped("top_n_bid_depth", two)
        /\ states["top_n_ask_depth"] = Mapped("top_n_ask_depth", two)
  <2> HIDE DEF two
  <2> QED
    BY Zenon DEF BookFeature
<1> QED
  BY <1>1, <1>2, Zenon DEF SamplesMatchBooks, SamplesOf

LEMMA SamplesOfObservedNext == SamplesMatchBooks' <=> SamplesOf(observed)'
BY SamplesOfObserved, PTL

\* An observe() that saw the book as it is keeps the samples true.
LEMMA ObserveSamples ==
  ASSUME NEW event, StatesAreLists, IsList(observed), observe(event), BookShown',
         SamplesMatchBooks
  PROVE  SamplesMatchBooks'
<1>1. PICK samples : /\ samples = Samples(features'[1]) /\ IsSamples(samples)
                     /\ states' = [f \in Feature |-> states[f] \o samples[f]]
  BY ObserveEmits
<1>2. PICK o, h : o = [event |-> event, orders |-> order_lookup'] /\ h = observed
  BY Zenon
<1>3. observed' = Append(h, o)
  BY <1>2, ExtractRecords DEF observe
<1>4. o.orders = order_lookup'
  BY <1>2, Zenon
<1>5. PICK f : f = features'[1]
  OBVIOUS
<1>6. FeaturesMatch(f.book, o.orders)
  BY <1>4, <1>5, ExtractReads DEF observe
<1>7. SamplesOf(h)
  BY <1>2, SamplesOfObserved
<1>8. PICK two, more : two = TwoSidedOnes(h) /\ more = TwoSidedOnes(Append(h, o))
  BY Zenon
<1>9. IsList(two) /\ more = IF TwoSided(o.orders) THEN Append(two, o) ELSE two
  BY <1>2, <1>8, TwoSidedOnesIs, TwoSidedOnesNext
<1>10. Feature = {"bid_ask_spread", "top_n_bid_depth", "top_n_ask_depth",
                  "order_book_imbalance", "message_rate", "cancel_add_ratio",
                  "mid_price_volatility"}
  BY Zenon DEF Feature, Reason
<1>11. ASSUME NEW kind \in BookFeature
       PROVE  states'[kind] = Mapped(kind, more)
  <2>1. kind \in Feature
    BY <1>10 DEF BookFeature
  <2>2. PICK s : s = states[kind]
    OBVIOUS
  <2>3. IsList(s) /\ s = Mapped(kind, two)
    BY <1>7, <1>8, <2>1, <2>2, Zenon DEF SamplesOf, StatesAreLists
  <2>4. samples[kind] = IF TwoSided(o.orders) THEN <<Value(kind, o)>> ELSE << >>
    BY <1>1, <1>5, <1>6, SampleOfBook
  <2>5. states'[kind] = s \o samples[kind]
    BY <1>1, <2>1, <2>2, Zenon
  <2>6. CASE TwoSided(o.orders)
    <3>1. PICK v : v = Value(kind, o)
      BY Zenon
    <3>2. samples[kind] = <<v>> /\ more = Append(two, o)
      BY <1>9, <2>4, <2>6, <3>1, Zenon
    <3>3. s \o <<v>> = Append(s, v)
      BY <2>3, ListWithOne
    <3>4. Mapped(kind, Append(two, o)) = Append(s, v)
      BY <1>9, <2>3, <3>1, MappedAppend, Zenon
    <3> QED
      BY <2>5, <3>2, <3>3, <3>4, Zenon
  <2>7. CASE ~TwoSided(o.orders)
    <3>1. samples[kind] = << >> /\ more = two
      BY <1>9, <2>4, <2>7, Zenon
    <3>2. s \o << >> = s
      BY <2>3, ListWithNothing
    <3> QED
      BY <2>3, <2>5, <3>1, <3>2, Zenon
  <2> QED
    BY <2>6, <2>7
<1>12. Len(states'["message_rate"]) = Len(Append(h, o))
  <2>1. PICK v1, v2, v3, v4, v5, v6, v7 :
          samples = [bid_ask_spread |-> v1, top_n_bid_depth |-> v2, top_n_ask_depth |-> v3,
                     order_book_imbalance |-> v4, message_rate |-> <<v5>>,
                     cancel_add_ratio |-> v6, mid_price_volatility |-> v7]
    BY <1>1, Zenon DEF Samples
  <2>2. samples["message_rate"] = <<v5>>
    BY <2>1
  <2>3. "message_rate" \in Feature
    BY <1>10
  <2>4. PICK s : s = states["message_rate"]
    OBVIOUS
  <2>5. states'["message_rate"] = s \o <<v5>> /\ IsList(s)
    BY <1>1, <2>2, <2>3, <2>4, Zenon DEF StatesAreLists
  <2>6. s \o <<v5>> = Append(s, v5) /\ Len(Append(s, v5)) = Len(s) + 1
    BY <2>5, ListWithOne, AppendToList
  <2>7. Len(Append(h, o)) = Len(h) + 1
    BY <1>2, AppendToList
  <2>8. Len(s) = Len(h)
    BY <1>7, <2>4 DEF SamplesOf
  <2> QED
    BY <2>5, <2>6, <2>7, <2>8
<1>13. SamplesOf(observed)'
  BY <1>3, <1>8, <1>11, <1>12, Zenon DEF SamplesOf
<1> QED
  BY <1>13, SamplesOfObservedNext

-----------------------------------------------------------------------------
(* What the windows are cut from *)

\* Timestamps are integers; a later observation is not earlier by the clock.
Dated(h) == \A i \in DOMAIN h : h[i].event.timestamp \in Int

InOrder(h) ==
  \A i, j \in DOMAIN h : i < j =>
    h[j].event.timestamp - h[i].event.timestamp \in 0 .. TimeMax

\* The entries of s are entries of h, in the order they have there.
PartOf(s, h) ==
  /\ \A i \in DOMAIN s : \E k \in DOMAIN h : s[i] = h[k]
  /\ \A i, j \in DOMAIN s : i < j =>
       \E k, l \in DOMAIN h : k < l /\ s[i] = h[k] /\ s[j] = h[l]

\* The observations a window has entries of.
Source(w, h) == IF w = "mid" THEN TwoSidedOnes(h) ELSE h

LEMMA PartOfMore ==
  ASSUME NEW s, NEW h, IsList(s), IsList(h), PartOf(s, h), NEW o
  PROVE  PartOf(s, Append(h, o)) /\ PartOf(Append(s, o), Append(h, o))
<1>1. PICK n \in Nat, m \in Nat : n = Len(h) /\ m = Len(s)
  BY ListFacts
<1>2. DOMAIN h = 1 .. n /\ DOMAIN s = 1 .. m
  BY <1>1, ListFacts
<1>3. PICK g, t : g = Append(h, o) /\ t = Append(s, o)
  OBVIOUS
<1>4. DOMAIN g = 1 .. (n + 1) /\ (\A i \in 1 .. n : g[i] = h[i]) /\ g[n + 1] = o
  BY <1>1, <1>3, AppendToList, ListFacts
<1>5. DOMAIN t = 1 .. (m + 1) /\ (\A i \in 1 .. m : t[i] = s[i]) /\ t[m + 1] = o
  BY <1>1, <1>3, AppendToList, ListFacts
<1>6. \A k \in 1 .. n : k \in 1 .. (n + 1) /\ k < n + 1 /\ n + 1 \in 1 .. (n + 1)
  OBVIOUS
<1>7. /\ \A i \in 1 .. m : \E k \in 1 .. n : s[i] = h[k]
      /\ \A i, j \in 1 .. m : i < j =>
           \E k, l \in 1 .. n : k < l /\ s[i] = h[k] /\ s[j] = h[l]
  BY <1>2 DEF PartOf
<1>8. /\ \A i \in 1 .. m : \E k \in 1 .. (n + 1) : s[i] = g[k]
      /\ \A i, j \in 1 .. m : i < j =>
           \E k, l \in 1 .. (n + 1) : k < l /\ s[i] = g[k] /\ s[j] = g[l]
  <2>1. \A k \in 1 .. n : k \in 1 .. (n + 1) /\ g[k] = h[k]
    BY <1>4, <1>6
  <2>2. \A i \in 1 .. m : \E k \in 1 .. (n + 1) : s[i] = g[k]
    BY <1>7, <2>1
  <2>3. ASSUME NEW i \in 1 .. m, NEW j \in 1 .. m, i < j
        PROVE  \E k, l \in 1 .. (n + 1) : k < l /\ s[i] = g[k] /\ s[j] = g[l]
    <3>1. PICK k \in 1 .. n, l \in 1 .. n : k < l /\ s[i] = h[k] /\ s[j] = h[l]
      BY <1>7, <2>3
    <3> QED
      BY <2>1, <3>1
  <2> QED
    BY <2>2, <2>3
<1>9. PartOf(s, g)
  <2>1. \A i \in DOMAIN s : \E k \in DOMAIN g : s[i] = g[k]
    BY <1>2, <1>4, <1>8
  <2>2. ASSUME NEW i \in DOMAIN s, NEW j \in DOMAIN s, i < j
        PROVE  \E k, l \in DOMAIN g : k < l /\ s[i] = g[k] /\ s[j] = g[l]
    <3>1. i \in 1 .. m /\ j \in 1 .. m /\ DOMAIN g = 1 .. (n + 1)
      BY <1>2, <1>4, <1>5
    <3>2. PICK k \in 1 .. (n + 1), l \in 1 .. (n + 1) : k < l /\ s[i] = g[k] /\ s[j] = g[l]
      BY <1>8, <2>2, <3>1
    <3> QED
      BY <3>1, <3>2
  <2> QED
    BY <2>1, <2>2, Zenon DEF PartOf
<1>10. \A i \in 1 .. (m + 1) : i = m + 1 \/ i \in 1 .. m
  OBVIOUS
<1>11. \A i \in 1 .. (m + 1) : \E k \in 1 .. (n + 1) : t[i] = g[k]
  <2> TAKE i \in 1 .. (m + 1)
  <2>1. CASE i = m + 1
    BY <1>4, <1>5, <2>1
  <2>2. CASE i \in 1 .. m
    BY <1>5, <1>8, <2>2
  <2> QED
    BY <1>10, <2>1, <2>2
<1>12. ASSUME NEW i \in 1 .. (m + 1), NEW j \in 1 .. (m + 1), i < j
       PROVE  \E k, l \in 1 .. (n + 1) : k < l /\ t[i] = g[k] /\ t[j] = g[l]
  <2>1. i \in 1 .. m
    BY <1>12
  <2>2. CASE j = m + 1
    <3>1. PICK k \in 1 .. n : s[i] = h[k]
      BY <1>7, <2>1
    <3>2. k \in 1 .. (n + 1) /\ k < n + 1 /\ n + 1 \in 1 .. (n + 1)
      OBVIOUS
    <3>3. t[i] = g[k] /\ t[j] = g[n + 1]
      BY <1>4, <1>5, <2>1, <2>2, <3>1
    <3> QED
      BY <3>2, <3>3
  <2>3. CASE j \in 1 .. m
    <3>1. PICK k \in 1 .. (n + 1), l \in 1 .. (n + 1) : k < l /\ s[i] = g[k] /\ s[j] = g[l]
      BY <1>8, <1>12, <2>1, <2>3
    <3>2. t[i] = s[i] /\ t[j] = s[j]
      BY <1>5, <2>1, <2>3
    <3> QED
      BY <3>1, <3>2
  <2> QED
    BY <1>10, <2>2, <2>3
<1>13. PartOf(t, g)
  <2>1. \A i \in DOMAIN t : \E k \in DOMAIN g : t[i] = g[k]
    BY <1>4, <1>5, <1>11
  <2>2. ASSUME NEW i \in DOMAIN t, NEW j \in DOMAIN t, i < j
        PROVE  \E k, l \in DOMAIN g : k < l /\ t[i] = g[k] /\ t[j] = g[l]
    <3>1. i \in 1 .. (m + 1) /\ j \in 1 .. (m + 1) /\ DOMAIN g = 1 .. (n + 1)
      BY <1>2, <1>4, <1>5
    <3>2. PICK k \in 1 .. (n + 1), l \in 1 .. (n + 1) : k < l /\ t[i] = g[k] /\ t[j] = g[l]
      BY <1>12, <2>2, <3>1
    <3> QED
      BY <3>1, <3>2
  <2> QED
    BY <2>1, <2>2, Zenon DEF PartOf
<1> QED
  BY <1>3, <1>9, <1>13

LEMMA PartOfItself == ASSUME NEW h PROVE PartOf(h, h)
BY Zenon DEF PartOf

LEMMA OrderBefore ==
  ASSUME NEW h, IsList(h), NEW o, InOrder(Append(h, o))
  PROVE  /\ InOrder(h)
         /\ \A i \in DOMAIN h :
              o.event.timestamp - h[i].event.timestamp \in 0 .. TimeMax
<1>1. PICK n \in Nat : n = Len(h)
  BY ListFacts
<1>2. DOMAIN h = 1 .. n
  BY <1>1, ListFacts
<1>3. PICK g : g = Append(h, o)
  OBVIOUS
<1>4. DOMAIN g = 1 .. (n + 1) /\ (\A i \in 1 .. n : g[i] = h[i]) /\ g[n + 1] = o
  BY <1>1, <1>3, AppendToList, ListFacts
<1>5. \A k \in 1 .. n : k \in 1 .. (n + 1) /\ k < n + 1 /\ n + 1 \in 1 .. (n + 1)
  OBVIOUS
<1> QED
  BY <1>2, <1>3, <1>4, <1>5, Zenon DEF InOrder

LEMMA ValueTime ==
  ASSUME NEW w \in WindowName, NEW o
  PROVE  Value(w, o).timestamp = o.event.timestamp
<1>1. CASE w = "mid"
  BY <1>1, Zenon DEF Value
<1>2. CASE w \in {"message", "cancel_ratio"}
  BY <1>2, Zenon DEF Value
<1> QED
  BY <1>1, <1>2 DEF WindowName

LEMMA SourceTimely ==
  ASSUME NEW h, IsList(h), Dated(h), NEW s, IsList(s), PartOf(s, h), NEW w \in WindowName,
         NEW o, o.event.timestamp \in Int, InOrder(Append(h, o))
  PROVE  Timely(Mapped(w, s), o.event.timestamp)
<1>1. InOrder(h) /\ \A i \in DOMAIN h :
        o.event.timestamp - h[i].event.timestamp \in 0 .. TimeMax
  BY OrderBefore
<1>2. PICK now \in Int : now = o.event.timestamp
  OBVIOUS
<1>7. PICK m : m = Mapped(w, s) /\ now = o.event.timestamp
  BY <1>2, Zenon
<1>3. DOMAIN m = DOMAIN s /\ \A i \in DOMAIN s : m[i].timestamp = s[i].event.timestamp
  BY <1>7, ValueTime, Zenon DEF Mapped
<1>4. ASSUME NEW i \in DOMAIN m
      PROVE  m[i].timestamp \in Int /\ now - m[i].timestamp \in 0 .. TimeMax
  <2>1. PICK k \in DOMAIN h : s[i] = h[k]
    BY <1>3 DEF PartOf
  <2> QED
    BY <1>1, <1>3, <1>7, <2>1, Zenon DEF Dated
<1>5. ASSUME NEW i \in DOMAIN m, NEW j \in DOMAIN m, i < j
      PROVE  m[i].timestamp <= m[j].timestamp
  <2>1. PICK k \in DOMAIN h, l \in DOMAIN h : k < l /\ s[i] = h[k] /\ s[j] = h[l]
    BY <1>3, <1>5 DEF PartOf
  <2>2. PICK a \in Int, b \in Int : a = h[k].event.timestamp /\ b = h[l].event.timestamp
    BY DEF Dated
  <2>3. b - a \in 0 .. TimeMax
    BY <1>1, <2>1, <2>2 DEF InOrder
  <2>4. m[i].timestamp = a /\ m[j].timestamp = b
    BY <1>3, <2>1, <2>2
  <2>5. a <= b
    BY <2>3, ExtractorAssumption
  <2> QED
    BY <2>4, <2>5
<1>6. Timely(m, now)
  BY <1>4, <1>5, Zenon DEF Timely
<1> QED
  BY <1>6, <1>7

-----------------------------------------------------------------------------
(* A window after one more observation *)

LEMMA WindowKept ==
  ASSUME NEW w \in WindowName, NEW h, IsList(h), Dated(h), NEW s, IsList(s), PartOf(s, h),
         NEW window, NEW before, before = Last(h).event.timestamp,
         Exact(window, Mapped(w, s), InOrder(h), before, Width[w]),
         NEW o, NEW now \in Int, o.event.timestamp = now,
         NEW order, order <=> InOrder(Append(h, o)),
         NEW left \in Expired(window, now, Width[w])
  PROVE  /\ Exact(left, Mapped(w, s), order, now, Width[w])
         /\ Exact(Append(left, Value(w, o)), Mapped(w, Append(s, o)), order, now, Width[w])
<1>0. PICK width \in Int : width = Width[w]
  BY ExtractorAssumption, Zenon
<1>1. PICK m, v, earlier :
        m = Mapped(w, s) /\ v = Value(w, o) /\ width = Width[w] /\ earlier = InOrder(h)
  BY <1>0, Zenon
<1>2. IsList(m) /\ Len(m) = Len(s)
  BY <1>1, MappedFacts
<1>3. Exact(window, m, earlier, before, width)
  BY <1>1, Zenon
<1>4. order => earlier /\ Timely(m, now)
  BY <1>1, OrderBefore, SourceTimely, Zenon
<1>5. ASSUME order, NEW i \in DOMAIN m PROVE before \in Int /\ before <= now
  <2>1. i \in DOMAIN s
    BY <1>1, Zenon DEF Mapped
  <2>2. PICK k \in DOMAIN h : s[i] = h[k]
    BY <2>1 DEF PartOf
  <2>3. Len(h) \in DOMAIN h
    BY <2>2, ListFacts
  <2>4. PICK last : last = h[Len(h)]
    OBVIOUS
  <2>5. before = last.event.timestamp
    BY <2>4, Zenon DEF Last
  <2>6. before \in Int
    BY <2>3, <2>4, <2>5, Zenon DEF Dated
  <2>7. now - before \in 0 .. TimeMax
    BY <1>5, <2>3, <2>4, <2>5, OrderBefore, Zenon
  <2> QED
    BY <2>6, <2>7, ExtractorAssumption
<1>6. left \in Expired(window, now, width)
  BY <1>1
<1>7. Exact(left, m, order, now, width)
  BY <1>2, <1>3, <1>4, <1>5, <1>6, ExpiryIsExact
<1>8. v.timestamp = now
  BY <1>1, ValueTime
<1>9. Exact(Append(left, v), Append(m, v), order, now, width)
  BY <1>2, <1>7, <1>8, EntryKeepsExact
<1>10. Mapped(w, Append(s, o)) = Append(m, v)
  BY <1>1, MappedAppend
<1> QED
  BY <1>1, <1>7, <1>9, <1>10, Zenon

\* What WindowsExact says, of a given history.
WindowsOf(h) ==
  \A w \in WindowName :
    Exact(windows[w], Mapped(w, Source(w, h)), InOrder(h), Last(h).event.timestamp, Width[w])

LEMMA WindowsOfObserved == WindowsExact <=> WindowsOf(observed)
<1>1. ASSUME NEW w \in WindowName
      PROVE  HistoryOf(w) = Mapped(w, Source(w, observed))
  <2>1. CASE w = "mid"
    BY <2>1, Zenon DEF HistoryOf, Mapped, Source, Value
  <2>2. CASE w = "message"
    BY <2>2, Zenon DEF HistoryOf, Mapped, Source, Value
  <2>3. CASE w = "cancel_ratio"
    BY <2>3, Zenon DEF HistoryOf, Mapped, Source, Value
  <2> QED
    BY <2>1, <2>2, <2>3 DEF WindowName
<1>2. InTimeOrder <=> InOrder(observed)
  BY Zenon DEF InTimeOrder, InOrder
<1>3. Now = Last(observed).event.timestamp
  BY Zenon DEF Now
<1>4. WindowsExact <=>
        \A w \in WindowName : Exact(windows[w], HistoryOf(w), InTimeOrder, Now, Width[w])
  BY Zenon DEF WindowsExact, Exact
<1>5. ASSUME NEW w \in WindowName
      PROVE  Exact(windows[w], HistoryOf(w), InTimeOrder, Now, Width[w]) <=>
             Exact(windows[w], Mapped(w, Source(w, observed)), InOrder(observed),
                   Last(observed).event.timestamp, Width[w])
  <2>1. PICK history : history = HistoryOf(w) /\ history = Mapped(w, Source(w, observed))
    BY <1>1
  <2>2. Exact(windows[w], history, InTimeOrder, Now, Width[w]) <=>
        Exact(windows[w], history, InOrder(observed), Now, Width[w])
    BY <1>2, Zenon DEF Exact
  <2> QED
    BY <1>3, <2>1, <2>2, Zenon
<1> QED
  BY <1>4, <1>5, Zenon DEF WindowsOf

LEMMA WindowsOfObservedNext == WindowsExact' <=> WindowsOf(observed)'
BY WindowsOfObserved, PTL

\* Observations have dates, and those of two-sided books keep their order.
HistoryKept == IsList(observed) /\ Dated(observed) /\ PartOf(TwoSidedOnes(observed), observed)

LEMMA DatedMore ==
  ASSUME NEW h, IsList(h), Dated(h), NEW o, o.event.timestamp \in Int
  PROVE  Dated(Append(h, o))
<1>1. PICK n \in Nat : n = Len(h)
  BY ListFacts
<1>2. DOMAIN h = 1 .. n
  BY <1>1, ListFacts
<1>3. PICK g : g = Append(h, o)
  OBVIOUS
<1>4. DOMAIN g = 1 .. (n + 1) /\ (\A i \in 1 .. n : g[i] = h[i]) /\ g[n + 1] = o
  BY <1>1, <1>3, AppendToList, ListFacts
<1>5. \A i \in 1 .. (n + 1) : i = n + 1 \/ i \in 1 .. n
  OBVIOUS
<1> QED
  BY <1>2, <1>3, <1>4, <1>5, Zenon DEF Dated

LEMMA ExtractKeepsHistory ==
  ASSUME NEW event, event.timestamp \in Int, extract(event), HistoryKept
  PROVE  HistoryKept'
<1>1. PICK o, h : o = [event |-> event, orders |-> order_lookup'] /\ h = observed
  BY Zenon
<1>2. observed' = Append(h, o)
  BY <1>1, ExtractRecords
<1>3. o.event = event
  BY <1>1, Zenon
<1>4. PICK two, more : two = TwoSidedOnes(h) /\ more = TwoSidedOnes(Append(h, o))
  BY Zenon
<1>5. IsList(h) /\ Dated(h) /\ PartOf(two, h)
  BY <1>1, <1>4 DEF HistoryKept
<1>6. IsList(two) /\ (more = Append(two, o) \/ more = two)
  BY <1>4, <1>5, TwoSidedOnesIs, TwoSidedOnesNext
<1>7. PartOf(two, Append(h, o)) /\ PartOf(Append(two, o), Append(h, o))
  BY <1>5, <1>6, PartOfMore
<1>8. IsList(Append(h, o)) /\ Dated(Append(h, o))
  BY <1>3, <1>5, AppendToList, DatedMore
<1> QED
  BY <1>2, <1>4, <1>6, <1>7, <1>8, Zenon DEF HistoryKept

\* An extract() that saw the book as it is keeps the windows exact.
LEMMA ExtractKeepsWindows ==
  ASSUME NEW event, event.timestamp \in Int, extract(event), BookShown', HistoryKept,
         WindowsExact
  PROVE  WindowsExact'
<1>1. PICK o, h : o = [event |-> event, orders |-> order_lookup'] /\ h = observed
  BY Zenon
<1>2. observed' = Append(h, o)
  BY <1>1, ExtractRecords
<1>3. o.event = event /\ o.orders = order_lookup'
  BY <1>1, Zenon
<1>4. PICK now \in Int : now = event.timestamp
  OBVIOUS
<1>5. PICK two, more : two = TwoSidedOnes(h) /\ more = TwoSidedOnes(Append(h, o))
  BY Zenon
<1>6. IsList(h) /\ Dated(h) /\ PartOf(two, h) /\ PartOf(h, h)
  BY <1>1, <1>5, PartOfItself DEF HistoryKept
<1>7. IsList(two) /\ more = IF TwoSided(o.orders) THEN Append(two, o) ELSE two
  BY <1>5, <1>6, TwoSidedOnesIs, TwoSidedOnesNext
<1>8. PICK before, order : /\ before = Last(h).event.timestamp
                           /\ order = InOrder(Append(h, o))
  BY Zenon
<1>9. WindowsOf(h)
  BY <1>1, WindowsOfObserved
<1>10. PICK B : FeaturesMatch(B, o.orders) /\
        \E messages \in Expired(windows["message"], now, Width["message"]),
           ratios \in Expired(windows["cancel_ratio"], now, Width["cancel_ratio"]),
           mids \in Expired(windows["mid"], now, Width["mid"]) :
          windows' = [message |-> Append(messages, Value("message", o)),
                      cancel_ratio |-> Append(ratios, Value("cancel_ratio", o)),
                      mid |-> mids \o [i \in DOMAIN B.mid |->
                                         [timestamp |-> now, mid |-> B.mid[i]]]]
  <2>1. PICK B : B = BookFeatures(top_of_book', depth(TopN)')
    BY Zenon
  <2>2. FeaturesMatch(B, o.orders)
    <3>1. PICK top, views, orders :
            top = top_of_book' /\ views = depth(TopN)' /\ orders = order_lookup'
      OBVIOUS
    <3>2. ShowsBook(top, views, orders)
      BY <3>1, Zenon DEF BookShown
    <3> QED
      BY <1>3, <2>1, <3>1, <3>2, FeaturesFollow
  <2>3. /\ Value("message", o) = [timestamp |-> event.timestamp, type |-> event.type]
        /\ Value("cancel_ratio", o) = [timestamp |-> event.timestamp, type |-> event.type]
    BY <1>3, Zenon DEF Value
  <2>4. \E messages \in Expired(windows["message"], now, Width["message"]),
           ratios \in Expired(windows["cancel_ratio"], now, Width["cancel_ratio"]),
           mids \in Expired(windows["mid"], now, Width["mid"]) :
          windows' = [message |-> Append(messages, Value("message", o)),
                      cancel_ratio |-> Append(ratios, Value("cancel_ratio", o)),
                      mid |-> mids \o [i \in DOMAIN B.mid |->
                                         [timestamp |-> now, mid |-> B.mid[i]]]]
    BY <1>4, <2>1, <2>3, Zenon DEF extract
  <2> QED
    BY <2>2, <2>4
<1>11. PICK messages \in Expired(windows["message"], now, Width["message"]),
            ratios \in Expired(windows["cancel_ratio"], now, Width["cancel_ratio"]),
            mids \in Expired(windows["mid"], now, Width["mid"]) :
          windows' = [message |-> Append(messages, Value("message", o)),
                      cancel_ratio |-> Append(ratios, Value("cancel_ratio", o)),
                      mid |-> mids \o [i \in DOMAIN B.mid |->
                                         [timestamp |-> now, mid |-> B.mid[i]]]]
  BY <1>10
<1>12. PICK v1, v2, v3 : /\ v1 = Append(messages, Value("message", o))
                         /\ v2 = Append(ratios, Value("cancel_ratio", o))
                         /\ v3 = mids \o [i \in DOMAIN B.mid |->
                                            [timestamp |-> now, mid |-> B.mid[i]]]
  BY Zenon
<1>13. windows'["message"] = v1 /\ windows'["cancel_ratio"] = v2 /\ windows'["mid"] = v3
  <2>1. windows' = [message |-> v1, cancel_ratio |-> v2, mid |-> v3]
    BY <1>11, <1>12, Zenon
  <2> QED
    BY <2>1
<1>14. /\ Exact(windows["message"], Mapped("message", h), InOrder(h), before, Width["message"])
       /\ Exact(windows["cancel_ratio"], Mapped("cancel_ratio", h), InOrder(h), before,
                Width["cancel_ratio"])
       /\ Exact(windows["mid"], Mapped("mid", two), InOrder(h), before, Width["mid"])
  BY <1>5, <1>8, <1>9, Zenon DEF WindowsOf, WindowName, Source
<1>15. ASSUME NEW w \in {"message", "cancel_ratio"}, NEW left,
              left \in Expired(windows[w], now, Width[w]),
              Exact(windows[w], Mapped(w, h), InOrder(h), before, Width[w])
       PROVE  Exact(Append(left, Value(w, o)), Mapped(w, Append(h, o)), order, now, Width[w])
  <2>1. PICK window : window = windows[w]
    OBVIOUS
  <2>2. w \in WindowName
    BY DEF WindowName
  <2> QED
    BY <1>3, <1>4, <1>6, <1>8, <1>15, <2>1, <2>2, WindowKept
<1>16. Exact(v3, Mapped("mid", more), order, now, Width["mid"])
  <2>1. PICK window, mid : window = windows["mid"] /\ mid = "mid"
    OBVIOUS
  <2>2. mid \in WindowName
    BY <2>1 DEF WindowName
  <2>3. /\ Exact(mids, Mapped(mid, two), order, now, Width[mid])
        /\ Exact(Append(mids, Value(mid, o)), Mapped(mid, Append(two, o)), order, now,
                 Width[mid])
    <3>1. mids \in Expired(window, now, Width[mid])
      BY <2>1
    <3>2. Exact(window, Mapped(mid, two), InOrder(h), before, Width[mid])
      BY <1>14, <2>1
    <3> QED
      BY <1>3, <1>4, <1>6, <1>7, <1>8, <2>2, <3>1, <3>2, WindowKept
  <2>4. IsList(mids)
    <3>1. PICK m : m = Mapped(mid, two)
      BY Zenon
    <3>2. IsList(m)
      BY <1>7, <3>1, MappedFacts
    <3>3. PICK k \in 0 .. Len(m) : mids = From(m, k)
      BY <2>3, <3>1, Zenon DEF Exact, From
    <3> QED
      BY <3>2, <3>3, FromFacts
  <2>5. PICK entries : entries = [i \in DOMAIN B.mid |-> [timestamp |-> now, mid |-> B.mid[i]]]
    BY Zenon
  <2>6. v3 = mids \o entries
    BY <1>12, <2>5, Zenon
  <2>7. PICK x : x = BestIn(o.orders, "Buy") + BestIn(o.orders, "Sell")
    BY Zenon
  <2>8. B.mid = IF TwoSided(o.orders) THEN <<x>> ELSE << >>
    BY <1>10, <2>7, Zenon DEF FeaturesMatch
  <2>9. PICK v : v = B.mid
    BY Zenon
  <2>10. entries = [i \in DOMAIN v |-> [timestamp |-> now, mid |-> v[i]]]
    BY <2>5, <2>9, Zenon
  <2>11. CASE TwoSided(o.orders)
    <3>1. PICK e : e = [timestamp |-> now, mid |-> x]
      BY Zenon
    <3>2. e = Value(mid, o)
      BY <1>3, <1>4, <2>1, <2>7, <3>1, Zenon DEF Value
    <3>3. v = <<x>>
      BY <2>8, <2>9, <2>11
    <3>4. DOMAIN v = {1} /\ v[1] = x
      BY <3>3
    <3>5. entries = [i \in {1} |-> e]
      BY <2>10, <3>1, <3>4, Zenon
    <3>6. entries = <<e>>
      BY <3>5
    <3>7. v3 = Append(mids, e)
      BY <2>4, <2>6, <3>6, ListWithOne
    <3> QED
      BY <1>7, <2>1, <2>3, <2>11, <3>2, <3>7, Zenon
  <2>12. CASE ~TwoSided(o.orders)
    <3>1. v = << >>
      BY <2>8, <2>9, <2>12
    <3>2. DOMAIN v = {}
      BY <3>1
    <3>3. entries = [i \in {} |-> [timestamp |-> now, mid |-> v[i]]]
      BY <2>10, <3>2, Zenon
    <3>4. entries = << >>
      BY <3>3
    <3>5. v3 = mids
      BY <2>4, <2>6, <3>4, ListWithNothing
    <3> QED
      BY <1>7, <2>1, <2>3, <2>12, <3>5, Zenon
  <2> QED
    BY <2>11, <2>12
<1>17. Last(Append(h, o)).event.timestamp = now
  BY <1>3, <1>4, <1>6, FrontAndLast
<1>18. /\ Exact(v1, Mapped("message", Append(h, o)), order, now, Width["message"])
       /\ Exact(v2, Mapped("cancel_ratio", Append(h, o)), order, now, Width["cancel_ratio"])
  BY <1>11, <1>12, <1>14, <1>15, Zenon
<1>19. WindowsOf(observed)'
  <2>1. PICK g : g = Append(h, o)
    OBVIOUS
  <2>2. /\ Source("message", g) = g /\ Source("cancel_ratio", g) = g
        /\ Source("mid", g) = more
    BY <1>5, <2>1, Zenon DEF Source
  <2>3. \A w \in WindowName :
          Exact(windows'[w], Mapped(w, Source(w, g)), order, now, Width[w])
    BY <1>13, <1>16, <1>18, <2>1, <2>2, Zenon DEF WindowName
  <2> QED
    BY <1>2, <1>8, <1>17, <2>1, <2>3, Zenon DEF WindowsOf
<1> QED
  BY <1>19, WindowsOfObservedNext

-----------------------------------------------------------------------------
(* The book, as whoever feeds the monitor uses it *)

BookOK == IInv /\ TotalsAgree

\* The events apply() may be given: only an Add needs a price.
BookEvent == {e \in MarketEvent : e.type = "Add" => e.price \in Price}

\* An event is one operation of the book: counted if it is applied and without
\* any effect if it is not.
BookStep ==
  /\ [Next]_vars
  /\ result' = "Applied" => events_applied' = Plus(events_applied, 1)
  /\ result' # "Applied" =>
       levels' = levels /\ order_lookup' = order_lookup /\ events_applied' = events_applied

LEMMA EventStep ==
  ASSUME NEW e \in BookEvent, apply(e)
  PROVE  BookStep
<1>1. /\ e.type \in EventType /\ e.timestamp \in Timestamp /\ e.order_id \in OrderId
      /\ e.side \in Side /\ e.quantity \in Quantity
      /\ e.type = "Add" => e.price \in Price
  BY DEF BookEvent, MarketEvent
<1>2. Next
  BY <1>1 DEF apply, Next
<1>3. Applied \/ \E res : res # "Applied" /\ Reject(res)
  <2>1. CASE e.type = "Add"
    BY <2>1 DEF apply, add_order
  <2>2. CASE e.type = "Cancel"
    BY <2>2 DEF apply, cancel_order
  <2>3. CASE e.type = "Modify"
    BY <2>3 DEF apply, modify_order
  <2>4. CASE e.type = "Execute"
    BY <2>4 DEF apply, execute_order
  <2> QED
    BY <1>1, <2>1, <2>2, <2>3, <2>4 DEF EventType
<1> QED
  BY <1>2, <1>3 DEF BookStep, Applied, Reject

LEMMA StepKeepsBook == BookOK /\ [Next]_vars => BookOK'
BY NextPreservesInv, TotalsKept DEF BookOK, IInv

-----------------------------------------------------------------------------
(* All that is kept of the monitor *)

MonitorOK ==
  /\ StatesAreLists /\ HistoryKept
  /\ AnomaliesJustified /\ ImbalanceInRange /\ SamplesMatchBooks /\ WindowsExact

\* A monitor right after construction or a reset.
Fresh ==
  /\ windows = NoWindows /\ observed = << >>
  /\ states = [f \in Feature |-> << >>]

LEMMA FreshIsOK == Fresh => MonitorOK
<1> SUFFICES ASSUME Fresh PROVE MonitorOK
  OBVIOUS
<1>1. PICK h : h = << >>
  OBVIOUS
<1>2. IsList(h) /\ Len(h) = 0 /\ DOMAIN h = {}
  BY <1>1, OptionalIsList DEF IsOptional
<1>3. observed = h /\ TwoSidedOnes(h) = h /\ \A kind : Mapped(kind, h) = h
  BY <1>1, TwoSidedOnesNone, MappedNone DEF Fresh
<1>4. StatesAreLists
  BY <1>1, <1>2, Zenon DEF StatesAreLists, Fresh
<1>5. HistoryKept
  BY <1>2, <1>3, Zenon DEF HistoryKept, Dated, PartOf
<1>6. AnomaliesJustified /\ ImbalanceInRange
  BY <1>1, <1>3 DEF AnomaliesJustified, ImbalanceInRange
<1>7. SamplesMatchBooks
  <2>1. Feature = {"bid_ask_spread", "top_n_bid_depth", "top_n_ask_depth",
                   "order_book_imbalance", "message_rate", "cancel_add_ratio",
                   "mid_price_volatility"}
    BY Zenon DEF Feature, Reason
  <2>2. "message_rate" \in Feature /\ BookFeature \subseteq Feature
    BY <2>1 DEF BookFeature
  <2>3. \A f \in Feature : states[f] = h
    BY <1>1, Zenon DEF Fresh
  <2>4. SamplesOf(h)
    BY <1>3, <2>2, <2>3, Zenon DEF SamplesOf
  <2> QED
    BY <1>3, <2>4, SamplesOfObserved
<1>8. WindowsExact
  <2>1. \A w \in WindowName : windows[w] = h
    BY <1>1, Zenon DEF Fresh, NoWindows
  <2>2. \A w : Source(w, h) = h
    BY <1>3, Zenon DEF Source
  <2>3. h = From(h, 0) /\ 0 \in 0 .. Len(h)
    <3>1. IsList(From(h, 0)) /\ Len(From(h, 0)) = 0
      BY <1>2, FromFacts
    <3> QED
      BY <1>2, <3>1, ListsEqual
  <2>4. \A order, now, width : Exact(h, h, order, now, width)
    BY <1>2, <2>3 DEF Exact, From
  <2>5. WindowsOf(h)
    BY <1>3, <2>1, <2>2, <2>4, Zenon DEF WindowsOf
  <2> QED
    BY <1>3, <2>5, WindowsOfObserved
<1> QED
  BY <1>4, <1>5, <1>6, <1>7, <1>8 DEF MonitorOK

LEMMA FreshIsOKNext == Fresh' => MonitorOK'
BY FreshIsOK, PTL

LEMMA MonitorStays == MonitorOK /\ UNCHANGED monitorVars => MonitorOK'
<1> SUFFICES ASSUME MonitorOK, UNCHANGED monitorVars PROVE MonitorOK'
  OBVIOUS
<1>1. /\ windows' = windows /\ features' = features /\ observed' = observed
      /\ states' = states /\ anomalies' = anomalies
  BY DEF monitorVars, extractorVars
<1>2. StatesAreLists' /\ HistoryKept'
  BY <1>1, Zenon DEF MonitorOK, StatesAreLists, HistoryKept
<1>3. AnomaliesJustified'
  BY <1>1, Zenon DEF MonitorOK, AnomaliesJustified, Now
<1>4. ImbalanceInRange'
  BY <1>1, Zenon DEF MonitorOK, ImbalanceInRange
<1>5. SamplesMatchBooks'
  BY <1>1, SamplesOfObserved, SamplesOfObservedNext, Zenon DEF MonitorOK, SamplesOf
<1>6. WindowsExact'
  BY <1>1, WindowsOfObserved, WindowsOfObservedNext, Zenon DEF MonitorOK, WindowsOf
<1> QED
  BY <1>2, <1>3, <1>4, <1>5, <1>6 DEF MonitorOK

LEMMA ObserveKeepsMonitor ==
  ASSUME NEW event, event.timestamp \in Int, observe(event), BookOK', MonitorOK
  PROVE  MonitorOK'
<1>1. StatesAreLists /\ IsList(observed) /\ HistoryKept /\ extract(event)
  BY DEF MonitorOK, HistoryKept, observe
<1>2. BookShown'
  BY BookIsShownNext DEF BookOK, IInv
<1>3. StatesAreLists' /\ AnomaliesJustified'
  BY <1>1, ObserveJustifies
<1>4. HistoryKept'
  BY <1>1, ExtractKeepsHistory
<1>5. ImbalanceInRange'
  BY <1>1, <1>2, ObserveBalances
<1>6. SamplesMatchBooks'
  BY <1>1, <1>2, ObserveSamples DEF MonitorOK
<1>7. WindowsExact'
  BY <1>1, <1>2, ExtractKeepsWindows DEF MonitorOK
<1> QED
  BY <1>3, <1>4, <1>5, <1>6, <1>7 DEF MonitorOK

-----------------------------------------------------------------------------
(* The monitored feed *)

\* Between two iterations of the loop.
FeedInv == BookOK /\ MonitorOK

LEMMA FeedInitOK == FeedInit => FeedInv
<1> SUFFICES ASSUME FeedInit PROVE FeedInv
  OBVIOUS
<1>1. BookOK
  BY InitEstablishesInv DEF FeedInit, Init, NoEntries, TotalsAgree, BookOK
<1>2. Fresh
  BY DEF FeedInit, MonitorInit, ExtractorInit, Fresh
<1> QED
  BY <1>1, <1>2, FreshIsOK DEF FeedInv

LEMMA FeedStepOK == FeedInv /\ [FeedNext]_feedVars => FeedInv'
<1> SUFFICES ASSUME FeedInv, [FeedNext]_feedVars PROVE FeedInv'
  OBVIOUS
<1>1. CASE NextPass
  <2>1. BookOK'
    BY <1>1, StepKeepsBook DEF FeedInv, NextPass, Next
  <2>2. Fresh'
    BY <1>1 DEF NextPass, MonitorReset, reset, Fresh
  <2> QED
    BY <2>1, <2>2, FreshIsOKNext DEF FeedInv
<1>2. ASSUME NEW event \in Feed, ApplyAndObserve(event) PROVE FeedInv'
  <2>1. event \in BookEvent /\ event.timestamp \in Int
    BY FeedAssumption, ExtractorAssumption DEF FeedEvent, MarketEvent, BookEvent
  <2>2. BookOK'
    BY <1>2, <2>1, EventStep, StepKeepsBook DEF FeedInv, ApplyAndObserve, BookStep
  <2>3. MonitorOK'
    BY <1>2, <2>1, <2>2, ObserveKeepsMonitor DEF FeedInv, ApplyAndObserve
  <2> QED
    BY <2>2, <2>3 DEF FeedInv
<1>3. CASE UNCHANGED feedVars
  <2>1. BookOK'
    BY <1>3, StepKeepsBook DEF FeedInv, feedVars
  <2>2. MonitorOK'
    BY <1>3, MonitorStays DEF FeedInv, feedVars
  <2> QED
    BY <2>1, <2>2 DEF FeedInv
<1> QED
  BY <1>1, <1>2, <1>3 DEF FeedNext

\* observe() reports an anomaly only for a feature that was warmed up, about
\* the sample and the event at hand, in the direction of its reason and at
\* most once per feature, whatever the scoring rule.
THEOREM AnomaliesAreJustified == FeedSpec => []AnomaliesJustified
<1>1. FeedInv => AnomaliesJustified
  BY DEF FeedInv, MonitorOK
<1> QED
  BY <1>1, FeedInitOK, FeedStepOK, PTL DEF FeedSpec

\* The imbalance extract() computes from depth(TopN) is the one of the orders on
\* record, whatever the number of levels, as long as both depths fit a word.
THEOREM ImbalanceIsTrue == FeedSpec => []ImbalanceInRange
<1>1. FeedInv => ImbalanceInRange
  BY DEF FeedInv, MonitorOK
<1> QED
  BY <1>1, FeedInitOK, FeedStepOK, PTL DEF FeedSpec

\* The samples of spread and depth are those of the two-sided books seen since
\* the last reset, one each, computed from the orders then on record.
THEOREM SamplesAreTrue == FeedSpec => []SamplesMatchBooks
<1>1. FeedInv => SamplesMatchBooks
  BY DEF FeedInv, MonitorOK
<1> QED
  BY <1>1, FeedInitOK, FeedStepOK, PTL DEF FeedSpec

\* Each window is the end of what was observed since the last reset and, for a
\* feed in time order, exactly what is not older than the window is long.
THEOREM WindowsAreExact == FeedSpec => []WindowsExact
<1>1. FeedInv => WindowsExact
  BY DEF FeedInv, MonitorOK
<1> QED
  BY <1>1, FeedInitOK, FeedStepOK, PTL DEF FeedSpec
=============================================================================
