------------------------- MODULE QueuedReplayProofs -------------------------
(***************************************************************************)
(* Proofs about the ring buffer and about replay through it, for every     *)
(* capacity that divides the range of the sequences at least twice, every  *)
(* number of cycles and any number of passes.                              *)
(*                                                                         *)
(* The ring.  The arithmetic of the two wrapping counters is settled once, *)
(* in the lemmas of the first part: after them a sequence number is a      *)
(* point on a circle, Distance counts the steps from one point to another, *)
(* and two points less than Capacity apart have different slots.           *)
(*                                                                         *)
(* Replay through it.  The consumer gets the stream in order, the ring and *)
(* the book are empty when the threads are joined, and the book goes       *)
(* through the states of direct replay.  The invariant adds three parts to *)
(* the ring's: what lies in the ring is the stretch of the stream between  *)
(* the two loops' counters, the sequences count the events of all passes,  *)
(* and the book holds at most the order of the cycle under way.            *)
(***************************************************************************)
EXTENDS QueuedReplay, SequenceTheorems, TLAPS

-----------------------------------------------------------------------------
(* The arithmetic of wrapping sequences *)

\* The sequences range over more than the slots: a full ring and an empty one
\* are told apart by their difference.
LEMMA WordBounds ==
  /\ SequenceWord \in Nat /\ Capacity \in Nat
  /\ 0 < Capacity /\ Capacity < SequenceWord
<1>1. PICK k \in 2 .. SequenceWord : SequenceWord = k * Capacity
  BY CapacityAssumption
<1>2. k \in Int /\ 2 <= k /\ Capacity \in Int /\ 0 < Capacity
  BY <1>1, CapacityAssumption
<1>3. 2 * Capacity <= k * Capacity
  BY <1>2
<1> QED
  BY <1>1, <1>2, <1>3, CapacityAssumption

\* Reduction modulo the word of a number at most one word out of range.
LEMMA WordCases ==
  ASSUME NEW a \in Int, -SequenceWord <= a, a < 2 * SequenceWord
  PROVE  a % SequenceWord = IF a < 0 THEN a + SequenceWord
                            ELSE IF a < SequenceWord THEN a
                            ELSE a - SequenceWord
BY WordBounds

\* The unsigned difference of two sequences, without the modulus.
LEMMA DistanceCases ==
  ASSUME NEW a \in Sequence, NEW b \in Sequence
  PROVE  Distance(a, b) = IF a <= b THEN b - a ELSE b - a + SequenceWord
BY WordCases, WordBounds DEF Distance, Sequence

LEMMA SuccCases ==
  ASSUME NEW a \in Sequence
  PROVE  /\ Succ(a) = IF a = SequenceWord - 1 THEN 0 ELSE a + 1
         /\ Succ(a) \in Sequence
<1>1. a \in Int /\ a + 1 \in Int /\ 0 <= a /\ a + 1 <= SequenceWord
  BY WordBounds DEF Sequence
<1>2. Succ(a) = IF a + 1 < SequenceWord THEN a + 1 ELSE a + 1 - SequenceWord
  BY <1>1, WordBounds, WordCases DEF Succ
<1> QED
  BY <1>1, <1>2, WordBounds DEF Sequence

LEMMA SlotTyping ==
  ASSUME NEW a \in Sequence
  PROVE  SlotOf(a) \in Slot
BY WordBounds DEF SlotOf, Slot, Sequence

\* No multiple of the capacity lies strictly between zero and the capacity.
LEMMA NoMultipleBetween ==
  ASSUME NEW q \in Int, 0 < q * Capacity, q * Capacity < Capacity
  PROVE  FALSE
<1>1. CASE q <= 0
  BY <1>1, WordBounds
<1>2. CASE q >= 1
  BY <1>2, WordBounds
<1> QED
  BY <1>1, <1>2

\* Sequences fewer than Capacity steps apart have different slots, also when
\* the counter wraps around between them: this is what needs the capacity to
\* divide the range of the counter.
LEMMA SlotsApart ==
  ASSUME NEW a \in Sequence, NEW b \in Sequence,
         0 < Distance(a, b), Distance(a, b) < Capacity
  PROVE  SlotOf(a) # SlotOf(b)
<1> SUFFICES ASSUME SlotOf(a) = SlotOf(b) PROVE FALSE
  OBVIOUS
<1>1. PICK k \in 2 .. SequenceWord : SequenceWord = k * Capacity
  BY CapacityAssumption
<1> DEFINE qa == a \div Capacity
           qb == b \div Capacity
<1>2. qa \in Int /\ qb \in Int /\ k \in Int
  BY <1>1, WordBounds DEF Sequence
<1>3. a = qa * Capacity + SlotOf(a) /\ b = qb * Capacity + SlotOf(b)
  BY WordBounds DEF Sequence, SlotOf
<1>4. b - a = (qb - qa) * Capacity
  BY <1>2, <1>3, SlotTyping, WordBounds DEF Slot
<1>5. CASE a <= b
  <2>1. Distance(a, b) = (qb - qa) * Capacity
    BY <1>4, <1>5, DistanceCases
  <2> QED
    BY <2>1, <1>2, NoMultipleBetween
<1>6. CASE b < a
  <2>1. Distance(a, b) = b - a + SequenceWord
    BY <1>6, DistanceCases DEF Sequence
  <2>2. Distance(a, b) = (qb - qa + k) * Capacity
    BY <2>1, <1>1, <1>2, <1>4, WordBounds
  <2> QED
    BY <2>2, <1>2, NoMultipleBetween
<1> QED
  BY <1>5, <1>6 DEF Sequence

\* Distance is the number of steps from one sequence to another.
LEMMA DistanceTyping ==
  ASSUME NEW a \in Sequence, NEW b \in Sequence
  PROVE  /\ Distance(a, b) \in Nat /\ Distance(a, b) < SequenceWord
         /\ Distance(a, b) = 0 <=> a = b
BY DistanceCases, WordBounds DEF Sequence

\* Steps add up along an arc that does not go all the way round.
LEMMA DistanceSum ==
  ASSUME NEW a \in Sequence, NEW b \in Sequence, NEW c \in Sequence,
         Distance(a, b) <= Distance(a, c)
  PROVE  Distance(a, c) = Distance(a, b) + Distance(b, c)
BY DistanceCases, WordBounds DEF Sequence

LEMMA DistanceChain ==
  ASSUME NEW a \in Sequence, NEW b \in Sequence, NEW c \in Sequence,
         Distance(a, b) + Distance(b, c) < SequenceWord
  PROVE  Distance(a, c) = Distance(a, b) + Distance(b, c)
BY DistanceCases, WordBounds DEF Sequence

\* One more store of the writing end, one more of the reading end.
LEMMA DistanceToSucc ==
  ASSUME NEW a \in Sequence, NEW b \in Sequence, Distance(a, b) < SequenceWord - 1
  PROVE  Distance(a, Succ(b)) = Distance(a, b) + 1
<1>1. PICK s \in Sequence : s = Succ(b)
  BY SuccCases
<1>2. s = IF b = SequenceWord - 1 THEN 0 ELSE b + 1
  BY <1>1, SuccCases
<1>3. Distance(a, s) = Distance(a, b) + 1
  BY <1>2, DistanceCases, WordBounds, SMTT(30) DEF Sequence
<1> QED
  BY <1>1, <1>3

LEMMA DistanceFromSucc ==
  ASSUME NEW a \in Sequence, NEW b \in Sequence, a # b
  PROVE  Distance(Succ(a), b) = Distance(a, b) - 1
<1>1. PICK s \in Sequence : s = Succ(a)
  BY SuccCases
<1>2. s = IF a = SequenceWord - 1 THEN 0 ELSE a + 1
  BY <1>1, SuccCases
<1>3. Distance(s, b) = Distance(a, b) - 1
  BY <1>2, DistanceCases, WordBounds DEF Sequence
<1> QED
  BY <1>1, <1>3

\* The sequence d steps on.
LEMMA StepsOn ==
  ASSUME NEW a \in Sequence, NEW d \in Nat, d < SequenceWord
  PROVE  /\ (a + d) % SequenceWord \in Sequence
         /\ Distance(a, (a + d) % SequenceWord) = d
<1> DEFINE e == (a + d) % SequenceWord
<1>1. a \in Int /\ a + d \in Int /\ 0 <= a + d /\ a + d < 2 * SequenceWord
  BY WordBounds DEF Sequence
<1>2. e = IF a + d < SequenceWord THEN a + d ELSE a + d - SequenceWord
  BY <1>1, WordBounds, WordCases
<1>3. e \in Sequence
  BY <1>1, <1>2, WordBounds DEF Sequence
<1> HIDE DEF e
<1>4. Distance(a, e) = d
  BY <1>1, <1>2, <1>3, DistanceCases, WordBounds DEF Sequence
<1> QED
  BY <1>3, <1>4 DEF e

\* Stepping on by the distance arrives.
LEMMA StepsOnReach ==
  ASSUME NEW a \in Sequence, NEW b \in Sequence
  PROVE  (a + Distance(a, b)) % SequenceWord = b
<1> DEFINE d == Distance(a, b)
<1>1. d \in Nat /\ d < SequenceWord /\ d = IF a <= b THEN b - a ELSE b - a + SequenceWord
  BY DistanceTyping, DistanceCases
<1> HIDE DEF d
<1>2. a \in Int /\ a + d \in Int /\ 0 <= a + d /\ a + d < 2 * SequenceWord
  BY <1>1, WordBounds DEF Sequence
<1>3. (a + d) % SequenceWord = IF a + d < SequenceWord THEN a + d ELSE a + d - SequenceWord
  BY <1>1, <1>2, WordBounds, WordCases
<1>4. (a + d) % SequenceWord = b
  BY <1>1, <1>2, <1>3, WordBounds DEF Sequence
<1> QED
  BY <1>4 DEF d

\* Counting on from the successor.
LEMMA StepsOnSucc ==
  ASSUME NEW a \in Sequence, NEW d \in Nat, d < SequenceWord - 1
  PROVE  (Succ(a) + d) % SequenceWord = (a + (d + 1)) % SequenceWord
<1>1. a \in Int /\ a + (d + 1) \in Int /\ 0 <= a + (d + 1) /\ a + (d + 1) < 2 * SequenceWord
  BY WordBounds DEF Sequence
<1>2. PICK s \in Sequence : s = Succ(a)
  BY SuccCases
<1>3. s = IF a = SequenceWord - 1 THEN 0 ELSE a + 1
  BY <1>2, SuccCases
<1>4. s \in Int /\ s + d \in Int /\ 0 <= s + d /\ s + d < 2 * SequenceWord
  BY WordBounds DEF Sequence
<1>5. (a + (d + 1)) % SequenceWord
        = IF a + (d + 1) < SequenceWord THEN a + (d + 1) ELSE a + (d + 1) - SequenceWord
  BY <1>1, WordCases, WordBounds
<1>6. (s + d) % SequenceWord
        = IF s + d < SequenceWord THEN s + d ELSE s + d - SequenceWord
  BY <1>4, WordCases, WordBounds
<1> QED
  BY <1>1, <1>2, <1>3, <1>4, <1>5, <1>6, WordBounds DEF Sequence

\* What an acquire load returns lies between what was seen and the newest.
LEMMA LoadedBetween ==
  ASSUME NEW seen \in Sequence, NEW current \in Sequence,
         NEW value \in Loadable(seen, current)
  PROVE  /\ value \in Sequence
         /\ Distance(seen, value) + Distance(value, current) = Distance(seen, current)
<1>1. PICK d \in 0 .. Distance(seen, current) : value = (seen + d) % SequenceWord
  BY DEF Loadable
<1>2. d \in Nat /\ d <= Distance(seen, current) /\ d < SequenceWord
  BY <1>1, DistanceTyping, WordBounds
<1>3. value \in Sequence /\ Distance(seen, value) = d
  BY <1>1, <1>2, StepsOn
<1> QED
  BY <1>2, <1>3, DistanceSum, DistanceTyping
-----------------------------------------------------------------------------
(* The inductive invariant *)

\* What a call under way relies on until it returns.  The producer found room
\* with the read_sequence it saw, and its copy stays whole until it publishes
\* it; the consumer found an event, and what it copied is still in the slot.
CallsUnderWay ==
  /\ p_pc # "idle" => p_event \in Event /\ Distance(p_seen, write_sequence) < Capacity
  /\ p_pc = "publish" => buffer[SlotOf(write_sequence)] = p_event
  /\ c_pc # "idle" => c_seen # read_sequence
  /\ c_pc \in {"copying", "publish"} => out = buffer[SlotOf(read_sequence)]

RingInv ==
  /\ TypeOK
  /\ SeenIsConservative
  /\ CallsUnderWay
  /\ PublishedSlotsIntact
  /\ OwnerSizeInBounds

\* The invariant in the form the steps use: read_sequence lies between what
\* the producer saw of it and write_sequence, c_seen between the two.
LEMMA Arcs ==
  ASSUME TypeOK, SeenIsConservative
  PROVE  /\ write_sequence \in Sequence /\ read_sequence \in Sequence
         /\ p_seen \in Sequence /\ c_seen \in Sequence
         /\ Distance(p_seen, write_sequence)
              = Distance(p_seen, read_sequence) + Distance(read_sequence, write_sequence)
         /\ Distance(read_sequence, write_sequence)
              = Distance(read_sequence, c_seen) + Distance(c_seen, write_sequence)
         /\ Distance(p_seen, read_sequence) \in Nat /\ Distance(p_seen, write_sequence) \in Nat
         /\ Distance(read_sequence, write_sequence) \in Nat
         /\ Distance(read_sequence, c_seen) \in Nat /\ Distance(c_seen, write_sequence) \in Nat
BY DistanceSum, DistanceTyping DEF TypeOK, SeenIsConservative

\* The invariant holds of the empty ring.
LEMMA RingInit == Init => RingInv
<1> SUFFICES ASSUME Init PROVE RingInv
  OBVIOUS
<1>1. 0 \in Sequence /\ Distance(0, 0) = 0
  BY WordBounds, DistanceTyping DEF Sequence
<1>2. TypeOK
  BY <1>1 DEF Init, TypeOK
<1>3. SeenIsConservative /\ OwnerSizeInBounds
  BY <1>1, WordBounds DEF Init, SeenIsConservative, OwnerSizeInBounds
<1>4. CallsUnderWay /\ PublishedSlotsIntact
  BY <1>1 DEF Init, CallsUnderWay, PublishedSlotsIntact
<1> QED
  BY <1>2, <1>3, <1>4 DEF RingInv

\* A slot the producer writes is none of the published ones.
LEMMA WriterApart ==
  ASSUME TypeOK, SeenIsConservative, Distance(read_sequence, write_sequence) < Capacity,
         NEW d \in 0 .. (Distance(read_sequence, write_sequence) - 1)
  PROVE  /\ (read_sequence + d) % SequenceWord \in Sequence
         /\ SlotOf((read_sequence + d) % SequenceWord) # SlotOf(write_sequence)
<1> DEFINE e == (read_sequence + d) % SequenceWord
<1>1. /\ d \in Nat /\ d < Distance(read_sequence, write_sequence)
      /\ d < SequenceWord
  BY Arcs, WordBounds
<1>2. e \in Sequence /\ Distance(read_sequence, e) = d
  BY <1>1, Arcs, StepsOn
<1> HIDE DEF e
<1>3. Distance(read_sequence, write_sequence) = d + Distance(e, write_sequence)
  BY <1>1, <1>2, Arcs, DistanceSum
<1>4. 0 < Distance(e, write_sequence) /\ Distance(e, write_sequence) < Capacity
  BY <1>1, <1>2, <1>3, Arcs, DistanceTyping, WordBounds
<1>5. SlotOf(e) # SlotOf(write_sequence)
  BY <1>2, <1>4, Arcs, SlotsApart
<1> QED
  BY <1>2, <1>5 DEF e

\* In particular it is not the one the consumer reads.
LEMMA OldestApart ==
  ASSUME TypeOK, SeenIsConservative, Distance(read_sequence, write_sequence) < Capacity,
         read_sequence # write_sequence
  PROVE  SlotOf(read_sequence) # SlotOf(write_sequence)
BY Arcs, DistanceTyping, SlotsApart

\* A load by the producer keeps it on the safe side of the reads.
LEMMA ProducerLoads ==
  ASSUME TypeOK, SeenIsConservative, NEW read \in Loadable(p_seen, read_sequence)
  PROVE  /\ read \in Sequence
         /\ Distance(read, write_sequence) \in Sequence
         /\ Distance(read, read_sequence) <= Distance(read, write_sequence)
         /\ Distance(read, write_sequence) <= Capacity
<1>1. /\ read \in Sequence
      /\ Distance(p_seen, read) + Distance(read, read_sequence) = Distance(p_seen, read_sequence)
  BY Arcs, LoadedBetween
<1>2. Distance(p_seen, read) \in Nat /\ Distance(read, read_sequence) \in Nat
  BY <1>1, Arcs, DistanceTyping
<1>3. Distance(p_seen, write_sequence) <= Capacity
  BY DEF SeenIsConservative
<1>4. Distance(read, read_sequence) + Distance(read_sequence, write_sequence) <= Capacity
  BY <1>1, <1>2, <1>3, Arcs, WordBounds
<1>5. Distance(read, write_sequence)
        = Distance(read, read_sequence) + Distance(read_sequence, write_sequence)
  BY <1>1, <1>2, <1>4, Arcs, DistanceChain, WordBounds
<1> QED
  BY <1>1, <1>2, <1>4, <1>5, Arcs, WordBounds DEF Sequence

\* A load by the consumer keeps it on the safe side of the writes.
LEMMA ConsumerLoads ==
  ASSUME TypeOK, SeenIsConservative, NEW write \in Loadable(c_seen, write_sequence)
  PROVE  /\ write \in Sequence
         /\ Distance(read_sequence, write) \in Sequence
         /\ Distance(read_sequence, write) <= Distance(read_sequence, write_sequence)
<1>1. /\ write \in Sequence
      /\ Distance(c_seen, write) + Distance(write, write_sequence) = Distance(c_seen, write_sequence)
  BY Arcs, LoadedBetween
<1>2. Distance(c_seen, write) \in Nat /\ Distance(write, write_sequence) \in Nat
  BY <1>1, Arcs, DistanceTyping
<1>3. Distance(read_sequence, write_sequence) < SequenceWord
  BY Arcs, DistanceTyping
<1>4. Distance(read_sequence, write) = Distance(read_sequence, c_seen) + Distance(c_seen, write)
  BY <1>1, <1>2, <1>3, Arcs, DistanceChain, WordBounds
<1> QED
  BY <1>1, <1>2, <1>3, <1>4, Arcs, WordBounds DEF Sequence

-----------------------------------------------------------------------------
(* Every step preserves it *)

\* try_push goes on only with room by a read_sequence it may have seen late.
LEMMA PushLoadKeeps ==
  ASSUME RingInv, NEW event \in Event, NEW read \in Sequence, PushLoad(event, read)
  PROVE  RingInv'
<1> USE DEF RingInv
<1>1. /\ read \in Sequence
      /\ Distance(read, read_sequence) <= Distance(read, write_sequence)
      /\ Distance(read, write_sequence) <= Capacity
      /\ Distance(read, write_sequence) \in Int
  BY ProducerLoads DEF PushLoad, Sequence
<1>2. TypeOK'
  BY <1>1 DEF PushLoad, TypeOK, consumer
<1>3. SeenIsConservative'
  BY <1>1 DEF PushLoad, SeenIsConservative, consumer
<1>4. CallsUnderWay'
  BY <1>1, WordBounds DEF PushLoad, LooksFull, CallsUnderWay, consumer
<1>5. PublishedSlotsIntact' /\ OwnerSizeInBounds'
  BY DEF PushLoad, PublishedSlotsIntact, OwnerSizeInBounds, consumer
<1> QED
  BY <1>2, <1>3, <1>4, <1>5

\* What the producer copies into a slot touches neither a published event nor
\* the one the consumer is copying out.
LEMMA SlotWriteApart ==
  ASSUME RingInv, p_pc # "idle", NEW value,
         buffer' = [buffer EXCEPT ![SlotOf(write_sequence)] = value]
  PROVE  /\ SlotOf(write_sequence) \in Slot
         /\ buffer'[SlotOf(write_sequence)] = value
         /\ c_pc # "idle" => buffer'[SlotOf(read_sequence)] = buffer[SlotOf(read_sequence)]
         /\ \A d \in 0 .. (Distance(read_sequence, write_sequence) - 1) :
              LET e == (read_sequence + d) % SequenceWord
              IN  buffer[SlotOf(e)] \in Event /\ buffer'[SlotOf(e)] = buffer[SlotOf(e)]
<1> USE DEF RingInv
<1>1. Distance(read_sequence, write_sequence) < Capacity
  BY Arcs, WordBounds DEF CallsUnderWay
<1>2. SlotOf(write_sequence) \in Slot /\ SlotOf(read_sequence) \in Slot
  BY Arcs, SlotTyping
<1>3. c_pc # "idle" => buffer'[SlotOf(read_sequence)] = buffer[SlotOf(read_sequence)]
  <2>1. c_pc # "idle" => read_sequence # write_sequence
    BY Arcs, DistanceTyping DEF CallsUnderWay
  <2> QED
    BY <1>1, <1>2, <2>1, OldestApart DEF TypeOK
<1>4. ASSUME NEW d \in 0 .. (Distance(read_sequence, write_sequence) - 1)
      PROVE  LET e == (read_sequence + d) % SequenceWord
             IN  buffer[SlotOf(e)] \in Event /\ buffer'[SlotOf(e)] = buffer[SlotOf(e)]
  <2>1. SlotOf((read_sequence + d) % SequenceWord) \in Slot
    BY <1>1, WriterApart, SlotTyping
  <2> QED
    BY <1>1, <1>2, <2>1, WriterApart DEF TypeOK, PublishedSlotsIntact
<1> QED
  BY <1>2, <1>3, <1>4 DEF TypeOK

\* The copy into the slot, first and second half.
LEMMA PushBeginCopyKeeps ==
  ASSUME RingInv, PushBeginCopy
  PROVE  RingInv'
<1> USE DEF RingInv
<1>1. TypeOK'
  BY SlotWriteApart DEF PushBeginCopy, TypeOK, consumer
<1>2. SeenIsConservative' /\ OwnerSizeInBounds'
  BY DEF PushBeginCopy, SeenIsConservative, OwnerSizeInBounds, consumer
<1>3. CallsUnderWay'
  BY SlotWriteApart DEF PushBeginCopy, CallsUnderWay, consumer
<1>4. PublishedSlotsIntact'
  BY SlotWriteApart DEF PushBeginCopy, PublishedSlotsIntact, consumer
<1> QED
  BY <1>1, <1>2, <1>3, <1>4

LEMMA PushEndCopyKeeps ==
  ASSUME RingInv, PushEndCopy
  PROVE  RingInv'
<1> USE DEF RingInv
<1>1. TypeOK'
  BY SlotWriteApart DEF PushEndCopy, TypeOK, consumer
<1>2. SeenIsConservative' /\ OwnerSizeInBounds'
  BY DEF PushEndCopy, SeenIsConservative, OwnerSizeInBounds, consumer
<1>3. CallsUnderWay'
  BY SlotWriteApart DEF PushEndCopy, CallsUnderWay, consumer
<1>4. PublishedSlotsIntact'
  BY SlotWriteApart DEF PushEndCopy, PublishedSlotsIntact, consumer
<1> QED
  BY <1>1, <1>2, <1>3, <1>4

\* Publishing adds the copied event at the end of the published slots.
LEMMA PushStoreKeeps ==
  ASSUME RingInv, PushStore
  PROVE  RingInv'
<1> USE DEF RingInv
<1> DEFINE n == Distance(read_sequence, write_sequence)
<1>1. /\ Distance(p_seen, write_sequence) < Capacity
      /\ n \in Nat /\ n < Capacity
      /\ p_event \in Event /\ buffer[SlotOf(write_sequence)] = p_event
  BY Arcs, WordBounds DEF PushStore, CallsUnderWay
<1>2. /\ write_sequence' \in Sequence
      /\ Distance(read_sequence, write_sequence') = n + 1
      /\ Distance(p_seen, write_sequence') = Distance(p_seen, write_sequence) + 1
  BY <1>1, Arcs, SuccCases, DistanceToSucc, WordBounds DEF PushStore
<1>3. TypeOK'
  BY <1>2 DEF PushStore, TypeOK, consumer
<1>4. SeenIsConservative'
  BY <1>1, <1>2, Arcs, WordBounds DEF PushStore, SeenIsConservative, consumer
<1>5. CallsUnderWay' /\ OwnerSizeInBounds'
  BY DEF PushStore, CallsUnderWay, OwnerSizeInBounds, consumer
<1>6. PublishedSlotsIntact'
  <2>1. (read_sequence + n) % SequenceWord = write_sequence
    BY <1>1, Arcs, StepsOnReach, WordBounds
  <2>2. ASSUME NEW d \in 0 .. n
        PROVE  buffer[SlotOf((read_sequence + d) % SequenceWord)] \in Event
    BY <1>1, <2>1 DEF PublishedSlotsIntact
  <2> QED
    BY <1>1, <1>2, <2>2 DEF PushStore, PublishedSlotsIntact, consumer
<1> QED
  BY <1>3, <1>4, <1>5, <1>6

\* approximate_size() on the producer's thread.
LEMMA ProducerSizeKeeps ==
  ASSUME RingInv, NEW read \in Sequence, ProducerSize(read)
  PROVE  RingInv'
<1> USE DEF RingInv
<1>1. /\ Distance(read, read_sequence) <= Distance(read, write_sequence)
      /\ Distance(read, write_sequence) <= Capacity
      /\ Distance(read, write_sequence) \in Sequence
  BY ProducerLoads DEF ProducerSize
<1>2. TypeOK'
  BY <1>1 DEF ProducerSize, TypeOK, consumer
<1>3. SeenIsConservative' /\ OwnerSizeInBounds'
  BY <1>1 DEF ProducerSize, SeenIsConservative, OwnerSizeInBounds, consumer
<1>4. CallsUnderWay' /\ PublishedSlotsIntact'
  BY DEF ProducerSize, CallsUnderWay, PublishedSlotsIntact, consumer
<1> QED
  BY <1>2, <1>3, <1>4

\* try_pop goes on only if what it saw of the writes is past read_sequence.
LEMMA PopLoadKeeps ==
  ASSUME RingInv, NEW write \in Sequence, PopLoad(write)
  PROVE  RingInv'
<1> USE DEF RingInv
<1>1. Distance(read_sequence, write) <= Distance(read_sequence, write_sequence)
  BY ConsumerLoads DEF PopLoad
<1>2. TypeOK'
  BY DEF PopLoad, TypeOK, producer
<1>3. SeenIsConservative' /\ OwnerSizeInBounds'
  BY <1>1 DEF PopLoad, SeenIsConservative, OwnerSizeInBounds, producer
<1>4. CallsUnderWay' /\ PublishedSlotsIntact'
  BY DEF PopLoad, LooksEmpty, CallsUnderWay, PublishedSlotsIntact, producer
<1> QED
  BY <1>2, <1>3, <1>4

\* The copy out of the slot: no half of it sees the slot change.
LEMMA PopBeginCopyKeeps ==
  ASSUME RingInv, PopBeginCopy
  PROVE  RingInv'
<1> USE DEF RingInv
<1>1. TypeOK'
  BY Arcs, SlotTyping DEF PopBeginCopy, TypeOK, producer
<1>2. SeenIsConservative' /\ OwnerSizeInBounds'
  BY DEF PopBeginCopy, SeenIsConservative, OwnerSizeInBounds, producer
<1>3. CallsUnderWay' /\ PublishedSlotsIntact'
  BY DEF PopBeginCopy, CallsUnderWay, PublishedSlotsIntact, producer
<1> QED
  BY <1>1, <1>2, <1>3

LEMMA PopEndCopyKeeps ==
  ASSUME RingInv, PopEndCopy
  PROVE  RingInv'
<1> USE DEF RingInv
<1>1. out' = out /\ out = buffer[SlotOf(read_sequence)]
  BY DEF PopEndCopy, CallsUnderWay
<1>2. TypeOK'
  BY <1>1 DEF PopEndCopy, TypeOK, producer
<1>3. SeenIsConservative' /\ OwnerSizeInBounds'
  BY DEF PopEndCopy, SeenIsConservative, OwnerSizeInBounds, producer
<1>4. CallsUnderWay' /\ PublishedSlotsIntact'
  BY <1>1 DEF PopEndCopy, CallsUnderWay, PublishedSlotsIntact, producer
<1> QED
  BY <1>2, <1>3, <1>4

\* Giving the oldest slot back leaves the others published.
LEMMA PopStoreKeeps ==
  ASSUME RingInv, PopStore
  PROVE  RingInv'
<1> USE DEF RingInv
<1> DEFINE n == Distance(read_sequence, write_sequence)
<1>1. c_seen # read_sequence /\ n <= Capacity
  BY DEF PopStore, CallsUnderWay, SeenIsConservative
<1>2. 0 < Distance(read_sequence, c_seen) /\ 0 < n /\ n \in Nat /\ read_sequence # write_sequence
  BY <1>1, Arcs, DistanceTyping
<1>3. /\ read_sequence' \in Sequence
      /\ Distance(read_sequence', write_sequence) = n - 1
      /\ Distance(read_sequence', c_seen) = Distance(read_sequence, c_seen) - 1
  BY <1>1, <1>2, Arcs, SuccCases, DistanceFromSucc DEF PopStore
<1>4. Distance(p_seen, read_sequence') = Distance(p_seen, read_sequence) + 1
  <2>1. Distance(p_seen, read_sequence) < Capacity
    BY <1>2, Arcs, WordBounds DEF SeenIsConservative
  <2> QED
    BY <2>1, Arcs, DistanceToSucc, WordBounds DEF PopStore
<1>5. TypeOK'
  BY <1>3 DEF PopStore, TypeOK, producer
<1>6. SeenIsConservative'
  BY <1>2, <1>3, <1>4, Arcs, WordBounds DEF PopStore, SeenIsConservative, producer
<1>7. CallsUnderWay' /\ OwnerSizeInBounds'
  BY DEF PopStore, CallsUnderWay, OwnerSizeInBounds, producer
<1>8. PublishedSlotsIntact'
  <2>1. ASSUME NEW d \in 0 .. (n - 2)
        PROVE  buffer[SlotOf((read_sequence' + d) % SequenceWord)] \in Event
    <3>1. d \in Nat /\ d < SequenceWord - 1 /\ d + 1 \in 0 .. (n - 1)
      BY <1>1, <1>2, WordBounds
    <3>2. (read_sequence' + d) % SequenceWord = (read_sequence + (d + 1)) % SequenceWord
      BY <3>1, Arcs, StepsOnSucc DEF PopStore
    <3> QED
      BY <3>1, <3>2 DEF PublishedSlotsIntact
  <2> QED
    BY <1>2, <1>3, <2>1 DEF PopStore, PublishedSlotsIntact, producer
<1> QED
  BY <1>5, <1>6, <1>7, <1>8

\* approximate_size() on the consumer's thread.
LEMMA ConsumerSizeKeeps ==
  ASSUME RingInv, NEW write \in Sequence, ConsumerSize(write)
  PROVE  RingInv'
<1> USE DEF RingInv
<1>1. /\ Distance(read_sequence, write) <= Distance(read_sequence, write_sequence)
      /\ Distance(read_sequence, write) \in Sequence
      /\ Distance(read_sequence, write_sequence) <= Capacity
  BY ConsumerLoads DEF ConsumerSize, SeenIsConservative
<1>2. TypeOK'
  BY <1>1 DEF ConsumerSize, TypeOK, producer
<1>3. SeenIsConservative'
  BY <1>1 DEF ConsumerSize, SeenIsConservative, producer
<1>4. OwnerSizeInBounds'
  BY <1>1, Arcs, WordBounds DEF ConsumerSize, OwnerSizeInBounds, producer, Sequence
<1>5. CallsUnderWay' /\ PublishedSlotsIntact'
  BY DEF ConsumerSize, CallsUnderWay, PublishedSlotsIntact, producer
<1> QED
  BY <1>2, <1>3, <1>4, <1>5

\* RingInv is inductive.
LEMMA RingStep == RingInv /\ [Next]_vars => RingInv'
<1> SUFFICES ASSUME RingInv, [Next]_vars PROVE RingInv'
  OBVIOUS
<1>1. CASE \E event \in Event, read \in Sequence : PushLoad(event, read)
  BY <1>1, PushLoadKeeps
<1>2. CASE \E read \in Sequence : ProducerSize(read)
  BY <1>2, ProducerSizeKeeps
<1>3. CASE \E write \in Sequence : PopLoad(write) \/ ConsumerSize(write)
  BY <1>3, PopLoadKeeps, ConsumerSizeKeeps
<1>4. CASE PushStep
  BY <1>4, PushBeginCopyKeeps, PushEndCopyKeeps, PushStoreKeeps DEF PushStep
<1>5. CASE PopStep
  BY <1>5, PopBeginCopyKeeps, PopEndCopyKeeps, PopStoreKeeps DEF PopStep
<1>6. CASE UNCHANGED vars
  BY <1>6 DEF vars, producer, consumer, RingInv, TypeOK, SeenIsConservative,
     CallsUnderWay, PublishedSlotsIntact, OwnerSizeInBounds
<1> QED
  BY <1>1, <1>2, <1>3, <1>4, <1>5, <1>6 DEF Next

LEMMA RingInvariant == Spec => []RingInv
BY RingInit, RingStep, PTL DEF Spec

-----------------------------------------------------------------------------
(* The invariants *)

\* A stale acquire load errs on the safe side only, for any capacity and width
\* of the counters, also across their wrap-around.
THEOREM StaleLoadsAreSafe == Spec => []SeenIsConservative
<1>1. RingInv => SeenIsConservative
  BY DEF RingInv
<1> QED
  BY <1>1, RingInvariant, PTL

\* What full() or empty() told a thread holds at its next try_push or try_pop,
\* whatever the other thread did in between and however old the next load is.
THEOREM CheckThenActIsSafe == Spec => []ToldIsReliable
<1>1. RingInv => ToldIsReliable
  <2> SUFFICES ASSUME RingInv PROVE ToldIsReliable
    OBVIOUS
  <2> USE DEF RingInv
  <2>1. ASSUME Distance(p_seen, write_sequence) < Capacity,
               NEW read \in Loadable(p_seen, read_sequence)
        PROVE  ~LooksFull(read)
    <3>1. /\ read \in Sequence
          /\ Distance(p_seen, read) \in Nat
          /\ Distance(read, read_sequence) \in Nat
          /\ Distance(p_seen, read) + Distance(read, read_sequence)
               = Distance(p_seen, read_sequence)
      BY <2>1, Arcs, LoadedBetween, DistanceTyping
    <3>2. /\ Distance(read, read_sequence) + Distance(read_sequence, write_sequence) < Capacity
          /\ Distance(read_sequence, write_sequence) \in Nat
      BY <2>1, <3>1, Arcs, DistanceTyping, WordBounds
    <3>3. Distance(read, write_sequence)
            = Distance(read, read_sequence) + Distance(read_sequence, write_sequence)
      BY <3>1, <3>2, Arcs, DistanceChain, WordBounds
    <3> QED
      BY <3>1, <3>2, <3>3, WordBounds DEF LooksFull
  <2>2. ASSUME c_seen # read_sequence, NEW write \in Loadable(c_seen, write_sequence)
        PROVE  ~LooksEmpty(write)
    <3>1. /\ write \in Sequence
          /\ Distance(c_seen, write) \in Nat
          /\ Distance(write, write_sequence) \in Nat
          /\ Distance(c_seen, write) + Distance(write, write_sequence)
               = Distance(c_seen, write_sequence)
      BY <2>2, Arcs, LoadedBetween, DistanceTyping
    <3>2. Distance(read_sequence, write) = Distance(read_sequence, c_seen) + Distance(c_seen, write)
      BY <3>1, Arcs, DistanceChain, DistanceTyping, WordBounds
    <3>3. Distance(read_sequence, c_seen) > 0
      BY <2>2, Arcs, DistanceTyping
    <3>4. Distance(read_sequence, write) > 0
      BY <3>1, <3>2, <3>3, Arcs, DistanceTyping
    <3> QED
      BY <3>1, <3>4, Arcs, DistanceTyping DEF LooksEmpty
  <2> QED
    BY <2>1, <2>2 DEF ToldIsReliable
<1> QED
  BY <1>1, RingInvariant, PTL

\* try_push never writes the slot that try_pop is reading.
THEOREM NoDataRace == Spec => []NoSlotConflict
<1>1. RingInv => NoSlotConflict
  <2> SUFFICES ASSUME RingInv, p_pc \in {"copy", "copying"}, c_pc \in {"copy", "copying"}
               PROVE  SlotOf(write_sequence) # SlotOf(read_sequence)
    BY DEF NoSlotConflict
  <2>1. Distance(read_sequence, write_sequence) < Capacity /\ c_seen # read_sequence
    BY Arcs, WordBounds DEF RingInv, CallsUnderWay
  <2>2. read_sequence # write_sequence
    BY <2>1, Arcs, DistanceTyping DEF RingInv
  <2> QED
    BY <2>1, <2>2, OldestApart DEF RingInv
<1> QED
  BY <1>1, RingInvariant, PTL

\* Every published slot holds a whole event until try_pop gives it back, and
\* what try_pop is about to return is the event in its slot.
THEOREM EventsArriveWhole == Spec => []PublishedSlotsIntact
<1>1. RingInv => PublishedSlotsIntact
  BY DEF RingInv
<1> QED
  BY <1>1, RingInvariant, PTL

\* approximate_size() called on either thread is never out of 0 .. Capacity.
THEOREM OwnSizeIsSafe == Spec => []OwnerSizeInBounds
<1>1. RingInv => OwnerSizeInBounds
  BY DEF RingInv
<1> QED
  BY <1>1, RingInvariant, PTL

-----------------------------------------------------------------------------
(* The ring implements the bounded queue *)

\* The slots between the sequences, read as a queue.
ContentsShape ==
  /\ Contents \in Seq(Event)
  /\ Len(Contents) = Distance(read_sequence, write_sequence)
  /\ \A i \in 1 .. Len(Contents) :
       Contents[i] = buffer[SlotOf((read_sequence + (i - 1)) % SequenceWord)]

LEMMA ContentsAsSequence == RingInv => ContentsShape
<1> SUFFICES ASSUME RingInv PROVE ContentsShape
  OBVIOUS
<1> DEFINE n == Distance(read_sequence, write_sequence)
<1>1. n \in Nat /\ read_sequence \in Int
  BY Arcs DEF RingInv, Sequence
<1>2. \A i \in 1 .. n : /\ i - 1 \in 0 .. (n - 1)
                        /\ read_sequence + i - 1 = read_sequence + (i - 1)
  BY <1>1
<1>3. \A i \in 1 .. n : /\ Contents[i] = buffer[SlotOf((read_sequence + (i - 1)) % SequenceWord)]
                        /\ Contents[i] \in Event
  BY <1>2 DEF RingInv, PublishedSlotsIntact, Contents
<1>4. Contents \in [1 .. n -> Event]
  BY <1>3 DEF Contents
<1> QED
  BY <1>1, <1>3, <1>4, SeqDef DEF ContentsShape

LEMMA ContentsAsSequenceNext == RingInv' => ContentsShape'
BY ContentsAsSequence, PTL

\* A step that leaves the sequences and the published slots alone leaves the
\* queue as it is.
LEMMA ContentsStutter ==
  ASSUME RingInv, RingInv', UNCHANGED <<write_sequence, read_sequence>>,
         \A d \in 0 .. (Distance(read_sequence, write_sequence) - 1) :
           LET e == (read_sequence + d) % SequenceWord
           IN  buffer'[SlotOf(e)] = buffer[SlotOf(e)]
  PROVE  Contents' = Contents
<1> DEFINE n == Distance(read_sequence, write_sequence)
<1>1. n \in Nat
  BY Arcs DEF RingInv
<1>2. /\ Contents' \in Seq(Event) /\ Len(Contents') = n
      /\ \A i \in 1 .. n :
           Contents'[i] = buffer'[SlotOf((read_sequence + (i - 1)) % SequenceWord)]
  BY ContentsAsSequenceNext DEF ContentsShape
<1>3. \A i \in 1 .. n : i - 1 \in 0 .. (n - 1)
  BY <1>1
<1> HIDE DEF n
<1>4. \A i \in 1 .. n : Contents'[i] = Contents[i]
  BY <1>2, <1>3, ContentsAsSequence DEF n, ContentsShape
<1> QED
  BY <1>2, <1>4, ContentsAsSequence, SeqEqual DEF n, ContentsShape

\* The release store of try_push is the Push of the queue.
LEMMA PushStoreIsPush ==
  ASSUME RingInv, RingInv', PushStore
  PROVE  \E event \in Event : Fifo!Push(event)
<1> DEFINE n == Distance(read_sequence, write_sequence)
<1>1. /\ n \in Nat /\ n < Capacity /\ p_event \in Event
      /\ buffer[SlotOf(write_sequence)] = p_event
  BY Arcs, WordBounds DEF RingInv, PushStore, CallsUnderWay
<1>2. Distance(read_sequence, write_sequence') = n + 1
  BY <1>1, Arcs, DistanceToSucc, WordBounds DEF PushStore, RingInv
<1>3. (read_sequence + n) % SequenceWord = write_sequence
  BY Arcs, StepsOnReach DEF RingInv
<1>4. /\ Contents' \in Seq(Event) /\ Len(Contents') = n + 1
      /\ \A i \in 1 .. (n + 1) :
           Contents'[i] = buffer[SlotOf((read_sequence + (i - 1)) % SequenceWord)]
  BY <1>2, ContentsAsSequenceNext DEF PushStore, ContentsShape
<1>5. /\ Contents \in Seq(Event) /\ Len(Contents) = n
      /\ \A i \in 1 .. n :
           Contents[i] = buffer[SlotOf((read_sequence + (i - 1)) % SequenceWord)]
  BY ContentsAsSequence DEF ContentsShape
<1> DEFINE grown == Append(Contents, p_event)
<1>6. /\ grown \in Seq(Event) /\ Len(grown) = n + 1
      /\ \A i \in 1 .. n : grown[i] = Contents[i]
      /\ grown[n + 1] = p_event
  BY <1>1, <1>5, AppendProperties
<1>7. Contents'[n + 1] = p_event
  <2>1. n + 1 \in 1 .. (n + 1) /\ (n + 1) - 1 = n
    BY <1>1
  <2> QED
    BY <2>1, <1>1, <1>3, <1>4
<1> HIDE DEF n, grown
<1>8. \A i \in 1 .. (n + 1) : Contents'[i] = grown[i]
  <2>1. \A i \in 1 .. (n + 1) : i \in 1 .. n \/ i = n + 1
    BY <1>1
  <2>2. \A i \in 1 .. n : i \in 1 .. (n + 1) /\ Contents'[i] = grown[i]
    <3> SUFFICES ASSUME NEW i \in 1 .. n
                 PROVE  i \in 1 .. (n + 1) /\ Contents'[i] = grown[i]
      OBVIOUS
    <3>1. i \in 1 .. (n + 1)
      BY <1>1
    <3> QED
      BY <3>1, <1>4, <1>5, <1>6
  <2> QED
    BY <2>1, <2>2, <1>6, <1>7
<1>9. Contents' = grown
  BY <1>4, <1>6, <1>8, SeqEqual
<1> QED
  BY <1>1, <1>5, <1>9 DEF Fifo!Push, grown, PushStore, consumer

\* The release store of try_pop is the Pop of the queue: what it returns is
\* the oldest event inside.
LEMMA PopStoreIsPop ==
  ASSUME RingInv, RingInv', PopStore
  PROVE  Fifo!Pop
<1> DEFINE n == Distance(read_sequence, write_sequence)
<1>1. /\ n \in Nat /\ n > 0 /\ n <= Capacity /\ read_sequence # write_sequence
      /\ out = buffer[SlotOf(read_sequence)]
  BY Arcs, DistanceTyping DEF RingInv, PopStore, CallsUnderWay, SeenIsConservative
<1>2. Distance(read_sequence', write_sequence) = n - 1
  BY <1>1, Arcs, DistanceFromSucc DEF PopStore, RingInv
<1>3. (read_sequence + 0) % SequenceWord = read_sequence
  BY Arcs, StepsOnReach, DistanceTyping DEF RingInv
<1>4. /\ Contents' \in Seq(Event) /\ Len(Contents') = n - 1
      /\ \A i \in 1 .. (n - 1) :
           Contents'[i] = buffer[SlotOf((read_sequence' + (i - 1)) % SequenceWord)]
  BY <1>2, ContentsAsSequenceNext DEF PopStore, ContentsShape
<1>5. /\ Contents \in Seq(Event) /\ Len(Contents) = n
      /\ \A i \in 1 .. n :
           Contents[i] = buffer[SlotOf((read_sequence + (i - 1)) % SequenceWord)]
  BY ContentsAsSequence DEF ContentsShape
<1>6. Contents # << >> /\ Head(Contents) = Contents[1]
  BY <1>1, <1>5
<1>7. Head(Contents) = out
  <2>1. 1 \in 1 .. n /\ 1 - 1 = 0
    BY <1>1
  <2> QED
    BY <2>1, <1>1, <1>3, <1>5, <1>6
<1>8. /\ Tail(Contents) \in Seq(Event) /\ Len(Tail(Contents)) = n - 1
      /\ \A i \in 1 .. (n - 1) : Tail(Contents)[i] = Contents[i + 1]
  BY <1>5, <1>6, HeadTailProperties
<1>9. ASSUME NEW i \in 1 .. (n - 1)
      PROVE  Contents'[i] = Tail(Contents)[i]
  <2>1. /\ i - 1 \in Nat /\ i - 1 < SequenceWord - 1
        /\ i + 1 \in 1 .. n /\ (i - 1) + 1 = (i + 1) - 1
    BY <1>1, WordBounds
  <2>2. (read_sequence' + (i - 1)) % SequenceWord
          = (read_sequence + ((i + 1) - 1)) % SequenceWord
    BY <2>1, Arcs, StepsOnSucc DEF PopStore, RingInv
  <2> QED
    BY <2>1, <2>2, <1>4, <1>5, <1>8
<1>10. Contents' = Tail(Contents)
  BY <1>4, <1>8, <1>9, SeqEqual
<1> QED
  BY <1>6, <1>7, <1>10 DEF Fifo!Pop, PopStore

\* Every step of the ring is a step of the queue or leaves it alone.
LEMMA RingStepSimulates ==
  ASSUME RingInv, RingInv', [Next]_vars
  PROVE  [Fifo!Next]_(Fifo!vars)
<1>1. CASE PushStore
  BY <1>1, PushStoreIsPush DEF Fifo!Next
<1>2. CASE PopStore
  BY <1>2, PopStoreIsPop DEF Fifo!Next
<1>3. CASE PushBeginCopy \/ PushEndCopy
  <2>1. Contents' = Contents
    BY <1>3, SlotWriteApart, ContentsStutter DEF PushBeginCopy, PushEndCopy
  <2> QED
    BY <1>3, <2>1 DEF PushBeginCopy, PushEndCopy, consumer, Fifo!vars
<1>4. CASE UNCHANGED <<write_sequence, read_sequence, buffer, received>>
  <2>1. Contents' = Contents
    BY <1>4, ContentsStutter
  <2> QED
    BY <1>4, <2>1 DEF Fifo!vars
<1> QED
  BY <1>1, <1>2, <1>3, <1>4
     DEF Next, PushStep, PopStep, PushLoad, ProducerSize, PopLoad, ConsumerSize,
         PopBeginCopy, PopEndCopy, vars, producer, consumer

\* However the threads interleave and however stale their loads, the ring is
\* a first-in first-out queue of at most Capacity events.
THEOREM RingImplementsFifo == Spec => ImplementsBoundedFifo
<1>1. Init => Fifo!Init
  <2> SUFFICES ASSUME Init PROVE Fifo!Init
    OBVIOUS
  <2>1. Len(Contents) = 0 /\ Contents \in Seq(Event)
    BY RingInit, ContentsAsSequence, Arcs, DistanceTyping DEF Init, RingInv, ContentsShape
  <2>2. Contents = << >>
    BY <2>1, EmptySeq
  <2> QED
    BY <2>2 DEF Init, Fifo!Init
<1>2. RingInv /\ RingInv' /\ [Next]_vars => [Fifo!Next]_(Fifo!vars)
  BY RingStepSimulates
<1> QED
  BY <1>1, <1>2, RingInvariant, PTL DEF Spec, ImplementsBoundedFifo, Fifo!Spec

-----------------------------------------------------------------------------
(* Arithmetic *)

\* A remainder is the only one of its size.
LEMMA RemainderIs ==
  ASSUME NEW m \in Nat \ {0}, NEW q \in Int, NEW r \in 0 .. (m - 1)
  PROVE  (q * m + r) % m = r
<1> DEFINE a == q * m + r
           b == a \div m
<1>1. a \in Int /\ b \in Int /\ a % m \in 0 .. (m - 1) /\ a = b * m + (a % m)
  OBVIOUS
<1>2. (b - q) * m = r - (a % m)
  BY <1>1
<1> DEFINE d == b - q
<1>3. d \in Int /\ -m < d * m /\ d * m < m
  BY <1>1, <1>2
<1> HIDE DEF d
<1>4. d = 0
  <2>1. CASE d >= 1
    BY <2>1, <1>3
  <2>2. CASE d <= -1
    BY <2>2, <1>3
  <2> QED
    BY <1>3, <2>1, <2>2
<1> QED
  BY <1>1, <1>2, <1>4 DEF d

\* A wrapping counter counts: one more, then wrapped, is wrapped, one more and
\* wrapped again.
LEMMA CountOneMore ==
  ASSUME NEW m \in Nat \ {0}, NEW n \in Nat
  PROVE  ((n % m) + 1) % m = (n + 1) % m
<1> DEFINE q == n \div m
           r == n % m
<1>1. q \in Int /\ r \in 0 .. (m - 1) /\ n = q * m + r
  OBVIOUS
<1> HIDE DEF q, r
<1>2. CASE r + 1 < m
  <2>1. n + 1 = q * m + (r + 1) /\ r + 1 \in 0 .. (m - 1)
    BY <1>1, <1>2
  <2>2. (n + 1) % m = r + 1
    BY <1>1, <2>1, RemainderIs
  <2>3. (r + 1) % m = r + 1
    BY <2>1
  <2> QED
    BY <2>2, <2>3 DEF r
<1>3. CASE r + 1 = m
  <2>1. n + 1 = (q + 1) * m + 0 /\ q + 1 \in Int /\ 0 \in 0 .. (m - 1)
    BY <1>1, <1>3
  <2>2. (n + 1) % m = 0
    BY <2>1, RemainderIs
  <2>3. m = 1 * m + 0
    OBVIOUS
  <2>4. m % m = 0
    BY <2>1, <2>3, RemainderIs
  <2> QED
    BY <2>2, <2>4, <1>3 DEF r
<1> QED
  BY <1>1, <1>2, <1>3

\* Where an event of the stream comes from: its cycle and its place there.
LEMMA CyclePlace ==
  ASSUME NEW k \in Nat, NEW j \in 0 .. 2
  PROVE  (3 * k + j) \div 3 = k /\ (3 * k + j) % 3 = j
OBVIOUS

LEMMA PlaceInCycle ==
  ASSUME NEW n \in Nat
  PROVE  \E k \in Nat, j \in 0 .. 2 : n = 3 * k + j /\ k = n \div 3 /\ j = n % 3
OBVIOUS

-----------------------------------------------------------------------------
(* The stream *)

PriceIn(k) == 10000 + (k % 64)

LEMMA StreamLength ==
  /\ EventCount \in Nat
  /\ Len(Direct!make_mixed_stream) = EventCount
<1>1. 3 * Cycles \in Nat /\ EventCount = 3 * Cycles
  BY StreamAssumption
<1> QED
  BY <1>1 DEF Direct!make_mixed_stream

\* The three events of cycle k.
LEMMA StreamEvents ==
  ASSUME NEW k \in Nat, k < Cycles
  PROVE  LET stream == Direct!make_mixed_stream
         IN  /\ stream[3 * k + 1] =
                  [type |-> "Add", timestamp |-> k * 3 + 0, order_id |-> k + 1,
                   side |-> "Buy", price |-> PriceIn(k), quantity |-> 100]
             /\ stream[3 * k + 2] =
                  [type |-> "Execute", timestamp |-> k * 3 + 1, order_id |-> k + 1,
                   side |-> "Buy", price |-> PriceIn(k), quantity |-> 40]
             /\ stream[3 * k + 3] =
                  [type |-> "Cancel", timestamp |-> k * 3 + 2, order_id |-> k + 1,
                   side |-> "Buy", price |-> 0, quantity |-> 0]
<1>1. ASSUME NEW j \in 0 .. 2
      PROVE  Direct!make_mixed_stream[3 * k + (j + 1)] = Direct!Cycle(k)[1 + j]
  <2>1. 3 * k + (j + 1) \in 1 .. 3 * Cycles /\ (3 * k + (j + 1)) - 1 = 3 * k + j
    BY StreamAssumption
  <2> QED
    BY <2>1, CyclePlace DEF Direct!make_mixed_stream
<1>2. 0 \in 0 .. 2 /\ 1 \in 0 .. 2 /\ 2 \in 0 .. 2 /\ 0 + 1 = 1 /\ 1 + 1 = 2 /\ 2 + 1 = 3
      /\ 1 + 0 = 1 /\ 1 + 1 = 2 /\ 1 + 2 = 3
  OBVIOUS
<1>3. LET stream == Direct!make_mixed_stream
      IN  /\ stream[3 * k + 1] = Direct!Cycle(k)[1]
          /\ stream[3 * k + 2] = Direct!Cycle(k)[2]
          /\ stream[3 * k + 3] = Direct!Cycle(k)[3]
  BY <1>1, <1>2
<1> QED
  BY <1>3 DEF Direct!Cycle, PriceIn

-----------------------------------------------------------------------------
(* The book after a number of events of the stream *)

BookEmpty ==
  /\ DOMAIN order_lookup = {}
  /\ DOMAIN levels = {"Buy", "Sell"}
  /\ DOMAIN levels["Buy"] = {} /\ DOMAIN levels["Sell"] = {}

\* The order of cycle k rests alone, with quantity units open.
Resting(k, quantity) ==
  /\ order_lookup = [x \in {k + 1} |->
       [side |-> "Buy", price |-> PriceIn(k), timestamp |-> k * 3,
        quantity |-> quantity, iterator |-> k + 1]]
  /\ DOMAIN levels = {"Buy", "Sell"}
  /\ DOMAIN levels["Buy"] = {PriceIn(k)} /\ DOMAIN levels["Sell"] = {}
  /\ levels["Buy"][PriceIn(k)].orders =
       <<[order_id |-> k + 1, timestamp |-> k * 3, quantity |-> quantity]>>

BookAfter(n) ==
  \A k \in Nat : /\ n = 3 * k     => BookEmpty
                 /\ n = 3 * k + 1 => Resting(k, 100)
                 /\ n = 3 * k + 2 => Resting(k, 60)

\* Adding the order of cycle k to the empty book.
LEMMA AddInCycle ==
  ASSUME NEW k \in Nat, BookEmpty,
         Direct!add_order(k + 1, "Buy", PriceIn(k), 100, k * 3 + 0)
  PROVE  Direct!Applied /\ Resting(k, 100)'
<1>1. Direct!InsertOrder(k + 1, "Buy", PriceIn(k), 100, k * 3) /\ Direct!Applied
  BY DEF Direct!add_order, BookEmpty
<1>2. order_lookup' = [x \in {k + 1} |->
       [side |-> "Buy", price |-> PriceIn(k), timestamp |-> k * 3,
        quantity |-> 100, iterator |-> k + 1]]
  BY <1>1 DEF Direct!InsertOrder, Direct!Put, BookEmpty
<1>3. /\ DOMAIN levels' = {"Buy", "Sell"}
      /\ levels'["Sell"] = levels["Sell"]
      /\ levels'["Buy"] = [p \in {PriceIn(k)} |-> Direct!PushBack(Direct!EmptyLevel,
           [order_id |-> k + 1, timestamp |-> k * 3, quantity |-> 100])]
  BY <1>1 DEF Direct!InsertOrder, Direct!Put, BookEmpty, Direct!LevelAt
<1>4. levels'["Buy"][PriceIn(k)].orders =
        <<[order_id |-> k + 1, timestamp |-> k * 3, quantity |-> 100]>>
  BY <1>3 DEF Direct!PushBack, Direct!EmptyLevel
<1> QED
  BY <1>1, <1>2, <1>3, <1>4 DEF Resting, BookEmpty

LEMMA PositionOfOnly ==
  ASSUME NEW e
  PROVE  Direct!PositionOf(<<e>>, e.order_id) = 1
BY DEF Direct!PositionOf

LEMMA ResizeOnly ==
  ASSUME NEW id, NEW r, NEW quantity
  PROVE  [[x \in {id} |-> r] EXCEPT ![id].quantity = quantity]
           = [x \in {id} |-> [r EXCEPT !.quantity = quantity]]
BY Zenon

\* Executing part of it.
LEMMA ExecuteInCycle ==
  ASSUME NEW k \in Nat, Resting(k, 100), Direct!execute_order(k + 1, 40)
  PROVE  Direct!Applied /\ Resting(k, 60)'
<1> DEFINE e == [order_id |-> k + 1, timestamp |-> k * 3, quantity |-> 100]
           f == [order_id |-> k + 1, timestamp |-> k * 3, quantity |-> 60]
<1>1. k + 1 \in DOMAIN order_lookup /\ order_lookup[k + 1].quantity = 100
  BY DEF Resting
<1>2. Direct!ReduceTo(k + 1, 40, 60) /\ Direct!Applied
  BY <1>1 DEF Direct!execute_order
<1>3. order_lookup' = [x \in {k + 1} |->
       [side |-> "Buy", price |-> PriceIn(k), timestamp |-> k * 3,
        quantity |-> 60, iterator |-> k + 1]]
  <2>1. order_lookup' = [order_lookup EXCEPT ![k + 1].quantity = 60]
    BY <1>2, Zenon DEF Direct!ReduceTo
  <2> DEFINE r == [side |-> "Buy", price |-> PriceIn(k), timestamp |-> k * 3,
                   quantity |-> 100, iterator |-> k + 1]
  <2>2. [r EXCEPT !.quantity = 60] =
          [side |-> "Buy", price |-> PriceIn(k), timestamp |-> k * 3,
           quantity |-> 60, iterator |-> k + 1]
    OBVIOUS
  <2>3. order_lookup = [x \in {k + 1} |-> r]
    BY DEF Resting
  <2>4. order_lookup' = [x \in {k + 1} |-> [r EXCEPT !.quantity = 60]]
    <3> HIDE DEF r
    <3> QED
      BY <2>1, <2>3, ResizeOnly
  <2> QED
    BY <2>2, <2>4
<1>4. /\ order_lookup[k + 1].side = "Buy" /\ order_lookup[k + 1].price = PriceIn(k)
      /\ order_lookup[k + 1].iterator = k + 1
      /\ levels["Buy"][PriceIn(k)].orders = <<e>>
  BY DEF Resting
<1>5. Direct!PositionOf(<<e>>, k + 1) = 1
  BY PositionOfOnly
<1>6. [<<e>> EXCEPT ![1].quantity = 60] = <<f>>
  OBVIOUS
<1>7. /\ DOMAIN levels' = {"Buy", "Sell"}
      /\ levels'["Sell"] = levels["Sell"]
      /\ DOMAIN levels'["Buy"] = DOMAIN levels["Buy"]
      /\ levels'["Buy"][PriceIn(k)].orders = [<<e>> EXCEPT ![1].quantity = 60]
  BY <1>2, <1>4, <1>5 DEF Direct!ReduceTo, Resting
<1> QED
  BY <1>2, <1>3, <1>6, <1>7 DEF Resting

LEMMA RemoveOnly ==
  ASSUME NEW e
  PROVE  Direct!RemoveAt(<<e>>, 1) = << >>
BY DEF Direct!RemoveAt

\* Cancelling what is left of it.
LEMMA CancelInCycle ==
  ASSUME NEW k \in Nat, Resting(k, 60), Direct!cancel_order(k + 1)
  PROVE  Direct!Applied /\ BookEmpty'
<1> DEFINE e == [order_id |-> k + 1, timestamp |-> k * 3, quantity |-> 60]
<1>1. /\ k + 1 \in DOMAIN order_lookup /\ DOMAIN order_lookup = {k + 1}
      /\ order_lookup[k + 1].side = "Buy" /\ order_lookup[k + 1].price = PriceIn(k)
      /\ order_lookup[k + 1].iterator = k + 1
      /\ levels["Buy"][PriceIn(k)].orders = <<e>>
  BY DEF Resting
<1>2. Direct!remove_existing_order(k + 1) /\ Direct!Applied
  BY <1>1 DEF Direct!cancel_order
<1>3. DOMAIN order_lookup' = {}
  BY <1>1, <1>2 DEF Direct!remove_existing_order, Direct!Drop
<1>4. Direct!PositionOf(<<e>>, k + 1) = 1
  BY PositionOfOnly
<1>5. Direct!EraseFrom(levels["Buy"], order_lookup[k + 1]) = Direct!Drop(levels["Buy"], PriceIn(k))
  BY <1>1, <1>4, RemoveOnly DEF Direct!EraseFrom
<1>6. /\ DOMAIN levels' = {"Buy", "Sell"}
      /\ levels'["Sell"] = levels["Sell"]
      /\ levels'["Buy"] = Direct!Drop(levels["Buy"], PriceIn(k))
  BY <1>1, <1>2, <1>5 DEF Direct!remove_existing_order, Resting
<1> QED
  BY <1>2, <1>3, <1>6 DEF Direct!Drop, Resting, BookEmpty

-----------------------------------------------------------------------------
(* The inductive invariant *)

\* Events taken out of the ring in this pass.
Popped == IF holding THEN consumed + 1 ELSE consumed

\* The loops of both threads and what is between them: the ring holds, in
\* order, the events pushed and not popped, each call works on the next event.
InTransit ==
  /\ sent \in 0 .. EventCount /\ consumed \in 0 .. EventCount /\ holding \in BOOLEAN
  /\ sent = Popped + Distance(read_sequence, write_sequence)
  /\ \A d \in 0 .. (Distance(read_sequence, write_sequence) - 1) :
       buffer[SlotOf((read_sequence + d) % SequenceWord)] = Popped + d + 1
  /\ p_pc # "idle" => sent < EventCount /\ p_event = sent + 1
  /\ c_pc # "idle" => ~holding
  /\ Popped > 0 => received = Popped

\* The sequences count the events of all passes.
PassesCounted ==
  /\ pass \in Nat \ {0}
  /\ write_sequence = ((pass - 1) * EventCount + sent) % SequenceWord

\* The book is the one direct replay has after as many events.
BookOnTrack ==
  /\ failed = FALSE
  /\ BookAfter(consumed)
  /\ events_applied = consumed % Word

QueuedInv == RingInv /\ InTransit /\ PassesCounted /\ BookOnTrack

LEMMA QueuedInvInitially == QueuedInit => QueuedInv
<1> SUFFICES ASSUME QueuedInit PROVE QueuedInv
  OBVIOUS
<1>1. RingInv /\ Distance(read_sequence, write_sequence) = 0
  BY RingInit, Arcs, DistanceTyping DEF QueuedInit, Init, RingInv
<1>2. InTransit
  <2>1. /\ sent = 0 /\ consumed = 0 /\ holding = FALSE /\ p_pc = "idle" /\ c_pc = "idle"
        /\ Popped = 0
    BY DEF QueuedInit, Init, Direct!DirectInit, Popped
  <2>2. 0 \in 0 .. EventCount /\ 0 .. (0 - 1) = {} /\ 0 = 0 + 0 /\ ~(0 > 0)
    BY StreamLength
  <2> QED
    BY <1>1, <2>1, <2>2 DEF InTransit
<1>3. PassesCounted
  <2>1. (1 - 1) * EventCount + 0 = 0 /\ 0 % SequenceWord = 0
    BY StreamLength, WordBounds
  <2> QED
    BY <2>1 DEF QueuedInit, Init, Direct!DirectInit, PassesCounted
<1>4. BookEmpty
  BY DEF QueuedInit, Direct!DirectInit, Direct!Init, Direct!NoEntries, Direct!Side, BookEmpty
<1>5. BookOnTrack
  <2>1. 0 % Word = 0
    BY CounterAssumption
  <2>2. \A k \in Nat : 0 # 3 * k + 1 /\ 0 # 3 * k + 2
    OBVIOUS
  <2> QED
    BY <1>4, <2>1, <2>2 DEF QueuedInit, Direct!DirectInit, Direct!Init, BookOnTrack, BookAfter
<1> QED
  BY <1>1, <1>2, <1>3, <1>5 DEF QueuedInv

\* Steps that leave the book and the loops' counters alone keep the last two.
LEMMA ElsewhereKeeps ==
  ASSUME PassesCounted, BookOnTrack, UNCHANGED <<write_sequence, book, driver>>
  PROVE  PassesCounted' /\ BookOnTrack'
BY DEF PassesCounted, BookOnTrack, book, driver, BookAfter, BookEmpty, Resting

LEMMA ProducerLoadKeeps ==
  ASSUME QueuedInv, NEW read \in Sequence, ProducerLoad(read)
  PROVE  QueuedInv'
<1>1. sent + 1 \in Event
  BY StreamAssumption, StreamLength DEF ProducerLoad, QueuedInv, InTransit
<1>2. RingInv'
  BY <1>1, PushLoadKeeps DEF ProducerLoad, QueuedInv
<1>3. InTransit'
  BY DEF ProducerLoad, PushLoad, consumer, driver, QueuedInv, InTransit, Popped
<1>4. PassesCounted' /\ BookOnTrack'
  BY ElsewhereKeeps DEF ProducerLoad, PushLoad, QueuedInv
<1> QED
  BY <1>2, <1>3, <1>4 DEF QueuedInv

LEMMA ProducerCopyKeeps ==
  ASSUME QueuedInv, ProducerCopy
  PROVE  QueuedInv'
<1>1. RingInv'
  BY PushBeginCopyKeeps, PushEndCopyKeeps DEF ProducerCopy, QueuedInv
<1>2. InTransit'
  <2>1. \A d \in 0 .. (Distance(read_sequence, write_sequence) - 1) :
          LET e == (read_sequence + d) % SequenceWord
          IN  buffer'[SlotOf(e)] = buffer[SlotOf(e)]
    BY SlotWriteApart DEF ProducerCopy, PushBeginCopy, PushEndCopy, QueuedInv
  <2> QED
    BY <2>1 DEF ProducerCopy, PushBeginCopy, PushEndCopy, consumer, driver,
                QueuedInv, InTransit, Popped
<1>3. PassesCounted' /\ BookOnTrack'
  BY ElsewhereKeeps DEF ProducerCopy, PushBeginCopy, PushEndCopy, QueuedInv
<1> QED
  BY <1>1, <1>2, <1>3 DEF QueuedInv

\* The release store of try_push: the ring holds one event more, the next one.
LEMMA ProducerStoreKeeps ==
  ASSUME QueuedInv, ProducerStore
  PROVE  QueuedInv'
<1> DEFINE n == Distance(read_sequence, write_sequence)
<1>1. RingInv'
  BY PushStoreKeeps DEF ProducerStore, QueuedInv
<1>2. /\ n \in Nat /\ n < Capacity
      /\ buffer[SlotOf(write_sequence)] = sent + 1 /\ sent < EventCount
  BY Arcs, WordBounds DEF QueuedInv, RingInv, ProducerStore, PushStore, CallsUnderWay, InTransit
<1>3. Distance(read_sequence, write_sequence') = n + 1
  BY <1>2, Arcs, DistanceToSucc, WordBounds DEF ProducerStore, PushStore, QueuedInv, RingInv
<1>4. (read_sequence + n) % SequenceWord = write_sequence
  BY Arcs, StepsOnReach DEF QueuedInv, RingInv
<1>5. /\ sent = Popped + n /\ Popped \in Nat /\ sent \in Nat
      /\ \A d \in 0 .. (n - 1) :
           buffer[SlotOf((read_sequence + d) % SequenceWord)] = Popped + d + 1
  BY StreamLength DEF QueuedInv, InTransit, Popped
<1> HIDE DEF n
<1>6. \A d \in 0 .. n :
        buffer[SlotOf((read_sequence + d) % SequenceWord)] = Popped + d + 1
  BY <1>2, <1>4, <1>5
<1>7. Popped' = Popped /\ UNCHANGED <<read_sequence, buffer, c_pc, holding, received, consumed>>
      /\ sent' = sent + 1 /\ p_pc' = "idle"
  BY DEF ProducerStore, PushStore, consumer, Popped
<1>8. InTransit'
  <2>1. sent' \in 0 .. EventCount /\ sent' = Popped' + (n + 1) /\ (n + 1) - 1 = n
    BY <1>2, <1>5, <1>7, StreamLength
  <2>2. Distance(read_sequence', write_sequence') = n + 1
    BY <1>3, <1>7
  <2>3. \A d \in 0 .. (Distance(read_sequence', write_sequence') - 1) :
          buffer'[SlotOf((read_sequence' + d) % SequenceWord)] = Popped' + d + 1
    BY <2>1, <2>2, <1>6, <1>7
  <2>4. consumed \in 0 .. EventCount /\ holding \in BOOLEAN /\ (c_pc # "idle" => ~holding)
        /\ (Popped > 0 => received = Popped)
    BY DEF QueuedInv, InTransit
  <2> QED
    BY <2>1, <2>2, <2>3, <2>4, <1>7 DEF InTransit
<1>9. PassesCounted'
  <2> DEFINE m == (pass - 1) * EventCount + sent
  <2>1. pass - 1 \in Nat /\ (pass - 1) * EventCount \in Nat
    BY StreamLength DEF QueuedInv, PassesCounted
  <2>2. m \in Nat /\ (pass - 1) * EventCount + (sent + 1) = m + 1
    BY <2>1, <1>5
  <2>3. write_sequence = m % SequenceWord
    BY DEF QueuedInv, PassesCounted
  <2> HIDE DEF m
  <2>4. write_sequence' = (m + 1) % SequenceWord
    <3>1. SequenceWord \in Nat \ {0} /\ write_sequence' = (write_sequence + 1) % SequenceWord
      BY WordBounds DEF ProducerStore, PushStore, Succ
    <3> QED
      BY <3>1, <2>2, <2>3, CountOneMore
  <2> QED
    BY <2>2, <2>4, <1>7 DEF ProducerStore, QueuedInv, PassesCounted
<1>10. BookOnTrack'
  BY <1>7 DEF ProducerStore, book, QueuedInv, BookOnTrack, BookAfter, BookEmpty, Resting
<1> QED
  BY <1>1, <1>8, <1>9, <1>10 DEF QueuedInv

LEMMA ConsumerLoadKeeps ==
  ASSUME QueuedInv, NEW write \in Sequence, ConsumerLoad(write)
  PROVE  QueuedInv'
<1>1. RingInv'
  BY PopLoadKeeps DEF ConsumerLoad, QueuedInv
<1>2. InTransit'
  BY DEF ConsumerLoad, PopLoad, producer, driver, QueuedInv, InTransit, Popped
<1>3. PassesCounted' /\ BookOnTrack'
  BY ElsewhereKeeps DEF ConsumerLoad, PopLoad, QueuedInv
<1> QED
  BY <1>1, <1>2, <1>3 DEF QueuedInv

LEMMA ConsumerCopyKeeps ==
  ASSUME QueuedInv, ConsumerCopy
  PROVE  QueuedInv'
<1>1. RingInv'
  BY PopBeginCopyKeeps, PopEndCopyKeeps DEF ConsumerCopy, QueuedInv
<1>2. InTransit'
  BY DEF ConsumerCopy, PopBeginCopy, PopEndCopy, producer, driver, QueuedInv, InTransit, Popped
<1>3. PassesCounted' /\ BookOnTrack'
  BY ElsewhereKeeps DEF ConsumerCopy, PopBeginCopy, PopEndCopy, QueuedInv
<1> QED
  BY <1>1, <1>2, <1>3 DEF QueuedInv

\* The release store of try_pop: the consumer has got the next event.
LEMMA ConsumerStoreKeeps ==
  ASSUME QueuedInv, ConsumerStore
  PROVE  QueuedInv'
<1> DEFINE n == Distance(read_sequence, write_sequence)
<1>1. RingInv'
  BY PopStoreKeeps DEF ConsumerStore, QueuedInv
<1>2. /\ n \in Nat /\ n > 0 /\ n <= Capacity /\ read_sequence # write_sequence
      /\ received' = buffer[SlotOf(read_sequence)] /\ holding = FALSE
  BY Arcs, DistanceTyping
     DEF QueuedInv, RingInv, ConsumerStore, PopStore, CallsUnderWay, SeenIsConservative, InTransit
<1>3. /\ Distance(read_sequence', write_sequence) = n - 1
      /\ (read_sequence + 0) % SequenceWord = read_sequence
  BY <1>2, Arcs, DistanceFromSucc, StepsOnReach, DistanceTyping
     DEF ConsumerStore, PopStore, QueuedInv, RingInv
<1>4. /\ sent = Popped + n /\ Popped = consumed /\ sent \in 0 .. EventCount
      /\ consumed \in 0 .. EventCount /\ consumed \in Nat
      /\ \A d \in 0 .. (n - 1) :
           buffer[SlotOf((read_sequence + d) % SequenceWord)] = Popped + d + 1
      /\ p_pc # "idle" => sent < EventCount /\ p_event = sent + 1
  BY <1>2, StreamLength DEF QueuedInv, InTransit, Popped
<1>5. /\ UNCHANGED <<write_sequence, buffer, p_pc, p_event, sent, consumed>>
      /\ c_pc' = "idle" /\ holding' = TRUE /\ Popped' = consumed + 1
  BY DEF ConsumerStore, PopStore, producer, Popped
<1> HIDE DEF n
<1>6. received' = Popped'
  <2>1. 0 \in 0 .. (n - 1) /\ Popped + 0 + 1 = consumed + 1
    BY <1>2, <1>4
  <2> QED
    BY <2>1, <1>2, <1>3, <1>4, <1>5
<1>7. ASSUME NEW d \in 0 .. ((n - 1) - 1)
      PROVE  buffer'[SlotOf((read_sequence' + d) % SequenceWord)] = Popped' + d + 1
  <2>1. /\ d \in Nat /\ d < SequenceWord - 1 /\ d + 1 \in 0 .. (n - 1)
        /\ Popped + (d + 1) + 1 = (consumed + 1) + d + 1
    BY <1>2, <1>4, WordBounds
  <2>2. (read_sequence' + d) % SequenceWord = (read_sequence + (d + 1)) % SequenceWord
    BY <2>1, Arcs, StepsOnSucc DEF ConsumerStore, PopStore, QueuedInv, RingInv
  <2> QED
    BY <2>1, <2>2, <1>4, <1>5
<1>8. InTransit'
  <2>1. sent' = Popped' + (n - 1) /\ Distance(read_sequence', write_sequence') = n - 1
    BY <1>2, <1>3, <1>4, <1>5
  <2> QED
    BY <2>1, <1>4, <1>5, <1>6, <1>7 DEF InTransit
<1>9. PassesCounted' /\ BookOnTrack'
  BY DEF ConsumerStore, PopStore, book, QueuedInv, PassesCounted, BookOnTrack,
         BookAfter, BookEmpty, Resting
<1> QED
  BY <1>1, <1>8, <1>9 DEF QueuedInv

\* The event applied is the next of the stream, and the book accepts it.
LEMMA ApplyOnTrack ==
  ASSUME QueuedInv, ConsumerApply
  PROVE  /\ received = consumed + 1 /\ consumed < EventCount
         /\ Direct!Applied /\ BookAfter(consumed)'
<1>1. /\ received = consumed + 1 /\ consumed < EventCount /\ consumed \in Nat
      /\ Direct!apply(Direct!make_mixed_stream[consumed + 1])
  <2>1. /\ holding /\ Popped = consumed + 1 /\ consumed \in Nat
        /\ sent = Popped + Distance(read_sequence, write_sequence)
        /\ Distance(read_sequence, write_sequence) \in Nat /\ sent <= EventCount
        /\ Popped > 0 => received = Popped
    BY Arcs, StreamLength DEF ConsumerApply, QueuedInv, InTransit, RingInv, Popped
  <2>2. received = consumed + 1 /\ consumed < EventCount
    BY <2>1, StreamLength
  <2> QED
    BY <2>1, <2>2 DEF ConsumerApply
<1>2. PICK k \in Nat, j \in 0 .. 2 : consumed = 3 * k + j
  BY <1>1, PlaceInCycle
<1>3. k < Cycles
  BY <1>1, <1>2, StreamAssumption
<1>4. BookAfter(consumed)
  BY DEF QueuedInv, BookOnTrack
<1>5. consumed' = consumed + 1
  BY DEF ConsumerApply
<1> DEFINE event == Direct!make_mixed_stream[consumed + 1]
<1>6. /\ j = 0 => event = [type |-> "Add", timestamp |-> k * 3 + 0, order_id |-> k + 1,
                          side |-> "Buy", price |-> PriceIn(k), quantity |-> 100]
      /\ j = 1 => event = [type |-> "Execute", timestamp |-> k * 3 + 1, order_id |-> k + 1,
                          side |-> "Buy", price |-> PriceIn(k), quantity |-> 40]
      /\ j = 2 => event = [type |-> "Cancel", timestamp |-> k * 3 + 2, order_id |-> k + 1,
                          side |-> "Buy", price |-> 0, quantity |-> 0]
  <2>1. /\ j = 0 => consumed + 1 = 3 * k + 1
        /\ j = 1 => consumed + 1 = 3 * k + 2
        /\ j = 2 => consumed + 1 = 3 * k + 3
    BY <1>2
  <2> QED
    BY <2>1, <1>3, StreamEvents, Zenon
<1>7. Direct!apply(event)
  BY <1>1
<1> HIDE DEF event
<1>8. CASE j = 0
  <2>1. Direct!add_order(k + 1, "Buy", PriceIn(k), 100, k * 3 + 0)
    BY <1>6, <1>7, <1>8 DEF Direct!apply
  <2>2. Direct!Applied /\ Resting(k, 100)'
    BY <2>1, <1>2, <1>4, <1>8, AddInCycle DEF BookAfter
  <2>3. \A i \in Nat : /\ consumed' # 3 * i /\ consumed' # 3 * i + 2
                       /\ consumed' = 3 * i + 1 => i = k
    BY <1>2, <1>5, <1>8
  <2> QED
    BY <2>2, <2>3, <1>1 DEF BookAfter
<1>9. CASE j = 1
  <2>1. Direct!execute_order(k + 1, 40)
    BY <1>6, <1>7, <1>9 DEF Direct!apply
  <2>2. Direct!Applied /\ Resting(k, 60)'
    BY <2>1, <1>2, <1>4, <1>9, ExecuteInCycle DEF BookAfter
  <2>3. \A i \in Nat : /\ consumed' # 3 * i /\ consumed' # 3 * i + 1
                       /\ consumed' = 3 * i + 2 => i = k
    BY <1>2, <1>5, <1>9
  <2> QED
    BY <2>2, <2>3, <1>1 DEF BookAfter
<1>10. CASE j = 2
  <2>1. Direct!cancel_order(k + 1)
    BY <1>6, <1>7, <1>10 DEF Direct!apply
  <2>2. Direct!Applied /\ BookEmpty'
    BY <2>1, <1>2, <1>4, <1>10, CancelInCycle DEF BookAfter
  <2>3. \A i \in Nat : consumed' # 3 * i + 1 /\ consumed' # 3 * i + 2
    BY <1>2, <1>5, <1>10
  <2> QED
    BY <2>2, <2>3, <1>1 DEF BookAfter
<1> QED
  BY <1>8, <1>9, <1>10

LEMMA ConsumerApplyKeeps ==
  ASSUME QueuedInv, ConsumerApply
  PROVE  QueuedInv'
<1>1. RingInv'
  BY DEF ConsumerApply, vars, producer, consumer, QueuedInv, RingInv, TypeOK,
         SeenIsConservative, CallsUnderWay, PublishedSlotsIntact, OwnerSizeInBounds
<1>2. InTransit'
  <2>1. /\ consumed' = consumed + 1 /\ consumed < EventCount /\ consumed \in 0 .. EventCount
        /\ holding = TRUE /\ holding' = FALSE
    BY ApplyOnTrack DEF ConsumerApply, QueuedInv, InTransit
  <2>2. Popped' = Popped /\ consumed' \in 0 .. EventCount
    BY <2>1, StreamLength DEF Popped
  <2> QED
    BY <2>1, <2>2 DEF ConsumerApply, vars, producer, consumer, QueuedInv, InTransit
<1>3. PassesCounted'
  BY DEF ConsumerApply, vars, QueuedInv, PassesCounted
<1>4. BookOnTrack'
  <2>1. /\ result' = "Applied" /\ events_applied' = (events_applied + 1) % Word
        /\ BookAfter(consumed)' /\ consumed' = consumed + 1
    BY ApplyOnTrack DEF Direct!Applied, Direct!Plus, ConsumerApply
  <2>2. failed' = FALSE
    BY <2>1 DEF ConsumerApply, QueuedInv, BookOnTrack
  <2>3. events_applied' = (consumed + 1) % Word
    <3>1. consumed \in Nat /\ events_applied = consumed % Word /\ Word \in Nat \ {0}
      BY StreamLength, CounterAssumption DEF QueuedInv, InTransit, BookOnTrack
    <3> QED
      BY <2>1, <3>1, CountOneMore
  <2> QED
    BY <2>1, <2>2, <2>3 DEF BookOnTrack
<1> QED
  BY <1>1, <1>2, <1>3, <1>4 DEF QueuedInv

\* Once both loops are done the ring is empty and both threads know it.
LEMMA JoinedMeansDrained ==
  ASSUME QueuedInv, Joined
  PROVE  /\ holding = FALSE /\ p_pc = "idle" /\ c_pc = "idle"
         /\ write_sequence = read_sequence /\ c_seen = write_sequence
         /\ write_sequence = (pass * EventCount) % SequenceWord
<1>1. /\ sent = EventCount /\ consumed = EventCount /\ holding \in BOOLEAN
      /\ sent = Popped + Distance(read_sequence, write_sequence)
      /\ Distance(read_sequence, write_sequence) \in Nat
      /\ p_pc # "idle" => sent < EventCount
      /\ Distance(read_sequence, write_sequence)
           = Distance(read_sequence, c_seen) + Distance(c_seen, write_sequence)
      /\ Distance(read_sequence, c_seen) \in Nat /\ Distance(c_seen, write_sequence) \in Nat
  BY Arcs DEF Joined, QueuedInv, InTransit, RingInv
<1>2. /\ holding = FALSE /\ Distance(read_sequence, write_sequence) = 0 /\ p_pc = "idle"
      /\ Distance(read_sequence, c_seen) = 0
  <2> DEFINE n == Distance(read_sequence, write_sequence)
  <2>1. n \in Nat /\ EventCount \in Nat /\ EventCount = Popped + n /\ ~(EventCount < EventCount)
    BY <1>1, StreamLength
  <2>2. p_pc = "idle"
    BY <1>1, <2>1
  <2>3. Popped # EventCount + 1
    BY <2>1
  <2>4. holding = FALSE
    BY <2>3, <1>1 DEF Popped
  <2>5. n = 0
    BY <2>1, <2>4, <1>1 DEF Popped
  <2>6. Distance(read_sequence, c_seen) = 0
    BY <2>5, <1>1
  <2> QED
    BY <2>2, <2>4, <2>5, <2>6
<1>3. read_sequence = write_sequence /\ read_sequence = c_seen
  BY <1>2, Arcs, DistanceTyping DEF QueuedInv, RingInv
<1>4. c_pc = "idle"
  BY <1>3 DEF QueuedInv, RingInv, CallsUnderWay
<1>5. (pass - 1) * EventCount + EventCount = pass * EventCount
  BY StreamLength DEF QueuedInv, PassesCounted
<1>6. write_sequence = (pass * EventCount) % SequenceWord
  BY <1>1, <1>5 DEF QueuedInv, PassesCounted
<1> QED
  BY <1>2, <1>3, <1>4, <1>6

LEMMA NextPassKeeps ==
  ASSUME QueuedInv, NextPass
  PROVE  QueuedInv'
<1>1. /\ holding = FALSE /\ p_pc = "idle" /\ c_pc = "idle" /\ Joined
      /\ write_sequence = read_sequence /\ write_sequence \in Sequence
      /\ write_sequence = (pass * EventCount) % SequenceWord
      /\ Distance(read_sequence, write_sequence) = 0
  BY JoinedMeansDrained, Arcs, DistanceTyping DEF NextPass, QueuedInv, RingInv
<1>2. RingInv'
  <2>1. TypeOK' /\ OwnerSizeInBounds'
    BY <1>1 DEF NextPass, QueuedInv, RingInv, TypeOK, OwnerSizeInBounds
  <2>2. SeenIsConservative'
    <3>1. 0 <= 0 /\ 0 <= Capacity
      BY WordBounds
    <3> QED
      BY <1>1, <3>1 DEF NextPass, SeenIsConservative
  <2>3. CallsUnderWay'
    BY <1>1 DEF NextPass, QueuedInv, RingInv, CallsUnderWay
  <2>4. PublishedSlotsIntact'
    BY DEF NextPass, QueuedInv, RingInv, PublishedSlotsIntact
  <2> QED
    BY <2>1, <2>2, <2>3, <2>4 DEF RingInv
<1>3. InTransit'
  <2>1. /\ sent' = 0 /\ consumed' = 0 /\ holding' = FALSE /\ p_pc' = "idle" /\ c_pc' = "idle"
        /\ Popped' = 0 /\ Distance(read_sequence', write_sequence') = 0
    BY <1>1 DEF NextPass, Popped
  <2>2. 0 \in 0 .. EventCount /\ 0 .. (0 - 1) = {} /\ 0 = 0 + 0 /\ ~(0 > 0)
    BY StreamLength
  <2> QED
    BY <2>1, <2>2 DEF InTransit
<1>4. PassesCounted'
  <2>1. pass \in Nat \ {0} /\ pass' = pass + 1 /\ sent' = 0 /\ write_sequence' = write_sequence
    BY DEF NextPass, QueuedInv, PassesCounted
  <2>2. (pass' - 1) * EventCount + sent' = pass * EventCount /\ pass' \in Nat \ {0}
    BY <2>1, StreamLength
  <2> QED
    BY <2>1, <2>2, <1>1 DEF PassesCounted
<1>5. BookOnTrack'
  <2>1. BookEmpty'
    BY DEF NextPass, Direct!clear, Direct!NoEntries, Direct!Side, BookEmpty
  <2>2. 0 % Word = 0 /\ \A k \in Nat : 0 # 3 * k + 1 /\ 0 # 3 * k + 2
    BY CounterAssumption
  <2> QED
    BY <2>1, <2>2 DEF NextPass, Direct!clear, QueuedInv, BookOnTrack, BookAfter
<1> QED
  BY <1>2, <1>3, <1>4, <1>5 DEF QueuedInv

\* QueuedInv is inductive.
LEMMA QueuedStep == QueuedInv /\ [QueuedNext]_queuedVars => QueuedInv'
<1> SUFFICES ASSUME QueuedInv, [QueuedNext]_queuedVars PROVE QueuedInv'
  OBVIOUS
<1>1. CASE UNCHANGED queuedVars
  <2>1. RingInv'
    BY <1>1 DEF queuedVars, vars, producer, consumer, QueuedInv, RingInv, TypeOK,
           SeenIsConservative, CallsUnderWay, PublishedSlotsIntact, OwnerSizeInBounds
  <2>2. InTransit'
    BY <1>1 DEF queuedVars, vars, producer, consumer, driver, QueuedInv, InTransit, Popped
  <2>3. PassesCounted' /\ BookOnTrack'
    BY <1>1, ElsewhereKeeps DEF queuedVars, vars, QueuedInv
  <2> QED
    BY <2>1, <2>2, <2>3 DEF QueuedInv
<1> QED
  BY <1>1, ProducerLoadKeeps, ProducerCopyKeeps, ProducerStoreKeeps, ConsumerLoadKeeps,
     ConsumerCopyKeeps, ConsumerStoreKeeps, ConsumerApplyKeeps, NextPassKeeps
     DEF QueuedNext, Ended

LEMMA QueuedInvariant == QueuedSpec => []QueuedInv
BY QueuedInvInitially, QueuedStep, PTL DEF QueuedSpec

-----------------------------------------------------------------------------
(* The theorems *)

\* Through a ring of any capacity, with any number of passes, the consumer
\* gets the events of the stream in order, once and whole.
THEOREM DeliveredInOrder == QueuedSpec => []InOrder
<1>1. QueuedInv => InOrder
  BY DEF QueuedInv, InTransit, Popped, InOrder
<1> QED
  BY <1>1, QueuedInvariant, PTL

\* When both threads are joined nothing is left in the ring or in the book,
\* and the counters account for every event.
THEOREM DrainedWhenJoined == QueuedSpec => []EmptyWhenJoined
<1>1. QueuedInv => EmptyWhenJoined
  <2> SUFFICES ASSUME QueuedInv, Joined
               PROVE  DOMAIN order_lookup = {} /\ events_applied = EventCount % Word
    BY JoinedMeansDrained DEF EmptyWhenJoined
  <2>1. consumed = 3 * Cycles /\ Cycles \in Nat /\ consumed = EventCount
    BY StreamAssumption DEF Joined
  <2> QED
    BY <2>1 DEF QueuedInv, BookOnTrack, BookAfter, BookEmpty
<1> QED
  BY <1>1, QueuedInvariant, PTL

\* The hand-off through the ring is invisible to the book: it goes through the
\* states of BM_DirectReplayInMemory, and no event is rejected.
THEOREM QueueImplementsDirect == QueuedSpec => ImplementsDirectReplay
<1>1. QueuedInit => Direct!DirectInit
  BY DEF QueuedInit
<1>2. ASSUME QueuedInv, [QueuedNext]_queuedVars
      PROVE  [Direct!ApplyNext \/ Direct!NextPass]_(Direct!directVars)
  <2>1. CASE ConsumerApply
    <3>1. /\ Direct!apply(Direct!make_mixed_stream[consumed + 1])
          /\ consumed < Len(Direct!make_mixed_stream)
          /\ ~failed /\ failed' = (result' # "Applied")
          /\ consumed' = consumed + 1 /\ UNCHANGED pass
      BY <1>2, <2>1, ApplyOnTrack, StreamLength DEF ConsumerApply, QueuedInv, BookOnTrack
    <3> QED
      BY <3>1 DEF Direct!ApplyNext
  <2>2. CASE NextPass
    BY <2>2, StreamLength DEF NextPass, Joined, Direct!NextPass
  <2>3. CASE UNCHANGED <<book, consumed, pass, failed>>
    BY <2>3 DEF book, Direct!directVars, Direct!vars
  <2> QED
    BY <1>2, <2>1, <2>2, <2>3
       DEF QueuedNext, ProducerLoad, ProducerCopy, ProducerStore, ConsumerLoad, ConsumerCopy,
           ConsumerStore, Ended, queuedVars, driver
<1> QED
  BY <1>1, <1>2, QueuedInvariant, PTL DEF QueuedSpec, ImplementsDirectReplay, Direct!DirectSpec
=============================================================================
