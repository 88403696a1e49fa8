--------------------------- MODULE SpscRingBuffer ---------------------------
(***************************************************************************)
(* The single-producer single-consumer ring of queue/spsc_ring_buffer.hpp, *)
(* one step per access to shared memory.                                   *)
(*                                                                         *)
(* Memory model.  A release store is a step; each sequence has one writer, *)
(* which loads it exactly.  An acquire load of the other thread's sequence *)
(* may return an old value, but never one older than the loading thread    *)
(* has already seen (coherence): p_seen and c_seen keep that lower bound.  *)
(* Program order before a release store is kept, so a thread that has seen *)
(* a sequence value has seen the slot accesses made before its store.      *)
(*                                                                         *)
(* A MarketEvent is not one word.  Copying it into a slot takes two steps  *)
(* between which the slot is Torn; copying it out takes two steps and what *)
(* is copied is Torn if the slot changed in between.                       *)
(***************************************************************************)
EXTENDS Integers, Sequences

CONSTANTS
  Event,         \* the MarketEvents callers push
  Capacity,      \* capacity_power_of_two
  SequenceWord,  \* 2^64: the sequences are std::uint64_t
  NoEvent, Torn  \* MarketEvent{} of an unused slot; a half-copied event

\* The constructor throws unless the capacity is a nonzero power of two: such
\* a capacity divides 2^64 and is less than it.
ASSUME CapacityAssumption ==
  /\ Capacity \in Nat \ {0}
  /\ SequenceWord \in Nat
  /\ \E k \in 2 .. SequenceWord : SequenceWord = k * Capacity
ASSUME EventAssumption == NoEvent \notin Event /\ Torn \notin Event

VARIABLES
  write_sequence, read_sequence, buffer,
  p_pc, p_event, p_seen,   \* the producer's call and the read_sequence it saw
  c_pc, out, c_seen,       \* the consumer's call and the write_sequence it saw
  p_size, c_size,          \* what approximate_size() last told each thread
  received                 \* the event of the last try_pop that returned true

producer == <<p_pc, p_event, p_seen, p_size>>
consumer == <<c_pc, out, c_seen, c_size, received>>
vars == <<write_sequence, read_sequence, buffer, producer, consumer>>

Sequence == 0 .. (SequenceWord - 1)
Slot     == 0 .. (Capacity - 1)

\* Unsigned difference and successor of sequences, and sequence & mask_.
Distance(from, to) == (to - from) % SequenceWord
Succ(sequence)     == (sequence + 1) % SequenceWord
SlotOf(sequence)   == sequence % Capacity

\* The values an acquire load may return, from the last one seen to the newest.
Loadable(seen, current) ==
  {(seen + d) % SequenceWord : d \in 0 .. Distance(seen, current)}

Init ==
  /\ write_sequence = 0 /\ read_sequence = 0
  /\ buffer = [i \in Slot |-> NoEvent]
  /\ p_pc = "idle" /\ p_event = NoEvent /\ p_seen = 0 /\ p_size = 0
  /\ c_pc = "idle" /\ out = NoEvent /\ c_seen = 0 /\ c_size = 0
  /\ received = NoEvent

-----------------------------------------------------------------------------
(* try_push, on the producer thread *)

\* Mutant of LooksFull: one event too many is let in.
LooksFull_OffByOne(read) == Distance(read, write_sequence) > Capacity

\* Mutant of LooksFull: one slot always stays empty, as in rings whose indices
\* wrap around at the capacity.
LooksFull_KeepsOneFree(read) == Distance(read, write_sequence) >= Capacity - 1

\* The ring has no room by a read_sequence just loaded.
LooksFull(read) == Distance(read, write_sequence) >= Capacity

\* Load both sequences; return false if the ring looks full.
PushLoad(event, read) ==
  /\ p_pc = "idle"
  /\ read \in Loadable(p_seen, read_sequence)
  /\ p_seen' = read
  /\ \/ /\ LooksFull(read)
        /\ UNCHANGED <<p_pc, p_event>>
     \/ /\ ~LooksFull(read)
        /\ p_pc' = "copy"
        /\ p_event' = event
  /\ UNCHANGED <<write_sequence, read_sequence, buffer, p_size, consumer>>

\* Mutant of PushBeginCopy: publication overtakes the copy, as it may with a
\* relaxed store.
PushBeginCopy_Overtaken ==
  /\ p_pc = "copy"
  /\ buffer' = [buffer EXCEPT ![SlotOf(write_sequence)] = Torn]
  /\ p_pc' = "publish"
  /\ UNCHANGED <<write_sequence, read_sequence, p_event, p_seen, p_size, consumer>>

PushBeginCopy ==
  /\ p_pc = "copy"
  /\ buffer' = [buffer EXCEPT ![SlotOf(write_sequence)] = Torn]
  /\ p_pc' = "copying"
  /\ UNCHANGED <<write_sequence, read_sequence, p_event, p_seen, p_size, consumer>>

PushEndCopy ==
  /\ p_pc = "copying"
  /\ buffer' = [buffer EXCEPT ![SlotOf(write_sequence)] = p_event]
  /\ p_pc' = "publish"
  /\ UNCHANGED <<write_sequence, read_sequence, p_event, p_seen, p_size, consumer>>

\* Publish the slot and return true.
PushStore ==
  /\ p_pc = "publish"
  /\ write_sequence' = Succ(write_sequence)
  /\ p_pc' = "idle"
  /\ p_event' = NoEvent
  /\ UNCHANGED <<read_sequence, buffer, p_seen, p_size, consumer>>

-----------------------------------------------------------------------------
(* try_pop, on the consumer thread *)

\* Mutant of LooksEmpty: no test for an empty ring.
LooksEmpty_Never(write) == FALSE

\* Mutant of LooksEmpty: the last event in the ring is taken for none.
LooksEmpty_LeavesOne(write) == Distance(read_sequence, write) <= 1

\* The ring has no event by a write_sequence just loaded.
LooksEmpty(write) == write = read_sequence

\* Load both sequences; return false if the ring looks empty.
PopLoad(write) ==
  /\ c_pc = "idle"
  /\ write \in Loadable(c_seen, write_sequence)
  /\ c_seen' = write
  /\ c_pc' = IF LooksEmpty(write) THEN "idle" ELSE "copy"
  /\ UNCHANGED <<write_sequence, read_sequence, buffer, producer, out, c_size, received>>

PopBeginCopy ==
  /\ c_pc = "copy"
  /\ out' = buffer[SlotOf(read_sequence)]
  /\ c_pc' = "copying"
  /\ UNCHANGED <<write_sequence, read_sequence, buffer, producer, c_seen, c_size, received>>

PopEndCopy ==
  /\ c_pc = "copying"
  /\ out' = IF buffer[SlotOf(read_sequence)] = out THEN out ELSE Torn
  /\ c_pc' = "publish"
  /\ UNCHANGED <<write_sequence, read_sequence, buffer, producer, c_seen, c_size, received>>

\* Mutant of PopStore: every slot seen published is given back.
PopStore_Batch ==
  /\ c_pc = "publish"
  /\ read_sequence' = c_seen
  /\ received' = out
  /\ c_pc' = "idle"
  /\ UNCHANGED <<write_sequence, buffer, producer, out, c_seen, c_size>>

\* Give the slot back and return true.
PopStore ==
  /\ c_pc = "publish"
  /\ read_sequence' = Succ(read_sequence)
  /\ received' = out
  /\ c_pc' = "idle"
  /\ UNCHANGED <<write_sequence, buffer, producer, out, c_seen, c_size>>

-----------------------------------------------------------------------------
(* approximate_size(), which empty() and full() are read off, called by the  *)
(* producer or by the consumer between two of its own calls.                 *)

\* Mutant of ProducerSize: the operands of the difference are swapped.
ProducerSize_Swapped(read) ==
  /\ p_pc = "idle"
  /\ read \in Loadable(p_seen, read_sequence)
  /\ p_seen' = read
  /\ p_size' = Distance(write_sequence, read)
  /\ UNCHANGED <<write_sequence, read_sequence, buffer, p_pc, p_event, consumer>>

ProducerSize(read) ==
  /\ p_pc = "idle"
  /\ read \in Loadable(p_seen, read_sequence)
  /\ p_seen' = read
  /\ p_size' = Distance(read, write_sequence)
  /\ UNCHANGED <<write_sequence, read_sequence, buffer, p_pc, p_event, consumer>>

ConsumerSize(write) ==
  /\ c_pc = "idle"
  /\ write \in Loadable(c_seen, write_sequence)
  /\ c_seen' = write
  /\ c_size' = Distance(read_sequence, write)
  /\ UNCHANGED <<write_sequence, read_sequence, buffer, producer, c_pc, out, received>>

-----------------------------------------------------------------------------
\* The steps of a call under way.
PushStep == PushBeginCopy \/ PushEndCopy \/ PushStore
PopStep  == PopBeginCopy \/ PopEndCopy \/ PopStore

Next ==
  \/ \E event \in Event, read \in Sequence : PushLoad(event, read)
  \/ \E read \in Sequence : ProducerSize(read)
  \/ \E write \in Sequence : PopLoad(write) \/ ConsumerSize(write)
  \/ PushStep
  \/ PopStep

Spec == Init /\ [][Next]_vars

-----------------------------------------------------------------------------
(* Properties *)

\* The sequences are unsigned words and every variable has its type.
TypeOK ==
  /\ {write_sequence, read_sequence, p_seen, c_seen} \subseteq Sequence
  /\ buffer \in [Slot -> Event \cup {NoEvent, Torn}]
  /\ {p_event, out, received} \subseteq Event \cup {NoEvent, Torn}
  /\ {p_pc, c_pc} \subseteq {"idle", "copy", "copying", "publish"}
  /\ {p_size, c_size} \subseteq Sequence

\* try_push never writes the slot try_pop is reading, although each thread
\* only knows an old value of the other's sequence: no data race on buffer_.
NoSlotConflict ==
  p_pc \in {"copy", "copying"} /\ c_pc \in {"copy", "copying"} =>
    SlotOf(write_sequence) # SlotOf(read_sequence)

\* Every slot between the two sequences holds a whole event from the release
\* store that published it to the one that gives it back, so a try_pop that
\* returns true never returns a torn event or an unused slot.
PublishedSlotsIntact ==
  /\ \A d \in 0 .. (Distance(read_sequence, write_sequence) - 1) :
       buffer[SlotOf((read_sequence + d) % SequenceWord)] \in Event
  /\ c_pc = "publish" => out = buffer[SlotOf(read_sequence)]

\* Called on the producer or the consumer thread, approximate_size() is never
\* negative wrapped around nor more than the capacity: the thread's own
\* sequence is exact and the stale one errs on the safe side.
OwnerSizeInBounds == p_size <= Capacity /\ c_size <= Capacity

\* However old the sequence a thread has loaded, it stands on the safe side of
\* the real one, across the wrap-around of both counters: counted from what
\* the producer last saw of the reads, read and write follow within Capacity,
\* and what the consumer last saw of the writes lies between read and write.
SeenIsConservative ==
  /\ Distance(read_sequence, write_sequence) <= Capacity
  /\ Distance(p_seen, read_sequence) <= Distance(p_seen, write_sequence)
  /\ Distance(p_seen, write_sequence) <= Capacity
  /\ Distance(read_sequence, c_seen) <= Distance(read_sequence, write_sequence)

\* What a thread has once been told it may act on later, whatever the other one
\* has done since and however old its next load: after a full() that returned
\* false the producer's try_push cannot fail, after an empty() that returned
\* false the consumer's try_pop cannot, as long as the slots and the events it
\* knows of are not used up.
ToldIsReliable ==
  /\ p_pc = "idle" /\ Distance(p_seen, write_sequence) < Capacity =>
       \A read \in Loadable(p_seen, read_sequence) : ~LooksFull(read)
  /\ c_pc = "idle" /\ c_seen # read_sequence =>
       \A write \in Loadable(c_seen, write_sequence) : ~LooksEmpty(write)

\* The slots from read_sequence up to write_sequence, as a sequence.
Contents == [i \in 1 .. Distance(read_sequence, write_sequence) |->
               buffer[SlotOf((read_sequence + i - 1) % SequenceWord)]]

Fifo == INSTANCE BoundedFifo WITH items <- Contents

\* The ring is a bounded queue: an event enters it at the release store of
\* try_push, leaves it at that of try_pop, in order, once, unchanged, and
\* never more than Capacity of them are inside.
ImplementsBoundedFifo == Fifo!Spec
=============================================================================
