---------------------------- MODULE QueuedReplay ----------------------------
(***************************************************************************)
(* BM_SpscQueuedReplayInMemory: in each iteration a producer thread pushes *)
(* the events of the stream through the ring, retrying each until try_push *)
(* returns true, and a consumer thread pops, retrying while try_pop returns *)
(* false, and applies what it gets to the book.  Ring and book outlive the *)
(* threads: the ring goes on where it stands, the book is cleared.  Event  *)
(* i in the ring stands for the i-th of the stream.                        *)
(***************************************************************************)
EXTENDS SpscRingBuffer

CONSTANTS OrderId, Price, Timestamp, Word, Cycles, MaxPasses, EventCount

\* Each cycle of the stream is three events.
ASSUME StreamAssumption == /\ Cycles \in Nat /\ EventCount = 3 * Cycles
                           /\ Event = 1 .. EventCount
\* The book's counters are unsigned words too, and iterations are counted.
ASSUME CounterAssumption == Word \in Nat \ {0} /\ MaxPasses \in Nat

VARIABLES
  levels, order_lookup, events_applied, result,   \* the book
  sent,       \* how many events the producer's loop has got into the ring
  holding,    \* the consumer has popped an event and not applied it yet
  consumed,   \* how many events the consumer's loop has applied
  pass, failed

book   == <<levels, order_lookup, events_applied, result>>
driver == <<sent, holding, consumed, pass, failed>>
queuedVars == <<vars, book, driver>>

Direct == INSTANCE DirectReplay

QueuedInit == Init /\ Direct!DirectInit /\ sent = 0 /\ holding = FALSE

\* One try_push of the current event, from its load to its return.
ProducerLoad(read) ==
  sent < EventCount /\ PushLoad(sent + 1, read) /\ UNCHANGED <<book, driver>>
ProducerCopy  == (PushBeginCopy \/ PushEndCopy) /\ UNCHANGED <<book, driver>>
ProducerStore ==
  PushStore /\ sent' = sent + 1 /\ UNCHANGED <<book, holding, consumed, pass, failed>>

\* One try_pop, from its load to its return.
ConsumerLoad(write) ==
  /\ ~holding /\ consumed < EventCount
  /\ PopLoad(write) /\ UNCHANGED <<book, driver>>
ConsumerCopy  == (PopBeginCopy \/ PopEndCopy) /\ UNCHANGED <<book, driver>>
ConsumerStore ==
  PopStore /\ holding' = TRUE /\ UNCHANGED <<book, sent, consumed, pass, failed>>

\* The consumer applies the event it got; a rejection is remembered, not acted on.
ConsumerApply ==
  /\ holding
  /\ Direct!apply(Direct!make_mixed_stream[received])
  /\ failed' = (failed \/ result' # "Applied")
  /\ holding' = FALSE /\ consumed' = consumed + 1
  /\ UNCHANGED <<vars, sent, pass>>

Joined == sent = EventCount /\ consumed = EventCount

\* Mutant of NextPass: the book keeps the orders and counts of the last pass.
NextPass_KeepBook ==
  /\ Joined /\ ~failed /\ pass < MaxPasses
  /\ sent' = 0 /\ consumed' = 0 /\ pass' = pass + 1
  /\ p_seen' = read_sequence /\ c_seen' = write_sequence
  /\ UNCHANGED <<book, holding, failed, write_sequence, read_sequence, buffer,
                 p_pc, p_event, p_size, c_pc, out, c_size, received>>

\* Both threads are joined and, in the next iteration, two new ones started,
\* which happens after everything their predecessors did.
NextPass ==
  /\ Joined /\ ~failed /\ pass < MaxPasses
  /\ Direct!clear
  /\ sent' = 0 /\ consumed' = 0 /\ pass' = pass + 1
  /\ p_seen' = read_sequence /\ c_seen' = write_sequence
  /\ UNCHANGED <<holding, failed, write_sequence, read_sequence, buffer,
                 p_pc, p_event, p_size, c_pc, out, c_size, received>>

Ended == Joined /\ (failed \/ pass = MaxPasses) /\ UNCHANGED queuedVars

QueuedNext ==
  \/ \E read \in Sequence : ProducerLoad(read)
  \/ ProducerCopy
  \/ ProducerStore
  \/ \E write \in Sequence : ConsumerLoad(write)
  \/ ConsumerCopy
  \/ ConsumerStore
  \/ ConsumerApply
  \/ NextPass
  \/ Ended

\* All threads keep running, and a store becomes visible to the other thread
\* in finite time: a loop that keeps loading does not see an old value forever.
QueuedFairness ==
  /\ WF_queuedVars(ProducerLoad(read_sequence))
  /\ WF_queuedVars(ProducerCopy \/ ProducerStore)
  /\ WF_queuedVars(ConsumerLoad(write_sequence))
  /\ WF_queuedVars(ConsumerCopy \/ ConsumerStore \/ ConsumerApply)
  /\ WF_queuedVars(NextPass)

QueuedSpec == QueuedInit /\ [][QueuedNext]_queuedVars /\ QueuedFairness

-----------------------------------------------------------------------------
(* Properties *)

\* The event a successful try_pop returns is the next of the stream, as the
\* threaded test asserts: none lost, none twice, none out of order, none torn,
\* with ring and sequences wrapping around within a pass and nothing left over
\* from the pass before.
InOrder ==
  LET taken == IF holding THEN consumed + 1 ELSE consumed
  IN  taken > 0 => received = taken

\* Once both threads are joined the ring is empty, both sequences account for
\* the events of all passes, and the book is the one direct replay ends with:
\* empty, with every event counted.
EmptyWhenJoined ==
  Joined =>
    /\ write_sequence = read_sequence
    /\ write_sequence = (pass * EventCount) % SequenceWord
    /\ c_seen = write_sequence
    /\ DOMAIN order_lookup = {} /\ events_applied = EventCount % Word

\* Neither loop livelocks: whatever the interleaving and the age of the values
\* the threads load, every pass delivers every event and ends.
AllDelivered == <>[](Joined /\ pass = MaxPasses)

\* Through the ring, the book goes through the states of direct replay, in
\* every pass, and no event is rejected.
ImplementsDirectReplay == Direct!DirectSpec
=============================================================================
