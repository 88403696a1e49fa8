# A TLA+ model of datagine

datagine replays normalized market-data events into a limit order book. This
directory holds TLA+ modules translated from its source, TLC configurations that
check them on small instances, and proofs checked by TLAPS. Paths below are
relative to the repository root.

## The system

| Component | State | Operations | Used by |
|---|---|---|---|
| Core types (`include/datagine/core/`) | none | word arithmetic and comparisons | everything |
| Baseline book (`src/book/limit_order_book.cpp`) | price maps per side with order lists and running totals; hash index of records; `events_applied` | add, cancel, modify, execute, apply, clear; queries; `validate_invariants` | replay engine, anomaly features, benchmarks |
| Pooled book (`src/book/pooled_limit_order_book.cpp`) | node vector, free-index stack, chained levels, hash index | the same interface, bounded by `max_live_orders` | benchmarks, tests |
| SPSC ring (`include/datagine/queue/spsc_ring_buffer.hpp`) | slots, write and read sequence | `try_push`, `try_pop`, `approximate_size`, `empty`, `full` | two threads |
| Hand-off drivers (`bench/datagine_benchmarks.cpp`, `tests/test_spsc_ring_buffer.cpp`) | loop counters of the two threads, a book | push or pop, retry, apply, join, next iteration | - |
| CSV parser (`src/feed/csv_parser.cpp`) | stream, line number, header flags | `next`, `reset` | replay engine |
| Replay engine (`src/replay/replay_engine.cpp`) | book, result counters and errors | `replay_file`, checksums | CLI |
| Feature extractor and anomaly monitor (`src/anomaly/anomaly_detector.cpp`) | three time windows, rolling statistics per feature | `observe`, `reset` | replay engine, benchmark |
| CLI (`tools/datagine_replay.cpp`) | none | options, exit code, printing | user |

The replay engine calls the parser, applies each event to its book, lets the
monitor observe the book and, if asked, validates the book after every event.
All of that runs on one thread. Only the ring is shared between two threads,
through two atomic sequences.

### What is hard

- *The books keep every fact twice.* An order's side, price, timestamp and size
  are in its list entry (or node) and in its index record; a level's total and
  count are maintained incrementally. A mistake in one call shows many calls
  later. The property: the copies agree after any sequence of calls
  (`IndexConsistent`, `BookValid`, `ViewsMatchIndex`).
- *Price-time priority* must survive reductions and removals anywhere in a
  queue (`TimePriority`, `ImplementsPriceTimeBook`).
- *Unsigned words.* Totals may wrap to any value, zero included, with orders
  resting; sequences wrap around.
- *The node pool.* Unlinking head, middle, tail or only node are different
  paths; nodes are reused at once; exhaustion and `clear()` must neither leak
  nor share a node (`PoolPartition`, `ChainsMirror`).
- *The ring.* Each thread decides on an old value of the other's sequence;
  copies of events are not atomic (`NoSlotConflict`, `PublishedSlotsIntact`,
  `SeenIsConservative`). Between `full()` or `empty()` and the call made on the
  strength of it, the other thread goes on (`ToldIsReliable`).
- *The retry loops* must end (`AllDelivered`).
- *Reuse.* Ring and book outlive the threads of a benchmark iteration, an engine
  keeps its book between files, a parser its path across `reset()`: nothing of
  the past may show (`InOrder`, `ImplementsDirectReplay`, `ReplaysAgree`,
  `AnswersFollowFile`).
- *Rows.* Each event type has its own rule for six columns; a wrong sign, range
  or stray field must refuse the row and nothing else may (`RowsMeanEvents`).
- *Replay goes on after errors and stops in mid-file* on an invariant failure;
  every line must be accounted for once (`EveryLineCountedOnce`,
  `StopsWhenCrossed`, `ExitZeroMeansRead`), and the loop must end (`ReplayEnds`).
- *Windows over a clock that is not monotonic*, differences of timestamps that
  overflow, features that come and go with the sides of the book
  (`WindowsExact`, `SamplesMatchBooks`, `AnomaliesJustified`).
- *Two implementations of one book* (`Indistinguishable`).

## Modules

| Module | Models | Built on |
|---|---|---|
| `MarketTypes` | `core/types.hpp`, `MarketEvent`, `BookResult`, maps as functions, word arithmetic modulo `Word` | |
| `PriceTimeBook` | abstract: one FIFO queue per side and price, last result, operation count, capacity | `MarketTypes` |
| `LimitOrderBook` | the baseline book | `MarketTypes` |
| `PooledLimitOrderBook` | the pooled book | `MarketTypes` |
| `BooksAgree` | both books given the same events | instances of both |
| `BoundedFifo` | abstract: a bounded FIFO queue | |
| `SpscRingBuffer` | the ring, one step per shared access | |
| `DirectReplay` | `BM_DirectReplayInMemory`: the stream applied directly | `LimitOrderBook` |
| `QueuedReplay` | `BM_SpscQueuedReplayInMemory`: producer, ring, consumer, book | `SpscRingBuffer`, instance of `DirectReplay` |
| `CsvParser` | the parser over files of column texts | `MarketTypes` |
| `FeatureExtractor` | windows and features | `LimitOrderBook` |
| `AnomalyMonitor` | `observe`, `maybe_emit`, `reset` | `FeatureExtractor` |
| `EwmaZScoreDetector` | the statistics behind a z-score | |
| `MonitoredFeed` | `BM_FeatureExtractionAnomalyScoring`: book and monitor | `AnomalyMonitor` |
| `ReplayEngine` | `replay_file`, the checksum, the tool's options and exit code | `AnomalyMonitor`, instance of `CsvParser` |
| `MarketTypesProofs` | lemmas on words, sums of queues, prices in order, what a side shows | `MarketTypes` |
| `LimitOrderBookProofs` | invariants, queries, refinement and steps of the baseline book | `LimitOrderBook`, `MarketTypesProofs` |
| `PooledLimitOrderBookProofs` | the same of the pooled book, with pool and chains | `PooledLimitOrderBook`, `MarketTypesProofs` |
| `QueuedReplayProofs` | invariants and refinement of the ring, delivery and refinement of the queued replay | `QueuedReplay` |
| `CsvParserProofs` | what the parser answers | `CsvParser` |
| `MonitoredFeedProofs` | what `observe()` reports, whoever calls it, and the monitored feed | `MonitoredFeed`, `LimitOrderBookProofs` |
| `EwmaZScoreDetectorProofs` | the statistics | `EwmaZScoreDetector` |
| `ReplayEngineProofs` | the account a replay gives, its end, its monitor | `ReplayEngine`, `MonitoredFeedProofs` |
| `MC...` | model values, symmetry and input sets for TLC | |

**Books.** `levels["Buy"]` and `levels["Sell"]` are `bid_levels_` and
`ask_levels_`; a map is a function whose domain is the set of present keys, so
`operator[]`, `emplace` and `erase` are `Put` and `Drop`. A public modifying
function is one action of the same name: each early return is a disjunct with
its `BookResult`, in the code's order of tests, and `result` is what the caller
got. The queries are operators. A `std::list` iterator is the identifier of the
entry it points at: entries never move and never change identifier. In the
pooled book nodes, links, free stack and `npos` are as in the code;
`append_node` and `unlink_node` are pairs of helpers, one for the node vector
and one for the level. `NoId` stands for the `OrderId{}` of an unused node. It
is kept apart from real identifiers so that a read of an unused node shows.
`clear()` resets everything, `events_applied` included, and returns nothing.
`apply()` is the dispatch by event type; the modules that feed a book use it,
while a book's own `Next` calls the four operations with any arguments.
`Quantity`, totals and `events_applied` are words modulo `Word`; no counter
needs a bound in a guard.

**Ring.** `try_push` is `PushLoad`, `PushBeginCopy`, `PushEndCopy`,
`PushStore`; `try_pop` likewise. A thread loads its own sequence exactly. Of the
other thread's it may load any value from the last one it saw to the current one
(`Loadable`): an acquire load may be stale, but coherence forbids going back.
The release/acquire pairs are modelled by keeping the program order of copies and
stores. An event copy takes two steps with a `Torn` value between them.
`LooksFull` and `LooksEmpty` are the two tests a call makes on what it loaded.
`approximate_size()` is modelled as called by either of the two threads.

**Queued replay.** `ProducerLoad` is the next iteration of the retry loop; a load
that finds the ring full is a call that returned false. Event `i` in the ring
stands for the `i`-th of `make_mixed_stream`, so order, loss and duplication are
visible in `received`. `ConsumerApply` applies what was popped; a rejection is
remembered in `failed`. `NextPass` joins both threads, clears the book and starts
two new threads on the ring as it stands. Thread creation and join order
everything before them, so the new threads start with current sequences.
`DirectReplay` has the book's variables and the count of applied events only; the
book, `consumed`, `pass` and `failed` are the same in both, so the refinement
mapping is the identity on them.

**Parser.** A file is the lines `std::getline` delivers, a line its texts between
commas, a text its core after `trim()` and whether blanks stood on either side:
the header is compared after trimming the whole line, columns are trimmed one by
one. `Numeral` gives the texts `std::from_chars` can read and the number each
denotes; `MinusSign` those with a sign, which unsigned fields refuse, `-0`
included. `Objection` is the first test of `parse_row` that fails, in the code's
order. `Replace` is another process replacing or removing the file. The open
stream is assumed to keep what it opened, as after a rename over the path;
writing into an open file is left out.

**Monitor.** Doubles are exact: ratios are pairs, the mid price is doubled, the
volatility is squared, the message rate counts per window. None of this changes
an order between two values of one feature. When the difference of two timestamps
leaves 64 bits, expiry may go either way (`MayExpire`). Depth and `total_depth`
are unsigned sums modulo `Word`. What the detector keeps of a feature is
determined by the samples scored, so `states` is that list, and where a score
stands is the constant operator `Score`. The MC modules use "outside the range of the
samples". The properties of the monitor do not depend on this choice.
`EwmaZScoreDetector` is about the computation itself, with alpha a fraction and
mean and variance kept in whole units, so that it is exact. `kVarianceFloor` is
1 / `FloorDen` and takes the place of any smaller variance (`Floored`); `Stand`
compares the z-score with the threshold by squares, without division or root.
`features`, `observed` and `history` are bookkeeping for the properties.

**Replay engine.** One step per loop iteration: all of it runs on one thread.
Errors keep type and line. The checksum is the sequence of words and tag bytes
that is hashed; the FNV fold over it, and so accidental collisions, are left out.
The monitor is a local of the call and starts empty.

## Runs

| Run | Shows | Instance |
|---|---|---|
| `baseline_book` | types, `validate_invariants`, index agreement, views computed from the index alone, time priority, orders only shrink, refinement of `PriceTimeBook` | 3 orders, 2 prices, 2 timestamps, quantities 0..2 |
| `pooled_book` | as above for the pooled book, and the partition of the pool and the mirror of the chains | 3 nodes, 4 orders, 2 prices, quantities 0..2 |
| `pooled_refines` | the pooled book implements `PriceTimeBook` with capacity `MaxLiveOrders` | 3 nodes, 4 orders, 1 price |
| `books_agree` | same results, views, queues, counts and verdicts until the pool refuses its first order, which is the order that is one too many | 3 nodes, 4 orders, 2 prices, quantities 0..2 |
| `spsc_ring` | no slot conflict, whole events, sizes in bounds, stale values conservative, `full()` and `empty()` to be relied on, refinement of `BoundedFifo` | 2 slots, sequences modulo 4, 2 events |
| `queued_replay` | in order, empty when joined, all delivered, refinement of `DirectReplay` | 2 passes of 9 events, 4 slots, sequences modulo 16 |
| `csv_parser` | each `next()` answers for its line; rows are events exactly if they spell one; the end is reached | one-row files: all combinations of two to five texts per column, and a good row of each event type with any one column changed; files with blank lines, CRLF, repeated, loose and missing headers; 3 replacements |
| `replay` | lines counted once, determinism, checksum, stop on crossing, exit code, termination | files of up to 3 rows, 2 replays in a row, 4 option sets |
| `monitor` | windows exact, imbalance in range, samples of the right books, anomalies justified | any order of up to 4 accepted events of 5 orders, 3 timestamps, signed range -3..2 |
| `ewma` | weighted statistics, scored before update, flat feature | 4 samples of 2 features, alpha 1/4, threshold 2, floor 1/6 |
| `aggregate_wraps` | expected violation, see Findings | 3 orders, 2 prices, quantities 0..3 |
| `stale_window` | expected violation, see Findings | as `monitor`, without overflow |

*Why the bounds are enough to be interesting.* Three orders at one price give a
head, a middle and a tail; two prices per side give level creation, erasure and
ordering, and let the book cross (the code allows it: crossing is only reported
by `validate_invariants`, and only if the caller asks). With words modulo 3
totals wrap, to zero too, with orders resting, and quantities still have the
cases less, equal and greater. Three nodes and four identifiers reach
exhaustion and reuse in every order of the free stack. In `pooled_refines` one
price lets all nodes be in one chain. The sequences of the ring wrap around
several times within a run; the only assumption is that the capacity is a proper
divisor of the word, which a power of two below 2^64 is. The books store
and copy timestamps and never order them: two let the copies in `baseline_book`
differ; in the pooled runs there is one, and disagreeing timestamps there are
left to the bounds (two make `pooled_book` take four minutes instead of half of
one; it passes). Order identifiers are only compared for equality, so the book runs
use them symmetrically; all properties under symmetry are safety properties.

The second pass of `queued_replay` starts in the middle of the ring, fills it and
takes the sequences across their end. The rows of `csv_parser` are of
two kinds: all combinations of some texts per column (`Combined`), and for each
event type a good row in which one column, any of the six, is empty, out of
range, negative or no number (`OneChanged`); 9 is out of range for every numeric
field. `replay` has rows that are refused by the parser, by the
book, that cross the book, and files without a header or without rows; the second
replay is of the same file or of one of four others. The floor of `ewma` is high
enough that the variance of 0, 1, 0 lies below it and that of 0, 1 above. Four
events in `monitor` are enough for both sides, a level beyond the best two, a sample after the
warm-up and one entry to expire behind another.

*Deadlock* is checked everywhere. `QueuedReplay` has the step `Ended` and
`ReplayEngine` the step `Retired` for the program that has finished.

*Fairness.* In `QueuedReplay` each thread keeps running (weak fairness on the
steps of its call), and its loop does not load an outdated value for ever (weak
fairness on a load of the current value). The first is the scheduler's promise to
two runnable threads that never block. The second is the C++ requirement that
atomic stores become visible in finite time; the loops yield and load again.
Nothing is assumed of the order of the two threads. In `CsvParser` the caller
keeps calling `next()`, in `ReplayEngine` the loop keeps running: one thread that
waits for nobody. `ReadsToEnd` is conditional on the caller not resetting for
ever.

Each property of a passing run is paired with a mutation of the code it is about
(definitions named `Original_Fault`, next to the original), which makes TLC
report that property.

## Proofs

All theorems hold for every value of the constants that satisfies the named
assumptions: finite sets of identifiers and prices (`OrderIdAssumption`,
`PriceAssumption`), any set of timestamps, any word above 1 (`WordAssumption`),
any pool size (`PoolAssumption`), any positive capacity that properly divides the
sequence word (`CapacityAssumption`); for the queued replay, any number of
cycles of `make_mixed_stream`, any number of passes and any counter word
(`StreamAssumption`, `CounterAssumption`); any files of non-empty lines and any
table of numerals (`FileAssumption`, `ReplayAssumption`); any number of levels,
window widths and timestamp range (`ExtractorAssumption`), any warm-up and any
scoring rule `Score` (`MonitorAssumption`), any alpha in (0, 1], variance
floor 1/n and positive whole threshold (`DetectorAssumption`). The bounds on histories (`MaxEvents`, `MaxSamples`,
`MaxReplays`) are arbitrary too. `ReplayEngineProofs` extends
`MonitoredFeedProofs` for its facts about `observe()`; the stream `Feed` of the
benchmark plays no part in it.

| Theorem | States |
|---|---|
| `LimitOrderBookProofs!TypeCorrect` | `TypeOK` of the baseline book |
| `LimitOrderBookProofs!IndexNeverDrifts` | `IndexConsistent`: entries and records correspond one to one and agree field by field |
| `LimitOrderBookProofs!ValidationAccepts` | `BookValid`: `validate_invariants(true)` holds, totals included |
| `LimitOrderBookProofs!QueriesAreTrue` | `ViewsMatchIndex`: depth, top of book and snapshot show the recorded orders |
| `LimitOrderBookProofs!BookImplementsPriceTimeBook` | refinement of `PriceTimeBook` |
| `LimitOrderBookProofs!LiveOrdersOnlyShrink` | `OrdersOnlyShrink` |
| `LimitOrderBookProofs!TurnsAreKept` | `TimePriority` |
| `PooledLimitOrderBookProofs!TypeCorrect` | `TypeOK` of the pooled book |
| `PooledLimitOrderBookProofs!PoolNeverLeaks` | `PoolPartition` |
| `PooledLimitOrderBookProofs!ChainsReadBothWays` | `ChainsMirror` |
| `PooledLimitOrderBookProofs!PoolImplementsPriceTimeBook` | refinement of `PriceTimeBook` with capacity `MaxLiveOrders` |
| `PooledLimitOrderBookProofs!ValidationAccepts` | `BookValid` of the pooled book |
| `PooledLimitOrderBookProofs!QueriesAreTrue` | `ViewsMatchIndex` of the pooled book |
| `QueuedReplayProofs!CheckThenActIsSafe` | `ToldIsReliable` |
| `QueuedReplayProofs!StaleLoadsAreSafe` | `SeenIsConservative` |
| `QueuedReplayProofs!NoDataRace` | `NoSlotConflict` |
| `QueuedReplayProofs!EventsArriveWhole` | `PublishedSlotsIntact` |
| `QueuedReplayProofs!OwnSizeIsSafe` | `OwnerSizeInBounds` |
| `QueuedReplayProofs!RingImplementsFifo` | refinement of `BoundedFifo` |
| `QueuedReplayProofs!DeliveredInOrder` | `InOrder` |
| `QueuedReplayProofs!DrainedWhenJoined` | `EmptyWhenJoined` |
| `QueuedReplayProofs!QueueImplementsDirect` | refinement of `DirectReplay` |
| `CsvParserProofs!EveryLineAnswered` | `AnswersFollowFile` |
| `CsvParserProofs!RowsAreUnderstood` | `RowsMeanEvents` |
| `MonitoredFeedProofs!AnomaliesAreJustified` | `AnomaliesJustified` |
| `MonitoredFeedProofs!ImbalanceIsTrue` | `ImbalanceInRange` |
| `MonitoredFeedProofs!SamplesAreTrue` | `SamplesMatchBooks` |
| `MonitoredFeedProofs!WindowsAreExact` | `WindowsExact` |
| `EwmaZScoreDetectorProofs!StatisticsAreTrue` | `StatisticsAreWeighted` |
| `EwmaZScoreDetectorProofs!ScoresAreFair` | `ScoredAgainstEarlier` |
| `EwmaZScoreDetectorProofs!FirstMoveIsSeen` | `FlatThenMove` |
| `ReplayEngineProofs!LinesAreCountedOnce` | `EveryLineCountedOnce` |
| `ReplayEngineProofs!OnlyCrossingStops` | `StopsWhenCrossed` |
| `ReplayEngineProofs!ExitCodeIsTrue` | `ExitZeroMeansRead` |
| `ReplayEngineProofs!MonitorIsTrueInReplay` | the four properties of the monitor, under `replay_file` |

**Baseline book.** The inductive invariant is `IInv`: the types of the
containers, `IndexConsistent` and the types of the counters. Neither half is
inductive alone. Removing or reducing an order follows `record.iterator` into a
list: that the position exists needs `IndexComplete`, that it is the only one
needs `IdsUnique`, that the result has its type needs that the position is in the
list. Conversely the agreement of entries after a step needs the domains that the
types give. `RecordLeadsToEntry` states the link; `AddKeepsBook`,
`RemoveKeepsBook` and `ReduceKeepsBook` treat the three ways the containers
change, and `NextPreservesInv` assembles them, one step per operation. For
`BookValid` the totals come on top: `TotalsAgree` is inductive relative to that
invariant. For the refinement each of the three changes is shown to be `Append`,
`RemoveAt` or a change of size on one queue and nothing on the others; the two
action properties follow from the same three facts.

**Sums of queues.** `WordSum` is the last value of the recursive function
`RunningSum`. What it does under append, removal and resizing is proved without
an induction rule: if two running sums were not apart by the same amount
everywhere, there would be a least position where they are not (`WFMin` on the
naturals), and one step of the recursion contradicts that (`SumsAreUnique`,
`SumsStayApart`). Differences are taken modulo `Word`, so wrap-around needs no
case of its own.

**Pooled book.** The inductive invariant is `PoolInv` with the types of the
counters. It says that for every level there *is* a sequence of nodes
(`IsChain`) that the level's head, tail and count describe, that is linked both
ways, and whose nodes and records point at each other; that every record leads to
a level; and that a node is on the free stack, once and reset, exactly when no
record points at it. The chain is quantified and not computed because
following links from the head only makes sense once one knows that it ends:
`WalkIsPath` shows afterwards, again by a least counterexample, that the loops of
the code read exactly the chain. `LinkedAppend` and `LinkedRemove` are the heart:
`append_node()` and `unlink_node()` at head, middle, tail or only node make the
longer and the shorter chain. Disjointness of chains needs no conjunct, as a
node's record names its side and price. `FullMeansFull` counts: the free stack
and the used nodes partition the pool, so an empty stack means `MaxLiveOrders`
live orders. `TotalsRead` is added for `BookValid` as above.

**Ring.** `RingInv` is `TypeOK`, `SeenIsConservative`, `PublishedSlotsIntact`
and `OwnerSizeInBounds` with `CallsUnderWay`, which says what a call relies on
between two of its steps: the producer found room with the value it loaded, the
consumer an event, and the copy of either is still what it was. Without it
nothing is inductive, as a thread acts on a loaded value several steps later. All
is said by distances modulo the sequence word. `Arcs` puts the four sequences on
one circle: what the producer saw, then `read_sequence`, then what the consumer
saw, then `write_sequence`. The slot being written therefore is not one of those
between the sequences, which is `NoSlotConflict`; and a later load only moves along
that circle, away from full and from empty, which is `ToldIsReliable`. A push enters the abstract queue
at the store of `write_sequence`, a pop leaves it at that of `read_sequence`.

**Queued replay.** `QueuedInv` adds to `RingInv` that the ring holds exactly the
events pushed and not popped, by number (`InTransit`), that `write_sequence`
counts the events of all passes (`PassesCounted`), and what the book holds after
so many events (`BookOnTrack`): a cycle of the stream adds an order, executes a
part of it and cancels the rest, so the book is empty after every third event and
no event is refused. `ConsumerApply` then is the next step of `DirectReplay` and
all steps of the ring stutter; `NextPass` needs that the ring is empty when both
threads are joined.

**Queries.** The books describe a side level by level, best price first
(`BestFirst`), `ViewsMatchIndex` from the index alone, by rank and by sums over
sets of orders. That a finite set of prices has such an order, that it lists
every price and that the i-th has rank i is again shown by least counterexamples
(`ListExists`, `ListIsComplete`, `PlaceIsRank` in `MarketTypesProofs`). A fold over a set
of orders takes them in an order nobody knows; `UnitsOfQueue` shows that it agrees
with the sum of the queue, which lists the same orders once each. Book by book it
then remains that a level's queue holds the orders recorded at its price
(`IndexConsistent`, or the chains of `PoolInv`) and that its total is their sum
(`TotalsAgree`, `TotalsRead`).

**Parser.** `ParserInv` ties position, line number and header flags to the number
of calls since the file was opened (`ReadSoFar`) and adds the property itself,
which is inductive with it. `RowsMeanEvents` has nothing to do with steps: for
every line, `parse_row` answers an event exactly if the line spells one
(`RowMeansEvent`), by the objections of the code one after another.

**Monitor.** The invariant is `FeedInv`: the book's, and `MonitorOK`, which joins
the four properties with two facts about the history (`StatesAreLists`,
`HistoryKept`). What `extract()` reads off the book is first put in terms of the
recorded orders alone (`ShowsBook`, `FeaturesMatch`): the sum of the first `TopN`
levels is, modulo `Word`, the sum over all orders with fewer than `TopN` better
prices; this is where the theorems about the queries come in. One `observe()`
then appends one sample for each feature that is there, and two-sided books are
counted on both sides of the equation alike (`TwoSidedOnes`). A window is the end
of a history from some position on (`Exact`); expiry moves that position, and in a
feed in time order it stops at the first entry that is young enough, because all
later ones are younger (`ExpiryIsExact`, `PartOf` for the mids, which are a part
of the history). `WindowsExact` asks that of windows of non-negative width, as an
entry is appended after the expiry and stays even if the width is negative.
`ObserveKeepsMonitor` and `FreshIsOK` are all that a caller needs: the monitored
feed and the replay engine use the same two.

**Statistics.** The claim is about a formula: `mean += alpha * delta` and
`variance = (1 - alpha) * (variance + alpha * delta^2)` compute the weighted mean
and the weighted mean of squares less the square of the mean.
`MeanAndVariance` is the one-step identity; it rests on how a weighted sum
changes with one more sample (`WeightedNext`), which in turn needs that all
earlier weights shrink by 1 - alpha. `DetectorInv` says that each state is that of
its samples (`StateOf`) and that a flat list has no variance
(`FlatHasNoVariance`), from which the two properties of a score follow. On the
floor a move of one is sqrt(`FloorDen`) deviations, so `FlatThenMove` is about
thresholds up to that number; in the code it is about 31622.

**Replay engine.** `ReplayInv` is the book's invariant with its totals, what the
loop needs of the parser (`ParserOK`), the record of calls (`CallsOK`) and where
a call can be (`Situation`): not called, no file, in the loop, read to the end or
stopped. Once a file is open the result `Accounts` for the lines read: header,
processed and rejected lines add up to `line_number`, the book has counted the
processed ones, each rejection and the failed validation have one error, in line
order, and the counts per reason are those of the anomalies. `OnlyCrossingStops`
uses the proof that `validate_invariants(true)` never fails: with the book's
invariant the only test left is the one for a crossed book. An accepted event is
one that the book's own `Next` allows (`EventStep`), so the book's theorems carry
over, and so do the monitor's.

**Only model-checked.**
- `Indistinguishable` compares the two books, which are instances side by side
  in `BooksAgree`; the prover cannot use the theorems of an instantiated module,
  so the proofs about both books would have to be repeated there. That both
  implement the same `PriceTimeBook` and that the queries of both are the same
  function of the recorded orders is proved of each.
- `ReplaysAgree` relates two complete executions with each other. An
  inductive invariant would have to hold a copy of one run to compare the other
  with, and the one place where the code's outcome is open (overflow of a
  timestamp difference) has to be excluded, as it is in that run.
- `ChecksumsSeparateBooks`: that the hashed sequence can be parsed back is an
  induction over nested sequences (`FlattenSeq`).
- Liveness (`AllDelivered`, `ReadsToEnd`, `ReplayEnds`) is out of the prover's
  reach.
- The two expected violations.

## Findings

`aggregate_wraps`: `docs/roadmap.md:18` lists "aggregate quantity" among the
validated invariants and `docs/anomaly-detection.md:16` defines depth as
"aggregate quantity across the best N bid price levels". A level total is a
64-bit word kept with `+=` and `-=`, and `validate_invariants()` adds up with
the same wrap-around. TLC shows two accepted orders at one price after which the
level reports fewer units than rest there. `BookValid` is an invariant of
`baseline_book`, where totals wrap too, so the validation accepts that state. The total is right modulo 2^64
and recovers when orders leave. Within realistic quantities the case does not
arise.

`stale_window`: `docs/anomaly-detection.md:24` defines the message rate as
"accepted event count over a timestamp-based rolling window". Entries are dropped
only while the front is too old, and nothing orders the feed by timestamp. TLC
shows three accepted events, the second stamped earlier than the first, after
which the rate counts the second although it is older than the window. With a
feed in time order the windows are exact (`WindowsExact` in `monitor`).

Smaller differences met on the way, without a run of their own:
`docs/anomaly-detection.md:39` says an anomaly is emitted if the score "exceeds"
the threshold, the code compares with `>=`; line 31 lists the mid price among the
scored features, the code computes it and scores only the volatility; if the two
depths together pass 2^64, `total_depth` wraps and the imbalance leaves [-1, 1]
(`ImbalanceInRange` therefore has that condition); after a `reset()` that finds
no file, `next()` never reports the end (part of `ReadsToEnd`; the replay engine
tests `is_open()` and is not affected).

## Not modelled

- `std::bad_alloc` in the middle of an operation: nothing catches it.
- `approximate_size()` from a third thread: outside the documented contract.
- The command line's argument parsing and printed summary, the formatting
  functions, `to_string`, messages and raw rows of errors: text without state.
- Hot-path and CSV loops of the benchmarks: single operations repeated around a
  timer. Timing and rate counters.
- The FNV fold of the checksum and rounding of doubles.
- A file that is written while it is being read.

## Plan

1. *Done:* both books, their abstract specification, the ring, the first
   theorems.
2. *Done:* `apply()`, parser, replay engine, monitor and statistics, queued
   replay with its book, agreement of the two books.
3. *Done:* the proofs about both books, the ring and the queued replay.
4. *Done:* the proofs about the queries of both books, the parser, the monitor,
   the statistics and the replay engine.
5. Left: `ReplaysAgree` as a refinement of a deterministic replay function, and
   `Indistinguishable` from the two refinements in a module that has both books
   without instances.
