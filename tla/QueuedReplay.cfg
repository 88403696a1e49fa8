\* Two passes of nine events through four slots: the ring fills up and wraps
\* around within a pass, the second pass starts at another slot, and the
\* sequences wrap around at sixteen, in its middle.
SPECIFICATION QueuedSpec
CONSTANTS
  OrderId = {1, 2, 3}
  Price = {10000, 10001, 10002}
  Timestamp = {0, 1, 2, 3, 4, 5, 6, 7, 8}
  Word = 1000
  Cycles = 3
  MaxPasses = 2
  EventCount = 9
  Event = {1, 2, 3, 4, 5, 6, 7, 8, 9}
  Capacity = 4
  SequenceWord = 16
  NoEvent = NoEvent
  Torn = Torn
INVARIANTS
  InOrder
  EmptyWhenJoined
PROPERTIES
  AllDelivered
  ImplementsDirectReplay
