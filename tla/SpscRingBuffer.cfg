\* Two slots and sequences that wrap around every four events.
SPECIFICATION Spec
CONSTANTS
  Event = {e1, e2}
  Capacity = 2
  SequenceWord = 4
  NoEvent = NoEvent
  Torn = Torn
INVARIANTS
  NoSlotConflict
  PublishedSlotsIntact
  OwnerSizeInBounds
  SeenIsConservative
  ToldIsReliable
PROPERTIES
  ImplementsBoundedFifo
