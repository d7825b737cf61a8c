\* Two fields are enough to tear a frame; five publishes let the producer
\* lap the consumer through all three slots while it reads one frame.
CONSTANTS
  FieldCount = 2
  MaxRevision = 5
SPECIFICATION Spec
INVARIANT TypeOK
INVARIANT SlotsDisjoint
INVARIANT NoTornFrame
PROPERTY NeverOlder
PROPERTY NewestIsShown
PROPERTY ImplementsLatestFrame
