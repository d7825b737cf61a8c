\* Two callbacks in a row, or one and a heartbeat or ping that draws a number
\* between its own; the queue overflows.
CONSTANTS
  alice = alice
  bob = bob
  Uids = {alice, bob}
  ClientIds = {1, 2}
  Channels = {lobby}
  NoChannel = nowhere
  MaxUsers = 2
  ChatHistory = 0
  StaleAfter = 0
  Servers = {home}
  NoServer = none
  Unnamed = unnamed
  Profiles <- TwoPeople
  QueueDepth = 3
  WireDepth = 1
  MaxStirs = 2
SPECIFICATION Spec
VIEW StreamView
INVARIANT TypeOK
INVARIANT ConvergedUnlessMissed
INVARIANT BacklogBounded
PROPERTY EventuallyAgrees
\* TeamSpeak may fall silent for good: then everything is at rest.
CHECK_DEADLOCK FALSE
