\* The greeting without its exception.
CONSTANTS
  alice = alice
  bob = bob
  Uids = {alice, bob}
  ClientIds = {1, 2}
  Channels = {lobby}
  NoChannel = nowhere
  MaxUsers = 2
  ChatHistory = 0
  StaleAfter = 0
  Servers = {home}
  NoServer = none
  Unnamed = unnamed
  Profiles <- Strangers
  QueueDepth = 3
  WireDepth = 1
  MaxStirs = 1
SPECIFICATION Spec
VIEW StreamView
INVARIANT ConvergedWhenQuiet
\* TeamSpeak may fall silent for good: then everything is at rest.
CHECK_DEADLOCK FALSE
