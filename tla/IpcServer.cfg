\* Two overlays after each other, or one refused for the other; or one that
\* speaks, is broadcast to, or whose writer wakes without cause.
CONSTANTS
  MaxSessions = 2
  MaxClients = 1
  MaxStirs = 2
SPECIFICATION Spec
INVARIANT TypeOK
INVARIANT JoinsWaitForNoPeer
INVARIANT OpenWithinLimit
PROPERTY StopReturnsUnlessLost
PROPERTY VanishedIsJoinedUnlessLost
\* A server that is stopped, or that nobody uses, is at rest.
CHECK_DEADLOCK FALSE
