\* An overlay that vanishes, and one that comes after it.
CONSTANTS
  MaxSessions = 1
  MaxClients = 1
  MaxStirs = 2
SPECIFICATION Spec
PROPERTY ClientIsAnswered
\* A server that is stopped, or that nobody uses, is at rest.
CHECK_DEADLOCK FALSE
