\* Three calls of the add-on against a plugin that may do anything.
CONSTANTS
  Endpoints = {old, new}
  Subscriptions = {quiet, chatty}
  Undeclared = none
  MaxCalls = 3
  MaxLines = 2
SPECIFICATION Spec
INVARIANT TypeOK
INVARIANT ActiveIsOpen
INVARIANT NoListWithoutLink
INVARIANT DeclaredUnlessSlipped
PROPERTY StopReturns
PROPERTY OldEndpointIsLeft
\* A client that was never started, or was stopped for good, is at rest.
CHECK_DEADLOCK FALSE
