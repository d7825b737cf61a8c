\* Two people competing for one place on the roster, a peer that numbers its
\* lines as it likes, and with times that may lie behind.
CONSTANTS
  Uids = {a, b}
  ClientIds = {1}
  Channels = {c1}
  NoChannel = none
  MaxUsers = 1
  ChatHistory = 1
  StaleAfter = 1
  Users <- MCUsers
  Rosters <- MCRosters
  Texts = {hi}
  Skews = {0, 1}
  MaxSeq = 2
  MaxTime = 3
SPECIFICATION SessionSpec
VIEW SessionView
SYMMETRY Alike
INVARIANT SessionTypeOK
INVARIANT RosterWithinLimit
INVARIANT StaleMeansSilent
INVARIANT OneRequestPerSilence
PROPERTY GapAsks
