\* Two tabs, two channels, two people; TeamSpeak is up to two callbacks ahead.
CONSTANTS
  Me = 1
  Ann = 2
  me = me
  ann = ann
  WhoIs <- Everybody
  Uids = {me, ann}
  ClientIds = {1, 2}
  Channels = {lobby, den}
  NoChannel = nowhere
  MaxUsers = 2
  Servers = {home, away}
  NoServer = none
  Unnamed = unnamed
  Profiles <- Anybody
  MaxBehind = 2
SPECIFICATION TabsSpec
SYMMETRY Alike
INVARIANT ShownIsTheTab
INVARIANT ConnectionAsAnnounced
