----------------------------- MODULE PluginCore -----------------------------
(***************************************************************************)
(* The TeamSpeak plugin's side: TsState (ts_state.cpp), which remembers    *)
(* what TeamSpeak last said about the current channel, and PluginCore      *)
(* (plugin_core.cpp), whose callbacks update it and broadcast what changed.*)
(*                                                                         *)
(* TeamSpeak runs the callbacks one after another on its own thread.  A    *)
(* callback is a script: each refresh_snapshot_cache() and each broadcast  *)
(* is a step of it, for the IPC threads read the cache in between.  What   *)
(* TeamSpeak answers to a query is not under the plugin's control and is   *)
(* any answer of the right kind.  state_ itself is read by the callback    *)
(* thread only, and every change to it ends in a refresh, so the cache     *)
(* stands for both.  Contacts, chat and names are left out.                *)
(***************************************************************************)
EXTENDS OverlayModel

CONSTANTS Servers,         \* TeamSpeak server connections (tabs)
          NoServer,        \* active_server_ = 0
          Unnamed,         \* a channel whose name TeamSpeak does not give
          Profiles         \* the rows read_user() may return

ASSUME PluginAssumption == /\ NoServer \notin Servers
                           /\ Unnamed \notin Channels \cup {NoChannel}
                           /\ \A p \in Profiles : /\ p \in UserState
                                                  /\ ~p.talking /\ ~p.whispering

VARIABLES cache,           \* snapshot_cache_
          script,          \* what the running callback still has to do
          active,          \* active_server_
          lastConnection   \* last_connection_

pluginVars == <<cache, script, active, lastConnection>>

Refresh(c)  == <<[do |-> "refresh", cache |-> c]>>
Send(m)     == <<[do |-> "send", msg |-> m]>>
Snapshot(c) == [type |-> "state_snapshot", users |-> c.users, channel |-> c.channel,
                connection |-> c.connection]
SendSnapshot(c) == Send(Snapshot(c))                      \* emit_snapshot

Offline == [users |-> <<>>, channel |-> NoChannel, connection |-> "disconnected"]

\* What channel_clients and read_user may answer: each client once, and no
\* more than resynchronise keeps.
Gatherings == {g \in SeqOf(Profiles, MaxUsers) :
                 \A i, j \in DOMAIN g : g[i].cid = g[j].cid => i = j}

\* Either nothing has happened yet or TeamSpeak is connected and quiet.
PluginInit ==
  /\ script = <<>>
  /\ \/ /\ cache = Offline
        /\ active = NoServer
        /\ lastConnection = "disconnected"
     \/ /\ \E channel \in Channels, g \in Gatherings :
             cache = [users |-> g, channel |-> channel, connection |-> "connected"]
        /\ active \in Servers
        /\ lastConnection = "connected"

-----------------------------------------------------------------------------
(* TsState. *)

\* set_connection(): anything but connected empties the roster.
SetConnection(c, connection) ==
  IF connection = "connected" THEN [c EXCEPT !.connection = connection]
  ELSE [c EXCEPT !.connection = connection, !.users = <<>>, !.channel = NoChannel]

\* Talking and whispering survive a re-read of the roster, by unique id.
BusyRow(c, u) ==
  SelectInSeq(c.users, LAMBDA r : r.uid = u /\ (r.talking \/ r.whispering))
KeepTalking(c, p) ==
  LET was == BusyRow(c, p.uid)
  IN  IF was = 0 THEN p
      ELSE [p EXCEPT !.talking = c.users[was].talking,
                     !.whispering = c.users[was].whispering]

\* resynchronise(): an answer without a channel leaves nobody to list.  Where
\* read_channel() fails, the channel stays what it was and the roster does not.
Resynchronise(c, channel, g) ==
  IF channel = NoChannel THEN [c EXCEPT !.users = <<>>, !.channel = NoChannel]
  ELSE [c EXCEPT !.channel = IF channel = Unnamed THEN @ ELSE channel,
                 !.users = [i \in DOMAIN g |-> KeepTalking(c, g[i])]]

Holds(users, u) == FirstRow(users, u) # 0

-----------------------------------------------------------------------------
(* PluginCore's messages. *)

Joined(p)   == Send([type |-> "user_joined", user |-> p])
Left(p)     == Send([type |-> "user_left", who |-> p.uid])
Connected(connection) == Send([type |-> "connection_changed", connection |-> connection])

JoinedOf(before, after) ==
  FlattenSeq([i \in DOMAIN after |->
                IF Holds(before, after[i].uid) THEN <<>> ELSE Joined(after[i])])
LeftOf(before, after) ==
  FlattenSeq([i \in DOMAIN before |->
                IF Holds(after, before[i].uid) THEN <<>> ELSE Left(before[i])])

\* resync_and_report(): whoever came or went since, then everything.
Report(c, channel, g) ==
  LET now == Resynchronise(c, channel, g)
  IN  Refresh(now) \o JoinedOf(c.users, now.users) \o LeftOf(c.users, now.users)
        \o SendSnapshot(now)

Resent(c, channel, g) ==   \* resynchronise, emit_snapshot
  LET now == Resynchronise(c, channel, g) IN Refresh(now) \o SendSnapshot(now)

-----------------------------------------------------------------------------
(* PluginCore's callbacks, each with what TeamSpeak answers while it runs: *)
(* the channel we are in and who is in it.  Each starts when the one       *)
(* before has returned.                                                    *)

Does(steps) == script = <<>> /\ script' = steps /\ UNCHANGED cache
Here         == Channels \cup {NoChannel}
SaidChannels == Here \cup {Unnamed}

\* Mutant: compares with what the state says and not with what was announced.
AnnouncesNews(connection) ==
  IF connection # cache.connection THEN Connected(connection) ELSE <<>>

\* A repeat is not announced.
Announces(connection) ==
  IF connection # lastConnection THEN Connected(connection) ELSE <<>>

\* A tab that has connected is followed from then on; any other news of a tab
\* counts only while it, or none, is followed.
Concerns(server, connection) ==
  connection = "connected" \/ server = active \/ active = NoServer

OnConnectStatusChanged(server, connection, channel, g) ==
  LET now     == SetConnection(cache, connection)
      settled == IF connection = "connected" THEN Resynchronise(now, channel, g) ELSE now
  IN  /\ Concerns(server, connection)
      /\ active' = CASE connection = "connected" -> server
                      [] connection = "disconnected" /\ server = active -> NoServer
                      [] OTHER -> active
      /\ lastConnection' = connection
      /\ Does(Refresh(now)
                \o (IF connection = "connected" THEN Refresh(settled) ELSE <<>>)
                \o Announces(connection) \o SendSnapshot(settled))

\* on_client_moved() about ourselves, leaving the server or changing channel.
OnSelfLeft ==
  /\ Does(Refresh(Offline) \o SendSnapshot(Offline))
  /\ UNCHANGED <<active, lastConnection>>

OnSelfMoved(channel, g) ==
  LET now == Resynchronise(cache, channel, g)
  IN  /\ Does(Refresh(now)
                \o Send([type |-> "channel_changed", channel |-> now.channel])
                \o SendSnapshot(now))
      /\ UNCHANGED <<active, lastConnection>>

\* on_client_moved() about somebody who comes into our channel.  If read_user
\* can say who it is, add_user takes them in, unless they were there already or
\* there is no room; otherwise, and then too, the channel is read again.
OnKnownMovedIn(p, channel, g) ==
  LET at == ClientRow(cache.users, p.cid)
  IN  /\ cache.channel # NoChannel
      /\ \/ /\ at = 0 /\ Len(cache.users) < MaxUsers
            /\ Does(Refresh([cache EXCEPT !.users = Append(@, p)]) \o Joined(p))
         \/ /\ at = 0 /\ Len(cache.users) >= MaxUsers
            /\ Does(Report(cache, channel, g))
         \/ /\ at # 0
            /\ LET kept == [cache EXCEPT !.users[at] = p]
               IN  Does(Refresh(kept) \o Report(kept, channel, g))
      /\ UNCHANGED <<active, lastConnection>>

OnUnknownMovedIn(channel, g) ==
  /\ cache.channel # NoChannel
  /\ Does(Report(cache, channel, g))
  /\ UNCHANGED <<active, lastConnection>>

\* ... and out of it.
OnClientMovedOut(cid, channel, g) ==
  LET at == ClientRow(cache.users, cid)
  IN  /\ cache.channel # NoChannel
      /\ IF at # 0
         THEN Does(Refresh([cache EXCEPT !.users = RemoveAt(@, at)])
                     \o Left(cache.users[at]))
         ELSE Does(Report(cache, channel, g))
      /\ UNCHANGED <<active, lastConnection>>

\* A visible change only: set_talking() says whether anything changed.
OnTalkStatusChanged(at, talking, received) ==
  LET was == cache.users[at]
      is  == [was EXCEPT !.talking = talking, !.whispering = talking /\ received]
  IN  /\ was # is
      /\ Does(Refresh([cache EXCEPT !.users[at] = is])
                \o Send([type |-> "speaking_changed", who |-> is.uid,
                         talking |-> talking, whisper |-> is.whispering])
                \o (IF was.whispering # is.whispering
                     THEN Send([type |-> "whisper_changed", who |-> is.uid,
                                active |-> is.whispering])
                     ELSE <<>>))
      /\ UNCHANGED <<active, lastConnection>>

\* on_channel_updated() about our channel, on_subscription_finished().
OnChannelRefreshed(channel, g) ==
  Does(Resent(cache, channel, g)) /\ UNCHANGED <<active, lastConnection>>

\* Mutant: the roster of the tab that was left is not cleared first.
SwitchUncleared(server, channel, g) ==
  /\ server # active
  /\ active' = server
  /\ LET up == SetConnection(cache, "connected")
     IN  Does(Refresh(up) \o Resent(up, channel, g))
  /\ UNCHANGED lastConnection

OnCurrentServerChanged(server, channel, g) ==
  /\ server # active
  /\ active' = server
  /\ LET up == SetConnection(Offline, "connected")
     IN  Does(Refresh(Offline) \o Refresh(up) \o Resent(up, channel, g))
  /\ UNCHANGED lastConnection

OnServerStopped ==
  /\ active' = NoServer
  /\ lastConnection' = "disconnected"
  /\ LET now == SetConnection(cache, "disconnected")
     IN  Does(Refresh(now) \o Connected("disconnected") \o SendSnapshot(now))

-----------------------------------------------------------------------------
(* A TeamSpeak that may call anything, and answer anything, at any time.   *)

Answers(Call(_, _)) == \E channel \in SaidChannels, g \in Gatherings : Call(channel, g)
Following == active # NoServer

ConnectStatusChanged ==
  \E server \in Servers, connection \in Connections :
    Answers(LAMBDA c, g : OnConnectStatusChanged(server, connection, c, g))

CurrentServerChanged ==
  \E server \in Servers : Answers(LAMBDA c, g : OnCurrentServerChanged(server, c, g))

ServerStopped    == Following /\ OnServerStopped
SelfLeft         == Following /\ OnSelfLeft
SelfMoved        == Following /\ Answers(OnSelfMoved)
ChannelRefreshed == Following /\ Answers(OnChannelRefreshed)

ClientMovedIn ==
  /\ Following
  /\ \/ \E p \in Profiles : Answers(LAMBDA c, g : OnKnownMovedIn(p, c, g))
     \/ Answers(OnUnknownMovedIn)

ClientMovedOut ==
  Following /\ \E cid \in ClientIds : Answers(LAMBDA c, g : OnClientMovedOut(cid, c, g))

TalkStatusChanged ==
  Following /\ \E at \in DOMAIN cache.users, talking \in BOOLEAN, received \in BOOLEAN :
                 OnTalkStatusChanged(at, talking, received)

\* A whisper from somebody who is not in our channel.
WhisperFromElsewhere ==
  /\ active # NoServer
  /\ \E p \in Profiles :
       /\ ClientRow(cache.users, p.cid) = 0
       /\ Does(Send([type |-> "whisper_changed", who |-> p.uid, active |-> TRUE]))
  /\ UNCHANGED <<active, lastConnection>>

\* on_client_updated(), and on_self_variable_updated() through it.
ClientUpdated ==
  /\ active # NoServer
  /\ \E p \in Profiles :
       LET at  == ClientRow(cache.users, p.cid)
           was == cache.users[at]
           is  == [p EXCEPT !.talking = was.talking, !.whispering = was.whispering]
       IN  /\ at # 0
           /\ was.commander # is.commander \/ was.muted # is.muted
           /\ Does(Refresh([cache EXCEPT !.users[at] = is])
                     \o Send([type |-> "user_updated", user |-> is])
                     \o (IF was.commander # is.commander
                          THEN Send([type |-> "commander_changed", who |-> is.uid,
                                     commander |-> is.commander]) ELSE <<>>)
                     \o (IF was.muted # is.muted
                          THEN Send([type |-> "mute_changed", who |-> is.uid,
                                     muted |-> is.muted]) ELSE <<>>))
  /\ UNCHANGED <<active, lastConnection>>

Callback ==
  \/ ConnectStatusChanged \/ CurrentServerChanged \/ ServerStopped
  \/ SelfLeft \/ SelfMoved \/ ClientMovedIn \/ ClientMovedOut
  \/ TalkStatusChanged \/ WhisperFromElsewhere \/ ClientUpdated \/ ChannelRefreshed

\* refresh_snapshot_cache(), under snapshot_mutex_.
RefreshCache ==
  /\ script # <<>> /\ Head(script).do = "refresh"
  /\ cache' = Head(script).cache
  /\ script' = Tail(script)
  /\ UNCHANGED <<active, lastConnection>>
=============================================================================
