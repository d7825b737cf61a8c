----------------------------- MODULE PluginTabs -----------------------------
(***************************************************************************)
(* PluginCore under a TeamSpeak client that has several server tabs open.  *)
(* PluginCore itself lets TeamSpeak say anything at any time; here it says *)
(* what is so: every tab has a connection, and people in its channels who  *)
(* come, go and talk; each change is told by a callback, in order; and a   *)
(* query is answered with what is so when it is asked, which may be ahead  *)
(* of the callbacks still to come; that a channel it says we are in has no *)
(* name yet is left to PluginCore.  The question is whether the overlay    *)
(* follows "the tab the user is actually on".                              *)
(*                                                                         *)
(* Two people, each with a unique id of their own, the same on every       *)
(* server as their client ids are.                                         *)
(***************************************************************************)
EXTENDS PluginCore, Ordering

CONSTANTS Me, Ann,         \* client ids
          WhoIs,           \* the row read_user() returns, by client id
          MaxBehind        \* bound on the callbacks that are still to come

ASSUME TabsAssumption == /\ ClientIds = {Me, Ann} /\ ClientIds \subseteq Nat
                         /\ Profiles = {WhoIs[c] : c \in ClientIds}
                         /\ \A c \in ClientIds : WhoIs[c].cid = c
                         /\ WhoIs[Me].uid # WhoIs[Ann].uid
                         /\ MaxUsers > 1    \* room for both: it is 512
                         /\ MaxBehind \in Nat

VARIABLES status,          \* of each tab's connection
          place,           \* on each tab, the channel each client is in
          talks,           \* on each tab, whether Ann talks
          foreground,      \* the tab the user is on
          coming,          \* callbacks still to come
          announced,       \* the last connection_changed that was broadcast
          switched,        \* history: the user has changed tabs
          takenOver        \* history: a tab took over that the user is not on

world == <<status, place, talks, foreground>>
told  == <<announced, switched, takenOver>>
tabVars == <<pluginVars, world, coming, told>>

\* TeamSpeak's own states of a connection, and the plugin's for them.  Only an
\* established one has channels and clients; on the way there "entered"
\* (STATUS_CONNECTED) and "establishing" may come in either order.
Mapped(s) == CASE s \in {"entered", "established"}      -> "connected"
               [] s \in {"connecting", "establishing"} -> "connecting"
               [] s = "disconnected"                   -> "disconnected"

Halfway == {"entered", "establishing"}
Nowhere == [c \in ClientIds |-> NoChannel]

\* What the queries answer about a tab.
OwnKnown(t)    == status[t] = "established"
ChannelOf(t)   == IF OwnKnown(t) THEN place[t][Me] ELSE NoChannel
PresentOn(t)   == IF ChannelOf(t) = NoChannel THEN {}
                  ELSE {c \in ClientIds : place[t][c] = ChannelOf(t)}
InView(t, c)   == OwnKnown(t) /\ place[t][c] # NoChannel
GatheredOn(t)  == LET clients == Ascending(PresentOn(t))
                  IN  [i \in DOMAIN clients |-> WhoIs[clients[i]]]

TabsInit ==
  /\ foreground \in Servers
  /\ status \in [Servers -> {"disconnected", "established"}]
  /\ \E here \in Channels :
       place = [t \in Servers |->
                  IF status[t] = "established" THEN [c \in ClientIds |-> here] ELSE Nowhere]
  /\ talks = [t \in Servers |-> FALSE]
  /\ coming = <<>> /\ script = <<>>
  /\ lastConnection = Mapped(status[foreground])
  /\ active = IF OwnKnown(foreground) THEN foreground ELSE NoServer
  /\ cache = IF OwnKnown(foreground)
             THEN [users |-> GatheredOn(foreground), channel |-> ChannelOf(foreground),
                   connection |-> "connected"]
             ELSE Offline
  /\ announced = lastConnection
  /\ switched = FALSE /\ takenOver = FALSE

-----------------------------------------------------------------------------
(* What happens in the TeamSpeak client.  Each change has its callbacks.   *)

Tells(calls) ==
  /\ Len(coming) + Len(calls) <= MaxBehind
  /\ coming' = coming \o calls
  /\ UNCHANGED <<pluginVars, announced, takenOver>>

Status(t, s)          == [is |-> "status", tab |-> t, status |-> Mapped(s)]
Moved(t, c, from, to) == [is |-> "moved", tab |-> t, who |-> c, from |-> from, to |-> to]
Talking(t, on)        == [is |-> "talking", tab |-> t, on |-> on]
Stopped(t)            == [is |-> "stopped", tab |-> t]
Subscribed(t)         == [is |-> "subscribed", tab |-> t]
Current(t)            == [is |-> "current", tab |-> t]

Connects(t) ==
  /\ \/ status[t] = "disconnected" /\ status' = [status EXCEPT ![t] = "connecting"]
     \/ status[t] = "connecting" /\ \E s \in Halfway : status' = [status EXCEPT ![t] = s]
     \/ \E s \in Halfway \ {status[t]} :
          status[t] \in Halfway /\ status' = [status EXCEPT ![t] = s]
  /\ Tells(<<Status(t, status'[t])>>)
  /\ UNCHANGED <<place, talks, foreground, switched>>

Establishes(t) ==
  /\ status[t] \in Halfway
  /\ status' = [status EXCEPT ![t] = "established"]
  /\ \E mine \in Channels, anns \in Here :
       place' = [place EXCEPT ![t] = [c \in ClientIds |-> IF c = Me THEN mine ELSE anns]]
  /\ Tells(<<Status(t, "established")>>)
  /\ UNCHANGED <<talks, foreground, switched>>

\* A lost connection, or the user's own doing.
Disconnects(t) ==
  /\ status[t] # "disconnected"
  /\ status' = [status EXCEPT ![t] = "disconnected"]
  /\ place' = [place EXCEPT ![t] = Nowhere]
  /\ talks' = [talks EXCEPT ![t] = FALSE]
  /\ Tells(<<Status(t, "disconnected")>>)
  /\ UNCHANGED <<foreground, switched>>

ServerStops(t) ==
  /\ OwnKnown(t)
  /\ status' = [status EXCEPT ![t] = "disconnected"]
  /\ place' = [place EXCEPT ![t] = Nowhere]
  /\ talks' = [talks EXCEPT ![t] = FALSE]
  /\ Tells(<<Stopped(t), Status(t, "disconnected")>>)
  /\ UNCHANGED <<foreground, switched>>

\* Into a channel, or off the server; for ourselves that comes before the
\* change of status.
Moves(t) ==
  /\ OwnKnown(t)
  /\ \E c \in ClientIds, to \in Here :
       /\ to # place[t][c]
       /\ c = Ann \/ place[t][Me] # NoChannel
       /\ place' = [place EXCEPT ![t][c] = to]
       /\ talks' = [talks EXCEPT ![t] = @ /\ place'[t][Ann] # NoChannel]
       /\ Tells(<<Moved(t, c, place[t][c], to)>>)
  /\ UNCHANGED <<status, foreground, switched>>

Talks(t) ==
  /\ OwnKnown(t) /\ place[t][Ann] # NoChannel
  /\ talks' = [talks EXCEPT ![t] = ~@]
  /\ Tells(<<Talking(t, talks'[t])>>)
  /\ UNCHANGED <<status, place, foreground, switched>>

Subscribes(t) ==
  /\ OwnKnown(t)
  /\ Tells(<<Subscribed(t)>>)
  /\ UNCHANGED <<status, place, talks, foreground, switched>>

SwitchesTo(t) ==
  /\ t # foreground
  /\ foreground' = t
  /\ switched' = TRUE
  /\ Tells(<<Current(t)>>)
  /\ UNCHANGED <<status, place, talks>>

-----------------------------------------------------------------------------
(* The callbacks, in order.  One about a tab that is not followed returns  *)
(* at once, is_active_server().                                            *)

Arrives(kind) ==
  /\ script = <<>> /\ coming # <<>> /\ Head(coming).is = kind
  /\ coming' = Tail(coming)
  /\ UNCHANGED <<world, announced, switched>>

Call    == Head(coming)
IsActive(t) == active # NoServer /\ t = active
Returns == UNCHANGED pluginVars
Told(On(_, _)) == On(ChannelOf(Call.tab), GatheredOn(Call.tab))

StatusArrives ==
  /\ Arrives("status")
  /\ IF Concerns(Call.tab, Call.status)
     THEN /\ Told(LAMBDA c, g : OnConnectStatusChanged(Call.tab, Call.status, c, g))
          /\ takenOver' = (takenOver \/ (Call.tab # active /\
                                           (active # NoServer \/ Call.tab # foreground)))
     ELSE Returns /\ UNCHANGED takenOver

\* own_client_id() fails once the connection is gone: then our own departure
\* is somebody's.
SelfMoveArrives ==
  /\ Arrives("moved")
  /\ IsActive(Call.tab) /\ Call.who = Me /\ OwnKnown(Call.tab)
  /\ IF Call.to = NoChannel THEN OnSelfLeft ELSE Told(OnSelfMoved)
  /\ UNCHANGED takenOver

MoveArrives ==
  /\ Arrives("moved")
  /\ ~(IsActive(Call.tab) /\ Call.who = Me /\ OwnKnown(Call.tab))
  /\ LET ours == cache.channel
         in   == Call.to = ours /\ Call.from # ours
         out  == Call.from = ours /\ Call.to # ours
     IN  IF IsActive(Call.tab) /\ ours # NoChannel /\ (in \/ out)
         THEN IF out THEN Told(LAMBDA c, g : OnClientMovedOut(Call.who, c, g))
              ELSE IF InView(Call.tab, Call.who)
              THEN Told(LAMBDA c, g : OnKnownMovedIn(WhoIs[Call.who], c, g))
              ELSE Told(OnUnknownMovedIn)
         ELSE Returns
  /\ UNCHANGED takenOver

TalkArrives ==
  /\ Arrives("talking")
  /\ LET at == ClientRow(cache.users, Ann)
     IN  IF IsActive(Call.tab) /\ at # 0 /\ cache.users[at].talking # Call.on
         THEN OnTalkStatusChanged(at, Call.on, FALSE)
         ELSE Returns
  /\ UNCHANGED takenOver

StopArrives ==
  /\ Arrives("stopped")
  /\ IF IsActive(Call.tab) THEN OnServerStopped ELSE Returns
  /\ UNCHANGED takenOver

SubscriptionArrives ==
  /\ Arrives("subscribed")
  /\ IF IsActive(Call.tab) THEN Told(OnChannelRefreshed) ELSE Returns
  /\ UNCHANGED takenOver

SwitchArrives ==
  /\ Arrives("current")
  /\ IF Call.tab # active
     THEN /\ Told(LAMBDA c, g : OnCurrentServerChanged(Call.tab, c, g))
          /\ takenOver' = FALSE
     ELSE Returns /\ UNCHANGED takenOver

Refreshes == RefreshCache /\ UNCHANGED <<world, coming, told>>

Broadcasts ==
  /\ script # <<>> /\ Head(script).do = "send"
  /\ script' = Tail(script)
  /\ announced' = IF Head(script).msg.type = "connection_changed"
                  THEN Head(script).msg.connection ELSE announced
  /\ UNCHANGED <<cache, active, lastConnection, world, coming, switched, takenOver>>

Happens == \E t \in Servers :
  \/ Connects(t) \/ Establishes(t) \/ Disconnects(t) \/ ServerStops(t)
  \/ Moves(t) \/ Talks(t) \/ Subscribes(t) \/ SwitchesTo(t)

Arrival == \/ StatusArrives \/ SelfMoveArrives \/ MoveArrives \/ TalkArrives
           \/ StopArrives \/ SubscriptionArrives \/ SwitchArrives

TabsNext == Happens \/ Arrival \/ Refreshes \/ Broadcasts

TabsSpec == TabsInit /\ [][TabsNext]_tabVars

-----------------------------------------------------------------------------
(* Properties. *)

Settled == coming = <<>> /\ script = <<>>

\* Once the callbacks have been served the overlay is told of the channel of
\* the tab the user is on and of exactly the people in it, nobody talks there
\* who does not, and that tab is the one followed; however the user switched
\* tabs, connections broke and people moved, and although queries run ahead of
\* the callbacks.  Except while a tab that is not the user's has taken over,
\* as any that connects does (plugin_core.cpp:163).
ShownIsTheTab ==
  (Settled /\ ~takenOver) =>
    /\ cache.channel = ChannelOf(foreground)
    /\ {cache.users[i].cid : i \in DOMAIN cache.users} = PresentOn(foreground)
    /\ Len(cache.users) = Cardinality(PresentOn(foreground))
    /\ \A i \in DOMAIN cache.users :
         cache.users[i].talking => cache.users[i].cid = Ann /\ talks[foreground]
    /\ Mapped(status[foreground]) = "connected" => active = foreground

\* What connection_changed last said is so: no loss and no return goes without
\* its announcement.  Except after the user has changed tabs, for that leaves
\* last_connection_ as it was (plugin_core.cpp:502), and after a takeover.
ConnectionAsAnnounced ==
  (Settled /\ ~takenOver /\ ~switched) => announced = Mapped(status[foreground])
=============================================================================
