----------------------------- MODULE StateStore -----------------------------
(***************************************************************************)
(* The overlay's replica of the TeamSpeak state (state_store.cpp): every   *)
(* decoded envelope goes through apply(), every turn of the IPC thread     *)
(* through tick(), and the end of a session through on_disconnected().     *)
(*                                                                         *)
(* A message is a record: type, seq, ts, good (its payload decodes) and    *)
(* the payload.  A user is a row keyed by unique_id: two connections of    *)
(* one identity are two rows with one uid, told apart only by the cid.     *)
(* decode_user and read_identity refuse a payload without a unique_id, so  *)
(* mutable_user's fallback on client_id is never taken.  Names, statistics *)
(* and round-trip times are left out.                                      *)
(***************************************************************************)
EXTENDS OverlayModel

CONSTANTS ChatHistory,     \* cfg_.chat_history
          StaleAfter       \* cfg_.stale_after_ms

ASSUME StoreAssumption == ChatHistory \in Nat /\ StaleAfter \in Nat

VARIABLES state,           \* state_: the OverlayState on show, its users a sequence
          track,           \* handshaken_, have_seq_, last_seq_, stale_reported_
          chat,            \* chat_
          events,          \* what the last call appended to `events`
          reply            \* the StoreAction the last call returned

storeVars == <<state, track, chat, events, reply>>

Replies == {"None", "RequestSnapshot", "Disconnect"}

ClientToServer == {"client_hello", "configuration_updated", "request_snapshot", "ping"}

Event(kind, who) == [kind |-> kind, who |-> who]

StoreInit ==
  /\ state = [users |-> <<>>, channel |-> NoChannel, connection |-> "disconnected",
              synchronised |-> FALSE, stale |-> FALSE, lastEvent |-> 0]
  /\ track = [handshaken |-> FALSE, haveSeq |-> FALSE, lastSeq |-> 0,
              staleReported |-> FALSE]
  /\ chat = <<>>
  /\ events = <<>>
  /\ reply = "None"

-----------------------------------------------------------------------------
(* Rosters: mutable_user() finds the first row with the unique id. *)

Row(s, u)   == FirstRow(s.users, u)
Lists(s, u) == Row(s, u) # 0

FullTooLate(s) == Len(s.users) > MaxUsers                \* mutant: one too many
Full(s)        == Len(s.users) >= MaxUsers

-----------------------------------------------------------------------------
(* What one message does to the state: the state after it, the events it   *)
(* appends, and the action its own case asks for.                          *)

Effect(s, evts, act) == [state |-> s, events |-> evts, act |-> act]
Nothing(s)           == Effect(s, <<>>, "None")
Changed(kind, u, before, after) == IF before = after THEN <<>> ELSE <<Event(kind, u)>>
StartStop(start, stop, u, before, after) ==
  Changed(IF after THEN start ELSE stop, u, before, after)

OnHello(s, m) ==           \* a version range without ours ends the session
  Effect(s, <<>>, IF m.good /\ m.versionOk THEN "None" ELSE "Disconnect")

OnSnapshot(s, m) ==        \* no more than kMaxUsersPerSnapshot of its users
  Effect([s EXCEPT !.users = SubSeq(m.users, 1, Min({Len(m.users), MaxUsers})),
                   !.channel = m.channel, !.connection = m.connection,
                   !.synchronised = TRUE],
         IF NoChannel \notin {s.channel, m.channel}
           THEN Changed("ChannelChanged", m.channel, s.channel, m.channel) ELSE <<>>,
         "None")

OnConnectionChanged(s, m) ==
  LET now == [s EXCEPT !.connection = m.connection]
  IN  Effect(IF m.connection = "connected" THEN now
             ELSE [now EXCEPT !.users = <<>>, !.channel = NoChannel,
                              !.synchronised = FALSE],
             Changed("ConnectionChanged", m.connection, s.connection, m.connection),
             "None")

OnChannelChanged(s, m) ==
  Effect([s EXCEPT !.channel = m.channel, !.users = <<>>, !.synchronised = FALSE],
         <<Event("ChannelChanged", m.channel)>>, "RequestSnapshot")

OnUserJoined(s, m) ==
  IF ~Lists(s, m.user.uid) /\ Full(s) THEN Nothing(s)
  ELSE Effect(IF Lists(s, m.user.uid)
              THEN [s EXCEPT !.users[Row(s, m.user.uid)] = m.user]
              ELSE [s EXCEPT !.users = Append(@, m.user)],
              <<Event("UserJoined", m.user.uid)>>, "None")

OnUserLeft(s, m) ==
  Effect(IF Lists(s, m.who) THEN [s EXCEPT !.users = RemoveAt(@, Row(s, m.who))] ELSE s,
         <<Event("UserLeft", m.who)>>, "None")

OnUserUpdated(s, m) ==     \* talking and whispering belong to other messages
  LET at == Row(s, m.user.uid)
  IN  IF Lists(s, m.user.uid)
      THEN Effect([s EXCEPT !.users[at] =
                      [m.user EXCEPT !.talking = s.users[at].talking,
                                     !.whispering = s.users[at].whispering]],
                  Changed("CommanderChanged", m.user.uid,
                          s.users[at].commander, m.user.commander),
                  "None")
      ELSE Effect(IF Full(s) THEN s ELSE [s EXCEPT !.users = Append(@, m.user)],
                  <<>>, "RequestSnapshot")

OnSpeakingChanged(s, m) ==
  LET at == Row(s, m.who)
      whispering == m.talking /\ m.whisper
  IN  Effect([s EXCEPT !.users[at].talking = m.talking,
                       !.users[at].whispering = whispering],
             StartStop("SpeakingStarted", "SpeakingStopped", m.who,
                       s.users[at].talking, m.talking)
               \o StartStop("WhisperStarted", "WhisperStopped", m.who,
                            s.users[at].whispering, whispering),
             "None")

OnMuteChanged(s, m) ==     \* an omitted field leaves what is known
  IF m.muted = "unknown" THEN Nothing(s)
  ELSE Nothing([s EXCEPT !.users[Row(s, m.who)].muted = m.muted])

OnCommanderChanged(s, m) ==
  LET at == Row(s, m.who)
  IN  Effect([s EXCEPT !.users[at].commander = m.commander],
             Changed("CommanderChanged", m.who, s.users[at].commander, m.commander),
             "None")

OnWhisperChanged(s, m) ==  \* a whisperer elsewhere is announced, never listed
  LET at == Row(s, m.who)
  IN  IF Lists(s, m.who)
      THEN Effect([s EXCEPT !.users[at].whispering = m.active],
                  StartStop("WhisperStarted", "WhisperStopped", m.who,
                            s.users[at].whispering, m.active), "None")
      ELSE Effect(s, IF m.active THEN <<Event("WhisperStarted", m.who)>> ELSE <<>>, "None")

OnError(s, m) ==
  Effect(s, <<>>, IF m.good /\ ~m.fatal THEN "None" ELSE "Disconnect")

\* Payloads that do not decode are dropped, as are speaking, mute and
\* commander messages about someone who is not on the roster.
Ignored(s, m) ==
  \/ ~m.good
  \/ m.type \in {"heartbeat", "chat_message"}
  \/ /\ m.type \in {"speaking_changed", "mute_changed", "commander_changed"}
     /\ ~Lists(s, m.who)

Outcome(s, m) ==
  CASE m.type = "hello" -> OnHello(s, m)
    [] m.type = "error" -> OnError(s, m)
    [] m.type \notin {"hello", "error"} /\ Ignored(s, m) -> Nothing(s)
    [] OTHER -> CASE m.type = "state_snapshot"     -> OnSnapshot(s, m)
                  [] m.type = "connection_changed" -> OnConnectionChanged(s, m)
                  [] m.type = "channel_changed"    -> OnChannelChanged(s, m)
                  [] m.type = "user_joined"        -> OnUserJoined(s, m)
                  [] m.type = "user_left"          -> OnUserLeft(s, m)
                  [] m.type = "user_updated"       -> OnUserUpdated(s, m)
                  [] m.type = "speaking_changed"   -> OnSpeakingChanged(s, m)
                  [] m.type = "mute_changed"       -> OnMuteChanged(s, m)
                  [] m.type = "commander_changed"  -> OnCommanderChanged(s, m)
                  [] m.type = "whisper_changed"    -> OnWhisperChanged(s, m)

-----------------------------------------------------------------------------
(* apply(). *)

\* Hello starts a new sequence; otherwise anything not above last_seq_ is old.
Ordered(m) == m.type # "hello" /\ track.haveSeq
IsOld(m)  == Ordered(m) /\ m.seq <= track.lastSeq
IsGap(m)   == Ordered(m) /\ m.seq > track.lastSeq + 1

\* The peer sent a client-direction message.
Confused(m) ==
  /\ m.type \in ClientToServer
  /\ events' = <<>> /\ reply' = "Disconnect"
  /\ UNCHANGED <<state, track, chat>>

DropOld(m) ==
  /\ m.type \notin ClientToServer
  /\ IsOld(m)
  /\ events' = <<>> /\ reply' = "None"
  /\ UNCHANGED <<state, track, chat>>

\* mark_activity(): hearing anything ends staleness.
HeardButStale(s, ts) == [s EXCEPT !.lastEvent = ts]    \* mutant: stays stale
Heard(s, ts) == [s EXCEPT !.lastEvent = ts, !.stale = FALSE]

\* Joins the action of the message's own case to the one the gap asks for.
LastWord(a, b) == b                                    \* mutant: the gap is forgotten
Stronger(a, b) == IF "Disconnect" \in {a, b} THEN "Disconnect"
                  ELSE IF "RequestSnapshot" \in {a, b} THEN "RequestSnapshot" ELSE "None"

RememberAll(m) == Append(chat, m.text)                 \* mutant: unbounded history
Remember(m) ==             \* push_chat
  LET all == Append(chat, m.text)
  IN  IF Len(all) > ChatHistory THEN Tail(all) ELSE all

\* A snapshot, or the end of a silence, lets the next silence be reported.
StillReported(m) == /\ track.staleReported
                    /\ ~state.stale
                    /\ ~(m.type = "state_snapshot" /\ m.good)

Accept(m) ==
  /\ m.type \notin ClientToServer
  /\ ~IsOld(m)
  /\ LET chatted == m.type = "chat_message" /\ m.good
         e == Outcome(Heard(state, m.ts), m)
     IN  /\ state' = e.state
         /\ events' = (IF IsGap(m) THEN <<Event("Desynchronised", NoChannel)>> ELSE <<>>)
                        \o e.events
                        \o (IF chatted THEN <<Event("ChatMessage", m.text)>> ELSE <<>>)
         /\ reply' = Stronger(IF IsGap(m) THEN "RequestSnapshot" ELSE "None", e.act)
         /\ chat' = IF chatted THEN Remember(m) ELSE chat
         /\ track' = [handshaken |-> track.handshaken \/
                                       (m.type = "hello" /\ e.act = "None"),
                      haveSeq |-> TRUE, lastSeq |-> m.seq,
                      staleReported |-> StillReported(m)]

Apply(m) == Confused(m) \/ DropOld(m) \/ Accept(m)

-----------------------------------------------------------------------------
(* tick() and on_disconnected(). *)

Overdue(now) == /\ track.handshaken
                /\ state.lastEvent # 0
                /\ now > state.lastEvent + StaleAfter

\* Mutant: what was reported is not noted.
TickUnnoted(now) ==
  /\ state' = [state EXCEPT !.stale = @ \/ Overdue(now)]
  /\ events' = <<>>
  /\ reply' = IF Overdue(now) /\ ~track.staleReported THEN "RequestSnapshot" ELSE "None"
  /\ UNCHANGED <<track, chat>>

Tick(now) ==
  /\ IF Overdue(now)
     THEN /\ state' = [state EXCEPT !.stale = TRUE]
          /\ track' = [track EXCEPT !.staleReported = TRUE]
          /\ IF track.staleReported THEN events' = <<>> /\ reply' = "None"
             ELSE /\ events' = <<Event("Desynchronised", NoChannel)>>
                  /\ reply' = "RequestSnapshot"
     ELSE /\ events' = <<>> /\ reply' = "None"
          /\ UNCHANGED <<state, track>>
  /\ UNCHANGED chat

OnDisconnected ==
  /\ state' = [state EXCEPT !.users = <<>>, !.channel = NoChannel,
                            !.connection = "disconnected",
                            !.synchronised = FALSE, !.stale = TRUE]
  /\ track' = [handshaken |-> FALSE, haveSeq |-> FALSE, lastSeq |-> 0,
               staleReported |-> FALSE]
  /\ events' = IF state.connection = "connected"
                  THEN <<Event("ConnectionChanged", "disconnected")>> ELSE <<>>
  /\ reply' = "None"
  /\ UNCHANGED chat
=============================================================================
