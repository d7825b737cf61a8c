--------------------------- MODULE Replica_proofs ---------------------------
(***************************************************************************)
(* TeamSpeak's state on its way to one overlay, and the replica the        *)
(* overlay keeps of it: what the runs store_session and event_stream check *)
(* on small instances, for every roster limit, clock, number and depth.    *)
(*                                                                         *)
(* First the replica: what one message may do to a roster and a state.     *)
(* Then the StateStore against any peer (StoreSession): its invariant      *)
(* relates what it remembers of a silence (stale_reported_) to what it     *)
(* shows (state_.stale), to what it has asked for, and the time of its     *)
(* last line to the time it was heard.  Then the session that numbers and  *)
(* queues what the plugin's callbacks broadcast (EventStream).             *)
(*                                                                         *)
(* Last that the overlay gets where the plugin is.  A script, the callback *)
(* under way, brings whoever has a copy of the cache to a goal; the lines  *)
(* on their way bring the overlay to where the rest of the script does     *)
(* that.  Course is that invariant.  That every line keeps it holds line   *)
(* by line; that every callback begins such a script holds callback by     *)
(* callback, for people of whom nobody has two connections.                *)
(***************************************************************************)
EXTENDS Plugin_proofs, StoreSession, EventStream

-----------------------------------------------------------------------------
(* Rosters: finding a row, and what may be done to one. *)

Rows == {s \in Seq(UserState) : Len(s) <= MaxUsers}

OverlayStates ==
  [users : Rows, channel : Channels \cup {NoChannel}, connection : Connections,
   synchronised : BOOLEAN, stale : BOOLEAN, lastEvent : Nat]

\* mutable_user() finds a row of that identity, or there is none.
LEMMA FirstRowPlace ==
  ASSUME NEW s \in Seq(UserState), NEW u
  PROVE  /\ FirstRow(s, u) \in 0..Len(s)
         /\ FirstRow(s, u) # 0 => s[FirstRow(s, u)].uid = u
         /\ FirstRow(s, u) = 0 => \A i \in 1..Len(s) : s[i].uid # u
<1> DEFINE I == {i \in 1..Len(s) : s[i].uid = u}
<1>1. Len(s) \in Nat
  BY LenProperties
<1>2. FirstRow(s, u) = IF I # {} THEN Min(I) ELSE 0
  BY DEF FirstRow, SelectInSeq
<1>3. I \in SUBSET Nat
  BY <1>1
<1>4. CASE I # {}
  <2> HIDE DEF I
  <2>1. \E x \in I : \A y \in I : x <= y
    BY <1>3, <1>4, LeastExists
  <2>2. Min(I) \in I
    BY <2>1 DEF Min
  <2> QED BY <2>2, <1>1, <1>2, <1>4 DEF I
<1>5. CASE I = {}
  BY <1>1, <1>2, <1>5
<1> QED BY <1>4, <1>5

\* Adding a row where there is room, replacing one, removing one and cutting a
\* list to length each leave a roster within the limit.
LEMMA RowsAppend ==
  ASSUME NEW s \in Rows, NEW r \in UserState, ~(Len(s) >= MaxUsers)
  PROVE  Append(s, r) \in Rows
BY ModelAssumption, AppendProperties, LenProperties DEF Rows

\* Replacing a row.
LEMMA RowsReplace ==
  ASSUME NEW s \in Rows, NEW i \in 1..Len(s), NEW r \in UserState
  PROVE  [s EXCEPT ![i] = r] \in Rows
BY ExceptSeq DEF Rows

\* Removing one.
LEMMA RowsRemove ==
  ASSUME NEW s \in Rows, NEW i \in 1..Len(s)
  PROVE  RemoveAt(s, i) \in Rows
<1>1. Len(s) \in Nat /\ s \in Seq(UserState) /\ Len(s) <= MaxUsers
  BY LenProperties DEF Rows
<1> QED BY <1>1, RemoveKeeps, ModelAssumption DEF Rows

\* Cutting a list to length, as a snapshot is.
LEMMA RowsCut ==
  ASSUME NEW s \in Seq(UserState)
  PROVE  SubSeq(s, 1, Min({Len(s), MaxUsers})) \in Rows
<1>1. Len(s) \in Nat
  BY LenProperties
<1>2. Min({Len(s), MaxUsers}) \in 0..Len(s) /\ Min({Len(s), MaxUsers}) <= MaxUsers
  <2> DEFINE T == {Len(s), MaxUsers}
  <2>1. \E x \in T : \A y \in T : x <= y
    BY <1>1, ModelAssumption
  <2>2. Min(T) \in T /\ \A y \in T : Min(T) <= y
    BY <2>1 DEF Min
  <2> QED BY <2>2, <1>1, ModelAssumption
<1> DEFINE n == Min({Len(s), MaxUsers})
<1> HIDE DEF n
<1>3. n \in 0..Len(s) /\ n <= MaxUsers
  BY <1>2 DEF n
<1>4. \A j \in 1..n : s[j] \in UserState
  BY <1>1, <1>3, ElementOfSeq
<1>5. SubSeq(s, 1, n) \in Seq(UserState) /\ Len(SubSeq(s, 1, n)) = n
  <2>1. 1 \in Int /\ n \in Int /\ (1 <= n \/ n = 0)
    BY <1>1, <1>3
  <2> QED BY <1>4, <2>1, SubSeqProperties
<1> QED BY <1>3, <1>5 DEF Rows, n

\* What a message about one user may change in that user's row.
LEMMA RowsField ==
  ASSUME NEW s \in Rows, NEW u, FirstRow(s, u) # 0
  PROVE  /\ FirstRow(s, u) \in 1..Len(s)
         /\ s[FirstRow(s, u)] \in UserState
         /\ \A b \in BOOLEAN, w \in BOOLEAN :
              [s EXCEPT ![FirstRow(s, u)].talking = b,
                        ![FirstRow(s, u)].whispering = w] \in Rows
         /\ \A b \in BOOLEAN : [s EXCEPT ![FirstRow(s, u)].whispering = b] \in Rows
         /\ \A b \in BOOLEAN : [s EXCEPT ![FirstRow(s, u)].commander = b] \in Rows
         /\ \A f \in Flags : [s EXCEPT ![FirstRow(s, u)].muted = f] \in Rows
<1> DEFINE at == FirstRow(s, u)
<1>1. Len(s) \in Nat /\ s \in Seq(UserState)
  BY LenProperties DEF Rows
<1>2. at \in 1..Len(s)
  BY <1>1, FirstRowPlace
<1> HIDE DEF at
<1>3. s[at] \in UserState
  BY <1>1, <1>2, ElementOfSeq
<1>4. ASSUME NEW b \in BOOLEAN, NEW w \in BOOLEAN
      PROVE  [s EXCEPT ![at].talking = b, ![at].whispering = w] \in Rows
  <2>1. [[s[at] EXCEPT !.talking = b] EXCEPT !.whispering = w] \in UserState
    BY <1>3 DEF UserState
  <2>2. [s EXCEPT ![at].talking = b, ![at].whispering = w]
           = [s EXCEPT ![at] = [[s[at] EXCEPT !.talking = b] EXCEPT !.whispering = w]]
    BY <1>1, <1>2, LenProperties
  <2> QED BY <2>1, <2>2, <1>2, RowsReplace
<1>5. ASSUME NEW b \in BOOLEAN PROVE [s EXCEPT ![at].whispering = b] \in Rows
  <2>1. [s[at] EXCEPT !.whispering = b] \in UserState
    BY <1>3 DEF UserState
  <2> QED BY <2>1, <1>2, RowsReplace
<1>6. ASSUME NEW b \in BOOLEAN PROVE [s EXCEPT ![at].commander = b] \in Rows
  <2>1. [s[at] EXCEPT !.commander = b] \in UserState
    BY <1>3 DEF UserState
  <2> QED BY <2>1, <1>2, RowsReplace
<1>7. ASSUME NEW f \in Flags PROVE [s EXCEPT ![at].muted = f] \in Rows
  <2>1. [s[at] EXCEPT !.muted = f] \in UserState
    BY <1>3 DEF UserState
  <2> QED BY <2>1, <1>2, RowsReplace
<1> QED BY <1>2, <1>3, <1>4, <1>5, <1>6, <1>7 DEF at

-----------------------------------------------------------------------------
(* Messages: what a line may say, and what one does to the state. *)

MessageTypes ==
  {"hello", "state_snapshot", "connection_changed", "channel_changed", "user_joined",
   "user_updated", "user_left", "speaking_changed", "mute_changed", "commander_changed",
   "whisper_changed", "chat_message", "error", "heartbeat", "ping"}

Decodes(m) ==
  /\ m.type \in MessageTypes
  /\ m.good \in BOOLEAN
  /\ m.good =>
       /\ m.type = "state_snapshot" =>
            /\ m.channel \in Channels \cup {NoChannel} /\ m.users \in Seq(UserState)
            /\ m.connection \in Connections
       /\ m.type = "connection_changed" => m.connection \in Connections
       /\ m.type = "channel_changed" => m.channel \in Channels \cup {NoChannel}
       /\ m.type \in {"user_joined", "user_updated"} => m.user \in UserState
       /\ m.type = "speaking_changed" => m.talking \in BOOLEAN /\ m.whisper \in BOOLEAN
       /\ m.type = "mute_changed" => m.muted \in Flags
       /\ m.type = "commander_changed" => m.commander \in BOOLEAN
       /\ m.type = "whisper_changed" => m.active \in BOOLEAN
       /\ m.type = "chat_message" => m.text \in Texts

\* A line carries the number and the time it was given, and a payload of its
\* type or none.
LEMMA LineDecodes ==
  ASSUME NEW n, NEW t, NEW m \in Lines(n, t)
  PROVE  m.seq = n /\ m.ts = t /\ Decodes(m)
<1>1. ASSUME NEW b \in Bodies, m = MakeLine(b, n, t)
      PROVE  m.seq = n /\ m.ts = t /\ Decodes(m)
  BY <1>1, SessionAssumption DEF Bodies, Decodes, Connections, MakeLine, MessageTypes
<1>2. ASSUME NEW y \in Types, m = [seq |-> n, ts |-> t, good |-> FALSE, type |-> y]
      PROVE  m.seq = n /\ m.ts = t /\ Decodes(m)
  <2>1. \A b \in Bodies : b.type \in MessageTypes
    BY DEF Bodies, MessageTypes
  <2> QED BY <1>2, <2>1 DEF Types, Decodes
<1> QED BY <1>1, <1>2 DEF Lines

\* A message's own case yields a state and an action, and leaves the mark of
\* activity to apply().
Keeps(s, e) ==
  /\ e.state \in OverlayStates
  /\ e.state.stale = s.stale /\ e.state.lastEvent = s.lastEvent
  /\ e.act \in Replies

\* The shapes such a case has: an effect, no effect, other users.
LEMMA EffectKeeps ==
  ASSUME NEW s \in OverlayStates, NEW evts, NEW act \in Replies,
         NEW t \in OverlayStates, t.stale = s.stale, t.lastEvent = s.lastEvent
  PROVE  Keeps(s, Effect(t, evts, act))
BY DEF Keeps, Effect

\* No effect keeps everything.
LEMMA NothingKeeps ==
  ASSUME NEW s \in OverlayStates
  PROVE  Keeps(s, Nothing(s))
BY DEF Keeps, Effect, Nothing, Replies

\* Other users, and nothing else changed.
LEMMA UsersKept ==
  ASSUME NEW s \in OverlayStates, NEW r \in Rows
  PROVE  /\ [s EXCEPT !.users = r] \in OverlayStates
         /\ [s EXCEPT !.users = r].stale = s.stale
         /\ [s EXCEPT !.users = r].lastEvent = s.lastEvent
BY DEF OverlayStates

\* Messages about the connection, the channel and the whole roster.
LEMMA RosterMessages ==
  ASSUME NEW s \in OverlayStates, NEW m, Decodes(m), m.good
  PROVE  /\ m.type = "state_snapshot" => Keeps(s, OnSnapshot(s, m))
         /\ m.type = "connection_changed" => Keeps(s, OnConnectionChanged(s, m))
         /\ m.type = "channel_changed" => Keeps(s, OnChannelChanged(s, m))
<1>1. <<>> \in Rows
  BY ModelAssumption, EmptySeq DEF Rows
<1>2. ASSUME m.type = "state_snapshot" PROVE Keeps(s, OnSnapshot(s, m))
  <2>1. SubSeq(m.users, 1, Min({Len(m.users), MaxUsers})) \in Rows
    BY <1>2, RowsCut DEF Decodes
  <2> DEFINE cut == SubSeq(m.users, 1, Min({Len(m.users), MaxUsers}))
             t == [s EXCEPT !.users = cut, !.channel = m.channel,
                            !.connection = m.connection, !.synchronised = TRUE]
  <2>2. t \in OverlayStates /\ t.stale = s.stale /\ t.lastEvent = s.lastEvent
    <3> HIDE DEF cut
    <3>1. cut \in Rows
      BY <2>1 DEF cut
    <3> QED BY <3>1, <1>2 DEF OverlayStates, Decodes
  <2> HIDE DEF t
  <2>3. "None" \in Replies
    BY DEF Replies
  <2> QED BY <2>2, <2>3, EffectKeeps DEF OnSnapshot, t
<1>3. ASSUME m.type = "connection_changed" PROVE Keeps(s, OnConnectionChanged(s, m))
  <2> DEFINE t == [s EXCEPT !.connection = m.connection]
             u == [t EXCEPT !.users = <<>>, !.channel = NoChannel, !.synchronised = FALSE]
  <2>1. t \in OverlayStates /\ t.stale = s.stale /\ t.lastEvent = s.lastEvent
    BY <1>3 DEF OverlayStates, Decodes
  <2>2. u \in OverlayStates /\ u.stale = s.stale /\ u.lastEvent = s.lastEvent
    BY <1>1, <1>3 DEF OverlayStates, Decodes
  <2> HIDE DEF t, u
  <2>3. "None" \in Replies
    BY DEF Replies
  <2>4. OnConnectionChanged(s, m) =
          Effect(IF m.connection = "connected" THEN t ELSE u,
                 Changed("ConnectionChanged", m.connection, s.connection, m.connection),
                 "None")
    BY DEF OnConnectionChanged, t, u
  <2> QED BY <2>1, <2>2, <2>3, <2>4, EffectKeeps
<1>4. ASSUME m.type = "channel_changed" PROVE Keeps(s, OnChannelChanged(s, m))
  <2> DEFINE t == [s EXCEPT !.channel = m.channel, !.users = <<>>, !.synchronised = FALSE]
  <2>1. t \in OverlayStates /\ t.stale = s.stale /\ t.lastEvent = s.lastEvent
    BY <1>1, <1>4 DEF OverlayStates, Decodes
  <2> HIDE DEF t
  <2>2. "RequestSnapshot" \in Replies
    BY DEF Replies
  <2> QED BY <2>1, <2>2, EffectKeeps DEF OnChannelChanged, t
<1> QED BY <1>2, <1>3, <1>4

\* Messages about one user.
LEMMA UserMessages ==
  ASSUME NEW s \in OverlayStates, NEW m, Decodes(m), m.good, ~Ignored(s, m)
  PROVE  /\ m.type = "user_joined" => Keeps(s, OnUserJoined(s, m))
         /\ m.type = "user_left" => Keeps(s, OnUserLeft(s, m))
         /\ m.type = "user_updated" => Keeps(s, OnUserUpdated(s, m))
         /\ m.type = "speaking_changed" => Keeps(s, OnSpeakingChanged(s, m))
         /\ m.type = "mute_changed" => Keeps(s, OnMuteChanged(s, m))
         /\ m.type = "commander_changed" => Keeps(s, OnCommanderChanged(s, m))
         /\ m.type = "whisper_changed" => Keeps(s, OnWhisperChanged(s, m))
<1> USE DEF Row, Lists
<1>a. s.users \in Rows
  BY DEF OverlayStates
<1>b. "None" \in Replies /\ "RequestSnapshot" \in Replies
  BY DEF Replies
<1>c. \A r \in Rows, act \in Replies : \A evts : Keeps(s, Effect([s EXCEPT !.users = r], evts, act))
  BY UsersKept, EffectKeeps
<1>d. \A act \in Replies : \A evts : Keeps(s, Effect(s, evts, act))
  BY EffectKeeps
<1>e. ASSUME ~Full(s) PROVE \A r \in UserState : Append(s.users, r) \in Rows
  BY <1>a, <1>e, RowsAppend DEF Full
<1>f. ASSUME NEW u, FirstRow(s.users, u) # 0
      PROVE  \A r \in UserState : [s.users EXCEPT ![FirstRow(s.users, u)] = r] \in Rows
  BY <1>a, <1>f, RowsField, RowsReplace
<1>1. ASSUME m.type = "user_joined" PROVE Keeps(s, OnUserJoined(s, m))
  <2>1. m.user \in UserState
    BY <1>1 DEF Decodes
  <2>2. CASE Lists(s, m.user.uid)
    <3>1. [s EXCEPT !.users[Row(s, m.user.uid)] = m.user]
            = [s EXCEPT !.users = [s.users EXCEPT ![Row(s, m.user.uid)] = m.user]]
      BY DEF OverlayStates
    <3> QED BY <1>b, <1>c, <1>f, <2>1, <2>2, <3>1 DEF OnUserJoined
  <2>3. CASE ~Lists(s, m.user.uid) /\ Full(s)
    BY <2>3, NothingKeeps DEF OnUserJoined
  <2>4. CASE ~Lists(s, m.user.uid) /\ ~Full(s)
    <3>1. [s EXCEPT !.users = Append(@, m.user)]
            = [s EXCEPT !.users = Append(s.users, m.user)]
      BY DEF OverlayStates
    <3> QED BY <1>b, <1>c, <1>e, <2>1, <2>4, <3>1 DEF OnUserJoined
  <2> QED BY <2>2, <2>3, <2>4
<1>2. ASSUME m.type = "user_left" PROVE Keeps(s, OnUserLeft(s, m))
  <2>1. CASE Lists(s, m.who)
    <3>1. [s EXCEPT !.users = RemoveAt(@, Row(s, m.who))]
            = [s EXCEPT !.users = RemoveAt(s.users, Row(s, m.who))]
      BY DEF OverlayStates
    <3>2. RemoveAt(s.users, Row(s, m.who)) \in Rows
      BY <1>a, <2>1, RowsField, RowsRemove
    <3> QED BY <1>b, <1>c, <2>1, <3>1, <3>2 DEF OnUserLeft
  <2>2. CASE ~Lists(s, m.who)
    BY <1>b, <1>d, <2>2 DEF OnUserLeft
  <2> QED BY <2>1, <2>2
<1>3. ASSUME m.type = "user_updated" PROVE Keeps(s, OnUserUpdated(s, m))
  <2> DEFINE at == Row(s, m.user.uid)
  <2>1. m.user \in UserState
    BY <1>3 DEF Decodes
  <2>2. CASE Lists(s, m.user.uid)
    <3> DEFINE row == [m.user EXCEPT !.talking = s.users[at].talking,
                                     !.whispering = s.users[at].whispering]
    <3>1. s.users[at] \in UserState
      BY <1>a, <2>2, RowsField
    <3>2. row \in UserState
      BY <2>1, <3>1 DEF UserState
    <3> HIDE DEF row
    <3>3. [s EXCEPT !.users[at] = row] = [s EXCEPT !.users = [s.users EXCEPT ![at] = row]]
      BY DEF OverlayStates
    <3>4. [s.users EXCEPT ![at] = row] \in Rows
      BY <1>f, <2>2, <3>2
    <3>5. OnUserUpdated(s, m) =
            Effect([s EXCEPT !.users[at] = row],
                   Changed("CommanderChanged", m.user.uid,
                           s.users[at].commander, m.user.commander), "None")
      BY <2>2 DEF OnUserUpdated, row
    <3> QED BY <1>b, <1>c, <3>3, <3>4, <3>5
  <2>3. CASE ~Lists(s, m.user.uid) /\ Full(s)
    BY <1>b, <1>d, <2>3 DEF OnUserUpdated
  <2>4. CASE ~Lists(s, m.user.uid) /\ ~Full(s)
    <3>1. [s EXCEPT !.users = Append(@, m.user)]
            = [s EXCEPT !.users = Append(s.users, m.user)]
      BY DEF OverlayStates
    <3> QED BY <1>b, <1>c, <1>e, <2>1, <2>4, <3>1 DEF OnUserUpdated
  <2> QED BY <2>2, <2>3, <2>4
<1>g. ASSUME m.type \in {"speaking_changed", "mute_changed", "commander_changed"}
      PROVE  Lists(s, m.who)
  BY <1>g DEF Ignored
<1>4. ASSUME m.type = "speaking_changed" PROVE Keeps(s, OnSpeakingChanged(s, m))
  <2> DEFINE at == Row(s, m.who)
             whispering == m.talking /\ m.whisper
             rows == [s.users EXCEPT ![at].talking = m.talking, ![at].whispering = whispering]
  <2>1. m.talking \in BOOLEAN /\ whispering \in BOOLEAN
    BY <1>4 DEF Decodes
  <2>2. rows \in Rows
    BY <1>a, <1>4, <1>g, <2>1, RowsField
  <2>3. [s EXCEPT !.users[at].talking = m.talking, !.users[at].whispering = whispering]
          = [s EXCEPT !.users = rows]
    BY DEF OverlayStates
  <2> QED BY <1>b, <1>c, <2>2, <2>3 DEF OnSpeakingChanged
<1>5. ASSUME m.type = "mute_changed" PROVE Keeps(s, OnMuteChanged(s, m))
  <2> DEFINE rows == [s.users EXCEPT ![Row(s, m.who)].muted = m.muted]
  <2>1. rows \in Rows
    BY <1>a, <1>5, <1>g, RowsField DEF Decodes
  <2>2. [s EXCEPT !.users[Row(s, m.who)].muted = m.muted] = [s EXCEPT !.users = rows]
    BY DEF OverlayStates
  <2> QED BY <1>b, <1>c, <1>d, <2>1, <2>2 DEF OnMuteChanged, Nothing
<1>6. ASSUME m.type = "commander_changed" PROVE Keeps(s, OnCommanderChanged(s, m))
  <2> DEFINE rows == [s.users EXCEPT ![Row(s, m.who)].commander = m.commander]
  <2>1. rows \in Rows
    BY <1>a, <1>6, <1>g, RowsField DEF Decodes
  <2>2. [s EXCEPT !.users[Row(s, m.who)].commander = m.commander] = [s EXCEPT !.users = rows]
    BY DEF OverlayStates
  <2> QED BY <1>b, <1>c, <2>1, <2>2 DEF OnCommanderChanged
<1>7. ASSUME m.type = "whisper_changed" PROVE Keeps(s, OnWhisperChanged(s, m))
  <2> DEFINE rows == [s.users EXCEPT ![Row(s, m.who)].whispering = m.active]
  <2>1. CASE Lists(s, m.who)
    <3>1. rows \in Rows
      BY <1>a, <1>7, <2>1, RowsField DEF Decodes
    <3>2. [s EXCEPT !.users[Row(s, m.who)].whispering = m.active] = [s EXCEPT !.users = rows]
      BY DEF OverlayStates
    <3> QED BY <1>b, <1>c, <2>1, <3>1, <3>2 DEF OnWhisperChanged
  <2>2. CASE ~Lists(s, m.who)
    BY <1>b, <1>d, <2>2 DEF OnWhisperChanged
  <2> QED BY <2>1, <2>2
<1> QED BY <1>1, <1>2, <1>3, <1>4, <1>5, <1>6, <1>7

\* Whatever the message.
LEMMA OutcomeKeeps ==
  ASSUME NEW s \in OverlayStates, NEW m, Decodes(m), m.type \notin ClientToServer
  PROVE  Keeps(s, Outcome(s, m))
<1>1. CASE m.type = "hello"
  BY <1>1, EffectKeeps DEF Outcome, OnHello, Replies
<1>2. CASE m.type = "error"
  BY <1>2, EffectKeeps DEF Outcome, OnError, Replies
<1>3. CASE m.type \notin {"hello", "error"} /\ Ignored(s, m)
  BY <1>3, NothingKeeps DEF Outcome
<1>4. CASE m.type \notin {"hello", "error"} /\ ~Ignored(s, m)
  <2>1. m.good
    BY <1>4 DEF Ignored, Decodes
  <2>2. m.type \in {"state_snapshot", "connection_changed", "channel_changed", "user_joined",
                    "user_updated", "user_left", "speaking_changed", "mute_changed",
                    "commander_changed", "whisper_changed"}
    BY <1>4 DEF Decodes, MessageTypes, ClientToServer, Ignored
  <2> QED BY <1>4, <2>1, <2>2, RosterMessages, UserMessages DEF Outcome
<1> QED BY <1>1, <1>2, <1>3, <1>4

-----------------------------------------------------------------------------
(* The invariant and its steps. *)

\* What the store remembers of a silence agrees with what it shows and with
\* what it has asked for.
Attention ==
  /\ track.handshaken =>
       /\ state.stale <=> track.staleReported
       /\ asks = IF track.staleReported THEN 1 ELSE 0
  /\ ~track.handshaken => ~track.staleReported /\ asks \in {0, 1}

\* The time of the last line lies no further back than a line's may.
LastEventClose ==
  state.lastEvent # 0 => \E skew \in Skews : state.lastEvent + skew >= heardAt

\* Both, with the limit of the roster and the property that uses them.
SessionInv ==
  /\ SessionTypeOK
  /\ state \in OverlayStates
  /\ now \in 1..MaxTime /\ heardAt \in Nat
  /\ Attention
  /\ LastEventClose
  /\ StaleMeansSilent

\* The invariant holds at first.
LEMMA SessionInitInv == SessionInit => SessionInv
<1> SUFFICES ASSUME SessionInit PROVE SessionInv
  OBVIOUS
<1>1. <<>> \in Rows /\ <<>> \in Seq(UserState) /\ <<>> \in Seq(Texts) /\ Len(<<>>) = 0
  BY ModelAssumption, EmptySeq DEF Rows
<1>2. SessionTypeOK
  BY <1>1, SessionAssumption, StoreAssumption
     DEF SessionInit, StoreInit, SessionTypeOK, Connections, Replies
<1>3. state \in OverlayStates
  BY <1>1, SessionAssumption DEF SessionInit, StoreInit, OverlayStates, Connections
<1> QED
  BY <1>2, <1>3, SessionAssumption
     DEF SessionInit, StoreInit, SessionInv, Attention, LastEventClose, StaleMeansSilent

\* push_chat keeps the history within its length.
LEMMA RememberKeeps ==
  ASSUME NEW m, m.text \in Texts, chat \in Seq(Texts), Len(chat) <= ChatHistory
  PROVE  Remember(m) \in Seq(Texts) /\ Len(Remember(m)) <= ChatHistory
<1> DEFINE all == Append(chat, m.text)
<1>1. /\ all \in Seq(Texts) /\ all # <<>> /\ Len(all) = Len(chat) + 1
      /\ Len(chat) \in Nat
  BY AppendProperties, LenProperties
<1>2. Remember(m) = IF Len(all) > ChatHistory THEN Tail(all) ELSE all
  BY DEF Remember
<1> HIDE DEF all
<1>3. Tail(all) \in Seq(Texts) /\ Len(Tail(all)) = Len(all) - 1
  BY <1>1, HeadTailProperties
<1> QED BY <1>1, <1>2, <1>3, StoreAssumption

\* What accepting a line does to the parts of the state the invariant relates.
LEMMA SessionAccepts ==
  ASSUME SessionInv, NEW n \in 0..MaxSeq, NEW t \in 1..MaxTime, NEW m \in Lines(n, t), Accept(m)
  PROVE  /\ state' \in OverlayStates /\ ~state'.stale /\ state'.lastEvent = t
         /\ track' \in [handshaken : BOOLEAN, haveSeq : BOOLEAN, lastSeq : 0..MaxSeq,
                        staleReported : BOOLEAN]
         /\ ~track'.staleReported
         /\ chat' \in Seq(Texts) /\ Len(chat') <= ChatHistory
         /\ reply' \in Replies
         /\ m.type # "hello" => track'.handshaken = track.handshaken
<1> DEFINE heard == Heard(state, m.ts)
           e == Outcome(heard, m)
           chatted == m.type = "chat_message" /\ m.good
<1>1. m.seq = n /\ m.ts = t /\ Decodes(m)
  BY LineDecodes
<1>2. heard \in OverlayStates /\ ~heard.stale /\ heard.lastEvent = t
  <2>1. state \in OverlayStates /\ t \in Nat
    BY SessionAssumption DEF SessionInv
  <2>2. heard = [state EXCEPT !.lastEvent = t, !.stale = FALSE]
    BY <1>1 DEF Heard
  <2> HIDE DEF heard
  <2> QED BY <2>1, <2>2 DEF OverlayStates
<1>3. Keeps(heard, e)
  <2> HIDE DEF heard
  <2> QED BY <1>1, <1>2, OutcomeKeeps DEF Accept
<1> HIDE DEF e, heard
<1>4. /\ state' = e.state
      /\ reply' = Stronger(IF IsGap(m) THEN "RequestSnapshot" ELSE "None", e.act)
      /\ chat' = IF chatted THEN Remember(m) ELSE chat
      /\ track' = [handshaken |-> track.handshaken \/ (m.type = "hello" /\ e.act = "None"),
                   haveSeq |-> TRUE, lastSeq |-> m.seq, staleReported |-> StillReported(m)]
  BY DEF Accept, e, heard
<1>5. state' \in OverlayStates /\ ~state'.stale /\ state'.lastEvent = t
  BY <1>2, <1>3, <1>4 DEF Keeps
<1>6. StillReported(m) = FALSE
  BY DEF StillReported, SessionInv, Attention, SessionTypeOK
<1>7. /\ track' \in [handshaken : BOOLEAN, haveSeq : BOOLEAN, lastSeq : 0..MaxSeq,
                     staleReported : BOOLEAN]
      /\ ~track'.staleReported
      /\ m.type # "hello" => track'.handshaken = track.handshaken
  BY <1>1, <1>4, <1>6 DEF SessionInv, SessionTypeOK
<1>8. chat' \in Seq(Texts) /\ Len(chat') <= ChatHistory
  BY <1>1, <1>4, RememberKeeps DEF SessionInv, SessionTypeOK, Decodes
<1>9. reply' \in Replies
  BY <1>3, <1>4 DEF Keeps, Stronger, Replies
<1> QED BY <1>5, <1>7, <1>8, <1>9

\* The invariant is inductive: one step per action.
LEMMA SessionNextInv == SessionInv /\ [SessionNext]_peerVars => SessionInv'
<1> SUFFICES ASSUME SessionInv, [SessionNext]_peerVars PROVE SessionInv'
  OBVIOUS
<1>1. ASSUME Receive PROVE SessionInv'
  <2>1. PICK n \in 0..MaxSeq, skew \in Skews :
          \E m \in Lines(n, IF now > skew THEN now - skew ELSE 1) :
             /\ Apply(m)
             /\ LET accepted == m.type \notin ClientToServer /\ ~IsOld(m)
                IN  /\ took' = IF accepted THEN m.type ELSE "none"
                    /\ heardAt' = IF accepted THEN now ELSE heardAt
                    /\ asks' = IF accepted THEN 0 ELSE asks
    BY <1>1 DEF Receive
  <2> DEFINE t == IF now > skew THEN now - skew ELSE 1
  <2>2. t \in 1..MaxTime /\ t + skew >= now /\ skew \in Nat
    BY SessionAssumption DEF SessionInv
  <2> HIDE DEF t
  <2>3. PICK m \in Lines(n, t) :
             /\ Apply(m)
             /\ LET accepted == m.type \notin ClientToServer /\ ~IsOld(m)
                IN  /\ took' = IF accepted THEN m.type ELSE "none"
                    /\ heardAt' = IF accepted THEN now ELSE heardAt
                    /\ asks' = IF accepted THEN 0 ELSE asks
    BY <2>1 DEF t
  <2>4. now' = now /\ phase' \in {"reading", "leaving"}
    BY <1>1 DEF Receive
  <2>5. CASE Accept(m)
    <3>1. heardAt' = now /\ asks' = 0
      BY <2>3, <2>5 DEF Accept
    <3>2. /\ state' \in OverlayStates /\ ~state'.stale /\ state'.lastEvent = t
          /\ track' \in [handshaken : BOOLEAN, haveSeq : BOOLEAN, lastSeq : 0..MaxSeq,
                         staleReported : BOOLEAN]
          /\ ~track'.staleReported
          /\ chat' \in Seq(Texts) /\ Len(chat') <= ChatHistory
          /\ reply' \in Replies
      BY <2>2, <2>5, SessionAccepts
    <3>3. SessionTypeOK'
      BY <2>2, <2>4, <3>2, SessionAssumption DEF SessionTypeOK, OverlayStates, Rows
    <3>4. LastEventClose'
      BY <2>2, <3>1, <3>2 DEF LastEventClose, SessionInv
    <3>5. Attention' /\ StaleMeansSilent'
      BY <3>1, <3>2 DEF Attention, StaleMeansSilent
    <3> QED BY <2>4, <3>1, <3>2, <3>3, <3>4, <3>5 DEF SessionInv
  <2>6. CASE Confused(m) \/ DropOld(m)
    <3>1. /\ reply' \in Replies
          /\ UNCHANGED <<state, track, chat, now, heardAt, asks>>
      BY <2>3, <2>4, <2>6 DEF Confused, DropOld, Replies
    <3> QED BY <2>4, <3>1 DEF SessionInv, SessionTypeOK, Attention, LastEventClose, StaleMeansSilent
  <2> QED BY <2>3, <2>5, <2>6 DEF Apply
<1>2. ASSUME TickStore PROVE SessionInv'
  <2>1. UNCHANGED <<now, phase, heardAt, chat>> /\ reply' \in Replies
    BY <1>2 DEF TickStore, Tick, Replies
  <2>2. CASE ~Overdue(now)
    <3>1. UNCHANGED <<state, track, asks>>
      BY <1>2, <2>2 DEF TickStore, Tick
    <3> QED BY <2>1, <3>1 DEF SessionInv, SessionTypeOK, Attention, LastEventClose, StaleMeansSilent
  <2>3. CASE Overdue(now)
    <3>1. /\ state' = [state EXCEPT !.stale = TRUE]
          /\ track' = [track EXCEPT !.staleReported = TRUE]
          /\ asks' = IF track.staleReported THEN asks ELSE asks + 1
      BY <1>2, <2>3 DEF TickStore, Tick
    <3>2. state' \in OverlayStates /\ state'.stale /\ state'.lastEvent = state.lastEvent
      BY <3>1 DEF SessionInv, OverlayStates
    <3>3. /\ track' \in [handshaken : BOOLEAN, haveSeq : BOOLEAN, lastSeq : 0..MaxSeq,
                         staleReported : BOOLEAN]
          /\ track'.staleReported /\ track'.handshaken
      BY <2>3, <3>1 DEF SessionInv, SessionTypeOK, Overdue
    <3>4. SessionTypeOK'
      BY <2>1, <3>2, <3>3 DEF SessionInv, SessionTypeOK, OverlayStates, Rows
    <3>5. Attention'
      BY <2>3, <3>1, <3>2, <3>3 DEF SessionInv, Attention, Overdue
    <3>6. LastEventClose'
      BY <2>1, <3>2 DEF SessionInv, LastEventClose
    <3>7. StaleMeansSilent'
      <4>1. PICK skew \in Skews : state.lastEvent + skew >= heardAt
        BY <2>3 DEF SessionInv, LastEventClose, Overdue
      <4>2. now > state.lastEvent + StaleAfter
        BY <2>3 DEF Overdue
      <4>3. now + skew > heardAt + StaleAfter
        BY <4>1, <4>2, SessionAssumption, StoreAssumption DEF SessionInv, OverlayStates
      <4> QED BY <2>1, <4>3 DEF StaleMeansSilent
    <3> QED BY <2>1, <3>2, <3>4, <3>5, <3>6, <3>7 DEF SessionInv
  <2> QED BY <2>2, <2>3
<1>3. ASSUME EndSession PROVE SessionInv'
  <2>1. /\ UNCHANGED <<now, heardAt, asks, chat>>
        /\ phase' = "reading" /\ reply' = "None"
        /\ state' = [state EXCEPT !.users = <<>>, !.channel = NoChannel,
                                  !.connection = "disconnected",
                                  !.synchronised = FALSE, !.stale = TRUE]
        /\ track' = [handshaken |-> FALSE, haveSeq |-> FALSE, lastSeq |-> 0,
                     staleReported |-> FALSE]
    BY <1>3 DEF EndSession, OnDisconnected
  <2>2. <<>> \in Rows
    BY ModelAssumption, EmptySeq DEF Rows
  <2>3. state' \in OverlayStates /\ state'.lastEvent = state.lastEvent
    BY <2>1, <2>2 DEF SessionInv, OverlayStates, Connections
  <2>4. SessionTypeOK'
    <3>1. track' \in [handshaken : BOOLEAN, haveSeq : BOOLEAN, lastSeq : 0..MaxSeq,
                      staleReported : BOOLEAN]
      BY <2>1, SessionAssumption
    <3> QED BY <2>1, <2>3, <3>1 DEF SessionInv, SessionTypeOK, OverlayStates, Rows, Replies
  <2>5. Attention' /\ LastEventClose' /\ StaleMeansSilent'
    BY <2>1, <2>3 DEF SessionInv, Attention, LastEventClose, StaleMeansSilent
  <2> QED BY <2>1, <2>3, <2>4, <2>5 DEF SessionInv
<1>4. ASSUME Pass PROVE SessionInv'
  <2>1. now' = now + 1 /\ now' \in 1..MaxTime
    BY <1>4, SessionAssumption DEF Pass, SessionInv
  <2>2. UNCHANGED <<state, track, chat, reply, phase, heardAt, asks>>
    BY <1>4 DEF Pass, storeVars
  <2>3. StaleMeansSilent'
    BY <2>1, <2>2, SessionAssumption, StoreAssumption DEF SessionInv, StaleMeansSilent
  <2> QED BY <2>1, <2>2, <2>3 DEF SessionInv, SessionTypeOK, Attention, LastEventClose
<1>5. ASSUME UNCHANGED peerVars PROVE SessionInv'
  BY <1>5 DEF peerVars, storeVars, SessionInv, SessionTypeOK, Attention, LastEventClose, StaleMeansSilent
<1> QED BY <1>1, <1>2, <1>3, <1>4, <1>5 DEF SessionNext

\* The invariant holds throughout.
THEOREM SessionInvariance == SessionSpec => []SessionInv
BY SessionInitInv, SessionNextInv, PTL DEF SessionSpec

-----------------------------------------------------------------------------
(* The properties. *)

\* Every field keeps its type, and the chat its length (push_chat,
\* state_store.cpp), for any peer.
THEOREM SessionTypeCorrect == SessionSpec => []SessionTypeOK
<1>1. SessionInv => SessionTypeOK
  BY DEF SessionInv
<1> QED BY <1>1, SessionInvariance, PTL

\* No sequence of joins, updates and snapshots takes the roster over
\* kMaxUsersPerSnapshot, for any limit.
THEOREM RosterLimited == SessionSpec => []RosterWithinLimit
<1>1. SessionInv => RosterWithinLimit
  BY DEF SessionInv, OverlayStates, Rows, RosterWithinLimit
<1> QED BY <1>1, SessionInvariance, PTL

\* tick() marks the list stale only after a silence of stale_after_ms_.
THEOREM StaleOnlyIfSilent == SessionSpec => []StaleMeansSilent
<1>1. SessionInv => StaleMeansSilent
  BY DEF SessionInv
<1> QED BY <1>1, SessionInvariance, PTL

\* stale_reported_ lets one silence ask for one snapshot.
THEOREM OneRequest == SessionSpec => []OneRequestPerSilence
<1>1. SessionInv => OneRequestPerSilence
  BY DEF SessionInv, Attention, OneRequestPerSilence, SessionTypeOK
<1> QED BY <1>1, SessionInvariance, PTL

\* apply() takes no message across a gap in silence, whatever its own case
\* returned.
THEOREM GapNeverSilent == SessionSpec => GapAsks
<1> DEFINE Answered == (took' \notin {"none", "hello"} /\ track.haveSeq
                          /\ track'.lastSeq > track.lastSeq + 1) => reply' # "None"
<1>1. ASSUME SessionInv, SessionNext PROVE Answered
  <2> SUFFICES ASSUME took' \notin {"none", "hello"}, track.haveSeq,
                      track'.lastSeq > track.lastSeq + 1
               PROVE  reply' # "None"
    OBVIOUS
  <2>1. Receive
    BY <1>1 DEF SessionNext, TickStore, EndSession, Pass
  <2>2. PICK n \in 0..MaxSeq, skew \in Skews :
          \E m \in Lines(n, IF now > skew THEN now - skew ELSE 1) :
             /\ Apply(m)
             /\ took' = IF m.type \notin ClientToServer /\ ~IsOld(m) THEN m.type ELSE "none"
    BY <2>1 DEF Receive
  <2>3. PICK m \in Lines(n, IF now > skew THEN now - skew ELSE 1) :
             /\ Apply(m)
             /\ took' = IF m.type \notin ClientToServer /\ ~IsOld(m) THEN m.type ELSE "none"
    BY <2>2
  <2>4. m.type # "hello" /\ Accept(m)
    BY <2>3 DEF Apply, Confused, DropOld
  <2>5. track'.lastSeq = m.seq
    BY <2>4 DEF Accept
  <2>6. IsGap(m)
    BY <2>4, <2>5 DEF IsGap, Ordered
  <2>7. \E act : reply' = Stronger("RequestSnapshot", act)
    BY <2>4, <2>6 DEF Accept
  <2> QED BY <2>7 DEF Stronger
<1>2. SessionInv /\ [SessionNext]_peerVars => [Answered]_peerVars
  BY <1>1
<1> QED BY <1>2, SessionInvariance, PTL DEF SessionSpec, GapAsks

-----------------------------------------------------------------------------
(* The session: numbered lines on their way, and the invariant. *)

EventLines == {MakeLine(m, n, 1) : m \in Messages \cup {Hello, Heartbeat}, n \in Nat}

\* What the session sends is numbered, decodes, and goes one way.
LEMMA EventLineDecodes ==
  /\ \A l \in EventLines :
       Decodes(l) /\ l.seq \in Nat /\ l.ts = 1 /\ l.type \notin ClientToServer
  /\ \A m \in Messages \cup {Hello, Heartbeat}, n \in Nat :
       Line(m, n) \in EventLines /\ Line(m, n).seq = n /\ Line(m, n) # NoLine
                                 /\ Line(m, n).type = m.type
<1>1. ASSUME NEW m \in Messages \cup {Hello, Heartbeat}, NEW n \in Nat
      PROVE  /\ Decodes(MakeLine(m, n, 1)) /\ MakeLine(m, n, 1).seq = n
             /\ MakeLine(m, n, 1).ts = 1 /\ MakeLine(m, n, 1).type = m.type
             /\ m.type \notin ClientToServer /\ m.type # "none"
  <2>1. CASE m \in {Hello, Heartbeat}
    BY <2>1 DEF Hello, Heartbeat, Decodes, MakeLine, MessageTypes, ClientToServer
  <2>2. CASE m \in Messages
    BY <2>2 DEF Messages, Here, Decodes, MakeLine, MessageTypes, ClientToServer
  <2> QED BY <2>1, <2>2
<1>2. \A m \in Messages \cup {Hello, Heartbeat}, n \in Nat :
        Line(m, n) \in EventLines /\ Line(m, n).seq = n /\ Line(m, n) # NoLine
                                  /\ Line(m, n).type = m.type
  BY <1>1 DEF Line, EventLines, NoLine
<1>3. ASSUME NEW l \in EventLines
      PROVE  Decodes(l) /\ l.seq \in Nat /\ l.ts = 1 /\ l.type \notin ClientToServer
  <2>1. PICK m \in Messages \cup {Hello, Heartbeat}, n \in Nat : l = MakeLine(m, n, 1)
    BY DEF EventLines
  <2> HIDE DEF MakeLine
  <2> QED BY <1>1, <2>1
<1> QED BY <1>2, <1>3

\* A snapshot of the cache is such a line.
LEMMA SnapshotLines ==
  ASSUME NEW c \in Contents, NEW n \in Nat
  PROVE  /\ Line(Snapshot(c), n) \in EventLines /\ Line(Snapshot(c), n).seq = n
         /\ Line(Snapshot(c), n).type = "state_snapshot"
<1>1. Snapshot(c) \in Messages /\ Snapshot(c).type = "state_snapshot"
  BY DEF Snapshot, Contents, Messages, Here
<1> QED BY <1>1, EventLineDecodes

\* The lines of a queue that are not snapshots.
EventPlaces(q) == {i \in DOMAIN q : q[i].type # "state_snapshot"}

\* There are finitely many, no more than the queue is long.
LEMMA EventPlacesFinite ==
  ASSUME NEW q \in Seq(EventLines)
  PROVE  /\ IsFiniteSet(EventPlaces(q)) /\ Cardinality(EventPlaces(q)) \in Nat
         /\ Cardinality(EventPlaces(q)) <= Len(q)
<1>1. Len(q) \in Nat /\ DOMAIN q = 1..Len(q)
  BY LenProperties
<1>2. IsFiniteSet(1..Len(q)) /\ Cardinality(1..Len(q)) = Len(q)
  <2>1. 1 \in Int /\ Len(q) \in Int
    BY <1>1
  <2>2. /\ IsFiniteSet(1..Len(q))
        /\ Cardinality(1..Len(q)) = IF 1 > Len(q) THEN 0 ELSE Len(q) - 1 + 1
    BY <2>1, FS_Interval
  <2> QED BY <1>1, <2>2
<1>3. EventPlaces(q) \subseteq 1..Len(q)
  BY <1>1 DEF EventPlaces
<1>4. /\ IsFiniteSet(EventPlaces(q))
      /\ Cardinality(EventPlaces(q)) <= Cardinality(1..Len(q))
  BY <1>2, <1>3, FS_Subset
<1> QED BY <1>2, <1>4, FS_CardinalityType

\* A snapshot at the end leaves them what they are.
LEMMA SnapshotQueued ==
  ASSUME NEW q \in Seq(EventLines), NEW l \in EventLines, l.type = "state_snapshot"
  PROVE  EventPlaces(Append(q, l)) = EventPlaces(q)
<1>1. Len(q) \in Nat /\ DOMAIN q = 1..Len(q)
  BY LenProperties
<1>2. /\ DOMAIN Append(q, l) = 1..Len(q) + 1
      /\ \A i \in 1..Len(q) : Append(q, l)[i] = q[i]
      /\ Append(q, l)[Len(q) + 1] = l
  BY <1>1, AppendProperties, LenProperties
<1> QED BY <1>1, <1>2 DEF EventPlaces

\* The line that is written leaves no more of them than there were.
LEMMA LineWritten ==
  ASSUME NEW q \in Seq(EventLines), q # <<>>
  PROVE  Cardinality(EventPlaces(Tail(q))) <= Cardinality(EventPlaces(q))
<1>1. Len(q) \in Nat \ {0} /\ DOMAIN q = 1..Len(q)
  BY LenProperties, EmptySeq
<1>2. /\ Tail(q) \in Seq(EventLines) /\ Len(Tail(q)) = Len(q) - 1
      /\ DOMAIN Tail(q) = 1..Len(q) - 1
      /\ \A i \in 1..Len(q) - 1 : Tail(q)[i] = q[i + 1]
  <2>1. Tail(q) \in Seq(EventLines) /\ Len(Tail(q)) = Len(q) - 1
        /\ \A i \in 1..Len(Tail(q)) : Tail(q)[i] = q[i + 1]
    BY HeadTailProperties
  <2>2. DOMAIN Tail(q) = 1..Len(Tail(q))
    BY <2>1, LenProperties
  <2> QED BY <2>1, <2>2
<1> DEFINE A == EventPlaces(Tail(q))
           B == EventPlaces(q)
           f == [i \in A |-> i + 1]
<1>3. \A i \in A : i \in 1..Len(q) - 1 /\ i + 1 \in B
  BY <1>1, <1>2 DEF EventPlaces
<1>4. f \in Injection(A, B)
  <2>1. f \in [A -> B]
    BY <1>3
  <2>2. \A i, j \in A : f[i] = f[j] => i = j
    BY <1>1, <1>3
  <2> HIDE DEF f, A, B
  <2> QED BY <2>1, <2>2 DEF Injection, IsInjective
<1>5. IsFiniteSet(B)
  BY EventPlacesFinite
<1> HIDE DEF f, A, B
<1>6. Cardinality(A) <= Cardinality(B)
  BY <1>4, <1>5, FS_Injection
<1> QED BY <1>6 DEF A, B

\* A thread that has numbered a line has it still to queue, and none has
\* before the greeting (which starts the numbers); TeamSpeak's thread has
\* it for the step of its script that it is at.
StreamInv ==
  /\ TypeOK
  /\ script \in Seq(Steps)
  /\ state \in OverlayStates
  /\ queue \in Seq(EventLines) /\ wire \in Seq(EventLines)
  /\ drawn \in [Threads -> EventLines \cup {NoLine}]
  /\ accept = "waiting" => \A t \in Threads : drawn[t] = NoLine
  /\ drawn["teamspeak"] # NoLine => Sending /\ accept = "registered"
  /\ BacklogBounded

\* What each step has to leave true of the queue.
QueueInv(q, n) ==
  /\ q \in Seq(EventLines)
  /\ \A i \in DOMAIN q : q[i].seq < n
  /\ Cardinality(EventPlaces(q)) <= QueueDepth

\* Adding a line, in room or in place of everything.
LEMMA QueueAppend ==
  ASSUME NEW q, NEW n \in Nat, QueueInv(q, n), NEW l \in EventLines
  PROVE  /\ l.seq < n /\ ~(Len(q) >= QueueDepth) => QueueInv(Append(q, l), n)
         /\ l.seq = n /\ l.type = "state_snapshot" => QueueInv(Append(q, l), n + 1)
<1>1. q \in Seq(EventLines) /\ Len(q) \in Nat /\ DOMAIN q = 1..Len(q) /\ l.seq \in Nat
      /\ \A i \in 1..Len(q) : q[i].seq \in Nat
  BY LenProperties, ElementOfSeq, EventLineDecodes DEF QueueInv
<1>2. /\ Append(q, l) \in Seq(EventLines) /\ Len(Append(q, l)) = Len(q) + 1
      /\ DOMAIN Append(q, l) = 1..Len(q) + 1
      /\ \A i \in 1..Len(q) : Append(q, l)[i] = q[i]
      /\ Append(q, l)[Len(q) + 1] = l
  BY <1>1, AppendProperties, LenProperties
<1>3. \A i \in 1..Len(q) : q[i].seq < n
  BY <1>1 DEF QueueInv
<1>4. ASSUME l.seq < n, ~(Len(q) >= QueueDepth) PROVE QueueInv(Append(q, l), n)
  <2>1. \A i \in DOMAIN Append(q, l) : Append(q, l)[i].seq < n
    BY <1>1, <1>2, <1>3, <1>4
  <2>2. Cardinality(EventPlaces(Append(q, l))) \in Nat
        /\ Cardinality(EventPlaces(Append(q, l))) <= Len(q) + 1
    BY <1>2, EventPlacesFinite
  <2>3. Len(q) + 1 <= QueueDepth
    BY <1>1, <1>4, StreamAssumption
  <2>4. Cardinality(EventPlaces(Append(q, l))) <= QueueDepth
    BY <1>1, <2>2, <2>3, StreamAssumption
  <2> QED BY <1>2, <2>1, <2>4 DEF QueueInv
<1>5. ASSUME l.seq = n, l.type = "state_snapshot" PROVE QueueInv(Append(q, l), n + 1)
  <2>1. \A i \in DOMAIN Append(q, l) : Append(q, l)[i].seq < n + 1
    BY <1>1, <1>2, <1>3, <1>5
  <2>2. EventPlaces(Append(q, l)) = EventPlaces(q)
    BY <1>1, <1>5, SnapshotQueued
  <2> QED BY <1>2, <2>1, <2>2 DEF QueueInv
<1> QED BY <1>4, <1>5

\* An emptied queue satisfies it.
LEMMA QueueEmpty == \A n \in Nat : QueueInv(<<>>, n)
<1>1. <<>> \in Seq(EventLines) /\ Len(<<>>) = 0 /\ DOMAIN <<>> = {}
  BY EmptySeq
<1>2. Cardinality(EventPlaces(<<>>)) <= 0 /\ Cardinality(EventPlaces(<<>>)) \in Nat
  BY <1>1, EventPlacesFinite
<1> QED BY <1>1, <1>2, StreamAssumption DEF QueueInv

\* A number drawn since only makes room below it.
LEMMA QueueLater ==
  ASSUME NEW q, NEW n \in Nat, QueueInv(q, n)
  PROVE  QueueInv(q, n + 1)
<1>1. DOMAIN q = 1..Len(q) /\ \A i \in 1..Len(q) : q[i].seq \in Nat
  BY LenProperties, ElementOfSeq, EventLineDecodes DEF QueueInv
<1> QED BY <1>1 DEF QueueInv

\* The invariant in terms of it.
LEMMA StreamInvParts ==
  StreamInv <=>
    /\ cache \in Contents /\ script \in Seq(Steps)
    /\ state \in OverlayStates
    /\ accept \in {"waiting", "greeted", "registered"}
    /\ seq \in Nat
    /\ QueueInv(queue, seq)
    /\ wire \in Seq(EventLines) /\ Len(wire) <= WireDepth
    /\ drawn \in [Threads -> EventLines \cup {NoLine}]
    /\ \A t \in Threads : drawn[t] # NoLine => drawn[t].seq < seq
    /\ accept = "waiting" => \A t \in Threads : drawn[t] = NoLine
    /\ drawn["teamspeak"] # NoLine => Sending /\ accept = "registered"
<1>1. state \in OverlayStates => state.users \in Seq(UserState)
  BY DEF OverlayStates, Rows
<1>2. BacklogBounded <=> Cardinality(EventPlaces(queue)) <= QueueDepth
  BY DEF BacklogBounded, EventPlaces
<1> QED BY <1>1, <1>2 DEF StreamInv, TypeOK, QueueInv

\* The invariant holds at first.
LEMMA StreamInitInv == Init => StreamInv
<1> SUFFICES ASSUME Init PROVE StreamInv
  OBVIOUS
<1>1. cache \in Contents
  <2>1. CASE cache = Offline
    BY <2>1, ContentsKept
  <2>2. CASE \E channel \in Channels, g \in Gatherings :
               cache = [users |-> g, channel |-> channel, connection |-> "connected"]
    <3>1. PICK channel \in Channels, g \in Gatherings :
            cache = [users |-> g, channel |-> channel, connection |-> "connected"]
      BY <2>2
    <3> QED BY <3>1, GatheringsAreRosters DEF Contents, Connections
  <2> QED BY <2>1, <2>2 DEF Init, PluginInit
<1>2. <<>> \in Rows /\ <<>> \in Seq(Steps) /\ <<>> \in Seq(EventLines) /\ Len(<<>>) = 0
  BY ModelAssumption, EmptySeq DEF Rows
<1>3. state \in OverlayStates
  BY <1>2 DEF Init, StoreInit, OverlayStates, Connections
<1>4. QueueInv(queue, seq)
  BY QueueEmpty DEF Init
<1>5. drawn \in [Threads -> EventLines \cup {NoLine}] /\ \A t \in Threads : drawn[t] = NoLine
  BY DEF Init
<1>6. "teamspeak" \in Threads
  BY DEF Threads
<1> QED
  BY <1>1, <1>2, <1>3, <1>4, <1>5, <1>6, StreamAssumption, StreamInvParts
     DEF Init, PluginInit

\* Drawing a number and queueing the line that has it.
LEMMA DrawKeeps ==
  ASSUME StreamInv, NEW t \in Threads, NEW m \in Messages \cup {Hello, Heartbeat},
         Draw(t, m)
  PROVE  /\ seq' \in Nat /\ QueueInv(queue, seq')
         /\ drawn' \in [Threads -> EventLines \cup {NoLine}]
         /\ \A u \in Threads : drawn'[u] # NoLine => drawn'[u].seq < seq'
         /\ \A u \in Threads \ {t} : drawn'[u] = drawn[u]
<1> USE StreamInvParts
<1> DEFINE l == Line(m, seq)
<1>1. l \in EventLines /\ l.seq = seq
  BY EventLineDecodes
<1>2. drawn' = [drawn EXCEPT ![t] = l] /\ seq' = seq + 1
  BY DEF Draw
<1> HIDE DEF l
<1>3. seq' \in Nat /\ QueueInv(queue, seq')
  <2>1. seq \in Nat /\ QueueInv(queue, seq)
    OBVIOUS
  <2>2. QueueInv(queue, seq + 1)
    BY <2>1, QueueLater
  <2> QED BY <1>2, <2>1, <2>2
<1>4. /\ drawn' \in [Threads -> EventLines \cup {NoLine}]
      /\ \A u \in Threads \ {t} : drawn'[u] = drawn[u]
      /\ drawn'[t] = l
  BY <1>1, <1>2
<1>5. \A u \in Threads : drawn'[u] # NoLine => drawn'[u].seq < seq'
  <2> SUFFICES ASSUME NEW u \in Threads, drawn'[u] # NoLine PROVE drawn'[u].seq < seq'
    OBVIOUS
  <2>1. CASE u = t
    BY <1>1, <1>2, <1>4, <2>1
  <2>2. CASE u # t
    <3>1. drawn'[u] = drawn[u] /\ drawn[u] \in EventLines /\ drawn[u].seq < seq
      BY <1>4, <2>2
    <3>2. drawn[u].seq \in Nat
      BY <3>1, EventLineDecodes
    <3> QED BY <1>2, <3>1, <3>2
  <2> QED BY <2>1, <2>2
<1> QED BY <1>3, <1>4, <1>5

\* Queueing a drawn line, which may empty the queue for a snapshot.
LEMMA EnqueueKeeps ==
  ASSUME StreamInv, NEW t \in Threads, Enqueue(t)
  PROVE  /\ seq' \in Nat /\ QueueInv(queue', seq')
         /\ drawn' \in [Threads -> EventLines \cup {NoLine}]
         /\ \A u \in Threads : drawn'[u] # NoLine => drawn'[u].seq < seq'
         /\ drawn'[t] = NoLine
         /\ \A u \in Threads \ {t} : drawn'[u] = drawn[u]
<1> USE StreamInvParts
<1>1. /\ drawn[t] \in EventLines /\ drawn[t].seq < seq
      /\ drawn' = [drawn EXCEPT ![t] = NoLine]
      /\ seq \in Nat
  BY DEF Enqueue
<1>2. /\ drawn' \in [Threads -> EventLines \cup {NoLine}] /\ drawn'[t] = NoLine
      /\ \A u \in Threads \ {t} : drawn'[u] = drawn[u]
  BY <1>1
<1>3. seq' \in Nat /\ (seq' = seq \/ seq' = seq + 1) /\ QueueInv(queue', seq')
  <2>1. CASE Len(queue) >= QueueDepth
    <3> DEFINE l == Line(Snapshot(cache), seq)
    <3>1. l \in EventLines /\ l.seq = seq /\ l.type = "state_snapshot"
      BY SnapshotLines
    <3>2. queue' = Append(<<>>, l) /\ seq' = seq + 1
      BY <2>1 DEF Enqueue, WithSnapshot
    <3> HIDE DEF l
    <3>3. QueueInv(Append(<<>>, l), seq + 1)
      BY <3>1, QueueEmpty, QueueAppend
    <3> QED BY <1>1, <3>2, <3>3
  <2>2. CASE ~(Len(queue) >= QueueDepth)
    <3>1. queue' = Append(queue, drawn[t]) /\ seq' = seq
      BY <2>2 DEF Enqueue
    <3>2. QueueInv(Append(queue, drawn[t]), seq)
      BY <1>1, <2>2, QueueAppend
    <3> QED BY <1>1, <3>1, <3>2
  <2> QED BY <2>1, <2>2
<1>4. \A u \in Threads : drawn'[u] # NoLine => drawn'[u].seq < seq'
  <2> SUFFICES ASSUME NEW u \in Threads, drawn'[u] # NoLine PROVE drawn'[u].seq < seq'
    OBVIOUS
  <2>1. u # t /\ drawn'[u] = drawn[u] /\ drawn[u] \in EventLines /\ drawn[u].seq < seq
    BY <1>2
  <2>2. drawn[u].seq \in Nat
    BY <2>1, EventLineDecodes
  <2> QED BY <1>1, <1>3, <2>1, <2>2
<1> QED BY <1>2, <1>3, <1>4

\* What the overlay makes of a line of the session.
LEMMA EventApplied ==
  ASSUME state \in OverlayStates, NEW m \in EventLines, Apply(m)
  PROVE  state' \in OverlayStates
<1>1. Decodes(m) /\ m.ts = 1 /\ m.type \notin ClientToServer
  BY EventLineDecodes
<1>2. CASE Confused(m) \/ DropOld(m)
  BY <1>2 DEF Confused, DropOld
<1>3. CASE Accept(m)
  <2> DEFINE s == Heard(state, m.ts)
  <2>1. s \in OverlayStates
    <3>1. s = [state EXCEPT !.lastEvent = 1, !.stale = FALSE]
      BY <1>1 DEF Heard
    <3> HIDE DEF s
    <3> QED BY <3>1 DEF OverlayStates
  <2>2. state' = Outcome(s, m).state
    BY <1>3 DEF Accept
  <2> HIDE DEF s
  <2> QED BY <1>1, <2>1, <2>2, OutcomeKeeps DEF Keeps
<1> QED BY <1>2, <1>3 DEF Apply

\* The step of a script that is a broadcast.
LEMMA SendingStep ==
  ASSUME script \in Seq(Steps)
  PROVE  /\ script # <<>> => Head(script) \in Steps /\ Tail(script) \in Seq(Steps)
         /\ Sending => Head(script).msg \in Messages
         /\ script # <<>> /\ Head(script).do = "refresh" => Head(script).cache \in Contents
<1>1. script # <<>> => Head(script) \in Steps /\ Tail(script) \in Seq(Steps)
  BY HeadTailProperties
<1>2. \A x \in Steps : /\ x.do = "send" => x.msg \in Messages
                       /\ x.do = "refresh" => x.cache \in Contents
  BY DEF Steps
<1> QED BY <1>1, <1>2 DEF Sending

\* Every step keeps the invariant.
LEMMA StreamStepInv == StreamInv /\ [Next]_vars => StreamInv'
<1> SUFFICES ASSUME StreamInv, [Next]_vars PROVE StreamInv'
  OBVIOUS
<1> DEFINE
      Fits == /\ cache \in Contents /\ script \in Seq(Steps)
              /\ state \in OverlayStates
              /\ accept \in {"waiting", "greeted", "registered"}
              /\ seq \in Nat
              /\ QueueInv(queue, seq)
              /\ wire \in Seq(EventLines) /\ Len(wire) <= WireDepth
              /\ drawn \in [Threads -> EventLines \cup {NoLine}]
              /\ \A t \in Threads : drawn[t] # NoLine => drawn[t].seq < seq
              /\ accept = "waiting" => \A t \in Threads : drawn[t] = NoLine
              /\ drawn["teamspeak"] # NoLine => Sending /\ accept = "registered"
<1>a. Fits
  BY StreamInvParts
<1>b. "teamspeak" \in Threads /\ "heartbeat" \in Threads /\ "reader" \in Threads
      /\ "heartbeat" # "teamspeak" /\ "reader" # "teamspeak"
  BY DEF Threads
<1>c. Heartbeat \in Messages \cup {Hello, Heartbeat}
  OBVIOUS
<1>1. ASSUME Greet PROVE Fits'
  <2> DEFINE h == Line(Hello, 0)
             s == Line(Snapshot(cache), 1)
  <2>1. h \in EventLines /\ h.seq = 0 /\ s \in EventLines /\ s.seq = 1
    <3>1. Hello \in Messages \cup {Hello, Heartbeat} /\ 0 \in Nat /\ 1 \in Nat
      OBVIOUS
    <3>2. h \in EventLines /\ h.seq = 0
      BY <3>1, EventLineDecodes
    <3>3. s \in EventLines /\ s.seq = 1
      BY <1>a, <3>1, SnapshotLines
    <3> QED BY <3>2, <3>3
  <2>2. queue' = <<h, s>> /\ seq' = 2 /\ accept' = "greeted"
    BY <1>1 DEF Greet
  <2> HIDE DEF h, s
  <2>3. <<h, s>> \in Seq(EventLines) /\ Len(<<h, s>>) = 2 /\ DOMAIN <<h, s>> = {1, 2}
    BY <2>1
  <2>4. \A i \in DOMAIN <<h, s>> : <<h, s>>[i].seq < 2
    BY <2>1, <2>3
  <2>5. Cardinality(EventPlaces(<<h, s>>)) <= QueueDepth
    <3>1. /\ Cardinality(EventPlaces(<<h, s>>)) \in Nat
          /\ Cardinality(EventPlaces(<<h, s>>)) <= 2
      BY <2>3, EventPlacesFinite
    <3> QED BY <3>1, StreamAssumption
  <2>6. QueueInv(<<h, s>>, 2)
    BY <2>3, <2>4, <2>5 DEF QueueInv
  <2>7. /\ cache' = cache /\ script' = script /\ state' = state /\ wire' = wire
        /\ drawn' = drawn /\ \A t \in Threads : drawn[t] = NoLine
    BY <1>1, <1>a DEF Greet, storeVars, pluginVars, pipeVars
  <2> QED BY <1>a, <1>b, <2>2, <2>6, <2>7
<1>2. ASSUME Register PROVE Fits'
  <2>1. /\ cache' = cache /\ script' = script /\ state' = state /\ wire' = wire
        /\ drawn' = drawn /\ seq' = seq /\ queue' = queue
        /\ accept = "greeted" /\ accept' = "registered"
    BY <1>2 DEF Register, storeVars, pluginVars, pipeVars
  <2> QED BY <1>a, <2>1 DEF Sending
<1>3. ASSUME TeamSpeakCalls PROVE Fits'
  <2>1. script = <<>> /\ script' \in Seq(Steps) /\ cache' = cache
    <3>1. Scripted
      BY <1>3, <1>a, CallbackScripts DEF TeamSpeakCalls
    <3> QED BY <3>1, SilentTells DEF Scripted
  <2>2. /\ state' = state /\ wire' = wire /\ accept' = accept
        /\ drawn' = drawn /\ seq' = seq /\ queue' = queue
    BY <1>3 DEF TeamSpeakCalls, storeVars, sessionVars, pipeVars
  <2>3. drawn["teamspeak"] = NoLine
    BY <1>a, <2>1 DEF Sending
  <2> QED BY <1>a, <2>1, <2>2, <2>3
<1>4. ASSUME PluginRefreshes PROVE Fits'
  <2>1. /\ script # <<>> /\ Head(script).do = "refresh"
        /\ cache' = Head(script).cache /\ script' = Tail(script)
        /\ state' = state /\ wire' = wire /\ accept' = accept
        /\ drawn' = drawn /\ seq' = seq /\ queue' = queue
    BY <1>4 DEF PluginRefreshes, RefreshCache, storeVars, sessionVars, pipeVars
  <2>2. cache' \in Contents /\ script' \in Seq(Steps)
    BY <1>a, <2>1, SendingStep
  <2>3. drawn["teamspeak"] = NoLine
    BY <1>a, <2>1 DEF Sending
  <2> QED BY <1>a, <2>1, <2>2, <2>3
<1>5. ASSUME Broadcast PROVE Fits'
  <2>1. Sending /\ accept = "registered" /\ Draw("teamspeak", Head(script).msg)
    BY <1>5 DEF Broadcast
  <2>2. /\ cache' = cache /\ script' = script /\ state' = state /\ wire' = wire
        /\ queue' = queue /\ accept' = accept
    BY <1>5 DEF Broadcast, storeVars, pluginVars, pipeVars
  <2>3. Head(script).msg \in Messages \cup {Hello, Heartbeat}
    BY <1>a, <2>1, SendingStep
  <2>4. /\ seq' \in Nat /\ QueueInv(queue, seq')
        /\ drawn' \in [Threads -> EventLines \cup {NoLine}]
        /\ \A u \in Threads : drawn'[u] # NoLine => drawn'[u].seq < seq'
    BY <1>b, <2>1, <2>3, DrawKeeps
  <2>5. Sending'
    BY <2>1, <2>2 DEF Sending
  <2> QED BY <1>a, <2>1, <2>2, <2>4, <2>5
<1>6. ASSUME BroadcastToNobody PROVE Fits'
  <2>1. /\ Sending /\ accept # "registered" /\ script' = Tail(script)
        /\ cache' = cache /\ state' = state /\ wire' = wire /\ accept' = accept
        /\ drawn' = drawn /\ seq' = seq /\ queue' = queue
    BY <1>6 DEF BroadcastToNobody, storeVars, sessionVars, pipeVars
  <2>2. script' \in Seq(Steps)
    BY <1>a, <2>1, SendingStep DEF Sending
  <2>3. drawn["teamspeak"] = NoLine
    BY <1>a, <2>1
  <2> QED BY <1>a, <2>1, <2>2, <2>3
<1>7. ASSUME EnqueueBroadcast PROVE Fits'
  <2>1. /\ Enqueue("teamspeak") /\ script' = Tail(script)
        /\ cache' = cache /\ state' = state /\ wire' = wire /\ accept' = accept
    BY <1>7 DEF EnqueueBroadcast, storeVars, pipeVars
  <2>2. Sending /\ accept = "registered"
    BY <1>a, <2>1 DEF Enqueue
  <2>3. script' \in Seq(Steps)
    BY <1>a, <2>1, <2>2, SendingStep DEF Sending
  <2>4. /\ seq' \in Nat /\ QueueInv(queue', seq')
        /\ drawn' \in [Threads -> EventLines \cup {NoLine}]
        /\ \A u \in Threads : drawn'[u] # NoLine => drawn'[u].seq < seq'
        /\ drawn'["teamspeak"] = NoLine
    BY <1>b, <2>1, EnqueueKeeps
  <2> QED BY <1>a, <2>1, <2>2, <2>3, <2>4
<1>8. ASSUME Beat PROVE Fits'
  <2>1. accept = "registered" /\ Draw("heartbeat", Heartbeat)
    BY <1>8 DEF Beat
  <2>2. /\ cache' = cache /\ script' = script /\ state' = state /\ wire' = wire
        /\ queue' = queue /\ accept' = accept
    BY <1>8 DEF Beat, storeVars, pluginVars, pipeVars
  <2>3. /\ seq' \in Nat /\ QueueInv(queue, seq')
        /\ drawn' \in [Threads -> EventLines \cup {NoLine}]
        /\ \A u \in Threads : drawn'[u] # NoLine => drawn'[u].seq < seq'
        /\ \A u \in Threads \ {"heartbeat"} : drawn'[u] = drawn[u]
    BY <1>b, <1>c, <2>1, DrawKeeps
  <2> QED BY <1>a, <1>b, <2>1, <2>2, <2>3 DEF Sending
<1>9. ASSUME NEW t \in {"heartbeat", "reader"}, Enqueue(t),
             cache' = cache, script' = script, state' = state, wire' = wire,
             accept' = accept
      PROVE  Fits'
  <2>1. /\ seq' \in Nat /\ QueueInv(queue', seq')
        /\ drawn' \in [Threads -> EventLines \cup {NoLine}]
        /\ \A u \in Threads : drawn'[u] # NoLine => drawn'[u].seq < seq'
        /\ drawn'[t] = NoLine
        /\ \A u \in Threads \ {t} : drawn'[u] = drawn[u]
    BY <1>9, <1>b, EnqueueKeeps
  <2>2. "teamspeak" \in Threads \ {t}
    BY <1>b
  <2>3. accept # "waiting"
    BY <1>9, <1>a, <1>b DEF Enqueue
  <2> QED BY <1>9, <1>a, <2>1, <2>2, <2>3 DEF Sending
<1>10. ASSUME EnqueueBeat \/ EnqueueAnswer PROVE Fits'
  BY <1>9, <1>10 DEF EnqueueBeat, EnqueueAnswer, storeVars, pluginVars, pipeVars
<1>11. ASSUME AnswerSnapshot PROVE Fits'
  <2> DEFINE l == Line(Snapshot(cache), seq)
  <2>1. /\ queue' = Append(queue, l) /\ seq' = seq + 1
        /\ cache' = cache /\ script' = script /\ state' = state /\ wire' = wire
        /\ drawn' = drawn /\ accept' = accept
    BY <1>11 DEF AnswerSnapshot, WithSnapshot, storeVars, pluginVars
  <2>2. l \in EventLines /\ l.seq = seq /\ l.type = "state_snapshot"
    BY <1>a, SnapshotLines
  <2> HIDE DEF l
  <2>3. QueueInv(queue', seq') /\ seq' \in Nat
    <3>1. seq \in Nat /\ QueueInv(queue, seq)
      BY <1>a
    <3>2. QueueInv(Append(queue, l), seq + 1)
      BY <2>2, <3>1, QueueAppend
    <3> QED BY <2>1, <3>1, <3>2
  <2>4. \A t \in Threads : drawn'[t] # NoLine => drawn'[t].seq < seq'
    <3> SUFFICES ASSUME NEW t \in Threads, drawn[t] # NoLine PROVE drawn[t].seq < seq + 1
      BY <2>1
    <3>1. drawn[t] \in EventLines /\ drawn[t].seq < seq
      BY <1>a
    <3>2. drawn[t].seq \in Nat
      BY <3>1, EventLineDecodes
    <3> QED BY <1>a, <3>1, <3>2
  <2> QED BY <1>a, <2>1, <2>3, <2>4 DEF Sending
<1>12. ASSUME AnswerPing PROVE Fits'
  <2>1. accept # "waiting" /\ Draw("reader", Heartbeat)
    BY <1>12 DEF AnswerPing, Reads
  <2>2. /\ cache' = cache /\ script' = script /\ state' = state /\ wire' = wire
        /\ queue' = queue /\ accept' = accept
    BY <1>12 DEF AnswerPing, storeVars, pluginVars
  <2>3. /\ seq' \in Nat /\ QueueInv(queue, seq')
        /\ drawn' \in [Threads -> EventLines \cup {NoLine}]
        /\ \A u \in Threads : drawn'[u] # NoLine => drawn'[u].seq < seq'
        /\ \A u \in Threads \ {"reader"} : drawn'[u] = drawn[u]
    BY <1>b, <1>c, <2>1, DrawKeeps
  <2> QED BY <1>a, <1>b, <2>1, <2>2, <2>3 DEF Sending
<1>13. ASSUME Write PROVE Fits'
  <2>1. /\ queue # <<>> /\ Len(wire) < WireDepth
        /\ wire' = Append(wire, Head(queue)) /\ queue' = Tail(queue)
        /\ cache' = cache /\ script' = script /\ state' = state
        /\ drawn' = drawn /\ seq' = seq /\ accept' = accept
    BY <1>13 DEF Write, storeVars, pluginVars
  <2>2. /\ queue \in Seq(EventLines) /\ \A i \in DOMAIN queue : queue[i].seq < seq
        /\ Cardinality(EventPlaces(queue)) <= QueueDepth
    BY <1>a DEF QueueInv
  <2>3. /\ Head(queue) \in EventLines /\ Tail(queue) \in Seq(EventLines)
        /\ Len(queue) \in Nat /\ DOMAIN queue = 1..Len(queue)
        /\ DOMAIN Tail(queue) = 1..Len(queue) - 1
        /\ \A i \in 1..Len(queue) - 1 : Tail(queue)[i] = queue[i + 1]
    <3>1. Head(queue) \in EventLines /\ Tail(queue) \in Seq(EventLines)
          /\ Len(Tail(queue)) = Len(queue) - 1
          /\ \A i \in 1..Len(Tail(queue)) : Tail(queue)[i] = queue[i + 1]
      BY <2>1, <2>2, HeadTailProperties
    <3>2. DOMAIN Tail(queue) = 1..Len(Tail(queue)) /\ DOMAIN queue = 1..Len(queue)
          /\ Len(queue) \in Nat
      BY <2>2, <3>1, LenProperties
    <3> QED BY <3>1, <3>2
  <2>4. \A i \in DOMAIN Tail(queue) : Tail(queue)[i].seq < seq
    BY <2>2, <2>3
  <2>5. Cardinality(EventPlaces(Tail(queue))) <= QueueDepth
    <3>1. /\ Cardinality(EventPlaces(Tail(queue))) <= Cardinality(EventPlaces(queue))
          /\ Cardinality(EventPlaces(Tail(queue))) \in Nat
          /\ Cardinality(EventPlaces(queue)) \in Nat
      BY <2>1, <2>2, <2>3, LineWritten, EventPlacesFinite
    <3> QED BY <2>2, <3>1, StreamAssumption
  <2>6. QueueInv(queue', seq')
    BY <2>1, <2>3, <2>4, <2>5 DEF QueueInv
  <2>7. wire' \in Seq(EventLines) /\ Len(wire') <= WireDepth
    <3>1. /\ Append(wire, Head(queue)) \in Seq(EventLines)
          /\ Len(Append(wire, Head(queue))) = Len(wire) + 1
          /\ Len(wire) \in Nat
      BY <1>a, <2>3, AppendProperties, LenProperties
    <3> QED BY <2>1, <3>1, StreamAssumption
  <2> QED BY <1>a, <2>1, <2>6, <2>7 DEF Sending
<1>14. ASSUME ClientReads PROVE Fits'
  <2>1. /\ wire # <<>> /\ Apply(Head(wire)) /\ wire' = Tail(wire)
        /\ cache' = cache /\ script' = script
        /\ drawn' = drawn /\ seq' = seq /\ accept' = accept /\ queue' = queue
    BY <1>14 DEF ClientReads, pluginVars, sessionVars
  <2>2. /\ Head(wire) \in EventLines /\ Tail(wire) \in Seq(EventLines)
        /\ Len(Tail(wire)) = Len(wire) - 1 /\ Len(wire) \in Nat
    BY <1>a, <2>1, HeadTailProperties, LenProperties
  <2>3. state' \in OverlayStates
    BY <1>a, <2>1, <2>2, EventApplied
  <2>4. Len(wire') <= WireDepth
    BY <1>a, <2>1, <2>2, StreamAssumption
  <2> QED BY <1>a, <2>1, <2>2, <2>3, <2>4 DEF Sending
<1>15. ASSUME ClientPings \/ UNCHANGED vars PROVE Fits'
  <2>1. /\ cache' = cache /\ script' = script /\ state' = state /\ wire' = wire
        /\ drawn' = drawn /\ seq' = seq /\ accept' = accept /\ queue' = queue
    BY <1>15 DEF ClientPings, vars, storeVars, pluginVars, sessionVars, pipeVars
  <2> QED BY <1>a, <2>1 DEF Sending
<1>16. Fits'
  <2> HIDE DEF Fits
  <2> QED
    BY <1>1, <1>2, <1>3, <1>4, <1>5, <1>6, <1>7, <1>8, <1>10, <1>11, <1>12, <1>13,
       <1>14, <1>15
       DEF Next, RunsOn, Plugin, Reader, Acceptor
<1>17. Fits' => StreamInv'
  <2>1. state' \in OverlayStates => state'.users \in Seq(UserState)
    BY DEF OverlayStates, Rows
  <2>2. BacklogBounded' <=> Cardinality(EventPlaces(queue')) <= QueueDepth
    BY DEF BacklogBounded, EventPlaces
  <2> QED BY <2>1, <2>2 DEF StreamInv, TypeOK, QueueInv
<1> QED BY <1>16, <1>17

\* The invariant holds throughout.
THEOREM StreamInvariance == Spec => []StreamInv
BY StreamInitInv, StreamStepInv, PTL DEF Spec

\* Whatever the five threads do in whatever order, every line drawn or queued
\* has a number below the session's next one, the pipe never holds more than
\* its depth, and both ends hold rosters of the right kind.
THEOREM StreamTypeCorrect == Spec => []TypeOK
<1>1. StreamInv => TypeOK
  BY DEF StreamInv
<1> QED BY <1>1, StreamInvariance, PTL

\* enqueue() drops the backlog of an overlay that does not read: it never
\* keeps more than queue_depth events for one.
THEOREM BacklogNeverExceeded == Spec => []BacklogBounded
<1>1. StreamInv => BacklogBounded
  BY DEF StreamInv
<1> QED BY <1>1, StreamInvariance, PTL

-----------------------------------------------------------------------------
(* What a script makes of an overlay. *)

\* The state a snapshot of c makes of any overlay, and what any line makes of
\* an overlay that accepts it.
Copy(c) ==
  [users |-> SubSeq(c.users, 1, Min({Len(c.users), MaxUsers})), channel |-> c.channel,
   connection |-> c.connection, synchronised |-> TRUE, stale |-> FALSE, lastEvent |-> 1]
Takes(a, l) == Outcome(Heard(a, 1), l).state

\* An overlay that has heard something and not been silent since.
Awake == {a \in OverlayStates : ~a.stale /\ a.lastEvent = 1}

\* The rosters the plugin keeps between two callbacks: no more rows than a
\* snapshot carries, each of somebody TeamSpeak has named, nobody twice.
Listed(c) ==
  /\ c \in Contents /\ Len(c.users) <= MaxUsers
  /\ \A i, j \in DOMAIN c.users : c.users[i].cid = c.users[j].cid => i = j
  /\ \A i \in DOMAIN c.users :
       \E p \in Profiles : p.uid = c.users[i].uid /\ p.cid = c.users[i].cid

\* R follows overlays that take all a script has yet to send: with each pair
\* it has what is left of both when the first step is done, and where nothing
\* is left of the script the overlay shows the goal.
Guides(R, goal) ==
  \A a, s : <<a, s>> \in R =>
    /\ s = <<>> => a = goal
    /\ s # <<>> /\ Head(s).do = "refresh" => <<a, Tail(s)>> \in R
    /\ s # <<>> /\ Head(s).do = "send" =>
         \A n \in Nat : <<Takes(a, Line(Head(s).msg, n)), Tail(s)>> \in R

\* The script s brings an overlay from a to the goal.
Brings(a, s, goal) == \E R : <<a, s>> \in R /\ Guides(R, goal)

\* R follows the cache while a script runs: whenever an overlay gets a snapshot
\* of it, what is left of the script brings that overlay to the goal.
Covers(R, goal) ==
  \A c, s : <<c, s>> \in R =>
    /\ Brings(Copy(c), s, goal)
    /\ s = <<>> => Listed(c)
    /\ s # <<>> /\ Head(s).do = "refresh" => <<Head(s).cache, Tail(s)>> \in R
    /\ s # <<>> /\ Head(s).do = "send" => <<c, Tail(s)>> \in R
OnCourse(c, s, goal) == \E R : <<c, s>> \in R /\ Covers(R, goal)

\* One step of a script after the other.
LEMMA BringsOn ==
  ASSUME NEW a, NEW s, NEW goal, Brings(a, s, goal)
  PROVE  /\ s = <<>> => a = goal
         /\ s # <<>> /\ Head(s).do = "refresh" => Brings(a, Tail(s), goal)
         /\ s # <<>> /\ Head(s).do = "send" =>
              \A n \in Nat : Brings(Takes(a, Line(Head(s).msg, n)), Tail(s), goal)
<1>1. PICK R : <<a, s>> \in R /\ Guides(R, goal)
  BY DEF Brings
<1>2. /\ s = <<>> => a = goal
      /\ s # <<>> /\ Head(s).do = "refresh" => <<a, Tail(s)>> \in R
      /\ s # <<>> /\ Head(s).do = "send" =>
           \A n \in Nat : <<Takes(a, Line(Head(s).msg, n)), Tail(s)>> \in R
  BY <1>1, Zenon DEF Guides
<1> QED BY <1>1, <1>2, Zenon DEF Brings

\* And what the rest brings, the whole brings.
LEMMA BringsFrom ==
  ASSUME NEW a, NEW s, NEW goal
  PROVE  /\ Brings(goal, <<>>, goal)
         /\ s # <<>> /\ Head(s).do = "refresh" /\ Brings(a, Tail(s), goal) =>
              Brings(a, s, goal)
         /\ s # <<>> /\ Head(s).do = "send"
              /\ (\E b : Brings(b, Tail(s), goal)
                         /\ \A n \in Nat : Takes(a, Line(Head(s).msg, n)) = b) =>
              Brings(a, s, goal)
<1>1. Brings(goal, <<>>, goal)
  <2> DEFINE R == {<<goal, <<>>>>}
  <2>1. \A b, t : <<b, t>> \in R => b = goal /\ t = <<>>
    OBVIOUS
  <2>2. <<goal, <<>>>> \in R
    OBVIOUS
  <2> HIDE DEF R
  <2>3. Guides(R, goal)
    BY <2>1, Zenon DEF Guides
  <2> QED BY <2>2, <2>3, Zenon DEF Brings
<1>2. ASSUME NEW b, s # <<>>, Brings(b, Tail(s), goal),
             Head(s).do = "refresh" => b = a,
             Head(s).do = "send" => \A n \in Nat : Takes(a, Line(Head(s).msg, n)) = b
      PROVE  Brings(a, s, goal)
  <2>1. PICK R : <<b, Tail(s)>> \in R /\ Guides(R, goal)
    BY <1>2, Zenon DEF Brings
  <2> DEFINE Q == R \cup {<<a, s>>}
  <2>2. \A c, t : <<c, t>> \in Q => <<c, t>> \in R \/ (c = a /\ t = s)
    OBVIOUS
  <2>3. <<a, s>> \in Q /\ \A x \in R : x \in Q
    OBVIOUS
  <2> HIDE DEF Q
  <2>4. ASSUME NEW c, NEW t, <<c, t>> \in Q
        PROVE  /\ t = <<>> => c = goal
               /\ t # <<>> /\ Head(t).do = "refresh" => <<c, Tail(t)>> \in Q
               /\ t # <<>> /\ Head(t).do = "send" =>
                    \A n \in Nat : <<Takes(c, Line(Head(t).msg, n)), Tail(t)>> \in Q
    <3>1. CASE <<c, t>> \in R
      <4>1. /\ t = <<>> => c = goal
            /\ t # <<>> /\ Head(t).do = "refresh" => <<c, Tail(t)>> \in R
            /\ t # <<>> /\ Head(t).do = "send" =>
                 \A n \in Nat : <<Takes(c, Line(Head(t).msg, n)), Tail(t)>> \in R
        BY <2>1, <3>1, Zenon DEF Guides
      <4> QED BY <2>3, <4>1, Zenon
    <3>2. CASE c = a /\ t = s
      BY <1>2, <2>1, <2>3, <3>2, Zenon
    <3> QED BY <2>2, <2>4, <3>1, <3>2
  <2>5. Guides(Q, goal)
    BY <2>4, Zenon DEF Guides
  <2> QED BY <2>3, <2>5, Zenon DEF Brings
<1>3. ASSUME s # <<>>, Head(s).do = "refresh", Brings(a, Tail(s), goal) PROVE Brings(a, s, goal)
  BY <1>2, <1>3
<1>4. ASSUME s # <<>>, Head(s).do = "send",
             NEW b, Brings(b, Tail(s), goal),
             \A n \in Nat : Takes(a, Line(Head(s).msg, n)) = b
      PROVE  Brings(a, s, goal)
  BY <1>2, <1>4
<1> QED BY <1>1, <1>3, <1>4, Zenon

\* The cache on its course.
LEMMA CourseOn ==
  ASSUME NEW c, NEW s, NEW goal, OnCourse(c, s, goal)
  PROVE  /\ Brings(Copy(c), s, goal)
         /\ s = <<>> => Listed(c)
         /\ s # <<>> /\ Head(s).do = "refresh" => OnCourse(Head(s).cache, Tail(s), goal)
         /\ s # <<>> /\ Head(s).do = "send" => OnCourse(c, Tail(s), goal)
<1>1. PICK R : <<c, s>> \in R /\ Covers(R, goal)
  BY DEF OnCourse
<1>2. /\ Brings(Copy(c), s, goal)
      /\ s = <<>> => Listed(c)
      /\ s # <<>> /\ Head(s).do = "refresh" => <<Head(s).cache, Tail(s)>> \in R
      /\ s # <<>> /\ Head(s).do = "send" => <<c, Tail(s)>> \in R
  BY <1>1, Zenon DEF Covers
<1> QED BY <1>1, <1>2, Zenon DEF OnCourse

-----------------------------------------------------------------------------
(* What the lines on their way make of an overlay. *)

\* An overlay that has heard something (h), n last, drops a line as old, or
\* takes it and notices that others are missing.
Skips(h, n, l)  == l.type # "hello" /\ h /\ l.seq <= n
Misses(h, n, l) == l.type # "hello" /\ h /\ l.seq > n + 1

\* R follows overlays that read all that is on its way to them: whoever misses
\* nothing ends up in E with what it shows and the last number it took.
Carries(R, E) ==
  \A a, h, n, q : <<a, h, n, q>> \in R =>
    /\ a \in OverlayStates /\ h \in BOOLEAN /\ n \in Nat /\ q \in Seq(EventLines)
    /\ q = <<>> => h /\ <<a, n>> \in E
    /\ q # <<>> /\ Skips(h, n, Head(q)) => <<a, h, n, Tail(q)>> \in R
    /\ q # <<>> /\ ~Skips(h, n, Head(q)) /\ ~Misses(h, n, Head(q)) =>
         <<Takes(a, Head(q)), TRUE, Head(q).seq, Tail(q)>> \in R
Delivers(a, h, n, q, E) == \E R : <<a, h, n, q>> \in R /\ Carries(R, E)

\* One line after the other.
LEMMA DeliversOn ==
  ASSUME NEW a, NEW h, NEW n, NEW q, NEW E, Delivers(a, h, n, q, E)
  PROVE  /\ q = <<>> => h /\ <<a, n>> \in E
         /\ q # <<>> /\ Skips(h, n, Head(q)) => Delivers(a, h, n, Tail(q), E)
         /\ q # <<>> /\ ~Skips(h, n, Head(q)) /\ ~Misses(h, n, Head(q)) =>
              Delivers(Takes(a, Head(q)), TRUE, Head(q).seq, Tail(q), E)
<1>1. PICK R : <<a, h, n, q>> \in R /\ Carries(R, E)
  BY DEF Delivers
<1>2. /\ q = <<>> => h /\ <<a, n>> \in E
      /\ q # <<>> /\ Skips(h, n, Head(q)) => <<a, h, n, Tail(q)>> \in R
      /\ q # <<>> /\ ~Skips(h, n, Head(q)) /\ ~Misses(h, n, Head(q)) =>
           <<Takes(a, Head(q)), TRUE, Head(q).seq, Tail(q)>> \in R
  BY <1>1, Zenon DEF Carries
<1> QED BY <1>1, <1>2, Zenon DEF Delivers

\* The same lines will do for more.
LEMMA DeliversMore ==
  ASSUME NEW a, NEW h, NEW n, NEW q, NEW E, NEW F, Delivers(a, h, n, q, E),
         \A b, m : <<b, m>> \in E => <<b, m>> \in F
  PROVE  Delivers(a, h, n, q, F)
<1>1. PICK R : <<a, h, n, q>> \in R /\ Carries(R, E)
  BY DEF Delivers
<1>2. ASSUME NEW b, NEW k, NEW m, NEW t, <<b, k, m, t>> \in R
      PROVE  /\ b \in OverlayStates /\ k \in BOOLEAN /\ m \in Nat /\ t \in Seq(EventLines)
             /\ t = <<>> => k /\ <<b, m>> \in F
             /\ t # <<>> /\ Skips(k, m, Head(t)) => <<b, k, m, Tail(t)>> \in R
             /\ t # <<>> /\ ~Skips(k, m, Head(t)) /\ ~Misses(k, m, Head(t)) =>
                  <<Takes(b, Head(t)), TRUE, Head(t).seq, Tail(t)>> \in R
  <2>1. /\ b \in OverlayStates /\ k \in BOOLEAN /\ m \in Nat /\ t \in Seq(EventLines)
        /\ t = <<>> => k /\ <<b, m>> \in E
        /\ t # <<>> /\ Skips(k, m, Head(t)) => <<b, k, m, Tail(t)>> \in R
        /\ t # <<>> /\ ~Skips(k, m, Head(t)) /\ ~Misses(k, m, Head(t)) =>
             <<Takes(b, Head(t)), TRUE, Head(t).seq, Tail(t)>> \in R
    BY <1>1, <1>2, Zenon DEF Carries
  <2>2. <<b, m>> \in E => <<b, m>> \in F
    OBVIOUS
  <2> QED BY <2>1, <2>2, Zenon
<1>3. Carries(R, F)
  BY <1>2, Zenon DEF Carries
<1> QED BY <1>1, <1>3, Zenon DEF Delivers

\* A sequence with one more element at its end, from its beginning.
LEMMA AppendBegins ==
  ASSUME NEW S, NEW t \in Seq(S), NEW l \in S
  PROVE  /\ Append(t, l) \in Seq(S) /\ Append(t, l) # <<>>
         /\ t = <<>> => Head(Append(t, l)) = l /\ Tail(Append(t, l)) = <<>>
         /\ t # <<>> => /\ Head(t) \in S /\ Tail(t) \in Seq(S)
                        /\ Head(Append(t, l)) = Head(t)
                        /\ Tail(Append(t, l)) = Append(Tail(t), l)
<1>1. Append(t, l) \in Seq(S) /\ Len(Append(t, l)) = Len(t) + 1 /\ Len(t) \in Nat
  BY AppendProperties, LenProperties
<1>2. Append(t, l) # <<>>
  BY <1>1, EmptySeq
<1>3. t # <<>> => Head(t) \in S /\ Tail(t) \in Seq(S)
  BY HeadTailProperties
<1> QED BY <1>1, <1>2, <1>3, HeadTailAppend

\* What a snapshot makes of any overlay.
LEMMA SnapshotTaken ==
  ASSUME NEW a \in OverlayStates, NEW c \in Contents, NEW n \in Nat
  PROVE  /\ Takes(a, Line(Snapshot(c), n)) = Copy(c)
         /\ Copy(c) \in Awake
<1> DEFINE l == Line(Snapshot(c), n)
<1>1. /\ l.type = "state_snapshot" /\ l.good = TRUE /\ l.users = c.users
      /\ l.channel = c.channel /\ l.connection = c.connection
  BY DEF Line, MakeLine, Snapshot
<1> HIDE DEF l
<1>2. Outcome(Heard(a, 1), l) = OnSnapshot(Heard(a, 1), l)
  BY <1>1 DEF Outcome, Ignored
<1> DEFINE cut == SubSeq(c.users, 1, Min({Len(c.users), MaxUsers}))
<1>3. OnSnapshot(Heard(a, 1), l).state =
        [Heard(a, 1) EXCEPT !.users = cut, !.channel = c.channel,
                            !.connection = c.connection, !.synchronised = TRUE]
  BY <1>1 DEF OnSnapshot, Effect
<1>4. cut \in Rows
  BY RowsCut DEF Contents
<1>5. Copy(c) = [users |-> cut, channel |-> c.channel, connection |-> c.connection,
                 synchronised |-> TRUE, stale |-> FALSE, lastEvent |-> 1]
  BY DEF Copy
<1> HIDE DEF cut
<1>6. [Heard(a, 1) EXCEPT !.users = cut, !.channel = c.channel,
                          !.connection = c.connection, !.synchronised = TRUE] = Copy(c)
  <2> DEFINE b == Heard(a, 1)
  <2>1. b \in OverlayStates /\ b.stale = FALSE /\ b.lastEvent = 1
    BY DEF Heard, OverlayStates
  <2> HIDE DEF b
  <2>2. [b EXCEPT !.users = cut, !.channel = c.channel, !.connection = c.connection,
                  !.synchronised = TRUE] = Copy(c)
    <3> DEFINE t == [b EXCEPT !.users = cut, !.channel = c.channel,
                              !.connection = c.connection, !.synchronised = TRUE]
    <3>1. /\ t \in OverlayStates /\ t.users = cut /\ t.channel = c.channel
          /\ t.connection = c.connection /\ t.synchronised = TRUE
          /\ t.stale = FALSE /\ t.lastEvent = 1
      BY <1>4, <2>1 DEF OverlayStates, Contents
    <3> HIDE DEF t
    <3>2. t = [users |-> t.users, channel |-> t.channel, connection |-> t.connection,
               synchronised |-> t.synchronised, stale |-> t.stale, lastEvent |-> t.lastEvent]
      BY <3>1 DEF OverlayStates
    <3> QED BY <1>5, <3>1, <3>2 DEF t
  <2> QED BY <2>2 DEF b
<1>7. Copy(c) \in Awake
  BY <1>4, <1>5 DEF Awake, OverlayStates, Contents
<1> QED BY <1>2, <1>3, <1>6, <1>7 DEF Takes, l

\* What any line makes of one.
LEMMA LineTaken ==
  ASSUME NEW a \in OverlayStates, NEW l \in EventLines
  PROVE  Takes(a, l) \in Awake
<1>1. Decodes(l) /\ l.type \notin ClientToServer
  BY EventLineDecodes
<1>2. Heard(a, 1) \in OverlayStates /\ Heard(a, 1).stale = FALSE /\ Heard(a, 1).lastEvent = 1
  BY DEF Heard, OverlayStates
<1>3. Keeps(Heard(a, 1), Outcome(Heard(a, 1), l))
  BY <1>1, <1>2, OutcomeKeeps
<1> QED BY <1>2, <1>3 DEF Keeps, Takes, Awake

\* A line behind all the others reaches whoever took those: F has what it
\* makes of everyone in E who misses nothing.
LEMMA DeliversAppended ==
  ASSUME NEW a, NEW h, NEW n, NEW q, NEW E, Delivers(a, h, n, q, E),
         NEW l \in EventLines, NEW F,
         \A b, m : <<b, m>> \in F => b \in OverlayStates /\ m \in Nat,
         \A b, m : <<b, m>> \in E /\ Skips(TRUE, m, l) => <<b, m>> \in F,
         \A b, m : <<b, m>> \in E /\ ~Skips(TRUE, m, l) /\ ~Misses(TRUE, m, l) =>
                     <<Takes(b, l), l.seq>> \in F
  PROVE  Delivers(a, h, n, Append(q, l), F)
<1>1. PICK R : <<a, h, n, q>> \in R /\ Carries(R, E)
  BY DEF Delivers
<1> DEFINE All   == OverlayStates \X BOOLEAN \X Nat \X Seq(EventLines)
           More  == {x \in All : \E t \in Seq(EventLines) :
                                    x[4] = Append(t, l) /\ <<x[1], x[2], x[3], t>> \in R}
           Done  == {x \in All : x[2] = TRUE /\ x[4] = <<>> /\ <<x[1], x[3]>> \in F}
           Q     == More \cup Done
<1>2. ASSUME NEW b, NEW k, NEW m, NEW t, <<b, k, m, t>> \in R
      PROVE  /\ b \in OverlayStates /\ k \in BOOLEAN /\ m \in Nat /\ t \in Seq(EventLines)
             /\ t = <<>> => k /\ <<b, m>> \in E
             /\ t # <<>> /\ Skips(k, m, Head(t)) => <<b, k, m, Tail(t)>> \in R
             /\ t # <<>> /\ ~Skips(k, m, Head(t)) /\ ~Misses(k, m, Head(t)) =>
                  <<Takes(b, Head(t)), TRUE, Head(t).seq, Tail(t)>> \in R
  BY <1>1, <1>2, Zenon DEF Carries
<1>3. ASSUME NEW b, NEW k, NEW m, NEW t, <<b, k, m, t>> \in R
      PROVE  <<b, k, m, Append(t, l)>> \in Q
  <2>1. b \in OverlayStates /\ k \in BOOLEAN /\ m \in Nat /\ t \in Seq(EventLines)
    BY <1>2, <1>3
  <2>2. Append(t, l) \in Seq(EventLines)
    BY <2>1, AppendBegins
  <2> QED BY <1>3, <2>1, <2>2
<1>4. ASSUME NEW b, NEW m, <<b, m>> \in F PROVE <<b, TRUE, m, <<>>>> \in Q
  <2>1. b \in OverlayStates /\ m \in Nat /\ <<>> \in Seq(EventLines) /\ TRUE \in BOOLEAN
    BY <1>4, EmptySeq
  <2> QED BY <1>4, <2>1
<1>5. ASSUME NEW b, NEW k, NEW m, NEW u, <<b, k, m, u>> \in Q
      PROVE  /\ b \in OverlayStates /\ k \in BOOLEAN /\ m \in Nat /\ u \in Seq(EventLines)
             /\ \/ \E t \in Seq(EventLines) : u = Append(t, l) /\ <<b, k, m, t>> \in R
                \/ k /\ u = <<>> /\ <<b, m>> \in F
  BY <1>5
<1> HIDE DEF Q
<1>6. ASSUME NEW b, NEW k, NEW m, NEW u, <<b, k, m, u>> \in Q
      PROVE  /\ b \in OverlayStates /\ k \in BOOLEAN /\ m \in Nat /\ u \in Seq(EventLines)
             /\ u = <<>> => k /\ <<b, m>> \in F
             /\ u # <<>> /\ Skips(k, m, Head(u)) => <<b, k, m, Tail(u)>> \in Q
             /\ u # <<>> /\ ~Skips(k, m, Head(u)) /\ ~Misses(k, m, Head(u)) =>
                  <<Takes(b, Head(u)), TRUE, Head(u).seq, Tail(u)>> \in Q
  <2>1. CASE k /\ u = <<>> /\ <<b, m>> \in F
    BY <1>5, <1>6, <2>1, Zenon
  <2>2. ASSUME NEW t \in Seq(EventLines), u = Append(t, l), <<b, k, m, t>> \in R
        PROVE  /\ u # <<>>
               /\ Skips(k, m, Head(u)) => <<b, k, m, Tail(u)>> \in Q
               /\ ~Skips(k, m, Head(u)) /\ ~Misses(k, m, Head(u)) =>
                    <<Takes(b, Head(u)), TRUE, Head(u).seq, Tail(u)>> \in Q
    <3>1. /\ u # <<>>
          /\ t = <<>> => Head(u) = l /\ Tail(u) = <<>>
          /\ t # <<>> => Head(u) = Head(t) /\ Tail(u) = Append(Tail(t), l)
      BY <2>2, AppendBegins
    <3>2. CASE t = <<>>
      <4>1. k = TRUE /\ <<b, m>> \in E
        BY <1>2, <2>2, <3>2
      <4>2. Skips(k, m, l) => <<b, m>> \in F
        BY <4>1, Zenon
      <4>3. ~Skips(k, m, l) /\ ~Misses(k, m, l) => <<Takes(b, l), l.seq>> \in F
        BY <4>1, Zenon
      <4>4. Skips(k, m, Head(u)) => <<b, k, m, Tail(u)>> \in Q
        BY <1>4, <3>1, <3>2, <4>1, <4>2, Zenon
      <4>5. ~Skips(k, m, Head(u)) /\ ~Misses(k, m, Head(u)) =>
              <<Takes(b, Head(u)), TRUE, Head(u).seq, Tail(u)>> \in Q
        BY <1>4, <3>1, <3>2, <4>3, Zenon
      <4> QED BY <3>1, <4>4, <4>5
    <3>3. CASE t # <<>>
      <4>1. /\ Skips(k, m, Head(t)) => <<b, k, m, Tail(t)>> \in R
            /\ ~Skips(k, m, Head(t)) /\ ~Misses(k, m, Head(t)) =>
                  <<Takes(b, Head(t)), TRUE, Head(t).seq, Tail(t)>> \in R
        BY <1>2, <2>2, <3>3, Zenon
      <4>2. /\ Skips(k, m, Head(t)) => <<b, k, m, Append(Tail(t), l)>> \in Q
            /\ ~Skips(k, m, Head(t)) /\ ~Misses(k, m, Head(t)) =>
                  <<Takes(b, Head(t)), TRUE, Head(t).seq, Append(Tail(t), l)>> \in Q
        BY <1>3, <4>1, Zenon
      <4> QED BY <3>1, <3>3, <4>2, Zenon
    <3> QED BY <3>2, <3>3
  <2>3. b \in OverlayStates /\ k \in BOOLEAN /\ m \in Nat /\ u \in Seq(EventLines)
    BY <1>5, <1>6
  <2>4. \/ \E t \in Seq(EventLines) : u = Append(t, l) /\ <<b, k, m, t>> \in R
        \/ k /\ u = <<>> /\ <<b, m>> \in F
    BY <1>5, <1>6
  <2>5. CASE \E t \in Seq(EventLines) : u = Append(t, l) /\ <<b, k, m, t>> \in R
    <3>1. PICK t \in Seq(EventLines) : u = Append(t, l) /\ <<b, k, m, t>> \in R
      BY <2>5
    <3> QED BY <2>2, <2>3, <3>1
  <2> QED BY <2>1, <2>4, <2>5
<1>7. Carries(Q, F)
  BY <1>6, Zenon DEF Carries
<1>8. <<a, h, n, Append(q, l)>> \in Q
  BY <1>1, <1>3
<1> QED BY <1>7, <1>8, Zenon DEF Delivers

\* A snapshot numbered above all there is gets through to any overlay, whatever
\* is lost before it.
LEMMA SnapshotDelivers ==
  ASSUME NEW a \in OverlayStates, NEW h \in BOOLEAN, NEW n \in Nat,
         NEW q \in Seq(EventLines), NEW c \in Contents, NEW top \in Nat,
         h => n < top, \A i \in DOMAIN q : q[i].seq < top,
         NEW E, <<Copy(c), top>> \in E
  PROVE  Delivers(a, h, n, Append(q, Line(Snapshot(c), top)), E)
<1> DEFINE l == Line(Snapshot(c), top)
<1>1. l \in EventLines /\ l.seq = top /\ l.type = "state_snapshot"
  BY SnapshotLines
<1>2. \A b \in OverlayStates : Takes(b, l) = Copy(c)
  BY SnapshotTaken
<1>3. Copy(c) \in OverlayStates
  BY SnapshotTaken DEF Awake
<1> HIDE DEF l
<1> DEFINE All   == OverlayStates \X BOOLEAN \X Nat \X Seq(EventLines)
           Below == {t \in Seq(EventLines) : \A i \in DOMAIN t : t[i].seq < top}
           Before == {x \in All : /\ x[2] => x[3] < top
                                  /\ \E t \in Below : x[4] = Append(t, l)}
           Q     == Before \cup {<<Copy(c), TRUE, top, <<>>>>}
<1>4. ASSUME NEW b \in OverlayStates, NEW k \in BOOLEAN, NEW m \in Nat, k => m < top,
             NEW t \in Below
      PROVE  <<b, k, m, Append(t, l)>> \in Q
  <2>1. Append(t, l) \in Seq(EventLines)
    BY <1>1, AppendBegins
  <2> QED BY <1>4, <2>1
<1>5. ASSUME NEW b, NEW k, NEW m, NEW u, <<b, k, m, u>> \in Q
      PROVE  /\ b \in OverlayStates /\ k \in BOOLEAN /\ m \in Nat /\ u \in Seq(EventLines)
             /\ \/ (k => m < top) /\ \E t \in Below : u = Append(t, l)
                \/ b = Copy(c) /\ k = TRUE /\ m = top /\ u = <<>>
  <2>1. <<>> \in Seq(EventLines)
    BY EmptySeq
  <2> HIDE DEF Below
  <2> QED BY <1>3, <1>5, <2>1
<1>6. <<Copy(c), TRUE, top, <<>>>> \in Q
  OBVIOUS
<1> HIDE DEF Q
<1>7. ASSUME NEW t \in Below, t # <<>>
      PROVE  /\ Head(t) \in EventLines /\ Tail(t) \in Below
             /\ Head(t).seq < top /\ Head(t).seq \in Nat
  <2>1. /\ t \in Seq(EventLines) /\ \A i \in 1..Len(t) : t[i].seq < top
        /\ Len(t) \in Nat \ {0}
    BY <1>7, LenProperties, EmptySeq
  <2>2. /\ Head(t) = t[1] /\ Head(t) \in EventLines /\ Tail(t) \in Seq(EventLines)
        /\ Len(Tail(t)) = Len(t) - 1
        /\ \A i \in 1..Len(t) - 1 : Tail(t)[i] = t[i + 1]
    BY <1>7, <2>1, HeadTailProperties
  <2>3. DOMAIN Tail(t) = 1..Len(t) - 1
    BY <2>2, LenProperties
  <2>4. \A i \in DOMAIN Tail(t) : Tail(t)[i].seq < top
    BY <2>1, <2>2, <2>3
  <2>5. Head(t).seq \in Nat
    BY <2>2, EventLineDecodes
  <2>6. Tail(t) \in Below
    BY <2>2, <2>4
  <2>7. Head(t).seq < top
    BY <2>1, <2>2
  <2> QED BY <2>2, <2>5, <2>6, <2>7
<1>8. ASSUME NEW b, NEW k, NEW m, NEW u, <<b, k, m, u>> \in Q
      PROVE  /\ b \in OverlayStates /\ k \in BOOLEAN /\ m \in Nat /\ u \in Seq(EventLines)
             /\ u = <<>> => k /\ <<b, m>> \in E
             /\ u # <<>> /\ Skips(k, m, Head(u)) => <<b, k, m, Tail(u)>> \in Q
             /\ u # <<>> /\ ~Skips(k, m, Head(u)) /\ ~Misses(k, m, Head(u)) =>
                  <<Takes(b, Head(u)), TRUE, Head(u).seq, Tail(u)>> \in Q
  <2>1. b \in OverlayStates /\ k \in BOOLEAN /\ m \in Nat /\ u \in Seq(EventLines)
    BY <1>5, <1>8
  <2>2. CASE b = Copy(c) /\ k = TRUE /\ m = top /\ u = <<>>
    BY <2>1, <2>2
  <2>3. ASSUME NEW t \in Below, u = Append(t, l), k => m < top
        PROVE  /\ u # <<>>
               /\ Skips(k, m, Head(u)) => <<b, k, m, Tail(u)>> \in Q
               /\ ~Skips(k, m, Head(u)) /\ ~Misses(k, m, Head(u)) =>
                    <<Takes(b, Head(u)), TRUE, Head(u).seq, Tail(u)>> \in Q
    <3>1. /\ u # <<>>
          /\ t = <<>> => Head(u) = l /\ Tail(u) = <<>>
          /\ t # <<>> => Head(u) = Head(t) /\ Tail(u) = Append(Tail(t), l)
      BY <1>1, <2>3, AppendBegins
    <3>2. CASE t = <<>>
      <4>1. ~Skips(k, m, Head(u))
        BY <1>1, <2>1, <2>3, <3>1, <3>2 DEF Skips
      <4>2. <<Takes(b, Head(u)), TRUE, Head(u).seq, Tail(u)>> \in Q
        BY <1>1, <1>2, <1>6, <2>1, <3>1, <3>2, Zenon
      <4> QED BY <3>1, <4>1, <4>2
    <3>3. CASE t # <<>>
      <4>1. /\ Head(t) \in EventLines /\ Tail(t) \in Below
            /\ Head(t).seq < top /\ Head(t).seq \in Nat
        BY <1>7, <3>3
      <4>2. Takes(b, Head(t)) \in OverlayStates
        BY <2>1, <4>1, LineTaken DEF Awake
      <4> HIDE DEF Below
      <4>3. <<b, k, m, Append(Tail(t), l)>> \in Q
        BY <1>4, <2>1, <2>3, <4>1
      <4>4. <<Takes(b, Head(t)), TRUE, Head(t).seq, Append(Tail(t), l)>> \in Q
        BY <1>4, <4>1, <4>2
      <4> QED BY <3>1, <3>3, <4>3, <4>4, Zenon
    <3> QED BY <3>2, <3>3
  <2>4. CASE (k => m < top) /\ \E t \in Below : u = Append(t, l)
    BY <2>1, <2>3, <2>4
  <2> HIDE DEF Below
  <2>5. \/ (k => m < top) /\ \E t \in Below : u = Append(t, l)
        \/ b = Copy(c) /\ k = TRUE /\ m = top /\ u = <<>>
    BY <1>5, <1>8
  <2> QED BY <2>2, <2>4, <2>5, Zenon
<1>9. Carries(Q, E)
  BY <1>8, Zenon DEF Carries
<1>10. <<a, h, n, Append(q, l)>> \in Q
  <2>1. q \in Below
    OBVIOUS
  <2> HIDE DEF Below
  <2> QED BY <1>4, <2>1
<1>11. Delivers(a, h, n, Append(q, l), E)
  BY <1>9, <1>10, Zenon DEF Delivers
<1> QED BY <1>11 DEF l

-----------------------------------------------------------------------------
(* The overlay between the lines and the script. *)

\* What a script has yet to send to an overlay that took number n last: if the
\* line of its first step (d) is numbered no higher, that line will be dropped.
Rest(s, d, n) == IF d # NoLine /\ d.seq <= n THEN Tail(s) ELSE s

\* What an overlay may show that has read all its lines, and the last number it
\* took, if the rest of the script is to bring it to the goal.
Ends(s, d, top, goal) ==
  {e \in Awake \X Nat : e[2] < top /\ Brings(e[1], Rest(s, d, e[2]), goal)}

\* A number drawn, for the script or for another line.
LEMMA EndsDrawn ==
  ASSUME NEW s, NEW d, NEW top \in Nat, NEW goal,
         NEW b, NEW m, <<b, m>> \in Ends(s, d, top, goal)
  PROVE  /\ b \in Awake /\ m \in Nat /\ m < top /\ Brings(b, Rest(s, d, m), goal)
         /\ <<b, m>> \in Ends(s, d, top + 1, goal)
         /\ \A l : d = NoLine /\ l.seq = top => <<b, m>> \in Ends(s, l, top + 1, goal)
<1>1. b \in Awake /\ m \in Nat /\ m < top /\ Brings(b, Rest(s, d, m), goal)
  BY DEF Ends
<1>2. m < top + 1
  BY <1>1
<1>3. <<b, m>> \in Ends(s, d, top + 1, goal)
  BY <1>1, <1>2 DEF Ends
<1>4. ASSUME NEW l, d = NoLine, l.seq = top PROVE <<b, m>> \in Ends(s, l, top + 1, goal)
  <2>1. Rest(s, d, m) = s /\ Rest(s, l, m) = s
    BY <1>1, <1>4 DEF Rest
  <2> QED BY <1>1, <1>2, <2>1 DEF Ends
<1> QED BY <1>1, <1>3, <1>4

\* A step of a script that sends nothing, and a script that begins.
LEMMA EndsSilent ==
  ASSUME NEW s, NEW top \in Nat, NEW goal,
         NEW b, NEW m, <<b, m>> \in Ends(s, NoLine, top, goal)
  PROVE  /\ s # <<>> /\ Head(s).do = "refresh" => <<b, m>> \in Ends(Tail(s), NoLine, top, goal)
         /\ \A t, next : s = <<>> /\ Brings(goal, t, next) => <<b, m>> \in Ends(t, NoLine, top, next)
<1>1. b \in Awake /\ m \in Nat /\ m < top /\ Brings(b, s, goal)
  BY DEF Ends, Rest
<1>2. \A t : Rest(t, NoLine, m) = t
  BY DEF Rest
<1>3. ASSUME s # <<>>, Head(s).do = "refresh" PROVE <<b, m>> \in Ends(Tail(s), NoLine, top, goal)
  <2>1. Brings(b, Tail(s), goal)
    BY <1>1, <1>3, BringsOn
  <2> QED BY <1>1, <1>2, <2>1 DEF Ends
<1>4. ASSUME NEW t, NEW next, s = <<>>, Brings(goal, t, next)
      PROVE  <<b, m>> \in Ends(t, NoLine, top, next)
  <2>1. b = goal
    BY <1>1, <1>4, BringsOn
  <2> QED BY <1>1, <1>2, <1>4, <2>1 DEF Ends
<1> QED BY <1>3, <1>4

\* The script's line is queued behind the others.
LEMMA EndsSent ==
  ASSUME NEW s, s # <<>>, Head(s).do = "send", Head(s).msg \in Messages,
         NEW n \in Nat, NEW top \in Nat, n < top, NEW goal,
         NEW l, l = Line(Head(s).msg, n),
         NEW b, NEW m, <<b, m>> \in Ends(s, l, top, goal)
  PROVE  /\ Skips(TRUE, m, l) => <<b, m>> \in Ends(Tail(s), NoLine, top, goal)
         /\ ~Skips(TRUE, m, l) => <<Takes(b, l), l.seq>> \in Ends(Tail(s), NoLine, top, goal)
<1>1. l \in EventLines /\ l.seq = n /\ l # NoLine /\ l.type = Head(s).msg.type
  BY EventLineDecodes
<1>2. b \in Awake /\ m \in Nat /\ m < top /\ Brings(b, Rest(s, l, m), goal)
  BY DEF Ends
<1>3. \A t, k : Rest(t, NoLine, k) = t
  BY DEF Rest
<1>4. ASSUME Skips(TRUE, m, l) PROVE <<b, m>> \in Ends(Tail(s), NoLine, top, goal)
  <2>1. Rest(s, l, m) = Tail(s)
    BY <1>1, <1>4 DEF Rest, Skips
  <2> QED BY <1>2, <1>3, <2>1 DEF Ends
<1>5. ASSUME ~Skips(TRUE, m, l)
      PROVE  <<Takes(b, l), l.seq>> \in Ends(Tail(s), NoLine, top, goal)
  <2>0. l.type # "hello"
    BY <1>1 DEF Messages
  <2>1. Rest(s, l, m) = s
    BY <1>1, <1>2, <1>5, <2>0 DEF Rest, Skips
  <2>2. Brings(Takes(b, l), Tail(s), goal)
    BY <1>2, <2>1, BringsOn
  <2>3. Takes(b, l) \in Awake
    BY <1>1, <1>2, LineTaken DEF Awake
  <2> QED BY <1>1, <1>3, <2>2, <2>3 DEF Ends
<1> QED BY <1>4, <1>5

\* A heartbeat is: it changes nothing, and draws no number of the script's.
LEMMA EndsBeaten ==
  ASSUME NEW s, NEW d, d # NoLine => d.seq \in Nat,
         NEW n \in Nat, NEW top \in Nat, n < top, NEW goal,
         NEW l, l = Line(Heartbeat, n), d # NoLine => d.seq # n,
         NEW b, NEW m, <<b, m>> \in Ends(s, d, top, goal)
  PROVE  ~Skips(TRUE, m, l) /\ ~Misses(TRUE, m, l) =>
           <<Takes(b, l), l.seq>> \in Ends(s, d, top, goal)
<1> SUFFICES ASSUME ~Skips(TRUE, m, l), ~Misses(TRUE, m, l)
             PROVE  <<Takes(b, l), l.seq>> \in Ends(s, d, top, goal)
  OBVIOUS
<1>1. l.seq = n /\ l.type = "heartbeat"
  <2>1. Heartbeat \in Messages \cup {Hello, Heartbeat} /\ Heartbeat.type = "heartbeat"
    BY DEF Heartbeat
  <2> QED BY <2>1, EventLineDecodes
<1>2. b \in Awake /\ m \in Nat /\ m < top /\ Brings(b, Rest(s, d, m), goal)
  BY DEF Ends
<1>3. n = m + 1
  BY <1>1, <1>2 DEF Skips, Misses
<1>4. Rest(s, d, m) = Rest(s, d, n)
  BY <1>2, <1>3 DEF Rest
<1>5. Takes(b, l) = b
  <2>1. Outcome(Heard(b, 1), l) = Nothing(Heard(b, 1))
    BY <1>1 DEF Outcome, Ignored
  <2>2. Heard(b, 1) = b
    BY <1>2 DEF Heard, Awake, OverlayStates
  <2> QED BY <2>1, <2>2 DEF Takes, Nothing, Effect
<1> QED BY <1>1, <1>2, <1>4, <1>5 DEF Ends

\* Whoever gets a snapshot of the cache is on course.
LEMMA EndsCopied ==
  ASSUME NEW c \in Contents, NEW s, NEW goal, OnCourse(c, s, goal), NEW top \in Nat,
         NEW d, d # NoLine => d.seq < top /\ d.seq \in Nat /\ s # <<>> /\ Head(s).do = "send"
  PROVE  <<Copy(c), top>> \in Ends(s, d, top + 1, goal)
<1>1. Copy(c) \in Awake
  <2>1. \E a : a \in OverlayStates
    <3>1. <<>> \in Rows
      BY ModelAssumption, EmptySeq DEF Rows
    <3>2. [users |-> <<>>, channel |-> NoChannel, connection |-> "connected",
           synchronised |-> TRUE, stale |-> TRUE, lastEvent |-> 0] \in OverlayStates
      BY <3>1 DEF OverlayStates, Connections
    <3> QED BY <3>2
  <2>2. 0 \in Nat
    OBVIOUS
  <2> QED BY <2>1, <2>2, SnapshotTaken
<1>2. Brings(Copy(c), Rest(s, d, top), goal)
  <2>1. CASE d = NoLine
    BY <2>1, CourseOn DEF Rest
  <2>2. CASE d # NoLine
    <3>1. Rest(s, d, top) = Tail(s)
      BY <2>2 DEF Rest
    <3>2. OnCourse(c, Tail(s), goal)
      BY <2>2, CourseOn
    <3> QED BY <3>1, <3>2, CourseOn
  <2> QED BY <2>1, <2>2
<1> QED BY <1>1, <1>2 DEF Ends

-----------------------------------------------------------------------------
(* The invariant of the whole. *)

\* Every number given is below the next; a thread holds the line it has drawn
\* a number for, a heartbeat unless it is the script's; nothing is numbered
\* before the greeting.
LinesInv ==
  /\ track.haveSeq \in BOOLEAN /\ track.lastSeq \in Nat
  /\ track.haveSeq => track.lastSeq < seq
  /\ \A i \in DOMAIN wire : wire[i].seq < seq
  /\ requests \in Seq({"request_snapshot", "ping"})
  /\ accept = "waiting" => seq = 0
  /\ drawn["teamspeak"] # NoLine =>
       \E n \in Nat : drawn["teamspeak"] = Line(Head(script).msg, n)
  /\ \A t \in {"heartbeat", "reader"} : drawn[t] # NoLine =>
       /\ \E n \in Nat : drawn[t] = Line(Heartbeat, n)
       /\ drawn["teamspeak"] # NoLine => drawn[t].seq # drawn["teamspeak"].seq

\* An overlay is to get a snapshot, or the lines on their way and then the rest
\* of the script make it show what the cache will hold.
Pending == \E i \in DOMAIN requests : requests[i] = "request_snapshot"
Catching(goal) ==
  Delivers(state, track.haveSeq, track.lastSeq, wire \o queue,
           Ends(script, drawn["teamspeak"], seq, goal))
Course ==
  \E goal : /\ OnCourse(cache, script, goal)
            /\ accept # "waiting" /\ ~missed => Pending \/ Catching(goal)

\* What an overlay does with a line of the session.
LEMMA LineRead ==
  ASSUME NEW l \in EventLines, Apply(l)
  PROVE  \/ /\ Skips(track.haveSeq, track.lastSeq, l)
            /\ state' = state /\ track' = track
         \/ /\ ~Skips(track.haveSeq, track.lastSeq, l)
            /\ state' = Takes(state, l)
            /\ track'.haveSeq = TRUE /\ track'.lastSeq = l.seq
            /\ Misses(track.haveSeq, track.lastSeq, l) /\ l.type # "error" =>
                 reply' = "RequestSnapshot"
<1>1. Decodes(l) /\ l.ts = 1 /\ l.type \notin ClientToServer
  BY EventLineDecodes
<1>2. IsOld(l) <=> Skips(track.haveSeq, track.lastSeq, l)
  BY DEF IsOld, Ordered, Skips
<1>3. CASE Accept(l)
  <2> DEFINE e == Outcome(Heard(state, l.ts), l)
  <2>1. /\ ~IsOld(l) /\ state' = e.state
        /\ reply' = Stronger(IF IsGap(l) THEN "RequestSnapshot" ELSE "None", e.act)
        /\ track' = [handshaken |-> track.handshaken \/ (l.type = "hello" /\ e.act = "None"),
                     haveSeq |-> TRUE, lastSeq |-> l.seq, staleReported |-> StillReported(l)]
    BY <1>3 DEF Accept
  <2>2. e.state = Takes(state, l)
    BY <1>1 DEF Takes
  <2>3. ASSUME IsGap(l), l.type # "error" PROVE e.act # "Disconnect"
    <3> DEFINE s == Heard(state, l.ts)
    <3>1. l.type # "hello" /\ e = Outcome(s, l)
      BY <2>3 DEF IsGap, Ordered
    <3> HIDE DEF e, s
    <3>2. e.act \in {"None", "RequestSnapshot"}
      <4>1. CASE Ignored(s, l)
        BY <2>3, <3>1, <4>1 DEF Outcome, Nothing, Effect
      <4>2. CASE ~Ignored(s, l)
        <5>1. l.type \in {"state_snapshot", "connection_changed", "channel_changed",
                          "user_joined", "user_updated", "user_left", "speaking_changed",
                          "mute_changed", "commander_changed", "whisper_changed"}
          BY <1>1, <2>3, <3>1, <4>2 DEF Decodes, MessageTypes, ClientToServer, Ignored
        <5>2. /\ OnSnapshot(s, l).act = "None" /\ OnConnectionChanged(s, l).act = "None"
              /\ OnChannelChanged(s, l).act = "RequestSnapshot"
              /\ OnUserJoined(s, l).act = "None" /\ OnUserLeft(s, l).act = "None"
              /\ OnUserUpdated(s, l).act \in {"None", "RequestSnapshot"}
          BY DEF OnSnapshot, OnConnectionChanged, OnChannelChanged, OnUserJoined, OnUserLeft,
                 OnUserUpdated, Effect, Nothing
        <5>3. /\ OnSpeakingChanged(s, l).act = "None" /\ OnMuteChanged(s, l).act = "None"
              /\ OnCommanderChanged(s, l).act = "None" /\ OnWhisperChanged(s, l).act = "None"
          BY DEF OnSpeakingChanged, OnMuteChanged, OnCommanderChanged, OnWhisperChanged,
                 Effect, Nothing
        <5> QED BY <2>3, <3>1, <4>2, <5>1, <5>2, <5>3 DEF Outcome
      <4> QED BY <4>1, <4>2
    <3> QED BY <3>2
  <2> HIDE DEF e
  <2>4. IsGap(l) <=> Misses(track.haveSeq, track.lastSeq, l)
    BY DEF IsGap, Ordered, Misses
  <2>5. Misses(track.haveSeq, track.lastSeq, l) /\ l.type # "error" => reply' = "RequestSnapshot"
    BY <2>1, <2>3, <2>4 DEF Stronger
  <2>6. track'.haveSeq = TRUE /\ track'.lastSeq = l.seq
    BY <2>1
  <2> QED BY <1>2, <2>1, <2>2, <2>5, <2>6
<1>4. CASE DropOld(l)
  BY <1>2, <1>4 DEF DropOld
<1>5. CASE Confused(l)
  BY <1>1, <1>5 DEF Confused
<1> QED BY <1>3, <1>4, <1>5 DEF Apply

\* A sequence is its first element and the rest.
LEMMA HeadAndTail ==
  ASSUME NEW S, NEW s \in Seq(S), s # <<>>
  PROVE  /\ Head(s) \in S /\ Tail(s) \in Seq(S) /\ <<Head(s)>> \in Seq(S)
         /\ s = <<Head(s)>> \o Tail(s)
<1>1. /\ Head(s) \in S /\ Head(s) = s[1] /\ Tail(s) \in Seq(S)
      /\ Len(s) \in Nat \ {0}
  BY HeadTailProperties, LenProperties, EmptySeq
<1>2. SubSeq(s, 1, Len(s)) = <<s[1]>> \o SubSeq(s, 1 + 1, Len(s))
  BY <1>1, SubSeqRecursiveFirst
<1>3. SubSeq(s, 1, Len(s)) = s /\ SubSeq(s, 2, Len(s)) = Tail(s) /\ 1 + 1 = 2
  BY SubSeqFull, TailIsSubSeq
<1> QED BY <1>1, <1>2, <1>3

\* The queue and the pipe are one line after the other.
LEMMA QueueJoined ==
  ASSUME NEW v \in Seq(EventLines), NEW q \in Seq(EventLines)
  PROVE  /\ v \o q \in Seq(EventLines)
         /\ \A l \in EventLines : v \o Append(q, l) = Append(v \o q, l)
         /\ v # <<>> => /\ v \o q # <<>> /\ Head(v \o q) = Head(v)
                        /\ Tail(v \o q) = Tail(v) \o q
         /\ q # <<>> => Append(v, Head(q)) \o Tail(q) = v \o q
<1>1. v \o q \in Seq(EventLines)
  BY ConcatProperties
<1>2. ASSUME NEW l \in EventLines PROVE v \o Append(q, l) = Append(v \o q, l)
  <2>1. <<l>> \in Seq(EventLines)
    OBVIOUS
  <2>2. Append(q, l) = q \o <<l>> /\ Append(v \o q, l) = (v \o q) \o <<l>>
    BY <1>1, AppendIsConcat
  <2>3. (v \o q) \o <<l>> = v \o (q \o <<l>>)
    BY <2>1, ConcatAssociative
  <2> QED BY <2>2, <2>3
<1>3. ASSUME NEW s \in Seq(EventLines), s # <<>>
      PROVE  /\ Head(s) \in EventLines /\ Tail(s) \in Seq(EventLines)
             /\ <<Head(s)>> \in Seq(EventLines) /\ s = <<Head(s)>> \o Tail(s)
  BY <1>3, HeadAndTail
<1>4. ASSUME v # <<>>
      PROVE  v \o q # <<>> /\ Head(v \o q) = Head(v) /\ Tail(v \o q) = Tail(v) \o q
  <2>1. /\ Head(v) \in EventLines /\ Tail(v) \in Seq(EventLines)
        /\ <<Head(v)>> \in Seq(EventLines) /\ v = <<Head(v)>> \o Tail(v)
    BY <1>3, <1>4
  <2>2. PICK t : t = Tail(v) \o q
    OBVIOUS
  <2>3. t \in Seq(EventLines) /\ v \o q = <<Head(v)>> \o t
    BY <2>1, <2>2, ConcatProperties, ConcatAssociative
  <2>4. <<Head(v)>> \o t # <<>> /\ Head(<<Head(v)>> \o t) = Head(v)
        /\ Tail(<<Head(v)>> \o t) = t
    BY <2>1, <2>3
  <2> QED BY <2>2, <2>3, <2>4
<1>5. ASSUME q # <<>> PROVE Append(v, Head(q)) \o Tail(q) = v \o q
  <2>1. /\ Head(q) \in EventLines /\ Tail(q) \in Seq(EventLines)
        /\ <<Head(q)>> \in Seq(EventLines) /\ q = <<Head(q)>> \o Tail(q)
    BY <1>3, <1>5
  <2>2. Append(v, Head(q)) = v \o <<Head(q)>>
    BY <2>1, AppendIsConcat
  <2>3. (v \o <<Head(q)>>) \o Tail(q) = v \o (<<Head(q)>> \o Tail(q))
    BY <2>1, ConcatAssociative
  <2> QED BY <2>1, <2>2, <2>3
<1> QED BY <1>1, <1>2, <1>4, <1>5

-----------------------------------------------------------------------------
(* The lines keep in order. *)

\* Which step changes which part of it.
LEMMA LinesMoved ==
  ASSUME StreamInv, LinesInv, [Next]_vars
  PROVE  /\ seq \in Nat /\ seq' \in Nat /\ seq <= seq'
         /\ ClientReads \/ track' = track
         /\ ClientReads \/ Write \/ wire' = wire
         /\ ClientReads \/ ClientPings \/ Reads("request_snapshot") \/ Reads("ping")
              \/ requests' = requests
         /\ accept' = "waiting" => accept = "waiting" /\ seq' = seq
<1>1. seq \in Nat /\ (accept = "waiting" => seq = 0)
      /\ (accept = "waiting" => \A t \in Threads : drawn[t] = NoLine)
  BY StreamInvParts DEF LinesInv
<1>2. CASE Greet
  BY <1>1, <1>2 DEF Greet, storeVars, pipeVars
<1>3. CASE Register \/ TeamSpeakCalls \/ PluginRefreshes \/ BroadcastToNobody \/ UNCHANGED vars
  BY <1>1, <1>3 DEF Register, TeamSpeakCalls, PluginRefreshes, BroadcastToNobody, vars,
                    storeVars, sessionVars, pipeVars
<1>4. CASE Broadcast \/ Beat
  BY <1>1, <1>4 DEF Broadcast, Beat, Draw, storeVars, pipeVars
<1>5. CASE EnqueueBroadcast \/ EnqueueBeat \/ EnqueueAnswer
  <2>1. PICK t \in Threads : Enqueue(t)
    BY <1>5 DEF EnqueueBroadcast, EnqueueBeat, EnqueueAnswer, Threads
  <2>2. accept # "waiting" /\ (seq' = seq \/ seq' = seq + 1)
    BY <1>1, <2>1 DEF Enqueue
  <2>3. track' = track /\ wire' = wire /\ requests' = requests /\ accept' = accept
    BY <1>5 DEF EnqueueBroadcast, EnqueueBeat, EnqueueAnswer, storeVars, pipeVars
  <2> QED BY <1>1, <2>2, <2>3
<1>6. CASE AnswerSnapshot \/ AnswerPing
  <2>1. /\ Reads("request_snapshot") \/ Reads("ping")
        /\ seq' = seq + 1 /\ track' = track /\ wire' = wire /\ accept' = accept
    BY <1>6 DEF AnswerSnapshot, AnswerPing, Draw, storeVars
  <2>2. accept # "waiting"
    BY <2>1 DEF Reads
  <2> QED BY <1>1, <2>1, <2>2
<1>7. CASE Write
  BY <1>1, <1>7 DEF Write, storeVars
<1>8. CASE ClientReads \/ ClientPings
  BY <1>1, <1>8 DEF ClientReads, ClientPings, storeVars, sessionVars
<1> QED BY <1>2, <1>3, <1>4, <1>5, <1>6, <1>7, <1>8
           DEF Next, RunsOn, Plugin, Reader, Acceptor

\* What is read, what is written.
LEMMA LinesBelow ==
  ASSUME StreamInv, LinesInv, [Next]_vars
  PROVE  /\ track'.haveSeq \in BOOLEAN /\ track'.lastSeq \in Nat
         /\ track'.haveSeq => track'.lastSeq < seq'
         /\ \A i \in DOMAIN wire' : wire'[i].seq < seq'
         /\ requests' \in Seq({"request_snapshot", "ping"})
         /\ accept' = "waiting" => seq' = 0
<1>1. /\ track.haveSeq \in BOOLEAN /\ track.lastSeq \in Nat
      /\ track.haveSeq => track.lastSeq < seq
      /\ \A i \in DOMAIN wire : wire[i].seq < seq
      /\ requests \in Seq({"request_snapshot", "ping"})
      /\ accept = "waiting" => seq = 0
  BY DEF LinesInv
<1>2. /\ wire \in Seq(EventLines) /\ queue \in Seq(EventLines)
      /\ \A i \in DOMAIN queue : queue[i].seq < seq
  BY StreamInvParts DEF QueueInv
<1>3. /\ seq \in Nat /\ seq' \in Nat /\ seq <= seq'
      /\ ClientReads \/ track' = track
      /\ ClientReads \/ Write \/ wire' = wire
      /\ ClientReads \/ ClientPings \/ Reads("request_snapshot") \/ Reads("ping")
           \/ requests' = requests
      /\ accept' = "waiting" => accept = "waiting" /\ seq' = seq
  BY LinesMoved
<1>4. \A q \in Seq(EventLines) : \A i \in DOMAIN q : q[i].seq \in Nat
  BY EventLineDecodes, ElementOfSeq, LenProperties
<1>5. ASSUME NEW q \in Seq(EventLines), q # <<>>, \A i \in DOMAIN q : q[i].seq < seq
      PROVE  /\ Head(q) \in EventLines /\ Head(q).seq \in Nat /\ Head(q).seq < seq
             /\ Tail(q) \in Seq(EventLines) /\ \A i \in DOMAIN Tail(q) : Tail(q)[i].seq < seq
  <2>1. /\ Len(q) \in Nat \ {0} /\ DOMAIN q = 1..Len(q)
        /\ Head(q) = q[1] /\ Head(q) \in EventLines /\ Tail(q) \in Seq(EventLines)
        /\ Len(Tail(q)) = Len(q) - 1 /\ \A i \in 1..Len(q) - 1 : Tail(q)[i] = q[i + 1]
    BY <1>5, LenProperties, HeadTailProperties, EmptySeq
  <2>2. DOMAIN Tail(q) = 1..Len(q) - 1
    BY <2>1, LenProperties
  <2> QED BY <1>4, <1>5, <2>1, <2>2
<1>6. CASE ClientReads
  <2>1. /\ wire # <<>> /\ Apply(Head(wire)) /\ wire' = Tail(wire)
        /\ requests' = requests \/ requests' = Append(requests, "request_snapshot")
    BY <1>6 DEF ClientReads
  <2> DEFINE l == Head(wire)
  <2>2. /\ l \in EventLines /\ l.seq \in Nat /\ l.seq < seq
        /\ \A i \in DOMAIN Tail(wire) : Tail(wire)[i].seq < seq
    BY <1>1, <1>2, <1>5, <2>1
  <2> HIDE DEF l
  <2>3. track' = track \/ (track'.haveSeq = TRUE /\ track'.lastSeq = l.seq)
    BY <2>1, <2>2, LineRead DEF l
  <2>4. requests' \in Seq({"request_snapshot", "ping"})
    BY <1>1, <2>1, AppendProperties
  <2>5. Tail(wire) \in Seq(EventLines)
    BY <1>1, <1>2, <1>5, <2>1
  <2>6. \A i \in DOMAIN Tail(wire) : Tail(wire)[i].seq < seq'
    BY <1>3, <1>4, <2>2, <2>5
  <2>7. /\ track'.haveSeq \in BOOLEAN /\ track'.lastSeq \in Nat
        /\ track'.haveSeq => track'.lastSeq < seq'
    <3>1. CASE track' = track
      <4>1. track.lastSeq < seq => track.lastSeq < seq'
        BY <1>1, <1>3
      <4> QED BY <1>1, <3>1, <4>1, Zenon
    <3>2. CASE track'.haveSeq = TRUE /\ track'.lastSeq = l.seq
      <4>1. track'.lastSeq \in Nat /\ track'.lastSeq < seq'
        BY <1>3, <2>2, <3>2
      <4> QED BY <3>2, <4>1, Zenon
    <3> QED BY <2>3, <3>1, <3>2
  <2>8. \A i \in DOMAIN wire' : wire'[i].seq < seq'
    BY <2>1, <2>6
  <2>9. accept' = "waiting" => seq' = 0
    BY <1>1, <1>3
  <2> QED BY <2>4, <2>7, <2>8, <2>9
<1>7. CASE Write
  <2>1. queue # <<>> /\ wire' = Append(wire, Head(queue)) /\ track' = track
        /\ requests' = requests /\ seq' = seq /\ accept' = accept
    BY <1>7 DEF Write, storeVars
  <2>2. Head(queue) \in EventLines /\ Head(queue).seq < seq
    BY <1>2, <1>5, <2>1
  <2>3. \A i \in DOMAIN Append(wire, Head(queue)) : Append(wire, Head(queue))[i].seq < seq
    <3>1. /\ DOMAIN wire = 1..Len(wire) /\ Len(wire) \in Nat
          /\ DOMAIN Append(wire, Head(queue)) = 1..Len(wire) + 1
          /\ \A i \in 1..Len(wire) : Append(wire, Head(queue))[i] = wire[i]
          /\ Append(wire, Head(queue))[Len(wire) + 1] = Head(queue)
      BY <1>2, <2>2, AppendProperties, LenProperties
    <3> QED BY <1>1, <2>2, <3>1
  <2> QED BY <1>1, <1>3, <2>1, <2>3
<1>8. CASE wire' = wire /\ track' = track
  <2>1. \A i \in DOMAIN wire : wire[i].seq \in Nat
    BY <1>2, <1>4
  <2>2. \A i \in DOMAIN wire' : wire'[i].seq < seq'
    BY <1>1, <1>3, <1>8, <2>1
  <2>3. requests' \in Seq({"request_snapshot", "ping"})
    <3>1. CASE Reads("request_snapshot") \/ Reads("ping")
      <4>1. requests # <<>> /\ requests' = Tail(requests)
        BY <3>1 DEF Reads
      <4> QED BY <1>1, <4>1, HeadTailProperties
    <3>2. CASE ClientPings
      <4>1. requests' = Append(requests, "ping")
        BY <3>2 DEF ClientPings
      <4> QED BY <1>1, <4>1, AppendProperties
    <3>3. CASE ClientReads
      <4>1. requests' = requests \/ requests' = Append(requests, "request_snapshot")
        BY <3>3 DEF ClientReads
      <4> QED BY <1>1, <4>1, AppendProperties
    <3> QED BY <1>1, <1>3, <3>1, <3>2, <3>3
  <2> QED BY <1>1, <1>3, <1>8, <2>2, <2>3
<1> QED BY <1>3, <1>6, <1>7, <1>8

\* What the threads hold.
LEMMA LinesDrawn ==
  ASSUME StreamInv, LinesInv, [Next]_vars
  PROVE  /\ drawn'["teamspeak"] # NoLine =>
              \E n \in Nat : drawn'["teamspeak"] = Line(Head(script').msg, n)
         /\ \A t \in {"heartbeat", "reader"} : drawn'[t] # NoLine =>
              /\ \E n \in Nat : drawn'[t] = Line(Heartbeat, n)
              /\ drawn'["teamspeak"] # NoLine => drawn'[t].seq # drawn'["teamspeak"].seq
<1> DEFINE Held(d, s) ==
      /\ d["teamspeak"] # NoLine => \E n \in Nat : d["teamspeak"] = Line(Head(s).msg, n)
      /\ \A t \in {"heartbeat", "reader"} : d[t] # NoLine =>
           /\ \E n \in Nat : d[t] = Line(Heartbeat, n)
           /\ d["teamspeak"] # NoLine => d[t].seq # d["teamspeak"].seq
<1>1. Held(drawn, script)
  BY DEF LinesInv
<1>2. /\ Threads = {"teamspeak", "heartbeat", "reader"}
      /\ drawn \in [Threads -> EventLines \cup {NoLine}] /\ seq \in Nat
      /\ \A t \in Threads : drawn[t] # NoLine => drawn[t].seq < seq /\ drawn[t].seq \in Nat
      /\ drawn["teamspeak"] # NoLine => Sending /\ accept = "registered"
  BY StreamInvParts, EventLineDecodes DEF Threads
<1>3. ASSUME drawn' = drawn, script' = script PROVE Held(drawn', script')
  BY <1>1, <1>3
<1>4. ASSUME drawn' = drawn, drawn["teamspeak"] = NoLine PROVE Held(drawn', script')
  BY <1>1, <1>4
<1>5. CASE Greet \/ Register \/ AnswerSnapshot \/ Write \/ ClientReads \/ ClientPings
             \/ UNCHANGED vars
  <2>1. drawn' = drawn /\ script' = script
    BY <1>5 DEF Greet, Register, AnswerSnapshot, Write, ClientReads, ClientPings, vars,
                pluginVars, sessionVars
  <2> HIDE DEF Held
  <2> QED BY <1>3, <2>1 DEF Held
<1>6. CASE TeamSpeakCalls \/ PluginRefreshes \/ BroadcastToNobody
  <2>1. drawn' = drawn /\ (~Sending \/ accept # "registered")
    BY <1>6 DEF TeamSpeakCalls, PluginRefreshes, RefreshCache, BroadcastToNobody, sessionVars,
                Sending
  <2>2. drawn["teamspeak"] = NoLine
    BY <1>2, <2>1
  <2> HIDE DEF Held
  <2> QED BY <1>4, <2>1, <2>2 DEF Held
<1>7. CASE Broadcast
  <2> DEFINE m == Head(script).msg
  <2>1. /\ Sending /\ script' = script /\ drawn["teamspeak"] = NoLine
        /\ drawn' = [drawn EXCEPT !["teamspeak"] = Line(m, seq)]
    BY <1>7 DEF Broadcast, Draw, pluginVars
  <2>2. m \in Messages
    BY <2>1, SendingStep, StreamInvParts
  <2>3. Line(m, seq).seq = seq
    BY <1>2, <2>2, EventLineDecodes
  <2> HIDE DEF m
  <2> DEFINE l == Line(m, seq)
  <2>4. l = Line(m, seq) /\ l.seq = seq
    BY <2>3
  <2> HIDE DEF l
  <2>5. drawn' = [drawn EXCEPT !["teamspeak"] = l]
    BY <2>1, <2>4
  <2>6. drawn'["teamspeak"] = l /\ \A t \in {"heartbeat", "reader"} : drawn'[t] = drawn[t]
    BY <1>2, <2>5
  <2>7. \A t \in {"heartbeat", "reader"} : drawn[t] # NoLine => drawn[t].seq # seq
    BY <1>2
  <2>8. \E n \in Nat : l = Line(Head(script').msg, n)
    BY <1>2, <2>1, <2>4 DEF m
  <2> QED BY <1>1, <2>4, <2>6, <2>7, <2>8
<1>8. ASSUME NEW t \in {"heartbeat", "reader"}, Draw(t, Heartbeat), script' = script
      PROVE  Held(drawn', script')
  <2> DEFINE l == Line(Heartbeat, seq)
  <2>1. Heartbeat \in Messages \cup {Hello, Heartbeat}
    OBVIOUS
  <2>2. l.seq = seq /\ l = Line(Heartbeat, seq)
    BY <1>2, <2>1, EventLineDecodes
  <2>3. drawn' = [drawn EXCEPT ![t] = l]
    BY <1>8 DEF Draw
  <2> HIDE DEF l
  <2>4. drawn'[t] = l /\ \A u \in Threads : u # t => drawn'[u] = drawn[u]
    BY <1>2, <2>3
  <2>5. /\ drawn'["teamspeak"] = drawn["teamspeak"]
        /\ drawn["teamspeak"] # NoLine => drawn["teamspeak"].seq # seq
    BY <1>2, <2>4
  <2>6. ASSUME NEW u \in {"heartbeat", "reader"}, drawn'[u] # NoLine
        PROVE  /\ \E n \in Nat : drawn'[u] = Line(Heartbeat, n)
               /\ drawn'["teamspeak"] # NoLine => drawn'[u].seq # drawn'["teamspeak"].seq
    <3>1. CASE u = t
      BY <1>2, <2>2, <2>4, <2>5, <3>1
    <3>2. CASE u # t
      <4>1. drawn'[u] = drawn[u]
        BY <1>2, <2>4, <3>2
      <4>2. drawn[u] # NoLine
        BY <2>6, <4>1
      <4>3. /\ \E n \in Nat : drawn[u] = Line(Heartbeat, n)
            /\ drawn["teamspeak"] # NoLine => drawn[u].seq # drawn["teamspeak"].seq
        BY <1>1, <4>2
      <4> QED BY <2>5, <4>1, <4>3
    <3> QED BY <3>1, <3>2
  <2>7. drawn'["teamspeak"] # NoLine =>
          \E n \in Nat : drawn'["teamspeak"] = Line(Head(script').msg, n)
    <3>1. drawn["teamspeak"] # NoLine =>
            \E n \in Nat : drawn["teamspeak"] = Line(Head(script).msg, n)
      BY <1>1
    <3>2. drawn'["teamspeak"] = drawn["teamspeak"] /\ script' = script
      BY <1>8, <2>5
    <3> QED BY <3>1, <3>2
  <2> QED BY <2>6, <2>7
<1>9. CASE Beat \/ AnswerPing
  <2>1. script' = script /\ (Draw("heartbeat", Heartbeat) \/ Draw("reader", Heartbeat))
    BY <1>9 DEF Beat, AnswerPing, pluginVars
  <2> HIDE DEF Held
  <2> QED BY <1>8, <2>1 DEF Held
<1>10. CASE EnqueueBroadcast
  <2>1. drawn' = [drawn EXCEPT !["teamspeak"] = NoLine]
    BY <1>10 DEF EnqueueBroadcast, Enqueue
  <2>2. drawn'["teamspeak"] = NoLine /\ \A t \in {"heartbeat", "reader"} : drawn'[t] = drawn[t]
    BY <1>2, <2>1
  <2> QED BY <1>1, <2>2
<1>11. CASE EnqueueBeat \/ EnqueueAnswer
  <2>1. script' = script /\ \E t \in {"heartbeat", "reader"} : drawn' = [drawn EXCEPT ![t] = NoLine]
    BY <1>11 DEF EnqueueBeat, EnqueueAnswer, Enqueue, pluginVars
  <2>2. drawn'["teamspeak"] = drawn["teamspeak"]
        /\ \A t \in {"heartbeat", "reader"} : drawn'[t] = drawn[t] \/ drawn'[t] = NoLine
    BY <1>2, <2>1
  <2> QED BY <1>1, <2>1, <2>2
<1> HIDE DEF Held
<1> QED BY <1>5, <1>6, <1>7, <1>9, <1>10, <1>11 DEF Next, RunsOn, Plugin, Reader, Acceptor

\* Together: every step keeps the lines in order ...
LEMMA LinesStep == StreamInv /\ LinesInv /\ [Next]_vars => LinesInv'
<1> SUFFICES ASSUME StreamInv, LinesInv, [Next]_vars PROVE LinesInv'
  OBVIOUS
<1> QED BY LinesBelow, LinesDrawn DEF LinesInv

\* ... and at first there are none.
LEMMA LinesInit == Init => LinesInv
<1> SUFFICES ASSUME Init PROVE LinesInv
  OBVIOUS
<1>1. /\ seq = 0 /\ \A t \in Threads : drawn[t] = NoLine
      /\ track.haveSeq = FALSE /\ track.lastSeq = 0
  BY DEF Init, StoreInit
<1>2. wire = <<>> /\ requests = <<>>
  BY DEF Init
<1>3. /\ DOMAIN wire = {} /\ requests \in Seq({"request_snapshot", "ping"})
  BY <1>2, EmptySeq
<1>4. /\ drawn["teamspeak"] = NoLine /\ drawn["heartbeat"] = NoLine /\ drawn["reader"] = NoLine
  BY <1>1 DEF Threads
<1>5. track.haveSeq \in BOOLEAN /\ track.lastSeq \in Nat /\ ~track.haveSeq
  <2>1. track.lastSeq \in Nat
    BY <1>1
  <2> QED BY <1>1, <2>1, Zenon
<1>6. \A i \in DOMAIN wire : wire[i].seq < seq
  BY <1>3
<1>7. \A t \in {"heartbeat", "reader"} : drawn[t] = NoLine
  BY <1>4
<1> QED BY <1>1, <1>3, <1>4, <1>5, <1>6, <1>7 DEF LinesInv

-----------------------------------------------------------------------------
(* Every step keeps the overlay on its course. *)

\* Lines below a number, one behind the other.
LEMMA JoinedBelow ==
  ASSUME NEW v \in Seq(EventLines), NEW q \in Seq(EventLines), NEW n,
         \A i \in DOMAIN v : v[i].seq < n, \A i \in DOMAIN q : q[i].seq < n
  PROVE  \A i \in DOMAIN (v \o q) : (v \o q)[i].seq < n
<1>1. /\ Len(v) \in Nat /\ Len(q) \in Nat
      /\ DOMAIN v = 1..Len(v) /\ DOMAIN q = 1..Len(q)
      /\ DOMAIN (v \o q) = 1..Len(v) + Len(q)
      /\ \A i \in 1..Len(v) + Len(q) :
           (v \o q)[i] = IF i <= Len(v) THEN v[i] ELSE q[i - Len(v)]
  <2>1. v \o q \in Seq(EventLines) /\ Len(v \o q) = Len(v) + Len(q)
    BY ConcatProperties
  <2>2. DOMAIN (v \o q) = 1..Len(v \o q)
    BY <2>1, LenProperties
  <2> QED BY <2>1, <2>2, ConcatProperties, LenProperties
<1>2. ASSUME NEW i \in 1..Len(v) + Len(q) PROVE (v \o q)[i].seq < n
  <2>1. CASE i <= Len(v)
    BY <1>1, <2>1
  <2>2. CASE ~(i <= Len(v))
    <3>1. i - Len(v) \in 1..Len(q)
      BY <1>1, <2>2
    <3> QED BY <1>1, <2>2, <3>1
  <2> QED BY <2>1, <2>2
<1> QED BY <1>1, <1>2

\* What every step starts from.
LEMMA CourseParts ==
  ASSUME StreamInv, LinesInv
  PROVE  /\ cache \in Contents /\ script \in Seq(Steps) /\ state \in OverlayStates
         /\ seq \in Nat /\ wire \in Seq(EventLines) /\ queue \in Seq(EventLines)
         /\ wire \o queue \in Seq(EventLines)
         /\ \A i \in DOMAIN queue : queue[i].seq < seq
         /\ \A i \in DOMAIN wire : wire[i].seq < seq
         /\ \A i \in DOMAIN (wire \o queue) : (wire \o queue)[i].seq < seq
         /\ track.haveSeq \in BOOLEAN /\ track.lastSeq \in Nat
         /\ track.haveSeq => track.lastSeq < seq
         /\ drawn["teamspeak"] # NoLine =>
              /\ drawn["teamspeak"].seq < seq /\ drawn["teamspeak"].seq \in Nat
              /\ script # <<>> /\ Head(script).do = "send" /\ accept = "registered"
<1>1. /\ cache \in Contents /\ script \in Seq(Steps) /\ state \in OverlayStates
      /\ seq \in Nat /\ wire \in Seq(EventLines) /\ queue \in Seq(EventLines)
      /\ \A i \in DOMAIN queue : queue[i].seq < seq
  BY StreamInvParts DEF QueueInv
<1>2. /\ \A i \in DOMAIN wire : wire[i].seq < seq
      /\ track.haveSeq \in BOOLEAN /\ track.lastSeq \in Nat
      /\ track.haveSeq => track.lastSeq < seq
  BY DEF LinesInv
<1>3. wire \o queue \in Seq(EventLines)
  BY <1>1, ConcatProperties
<1>4. \A i \in DOMAIN (wire \o queue) : (wire \o queue)[i].seq < seq
  BY <1>1, <1>2, JoinedBelow
<1>5. drawn["teamspeak"] # NoLine =>
        /\ drawn["teamspeak"].seq < seq /\ drawn["teamspeak"].seq \in Nat
        /\ script # <<>> /\ Head(script).do = "send" /\ accept = "registered"
  <2>1. "teamspeak" \in Threads
    BY DEF Threads
  <2> QED BY <2>1, StreamInvParts, EventLineDecodes DEF Sending
<1> QED BY <1>1, <1>2, <1>3, <1>4, <1>5

\* The rest of the script delivers to overlays of the model.
LEMMA EndsTyped ==
  ASSUME NEW s, NEW d, NEW top, NEW goal
  PROVE  \A b, m : <<b, m>> \in Ends(s, d, top, goal) => b \in OverlayStates /\ m \in Nat
BY DEF Ends, Awake

\* A snapshot of the cache in the queue, with or without what was in it.
LEMMA CourseCopied ==
  ASSUME StreamInv, LinesInv, NEW goal, NEW s, OnCourse(cache, s, goal),
         NEW d, d # NoLine => d.seq < seq /\ d.seq \in Nat /\ s # <<>> /\ Head(s).do = "send",
         NEW q \in Seq(EventLines), \A i \in DOMAIN q : q[i].seq < seq
  PROVE  Delivers(state, track.haveSeq, track.lastSeq,
                  wire \o Append(q, Line(Snapshot(cache), seq)), Ends(s, d, seq + 1, goal))
<1>1. /\ cache \in Contents /\ state \in OverlayStates /\ seq \in Nat
      /\ wire \in Seq(EventLines) /\ \A i \in DOMAIN wire : wire[i].seq < seq
      /\ track.haveSeq \in BOOLEAN /\ track.lastSeq \in Nat
      /\ track.haveSeq => track.lastSeq < seq
  BY CourseParts
<1>2. <<Copy(cache), seq>> \in Ends(s, d, seq + 1, goal)
  BY <1>1, EndsCopied
<1>3. PICK E : E = Ends(s, d, seq + 1, goal)
  OBVIOUS
<1>4. PICK w : w = wire \o q
  OBVIOUS
<1>5. w \in Seq(EventLines) /\ \A i \in DOMAIN w : w[i].seq < seq
  BY <1>1, <1>4, JoinedBelow, ConcatProperties
<1>6. Delivers(state, track.haveSeq, track.lastSeq, Append(w, Line(Snapshot(cache), seq)), E)
  BY <1>1, <1>2, <1>3, <1>5, SnapshotDelivers
<1>7. wire \o Append(q, Line(Snapshot(cache), seq)) = Append(w, Line(Snapshot(cache), seq))
  BY <1>1, <1>4, SnapshotLines, QueueJoined
<1> QED BY <1>3, <1>6, <1>7

\* A number is drawn, for the script or for a heartbeat.
LEMMA CourseDrawn ==
  ASSUME StreamInv, LinesInv, NEW goal, Catching(goal),
         NEW d, d = drawn["teamspeak"] \/ (drawn["teamspeak"] = NoLine /\ d.seq = seq)
  PROVE  Delivers(state, track.haveSeq, track.lastSeq, wire \o queue,
                  Ends(script, d, seq + 1, goal))
<1>1. seq \in Nat
  BY CourseParts
<1>2. PICK E : E = Ends(script, drawn["teamspeak"], seq, goal)
  OBVIOUS
<1>3. PICK F : F = Ends(script, d, seq + 1, goal)
  OBVIOUS
<1>4. \A b, m : <<b, m>> \in E => <<b, m>> \in F
  BY <1>1, <1>2, <1>3, EndsDrawn
<1>5. Delivers(state, track.haveSeq, track.lastSeq, wire \o queue, E)
  BY <1>2 DEF Catching
<1> QED BY <1>3, <1>4, <1>5, DeliversMore

\* The script's line is queued.
LEMMA CourseSent ==
  ASSUME StreamInv, LinesInv, NEW goal, Catching(goal), drawn["teamspeak"] # NoLine
  PROVE  Delivers(state, track.haveSeq, track.lastSeq,
                  wire \o Append(queue, drawn["teamspeak"]),
                  Ends(Tail(script), NoLine, seq, goal))
<1>1. PICK l : l = drawn["teamspeak"]
  OBVIOUS
<1>2. PICK n \in Nat : l = Line(Head(script).msg, n)
  BY <1>1 DEF LinesInv
<1>3. /\ seq \in Nat /\ wire \in Seq(EventLines) /\ queue \in Seq(EventLines)
      /\ script \in Seq(Steps) /\ l.seq < seq
      /\ script # <<>> /\ Head(script).do = "send"
  BY <1>1, CourseParts
<1>4. Head(script).msg \in Messages
  BY <1>3, SendingStep DEF Sending
<1>5. l \in EventLines /\ n < seq
  BY <1>2, <1>3, <1>4, EventLineDecodes
<1>6. PICK E : E = Ends(script, l, seq, goal)
  OBVIOUS
<1>7. PICK F : F = Ends(Tail(script), NoLine, seq, goal)
  OBVIOUS
<1>8. \A b, m : <<b, m>> \in F => b \in OverlayStates /\ m \in Nat
  BY <1>7, EndsTyped
<1>9. ASSUME NEW b, NEW m, <<b, m>> \in E
      PROVE  /\ Skips(TRUE, m, l) => <<b, m>> \in F
             /\ ~Skips(TRUE, m, l) => <<Takes(b, l), l.seq>> \in F
  BY <1>2, <1>3, <1>4, <1>5, <1>6, <1>7, <1>9, EndsSent
<1>10. Delivers(state, track.haveSeq, track.lastSeq, wire \o queue, E)
  BY <1>1, <1>6 DEF Catching
<1>11. \A b, m : <<b, m>> \in E /\ Skips(TRUE, m, l) => <<b, m>> \in F
  BY <1>9
<1>12. \A b, m : <<b, m>> \in E /\ ~Skips(TRUE, m, l) /\ ~Misses(TRUE, m, l) =>
                   <<Takes(b, l), l.seq>> \in F
  BY <1>9
<1>13. PICK w : w = wire \o queue
  OBVIOUS
<1>14. Delivers(state, track.haveSeq, track.lastSeq, Append(w, l), F)
  BY <1>5, <1>8, <1>10, <1>11, <1>12, <1>13, DeliversAppended
<1>15. wire \o Append(queue, l) = Append(w, l)
  BY <1>3, <1>5, <1>13, QueueJoined
<1> QED BY <1>1, <1>7, <1>14, <1>15

\* A heartbeat is.
LEMMA CourseBeaten ==
  ASSUME StreamInv, LinesInv, NEW goal, Catching(goal),
         NEW t \in {"heartbeat", "reader"}, drawn[t] # NoLine
  PROVE  Delivers(state, track.haveSeq, track.lastSeq, wire \o Append(queue, drawn[t]),
                  Ends(script, drawn["teamspeak"], seq, goal))
<1>1. PICK l : l = drawn[t]
  OBVIOUS
<1>2. PICK d : d = drawn["teamspeak"]
  OBVIOUS
<1>3. /\ \E n \in Nat : l = Line(Heartbeat, n)
      /\ d # NoLine => l.seq # d.seq
  BY <1>1, <1>2 DEF LinesInv
<1>4. PICK n \in Nat : l = Line(Heartbeat, n)
  BY <1>3
<1>5. /\ seq \in Nat /\ wire \in Seq(EventLines) /\ queue \in Seq(EventLines)
      /\ d # NoLine => d.seq \in Nat
  BY <1>2, CourseParts
<1>6. l.seq < seq
  <2>1. t \in Threads
    BY DEF Threads
  <2> QED BY <1>1, <2>1, StreamInvParts
<1>7. l \in EventLines /\ l.seq = n
  <2>1. Heartbeat \in Messages \cup {Hello, Heartbeat}
    OBVIOUS
  <2> QED BY <1>4, <2>1, EventLineDecodes
<1>8. PICK E : E = Ends(script, d, seq, goal)
  OBVIOUS
<1>9. \A b, m : <<b, m>> \in E => b \in OverlayStates /\ m \in Nat
  BY <1>8, EndsTyped
<1>10. ASSUME NEW b, NEW m, <<b, m>> \in E, ~Skips(TRUE, m, l), ~Misses(TRUE, m, l)
       PROVE  <<Takes(b, l), l.seq>> \in E
  <2>1. n < seq /\ (d # NoLine => d.seq # n)
    BY <1>3, <1>6, <1>7
  <2>2. <<b, m>> \in Ends(script, d, seq, goal)
    BY <1>8, <1>10
  <2>3. ~Skips(TRUE, m, l) /\ ~Misses(TRUE, m, l) =>
          <<Takes(b, l), l.seq>> \in Ends(script, d, seq, goal)
    BY <1>4, <1>5, <2>1, <2>2, EndsBeaten
  <2> QED BY <1>8, <1>10, <2>3
<1>11. \A b, m : <<b, m>> \in E /\ ~Skips(TRUE, m, l) /\ ~Misses(TRUE, m, l) =>
                   <<Takes(b, l), l.seq>> \in E
  BY <1>10
<1>12. Delivers(state, track.haveSeq, track.lastSeq, wire \o queue, E)
  BY <1>2, <1>8 DEF Catching
<1>13. PICK w : w = wire \o queue
  OBVIOUS
<1>14. Delivers(state, track.haveSeq, track.lastSeq, Append(w, l), E)
  BY <1>7, <1>9, <1>11, <1>12, <1>13, DeliversAppended
<1>15. wire \o Append(queue, l) = Append(w, l)
  BY <1>5, <1>7, <1>13, QueueJoined
<1> QED BY <1>1, <1>2, <1>8, <1>14, <1>15

\* A line is read: it is dropped, applied, or makes the overlay ask.
LEMMA CourseRead ==
  ASSUME StreamInv, LinesInv, Course, ClientReads
  PROVE  Course'
<1>1. PICK goal : /\ OnCourse(cache, script, goal)
                  /\ accept # "waiting" /\ ~missed => Pending \/ Catching(goal)
  BY DEF Course
<1>2. /\ wire # <<>> /\ Apply(Head(wire)) /\ wire' = Tail(wire)
      /\ requests' = IF reply' = "RequestSnapshot" THEN Append(requests, "request_snapshot")
                     ELSE requests
      /\ cache' = cache /\ script' = script /\ accept' = accept /\ seq' = seq
      /\ queue' = queue /\ drawn' = drawn /\ missed' = missed
  BY DEF ClientReads, pluginVars, sessionVars, history
<1>3. wire \in Seq(EventLines) /\ queue \in Seq(EventLines)
  BY CourseParts
<1>4. requests \in Seq({"request_snapshot", "ping"})
  BY DEF LinesInv
<1>5. PICK l : l = Head(wire)
  OBVIOUS
<1>6. PICK w : w = wire \o queue
  OBVIOUS
<1>7. /\ l \in EventLines /\ w # <<>> /\ Head(w) = l /\ Tail(w) = wire' \o queue'
  <2>1. Head(wire) \in EventLines
    BY <1>2, <1>3, HeadTailProperties
  <2> QED BY <1>2, <1>3, <1>5, <1>6, <2>1, QueueJoined
<1>8. l.type # "error"
  <2>1. PICK m \in Messages \cup {Hello, Heartbeat}, n \in Nat : l = Line(m, n)
    BY <1>7 DEF EventLines, Line
  <2>2. l.type = m.type
    BY <2>1, EventLineDecodes
  <2>3. m.type # "error"
    BY DEF Messages, Hello, Heartbeat
  <2> QED BY <2>2, <2>3
<1>9. \/ /\ Skips(track.haveSeq, track.lastSeq, l)
         /\ state' = state /\ track' = track
      \/ /\ ~Skips(track.haveSeq, track.lastSeq, l)
         /\ state' = Takes(state, l)
         /\ track'.haveSeq = TRUE /\ track'.lastSeq = l.seq
         /\ Misses(track.haveSeq, track.lastSeq, l) => reply' = "RequestSnapshot"
  BY <1>2, <1>5, <1>7, <1>8, LineRead
<1>10. ASSUME Pending \/ reply' = "RequestSnapshot" PROVE Pending'
  <2>1. CASE reply' = "RequestSnapshot"
    <3>1. /\ requests' = Append(requests, "request_snapshot")
          /\ Len(requests) + 1 \in DOMAIN requests'
          /\ requests'[Len(requests) + 1] = "request_snapshot"
      BY <1>2, <1>4, <2>1, AppendProperties, LenProperties
    <3> QED BY <3>1 DEF Pending
  <2>2. CASE Pending /\ reply' # "RequestSnapshot"
    BY <1>2, <2>2 DEF Pending
  <2> QED BY <1>10, <2>1, <2>2
<1>11. ASSUME accept # "waiting", ~missed PROVE Pending' \/ Catching(goal)'
  <2>1. CASE Pending \/ reply' = "RequestSnapshot"
    BY <1>10, <2>1
  <2>2. CASE ~Pending /\ reply' # "RequestSnapshot"
    <3>1. PICK E : E = Ends(script, drawn["teamspeak"], seq, goal)
      OBVIOUS
    <3>2. Delivers(state, track.haveSeq, track.lastSeq, w, E)
      BY <1>1, <1>6, <1>11, <2>2, <3>1 DEF Catching
    <3>3. /\ Skips(track.haveSeq, track.lastSeq, l) =>
               Delivers(state, track.haveSeq, track.lastSeq, Tail(w), E)
          /\ ~Skips(track.haveSeq, track.lastSeq, l)
               /\ ~Misses(track.haveSeq, track.lastSeq, l) =>
               Delivers(Takes(state, l), TRUE, l.seq, Tail(w), E)
      BY <1>7, <3>2, DeliversOn, Zenon
    <3>4. Delivers(state', track'.haveSeq, track'.lastSeq, wire' \o queue', E)
      <4>1. CASE Skips(track.haveSeq, track.lastSeq, l)
        BY <1>7, <1>9, <3>3, <4>1, Zenon
      <4>2. CASE ~Skips(track.haveSeq, track.lastSeq, l)
        <5>1. ~Misses(track.haveSeq, track.lastSeq, l)
          BY <1>9, <2>2, <4>2, Zenon
        <5>2. state' = Takes(state, l) /\ track'.haveSeq = TRUE /\ track'.lastSeq = l.seq
          BY <1>9, <4>2, Zenon
        <5> QED BY <1>7, <3>3, <4>2, <5>1, <5>2, Zenon
      <4> QED BY <4>1, <4>2
    <3>5. E = Ends(script', drawn'["teamspeak"], seq', goal)
      BY <1>2, <3>1
    <3> QED BY <3>4, <3>5 DEF Catching
  <2> QED BY <2>1, <2>2
<1> QED BY <1>1, <1>2, <1>11 DEF Course

\* A drawn line is queued, or a snapshot in place of all.
LEMMA CourseQueued ==
  ASSUME StreamInv, LinesInv, Course, EnqueueBroadcast \/ EnqueueBeat \/ EnqueueAnswer
  PROVE  Course'
<1>1. PICK goal : /\ OnCourse(cache, script, goal)
                  /\ accept # "waiting" /\ ~missed => Pending \/ Catching(goal)
  BY DEF Course
<1>2. PICK t \in Threads :
        /\ Enqueue(t)
        /\ IF t = "teamspeak" THEN script' = Tail(script) ELSE script' = script
  BY DEF EnqueueBroadcast, EnqueueBeat, EnqueueAnswer, Threads, pluginVars
<1>3. /\ cache' = cache /\ accept' = accept /\ missed' = missed
      /\ state' = state /\ track' = track /\ wire' = wire /\ requests' = requests
  BY DEF EnqueueBroadcast, EnqueueBeat, EnqueueAnswer, storeVars, pluginVars, pipeVars, history
<1>4. /\ drawn[t] # NoLine /\ drawn' = [drawn EXCEPT ![t] = NoLine]
      /\ IF Len(queue) >= QueueDepth
         THEN queue' = Append(<<>>, Line(Snapshot(cache), seq)) /\ seq' = seq + 1
         ELSE queue' = Append(queue, drawn[t]) /\ seq' = seq
  BY <1>2 DEF Enqueue, WithSnapshot
<1>5. /\ t = "teamspeak" => drawn'["teamspeak"] = NoLine
      /\ t # "teamspeak" => drawn'["teamspeak"] = drawn["teamspeak"]
      /\ t # "teamspeak" => t \in {"heartbeat", "reader"}
  <2>1. drawn \in [Threads -> EventLines \cup {NoLine}]
    BY StreamInvParts
  <2> QED BY <1>4, <2>1 DEF Threads
<1>6. OnCourse(cache, script', goal)
  <2>1. CASE t = "teamspeak"
    <3>1. script # <<>> /\ Head(script).do = "send"
      BY <1>4, <2>1, CourseParts
    <3> QED BY <1>1, <1>2, <2>1, <3>1, CourseOn
  <2>2. CASE t # "teamspeak"
    BY <1>1, <1>2, <2>2
  <2> QED BY <2>1, <2>2
<1>7. PICK d : d = drawn'["teamspeak"]
  OBVIOUS
<1>8. PICK s : s = script'
  OBVIOUS
<1>9. CASE Len(queue) >= QueueDepth
  <2>1. d # NoLine => d.seq < seq /\ d.seq \in Nat /\ s # <<>> /\ Head(s).do = "send"
    <3>1. ASSUME d # NoLine
          PROVE  d = drawn["teamspeak"] /\ s = script
      BY <1>2, <1>5, <1>7, <1>8, <3>1
    <3> QED BY <3>1, CourseParts
  <2>2. OnCourse(cache, s, goal)
    BY <1>6, <1>8
  <2>3. <<>> \in Seq(EventLines) /\ \A i \in DOMAIN <<>> : <<>>[i].seq < seq
    BY EmptySeq
  <2>4. Delivers(state, track.haveSeq, track.lastSeq,
                 wire \o Append(<<>>, Line(Snapshot(cache), seq)), Ends(s, d, seq + 1, goal))
    BY <2>1, <2>2, <2>3, CourseCopied
  <2>5. Catching(goal)'
    BY <1>3, <1>4, <1>7, <1>8, <1>9, <2>4 DEF Catching
  <2> QED BY <1>3, <1>6, <2>5 DEF Course
<1>10. CASE ~(Len(queue) >= QueueDepth)
  <2>1. ASSUME Catching(goal) PROVE Catching(goal)'
    <3>1. CASE t = "teamspeak"
      <4>1. Delivers(state, track.haveSeq, track.lastSeq,
                     wire \o Append(queue, drawn["teamspeak"]),
                     Ends(Tail(script), NoLine, seq, goal))
        BY <1>4, <2>1, <3>1, CourseSent
      <4> QED BY <1>2, <1>3, <1>4, <1>5, <1>10, <3>1, <4>1 DEF Catching
    <3>2. CASE t # "teamspeak"
      <4>1. Delivers(state, track.haveSeq, track.lastSeq, wire \o Append(queue, drawn[t]),
                     Ends(script, drawn["teamspeak"], seq, goal))
        BY <1>4, <1>5, <2>1, <3>2, CourseBeaten
      <4> QED BY <1>2, <1>3, <1>4, <1>5, <1>10, <3>2, <4>1 DEF Catching
    <3> QED BY <3>1, <3>2
  <2>2. Pending => Pending'
    BY <1>3 DEF Pending
  <2> QED BY <1>1, <1>3, <1>6, <2>1, <2>2 DEF Course
<1> QED BY <1>9, <1>10

\* The accept thread and the reader put snapshots in the queue.
LEMMA CourseGreeted ==
  ASSUME StreamInv, LinesInv, Course, Greet \/ AnswerSnapshot
  PROVE  Course'
<1>1. PICK goal : OnCourse(cache, script, goal)
  BY DEF Course
<1>2. /\ cache' = cache /\ script' = script /\ state' = state /\ track' = track
      /\ wire' = wire /\ drawn' = drawn
  BY DEF Greet, AnswerSnapshot, storeVars, pluginVars, pipeVars
<1>3. PICK d : d = drawn["teamspeak"]
  OBVIOUS
<1>4. /\ cache \in Contents /\ state \in OverlayStates
      /\ wire \in Seq(EventLines) /\ queue \in Seq(EventLines) /\ seq \in Nat
      /\ \A i \in DOMAIN wire : wire[i].seq < seq
      /\ \A i \in DOMAIN queue : queue[i].seq < seq
      /\ track.haveSeq \in BOOLEAN /\ track.lastSeq \in Nat
      /\ track.haveSeq => track.lastSeq < seq
      /\ d # NoLine => /\ d.seq < seq /\ d.seq \in Nat
                       /\ script # <<>> /\ Head(script).do = "send" /\ accept = "registered"
  BY <1>3, CourseParts
<1>5. CASE AnswerSnapshot
  <2>1. queue' = Append(queue, Line(Snapshot(cache), seq)) /\ seq' = seq + 1
    BY <1>5 DEF AnswerSnapshot, WithSnapshot
  <2>2. Delivers(state, track.haveSeq, track.lastSeq,
                 wire \o Append(queue, Line(Snapshot(cache), seq)),
                 Ends(script, d, seq + 1, goal))
    BY <1>1, <1>4, CourseCopied
  <2>3. Catching(goal)'
    BY <1>2, <1>3, <2>1, <2>2 DEF Catching
  <2> QED BY <1>1, <1>2, <2>3 DEF Course
<1>6. CASE Greet
  <2>1. /\ accept = "waiting" /\ seq' = 2
        /\ queue' = <<Line(Hello, 0), Line(Snapshot(cache), 1)>>
    BY <1>6 DEF Greet
  <2>2. seq = 0 /\ d = NoLine
    BY <1>3, <1>4, <2>1 DEF LinesInv
  <2>3. PICK h : h = Line(Hello, 0)
    OBVIOUS
  <2>4. h \in EventLines /\ h.seq = 0
    <3>1. Hello \in Messages \cup {Hello, Heartbeat} /\ 0 \in Nat
      OBVIOUS
    <3> QED BY <2>3, <3>1, EventLineDecodes
  <2>5. PICK l : l = Line(Snapshot(cache), 1)
    OBVIOUS
  <2>6. l \in EventLines
    BY <1>4, <2>5, SnapshotLines
  <2>7. PICK w : w = wire \o <<h>>
    OBVIOUS
  <2>8. /\ w \in Seq(EventLines) /\ \A i \in DOMAIN w : w[i].seq < 1
        /\ wire \o <<h, l>> = Append(w, l)
    <3>1. <<h>> \in Seq(EventLines) /\ \A i \in DOMAIN <<h>> : <<h>>[i].seq < 1
      BY <2>4
    <3>2. \A i \in DOMAIN wire : wire[i].seq < 1
      <4>1. \A i \in DOMAIN wire : wire[i].seq \in Nat
        BY <1>4, ElementOfSeq, LenProperties, EventLineDecodes
      <4> QED BY <1>4, <2>2, <4>1
    <3>3. <<h, l>> = Append(<<h>>, l)
      BY <2>4, <2>6
    <3>4. wire \o Append(<<h>>, l) = Append(w, l)
      BY <1>4, <2>6, <2>7, <3>1, QueueJoined
    <3>5. w \in Seq(EventLines)
      BY <1>4, <2>7, <3>1, ConcatProperties
    <3>6. \A i \in DOMAIN w : w[i].seq < 1
      BY <1>4, <2>7, <3>1, <3>2, JoinedBelow
    <3> QED BY <3>3, <3>4, <3>5, <3>6
  <2>9. PICK E : E = Ends(script, d, 2, goal)
    OBVIOUS
  <2>10. <<Copy(cache), 1>> \in E
    <3>1. <<Copy(cache), 1>> \in Ends(script, d, 1 + 1, goal)
      BY <1>1, <1>4, <2>2, EndsCopied
    <3>2. 1 + 1 = 2
      OBVIOUS
    <3> QED BY <2>9, <3>1, <3>2
  <2>11. track.haveSeq => track.lastSeq < 1
    BY <1>4, <2>2
  <2>12. Delivers(state, track.haveSeq, track.lastSeq, Append(w, Line(Snapshot(cache), 1)), E)
    BY <1>4, <2>8, <2>10, <2>11, SnapshotDelivers
  <2>13. wire' \o queue' = Append(w, Line(Snapshot(cache), 1))
    BY <1>2, <2>1, <2>3, <2>5, <2>8
  <2>14. Catching(goal)'
    BY <1>2, <1>3, <2>1, <2>9, <2>12, <2>13 DEF Catching
  <2> QED BY <1>1, <1>2, <2>14 DEF Course
<1> QED BY <1>5, <1>6

\* A number is drawn.
LEMMA CourseNumbered ==
  ASSUME StreamInv, LinesInv, Course, Broadcast \/ Beat \/ AnswerPing
  PROVE  Course'
<1>1. PICK goal : /\ OnCourse(cache, script, goal)
                  /\ accept # "waiting" /\ ~missed => Pending \/ Catching(goal)
  BY DEF Course
<1>2. /\ cache' = cache /\ script' = script /\ state' = state /\ track' = track
      /\ wire' = wire /\ queue' = queue /\ accept' = accept /\ missed' = missed
      /\ seq' = seq + 1
  BY DEF Broadcast, Beat, AnswerPing, Draw, storeVars, pluginVars, pipeVars, history
<1>3. \/ drawn'["teamspeak"] = drawn["teamspeak"]
      \/ drawn["teamspeak"] = NoLine /\ drawn'["teamspeak"].seq = seq
  <2>1. /\ drawn \in [Threads -> EventLines \cup {NoLine}] /\ script \in Seq(Steps)
        /\ seq \in Nat
    BY StreamInvParts
  <2>2. CASE Broadcast
    <3>1. /\ Sending /\ drawn["teamspeak"] = NoLine
          /\ drawn' = [drawn EXCEPT !["teamspeak"] = Line(Head(script).msg, seq)]
      BY <2>2 DEF Broadcast, Draw
    <3>2. Line(Head(script).msg, seq).seq = seq
      BY <2>1, <3>1, SendingStep, EventLineDecodes
    <3>3. PICK l : l = Line(Head(script).msg, seq)
      OBVIOUS
    <3>4. drawn'["teamspeak"] = l
      BY <2>1, <3>1, <3>3 DEF Threads
    <3> QED BY <3>1, <3>2, <3>3, <3>4
  <2>3. CASE Beat \/ AnswerPing
    <3>1. \E t \in {"heartbeat", "reader"} : \E l : drawn' = [drawn EXCEPT ![t] = l]
      BY <2>3 DEF Beat, AnswerPing, Draw
    <3> QED BY <2>1, <3>1 DEF Threads
  <2> QED BY <2>2, <2>3
<1>4. PICK d : d = drawn'["teamspeak"]
  OBVIOUS
<1>5. ASSUME Catching(goal) PROVE Catching(goal)'
  <2>1. Delivers(state, track.haveSeq, track.lastSeq, wire \o queue,
                 Ends(script, d, seq + 1, goal))
    BY <1>3, <1>4, <1>5, CourseDrawn
  <2> QED BY <1>2, <1>4, <2>1 DEF Catching
<1>6. Pending => Pending'
  <2>1. CASE requests' = requests
    BY <2>1 DEF Pending
  <2>2. CASE Reads("ping")
    <3>1. /\ requests # <<>> /\ Head(requests) = "ping" /\ requests' = Tail(requests)
          /\ requests \in Seq({"request_snapshot", "ping"})
      BY <2>2 DEF Reads, LinesInv
    <3>2. /\ requests[1] = "ping" /\ Len(requests) \in Nat \ {0}
          /\ DOMAIN requests = 1..Len(requests)
          /\ DOMAIN Tail(requests) = 1..Len(requests) - 1
          /\ \A i \in 1..Len(requests) - 1 : Tail(requests)[i] = requests[i + 1]
      <4>1. /\ Tail(requests) \in Seq({"request_snapshot", "ping"})
            /\ Len(Tail(requests)) = Len(requests) - 1
            /\ \A i \in 1..Len(requests) - 1 : Tail(requests)[i] = requests[i + 1]
            /\ Head(requests) = requests[1]
        BY <3>1, HeadTailProperties
      <4>2. DOMAIN Tail(requests) = 1..Len(Tail(requests))
            /\ Len(requests) \in Nat \ {0} /\ DOMAIN requests = 1..Len(requests)
        BY <3>1, <4>1, LenProperties, EmptySeq
      <4> QED BY <3>1, <4>1, <4>2
    <3>3. ASSUME NEW i \in DOMAIN requests, requests[i] = "request_snapshot"
          PROVE  Pending'
      <4>1. i - 1 \in 1..Len(requests) - 1 /\ (i - 1) + 1 = i
        BY <3>2, <3>3
      <4>2. i - 1 \in DOMAIN requests' /\ requests'[i - 1] = "request_snapshot"
        BY <3>1, <3>2, <3>3, <4>1
      <4> QED BY <4>2 DEF Pending
    <3> QED BY <3>3 DEF Pending
  <2> QED BY <2>1, <2>2 DEF Broadcast, Beat, AnswerPing, pipeVars
<1> QED BY <1>1, <1>2, <1>5, <1>6 DEF Course

\* What changes neither lines nor script.
LEMMA CourseStays ==
  ASSUME StreamInv, LinesInv, Course, Register \/ Write \/ ClientPings \/ UNCHANGED vars
  PROVE  Course'
<1>1. PICK goal : /\ OnCourse(cache, script, goal)
                  /\ accept # "waiting" /\ ~missed => Pending \/ Catching(goal)
  BY DEF Course
<1>2. /\ cache' = cache /\ script' = script /\ state' = state /\ track' = track
      /\ seq' = seq /\ drawn' = drawn /\ missed' = missed
      /\ accept' = accept \/ accept # "waiting"
  BY DEF Register, Write, ClientPings, vars, storeVars, pluginVars, sessionVars, pipeVars,
         history
<1>3. wire' \o queue' = wire \o queue
  <2>1. CASE Write
    <3>1. queue # <<>> /\ wire' = Append(wire, Head(queue)) /\ queue' = Tail(queue)
      BY <2>1 DEF Write
    <3>2. wire \in Seq(EventLines) /\ queue \in Seq(EventLines)
      BY CourseParts
    <3> QED BY <3>1, <3>2, QueueJoined
  <2>2. CASE wire' = wire /\ queue' = queue
    BY <2>2
  <2> QED BY <2>1, <2>2 DEF Register, ClientPings, vars, sessionVars, pipeVars
<1>4. Pending => Pending'
  <2>1. CASE requests' = requests
    BY <2>1 DEF Pending
  <2>2. CASE ClientPings
    <3>1. requests' = Append(requests, "ping") /\ requests \in Seq({"request_snapshot", "ping"})
      BY <2>2 DEF ClientPings, LinesInv
    <3>2. \A i \in DOMAIN requests : i \in DOMAIN requests' /\ requests'[i] = requests[i]
      BY <3>1, AppendProperties, LenProperties
    <3> QED BY <3>2 DEF Pending
  <2> QED BY <2>1, <2>2 DEF Register, Write, vars, pipeVars
<1>5. Catching(goal) => Catching(goal)'
  BY <1>2, <1>3 DEF Catching
<1> QED BY <1>1, <1>2, <1>4, <1>5 DEF Course

\* The plugin's own steps: the cache is refreshed, nobody is sent to, and a
\* script begins that is on course.
LEMMA CourseMoves ==
  ASSUME StreamInv, LinesInv, Course,
         \/ PluginRefreshes
         \/ BroadcastToNobody
         \/ TeamSpeakCalls /\ \E next : OnCourse(cache, script', next)
  PROVE  Course'
<1>1. PICK goal : /\ OnCourse(cache, script, goal)
                  /\ accept # "waiting" /\ ~missed => Pending \/ Catching(goal)
  BY DEF Course
<1>2. /\ state' = state /\ track' = track /\ wire' = wire /\ requests' = requests
      /\ accept' = accept /\ seq' = seq /\ queue' = queue /\ drawn' = drawn
  BY DEF PluginRefreshes, BroadcastToNobody, TeamSpeakCalls, storeVars, sessionVars, pipeVars
<1>3. Pending => Pending'
  BY <1>2 DEF Pending
<1>4. CASE BroadcastToNobody
  <2>1. /\ script # <<>> /\ Head(script).do = "send" /\ script' = Tail(script)
        /\ cache' = cache /\ accept # "registered"
        /\ missed' = (missed \/ accept = "greeted")
    BY <1>4 DEF BroadcastToNobody, Sending
  <2>2. OnCourse(cache', script', goal)
    BY <1>1, <2>1, CourseOn
  <2>3. accept = "waiting" \/ missed'
    BY <2>1, StreamInvParts
  <2> QED BY <1>2, <2>2, <2>3 DEF Course
<1>5. ASSUME NEW s, NEW next, OnCourse(cache', s, next), script' = s, missed' = missed,
             drawn["teamspeak"] = NoLine,
             \A b, m : <<b, m>> \in Ends(script, NoLine, seq, goal) =>
                         <<b, m>> \in Ends(s, NoLine, seq, next)
      PROVE  Course'
  <2>1. ASSUME Catching(goal) PROVE Catching(next)'
    <3>1. PICK E : E = Ends(script, NoLine, seq, goal)
      OBVIOUS
    <3>2. PICK F : F = Ends(s, NoLine, seq, next)
      OBVIOUS
    <3>3. Delivers(state, track.haveSeq, track.lastSeq, wire \o queue, E)
      BY <1>5, <2>1, <3>1 DEF Catching
    <3>4. \A b, m : <<b, m>> \in E => <<b, m>> \in F
      BY <1>5, <3>1, <3>2
    <3>5. Delivers(state, track.haveSeq, track.lastSeq, wire \o queue, F)
      BY <3>3, <3>4, DeliversMore
    <3> QED BY <1>2, <1>5, <3>2, <3>5 DEF Catching
  <2> QED BY <1>1, <1>2, <1>3, <1>5, <2>1 DEF Course
<1>6. seq \in Nat
  BY CourseParts
<1>7. CASE PluginRefreshes
  <2>1. /\ script # <<>> /\ Head(script).do = "refresh"
        /\ cache' = Head(script).cache /\ script' = Tail(script) /\ missed' = missed
    BY <1>7 DEF PluginRefreshes, RefreshCache, history
  <2>2. drawn["teamspeak"] = NoLine
    BY <2>1, CourseParts
  <2>3. OnCourse(cache', Tail(script), goal)
    BY <1>1, <2>1, CourseOn
  <2>4. PICK s : s = Tail(script)
    OBVIOUS
  <2>5. \A b, m : <<b, m>> \in Ends(script, NoLine, seq, goal) =>
                    <<b, m>> \in Ends(s, NoLine, seq, goal)
    BY <1>6, <2>1, <2>4, EndsSilent
  <2> QED BY <1>5, <2>1, <2>2, <2>3, <2>4, <2>5
<1>8. CASE TeamSpeakCalls /\ \E next : OnCourse(cache, script', next)
  <2>1. script = <<>> /\ cache' = cache /\ missed' = missed
    <3>1. TeamSpeakCalls /\ cache \in Contents
      BY <1>8, CourseParts
    <3>2. Scripted
      BY <3>1, CallbackScripts DEF TeamSpeakCalls
    <3> QED BY <3>1, <3>2 DEF TeamSpeakCalls, Scripted
  <2>2. PICK next : OnCourse(cache, script', next)
    BY <1>8
  <2>3. PICK s : s = script'
    OBVIOUS
  <2>4. drawn["teamspeak"] = NoLine
    BY <2>1, CourseParts
  <2>5. Brings(goal, s, next)
    <3>1. Brings(Copy(cache), <<>>, goal)
      BY <1>1, <2>1, CourseOn
    <3>2. Copy(cache) = goal
      BY <3>1, BringsOn
    <3>3. Brings(Copy(cache), s, next)
      BY <2>2, <2>3, CourseOn
    <3> QED BY <3>2, <3>3
  <2>6. \A b, m : <<b, m>> \in Ends(script, NoLine, seq, goal) =>
                    <<b, m>> \in Ends(s, NoLine, seq, next)
    BY <1>6, <2>1, <2>5, EndsSilent
  <2>7. OnCourse(cache', s, next)
    BY <2>1, <2>2, <2>3
  <2> QED BY <1>5, <2>1, <2>3, <2>4, <2>6, <2>7
<1> QED BY <1>4, <1>7, <1>8

\* Every step does, if callbacks begin scripts that are on course.
LEMMA CourseStep ==
  ASSUME StreamInv, LinesInv, Course, [Next]_vars,
         TeamSpeakCalls => \E next : OnCourse(cache, script', next)
  PROVE  Course'
BY CourseRead, CourseQueued, CourseGreeted, CourseNumbered, CourseStays, CourseMoves
   DEF Next, RunsOn, Plugin, Reader, Acceptor

-----------------------------------------------------------------------------
(* The scripts that callbacks begin are on course. *)

\* What the rest keeps on course, the whole does.
LEMMA CourseFrom ==
  ASSUME NEW c, NEW s, NEW goal
  PROVE  /\ Listed(c) => OnCourse(c, <<>>, Copy(c))
         /\ s # <<>> /\ Head(s).do = "refresh" /\ OnCourse(Head(s).cache, Tail(s), goal)
              /\ Brings(Copy(c), s, goal) => OnCourse(c, s, goal)
         /\ s # <<>> /\ Head(s).do = "send" /\ OnCourse(c, Tail(s), goal)
              /\ Brings(Copy(c), s, goal) => OnCourse(c, s, goal)
<1>1. ASSUME Listed(c) PROVE OnCourse(c, <<>>, Copy(c))
  <2> DEFINE R == {<<c, <<>>>>}
  <2>1. \A b, t : <<b, t>> \in R => b = c /\ t = <<>>
    OBVIOUS
  <2>2. <<c, <<>>>> \in R
    OBVIOUS
  <2>3. Brings(Copy(c), <<>>, Copy(c))
    BY BringsFrom
  <2> HIDE DEF R
  <2>4. Covers(R, Copy(c))
    BY <1>1, <2>1, <2>3, Zenon DEF Covers
  <2> QED BY <2>2, <2>4, Zenon DEF OnCourse
<1>2. ASSUME NEW d, s # <<>>, OnCourse(d, Tail(s), goal), Brings(Copy(c), s, goal),
             Head(s).do = "refresh" => Head(s).cache = d,
             Head(s).do = "send" => d = c
      PROVE  OnCourse(c, s, goal)
  <2>1. PICK R : <<d, Tail(s)>> \in R /\ Covers(R, goal)
    BY <1>2, Zenon DEF OnCourse
  <2> DEFINE Q == R \cup {<<c, s>>}
  <2>2. \A b, t : <<b, t>> \in Q => <<b, t>> \in R \/ (b = c /\ t = s)
    OBVIOUS
  <2>3. <<c, s>> \in Q /\ \A x \in R : x \in Q
    OBVIOUS
  <2> HIDE DEF Q
  <2>4. ASSUME NEW b, NEW t, <<b, t>> \in Q
        PROVE  /\ Brings(Copy(b), t, goal)
               /\ t = <<>> => Listed(b)
               /\ t # <<>> /\ Head(t).do = "refresh" => <<Head(t).cache, Tail(t)>> \in Q
               /\ t # <<>> /\ Head(t).do = "send" => <<b, Tail(t)>> \in Q
    <3>1. CASE <<b, t>> \in R
      <4>1. /\ Brings(Copy(b), t, goal)
            /\ t = <<>> => Listed(b)
            /\ t # <<>> /\ Head(t).do = "refresh" => <<Head(t).cache, Tail(t)>> \in R
            /\ t # <<>> /\ Head(t).do = "send" => <<b, Tail(t)>> \in R
        BY <2>1, <3>1, Zenon DEF Covers
      <4> QED BY <2>3, <4>1, Zenon
    <3>2. CASE b = c /\ t = s
      BY <1>2, <2>1, <2>3, <3>2, Zenon
    <3> QED BY <2>2, <2>4, <3>1, <3>2
  <2>5. Covers(Q, goal)
    BY <2>4, Zenon DEF Covers
  <2> QED BY <2>3, <2>5, Zenon DEF OnCourse
<1>3. ASSUME s # <<>>, Head(s).do = "refresh", OnCourse(Head(s).cache, Tail(s), goal),
             Brings(Copy(c), s, goal)
      PROVE  OnCourse(c, s, goal)
  BY <1>2, <1>3
<1>4. ASSUME s # <<>>, Head(s).do = "send", OnCourse(c, Tail(s), goal),
             Brings(Copy(c), s, goal)
      PROVE  OnCourse(c, s, goal)
  BY <1>2, <1>4
<1> QED BY <1>1, <1>3, <1>4, Zenon

\* A copy is an overlay's state, whatever it copies.
LEMMA CopyShown ==
  ASSUME NEW c \in Contents
  PROVE  Copy(c) \in Awake /\ Copy(c) \in OverlayStates
<1>1. SubSeq(c.users, 1, Min({Len(c.users), MaxUsers})) \in Rows
  BY RowsCut DEF Contents
<1>2. Copy(c) \in Awake
  BY <1>1 DEF Copy, Awake, OverlayStates, Contents
<1> QED BY <1>2 DEF Awake

\* What an overlay makes of the lines of a script is an overlay's state.
LEMMA StepTaken ==
  ASSUME NEW a \in OverlayStates, NEW x \in Steps, x.do = "send", NEW n \in Nat
  PROVE  Takes(a, Line(x.msg, n)) \in OverlayStates
<1>1. x.msg \in Messages
  BY DEF Steps
<1>2. Line(x.msg, n) \in EventLines
  BY <1>1, EventLineDecodes
<1> QED BY <1>2, LineTaken DEF Awake

\* A script that ends in a snapshot brings every overlay to what it copies.
LEMMA SnapshotBrings ==
  ASSUME NEW d \in Contents, NEW x, x = [do |-> "send", msg |-> Snapshot(d)],
         NEW a \in Seq(Steps), NEW b \in OverlayStates
  PROVE  Brings(b, Append(a, x), Copy(d))
<1>1. x \in Steps /\ x.do = "send" /\ x.msg = Snapshot(d)
  <2>1. Snapshot(d) \in Messages
    BY DEF Snapshot, Contents, Messages, Here
  <2> QED BY <2>1 DEF Steps
<1> DEFINE Q == {y \in OverlayStates \X Seq(Steps) :
                   \/ \E t \in Seq(Steps) : y[2] = Append(t, x)
                   \/ y[2] = <<>> /\ y[1] = Copy(d)}
<1>2. ASSUME NEW e \in OverlayStates, NEW t \in Seq(Steps) PROVE <<e, Append(t, x)>> \in Q
  <2>1. Append(t, x) \in Seq(Steps)
    BY <1>1, AppendBegins
  <2> QED BY <2>1
<1>3. <<Copy(d), <<>>>> \in Q
  BY CopyShown, EmptySeq
<1>4. ASSUME NEW e, NEW u, <<e, u>> \in Q
      PROVE  /\ e \in OverlayStates /\ u \in Seq(Steps)
             /\ \/ \E t \in Seq(Steps) : u = Append(t, x)
                \/ u = <<>> /\ e = Copy(d)
  BY <1>4
<1> HIDE DEF Q
<1>5. ASSUME NEW e, NEW u, <<e, u>> \in Q
      PROVE  /\ u = <<>> => e = Copy(d)
             /\ u # <<>> /\ Head(u).do = "refresh" => <<e, Tail(u)>> \in Q
             /\ u # <<>> /\ Head(u).do = "send" =>
                  \A n \in Nat : <<Takes(e, Line(Head(u).msg, n)), Tail(u)>> \in Q
  <2>1. /\ e \in OverlayStates /\ u \in Seq(Steps)
        /\ \/ \E t \in Seq(Steps) : u = Append(t, x)
           \/ u = <<>> /\ e = Copy(d)
    BY <1>4, <1>5
  <2>2. CASE u = <<>> /\ e = Copy(d)
    BY <2>2
  <2>3. ASSUME NEW t \in Seq(Steps), u = Append(t, x)
        PROVE  /\ u # <<>>
               /\ Head(u).do = "refresh" => <<e, Tail(u)>> \in Q
               /\ Head(u).do = "send" =>
                    \A n \in Nat : <<Takes(e, Line(Head(u).msg, n)), Tail(u)>> \in Q
    <3>1. /\ u # <<>>
          /\ t = <<>> => Head(u) = x /\ Tail(u) = <<>>
          /\ t # <<>> => Head(t) \in Steps /\ Tail(t) \in Seq(Steps)
                         /\ Head(u) = Head(t) /\ Tail(u) = Append(Tail(t), x)
      BY <1>1, <2>3, AppendBegins
    <3>2. CASE t = <<>>
      <4>1. \A n \in Nat : Takes(e, Line(Snapshot(d), n)) = Copy(d)
        BY <2>1, SnapshotTaken
      <4> QED BY <1>1, <1>3, <3>1, <3>2, <4>1
    <3>3. CASE t # <<>>
      <4>1. Head(t).do = "send" =>
              \A n \in Nat : Takes(e, Line(Head(t).msg, n)) \in OverlayStates
        BY <2>1, <3>1, <3>3, StepTaken
      <4> QED BY <1>2, <2>1, <3>1, <3>3, <4>1
    <3> QED BY <3>2, <3>3
  <2> QED BY <2>1, <2>2, <2>3
<1>6. Guides(Q, Copy(d))
  BY <1>5, Zenon DEF Guides
<1>7. <<b, Append(a, x)>> \in Q
  BY <1>2
<1> QED BY <1>6, <1>7, Zenon DEF Brings

\* One whose last refresh leaves what the snapshot copies keeps it on course.
LEMMA SnapshotCloses ==
  ASSUME NEW d \in Contents, Listed(d), NEW a \in Seq(Steps), NEW s,
         s = a \o SendSnapshot(d), s \in EndsIn(d), NEW c \in Contents
  PROVE  OnCourse(c, s, Copy(d))
<1>1. PICK x : x = [do |-> "send", msg |-> Snapshot(d)]
  OBVIOUS
<1>2. x \in Steps /\ x.do = "send"
  <2>1. Snapshot(d) \in Messages
    BY DEF Snapshot, Contents, Messages, Here
  <2> QED BY <1>1, <2>1 DEF Steps
<1>3. s = Append(a, x)
  BY <1>1, <1>2, AppendIsConcat DEF SendSnapshot, Send
<1> DEFINE Q == {y \in Contents \X Seq(Steps) :
                   /\ y[2] \in EndsIn(d) \/ (y[2] \in Seq(SendSteps) /\ y[1] = d)
                   /\ y[2] = <<>> \/ \E t \in Seq(Steps) : y[2] = Append(t, x)}
<1>4. ASSUME NEW e \in Contents, NEW u \in Seq(Steps),
             u \in EndsIn(d) \/ (u \in Seq(SendSteps) /\ e = d),
             u = <<>> \/ \E t \in Seq(Steps) : u = Append(t, x)
      PROVE  <<e, u>> \in Q
  BY <1>4
<1>5. ASSUME NEW e, NEW u, <<e, u>> \in Q
      PROVE  /\ e \in Contents /\ u \in Seq(Steps)
             /\ u \in EndsIn(d) \/ (u \in Seq(SendSteps) /\ e = d)
             /\ u = <<>> \/ \E t \in Seq(Steps) : u = Append(t, x)
  BY <1>5
<1> HIDE DEF Q
<1>6. <<>> \notin EndsIn(d)
  BY DEF EndsIn
<1>7. ASSUME NEW e, NEW u, <<e, u>> \in Q
      PROVE  /\ Brings(Copy(e), u, Copy(d))
             /\ u = <<>> => Listed(e)
             /\ u # <<>> /\ Head(u).do = "refresh" => <<Head(u).cache, Tail(u)>> \in Q
             /\ u # <<>> /\ Head(u).do = "send" => <<e, Tail(u)>> \in Q
  <2>1. /\ e \in Contents /\ u \in Seq(Steps)
        /\ u \in EndsIn(d) \/ (u \in Seq(SendSteps) /\ e = d)
        /\ u = <<>> \/ \E t \in Seq(Steps) : u = Append(t, x)
    BY <1>5, <1>7
  <2>2. CASE u = <<>>
    <3>1. e = d
      BY <1>6, <2>1, <2>2
    <3> QED BY <2>2, <3>1, BringsFrom
  <2>3. ASSUME NEW t \in Seq(Steps), u = Append(t, x)
        PROVE  /\ u # <<>> /\ Brings(Copy(e), u, Copy(d))
               /\ Head(u).do = "refresh" => <<Head(u).cache, Tail(u)>> \in Q
               /\ Head(u).do = "send" => <<e, Tail(u)>> \in Q
    <3>1. /\ u # <<>>
          /\ t = <<>> => Head(u) = x /\ Tail(u) = <<>>
          /\ t # <<>> => Head(t) \in Steps /\ Tail(t) \in Seq(Steps)
                         /\ Head(u) = Head(t) /\ Tail(u) = Append(Tail(t), x)
      BY <1>2, <2>3, AppendBegins
    <3>2. Brings(Copy(e), u, Copy(d))
      BY <1>1, <2>1, <2>3, CopyShown, SnapshotBrings
    <3>3. /\ u \in Seq(SendSteps) => Head(u).do = "send" /\ Tail(u) \in Seq(SendSteps)
          /\ u \in EndsIn(d) =>
              /\ Head(u).do = "send" => Tail(u) \in EndsIn(d)
              /\ Head(u).do = "refresh" =>
                   \/ Tail(u) \in EndsIn(d)
                   \/ Tail(u) \in Seq(SendSteps) /\ Head(u).cache = d
      BY <3>1, EndApproached
    <3>4. /\ Tail(u) \in Seq(Steps)
          /\ Tail(u) = <<>> \/ \E v \in Seq(Steps) : Tail(u) = Append(v, x)
      <4>1. Tail(u) \in Seq(Steps)
        BY <2>1, <3>1, HeadTailProperties
      <4> QED BY <3>1, <4>1
    <3>5. Head(u).do = "refresh" => Head(u).cache \in Contents
      BY <1>2, <3>1 DEF Steps
    <3>6. ASSUME Head(u).do = "refresh" PROVE <<Head(u).cache, Tail(u)>> \in Q
      BY <1>4, <2>1, <3>3, <3>4, <3>5, <3>6
    <3>7. ASSUME Head(u).do = "send" PROVE <<e, Tail(u)>> \in Q
      BY <1>4, <2>1, <3>3, <3>4, <3>7
    <3> QED BY <3>1, <3>2, <3>6, <3>7
  <2> QED BY <2>1, <2>2, <2>3
<1>8. Covers(Q, Copy(d))
  BY <1>7, Zenon DEF Covers
<1>9. s \in Seq(Steps)
  BY DEF EndsIn
<1>10. <<c, s>> \in Q
  BY <1>3, <1>4, <1>9
<1> QED BY <1>8, <1>10, Zenon DEF OnCourse

\* A roster between two callbacks: each row is somebody's whom TeamSpeak has
\* named, and whoever looks for it by either id finds that row.
LEMMA ListedRows ==
  ASSUME NobodyTwice, NEW c, Listed(c)
  PROVE  /\ c \in Contents /\ c.users \in Rows /\ Len(c.users) \in Nat
         /\ Len(c.users) <= MaxUsers /\ DOMAIN c.users = 1..Len(c.users)
         /\ \A i \in 1..Len(c.users) : /\ c.users[i] \in UserState
                                       /\ FirstRow(c.users, c.users[i].uid) = i
         /\ \A p \in Profiles : ClientRow(c.users, p.cid) = 0 =>
              /\ FirstRow(c.users, p.uid) = 0
              /\ \A i \in 1..Len(c.users) : c.users[i].cid # p.cid
<1> DEFINE s == c.users
           n == Len(s)
<1>1. /\ c \in Contents /\ s \in Rows /\ s \in Seq(UserState) /\ n \in Nat /\ n <= MaxUsers
      /\ DOMAIN s = 1..n /\ \A i \in 1..n : s[i] \in UserState
  BY RowPlaces DEF Listed, Contents, Rows
<1>2. /\ \A i, j \in 1..n : s[i].cid = s[j].cid => i = j
      /\ \A i \in 1..n : \E p \in Profiles : p.uid = s[i].uid /\ p.cid = s[i].cid
  BY <1>1 DEF Listed
<1>3. \A u : /\ FirstRow(s, u) \in 0..n
             /\ FirstRow(s, u) # 0 => s[FirstRow(s, u)].uid = u
             /\ FirstRow(s, u) = 0 => \A i \in 1..n : s[i].uid # u
  BY <1>1, FirstRowPlace
<1>4. ASSUME NEW x, ClientRow(s, x) = 0 PROVE \A i \in 1..n : s[i].cid # x
  <2> DEFINE I == {i \in 1..n : s[i].cid = x}
  <2>1. ClientRow(s, x) = IF I # {} THEN Min(I) ELSE 0
    BY DEF ClientRow, SelectInSeq
  <2>2. I \in SUBSET (1..n)
    OBVIOUS
  <2>3. I = {} => \A i \in 1..n : s[i].cid # x
    OBVIOUS
  <2> HIDE DEF I, s, n
  <2>4. I # {} => Min(I) \in 1..n
    BY <1>1, <2>2, MinPlace
  <2> QED BY <1>1, <1>4, <2>1, <2>3, <2>4
<1> HIDE DEF s, n
<1>5. ASSUME NEW i \in 1..n, NEW j \in 1..n, s[i].uid = s[j].uid PROVE i = j
  <2>1. PICK p \in Profiles : p.uid = s[i].uid /\ p.cid = s[i].cid
    BY <1>2
  <2>2. PICK q \in Profiles : q.uid = s[j].uid /\ q.cid = s[j].cid
    BY <1>2
  <2>3. p.cid = q.cid
    BY <1>5, <2>1, <2>2 DEF NobodyTwice
  <2> QED BY <1>2, <2>1, <2>2, <2>3
<1>6. ASSUME NEW i \in 1..n PROVE FirstRow(s, s[i].uid) = i
  <2>1. FirstRow(s, s[i].uid) # 0
    BY <1>3
  <2>2. FirstRow(s, s[i].uid) \in 1..n
    BY <1>1, <1>3, <2>1
  <2> QED BY <1>3, <1>5, <2>1, <2>2
<1>7. ASSUME NEW p \in Profiles, ClientRow(s, p.cid) = 0 PROVE FirstRow(s, p.uid) = 0
  <2> SUFFICES ASSUME FirstRow(s, p.uid) # 0 PROVE FALSE
    OBVIOUS
  <2>1. PICK i \in 1..n : i = FirstRow(s, p.uid)
    BY <1>1, <1>3
  <2>2. PICK q \in Profiles : q.uid = s[i].uid /\ q.cid = s[i].cid
    BY <1>2
  <2>3. s[i].uid = p.uid
    BY <1>3, <2>1
  <2>4. q.cid = p.cid
    BY <2>2, <2>3 DEF NobodyTwice
  <2> QED BY <1>4, <1>7, <2>2, <2>4
<1> QED BY <1>1, <1>4, <1>6, <1>7 DEF s, n

\* What set_connection and resynchronise leave is such a roster.
LEMMA ListedKept ==
  /\ Listed(Offline)
  /\ \A c : Listed(c) => \A k \in Connections : Listed(SetConnection(c, k))
  /\ \A c \in Contents, channel \in SaidChannels, g \in Gatherings :
       Listed(Resynchronise(c, channel, g))
<1>0. \A c : c \in Contents /\ c.users = <<>> => Listed(c)
  BY ModelAssumption DEF Listed
<1>1. Listed(Offline)
  BY <1>0, ContentsKept DEF Offline
<1>2. ASSUME NEW c, Listed(c), NEW k \in Connections PROVE Listed(SetConnection(c, k))
  <2>1. c \in Contents /\ SetConnection(c, k) \in Contents
    BY <1>2, ContentsKept DEF Listed
  <2>2. CASE k = "connected"
    <3>1. SetConnection(c, k).users = c.users
      BY <2>1, <2>2 DEF SetConnection, Contents
    <3> QED BY <1>2, <2>1, <3>1 DEF Listed
  <2>3. CASE k # "connected"
    <3>1. SetConnection(c, k).users = <<>>
      BY <2>1, <2>3 DEF SetConnection, Contents
    <3> QED BY <1>0, <2>1, <3>1
  <2> QED BY <2>2, <2>3
<1>3. ASSUME NEW c \in Contents, NEW channel \in SaidChannels, NEW g \in Gatherings
      PROVE  Listed(Resynchronise(c, channel, g))
  <2> DEFINE users == [i \in DOMAIN g |-> KeepTalking(c, g[i])]
  <2>1. PICK d : d = Resynchronise(c, channel, g)
    OBVIOUS
  <2>2. d \in Contents
    BY <2>1, ContentsKept
  <2>3. CASE channel = NoChannel
    <3>1. d.users = <<>>
      BY <2>1, <2>3 DEF Resynchronise, Contents
    <3> QED BY <1>0, <2>1, <2>2, <3>1
  <2>4. CASE channel # NoChannel
    <3>1. d.users = users
      BY <2>1, <2>4 DEF Resynchronise, Contents
    <3>2. /\ DOMAIN g = 1..Len(g) /\ Len(g) \in Nat /\ Len(g) <= MaxUsers
          /\ \A i \in 1..Len(g) : g[i] \in Profiles /\ g[i] \in UserState
          /\ \A i, j \in 1..Len(g) : g[i].cid = g[j].cid => i = j
      <4>1. PICK m \in 0..MaxUsers : g \in [1..m -> Profiles]
        BY DEF Gatherings, SeqOf
      <4>2. Len(g) = m /\ m \in Nat
        BY <4>1, ModelAssumption
      <4>3. \A i, j \in DOMAIN g : g[i].cid = g[j].cid => i = j
        BY DEF Gatherings
      <4> QED BY <4>1, <4>2, <4>3, PluginAssumption, ModelAssumption
    <3>3. \A p \in UserState : KeepTalking(c, p).uid = p.uid /\ KeepTalking(c, p).cid = p.cid
      BY DEF KeepTalking, UserState
    <3>4. /\ DOMAIN users = 1..Len(g) /\ Len(users) = Len(g)
          /\ \A i \in 1..Len(g) : users[i].uid = g[i].uid /\ users[i].cid = g[i].cid
      BY <3>2, <3>3
    <3> HIDE DEF users
    <3> QED BY <2>1, <2>2, <3>1, <3>2, <3>4 DEF Listed
  <2> QED BY <2>3, <2>4
<1> QED BY <1>1, <1>2, <1>3

\* So do a row replaced by another of the same person, somebody new where
\* there is room, and a row removed.
LEMMA ListedRowKept ==
  ASSUME NEW c, Listed(c), NEW at \in 1..Len(c.users), NEW r \in UserState,
         r.uid = c.users[at].uid, r.cid = c.users[at].cid
  PROVE  /\ [c.users EXCEPT ![at] = r] \in Rows
         /\ Listed([c EXCEPT !.users = [c.users EXCEPT ![at] = r]])
<1>1. PICK v : v = [c.users EXCEPT ![at] = r]
  OBVIOUS
<1>2. /\ c \in Contents /\ c.users \in Rows /\ Len(c.users) \in Nat
      /\ DOMAIN c.users = 1..Len(c.users)
  BY RowPlaces DEF Listed, Contents, Rows
<1>3. v \in Rows /\ v \in Seq(UserState)
  BY <1>1, <1>2, RowsReplace DEF Rows
<1>4. /\ DOMAIN v = DOMAIN c.users /\ Len(v) = Len(c.users)
      /\ \A i \in DOMAIN c.users : v[i].uid = c.users[i].uid /\ v[i].cid = c.users[i].cid
  BY <1>1, <1>2
<1>5. PICK d : d = [c EXCEPT !.users = v]
  OBVIOUS
<1>6. d \in Contents /\ d.users = v
  BY <1>2, <1>3, <1>5 DEF Contents
<1>7. Listed(d)
  BY <1>4, <1>6 DEF Listed
<1> QED BY <1>1, <1>3, <1>5, <1>7

\* ... with a row more, of somebody who had none ...
LEMMA ListedRowAdded ==
  ASSUME NobodyTwice, NEW c, Listed(c), NEW p \in Profiles, ClientRow(c.users, p.cid) = 0,
         Len(c.users) < MaxUsers
  PROVE  /\ Append(c.users, p) \in Rows
         /\ Listed([c EXCEPT !.users = Append(c.users, p)])
<1>1. PICK v : v = Append(c.users, p)
  OBVIOUS
<1>2. /\ c \in Contents /\ c.users \in Rows /\ c.users \in Seq(UserState)
      /\ Len(c.users) \in Nat /\ DOMAIN c.users = 1..Len(c.users)
      /\ \A i \in 1..Len(c.users) : c.users[i].cid # p.cid
  BY ListedRows DEF Contents
<1>3. p \in UserState
  BY PluginAssumption
<1>4. v \in Rows /\ v \in Seq(UserState)
  <2>1. ~(Len(c.users) >= MaxUsers)
    BY <1>2, ModelAssumption
  <2> QED BY <1>1, <1>2, <1>3, <2>1, RowsAppend DEF Rows
<1>5. /\ Len(v) = Len(c.users) + 1 /\ DOMAIN v = 1..Len(c.users) + 1
      /\ \A i \in 1..Len(c.users) : v[i] = c.users[i]
      /\ v[Len(c.users) + 1] = p
  <2>1. /\ Len(v) = Len(c.users) + 1
        /\ \A i \in 1..Len(c.users) : v[i] = c.users[i]
        /\ v[Len(c.users) + 1] = p
    BY <1>1, <1>2, <1>3, AppendProperties
  <2> QED BY <1>4, <2>1, LenProperties
<1>6. PICK d : d = [c EXCEPT !.users = v]
  OBVIOUS
<1>7. d \in Contents /\ d.users = v
  BY <1>2, <1>4, <1>6 DEF Contents
<1>8. \A i \in 1..Len(c.users) + 1 : i \in 1..Len(c.users) \/ i = Len(c.users) + 1
  BY <1>2
<1>9. Len(v) <= MaxUsers
  BY <1>4 DEF Rows
<1>10. \A i, j \in DOMAIN v : v[i].cid = v[j].cid => i = j
  BY <1>2, <1>5, <1>8 DEF Listed
<1>11. \A i \in DOMAIN v : \E q \in Profiles : q.uid = v[i].uid /\ q.cid = v[i].cid
  BY <1>2, <1>5, <1>8 DEF Listed
<1>12. Listed(d)
  BY <1>7, <1>9, <1>10, <1>11 DEF Listed
<1> QED BY <1>1, <1>4, <1>6, <1>12

\* ... and with one less.
LEMMA ListedRowRemoved ==
  ASSUME NEW c, Listed(c), NEW at \in 1..Len(c.users)
  PROVE  /\ RemoveAt(c.users, at) \in Rows
         /\ Listed([c EXCEPT !.users = RemoveAt(c.users, at)])
<1>1. PICK v : v = RemoveAt(c.users, at)
  OBVIOUS
<1>2. PICK n : n = Len(c.users)
  OBVIOUS
<1>3. /\ c \in Contents /\ c.users \in Rows /\ c.users \in Seq(UserState) /\ n \in Nat
      /\ DOMAIN c.users = 1..n /\ at \in 1..n
  BY <1>2, RowPlaces DEF Listed, Contents, Rows
<1>4. v \in Rows /\ v \in Seq(UserState) /\ Len(v) <= MaxUsers
  BY <1>1, <1>2, <1>3, RowsRemove DEF Rows
<1>5. /\ DOMAIN v = 1..n - 1
      /\ \A j \in 1..n - 1 : v[j] = IF j < at THEN c.users[j] ELSE c.users[j + 1]
  BY <1>1, <1>2, <1>3, RemoveRows
<1>6. PICK d : d = [c EXCEPT !.users = v]
  OBVIOUS
<1>7. d \in Contents /\ d.users = v
  BY <1>3, <1>4, <1>6 DEF Contents
<1> DEFINE old(j) == IF j < at THEN j ELSE j + 1
<1>8. /\ \A j \in 1..n - 1 : old(j) \in 1..n /\ v[j] = c.users[old(j)]
      /\ \A i, j \in 1..n - 1 : old(i) = old(j) => i = j
  BY <1>3, <1>5
<1> HIDE DEF old
<1>9. \A i, j \in DOMAIN v : v[i].cid = v[j].cid => i = j
  <2> SUFFICES ASSUME NEW i \in 1..n - 1, NEW j \in 1..n - 1, v[i].cid = v[j].cid
               PROVE  i = j
    BY <1>5
  <2>1. old(i) \in DOMAIN c.users /\ v[i] = c.users[old(i)]
    BY <1>3, <1>8
  <2>2. old(j) \in DOMAIN c.users /\ v[j] = c.users[old(j)]
    BY <1>3, <1>8
  <2>3. old(i) = old(j)
    BY <2>1, <2>2 DEF Listed
  <2> QED BY <1>8, <2>3
<1>10. \A i \in DOMAIN v : \E q \in Profiles : q.uid = v[i].uid /\ q.cid = v[i].cid
  <2> SUFFICES ASSUME NEW i \in 1..n - 1
               PROVE  \E q \in Profiles : q.uid = v[i].uid /\ q.cid = v[i].cid
    BY <1>5
  <2>1. PICK k \in 1..n : v[i] = c.users[k]
    BY <1>8
  <2> QED BY <1>3, <2>1 DEF Listed
<1>11. Listed(d)
  BY <1>4, <1>7, <1>9, <1>10 DEF Listed
<1> QED BY <1>1, <1>4, <1>6, <1>11

\* What an overlay makes of a message about somebody on its roster: who speaks ...
LEMMA SpeakingApplied ==
  ASSUME NEW s \in OverlayStates, NEW l, NEW at \in 1..Len(s.users), Row(s, l.who) = at,
         NEW e, e = [s EXCEPT !.users = [s.users EXCEPT ![at] =
                       [s.users[at] EXCEPT !.talking = l.talking,
                                           !.whispering = l.talking /\ l.whisper]]]
  PROVE  OnSpeakingChanged(s, l).state = e
<1>1. s.users \in Seq(UserState) /\ DOMAIN s.users = 1..Len(s.users)
  BY LenProperties DEF OverlayStates, Rows
<1>2. PICK t : t = l.talking
  OBVIOUS
<1>3. PICK w : w = (l.talking /\ l.whisper)
  OBVIOUS
<1>4. OnSpeakingChanged(s, l).state =
        [s EXCEPT !.users[at].talking = t, !.users[at].whispering = w]
  BY <1>1, <1>2, <1>3 DEF OnSpeakingChanged, Effect, Lists
<1>5. [s EXCEPT !.users[at].talking = t, !.users[at].whispering = w]
        = [s EXCEPT !.users = [s.users EXCEPT ![at].talking = t, ![at].whispering = w]]
  BY DEF OverlayStates
<1>6. [s.users EXCEPT ![at].talking = t, ![at].whispering = w]
        = [s.users EXCEPT ![at] = [s.users[at] EXCEPT !.talking = t, !.whispering = w]]
  BY <1>1
<1> QED BY <1>2, <1>3, <1>4, <1>5, <1>6

\* ... that they come, when they are there ...
LEMMA JoinRepeated ==
  ASSUME NEW s \in OverlayStates, NEW l, NEW at \in 1..Len(s.users),
         Row(s, l.user.uid) = at, l.user = s.users[at]
  PROVE  OnUserJoined(s, l).state = s
<1>1. s.users \in Seq(UserState) /\ DOMAIN s.users = 1..Len(s.users)
  BY LenProperties DEF OverlayStates, Rows
<1>2. PICK row : row = s.users[at]
  OBVIOUS
<1>3. OnUserJoined(s, l).state = [s EXCEPT !.users[at] = row]
  BY <1>1, <1>2 DEF OnUserJoined, Effect, Lists
<1>4. [s EXCEPT !.users[at] = row] = [s EXCEPT !.users = [s.users EXCEPT ![at] = row]]
  BY DEF OverlayStates
<1>5. [s.users EXCEPT ![at] = row] = s.users
  BY <1>1, <1>2
<1>6. [s EXCEPT !.users = s.users] = s
  BY DEF OverlayStates
<1> QED BY <1>3, <1>4, <1>5, <1>6

\* ... and one thing about them, when the row says it already.
LEMMA FieldRepeated ==
  ASSUME NEW s \in OverlayStates, NEW l, NEW at \in 1..Len(s.users), Row(s, l.who) = at
  PROVE  /\ l.active = s.users[at].whispering => OnWhisperChanged(s, l).state = s
         /\ l.commander = s.users[at].commander => OnCommanderChanged(s, l).state = s
         /\ l.muted = s.users[at].muted => OnMuteChanged(s, l).state = s
<1> USE DEF Lists
<1>1. /\ s.users \in Seq(UserState) /\ Len(s.users) \in Nat /\ DOMAIN s.users = 1..Len(s.users)
      /\ s.users[at] \in UserState
  BY LenProperties, ElementOfSeq DEF OverlayStates, Rows
<1>2. PICK row : row = s.users[at]
  OBVIOUS
<1>3. [s.users EXCEPT ![at] = row] = s.users
  BY <1>1, <1>2
<1>4. [s EXCEPT !.users = s.users] = s
  BY DEF OverlayStates
<1>5. ASSUME l.active = row.whispering
      PROVE  OnWhisperChanged(s, l).state = s
  <2>1. OnWhisperChanged(s, l).state = [s EXCEPT !.users[at].whispering = row.whispering]
    BY <1>5 DEF OnWhisperChanged, Effect
  <2>2. [s EXCEPT !.users[at].whispering = row.whispering]
          = [s EXCEPT !.users = [s.users EXCEPT ![at] = [row EXCEPT !.whispering = row.whispering]]]
    BY <1>1, <1>2 DEF OverlayStates
  <2>3. [row EXCEPT !.whispering = row.whispering] = row
    BY <1>1, <1>2 DEF UserState
  <2> QED BY <1>3, <1>4, <2>1, <2>2, <2>3
<1>6. ASSUME l.commander = row.commander
      PROVE  OnCommanderChanged(s, l).state = s
  <2>1. OnCommanderChanged(s, l).state = [s EXCEPT !.users[at].commander = row.commander]
    BY <1>6 DEF OnCommanderChanged, Effect
  <2>2. [s EXCEPT !.users[at].commander = row.commander]
          = [s EXCEPT !.users = [s.users EXCEPT ![at] = [row EXCEPT !.commander = row.commander]]]
    BY <1>1, <1>2 DEF OverlayStates
  <2>3. [row EXCEPT !.commander = row.commander] = row
    BY <1>1, <1>2 DEF UserState
  <2> QED BY <1>3, <1>4, <2>1, <2>2, <2>3
<1>7. ASSUME l.muted = row.muted PROVE OnMuteChanged(s, l).state = s
  <2>1. \/ OnMuteChanged(s, l).state = s
        \/ OnMuteChanged(s, l).state = [s EXCEPT !.users[at].muted = row.muted]
    BY <1>7 DEF OnMuteChanged, Nothing, Effect
  <2>2. [s EXCEPT !.users[at].muted = row.muted]
          = [s EXCEPT !.users = [s.users EXCEPT ![at] = [row EXCEPT !.muted = row.muted]]]
    BY <1>1, <1>2 DEF OverlayStates
  <2>3. [row EXCEPT !.muted = row.muted] = row
    BY <1>1, <1>2 DEF UserState
  <2> QED BY <1>3, <1>4, <2>1, <2>2, <2>3
<1> QED BY <1>2, <1>5, <1>6, <1>7

\* A copy of such a roster is the roster, and so is one of it with others.
LEMMA ListedCopy ==
  ASSUME NEW c, Listed(c)
  PROVE  /\ Copy(c) \in OverlayStates /\ Copy(c).users = c.users
         /\ Copy(c).channel = c.channel /\ Copy(c).connection = c.connection
         /\ Copy(c).synchronised = TRUE
         /\ Heard(Copy(c), 1) = Copy(c)
         /\ \A a, d : a = Copy(c) /\ Listed(d) /\ d.channel = c.channel
                       /\ d.connection = c.connection =>
              [a EXCEPT !.users = d.users] = Copy(d)
<1>1. ASSUME NEW d, Listed(d)
      PROVE  Copy(d) = [users |-> d.users, channel |-> d.channel, connection |-> d.connection,
                        synchronised |-> TRUE, stale |-> FALSE, lastEvent |-> 1]
  <2>1. d.users \in Seq(UserState) /\ Len(d.users) \in Nat /\ Len(d.users) <= MaxUsers
    BY <1>1, LenProperties DEF Listed, Contents
  <2>2. Min({Len(d.users), MaxUsers}) = Len(d.users)
    <3> DEFINE T == {Len(d.users), MaxUsers}
    <3>1. \E x \in T : \A y \in T : x <= y
      BY <2>1, ModelAssumption
    <3>2. Min(T) \in T /\ \A y \in T : Min(T) <= y
      BY <3>1 DEF Min
    <3> QED BY <3>2, <2>1, ModelAssumption
  <2>3. SubSeq(d.users, 1, Len(d.users)) = d.users
    BY <2>1, SubSeqFull
  <2> QED BY <2>2, <2>3 DEF Copy
<1>2. c \in Contents /\ Copy(c) \in OverlayStates
  BY CopyShown DEF Listed
<1>3. Heard(Copy(c), 1) = Copy(c)
  <2>1. PICK a : a = Copy(c)
    OBVIOUS
  <2>2. a \in Awake
    BY <1>2, <2>1, CopyShown
  <2>3. Heard(a, 1) = a
    BY <2>2 DEF Heard, Awake, OverlayStates
  <2> QED BY <2>1, <2>3
<1>4. ASSUME NEW a, NEW d, a = Copy(c), Listed(d), d.channel = c.channel,
             d.connection = c.connection
      PROVE  [a EXCEPT !.users = d.users] = Copy(d)
  <2>1. Copy(d) = [users |-> d.users, channel |-> d.channel, connection |-> d.connection,
                   synchronised |-> TRUE, stale |-> FALSE, lastEvent |-> 1]
    BY <1>1, <1>4
  <2>2. /\ a \in OverlayStates /\ a.channel = c.channel /\ a.connection = c.connection
        /\ a.synchronised = TRUE /\ a.stale = FALSE /\ a.lastEvent = 1
    BY <1>1, <1>2, <1>4
  <2>3. PICK u : u = d.users
    OBVIOUS
  <2>4. PICK e : e = [a EXCEPT !.users = u]
    OBVIOUS
  <2>5. e = [users |-> u, channel |-> c.channel, connection |-> c.connection,
             synchronised |-> TRUE, stale |-> FALSE, lastEvent |-> 1]
    BY <2>2, <2>4 DEF OverlayStates
  <2>6. e = Copy(d)
    BY <1>4, <2>1, <2>3, <2>5
  <2> QED BY <2>3, <2>4, <2>6, Zenon
<1> QED BY <1>1, <1>2, <1>3, <1>4

\* A state with another roster, and a roster with another row.
WithUsers(c, users) == [c EXCEPT !.users = users]
WithRow(users, at, row) == [users EXCEPT ![at] = row]

\* What the lines about somebody who comes or goes make of a copy of a roster,
\* and a whisper from somebody who is not on it.
LEMMA RosterLines ==
  ASSUME NobodyTwice, NEW c, Listed(c), NEW n \in Nat
  PROVE  /\ \A p \in Profiles : ClientRow(c.users, p.cid) = 0 =>
              /\ Len(c.users) < MaxUsers =>
                   Takes(Copy(c), Line([type |-> "user_joined", user |-> p], n))
                     = Copy(WithUsers(c, Append(c.users, p)))
              /\ \A b : Takes(Copy(c), Line([type |-> "whisper_changed", who |-> p.uid,
                                             active |-> b], n)) = Copy(c)
         /\ \A at \in 1..Len(c.users) :
              Takes(Copy(c), Line([type |-> "user_left", who |-> c.users[at].uid], n))
                = Copy(WithUsers(c, RemoveAt(c.users, at)))
         /\ \A u : FirstRow(c.users, u) = 0 =>
              Takes(Copy(c), Line([type |-> "user_left", who |-> u], n)) = Copy(c)
<1>1. PICK a : a = Copy(c)
  OBVIOUS
<1>2. /\ a \in OverlayStates /\ a.users = c.users /\ Heard(a, 1) = a
      /\ \A d : Listed(d) /\ d.channel = c.channel /\ d.connection = c.connection =>
           [a EXCEPT !.users = d.users] = Copy(d)
  <2>1. /\ Copy(c) \in OverlayStates /\ Copy(c).users = c.users /\ Heard(Copy(c), 1) = Copy(c)
        /\ \A e, d : e = Copy(c) /\ Listed(d) /\ d.channel = c.channel
                      /\ d.connection = c.connection =>
             [e EXCEPT !.users = d.users] = Copy(d)
    BY ListedCopy, Zenon
  <2> QED BY <1>1, <2>1, Zenon
<1>3. /\ c \in Contents /\ Len(c.users) \in Nat
      /\ \A i \in 1..Len(c.users) : FirstRow(c.users, c.users[i].uid) = i
      /\ \A p \in Profiles : ClientRow(c.users, p.cid) = 0 => FirstRow(c.users, p.uid) = 0
  BY ListedRows
<1>4. \A u : Row(a, u) = FirstRow(c.users, u)
  BY <1>2 DEF Row
<1>5. \A l : Takes(a, l) = Outcome(a, l).state
  BY <1>2 DEF Takes
<1>6. ASSUME NEW u, Listed([c EXCEPT !.users = u])
      PROVE  [a EXCEPT !.users = u] = Copy([c EXCEPT !.users = u])
  <2>1. PICK d : d = [c EXCEPT !.users = u]
    OBVIOUS
  <2>2. d.users = u /\ d.channel = c.channel /\ d.connection = c.connection
    BY <1>3, <2>1 DEF Contents
  <2>3. [a EXCEPT !.users = d.users] = Copy(d)
    BY <1>2, <1>6, <2>1, <2>2, Zenon
  <2> QED BY <2>1, <2>2, <2>3, Zenon
<1>7. ASSUME NEW p \in Profiles, ClientRow(c.users, p.cid) = 0, Len(c.users) < MaxUsers
      PROVE  Takes(a, Line([type |-> "user_joined", user |-> p], n))
               = Copy([c EXCEPT !.users = Append(c.users, p)])
  <2>1. PICK l : l = Line([type |-> "user_joined", user |-> p], n)
    OBVIOUS
  <2>2. l.type = "user_joined" /\ l.user = p /\ l.good = TRUE
    BY <2>1 DEF Line, MakeLine
  <2>3. Outcome(a, l) = OnUserJoined(a, l)
    BY <2>2 DEF Outcome, Ignored
  <2>4. Row(a, l.user.uid) = 0
    BY <1>3, <1>4, <1>7, <2>2
  <2>5. OnUserJoined(a, l).state = [a EXCEPT !.users = Append(a.users, l.user)]
    <3>1. ~Full(a)
      BY <1>2, <1>3, <1>7, ModelAssumption DEF Full
    <3> QED BY <2>4, <3>1 DEF OnUserJoined, Effect, Lists
  <2>6. Listed([c EXCEPT !.users = Append(c.users, p)])
    BY <1>7, ListedRowAdded
  <2>7. PICK e : e = [a EXCEPT !.users = Append(c.users, p)]
    OBVIOUS
  <2>8. PICK g : g = Copy([c EXCEPT !.users = Append(c.users, p)])
    OBVIOUS
  <2>9. e = g
    BY <1>6, <2>6, <2>7, <2>8, Zenon
  <2>10. OnUserJoined(a, l).state = e
    BY <1>2, <2>2, <2>5, <2>7, Zenon
  <2>11. Takes(a, l) = g
    BY <1>5, <2>3, <2>9, <2>10
  <2> QED BY <2>1, <2>8, <2>11, Zenon
<1>8. ASSUME NEW p \in Profiles, ClientRow(c.users, p.cid) = 0, NEW b
      PROVE  Takes(a, Line([type |-> "whisper_changed", who |-> p.uid, active |-> b], n)) = a
  <2>1. PICK l : l = Line([type |-> "whisper_changed", who |-> p.uid, active |-> b], n)
    OBVIOUS
  <2>2. l.type = "whisper_changed" /\ l.who = p.uid /\ l.good = TRUE
    BY <2>1 DEF Line, MakeLine
  <2>3. Outcome(a, l) = OnWhisperChanged(a, l)
    BY <2>2 DEF Outcome, Ignored
  <2>4. Row(a, l.who) = 0
    BY <1>3, <1>4, <1>8, <2>2
  <2>5. OnWhisperChanged(a, l).state = a
    BY <2>4 DEF OnWhisperChanged, Effect, Lists
  <2> QED BY <1>5, <2>1, <2>3, <2>5
<1>9. ASSUME NEW at \in 1..Len(c.users)
      PROVE  Takes(a, Line([type |-> "user_left", who |-> c.users[at].uid], n))
               = Copy([c EXCEPT !.users = RemoveAt(c.users, at)])
  <2>1. PICK l : l = Line([type |-> "user_left", who |-> c.users[at].uid], n)
    OBVIOUS
  <2>2. l.type = "user_left" /\ l.who = c.users[at].uid /\ l.good = TRUE
    BY <2>1 DEF Line, MakeLine
  <2>3. Outcome(a, l) = OnUserLeft(a, l)
    BY <2>2 DEF Outcome, Ignored
  <2>4. Row(a, l.who) = at /\ at \in 1..Len(a.users)
    BY <1>2, <1>3, <1>4, <2>2
  <2>5. OnUserLeft(a, l).state = [a EXCEPT !.users = RemoveAt(a.users, at)]
    BY <2>4 DEF OnUserLeft, Effect, Lists
  <2>6. Listed([c EXCEPT !.users = RemoveAt(c.users, at)])
    BY ListedRowRemoved
  <2>7. [a EXCEPT !.users = RemoveAt(c.users, at)]
          = Copy([c EXCEPT !.users = RemoveAt(c.users, at)])
    BY <1>6, <2>6
  <2> QED BY <1>2, <1>5, <2>1, <2>3, <2>5, <2>7, Zenon
<1>10. ASSUME NEW u, FirstRow(c.users, u) = 0
       PROVE  Takes(a, Line([type |-> "user_left", who |-> u], n)) = a
  <2>1. PICK l : l = Line([type |-> "user_left", who |-> u], n)
    OBVIOUS
  <2>2. l.type = "user_left" /\ l.who = u /\ l.good = TRUE
    BY <2>1 DEF Line, MakeLine
  <2>3. Outcome(a, l) = OnUserLeft(a, l)
    BY <2>2 DEF Outcome, Ignored
  <2>4. Row(a, l.who) = 0
    BY <1>4, <1>10, <2>2
  <2>5. OnUserLeft(a, l).state = a
    BY <2>4 DEF OnUserLeft, Effect, Lists
  <2> QED BY <1>5, <2>1, <2>3, <2>5
<1> QED BY <1>1, <1>7, <1>8, <1>9, <1>10, Zenon DEF WithUsers

\* Where a line about somebody who is on it finds their row in a copy.
LEMMA RowFound ==
  ASSUME NobodyTwice, NEW c, Listed(c), NEW at \in 1..Len(c.users), NEW a, a = Copy(c)
  PROVE  /\ a \in OverlayStates /\ a.users = c.users /\ c.users[at] \in UserState
         /\ Row(a, c.users[at].uid) = at /\ at \in 1..Len(a.users) /\ at # 0
         /\ \A l : Takes(a, l) = Outcome(a, l).state
         /\ \A is \in UserState : is.uid = c.users[at].uid /\ is.cid = c.users[at].cid =>
              WithUsers(a, WithRow(c.users, at, is)) = Copy(WithUsers(c, WithRow(c.users, at, is)))
<1>1. /\ a \in OverlayStates /\ a.users = c.users /\ Heard(a, 1) = a
      /\ \A d : Listed(d) /\ d.channel = c.channel /\ d.connection = c.connection =>
           [a EXCEPT !.users = d.users] = Copy(d)
  <2>1. /\ Copy(c) \in OverlayStates /\ Copy(c).users = c.users /\ Heard(Copy(c), 1) = Copy(c)
        /\ \A e, d : e = Copy(c) /\ Listed(d) /\ d.channel = c.channel
                      /\ d.connection = c.connection =>
             [e EXCEPT !.users = d.users] = Copy(d)
    BY ListedCopy, Zenon
  <2> QED BY <2>1, Zenon
<1>2. /\ c \in Contents /\ Len(c.users) \in Nat /\ c.users[at] \in UserState
      /\ FirstRow(c.users, c.users[at].uid) = at /\ at # 0
  BY ListedRows
<1>3. ASSUME NEW is \in UserState, is.uid = c.users[at].uid, is.cid = c.users[at].cid
      PROVE  WithUsers(a, WithRow(c.users, at, is)) = Copy(WithUsers(c, WithRow(c.users, at, is)))
  <2>1. PICK u : u = [c.users EXCEPT ![at] = is]
    OBVIOUS
  <2>2. PICK d : d = [c EXCEPT !.users = u]
    OBVIOUS
  <2>3. d.users = u /\ d.channel = c.channel /\ d.connection = c.connection
    BY <1>2, <2>2 DEF Contents
  <2>4. Listed(d)
    BY <1>3, <2>1, <2>2, ListedRowKept
  <2>5. [a EXCEPT !.users = d.users] = Copy(d)
    BY <1>1, <2>3, <2>4, Zenon
  <2> QED BY <2>1, <2>2, <2>3, <2>5, Zenon DEF WithUsers, WithRow
<1> QED BY <1>1, <1>2, <1>3 DEF Row, Takes

\* A row whose owner speaks, and whether into one's own ear.
Spoken(row, talking, w) == [row EXCEPT !.talking = talking, !.whispering = w]

\* What a line says of who speaks and of who whispers ...
LEMMA RowSpoken ==
  ASSUME NobodyTwice, NEW c, Listed(c), NEW n \in Nat, NEW at \in 1..Len(c.users),
         NEW talking \in BOOLEAN, NEW w \in BOOLEAN, w => talking
  PROVE  Takes(Copy(c), Line([type |-> "speaking_changed", who |-> c.users[at].uid,
                              talking |-> talking, whisper |-> w], n))
           = Copy(WithUsers(c, WithRow(c.users, at, Spoken(c.users[at], talking, w))))
<1>1. PICK a : a = Copy(c)
  OBVIOUS
<1>2. PICK row : row = c.users[at]
  OBVIOUS
<1>3. /\ a \in OverlayStates /\ a.users = c.users /\ row \in UserState
      /\ Row(a, row.uid) = at /\ at \in 1..Len(a.users) /\ at # 0
      /\ \A l : Takes(a, l) = Outcome(a, l).state
  BY <1>1, <1>2, RowFound
<1>4. PICK is : is = [row EXCEPT !.talking = talking, !.whispering = w]
  OBVIOUS
<1>5. is \in UserState /\ is.uid = row.uid /\ is.cid = row.cid
  BY <1>3, <1>4 DEF UserState
<1>6. PICK l : l = Line([type |-> "speaking_changed", who |-> row.uid,
                         talking |-> talking, whisper |-> w], n)
  OBVIOUS
<1>7. /\ l.type = "speaking_changed" /\ l.who = row.uid /\ l.good = TRUE
      /\ l.talking = talking /\ l.whisper = w
  BY <1>6 DEF Line, MakeLine
<1>8. Outcome(a, l) = OnSpeakingChanged(a, l)
  BY <1>3, <1>7 DEF Outcome, Ignored, Lists
<1>9. is = [a.users[at] EXCEPT !.talking = l.talking, !.whispering = l.talking /\ l.whisper]
  <2>1. PICK v : v = (l.talking /\ l.whisper)
    OBVIOUS
  <2>2. v = w
    BY <1>7, <2>1
  <2> QED BY <1>2, <1>3, <1>4, <1>7, <2>1, <2>2, Zenon
<1>10. PICK e : e = [a EXCEPT !.users = [c.users EXCEPT ![at] = is]]
  OBVIOUS
<1>11. OnSpeakingChanged(a, l).state = e
  <2>1. e = [a EXCEPT !.users = [a.users EXCEPT ![at] =
               [a.users[at] EXCEPT !.talking = l.talking,
                                   !.whispering = l.talking /\ l.whisper]]]
    BY <1>3, <1>9, <1>10, Zenon
  <2>2. a \in OverlayStates /\ at \in 1..Len(a.users) /\ Row(a, l.who) = at
    BY <1>3, <1>7, Zenon
  <2> QED BY <2>1, <2>2, SpeakingApplied, Zenon
<1>12. PICK g : g = Copy(WithUsers(c, WithRow(c.users, at, is)))
  OBVIOUS
<1>13. e = g
  <2>1. e = WithUsers(a, WithRow(c.users, at, is))
    BY <1>10, Zenon DEF WithUsers, WithRow
  <2> QED BY <1>1, <1>2, <1>5, <1>12, <2>1, RowFound
<1>14. Takes(a, l) = g
  BY <1>3, <1>8, <1>11, <1>13
<1> QED BY <1>1, <1>2, <1>4, <1>6, <1>12, <1>14, Zenon DEF Spoken

\* ... what there is to say of one otherwise ...
LEMMA RowUpdated ==
  ASSUME NobodyTwice, NEW c, Listed(c), NEW n \in Nat, NEW at \in 1..Len(c.users),
         NEW is \in UserState, is.uid = c.users[at].uid, is.cid = c.users[at].cid,
         is.talking = c.users[at].talking, is.whispering = c.users[at].whispering
  PROVE  Takes(Copy(c), Line([type |-> "user_updated", user |-> is], n))
           = Copy(WithUsers(c, WithRow(c.users, at, is)))
<1>1. PICK a : a = Copy(c)
  OBVIOUS
<1>2. /\ a \in OverlayStates /\ a.users = c.users
      /\ Row(a, c.users[at].uid) = at /\ at \in 1..Len(a.users) /\ at # 0
      /\ \A l : Takes(a, l) = Outcome(a, l).state
  BY <1>1, RowFound
<1>3. PICK l : l = Line([type |-> "user_updated", user |-> is], n)
  OBVIOUS
<1>4. l.type = "user_updated" /\ l.user = is /\ l.good = TRUE
  BY <1>3 DEF Line, MakeLine
<1>5. Outcome(a, l) = OnUserUpdated(a, l)
  BY <1>4 DEF Outcome, Ignored
<1>6. PICK e : e = [a EXCEPT !.users = [c.users EXCEPT ![at] = is]]
  OBVIOUS
<1>7. OnUserUpdated(a, l).state = e
  <2>1. PICK v : v = [is EXCEPT !.talking = a.users[at].talking,
                                !.whispering = a.users[at].whispering]
    OBVIOUS
  <2>2. v = is
    <3>1. [is EXCEPT !.talking = is.talking, !.whispering = is.whispering] = is
      BY DEF UserState
    <3> QED BY <1>2, <2>1, <3>1, Zenon
  <2>3. Row(a, is.uid) = at /\ is = l.user
    BY <1>2, <1>4
  <2>4. OnUserUpdated(a, l).state = [a EXCEPT !.users[at] = v]
    BY <1>2, <2>1, <2>3 DEF OnUserUpdated, Effect, Lists
  <2>5. [a EXCEPT !.users[at] = v] = [a EXCEPT !.users = [a.users EXCEPT ![at] = v]]
    BY <1>2 DEF OverlayStates
  <2> QED BY <1>2, <1>6, <2>2, <2>4, <2>5, Zenon
<1>8. PICK g : g = Copy(WithUsers(c, WithRow(c.users, at, is)))
  OBVIOUS
<1>9. e = g
  <2>1. e = WithUsers(a, WithRow(c.users, at, is))
    BY <1>6, Zenon DEF WithUsers, WithRow
  <2> QED BY <1>1, <1>8, <2>1, RowFound
<1>10. Takes(a, l) = g
  BY <1>2, <1>5, <1>7, <1>9
<1> QED BY <1>1, <1>3, <1>8, <1>10, Zenon

\* What there is to say of a row.
Said(row) ==
  {[type |-> "user_joined", user |-> row], [type |-> "user_updated", user |-> row],
   [type |-> "speaking_changed", who |-> row.uid, talking |-> row.talking,
    whisper |-> row.whispering],
   [type |-> "whisper_changed", who |-> row.uid, active |-> row.whispering],
   [type |-> "commander_changed", who |-> row.uid, commander |-> row.commander],
   [type |-> "mute_changed", who |-> row.uid, muted |-> row.muted]}

\* ... and what is said of a row that is there already makes nothing of it.
LEMMA RowRepeated ==
  ASSUME NobodyTwice, NEW c, Listed(c), NEW at \in 1..Len(c.users),
         NEW m \in Said(c.users[at]),
         m.type = "speaking_changed" => (c.users[at].whispering => c.users[at].talking)
  PROVE  \A n \in Nat : Takes(Copy(c), Line(m, n)) = Copy(c)
<1> SUFFICES ASSUME NEW n \in Nat PROVE Takes(Copy(c), Line(m, n)) = Copy(c)
  OBVIOUS
<1>1. PICK a : a = Copy(c)
  OBVIOUS
<1>2. PICK row : row = c.users[at]
  OBVIOUS
<1>3. /\ a \in OverlayStates /\ a.users = c.users /\ row \in UserState
      /\ Row(a, row.uid) = at /\ at \in 1..Len(a.users) /\ at # 0
      /\ \A l : Takes(a, l) = Outcome(a, l).state
  BY <1>1, <1>2, RowFound
<1>4. Copy(WithUsers(c, WithRow(c.users, at, row))) = Copy(c)
  <2>1. c \in Contents /\ c.users \in Seq(UserState)
    BY ListedRows DEF Contents
  <2>2. [c.users EXCEPT ![at] = row] = c.users
    BY <1>2, <2>1
  <2>3. [c EXCEPT !.users = c.users] = c
    BY <2>1 DEF Contents
  <2> QED BY <2>2, <2>3, Zenon DEF WithUsers, WithRow
<1>5. CASE m = [type |-> "speaking_changed", who |-> row.uid, talking |-> row.talking,
                whisper |-> row.whispering]
  <2>1. Spoken(row, row.talking, row.whispering) = row
        /\ row.talking \in BOOLEAN /\ row.whispering \in BOOLEAN
        /\ (row.whispering => row.talking)
    BY <1>2, <1>3, <1>5 DEF UserState, Spoken
  <2> QED BY <1>2, <1>4, <1>5, <2>1, RowSpoken
<1>6. CASE m = [type |-> "user_updated", user |-> row]
  BY <1>2, <1>3, <1>4, <1>6, RowUpdated
<1>7. PICK l : l = Line(m, n)
  OBVIOUS
<1>8. CASE m = [type |-> "user_joined", user |-> row]
  <2>1. l.type = "user_joined" /\ l.user = row /\ l.good = TRUE
    BY <1>7, <1>8 DEF Line, MakeLine
  <2>2. Outcome(a, l) = OnUserJoined(a, l)
    BY <2>1 DEF Outcome, Ignored
  <2>3. Row(a, l.user.uid) = at /\ l.user = a.users[at]
    BY <1>2, <1>3, <2>1
  <2>4. OnUserJoined(a, l).state = a
    BY <1>3, <2>3, JoinRepeated
  <2> QED BY <1>1, <1>3, <1>7, <2>2, <2>4
<1>9. CASE m = [type |-> "whisper_changed", who |-> row.uid, active |-> row.whispering]
  <2>1. l.type = "whisper_changed" /\ l.who = row.uid /\ l.good = TRUE
        /\ l.active = row.whispering
    BY <1>7, <1>9 DEF Line, MakeLine
  <2>2. Outcome(a, l) = OnWhisperChanged(a, l)
    BY <2>1 DEF Outcome, Ignored
  <2>3. OnWhisperChanged(a, l).state = a
    <3>1. a \in OverlayStates /\ at \in 1..Len(a.users) /\ Row(a, l.who) = at
          /\ l.active = a.users[at].whispering
      BY <1>2, <1>3, <2>1
    <3> QED BY <3>1, FieldRepeated, Zenon
  <2> QED BY <1>1, <1>3, <1>7, <2>2, <2>3
<1>10. CASE m = [type |-> "commander_changed", who |-> row.uid, commander |-> row.commander]
  <2>1. l.type = "commander_changed" /\ l.who = row.uid /\ l.good = TRUE
        /\ l.commander = row.commander
    BY <1>7, <1>10 DEF Line, MakeLine
  <2>2. Outcome(a, l) = OnCommanderChanged(a, l)
    BY <1>3, <2>1 DEF Outcome, Ignored, Lists
  <2>3. OnCommanderChanged(a, l).state = a
    <3>1. a \in OverlayStates /\ at \in 1..Len(a.users) /\ Row(a, l.who) = at
          /\ l.commander = a.users[at].commander
      BY <1>2, <1>3, <2>1
    <3> QED BY <3>1, FieldRepeated, Zenon
  <2> QED BY <1>1, <1>3, <1>7, <2>2, <2>3
<1>11. CASE m = [type |-> "mute_changed", who |-> row.uid, muted |-> row.muted]
  <2>1. l.type = "mute_changed" /\ l.who = row.uid /\ l.good = TRUE /\ l.muted = row.muted
    BY <1>7, <1>11 DEF Line, MakeLine
  <2>2. Outcome(a, l) = OnMuteChanged(a, l)
    BY <1>3, <2>1 DEF Outcome, Ignored, Lists
  <2>3. OnMuteChanged(a, l).state = a
    <3>1. a \in OverlayStates /\ at \in 1..Len(a.users) /\ Row(a, l.who) = at
          /\ l.muted = a.users[at].muted
      BY <1>2, <1>3, <2>1
    <3> QED BY <3>1, FieldRepeated, Zenon
  <2> QED BY <1>1, <1>3, <1>7, <2>2, <2>3
<1> QED BY <1>2, <1>5, <1>6, <1>8, <1>9, <1>10, <1>11 DEF Said

\* The scripts that close with a snapshot of what they leave in the cache.
Closing(d) == {s \in EndsIn(d) : \E a \in Seq(Steps) : s = a \o SendSnapshot(d)}

\* How they are put together, and that they are on course.
LEMMA Closings ==
  ASSUME NEW d \in Contents
  PROVE  /\ \A s \in EndsIn(d) : s \o SendSnapshot(d) \in Closing(d)
         /\ \A a \in Seq(Steps), s \in Closing(d) : a \o s \in Closing(d)
         /\ Listed(d) => \A c \in Contents, s \in Closing(d) : OnCourse(c, s, Copy(d))
<1>1. /\ SendSnapshot(d) \in Seq(SendSteps) /\ SendSnapshot(d) \in Seq(Steps)
      /\ \A s \in Seq(Steps), t \in Seq(Steps) : s \o t \in Seq(Steps)
  <2>1. /\ SendSnapshot(d) \in Seq(SendSteps)
        /\ \A s \in Seq(Steps), t \in Seq(Steps) : s \o t \in Seq(Steps)
    BY SendStepsParts
  <2>2. Seq(SendSteps) \subseteq Seq(Steps)
    BY DEF SendSteps
  <2> QED BY <2>1, <2>2
<1>2. ASSUME NEW s \in EndsIn(d) PROVE s \o SendSnapshot(d) \in Closing(d)
  <2>1. s \o SendSnapshot(d) \in EndsIn(d) /\ s \in Seq(Steps)
    BY <1>1, ScriptEnds DEF EndsIn
  <2> QED BY <2>1 DEF Closing
<1>3. ASSUME NEW a \in Seq(Steps), NEW s \in Closing(d) PROVE a \o s \in Closing(d)
  <2>1. PICK b \in Seq(Steps) : s = b \o SendSnapshot(d)
    BY DEF Closing
  <2>2. s \in EndsIn(d) /\ a \o s \in EndsIn(d)
    BY ScriptEnds DEF Closing
  <2>3. a \o s = (a \o b) \o SendSnapshot(d) /\ a \o b \in Seq(Steps)
    BY <1>1, <2>1, ConcatAssociative
  <2> QED BY <2>2, <2>3 DEF Closing
<1>4. ASSUME Listed(d), NEW c \in Contents, NEW s \in Closing(d) PROVE OnCourse(c, s, Copy(d))
  BY <1>4, SnapshotCloses DEF Closing
<1> QED BY <1>2, <1>3, <1>4

\* resync_and_report() and resynchronise() with emit_snapshot() are such.
LEMMA ReportCloses ==
  ASSUME NEW c \in Contents, NEW ch \in SaidChannels, NEW g \in Gatherings,
         NEW d, d = Resynchronise(c, ch, g)
  PROVE  /\ d \in Contents /\ Listed(d)
         /\ Report(c, ch, g) \in Closing(d) /\ Resent(c, ch, g) \in Closing(d)
<1>1. d \in Contents /\ Listed(d)
  BY ContentsKept, ListedKept
<1>2. Refresh(d) \in EndsIn(d) /\ \A s \in EndsIn(d), b \in Seq(SendSteps) : s \o b \in EndsIn(d)
  BY <1>1, ScriptEnds
<1>3. JoinedOf(c.users, d.users) \in Seq(SendSteps) /\ LeftOf(c.users, d.users) \in Seq(SendSteps)
  BY <1>1, SendStepsParts
<1>4. (Refresh(d) \o JoinedOf(c.users, d.users)) \o LeftOf(c.users, d.users) \in EndsIn(d)
  BY <1>2, <1>3
<1>5. /\ Report(c, ch, g) = ((Refresh(d) \o JoinedOf(c.users, d.users))
                               \o LeftOf(c.users, d.users)) \o SendSnapshot(d)
      /\ Resent(c, ch, g) = Refresh(d) \o SendSnapshot(d)
  BY DEF Report, Resent
<1> QED BY <1>1, <1>2, <1>4, <1>5, Closings

\* The callbacks that close with a snapshot.
LEMMA SnapshotCallbacks ==
  ASSUME NEW c, c = cache, Listed(c), NEW ch \in SaidChannels, NEW g \in Gatherings, NEW s, s = script'
  PROVE  /\ \A server \in Servers, k \in Connections :
              OnConnectStatusChanged(server, k, ch, g) => \E goal : OnCourse(c, s, goal)
         /\ \A server \in Servers :
              OnCurrentServerChanged(server, ch, g) => \E goal : OnCourse(c, s, goal)
         /\ OnServerStopped \/ OnSelfLeft => \E goal : OnCourse(c, s, goal)
         /\ OnSelfMoved(ch, g) \/ OnChannelRefreshed(ch, g) => \E goal : OnCourse(c, s, goal)
         /\ \A x \in Contents, a \in Seq(Steps) :
              s = a \o Report(x, ch, g) => \E goal : OnCourse(c, s, goal)
         /\ s = Report(c, ch, g) => \E goal : OnCourse(c, s, goal)
<1>1. /\ c \in Contents
      /\ Offline \in Contents /\ Listed(Offline)
      /\ \A k \in Connections : SetConnection(c, k) \in Contents /\ Listed(SetConnection(c, k))
      /\ \A k \in Connections : SetConnection(Offline, k) \in Contents
      /\ "connected" \in Connections /\ "disconnected" \in Connections
  <2>1. c \in Contents /\ Offline \in Contents /\ Listed(Offline)
    BY ContentsKept, ListedKept DEF Listed
  <2>2. \A k \in Connections : /\ SetConnection(c, k) \in Contents
                               /\ SetConnection(Offline, k) \in Contents
                               /\ Listed(SetConnection(c, k))
    BY <2>1, ContentsKept, ListedKept, Zenon
  <2> QED BY <2>1, <2>2 DEF Connections
<1>2. ASSUME NEW d \in Contents, Listed(d), s \in Closing(d) PROVE \E goal : OnCourse(c, s, goal)
  BY <1>1, <1>2, Closings
<1>3. /\ \A x \in Contents : Refresh(x) \in Seq(Steps)
      /\ \A a \in Seq(Steps), b \in Seq(Steps) : a \o b \in Seq(Steps)
      /\ \A m \in Messages : Send(m) \in Seq(SendSteps)
      /\ <<>> \in Seq(SendSteps)
      /\ \A k \in Connections : Announces(k) \in Seq(SendSteps) /\ Connected(k) \in Seq(SendSteps)
  BY SendStepsParts
<1>4. ASSUME NEW d \in Contents, NEW b \in Seq(SendSteps)
      PROVE  /\ (Refresh(d) \o b) \o SendSnapshot(d) \in Closing(d)
             /\ Refresh(d) \o SendSnapshot(d) \in Closing(d)
             /\ \A x \in Contents :
                  ((Refresh(x) \o Refresh(d)) \o b) \o SendSnapshot(d) \in Closing(d)
  <2>1. /\ Refresh(d) \in EndsIn(d)
        /\ \A t \in EndsIn(d), u \in Seq(SendSteps) : t \o u \in EndsIn(d)
        /\ \A a \in Seq(Steps), t \in EndsIn(d) : a \o t \in EndsIn(d)
    BY ScriptEnds
  <2>2. \A x \in Contents : (Refresh(x) \o Refresh(d)) \o b \in EndsIn(d)
    BY <1>3, <2>1
  <2> QED BY <2>1, <2>2, Closings
<1>5. ASSUME NEW server \in Servers, NEW k \in Connections,
             OnConnectStatusChanged(server, k, ch, g)
      PROVE  \E goal : OnCourse(c, s, goal)
  <2>1. PICK x : x = SetConnection(c, k)
    OBVIOUS
  <2>2. x \in Contents /\ Listed(x) /\ Announces(k) \in Seq(SendSteps)
    BY <1>1, <1>3, <2>1
  <2>3. CASE k = "connected"
    <3>1. PICK d : d = Resynchronise(x, ch, g)
      OBVIOUS
    <3>2. d \in Contents /\ Listed(d)
      BY <2>2, <3>1, ReportCloses
    <3>3. s = ((Refresh(x) \o Refresh(d)) \o Announces(k)) \o SendSnapshot(d)
      BY <1>5, <2>1, <2>3, <3>1 DEF OnConnectStatusChanged, Does
    <3> QED BY <1>2, <1>4, <2>2, <3>2, <3>3
  <2>4. CASE k # "connected"
    <3>1. s = ((Refresh(x) \o <<>>) \o Announces(k)) \o SendSnapshot(x)
      BY <1>5, <2>1, <2>4 DEF OnConnectStatusChanged, Does
    <3>2. Refresh(x) \o <<>> = Refresh(x)
      BY <1>3, <2>2, ConcatEmptySeq
    <3> QED BY <1>2, <1>4, <2>2, <3>1, <3>2
  <2> QED BY <2>3, <2>4
<1>6. ASSUME NEW server \in Servers, OnCurrentServerChanged(server, ch, g)
      PROVE  \E goal : OnCourse(c, s, goal)
  <2>1. PICK up : up = SetConnection(Offline, "connected")
    OBVIOUS
  <2>2. PICK d : d = Resynchronise(up, ch, g)
    OBVIOUS
  <2>3. up \in Contents
    BY <1>1, <2>1
  <2>4. d \in Contents /\ Listed(d) /\ Resent(up, ch, g) \in Closing(d)
    BY <2>2, <2>3, ReportCloses
  <2>5. s = (Refresh(Offline) \o Refresh(up)) \o Resent(up, ch, g)
    BY <1>6, <2>1 DEF OnCurrentServerChanged, Does
  <2>6. Refresh(Offline) \o Refresh(up) \in Seq(Steps)
    BY <1>1, <1>3, <2>3
  <2>7. s \in Closing(d)
    BY <2>4, <2>5, <2>6, Closings
  <2> QED BY <1>2, <2>4, <2>7
<1>7. ASSUME OnServerStopped PROVE \E goal : OnCourse(c, s, goal)
  <2>1. PICK x : x = SetConnection(c, "disconnected")
    OBVIOUS
  <2>2. s = (Refresh(x) \o Connected("disconnected")) \o SendSnapshot(x)
    BY <1>7, <2>1 DEF OnServerStopped, Does
  <2> QED BY <1>1, <1>2, <1>3, <1>4, <2>1, <2>2
<1>8. ASSUME OnSelfLeft PROVE \E goal : OnCourse(c, s, goal)
  <2>1. s = Refresh(Offline) \o SendSnapshot(Offline)
    BY <1>8 DEF OnSelfLeft, Does
  <2> QED BY <1>1, <1>2, <1>3, <1>4, <2>1
<1>9. ASSUME OnSelfMoved(ch, g) PROVE \E goal : OnCourse(c, s, goal)
  <2>1. PICK d : d = Resynchronise(c, ch, g)
    OBVIOUS
  <2>2. d \in Contents /\ Listed(d)
    BY <1>1, <2>1, ReportCloses
  <2>3. PICK m : m = [type |-> "channel_changed", channel |-> d.channel]
    OBVIOUS
  <2>4. s = (Refresh(d) \o Send(m)) \o SendSnapshot(d)
    BY <1>9, <2>1, <2>3 DEF OnSelfMoved, Does
  <2>5. m \in Messages
    BY <2>2, <2>3 DEF Messages, Contents, Here
  <2> QED BY <1>2, <1>3, <1>4, <2>2, <2>4, <2>5
<1>10. ASSUME OnChannelRefreshed(ch, g) PROVE \E goal : OnCourse(c, s, goal)
  <2>1. PICK d : d = Resynchronise(c, ch, g)
    OBVIOUS
  <2>2. d \in Contents /\ Listed(d) /\ Resent(c, ch, g) \in Closing(d)
    BY <1>1, <2>1, ReportCloses
  <2>3. s = Resent(c, ch, g)
    BY <1>10 DEF OnChannelRefreshed, Does
  <2> QED BY <1>2, <2>2, <2>3
<1>11. ASSUME NEW x \in Contents, NEW a \in Seq(Steps), s = a \o Report(x, ch, g)
       PROVE  \E goal : OnCourse(c, s, goal)
  <2>1. PICK d : d = Resynchronise(x, ch, g)
    OBVIOUS
  <2>2. d \in Contents /\ Listed(d) /\ Report(x, ch, g) \in Closing(d)
    BY <2>1, ReportCloses
  <2>3. s \in Closing(d)
    BY <1>11, <2>2, Closings
  <2> QED BY <1>2, <2>2, <2>3
<1>12. ASSUME s = Report(c, ch, g) PROVE \E goal : OnCourse(c, s, goal)
  <2>1. PICK d : d = Resynchronise(c, ch, g)
    OBVIOUS
  <2>2. d \in Contents /\ Listed(d) /\ Report(c, ch, g) \in Closing(d)
    BY <1>1, <2>1, ReportCloses
  <2> QED BY <1>2, <1>12, <2>2
<1> QED BY <1>5, <1>6, <1>7, <1>8, <1>9, <1>10, <1>11, <1>12

\* The steps that make nothing of a copy of d.
Idle(d) == {x \in SendSteps : \A n \in Nat : Takes(Copy(d), Line(x.msg, n)) = Copy(d)}

\* A script of such leaves a copy what it is.
LEMMA IdleCourse ==
  ASSUME NEW d, Listed(d), NEW t \in Seq(Idle(d))
  PROVE  Brings(Copy(d), t, Copy(d)) /\ OnCourse(d, t, Copy(d))
<1>1. PICK a : a = Copy(d)
  OBVIOUS
<1>2. \A x \in Idle(d) : x.do = "send" /\ \A n \in Nat : Takes(a, Line(x.msg, n)) = a
  BY <1>1 DEF Idle, SendSteps
<1>3. ASSUME NEW s \in Seq(Idle(d)), s # <<>> PROVE Head(s) \in Idle(d) /\ Tail(s) \in Seq(Idle(d))
  BY <1>3, HeadTailProperties
<1> DEFINE Q(b) == {y \in {b} \X Seq(Idle(d)) : TRUE}
<1>4. \A b, e, s : <<e, s>> \in Q(b) <=> e = b /\ s \in Seq(Idle(d))
  OBVIOUS
<1> HIDE DEF Q
<1>5. ASSUME NEW s \in Seq(Idle(d)) PROVE Brings(a, s, a)
  <2>1. PICK R : R = Q(a)
    OBVIOUS
  <2>2. ASSUME NEW e, NEW u, <<e, u>> \in R
        PROVE  /\ u = <<>> => e = a
               /\ u # <<>> /\ Head(u).do = "refresh" => <<e, Tail(u)>> \in R
               /\ u # <<>> /\ Head(u).do = "send" =>
                    \A n \in Nat : <<Takes(e, Line(Head(u).msg, n)), Tail(u)>> \in R
    <3>1. e = a /\ u \in Seq(Idle(d))
      BY <1>4, <2>1, <2>2
    <3>2. u # <<>> => /\ \A n \in Nat : Takes(e, Line(Head(u).msg, n)) = a
                      /\ <<a, Tail(u)>> \in R
      BY <1>2, <1>3, <1>4, <2>1, <3>1
    <3> QED BY <3>1, <3>2
  <2>3. Guides(R, a)
    BY <2>2, Zenon DEF Guides
  <2>4. <<a, s>> \in R
    BY <1>4, <2>1
  <2> QED BY <2>3, <2>4, Zenon DEF Brings
<1>6. OnCourse(d, t, Copy(d))
  <2>1. PICK R : R = Q(d)
    OBVIOUS
  <2>2. ASSUME NEW e, NEW u, <<e, u>> \in R
        PROVE  /\ Brings(Copy(e), u, a)
               /\ u = <<>> => Listed(e)
               /\ u # <<>> /\ Head(u).do = "refresh" => <<Head(u).cache, Tail(u)>> \in R
               /\ u # <<>> /\ Head(u).do = "send" => <<e, Tail(u)>> \in R
    <3>1. e = d /\ u \in Seq(Idle(d))
      BY <1>4, <2>1, <2>2
    <3>2. Brings(Copy(e), u, a) /\ Listed(e)
      BY <1>1, <1>5, <3>1
    <3>3. u # <<>> => Head(u).do = "send" /\ <<d, Tail(u)>> \in R
      BY <1>2, <1>3, <1>4, <2>1, <3>1
    <3> QED BY <3>1, <3>2, <3>3
  <2>3. Covers(R, a)
    BY <2>2, Zenon DEF Covers
  <2>4. <<d, t>> \in R
    BY <1>4, <2>1
  <2> QED BY <1>1, <2>3, <2>4, Zenon DEF OnCourse
<1> QED BY <1>1, <1>5, <1>6

\* A refresh and the message that says what it changed, with what follows.
LEMMA DeltaCourse ==
  ASSUME NEW c, NEW d, Listed(d), NEW m \in Messages,
         \A n \in Nat : Takes(Copy(c), Line(m, n)) = Copy(d),
         \A n \in Nat : Takes(Copy(d), Line(m, n)) = Copy(d),
         NEW t \in Seq(Idle(d))
  PROVE  /\ OnCourse(c, (Refresh(d) \o Send(m)) \o t, Copy(d))
         /\ Refresh(d) \o Send(m) = (Refresh(d) \o Send(m)) \o <<>>
<1>1. PICK r : r = [do |-> "refresh", cache |-> d]
  OBVIOUS
<1>2. PICK x : x = [do |-> "send", msg |-> m]
  OBVIOUS
<1>3. /\ r \in Steps /\ r.do = "refresh" /\ r.cache = d
      /\ x \in Steps /\ x.do = "send" /\ x.msg = m /\ x \in Idle(d)
      /\ t \in Seq(Steps)
  <2>1. d \in Contents
    BY DEF Listed
  <2>2. r \in Steps /\ x \in SendSteps
    BY <1>1, <1>2, <2>1 DEF Steps, SendSteps
  <2>3. x \in Idle(d)
    BY <1>2, <2>2 DEF Idle
  <2>4. Idle(d) \subseteq Steps
    BY DEF Idle, SendSteps
  <2> QED BY <1>1, <1>2, <2>2, <2>3, <2>4 DEF SendSteps
<1>4. PICK u : u = <<x>> \o t
  OBVIOUS
<1>5. /\ u \in Seq(Idle(d)) /\ u \in Seq(Steps)
      /\ u # <<>> /\ Head(u) = x /\ Tail(u) = t
  BY <1>3, <1>4
<1>6. PICK s : s = <<r>> \o u
  OBVIOUS
<1>7. s # <<>> /\ Head(s) = r /\ Tail(s) = u
  BY <1>3, <1>5, <1>6
<1>8. /\ (Refresh(d) \o Send(m)) \o t = s
      /\ Refresh(d) \o Send(m) = (Refresh(d) \o Send(m)) \o <<>>
  <2>1. Refresh(d) = <<r>> /\ Send(m) = <<x>> /\ <<r>> \in Seq(Steps) /\ <<x>> \in Seq(Steps)
    BY <1>1, <1>2, <1>3 DEF Refresh, Send
  <2>2. <<r>> \o <<x>> \in Seq(Steps) /\ (<<r>> \o <<x>>) \o t = <<r>> \o (<<x>> \o t)
    BY <1>3, <2>1, ConcatAssociative, ConcatProperties
  <2> QED BY <1>4, <1>6, <2>1, <2>2, ConcatEmptySeq
<1>9. OnCourse(d, u, Copy(d)) /\ Brings(Copy(d), t, Copy(d))
  BY <1>5, IdleCourse
<1>10. Brings(Copy(c), u, Copy(d))
  <2>1. \A n \in Nat : Takes(Copy(c), Line(Head(u).msg, n)) = Copy(d)
    BY <1>3, <1>5
  <2> QED BY <1>3, <1>5, <1>9, <2>1, BringsFrom, Zenon
<1>11. Brings(Copy(c), s, Copy(d))
  BY <1>3, <1>7, <1>10, BringsFrom, Zenon
<1>12. OnCourse(c, s, Copy(d))
  BY <1>3, <1>7, <1>9, <1>11, CourseFrom, Zenon
<1> QED BY <1>8, <1>12

\* add_user() and user_joined, or the channel read again.
LEMMA JoinCourse ==
  ASSUME NobodyTwice, NEW c, c = cache, Listed(c), NEW p \in Profiles, NEW ch \in SaidChannels,
         NEW g \in Gatherings, NEW s, s = script', OnKnownMovedIn(p, ch, g)
  PROVE  \E goal : OnCourse(c, s, goal)
<1>1. c \in Contents /\ c.users \in Rows /\ p \in UserState
  BY ListedRows, PluginAssumption
<1>2. PICK at : at = ClientRow(c.users, p.cid)
  OBVIOUS
<1>3. CASE at = 0 /\ Len(c.users) < MaxUsers
  <2>1. PICK v : v = Append(c.users, p)
    OBVIOUS
  <2>2. PICK d : d = WithUsers(c, v)
    OBVIOUS
  <2>3. s = Refresh(d) \o Joined(p)
    <3>1. s = Refresh([c EXCEPT !.users = Append(c.users, p)]) \o Joined(p)
      <4>1. cache \in Contents /\ ~(Len(cache.users) >= MaxUsers)
            /\ ClientRow(cache.users, p.cid) = 0
        BY <1>1, <1>2, <1>3, ModelAssumption, LenProperties DEF Rows
      <4>2. script' = Refresh([cache EXCEPT !.users = Append(cache.users, p)]) \o Joined(p)
        BY <4>1 DEF OnKnownMovedIn, Does, Contents
      <4> QED BY <4>2
    <3> QED BY <2>1, <2>2, <3>1, Zenon DEF WithUsers
  <2>4. v \in Rows /\ Listed(d)
    BY <1>2, <1>3, <2>1, <2>2, ListedRowAdded, Zenon DEF WithUsers
  <2>5. PICK m : m = [type |-> "user_joined", user |-> p]
    OBVIOUS
  <2>6. m \in Messages /\ Joined(p) = Send(m)
    BY <1>1, <2>5 DEF Messages, Joined
  <2>7. \A n \in Nat : Takes(Copy(c), Line(m, n)) = Copy(d)
    <3>1. ClientRow(c.users, p.cid) = 0
      BY <1>2, <1>3
    <3> QED BY <1>3, <2>1, <2>2, <2>5, <3>1, RosterLines
  <2>8. \A n \in Nat : Takes(Copy(d), Line(m, n)) = Copy(d)
    <3>1. d.users = v
      BY <1>1, <2>2 DEF Contents, WithUsers
    <3>2. Len(c.users) + 1 \in 1..Len(v) /\ v[Len(c.users) + 1] = p
      BY <1>1, <2>1, AppendProperties, LenProperties DEF Rows
    <3>3. PICK i \in 1..Len(d.users) : d.users[i] = p
      BY <3>1, <3>2
    <3>4. m \in Said(d.users[i]) /\ m.type # "speaking_changed"
      BY <2>5, <3>3 DEF Said
    <3> QED BY <2>4, <3>3, <3>4, RowRepeated
  <2>9. <<>> \in Seq(Idle(d))
    BY EmptySeq
  <2> QED BY <2>3, <2>4, <2>6, <2>7, <2>8, <2>9, DeltaCourse, Zenon
<1>4. CASE at = 0 /\ Len(c.users) >= MaxUsers
  <2>1. s = Report(c, ch, g)
    <3>1. ~(Len(c.users) < MaxUsers)
      BY <1>1, <1>4, ModelAssumption, LenProperties DEF Rows
    <3> QED BY <1>2, <1>4, <3>1 DEF OnKnownMovedIn, Does
  <2> QED BY <2>1, SnapshotCallbacks
<1>5. CASE at # 0
  <2>1. at \in 1..Len(c.users)
    BY <1>1, <1>2, <1>5, RowPlaces
  <2>2. PICK x : x = [c EXCEPT !.users[at] = p]
    OBVIOUS
  <2>3. s = Refresh(x) \o Report(x, ch, g)
    BY <1>2, <1>5, <2>2 DEF OnKnownMovedIn, Does
  <2>4. x \in Contents
    <3>1. x = [c EXCEPT !.users = [c.users EXCEPT ![at] = p]]
      BY <1>1, <2>2 DEF Contents
    <3>2. [c.users EXCEPT ![at] = p] \in Rows
      BY <1>1, <2>1, RowsReplace
    <3> QED BY <1>1, <3>1, <3>2 DEF Contents, Rows
  <2>5. Refresh(x) \in Seq(Steps)
    BY <2>4, SendStepsParts
  <2> QED BY <2>3, <2>4, <2>5, SnapshotCallbacks
<1>6. at = 0 \/ at # 0
  OBVIOUS
<1>7. Len(c.users) < MaxUsers \/ Len(c.users) >= MaxUsers
  BY <1>1, ModelAssumption, LenProperties DEF Rows
<1> QED BY <1>3, <1>4, <1>5, <1>7

\* remove_user() and user_left, or the channel read again.
LEMMA LeaveCourse ==
  ASSUME NobodyTwice, NEW c, c = cache, Listed(c), NEW cid, NEW ch \in SaidChannels,
         NEW g \in Gatherings, NEW s, s = script', OnClientMovedOut(cid, ch, g)
  PROVE  \E goal : OnCourse(c, s, goal)
<1>1. /\ c \in Contents /\ c.users \in Rows /\ Len(c.users) \in Nat
      /\ \A i \in 1..Len(c.users) : /\ c.users[i] \in UserState
                                    /\ FirstRow(c.users, c.users[i].uid) = i
  BY ListedRows
<1>2. PICK at : at = ClientRow(c.users, cid)
  OBVIOUS
<1>3. CASE at = 0
  <2>1. s = Report(c, ch, g)
    BY <1>2, <1>3 DEF OnClientMovedOut, Does
  <2> QED BY <2>1, SnapshotCallbacks
<1>4. CASE at # 0
  <2>1. at \in 1..Len(c.users)
    BY <1>1, <1>2, <1>4, RowPlaces
  <2>2. PICK v : v = RemoveAt(c.users, at)
    OBVIOUS
  <2>3. PICK d : d = WithUsers(c, v)
    OBVIOUS
  <2>4. PICK u : u = c.users[at].uid
    OBVIOUS
  <2>5. s = Refresh(d) \o Left(c.users[at])
    <3>1. s = Refresh([c EXCEPT !.users = RemoveAt(c.users, at)]) \o Left(c.users[at])
      BY <1>1, <1>2, <1>4 DEF OnClientMovedOut, Does, Contents
    <3> QED BY <2>2, <2>3, <3>1, Zenon DEF WithUsers
  <2>6. v \in Rows /\ Listed(d)
    BY <2>1, <2>2, <2>3, ListedRowRemoved, Zenon DEF WithUsers
  <2>7. PICK m : m = [type |-> "user_left", who |-> u]
    OBVIOUS
  <2>8. m \in Messages /\ Left(c.users[at]) = Send(m)
    BY <1>1, <2>1, <2>4, <2>7 DEF Messages, Left, UserState
  <2>9. \A n \in Nat : Takes(Copy(c), Line(m, n)) = Copy(d)
    BY <2>1, <2>2, <2>3, <2>4, <2>7, RosterLines
  <2>10. FirstRow(d.users, u) = 0
    <3>1. d.users = v
      BY <1>1, <2>3 DEF Contents, WithUsers
    <3>2. /\ DOMAIN v = 1..Len(c.users) - 1
          /\ \A j \in 1..Len(c.users) - 1 :
               v[j] = IF j < at THEN c.users[j] ELSE c.users[j + 1]
      BY <1>1, <2>1, <2>2, RemoveRows DEF Rows
    <3>3. ASSUME NEW j \in DOMAIN v PROVE v[j].uid # u
      <4>1. PICK i \in 1..Len(c.users) : i # at /\ v[j] = c.users[i]
        BY <1>1, <2>1, <3>2
      <4> QED BY <1>1, <2>1, <2>4, <4>1
    <3>4. v \in Seq(UserState)
      BY <2>6 DEF Rows
    <3>5. /\ FirstRow(v, u) \in 0..Len(v) /\ Len(v) \in Nat /\ DOMAIN v = 1..Len(v)
          /\ FirstRow(v, u) # 0 => v[FirstRow(v, u)].uid = u
      BY <3>4, FirstRowPlace, LenProperties
    <3> QED BY <3>1, <3>3, <3>5
  <2>11. \A n \in Nat : Takes(Copy(d), Line(m, n)) = Copy(d)
    BY <2>6, <2>7, <2>10, RosterLines
  <2>12. <<>> \in Seq(Idle(d))
    BY EmptySeq
  <2> QED BY <2>5, <2>6, <2>8, <2>9, <2>11, <2>12, DeltaCourse, Zenon
<1> QED BY <1>3, <1>4

\* The plugin's cache with a row replaced.
LEMMA CacheWithRow ==
  ASSUME NEW c \in Contents, NEW at, NEW is
  PROVE  [c EXCEPT !.users[at] = is] = WithUsers(c, WithRow(c.users, at, is))
<1>1. [c EXCEPT !.users[at] = is] = [c EXCEPT !.users = [c.users EXCEPT ![at] = is]]
  BY DEF Contents
<1> QED BY <1>1, Zenon DEF WithUsers, WithRow

\* A row that is replaced is there ...
LEMMA RowSwapped ==
  ASSUME NobodyTwice, NEW c, Listed(c), NEW at \in 1..Len(c.users), NEW is \in UserState,
         is.uid = c.users[at].uid, is.cid = c.users[at].cid
  PROVE  \A d : d = WithUsers(c, WithRow(c.users, at, is)) =>
           Listed(d) /\ at \in 1..Len(d.users) /\ d.users[at] = is
<1>1. c \in Contents /\ c.users \in Seq(UserState) /\ DOMAIN c.users = 1..Len(c.users)
  BY ListedRows DEF Contents
<1>2. PICK v : v = [c.users EXCEPT ![at] = is]
  OBVIOUS
<1>3. PICK e : e = [c EXCEPT !.users = v]
  OBVIOUS
<1>4. e.users = v
  BY <1>1, <1>3 DEF Contents
<1>5. at \in 1..Len(e.users) /\ e.users[at] = is
  BY <1>1, <1>2, <1>4
<1>6. Listed(e)
  BY <1>2, <1>3, ListedRowKept, Zenon
<1>7. e = WithUsers(c, WithRow(c.users, at, is))
  BY <1>2, <1>3, Zenon DEF WithUsers, WithRow
<1> QED BY <1>5, <1>6, <1>7, Zenon

\* ... and what it says can be said again.
LEMMA SaidAgain ==
  ASSUME NobodyTwice, NEW d, Listed(d), NEW at \in 1..Len(d.users),
         NEW m \in Said(d.users[at]),
         m.type = "speaking_changed" => (d.users[at].whispering => d.users[at].talking)
  PROVE  /\ m \in Messages /\ Send(m) \in Seq(Idle(d))
         /\ \A n \in Nat : Takes(Copy(d), Line(m, n)) = Copy(d)
<1>1. d.users[at] \in UserState
  BY ListedRows
<1>2. m \in Messages
  BY <1>1 DEF Said, Messages, UserState
<1>3. \A n \in Nat : Takes(Copy(d), Line(m, n)) = Copy(d)
  BY RowRepeated
<1>4. PICK x : x = [do |-> "send", msg |-> m]
  OBVIOUS
<1>5. x \in Idle(d)
  BY <1>2, <1>3, <1>4 DEF Idle, SendSteps, Steps
<1>6. Send(m) = <<x>>
  BY <1>4 DEF Send
<1> QED BY <1>2, <1>3, <1>5, <1>6

\* A line about a row, and two more that say nothing new.
LEMMA SaidCourse ==
  ASSUME NEW c, NEW d, Listed(d), NEW m \in Messages,
         \A n \in Nat : Takes(Copy(c), Line(m, n)) = Copy(d),
         \A n \in Nat : Takes(Copy(d), Line(m, n)) = Copy(d),
         NEW t \in Seq(Idle(d)), NEW u \in Seq(Idle(d))
  PROVE  /\ OnCourse(c, (Refresh(d) \o Send(m)) \o t, Copy(d))
         /\ OnCourse(c, ((Refresh(d) \o Send(m)) \o t) \o u, Copy(d))
<1>1. t \o u \in Seq(Idle(d))
  BY ConcatProperties
<1>2. OnCourse(c, (Refresh(d) \o Send(m)) \o t, Copy(d))
  BY DeltaCourse, Zenon
<1>3. OnCourse(c, (Refresh(d) \o Send(m)) \o (t \o u), Copy(d))
  BY <1>1, DeltaCourse, Zenon
<1>4. ((Refresh(d) \o Send(m)) \o t) \o u = (Refresh(d) \o Send(m)) \o (t \o u)
  <2>1. PICK r \in Seq(Steps) : r = Refresh(d)
    BY SendStepsParts DEF Listed
  <2>2. PICK x \in Seq(Steps) : x = Send(m)
    <3>1. Send(m) \in Seq(SendSteps)
      BY SendStepsParts
    <3>2. SendSteps \subseteq Steps
      BY DEF SendSteps
    <3> QED BY <3>1, <3>2
  <2>3. t \in Seq(Steps) /\ u \in Seq(Steps)
    BY DEF Idle, SendSteps
  <2>4. r \o x \in Seq(Steps)
    BY ConcatProperties
  <2>5. ((r \o x) \o t) \o u = (r \o x) \o (t \o u)
    BY <2>3, <2>4, ConcatAssociative
  <2> QED BY <2>1, <2>2, <2>5, Zenon
<1> QED BY <1>2, <1>3, <1>4, Zenon

\* What is only said if it is so.
LEMMA MaybeSaid ==
  ASSUME NEW S, NEW b, NEW s \in Seq(S)
  PROVE  (IF b THEN s ELSE <<>>) \in Seq(S)
  OBVIOUS

\* set_talking(), speaking_changed, and whisper_changed if that changed too.
LEMMA TalkScript ==
  ASSUME NobodyTwice, Listed(cache), NEW at \in DOMAIN cache.users,
         NEW talking \in BOOLEAN, NEW received \in BOOLEAN,
         OnTalkStatusChanged(at, talking, received)
  PROVE  \E goal : OnCourse(cache, script', goal)
<1>1. cache \in Contents /\ at \in 1..Len(cache.users) /\ cache.users[at] \in UserState
  BY ListedRows
<1>2. PICK w \in BOOLEAN : w = (talking /\ received)
  OBVIOUS
<1>3. PICK was : was = cache.users[at]
  OBVIOUS
<1>4. PICK is : is = [was EXCEPT !.talking = talking, !.whispering = talking /\ received]
  OBVIOUS
<1>5. is = Spoken(cache.users[at], talking, w)
  <2>1. PICK v : v = (talking /\ received)
    OBVIOUS
  <2>2. v = w
    BY <1>2, <2>1
  <2> QED BY <1>3, <1>4, <2>1, <2>2, Zenon DEF Spoken
<1>6. PICK d : d = [cache EXCEPT !.users[at] = is]
  OBVIOUS
<1>7. d = WithUsers(cache, WithRow(cache.users, at, is))
  BY <1>1, <1>6, CacheWithRow
<1>8. /\ is \in UserState /\ is.uid = cache.users[at].uid /\ is.cid = cache.users[at].cid
      /\ is.talking = talking /\ is.whispering = w /\ (w => talking)
  BY <1>1, <1>2, <1>5 DEF Spoken, UserState
<1>9. Listed(d) /\ at \in 1..Len(d.users) /\ d.users[at] = is
  BY <1>1, <1>7, <1>8, RowSwapped
<1>10. PICK m : m = [type |-> "speaking_changed", who |-> is.uid, talking |-> talking,
                     whisper |-> is.whispering]
  OBVIOUS
<1>11. PICK k : k = [type |-> "whisper_changed", who |-> is.uid, active |-> is.whispering]
  OBVIOUS
<1>12. m \in Said(is) /\ k \in Said(is) /\ k.type # "speaking_changed"
  BY <1>8, <1>10, <1>11 DEF Said
<1>13. \A n \in Nat : Takes(Copy(cache), Line(m, n)) = Copy(d)
  BY <1>1, <1>5, <1>7, <1>8, <1>10, RowSpoken
<1>14. m \in Messages /\ \A n \in Nat : Takes(Copy(d), Line(m, n)) = Copy(d)
  BY <1>8, <1>9, <1>12, SaidAgain
<1>15. Send(k) \in Seq(Idle(d))
  BY <1>9, <1>12, SaidAgain
<1>16. PICK t : t = IF was.whispering # is.whispering THEN Send(k) ELSE <<>>
  OBVIOUS
<1>17. t \in Seq(Idle(d))
  BY <1>15, <1>16, MaybeSaid, Zenon
<1>18. OnCourse(cache, (Refresh(d) \o Send(m)) \o t, Copy(d))
  BY <1>9, <1>13, <1>14, <1>17, SaidCourse, Zenon
<1>19. script' = (Refresh([cache EXCEPT !.users[at] = is])
                    \o Send([type |-> "speaking_changed", who |-> is.uid, talking |-> talking,
                             whisper |-> is.whispering]))
                    \o (IF was.whispering # is.whispering
                         THEN Send([type |-> "whisper_changed", who |-> is.uid,
                                    active |-> is.whispering])
                         ELSE <<>>)
  BY <1>3, <1>4 DEF OnTalkStatusChanged, Does
<1>20. script' = (Refresh(d) \o Send(m)) \o t
  BY <1>6, <1>10, <1>11, <1>16, <1>19, Zenon
<1> QED BY <1>18, <1>20, Zenon

\* update_user(), user_updated, and what else has changed.
LEMMA UpdateCourse ==
  ASSUME NobodyTwice, NEW c, Listed(c), NEW at \in 1..Len(c.users), NEW is \in UserState,
         is.uid = c.users[at].uid, is.cid = c.users[at].cid,
         is.talking = c.users[at].talking, is.whispering = c.users[at].whispering,
         NEW b, NEW e
  PROVE  \A d : d = WithUsers(c, WithRow(c.users, at, is)) =>
           \E goal : OnCourse(c,
             ((Refresh(d) \o Send([type |-> "user_updated", user |-> is]))
                \o (IF b THEN Send([type |-> "commander_changed", who |-> is.uid,
                                    commander |-> is.commander]) ELSE <<>>))
                \o (IF e THEN Send([type |-> "mute_changed", who |-> is.uid,
                                    muted |-> is.muted]) ELSE <<>>), goal)
<1>1. PICK d : d = WithUsers(c, WithRow(c.users, at, is))
  OBVIOUS
<1>2. Listed(d) /\ at \in 1..Len(d.users) /\ d.users[at] = is
  BY <1>1, RowSwapped
<1>3. PICK m : m = [type |-> "user_updated", user |-> is]
  OBVIOUS
<1>4. PICK k : k = [type |-> "commander_changed", who |-> is.uid, commander |-> is.commander]
  OBVIOUS
<1>5. PICK j : j = [type |-> "mute_changed", who |-> is.uid, muted |-> is.muted]
  OBVIOUS
<1>6. /\ m \in Said(is) /\ k \in Said(is) /\ j \in Said(is)
      /\ m.type # "speaking_changed" /\ k.type # "speaking_changed"
      /\ j.type # "speaking_changed"
  BY <1>3, <1>4, <1>5 DEF Said
<1>7. \A n \in Nat : Takes(Copy(c), Line(m, n)) = Copy(d)
  BY <1>1, <1>3, RowUpdated
<1>8. m \in Messages /\ \A n \in Nat : Takes(Copy(d), Line(m, n)) = Copy(d)
  BY <1>2, <1>6, SaidAgain
<1>9. Send(k) \in Seq(Idle(d)) /\ Send(j) \in Seq(Idle(d))
  BY <1>2, <1>6, SaidAgain
<1>10. PICK t : t = IF b THEN Send(k) ELSE <<>>
  OBVIOUS
<1>11. PICK u : u = IF e THEN Send(j) ELSE <<>>
  OBVIOUS
<1>12. t \in Seq(Idle(d)) /\ u \in Seq(Idle(d))
  BY <1>9, <1>10, <1>11, MaybeSaid, Zenon
<1>13. OnCourse(c, ((Refresh(d) \o Send(m)) \o t) \o u, Copy(d))
  BY <1>2, <1>7, <1>8, <1>12, SaidCourse, Zenon
<1> QED BY <1>1, <1>3, <1>4, <1>5, <1>10, <1>11, <1>13, Zenon

\* on_client_updated().
LEMMA UpdateScript ==
  ASSUME NobodyTwice, Listed(cache), ClientUpdated
  PROVE  \E goal : OnCourse(cache, script', goal)
<1>1. PICK p \in Profiles :
        LET at  == ClientRow(cache.users, p.cid)
            was == cache.users[at]
            is  == [p EXCEPT !.talking = was.talking, !.whispering = was.whispering]
        IN  /\ at # 0
            /\ was.commander # is.commander \/ was.muted # is.muted
            /\ Does(Refresh([cache EXCEPT !.users[at] = is])
                      \o Send([type |-> "user_updated", user |-> is])
                      \o (IF was.commander # is.commander
                           THEN Send([type |-> "commander_changed", who |-> is.uid,
                                      commander |-> is.commander]) ELSE <<>>)
                      \o (IF was.muted # is.muted
                           THEN Send([type |-> "mute_changed", who |-> is.uid,
                                      muted |-> is.muted]) ELSE <<>>))
  BY Zenon DEF ClientUpdated
<1>2. PICK at : at = ClientRow(cache.users, p.cid)
  OBVIOUS
<1>3. PICK was : was = cache.users[at]
  OBVIOUS
<1>4. PICK is : is = [p EXCEPT !.talking = was.talking, !.whispering = was.whispering]
  OBVIOUS
<1>5. PICK d : d = [cache EXCEPT !.users[at] = is]
  OBVIOUS
<1>6. PICK b : b = (was.commander # is.commander)
  OBVIOUS
<1>7. PICK e : e = (was.muted # is.muted)
  OBVIOUS
<1>8. /\ at # 0
      /\ Does(((Refresh([cache EXCEPT !.users[at] = is])
                 \o Send([type |-> "user_updated", user |-> is]))
                 \o (IF was.commander # is.commander
                      THEN Send([type |-> "commander_changed", who |-> is.uid,
                                 commander |-> is.commander]) ELSE <<>>))
                 \o (IF was.muted # is.muted
                      THEN Send([type |-> "mute_changed", who |-> is.uid,
                                 muted |-> is.muted]) ELSE <<>>))
  BY <1>1, <1>2, <1>3, <1>4
<1>9. Does(((Refresh(d) \o Send([type |-> "user_updated", user |-> is]))
              \o (IF b THEN Send([type |-> "commander_changed", who |-> is.uid,
                                  commander |-> is.commander]) ELSE <<>>))
              \o (IF e THEN Send([type |-> "mute_changed", who |-> is.uid,
                                  muted |-> is.muted]) ELSE <<>>))
  BY <1>5, <1>6, <1>7, <1>8, Zenon
<1>10. /\ cache \in Contents /\ at \in 1..Len(cache.users) /\ was \in UserState
       /\ was.cid = p.cid
  <2>1. cache \in Contents
    BY DEF Listed
  <2>2. at \in 0..Len(cache.users) /\ (at # 0 => cache.users[at].cid = p.cid)
    BY <1>2, <2>1, RowPlaces
  <2>3. at \in 1..Len(cache.users)
    BY <1>8, <2>2, ListedRows
  <2> QED BY <1>3, <2>1, <2>2, <2>3, ListedRows
<1>11. was.uid = p.uid
  <2>1. PICK q \in Profiles : q.uid = was.uid /\ q.cid = was.cid
    BY <1>3, <1>10, ListedRows DEF Listed
  <2> QED BY <1>10, <2>1 DEF NobodyTwice
<1>12. /\ is \in UserState /\ is.uid = was.uid /\ is.cid = was.cid
       /\ is.talking = was.talking /\ is.whispering = was.whispering
  <2>1. p \in UserState
    BY PluginAssumption
  <2> QED BY <1>4, <1>10, <1>11, <2>1 DEF UserState
<1>13. d = WithUsers(cache, WithRow(cache.users, at, is))
  BY <1>5, <1>10, CacheWithRow
<1> QED BY <1>3, <1>9, <1>10, <1>12, <1>13, UpdateCourse, Zenon DEF Does

\* A whisper of somebody who is on no roster.
LEMMA WhisperCourse ==
  ASSUME NobodyTwice, NEW c, c = cache, Listed(c), NEW s, s = script', WhisperFromElsewhere
  PROVE  \E goal : OnCourse(c, s, goal)
<1>1. PICK p \in Profiles :
        /\ ClientRow(c.users, p.cid) = 0
        /\ s = Send([type |-> "whisper_changed", who |-> p.uid, active |-> TRUE])
  BY Zenon DEF WhisperFromElsewhere, Does
<1>2. PICK m : m = [type |-> "whisper_changed", who |-> p.uid, active |-> TRUE]
  OBVIOUS
<1>3. m \in Messages
  <2>1. p \in UserState
    BY PluginAssumption
  <2> QED BY <1>2, <2>1 DEF Messages, UserState
<1>4. \A n \in Nat : Takes(Copy(c), Line(m, n)) = Copy(c)
  BY <1>1, <1>2, RosterLines
<1>5. PICK x : x = [do |-> "send", msg |-> m]
  OBVIOUS
<1>6. x \in Idle(c) /\ s = <<x>>
  BY <1>1, <1>2, <1>3, <1>4, <1>5 DEF Idle, SendSteps, Steps, Send
<1>7. s \in Seq(Idle(c))
  BY <1>6
<1> QED BY <1>7, IdleCourse, Zenon

\* Every callback begins such a script.
LEMMA CallbackCourse ==
  ASSUME NobodyTwice, Listed(cache), Callback
  PROVE  \E goal : OnCourse(cache, script', goal)
<1>1. PICK c : c = cache
  OBVIOUS
<1>2. PICK s : s = script'
  OBVIOUS
<1>3. Listed(c)
  BY <1>1
<1> SUFFICES \E goal : OnCourse(c, s, goal)
  BY <1>1, <1>2, Zenon
<1>4. CASE ConnectStatusChanged
  BY <1>1, <1>2, <1>3, <1>4, SnapshotCallbacks DEF ConnectStatusChanged, Answers
<1>5. CASE CurrentServerChanged
  BY <1>1, <1>2, <1>3, <1>5, SnapshotCallbacks DEF CurrentServerChanged, Answers
<1>6. ASSUME NEW ch \in SaidChannels, NEW g \in Gatherings,
             \/ OnServerStopped \/ OnSelfLeft \/ OnSelfMoved(ch, g) \/ OnChannelRefreshed(ch, g)
             \/ OnUnknownMovedIn(ch, g)
             \/ \E p \in Profiles : OnKnownMovedIn(p, ch, g)
             \/ \E cid \in ClientIds : OnClientMovedOut(cid, ch, g)
      PROVE  \E goal : OnCourse(c, s, goal)
  <2>1. CASE OnUnknownMovedIn(ch, g)
    <3>1. s = Report(c, ch, g)
      BY <1>1, <1>2, <2>1 DEF OnUnknownMovedIn, Does
    <3> QED BY <1>1, <1>2, <1>3, <3>1, SnapshotCallbacks
  <2>2. CASE OnServerStopped \/ OnSelfLeft \/ OnSelfMoved(ch, g) \/ OnChannelRefreshed(ch, g)
    BY <1>1, <1>2, <1>3, <2>2, SnapshotCallbacks
  <2>3. CASE \E p \in Profiles : OnKnownMovedIn(p, ch, g)
    BY <1>1, <1>2, <1>3, <2>3, JoinCourse
  <2>4. CASE \E cid \in ClientIds : OnClientMovedOut(cid, ch, g)
    BY <1>1, <1>2, <1>3, <2>4, LeaveCourse
  <2> QED BY <1>6, <2>1, <2>2, <2>3, <2>4
<1>7. NoChannel \in SaidChannels /\ <<>> \in Gatherings
  BY ModelAssumption DEF Here, SaidChannels, Gatherings, SeqOf
<1>8. CASE ServerStopped \/ SelfLeft
  BY <1>6, <1>7, <1>8 DEF ServerStopped, SelfLeft
<1>9. CASE SelfMoved \/ ChannelRefreshed \/ ClientMovedIn \/ ClientMovedOut
  BY <1>6, <1>9 DEF SelfMoved, ChannelRefreshed, ClientMovedIn, ClientMovedOut, Answers
<1>10. CASE TalkStatusChanged
  <2>1. PICK at \in DOMAIN cache.users, talking \in BOOLEAN, received \in BOOLEAN :
          OnTalkStatusChanged(at, talking, received)
    BY <1>10 DEF TalkStatusChanged
  <2> QED BY <1>1, <1>2, <2>1, TalkScript, Zenon
<1>11. CASE WhisperFromElsewhere
  BY <1>1, <1>2, <1>3, <1>11, WhisperCourse
<1>12. CASE ClientUpdated
  BY <1>1, <1>2, <1>12, UpdateScript, Zenon
<1> QED BY <1>4, <1>5, <1>8, <1>9, <1>10, <1>11, <1>12 DEF Callback

\* Nothing has happened yet, or TeamSpeak is connected and quiet.
LEMMA ListedInit ==
  ASSUME NobodyTwice, PluginInit
  PROVE  Listed(cache)
<1>1. CASE cache = Offline
  <2>1. /\ cache \in Contents /\ cache.users = <<>> /\ Len(cache.users) = 0
        /\ DOMAIN cache.users = {}
    BY <1>1, ContentsKept DEF Offline
  <2> QED BY <2>1, ModelAssumption DEF Listed
<1>2. CASE \E channel \in Channels, g \in Gatherings :
             cache = [users |-> g, channel |-> channel, connection |-> "connected"]
  <2>1. PICK channel \in Channels, g \in Gatherings :
          cache = [users |-> g, channel |-> channel, connection |-> "connected"]
    BY <1>2
  <2>2. cache \in Contents
    BY <2>1, GatheringsAreRosters DEF Contents, Connections
  <2>3. /\ g \in Seq(Profiles) /\ Len(g) <= MaxUsers
        /\ \A i, j \in DOMAIN g : g[i].cid = g[j].cid => i = j
    BY ModelAssumption DEF Gatherings, SeqOf
  <2>4. \A i \in DOMAIN g : g[i] \in Profiles
    BY <2>3
  <2>5. cache.users = g
    BY <2>1
  <2> QED BY <2>2, <2>3, <2>4, <2>5 DEF Listed
<1> QED BY <1>1, <1>2 DEF PluginInit

\* At first nobody is owed anything ...
LEMMA CourseInit == NobodyTwice => (Init => Course)
<1> SUFFICES ASSUME NobodyTwice, Init PROVE Course
  OBVIOUS
<1>1. script = <<>> /\ accept = "waiting"
  BY DEF Init, PluginInit
<1>2. Listed(cache)
  BY ListedInit DEF Init
<1>3. OnCourse(cache, script, Copy(cache))
  BY <1>1, <1>2, CourseFrom
<1> QED BY <1>1, <1>3 DEF Course

\* ... every step keeps the overlay on course ...
LEMMA CourseKept == NobodyTwice => (StreamInv /\ LinesInv /\ Course /\ [Next]_vars => Course')
<1> SUFFICES ASSUME NobodyTwice, StreamInv, LinesInv, Course, [Next]_vars PROVE Course'
  OBVIOUS
<1>1. ASSUME TeamSpeakCalls PROVE \E next : OnCourse(cache, script', next)
  <2>1. script = <<>> /\ Callback
    BY <1>1 DEF TeamSpeakCalls
  <2>2. PICK goal : OnCourse(cache, script, goal)
    BY DEF Course
  <2>3. Listed(cache)
    BY <2>1, <2>2, CourseOn
  <2> QED BY <2>1, <2>3, CallbackCourse
<1> QED BY <1>1, CourseStep

\* ... and once nothing is under way it has arrived.
LEMMA CourseArrives == NobodyTwice => (StreamInv /\ LinesInv /\ Course => ConvergedUnlessMissed)
<1> SUFFICES ASSUME NobodyTwice, StreamInv, LinesInv, Course, Quiet, ~missed PROVE Agrees
  BY DEF ConvergedUnlessMissed
<1>1. /\ accept # "waiting" /\ script = <<>> /\ queue = <<>> /\ wire = <<>>
      /\ requests = <<>> /\ drawn["teamspeak"] = NoLine
  BY DEF Quiet, Threads
<1>2. PICK goal : OnCourse(cache, script, goal) /\ (Pending \/ Catching(goal))
  BY <1>1 DEF Course
<1>3. ~Pending
  BY <1>1 DEF Pending
<1>4. PICK E : E = Ends(script, drawn["teamspeak"], seq, goal)
  OBVIOUS
<1>5. wire \o queue = <<>>
  BY <1>1
<1>6. Delivers(state, track.haveSeq, track.lastSeq, <<>>, E)
  BY <1>2, <1>3, <1>4, <1>5 DEF Catching
<1>7. <<state, track.lastSeq>> \in E
  BY <1>6, DeliversOn
<1>8. Brings(state, <<>>, goal)
  <2>1. <<state, track.lastSeq>> \in Ends(<<>>, NoLine, seq, goal)
    BY <1>1, <1>4, <1>7
  <2>2. Rest(<<>>, NoLine, track.lastSeq) = <<>>
    BY DEF Rest
  <2> QED BY <2>1, <2>2 DEF Ends
<1>9. Listed(cache) /\ Brings(Copy(cache), <<>>, goal)
  BY <1>1, <1>2, CourseOn
<1>10. state = goal /\ Copy(cache) = goal
  BY <1>8, <1>9, BringsOn
<1> QED BY <1>9, <1>10, ListedCopy DEF Agrees

\* The invariant of the whole stream: its lines are numbered and ordered, and
\* the overlay is on course to what the plugin's cache will be.
THEOREM CourseInvariance == NobodyTwice => (Spec => [](LinesInv /\ Course))
<1> SUFFICES ASSUME NobodyTwice PROVE Spec => [](LinesInv /\ Course)
  OBVIOUS
<1>1. Init => StreamInv /\ LinesInv /\ Course
  BY StreamInitInv, LinesInit, CourseInit
<1>2. StreamInv /\ LinesInv /\ Course /\ [Next]_vars => (StreamInv /\ LinesInv /\ Course)'
  BY StreamStepInv, LinesStep, CourseKept
<1> QED BY <1>1, <1>2, PTL DEF Spec

\* Whatever was reordered, dropped or thrown away with a backlog on the way,
\* once nothing is under way the overlay shows the plugin's state, unless a
\* broadcast fell between the greeting and the registration.
THEOREM StreamConverges == NobodyTwice => (Spec => []ConvergedUnlessMissed)
<1> SUFFICES ASSUME NobodyTwice PROVE Spec => []ConvergedUnlessMissed
  OBVIOUS
<1>1. StreamInv /\ LinesInv /\ Course => ConvergedUnlessMissed
  BY CourseArrives
<1> QED BY <1>1, CourseInvariance, StreamInvariance, PTL
=============================================================================
