---------------------------- MODULE StoreSession ----------------------------
(***************************************************************************)
(* The overlay's IPC thread and its StateStore against any peer: the body  *)
(* of OverlayClient::session's loop applies each line the peer sends, in   *)
(* whatever order and with whatever sequence numbers it chooses, ticks the *)
(* store after a read, and disconnects the store when the session ends.    *)
(***************************************************************************)
EXTENDS StateStore

CONSTANTS Users,           \* the rows a message may carry
          Rosters,         \* the lists of rows a snapshot may carry
          Texts,           \* chat lines
          Skews,           \* by how much a line's time may lie behind our clock
          MaxSeq,          \* bound on sequence numbers
          MaxTime          \* bound on the clock

ASSUME SessionAssumption ==
  /\ MaxSeq \in Nat /\ MaxTime \in Nat \ {0}
  /\ Users \subseteq UserState /\ Rosters \subseteq Seq(UserState)
  /\ Skews \subseteq Nat

VARIABLES now,             \* now_ms(): the overlay's clock
          phase,           \* "reading", or "leaving" once a line was fatal
          took,            \* history: the type just accepted, or "none"
          heardAt,         \* history: when a message was last accepted
          asks             \* history: stale requests made since then

peerVars == <<storeVars, now, phase, took, heardAt, asks>>

\* Everything the peer may send, its number aside: the payloads that decode,
\* and one that does not for every type.
Bodies ==
  [type : {"hello"}, versionOk : BOOLEAN]
  \cup [type : {"state_snapshot"}, channel : Channels \cup {NoChannel},
        connection : {"connected", "disconnected"},
        users : Rosters]
  \cup [type : {"connection_changed"}, connection : Connections]
  \cup [type : {"channel_changed"}, channel : Channels]
  \cup [type : {"user_joined", "user_updated"}, user : Users]
  \cup [type : {"user_left"}, who : Uids]
  \cup [type : {"speaking_changed"}, who : Uids, talking : BOOLEAN, whisper : BOOLEAN]
  \cup [type : {"mute_changed"}, who : Uids, muted : Flags]
  \cup [type : {"commander_changed"}, who : Uids, commander : BOOLEAN]
  \cup [type : {"whisper_changed"}, who : Uids, active : BOOLEAN]
  \cup [type : {"chat_message"}, text : Texts]
  \cup [type : {"error"}, fatal : BOOLEAN]
  \cup [type : {"heartbeat", "ping"}]

Types == {b.type : b \in Bodies}

Lines(seq, ts) ==
  {MakeLine(b, seq, ts) : b \in Bodies}
    \cup {[seq |-> seq, ts |-> ts, good |-> FALSE, type |-> t] : t \in Types}

SessionInit ==
  /\ StoreInit
  /\ now = 1 /\ phase = "reading" /\ took = "none" /\ heardAt = 0 /\ asks = 0

\* One line read from the pipe, applied.
Receive ==
  /\ phase = "reading"
  /\ \E seq \in 0..MaxSeq, skew \in Skews :
       \E m \in Lines(seq, IF now > skew THEN now - skew ELSE 1) :
           /\ Apply(m)
           /\ LET accepted == m.type \notin ClientToServer /\ ~IsOld(m)
              IN  /\ took' = IF accepted THEN m.type ELSE "none"
                  /\ heardAt' = IF accepted THEN now ELSE heardAt
                  /\ asks' = IF accepted THEN 0 ELSE asks
  /\ phase' = IF reply' = "Disconnect" THEN "leaving" ELSE "reading"
  /\ UNCHANGED now

\* The tick after the lines of one read.
TickStore ==
  /\ Tick(now)
  /\ asks' = IF reply' = "RequestSnapshot" THEN asks + 1 ELSE asks
  /\ took' = "none"
  /\ UNCHANGED <<now, phase, heardAt>>

\* The session ends: fatal line, failed read, or a requested reconnect.
EndSession ==
  /\ OnDisconnected
  /\ phase' = "reading"
  /\ took' = "none"
  /\ UNCHANGED <<now, heardAt, asks>>

Pass ==
  /\ now < MaxTime
  /\ now' = now + 1
  /\ took' = "none"
  /\ UNCHANGED <<storeVars, phase, heardAt, asks>>

SessionNext == Receive \/ TickStore \/ EndSession \/ Pass

SessionSpec == SessionInit /\ [][SessionNext]_peerVars

-----------------------------------------------------------------------------
(* Properties. *)

SessionTypeOK ==
  /\ state.users \in Seq(UserState)
  /\ state.channel \in Channels \cup {NoChannel}
  /\ state.connection \in Connections
  /\ state.synchronised \in BOOLEAN /\ state.stale \in BOOLEAN
  /\ state.lastEvent \in 0..MaxTime
  /\ track \in [handshaken : BOOLEAN, haveSeq : BOOLEAN, lastSeq : 0..MaxSeq,
                staleReported : BOOLEAN]
  /\ chat \in Seq(Texts) /\ Len(chat) <= ChatHistory
  /\ reply \in Replies
  /\ phase \in {"reading", "leaving"}

\* No sequence of joins, updates and snapshots lists more users than a
\* snapshot may carry.
RosterWithinLimit == Len(state.users) <= MaxUsers

\* A message that skips a number is never taken in silence: the store asks
\* for a snapshot or gives up the connection, whatever the message was and
\* whether or not its payload decodes.  (Hello starts a new sequence.)
GapAsks ==
  [][(took' \notin {"none", "hello"} /\ track.haveSeq
        /\ track'.lastSeq > track.lastSeq + 1) => reply' # "None"]_peerVars

\* Once the handshake is over the list is marked stale only after a silence
\* of StaleAfter, short by no more than a line's time may lie behind our clock.
StaleMeansSilent ==
  (track.handshaken /\ state.stale) =>
    \E skew \in Skews : now + skew > heardAt + StaleAfter

\* One silence, one request: while the list is stale exactly one snapshot
\* has been asked for since the peer was last heard.
OneRequestPerSilence ==
  /\ asks <= 1
  /\ (track.handshaken /\ state.stale) => asks = 1
=============================================================================
