---------------------------- MODULE OverlayModel ----------------------------
(***************************************************************************)
(* The data model the plugin and the overlay share (model.hpp): what a     *)
(* user row, a roster and a snapshot are.  Both ends keep the users of the *)
(* current channel as a sequence of rows.                                  *)
(***************************************************************************)
EXTENDS Naturals, Sequences, FiniteSets, SequencesExt

CONSTANTS Uids,            \* unique identifiers: who somebody is
          ClientIds,       \* client ids: one per connection to TeamSpeak
          Channels,        \* channel ids
          NoChannel,       \* the invalid channel (ChannelState{})
          MaxUsers         \* kMaxUsersPerSnapshot

ASSUME ModelAssumption == NoChannel \notin Channels /\ MaxUsers \in Nat

Connections == {"disconnected", "connecting", "connected"}
Flags       == {"on", "off", "unknown"}          \* optional<bool>
UserState   == [uid : Uids, cid : ClientIds, talking : BOOLEAN, whispering : BOOLEAN,
                commander : BOOLEAN, muted : Flags]

\* What a snapshot says; an OverlayState holds these and more.
Contents == [users : Seq(UserState), channel : Channels \cup {NoChannel},
             connection : Connections]

\* The first row of one identity, and of one connection; 0 if there is none.
FirstRow(users, u)  == SelectInSeq(users, LAMBDA r : r.uid = u)
ClientRow(users, c) == SelectInSeq(users, LAMBDA r : r.cid = c)

\* make_line(): a message in its envelope; "good" says that it decodes.
MakeLine(m, seq, ts) ==
  [f \in DOMAIN m \cup {"seq", "ts", "good"} |->
     CASE f = "seq" -> seq [] f = "ts" -> ts [] f = "good" -> TRUE [] OTHER -> m[f]]
=============================================================================
