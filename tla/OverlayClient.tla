---------------------------- MODULE OverlayClient ----------------------------
(***************************************************************************)
(* The overlay's link to the plugin (overlay_client.cpp): the IPC thread's *)
(* run() and session() against the calls the add-on makes on the game's    *)
(* thread, and against a plugin that may be absent, close the connection,  *)
(* fall silent without closing it, or be spoken to while all of that       *)
(* happens.                                                                *)
(*                                                                         *)
(* Every lock, atomic access, read and write of the connection is a step.  *)
(* What the StateStore makes of a line is reduced to what this thread acts *)
(* on: whether the list on show is there, how fresh it is, and whether the *)
(* line asks for a snapshot or ends the session.  A read that returns      *)
(* several lines is taken as several reads of one.  The connection is the  *)
(* pipe of the shipping build (transport_win32.cpp): what is written fits  *)
(* its buffer, and its destructor waits until the peer has read it all.    *)
(***************************************************************************)
EXTENDS Naturals, Sequences

CONSTANTS Endpoints,       \* pipe names
          Subscriptions,   \* chat subscriptions
          Undeclared,      \* what a plugin has before configuration_updated
          MaxCalls,        \* bound on the add-on's calls
          MaxLines         \* bound on the lines of one connection

ASSUME ClientAssumption == /\ Undeclared \notin Subscriptions
                           /\ MaxCalls \in Nat /\ MaxLines \in Nat

VARIABLES running,         \* running_
          reconnect,       \* reconnect_requested_
          endpoint,        \* endpoint_
          subscription,    \* subscription_
          dirty,           \* subscription_dirty_
          slipped,         \* history: subscription_ changed between the read
                           \* that was declared and the clearing of its mark
          active,          \* active_connection_ is not null
          at,              \* where the IPC thread is
          target,          \* the endpoint run() read
          local,           \* the subscription session() read
          fatal,           \* session()'s `disconnect`
          conn,            \* the connection object and its peer
          list,            \* store_'s user list: "none", "live" or "stale"
          handshaken,      \* store_.handshaken()
          overdue,         \* stale_after_ms have passed since the last line
          frame,           \* the published frame: [link, list]
          host,            \* the add-on's call in progress
          calls            \* calls made so far

shared == <<running, reconnect, endpoint, subscription, slipped, dirty, active>>
thread == <<at, target, local, fatal>>
store  == <<list, handshaken, overdue>>
options == <<endpoint, subscription, slipped>>
locals == <<target, local, fatal>>
linkVars == <<conn, store, frame>>
vars   == <<shared, thread, conn, store, frame, host, calls>>

LineKinds == {"hello", "event", "gap", "noise", "fatal"}
Session   == {"hello", "subscribe", "declare", "declared", "loop", "read",
              "flush", "reread", "resend", "ping", "publish"}
Places    == Session \cup {"off", "top", "connect", "backoff", "opened", "teardown",
                           "closing", "closed", "after", "ending"}
Links     == {"Idle", "Connecting", "Backoff", "Handshaking", "Connected"}

\* `unread`: the plugin has not read all that was written to it.
NoConn == [open |-> FALSE, cancelled |-> FALSE, gone |-> FALSE, unread |-> FALSE,
           inbox |-> <<>>, lines |-> 0, got |-> Undeclared]

Init ==
  /\ running = FALSE /\ reconnect = FALSE
  /\ endpoint \in Endpoints /\ subscription \in Subscriptions
  /\ dirty = FALSE /\ slipped = FALSE /\ active = FALSE
  /\ at = "off" /\ target = endpoint /\ local = subscription /\ fatal = FALSE
  /\ conn = NoConn
  /\ list = "none" /\ handshaken = FALSE /\ overdue = FALSE
  /\ frame = [link |-> "Idle", list |-> "none"]
  /\ host = "idle" /\ calls = 0

-----------------------------------------------------------------------------
(* The add-on's calls. *)

Calls == host = "idle" /\ calls < MaxCalls /\ calls' = calls + 1

CancelsNothing == conn                             \* mutant: cancel() forgotten
\* active_connection_->cancel(), under config_mutex_; it cannot be undone.
Cancelled == IF active THEN [conn EXCEPT !.cancelled = TRUE] ELSE conn

Start ==
  /\ Calls /\ ~running
  /\ running' = TRUE
  /\ at' = "top"
  /\ UNCHANGED <<reconnect, options, dirty, active, locals, linkVars, host>>

UpdateSubscription ==
  /\ Calls
  /\ subscription' \in Subscriptions \ {subscription}
  /\ dirty' = TRUE
  /\ slipped' = (at \in {"declare", "declared"})
  /\ UNCHANGED <<running, reconnect, endpoint, active, thread, linkVars, host>>

SetEndpoint ==
  /\ Calls
  /\ endpoint' \in Endpoints \ {endpoint}
  /\ conn' = Cancelled
  /\ host' = "flagging"
  /\ UNCHANGED <<running, reconnect, subscription, slipped, dirty, active, thread, store, frame>>

RequestReconnect ==
  /\ Calls
  /\ host' = "flagging"
  /\ UNCHANGED <<shared, thread, linkVars>>

FlagReconnect ==
  /\ host = "flagging"
  /\ reconnect' = TRUE
  /\ host' = "cancelling"
  /\ UNCHANGED <<running, options, dirty, active, thread, linkVars, calls>>

CancelForReconnect ==
  /\ host = "cancelling"
  /\ conn' = Cancelled
  /\ host' = "idle"
  /\ UNCHANGED <<shared, thread, store, frame, calls>>

Stop ==
  /\ Calls /\ running
  /\ running' = FALSE
  /\ host' = "stopping"
  /\ UNCHANGED <<reconnect, options, dirty, active, thread, linkVars>>

CancelForStop ==
  /\ host = "stopping"
  /\ conn' = Cancelled
  /\ host' = "joining"
  /\ UNCHANGED <<shared, thread, store, frame, calls>>

Join ==
  /\ host = "joining" /\ at = "off"
  /\ host' = "idle"
  /\ UNCHANGED <<shared, thread, linkVars, calls>>

-----------------------------------------------------------------------------
(* The IPC thread: run(). *)

Goto(place) == at' = place
Swapped(link) == frame' = [link |-> list, list |-> link]     \* mutant
Show(link)  == frame' = [link |-> link, list |-> list]
SameCalls   == UNCHANGED <<host, calls>>

Top ==
  /\ at = "top"
  /\ IF running THEN /\ target' = endpoint
                     /\ Show("Connecting")
                     /\ Goto("connect")
     ELSE Goto("ending") /\ UNCHANGED <<target, frame>>
  /\ UNCHANGED <<shared, local, fatal, conn, store>> /\ SameCalls

ConnectFails ==
  /\ at = "connect"
  /\ Show("Backoff")
  /\ Goto("backoff")
  /\ UNCHANGED <<shared, locals, conn, store>> /\ SameCalls

ConnectSucceeds ==
  /\ at = "connect"
  /\ conn' = [NoConn EXCEPT !.open = TRUE]
  /\ Goto("opened")
  /\ UNCHANGED <<shared, locals, store, frame>> /\ SameCalls

\* wait_for() returns: stopped, asked to reconnect, or timed out.
BackoffOver ==
  /\ at = "backoff"
  /\ reconnect' = FALSE
  /\ Goto("top")
  /\ UNCHANGED <<running, options, dirty, active, locals, linkVars>> /\ SameCalls

\* session() has returned; the wait ends when stopped or timed out.
AfterSession ==
  /\ at = "after"
  /\ Goto(IF running THEN "top" ELSE "ending")
  /\ UNCHANGED <<shared, locals, linkVars>> /\ SameCalls

End ==
  /\ at = "ending"
  /\ Show("Idle")
  /\ Goto("off")
  /\ UNCHANGED <<shared, locals, conn, store>> /\ SameCalls

-----------------------------------------------------------------------------
(* The IPC thread: session(). *)

Sendable == ~conn.cancelled /\ ~conn.gone
Sent == [conn EXCEPT !.unread = conn.unread \/ Sendable]

OpenSession ==
  /\ at = "opened"
  /\ active' = TRUE
  /\ Goto("hello")
  /\ UNCHANGED <<running, reconnect, options, dirty, locals, linkVars>> /\ SameCalls

\* Mutant: a failed hello returns without clearing active_connection_.
HelloForgets ==
  /\ at = "hello"
  /\ conn' = Sent
  /\ Goto(IF Sendable THEN "subscribe" ELSE "closed")
  /\ fatal' = FALSE
  /\ UNCHANGED <<shared, target, local, store, frame>> /\ SameCalls

SendHello ==
  /\ at = "hello"
  /\ conn' = Sent
  /\ Goto(IF Sendable THEN "subscribe" ELSE "closing")
  /\ fatal' = FALSE
  /\ UNCHANGED <<shared, target, local, store, frame>> /\ SameCalls

\* Mutant: the update sends what the session was declared with.
ReadOnce ==
  /\ at \in {"subscribe", "reread"}
  /\ local' = (IF at = "subscribe" THEN subscription ELSE local) /\ slipped' = FALSE
  /\ Goto(IF at = "subscribe" THEN "declare" ELSE "resend")
  /\ UNCHANGED <<running, reconnect, endpoint, subscription, dirty, active, target, fatal, linkVars>>
  /\ SameCalls

\* Both the declaration and the update read subscription_ under the lock ...
ReadSubscription ==
  /\ at \in {"subscribe", "reread"}
  /\ local' = subscription /\ slipped' = FALSE
  /\ Goto(IF at = "subscribe" THEN "declare" ELSE "resend")
  /\ UNCHANGED <<running, reconnect, endpoint, subscription, dirty, active, target, fatal, linkVars>>
  /\ SameCalls

\* ... and send what they read after it.
Declare ==
  /\ at = "declare"
  /\ IF Sendable THEN conn' = [Sent EXCEPT !.got = local] /\ Goto("declared")
     ELSE Goto("closing") /\ UNCHANGED conn
  /\ UNCHANGED <<shared, locals, store, frame>> /\ SameCalls

ClearDirty ==
  /\ at = "declared"
  /\ dirty' = FALSE
  /\ Goto("loop")
  /\ UNCHANGED <<running, reconnect, options, active, locals, linkVars>> /\ SameCalls

Loop ==
  /\ at = "loop"
  /\ Goto(IF running /\ ~reconnect THEN "read" ELSE "teardown")
  /\ UNCHANGED <<shared, locals, linkVars>> /\ SameCalls

\* read() fails: cancelled, or the peer is gone and all it sent was read.  A
\* line too long for the framer ends the session without another frame.
ReadFails ==
  /\ at = "read"
  /\ \/ conn.cancelled
     \/ conn.gone /\ conn.inbox = <<>>
     \/ conn.inbox # <<>> /\ Head(conn.inbox) = "fatal"
  /\ Goto("teardown")
  /\ UNCHANGED <<shared, locals, linkVars>> /\ SameCalls

\* tick(), the only place where silence is noticed.
Ticked(l, silent) == IF silent /\ handshaken THEN "stale" ELSE l

\* read() returns: apply() the line, answer it if need be, then tick(), which
\* may ask for a snapshot too.  Noise is what the store does not accept: part
\* of a line, a malformed or a repeated one.
ReadLine ==
  /\ at = "read" /\ ~conn.cancelled /\ conn.inbox # <<>>
  /\ LET kind     == Head(conn.inbox)
         accepted == kind # "noise"
     IN  /\ handshaken' = (handshaken \/ kind = "hello")
         /\ overdue' = (overdue /\ ~accepted)
         /\ list' = IF accepted THEN IF kind \in {"event", "gap"} \/ list # "none"
                                        THEN "live" ELSE "none"
                    ELSE Ticked(list, overdue)
         /\ fatal' = (kind = "fatal" \/ (kind = "gap" /\ ~Sendable))
         /\ \E asks \in IF kind = "gap" THEN {TRUE} ELSE {FALSE, ~accepted /\ overdue /\ handshaken} :
              conn' = [conn EXCEPT !.inbox = Tail(@), !.unread = @ \/ (asks /\ Sendable)]
  /\ Goto("flush")
  /\ UNCHANGED <<shared, target, local, frame>> /\ SameCalls

Flush ==
  /\ at = "flush"
  /\ dirty' = FALSE
  /\ Goto(IF dirty THEN "reread" ELSE "ping")
  /\ UNCHANGED <<running, reconnect, options, active, locals, linkVars>> /\ SameCalls

Resend ==
  /\ at = "resend"
  /\ IF Sendable THEN conn' = [Sent EXCEPT !.got = local] /\ UNCHANGED fatal
     ELSE fatal' = TRUE /\ UNCHANGED conn
  /\ Goto("ping")
  /\ UNCHANGED <<shared, target, local, store, frame>> /\ SameCalls

\* A ping, when one is due and the session is to go on.
Ping ==
  /\ at = "ping"
  /\ \/ UNCHANGED <<fatal, conn>>
     \/ ~fatal /\ fatal' = ~Sendable /\ conn' = Sent
  /\ Goto("publish")
  /\ UNCHANGED <<shared, target, local, store, frame>> /\ SameCalls

Publish ==
  /\ at = "publish"
  /\ Show(IF handshaken THEN "Connected" ELSE "Handshaking")
  /\ Goto(IF fatal THEN "teardown" ELSE "loop")
  /\ UNCHANGED <<shared, locals, conn, store>> /\ SameCalls

\* Mutant: the frame is published before on_disconnected().
PublishThenForget ==
  /\ at = "teardown"
  /\ list' = "none" /\ handshaken' = FALSE
  /\ frame' = [link |-> "Backoff", list |-> list]
  /\ reconnect' = FALSE
  /\ Goto("closing")
  /\ UNCHANGED <<running, options, dirty, active, locals, conn, overdue>> /\ SameCalls

\* on_disconnected(), publish, and the request is served.
Teardown ==
  /\ at = "teardown"
  /\ list' = "none" /\ handshaken' = FALSE
  /\ frame' = [link |-> "Backoff", list |-> list']
  /\ reconnect' = FALSE
  /\ Goto("closing")
  /\ UNCHANGED <<running, options, dirty, active, locals, conn, overdue>> /\ SameCalls

\* ~Clear, on every way out of session() ...
ClearActive ==
  /\ at = "closing"
  /\ active' = FALSE
  /\ Goto("closed")
  /\ UNCHANGED <<running, reconnect, options, dirty, locals, linkVars>> /\ SameCalls

\* ~PipeConnection() flushes the pipe first: it waits until the peer has read
\* what was written or has closed its end, and nothing here can cancel that.
Flushed == conn.unread => conn.gone
Flushing == at = "closed" /\ ~Flushed

\* ... and then the connection itself is destroyed.
Destroy ==
  /\ at = "closed" /\ Flushed
  /\ conn' = NoConn
  /\ Goto("after")
  /\ UNCHANGED <<shared, locals, store, frame>> /\ SameCalls

-----------------------------------------------------------------------------
(* The plugin's end of the connection, and time. *)

PluginSends ==
  /\ conn.open /\ ~conn.gone /\ conn.lines < MaxLines
  /\ \E kind \in LineKinds : conn' = [conn EXCEPT !.inbox = Append(@, kind),
                                                  !.lines = @ + 1]
  /\ UNCHANGED <<shared, thread, store, frame, host, calls>>

PluginReads ==
  /\ conn.open /\ ~conn.gone /\ conn.unread
  /\ conn' = [conn EXCEPT !.unread = FALSE]
  /\ UNCHANGED <<shared, thread, store, frame, host, calls>>

PluginCloses ==
  /\ conn.open /\ ~conn.gone
  /\ conn' = [conn EXCEPT !.gone = TRUE]
  /\ UNCHANGED <<shared, thread, store, frame, host, calls>>

SilenceGrows ==
  /\ list # "none" /\ ~overdue
  /\ overdue' = TRUE
  /\ UNCHANGED <<shared, thread, conn, list, handshaken, frame, host, calls>>

HostCalls     == Start \/ UpdateSubscription \/ SetEndpoint \/ RequestReconnect \/ Stop
HostContinues == FlagReconnect \/ CancelForReconnect \/ CancelForStop \/ Join
IpcThread == \/ Top \/ ConnectFails \/ ConnectSucceeds \/ BackoffOver \/ AfterSession
             \/ End \/ OpenSession \/ SendHello \/ ReadSubscription \/ Declare
             \/ ClearDirty \/ Loop \/ ReadFails \/ ReadLine \/ Flush \/ Resend
             \/ Ping \/ Publish \/ Teardown \/ ClearActive \/ Destroy
World == PluginSends \/ PluginReads \/ PluginCloses \/ SilenceGrows

Next == HostCalls \/ HostContinues \/ IpcThread \/ World

\* The IPC thread runs whenever it is not blocked in a read or in the flush of
\* a connection, and a call once begun goes on.  Nothing is assumed of the
\* plugin or of which calls come.
Fairness == WF_vars(IpcThread) /\ WF_vars(HostContinues)

Spec == Init /\ [][Next]_vars /\ Fairness

-----------------------------------------------------------------------------
(* Properties. *)

TypeOK ==
  /\ running \in BOOLEAN /\ reconnect \in BOOLEAN /\ dirty \in BOOLEAN
  /\ slipped \in BOOLEAN /\ active \in BOOLEAN /\ fatal \in BOOLEAN
  /\ endpoint \in Endpoints /\ target \in Endpoints
  /\ subscription \in Subscriptions /\ local \in Subscriptions
  /\ at \in Places
  /\ conn \in [open : BOOLEAN, cancelled : BOOLEAN, gone : BOOLEAN, unread : BOOLEAN,
               inbox : Seq(LineKinds), lines : 0..MaxLines,
               got : Subscriptions \cup {Undeclared}]
  /\ list \in {"none", "live", "stale"}
  /\ frame \in [link : Links, list : {"none", "live", "stale"}]
  /\ host \in {"idle", "flagging", "cancelling", "stopping", "joining"}

\* A call that cancels never does so through a pointer to a connection that
\* is gone.
ActiveIsOpen == active => conn.open

\* A frame shows a user list only while the link is up: however a session
\* ends, and whoever ends it, its list does not outlive it on screen.
NoListWithoutLink ==
  frame.link \in {"Idle", "Connecting", "Backoff"} => frame.list = "none"

\* stop() returns, wherever the thread was and whatever the plugin does, as
\* long as it does not leave the flush of a connection waiting for ever: what
\* it does not read before stop() was called, stop() waits for.
StopReturns == []<>~Flushing => ((host = "stopping") ~> (host = "idle"))

\* A session with an endpoint that is no longer wanted comes to an end.
OldEndpointIsLeft ==
  (at \in Session /\ target # endpoint) ~> (at \notin Session \/ target = endpoint)

\* A subscription that is not marked dirty is the one the plugin has, whatever
\* changed while the thread was sending, reading or reconnecting, unless it
\* changed between the read that was declared and the clearing of the mark.
DeclaredUnlessSlipped ==
  (at \in {"loop", "read"} /\ ~dirty /\ ~slipped /\ Sendable) => conn.got = subscription
=============================================================================
