----------------------------- MODULE EventStream -----------------------------
(***************************************************************************)
(* How TeamSpeak's state reaches one overlay: PluginCore's callbacks       *)
(* broadcast what changed, one Session of IpcServer (ipc_server.cpp)       *)
(* numbers, queues and writes it, the pipe carries it, and the overlay's   *)
(* StateStore applies it and may ask for a snapshot.                       *)
(*                                                                         *)
(* Five threads meet in the Session: TeamSpeak's callback thread, the      *)
(* heartbeat thread, the accept thread, the session's reader and its       *)
(* writer.  Each critical section of session->mutex is one step, so a      *)
(* number is drawn in one step and its line is queued in a later one.      *)
(* Clocks, chat and the end of the connection are left to other modules.   *)
(***************************************************************************)
EXTENDS PluginCore, StateStore

CONSTANTS QueueDepth,      \* config_.queue_depth
          WireDepth,       \* lines the pipe holds before a write blocks
          MaxStirs         \* bound on callbacks, heartbeats and pings, all together

\* The greeting alone is two lines; the constructor raises the depth to 8.
ASSUME StreamAssumption == /\ QueueDepth \in Nat /\ QueueDepth > 2
                           /\ WireDepth \in Nat \ {0}
                           /\ MaxStirs \in Nat

VARIABLES accept,          \* the accept thread: "waiting", "greeted", "registered"
          seq,             \* session->seq
          queue,           \* session->queue
          drawn,           \* lines numbered but not queued yet, by thread
          wire,            \* plugin to overlay, in the pipe
          requests,        \* overlay to plugin, in the pipe
          stirs,           \* callbacks, heartbeats and pings so far
          missed           \* history: a broadcast found the session greeted only

sessionVars == <<accept, seq, queue, drawn>>
pipeVars    == <<wire, requests>>
history     == <<stirs, missed>>
vars == <<storeVars, pluginVars, sessionVars, pipeVars, history>>

Threads == {"teamspeak", "heartbeat", "reader"}
NoLine  == [type |-> "none"]
Hello     == [type |-> "hello", versionOk |-> TRUE]
Heartbeat == [type |-> "heartbeat"]

\* No clock here, so every line carries the same time.
Line(m, n) == MakeLine(m, n, 1)

Init ==
  /\ StoreInit
  /\ PluginInit
  /\ accept = "waiting"
  /\ seq = 0
  /\ queue = <<>>
  /\ drawn = [t \in Threads |-> NoLine]
  /\ wire = <<>>
  /\ requests = <<>>
  /\ stirs = 0
  /\ missed = FALSE

-----------------------------------------------------------------------------
(* The accept thread. *)

\* Mutant: the greeting is a hello alone.
GreetBriefly ==
  /\ accept = "waiting"
  /\ accept' = "greeted"
  /\ queue' = <<Line(Hello, 0)>>
  /\ seq' = 1
  /\ UNCHANGED <<storeVars, pluginVars, drawn, pipeVars, history>>

\* Hello and a snapshot, numbered and queued under one lock.
Greet ==
  /\ accept = "waiting"
  /\ accept' = "greeted"
  /\ queue' = <<Line(Hello, 0), Line(Snapshot(cache), 1)>>
  /\ seq' = 2
  /\ UNCHANGED <<storeVars, pluginVars, drawn, pipeVars, history>>

\* sessions_.push_back: from here on broadcasts have this session as target.
Register ==
  /\ accept = "greeted"
  /\ accept' = "registered"
  /\ UNCHANGED <<storeVars, pluginVars, seq, queue, drawn, pipeVars, history>>

-----------------------------------------------------------------------------
(* Numbering and queueing. *)

\* Mutant: the number is read but not advanced.
DrawSame(t, m) ==
  /\ drawn[t] = NoLine
  /\ drawn' = [drawn EXCEPT ![t] = Line(m, seq)]
  /\ UNCHANGED seq

\* The first critical section of broadcast() and of the reader's answer.
Draw(t, m) ==
  /\ drawn[t] = NoLine
  /\ drawn' = [drawn EXCEPT ![t] = Line(m, seq)]
  /\ seq' = seq + 1

\* enqueue_snapshot_locked(), with `before` already in the queue.
WithSnapshot(before) == Append(before, Line(Snapshot(cache), seq))

\* Mutants: overflow clears the backlog and sends no snapshot; the limit is
\* checked one line too late.
EnqueueForgetting(t) ==
  /\ drawn[t] # NoLine
  /\ drawn' = [drawn EXCEPT ![t] = NoLine]
  /\ queue' = IF Len(queue) >= QueueDepth THEN <<>> ELSE Append(queue, drawn[t])
  /\ UNCHANGED seq

EnqueueLate(t) ==
  /\ drawn[t] # NoLine
  /\ drawn' = [drawn EXCEPT ![t] = NoLine]
  /\ IF Len(queue) > QueueDepth
     THEN queue' = WithSnapshot(<<>>) /\ seq' = seq + 1
     ELSE queue' = Append(queue, drawn[t]) /\ UNCHANGED seq

\* enqueue(): an overlay that stopped reading loses its backlog, the line at
\* hand included, and gets the whole state instead.
Enqueue(t) ==
  /\ drawn[t] # NoLine
  /\ drawn' = [drawn EXCEPT ![t] = NoLine]
  /\ IF Len(queue) >= QueueDepth
     THEN queue' = WithSnapshot(<<>>) /\ seq' = seq + 1
     ELSE queue' = Append(queue, drawn[t]) /\ UNCHANGED seq

-----------------------------------------------------------------------------
(* TeamSpeak's callback thread. *)

TeamSpeakCalls ==
  /\ stirs < MaxStirs
  /\ script = <<>> /\ Callback
  /\ stirs' = stirs + 1
  /\ UNCHANGED <<storeVars, sessionVars, pipeVars, missed>>

PluginRefreshes ==
  /\ RefreshCache
  /\ UNCHANGED <<storeVars, sessionVars, pipeVars, history>>

Sending == script # <<>> /\ Head(script).do = "send"

\* broadcast() to an overlay that is in sessions_ ...
Broadcast ==
  /\ Sending /\ accept = "registered"
  /\ Draw("teamspeak", Head(script).msg)
  /\ UNCHANGED <<storeVars, pluginVars, accept, queue, pipeVars, history>>

\* ... and while there is none.
BroadcastToNobody ==
  /\ Sending /\ accept # "registered"
  /\ script' = Tail(script)
  /\ missed' = (missed \/ accept = "greeted")
  /\ UNCHANGED <<storeVars, cache, active, lastConnection, sessionVars, pipeVars,
                 stirs>>

EnqueueBroadcast ==
  /\ Enqueue("teamspeak")
  /\ script' = Tail(script)
  /\ UNCHANGED <<storeVars, cache, active, lastConnection, accept, pipeVars, history>>

-----------------------------------------------------------------------------
(* The heartbeat thread and the session's reader and writer. *)

Beat ==
  /\ accept = "registered"
  /\ stirs < MaxStirs
  /\ stirs' = stirs + 1
  /\ Draw("heartbeat", Heartbeat)
  /\ UNCHANGED <<storeVars, pluginVars, accept, queue, pipeVars, missed>>

EnqueueBeat ==
  /\ Enqueue("heartbeat")
  /\ UNCHANGED <<storeVars, pluginVars, accept, pipeVars, history>>

\* The reader is one thread: it reads on when it has queued its answer.
Reads(request) ==
  /\ accept # "waiting" /\ drawn["reader"] = NoLine
  /\ requests # <<>> /\ Head(requests) = request
  /\ requests' = Tail(requests)

AnswerSnapshot ==
  /\ Reads("request_snapshot")
  /\ queue' = WithSnapshot(queue)
  /\ seq' = seq + 1
  /\ UNCHANGED <<storeVars, pluginVars, accept, drawn, wire, history>>

AnswerPing ==
  /\ Reads("ping")
  /\ Draw("reader", Heartbeat)
  /\ UNCHANGED <<storeVars, pluginVars, accept, queue, wire, history>>

EnqueueAnswer ==
  /\ Enqueue("reader")
  /\ UNCHANGED <<storeVars, pluginVars, accept, pipeVars, history>>

\* The writer blocks while the pipe is full.
Write ==
  /\ queue # <<>> /\ Len(wire) < WireDepth
  /\ wire' = Append(wire, Head(queue))
  /\ queue' = Tail(queue)
  /\ UNCHANGED <<storeVars, pluginVars, accept, seq, drawn, requests, stirs, missed>>

-----------------------------------------------------------------------------
(* The overlay's IPC thread. *)

ClientReads ==
  /\ wire # <<>>
  /\ Apply(Head(wire))
  /\ wire' = Tail(wire)
  /\ requests' = IF reply' = "RequestSnapshot" THEN Append(requests, "request_snapshot")
                 ELSE requests
  /\ UNCHANGED <<pluginVars, sessionVars, history>>

ClientPings ==
  /\ track.handshaken
  /\ stirs < MaxStirs
  /\ stirs' = stirs + 1
  /\ requests' = Append(requests, "ping")
  /\ UNCHANGED <<storeVars, pluginVars, sessionVars, wire, missed>>

Plugin   == PluginRefreshes \/ Broadcast \/ BroadcastToNobody \/ EnqueueBroadcast
Reader   == AnswerSnapshot \/ AnswerPing \/ EnqueueAnswer
Acceptor == Greet \/ Register
RunsOn   == Plugin \/ Acceptor \/ EnqueueBeat \/ Reader \/ Write \/ ClientReads
Next     == RunsOn \/ TeamSpeakCalls \/ Beat \/ ClientPings

\* Somebody runs on while anybody has something to do: weaker than fairness to
\* each thread, for what a thread has to do waits until that thread does it.
\* TeamSpeak need not call, the heart need not beat, the client need not ping.
Fairness == WF_vars(RunsOn)

Spec == Init /\ [][Next]_vars /\ Fairness

-----------------------------------------------------------------------------
(* Properties. *)

TypeOK ==
  /\ cache \in Contents
  /\ state.users \in Seq(UserState)
  /\ accept \in {"waiting", "greeted", "registered"}
  /\ seq \in Nat
  /\ \A t \in Threads : drawn[t] # NoLine => drawn[t].seq < seq
  /\ \A i \in DOMAIN queue : queue[i].seq < seq
  /\ Len(wire) <= WireDepth

\* Nothing is under way anywhere between TeamSpeak and the overlay.
Quiet ==
  /\ accept = "registered"
  /\ script = <<>> /\ queue = <<>> /\ wire = <<>> /\ requests = <<>>
  /\ \A t \in Threads : drawn[t] = NoLine

\* The overlay shows what the plugin last heard from TeamSpeak.
Agrees ==
  /\ state.users = cache.users
  /\ state.channel = cache.channel
  /\ state.connection = cache.connection
  /\ state.synchronised

\* Whatever was reordered, dropped or thrown away with a backlog on the way,
\* once nothing is under way the overlay shows the plugin's state, unless a
\* broadcast fell between the greeting and the registration.
ConvergedUnlessMissed == (Quiet /\ ~missed) => Agrees

\* The same without the exception.
ConvergedWhenQuiet == Quiet => Agrees

\* An overlay that does not read keeps no more events waiting than the depth
\* allows: what exceeds it are snapshots it asked for.
BacklogBounded ==
  Cardinality({i \in DOMAIN queue : queue[i].type # "state_snapshot"}) <= QueueDepth

\* When TeamSpeak has said its last the overlay gets there, and stays.
EventuallyAgrees == <>[](missed \/ Agrees)

\* Nobody has two connections: who somebody is and the connection they have
\* tell people apart alike.
NobodyTwice == \A p, q \in Profiles : p.uid = q.uid <=> p.cid = q.cid
=============================================================================
