------------------------------ MODULE IpcServer ------------------------------
(***************************************************************************)
(* The threads of the plugin's IPC server (ipc_server.cpp): one accepts    *)
(* connections and reaps ended sessions, one beats, each session has a     *)
(* reader and a writer, and TeamSpeak's own thread broadcasts and, when    *)
(* the plugin is unloaded, calls stop().                                   *)
(*                                                                         *)
(* This module is about who waits for whom: the flags, the condition       *)
(* variable of each session, cancel() and the joins.  What the lines say   *)
(* and how they are numbered is EventStream's; here a queue is its length. *)
(* A writer holds session->mutex from the moment it evaluates the          *)
(* predicate of cv.wait until it sleeps; shutdown() does not take it.      *)
(*                                                                         *)
(* A session is destroyed with its last reference, by the thread that      *)
(* drops it, and on Windows the end of a connection is FlushFileBuffers:   *)
(* it waits until the peer has read what was written, or is gone, and      *)
(* cancel() does not end that.  Whoever drops a last reference may wait.   *)
(***************************************************************************)
EXTENDS Naturals, FiniteSets

CONSTANTS MaxSessions,     \* bound on sessions, numbered as they are made
          MaxClients,      \* config_.max_clients
          MaxStirs         \* bound on connections, lines from overlays, broadcasts
                           \* and wake-ups without cause, all together

\* The constructor raises max_clients to 1.
ASSUME ServerAssumption ==
  MaxSessions \in Nat /\ MaxClients \in Nat \ {0} /\ MaxStirs \in Nat

VARIABLES running,         \* running_
          backlog,         \* connections the endpoint holds for accept()
          sessions,        \* sessions_
          acceptor,        \* accept_thread_: [at, made, dead]
          reader, writer,  \* where each session's two threads are
          joined,          \* threads joined, as <<session, "reader"|"writer">>
          queue,           \* length of session->queue
          flags,           \* closing, finished
          conn,            \* the connection: cancelled, gone, inbox, unread
          caster,          \* broadcast() on each thread: [at, todo, held]
          stopper,         \* stop(): [at, copy, todo]
          stirs,           \* what the world has done so far, see MaxStirs
          lost             \* history: a notify fell before the wait it was for

accepting == <<acceptor, joined, backlog>>
threads   == <<reader, writer>>
session   == <<queue, flags, conn>>
outside   == <<running, sessions, accepting, caster, stopper, stirs>>
others    == <<running, threads, session, caster, stopper, stirs, lost>>
vars == <<running, sessions, accepting, threads, session, caster, stopper, stirs, lost>>

Sessions == 1..MaxSessions
First(S) == {s \in S : \A t \in S : s <= t}     \* none or one

Casters == {"teamspeak", "heartbeat"}
Leaving == {"close", "cancel", "notify"}                   \* the steps of shutdown()
ReaderPlaces == {"none", "loop", "read", "answer", "refuse", "finish", "done"}
                  \cup Leaving \cup {"refuse_close", "refuse_cancel", "refuse_notify"}
WriterPlaces == {"none", "test", "deciding", "asleep", "write", "finish", "done"}
                  \cup Leaving

Init ==
  /\ running = FALSE
  /\ backlog = 0
  /\ sessions = {}
  /\ acceptor = [at |-> "off", made |-> {}, dead |-> {}]
  /\ reader = [s \in Sessions |-> "none"]
  /\ writer = [s \in Sessions |-> "none"]
  /\ joined = {}
  /\ queue = [s \in Sessions |-> 0]
  /\ flags = [s \in Sessions |-> [closing |-> FALSE, finished |-> FALSE]]
  /\ conn = [s \in Sessions |->
               [cancelled |-> FALSE, gone |-> FALSE, inbox |-> 0, unread |-> FALSE]]
  /\ caster = [c \in Casters |-> [at |-> "off", todo |-> {}, held |-> {}]]
  /\ stopper = [at |-> "new", copy |-> {}, todo |-> {}]
  /\ stirs = 0
  /\ lost = FALSE

Stirs == stirs < MaxStirs /\ stirs' = stirs + 1

-----------------------------------------------------------------------------
(* session->mutex, cv and shutdown(). *)

Free(s) == writer[s] # "deciding"                  \* nobody holds session->mutex

\* cv.notify_*: wakes the writer if it sleeps.  One that has found nothing to
\* do but does not sleep yet misses it.
Notify(s) ==
  /\ writer' = IF writer[s] = "asleep" THEN [writer EXCEPT ![s] = "test"] ELSE writer
  /\ lost' = (lost \/ writer[s] = "deciding")

Push(s)       == Free(s) /\ queue' = [queue EXCEPT ![s] = @ + 1] /\ Notify(s)
SetClosing(s) == flags' = [flags EXCEPT ![s].closing = TRUE]
Cancel(s)     == conn' = [conn EXCEPT ![s].cancelled = TRUE]

Ended(s) == reader[s] = "done" /\ writer[s] = "done"
Both(s)  == {<<s, "reader">>, <<s, "writer">>}

-----------------------------------------------------------------------------
(* The references to a session, and its end. *)

Holders == {"list", "accept", "stop", "reader", "writer"} \cup Casters

\* Who has a std::shared_ptr to the session.
Holds(h, s) ==
  CASE h = "list"     -> s \in sessions
    [] h = "accept"   -> s \in acceptor.dead \cup acceptor.made
    [] h = "stop"     -> s \in IF stopper.at \in {"leaving", "stopped"}
                               THEN stopper.todo ELSE stopper.copy
    [] h = "reader"   -> reader[s] \notin {"none", "done"}
    [] h = "writer"   -> writer[s] \notin {"none", "done"}
    [] h \in Casters  -> s \in caster[h].held

\* The last reference takes the connection with it.
LetsGo(h, s) == (\E k \in Holders \ {h} : Holds(k, s)) \/ ~conn[s].unread

-----------------------------------------------------------------------------
(* TeamSpeak's thread: start() and stop(). *)

Start ==
  /\ stopper.at = "new"
  /\ running' = TRUE
  /\ acceptor' = [acceptor EXCEPT !.at = "top"]
  /\ caster' = [c \in Casters |-> [at |-> "idle", todo |-> {}, held |-> {}]]
  /\ stopper' = [stopper EXCEPT !.at = "serving"]
  /\ UNCHANGED <<sessions, joined, backlog, threads, session, stirs, lost>>

StopGoes(place) == stopper' = [stopper EXCEPT !.at = place]

StopBegins ==
  /\ stopper.at = "serving" /\ caster["teamspeak"].at = "idle"
  /\ running' = FALSE
  /\ StopGoes("transport")
  /\ UNCHANGED <<sessions, accepting, threads, session, caster, stirs, lost>>

\* transport_->stop() and the heartbeat's wake-up, then the copy of sessions_.
StopCopies ==
  /\ stopper.at = "transport"
  /\ stopper' = [at |-> "close", copy |-> sessions, todo |-> sessions]
  /\ UNCHANGED <<running, sessions, accepting, threads, session, caster, stirs, lost>>

\* Mutant: the sessions are told, but their connections not cancelled.
StopTells ==
  /\ \E s \in First(stopper.todo) :
         \/ /\ stopper.at = "close" /\ StopGoes("notify")
            /\ SetClosing(s) /\ UNCHANGED <<conn, writer, lost>>
         \/ /\ stopper.at = "notify"
            /\ stopper' = [stopper EXCEPT !.at = "close", !.todo = @ \ {s}]
            /\ Notify(s) /\ UNCHANGED <<flags, conn>>
  /\ UNCHANGED <<running, sessions, accepting, reader, queue, caster, stirs>>

\* s->shutdown() for each session of the copy.
StopSignals ==
  /\ \E s \in First(stopper.todo) :
         \/ /\ stopper.at = "close" /\ StopGoes("cancel")
            /\ SetClosing(s) /\ UNCHANGED <<conn, writer, lost>>
         \/ /\ stopper.at = "cancel" /\ StopGoes("notify")
            /\ Cancel(s) /\ UNCHANGED <<flags, writer, lost>>
         \/ /\ stopper.at = "notify"
            /\ stopper' = [stopper EXCEPT !.at = "close", !.todo = @ \ {s}]
            /\ Notify(s) /\ UNCHANGED <<flags, conn>>
  /\ UNCHANGED <<running, sessions, accepting, reader, queue, caster, stirs>>

\* The accept thread, then the heartbeat, then the sessions of the copy; then
\* the list is cleared ...
StopJoins ==
  /\ stopper.at = "close" /\ stopper.todo = {}
  /\ acceptor.at = "off" /\ caster["heartbeat"].at = "off"
  /\ \A s \in stopper.copy : Ended(s)
  /\ joined' = joined \cup UNION {Both(s) : s \in stopper.copy}
  /\ sessions' = {}
  /\ stopper' = [stopper EXCEPT !.at = "leaving", !.todo = stopper.copy]
  /\ UNCHANGED <<running, acceptor, backlog, threads, session, caster, stirs, lost>>

\* ... and, on return, the copy.
StopDrops ==
  /\ stopper.at = "leaving"
  /\ \/ \E s \in First(stopper.todo) :
          LetsGo("stop", s) /\ stopper' = [stopper EXCEPT !.todo = @ \ {s}]
     \/ stopper.todo = {} /\ StopGoes("stopped")
  /\ UNCHANGED <<running, sessions, accepting, threads, session, caster, stirs, lost>>

\* A session nobody joined goes with its last reference, and a std::thread
\* that is destroyed unjoined ends the process.
Terminates ==
  /\ \E s \in Sessions : /\ Ended(s) /\ ~(Both(s) \subseteq joined)
                         /\ \A h \in Holders : ~Holds(h, s)
  /\ StopGoes("terminated")
  /\ UNCHANGED <<running, sessions, accepting, threads, session, caster, stirs, lost>>

-----------------------------------------------------------------------------
(* broadcast(), on TeamSpeak's thread and on the heartbeat's. *)

\* The heartbeat's wait ends by its timeout at the latest.
CastBegins(c) ==
  /\ caster[c].at = "idle"
  /\ IF c = "heartbeat" THEN running ELSE stopper.at = "serving"
  /\ Stirs
  /\ caster' = [caster EXCEPT ![c] = [at |-> "next", todo |-> sessions, held |-> sessions]]
  /\ UNCHANGED <<running, sessions, accepting, threads, session, stopper, lost>>

HeartStops ==
  /\ caster["heartbeat"].at = "idle" /\ ~running
  /\ caster' = [caster EXCEPT !["heartbeat"].at = "off"]
  /\ UNCHANGED <<running, sessions, accepting, threads, session, stopper, stirs, lost>>

\* A session that is closing is passed over ...
CastSkips(c) ==
  /\ caster[c].at = "next"
  /\ \E s \in First(caster[c].todo) : flags[s].closing
  /\ caster' = [caster EXCEPT ![c].todo = @ \ First(@)]
  /\ UNCHANGED <<running, sessions, accepting, threads, session, stopper, stirs, lost>>

\* ... any other gets a number and, later, the line.
CastDraws(c) ==
  /\ caster[c].at = "next"
  /\ \E s \in First(caster[c].todo) : ~flags[s].closing /\ Free(s)
  /\ caster' = [caster EXCEPT ![c].at = "drawn"]
  /\ UNCHANGED <<running, sessions, accepting, threads, session, stopper, stirs, lost>>

CastQueues(c) ==
  /\ caster[c].at = "drawn"
  /\ \E s \in First(caster[c].todo) : Push(s)
  /\ caster' = [caster EXCEPT ![c].at = "next", ![c].todo = @ \ First(@)]
  /\ UNCHANGED <<running, sessions, accepting, reader, flags, conn, stopper, stirs>>

\* The copy of sessions_ goes at the end.  A session reaped meanwhile has no
\* other reference left.
CastDrops(c) ==
  /\ caster[c].at = "next" /\ caster[c].todo = {}
  /\ \E s \in First(caster[c].held) :
         /\ LetsGo(c, s)
         /\ caster' = [caster EXCEPT ![c].held = @ \ {s}]
  /\ UNCHANGED <<running, sessions, accepting, threads, session, stopper, stirs, lost>>

CastEnds(c) ==
  /\ caster[c].at = "next" /\ caster[c].todo = {} /\ caster[c].held = {}
  /\ caster' = [caster EXCEPT ![c].at = "idle"]
  /\ UNCHANGED <<running, sessions, accepting, threads, session, stopper, stirs, lost>>

-----------------------------------------------------------------------------
(* The accept thread. *)

AcceptorGoes(place) == acceptor' = [acceptor EXCEPT !.at = place]

\* The loop's condition, then reap_finished_sessions() takes the dead out ...
AcceptorTop ==
  /\ acceptor.at = "top"
  /\ IF running
     THEN LET dead == {s \in sessions : flags[s].finished}
          IN  /\ sessions' = sessions \ dead
              /\ acceptor' = [acceptor EXCEPT !.at = "joining", !.dead = dead]
     ELSE AcceptorGoes("off") /\ UNCHANGED sessions
  /\ UNCHANGED <<others, joined, backlog>>

\* ... joins them, one after the other ...
JoinDead ==
  /\ acceptor.at = "joining"
  /\ LET left == {s \in acceptor.dead : ~(Both(s) \subseteq joined)}
     IN  \/ \E s \in First(left) :
              Ended(s) /\ joined' = joined \cup Both(s) /\ UNCHANGED acceptor
         \/ left = {} /\ AcceptorGoes("dropping") /\ UNCHANGED joined
  /\ UNCHANGED <<others, sessions, backlog>>

\* ... and lets them go.
DropDead ==
  /\ acceptor.at = "dropping"
  /\ \/ \E s \in First(acceptor.dead) :
          LetsGo("accept", s) /\ acceptor' = [acceptor EXCEPT !.dead = @ \ {s}]
     \/ acceptor.dead = {} /\ AcceptorGoes("accepting")
  /\ UNCHANGED <<others, sessions, joined, backlog>>

\* accept(500): a connection, or null when it timed out or was stopped.
AcceptsNothing ==
  /\ acceptor.at = "accepting" /\ (backlog = 0 \/ ~running)
  /\ AcceptorGoes("top")
  /\ UNCHANGED <<others, sessions, joined, backlog>>

AcceptsAnything ==         \* mutant: accept()'s null is taken for a connection
  /\ acceptor.at = "accepting"
  /\ backlog' = backlog - 1
  /\ AcceptorGoes("got")
  /\ UNCHANGED <<others, sessions, joined>>

Accepts ==
  /\ acceptor.at = "accepting" /\ backlog > 0
  /\ backlog' = backlog - 1
  /\ AcceptorGoes("got")
  /\ UNCHANGED <<others, sessions, joined>>

Drops ==                   \* stopped meanwhile
  /\ acceptor.at = "got" /\ ~running
  /\ AcceptorGoes("off")
  /\ UNCHANGED <<others, sessions, joined, backlog>>

\* An error line, which a new connection has room for, and the connection is
\* destroyed ...
Refuses ==
  /\ acceptor.at = "got" /\ running
  /\ Cardinality(sessions) >= MaxClients
  /\ AcceptorGoes("refusing")
  /\ UNCHANGED <<others, sessions, joined, backlog>>

\* ... when the refused overlay has read it, or has left.
RefusalIsRead ==
  /\ acceptor.at = "refusing"
  /\ AcceptorGoes("top")
  /\ UNCHANGED <<others, sessions, joined, backlog>>

\* Mutant: the limit is off by one.
AdmitsOneMore ==
  /\ acceptor.at = "got" /\ running
  /\ Cardinality(sessions) <= MaxClients
  /\ \E s \in First({t \in Sessions : reader[t] = "none"}) :
         /\ queue' = [queue EXCEPT ![s] = 2]
         /\ acceptor' = [acceptor EXCEPT !.at = "reader", !.made = {s}]
  /\ UNCHANGED <<running, sessions, joined, backlog, threads, flags, conn, caster, stopper,
                 stirs, lost>>

\* A new session is greeted with two lines before its threads start.
Admits ==
  /\ acceptor.at = "got" /\ running
  /\ Cardinality(sessions) < MaxClients
  /\ \E s \in First({t \in Sessions : reader[t] = "none"}) :
         /\ queue' = [queue EXCEPT ![s] = 2]
         /\ acceptor' = [acceptor EXCEPT !.at = "reader", !.made = {s}]
  /\ UNCHANGED <<running, sessions, joined, backlog, threads, flags, conn, caster, stopper,
                 stirs, lost>>

StartsThreads ==
  \E s \in acceptor.made :
    /\ \/ /\ acceptor.at = "reader" /\ AcceptorGoes("writer")
          /\ reader' = [reader EXCEPT ![s] = "loop"] /\ UNCHANGED writer
       \/ /\ acceptor.at = "writer" /\ AcceptorGoes("register")
          /\ writer' = [writer EXCEPT ![s] = "test"] /\ UNCHANGED reader
    /\ UNCHANGED <<running, sessions, joined, backlog, session, caster, stopper, stirs, lost>>

Registers ==
  /\ acceptor.at = "register"
  /\ sessions' = sessions \cup acceptor.made
  /\ acceptor' = [acceptor EXCEPT !.at = "top", !.made = {}]
  /\ UNCHANGED <<others, joined, backlog>>
-----------------------------------------------------------------------------
(* A session's reader. *)

ReaderGoes(s, place) == reader' = [reader EXCEPT ![s] = place]

ReaderLoops(s) ==
  /\ reader[s] = "loop"
  /\ ReaderGoes(s, IF running /\ ~flags[s].closing THEN "read" ELSE "close")
  /\ UNCHANGED <<outside, writer, session, lost>>

ReadFails(s) ==
  /\ reader[s] = "read"
  /\ conn[s].cancelled \/ (conn[s].gone /\ conn[s].inbox = 0)
  /\ ReaderGoes(s, "close")
  /\ UNCHANGED <<outside, writer, session, lost>>

\* Any other error of the system ends the session as well.
ReadBreaks(s) ==
  /\ reader[s] = "read"
  /\ ReaderGoes(s, "close")
  /\ UNCHANGED <<outside, writer, session, lost>>

\* A line is taken in silence, answered with another, refused for its
\* version, or the end of the session: too long, malformed or one too many.
ReadsLine(s) ==
  /\ reader[s] = "read" /\ ~conn[s].cancelled /\ conn[s].inbox > 0
  /\ conn' = [conn EXCEPT ![s].inbox = @ - 1]
  /\ \E next \in {"loop", "answer", "refuse", "close"} : ReaderGoes(s, next)
  /\ UNCHANGED <<outside, writer, queue, flags, lost>>

ReaderAnswers(s) ==
  /\ reader[s] \in {"answer", "refuse"}
  /\ Push(s)
  /\ ReaderGoes(s, IF reader[s] = "answer" THEN "loop" ELSE "refuse_close")
  /\ UNCHANGED <<outside, flags, conn>>

\* Mutant: the writer is not woken.
ReaderShutsQuietly(s) ==
  /\ \/ /\ reader[s] = "close" /\ ReaderGoes(s, "cancel")
        /\ SetClosing(s) /\ UNCHANGED conn
     \/ /\ reader[s] = "cancel" /\ ReaderGoes(s, "finish")
        /\ Cancel(s) /\ UNCHANGED flags
  /\ UNCHANGED <<outside, writer, queue, lost>>

\* shutdown(), after a refusal and when the reader leaves.
ReaderShuts(s) ==
  /\ \/ /\ reader[s] \in {"close", "refuse_close"}
        /\ SetClosing(s)
        /\ ReaderGoes(s, IF reader[s] = "close" THEN "cancel" ELSE "refuse_cancel")
        /\ UNCHANGED <<conn, writer, lost>>
     \/ /\ reader[s] \in {"cancel", "refuse_cancel"}
        /\ Cancel(s)
        /\ ReaderGoes(s, IF reader[s] = "cancel" THEN "notify" ELSE "refuse_notify")
        /\ UNCHANGED <<flags, writer, lost>>
     \/ /\ reader[s] \in {"notify", "refuse_notify"}
        /\ Notify(s)
        /\ ReaderGoes(s, IF reader[s] = "notify" THEN "finish" ELSE "loop")
        /\ UNCHANGED <<flags, conn>>
  /\ UNCHANGED <<outside, queue>>

ReaderFinishes(s) ==
  /\ reader[s] = "finish"
  /\ flags' = [flags EXCEPT ![s].finished = TRUE]
  /\ ReaderGoes(s, "done")
  /\ UNCHANGED <<outside, writer, queue, conn, lost>>

-----------------------------------------------------------------------------
(* A session's writer. *)

WriterGoes(s, place) == writer' = [writer EXCEPT ![s] = place]

\* The predicate of cv.wait, and what follows when it holds.
WriterTests(s) ==
  /\ writer[s] = "test"
  /\ LET leaves == flags[s].closing \/ ~running
     IN  /\ WriterGoes(s, IF leaves THEN "close"
                          ELSE IF queue[s] > 0 THEN "write" ELSE "deciding")
         /\ queue' = IF ~leaves /\ queue[s] > 0 THEN [queue EXCEPT ![s] = @ - 1] ELSE queue
  /\ UNCHANGED <<outside, reader, flags, conn, lost>>

\* Releasing the mutex and going to sleep is one step of the condition variable.
WriterSleeps(s) ==
  /\ writer[s] = "deciding"
  /\ WriterGoes(s, "asleep")
  /\ UNCHANGED <<outside, reader, session, lost>>

WakesForNothing(s) ==      \* a condition variable may
  /\ writer[s] = "asleep"
  /\ Stirs
  /\ WriterGoes(s, "test")
  /\ UNCHANGED <<running, sessions, accepting, reader, session, caster, stopper, lost>>

\* write_all() may block for as long as the overlay does not read.
Writes(s) ==
  /\ writer[s] = "write" /\ ~conn[s].cancelled
  /\ WriterGoes(s, "test")
  /\ conn' = [conn EXCEPT ![s].unread = ~conn[s].gone]
  /\ UNCHANGED <<outside, reader, queue, flags, lost>>

\* Part of the line may have been written.
WriteFails(s) ==
  /\ writer[s] = "write" /\ (conn[s].cancelled \/ conn[s].gone)
  /\ WriterGoes(s, "close")
  /\ \E u \in {conn[s].unread, ~conn[s].gone} : conn' = [conn EXCEPT ![s].unread = u]
  /\ UNCHANGED <<outside, reader, queue, flags, lost>>

\* Mutant: a writer that fails is finished without shutdown().
WriterJustFinishes(s) ==
  /\ writer[s] = "close" /\ WriterGoes(s, "done")
  /\ flags' = [flags EXCEPT ![s].finished = TRUE]
  /\ UNCHANGED <<outside, reader, queue, conn, lost>>

\* shutdown() and finished; nobody waits on the session's own writer.
WriterShuts(s) ==
  /\ \/ /\ writer[s] = "close" /\ WriterGoes(s, "cancel")
        /\ SetClosing(s) /\ UNCHANGED conn
     \/ /\ writer[s] = "cancel" /\ WriterGoes(s, "notify")
        /\ Cancel(s) /\ UNCHANGED flags
     \/ /\ writer[s] = "notify" /\ WriterGoes(s, "finish") /\ UNCHANGED <<flags, conn>>
     \/ /\ writer[s] = "finish" /\ WriterGoes(s, "done")
        /\ flags' = [flags EXCEPT ![s].finished = TRUE] /\ UNCHANGED conn
  /\ UNCHANGED <<outside, reader, queue, lost>>

-----------------------------------------------------------------------------
(* The overlays. *)

Connects ==
  /\ running
  /\ Stirs
  /\ backlog' = backlog + 1
  /\ UNCHANGED <<running, sessions, acceptor, joined, threads, session, caster, stopper, lost>>

PeerSends(s) ==
  /\ reader[s] # "none" /\ ~conn[s].gone
  /\ Stirs
  /\ conn' = [conn EXCEPT ![s].inbox = @ + 1]
  /\ UNCHANGED <<running, sessions, accepting, caster, stopper, threads, queue, flags, lost>>

PeerReads(s) ==            \* all there is
  /\ conn[s].unread
  /\ conn' = [conn EXCEPT ![s].unread = FALSE]
  /\ UNCHANGED <<outside, threads, queue, flags, lost>>

PeerVanishes(s) ==         \* and nothing is left to be read
  /\ reader[s] # "none" /\ ~conn[s].gone
  /\ conn' = [conn EXCEPT ![s].gone = TRUE, ![s].unread = FALSE]
  /\ UNCHANGED <<outside, threads, queue, flags, lost>>

-----------------------------------------------------------------------------
Acceptor  == \/ AcceptorTop \/ JoinDead \/ DropDead \/ AcceptsNothing \/ Accepts \/ Drops
             \/ Refuses \/ Admits \/ StartsThreads \/ Registers
Stopper   == StopCopies \/ StopSignals \/ StopJoins \/ StopDrops \/ Terminates
Cast(c)   == \/ CastSkips(c) \/ CastDraws(c) \/ CastQueues(c) \/ CastDrops(c) \/ CastEnds(c)
             \/ c = "heartbeat" /\ HeartStops
Reader(s) == \/ ReaderLoops(s) \/ ReadFails(s) \/ ReadsLine(s) \/ ReaderAnswers(s)
             \/ ReaderShuts(s) \/ ReaderFinishes(s)
Writer(s) == WriterTests(s) \/ WriterSleeps(s) \/ WriteFails(s) \/ WriterShuts(s)
Peer(s)   == PeerSends(s) \/ PeerReads(s) \/ PeerVanishes(s)

Next ==
  /\ stopper.at # "terminated"
  /\ \/ Start \/ StopBegins \/ Stopper \/ Acceptor \/ RefusalIsRead \/ Connects
     \/ \E c \in Casters : CastBegins(c) \/ Cast(c)
     \/ \E s \in Sessions : \/ Reader(s) \/ Writer(s) \/ WakesForNothing(s) \/ Writes(s)
                            \/ ReadBreaks(s) \/ Peer(s)

\* Every thread that can go on does.  Overlays need not connect, speak, read
\* or leave, nothing need be broadcast, and no writer wakes without cause.
Fairness ==
  /\ WF_vars(Acceptor) /\ WF_vars(Stopper)
  /\ \A c \in Casters : WF_vars(Cast(c))
  /\ \A s \in Sessions : WF_vars(Reader(s)) /\ WF_vars(Writer(s))

Spec == Init /\ [][Next]_vars /\ Fairness

-----------------------------------------------------------------------------
(* Properties. *)

TypeOK ==
  /\ running \in BOOLEAN /\ lost \in BOOLEAN
  /\ backlog \in 0..MaxStirs
  /\ sessions \subseteq Sessions
  /\ acceptor.made \subseteq Sessions /\ acceptor.dead \subseteq Sessions
  /\ reader \in [Sessions -> ReaderPlaces] /\ writer \in [Sessions -> WriterPlaces]
  /\ joined \subseteq Sessions \X {"reader", "writer"}
  /\ queue \in [Sessions -> Nat]
  /\ flags \in [Sessions -> [closing : BOOLEAN, finished : BOOLEAN]]
  /\ stopper.copy \subseteq Sessions /\ stopper.todo \subseteq stopper.copy

\* The accept thread joins nobody that could still wait for a peer: whatever
\* it has taken out of the list is past cancel(), so no read or write of it
\* can block.  Only the destruction that follows may wait, see Flushing.
JoinsWaitForNoPeer ==
  \A s \in acceptor.dead : flags[s].closing /\ conn[s].cancelled

\* However sessions end and are reaped, no more than MaxClients connections
\* are open at a time.
OpenWithinLimit ==
  Cardinality({s \in Sessions : reader[s] # "none" /\ ~conn[s].cancelled}) <= MaxClients

\* A thread of the server waits in FlushFileBuffers for an overlay that is
\* there and does not read.
Flushing ==
  \/ acceptor.at = "refusing"
  \/ acceptor.at = "dropping" /\ \E s \in First(acceptor.dead) : ~LetsGo("accept", s)
  \/ stopper.at = "leaving" /\ \E s \in First(stopper.todo) : ~LetsGo("stop", s)
  \/ \E c \in Casters : /\ caster[c].at = "next" /\ caster[c].todo = {}
                        /\ \E s \in First(caster[c].held) : ~LetsGo(c, s)

Unjoined == {s \in Sessions : reader[s] # "none" /\ ~(Both(s) \subseteq joined)}

\* stop() returns, whoever is connected and whatever they send, as long as no
\* overlay keeps a flush waiting for ever.  Every session of its copy has been
\* joined by then, and at most one, registered after the copy, has not: unless
\* that one's threads ending brought the process down, or a wake-up fell into
\* the moment before a writer slept.
StopReturnsUnlessLost ==
  ([]<>~Flushing) =>
    ((stopper.at = "transport")
       ~> (\/ lost
           \/ /\ stopper.at \in {"stopped", "terminated"}
              /\ Cardinality(Unjoined \ stopper.copy) <= 1
              /\ Unjoined \cap stopper.copy = {}))

\* While the server runs, a session whose overlay has vanished is joined, with
\* the same exceptions.
VanishedIsJoinedUnlessLost ==
  ([]<>~Flushing) =>
    \A s \in Sessions :
      (s \in sessions /\ conn[s].gone) ~> (Both(s) \subseteq joined \/ ~running \/ lost)

\* A connection is looked at while the server runs, as long as no overlay
\* keeps a flush waiting for ever.
ClientIsAnswered ==
  ([]<>~Flushing) => ((backlog > 0) ~> (acceptor.at = "got" \/ ~running))
=============================================================================
