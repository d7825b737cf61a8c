-------------------------- MODULE IpcServer_proofs --------------------------
(***************************************************************************)
(* Theorems about IpcServer, for any number of sessions, clients and       *)
(* stirs.                                                                  *)
(*                                                                         *)
(* The argument: whichever of a session's two threads leaves, it sets      *)
(* closing and cancels before it is finished, and neither is ever undone;  *)
(* so what is reaped is no longer open, and what is open is registered or  *)
(* about to be.  What the accept thread may still wait for is the flush at *)
(* the end of a connection, not a thread it joins.                         *)
(***************************************************************************)
EXTENDS IpcServer, FiniteSetTheorems, TLAPS

\* The shape of what the argument looks at.
AcceptorPlaces ==
  {"off", "top", "joining", "dropping", "accepting", "got", "refusing", "reader", "writer",
   "register"}
StopperPlaces ==
  {"new", "serving", "transport", "close", "cancel", "notify", "leaving", "stopped",
   "terminated"}

FlagsOK    == flags \in [Sessions -> [closing : BOOLEAN, finished : BOOLEAN]]
ConnOK     == conn \in [Sessions -> [cancelled : BOOLEAN, gone : BOOLEAN, inbox : Int,
                                      unread : BOOLEAN]]
ThreadsOK  == reader \in [Sessions -> ReaderPlaces] /\ writer \in [Sessions -> WriterPlaces]
AcceptorOK == acceptor \in [at : AcceptorPlaces, made : SUBSET Sessions, dead : SUBSET Sessions]
SessionsOK == sessions \subseteq Sessions
StopperOK  == /\ stopper \in [at : StopperPlaces, copy : SUBSET Sessions, todo : SUBSET Sessions]
              /\ stopper.todo \subseteq stopper.copy
BooleansOK == running \in BOOLEAN /\ lost \in BOOLEAN
QueueOK    == queue \in [Sessions -> Nat]
CountsOK   == stirs \in 0..MaxStirs /\ backlog \in 0..stirs
JoinedOK   == joined \subseteq Sessions \X {"reader", "writer"}
Shape == /\ FlagsOK /\ ConnOK /\ ThreadsOK
         /\ AcceptorOK /\ SessionsOK /\ StopperOK

\* First() picks out of the set.
LEMMA FirstOf == ASSUME NEW S PROVE First(S) \subseteq S
  BY DEF First

\* What a session's own threads and its overlay do.
SessionStep(s) == \/ Reader(s) \/ Writer(s) \/ WakesForNothing(s) \/ Writes(s)
                  \/ ReadBreaks(s) \/ Peer(s)

\* None of it touches the accept thread, the registered sessions or stop().
LEMMA SessionSteps ==
  ASSUME NEW s \in Sessions, SessionStep(s)
  PROVE  /\ UNCHANGED <<running, sessions, accepting, stopper>>
         /\ UNCHANGED stirs \/ Stirs
         /\ UNCHANGED lost \/ Notify(s)
         /\ \/ UNCHANGED queue
            \/ queue' = [queue EXCEPT ![s] = @ + 1]
            \/ queue[s] > 0 /\ queue' = [queue EXCEPT ![s] = @ - 1]
<1> USE DEF outside, session, accepting
<1>1. CASE ReaderLoops(s) \/ ReadFails(s) \/ ReadBreaks(s)
  BY <1>1 DEF ReaderLoops, ReadFails, ReadBreaks
<1>2. CASE ReadsLine(s)
  BY <1>2 DEF ReadsLine
<1>3. CASE ReaderAnswers(s)
  BY <1>3 DEF ReaderAnswers, Push
<1>4. CASE ReaderShuts(s)
  BY <1>4 DEF ReaderShuts
<1>5. CASE ReaderFinishes(s)
  BY <1>5 DEF ReaderFinishes
<1>6. CASE WriterTests(s)
  BY <1>6 DEF WriterTests
<1>7. CASE WriterSleeps(s) \/ WriteFails(s) \/ Writes(s)
  BY <1>7 DEF WriterSleeps, WriteFails, Writes
<1>8. CASE WriterShuts(s)
  BY <1>8 DEF WriterShuts
<1>9. CASE WakesForNothing(s)
  BY <1>9 DEF WakesForNothing
<1>10. CASE Peer(s)
  BY <1>10 DEF Peer, PeerSends, PeerReads, PeerVanishes
<1> QED
  BY <1>1, <1>2, <1>3, <1>4, <1>5, <1>6, <1>7, <1>8, <1>9, <1>10
  DEF SessionStep, Reader, Writer

\* broadcast() touches a queue and may wake a writer.
LEMMA CasterSteps ==
  ASSUME NEW c \in Casters, CastBegins(c) \/ Cast(c)
  PROVE  /\ UNCHANGED <<running, sessions, accepting, stopper, reader, flags, conn>>
         /\ UNCHANGED stirs \/ Stirs
         /\ \/ UNCHANGED <<writer, queue, lost>>
            \/ \E s \in First(caster[c].todo) : Push(s)
<1> USE DEF accepting, threads, session
<1>1. CASE CastBegins(c)
  BY <1>1 DEF CastBegins
<1>2. CASE CastSkips(c) \/ CastDraws(c) \/ CastDrops(c) \/ CastEnds(c) \/ HeartStops
  BY <1>2 DEF CastSkips, CastDraws, CastDrops, CastEnds, HeartStops
<1>3. CASE CastQueues(c)
  BY <1>3 DEF CastQueues
<1> QED
  BY <1>1, <1>2, <1>3
  DEF Cast

\* The accept thread touches neither the flags nor the connections, and of
\* the session's threads it only starts them.
LEMMA AcceptorSteps ==
  ASSUME Acceptor \/ RefusalIsRead
  PROVE  /\ UNCHANGED <<running, flags, conn, stopper, stirs, lost>>
         /\ UNCHANGED <<reader, writer>> \/ StartsThreads
<1>1. CASE AcceptorTop
  BY <1>1 DEF AcceptorTop, others, threads, session
<1>2. CASE JoinDead
  BY <1>2 DEF JoinDead, others, threads, session
<1>3. CASE DropDead
  BY <1>3 DEF DropDead, others, threads, session
<1>4. CASE DropDead \/ AcceptsNothing \/ Accepts \/ Drops
  BY <1>4 DEF DropDead, AcceptsNothing, Accepts, Drops, others, threads, session
<1>5. CASE Refuses \/ RefusalIsRead \/ Registers
  BY <1>5 DEF Refuses, RefusalIsRead, Registers, others, threads, session
<1>6. CASE Admits
  BY <1>6 DEF Admits, threads
<1>7. CASE StartsThreads
  BY <1>7 DEF StartsThreads, session
<1> QED
  BY <1>1, <1>2, <1>3, <1>4, <1>5, <1>6, <1>7
  DEF Acceptor

\* A new session gets the two lines, and its threads are what is done next.
LEMMA AdmitsOne ==
  ASSUME Admits
  PROVE  \E s \in Sessions : /\ queue' = [queue EXCEPT ![s] = 2]
                            /\ acceptor' = [acceptor EXCEPT !.at = "reader", !.made = {s}]
<1>1. PICK s \in First({t \in Sessions : reader[t] = "none"}) :
               /\ queue' = [queue EXCEPT ![s] = 2]
               /\ acceptor' = [acceptor EXCEPT !.at = "reader", !.made = {s}]
  BY Zenon DEF Admits
<1>2. s \in Sessions
  BY <1>1, FirstOf
<1> QED
  BY Zenon, <1>1, <1>2

\* A connection arriving touches nothing of all this.
LEMMA Elsewhere ==
  ASSUME Connects
  PROVE  UNCHANGED <<running, sessions, acceptor, joined, stopper, reader, writer, queue,
                     flags, conn, lost>>
  BY DEF Connects, accepting, threads, session

\* closing and finished stay flags.
LEMMA NextFlags == FlagsOK /\ [Next]_vars => FlagsOK'
<1> SUFFICES ASSUME FlagsOK, [Next]_vars PROVE FlagsOK'
  OBVIOUS
<1> USE DEF FlagsOK, outside, others, accepting, threads, session
<1>1. CASE Start
  BY <1>1 DEF Start
<1>2. CASE StopBegins
  BY <1>2 DEF StopBegins
<1>3. CASE StopCopies
  BY <1>3 DEF StopCopies
<1>4. CASE StopSignals
  BY <1>4 DEF StopSignals, SetClosing
<1>5. CASE StopJoins
  BY <1>5 DEF StopJoins
<1>6. CASE StopDrops
  BY <1>6 DEF StopDrops, StopGoes
<1>7. CASE Terminates
  BY <1>7 DEF Terminates, StopGoes
<1>8. ASSUME NEW s \in Sessions, ReaderShuts(s) PROVE FlagsOK'
  BY <1>8 DEF ReaderShuts, SetClosing, Cancel, ReaderGoes
<1>9. ASSUME NEW s \in Sessions, ReaderFinishes(s) PROVE FlagsOK'
  BY <1>9 DEF ReaderFinishes, ReaderGoes
<1>10. ASSUME NEW s \in Sessions, WriterShuts(s) PROVE FlagsOK'
  BY <1>10 DEF WriterShuts, SetClosing, Cancel
<1>11. CASE Connects
  BY <1>11, Elsewhere
<1>12. CASE \E c \in Casters : CastBegins(c) \/ Cast(c)
  BY <1>12, CasterSteps
<1>13. CASE Acceptor \/ RefusalIsRead
  BY <1>13, AcceptorSteps
<1>14. ASSUME NEW s \in Sessions,
             ReaderLoops(s) \/ ReadFails(s) \/ ReadBreaks(s) \/ ReadsLine(s) \/ ReaderAnswers(s)
     PROVE FlagsOK'
  BY <1>14 DEF ReaderLoops, ReadFails, ReadBreaks, ReadsLine, ReaderAnswers
<1>15. ASSUME NEW s \in Sessions,
             WriterTests(s) \/ WriterSleeps(s) \/ WriteFails(s)
                              \/ WakesForNothing(s)
     PROVE FlagsOK'
  BY <1>15 DEF WriterTests, WriterSleeps, WriteFails, WakesForNothing
<1>16. ASSUME NEW s \in Sessions,
             Writes(s) \/ Peer(s)
     PROVE FlagsOK'
  BY <1>16 DEF Writes, Peer, PeerSends, PeerReads, PeerVanishes
<1>17. CASE UNCHANGED vars
  BY <1>17 DEF vars
<1> QED
  BY <1>1, <1>2, <1>3, <1>4, <1>5, <1>6, <1>7, <1>8, <1>9, <1>10, <1>11, <1>12, <1>13,
     <1>14, <1>15, <1>16, <1>17
  DEF Next, Stopper, Acceptor, Cast, SessionStep, Reader, Writer, Peer

\* A connection stays one.
LEMMA NextConn == ConnOK /\ [Next]_vars => ConnOK'
<1> SUFFICES ASSUME ConnOK, [Next]_vars PROVE ConnOK'
  OBVIOUS
<1> USE DEF ConnOK, outside, others, accepting, threads, session
<1>1. CASE Start
  BY <1>1 DEF Start
<1>2. CASE StopBegins
  BY <1>2 DEF StopBegins
<1>3. CASE StopCopies
  BY <1>3 DEF StopCopies
<1>4. CASE StopSignals
  BY <1>4 DEF StopSignals, Cancel
<1>5. CASE StopJoins
  BY <1>5 DEF StopJoins
<1>6. CASE StopDrops
  BY <1>6 DEF StopDrops, StopGoes
<1>7. CASE Terminates
  BY <1>7 DEF Terminates, StopGoes
<1>8. ASSUME NEW s \in Sessions, ReadsLine(s) PROVE ConnOK'
  BY <1>8 DEF ReadsLine, ReaderGoes
<1>9. ASSUME NEW s \in Sessions, ReaderShuts(s) PROVE ConnOK'
  BY <1>9 DEF ReaderShuts, Cancel, ReaderGoes
<1>10. ASSUME NEW s \in Sessions, WriterShuts(s) PROVE ConnOK'
  BY <1>10 DEF WriterShuts, Cancel
<1>11. ASSUME NEW s \in Sessions, PeerSends(s) PROVE ConnOK'
  BY <1>11 DEF PeerSends
<1>12. ASSUME NEW s \in Sessions, PeerVanishes(s) PROVE ConnOK'
  BY <1>12 DEF PeerVanishes
<1>13. ASSUME NEW s \in Sessions, PeerReads(s) PROVE ConnOK'
  BY <1>13 DEF PeerReads
<1>14. CASE Connects
  BY <1>14, Elsewhere
<1>15. CASE \E c \in Casters : CastBegins(c) \/ Cast(c)
  BY <1>15, CasterSteps
<1>16. CASE Acceptor \/ RefusalIsRead
  BY <1>16, AcceptorSteps
<1>17. ASSUME NEW s \in Sessions,
             ReaderLoops(s) \/ ReadFails(s) \/ ReadBreaks(s) \/ ReaderAnswers(s)
                              \/ ReaderFinishes(s)
     PROVE ConnOK'
  BY <1>17 DEF ReaderLoops, ReadFails, ReadBreaks, ReaderAnswers, ReaderFinishes
<1>18. ASSUME NEW s \in Sessions,
             WriterTests(s) \/ WriterSleeps(s) \/ WakesForNothing(s)
     PROVE ConnOK'
  BY <1>18 DEF WriterTests, WriterSleeps, WakesForNothing
<1>19. ASSUME NEW s \in Sessions, Writes(s) PROVE ConnOK'
  BY <1>19 DEF Writes
<1>20. ASSUME NEW s \in Sessions, WriteFails(s) PROVE ConnOK'
  BY <1>20 DEF WriteFails
<1>21. CASE UNCHANGED vars
  BY <1>21 DEF vars
<1> QED
  BY <1>1, <1>2, <1>3, <1>4, <1>5, <1>6, <1>7, <1>8, <1>9, <1>10, <1>11, <1>12, <1>13,
     <1>14, <1>15, <1>16, <1>17, <1>18, <1>19, <1>20, <1>21
  DEF Next, Stopper, Acceptor, Cast, SessionStep, Reader, Writer, Peer

\* Each session has two threads.
LEMMA NextThreads == ThreadsOK /\ [Next]_vars => ThreadsOK'
<1> SUFFICES ASSUME ThreadsOK, [Next]_vars PROVE ThreadsOK'
  OBVIOUS
<1> USE DEF ThreadsOK, outside, others, accepting, threads, session
<1>1. CASE Start
  BY <1>1 DEF Start, ReaderPlaces, WriterPlaces, Leaving
<1>2. CASE StopBegins
  BY <1>2 DEF StopBegins, ReaderPlaces, WriterPlaces, Leaving
<1>3. CASE StopCopies
  BY <1>3 DEF StopCopies, ReaderPlaces, WriterPlaces, Leaving
<1>4. CASE StopSignals
  BY <1>4 DEF StopSignals, ReaderPlaces, WriterPlaces, Leaving, Notify
<1>5. CASE StopJoins
  BY <1>5 DEF StopJoins, ReaderPlaces, WriterPlaces, Leaving
<1>6. CASE StopDrops
  BY <1>6 DEF StopDrops, ReaderPlaces, WriterPlaces, Leaving, StopGoes
<1>7. CASE Terminates
  BY <1>7 DEF Terminates, ReaderPlaces, WriterPlaces, Leaving, StopGoes
<1>8. CASE AcceptorTop
  BY <1>8 DEF AcceptorTop, AcceptorGoes, ReaderPlaces, WriterPlaces, Leaving
<1>9. CASE JoinDead
  BY <1>9 DEF JoinDead, AcceptorGoes, ReaderPlaces, WriterPlaces, Leaving
<1>10. CASE DropDead
  BY <1>10 DEF DropDead, AcceptorGoes, ReaderPlaces, WriterPlaces, Leaving
<1>11. CASE AcceptsNothing
  BY <1>11 DEF AcceptsNothing, AcceptorGoes, ReaderPlaces, WriterPlaces, Leaving
<1>12. CASE Accepts
  BY <1>12 DEF Accepts, AcceptorGoes, ReaderPlaces, WriterPlaces, Leaving
<1>13. CASE Drops
  BY <1>13 DEF Drops, AcceptorGoes, ReaderPlaces, WriterPlaces, Leaving
<1>14. CASE Refuses
  BY <1>14 DEF Refuses, AcceptorGoes, ReaderPlaces, WriterPlaces, Leaving
<1>15. CASE RefusalIsRead
  BY <1>15 DEF RefusalIsRead, AcceptorGoes, ReaderPlaces, WriterPlaces, Leaving
<1>16. CASE Admits
  BY <1>16 DEF Admits, ReaderPlaces, WriterPlaces, Leaving
<1>17. CASE StartsThreads
  BY <1>17 DEF StartsThreads, AcceptorGoes, ReaderPlaces, WriterPlaces, Leaving
<1>18. CASE Registers
  BY <1>18 DEF Registers, ReaderPlaces, WriterPlaces, Leaving
<1>19. ASSUME NEW s \in Sessions, ReaderLoops(s) PROVE ThreadsOK'
  BY <1>19 DEF ReaderLoops, ReaderGoes, ReaderPlaces, WriterPlaces, Leaving
<1>20. ASSUME NEW s \in Sessions, ReadFails(s) PROVE ThreadsOK'
  BY <1>20 DEF ReadFails, ReaderGoes, ReaderPlaces, WriterPlaces, Leaving
<1>21. ASSUME NEW s \in Sessions, ReadBreaks(s) PROVE ThreadsOK'
  BY <1>21 DEF ReadBreaks, ReaderGoes, ReaderPlaces, WriterPlaces, Leaving
<1>22. ASSUME NEW s \in Sessions, ReadsLine(s) PROVE ThreadsOK'
  BY <1>22 DEF ReadsLine, ReaderGoes, ReaderPlaces, WriterPlaces, Leaving
<1>23. ASSUME NEW s \in Sessions, ReaderAnswers(s) PROVE ThreadsOK'
  BY <1>23 DEF ReaderAnswers, ReaderGoes, Push, ReaderPlaces, WriterPlaces, Leaving, Notify
<1>24. ASSUME NEW s \in Sessions, ReaderShuts(s) PROVE ThreadsOK'
  BY <1>24 DEF ReaderShuts, ReaderGoes, ReaderPlaces, WriterPlaces, Leaving, Notify
<1>25. ASSUME NEW s \in Sessions, ReaderFinishes(s) PROVE ThreadsOK'
  BY <1>25 DEF ReaderFinishes, ReaderGoes, ReaderPlaces, WriterPlaces, Leaving
<1>26. ASSUME NEW s \in Sessions, WriterTests(s) PROVE ThreadsOK'
  BY <1>26 DEF WriterTests, WriterGoes, ReaderPlaces, WriterPlaces, Leaving
<1>27. ASSUME NEW s \in Sessions, WriterSleeps(s) PROVE ThreadsOK'
  BY <1>27 DEF WriterSleeps, WriterGoes, ReaderPlaces, WriterPlaces, Leaving
<1>28. ASSUME NEW s \in Sessions, WriteFails(s) PROVE ThreadsOK'
  BY <1>28 DEF WriteFails, WriterGoes, ReaderPlaces, WriterPlaces, Leaving
<1>29. ASSUME NEW s \in Sessions, WriterShuts(s) PROVE ThreadsOK'
  BY <1>29 DEF WriterShuts, WriterGoes, ReaderPlaces, WriterPlaces, Leaving
<1>30. ASSUME NEW s \in Sessions, WakesForNothing(s) PROVE ThreadsOK'
  BY <1>30 DEF WakesForNothing, WriterGoes, ReaderPlaces, WriterPlaces, Leaving
<1>31. ASSUME NEW s \in Sessions, Writes(s) PROVE ThreadsOK'
  BY <1>31 DEF Writes, WriterGoes, ReaderPlaces, WriterPlaces, Leaving
<1>32. ASSUME NEW s \in Sessions, PeerSends(s) PROVE ThreadsOK'
  BY <1>32 DEF PeerSends, ReaderPlaces, WriterPlaces, Leaving
<1>33. ASSUME NEW s \in Sessions, PeerVanishes(s) PROVE ThreadsOK'
  BY <1>33 DEF PeerVanishes, ReaderPlaces, WriterPlaces, Leaving
<1>34. ASSUME NEW s \in Sessions, PeerReads(s) PROVE ThreadsOK'
  BY <1>34 DEF PeerReads, ReaderPlaces, WriterPlaces, Leaving
<1>35. CASE Connects
  BY <1>35, Elsewhere DEF Notify, Push, ReaderPlaces, WriterPlaces, Leaving
<1>36. CASE \E c \in Casters : CastBegins(c) \/ Cast(c)
  BY <1>36, CasterSteps DEF Notify, Push, ReaderPlaces, WriterPlaces, Leaving
<1>37. CASE UNCHANGED vars
  BY <1>37 DEF vars, Notify, Push, ReaderPlaces, WriterPlaces, Leaving
<1> QED
  BY <1>1, <1>2, <1>3, <1>4, <1>5, <1>6, <1>7, <1>8, <1>9, <1>10, <1>11, <1>12, <1>13,
     <1>14, <1>15, <1>16, <1>17, <1>18, <1>19, <1>20, <1>21, <1>22, <1>23, <1>24, <1>25,
     <1>26, <1>27, <1>28, <1>29, <1>30, <1>31, <1>32, <1>33, <1>34, <1>35, <1>36, <1>37
  DEF Next, Stopper, Acceptor, Cast, SessionStep, Reader, Writer, Peer

\* The accept thread stays somewhere, with sessions.
LEMMA NextAcceptor == AcceptorOK /\ SessionsOK /\ [Next]_vars => AcceptorOK'
<1> SUFFICES ASSUME AcceptorOK /\ SessionsOK, [Next]_vars PROVE AcceptorOK'
  OBVIOUS
<1> USE DEF AcceptorOK, SessionsOK, outside, others, accepting, threads, session
<1>1. CASE Start
  BY <1>1 DEF Start, AcceptorPlaces
<1>2. CASE StopBegins
  BY <1>2 DEF StopBegins
<1>3. CASE StopCopies
  BY <1>3 DEF StopCopies
<1>4. CASE StopSignals
  BY <1>4 DEF StopSignals
<1>5. CASE StopJoins
  BY <1>5 DEF StopJoins
<1>6. CASE StopDrops
  BY <1>6 DEF StopDrops, StopGoes
<1>7. CASE Terminates
  BY <1>7 DEF Terminates, StopGoes
<1>8. CASE AcceptorTop
  BY <1>8 DEF AcceptorTop, AcceptorGoes, AcceptorPlaces
<1>9. CASE JoinDead
  BY <1>9 DEF JoinDead, AcceptorGoes, AcceptorPlaces, First
<1>10. CASE DropDead
  BY <1>10 DEF DropDead, AcceptorGoes, AcceptorPlaces, First
<1>11. CASE AcceptsNothing
  BY <1>11 DEF AcceptsNothing, AcceptorGoes, AcceptorPlaces
<1>12. CASE Accepts
  BY <1>12 DEF Accepts, AcceptorGoes, AcceptorPlaces
<1>13. CASE Drops
  BY <1>13 DEF Drops, AcceptorGoes, AcceptorPlaces
<1>14. CASE Refuses
  BY <1>14 DEF Refuses, AcceptorGoes, AcceptorPlaces
<1>15. CASE RefusalIsRead
  BY <1>15 DEF RefusalIsRead, AcceptorGoes, AcceptorPlaces
<1>16. CASE Admits
  <2>1. PICK s \in Sessions : acceptor' = [acceptor EXCEPT !.at = "reader", !.made = {s}]
    BY Zenon, <1>16, AdmitsOne
  <2> QED
    BY <2>1 DEF AcceptorPlaces
<1>17. CASE StartsThreads
  BY <1>17 DEF StartsThreads, AcceptorGoes, AcceptorPlaces
<1>18. CASE Registers
  BY <1>18 DEF Registers, AcceptorPlaces
<1>19. CASE Connects
  BY <1>19, Elsewhere
<1>20. CASE \E c \in Casters : CastBegins(c) \/ Cast(c)
  BY <1>20, CasterSteps
<1>21. CASE \E s \in Sessions : SessionStep(s)
  BY <1>21, SessionSteps
<1>22. CASE UNCHANGED vars
  BY <1>22 DEF vars
<1> QED
  BY <1>1, <1>2, <1>3, <1>4, <1>5, <1>6, <1>7, <1>8, <1>9, <1>10, <1>11, <1>12, <1>13,
     <1>14, <1>15, <1>16, <1>17, <1>18, <1>19, <1>20, <1>21, <1>22
  DEF Next, Stopper, Acceptor, Cast, SessionStep, Reader, Writer, Peer

\* The registered are sessions.
LEMMA NextSessions == AcceptorOK /\ SessionsOK /\ [Next]_vars => SessionsOK'
<1> SUFFICES ASSUME AcceptorOK /\ SessionsOK, [Next]_vars PROVE SessionsOK'
  OBVIOUS
<1> USE DEF SessionsOK, outside, others, accepting, threads, session
<1>1. CASE Start
  BY <1>1 DEF Start
<1>2. CASE StopBegins
  BY <1>2 DEF StopBegins
<1>3. CASE StopCopies
  BY <1>3 DEF StopCopies
<1>4. CASE StopSignals
  BY <1>4 DEF StopSignals
<1>5. CASE StopJoins
  BY <1>5 DEF StopJoins
<1>6. CASE StopDrops
  BY <1>6 DEF StopDrops, StopGoes
<1>7. CASE Terminates
  BY <1>7 DEF Terminates, StopGoes
<1>8. CASE AcceptorTop
  BY <1>8 DEF AcceptorTop, AcceptorOK
<1>9. CASE JoinDead
  BY <1>9 DEF JoinDead, AcceptorOK
<1>10. CASE DropDead
  BY <1>10 DEF DropDead, AcceptorOK
<1>11. CASE AcceptsNothing
  BY <1>11 DEF AcceptsNothing, AcceptorOK
<1>12. CASE Accepts
  BY <1>12 DEF Accepts, AcceptorOK
<1>13. CASE Drops
  BY <1>13 DEF Drops, AcceptorOK
<1>14. CASE Refuses
  BY <1>14 DEF Refuses, AcceptorOK
<1>15. CASE RefusalIsRead
  BY <1>15 DEF RefusalIsRead, AcceptorOK
<1>16. CASE Admits
  BY <1>16 DEF Admits, AcceptorOK
<1>17. CASE StartsThreads
  BY <1>17 DEF StartsThreads, AcceptorOK
<1>18. CASE Registers
  BY <1>18 DEF Registers, AcceptorOK
<1>19. CASE Connects
  BY <1>19, Elsewhere
<1>20. CASE \E c \in Casters : CastBegins(c) \/ Cast(c)
  BY <1>20, CasterSteps
<1>21. CASE \E s \in Sessions : SessionStep(s)
  BY <1>21, SessionSteps
<1>22. CASE UNCHANGED vars
  BY <1>22 DEF vars
<1> QED
  BY <1>1, <1>2, <1>3, <1>4, <1>5, <1>6, <1>7, <1>8, <1>9, <1>10, <1>11, <1>12, <1>13,
     <1>14, <1>15, <1>16, <1>17, <1>18, <1>19, <1>20, <1>21, <1>22
  DEF Next, Stopper, Acceptor, Cast, SessionStep, Reader, Writer, Peer

\* stop() stays somewhere, with sessions.
LEMMA NextStopper == StopperOK /\ SessionsOK /\ [Next]_vars => StopperOK'
<1> SUFFICES ASSUME StopperOK /\ SessionsOK, [Next]_vars PROVE StopperOK'
  OBVIOUS
<1> USE DEF StopperOK, outside, others, accepting, threads, session
<1>1. CASE Start
  BY <1>1 DEF Start, StopperPlaces, SessionsOK
<1>2. CASE StopBegins
  BY <1>2 DEF StopBegins, StopGoes, StopperPlaces, SessionsOK
<1>3. CASE StopCopies
  BY <1>3 DEF StopCopies, StopperPlaces, SessionsOK
<1>4. CASE StopSignals
  BY <1>4 DEF StopSignals, StopGoes, StopperPlaces, SessionsOK
<1>5. CASE StopJoins
  BY <1>5 DEF StopJoins, StopGoes, StopperPlaces, SessionsOK
<1>6. CASE StopDrops
  BY <1>6 DEF StopDrops, StopGoes, StopperPlaces, SessionsOK
<1>7. CASE Terminates
  BY <1>7 DEF Terminates, StopGoes, StopperPlaces, SessionsOK
<1>8. CASE Connects
  BY <1>8, Elsewhere
<1>9. CASE \E c \in Casters : CastBegins(c) \/ Cast(c)
  BY <1>9, CasterSteps
<1>10. CASE Acceptor \/ RefusalIsRead
  BY <1>10, AcceptorSteps
<1>11. CASE \E s \in Sessions : SessionStep(s)
  BY <1>11, SessionSteps
<1>12. CASE UNCHANGED vars
  BY <1>12 DEF vars
<1> QED
  BY <1>1, <1>2, <1>3, <1>4, <1>5, <1>6, <1>7, <1>8, <1>9, <1>10, <1>11, <1>12
  DEF Next, Stopper, Acceptor, Cast, SessionStep, Reader, Writer, Peer

\* The flags of the whole server stay flags.
LEMMA NextBooleans == BooleansOK /\ [Next]_vars => BooleansOK'
<1> SUFFICES ASSUME BooleansOK, [Next]_vars PROVE BooleansOK'
  OBVIOUS
<1> USE DEF BooleansOK, outside, others, accepting, threads, session
<1>1. CASE Start
  BY <1>1 DEF Start
<1>2. CASE StopBegins
  BY <1>2 DEF StopBegins
<1>3. CASE StopCopies
  BY <1>3 DEF StopCopies
<1>4. CASE StopSignals
  BY <1>4 DEF StopSignals, Notify
<1>5. CASE StopJoins
  BY <1>5 DEF StopJoins
<1>6. CASE StopDrops
  BY <1>6 DEF StopDrops, StopGoes
<1>7. CASE Terminates
  BY <1>7 DEF Terminates, StopGoes
<1>8. CASE Connects
  BY <1>8, Elsewhere DEF Notify, Push
<1>9. CASE \E c \in Casters : CastBegins(c) \/ Cast(c)
  BY <1>9, CasterSteps DEF Notify, Push
<1>10. CASE Acceptor \/ RefusalIsRead
  BY <1>10, AcceptorSteps DEF Notify, Push
<1>11. CASE \E s \in Sessions : SessionStep(s)
  BY <1>11, SessionSteps DEF Notify, Push
<1>12. CASE UNCHANGED vars
  BY <1>12 DEF vars, Notify, Push
<1> QED
  BY <1>1, <1>2, <1>3, <1>4, <1>5, <1>6, <1>7, <1>8, <1>9, <1>10, <1>11, <1>12
  DEF Next, Stopper, Acceptor, Cast, SessionStep, Reader, Writer, Peer

\* A queue has a length.
LEMMA NextQueue == Shape /\ QueueOK /\ [Next]_vars => QueueOK'
<1> SUFFICES ASSUME Shape /\ QueueOK, [Next]_vars PROVE QueueOK'
  OBVIOUS
<1> USE DEF outside, others, accepting, threads, session
<1>1. CASE Start
  BY <1>1 DEF Start, QueueOK
<1>2. CASE StopBegins
  BY <1>2 DEF StopBegins, QueueOK
<1>3. CASE StopCopies
  BY <1>3 DEF StopCopies, QueueOK
<1>4. CASE StopSignals
  BY <1>4 DEF StopSignals, QueueOK
<1>5. CASE StopJoins
  BY <1>5 DEF StopJoins, QueueOK
<1>6. CASE StopDrops
  BY <1>6 DEF StopDrops, QueueOK, StopGoes
<1>7. CASE Terminates
  BY <1>7 DEF Terminates, QueueOK, StopGoes
<1>8. CASE AcceptorTop
  BY <1>8 DEF AcceptorTop, QueueOK
<1>9. CASE JoinDead
  BY <1>9 DEF JoinDead, QueueOK
<1>10. CASE DropDead
  BY <1>10 DEF DropDead, QueueOK
<1>11. CASE AcceptsNothing
  BY <1>11 DEF AcceptsNothing, QueueOK
<1>12. CASE Accepts
  BY <1>12 DEF Accepts, QueueOK
<1>13. CASE Drops
  BY <1>13 DEF Drops, QueueOK
<1>14. CASE Refuses
  BY <1>14 DEF Refuses, QueueOK
<1>15. CASE RefusalIsRead
  BY <1>15 DEF RefusalIsRead, QueueOK
<1>16. CASE Admits
  <2>1. PICK s \in Sessions : queue' = [queue EXCEPT ![s] = 2]
    BY Zenon, <1>16, AdmitsOne
  <2> QED
    BY <2>1 DEF QueueOK
<1>17. CASE StartsThreads
  BY <1>17 DEF StartsThreads, QueueOK
<1>18. CASE Registers
  BY <1>18 DEF Registers, QueueOK
<1>19. CASE Connects
  BY <1>19, Elsewhere DEF QueueOK, Push
<1>20. CASE \E c \in Casters : CastBegins(c) \/ Cast(c)
  BY <1>20, CasterSteps DEF QueueOK, Push
<1>21. CASE \E s \in Sessions : SessionStep(s)
  BY <1>21, SessionSteps DEF QueueOK, Push
<1>22. CASE UNCHANGED vars
  BY <1>22 DEF vars, QueueOK, Push
<1> QED
  BY <1>1, <1>2, <1>3, <1>4, <1>5, <1>6, <1>7, <1>8, <1>9, <1>10, <1>11, <1>12, <1>13,
     <1>14, <1>15, <1>16, <1>17, <1>18, <1>19, <1>20, <1>21, <1>22
  DEF Next, Stopper, Acceptor, Cast, SessionStep, Reader, Writer, Peer

\* What the world does is counted, and a connection waiting is one of it.
LEMMA NextCounts == CountsOK /\ [Next]_vars => CountsOK'
<1> SUFFICES ASSUME CountsOK, [Next]_vars PROVE CountsOK'
  OBVIOUS
<1> USE DEF CountsOK, Stirs, accepting, outside, others, accepting, threads, session
<1>1. CASE Start
  BY <1>1, ServerAssumption DEF Start
<1>2. CASE StopBegins
  BY <1>2, ServerAssumption DEF StopBegins
<1>3. CASE StopCopies
  BY <1>3, ServerAssumption DEF StopCopies
<1>4. CASE StopSignals
  BY <1>4, ServerAssumption DEF StopSignals
<1>5. CASE StopJoins
  BY <1>5, ServerAssumption DEF StopJoins
<1>6. CASE StopDrops
  BY <1>6, ServerAssumption DEF StopDrops, StopGoes
<1>7. CASE Terminates
  BY <1>7, ServerAssumption DEF Terminates, StopGoes
<1>8. CASE Connects
  BY <1>8, ServerAssumption DEF Connects
<1>9. CASE AcceptorTop
  BY <1>9, ServerAssumption DEF AcceptorTop
<1>10. CASE JoinDead
  BY <1>10, ServerAssumption DEF JoinDead
<1>11. CASE DropDead
  BY <1>11, ServerAssumption DEF DropDead
<1>12. CASE AcceptsNothing
  BY <1>12, ServerAssumption DEF AcceptsNothing
<1>13. CASE Accepts
  BY <1>13, ServerAssumption DEF Accepts
<1>14. CASE Drops
  BY <1>14, ServerAssumption DEF Drops
<1>15. CASE Refuses
  BY <1>15, ServerAssumption DEF Refuses
<1>16. CASE RefusalIsRead
  BY <1>16, ServerAssumption DEF RefusalIsRead
<1>17. CASE Admits
  BY <1>17, ServerAssumption DEF Admits
<1>18. CASE StartsThreads
  BY <1>18, ServerAssumption DEF StartsThreads
<1>19. CASE Registers
  BY <1>19, ServerAssumption DEF Registers
<1>20. CASE \E c \in Casters : CastBegins(c) \/ Cast(c)
  BY <1>20, CasterSteps, ServerAssumption
<1>21. CASE \E s \in Sessions : SessionStep(s)
  BY <1>21, SessionSteps, ServerAssumption
<1>22. CASE UNCHANGED vars
  BY <1>22, ServerAssumption DEF vars
<1> QED
  BY <1>1, <1>2, <1>3, <1>4, <1>5, <1>6, <1>7, <1>8, <1>9, <1>10, <1>11, <1>12, <1>13,
     <1>14, <1>15, <1>16, <1>17, <1>18, <1>19, <1>20, <1>21, <1>22
  DEF Next, Stopper, Acceptor, Cast, SessionStep, Reader, Writer, Peer

\* What is joined is a thread of a session.
LEMMA NextJoined == Shape /\ JoinedOK /\ [Next]_vars => JoinedOK'
<1> SUFFICES ASSUME Shape /\ JoinedOK, [Next]_vars PROVE JoinedOK'
  OBVIOUS
<1> USE DEF JoinedOK, accepting, outside, others, accepting, threads, session
<1>1. CASE Start
  BY <1>1 DEF Start
<1>2. CASE StopBegins
  BY <1>2 DEF StopBegins
<1>3. CASE StopCopies
  BY <1>3 DEF StopCopies
<1>4. CASE StopSignals
  BY <1>4 DEF StopSignals
<1>5. CASE StopJoins
  BY <1>5 DEF StopJoins, Shape, StopperOK, Both
<1>6. CASE StopDrops
  BY <1>6 DEF StopDrops, Shape, StopperOK, Both, StopGoes
<1>7. CASE Terminates
  BY <1>7 DEF Terminates, Shape, StopperOK, Both, StopGoes
<1>8. CASE AcceptorTop
  BY <1>8 DEF AcceptorTop
<1>9. CASE JoinDead
  BY <1>9 DEF JoinDead, Shape, AcceptorOK, Both, First
<1>10. CASE DropDead
  BY <1>10 DEF DropDead, Shape, AcceptorOK, Both, First
<1>11. CASE AcceptsNothing
  BY <1>11 DEF AcceptsNothing
<1>12. CASE Accepts
  BY <1>12 DEF Accepts
<1>13. CASE Drops
  BY <1>13 DEF Drops
<1>14. CASE Refuses
  BY <1>14 DEF Refuses
<1>15. CASE RefusalIsRead
  BY <1>15 DEF RefusalIsRead
<1>16. CASE Admits
  BY <1>16 DEF Admits
<1>17. CASE StartsThreads
  BY <1>17 DEF StartsThreads
<1>18. CASE Registers
  BY <1>18 DEF Registers
<1>19. CASE Connects
  BY <1>19, Elsewhere
<1>20. CASE \E c \in Casters : CastBegins(c) \/ Cast(c)
  BY <1>20, CasterSteps
<1>21. CASE \E s \in Sessions : SessionStep(s)
  BY <1>21, SessionSteps
<1>22. CASE UNCHANGED vars
  BY <1>22 DEF vars
<1> QED
  BY <1>1, <1>2, <1>3, <1>4, <1>5, <1>6, <1>7, <1>8, <1>9, <1>10, <1>11, <1>12, <1>13,
     <1>14, <1>15, <1>16, <1>17, <1>18, <1>19, <1>20, <1>21, <1>22
  DEF Next, Stopper, Acceptor, Cast, SessionStep, Reader, Writer, Peer

\* The shape is kept.
LEMMA NextShape == Shape /\ [Next]_vars => Shape'
  BY NextFlags, NextConn, NextThreads, NextAcceptor, NextSessions, NextStopper DEF Shape

\* Types are kept.
Typed == Shape /\ BooleansOK /\ QueueOK /\ CountsOK /\ JoinedOK
LEMMA NextTyped == Typed /\ [Next]_vars => Typed'
  BY NextShape, NextBooleans, NextQueue, NextCounts, NextJoined DEF Typed

\* The types before start().
LEMMA InitTyped == Init => Typed
<1> SUFFICES ASSUME Init PROVE Typed
  OBVIOUS
<1>1. FlagsOK /\ ConnOK
  BY DEF Init, FlagsOK, ConnOK
<1>2. ThreadsOK
  BY DEF Init, ThreadsOK, ReaderPlaces, WriterPlaces
<1>3. AcceptorOK /\ SessionsOK /\ StopperOK
  BY DEF Init, AcceptorOK, SessionsOK, StopperOK, AcceptorPlaces, StopperPlaces
<1>4. BooleansOK /\ QueueOK /\ JoinedOK
  BY DEF Init, BooleansOK, QueueOK, JoinedOK
<1>5. CountsOK
  BY ServerAssumption DEF Init, CountsOK
<1> QED
  BY <1>1, <1>2, <1>3, <1>4, <1>5 DEF Typed, Shape

\* They say what TypeOK says.
LEMMA TypedOK == Typed => TypeOK
<1> SUFFICES ASSUME Typed PROVE TypeOK
  OBVIOUS
<1>1. backlog \in 0..MaxStirs
  BY ServerAssumption DEF Typed, CountsOK
<1>2. stopper.copy \subseteq Sessions /\ stopper.todo \subseteq stopper.copy
  BY DEF Typed, Shape, StopperOK
<1>3. acceptor.made \subseteq Sessions /\ acceptor.dead \subseteq Sessions
  BY DEF Typed, Shape, AcceptorOK
<1> QED
  BY <1>1, <1>2, <1>3
  DEF Typed, Shape, BooleansOK, QueueOK, JoinedOK, FlagsOK, ThreadsOK, SessionsOK, TypeOK

\* THEOREM: every variable keeps its type.
THEOREM TypeCorrect == Spec => []TypeOK
<1>1. Spec => []Typed
  BY InitTyped, NextTyped, PTL DEF Spec
<1> QED
  BY <1>1, TypedOK, PTL

-----------------------------------------------------------------------------
(* Who leaves has told its peer first. *)

Told ==
  \A s \in Sessions :
    /\ (reader[s] \in {"cancel", "refuse_cancel"} \/ writer[s] = "cancel") => flags[s].closing
    /\ (\/ reader[s] \in {"notify", "refuse_notify", "finish", "done"}
        \/ writer[s] \in {"notify", "finish", "done"} \/ flags[s].finished)
         => flags[s].closing /\ conn[s].cancelled

\* Both threads close and cancel before they are finished.
LEMMA NextTold == Shape /\ Told /\ [Next]_vars => Told'
<1> SUFFICES ASSUME Shape /\ Told, [Next]_vars PROVE Told'
  OBVIOUS
<1> USE DEF StopperOK, Shape, FlagsOK, ConnOK, ThreadsOK, Told, outside, others, accepting, threads,
      session
<1>1. CASE Start
  BY <1>1 DEF Start
<1>2. CASE StopBegins
  BY <1>2 DEF StopBegins
<1>3. CASE StopCopies
  BY <1>3 DEF StopCopies
<1>4. CASE StopSignals
  <2>1. PICK s \in First(stopper.todo) :
              \/ SetClosing(s) /\ UNCHANGED <<conn, writer>>
              \/ Cancel(s) /\ UNCHANGED <<flags, writer>>
              \/ Notify(s) /\ UNCHANGED <<flags, conn>>
    BY Zenon, <1>4 DEF StopSignals
  <2>2. s \in Sessions
    BY <2>1, FirstOf DEF StopperOK
  <2>3. UNCHANGED reader
    BY <1>4 DEF StopSignals
  <2> QED
    BY <2>1, <2>2, <2>3 DEF SetClosing, Cancel, Notify
<1>5. CASE StopJoins
  BY <1>5 DEF StopJoins
<1>6. CASE StopDrops
  BY <1>6 DEF StopDrops, StopGoes
<1>7. CASE Terminates
  BY <1>7 DEF Terminates, StopGoes
<1>8. CASE AcceptorTop
  BY <1>8 DEF AcceptorTop, AcceptorGoes
<1>9. CASE JoinDead
  BY <1>9 DEF JoinDead, AcceptorGoes
<1>10. CASE DropDead
  BY <1>10 DEF DropDead, AcceptorGoes
<1>11. CASE AcceptsNothing
  BY <1>11 DEF AcceptsNothing, AcceptorGoes
<1>12. CASE Accepts
  BY <1>12 DEF Accepts, AcceptorGoes
<1>13. CASE Drops
  BY <1>13 DEF Drops, AcceptorGoes
<1>14. CASE Refuses
  BY <1>14 DEF Refuses, AcceptorGoes
<1>15. CASE RefusalIsRead
  BY <1>15 DEF RefusalIsRead, AcceptorGoes
<1>16. CASE Admits
  BY <1>16 DEF Admits
<1>17. CASE StartsThreads
  BY <1>17 DEF StartsThreads, AcceptorGoes
<1>18. CASE Registers
  BY <1>18 DEF Registers
<1>19. ASSUME NEW s \in Sessions, ReaderLoops(s) PROVE Told'
  BY <1>19 DEF ReaderLoops, ReaderGoes
<1>20. ASSUME NEW s \in Sessions, ReadFails(s) PROVE Told'
  BY <1>20 DEF ReadFails, ReaderGoes
<1>21. ASSUME NEW s \in Sessions, ReadBreaks(s) PROVE Told'
  BY <1>21 DEF ReadBreaks, ReaderGoes
<1>22. ASSUME NEW s \in Sessions, ReadsLine(s) PROVE Told'
  BY <1>22 DEF ReadsLine, ReaderGoes
<1>23. ASSUME NEW s \in Sessions, ReaderAnswers(s) PROVE Told'
  BY <1>23 DEF ReaderAnswers, ReaderGoes, Push, Notify
<1>24. ASSUME NEW s \in Sessions, ReaderShuts(s) PROVE Told'
  BY <1>24 DEF ReaderShuts, ReaderGoes, SetClosing, Cancel, Notify
<1>25. ASSUME NEW s \in Sessions, ReaderFinishes(s) PROVE Told'
  BY <1>25 DEF ReaderFinishes, ReaderGoes
<1>26. ASSUME NEW s \in Sessions, WriterTests(s) PROVE Told'
  BY <1>26 DEF WriterTests, WriterGoes
<1>27. ASSUME NEW s \in Sessions, WriterSleeps(s) PROVE Told'
  BY <1>27 DEF WriterSleeps, WriterGoes
<1>28. ASSUME NEW s \in Sessions, WriteFails(s) PROVE Told'
  BY <1>28 DEF WriteFails, WriterGoes
<1>29. ASSUME NEW s \in Sessions, WriterShuts(s) PROVE Told'
  BY <1>29 DEF WriterShuts, WriterGoes, SetClosing, Cancel
<1>30. ASSUME NEW s \in Sessions, WakesForNothing(s) PROVE Told'
  BY <1>30 DEF WakesForNothing, WriterGoes
<1>31. ASSUME NEW s \in Sessions, Writes(s) PROVE Told'
  BY <1>31 DEF Writes, WriterGoes
<1>32. ASSUME NEW s \in Sessions, PeerSends(s) PROVE Told'
  BY <1>32 DEF PeerSends
<1>33. ASSUME NEW s \in Sessions, PeerVanishes(s) PROVE Told'
  BY <1>33 DEF PeerVanishes
<1>34. ASSUME NEW s \in Sessions, PeerReads(s) PROVE Told'
  BY <1>34 DEF PeerReads
<1>35. CASE Connects
  BY <1>35, Elsewhere DEF Notify, Push
<1>36. CASE \E c \in Casters : CastBegins(c) \/ Cast(c)
  BY <1>36, CasterSteps DEF Notify, Push
<1>37. CASE UNCHANGED vars
  BY <1>37 DEF vars, Notify, Push
<1> QED
  BY <1>1, <1>2, <1>3, <1>4, <1>5, <1>6, <1>7, <1>8, <1>9, <1>10, <1>11, <1>12, <1>13,
     <1>14, <1>15, <1>16, <1>17, <1>18, <1>19, <1>20, <1>21, <1>22, <1>23, <1>24, <1>25,
     <1>26, <1>27, <1>28, <1>29, <1>30, <1>31, <1>32, <1>33, <1>34, <1>35, <1>36, <1>37
  DEF Next, Stopper, Acceptor, Cast, SessionStep, Reader, Writer, Peer

\* Neither is ever undone.
LEMMA NeverUndone ==
  ASSUME Shape, [Next]_vars
  PROVE  \A t \in Sessions : /\ flags[t].closing => flags'[t].closing
                             /\ conn[t].cancelled => conn'[t].cancelled
<1> DEFINE Kept == \A t \in Sessions : /\ flags[t].closing => flags'[t].closing
                                       /\ conn[t].cancelled => conn'[t].cancelled
<1> USE DEF Shape, FlagsOK, ConnOK, outside, others, accepting, threads, session
<1>1. CASE Start
  BY <1>1 DEF Start
<1>2. CASE StopBegins
  BY <1>2 DEF StopBegins
<1>3. CASE StopCopies
  BY <1>3 DEF StopCopies
<1>4. CASE StopSignals
  BY <1>4 DEF StopSignals, SetClosing, Cancel
<1>5. CASE StopJoins
  BY <1>5 DEF StopJoins
<1>6. CASE StopDrops
  BY <1>6 DEF StopDrops, StopGoes
<1>7. CASE Terminates
  BY <1>7 DEF Terminates, StopGoes
<1>8. ASSUME NEW s \in Sessions, ReadsLine(s) PROVE Kept
  BY <1>8 DEF ReadsLine, ReaderGoes
<1>9. ASSUME NEW s \in Sessions, ReaderShuts(s) PROVE Kept
  BY <1>9 DEF ReaderShuts, SetClosing, Cancel, ReaderGoes
<1>10. ASSUME NEW s \in Sessions, ReaderFinishes(s) PROVE Kept
  BY <1>10 DEF ReaderFinishes, ReaderGoes
<1>11. ASSUME NEW s \in Sessions, WriterShuts(s) PROVE Kept
  BY <1>11 DEF WriterShuts, SetClosing, Cancel
<1>12. ASSUME NEW s \in Sessions, PeerSends(s) PROVE Kept
  BY <1>12 DEF PeerSends
<1>13. ASSUME NEW s \in Sessions, PeerVanishes(s) PROVE Kept
  BY <1>13 DEF PeerVanishes
<1>14. ASSUME NEW s \in Sessions, PeerReads(s) PROVE Kept
  BY <1>14 DEF PeerReads
<1>15. CASE Connects
  BY <1>15, Elsewhere
<1>16. CASE \E c \in Casters : CastBegins(c) \/ Cast(c)
  BY <1>16, CasterSteps
<1>17. CASE Acceptor \/ RefusalIsRead
  BY <1>17, AcceptorSteps
<1>18. ASSUME NEW s \in Sessions,
             \/ ReaderLoops(s) \/ ReadFails(s) \/ ReadBreaks(s) \/ ReaderAnswers(s)
             \/ WriterTests(s)
     PROVE Kept
  BY <1>18 DEF ReaderLoops, ReadFails, ReadBreaks, ReaderAnswers, WriterTests
<1>19. ASSUME NEW s \in Sessions, WriterSleeps(s) \/ WakesForNothing(s) PROVE Kept
  BY <1>19 DEF WriterSleeps, WakesForNothing
<1>20. ASSUME NEW s \in Sessions, Writes(s) PROVE Kept
  BY <1>20 DEF Writes
<1>21. ASSUME NEW s \in Sessions, WriteFails(s) PROVE Kept
  BY <1>21 DEF WriteFails
<1>22. CASE UNCHANGED vars
  BY <1>22 DEF vars
<1> QED
  BY <1>1, <1>2, <1>3, <1>4, <1>5, <1>6, <1>7, <1>8, <1>9, <1>10, <1>11, <1>12, <1>13,
     <1>14, <1>15, <1>16, <1>17, <1>18, <1>19, <1>20, <1>21, <1>22
  DEF Next, Stopper, Acceptor, Cast, SessionStep, Reader, Writer, Peer

-----------------------------------------------------------------------------
(* What is reaped was cancelled. *)

\* Only a finished session is taken out to be joined.
LEMMA DeadWereFinished ==
  ASSUME Shape, [Next]_vars
  PROVE  \A s \in acceptor'.dead : s \in acceptor.dead \/ (s \in Sessions /\ flags[s].finished)
<1> DEFINE Kept == \A s \in acceptor'.dead : s \in acceptor.dead \/ (s \in Sessions /\ flags[s].finished)
<1> USE DEF Shape, AcceptorOK, SessionsOK, outside, others, accepting, threads, session
<1>1. CASE Start
  BY <1>1 DEF Start
<1>2. CASE StopBegins
  BY <1>2 DEF StopBegins
<1>3. CASE StopCopies
  BY <1>3 DEF StopCopies
<1>4. CASE StopSignals
  BY <1>4 DEF StopSignals
<1>5. CASE StopJoins
  BY <1>5 DEF StopJoins
<1>6. CASE StopDrops
  BY <1>6 DEF StopDrops, StopGoes
<1>7. CASE Terminates
  BY <1>7 DEF Terminates, StopGoes
<1>8. CASE AcceptorTop
  BY <1>8 DEF AcceptorTop, AcceptorGoes
<1>9. CASE JoinDead
  BY <1>9 DEF JoinDead, AcceptorGoes
<1>10. CASE DropDead
  BY <1>10 DEF DropDead, AcceptorGoes
<1>11. CASE AcceptsNothing
  BY <1>11 DEF AcceptsNothing, AcceptorGoes
<1>12. CASE Accepts
  BY <1>12 DEF Accepts, AcceptorGoes
<1>13. CASE Drops
  BY <1>13 DEF Drops, AcceptorGoes
<1>14. CASE Refuses
  BY <1>14 DEF Refuses, AcceptorGoes
<1>15. CASE RefusalIsRead
  BY <1>15 DEF RefusalIsRead, AcceptorGoes
<1>16. CASE Admits
  <2>1. PICK s \in Sessions : acceptor' = [acceptor EXCEPT !.at = "reader", !.made = {s}]
    BY Zenon, <1>16, AdmitsOne
  <2> QED
    BY <2>1 
<1>17. CASE StartsThreads
  BY <1>17 DEF StartsThreads, AcceptorGoes
<1>18. CASE Registers
  BY <1>18 DEF Registers
<1>19. CASE Connects
  BY <1>19, Elsewhere
<1>20. CASE \E c \in Casters : CastBegins(c) \/ Cast(c)
  BY <1>20, CasterSteps
<1>21. CASE \E s \in Sessions : SessionStep(s)
  BY <1>21, SessionSteps
<1>22. CASE UNCHANGED vars
  BY <1>22 DEF vars
<1> QED
  BY <1>1, <1>2, <1>3, <1>4, <1>5, <1>6, <1>7, <1>8, <1>9, <1>10, <1>11, <1>12, <1>13,
     <1>14, <1>15, <1>16, <1>17, <1>18, <1>19, <1>20, <1>21, <1>22
  DEF Next, Stopper, Acceptor, Cast, SessionStep, Reader, Writer, Peer

\* One more step keeps the reaped cancelled.
LEMMA NextReaped ==
  ASSUME Shape, Told, JoinsWaitForNoPeer, [Next]_vars PROVE JoinsWaitForNoPeer'
<1> SUFFICES ASSUME NEW s \in acceptor'.dead
             PROVE  flags'[s].closing /\ conn'[s].cancelled
  BY DEF JoinsWaitForNoPeer
<1>1. s \in Sessions /\ flags[s].closing /\ conn[s].cancelled
  BY DeadWereFinished DEF Shape, AcceptorOK, Told, JoinsWaitForNoPeer
<1> QED
  BY <1>1, NeverUndone

\* THEOREM: the accept thread joins only sessions whose connection is cancelled,
\* so that no thread it joins waits for a peer to speak or to read.
THEOREM JoinsAreFree == Spec => []JoinsWaitForNoPeer
<1> DEFINE Inv == Shape /\ Told /\ JoinsWaitForNoPeer
<1>1. Init => Inv
  <2> SUFFICES ASSUME Init PROVE Inv
    OBVIOUS
  <2>1. Shape
    BY InitTyped DEF Typed
  <2>2. Told /\ JoinsWaitForNoPeer
    BY DEF Init, Told, JoinsWaitForNoPeer
  <2> QED
    BY <2>1, <2>2
<1>2. Inv /\ [Next]_vars => Inv'
  BY NextShape, NextTold, NextReaped
<1>3. Inv => JoinsWaitForNoPeer
  OBVIOUS
<1> QED
  BY <1>1, <1>2, <1>3, PTL DEF Spec

-----------------------------------------------------------------------------
(* No more connections are open than the limit. *)

Open == {s \in Sessions : reader[s] # "none" /\ ~conn[s].cancelled}

\* Where the accept thread is with a session it has made, and when it is off.
Posted ==
  /\ acceptor.at \notin {"reader", "writer", "register"} => acceptor.made = {}
  /\ stopper.at \in {"new", "leaving", "stopped"} => acceptor.at = "off"

\* stop() has cleared the list.
Left == stopper.at \in {"leaving", "stopped", "terminated"}

\* Until then, what is open is registered or about to be.
Limited ==
  /\ Cardinality(sessions \cup acceptor.made) <= MaxClients
  /\ IF Left THEN Cardinality(Open) <= MaxClients
             ELSE Open \subseteq sessions \cup acceptor.made

\* Part of a set of sessions within the limit is within it.
LEMMA PartWithin ==
  ASSUME NEW A, NEW B, A \subseteq B, B \subseteq Sessions, Cardinality(B) <= MaxClients
  PROVE  Cardinality(A) <= MaxClients
<1>1. IsFiniteSet(Sessions)
  BY FS_Interval, ServerAssumption DEF Sessions
<1>2. IsFiniteSet(B)
  BY <1>1, FS_Subset
<1>3. IsFiniteSet(A) /\ Cardinality(A) <= Cardinality(B)
  BY <1>2, FS_Subset
<1>4. Cardinality(A) \in Nat /\ Cardinality(B) \in Nat
  BY <1>2, <1>3, FS_CardinalityType
<1> QED
  BY <1>3, <1>4, ServerAssumption

\* A session is made only between its admission and its registration.
LEMMA NextPosted == Shape /\ Posted /\ [Next]_vars => Posted'
<1> SUFFICES ASSUME Shape /\ Posted, [Next]_vars PROVE Posted'
  OBVIOUS
<1> USE DEF Posted, Shape, AcceptorOK, StopperOK, outside, others, accepting, threads, session
<1>1. CASE Start
  BY <1>1 DEF Start
<1>2. CASE StopBegins
  BY <1>2 DEF StopBegins, StopGoes
<1>3. CASE StopCopies
  BY <1>3 DEF StopCopies
<1>4. CASE StopSignals
  BY <1>4 DEF StopSignals, StopGoes
<1>5. CASE StopJoins
  BY <1>5 DEF StopJoins, StopGoes
<1>6. CASE StopDrops
  BY <1>6 DEF StopDrops, StopGoes
<1>7. CASE Terminates
  BY <1>7 DEF Terminates, StopGoes
<1>8. CASE AcceptorTop
  BY <1>8 DEF AcceptorTop, AcceptorGoes
<1>9. CASE JoinDead
  BY <1>9 DEF JoinDead, AcceptorGoes
<1>10. CASE DropDead
  BY <1>10 DEF DropDead, AcceptorGoes
<1>11. CASE AcceptsNothing
  BY <1>11 DEF AcceptsNothing, AcceptorGoes
<1>12. CASE Accepts
  BY <1>12 DEF Accepts, AcceptorGoes
<1>13. CASE Drops
  BY <1>13 DEF Drops, AcceptorGoes
<1>14. CASE Refuses
  BY <1>14 DEF Refuses, AcceptorGoes
<1>15. CASE RefusalIsRead
  BY <1>15 DEF RefusalIsRead, AcceptorGoes
<1>16. CASE Admits
  <2>1. PICK s \in Sessions : acceptor' = [acceptor EXCEPT !.at = "reader", !.made = {s}]
    BY Zenon, <1>16, AdmitsOne
  <2>2. stopper.at \notin {"new", "leaving", "stopped"} /\ UNCHANGED stopper
    BY <1>16 DEF Admits
  <2> QED
    BY <2>1, <2>2 
<1>17. CASE StartsThreads
  BY <1>17 DEF StartsThreads, AcceptorGoes
<1>18. CASE Registers
  BY <1>18 DEF Registers
<1>19. CASE Connects
  BY <1>19, Elsewhere
<1>20. CASE \E c \in Casters : CastBegins(c) \/ Cast(c)
  BY <1>20, CasterSteps
<1>21. CASE \E s \in Sessions : SessionStep(s)
  BY <1>21, SessionSteps
<1>22. CASE UNCHANGED vars
  BY <1>22 DEF vars
<1> QED
  BY <1>1, <1>2, <1>3, <1>4, <1>5, <1>6, <1>7, <1>8, <1>9, <1>10, <1>11, <1>12, <1>13,
     <1>14, <1>15, <1>16, <1>17, <1>18, <1>19, <1>20, <1>21, <1>22
  DEF Next, Stopper, Acceptor, Cast, SessionStep, Reader, Writer, Peer

\* A session has threads from the moment the accept thread starts them.
LEMMA OpenedByAcceptor ==
  ASSUME Shape, [Next]_vars
  PROVE  \A t \in Sessions : reader'[t] # "none" =>
           reader[t] # "none" \/ (acceptor.at = "reader" /\ t \in acceptor.made)
<1> DEFINE Kept == \A t \in Sessions : reader'[t] # "none" =>
                     reader[t] # "none" \/ (acceptor.at = "reader" /\ t \in acceptor.made)
<1> USE DEF Shape, ThreadsOK, AcceptorOK, outside, others, accepting, threads, session
<1>1. CASE Start
  BY <1>1 DEF Start
<1>2. CASE StopBegins
  BY <1>2 DEF StopBegins
<1>3. CASE StopCopies
  BY <1>3 DEF StopCopies
<1>4. CASE StopSignals
  BY <1>4 DEF StopSignals, Notify
<1>5. CASE StopJoins
  BY <1>5 DEF StopJoins
<1>6. CASE StopDrops
  BY <1>6 DEF StopDrops, StopGoes
<1>7. CASE Terminates
  BY <1>7 DEF Terminates, StopGoes
<1>8. CASE AcceptorTop
  BY <1>8 DEF AcceptorTop
<1>9. CASE JoinDead
  BY <1>9 DEF JoinDead
<1>10. CASE DropDead
  BY <1>10 DEF DropDead
<1>11. CASE AcceptsNothing
  BY <1>11 DEF AcceptsNothing
<1>12. CASE Accepts
  BY <1>12 DEF Accepts
<1>13. CASE Drops
  BY <1>13 DEF Drops
<1>14. CASE Refuses
  BY <1>14 DEF Refuses
<1>15. CASE RefusalIsRead
  BY <1>15 DEF RefusalIsRead
<1>16. CASE Admits
  BY <1>16 DEF Admits
<1>17. CASE StartsThreads
  BY <1>17 DEF StartsThreads, AcceptorGoes
<1>18. CASE Registers
  BY <1>18 DEF Registers
<1>19. ASSUME NEW s \in Sessions, ReaderLoops(s) PROVE Kept
  BY <1>19 DEF ReaderLoops, ReaderGoes
<1>20. ASSUME NEW s \in Sessions, ReadFails(s) PROVE Kept
  BY <1>20 DEF ReadFails, ReaderGoes
<1>21. ASSUME NEW s \in Sessions, ReadBreaks(s) PROVE Kept
  BY <1>21 DEF ReadBreaks, ReaderGoes
<1>22. ASSUME NEW s \in Sessions, ReadsLine(s) PROVE Kept
  BY <1>22 DEF ReadsLine, ReaderGoes
<1>23. ASSUME NEW s \in Sessions, ReaderAnswers(s) PROVE Kept
  BY <1>23 DEF ReaderAnswers, ReaderGoes, Push, Notify
<1>24. ASSUME NEW s \in Sessions, ReaderShuts(s) PROVE Kept
  BY <1>24 DEF ReaderShuts, ReaderGoes, Notify
<1>25. ASSUME NEW s \in Sessions, ReaderFinishes(s) PROVE Kept
  BY <1>25 DEF ReaderFinishes, ReaderGoes
<1>26. CASE Connects
  BY <1>26, Elsewhere DEF Push, Notify
<1>27. CASE \E c \in Casters : CastBegins(c) \/ Cast(c)
  BY <1>27, CasterSteps DEF Push, Notify
<1>28. ASSUME NEW s \in Sessions,
             WriterTests(s) \/ WriterSleeps(s) \/ WriteFails(s) \/ WriterShuts(s)
     PROVE Kept
  BY <1>28 DEF WriterTests, WriterSleeps, WriteFails, WriterShuts, Push, Notify
<1>29. ASSUME NEW s \in Sessions,
             WakesForNothing(s) \/ Writes(s) \/ Peer(s)
     PROVE Kept
  BY <1>29 DEF WakesForNothing, Writes, Peer, PeerSends, PeerReads, PeerVanishes, Push, Notify
<1>30. CASE UNCHANGED vars
  BY <1>30 DEF vars, Push, Notify
<1> QED
  BY <1>1, <1>2, <1>3, <1>4, <1>5, <1>6, <1>7, <1>8, <1>9, <1>10, <1>11, <1>12, <1>13,
     <1>14, <1>15, <1>16, <1>17, <1>18, <1>19, <1>20, <1>21, <1>22, <1>23, <1>24, <1>25,
     <1>26, <1>27, <1>28, <1>29, <1>30
  DEF Next, Stopper, Acceptor, Cast, SessionStep, Reader, Writer, Peer


Registered == sessions \cup acceptor.made

\* What is registered or about to be: what leaves was cancelled, and what
\* comes, one session, comes below the limit.
Changed ==
  \/ ~Left /\ Left' /\ Registered' \subseteq Registered
  \/ /\ Left' <=> Left
     /\ Registered' \subseteq Registered
     /\ \A s \in Registered \ Registered' : conn[s].cancelled
  \/ /\ Left' <=> Left
     /\ Cardinality(sessions) < MaxClients /\ acceptor.made = {}
     /\ \E s \in Sessions : Registered' = sessions \cup {s}

\* Every step changes it only so.
LEMMA NextRegistered == Shape /\ Posted /\ Told /\ [Next]_vars => Changed
<1> SUFFICES ASSUME Shape, Posted, Told, [Next]_vars PROVE Changed
  OBVIOUS
<1> USE DEF Changed, Registered, Left, Posted, Shape, AcceptorOK, SessionsOK, StopperOK
<1> USE DEF outside, others, accepting, threads, session
<1>1. CASE Start
  BY <1>1 DEF Start
<1>2. CASE StopBegins
  BY <1>2 DEF StopBegins, StopGoes
<1>3. CASE StopCopies
  BY <1>3 DEF StopCopies
<1>4. CASE StopSignals
  BY <1>4 DEF StopSignals, StopGoes
<1>5. CASE StopJoins
  BY <1>5 DEF StopJoins, StopGoes
<1>6. CASE StopDrops
  BY <1>6 DEF StopDrops, StopGoes
<1>7. CASE Terminates
  BY <1>7 DEF Terminates, StopGoes
<1>8. CASE AcceptorTop
  BY <1>8 DEF AcceptorTop, Told, AcceptorGoes
<1>9. CASE JoinDead
  BY <1>9 DEF JoinDead, AcceptorGoes
<1>10. CASE DropDead
  BY <1>10 DEF DropDead, AcceptorGoes
<1>11. CASE AcceptsNothing
  BY <1>11 DEF AcceptsNothing, AcceptorGoes
<1>12. CASE Accepts
  BY <1>12 DEF Accepts, AcceptorGoes
<1>13. CASE Drops
  BY <1>13 DEF Drops, AcceptorGoes
<1>14. CASE Refuses
  BY <1>14 DEF Refuses, AcceptorGoes
<1>15. CASE RefusalIsRead
  BY <1>15 DEF RefusalIsRead, AcceptorGoes
<1>16. CASE Admits
  <2>1. PICK s \in Sessions : acceptor' = [acceptor EXCEPT !.at = "reader", !.made = {s}]
    BY Zenon, <1>16, AdmitsOne
  <2>2. /\ acceptor.at = "got" /\ Cardinality(sessions) < MaxClients
        /\ UNCHANGED <<sessions, stopper>>
    BY <1>16 DEF Admits
  <2>3. acceptor'.made = {s}
    BY <2>1
  <2> QED
    BY <2>1, <2>2, <2>3 
<1>17. CASE StartsThreads
  BY <1>17 DEF StartsThreads, AcceptorGoes
<1>18. CASE Registers
  BY <1>18 DEF Registers
<1>19. CASE Connects
  BY <1>19, Elsewhere
<1>20. CASE \E c \in Casters : CastBegins(c) \/ Cast(c)
  BY <1>20, CasterSteps
<1>21. CASE \E s \in Sessions : SessionStep(s)
  BY <1>21, SessionSteps
<1>22. CASE UNCHANGED vars
  BY <1>22 DEF vars
<1> QED
  BY <1>1, <1>2, <1>3, <1>4, <1>5, <1>6, <1>7, <1>8, <1>9, <1>10, <1>11, <1>12, <1>13,
     <1>14, <1>15, <1>16, <1>17, <1>18, <1>19, <1>20, <1>21, <1>22
  DEF Next, Stopper, Acceptor, Cast, SessionStep, Reader, Writer, Peer

\* One more step keeps the limit.
LEMMA NextLimited ==
  ASSUME Shape, Posted, Told, Limited, [Next]_vars PROVE Limited'
<1> USE DEF Registered
<1>1. Registered \subseteq Sessions /\ Registered' \subseteq Sessions
  BY NextShape DEF Shape, SessionsOK, AcceptorOK
<1>2. Open' \subseteq Open \/ (acceptor.at = "reader" /\ Open' \subseteq Open \cup acceptor.made)
  BY OpenedByAcceptor, NeverUndone DEF Open
<1>3. Left => Open' \subseteq Open
  <2>1. CASE stopper.at = "terminated"
    BY <2>1 DEF Next, vars, threads, session, Open
  <2>2. CASE stopper.at \in {"leaving", "stopped"}
    BY <1>2, <2>2 DEF Posted
  <2> QED
    BY <2>1, <2>2 DEF Left
<1>4. Changed
  BY NextRegistered
<1>5. Open \subseteq Sessions /\ Open' \subseteq Sessions
  BY DEF Open
<1>6. CASE ~Left /\ Left' /\ Registered' \subseteq Registered
  <2>1. Open' \subseteq Registered
    BY <1>2, <1>6 DEF Limited
  <2>2. Cardinality(Registered) <= MaxClients
    BY DEF Limited
  <2>3. Cardinality(Open') <= MaxClients /\ Cardinality(Registered') <= MaxClients
    BY <1>1, <1>6, <2>1, <2>2, PartWithin
  <2> QED
    BY <1>6, <2>3 DEF Limited
<1>7. CASE /\ Left' <=> Left
           /\ Registered' \subseteq Registered
           /\ \A s \in Registered \ Registered' : conn[s].cancelled
  <2>1. Cardinality(Registered') <= MaxClients
    BY <1>1, <1>7, PartWithin DEF Limited
  <2>2. CASE Left
    <3>1. Cardinality(Open') <= MaxClients
      BY <1>3, <1>5, <2>2, PartWithin DEF Limited
    <3> QED
      BY <1>7, <2>1, <2>2, <3>1 DEF Limited
  <2>3. CASE ~Left
    <3>1. Open' \subseteq Registered
      BY <1>2, <2>3 DEF Limited
    <3>2. \A s \in Registered \ Registered' : ~(s \in Open')
      BY <1>1, <1>7, NeverUndone DEF Open
    <3> QED
      BY <1>7, <2>1, <2>3, <3>1, <3>2 DEF Limited
  <2> QED
    BY <2>2, <2>3
<1>8. CASE /\ Left' <=> Left
           /\ Cardinality(sessions) < MaxClients /\ acceptor.made = {}
           /\ \E s \in Sessions : Registered' = sessions \cup {s}
  <2>1. PICK s \in Sessions : Registered' = sessions \cup {s}
    BY <1>8
  <2>2. IsFiniteSet(sessions)
    <3>1. IsFiniteSet(Sessions)
      BY FS_Interval, ServerAssumption DEF Sessions
    <3> QED
      BY <1>1, <3>1, FS_Subset
  <2>3. Cardinality(sessions) \in Nat
    BY <2>2, FS_CardinalityType
  <2>4. Cardinality(Registered') = Cardinality(sessions)
          \/ Cardinality(Registered') = Cardinality(sessions) + 1
    BY <2>1, <2>2, FS_AddElement
  <2>5. Cardinality(Registered') <= MaxClients
    BY <1>8, <2>3, <2>4, ServerAssumption
  <2>6. Open' \subseteq Open
    BY <1>2, <1>8
  <2>7. CASE Left
    <3>1. Cardinality(Open') <= MaxClients
      BY <1>5, <2>6, <2>7, PartWithin DEF Limited
    <3> QED
      BY <1>8, <2>5, <2>7, <3>1 DEF Limited
  <2>8. CASE ~Left
    BY <1>8, <2>1, <2>5, <2>6, <2>8 DEF Limited
  <2> QED
    BY <2>7, <2>8
<1> QED
  BY <1>4, <1>6, <1>7, <1>8 DEF Changed

\* THEOREM: however sessions end and are reaped, no more than MaxClients
\* connections are open at a time, whatever the number of sessions.
THEOREM LimitHolds == Spec => []OpenWithinLimit
<1> DEFINE Inv == Shape /\ Told /\ Posted /\ Limited
<1>1. Init => Inv
  <2> SUFFICES ASSUME Init PROVE Inv
    OBVIOUS
  <2>1. Shape
    BY InitTyped DEF Typed
  <2>2. Told /\ Posted
    BY DEF Init, Told, Posted
  <2>3. Open = {} /\ sessions \cup acceptor.made = {}
    BY DEF Init, Open
  <2>4. Limited
    BY <2>3, FS_EmptySet, ServerAssumption DEF Init, Limited, Left
  <2> QED
    BY <2>1, <2>2, <2>4
<1>2. Inv /\ [Next]_vars => Inv'
  BY NextShape, NextTold, NextPosted, NextLimited
<1>3. Inv => OpenWithinLimit
  <2> SUFFICES ASSUME Inv PROVE Cardinality(Open) <= MaxClients
    BY DEF Open, OpenWithinLimit
  <2>1. sessions \cup acceptor.made \subseteq Sessions
    BY DEF Shape, SessionsOK, AcceptorOK
  <2> QED
    BY <2>1, PartWithin DEF Limited
<1> QED
  BY <1>1, <1>2, <1>3, PTL DEF Spec

=============================================================================
