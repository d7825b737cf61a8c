---------------------------- MODULE MCEventStream ----------------------------
(* EventStream for TLC: who is on the TeamSpeak server.                    *)
EXTENDS EventStream

Person(u, c) == [uid |-> u, cid |-> c, talking |-> FALSE, whispering |-> FALSE,
                 commander |-> FALSE, muted |-> "off"]
Commands(p)  == [p EXCEPT !.commander = TRUE]

\* Two people, and two people of whom one may be channel commander.
CONSTANTS alice, bob
Strangers == {Person(alice, 1), Person(bob, 2)}
TwoPeople == {Person(alice, 1), Commands(Person(alice, 1)), Person(bob, 2)}

\* Nobody is connected twice, as the theorem about convergence has it.
ASSUME PeopleAssumption == NobodyTwice

\* What the last call returned is read by nobody afterwards, and what only a
\* callback reads by nobody once there are no more of them.
LastCall   == stirs = MaxStirs
StreamView == <<state, track, cache, script, sessionVars, pipeVars, history,
                IF LastCall THEN <<>> ELSE <<active, lastConnection>> >>
=============================================================================
