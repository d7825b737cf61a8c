--------------------------- MODULE MCStoreSession ---------------------------
(* StoreSession for TLC: the user records the peer may send.               *)
EXTENDS StoreSession, TLC

Quiet(u)   == [uid |-> u, cid |-> 1, talking |-> FALSE, whispering |-> FALSE,
               commander |-> FALSE, muted |-> "off"]
Leading(u) == [Quiet(u) EXCEPT !.talking = TRUE, !.commander = TRUE]
MCUsers    == {Quiet(u) : u \in Uids} \cup {Leading(u) : u \in Uids}
\* A roster names two people, of whom a store with room for one keeps the first.
Pairs      == {p \in Uids \X Uids : p[1] # p[2]}
MCRosters  == {<<>>} \cup {<<Leading(p[1]), Quiet(p[2])>> : p \in Pairs}

\* Nothing tells the identities apart.
Alike == Permutations(Uids)

\* What the last call returned is read by nobody afterwards.
SessionView == <<state, track, chat, now, phase, heardAt, asks>>
=============================================================================
