---------------------------- MODULE MCPluginTabs ----------------------------
(* PluginTabs for TLC: who the two people are.                             *)
EXTENDS PluginTabs

CONSTANTS me, ann

Everybody == [c \in ClientIds |->
                [uid |-> IF c = Me THEN me ELSE ann, cid |-> c, talking |-> FALSE,
                 whispering |-> FALSE, commander |-> FALSE, muted |-> "off"]]
Anybody == {Everybody[c] : c \in ClientIds}

\* Neither the tabs nor the channels are told apart by anything.
Alike == Permutations(Servers) \cup Permutations(Channels)
=============================================================================
