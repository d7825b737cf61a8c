---------------------------- MODULE ProfileStore ----------------------------
(***************************************************************************)
(* shared/src/profile_store.cpp: the configurations on disk and the table  *)
(* that gives a game its profile, as several games use them at once.  Each *)
(* call on the file system is a step; a game may die before any of them    *)
(* and a call may fail for reasons outside (a full disk, a scanner that    *)
(* holds the file).  As on Windows, a file that is open for writing cannot *)
(* be renamed or removed.  Texts are kept as to whether they parse.        *)
(***************************************************************************)
EXTENDS Naturals, FiniteSets

CONSTANTS
    Games,      \* processes, each with the executable it is
    Names,      \* valid profile names
    Default,    \* the name "default"
    Configs,    \* configurations one may save
    MaxCalls,   \* bound: calls one game makes
    MaxFaults   \* bound: calls that fail from outside, and deaths

ASSUME DefaultIsAName == Default \in Names
ASSUME BoundsAssumption == MaxCalls \in Nat /\ MaxFaults \in Nat

Absent == "absent"      \* no such file
Empty == "empty"        \* truncated, nothing written yet
Torn == "torn"          \* a text that does not parse
Defaults == "defaults"  \* Config::defaults()
Unmapped == "unmapped"

ASSUME TextsDiffer == /\ Configs \cap {Absent, Empty, Torn} = {}
                      /\ Unmapped \notin Names

VARIABLES
    profile,   \* name -> the text of <name>.json
    temp,      \* name -> the text of <name>.json.tmp
    mapping,   \* the table of games: its text, and what a reader makes of it
    doing,     \* game -> the call it is in, or Idle
    calls, faults,
    live,      \* names saved and not deleted since
    spoilt,    \* names saved by two games at once, or whose rename failed
    wanted,    \* game -> the profile last chosen for it
    unwritten, \* games whose last choice the table does not have
    missed,    \* game -> those whose last choice the table it is writing lacks
    leftover   \* temporary files of dead processes, or whose removal was refused
vars == <<profile, temp, mapping, doing, calls, faults, live, spoilt,
          wanted, unwritten, missed, leftover>>

Idle == [op |-> "idle"]
Saving == [op : {"open", "write", "rename", "remove", "retry", "tidy"},
           name : Names, config : Configs \cup {Defaults}]
Copying == [op : {"move", "copy"}, name : Names, to : Names]
Table == [Games -> Names \cup {Unmapped}]
NoGames == [g \in Games |-> Unmapped]
Mapping == [op : {"map_open", "map_write"}, table : Table]

\* A table that is missing, empty or torn is one without games to its readers.
WholeTable(games) == [text |-> "whole", games |-> games]
EmptyTable == [text |-> "empty", games |-> NoGames]
TornTable == [text |-> "torn", games |-> NoGames]

Text == Configs \cup {Defaults}
Files == Text \cup {Absent, Empty, Torn}

TypeOK ==
    /\ profile \in [Names -> Files]
    /\ temp \in [Names -> Files]
    /\ mapping \in [text : {"empty", "torn", "whole"}, games : Table]
    /\ doing \in [Games -> {Idle} \cup Saving \cup Copying \cup Mapping]
    /\ calls \in [Games -> 0..MaxCalls] /\ faults \in 0..MaxFaults
    /\ live \subseteq Names /\ spoilt \subseteq Names
    /\ wanted \in Table /\ unwritten \subseteq Games /\ missed \in [Games -> SUBSET Games]
    /\ leftover \subseteq Names

\* A machine that has a default profile, or none yet.
Init ==
    /\ \E first \in {Absent} \cup Configs :
          /\ profile = [n \in Names |-> IF n = Default THEN first ELSE Absent]
          /\ live = IF first = Absent THEN {} ELSE {Default}
    /\ temp = [n \in Names |-> Absent]
    /\ mapping = EmptyTable
    /\ doing = [g \in Games |-> Idle]
    /\ calls = [g \in Games |-> 0] /\ faults = 0
    /\ spoilt = {}
    /\ wanted = NoGames /\ unwritten = {} /\ missed = [g \in Games |-> {}]
    /\ leftover = {}

-----------------------------------------------------------------------------
Savers(n) == {g \in Games : doing[g] \in Saving /\ doing[g].name = n}
\* The stream is closed at the end of the block that wrote the text.
OpenBy(n) == {g \in Savers(n) : doing[g].op = "write"}
Mappers == {g \in Games : doing[g] \in Mapping}

Exists(n) == profile[n] # Absent

\* Mutant: the file's text is taken as it is.
LoadedRaw(n) == profile[n]
\* load(): a missing file and one that does not parse both give the defaults.
Loaded(n) == IF profile[n] \in Text THEN profile[n] ELSE Defaults

Fault == faults < MaxFaults /\ faults' = faults + 1
NoFault == UNCHANGED faults
Go(g, step) == doing' = [doing EXCEPT ![g] = step]
Return(g) == Go(g, Idle)
Then(g, op) == doing' = [doing EXCEPT ![g].op = op]
Call(g) ==
    /\ doing[g] = Idle /\ calls[g] < MaxCalls
    /\ calls' = [calls EXCEPT ![g] = @ + 1]

MappingVars == <<mapping, wanted, unwritten, missed>>
ProfileOnly == UNCHANGED MappingVars

-----------------------------------------------------------------------------
(* save()                                                                  *)

Save(g, n, c) ==
    /\ Call(g)
    /\ Go(g, [op |-> "open", name |-> n, config |-> c])
    /\ spoilt' = IF Savers(n) # {} THEN spoilt \cup {n} ELSE spoilt
    /\ UNCHANGED <<profile, temp, live, leftover>> /\ NoFault /\ ProfileOnly

SaveOpen(g) ==
    LET n == doing[g].name IN
    /\ doing[g].op = "open"
    /\ \/ /\ temp' = [temp EXCEPT ![n] = Empty] /\ leftover' = leftover \ {n}
          /\ Then(g, "write") /\ NoFault
       \/ Return(g) /\ Fault /\ UNCHANGED <<temp, leftover>>
    /\ UNCHANGED <<profile, calls, live, spoilt>> /\ ProfileOnly

\* Two writers of one file leave the one's text over the other's.
Written(old, c) == IF old = Empty THEN {c} ELSE {c, Torn}

\* Mutant: the stream is not looked at.
SaveWriteUnchecked(g) ==
    LET n == doing[g].name IN
    /\ doing[g].op = "write"
    /\ \E text \in Written(temp[n], doing[g].config) \cup {Torn} : temp' = [temp EXCEPT ![n] = text]
    /\ Then(g, "rename")
    /\ UNCHANGED <<profile, calls, live, spoilt, leftover>> /\ NoFault /\ ProfileOnly

\* Mutant: a failed write leaves its file.
SaveWriteLeaves(g) ==
    LET n == doing[g].name IN
    /\ doing[g].op = "write"
    /\ \/ /\ \E text \in Written(temp[n], doing[g].config) : temp' = [temp EXCEPT ![n] = text]
          /\ Then(g, "rename") /\ NoFault
       \/ Return(g) /\ Fault /\ UNCHANGED temp
    /\ UNCHANGED <<profile, calls, live, spoilt, leftover>> /\ ProfileOnly

\* A write that fails has written some of the text or none of it.
SaveWrite(g) ==
    LET n == doing[g].name IN
    /\ doing[g].op = "write"
    /\ \/ /\ \E text \in Written(temp[n], doing[g].config) : temp' = [temp EXCEPT ![n] = text]
          /\ Then(g, "rename") /\ NoFault
       \/ /\ temp' \in {temp, [temp EXCEPT ![n] = Torn]}
          /\ Then(g, "tidy") /\ Fault
    /\ UNCHANGED <<profile, calls, live, spoilt, leftover>> /\ ProfileOnly

CanRename(n) == temp[n] # Absent /\ OpenBy(n) = {}

Replace(g, n) ==
    /\ profile' = [profile EXCEPT ![n] = temp[n]]
    /\ temp' = [temp EXCEPT ![n] = Absent] /\ leftover' = leftover \ {n}
    /\ live' = live \cup {n}
    /\ Return(g)

\* One outcome if the file is there and free, another if it is not, or from outside.
TryRename(g, otherwise) ==
    LET n == doing[g].name IN
    \/ CanRename(n) /\ Replace(g, n) /\ NoFault /\ UNCHANGED spoilt
    \/ /\ IF CanRename(n) THEN Fault ELSE NoFault
       /\ spoilt' = spoilt \cup {n}
       /\ Then(g, otherwise) /\ UNCHANGED <<profile, temp, live, leftover>>

SaveRename(g) ==
    /\ doing[g].op = "rename"
    /\ TryRename(g, "remove")
    /\ UNCHANGED calls /\ ProfileOnly

\* Whether the removal fails is not asked.
SaveRemove(g) ==
    /\ doing[g].op = "remove"
    /\ \/ profile' = [profile EXCEPT ![doing[g].name] = Absent] /\ NoFault
       \/ Exists(doing[g].name) /\ Fault /\ UNCHANGED profile
    /\ Then(g, "retry")
    /\ UNCHANGED <<temp, calls, live, spoilt, leftover>> /\ ProfileOnly

SaveRetry(g) ==
    /\ doing[g].op = "retry"
    /\ TryRename(g, "tidy")
    /\ UNCHANGED calls /\ ProfileOnly

\* Nor here: another writer of the file prevents its removal, or somebody outside.
SaveTidy(g) ==
    LET n == doing[g].name IN
    /\ doing[g].op = "tidy"
    /\ Return(g)
    /\ \/ /\ OpenBy(n) = {} /\ NoFault
          /\ temp' = [temp EXCEPT ![n] = Absent] /\ leftover' = leftover \ {n}
       \/ OpenBy(n) # {} /\ NoFault /\ UNCHANGED <<temp, leftover>>
       \/ temp[n] # Absent /\ Fault /\ leftover' = leftover \cup {n} /\ UNCHANGED temp
    /\ UNCHANGED <<profile, calls, live, spoilt>> /\ ProfileOnly

-----------------------------------------------------------------------------
(* remove(), rename(), duplicate()                                         *)

Delete(g, n) ==
    /\ Call(g) /\ n # Default /\ Exists(n)
    /\ profile' = [profile EXCEPT ![n] = Absent]
    /\ live' = live \ {n}
    /\ UNCHANGED <<temp, doing, spoilt, leftover>> /\ NoFault /\ ProfileOnly

\* Both look whether `to` exists first, and act on what they saw.
CheckTarget(g, op, n, to) ==
    /\ Call(g) /\ ~Exists(to)
    /\ Go(g, [op |-> op, name |-> n, to |-> to])
    /\ UNCHANGED <<profile, temp, live, spoilt, leftover>> /\ NoFault /\ ProfileOnly

Move(g) ==
    LET n == doing[g].name  to == doing[g].to IN
    /\ doing[g].op = "move"
    /\ Return(g)
    /\ \/ /\ Exists(n) /\ NoFault
          /\ profile' = [profile EXCEPT ![to] = profile[n], ![n] = IF n = to THEN @ ELSE Absent]
          /\ live' = (live \ {n}) \cup (IF n \in live THEN {to} ELSE {})
          /\ spoilt' = IF n \in spoilt THEN spoilt \cup {to} ELSE spoilt
       \/ /\ IF Exists(n) THEN Fault ELSE NoFault
          /\ UNCHANGED <<profile, live, spoilt>>
    /\ UNCHANGED <<temp, calls, leftover>> /\ ProfileOnly

Copy(g) ==
    LET n == doing[g].name  to == doing[g].to IN
    /\ doing[g].op = "copy"
    /\ Go(g, [op |-> "open", name |-> to, config |-> Loaded(n)])
    /\ spoilt' = IF Savers(to) # {} THEN spoilt \cup {to} ELSE spoilt
    /\ UNCHANGED <<profile, temp, live, calls, leftover>> /\ NoFault /\ ProfileOnly

-----------------------------------------------------------------------------
(* map_executable(), unmap_executable(): read the table, truncate it and    *)
(* write it in place, with nothing to keep two games apart.                *)

\* profile_for_executable()
ProfileFor(e) ==
    IF mapping.games[e] \in Names /\ Exists(mapping.games[e]) THEN mapping.games[e] ELSE Default

\* The choice is one that the calls which have read the table do not know of.
Chosen(g, e, to) ==
    /\ wanted' = [wanted EXCEPT ![e] = to]
    /\ unwritten' = unwritten \cup {e}
    /\ missed' = [h \in Games |-> IF h = g THEN unwritten \ {e}
                                   ELSE IF h \in Mappers THEN missed[h] \cup {e} ELSE {}]

\* A game maps itself, and unmaps any the table lists.
Remaps(g, e, to) ==
    /\ Call(g)
    /\ IF to = Unmapped THEN mapping.text = "whole" ELSE e = g
    /\ Chosen(g, e, to)
    /\ UNCHANGED <<profile, temp, mapping, live, spoilt, leftover>> /\ NoFault

\* Mutant: the other games' choices are not carried over.
RemapAlone(g, e, to) ==
    /\ Remaps(g, e, to)
    /\ Go(g, [op |-> "map_open", table |-> [NoGames EXCEPT ![e] = to]])

Remap(g, e, to) ==
    /\ Remaps(g, e, to)
    /\ Go(g, [op |-> "map_open", table |-> [mapping.games EXCEPT ![e] = to]])

MapOpen(g) ==
    /\ doing[g].op = "map_open"
    /\ \/ /\ mapping' = EmptyTable /\ unwritten' = Games
          /\ Then(g, "map_write") /\ NoFault /\ UNCHANGED missed
       \/ /\ Return(g) /\ Fault /\ missed' = [missed EXCEPT ![g] = {}]
          /\ UNCHANGED <<mapping, unwritten>>
    /\ UNCHANGED <<profile, temp, calls, live, spoilt, wanted, leftover>>

\* What is left of a table that was not written to its end.
CutShort ==
    \/ UNCHANGED <<mapping, unwritten>>
    \/ mapping' = TornTable /\ unwritten' = Games

\* Over a table another has written meanwhile, the end of that one may stay.
MapWrite(g) ==
    /\ doing[g].op = "map_write"
    /\ Return(g) /\ missed' = [missed EXCEPT ![g] = {}]
    /\ \/ mapping' = WholeTable(doing[g].table) /\ unwritten' = missed[g] /\ NoFault
       \/ mapping # EmptyTable /\ mapping' = TornTable /\ unwritten' = Games /\ NoFault
       \/ CutShort /\ Fault
    /\ UNCHANGED <<profile, temp, calls, live, spoilt, wanted, leftover>>

-----------------------------------------------------------------------------
\* The process ends; what it had written so far stays.
Die(g) ==
    /\ doing[g] # Idle /\ Fault /\ Return(g)
    /\ temp' \in IF doing[g].op = "write" THEN {temp, [temp EXCEPT ![doing[g].name] = Torn]} ELSE {temp}
    /\ leftover' = leftover \cup {n \in Names : /\ g \in Savers(n) /\ doing[g].op # "open"
                                               /\ temp'[n] # Absent}
    /\ IF doing[g].op = "map_write" THEN CutShort ELSE UNCHANGED <<mapping, unwritten>>
    /\ missed' = [missed EXCEPT ![g] = {}]
    /\ UNCHANGED <<profile, calls, live, spoilt, wanted>>

Step(g) ==
    \/ \E n \in Names, c \in Configs : Save(g, n, c)
    \/ SaveOpen(g) \/ SaveWrite(g) \/ SaveRename(g)
    \/ SaveRemove(g) \/ SaveRetry(g) \/ SaveTidy(g)
    \/ \E n \in Names : Delete(g, n)
    \/ \E op \in {"move", "copy"}, n, to \in Names : CheckTarget(g, op, n, to)
    \/ Move(g) \/ Copy(g)
    \/ \E e \in Games, to \in Names \cup {Unmapped} : Remap(g, e, to)
    \/ MapOpen(g) \/ MapWrite(g)
    \/ Die(g)

Next == \E g \in Games : Step(g)
Spec == Init /\ [][Next]_vars

-----------------------------------------------------------------------------
\* A profile that was saved is there and parses, at whatever point a game
\* died, a disk was full or a stream failed, unless a rename was refused or
\* two games saved it at once: profile_store.hpp's "Writes atomically".
Intact == \A n \in live \ spoilt : profile[n] \in Text

\* Every temporary file is one a save in progress still has to deal with, by
\* whichever of its five ways it ends and whoever else was saving, or one whose
\* process died or whose removal was refused from outside; of those, none
\* outlives the next save of the name that ends well.
NoLitter == \A n \in Names : temp[n] # Absent => Savers(n) # {} \/ n \in leftover

\* Whatever games map and unmap at once: a choice the table has stays in it,
\* and the game starts with that profile as long as it was saved and not
\* deleted. Only these are lost, and only until they are made again: choices
\* that a call which had read the table before them overwrites, and all those
\* of a table that was read while truncated, torn or not written to its end.
MappingKept ==
    \A e \in Games \ unwritten :
        /\ mapping.games[e] = wanted[e]
        /\ wanted[e] \in live \ spoilt => ProfileFor(e) = wanted[e]

\* When no call failed and all have returned, every profile saved is there,
\* even if two games saved it: "leaves the previous configuration intact".
SavedIsThere ==
    (faults = 0 /\ \A g \in Games : doing[g] = Idle) => \A n \in live : profile[n] \in Text

=============================================================================
