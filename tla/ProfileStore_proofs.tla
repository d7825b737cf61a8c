------------------------- MODULE ProfileStore_proofs -------------------------
(***************************************************************************)
(* Theorems about ProfileStore, for any number of games, names, calls and  *)
(* faults.                                                                 *)
(*                                                                         *)
(* The argument: a name that is not spoilt has one saver at a time, and    *)
(* how far that saver is says what its temporary file holds.               *)
(***************************************************************************)
EXTENDS ProfileStore, TLAPS

SaveOps == {"open", "write", "rename", "remove", "retry", "tidy"}

\* How far a save is, for a name that is not spoilt.
Progress(g) ==
  /\ doing[g].op \in {"open", "write", "rename", "tidy"}
  /\ doing[g].op = "write" => temp[doing[g].name] = Empty
  /\ doing[g].op = "rename" => temp[doing[g].name] \in Text

SavePath ==
  \A g \in Games :
    doing[g] \in Saving /\ doing[g].name \notin spoilt =>
      /\ Progress(g)
      /\ \A h \in Games : doing[h] \in Saving /\ doing[h].name = doing[g].name => h = g

Whole == \A n \in Names \ spoilt : /\ profile[n] \in Text \cup {Absent}
                                   /\ n \in live => profile[n] \in Text

\* A save that is past opening its temporary file.
Tends(g, n) ==
  doing[g] \in Saving /\ doing[g].name = n /\ doing[g].op \in SaveOps \ {"open"}

Tended == \A n \in Names : temp[n] # Absent => n \in leftover \/ \E g \in Games : Tends(g, n)

\* The table, and every table a call is on its way to write, has the choices
\* it is not known to lack.
Remapped ==
  /\ \A e \in Games \ unwritten : mapping.games[e] = wanted[e]
  /\ \A g \in Mappers : \A e \in Games \ missed[g] : doing[g].table[e] = wanted[e]

\* A call within save() has a save to go on with, and the like.
LEMMA DoingKinds ==
  ASSUME TypeOK, NEW g \in Games
  PROVE  /\ doing[g].op \in SaveOps => doing[g] \in Saving
         /\ doing[g].op \in {"move", "copy"} =>
              doing[g] \in Copying /\ doing[g] \notin Saving \cup Mapping
         /\ doing[g].op \in {"map_open", "map_write"} =>
              doing[g] \in Mapping /\ doing[g] \notin Saving
         /\ doing[g] \in Saving => doing[g].op \in SaveOps /\ doing[g] \notin Mapping
         /\ Idle \notin Saving \cup Mapping
  BY DEF TypeOK, Saving, Copying, Mapping, Idle, SaveOps

\* Going on with a save changes how far it is, and nothing else of it.
LEMMA ThenSaving ==
  ASSUME TypeOK, NEW g \in Games, doing[g] \in Saving, NEW op \in SaveOps, Then(g, op)
  PROVE  /\ doing' \in [Games -> {Idle} \cup Saving \cup Copying \cup Mapping]
         /\ \A h \in Games \ {g} : doing'[h] = doing[h]
         /\ doing'[g] \in Saving /\ doing'[g].op = op
         /\ doing'[g].name = doing[g].name /\ doing'[g].config = doing[g].config
  BY DEF TypeOK, Then, Saving, SaveOps

\* Going on with the table, likewise.
LEMMA ThenMapping ==
  ASSUME TypeOK, NEW g \in Games, doing[g] \in Mapping, Then(g, "map_write")
  PROVE  /\ doing' \in [Games -> {Idle} \cup Saving \cup Copying \cup Mapping]
         /\ \A h \in Games \ {g} : doing'[h] = doing[h]
         /\ doing'[g] \in Mapping /\ doing'[g].op = "map_write"
         /\ doing'[g].table = doing[g].table
  BY DEF TypeOK, Then, Mapping

\* Beginning another step replaces that of one game.
LEMMA GoDoing ==
  ASSUME TypeOK, NEW g \in Games, NEW step \in {Idle} \cup Saving \cup Copying \cup Mapping,
         Go(g, step)
  PROVE  /\ doing' \in [Games -> {Idle} \cup Saving \cup Copying \cup Mapping]
         /\ \A h \in Games \ {g} : doing'[h] = doing[h]
         /\ doing'[g] = step
  BY DEF TypeOK, Go

\* The kinds of call exclude one another.
LEMMA KindsApart ==
  /\ \A x \in Saving : x \notin Copying /\ x \notin Mapping /\ x # Idle
  /\ \A x \in Copying : x \notin Mapping /\ x # Idle
  /\ \A x \in Mapping : x # Idle
<1>1. /\ \A x \in Saving : x.op \in SaveOps
      /\ \A x \in Copying : x.op \in {"move", "copy"}
      /\ \A x \in Mapping : x.op \in {"map_open", "map_write"}
      /\ Idle.op = "idle"
  BY DEF Saving, Copying, Mapping, Idle, SaveOps
<1> QED
  BY <1>1 DEF SaveOps

\* A step within save() ends it or takes it further.
LEMMA SaveStep ==
  ASSUME TypeOK, NEW g \in Games, doing[g] \in Saving,
         Return(g) \/ \E op \in SaveOps : Then(g, op)
  PROVE  /\ \A h \in Games \ {g} : doing'[h] = doing[h]
         /\ doing'[g] \in Saving => doing'[g].name = doing[g].name
         /\ doing'[g] \notin Mapping
<1>1. CASE Return(g)
  BY <1>1, GoDoing, KindsApart DEF Return
<1>2. CASE \E op \in SaveOps : Then(g, op)
  BY <1>2, ThenSaving, KindsApart
<1> QED
  BY <1>1, <1>2

\* What a step of one game may do to a save without disturbing another.
LEMMA OneSaver ==
  ASSUME TypeOK, SavePath, NEW g \in Games,
         \A h \in Games \ {g} : doing'[h] = doing[h],
         spoilt \subseteq spoilt',
         \/ /\ doing[g] \in Saving
            /\ doing'[g] \in Saving => doing'[g].name = doing[g].name
            /\ doing'[g] \in Saving /\ doing[g].name \notin spoilt' => Progress(g)'
            /\ \A n \in Names \ {doing[g].name} : temp'[n] = temp[n]
         \/ doing'[g] \notin Saving /\ temp' = temp
  PROVE  SavePath'
<1> SUFFICES ASSUME NEW h \in Games, doing'[h] \in Saving, doing'[h].name \notin spoilt'
             PROVE  /\ Progress(h)'
                    /\ \A k \in Games : doing'[k] \in Saving /\ doing'[k].name = doing'[h].name
                                          => k = h
  BY DEF SavePath
<1>1. CASE h = g
  BY <1>1 DEF SavePath
<1>2. CASE h # g
  <2>1. /\ doing'[h] = doing[h] /\ Progress(h)
        /\ \A k \in Games : doing[k] \in Saving /\ doing[k].name = doing[h].name => k = h
    BY <1>2 DEF SavePath
  <2>2. temp'[doing[h].name] = temp[doing[h].name]
    BY <1>2, <2>1 DEF Saving
  <2> QED
    BY <1>2, <2>1, <2>2 DEF Progress
<1> QED
  BY <1>1, <1>2

\* A step that is not one of a save leaves the temporary files tended.
LEMMA OtherTender ==
  ASSUME TypeOK, Tended, NEW g \in Games, doing[g] \notin Saving,
         \A h \in Games \ {g} : doing'[h] = doing[h], UNCHANGED <<temp, leftover>>
  PROVE  Tended'
  BY DEF Tended, Tends

\* A step that is not one of the table leaves it as it was.
LEMMA OtherMapper ==
  ASSUME TypeOK, Remapped, NEW g \in Games, doing[g] \notin Mapping, doing'[g] \notin Mapping,
         \A h \in Games \ {g} : doing'[h] = doing[h], UNCHANGED <<mapping, wanted, unwritten, missed>>
  PROVE  Remapped'
<1>1. Mappers' = Mappers
  BY DEF Mappers
<1> QED
  BY <1>1 DEF Remapped, Mappers

\* Every step leaves each game in a call it can be in.
LEMMA NextDoing ==
  ASSUME TypeOK, NEW g \in Games, Step(g)
  PROVE  doing' \in [Games -> {Idle} \cup Saving \cup Copying \cup Mapping]
<1>1. CASE \E n \in Names, c \in Configs : Save(g, n, c)
  <2> PICK n \in Names, c \in Configs : Save(g, n, c)
    BY <1>1
  <2>1. [op |-> "open", name |-> n, config |-> c] \in Saving
    BY DEF Saving
  <2> QED
    BY <2>1, GoDoing DEF Save
<1>2. CASE SaveOpen(g)
  BY <1>2, DoingKinds, ThenSaving, GoDoing
  DEF SaveOpen, SaveOps, Return, TryRename, Replace
<1>3. CASE SaveWrite(g)
  BY <1>3, DoingKinds, ThenSaving, GoDoing
  DEF SaveWrite, SaveOps, Return, TryRename, Replace
<1>4. CASE SaveRename(g)
  BY <1>4, DoingKinds, ThenSaving, GoDoing
  DEF SaveRename, SaveOps, Return, TryRename, Replace
<1>5. CASE SaveRemove(g)
  BY <1>5, DoingKinds, ThenSaving, GoDoing
  DEF SaveRemove, SaveOps, Return, TryRename, Replace
<1>6. CASE SaveRetry(g)
  BY <1>6, DoingKinds, ThenSaving, GoDoing
  DEF SaveRetry, SaveOps, Return, TryRename, Replace
<1>7. CASE SaveTidy(g)
  BY <1>7, DoingKinds, ThenSaving, GoDoing
  DEF SaveTidy, SaveOps, Return, TryRename, Replace
<1>8. CASE \E n \in Names : Delete(g, n)
  BY <1>8 DEF Delete, TypeOK
<1>9. CASE \E op \in {"move", "copy"}, n, to \in Names : CheckTarget(g, op, n, to)
  <2> PICK op \in {"move", "copy"}, n \in Names, to \in Names : CheckTarget(g, op, n, to)
    BY <1>9
  <2>1. [op |-> op, name |-> n, to |-> to] \in Copying
    BY DEF Copying
  <2> QED
    BY <2>1, GoDoing DEF CheckTarget
<1>10. CASE Move(g)
  BY <1>10, GoDoing DEF Move, Return
<1>11. CASE Copy(g)
  <2>1. [op |-> "open", name |-> doing[g].to, config |-> Loaded(doing[g].name)] \in Saving
    BY <1>11, DoingKinds DEF Copy, Copying, Saving, Loaded, Text
  <2> QED
    BY <1>11, <2>1, GoDoing DEF Copy
<1>12. CASE \E e \in Games, to \in Names \cup {Unmapped} : Remap(g, e, to)
  <2> PICK e \in Games, to \in Names \cup {Unmapped} : Remap(g, e, to)
    BY <1>12
  <2>1. [op |-> "map_open", table |-> [mapping.games EXCEPT ![e] = to]] \in Mapping
    BY DEF Mapping, TypeOK, Table
  <2> QED
    BY <2>1, GoDoing DEF Remap, Remaps
<1>13. CASE MapOpen(g)
  BY <1>13, DoingKinds, ThenMapping, GoDoing DEF MapOpen, Return
<1>14. CASE MapWrite(g)
  BY <1>14, DoingKinds, ThenMapping, GoDoing DEF MapWrite, Return
<1>15. CASE Die(g)
  BY <1>15, GoDoing DEF Die, Return
<1> QED
  BY <1>1, <1>2, <1>3, <1>4, <1>5, <1>6, <1>7, <1>8, <1>9, <1>10, <1>11, <1>12, <1>13, <1>14, <1>15
  DEF Step

Rest ==
    /\ profile \in [Names -> Files] /\ temp \in [Names -> Files]
    /\ mapping \in [text : {"empty", "torn", "whole"}, games : Table]
    /\ calls \in [Games -> 0..MaxCalls] /\ faults \in 0..MaxFaults
    /\ live \subseteq Names /\ spoilt \subseteq Names
    /\ wanted \in Table /\ unwritten \subseteq Games /\ missed \in [Games -> SUBSET Games]
    /\ leftover \subseteq Names

\* Every step keeps the files, the tables and the counters.
LEMMA NextRest == ASSUME TypeOK, NEW g \in Games, Step(g) PROVE Rest'
<1> USE BoundsAssumption
    DEF TypeOK, Rest, Call, Fault, NoFault, ProfileOnly, MappingVars, Table, NoGames, Files, Text
<1>1. CASE \E n \in Names, c \in Configs : Save(g, n, c)
  BY <1>1, DoingKinds DEF Save, SaveOps, Saving, Copying, Mapping, Savers
<1>2. CASE SaveOpen(g)
  BY <1>2, DoingKinds DEF SaveOpen, SaveOps, Saving, Copying, Mapping
<1>3. CASE SaveWrite(g)
  BY <1>3, DoingKinds DEF SaveWrite, SaveOps, Saving, Copying, Mapping, Written
<1>4. CASE SaveRename(g)
  BY <1>4, DoingKinds DEF SaveRename, SaveOps, Saving, Copying, Mapping, TryRename, Replace
<1>5. CASE SaveRemove(g)
  BY <1>5, DoingKinds DEF SaveRemove, SaveOps, Saving, Copying, Mapping
<1>6. CASE SaveRetry(g)
  BY <1>6, DoingKinds DEF SaveRetry, SaveOps, Saving, Copying, Mapping, TryRename, Replace
<1>7. CASE SaveTidy(g)
  BY <1>7, DoingKinds DEF SaveTidy, SaveOps, Saving, Copying, Mapping
<1>8. CASE \E n \in Names : Delete(g, n)
  BY <1>8, DoingKinds DEF Delete, SaveOps, Saving, Copying, Mapping
<1>9. CASE \E op \in {"move", "copy"}, n, to \in Names : CheckTarget(g, op, n, to)
  BY <1>9, DoingKinds DEF CheckTarget, SaveOps, Saving, Copying, Mapping
<1>10. CASE Move(g)
  BY <1>10, DoingKinds DEF Move, SaveOps, Saving, Copying, Mapping, Copying, Exists
<1>11. CASE Copy(g)
  BY <1>11, DoingKinds DEF Copy, SaveOps, Saving, Copying, Mapping, Copying
<1>12. CASE \E e \in Games, to \in Names \cup {Unmapped} : Remap(g, e, to)
  <2> PICK e \in Games, to \in Names \cup {Unmapped} : Remap(g, e, to)
    BY <1>12
  <2>1. wanted' \in Table /\ unwritten' \subseteq Games /\ missed' \in [Games -> SUBSET Games]
    BY DEF Remap, Remaps, Chosen
  <2>2. /\ UNCHANGED <<profile, temp, mapping, live, spoilt, leftover, faults>>
        /\ calls' \in [Games -> 0..MaxCalls]
    BY DEF Remap, Remaps
  <2> QED
    BY <2>1, <2>2
<1>13. CASE MapOpen(g)
  BY <1>13 DEF MapOpen, EmptyTable
<1>14. CASE MapWrite(g)
  <2>1. doing[g].table \in Table
    BY <1>14, DoingKinds DEF MapWrite, Mapping
  <2> QED
    BY <1>14, <2>1 DEF MapWrite, CutShort, TornTable, WholeTable
<1>15. CASE Die(g)
  BY <1>15, DoingKinds DEF Die, SaveOps, Saving, CutShort, TornTable
<1> QED
  BY <1>1, <1>2, <1>3, <1>4, <1>5, <1>6, <1>7, <1>8, <1>9, <1>10, <1>11, <1>12, <1>13, <1>14, <1>15
  DEF Step

\* Every step keeps the types.
LEMMA NextTypeOK == TypeOK /\ [Next]_vars => TypeOK'
<1>1. ASSUME TypeOK, NEW g \in Games, Step(g) PROVE TypeOK'
  BY <1>1, NextDoing, NextRest DEF TypeOK, Rest
<1>2. CASE UNCHANGED vars
  BY <1>2 DEF vars, TypeOK
<1> QED
  BY <1>1, <1>2 DEF Next

\* Every step keeps track of how far each save is.
LEMMA NextSavePath == ASSUME TypeOK, SavePath, NEW g \in Games, Step(g) PROVE SavePath'
<1> USE DEF TypeOK, SavePath, Progress, ProfileOnly, MappingVars
<1>1. CASE \E n \in Names, c \in Configs : Save(g, n, c)
  <2> PICK n \in Names, c \in Configs : Save(g, n, c)
    BY <1>1
  <2>1. [op |-> "open", name |-> n, config |-> c] \in Saving
    BY DEF Saving
  <2> QED
    BY <2>1, DoingKinds, GoDoing, NextDoing, NextRest DEF Save, Savers, Text, Files
<1>2. CASE SaveOpen(g)
  <2>1. doing[g] \in Saving /\ doing[g].name \in Names /\ doing[g].config \in Text
    BY <1>2, DoingKinds DEF SaveOpen, SaveOps, Saving, Text
  <2>2. /\ \A h \in Games \ {g} : doing'[h] = doing[h]
        /\ doing'[g] \in Saving => doing'[g].name = doing[g].name
    <3>1. Return(g) \/ \E op \in SaveOps : Then(g, op)
      BY <1>2 DEF SaveOpen, SaveOps
    <3> QED
      BY <2>1, <3>1, SaveStep
  <2>3. /\ spoilt \subseteq spoilt'
        /\ \A n \in Names \ {doing[g].name} : temp'[n] = temp[n]
    BY <1>2, <2>1 DEF SaveOpen, TypeOK
  <2>4. ASSUME doing'[g] \in Saving, doing[g].name \notin spoilt' PROVE Progress(g)'
    BY <1>2, <2>1, <2>2, <2>4, DoingKinds, ThenSaving, GoDoing, TextsDiffer
    DEF SaveOpen, Return, SaveOps, Progress, SavePath, TypeOK
  <2> QED
    BY <2>1, <2>2, <2>3, <2>4, OneSaver
<1>3. CASE SaveWrite(g)
  <2>1. doing[g] \in Saving /\ doing[g].name \in Names /\ doing[g].config \in Text
    BY <1>3, DoingKinds DEF SaveWrite, SaveOps, Saving, Text
  <2>2. /\ \A h \in Games \ {g} : doing'[h] = doing[h]
        /\ doing'[g] \in Saving => doing'[g].name = doing[g].name
    <3>1. Return(g) \/ \E op \in SaveOps : Then(g, op)
      BY <1>3 DEF SaveWrite, SaveOps
    <3> QED
      BY <2>1, <3>1, SaveStep
  <2>3. /\ spoilt \subseteq spoilt'
        /\ \A n \in Names \ {doing[g].name} : temp'[n] = temp[n]
    BY <1>3, <2>1 DEF SaveWrite, TypeOK, Written
  <2>4. ASSUME doing'[g] \in Saving, doing[g].name \notin spoilt' PROVE Progress(g)'
    BY <1>3, <2>1, <2>2, <2>4, DoingKinds, ThenSaving, GoDoing, TextsDiffer
    DEF SaveWrite, Return, SaveOps, Progress, SavePath, TypeOK, Written
  <2> QED
    BY <2>1, <2>2, <2>3, <2>4, OneSaver
<1>4. CASE SaveRename(g)
  <2>1. doing[g] \in Saving /\ doing[g].name \in Names /\ doing[g].config \in Text
    BY <1>4, DoingKinds DEF SaveRename, SaveOps, Saving, Text
  <2>2. /\ \A h \in Games \ {g} : doing'[h] = doing[h]
        /\ doing'[g] \in Saving => doing'[g].name = doing[g].name
    <3>1. Return(g) \/ \E op \in SaveOps : Then(g, op)
      BY <1>4 DEF SaveRename, SaveOps, TryRename, Replace
    <3> QED
      BY <2>1, <3>1, SaveStep
  <2>3. /\ spoilt \subseteq spoilt'
        /\ \A n \in Names \ {doing[g].name} : temp'[n] = temp[n]
    BY <1>4, <2>1 DEF SaveRename, TypeOK, TryRename, Replace
  <2>4. ASSUME doing'[g] \in Saving, doing[g].name \notin spoilt' PROVE Progress(g)'
    BY <1>4, <2>1, <2>2, <2>4, DoingKinds, ThenSaving, GoDoing, TextsDiffer
    DEF SaveRename, Return, SaveOps, Progress, SavePath, TypeOK, TryRename, Replace
  <2> QED
    BY <2>1, <2>2, <2>3, <2>4, OneSaver
<1>5. CASE SaveRemove(g)
  <2>1. doing[g] \in Saving /\ doing[g].name \in Names /\ doing[g].config \in Text
    BY <1>5, DoingKinds DEF SaveRemove, SaveOps, Saving, Text
  <2>2. /\ \A h \in Games \ {g} : doing'[h] = doing[h]
        /\ doing'[g] \in Saving => doing'[g].name = doing[g].name
    <3>1. Return(g) \/ \E op \in SaveOps : Then(g, op)
      BY <1>5 DEF SaveRemove, SaveOps
    <3> QED
      BY <2>1, <3>1, SaveStep
  <2>3. /\ spoilt \subseteq spoilt'
        /\ \A n \in Names \ {doing[g].name} : temp'[n] = temp[n]
    BY <1>5, <2>1 DEF SaveRemove, TypeOK
  <2>4. ASSUME doing'[g] \in Saving, doing[g].name \notin spoilt' PROVE Progress(g)'
    BY <1>5, <2>1, <2>2, <2>4, DoingKinds, ThenSaving, GoDoing, TextsDiffer
    DEF SaveRemove, Return, SaveOps, Progress, SavePath, TypeOK
  <2> QED
    BY <2>1, <2>2, <2>3, <2>4, OneSaver
<1>6. CASE SaveRetry(g)
  <2>1. doing[g] \in Saving /\ doing[g].name \in Names /\ doing[g].config \in Text
    BY <1>6, DoingKinds DEF SaveRetry, SaveOps, Saving, Text
  <2>2. /\ \A h \in Games \ {g} : doing'[h] = doing[h]
        /\ doing'[g] \in Saving => doing'[g].name = doing[g].name
    <3>1. Return(g) \/ \E op \in SaveOps : Then(g, op)
      BY <1>6 DEF SaveRetry, SaveOps, TryRename, Replace
    <3> QED
      BY <2>1, <3>1, SaveStep
  <2>3. /\ spoilt \subseteq spoilt'
        /\ \A n \in Names \ {doing[g].name} : temp'[n] = temp[n]
    BY <1>6, <2>1 DEF SaveRetry, TypeOK, TryRename, Replace
  <2>4. ASSUME doing'[g] \in Saving, doing[g].name \notin spoilt' PROVE Progress(g)'
    BY <1>6, <2>1, <2>2, <2>4, DoingKinds, ThenSaving, GoDoing, TextsDiffer
    DEF SaveRetry, Return, SaveOps, Progress, SavePath, TypeOK, TryRename, Replace
  <2> QED
    BY <2>1, <2>2, <2>3, <2>4, OneSaver
<1>7. CASE SaveTidy(g)
  <2>1. doing[g] \in Saving /\ doing[g].name \in Names /\ doing[g].config \in Text
    BY <1>7, DoingKinds DEF SaveTidy, SaveOps, Saving, Text
  <2>2. /\ \A h \in Games \ {g} : doing'[h] = doing[h]
        /\ doing'[g] \in Saving => doing'[g].name = doing[g].name
    <3>1. Return(g) \/ \E op \in SaveOps : Then(g, op)
      BY <1>7 DEF SaveTidy, SaveOps
    <3> QED
      BY <2>1, <3>1, SaveStep
  <2>3. /\ spoilt \subseteq spoilt'
        /\ \A n \in Names \ {doing[g].name} : temp'[n] = temp[n]
    BY <1>7, <2>1 DEF SaveTidy, TypeOK
  <2>4. ASSUME doing'[g] \in Saving, doing[g].name \notin spoilt' PROVE Progress(g)'
    BY <1>7, <2>1, <2>2, <2>4, DoingKinds, ThenSaving, GoDoing, TextsDiffer
    DEF SaveTidy, Return, SaveOps, Progress, SavePath, TypeOK
  <2> QED
    BY <2>1, <2>2, <2>3, <2>4, OneSaver
<1>8. CASE \E n \in Names : Delete(g, n)
  BY <1>8, DoingKinds DEF Delete, Savers, Text, Files
<1>9. CASE \E op \in {"move", "copy"}, n, to \in Names : CheckTarget(g, op, n, to)
  <2> PICK op \in {"move", "copy"}, n \in Names, to \in Names : CheckTarget(g, op, n, to)
    BY <1>9
  <2>1. /\ [op |-> op, name |-> n, to |-> to] \in Copying
        /\ [op |-> op, name |-> n, to |-> to] \notin Saving
    BY DEF Copying, Saving
  <2> QED
    BY <2>1, DoingKinds, GoDoing DEF CheckTarget, Savers, Text, Files
<1>10. CASE Move(g)
  BY <1>10, DoingKinds, GoDoing DEF Move, Return, Copying, Exists, Savers, Text, Files
<1>11. CASE Copy(g)
  <2>1. doing[g] \in Copying /\ doing[g].to \in Names
    BY <1>11, DoingKinds DEF Copy, Copying
  <2>2. [op |-> "open", name |-> doing[g].to, config |-> Loaded(doing[g].name)] \in Saving
    BY <2>1 DEF Copying, Saving, Loaded, Text
  <2> QED
    BY <1>11, <2>1, <2>2, DoingKinds, GoDoing DEF Copy, Savers, Text, Files
<1>12. CASE \E e \in Games, to \in Names \cup {Unmapped} : Remap(g, e, to)
  <2> PICK e \in Games, to \in Names \cup {Unmapped} : Remap(g, e, to)
    BY <1>12
  <2>1. /\ [op |-> "map_open", table |-> [mapping.games EXCEPT ![e] = to]] \in Mapping
        /\ [op |-> "map_open", table |-> [mapping.games EXCEPT ![e] = to]] \notin Saving
    BY DEF Mapping, Saving, TypeOK, Table
  <2> QED
    BY <2>1, DoingKinds, GoDoing DEF Remap, Remaps, Savers, Text, Files
<1>13. CASE MapOpen(g)
  <2>1. /\ \A h \in Games \ {g} : doing'[h] = doing[h]
        /\ doing'[g] \notin Saving
    BY <1>13, DoingKinds, ThenMapping, GoDoing, KindsApart DEF MapOpen, Return
  <2> QED
    BY <1>13, <2>1, OneSaver DEF MapOpen
<1>14. CASE MapWrite(g)
  BY <1>14, DoingKinds, GoDoing, OneSaver DEF MapWrite, Return
<1>15. CASE Die(g)
  <2>1. \A h \in Games \ {g} : doing'[h] = doing[h]
    BY <1>15, GoDoing DEF Die, Return
  <2>2. doing'[g] \notin Saving /\ spoilt' = spoilt
    BY <1>15, GoDoing, DoingKinds DEF Die, Return
  <2>3. CASE doing[g] \in Saving
    BY <1>15, <2>1, <2>2, <2>3, OneSaver DEF Die, TypeOK
  <2>4. CASE doing[g] \notin Saving
    BY <1>15, <2>1, <2>2, <2>4, DoingKinds, OneSaver DEF Die, SaveOps
  <2> QED
    BY <2>3, <2>4
<1> QED
  BY <1>1, <1>2, <1>3, <1>4, <1>5, <1>6, <1>7, <1>8, <1>9, <1>10, <1>11, <1>12, <1>13, <1>14, <1>15
  DEF Step

\* Every step keeps the profiles that are not spoilt whole.
LEMMA NextWhole == ASSUME TypeOK, SavePath, Whole, NEW g \in Games, Step(g) PROVE Whole'
<1> USE TextsDiffer DEF TypeOK, SavePath, Progress, Whole, SaveOps, Text, Files, CanRename
<1>1. CASE \E n \in Names, c \in Configs : Save(g, n, c)
  BY <1>1 DEF Save, Savers
<1>2. CASE SaveOpen(g)
  BY <1>2 DEF SaveOpen
<1>3. CASE SaveWrite(g)
  BY <1>3 DEF SaveWrite
<1>4. CASE SaveRename(g)
  BY <1>4, DoingKinds, ThenSaving, GoDoing
  DEF SaveRename, Return, TryRename, Replace
<1>5. CASE SaveRemove(g)
  BY <1>5, DoingKinds DEF SaveRemove, Saving
<1>6. CASE SaveRetry(g)
  BY <1>6, DoingKinds, ThenSaving, GoDoing
  DEF SaveRetry, Return, TryRename, Replace
<1>7. CASE SaveTidy(g)
  BY <1>7 DEF SaveTidy
<1>8. CASE \E n \in Names : Delete(g, n)
  BY <1>8 DEF Delete
<1>9. CASE \E op \in {"move", "copy"}, n, to \in Names : CheckTarget(g, op, n, to)
  BY <1>9 DEF CheckTarget, Savers
<1>10. CASE Move(g)
  BY <1>10, DoingKinds, GoDoing DEF Move, Return, Copying, Exists
<1>11. CASE Copy(g)
  BY <1>11 DEF Copy
<1>12. CASE \E e \in Games, to \in Names \cup {Unmapped} : Remap(g, e, to)
  BY <1>12 DEF Remap, Remaps
<1>13. CASE MapOpen(g)
  BY <1>13 DEF MapOpen
<1>14. CASE MapWrite(g)
  BY <1>14 DEF MapWrite
<1>15. CASE Die(g)
  BY <1>15 DEF Die
<1> QED
  BY <1>1, <1>2, <1>3, <1>4, <1>5, <1>6, <1>7, <1>8, <1>9, <1>10, <1>11, <1>12, <1>13, <1>14, <1>15
  DEF Step

\* Every step leaves somebody to tend a temporary file.
LEMMA NextTended == ASSUME TypeOK, Tended, NEW g \in Games, Step(g) PROVE Tended'
<1>1. CASE \E n \in Names, c \in Configs : Save(g, n, c)
  <2> PICK n \in Names, c \in Configs : Save(g, n, c)
    BY <1>1
  <2>1. [op |-> "open", name |-> n, config |-> c] \in Saving
    BY DEF Saving
  <2> QED
    BY <2>1, DoingKinds, GoDoing, OtherTender DEF Save, Call, ProfileOnly, MappingVars
<1>2. CASE SaveOpen(g)
  BY <1>2, DoingKinds, ThenSaving, GoDoing
  DEF SaveOpen, Return, OpenBy, Savers, TypeOK, Tended, Tends, ProfileOnly, MappingVars, SaveOps
<1>3. CASE SaveWrite(g)
  BY <1>3, DoingKinds, ThenSaving, GoDoing
  DEF SaveWrite, Return, OpenBy, Savers, TypeOK, Tended, Tends, ProfileOnly, MappingVars, SaveOps,
      Written
<1>4. CASE SaveRename(g)
  BY <1>4, DoingKinds, ThenSaving, GoDoing
  DEF SaveRename, Return, OpenBy, Savers, TypeOK, Tended, Tends, ProfileOnly, MappingVars, SaveOps,
      TryRename, Replace
<1>5. CASE SaveRemove(g)
  BY <1>5, DoingKinds, ThenSaving, GoDoing
  DEF SaveRemove, Return, OpenBy, Savers, TypeOK, Tended, Tends, ProfileOnly, MappingVars, SaveOps
<1>6. CASE SaveRetry(g)
  BY <1>6, DoingKinds, ThenSaving, GoDoing
  DEF SaveRetry, Return, OpenBy, Savers, TypeOK, Tended, Tends, ProfileOnly, MappingVars, SaveOps,
      TryRename, Replace
<1>7. CASE SaveTidy(g)
  BY <1>7, DoingKinds, ThenSaving, GoDoing
  DEF SaveTidy, Return, OpenBy, Savers, TypeOK, Tended, Tends, ProfileOnly, MappingVars, SaveOps
<1>8. CASE \E n \in Names : Delete(g, n)
  BY <1>8 DEF Delete, Tended, Tends, ProfileOnly, MappingVars
<1>9. CASE \E op \in {"move", "copy"}, n, to \in Names : CheckTarget(g, op, n, to)
  <2> PICK op \in {"move", "copy"}, n \in Names, to \in Names : CheckTarget(g, op, n, to)
    BY <1>9
  <2>1. /\ [op |-> op, name |-> n, to |-> to] \in Copying
        /\ [op |-> op, name |-> n, to |-> to] \notin Saving
    BY DEF Copying, Saving
  <2> QED
    BY <2>1, DoingKinds, GoDoing, OtherTender DEF CheckTarget, Call, ProfileOnly, MappingVars
<1>10. CASE Move(g)
  BY <1>10, DoingKinds, GoDoing, OtherTender DEF Move, Return, ProfileOnly, MappingVars
<1>11. CASE Copy(g)
  <2>1. doing[g] \in Copying /\ doing[g].to \in Names
    BY <1>11, DoingKinds DEF Copy, Copying
  <2>2. [op |-> "open", name |-> doing[g].to, config |-> Loaded(doing[g].name)] \in Saving
    BY <2>1 DEF Copying, Saving, Loaded, Text
  <2> QED
    BY <1>11, <2>1, <2>2, DoingKinds, GoDoing, OtherTender DEF Copy, ProfileOnly, MappingVars
<1>12. CASE \E e \in Games, to \in Names \cup {Unmapped} : Remap(g, e, to)
  <2> PICK e \in Games, to \in Names \cup {Unmapped} : Remap(g, e, to)
    BY <1>12
  <2>1. /\ [op |-> "map_open", table |-> [mapping.games EXCEPT ![e] = to]] \in Mapping
        /\ [op |-> "map_open", table |-> [mapping.games EXCEPT ![e] = to]] \notin Saving
    BY DEF Mapping, Saving, TypeOK, Table
  <2> QED
    BY <2>1, DoingKinds, GoDoing, OtherTender DEF Remap, Remaps, Call
<1>13. CASE MapOpen(g)
  BY <1>13, DoingKinds, ThenMapping, GoDoing, OtherTender DEF MapOpen, Return
<1>14. CASE MapWrite(g)
  BY <1>14, DoingKinds, GoDoing, OtherTender DEF MapWrite, Return
<1>15. CASE Die(g)
  <2>1. /\ doing'[g] \notin Saving /\ \A h \in Games \ {g} : doing'[h] = doing[h]
    BY <1>15, GoDoing, KindsApart DEF Die, Return
  <2> SUFFICES ASSUME NEW n \in Names, temp'[n] # Absent, n \notin leftover'
               PROVE  \E h \in Games : Tends(h, n)'
    BY DEF Tended
  <2>2. ~Tends(g, n) /\ n \notin leftover
    BY <1>15 DEF Die, Tends, Savers
  <2>3. temp[n] # Absent
    BY <1>15, <2>2, DoingKinds DEF Die, Tends, TypeOK, SaveOps
  <2>4. PICK h \in Games : Tends(h, n)
    BY <2>2, <2>3 DEF Tended
  <2> QED
    BY <2>1, <2>2, <2>4 DEF Tends
<1> QED
  BY <1>1, <1>2, <1>3, <1>4, <1>5, <1>6, <1>7, <1>8, <1>9, <1>10, <1>11, <1>12, <1>13, <1>14, <1>15
  DEF Step

\* Every step keeps the table, or the call that writes it, what was chosen.
LEMMA NextRemapped == ASSUME TypeOK, Remapped, NEW g \in Games, Step(g) PROVE Remapped'
<1>1. CASE \E n \in Names, c \in Configs : Save(g, n, c)
  <2> PICK n \in Names, c \in Configs : Save(g, n, c)
    BY <1>1
  <2>1. [op |-> "open", name |-> n, config |-> c] \in Saving
    BY DEF Saving
  <2> QED
    BY <2>1, DoingKinds, GoDoing, KindsApart, OtherMapper DEF Save, Call, ProfileOnly, MappingVars
<1>2. CASE SaveOpen(g)
  <2>1. doing[g] \in Saving /\ (Return(g) \/ \E op \in SaveOps : Then(g, op))
    BY <1>2, DoingKinds DEF SaveOpen, SaveOps
  <2> QED
    BY <1>2, <2>1, SaveStep, KindsApart, OtherMapper DEF SaveOpen, ProfileOnly, MappingVars
<1>3. CASE SaveWrite(g)
  <2>1. doing[g] \in Saving /\ (Return(g) \/ \E op \in SaveOps : Then(g, op))
    BY <1>3, DoingKinds DEF SaveWrite, SaveOps
  <2> QED
    BY <1>3, <2>1, SaveStep, KindsApart, OtherMapper DEF SaveWrite, ProfileOnly, MappingVars
<1>4. CASE SaveRename(g)
  <2>1. doing[g] \in Saving /\ (Return(g) \/ \E op \in SaveOps : Then(g, op))
    BY <1>4, DoingKinds DEF SaveRename, SaveOps, TryRename, Replace
  <2> QED
    BY <1>4, <2>1, SaveStep, KindsApart, OtherMapper DEF SaveRename, ProfileOnly, MappingVars
<1>5. CASE SaveRemove(g)
  <2>1. doing[g] \in Saving /\ (Return(g) \/ \E op \in SaveOps : Then(g, op))
    BY <1>5, DoingKinds DEF SaveRemove, SaveOps
  <2> QED
    BY <1>5, <2>1, SaveStep, KindsApart, OtherMapper DEF SaveRemove, ProfileOnly, MappingVars
<1>6. CASE SaveRetry(g)
  <2>1. doing[g] \in Saving /\ (Return(g) \/ \E op \in SaveOps : Then(g, op))
    BY <1>6, DoingKinds DEF SaveRetry, SaveOps, TryRename, Replace
  <2> QED
    BY <1>6, <2>1, SaveStep, KindsApart, OtherMapper DEF SaveRetry, ProfileOnly, MappingVars
<1>7. CASE SaveTidy(g)
  <2>1. doing[g] \in Saving /\ (Return(g) \/ \E op \in SaveOps : Then(g, op))
    BY <1>7, DoingKinds DEF SaveTidy, SaveOps
  <2> QED
    BY <1>7, <2>1, SaveStep, KindsApart, OtherMapper DEF SaveTidy, ProfileOnly, MappingVars
<1>8. CASE \E n \in Names : Delete(g, n)
  BY <1>8 DEF Delete, Remapped, Mappers, ProfileOnly, MappingVars
<1>9. CASE \E op \in {"move", "copy"}, n, to \in Names : CheckTarget(g, op, n, to)
  <2> PICK op \in {"move", "copy"}, n \in Names, to \in Names : CheckTarget(g, op, n, to)
    BY <1>9
  <2>1. /\ [op |-> op, name |-> n, to |-> to] \in Copying
        /\ [op |-> op, name |-> n, to |-> to] \notin Saving
    BY DEF Copying, Saving
  <2> QED
    BY <2>1, DoingKinds, GoDoing, KindsApart, OtherMapper DEF CheckTarget, Call, ProfileOnly, MappingVars
<1>10. CASE Move(g)
  BY <1>10, DoingKinds, GoDoing, KindsApart, OtherMapper DEF Move, Return, ProfileOnly, MappingVars
<1>11. CASE Copy(g)
  <2>1. doing[g] \in Copying /\ doing[g].to \in Names
    BY <1>11, DoingKinds DEF Copy, Copying
  <2>2. [op |-> "open", name |-> doing[g].to, config |-> Loaded(doing[g].name)] \in Saving
    BY <2>1 DEF Copying, Saving, Loaded, Text
  <2> QED
    BY <1>11, <2>1, <2>2, DoingKinds, GoDoing, KindsApart, OtherMapper DEF Copy, ProfileOnly, MappingVars
<1>12. CASE \E e \in Games, to \in Names \cup {Unmapped} : Remap(g, e, to)
  <2> PICK e \in Games, to \in Names \cup {Unmapped} : Remap(g, e, to)
    BY <1>12
  <2> DEFINE step == [op |-> "map_open", table |-> [mapping.games EXCEPT ![e] = to]]
  <2>1. step \in Mapping
    BY DEF Mapping, TypeOK, Table
  <2>2. doing'[g] = step /\ \A h \in Games \ {g} : doing'[h] = doing[h]
    BY <2>1, GoDoing DEF Remap
  <2>3. /\ \A f \in Games \ {e} : wanted'[f] = wanted[f]
        /\ wanted'[e] = to /\ e \in unwritten' /\ unwritten \subseteq unwritten'
        /\ mapping' = mapping /\ missed'[g] = unwritten \ {e}
        /\ \A h \in Mappers \ {g} : missed'[h] = missed[h] \cup {e}
    BY DEF Remap, Remaps, Chosen, TypeOK, Table, Mappers
  <2>4. \A f \in Games \ unwritten' : mapping'.games[f] = wanted'[f]
    BY <2>3 DEF Remapped
  <2>5. \A f \in Games \ missed'[g] : doing'[g].table[f] = wanted'[f]
    <3>1. doing'[g].table = [mapping.games EXCEPT ![e] = to] /\ mapping.games \in Table
      BY <2>2 DEF TypeOK
    <3> QED
      BY <2>3, <3>1 DEF Remapped, Table
  <2>6. ASSUME NEW h \in Mappers', h # g, NEW f \in Games \ missed'[h]
        PROVE  doing'[h].table[f] = wanted'[f]
    BY <2>2, <2>3, <2>6 DEF Remapped, Mappers
  <2> QED
    BY <2>4, <2>5, <2>6 DEF Remapped
<1>13. CASE MapOpen(g)
  <2>1. doing[g] \in Mapping
    BY <1>13, DoingKinds DEF MapOpen
  <2>2. CASE Then(g, "map_write") /\ unwritten' = Games /\ UNCHANGED missed
    BY <1>13, <2>1, <2>2, ThenMapping DEF MapOpen, Remapped, Mappers
  <2>3. CASE Return(g) /\ UNCHANGED <<mapping, unwritten>> /\ missed' = [missed EXCEPT ![g] = {}]
    BY <1>13, <2>3, GoDoing, KindsApart DEF MapOpen, Return, Remapped, Mappers, TypeOK
  <2> QED
    BY <1>13, <2>2, <2>3 DEF MapOpen
<1>14. CASE MapWrite(g)
  <2>1. doing[g] \in Mapping /\ g \in Mappers
    BY <1>14, DoingKinds DEF MapWrite, Mappers
  <2>2. /\ doing'[g] \notin Mapping /\ \A h \in Games \ {g} : doing'[h] = doing[h]
        /\ \A h \in Games \ {g} : missed'[h] = missed[h]
    BY <1>14, GoDoing, KindsApart DEF MapWrite, Return, TypeOK
  <2>3. \A h \in Mappers' : \A f \in Games \ missed'[h] : doing'[h].table[f] = wanted'[f]
    BY <1>14, <2>2 DEF MapWrite, Remapped, Mappers
  <2>4. \A f \in Games \ unwritten' : mapping'.games[f] = wanted'[f]
    BY <1>14, <2>1 DEF MapWrite, CutShort, WholeTable, Remapped
  <2> QED
    BY <2>3, <2>4 DEF Remapped
<1>15. CASE Die(g)
  <2>1. /\ doing'[g] \notin Mapping /\ \A h \in Games \ {g} : doing'[h] = doing[h]
        /\ \A h \in Games \ {g} : missed'[h] = missed[h]
    BY <1>15, GoDoing, KindsApart DEF Die, Return, TypeOK
  <2>2. \A h \in Mappers' : \A f \in Games \ missed'[h] : doing'[h].table[f] = wanted'[f]
    BY <1>15, <2>1 DEF Die, Remapped, Mappers
  <2>3. \A f \in Games \ unwritten' : mapping'.games[f] = wanted'[f]
    BY <1>15 DEF Die, CutShort, Remapped
  <2> QED
    BY <2>2, <2>3 DEF Remapped
<1> QED
  BY <1>1, <1>2, <1>3, <1>4, <1>5, <1>6, <1>7, <1>8, <1>9, <1>10, <1>11, <1>12, <1>13, <1>14, <1>15
  DEF Step

Invariant == SavePath /\ Whole /\ Tended /\ Remapped

\* The strengthened invariant is inductive.
LEMMA NextInvariant == TypeOK /\ Invariant /\ [Next]_vars => Invariant'
<1>1. ASSUME TypeOK, Invariant, NEW g \in Games, Step(g) PROVE Invariant'
  BY <1>1, NextSavePath, NextWhole, NextTended, NextRemapped DEF Invariant
<1>2. ASSUME Invariant, UNCHANGED vars PROVE Invariant'
  BY <1>2 DEF vars, Invariant, SavePath, Progress, Whole, Tended, Tends, Remapped, Mappers
<1> QED
  BY <1>1, <1>2 DEF Next

\* A machine with no call in progress satisfies it.
LEMMA InitInvariant == Init => TypeOK /\ Invariant
<1> SUFFICES ASSUME Init PROVE TypeOK /\ Invariant
  OBVIOUS
<1>1. TypeOK
  <2>1. live \subseteq Names /\ mapping \in [text : {"empty", "torn", "whole"}, games : Table]
    BY DefaultIsAName DEF Init, EmptyTable, Table, NoGames
  <2> QED
    BY <2>1, DefaultIsAName, BoundsAssumption DEF Init, TypeOK, Table, NoGames, Files, Text
<1>2. \A g \in Games : doing[g] = Idle /\ Idle \notin Saving \cup Mapping
  BY <1>1, DoingKinds DEF Init
<1>3. SavePath /\ Tended
  BY <1>2 DEF Init, SavePath, Tended
<1>4. Whole
  BY DEF Init, Whole, Text
<1>5. Remapped
  BY <1>2 DEF Init, Remapped, Mappers, EmptyTable
<1> QED
  BY <1>1, <1>3, <1>4, <1>5 DEF Invariant

\* The type invariant of profile_store.cpp's files, table and calls.
THEOREM TypeCorrect == Spec => []TypeOK
  BY InitInvariant, NextTypeOK, PTL DEF Spec

\* A profile that was saved parses wherever a game dies or a write fails, as
\* long as no rename was refused and no two games saved it at once.
THEOREM ProfilesIntact == Spec => []Intact
<1>1. TypeOK /\ Invariant => Intact
  BY DEF TypeOK, Invariant, Whole, Intact
<1> QED
  BY <1>1, InitInvariant, NextTypeOK, NextInvariant, PTL DEF Spec

\* Every <name>.json.tmp has a save in progress that still has to deal with it,
\* or is what a dead process or a removal refused from outside left behind.
THEOREM NothingLeftBehind == Spec => []NoLitter
<1>1. Invariant => NoLitter
  BY DEF Invariant, Tended, Tends, NoLitter, Savers
<1> QED
  BY <1>1, InitInvariant, NextTypeOK, NextInvariant, PTL DEF Spec

\* Whatever games map and unmap at once, a choice the table has stays in it
\* unless a call that read the table before it overwrites it or the table is lost.
THEOREM ChoicesKept == Spec => []MappingKept
<1>1. TypeOK /\ Invariant => MappingKept
  <2> SUFFICES ASSUME TypeOK, Invariant, NEW e \in Games \ unwritten
               PROVE  /\ mapping.games[e] = wanted[e]
                      /\ wanted[e] \in live \ spoilt => ProfileFor(e) = wanted[e]
    BY DEF MappingKept
  <2>1. mapping.games[e] = wanted[e]
    BY DEF Invariant, Remapped
  <2>2. \A n \in live \ spoilt : n \in Names /\ Exists(n)
    BY TextsDiffer DEF TypeOK, Invariant, Whole, Exists, Text, Absent, Defaults
  <2> QED
    BY <2>1, <2>2 DEF ProfileFor
<1> QED
  BY <1>1, InitInvariant, NextTypeOK, NextInvariant, PTL DEF Spec
=============================================================================
