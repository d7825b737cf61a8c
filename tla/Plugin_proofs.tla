--------------------------- MODULE Plugin_proofs ----------------------------
(***************************************************************************)
(* The plugin: that whatever TeamSpeak calls and answers, PluginCore's     *)
(* callbacks keep a cache and send messages of the right kind, and that    *)
(* under a TeamSpeak client with several tabs, which is a TeamSpeak as     *)
(* PluginCore expects one, no change of the connection goes unannounced.   *)
(*                                                                         *)
(* The invariant relates four things that are apart in time: the status of *)
(* the user's tab, the callbacks that have yet to tell the plugin of it,   *)
(* last_connection_, and the broadcasts a running callback has yet to make.*)
(*                                                                         *)
(* The second half proves that the overlay shows the tab the user is on,   *)
(* by an invariant of what each callback still to come says of its tab and *)
(* of the cache the running callback will leave.                           *)
(***************************************************************************)
EXTENDS PluginTabs, SequenceTheorems, FunctionTheorems, FiniteSetTheorems,
        WellFoundedInduction, TLAPS

-----------------------------------------------------------------------------
(* Sequences. *)

\* A nonempty set of natural numbers has a least element, which is the one
\* that Min, and so SelectInSeq, chooses.
LEMMA LeastExists ==
  ASSUME NEW T \in SUBSET Nat, T # {}
  PROVE  \E x \in T : \A y \in T : x <= y
<1> DEFINE Below == {p \in Nat \X Nat : p[1] < p[2]}
<1>1. IsWellFoundedOn(Below, Nat)
  BY NatLessThanWellFounded DEF OpToRel
<1> HIDE DEF Below
<1>2. PICK x \in T : \A y \in T : <<y, x>> \notin Below
  BY <1>1, WFMin
<1>3. \A y \in T : ~(y < x)
  BY <1>2 DEF Below
<1> QED BY <1>3

\* What holds at 0 and passes from each number to the next holds up to N.
LEMMA UpTo ==
  ASSUME NEW N \in Nat, NEW T, 0 \in T, \A n \in 0..N - 1 : n \in T => n + 1 \in T
  PROVE  N \in T
<1> DEFINE F == {n \in 0..N : n \notin T}
<1>1. SUFFICES ASSUME F # {} PROVE FALSE
  OBVIOUS
<1>2. F \in SUBSET Nat
  OBVIOUS
<1> HIDE DEF F
<1>3. PICK x \in F : \A y \in F : x <= y
  BY <1>1, <1>2, LeastExists
<1>4. x \in 0..N /\ x \notin T /\ x # 0
  BY <1>3 DEF F
<1>5. x - 1 \in 0..N - 1 /\ x - 1 \notin F
  BY <1>3, <1>4
<1>6. x - 1 \in T
  BY <1>4, <1>5 DEF F
<1>7. x \in T
  BY <1>4, <1>5, <1>6
<1> QED BY <1>4, <1>7

\* Lists of steps one after the other are a list of steps.
LEMMA FlattenWithin ==
  ASSUME NEW S, NEW seqs \in Seq(Seq(S))
  PROVE  FlattenSeq(seqs) \in Seq(S)
<1> DEFINE N == Len(seqs)
           Upto(k, g) == g = [n \in 1..k |->
                                IF n = 1 THEN seqs[n] ELSE g[n - 1] \o seqs[n]]
           T == {k \in 0..N : \E g : Upto(k, g)}
           flat == CHOOSE g : Upto(N, g)
<1>0. N \in Nat /\ \A n \in 1..N : seqs[n] \in Seq(S)
  BY LenProperties, ElementOfSeq
<1> HIDE DEF N
<1>1. 0 \in T
  <2>1. Upto(0, [n \in 1..0 |-> <<>>])
    <3>1. \A n \in 1..0 : FALSE
      OBVIOUS
    <3> QED BY <3>1
  <2>2. 0 \in 0..N
    BY <1>0
  <2> HIDE DEF Upto
  <2> QED BY <2>1, <2>2
<1>2. ASSUME NEW k \in 0..N - 1, k \in T PROVE k + 1 \in T
  <2>1. PICK g : Upto(k, g)
    BY <1>2
  <2> DEFINE h == [n \in 1..k + 1 |->
                     IF n = k + 1
                     THEN (IF k = 0 THEN seqs[1] ELSE g[k] \o seqs[k + 1]) ELSE g[n]]
  <2>2. k \in Nat /\ N \in Nat /\ k + 1 \in 0..N
    BY <1>0
  <2>3. \A n \in 1..k + 1 :
           h[n] = IF n = 1 THEN seqs[n] ELSE h[n - 1] \o seqs[n]
    <3> SUFFICES ASSUME NEW n \in 1..k + 1
                 PROVE  h[n] = IF n = 1 THEN seqs[n] ELSE h[n - 1] \o seqs[n]
      OBVIOUS
    <3>1. CASE n = k + 1
      <4>1. CASE k = 0
        BY <2>2, <3>1, <4>1
      <4>2. CASE k # 0
        <5>1. n # 1 /\ n - 1 = k /\ k \in 1..k + 1 /\ k # k + 1 /\ k + 1 \in 1..k + 1
          BY <2>2, <3>1, <4>2
        <5>2. h[k] = g[k]
          BY <5>1
        <5>3. h[k + 1] = g[k] \o seqs[k + 1]
          BY <4>2, <5>1
        <5> HIDE DEF h
        <5> QED BY <3>1, <5>1, <5>2, <5>3
      <4> QED BY <4>1, <4>2
    <3>2. CASE n # k + 1
      <4>1. n \in 1..k /\ h[n] = g[n]
        BY <2>2, <3>2
      <4>2. g[n] = IF n = 1 THEN seqs[n] ELSE g[n - 1] \o seqs[n]
        BY <2>1, <4>1
      <4>3. n # 1 => h[n - 1] = g[n - 1]
        BY <2>2, <4>1
      <4> HIDE DEF h
      <4> QED BY <4>1, <4>2, <4>3
    <3> QED BY <3>1, <3>2
  <2>4. h = [n \in 1..k + 1 |-> h[n]]
    OBVIOUS
  <2> HIDE DEF h
  <2>5. Upto(k + 1, h)
    BY <2>3, <2>4, Zenon
  <2> QED BY <2>2, <2>5
<1>3. N \in T
  <2> HIDE DEF T
  <2> QED BY <1>0, <1>1, <1>2, UpTo
<1>4. Upto(N, flat)
  <2>1. \E g : Upto(N, g)
    BY <1>3
  <2> HIDE DEF Upto
  <2> QED BY <2>1
<1>5. \A n \in 1..N : flat[n] = IF n = 1 THEN seqs[n] ELSE flat[n - 1] \o seqs[n]
  <2> HIDE DEF flat
  <2> QED BY <1>4
<1>6. FlattenSeq(seqs) = IF N = 0 THEN seqs ELSE flat[N]
  BY DEF FlattenSeq, N
<1> HIDE DEF flat
<1> DEFINE W == {n \in 0..N : n = 0 \/ flat[n] \in Seq(S)}
<1>7. 0 \in W
  BY <1>0
<1>8. \A n \in 0..N - 1 : n \in W => n + 1 \in W
  <2> SUFFICES ASSUME NEW n \in 0..N - 1, n = 0 \/ flat[n] \in Seq(S) PROVE n + 1 \in W
    OBVIOUS
  <2>1. n + 1 \in 1..N /\ n + 1 \in 0..N /\ (n + 1) - 1 = n /\ seqs[n + 1] \in Seq(S)
    BY <1>0
  <2>2. CASE n = 0
    <3>1. flat[n + 1] = seqs[n + 1]
      BY <1>5, <2>1, <2>2
    <3> QED BY <2>1, <3>1
  <2>3. CASE n # 0
    <3>1. flat[n + 1] = flat[n] \o seqs[n + 1]
      <4>1. n + 1 # 1
        BY <2>3
      <4>2. flat[n + 1] = IF n + 1 = 1 THEN seqs[n + 1]
                          ELSE flat[(n + 1) - 1] \o seqs[n + 1]
        BY <1>5, <2>1
      <4> QED BY <2>1, <4>1, <4>2
    <3>2. flat[n] \o seqs[n + 1] \in Seq(S)
      BY <2>1, <2>3, ConcatProperties
    <3> QED BY <2>1, <3>1, <3>2
  <2> QED BY <2>2, <2>3
<1>9. N \in W
  <2> HIDE DEF W
  <2> QED BY <1>0, <1>7, <1>8, UpTo
<1>10. N = 0 => seqs = <<>>
  BY EmptySeq DEF N
<1>11. <<>> \in Seq(S)
  BY EmptySeq
<1> QED BY <1>6, <1>9, <1>10, <1>11

\* The first of some places, if there is one.
LEMMA MinPlace ==
  ASSUME NEW n \in Nat, NEW I \in SUBSET (1..n), I # {}
  PROVE  Min(I) \in I
<1>1. \E x \in I : \A y \in I : x <= y
  BY LeastExists
<1> QED BY <1>1 DEF Min

\* RemoveAt takes one row out of a roster.
LEMMA RemoveKeeps ==
  ASSUME NEW s \in Seq(UserState), NEW i \in 1..Len(s)
  PROVE  /\ RemoveAt(s, i) \in Seq(UserState)
         /\ Len(RemoveAt(s, i)) = Len(s) - 1
<1>1. Len(s) \in Nat
  BY LenProperties
<1>2. \A j \in 1..Len(s) : s[j] \in UserState
  BY <1>1, ElementOfSeq
<1>3. /\ SubSeq(s, 1, i-1) \in Seq(UserState)
      /\ Len(SubSeq(s, 1, i-1)) = i - 1
  BY <1>1, <1>2, SubSeqProperties
<1>4. /\ SubSeq(s, i+1, Len(s)) \in Seq(UserState)
      /\ Len(SubSeq(s, i+1, Len(s))) = Len(s) - i
  BY <1>1, <1>2, SubSeqProperties
<1> DEFINE p == SubSeq(s, 1, i-1)
           q == SubSeq(s, i+1, Len(s))
<1>5. RemoveAt(s, i) = p \o q
  BY DEF RemoveAt
<1> HIDE DEF p, q
<1>6. p \o q \in Seq(UserState) /\ Len(p \o q) = Len(p) + Len(q)
  BY <1>3, <1>4, ConcatProperties DEF p, q
<1>7. Len(p) = i - 1 /\ Len(q) = Len(s) - i
  BY <1>3, <1>4 DEF p, q
<1>8. Len(p) + Len(q) = Len(s) - 1
  BY <1>1, <1>7
<1> QED BY <1>5, <1>6, <1>8

-----------------------------------------------------------------------------
(* The plugin: what its callbacks put into a script. *)

\* What PluginCore broadcasts, and the two steps of a script.
Messages ==
  [type : {"state_snapshot"}, users : Seq(UserState), channel : Here,
   connection : Connections]
  \cup [type : {"connection_changed"}, connection : Connections]
  \cup [type : {"channel_changed"}, channel : Here]
  \cup [type : {"user_joined", "user_updated"}, user : UserState]
  \cup [type : {"user_left"}, who : Uids]
  \cup [type : {"speaking_changed"}, who : Uids, talking : BOOLEAN, whisper : BOOLEAN]
  \cup [type : {"mute_changed"}, who : Uids, muted : Flags]
  \cup [type : {"commander_changed"}, who : Uids, commander : BOOLEAN]
  \cup [type : {"whisper_changed"}, who : Uids, active : BOOLEAN]

Steps == [do : {"refresh"}, cache : Contents] \cup [do : {"send"}, msg : Messages]

\* The steps that say nothing of the connection, and those that say no other
\* news of it than k.
IsNews(x)  == x.do = "send" /\ x.msg.type = "connection_changed"
Silent     == {x \in Steps : ~IsNews(x)}
Telling(k) == {x \in Steps : IsNews(x) => x.msg.connection = k}

\* Where KeepTalking and the callbacks find a row, if they find one.
LEMMA RowPlaces ==
  ASSUME NEW c \in Contents, NEW u
  PROVE  /\ Len(c.users) \in Nat /\ DOMAIN c.users = 1..Len(c.users)
         /\ \A i \in 1..Len(c.users) : c.users[i] \in UserState
         /\ BusyRow(c, u) \in 0..Len(c.users)
         /\ ClientRow(c.users, u) \in 0..Len(c.users)
         /\ ClientRow(c.users, u) # 0 => c.users[ClientRow(c.users, u)].cid = u
<1> DEFINE s == c.users
           B == {i \in 1..Len(s) : s[i].uid = u /\ (s[i].talking \/ s[i].whispering)}
           I == {i \in 1..Len(s) : s[i].cid = u}
<1>1. s \in Seq(UserState)
  BY DEF Contents
<1>2. Len(s) \in Nat /\ DOMAIN s = 1..Len(s) /\ \A i \in 1..Len(s) : s[i] \in UserState
  BY <1>1, LenProperties, ElementOfSeq
<1>3. BusyRow(c, u) = IF B # {} THEN Min(B) ELSE 0
  BY DEF BusyRow, SelectInSeq
<1>4. ClientRow(s, u) = IF I # {} THEN Min(I) ELSE 0
  BY DEF ClientRow, SelectInSeq
<1>5. B # {} => Min(B) \in 1..Len(s)
  BY <1>2, MinPlace
<1>6. I # {} => Min(I) \in I
  <2>1. I \in SUBSET (1..Len(s))
    OBVIOUS
  <2> HIDE DEF I
  <2> QED BY <1>2, <2>1, MinPlace
<1>7. BusyRow(c, u) \in 0..Len(s)
  <2> HIDE DEF B
  <2> QED BY <1>2, <1>3, <1>5
<1>8. ClientRow(s, u) \in 0..Len(s) /\ (ClientRow(s, u) # 0 => s[ClientRow(s, u)].cid = u)
  <2>1. CASE I # {}
    <3> HIDE DEF I
    <3>1. ClientRow(s, u) \in I
      BY <1>4, <1>6, <2>1
    <3> QED BY <1>2, <3>1 DEF I
  <2>2. CASE I = {}
    BY <1>2, <1>4, <2>2
  <2> QED BY <2>1, <2>2
<1> QED BY <1>2, <1>7, <1>8

\* Two rosters, what TeamSpeak answers and what the state makes of it.
LEMMA GatheringsAreRosters ==
  ASSUME NEW g \in Gatherings
  PROVE  /\ g \in Seq(UserState) /\ Len(g) \in Nat /\ DOMAIN g = 1..Len(g)
         /\ \A i \in 1..Len(g) : g[i] \in UserState
<1>1. PICK m \in 0..MaxUsers : g \in [1..m -> Profiles]
  BY DEF Gatherings, SeqOf
<1>2. m \in Nat
  BY ModelAssumption
<1>3. \A p \in Profiles : p \in UserState
  BY PluginAssumption
<1>4. g \in Seq(UserState)
  <2>1. g \in [1..m -> UserState]
    BY <1>1, <1>3
  <2> QED BY <1>2, <2>1
<1> QED BY <1>4, LenProperties, ElementOfSeq

\* What set_connection and resynchronise make of a state is one again.
LEMMA ContentsKept ==
  /\ Offline \in Contents
  /\ \A c \in Contents :
       /\ \A k \in Connections : SetConnection(c, k) \in Contents
       /\ \A channel \in SaidChannels, g \in Gatherings : Resynchronise(c, channel, g) \in Contents
<1>1. <<>> \in Seq(UserState)
  BY EmptySeq
<1>2. Offline \in Contents
  BY <1>1 DEF Offline, Contents, Connections
<1>3. ASSUME NEW c \in Contents, NEW k \in Connections
      PROVE  SetConnection(c, k) \in Contents
  BY <1>1 DEF SetConnection, Contents
<1>4. ASSUME NEW c \in Contents, NEW channel \in SaidChannels, NEW g \in Gatherings
      PROVE  Resynchronise(c, channel, g) \in Contents
  <2> DEFINE users == [i \in DOMAIN g |-> KeepTalking(c, g[i])]
  <2>1. Len(g) \in Nat /\ DOMAIN g = 1..Len(g) /\ \A i \in 1..Len(g) : g[i] \in UserState
    BY GatheringsAreRosters
  <2>2. ASSUME NEW p \in UserState PROVE KeepTalking(c, p) \in UserState
    <3> DEFINE was == BusyRow(c, p.uid)
    <3>1. was \in 0..Len(c.users) /\ Len(c.users) \in Nat
          /\ \A i \in 1..Len(c.users) : c.users[i] \in UserState
      BY RowPlaces
    <3> HIDE DEF was
    <3>2. was # 0 => c.users[was] \in UserState
      BY <3>1
    <3> QED BY <3>2 DEF KeepTalking, was, UserState
  <2>3. users \in [1..Len(g) -> UserState]
    BY <2>1, <2>2
  <2>4. users \in Seq(UserState)
    <3> HIDE DEF users
    <3> QED BY <2>1, <2>3
  <2> HIDE DEF users
  <2>5. CASE channel = NoChannel
    BY <1>1, <2>5 DEF Resynchronise, Contents
  <2>6. CASE channel # NoChannel
    <3> DEFINE heard == IF channel = Unnamed THEN c.channel ELSE channel
    <3>1. Resynchronise(c, channel, g) = [c EXCEPT !.channel = heard, !.users = users]
      BY <2>6 DEF Resynchronise, users
    <3>2. heard \in Here
      BY DEF Contents, Here, SaidChannels
    <3> HIDE DEF heard
    <3> QED BY <2>4, <3>1, <3>2 DEF Contents, Here
  <2> QED BY <2>5, <2>6
<1> QED BY <1>2, <1>3, <1>4

\* The parts scripts are made of, all but the news of a connection.
LEMMA ScriptParts ==
  /\ \A c \in Contents : Refresh(c) \in Seq(Silent) /\ SendSnapshot(c) \in Seq(Silent)
  /\ \A m \in Messages : m.type # "connection_changed" => Send(m) \in Seq(Silent)
  /\ \A s \in Seq(Silent), t \in Seq(Silent) : s \o t \in Seq(Silent)
  /\ <<>> \in Seq(Silent)
<1>1. \A c \in Contents : Refresh(c) \in Seq(Silent)
  <2> SUFFICES ASSUME NEW c \in Contents PROVE Refresh(c) \in Seq(Silent)
    OBVIOUS
  <2>1. [do |-> "refresh", cache |-> c] \in Silent
    BY DEF Steps, Silent, IsNews
  <2> QED BY <2>1 DEF Refresh
<1>2. \A m \in Messages : m.type # "connection_changed" => Send(m) \in Seq(Silent)
  <2> SUFFICES ASSUME NEW m \in Messages, m.type # "connection_changed"
               PROVE  Send(m) \in Seq(Silent)
    OBVIOUS
  <2>1. [do |-> "send", msg |-> m] \in Silent
    BY DEF Steps, Silent, IsNews
  <2> QED BY <2>1 DEF Send
<1>3. \A c \in Contents : Snapshot(c) \in Messages /\ Snapshot(c).type # "connection_changed"
  BY DEF Snapshot, Contents, Messages, Here
<1> QED BY <1>1, <1>2, <1>3, ConcatProperties, EmptySeq DEF SendSnapshot

\* A script that is silent about the connection says nothing wrong about it.
LEMMA SilentTells ==
  ASSUME NEW k
  PROVE  /\ \A s \in Seq(Silent) : s \in Seq(Telling(k))
         /\ \A s \in Seq(Telling(k)) : s \in Seq(Steps)
<1>1. \A x \in Silent : x \in Telling(k)
  BY DEF Silent, Telling
<1>2. \A x \in Telling(k) : x \in Steps
  BY DEF Telling
<1>3. ASSUME NEW A, NEW B, \A x \in A : x \in B, NEW s \in Seq(A) PROVE s \in Seq(B)
  <2>1. Len(s) \in Nat /\ s \in [1..Len(s) -> A]
    BY LenProperties
  <2>2. s \in [1..Len(s) -> B]
    BY <1>3, <2>1
  <2> QED BY <2>1, <2>2
<1> QED BY <1>1, <1>2, <1>3

\* What is left of a script when its first step is done.
LEMMA ScriptServed ==
  ASSUME NEW s, NEW k, s \in Seq(Telling(k)), s # <<>>
  PROVE  /\ Tail(s) \in Seq(Telling(k)) /\ Tail(s) \in Seq(Steps)
         /\ ~IsNews(Head(s)) /\ Tail(s) \in Seq(Silent) => s \in Seq(Silent)
         /\ IsNews(Head(s)) => Head(s).msg.connection = k
<1>1. /\ Head(s) \in Telling(k) /\ Tail(s) \in Seq(Telling(k)) /\ Len(s) \in Nat
      /\ Head(s) = s[1] /\ Len(Tail(s)) = Len(s) - 1
      /\ \A i \in 1..Len(Tail(s)) : Tail(s)[i] = s[i + 1]
  BY HeadTailProperties, LenProperties
<1>2. ASSUME ~IsNews(Head(s)), Tail(s) \in Seq(Silent) PROVE s \in Seq(Silent)
  <2>1. s \in [1..Len(s) -> Telling(k)]
    BY LenProperties
  <2>2. s[1] \in Silent
    BY <1>1, <1>2 DEF Telling, Silent
  <2>3. \A i \in 1..Len(s) : i # 1 => s[i] \in Silent
    <3> SUFFICES ASSUME NEW i \in 1..Len(s), i # 1 PROVE s[i] \in Silent
      OBVIOUS
    <3>1. i - 1 \in 1..Len(Tail(s)) /\ (i - 1) + 1 = i
      BY <1>1
    <3> QED BY <1>1, <1>2, <3>1, ElementOfSeq
  <2>4. s \in [1..Len(s) -> Silent]
    BY <2>1, <2>2, <2>3
  <2> QED BY <1>1, <2>4
<1> QED BY <1>1, <1>2, SilentTells DEF Telling

\* The news of a connection, after some steps and before others.
LEMMA NewsTold ==
  ASSUME NEW k \in Connections, NEW s \in Seq(Silent), NEW t \in Seq(Silent)
  PROVE  /\ s \o Connected(k) \o t \in Seq(Telling(k))
         /\ s \o Connected(k) \o t \notin Seq(Silent)
<1> DEFINE x == [do |-> "send", msg |-> [type |-> "connection_changed", connection |-> k]]
<1>1. x \in Telling(k) /\ x \notin Silent
  BY DEF Telling, Silent, IsNews, Steps, Messages
<1>2. Connected(k) = <<x>>
  BY DEF Connected, Send
<1> HIDE DEF x
<1>3. s \in Seq(Telling(k)) /\ t \in Seq(Telling(k)) /\ <<x>> \in Seq(Telling(k))
  BY <1>1, SilentTells
<1>4. /\ Len(s) \in Nat /\ Len(t) \in Nat /\ Len(<<x>>) = 1 /\ <<x>>[1] = x
  BY LenProperties
<1>5. /\ s \o <<x>> \in Seq(Telling(k)) /\ Len(s \o <<x>>) = Len(s) + 1
      /\ (s \o <<x>>)[Len(s) + 1] = x
  <2>1. /\ s \o <<x>> \in Seq(Telling(k)) /\ Len(s \o <<x>>) = Len(s) + Len(<<x>>)
        /\ \A i \in 1..Len(s) + Len(<<x>>) :
             (s \o <<x>>)[i] = IF i <= Len(s) THEN s[i] ELSE <<x>>[i - Len(s)]
    BY <1>3, ConcatProperties
  <2>2. Len(s) + 1 \in 1..Len(s) + Len(<<x>>) /\ ~(Len(s) + 1 <= Len(s))
        /\ (Len(s) + 1) - Len(s) = 1
    BY <1>4
  <2> QED BY <1>4, <2>1, <2>2
<1> DEFINE p == s \o <<x>>
<1> HIDE DEF p
<1>6. p \in Seq(Telling(k)) /\ Len(p) \in Nat /\ Len(p) = Len(s) + 1 /\ p[Len(s) + 1] = x
  BY <1>4, <1>5 DEF p
<1>7. /\ p \o t \in Seq(Telling(k)) /\ Len(p \o t) = Len(p) + Len(t)
      /\ \A i \in 1..Len(p) + Len(t) :
           (p \o t)[i] = IF i <= Len(p) THEN p[i] ELSE t[i - Len(p)]
  BY <1>3, <1>6, ConcatProperties
<1>8. (p \o t)[Len(s) + 1] = x /\ Len(s) + 1 \in 1..Len(p \o t)
  BY <1>4, <1>6, <1>7
<1>9. p \o t \notin Seq(Silent)
  BY <1>1, <1>8, ElementOfSeq
<1> QED BY <1>2, <1>7, <1>9 DEF p

\* What resync_and_report sends, for whoever came or went.
LEMMA RosterScripts ==
  ASSUME NEW c \in Contents
  PROVE  /\ \A d \in Contents : JoinedOf(c.users, d.users) \in Seq(Silent)
                                /\ LeftOf(c.users, d.users) \in Seq(Silent)
         /\ \A channel \in SaidChannels, g \in Gatherings :
              Report(c, channel, g) \in Seq(Silent) /\ Resent(c, channel, g) \in Seq(Silent)
<1>1. \A u \in UserState : Joined(u) \in Seq(Silent) /\ Left(u) \in Seq(Silent)
  <2> SUFFICES ASSUME NEW u \in UserState PROVE Joined(u) \in Seq(Silent) /\ Left(u) \in Seq(Silent)
    OBVIOUS
  <2>1. [type |-> "user_joined", user |-> u] \in Messages
    BY DEF Messages
  <2>2. [type |-> "user_left", who |-> u.uid] \in Messages
    BY DEF Messages, UserState
  <2> QED BY <2>1, <2>2, ScriptParts DEF Joined, Left
<1>2. ASSUME NEW users \in Seq(UserState), NEW f, f \in [1..Len(users) -> Seq(Silent)]
      PROVE  FlattenSeq(f) \in Seq(Silent)
  <2>1. Len(users) \in Nat
    BY LenProperties
  <2>2. f \in Seq(Seq(Silent))
    BY <1>2, <2>1
  <2> QED BY <2>2, FlattenWithin
<1>3. ASSUME NEW a \in Seq(UserState), NEW b \in Seq(UserState)
      PROVE  JoinedOf(a, b) \in Seq(Silent) /\ LeftOf(a, b) \in Seq(Silent)
  <2>1. /\ DOMAIN a = 1..Len(a) /\ \A i \in 1..Len(a) : a[i] \in UserState
        /\ DOMAIN b = 1..Len(b) /\ \A i \in 1..Len(b) : b[i] \in UserState
    BY LenProperties, ElementOfSeq
  <2> DEFINE j == [i \in DOMAIN b |-> IF Holds(a, b[i].uid) THEN <<>> ELSE Joined(b[i])]
             l == [i \in DOMAIN a |-> IF Holds(b, a[i].uid) THEN <<>> ELSE Left(a[i])]
  <2>2. j \in [1..Len(b) -> Seq(Silent)] /\ l \in [1..Len(a) -> Seq(Silent)]
    BY <1>1, <2>1, ScriptParts
  <2> HIDE DEF j, l
  <2>3. FlattenSeq(j) \in Seq(Silent) /\ FlattenSeq(l) \in Seq(Silent)
    BY <1>2, <2>2
  <2> QED BY <2>3 DEF JoinedOf, LeftOf, j, l
<1>4. \A d \in Contents : d.users \in Seq(UserState)
  BY DEF Contents
<1>5. ASSUME NEW channel \in SaidChannels, NEW g \in Gatherings
      PROVE  Report(c, channel, g) \in Seq(Silent) /\ Resent(c, channel, g) \in Seq(Silent)
  <2> DEFINE now1 == Resynchronise(c, channel, g)
  <2>1. now1 \in Contents
    BY ContentsKept
  <2> HIDE DEF now1
  <2>2. /\ Refresh(now1) \in Seq(Silent) /\ SendSnapshot(now1) \in Seq(Silent)
        /\ JoinedOf(c.users, now1.users) \in Seq(Silent)
        /\ LeftOf(c.users, now1.users) \in Seq(Silent)
    BY <1>3, <1>4, <2>1, ScriptParts
  <2>3. /\ Report(c, channel, g) = Refresh(now1) \o JoinedOf(c.users, now1.users)
                                     \o LeftOf(c.users, now1.users) \o SendSnapshot(now1)
        /\ Resent(c, channel, g) = Refresh(now1) \o SendSnapshot(now1)
    BY DEF Report, Resent, now1
  <2> QED BY <2>2, <2>3, ScriptParts
<1> QED BY <1>3, <1>4, <1>5

\* Every callback puts a list of well-formed steps into an empty script and
\* leaves the cache to its refreshes.  The list is silent about the connection
\* exactly if last_connection_ stays what it was, and tells what it is to be.
Scripted ==
  /\ script = <<>> /\ cache' = cache
  /\ \/ script' \in Seq(Silent) /\ lastConnection' = lastConnection
     \/ /\ lastConnection' \in Connections
        /\ script' \in Seq(Telling(lastConnection')) /\ script' \notin Seq(Silent)

\* Whatever the cache holds, each callback of PluginCore does so.
LEMMA CallbackScripts ==
  ASSUME cache \in Contents, Callback
  PROVE  Scripted
<1>a. /\ Offline \in Contents
      /\ \A c \in Contents, k \in Connections : SetConnection(c, k) \in Contents
      /\ \A c \in Contents, channel \in SaidChannels, g \in Gatherings :
            Resynchronise(c, channel, g) \in Contents
  BY ContentsKept
<1>b. \A c \in Contents : Refresh(c) \in Seq(Silent) /\ SendSnapshot(c) \in Seq(Silent)
  BY ScriptParts
<1>c. \A m \in Messages : m.type # "connection_changed" => Send(m) \in Seq(Silent)
  BY ScriptParts
<1>d. /\ \A s \in Seq(Silent), t \in Seq(Silent) : s \o t \in Seq(Silent)
      /\ <<>> \in Seq(Silent)
  BY ScriptParts
<1>e. \A c \in Contents, channel \in SaidChannels, g \in Gatherings :
        Report(c, channel, g) \in Seq(Silent) /\ Resent(c, channel, g) \in Seq(Silent)
  BY RosterScripts
<1>g. \A u \in UserState : Joined(u) \in Seq(Silent) /\ Left(u) \in Seq(Silent)
  <2> SUFFICES ASSUME NEW u \in UserState PROVE Joined(u) \in Seq(Silent) /\ Left(u) \in Seq(Silent)
    OBVIOUS
  <2>1. [type |-> "user_joined", user |-> u] \in Messages
        /\ [type |-> "user_left", who |-> u.uid] \in Messages
    BY DEF Messages, UserState
  <2> QED BY <1>c, <2>1 DEF Joined, Left
<1>h. /\ cache.users \in Seq(UserState) /\ Len(cache.users) \in Nat
      /\ DOMAIN cache.users = 1..Len(cache.users)
      /\ \A i \in 1..Len(cache.users) : cache.users[i] \in UserState
      /\ \A u : ClientRow(cache.users, u) \in 0..Len(cache.users)
  BY RowPlaces DEF Contents
<1>i. \A p \in Profiles : p \in UserState
  BY PluginAssumption
<1>j. \A s \in Seq(UserState) : [cache EXCEPT !.users = s] \in Contents
  BY DEF Contents
<1>k. \A i \in 1..Len(cache.users), u \in UserState : [cache EXCEPT !.users[i] = u] \in Contents
  <2> SUFFICES ASSUME NEW i \in 1..Len(cache.users), NEW u \in UserState
               PROVE  [cache EXCEPT !.users[i] = u] \in Contents
    OBVIOUS
  <2>1. [cache.users EXCEPT ![i] = u] \in Seq(UserState)
    BY <1>h, ExceptSeq
  <2>2. [cache EXCEPT !.users[i] = u]
          = [cache EXCEPT !.users = [cache.users EXCEPT ![i] = u]]
    BY DEF Contents
  <2> QED BY <1>j, <2>1, <2>2
<1>u. ASSUME \/ CurrentServerChanged \/ SelfLeft \/ SelfMoved \/ ClientMovedIn
             \/ ClientMovedOut \/ TalkStatusChanged \/ WhisperFromElsewhere
             \/ ClientUpdated \/ ChannelRefreshed
      PROVE  lastConnection' = lastConnection
  <2>1. CurrentServerChanged => lastConnection' = lastConnection
    BY DEF CurrentServerChanged, Answers, OnCurrentServerChanged
  <2>2. SelfLeft \/ SelfMoved \/ ChannelRefreshed => lastConnection' = lastConnection
    BY DEF SelfLeft, SelfMoved, ChannelRefreshed, Answers, OnSelfLeft, OnSelfMoved,
           OnChannelRefreshed
  <2>3. ClientMovedIn \/ ClientMovedOut => lastConnection' = lastConnection
    <3>1. \A p, c, g : OnKnownMovedIn(p, c, g) \/ OnUnknownMovedIn(c, g)
                         => lastConnection' = lastConnection
      BY DEF OnKnownMovedIn, OnUnknownMovedIn
    <3>2. \A cid, c, g : OnClientMovedOut(cid, c, g) => lastConnection' = lastConnection
      BY DEF OnClientMovedOut
    <3> QED BY <3>1, <3>2 DEF ClientMovedIn, ClientMovedOut, Answers
  <2>4. TalkStatusChanged => lastConnection' = lastConnection
    BY DEF TalkStatusChanged, OnTalkStatusChanged
  <2>5. WhisperFromElsewhere => lastConnection' = lastConnection
    BY DEF WhisperFromElsewhere
  <2>6. ClientUpdated => lastConnection' = lastConnection
    BY Zenon DEF ClientUpdated
  <2> QED BY <1>u, <2>1, <2>2, <2>3, <2>4, <2>5, <2>6
<1>1. ASSUME ConnectStatusChanged PROVE Scripted
  <2>2. PICK server \in Servers, k \in Connections, channel \in SaidChannels, g \in Gatherings :
          OnConnectStatusChanged(server, k, channel, g)
    BY <1>1 DEF ConnectStatusChanged, Answers
  <2> DEFINE up      == SetConnection(cache, k)
             settled == IF k = "connected" THEN Resynchronise(up, channel, g) ELSE up
  <2>3. up \in Contents
    BY <1>a
  <2>4. settled \in Contents
    <3> HIDE DEF up
    <3> QED BY <1>a, <2>3
  <2>5. Does(Refresh(up) \o (IF k = "connected" THEN Refresh(settled) ELSE <<>>)
               \o Announces(k) \o SendSnapshot(settled))
    BY <2>2 DEF OnConnectStatusChanged
  <2>6. lastConnection' = k
    BY <2>2 DEF OnConnectStatusChanged
  <2> HIDE DEF up, settled
  <2> DEFINE first == Refresh(up) \o (IF k = "connected" THEN Refresh(settled) ELSE <<>>)
             last  == SendSnapshot(settled)
  <2>7. first \in Seq(Silent) /\ last \in Seq(Silent)
    BY <1>b, <1>d, <2>3, <2>4
  <2>8. script = <<>> /\ cache' = cache /\ script' = first \o Announces(k) \o last
    BY <2>5 DEF Does
  <2> HIDE DEF first, last
  <2>9. CASE k = lastConnection
    <3>1. Announces(k) = <<>>
      BY <2>9 DEF Announces
    <3>2. script' \in Seq(Silent)
      BY <1>d, <2>7, <2>8, <3>1
    <3> QED BY <2>6, <2>8, <2>9, <3>2 DEF Scripted
  <2>10. CASE k # lastConnection
    <3>1. Announces(k) = Connected(k)
      BY <2>10 DEF Announces
    <3>2. script' \in Seq(Telling(k)) /\ script' \notin Seq(Silent)
      BY <2>7, <2>8, <3>1, NewsTold
    <3> QED BY <2>6, <2>8, <3>2 DEF Scripted
  <2> QED BY <2>9, <2>10
<1>2. ASSUME CurrentServerChanged PROVE Scripted
  <2>2. PICK server \in Servers, channel \in SaidChannels, g \in Gatherings :
          OnCurrentServerChanged(server, channel, g)
    BY <1>2 DEF CurrentServerChanged, Answers
  <2> DEFINE up == SetConnection(Offline, "connected")
  <2>3. up \in Contents
    BY <1>a DEF Connections
  <2>4. Does(Refresh(Offline) \o Refresh(up) \o Resent(up, channel, g))
    BY <2>2 DEF OnCurrentServerChanged
  <2> HIDE DEF up
  <2> QED BY <1>u, <1>2, <1>a, <1>b, <1>d, <1>e, <2>3, <2>4 DEF Does, Scripted
<1>3. ASSUME ServerStopped PROVE Scripted
  <2> DEFINE down == SetConnection(cache, "disconnected")
  <2>1. down \in Contents /\ "disconnected" \in Connections
    BY <1>a DEF Connections
  <2>2. Does(Refresh(down) \o Connected("disconnected") \o SendSnapshot(down))
    BY <1>3 DEF ServerStopped, OnServerStopped
  <2>3. lastConnection' = "disconnected"
    BY <1>3 DEF ServerStopped, OnServerStopped
  <2> HIDE DEF down
  <2>4. /\ Refresh(down) \o Connected("disconnected") \o SendSnapshot(down)
             \in Seq(Telling("disconnected"))
        /\ Refresh(down) \o Connected("disconnected") \o SendSnapshot(down)
             \notin Seq(Silent)
    BY <1>b, <2>1, NewsTold
  <2> QED BY <2>1, <2>2, <2>3, <2>4 DEF Does, Scripted
<1>4. ASSUME SelfLeft PROVE Scripted
  BY <1>u, <1>4, <1>a, <1>b, <1>d DEF SelfLeft, OnSelfLeft, Does, Scripted
<1>5. ASSUME SelfMoved PROVE Scripted
  <2>1. PICK channel \in SaidChannels, g \in Gatherings : OnSelfMoved(channel, g)
    BY <1>5 DEF SelfMoved, Answers
  <2> DEFINE moved == Resynchronise(cache, channel, g)
             m     == [type |-> "channel_changed", channel |-> moved.channel]
  <2>2. moved \in Contents
    BY <1>a
  <2>3. Does(Refresh(moved) \o Send(m) \o SendSnapshot(moved))
    BY <2>1 DEF OnSelfMoved
  <2> HIDE DEF moved
  <2>4. m \in Messages /\ m.type # "connection_changed"
    BY <2>2 DEF Contents, Here, Messages
  <2> HIDE DEF m
  <2> QED BY <1>u, <1>5, <1>b, <1>c, <1>d, <2>2, <2>3, <2>4 DEF Does, Scripted
<1>6. ASSUME ClientMovedIn PROVE Scripted
  <2>1. ASSUME NEW channel \in SaidChannels, NEW g \in Gatherings, Does(Report(cache, channel, g))
        PROVE  Scripted
    BY <1>u, <1>6, <1>e, <2>1 DEF Does, Scripted
  <2>s. SUFFICES ASSUME NEW p \in Profiles, NEW channel \in SaidChannels, NEW g \in Gatherings,
                        OnKnownMovedIn(p, channel, g)
                 PROVE  Scripted
    BY <1>6, <2>1 DEF ClientMovedIn, Answers, OnUnknownMovedIn
  <2> DEFINE at    == ClientRow(cache.users, p.cid)
             more  == [cache EXCEPT !.users = Append(@, p)]
             kept  == [cache EXCEPT !.users[at] = p]
  <2>3. \/ Does(Refresh(more) \o Joined(p))
        \/ Does(Report(cache, channel, g))
        \/ at # 0 /\ Does(Refresh(kept) \o Report(kept, channel, g))
    BY <2>s DEF OnKnownMovedIn
  <2>4. more \in Contents
    BY <1>h, <1>i, AppendProperties DEF Contents
  <2>5. at # 0 => kept \in Contents
    <3>1. at # 0 => at \in 1..Len(cache.users)
      BY <1>h
    <3> HIDE DEF at
    <3> QED BY <1>i, <1>k, <3>1
  <2> HIDE DEF at, more, kept
  <2>6. CASE Does(Refresh(more) \o Joined(p))
    BY <1>u, <1>6, <1>b, <1>d, <1>g, <1>i, <2>4, <2>6 DEF Does, Scripted
  <2>7. CASE Does(Report(cache, channel, g))
    BY <2>1, <2>7
  <2>8. CASE at # 0 /\ Does(Refresh(kept) \o Report(kept, channel, g))
    BY <1>u, <1>6, <1>b, <1>d, <1>e, <2>5, <2>8 DEF Does, Scripted
  <2> QED BY <2>3, <2>6, <2>7, <2>8
<1>7. ASSUME ClientMovedOut PROVE Scripted
  <2>2. PICK cid \in ClientIds, channel \in SaidChannels, g \in Gatherings :
          OnClientMovedOut(cid, channel, g)
    BY <1>7 DEF ClientMovedOut, Answers
  <2> DEFINE at   == ClientRow(cache.users, cid)
             left == [cache EXCEPT !.users = RemoveAt(@, at)]
  <2>3. at \in 0..Len(cache.users)
    BY <1>h
  <2>4. \/ at # 0 /\ Does(Refresh(left) \o Left(cache.users[at]))
        \/ Does(Report(cache, channel, g))
    BY <2>2 DEF OnClientMovedOut
  <2> HIDE DEF at
  <2>5. CASE at # 0 /\ Does(Refresh(left) \o Left(cache.users[at]))
    <3>1. at \in 1..Len(cache.users)
      BY <1>h, <2>3, <2>5
    <3>2. RemoveAt(cache.users, at) \in Seq(UserState)
      BY <1>h, <3>1, RemoveKeeps
    <3>3. left \in Contents
      BY <1>j, <3>2
    <3> HIDE DEF left
    <3> QED BY <1>u, <1>7, <1>b, <1>d, <1>g, <1>h, <2>5, <3>1, <3>3 DEF Does, Scripted
  <2>6. CASE Does(Report(cache, channel, g))
    BY <1>u, <1>7, <1>e, <2>6 DEF Does, Scripted
  <2> QED BY <2>4, <2>5, <2>6
<1>8. ASSUME TalkStatusChanged PROVE Scripted
  <2>1. PICK at \in DOMAIN cache.users, talking \in BOOLEAN, received \in BOOLEAN :
          OnTalkStatusChanged(at, talking, received)
    BY <1>8 DEF TalkStatusChanged
  <2> DEFINE was == cache.users[at]
             is  == [was EXCEPT !.talking = talking, !.whispering = talking /\ received]
             a   == [type |-> "speaking_changed", who |-> is.uid, talking |-> talking,
                     whisper |-> is.whispering]
             b   == [type |-> "whisper_changed", who |-> is.uid, active |-> is.whispering]
             now1 == [cache EXCEPT !.users[at] = is]
  <2>2. is \in UserState /\ at \in 1..Len(cache.users)
    BY <1>h DEF UserState
  <2>3. Does(Refresh(now1) \o Send(a)
               \o (IF was.whispering # is.whispering THEN Send(b) ELSE <<>>))
    BY <2>1 DEF OnTalkStatusChanged
  <2> HIDE DEF is, was
  <2>4. /\ a \in Messages /\ a.type # "connection_changed"
        /\ b \in Messages /\ b.type # "connection_changed"
    BY <2>2 DEF UserState, Messages
  <2>5. now1 \in Contents
    BY <1>k, <2>2
  <2> HIDE DEF a, b, now1
  <2> QED BY <1>u, <1>8, <1>b, <1>c, <1>d, <2>3, <2>4, <2>5 DEF Does, Scripted
<1>9. ASSUME WhisperFromElsewhere PROVE Scripted
  <2>1. PICK p \in Profiles :
          Does(Send([type |-> "whisper_changed", who |-> p.uid, active |-> TRUE]))
    BY <1>9 DEF WhisperFromElsewhere
  <2>2. [type |-> "whisper_changed", who |-> p.uid, active |-> TRUE] \in Messages
    BY <1>i DEF UserState, Messages
  <2> QED BY <1>u, <1>9, <1>c, <2>1, <2>2 DEF Does, Scripted
<1>10. ASSUME ClientUpdated PROVE Scripted
  <2> DEFINE at(p)  == ClientRow(cache.users, p.cid)
             was(p) == cache.users[at(p)]
             is(p)  == [p EXCEPT !.talking = was(p).talking, !.whispering = was(p).whispering]
             now1(p) == [cache EXCEPT !.users[at(p)] = is(p)]
             a(p) == [type |-> "user_updated", user |-> is(p)]
             b(p) == [type |-> "commander_changed", who |-> is(p).uid,
                      commander |-> is(p).commander]
             d(p) == [type |-> "mute_changed", who |-> is(p).uid, muted |-> is(p).muted]
             sent(p) == Refresh(now1(p)) \o Send(a(p))
                          \o (IF was(p).commander # is(p).commander THEN Send(b(p)) ELSE <<>>)
                          \o (IF was(p).muted # is(p).muted THEN Send(d(p)) ELSE <<>>)
  <2>1. PICK p \in Profiles : at(p) # 0 /\ Does(sent(p))
    BY <1>10, Zenon DEF ClientUpdated
  <2>2. at(p) \in 1..Len(cache.users)
    BY <1>h, <2>1
  <2>3. was(p) \in UserState
    BY <1>h, <2>2
  <2>4. is(p) \in UserState
    <3> HIDE DEF was
    <3> QED BY <1>i, <2>3 DEF UserState
  <2>5. now1(p) \in Contents
    <3> HIDE DEF at, is
    <3> QED BY <1>k, <2>2, <2>4
  <2>6. /\ a(p) \in Messages /\ a(p).type # "connection_changed"
        /\ b(p) \in Messages /\ b(p).type # "connection_changed"
        /\ d(p) \in Messages /\ d(p).type # "connection_changed"
    <3> HIDE DEF is
    <3> QED BY <2>4 DEF UserState, Messages
  <2> HIDE DEF at, was, is, now1, a, b, d
  <2>7. sent(p) \in Seq(Silent)
    BY <1>b, <1>c, <1>d, <2>5, <2>6
  <2> QED BY <1>u, <1>10, <2>1, <2>7 DEF Does, Scripted
<1>11. ASSUME ChannelRefreshed PROVE Scripted
  <2>1. PICK channel \in SaidChannels, g \in Gatherings : OnChannelRefreshed(channel, g)
    BY <1>11 DEF ChannelRefreshed, Answers
  <2> QED BY <1>u, <1>11, <1>e, <2>1 DEF OnChannelRefreshed, Does, Scripted
<1> QED
  BY <1>1, <1>2, <1>3, <1>4, <1>5, <1>6, <1>7, <1>8, <1>9, <1>10, <1>11 DEF Callback

-----------------------------------------------------------------------------
(* The TeamSpeak client with its tabs, as PluginCore sees it. *)

TabStates == {"disconnected", "connecting", "entered", "establishing", "established"}

Calls ==
  [is : {"status"}, tab : Servers, status : Connections]
  \cup [is : {"moved"}, tab : Servers, who : ClientIds, from : Here, to : Here]
  \cup [is : {"talking"}, tab : Servers, on : BOOLEAN]
  \cup [is : {"stopped", "subscribed", "current"}, tab : Servers]

TabsTyped ==
  /\ cache \in Contents /\ script \in Seq(Steps)
  /\ active \in Servers \cup {NoServer} /\ lastConnection \in Connections
  /\ status \in [Servers -> TabStates]
  /\ place \in [Servers -> [ClientIds -> Here]]
  /\ talks \in [Servers -> BOOLEAN]
  /\ foreground \in Servers
  /\ coming \in Seq(Calls)

\* Every state of a tab has its counterpart in the plugin.
LEMMA StatusMapped == \A s \in TabStates : Mapped(s) \in Connections
BY DEF TabStates, Mapped, Connections

\* One or two client ids in ascending order.
LEMMA AscendingIds ==
  ASSUME NEW S \in SUBSET ClientIds
  PROVE  /\ Cardinality(S) \in 0..2
         /\ Ascending(S) \in [1..Cardinality(S) -> S]
         /\ \A i, j \in 1..Cardinality(S) : Ascending(S)[i] = Ascending(S)[j] => i = j
         /\ \A x \in S : \E i \in 1..Cardinality(S) : Ascending(S)[i] = x
<1> DEFINE R == {p \in S \X S : p[1] < p[2]}
<1>1. ClientIds = {Me, Ann} /\ Me \in Nat /\ Ann \in Nat
  BY TabsAssumption
<1>2. Ascending(S) = [k \in 1..Cardinality(S) |-> CHOOSE i \in S : Rank(S, R, i) = k - 1]
  BY DEF Ascending, InOrder
<1> DEFINE f == Ascending(S)
           Listed == /\ Cardinality(S) \in 0..2 /\ f \in [1..Cardinality(S) -> S]
                     /\ \A i, j \in 1..Cardinality(S) : f[i] = f[j] => i = j
                     /\ \A x \in S : \E i \in 1..Cardinality(S) : f[i] = x
<1> HIDE DEF f
<1>3. ASSUME S = {} PROVE Listed
  <2>1. Cardinality(S) = 0
    BY <1>3, FS_EmptySet
  <2> QED BY <1>2, <1>3, <2>1 DEF f
<1>4. ASSUME NEW a \in Nat, S = {a} PROVE Listed
  <2>1. Cardinality(S) = 1 /\ 1..1 = {1} /\ 1 - 1 = 0
    <3>1. Cardinality({a}) = 1
      BY FS_Singleton
    <3>2. 1..1 = {1}
      OBVIOUS
    <3> QED BY <1>4, <3>1, <3>2
  <2>2. Rank(S, R, a) = 0
    <3>1. {j \in S : <<j, a>> \in R} = {}
      BY <1>4
    <3> QED BY <3>1, FS_EmptySet DEF Rank
  <2>3. f = [k \in {1} |-> CHOOSE i \in S : Rank(S, R, i) = k - 1]
    BY <1>2, <2>1 DEF f
  <2> HIDE DEF R
  <2>4. f[1] = CHOOSE i \in S : Rank(S, R, i) = 0
    BY <2>1, <2>3
  <2>5. f[1] \in S
    BY <1>4, <2>2, <2>4
  <2>6. \A x \in S : f[1] = x
    BY <1>4, <2>5
  <2> QED BY <2>1, <2>3, <2>5, <2>6
<1>5. ASSUME NEW a \in Nat, NEW b \in Nat, a < b, S = {a, b} PROVE Listed
  <2>1. Cardinality(S) = 2 /\ 1..2 = {1, 2} /\ 1 - 1 = 0 /\ 2 - 1 = 1
    <3>1. IsFiniteSet({a}) /\ Cardinality({a}) = 1
      BY FS_Singleton
    <3>2. b \notin {a} /\ {a} \cup {b} = S
      BY <1>5
    <3>3. Cardinality({a} \cup {b}) = 1 + 1
      BY <3>1, <3>2, FS_AddElement
    <3> QED BY <3>2, <3>3
  <2>2. Rank(S, R, a) = 0
    <3>1. {j \in S : <<j, a>> \in R} = {}
      BY <1>5
    <3> QED BY <3>1, FS_EmptySet DEF Rank
  <2>3. Rank(S, R, b) = 1
    <3>1. {j \in S : <<j, b>> \in R} = {a}
      BY <1>5
    <3> QED BY <3>1, FS_Singleton DEF Rank
  <2>4. f = [k \in {1, 2} |-> CHOOSE i \in S : Rank(S, R, i) = k - 1]
    BY <1>2, <2>1 DEF f
  <2> HIDE DEF R
  <2>5. /\ f[1] = CHOOSE i \in S : Rank(S, R, i) = 0
        /\ f[2] = CHOOSE i \in S : Rank(S, R, i) = 1
    BY <2>1, <2>4
  <2>6. f[1] \in S /\ Rank(S, R, f[1]) = 0
    BY <1>5, <2>2, <2>5
  <2>7. f[2] \in S /\ Rank(S, R, f[2]) = 1
    BY <1>5, <2>3, <2>5
  <2>8. f[1] # f[2]
    BY <2>6, <2>7
  <2>9. \A x \in S : f[1] = x \/ f[2] = x
    BY <1>5, <2>6, <2>7, <2>8
  <2> QED BY <2>1, <2>4, <2>6, <2>7, <2>8, <2>9
<1>6. S = {} \/ (\E a \in Nat : S = {a}) \/ (\E a \in Nat, b \in Nat : a < b /\ S = {a, b})
  <2>1. S = {} \/ S = {Me} \/ S = {Ann} \/ S = {Me, Ann}
    BY <1>1
  <2>2. CASE S = {Me, Ann}
    <3>1. Me = Ann \/ Me < Ann \/ Ann < Me
      BY <1>1
    <3>2. Me = Ann => S = {Me}
      BY <2>2
    <3>3. S = {Ann, Me}
      BY <2>2
    <3> QED BY <1>1, <2>2, <3>1, <3>2, <3>3
  <2> QED BY <1>1, <2>1, <2>2
<1>7. Listed
  <2> HIDE DEF Listed
  <2> QED BY <1>3, <1>4, <1>5, <1>6
<1> QED BY <1>7 DEF f

\* A query is answered with a channel and a roster such as PluginCore reads.
LEMMA QueriesAnswered ==
  ASSUME place \in [Servers -> [ClientIds -> Here]], NEW t \in Servers
  PROVE  /\ ChannelOf(t) \in Here /\ ChannelOf(t) \in SaidChannels /\ ChannelOf(t) # Unnamed
         /\ GatheredOn(t) \in Gatherings
<1> DEFINE P == PresentOn(t)
           ids == Ascending(P)
           n == Cardinality(P)
<1>1. Me \in ClientIds /\ Ann \in ClientIds
  BY TabsAssumption
<1>2. ChannelOf(t) \in Here
  BY <1>1 DEF ChannelOf, Here
<1>3. P \in SUBSET ClientIds
  BY DEF PresentOn
<1> HIDE DEF P
<1>4. n \in 0..2 /\ ids \in [1..n -> P] /\ \A i, j \in 1..n : ids[i] = ids[j] => i = j
  BY <1>3, AscendingIds
<1>5. GatheredOn(t) = [i \in 1..n |-> WhoIs[ids[i]]]
  BY <1>4 DEF GatheredOn, P
<1> HIDE DEF ids, n
<1>6. \A c \in ClientIds : WhoIs[c] \in Profiles /\ WhoIs[c].cid = c
  BY TabsAssumption
<1>7. \A i \in 1..n : ids[i] \in ClientIds
  BY <1>3, <1>4
<1> DEFINE g == [i \in 1..n |-> WhoIs[ids[i]]]
<1>8. g \in [1..n -> Profiles] /\ DOMAIN g = 1..n
  BY <1>6, <1>7
<1>9. \A i, j \in 1..n : g[i].cid = g[j].cid => i = j
  BY <1>4, <1>6, <1>7
<1> HIDE DEF g
<1>10. n \in 0..MaxUsers
  BY <1>4, TabsAssumption, ModelAssumption
<1>11. g \in SeqOf(Profiles, MaxUsers)
  BY <1>8, <1>10 DEF SeqOf
<1>12. g \in Gatherings
  BY <1>8, <1>9, <1>11 DEF Gatherings
<1>13. ChannelOf(t) \in SaidChannels /\ ChannelOf(t) # Unnamed
  BY <1>2, PluginAssumption DEF Here, SaidChannels
<1> QED BY <1>2, <1>5, <1>12, <1>13 DEF g

\* Every call that arrives is one that PluginCore is modelled for, or is
\* ignored; and only news of a tab bears on what is followed.
LEMMA ArrivalServed ==
  ASSUME TabsTyped, Arrival
  PROVE  /\ script = <<>> /\ coming # <<>> /\ Call \in Calls
         /\ coming' = Tail(coming) /\ UNCHANGED <<world, announced, switched>>
         /\ Callback \/ UNCHANGED pluginVars
         /\ Call.is \notin {"status", "stopped", "current"} =>
              UNCHANGED <<active, lastConnection, takenOver>>
         /\ Call.is = "status" /\ ~Concerns(Call.tab, Call.status) =>
              UNCHANGED <<active, lastConnection, takenOver>>
         /\ Call.is = "status" /\ Concerns(Call.tab, Call.status) =>
              /\ lastConnection' = Call.status
              /\ active' \in {active, Call.tab, NoServer}
              /\ takenOver' = (takenOver \/ (Call.tab # active /\
                                 (active # NoServer \/ Call.tab # foreground)))
         /\ Call.is = "stopped" =>
              /\ takenOver' = takenOver
              /\ Call.tab # active => UNCHANGED lastConnection
              /\ active' \in {active, NoServer}
         /\ active' \in Servers \cup {NoServer}
<1> DEFINE Common == /\ script = <<>> /\ coming # <<>> /\ Call \in Calls
                     /\ coming' = Tail(coming) /\ UNCHANGED <<world, announced, switched>>
           Same == UNCHANGED <<active, lastConnection, takenOver>>
           ch == ChannelOf(Call.tab)
           ga == GatheredOn(Call.tab)
<1>1. \A kind : Arrives(kind) => Common /\ Call.is = kind
  BY HeadTailProperties DEF Arrives, Call, TabsTyped
<1>2. \A c \in Calls : c.tab \in Servers
  BY DEF Calls
<1>3. Call \in Calls => ch \in SaidChannels /\ ga \in Gatherings
  BY <1>2, QueriesAnswered DEF TabsTyped
<1>4. active \in Servers \cup {NoServer}
  BY DEF TabsTyped
<1> HIDE DEF ch, ga
<1>5. ASSUME StatusArrives
      PROVE  /\ Common /\ Call.is = "status"
             /\ ~Concerns(Call.tab, Call.status) => Same /\ UNCHANGED pluginVars
             /\ Concerns(Call.tab, Call.status) =>
                  /\ Callback
                  /\ lastConnection' = Call.status
                  /\ active' \in {active, Call.tab, NoServer}
                  /\ takenOver' = (takenOver \/ (Call.tab # active /\
                                     (active # NoServer \/ Call.tab # foreground)))
  <2>1. Common /\ Call.is = "status"
    BY <1>1, <1>5 DEF StatusArrives, Told
  <2>2. Call.tab \in Servers /\ Call.status \in Connections /\ ch \in SaidChannels /\ ga \in Gatherings
    BY <1>3, <2>1 DEF Calls
  <2>3. ASSUME Concerns(Call.tab, Call.status)
        PROVE  OnConnectStatusChanged(Call.tab, Call.status, ch, ga)
    BY <1>5, <2>3 DEF StatusArrives, Told, ch, ga
  <2>4. ASSUME Concerns(Call.tab, Call.status) PROVE Callback
    <3>1. ConnectStatusChanged
      BY <2>2, <2>3, <2>4 DEF ConnectStatusChanged, Answers
    <3> QED BY <3>1 DEF Callback
  <2>5. ASSUME Concerns(Call.tab, Call.status)
        PROVE  lastConnection' = Call.status /\ active' \in {active, Call.tab, NoServer}
    BY <2>3, <2>5 DEF OnConnectStatusChanged
  <2>6. ASSUME Concerns(Call.tab, Call.status)
        PROVE  takenOver' = (takenOver \/ (Call.tab # active /\
                               (active # NoServer \/ Call.tab # foreground)))
    BY <1>5, <2>6 DEF StatusArrives, Told
  <2>7. ASSUME ~Concerns(Call.tab, Call.status) PROVE Same /\ UNCHANGED pluginVars
    BY <1>5, <2>7 DEF StatusArrives, Returns, pluginVars
  <2> QED BY <2>1, <2>4, <2>5, <2>6, <2>7
<1>6. ASSUME SelfMoveArrives
      PROVE  Common /\ Call.is = "moved" /\ Same /\ Callback
  <2>1. Common /\ Call.is = "moved"
    BY <1>1, <1>6 DEF SelfMoveArrives
  <2>2. ch \in SaidChannels /\ ga \in Gatherings /\ Following /\ takenOver' = takenOver
    BY <1>3, <1>6, <2>1 DEF SelfMoveArrives, IsActive, Following
  <2>3. OnSelfLeft \/ OnSelfMoved(ch, ga)
    BY <1>6 DEF SelfMoveArrives, Told, ch, ga
  <2>4. SelfLeft \/ SelfMoved
    BY <2>2, <2>3 DEF SelfLeft, SelfMoved, Answers
  <2>5. UNCHANGED <<active, lastConnection>>
    BY <2>3 DEF OnSelfLeft, OnSelfMoved
  <2> QED BY <2>1, <2>2, <2>4, <2>5 DEF Callback
<1>7. ASSUME MoveArrives
      PROVE  Common /\ Call.is = "moved" /\ Same /\ (Callback \/ UNCHANGED pluginVars)
  <2>1. Common /\ Call.is = "moved" /\ takenOver' = takenOver
    BY <1>1, <1>7 DEF MoveArrives, Told
  <2>2. /\ ch \in SaidChannels /\ ga \in Gatherings
        /\ Call.who \in ClientIds /\ WhoIs[Call.who] \in Profiles
    BY <1>3, <2>1, TabsAssumption DEF Calls
  <2>3. \/ Returns
        \/ /\ IsActive(Call.tab)
           /\ \/ OnKnownMovedIn(WhoIs[Call.who], ch, ga)
              \/ OnUnknownMovedIn(ch, ga)
              \/ OnClientMovedOut(Call.who, ch, ga)
    BY <1>7 DEF MoveArrives, Told, ch, ga
  <2>4. CASE Returns
    BY <2>1, <2>4 DEF Returns, pluginVars
  <2>5. CASE /\ IsActive(Call.tab)
             /\ OnKnownMovedIn(WhoIs[Call.who], ch, ga) \/ OnUnknownMovedIn(ch, ga)
    <3>1. ClientMovedIn
      BY <2>2, <2>5 DEF ClientMovedIn, Answers, Following, IsActive
    <3>2. UNCHANGED <<active, lastConnection>>
      BY <2>5 DEF OnKnownMovedIn, OnUnknownMovedIn
    <3> QED BY <2>1, <3>1, <3>2 DEF Callback
  <2>6. CASE IsActive(Call.tab) /\ OnClientMovedOut(Call.who, ch, ga)
    <3>1. ClientMovedOut
      BY <2>2, <2>6 DEF ClientMovedOut, Answers, Following, IsActive
    <3>2. UNCHANGED <<active, lastConnection>>
      BY <2>6 DEF OnClientMovedOut
    <3> QED BY <2>1, <3>1, <3>2 DEF Callback
  <2> QED BY <2>3, <2>4, <2>5, <2>6
<1>8. ASSUME TalkArrives
      PROVE  Common /\ Call.is = "talking" /\ Same /\ (Callback \/ UNCHANGED pluginVars)
  <2> DEFINE at == ClientRow(cache.users, Ann)
  <2>1. Common /\ Call.is = "talking" /\ takenOver' = takenOver
    BY <1>1, <1>8 DEF TalkArrives
  <2>2. at \in 0..Len(cache.users) /\ Len(cache.users) \in Nat
        /\ DOMAIN cache.users = 1..Len(cache.users)
    BY RowPlaces DEF TabsTyped
  <2>3. \/ Returns
        \/ IsActive(Call.tab) /\ at # 0 /\ OnTalkStatusChanged(at, Call.on, FALSE)
    BY <1>8 DEF TalkArrives
  <2> HIDE DEF at
  <2>4. CASE Returns
    BY <2>1, <2>4 DEF Returns, pluginVars
  <2>5. CASE IsActive(Call.tab) /\ at # 0 /\ OnTalkStatusChanged(at, Call.on, FALSE)
    <3>1. Call.on \in BOOLEAN /\ at \in DOMAIN cache.users
      BY <2>1, <2>2, <2>5 DEF Calls
    <3>2. TalkStatusChanged
      BY <2>5, <3>1 DEF TalkStatusChanged, Following, IsActive
    <3>3. UNCHANGED <<active, lastConnection>>
      BY <2>5 DEF OnTalkStatusChanged
    <3> QED BY <2>1, <3>2, <3>3 DEF Callback
  <2> QED BY <2>3, <2>4, <2>5
<1>9. ASSUME StopArrives
      PROVE  /\ Common /\ Call.is = "stopped" /\ takenOver' = takenOver
             /\ Callback \/ UNCHANGED pluginVars
             /\ Call.tab # active => UNCHANGED lastConnection
             /\ active' \in {active, NoServer}
  <2>1. Common /\ Call.is = "stopped" /\ takenOver' = takenOver
    BY <1>1, <1>9 DEF StopArrives
  <2>2. IF IsActive(Call.tab) THEN OnServerStopped ELSE Returns
    BY <1>9 DEF StopArrives
  <2>3. CASE IsActive(Call.tab)
    <3>1. OnServerStopped /\ Following /\ Call.tab = active
      BY <2>2, <2>3 DEF IsActive, Following
    <3>2. Callback
      BY <3>1 DEF Callback, ServerStopped
    <3>3. active' = NoServer
      BY <3>1 DEF OnServerStopped
    <3> QED BY <2>1, <3>1, <3>2, <3>3
  <2>4. CASE ~IsActive(Call.tab)
    BY <2>1, <2>2, <2>4 DEF Returns, pluginVars
  <2> QED BY <2>3, <2>4
<1>10. ASSUME SubscriptionArrives
       PROVE  Common /\ Call.is = "subscribed" /\ Same /\ (Callback \/ UNCHANGED pluginVars)
  <2>1. Common /\ Call.is = "subscribed" /\ takenOver' = takenOver
    BY <1>1, <1>10 DEF SubscriptionArrives
  <2>2. ch \in SaidChannels /\ ga \in Gatherings
    BY <1>3, <2>1
  <2>3. IF IsActive(Call.tab) THEN OnChannelRefreshed(ch, ga) ELSE Returns
    BY <1>10 DEF SubscriptionArrives, Told, ch, ga
  <2>4. CASE IsActive(Call.tab)
    <3>1. ChannelRefreshed
      BY <2>2, <2>3, <2>4 DEF ChannelRefreshed, Answers, Following, IsActive
    <3>2. UNCHANGED <<active, lastConnection>>
      BY <2>3, <2>4 DEF OnChannelRefreshed
    <3> QED BY <2>1, <3>1, <3>2 DEF Callback
  <2>5. CASE ~IsActive(Call.tab)
    BY <2>1, <2>3, <2>5 DEF Returns, pluginVars
  <2> QED BY <2>4, <2>5
<1>11. ASSUME SwitchArrives
       PROVE  /\ Common /\ Call.is = "current" /\ (Callback \/ UNCHANGED pluginVars)
              /\ active' \in {active, Call.tab}
  <2>1. Common /\ Call.is = "current"
    BY <1>1, <1>11 DEF SwitchArrives, Told
  <2>2. ch \in SaidChannels /\ ga \in Gatherings /\ Call.tab \in Servers
    BY <1>2, <1>3, <2>1
  <2>3. IF Call.tab # active THEN OnCurrentServerChanged(Call.tab, ch, ga) ELSE Returns
    BY <1>11 DEF SwitchArrives, Told, ch, ga
  <2>4. CASE Call.tab # active
    <3>1. CurrentServerChanged
      BY <2>2, <2>3, <2>4 DEF CurrentServerChanged, Answers
    <3>2. active' = Call.tab
      BY <2>3, <2>4 DEF OnCurrentServerChanged
    <3> QED BY <2>1, <3>1, <3>2 DEF Callback
  <2>5. CASE Call.tab = active
    BY <2>1, <2>3, <2>5 DEF Returns, pluginVars
  <2> QED BY <2>4, <2>5
<1> HIDE DEF Common, Same
<1>12. Common /\ (Callback \/ UNCHANGED pluginVars)
  BY <1>5, <1>6, <1>7, <1>8, <1>9, <1>10, <1>11 DEF Arrival
<1>13. Call.tab \in Servers
  BY <1>2, <1>12 DEF Common
<1>14. active' \in {active, Call.tab, NoServer}
  BY <1>5, <1>6, <1>7, <1>8, <1>9, <1>10, <1>11 DEF Arrival, Same
<1> QED
  BY <1>4, <1>5, <1>6, <1>7, <1>8, <1>9, <1>10, <1>11, <1>12, <1>13, <1>14
     DEF Arrival, Common, Same

-----------------------------------------------------------------------------
(* What the plugin has yet to be told of a tab. *)

\* The calls still to come that tell a status of tab f.  The last of them
\* tells the status it has, or if there is none the plugin knows already; and
\* after the news that the server stopped another one is to come.
StatusPlaces(f, q) == {i \in DOMAIN q : q[i].is = "status" /\ q[i].tab = f}

Owed(f, q, known, is) ==
  /\ StatusPlaces(f, q) = {} => known = is
  /\ \A i \in StatusPlaces(f, q) :
        (\A j \in StatusPlaces(f, q) : j <= i) => q[i].status = is
  /\ \A i \in DOMAIN q : q[i].is = "stopped" /\ q[i].tab = f =>
        \E j \in StatusPlaces(f, q) : i < j

\* More calls are added to those still to come.
LEMMA CallsTold ==
  ASSUME NEW f, NEW q \in Seq(Calls), NEW more \in Seq(Calls), NEW known, NEW is,
         Owed(f, q, known, is)
  PROVE  /\ (\A i \in 1..Len(more) : more[i].is \in {"status", "stopped"} => more[i].tab # f)
              => Owed(f, q \o more, known, is)
         /\ \A s : Len(more) # 0 /\ more[Len(more)].is = "status" /\ more[Len(more)].tab = f
                     /\ more[Len(more)].status = s
              => Owed(f, q \o more, known, s)
<1> DEFINE all == q \o more
           n == Len(q)
           m == Len(more)
<1>1. n \in Nat /\ m \in Nat /\ DOMAIN q = 1..n /\ DOMAIN more = 1..m
  BY LenProperties
<1>2. /\ all \in Seq(Calls) /\ DOMAIN all = 1..n + m
      /\ \A i \in 1..n + m : all[i] = IF i <= n THEN q[i] ELSE more[i - n]
  <2>1. all \in Seq(Calls) /\ Len(all) = n + m
        /\ \A i \in 1..n + m : all[i] = IF i <= n THEN q[i] ELSE more[i - n]
    BY ConcatProperties
  <2> QED BY <2>1, LenProperties
<1> HIDE DEF all, n, m
<1>3. /\ \A i \in 1..n : all[i] = q[i] /\ i \in 1..n + m
      /\ \A i \in 1..n + m : i \notin 1..n => all[i] = more[i - n] /\ i - n \in 1..m
  BY <1>1, <1>2
<1>4. \A i \in 1..n : i \in StatusPlaces(f, all) <=> i \in StatusPlaces(f, q)
  BY <1>1, <1>2, <1>3 DEF StatusPlaces
<1>5. StatusPlaces(f, q) \subseteq 1..n /\ StatusPlaces(f, all) \subseteq 1..n + m
  BY <1>1, <1>2 DEF StatusPlaces
<1>6. ASSUME \A i \in 1..m : more[i].is \in {"status", "stopped"} => more[i].tab # f
      PROVE  Owed(f, all, known, is)
  <2>1. \A i \in 1..n + m : i \notin 1..n =>
           i \notin StatusPlaces(f, all) /\ ~(all[i].is = "stopped" /\ all[i].tab = f)
    BY <1>3, <1>6 DEF StatusPlaces
  <2>2. StatusPlaces(f, all) = StatusPlaces(f, q)
    BY <1>3, <1>4, <1>5, <2>1
  <2>3. \A i \in StatusPlaces(f, q) : all[i] = q[i]
    BY <1>3, <1>5
  <2>4. ASSUME NEW i \in DOMAIN all, all[i].is = "stopped", all[i].tab = f
        PROVE  \E j \in StatusPlaces(f, all) : i < j
    <3>1. i \in 1..n /\ q[i] = all[i]
      BY <1>2, <1>3, <2>1, <2>4
    <3> QED BY <1>1, <2>2, <2>4, <3>1 DEF Owed
  <2> QED BY <2>2, <2>3, <2>4 DEF Owed
<1>7. ASSUME NEW s, m # 0, more[m].is = "status", more[m].tab = f, more[m].status = s
      PROVE  Owed(f, all, known, s)
  <2>1. n + m \in 1..n + m /\ n + m \notin 1..n /\ (n + m) - n = m
    BY <1>1, <1>7
  <2>2. all[n + m] = more[m]
    BY <1>3, <2>1
  <2>3. n + m \in StatusPlaces(f, all)
    BY <1>2, <1>7, <2>1, <2>2 DEF StatusPlaces
  <2>4. ASSUME NEW i \in StatusPlaces(f, all), \A j \in StatusPlaces(f, all) : j <= i
        PROVE  all[i].status = s
    <3>1. i = n + m
      BY <1>1, <1>5, <2>3, <2>4
    <3> QED BY <1>7, <2>2, <3>1
  <2>5. ASSUME NEW i \in DOMAIN all, all[i].is = "stopped", all[i].tab = f
        PROVE  \E j \in StatusPlaces(f, all) : i < j
    <3>1. i # n + m
      BY <1>7, <2>2, <2>5
    <3>2. i \in 1..n + m
      BY <1>2, <2>5
    <3>3. i < n + m
      BY <1>1, <3>1, <3>2
    <3> QED BY <2>3, <3>3
  <2> QED BY <2>3, <2>4, <2>5 DEF Owed
<1> QED BY <1>6, <1>7 DEF all, m

\* The first of them is served.
LEMMA CallServed ==
  ASSUME NEW f, NEW q \in Seq(Calls), q # <<>>, NEW known, NEW is, NEW now1,
         Owed(f, q, known, is),
         Head(q).is = "status" /\ Head(q).tab = f => now1 = Head(q).status,
         ~(Head(q).is \in {"status", "stopped"} /\ Head(q).tab = f) => now1 = known
  PROVE  Owed(f, Tail(q), now1, is)
<1> DEFINE rest == Tail(q)
           n == Len(q)
<1>1. n \in Nat /\ n # 0 /\ DOMAIN q = 1..n /\ Head(q) = q[1]
  BY LenProperties, EmptySeq
<1>2. /\ DOMAIN rest = 1..n - 1 /\ \A i \in 1..n - 1 : rest[i] = q[i + 1]
  <2>1. rest \in Seq(Calls) /\ Len(rest) = n - 1 /\ \A i \in 1..Len(rest) : rest[i] = q[i + 1]
    BY HeadTailProperties
  <2> QED BY <2>1, LenProperties
<1> HIDE DEF rest, n
<1>3. /\ \A i \in StatusPlaces(f, rest) : i \in Nat /\ i + 1 \in StatusPlaces(f, q)
                                          /\ rest[i] = q[i + 1]
      /\ \A i \in StatusPlaces(f, q) : i \in Nat /\ 1 <= i
                                       /\ (i # 1 => i - 1 \in StatusPlaces(f, rest))
  <2>1. ASSUME NEW i \in StatusPlaces(f, rest)
        PROVE  i \in Nat /\ i + 1 \in StatusPlaces(f, q) /\ rest[i] = q[i + 1]
    <3>1. i \in 1..n - 1 /\ rest[i] = q[i + 1] /\ i + 1 \in 1..n
      BY <1>1, <1>2 DEF StatusPlaces
    <3> QED BY <1>1, <3>1 DEF StatusPlaces
  <2>2. ASSUME NEW i \in StatusPlaces(f, q)
        PROVE  i \in Nat /\ 1 <= i /\ (i # 1 => i - 1 \in StatusPlaces(f, rest))
    <3>1. i \in 1..n
      BY <1>1 DEF StatusPlaces
    <3>2. CASE i # 1
      <4>1. i - 1 \in 1..n - 1 /\ rest[i - 1] = q[i]
        <5>1. i - 1 \in 1..n - 1 /\ (i - 1) + 1 = i
          BY <1>1, <3>1, <3>2
        <5> QED BY <1>2, <5>1
      <4> QED BY <1>2, <3>1, <4>1 DEF StatusPlaces
    <3> QED BY <3>1, <3>2
  <2> QED BY <2>1, <2>2
<1>4. ASSUME StatusPlaces(f, rest) = {} PROVE now1 = is
  <2>1. \A i \in StatusPlaces(f, q) : i = 1
    BY <1>3, <1>4
  <2>2. CASE 1 \in StatusPlaces(f, q)
    <3>1. Head(q).is = "status" /\ Head(q).tab = f
      BY <1>1, <2>2 DEF StatusPlaces
    <3>2. q[1].status = is
      BY <2>1, <2>2 DEF Owed
    <3> QED BY <1>1, <3>1, <3>2
  <2>3. CASE 1 \notin StatusPlaces(f, q)
    <3>1. StatusPlaces(f, q) = {}
      BY <2>1, <2>3
    <3>2. known = is
      BY <3>1 DEF Owed
    <3>3. ~(Head(q).is = "status" /\ Head(q).tab = f)
      BY <1>1, <2>3 DEF StatusPlaces
    <3>4. ~(Head(q).is = "stopped" /\ Head(q).tab = f)
      BY <1>1, <3>1 DEF Owed
    <3> QED BY <3>2, <3>3, <3>4
  <2> QED BY <2>2, <2>3
<1>5. ASSUME NEW i \in StatusPlaces(f, rest), \A j \in StatusPlaces(f, rest) : j <= i
      PROVE  rest[i].status = is
  <2>1. i \in Nat /\ i + 1 \in StatusPlaces(f, q) /\ rest[i] = q[i + 1]
    BY <1>3
  <2>2. \A j \in StatusPlaces(f, q) : j <= i + 1
    <3> SUFFICES ASSUME NEW j \in StatusPlaces(f, q) PROVE j <= i + 1
      OBVIOUS
    <3>1. j \in Nat /\ (j # 1 => j - 1 <= i)
      BY <1>3, <1>5
    <3> QED BY <2>1, <3>1
  <2> QED BY <2>1, <2>2 DEF Owed
<1>6. ASSUME NEW i \in DOMAIN rest, rest[i].is = "stopped", rest[i].tab = f
      PROVE  \E j \in StatusPlaces(f, rest) : i < j
  <2>1. i \in 1..n - 1 /\ rest[i] = q[i + 1] /\ i + 1 \in 1..n
    BY <1>1, <1>2
  <2>2. PICK j \in StatusPlaces(f, q) : i + 1 < j
    BY <1>1, <1>6, <2>1 DEF Owed
  <2>3. j \in Nat /\ j # 1 /\ i < j - 1
    BY <1>3, <2>1, <2>2
  <2> QED BY <1>3, <2>3
<1> QED BY <1>4, <1>5, <1>6 DEF Owed, rest

-----------------------------------------------------------------------------
(* The invariant. *)

\* The script of the callback that runs leads from what was announced to
\* last_connection_, and the callbacks to come from there to what is so; but
\* while the user stays on a tab and no other takes over.
TabsInv ==
  /\ TabsTyped
  /\ script \in Seq(Telling(lastConnection))
  /\ script \in Seq(Silent) => announced = lastConnection
  /\ ~switched => \A i \in DOMAIN coming : coming[i].is # "current"
  /\ ~switched /\ ~takenOver =>
       /\ active \in {NoServer, foreground}
       /\ Owed(foreground, coming, lastConnection, Mapped(status[foreground]))

\* The invariant holds at first ...
LEMMA TabsInitInv == TabsInit => TabsInv
<1> SUFFICES ASSUME TabsInit PROVE TabsInv
  OBVIOUS
<1>1. /\ status \in [Servers -> TabStates] /\ foreground \in Servers
      /\ talks \in [Servers -> BOOLEAN]
  BY DEF TabsInit, TabStates
<1>2. place \in [Servers -> [ClientIds -> Here]]
  BY DEF TabsInit, Nowhere, Here
<1>3. coming = <<>> /\ script = <<>> /\ coming \in Seq(Calls) /\ script \in Seq(Steps)
      /\ script \in Seq(Telling(lastConnection)) /\ DOMAIN coming = {}
  BY EmptySeq DEF TabsInit
<1>4. status[foreground] \in TabStates
  BY <1>1
<1>5. lastConnection = Mapped(status[foreground]) /\ lastConnection \in Connections
  BY <1>4, StatusMapped DEF TabsInit
<1>6. active \in {foreground, NoServer}
  BY DEF TabsInit
<1>7. cache \in Contents
  <2>1. Me \in ClientIds
    BY TabsAssumption
  <2>2. CASE OwnKnown(foreground)
    <3>1. /\ ChannelOf(foreground) \in Here /\ GatheredOn(foreground) \in Gatherings
      BY <1>1, <1>2, QueriesAnswered
    <3>2. GatheredOn(foreground) \in Seq(UserState)
      BY <3>1, GatheringsAreRosters
    <3>3. cache = [users |-> GatheredOn(foreground), channel |-> ChannelOf(foreground),
                   connection |-> "connected"]
      BY <2>2 DEF TabsInit
    <3> QED BY <3>1, <3>2, <3>3 DEF Contents, Here, Connections
  <2>3. CASE ~OwnKnown(foreground)
    BY <2>3, ContentsKept DEF TabsInit
  <2> QED BY <2>2, <2>3
<1>8. Owed(foreground, coming, lastConnection, Mapped(status[foreground]))
  BY <1>3, <1>5 DEF Owed, StatusPlaces
<1>9. announced = lastConnection
  BY DEF TabsInit
<1> QED BY <1>1, <1>2, <1>3, <1>5, <1>6, <1>7, <1>8, <1>9 DEF TabsInv, TabsTyped

\* What the client has the plugin called for, when something happens on tab t.
TellsOf(t, calls) ==
  /\ coming' = coming \o calls
  /\ \/ switched'
     \/ /\ UNCHANGED <<switched, foreground>>
        /\ \A i \in 1..Len(calls) : calls[i].is # "current"
        /\ \/ /\ status' = status
              /\ \A i \in 1..Len(calls) : calls[i].is # "status" /\ calls[i].is # "stopped"
           \/ \E s \in TabStates :
                /\ status' = [status EXCEPT ![t] = s]
                /\ Len(calls) # 0 /\ calls[Len(calls)] = Status(t, s)
                /\ \A i \in 1..Len(calls) : calls[i].tab = t

\* Every change is told, in order, and changes nothing in the plugin.
LEMMA HappeningTold ==
  ASSUME TabsTyped, NEW t \in Servers,
         \/ Connects(t) \/ Establishes(t) \/ Disconnects(t) \/ ServerStops(t)
         \/ Moves(t) \/ Talks(t) \/ Subscribes(t) \/ SwitchesTo(t)
  PROVE  /\ UNCHANGED <<pluginVars, announced, takenOver>>
         /\ status' \in [Servers -> TabStates]
         /\ place' \in [Servers -> [ClientIds -> Here]]
         /\ talks' \in [Servers -> BOOLEAN]
         /\ foreground' \in Servers
         /\ switched => switched'
         /\ \E calls \in Seq(Calls) : TellsOf(t, calls)
<1> DEFINE Stays  == UNCHANGED <<pluginVars, announced, takenOver>>
           Typed1 == /\ status' \in [Servers -> TabStates]
                     /\ place' \in [Servers -> [ClientIds -> Here]]
                     /\ talks' \in [Servers -> BOOLEAN]
                     /\ foreground' \in Servers
           Calls1 == \E calls \in Seq(Calls) : TellsOf(t, calls)
<1>0. /\ status \in [Servers -> TabStates] /\ place \in [Servers -> [ClientIds -> Here]]
      /\ talks \in [Servers -> BOOLEAN] /\ foreground \in Servers
  BY DEF TabsTyped
<1>a. \A calls : Tells(calls) => Stays /\ coming' = coming \o calls
  BY DEF Tells
<1>b. \A s \in TabStates : Status(t, s) \in Calls /\ Status(t, s).is = "status"
                           /\ Status(t, s).tab = t
  BY StatusMapped DEF Status, Calls
<1>c. Nowhere \in [ClientIds -> Here] /\ "disconnected" \in TabStates
  BY DEF Here, Nowhere, TabStates
<1>d. \A s \in TabStates : [status EXCEPT ![t] = s] \in [Servers -> TabStates]
  BY <1>0
<1>1. ASSUME NEW s \in TabStates, status' = [status EXCEPT ![t] = s],
             Tells(<<Status(t, s)>>), UNCHANGED <<foreground, switched>>
      PROVE  Stays /\ Calls1
  <2> DEFINE c == Status(t, s)
  <2>1. c \in Calls /\ c.is = "status" /\ c.tab = t
    BY <1>b
  <2>2. Tells(<<c>>)
    BY <1>1
  <2> HIDE DEF c
  <2>3. <<c>> \in Seq(Calls) /\ Len(<<c>>) = 1 /\ <<c>>[1] = c /\ 1..1 = {1}
    BY <2>1
  <2>4. Stays /\ coming' = coming \o <<c>>
    BY <1>a, <2>2
  <2> DEFINE calls == <<c>>
  <2>5. /\ calls \in Seq(Calls) /\ Len(calls) = 1 /\ calls[Len(calls)] = Status(t, s)
        /\ \A i \in 1..Len(calls) : calls[i].tab = t /\ calls[i].is # "current"
    BY <2>1, <2>3 DEF c
  <2>6. coming' = coming \o calls /\ Stays
    BY <2>4
  <2> HIDE DEF calls
  <2>7. TellsOf(t, calls)
    <3>1. /\ s \in TabStates /\ status' = [status EXCEPT ![t] = s]
          /\ Len(calls) # 0 /\ calls[Len(calls)] = Status(t, s)
          /\ \A i \in 1..Len(calls) : calls[i].tab = t
      BY <1>1, <2>5
    <3>2. UNCHANGED <<switched, foreground>>
      BY <1>1
    <3> QED BY <2>5, <2>6, <3>1, <3>2 DEF TellsOf
  <2> QED BY <2>5, <2>6, <2>7 DEF Calls1
<1>2. ASSUME NEW c \in Calls, c.is \notin {"status", "stopped", "current"}, Tells(<<c>>),
             UNCHANGED <<status, foreground, switched>>
      PROVE  Stays /\ Calls1
  <2>1. <<c>> \in Seq(Calls) /\ Len(<<c>>) = 1 /\ <<c>>[1] = c /\ 1..1 = {1}
    OBVIOUS
  <2>2. Stays /\ coming' = coming \o <<c>>
    BY <1>a, <1>2
  <2>3. TellsOf(t, <<c>>)
    BY <1>2, <2>1, <2>2 DEF TellsOf
  <2> QED BY <2>1, <2>2, <2>3
<1> HIDE DEF Stays, Calls1
<1>3. ASSUME Connects(t) PROVE Stays /\ Typed1 /\ Calls1
  <2>1. PICK s \in TabStates : status' = [status EXCEPT ![t] = s]
    BY <1>3 DEF Connects, TabStates, Halfway
  <2>2. status'[t] = s
    BY <1>0, <2>1
  <2>3. Tells(<<Status(t, s)>>) /\ UNCHANGED <<place, talks, foreground, switched>>
    BY <1>3, <2>2 DEF Connects
  <2> QED BY <1>0, <1>1, <1>d, <2>1, <2>3
<1>4. ASSUME Establishes(t) PROVE Stays /\ Typed1 /\ Calls1
  <2>1. /\ status' = [status EXCEPT ![t] = "established"]
        /\ Tells(<<Status(t, "established")>>)
        /\ UNCHANGED <<talks, foreground, switched>>
    BY <1>4 DEF Establishes
  <2>2. "established" \in TabStates
    BY DEF TabStates
  <2>3. PICK mine \in Channels, anns \in Here :
          place' = [place EXCEPT ![t] = [c \in ClientIds |-> IF c = Me THEN mine ELSE anns]]
    BY <1>4 DEF Establishes
  <2>4. place' \in [Servers -> [ClientIds -> Here]]
    BY <1>0, <2>3 DEF Here
  <2> QED BY <1>0, <1>1, <1>d, <2>1, <2>2, <2>4
<1>5. ASSUME Disconnects(t) \/ ServerStops(t)
      PROVE  Typed1 /\ status' = [status EXCEPT ![t] = "disconnected"]
             /\ UNCHANGED <<foreground, switched>>
  <2>1. /\ status' = [status EXCEPT ![t] = "disconnected"]
        /\ place' = [place EXCEPT ![t] = Nowhere] /\ talks' = [talks EXCEPT ![t] = FALSE]
        /\ UNCHANGED <<foreground, switched>>
    BY <1>5 DEF Disconnects, ServerStops
  <2> QED BY <1>0, <1>c, <1>d, <2>1
<1>6. ASSUME Disconnects(t) PROVE Stays /\ Calls1
  BY <1>1, <1>5, <1>6, <1>c DEF Disconnects
<1>7. ASSUME ServerStops(t) PROVE Stays /\ Calls1
  <2> DEFINE c == Stopped(t)
             d == Status(t, "disconnected")
  <2>1. c \in Calls /\ c.is = "stopped" /\ c.tab = t
    BY DEF Stopped, Calls
  <2>2. d \in Calls /\ d.is = "status" /\ d.tab = t
    BY <1>b, <1>c
  <2>3. Tells(<<c, d>>)
    BY <1>7 DEF ServerStops
  <2> HIDE DEF c, d
  <2>4. /\ <<c, d>> \in Seq(Calls) /\ Len(<<c, d>>) = 2 /\ 1..2 = {1, 2}
        /\ <<c, d>>[1] = c /\ <<c, d>>[2] = d
    BY <2>1, <2>2
  <2>5. Stays /\ coming' = coming \o <<c, d>>
    BY <1>a, <2>3
  <2> DEFINE calls == <<c, d>>
  <2>6. /\ calls \in Seq(Calls) /\ Len(calls) = 2
        /\ calls[Len(calls)] = Status(t, "disconnected")
        /\ \A i \in 1..Len(calls) : calls[i].tab = t /\ calls[i].is # "current"
    BY <2>1, <2>2, <2>4 DEF d
  <2>7. coming' = coming \o calls /\ Stays
    BY <2>5
  <2> HIDE DEF calls
  <2>8. TellsOf(t, calls)
    BY <1>5, <1>7, <1>c, <2>6, <2>7 DEF TellsOf
  <2> QED BY <2>6, <2>7, <2>8 DEF Calls1
<1>8. ASSUME Moves(t) PROVE Stays /\ Typed1 /\ Calls1
  <2>1. PICK c \in ClientIds, to \in Here :
          /\ place' = [place EXCEPT ![t][c] = to]
          /\ talks' = [talks EXCEPT ![t] = @ /\ place'[t][Ann] # NoChannel]
          /\ Tells(<<Moved(t, c, place[t][c], to)>>)
    BY <1>8 DEF Moves
  <2>2. UNCHANGED <<status, foreground, switched>>
    BY <1>8 DEF Moves
  <2>3. place[t] \in [ClientIds -> Here] /\ place[t][c] \in Here
    BY <1>0
  <2>4. Moved(t, c, place[t][c], to) \in Calls
        /\ Moved(t, c, place[t][c], to).is \notin {"status", "stopped", "current"}
    BY <2>3 DEF Moved, Calls
  <2>5. place' \in [Servers -> [ClientIds -> Here]] /\ talks' \in [Servers -> BOOLEAN]
    BY <1>0, <2>1
  <2> QED BY <1>0, <1>2, <2>1, <2>2, <2>4, <2>5
<1>9. ASSUME Talks(t) PROVE Stays /\ Typed1 /\ Calls1
  <2>1. /\ talks' = [talks EXCEPT ![t] = ~@] /\ Tells(<<Talking(t, talks'[t])>>)
        /\ UNCHANGED <<status, place, foreground, switched>>
    BY <1>9 DEF Talks
  <2>2. talks' \in [Servers -> BOOLEAN]
    BY <1>0, <2>1
  <2>3. Talking(t, talks'[t]) \in Calls
        /\ Talking(t, talks'[t]).is \notin {"status", "stopped", "current"}
    BY <2>2 DEF Talking, Calls
  <2> QED BY <1>0, <1>2, <2>1, <2>2, <2>3
<1>10. ASSUME Subscribes(t) PROVE Stays /\ Typed1 /\ Calls1
  <2>1. /\ Tells(<<Subscribed(t)>>)
        /\ UNCHANGED <<status, place, talks, foreground, switched>>
    BY <1>10 DEF Subscribes
  <2>2. Subscribed(t) \in Calls
        /\ Subscribed(t).is \notin {"status", "stopped", "current"}
    BY DEF Subscribed, Calls
  <2> QED BY <1>0, <1>2, <2>1, <2>2
<1>11. ASSUME SwitchesTo(t) PROVE Stays /\ Typed1 /\ Calls1 /\ switched'
  <2> DEFINE c == Current(t)
  <2>1. c \in Calls
    BY DEF Current, Calls
  <2>2. Tells(<<c>>) /\ foreground' = t /\ switched' /\ UNCHANGED <<status, place, talks>>
    BY <1>11 DEF SwitchesTo
  <2> HIDE DEF c
  <2>3. <<c>> \in Seq(Calls)
    BY <2>1
  <2>4. Stays /\ coming' = coming \o <<c>>
    BY <1>a, <2>2
  <2>5. TellsOf(t, <<c>>)
    BY <2>2, <2>4 DEF TellsOf
  <2>6. Typed1
    BY <1>0, <2>2
  <2> QED BY <2>2, <2>3, <2>4, <2>5, <2>6 DEF Calls1
<1>12. switched => switched'
  BY <1>11 DEF Connects, Establishes, Disconnects, ServerStops, Moves, Talks, Subscribes
<1>13. Stays /\ Typed1 /\ Calls1
  BY <1>3, <1>4, <1>5, <1>6, <1>7, <1>8, <1>9, <1>10, <1>11
<1> QED BY <1>12, <1>13 DEF Stays, Calls1

\* ... and every step keeps it.
LEMMA TabsStepInv == TabsInv /\ [TabsNext]_tabVars => TabsInv'
<1> SUFFICES ASSUME TabsInv, [TabsNext]_tabVars PROVE TabsInv'
  OBVIOUS
<1>0. /\ TabsTyped
      /\ cache \in Contents /\ script \in Seq(Steps)
      /\ active \in Servers \cup {NoServer} /\ lastConnection \in Connections
      /\ status \in [Servers -> TabStates]
      /\ place \in [Servers -> [ClientIds -> Here]]
      /\ talks \in [Servers -> BOOLEAN]
      /\ foreground \in Servers
      /\ coming \in Seq(Calls)
  BY DEF TabsInv, TabsTyped
<1>1. ASSUME Happens PROVE TabsInv'
  <2>1. PICK t \in Servers :
          \/ Connects(t) \/ Establishes(t) \/ Disconnects(t) \/ ServerStops(t)
          \/ Moves(t) \/ Talks(t) \/ Subscribes(t) \/ SwitchesTo(t)
    BY <1>1 DEF Happens
  <2>2. /\ UNCHANGED <<cache, script, active, lastConnection, announced, takenOver>>
        /\ status' \in [Servers -> TabStates]
        /\ place' \in [Servers -> [ClientIds -> Here]]
        /\ talks' \in [Servers -> BOOLEAN]
        /\ foreground' \in Servers
        /\ switched => switched'
        /\ \E calls \in Seq(Calls) : TellsOf(t, calls)
    BY <1>0, <2>1, HappeningTold DEF pluginVars
  <2>3. PICK calls \in Seq(Calls) : TellsOf(t, calls)
    BY <2>2
  <2>4. coming' = coming \o calls /\ coming' \in Seq(Calls)
    BY <1>0, <2>3, ConcatProperties DEF TellsOf
  <2>5. TabsTyped'
    BY <1>0, <2>2, <2>4 DEF TabsTyped
  <2>6. ASSUME ~switched' PROVE \A i \in DOMAIN coming' : coming'[i].is # "current"
    <3>1. /\ \A i \in 1..Len(calls) : calls[i].is # "current"
          /\ \A i \in DOMAIN coming : coming[i].is # "current"
      BY <2>2, <2>3, <2>6 DEF TellsOf, TabsInv
    <3>2. /\ Len(coming) \in Nat /\ Len(calls) \in Nat
          /\ DOMAIN coming = 1..Len(coming)
          /\ DOMAIN coming' = 1..Len(coming) + Len(calls)
          /\ \A i \in 1..Len(coming) + Len(calls) :
               coming'[i] = IF i <= Len(coming) THEN coming[i] ELSE calls[i - Len(coming)]
      BY <1>0, <2>4, ConcatProperties, LenProperties
    <3>3. \A i \in 1..Len(coming) + Len(calls) :
             i <= Len(coming) \/ i - Len(coming) \in 1..Len(calls)
      BY <3>2
    <3>4. \A i \in 1..Len(coming) + Len(calls) : i <= Len(coming) => i \in 1..Len(coming)
      BY <3>2
    <3> QED BY <3>1, <3>2, <3>3, <3>4
  <2>7. ASSUME ~switched', ~takenOver'
        PROVE  /\ active' \in {NoServer, foreground'}
               /\ Owed(foreground', coming', lastConnection', Mapped(status'[foreground']))
    <3>1. /\ active \in {NoServer, foreground} /\ foreground' = foreground
          /\ Owed(foreground, coming, lastConnection, Mapped(status[foreground]))
      BY <2>2, <2>3, <2>7 DEF TellsOf, TabsInv
    <3>2. \/ /\ status' = status
             /\ \A i \in 1..Len(calls) : calls[i].is # "status" /\ calls[i].is # "stopped"
          \/ \E s \in TabStates :
               /\ status' = [status EXCEPT ![t] = s]
               /\ Len(calls) # 0 /\ calls[Len(calls)] = Status(t, s)
               /\ \A i \in 1..Len(calls) : calls[i].tab = t
      BY <2>3, <2>7 DEF TellsOf
    <3>3. ASSUME \A i \in 1..Len(calls) :
                    calls[i].is \in {"status", "stopped"} => calls[i].tab # foreground
          PROVE  Owed(foreground, coming', lastConnection, Mapped(status[foreground]))
      BY <1>0, <2>4, <3>1, <3>3, CallsTold
    <3>4. CASE /\ status' = status
               /\ \A i \in 1..Len(calls) : calls[i].is # "status" /\ calls[i].is # "stopped"
      BY <2>2, <3>1, <3>3, <3>4
    <3>5. ASSUME NEW s \in TabStates, status' = [status EXCEPT ![t] = s],
                 Len(calls) # 0, calls[Len(calls)] = Status(t, s),
                 \A i \in 1..Len(calls) : calls[i].tab = t
          PROVE  Owed(foreground, coming', lastConnection, Mapped(status'[foreground]))
      <4>1. CASE t = foreground
        <5>1. /\ calls[Len(calls)].is = "status" /\ calls[Len(calls)].tab = foreground
              /\ calls[Len(calls)].status = Mapped(s) /\ status'[foreground] = s
          BY <1>0, <3>5, <4>1 DEF Status
        <5>2. Owed(foreground, coming \o calls, lastConnection, Mapped(s))
          BY <1>0, <3>1, <3>5, <5>1, CallsTold
        <5> QED BY <2>4, <5>1, <5>2
      <4>2. CASE t # foreground
        <5>1. status'[foreground] = status[foreground]
          BY <1>0, <3>5, <4>2
        <5>2. \A i \in 1..Len(calls) :
                 calls[i].is \in {"status", "stopped"} => calls[i].tab # foreground
          BY <3>5, <4>2
        <5> QED BY <3>3, <5>1, <5>2
      <4> QED BY <4>1, <4>2
    <3> QED BY <2>2, <3>1, <3>2, <3>4, <3>5
  <2>8. script' = script /\ lastConnection' = lastConnection /\ announced' = announced
    BY <2>2
  <2> QED BY <2>5, <2>6, <2>7, <2>8 DEF TabsInv
<1>2. ASSUME Arrival PROVE TabsInv'
  <2>1. /\ script = <<>> /\ coming # <<>> /\ Call \in Calls /\ Call = Head(coming)
        /\ coming' = Tail(coming) /\ coming' \in Seq(Calls)
        /\ UNCHANGED <<status, place, talks, foreground, announced, switched>>
    BY <1>0, <1>2, ArrivalServed, HeadTailProperties DEF world, Call
  <2>2. cache' = cache /\ (Scripted \/ UNCHANGED <<script, lastConnection>>)
    <3>1. CASE Callback
      BY <1>0, <3>1, CallbackScripts DEF Scripted
    <3>2. CASE UNCHANGED pluginVars
      BY <3>2 DEF pluginVars
    <3> QED BY <1>0, <1>2, <3>1, <3>2, ArrivalServed
  <2>3. /\ script' \in Seq(Telling(lastConnection'))
        /\ script' \in Seq(Steps)
        /\ script' \in Seq(Silent) => announced' = lastConnection'
        /\ lastConnection' \in Connections
    <3>1. announced = lastConnection
      BY <2>1, EmptySeq DEF TabsInv
    <3>2. CASE UNCHANGED <<script, lastConnection>>
      BY <1>0, <2>1, <3>1, <3>2 DEF TabsInv
    <3>3. CASE Scripted
      <4>1. CASE script' \in Seq(Silent) /\ lastConnection' = lastConnection
        BY <1>0, <2>1, <3>1, <4>1, SilentTells
      <4>2. CASE /\ lastConnection' \in Connections
                 /\ script' \in Seq(Telling(lastConnection')) /\ script' \notin Seq(Silent)
        BY <4>2, SilentTells
      <4> QED BY <3>3, <4>1, <4>2 DEF Scripted
    <3> QED BY <2>2, <3>2, <3>3
  <2>4. active' \in Servers \cup {NoServer}
    BY <1>0, <1>2, ArrivalServed
  <2>5. TabsTyped'
    BY <1>0, <2>1, <2>2, <2>3, <2>4 DEF TabsTyped
  <2>6. /\ DOMAIN coming = 1..Len(coming) /\ Len(coming) \in Nat /\ Len(coming) # 0
        /\ Call = coming[1]
        /\ DOMAIN coming' = 1..Len(coming) - 1
        /\ \A i \in 1..Len(coming) - 1 : coming'[i] = coming[i + 1]
    <3>1. /\ Len(coming') = Len(coming) - 1
          /\ \A i \in 1..Len(coming') : coming'[i] = coming[i + 1]
      BY <1>0, <2>1, HeadTailProperties
    <3>2. DOMAIN coming' = 1..Len(coming') /\ DOMAIN coming = 1..Len(coming)
          /\ Len(coming) \in Nat /\ Len(coming) # 0 /\ Head(coming) = coming[1]
      BY <1>0, <2>1, LenProperties, EmptySeq
    <3> QED BY <2>1, <3>1, <3>2
  <2>7. ~switched => Call.is # "current"
    BY <2>6 DEF TabsInv
  <2>8. ~switched' => \A i \in DOMAIN coming' : coming'[i].is # "current"
    <3>1. \A i \in 1..Len(coming) - 1 : i + 1 \in 1..Len(coming)
      BY <2>6
    <3> QED BY <2>1, <2>6, <3>1 DEF TabsInv
  <2>9. ASSUME ~switched', ~takenOver'
        PROVE  /\ active' \in {NoServer, foreground'}
               /\ Owed(foreground', coming', lastConnection', Mapped(status'[foreground']))
    <3>1. ~switched /\ Call.is # "current" /\ foreground' = foreground /\ status' = status
      BY <2>1, <2>7, <2>9
    <3>2. Call.is \in {"status", "stopped"} \/ Call.is \notin {"status", "stopped", "current"}
      BY <3>1
    <3>3. ~takenOver
      BY <1>0, <1>2, <2>9, <3>2, ArrivalServed
    <3>4. /\ active \in {NoServer, foreground}
          /\ Owed(foreground, coming, lastConnection, Mapped(status[foreground]))
      BY <3>1, <3>3 DEF TabsInv
    <3>5. /\ active' \in {NoServer, foreground}
          /\ Call.is = "status" /\ Call.tab = foreground => lastConnection' = Call.status
          /\ ~(Call.is \in {"status", "stopped"} /\ Call.tab = foreground)
               => lastConnection' = lastConnection
      <4>1. CASE Call.is \notin {"status", "stopped", "current"}
        BY <1>0, <1>2, <3>4, <4>1, ArrivalServed
      <4>2. CASE Call.is = "status" /\ ~Concerns(Call.tab, Call.status)
        <5>1. UNCHANGED <<active, lastConnection>>
          BY <1>0, <1>2, <4>2, ArrivalServed
        <5>2. Call.tab # foreground
          BY <3>4, <4>2 DEF Concerns
        <5> QED BY <3>4, <4>2, <5>1, <5>2
      <4>3. CASE Call.is = "status" /\ Concerns(Call.tab, Call.status)
        <5>1. /\ lastConnection' = Call.status
              /\ active' \in {active, Call.tab, NoServer}
              /\ takenOver' = (takenOver \/ (Call.tab # active /\
                                 (active # NoServer \/ Call.tab # foreground)))
          BY <1>0, <1>2, <4>3, ArrivalServed
        <5>2. Call.tab \in Servers
          BY <2>1 DEF Calls
        <5>3. Call.tab = foreground
          BY <2>9, <3>4, <5>1, <5>2, PluginAssumption
        <5> QED BY <3>4, <4>3, <5>1, <5>3
      <4>4. CASE Call.is = "stopped"
        <5>1. /\ Call.tab # active => lastConnection' = lastConnection
              /\ active' \in {active, NoServer}
          BY <1>0, <1>2, <4>4, ArrivalServed
        <5>2. Call.tab \in Servers
          BY <2>1 DEF Calls
        <5> QED BY <3>4, <4>4, <5>1, <5>2, PluginAssumption
      <4> QED BY <3>2, <4>1, <4>2, <4>3, <4>4
    <3>6. Owed(foreground, Tail(coming), lastConnection', Mapped(status[foreground]))
      BY <1>0, <2>1, <3>4, <3>5, CallServed
    <3> QED BY <2>1, <3>1, <3>5, <3>6
  <2> QED BY <2>3, <2>5, <2>8, <2>9 DEF TabsInv
<1>3. ASSUME Refreshes PROVE TabsInv'
  <2>1. /\ script # <<>> /\ Head(script).do = "refresh"
        /\ cache' = Head(script).cache /\ script' = Tail(script)
        /\ UNCHANGED <<active, lastConnection, status, place, talks, foreground, coming,
                       announced, switched, takenOver>>
    BY <1>3 DEF Refreshes, RefreshCache, world, told
  <2>2. ~IsNews(Head(script))
    BY <2>1 DEF IsNews
  <2>3. cache' \in Contents
    <3>1. Head(script) \in Steps
      BY <1>0, <2>1, HeadTailProperties
    <3> QED BY <2>1, <3>1 DEF Steps
  <2>4. /\ script' \in Seq(Steps) /\ script' \in Seq(Telling(lastConnection))
        /\ script' \in Seq(Silent) => script \in Seq(Silent)
    BY <1>0, <2>1, <2>2, ScriptServed DEF TabsInv
  <2>5. TabsTyped'
    BY <1>0, <2>1, <2>3, <2>4 DEF TabsTyped
  <2> QED BY <2>1, <2>4, <2>5 DEF TabsInv
<1>4. ASSUME Broadcasts PROVE TabsInv'
  <2>1. /\ script # <<>> /\ Head(script).do = "send" /\ script' = Tail(script)
        /\ announced' = IF Head(script).msg.type = "connection_changed"
                        THEN Head(script).msg.connection ELSE announced
        /\ UNCHANGED <<cache, active, lastConnection, status, place, talks, foreground, coming,
                       switched, takenOver>>
    BY <1>4 DEF Broadcasts, world
  <2>2. /\ script' \in Seq(Steps) /\ script' \in Seq(Telling(lastConnection))
        /\ ~IsNews(Head(script)) /\ script' \in Seq(Silent) => script \in Seq(Silent)
        /\ IsNews(Head(script)) => Head(script).msg.connection = lastConnection
    BY <1>0, <2>1, ScriptServed DEF TabsInv
  <2>3. script' \in Seq(Silent) => announced' = lastConnection
    BY <2>1, <2>2 DEF IsNews, TabsInv
  <2>4. TabsTyped'
    BY <1>0, <2>1, <2>2 DEF TabsTyped
  <2> QED BY <2>1, <2>2, <2>3, <2>4 DEF TabsInv
<1>5. ASSUME UNCHANGED tabVars PROVE TabsInv'
  <2>1. UNCHANGED <<cache, script, active, lastConnection, status, place, talks, foreground,
                    coming, announced, switched, takenOver>>
    BY <1>5 DEF tabVars, pluginVars, world, told
  <2>2. TabsTyped'
    BY <1>0, <2>1 DEF TabsTyped
  <2> QED BY <2>1, <2>2 DEF TabsInv
<1> QED BY <1>1, <1>2, <1>3, <1>4, <1>5 DEF TabsNext

\* The invariant holds throughout.
THEOREM TabsInvariance == TabsSpec => []TabsInv
BY TabsInitInv, TabsStepInv, PTL DEF TabsSpec

\* However many tabs connect, drop, stop and come back, and however far the
\* queries run ahead of the callbacks: when the plugin is done with all of
\* them, the last connection_changed it broadcast is what the connection of
\* the user's tab is, unless the user changed tabs or another took over.
THEOREM NothingUnannounced == TabsSpec => []ConnectionAsAnnounced
<1>1. TabsInv => ConnectionAsAnnounced
  <2> SUFFICES ASSUME TabsInv, Settled, ~takenOver, ~switched
               PROVE  announced = Mapped(status[foreground])
    BY DEF ConnectionAsAnnounced
  <2>1. coming = <<>> /\ script = <<>> /\ script \in Seq(Silent)
    BY EmptySeq DEF Settled
  <2>2. announced = lastConnection
    BY <2>1 DEF TabsInv
  <2>3. StatusPlaces(foreground, coming) = {}
    BY <2>1, EmptySeq DEF StatusPlaces
  <2> QED BY <2>2, <2>3 DEF TabsInv, Owed
<1> QED BY <1>1, TabsInvariance, PTL

\* A step of the callback that runs broadcasts its next line.
Sends == /\ script # <<>> /\ Head(script).do = "send" /\ script' = Tail(script)
         /\ UNCHANGED <<cache, active, lastConnection>>

\* A TeamSpeak client with several tabs is a TeamSpeak as PluginCore takes it:
\* whatever it does, the plugin runs one of its callbacks, or a step of the
\* one that runs, or nothing; so what holds of any TeamSpeak holds of it.
THEOREM TabsAreTeamSpeak ==
  TabsSpec => PluginInit /\ [][Callback \/ RefreshCache \/ Sends]_pluginVars
<1>1. TabsInv /\ [TabsNext]_tabVars => [Callback \/ RefreshCache \/ Sends]_pluginVars
  <2> SUFFICES ASSUME TabsInv, [TabsNext]_tabVars
               PROVE  Callback \/ RefreshCache \/ Sends \/ UNCHANGED pluginVars
    OBVIOUS
  <2>1. CASE Happens
    <3>1. PICK t \in Servers :
            \/ Connects(t) \/ Establishes(t) \/ Disconnects(t) \/ ServerStops(t)
            \/ Moves(t) \/ Talks(t) \/ Subscribes(t) \/ SwitchesTo(t)
      BY <2>1 DEF Happens
    <3> QED BY <3>1, HappeningTold DEF TabsInv
  <2>2. CASE Arrival
    BY <2>2, ArrivalServed DEF TabsInv
  <2>3. CASE Refreshes
    BY <2>3 DEF Refreshes
  <2>4. CASE Broadcasts
    BY <2>4 DEF Broadcasts, Sends
  <2>5. CASE UNCHANGED tabVars
    BY <2>5 DEF tabVars
  <2> QED BY <2>1, <2>2, <2>3, <2>4, <2>5 DEF TabsNext
<1>2. ASSUME TabsInit PROVE PluginInit
  <2>1. script = <<>> /\ foreground \in Servers /\ place \in [Servers -> [ClientIds -> Here]]
        /\ Me \in ClientIds
    BY <1>2, TabsInitInv, TabsAssumption DEF TabsInv, TabsTyped, TabsInit
  <2>2. CASE OwnKnown(foreground)
    <3>1. ChannelOf(foreground) \in Channels
      BY <1>2, <2>1, <2>2 DEF TabsInit, ChannelOf, OwnKnown
    <3>2. GatheredOn(foreground) \in Gatherings
      BY <2>1, QueriesAnswered
    <3>3. lastConnection = "connected" /\ active \in Servers
      BY <1>2, <2>1, <2>2 DEF TabsInit, OwnKnown, Mapped
    <3>4. cache = [users |-> GatheredOn(foreground), channel |-> ChannelOf(foreground),
                   connection |-> "connected"]
      BY <1>2, <2>2 DEF TabsInit
    <3> QED BY <2>1, <3>1, <3>2, <3>3, <3>4 DEF PluginInit
  <2>3. CASE ~OwnKnown(foreground)
    <3>1. status[foreground] = "disconnected"
      BY <1>2, <2>1, <2>3 DEF TabsInit, OwnKnown
    <3>2. lastConnection = "disconnected" /\ active = NoServer /\ cache = Offline
      BY <1>2, <2>3, <3>1 DEF TabsInit, Mapped
    <3> QED BY <2>1, <3>2 DEF PluginInit
  <2> QED BY <2>2, <2>3
<1> QED BY <1>1, <1>2, TabsInvariance, PTL DEF TabsSpec
-----------------------------------------------------------------------------
(* The rosters of the tabs' two people. *)

Speaking  == [WhoIs[Ann] EXCEPT !.talking = TRUE]
Has(c, x) == \E i \in DOMAIN c.users : c.users[i].cid = x
Speaks(c) == \E i \in DOMAIN c.users : c.users[i].talking

\* Nobody is listed twice, nobody but Ann talks, and where there is no channel
\* nobody is listed.
Kept(c) ==
  /\ c \in Contents
  /\ \A i \in DOMAIN c.users : c.users[i] \in {WhoIs[Me], WhoIs[Ann], Speaking}
  /\ \A i, j \in DOMAIN c.users : c.users[i].cid = c.users[j].cid => i = j
  /\ c.channel = NoChannel => c.users = <<>>

\* The rows of the two.
LEMMA People ==
  /\ Me \in ClientIds /\ Ann \in ClientIds /\ ClientIds = {Me, Ann} /\ Me # Ann
  /\ \A x \in ClientIds : /\ WhoIs[x] \in UserState /\ WhoIs[x].cid = x
                          /\ ~WhoIs[x].talking /\ ~WhoIs[x].whispering
  /\ Speaking \in UserState /\ Speaking.talking /\ ~Speaking.whispering
  /\ Speaking.cid = Ann /\ Speaking.uid = WhoIs[Ann].uid /\ Speaking # WhoIs[Ann]
  /\ Speaking = [WhoIs[Ann] EXCEPT !.talking = TRUE, !.whispering = FALSE]
<1>1. Me \in ClientIds /\ Ann \in ClientIds /\ ClientIds = {Me, Ann} /\ Me # Ann
  BY TabsAssumption
<1>2. \A x \in ClientIds : /\ WhoIs[x] \in UserState /\ WhoIs[x].cid = x
                           /\ ~WhoIs[x].talking /\ ~WhoIs[x].whispering
  BY TabsAssumption, PluginAssumption
<1>3. \A p \in UserState : ~p.talking /\ ~p.whispering =>
        LET s == [p EXCEPT !.talking = TRUE]
        IN  /\ s \in UserState /\ s.talking /\ ~s.whispering /\ s.cid = p.cid /\ s.uid = p.uid
            /\ s # p /\ s = [p EXCEPT !.talking = TRUE, !.whispering = FALSE]
  BY DEF UserState
<1> QED BY <1>1, <1>2, <1>3, Zenon DEF Speaking

\* What a roster of the two is made of.
LEMMA KeptRows ==
  ASSUME NEW c, Kept(c)
  PROVE  /\ c \in Contents /\ c.users \in Seq(UserState) /\ Len(c.users) \in Nat
         /\ DOMAIN c.users = 1..Len(c.users)
         /\ \A i \in 1..Len(c.users) :
              /\ c.users[i] \in UserState /\ c.users[i].cid \in ClientIds
              /\ ~c.users[i].whispering
              /\ c.users[i].uid = WhoIs[c.users[i].cid].uid
              /\ c.users[i].talking => c.users[i] = Speaking
              /\ ~c.users[i].talking => c.users[i] = WhoIs[c.users[i].cid]
         /\ Speaks(c) => Has(c, Ann) /\ c.channel # NoChannel
         /\ \A x : Has(c, x) => c.channel # NoChannel
         /\ \A x : ClientRow(c.users, x) \in 0..Len(c.users)
         /\ \A x : ClientRow(c.users, x) # 0 => c.users[ClientRow(c.users, x)].cid = x
         /\ \A x : Has(c, x) <=> ClientRow(c.users, x) # 0
<1>1. c \in Contents /\ c.users \in Seq(UserState) /\ Len(c.users) \in Nat
      /\ DOMAIN c.users = 1..Len(c.users)
  BY LenProperties DEF Kept, Contents
<1> DEFINE n == Len(c.users)
           u == c.users
<1> HIDE DEF n, u
<1>2. \A i \in 1..n : /\ u[i] \in UserState /\ u[i].cid \in ClientIds
                      /\ ~u[i].whispering /\ u[i].uid = WhoIs[u[i].cid].uid
                      /\ u[i].talking => u[i] = Speaking
                      /\ ~u[i].talking => u[i] = WhoIs[u[i].cid]
  <2> SUFFICES ASSUME NEW i \in 1..n
               PROVE  /\ u[i] \in UserState /\ u[i].cid \in ClientIds
                      /\ ~u[i].whispering /\ u[i].uid = WhoIs[u[i].cid].uid
                      /\ u[i].talking => u[i] = Speaking
                      /\ ~u[i].talking => u[i] = WhoIs[u[i].cid]
    OBVIOUS
  <2>1. u[i] = WhoIs[Me] \/ u[i] = WhoIs[Ann] \/ u[i] = Speaking
    BY <1>1 DEF Kept, u, n
  <2> QED BY <2>1, People
<1>3. c.channel = NoChannel => n = 0
  BY DEF Kept, n
<1>4. \A x : ClientRow(u, x) \in 0..n /\ (ClientRow(u, x) # 0 => u[ClientRow(u, x)].cid = x)
  BY <1>1, RowPlaces DEF u, n
<1>5. ASSUME NEW x PROVE Has(c, x) <=> ClientRow(u, x) # 0
  <2>1. ASSUME Has(c, x) PROVE ClientRow(u, x) # 0
    <3> DEFINE I == {i \in 1..n : u[i].cid = x}
    <3>1. ClientRow(u, x) = IF I # {} THEN Min(I) ELSE 0
      BY <1>1 DEF ClientRow, SelectInSeq, u, n
    <3>2. I # {} /\ I \in SUBSET (1..n)
      BY <1>1, <2>1 DEF Has, u, n
    <3> HIDE DEF I
    <3>3. Min(I) \in 1..n
      BY <1>1, <3>2, MinPlace DEF n
    <3> QED BY <1>1, <3>1, <3>2, <3>3 DEF n
  <2>2. ASSUME ClientRow(u, x) # 0 PROVE Has(c, x)
    <3>1. ClientRow(u, x) \in 1..n /\ u[ClientRow(u, x)].cid = x
      BY <1>1, <1>4, <2>2 DEF n
    <3> QED BY <1>1, <3>1 DEF Has, u, n
  <2> QED BY <2>1, <2>2
<1>6. Speaks(c) => Has(c, Ann)
  BY <1>1, <1>2, People DEF Speaks, Has, u, n
<1>7. \A x : Has(c, x) => c.channel # NoChannel
  BY <1>1, <1>3 DEF Has, n
<1> QED BY <1>1, <1>2, <1>4, <1>5, <1>6, <1>7 DEF u, n

\* resynchronise() lists who is there now.  Who talked before and is there
\* still talks on, and nobody else.
LEMMA Rereading ==
  ASSUME NEW c, Kept(c), NEW t \in Servers,
         place \in [Servers -> [ClientIds -> Here]]
  PROVE  LET now == Resynchronise(c, ChannelOf(t), GatheredOn(t))
         IN  /\ Kept(now) /\ now.channel = ChannelOf(t)
             /\ \A x \in ClientIds : Has(now, x) <=> x \in PresentOn(t)
             /\ Speaks(now) => Speaks(c)
<1> DEFINE now == Resynchronise(c, ChannelOf(t), GatheredOn(t))
           g == GatheredOn(t)
           P == PresentOn(t)
           ids == Ascending(P)
           n == Cardinality(P)
<1>1. ChannelOf(t) \in SaidChannels /\ ChannelOf(t) # Unnamed /\ g \in Gatherings
  BY QueriesAnswered
<1>2. now \in Contents
  BY <1>1, ContentsKept DEF Kept
<1>3. P \in SUBSET ClientIds
  BY DEF PresentOn
<1> HIDE DEF P
<1>4. /\ n \in 0..2 /\ ids \in [1..n -> P] /\ \A i, j \in 1..n : ids[i] = ids[j] => i = j
      /\ \A x \in P : \E i \in 1..n : ids[i] = x
  BY <1>3, AscendingIds
<1>5. g = [i \in 1..n |-> WhoIs[ids[i]]]
  BY <1>4 DEF GatheredOn, P
<1> HIDE DEF ids, n, g
<1>6. CASE ChannelOf(t) = NoChannel
  <2>1. now = [c EXCEPT !.users = <<>>, !.channel = NoChannel]
    BY <1>6 DEF Resynchronise
  <2>2. now.users = <<>> /\ now.channel = NoChannel /\ DOMAIN now.users = {}
    BY <2>1 DEF Kept, Contents
  <2>3. P = {}
    BY <1>6 DEF PresentOn, P
  <2> HIDE DEF now
  <2> QED BY <1>2, <1>6, <2>2, <2>3 DEF now, Kept, Has, Speaks, P
<1>7. CASE ChannelOf(t) # NoChannel
  <2> DEFINE users == [i \in DOMAIN g |-> KeepTalking(c, g[i])]
  <2>1. now = [c EXCEPT !.channel = ChannelOf(t), !.users = users]
    BY <1>1, <1>7 DEF Resynchronise, g
  <2>2. now.users = users /\ now.channel = ChannelOf(t) /\ DOMAIN users = 1..n
    BY <1>5, <2>1 DEF Kept, Contents
  <2>3. ASSUME NEW x \in ClientIds
        PROVE  /\ KeepTalking(c, WhoIs[x]) \in {WhoIs[x], Speaking}
               /\ KeepTalking(c, WhoIs[x]).cid = x
               /\ KeepTalking(c, WhoIs[x]).talking => Speaks(c)
    <3> DEFINE was == BusyRow(c, WhoIs[x].uid)
               B == {i \in 1..Len(c.users) : c.users[i].uid = WhoIs[x].uid
                                             /\ (c.users[i].talking \/ c.users[i].whispering)}
    <3>1. /\ Len(c.users) \in Nat /\ DOMAIN c.users = 1..Len(c.users)
          /\ \A i \in 1..Len(c.users) :
               ~c.users[i].whispering /\ (c.users[i].talking => c.users[i] = Speaking)
      BY KeptRows
    <3>2. was = IF B # {} THEN Min(B) ELSE 0
      BY <3>1 DEF BusyRow, SelectInSeq
    <3>3. was = 0 \/ was \in B
      <4>1. B \in SUBSET (1..Len(c.users))
        OBVIOUS
      <4> HIDE DEF B, was
      <4> QED BY <3>1, <3>2, <4>1, MinPlace
    <3> HIDE DEF was
    <3>4. CASE was = 0
      BY <3>4, People DEF KeepTalking, was
    <3>5. CASE was # 0
      <4>1. /\ was \in 1..Len(c.users) /\ c.users[was].uid = WhoIs[x].uid
            /\ c.users[was].talking
        BY <3>1, <3>3, <3>5
      <4>2. c.users[was] = Speaking
        BY <3>1, <4>1
      <4>3. x = Ann
        BY <4>1, <4>2, People, TabsAssumption
      <4>4. KeepTalking(c, WhoIs[x]) = [WhoIs[Ann] EXCEPT !.talking = Speaking.talking,
                                                          !.whispering = Speaking.whispering]
        BY <3>5, <4>2, <4>3 DEF KeepTalking, was
      <4>5. KeepTalking(c, WhoIs[x]) = Speaking
        BY <4>4, People, Zenon
      <4>6. Speaks(c)
        BY <3>1, <4>1 DEF Speaks
      <4> QED BY <4>3, <4>5, <4>6, People
    <3> QED BY <3>4, <3>5
  <2>4. ASSUME NEW i \in 1..n
        PROVE  /\ ids[i] \in ClientIds /\ ids[i] \in P
               /\ users[i] \in {WhoIs[ids[i]], Speaking}
               /\ users[i].cid = ids[i] /\ (users[i].talking => Speaks(c))
    <3>1. ids[i] \in ClientIds /\ ids[i] \in P
      BY <1>3, <1>4
    <3>2. users[i] = KeepTalking(c, WhoIs[ids[i]])
      BY <1>5
    <3> QED BY <2>3, <3>1, <3>2
  <2> HIDE DEF users
  <2>5. \A i \in DOMAIN users : users[i] \in {WhoIs[Me], WhoIs[Ann], Speaking}
    BY <2>2, <2>4, People
  <2>6. \A i, j \in DOMAIN users : users[i].cid = users[j].cid => i = j
    BY <1>4, <2>2, <2>4
  <2>7. \A x \in ClientIds : (\E i \in DOMAIN users : users[i].cid = x) <=> x \in P
    BY <1>4, <2>2, <2>4
  <2>8. (\E i \in DOMAIN users : users[i].talking) => Speaks(c)
    BY <2>2, <2>4
  <2> HIDE DEF now
  <2>9. Kept(now) /\ now.channel = ChannelOf(t)
    BY <1>2, <1>7, <2>2, <2>5, <2>6 DEF Kept
  <2>10. \A x \in ClientIds : Has(now, x) <=> x \in P
    BY <2>2, <2>7 DEF Has
  <2>11. Speaks(now) => Speaks(c)
    BY <2>2, <2>8 DEF Speaks
  <2> QED BY <2>9, <2>10, <2>11 DEF now, P
<1> QED BY <1>6, <1>7
\* What RemoveAt leaves, row by row.
LEMMA RemoveRows ==
  ASSUME NEW s \in Seq(UserState), NEW i \in 1..Len(s)
  PROVE  /\ RemoveAt(s, i) \in Seq(UserState)
         /\ DOMAIN RemoveAt(s, i) = 1..Len(s) - 1
         /\ \A j \in 1..Len(s) - 1 : RemoveAt(s, i)[j] = IF j < i THEN s[j] ELSE s[j + 1]
<1>1. Len(s) \in Nat /\ \A j \in 1..Len(s) : s[j] \in UserState
  BY LenProperties, ElementOfSeq
<1> DEFINE n == Len(s)
           p == SubSeq(s, 1, i-1)
           q == SubSeq(s, i+1, Len(s))
<1>2. RemoveAt(s, i) = p \o q
  BY DEF RemoveAt
<1>3. p \in Seq(UserState) /\ Len(p) = i - 1 /\ \A j \in 1..i - 1 : p[j] = s[j]
  BY <1>1, SubSeqProperties
<1>4. q \in Seq(UserState) /\ Len(q) = n - i /\ \A j \in 1..n - i : q[j] = s[j + i]
  <2>1. /\ q \in Seq(UserState) /\ Len(q) = IF i + 1 <= n THEN n - (i + 1) + 1 ELSE 0
        /\ \A j \in 1..n - (i + 1) + 1 : q[j] = s[(i + 1) + j - 1]
    BY <1>1, SubSeqProperties
  <2>2. \A j \in 1..n - i : j \in 1..n - (i + 1) + 1 /\ (i + 1) + j - 1 = j + i
    BY <1>1
  <2> HIDE DEF q
  <2> QED BY <1>1, <2>1, <2>2
<1> HIDE DEF p, q, n
<1>5. /\ p \o q \in Seq(UserState) /\ Len(p \o q) = Len(p) + Len(q)
      /\ \A j \in 1..Len(p) + Len(q) : (p \o q)[j] = IF j <= Len(p) THEN p[j] ELSE q[j - Len(p)]
  BY <1>3, <1>4, ConcatProperties
<1>6. n \in Nat /\ i \in 1..n /\ Len(p) + Len(q) = n - 1
  BY <1>1, <1>3, <1>4 DEF n
<1>7. DOMAIN (p \o q) = 1..n - 1
  BY <1>5, <1>6, LenProperties
<1>8. ASSUME NEW j \in 1..n - 1 PROVE (p \o q)[j] = IF j < i THEN s[j] ELSE s[j + 1]
  <2>1. (p \o q)[j] = IF j <= i - 1 THEN p[j] ELSE q[j - (i - 1)]
    BY <1>3, <1>5, <1>6
  <2>2. CASE j < i
    <3>1. j \in 1..i - 1
      BY <1>6, <2>2
    <3> QED BY <1>3, <1>6, <2>1, <2>2, <3>1
  <2>3. CASE ~(j < i)
    <3>1. j - (i - 1) \in 1..n - i /\ (j - (i - 1)) + i = j + 1 /\ ~(j <= i - 1)
      BY <1>6, <2>3
    <3> QED BY <1>4, <2>1, <2>3, <3>1
  <2> QED BY <2>2, <2>3
<1> QED BY <1>2, <1>5, <1>7, <1>8 DEF n

\* add_user(): Ann, who was not there, comes in and is silent; there is room.
LEMMA RowAdded ==
  ASSUME NEW c, Kept(c), ~Has(c, Ann), c.channel # NoChannel
  PROVE  LET d == [c EXCEPT !.users = Append(@, WhoIs[Ann])]
         IN  /\ Kept(d) /\ d.channel = c.channel /\ ~Speaks(d)
             /\ Has(d, Ann) /\ (Has(d, Me) <=> Has(c, Me))
             /\ Len(c.users) < MaxUsers
<1> DEFINE u == c.users
           n == Len(u)
           d == [c EXCEPT !.users = Append(@, WhoIs[Ann])]
           v == Append(u, WhoIs[Ann])
<1>1. /\ c \in Contents /\ u \in Seq(UserState) /\ n \in Nat /\ DOMAIN u = 1..n
      /\ \A i \in 1..n : /\ u[i] \in UserState /\ u[i].cid \in ClientIds
                         /\ u[i].talking => u[i] = Speaking
                         /\ ~u[i].talking => u[i] = WhoIs[u[i].cid]
      /\ Speaks(c) => Has(c, Ann)
  BY KeptRows
<1>2. /\ \A i \in 1..n : u[i].cid = Me
      /\ \A i \in 1..n : ~u[i].talking
  BY <1>1, People DEF Has, Speaks
<1>3. n < MaxUsers
  <2>1. \A i, j \in 1..n : i = j
    BY <1>1, <1>2 DEF Kept
  <2>2. n < 2
    <3>1. n >= 2 => 1 \in 1..n /\ 2 \in 1..n /\ 1 # 2
      BY <1>1
    <3> QED BY <1>1, <2>1, <3>1
  <2> QED BY <1>1, <2>2, TabsAssumption, ModelAssumption
<1>4. /\ v \in Seq(UserState) /\ Len(v) = n + 1 /\ DOMAIN v = 1..n + 1
      /\ \A i \in 1..n : v[i] = u[i]
      /\ v[n + 1] = WhoIs[Ann]
  <2>1. WhoIs[Ann] \in UserState
    BY People
  <2>2. /\ v \in Seq(UserState) /\ Len(v) = n + 1
        /\ \A i \in 1..n : v[i] = u[i]
        /\ v[n + 1] = WhoIs[Ann]
    BY <1>1, <2>1, AppendProperties
  <2> HIDE DEF v
  <2>3. DOMAIN v = 1..n + 1
    BY <2>2, LenProperties
  <2> QED BY <2>2, <2>3
<1>5. d = [c EXCEPT !.users = v]
  OBVIOUS
<1>6. d.users = v /\ d.channel = c.channel /\ d \in Contents
  BY <1>1, <1>4, <1>5 DEF Contents
<1> HIDE DEF d, v, n, u
<1>7. \A i \in 1..n + 1 : i \in 1..n \/ i = n + 1
  BY <1>1
<1>8. n + 1 \in 1..n + 1 /\ n + 1 \notin 1..n /\ \A i \in 1..n : i \in 1..n + 1
  BY <1>1
<1>9. \A i \in DOMAIN v : v[i] \in {WhoIs[Me], WhoIs[Ann], Speaking} /\ ~v[i].talking
  BY <1>1, <1>2, <1>4, <1>7, People DEF Kept, u
<1>10. \A i, j \in DOMAIN v : v[i].cid = v[j].cid => i = j
  <2>1. \A i, j \in 1..n : u[i].cid = u[j].cid => i = j
    BY <1>1 DEF Kept, u
  <2> QED BY <1>1, <1>2, <1>4, <1>7, <2>1, People
<1>11. Kept(d)
  BY <1>6, <1>9, <1>10 DEF Kept
<1>12. ~Speaks(d)
  BY <1>6, <1>9 DEF Speaks
<1>13. Has(d, Ann)
  BY <1>4, <1>6, <1>8, People DEF Has
<1>14. Has(d, Me) <=> Has(c, Me)
  BY <1>1, <1>4, <1>6, <1>7, <1>8, People DEF Has, u
<1> QED BY <1>3, <1>6, <1>11, <1>12, <1>13, <1>14 DEF d, n, u

\* One row is replaced by another of the same person.
LEMMA RowReplaced ==
  ASSUME NEW c, Kept(c), NEW at \in 1..Len(c.users), NEW r \in {WhoIs[Me], WhoIs[Ann], Speaking},
         r.cid = c.users[at].cid
  PROVE  LET d == [c EXCEPT !.users[at] = r]
         IN  /\ Kept(d) /\ d.channel = c.channel
             /\ \A x : Has(d, x) <=> Has(c, x)
             /\ r.cid = Ann => (Speaks(d) <=> r.talking)
<1> DEFINE u == c.users
           n == Len(u)
           d == [c EXCEPT !.users[at] = r]
           v == [u EXCEPT ![at] = r]
<1>1. /\ c \in Contents /\ u \in Seq(UserState) /\ n \in Nat /\ DOMAIN u = 1..n
      /\ \A i \in 1..n : /\ u[i] \in UserState
                         /\ u[i].talking => u[i] = Speaking
  BY KeptRows
<1>2. r \in UserState
  BY People
<1>3. v \in Seq(UserState) /\ DOMAIN v = 1..n /\ \A i \in 1..n : v[i] = IF i = at THEN r ELSE u[i]
  BY <1>1, <1>2
<1>4. d = [c EXCEPT !.users = v]
  BY <1>1 DEF Contents
<1>5. d.users = v /\ d.channel = c.channel /\ d \in Contents
  BY <1>1, <1>3, <1>4 DEF Contents
<1> HIDE DEF d, v, n, u
<1>6. at \in 1..n /\ r.cid = u[at].cid
  BY DEF n, u
<1>7. /\ \A i \in 1..n : v[i] \in {WhoIs[Me], WhoIs[Ann], Speaking} /\ v[i].cid = u[i].cid
      /\ \A i, j \in 1..n : u[i].cid = u[j].cid => i = j
      /\ c.channel # NoChannel
  <2>1. c.channel = NoChannel => n = 0
    BY DEF Kept, n, u
  <2> QED BY <1>1, <1>3, <1>6, <2>1 DEF Kept, u
<1>8. Kept(d)
  BY <1>3, <1>5, <1>7 DEF Kept
<1>9. \A x : Has(d, x) <=> Has(c, x)
  BY <1>1, <1>3, <1>5, <1>7 DEF Has, u
<1>10. ASSUME r.cid = Ann PROVE Speaks(d) <=> r.talking
  <2>1. ASSUME NEW i \in 1..n, i # at PROVE ~u[i].talking
    <3>1. u[i].talking => u[i].cid = Ann
      BY <1>1, People
    <3>2. u[i].cid = u[at].cid => i = at
      BY <1>6, <1>7
    <3> QED BY <1>6, <1>10, <2>1, <3>1, <3>2
  <2> QED BY <1>3, <1>5, <1>6, <2>1 DEF Speaks
<1> QED BY <1>5, <1>8, <1>9, <1>10 DEF d

\* remove_client().
LEMMA RowRemoved ==
  ASSUME NEW c, Kept(c), NEW at \in 1..Len(c.users)
  PROVE  LET d == [c EXCEPT !.users = RemoveAt(@, at)]
         IN  /\ Kept(d) /\ d.channel = c.channel
             /\ \A x : Has(d, x) <=> Has(c, x) /\ x # c.users[at].cid
             /\ Speaks(d) => Speaks(c)
<1> DEFINE u == c.users
           n == Len(u)
           d == [c EXCEPT !.users = RemoveAt(@, at)]
           v == RemoveAt(u, at)
<1>1. c \in Contents /\ u \in Seq(UserState) /\ n \in Nat /\ DOMAIN u = 1..n
  BY KeptRows
<1>2. /\ v \in Seq(UserState) /\ DOMAIN v = 1..n - 1
      /\ \A j \in 1..n - 1 : v[j] = IF j < at THEN u[j] ELSE u[j + 1]
  BY <1>1, RemoveRows
<1>3. d = [c EXCEPT !.users = v]
  OBVIOUS
<1>4. d.users = v /\ d.channel = c.channel /\ d \in Contents
  BY <1>1, <1>2, <1>3 DEF Contents
<1> HIDE DEF d, v, n, u
<1>5. at \in 1..n
  BY DEF n, u
<1>6. /\ \A i \in 1..n : u[i] \in {WhoIs[Me], WhoIs[Ann], Speaking}
      /\ \A i, j \in 1..n : u[i].cid = u[j].cid => i = j
      /\ c.channel # NoChannel
  <2>1. c.channel = NoChannel => n = 0
    BY DEF Kept, n, u
  <2> QED BY <1>1, <1>5, <2>1 DEF Kept, u
<1> DEFINE old(j) == IF j < at THEN j ELSE j + 1
<1>7. \A j \in 1..n - 1 : old(j) \in 1..n /\ old(j) # at /\ v[j] = u[old(j)]
  BY <1>1, <1>2, <1>5
<1>8. \A i, j \in 1..n - 1 : old(i) = old(j) => i = j
  BY <1>1, <1>5
<1>9. \A i \in 1..n : i # at => \E j \in 1..n - 1 : old(j) = i
  <2> SUFFICES ASSUME NEW i \in 1..n, i # at PROVE \E j \in 1..n - 1 : old(j) = i
    OBVIOUS
  <2>1. CASE i < at
    <3>1. i \in 1..n - 1 /\ old(i) = i
      BY <1>1, <1>5, <2>1
    <3> QED BY <3>1
  <2>2. CASE ~(i < at)
    <3>1. i - 1 \in 1..n - 1 /\ old(i - 1) = i
      BY <1>1, <1>5, <2>2
    <3> QED BY <3>1
  <2> QED BY <2>1, <2>2
<1> HIDE DEF old
<1>10. Kept(d)
  <2>1. \A i \in DOMAIN v : v[i] \in {WhoIs[Me], WhoIs[Ann], Speaking}
    BY <1>2, <1>6, <1>7
  <2>2. \A i, j \in DOMAIN v : v[i].cid = v[j].cid => i = j
    BY <1>2, <1>6, <1>7, <1>8
  <2> QED BY <1>4, <1>6, <2>1, <2>2 DEF Kept
<1>11. ASSUME NEW x PROVE Has(d, x) <=> Has(c, x) /\ x # u[at].cid
  <2>1. /\ Has(d, x) <=> \E j \in 1..n - 1 : v[j].cid = x
        /\ Has(c, x) <=> \E i \in 1..n : u[i].cid = x
    BY <1>1, <1>2, <1>4 DEF Has, u
  <2>2. ASSUME NEW j \in 1..n - 1, v[j].cid = x PROVE Has(c, x) /\ x # u[at].cid
    <3>1. old(j) \in 1..n /\ old(j) # at /\ u[old(j)].cid = x
      BY <1>7, <2>2
    <3> QED BY <1>5, <1>6, <2>1, <3>1
  <2>3. ASSUME NEW i \in 1..n, u[i].cid = x, x # u[at].cid PROVE Has(d, x)
    <3>1. PICK j \in 1..n - 1 : old(j) = i
      BY <1>9, <2>3
    <3> QED BY <1>7, <2>1, <2>3, <3>1
  <2> QED BY <2>1, <2>2, <2>3
<1>12. Speaks(d) => Speaks(c)
  BY <1>1, <1>2, <1>4, <1>7 DEF Speaks, u
<1> QED BY <1>4, <1>10, <1>11, <1>12 DEF d, u

-----------------------------------------------------------------------------
(* The cache a script ends in. *)

\* The steps that leave the cache alone, and the scripts whose last refresh
\* puts d into it.
SendSteps == {x \in Steps : x.do = "send"}
EndsIn(d) == {s \in Seq(Steps) :
                \E i \in DOMAIN s : /\ s[i].do = "refresh" /\ s[i].cache = d
                                    /\ \A j \in DOMAIN s : i < j => s[j].do = "send"}

\* What is sent afterwards, and what was done before, makes no difference.
LEMMA ScriptEnds ==
  ASSUME NEW d \in Contents
  PROVE  /\ Refresh(d) \in EndsIn(d)
         /\ \A s \in EndsIn(d), b \in Seq(SendSteps) : s \o b \in EndsIn(d)
         /\ \A a \in Seq(Steps), s \in EndsIn(d) : a \o s \in EndsIn(d)
<1> DEFINE r == [do |-> "refresh", cache |-> d]
<1>1. r \in Steps /\ r.do = "refresh" /\ r.cache = d
  BY DEF Steps
<1>2. Refresh(d) \in EndsIn(d)
  <2>1. Refresh(d) = <<r>>
    BY DEF Refresh
  <2> HIDE DEF r
  <2>2. <<r>> \in Seq(Steps) /\ DOMAIN <<r>> = {1} /\ <<r>>[1] = r
    BY <1>1
  <2> QED BY <1>1, <2>1, <2>2 DEF EndsIn
<1> HIDE DEF r
<1>3. \A x \in SendSteps : x \in Steps /\ x.do = "send"
  BY DEF SendSteps
<1>4. ASSUME NEW s \in Seq(Steps), NEW b \in Seq(Steps)
      PROVE  /\ s \o b \in Seq(Steps) /\ Len(s) \in Nat /\ Len(b) \in Nat
             /\ DOMAIN s = 1..Len(s) /\ DOMAIN b = 1..Len(b)
             /\ DOMAIN (s \o b) = 1..Len(s) + Len(b)
             /\ \A i \in 1..Len(s) + Len(b) :
                  (s \o b)[i] = IF i <= Len(s) THEN s[i] ELSE b[i - Len(s)]
  <2>1. /\ s \o b \in Seq(Steps) /\ Len(s \o b) = Len(s) + Len(b)
        /\ \A i \in 1..Len(s) + Len(b) :
             (s \o b)[i] = IF i <= Len(s) THEN s[i] ELSE b[i - Len(s)]
    BY ConcatProperties
  <2> QED BY <2>1, LenProperties
<1>5. ASSUME NEW s \in EndsIn(d), NEW b \in Seq(SendSteps) PROVE s \o b \in EndsIn(d)
  <2>1. s \in Seq(Steps) /\ b \in Seq(Steps) /\ \A i \in 1..Len(b) : b[i].do = "send"
    <3>1. Len(b) \in Nat /\ b \in [1..Len(b) -> SendSteps]
      BY LenProperties
    <3>2. b \in [1..Len(b) -> Steps]
      BY <1>3, <3>1
    <3> QED BY <1>3, <3>1, <3>2 DEF EndsIn
  <2>2. PICK i \in DOMAIN s : /\ s[i].do = "refresh" /\ s[i].cache = d
                              /\ \A j \in DOMAIN s : i < j => s[j].do = "send"
    BY DEF EndsIn
  <2> DEFINE all == s \o b
             n == Len(s)
             m == Len(b)
  <2>3. /\ all \in Seq(Steps) /\ n \in Nat /\ m \in Nat /\ DOMAIN s = 1..n
        /\ DOMAIN all = 1..n + m
        /\ \A j \in 1..n + m : all[j] = IF j <= n THEN s[j] ELSE b[j - n]
    BY <1>4, <2>1
  <2>4. \A j \in 1..m : b[j].do = "send"
    BY <2>1
  <2> HIDE DEF all, n, m
  <2>5. i \in 1..n /\ i \in 1..n + m /\ all[i] = s[i]
    BY <2>2, <2>3
  <2>6. ASSUME NEW j \in 1..n + m, i < j PROVE all[j].do = "send"
    <3>1. CASE j <= n
      <4>1. j \in 1..n /\ all[j] = s[j]
        BY <2>3, <3>1
      <4> QED BY <2>2, <2>3, <2>6, <4>1
    <3>2. CASE ~(j <= n)
      <4>1. j - n \in 1..m /\ all[j] = b[j - n]
        BY <2>3, <3>2
      <4> QED BY <2>4, <4>1
    <3> QED BY <3>1, <3>2
  <2>7. all \in EndsIn(d)
    BY <2>2, <2>3, <2>5, <2>6 DEF EndsIn
  <2> QED BY <2>7 DEF all
<1>6. ASSUME NEW a \in Seq(Steps), NEW s \in EndsIn(d) PROVE a \o s \in EndsIn(d)
  <2>1. s \in Seq(Steps)
    BY DEF EndsIn
  <2>2. PICK i \in DOMAIN s : /\ s[i].do = "refresh" /\ s[i].cache = d
                              /\ \A j \in DOMAIN s : i < j => s[j].do = "send"
    BY DEF EndsIn
  <2> DEFINE all == a \o s
             n == Len(a)
             m == Len(s)
  <2>3. /\ all \in Seq(Steps) /\ n \in Nat /\ m \in Nat /\ DOMAIN s = 1..m
        /\ DOMAIN all = 1..n + m
        /\ \A j \in 1..n + m : all[j] = IF j <= n THEN a[j] ELSE s[j - n]
    BY <1>4, <2>1
  <2> HIDE DEF all, n, m
  <2>4. i + n \in 1..n + m /\ all[i + n] = s[i]
    <3>1. i + n \in 1..n + m /\ ~(i + n <= n) /\ (i + n) - n = i
      BY <2>2, <2>3
    <3> QED BY <2>3, <3>1
  <2>5. ASSUME NEW j \in 1..n + m, i + n < j PROVE all[j].do = "send"
    <3>1. j - n \in 1..m /\ i < j - n /\ ~(j <= n)
      BY <2>2, <2>3, <2>5
    <3> QED BY <2>2, <2>3, <3>1
  <2>6. all \in EndsIn(d)
    BY <2>2, <2>3, <2>4, <2>5 DEF EndsIn
  <2> QED BY <2>6 DEF all
<1> QED BY <1>2, <1>5, <1>6

\* Its first step is done, and the rest still ends there.
LEMMA EndApproached ==
  ASSUME NEW d, NEW s, s # <<>>
  PROVE  /\ s \in Seq(SendSteps) => Head(s).do = "send" /\ Tail(s) \in Seq(SendSteps)
         /\ s \in EndsIn(d) =>
              /\ Head(s).do = "send" => Tail(s) \in EndsIn(d)
              /\ Head(s).do = "refresh" =>
                   \/ Tail(s) \in EndsIn(d)
                   \/ Tail(s) \in Seq(SendSteps) /\ Head(s).cache = d
<1>1. ASSUME s \in Seq(SendSteps) PROVE Head(s).do = "send" /\ Tail(s) \in Seq(SendSteps)
  BY <1>1, HeadTailProperties DEF SendSteps
<1>2. ASSUME s \in EndsIn(d)
      PROVE  \/ Tail(s) \in EndsIn(d)
             \/ Head(s).do = "refresh" /\ Tail(s) \in Seq(SendSteps) /\ Head(s).cache = d
  <2>1. s \in Seq(Steps)
    BY <1>2 DEF EndsIn
  <2>2. PICK i \in DOMAIN s : /\ s[i].do = "refresh" /\ s[i].cache = d
                              /\ \A j \in DOMAIN s : i < j => s[j].do = "send"
    BY <1>2 DEF EndsIn
  <2> DEFINE n == Len(s)
             rest == Tail(s)
  <2>3. /\ n \in Nat /\ DOMAIN s = 1..n /\ Head(s) = s[1] /\ rest \in Seq(Steps)
        /\ DOMAIN rest = 1..n - 1 /\ \A j \in 1..n - 1 : rest[j] = s[j + 1] /\ rest[j] \in Steps
    <3>1. /\ rest \in Seq(Steps) /\ Len(rest) = n - 1 /\ n \in Nat
          /\ \A j \in 1..n - 1 : rest[j] = s[j + 1]
      BY <2>1, HeadTailProperties, LenProperties
    <3>2. DOMAIN rest = 1..n - 1 /\ \A j \in 1..n - 1 : rest[j] \in Steps
      BY <3>1, LenProperties, ElementOfSeq
    <3> QED BY <2>1, <3>1, <3>2, LenProperties
  <2> HIDE DEF n, rest
  <2>4. CASE i = 1
    <3>1. \A j \in 1..n - 1 : rest[j] \in SendSteps
      <4> SUFFICES ASSUME NEW j \in 1..n - 1 PROVE rest[j] \in SendSteps
        OBVIOUS
      <4>1. j + 1 \in 1..n /\ i < j + 1
        BY <2>3, <2>4
      <4> QED BY <2>2, <2>3, <4>1 DEF SendSteps
    <3>2. rest \in [1..n - 1 -> SendSteps] /\ n - 1 \in Nat
      <4>1. rest \in [1..Len(rest) -> Steps] /\ Len(rest) \in Nat /\ DOMAIN rest = 1..Len(rest)
        BY <2>3, LenProperties
      <4>2. n - 1 \in Nat
        BY <2>2, <2>3, <2>4
      <4> QED BY <2>3, <3>1, <4>1, <4>2
    <3>3. rest \in Seq(SendSteps)
      BY <3>2
    <3> QED BY <2>2, <2>3, <2>4, <3>3 DEF rest
  <2>5. CASE i # 1
    <3>1. i - 1 \in 1..n - 1 /\ (i - 1) + 1 = i
      BY <2>2, <2>3, <2>5
    <3>2. \A j \in 1..n - 1 : i - 1 < j => rest[j].do = "send"
      <4> SUFFICES ASSUME NEW j \in 1..n - 1, i - 1 < j PROVE rest[j].do = "send"
        OBVIOUS
      <4>1. j + 1 \in 1..n /\ i < j + 1
        BY <2>3, <2>2
      <4> QED BY <2>2, <2>3, <4>1
    <3>3. rest \in EndsIn(d)
      BY <2>2, <2>3, <3>1, <3>2 DEF EndsIn
    <3> QED BY <3>3 DEF rest
  <2> QED BY <2>4, <2>5
<1> QED BY <1>1, <1>2

\* What the callbacks send after their last refresh.
LEMMA SendStepsParts ==
  /\ \A c \in Contents : /\ Refresh(c) \in Seq(Steps) /\ SendSnapshot(c) \in Seq(SendSteps)
                         /\ \A d \in Contents : /\ JoinedOf(c.users, d.users) \in Seq(SendSteps)
                                                /\ LeftOf(c.users, d.users) \in Seq(SendSteps)
  /\ \A m \in Messages : Send(m) \in Seq(SendSteps)
  /\ \A s \in Seq(SendSteps), t \in Seq(SendSteps) : s \o t \in Seq(SendSteps)
  /\ \A s \in Seq(Steps), t \in Seq(Steps) : s \o t \in Seq(Steps)
  /\ <<>> \in Seq(SendSteps) /\ <<>> \in Seq(Steps)
  /\ \A k \in Connections : Announces(k) \in Seq(SendSteps) /\ Connected(k) \in Seq(SendSteps)
  /\ \A u \in UserState : Joined(u) \in Seq(SendSteps) /\ Left(u) \in Seq(SendSteps)
<1>1. \A m \in Messages : Send(m) \in Seq(SendSteps)
  <2> SUFFICES ASSUME NEW m \in Messages PROVE Send(m) \in Seq(SendSteps)
    OBVIOUS
  <2>1. [do |-> "send", msg |-> m] \in SendSteps
    BY DEF Steps, SendSteps
  <2> QED BY <2>1 DEF Send
<1>2. \A c \in Contents : Refresh(c) \in Seq(Steps) /\ SendSnapshot(c) \in Seq(SendSteps)
  <2> SUFFICES ASSUME NEW c \in Contents
               PROVE  Refresh(c) \in Seq(Steps) /\ SendSnapshot(c) \in Seq(SendSteps)
    OBVIOUS
  <2>1. [do |-> "refresh", cache |-> c] \in Steps
    BY DEF Steps
  <2>2. Snapshot(c) \in Messages
    BY DEF Snapshot, Contents, Messages, Here
  <2> QED BY <1>1, <2>1, <2>2 DEF Refresh, SendSnapshot
<1>3. \A u \in UserState : Joined(u) \in Seq(SendSteps) /\ Left(u) \in Seq(SendSteps)
  <2> SUFFICES ASSUME NEW u \in UserState
               PROVE  Joined(u) \in Seq(SendSteps) /\ Left(u) \in Seq(SendSteps)
    OBVIOUS
  <2>1. [type |-> "user_joined", user |-> u] \in Messages
    BY DEF Messages
  <2>2. [type |-> "user_left", who |-> u.uid] \in Messages
    BY DEF Messages, UserState
  <2> QED BY <1>1, <2>1, <2>2 DEF Joined, Left
<1>4. \A k \in Connections : Announces(k) \in Seq(SendSteps) /\ Connected(k) \in Seq(SendSteps)
  <2> SUFFICES ASSUME NEW k \in Connections
               PROVE  Announces(k) \in Seq(SendSteps) /\ Connected(k) \in Seq(SendSteps)
    OBVIOUS
  <2>1. [type |-> "connection_changed", connection |-> k] \in Messages
    BY DEF Messages
  <2>2. Connected(k) \in Seq(SendSteps)
    BY <1>1, <2>1 DEF Connected
  <2> QED BY <2>2, EmptySeq DEF Announces
<1>5. ASSUME NEW users \in Seq(UserState), NEW f, f \in [1..Len(users) -> Seq(SendSteps)]
      PROVE  FlattenSeq(f) \in Seq(SendSteps)
  <2>1. Len(users) \in Nat
    BY LenProperties
  <2>2. f \in Seq(Seq(SendSteps))
    BY <1>5, <2>1
  <2> QED BY <2>2, FlattenWithin
<1>6. ASSUME NEW a \in Seq(UserState), NEW b \in Seq(UserState)
      PROVE  JoinedOf(a, b) \in Seq(SendSteps) /\ LeftOf(a, b) \in Seq(SendSteps)
  <2>1. /\ DOMAIN a = 1..Len(a) /\ \A i \in 1..Len(a) : a[i] \in UserState
        /\ DOMAIN b = 1..Len(b) /\ \A i \in 1..Len(b) : b[i] \in UserState
    BY LenProperties, ElementOfSeq
  <2> DEFINE j == [i \in DOMAIN b |-> IF Holds(a, b[i].uid) THEN <<>> ELSE Joined(b[i])]
             l == [i \in DOMAIN a |-> IF Holds(b, a[i].uid) THEN <<>> ELSE Left(a[i])]
  <2>2. j \in [1..Len(b) -> Seq(SendSteps)] /\ l \in [1..Len(a) -> Seq(SendSteps)]
    BY <1>3, <2>1, EmptySeq
  <2> HIDE DEF j, l
  <2>3. FlattenSeq(j) \in Seq(SendSteps) /\ FlattenSeq(l) \in Seq(SendSteps)
    BY <1>5, <2>2
  <2> QED BY <2>3 DEF JoinedOf, LeftOf, j, l
<1>7. \A c \in Contents : c.users \in Seq(UserState)
  BY DEF Contents
<1>8. /\ \A s \in Seq(SendSteps), t \in Seq(SendSteps) : s \o t \in Seq(SendSteps)
      /\ \A s \in Seq(Steps), t \in Seq(Steps) : s \o t \in Seq(Steps)
  BY ConcatProperties
<1> QED BY <1>1, <1>2, <1>3, <1>4, <1>6, <1>7, <1>8, EmptySeq

\* What each callback leaves in the cache in the end: the state it has worked
\* out, whatever it broadcasts on the way.
LEMMA CallbackEnds ==
  ASSUME cache \in Contents, NEW ch \in SaidChannels, NEW g \in Gatherings
  PROVE  /\ \A server \in Servers, k \in Connections :
              OnConnectStatusChanged(server, k, ch, g) =>
                LET now == SetConnection(cache, k)
                IN  script' \in EndsIn(IF k = "connected" THEN Resynchronise(now, ch, g) ELSE now)
         /\ OnSelfLeft => script' \in EndsIn(Offline)
         /\ OnSelfMoved(ch, g) \/ OnChannelRefreshed(ch, g) \/ OnUnknownMovedIn(ch, g) =>
              script' \in EndsIn(Resynchronise(cache, ch, g))
         /\ \A p \in UserState :
              OnKnownMovedIn(p, ch, g) =>
                LET at == ClientRow(cache.users, p.cid)
                IN  script' \in EndsIn(
                      IF at # 0 THEN Resynchronise([cache EXCEPT !.users[at] = p], ch, g)
                      ELSE IF Len(cache.users) < MaxUsers
                      THEN [cache EXCEPT !.users = Append(@, p)]
                      ELSE Resynchronise(cache, ch, g))
         /\ \A cid \in ClientIds :
              OnClientMovedOut(cid, ch, g) =>
                LET at == ClientRow(cache.users, cid)
                IN  script' \in EndsIn(
                      IF at # 0 THEN [cache EXCEPT !.users = RemoveAt(@, at)]
                      ELSE Resynchronise(cache, ch, g))
         /\ \A at \in DOMAIN cache.users, talking \in BOOLEAN :
              OnTalkStatusChanged(at, talking, FALSE) =>
                script' \in EndsIn([cache EXCEPT !.users[at] =
                              [@ EXCEPT !.talking = talking, !.whispering = FALSE]])
         /\ \A server \in Servers :
              OnCurrentServerChanged(server, ch, g) =>
                script' \in EndsIn(Resynchronise(SetConnection(Offline, "connected"), ch, g))
         /\ OnServerStopped => script' \in EndsIn(SetConnection(cache, "disconnected"))
<1>a. /\ Offline \in Contents
      /\ \A c \in Contents, k \in Connections : SetConnection(c, k) \in Contents
      /\ \A c \in Contents : Resynchronise(c, ch, g) \in Contents
  BY ContentsKept
<1>b. "connected" \in Connections /\ "disconnected" \in Connections
  BY DEF Connections
<1>c. ASSUME NEW d \in Contents
      PROVE  /\ Refresh(d) \in EndsIn(d) /\ Refresh(d) \o SendSnapshot(d) \in EndsIn(d)
             /\ \A a \in Seq(Steps), s \in EndsIn(d) : a \o s \in EndsIn(d)
             /\ \A s \in EndsIn(d), b \in Seq(SendSteps) : s \o b \in EndsIn(d)
  BY ScriptEnds, SendStepsParts
<1>d. ASSUME NEW c \in Contents
      PROVE  /\ Report(c, ch, g) \in EndsIn(Resynchronise(c, ch, g))
             /\ Resent(c, ch, g) \in EndsIn(Resynchronise(c, ch, g))
  <2> DEFINE now1 == Resynchronise(c, ch, g)
  <2>1. now1 \in Contents
    BY <1>a
  <2> HIDE DEF now1
  <2>2. /\ JoinedOf(c.users, now1.users) \in Seq(SendSteps)
        /\ LeftOf(c.users, now1.users) \in Seq(SendSteps) /\ SendSnapshot(now1) \in Seq(SendSteps)
    BY <2>1, SendStepsParts
  <2>3. Refresh(now1) \o JoinedOf(c.users, now1.users) \in EndsIn(now1)
    BY <1>c, <2>1, <2>2
  <2>4. Refresh(now1) \o JoinedOf(c.users, now1.users) \o LeftOf(c.users, now1.users)
          \in EndsIn(now1)
    BY <1>c, <2>1, <2>2, <2>3
  <2>5. Refresh(now1) \o JoinedOf(c.users, now1.users) \o LeftOf(c.users, now1.users)
          \o SendSnapshot(now1) \in EndsIn(now1)
    BY <1>c, <2>1, <2>2, <2>4
  <2>6. Refresh(now1) \o SendSnapshot(now1) \in EndsIn(now1)
    BY <1>c, <2>1
  <2> QED BY <2>5, <2>6 DEF Report, Resent, now1
<1>1. ASSUME NEW server \in Servers, NEW k \in Connections,
             OnConnectStatusChanged(server, k, ch, g)
      PROVE  LET now == SetConnection(cache, k)
             IN  script' \in EndsIn(IF k = "connected" THEN Resynchronise(now, ch, g) ELSE now)
  <2> DEFINE up      == SetConnection(cache, k)
             settled == IF k = "connected" THEN Resynchronise(up, ch, g) ELSE up
             first   == Refresh(up) \o (IF k = "connected" THEN Refresh(settled) ELSE <<>>)
  <2>1. up \in Contents /\ settled \in Contents
    BY <1>a
  <2>2. k # "connected" => settled = up
    OBVIOUS
  <2>3. script' = first \o Announces(k) \o SendSnapshot(settled)
    BY <1>1 DEF OnConnectStatusChanged, Does
  <2> HIDE DEF up, settled
  <2>4. first \in EndsIn(settled)
    <3>1. CASE k = "connected"
      <4>1. Refresh(up) \in Seq(Steps) /\ Refresh(settled) \in EndsIn(settled)
        BY <1>c, <2>1, SendStepsParts
      <4>2. first = Refresh(up) \o Refresh(settled)
        BY <3>1
      <4> QED BY <1>c, <2>1, <4>1, <4>2
    <3>2. CASE k # "connected"
      <4>1. first = Refresh(settled) \o <<>>
        BY <2>2, <3>2
      <4>2. <<>> \in Seq(SendSteps) /\ Refresh(settled) \in EndsIn(settled)
        BY <1>c, <2>1, SendStepsParts
      <4> QED BY <1>c, <2>1, <4>1, <4>2
    <3> QED BY <3>1, <3>2
  <2> HIDE DEF first
  <2>5. Announces(k) \in Seq(SendSteps) /\ SendSnapshot(settled) \in Seq(SendSteps)
    BY <2>1, SendStepsParts
  <2>6. first \o Announces(k) \in EndsIn(settled)
    BY <1>c, <2>1, <2>4, <2>5
  <2>7. first \o Announces(k) \o SendSnapshot(settled) \in EndsIn(settled)
    BY <1>c, <2>1, <2>5, <2>6
  <2> QED BY <2>3, <2>7 DEF settled, up
<1>2. OnSelfLeft => script' \in EndsIn(Offline)
  BY <1>a, <1>c DEF OnSelfLeft, Does
<1>3. ASSUME OnSelfMoved(ch, g) PROVE script' \in EndsIn(Resynchronise(cache, ch, g))
  <2> DEFINE now1 == Resynchronise(cache, ch, g)
             m    == [type |-> "channel_changed", channel |-> now1.channel]
  <2>1. now1 \in Contents
    BY <1>a
  <2>2. script' = Refresh(now1) \o Send(m) \o SendSnapshot(now1)
    BY <1>3 DEF OnSelfMoved, Does
  <2> HIDE DEF now1
  <2>3. m \in Messages
    BY <2>1 DEF Messages, Contents, Here
  <2> HIDE DEF m
  <2>4. Send(m) \in Seq(SendSteps) /\ SendSnapshot(now1) \in Seq(SendSteps)
    BY <2>1, <2>3, SendStepsParts
  <2>5. Refresh(now1) \o Send(m) \in EndsIn(now1)
    BY <1>c, <2>1, <2>4
  <2>6. Refresh(now1) \o Send(m) \o SendSnapshot(now1) \in EndsIn(now1)
    BY <1>c, <2>1, <2>4, <2>5
  <2> QED BY <2>2, <2>6 DEF now1
<1>4. OnChannelRefreshed(ch, g) \/ OnUnknownMovedIn(ch, g) =>
        script' \in EndsIn(Resynchronise(cache, ch, g))
  BY <1>d DEF OnChannelRefreshed, OnUnknownMovedIn, Does
<1>5. ASSUME NEW p \in UserState, OnKnownMovedIn(p, ch, g)
      PROVE  LET at == ClientRow(cache.users, p.cid)
             IN  script' \in EndsIn(
                   IF at # 0 THEN Resynchronise([cache EXCEPT !.users[at] = p], ch, g)
                   ELSE IF Len(cache.users) < MaxUsers
                   THEN [cache EXCEPT !.users = Append(@, p)]
                   ELSE Resynchronise(cache, ch, g))
  <2> DEFINE at == ClientRow(cache.users, p.cid)
             more == [cache EXCEPT !.users = Append(@, p)]
             kept == [cache EXCEPT !.users[at] = p]
  <2>1. /\ Len(cache.users) \in Nat /\ cache.users \in Seq(UserState)
        /\ at \in 0..Len(cache.users)
    BY RowPlaces DEF Contents
  <2>2. \/ at = 0 /\ Len(cache.users) < MaxUsers /\ script' = Refresh(more) \o Joined(p)
        \/ at = 0 /\ ~(Len(cache.users) < MaxUsers) /\ script' = Report(cache, ch, g)
        \/ at # 0 /\ script' = Refresh(kept) \o Report(kept, ch, g)
    <3>1. \/ at = 0 /\ Len(cache.users) < MaxUsers /\ script' = Refresh(more) \o Joined(p)
          \/ at = 0 /\ Len(cache.users) >= MaxUsers /\ script' = Report(cache, ch, g)
          \/ at # 0 /\ script' = Refresh(kept) \o Report(kept, ch, g)
      BY <1>5, Zenon DEF OnKnownMovedIn, Does
    <3>2. Len(cache.users) >= MaxUsers => ~(Len(cache.users) < MaxUsers)
      BY <2>1, ModelAssumption
    <3> QED BY <3>1, <3>2
  <2>3. more \in Contents /\ (at # 0 => kept \in Contents)
    <3>1. Append(cache.users, p) \in Seq(UserState)
      BY <2>1, AppendProperties
    <3>2. more \in Contents
      BY <3>1 DEF Contents
    <3>3. at # 0 => at \in 1..Len(cache.users)
      BY <2>1
    <3>4. at # 0 => [cache.users EXCEPT ![at] = p] \in Seq(UserState)
      BY <2>1, <3>3
    <3>5. at # 0 => kept \in Contents
      BY <3>4 DEF Contents
    <3> QED BY <3>2, <3>5
  <2> HIDE DEF at, more, kept
  <2>4. CASE at = 0 /\ Len(cache.users) < MaxUsers /\ script' = Refresh(more) \o Joined(p)
    <3>1. Refresh(more) \in EndsIn(more) /\ Joined(p) \in Seq(SendSteps)
      BY <1>c, <2>3, SendStepsParts
    <3>2. script' \in EndsIn(more)
      BY <1>c, <2>3, <2>4, <3>1
    <3> QED BY <2>4, <3>2 DEF at, more
  <2>5. CASE at = 0 /\ ~(Len(cache.users) < MaxUsers) /\ script' = Report(cache, ch, g)
    BY <1>d, <2>5 DEF at
  <2>6. CASE at # 0 /\ script' = Refresh(kept) \o Report(kept, ch, g)
    <3>1. /\ Refresh(kept) \in Seq(Steps) /\ Resynchronise(kept, ch, g) \in Contents
          /\ Report(kept, ch, g) \in EndsIn(Resynchronise(kept, ch, g))
      BY <1>a, <1>d, <2>3, <2>6, SendStepsParts
    <3>2. script' \in EndsIn(Resynchronise(kept, ch, g))
      BY <1>c, <2>6, <3>1
    <3> QED BY <2>6, <3>2 DEF at, kept
  <2> QED BY <2>2, <2>4, <2>5, <2>6
<1>6. ASSUME NEW cid \in ClientIds, OnClientMovedOut(cid, ch, g)
      PROVE  LET at == ClientRow(cache.users, cid)
             IN  script' \in EndsIn(
                   IF at # 0 THEN [cache EXCEPT !.users = RemoveAt(@, at)]
                   ELSE Resynchronise(cache, ch, g))
  <2> DEFINE at == ClientRow(cache.users, cid)
             less == [cache EXCEPT !.users = RemoveAt(@, at)]
  <2>1. /\ Len(cache.users) \in Nat /\ cache.users \in Seq(UserState)
        /\ at \in 0..Len(cache.users) /\ \A i \in 1..Len(cache.users) : cache.users[i] \in UserState
    BY RowPlaces DEF Contents
  <2>2. IF at # 0 THEN script' = Refresh(less) \o Left(cache.users[at])
        ELSE script' = Report(cache, ch, g)
    BY <1>6 DEF OnClientMovedOut, Does
  <2>3. CASE at = 0
    BY <1>d, <2>2, <2>3
  <2>4. CASE at # 0
    <3>1. at \in 1..Len(cache.users)
      BY <2>1, <2>4
    <3>2. RemoveAt(cache.users, at) \in Seq(UserState)
      BY <2>1, <3>1, RemoveRows
    <3>3. less \in Contents
      BY <3>2 DEF Contents
    <3>4. cache.users[at] \in UserState
      BY <2>1, <3>1
    <3> HIDE DEF at, less
    <3>5. Refresh(less) \in EndsIn(less) /\ Left(cache.users[at]) \in Seq(SendSteps)
      BY <1>c, <3>3, <3>4, SendStepsParts
    <3>6. script' \in EndsIn(less)
      BY <1>c, <2>2, <2>4, <3>3, <3>5
    <3> QED BY <2>4, <3>6 DEF at, less
  <2> QED BY <2>3, <2>4
<1>7. ASSUME NEW at \in DOMAIN cache.users, NEW talking \in BOOLEAN,
             OnTalkStatusChanged(at, talking, FALSE)
      PROVE  script' \in EndsIn([cache EXCEPT !.users[at] =
                           [@ EXCEPT !.talking = talking, !.whispering = FALSE]])
  <2> DEFINE was == cache.users[at]
             is  == [was EXCEPT !.talking = talking, !.whispering = talking /\ FALSE]
             a   == [type |-> "speaking_changed", who |-> is.uid, talking |-> talking,
                     whisper |-> is.whispering]
             b   == [type |-> "whisper_changed", who |-> is.uid, active |-> is.whispering]
             now1 == [cache EXCEPT !.users[at] = is]
  <2>1. /\ cache.users \in Seq(UserState) /\ DOMAIN cache.users = 1..Len(cache.users)
        /\ was \in UserState
    BY RowPlaces DEF Contents
  <2>2. is \in UserState /\ is = [was EXCEPT !.talking = talking, !.whispering = FALSE]
    BY <2>1 DEF UserState
  <2>3. now1 = [cache EXCEPT !.users[at] = [@ EXCEPT !.talking = talking, !.whispering = FALSE]]
    BY <2>1, <2>2 DEF Contents
  <2>4. script' = Refresh(now1) \o Send(a)
                    \o (IF was.whispering # is.whispering THEN Send(b) ELSE <<>>)
    BY <1>7 DEF OnTalkStatusChanged, Does
  <2> HIDE DEF is
  <2>5. now1 \in Contents
    BY <2>1, <2>2 DEF Contents
  <2> HIDE DEF now1
  <2>6. is.whispering \in BOOLEAN /\ is.uid \in Uids
    BY <2>2 DEF UserState
  <2>7. a \in Messages /\ b \in Messages
    BY <2>6 DEF Messages
  <2> HIDE DEF a, b, was
  <2>8. Send(a) \in Seq(SendSteps) /\ Send(b) \in Seq(SendSteps) /\ <<>> \in Seq(SendSteps)
    BY <2>7, SendStepsParts
  <2>9. Refresh(now1) \o Send(a) \in EndsIn(now1)
    BY <1>c, <2>5, <2>8
  <2>10. script' \in EndsIn(now1)
    BY <1>c, <2>4, <2>5, <2>8, <2>9
  <2> QED BY <2>3, <2>10
<1>8. ASSUME NEW server \in Servers, OnCurrentServerChanged(server, ch, g)
      PROVE  script' \in EndsIn(Resynchronise(SetConnection(Offline, "connected"), ch, g))
  <2> DEFINE up == SetConnection(Offline, "connected")
             now1 == Resynchronise(up, ch, g)
  <2>1. up \in Contents /\ Offline \in Contents /\ now1 \in Contents
    BY <1>a, <1>b
  <2>2. script' = Refresh(Offline) \o Refresh(up) \o Resent(up, ch, g)
    BY <1>8 DEF OnCurrentServerChanged, Does
  <2>3. Resent(up, ch, g) \in EndsIn(now1)
    BY <1>d, <2>1
  <2> HIDE DEF up, now1
  <2>4. Refresh(Offline) \o Refresh(up) \in Seq(Steps)
    BY <2>1, SendStepsParts
  <2>5. script' \in EndsIn(now1)
    BY <1>c, <2>1, <2>2, <2>3, <2>4
  <2> QED BY <2>5 DEF now1, up
<1>9. ASSUME OnServerStopped PROVE script' \in EndsIn(SetConnection(cache, "disconnected"))
  <2> DEFINE down == SetConnection(cache, "disconnected")
  <2>1. down \in Contents
    BY <1>a, <1>b
  <2>2. script' = Refresh(down) \o Connected("disconnected") \o SendSnapshot(down)
    BY <1>9 DEF OnServerStopped, Does
  <2> HIDE DEF down
  <2>3. Connected("disconnected") \in Seq(SendSteps) /\ SendSnapshot(down) \in Seq(SendSteps)
    BY <1>b, <2>1, SendStepsParts
  <2>4. Refresh(down) \o Connected("disconnected") \in EndsIn(down)
    BY <1>c, <2>1, <2>3
  <2>5. script' \in EndsIn(down)
    BY <1>c, <2>1, <2>2, <2>3, <2>4
  <2> QED BY <2>5 DEF down
<1> QED BY <1>1, <1>2, <1>3, <1>4, <1>5, <1>6, <1>7, <1>8, <1>9

-----------------------------------------------------------------------------
(* What the calls still to come tell of a tab. *)

About(t)       == {m \in Calls : m.tab = t}
News(t)        == {m \in About(t) : m.is = "status"}
OwnMoves(t)    == {m \in About(t) : m.is = "moved" /\ m.who = Me}
AnnMoves(t)    == {m \in About(t) : m.is = "moved" /\ m.who = Ann}
Leaving(t)     == {m \in AnnMoves(t) : m.to = NoChannel}
Crossing(t, x) == {m \in AnnMoves(t) : m.from # m.to /\ x \in {m.from, m.to}}
Talk(t)        == {m \in About(t) : m.is = "talking"}
Switching      == {m \in Calls : m.is = "current"}

\* Where in the queue q the calls of S are, and whether place i is behind all
\* news of the tab's status, so that it is about the tab as it is.
Places(q, S)   == {i \in DOMAIN q : q[i] \in S}
Fresh(t, q, i) == \A j \in Places(q, News(t)) : j < i

\* The last status to be told is the one the tab has.
NewsLast(t, q, s) ==
  \A i \in Places(q, News(t)) :
    (\A j \in Places(q, News(t)) : j <= i) => q[i].status = Mapped(s)

\* Only an established connection has anything happen on it.
OnlyOnceThere(t, q, s) ==
  \A i \in Places(q, About(t)) :
    Fresh(t, q, i) => q[i].is # "stopped" /\ (s # "established" => q[i].is = "current")

\* A connection in which somebody talked does not connect next.
TalkBreaksOff(t, q) ==
  \A i \in Places(q, Talk(t)), j \in Places(q, News(t)) :
    i < j /\ (\A l \in Places(q, News(t)) : l < j => l < i) => q[j].status # "connected"

\* Who left the server is gone.
OwnLast(t, q, p) ==
  \A i \in Places(q, OwnMoves(t)) : Fresh(t, q, i) /\ q[i].to = NoChannel => p[Me] = NoChannel

\* After the last move into or out of channel x Ann is there or is not.
AnnLast(t, q, p) ==
  \A i \in Places(q, AnnMoves(t)), x \in Here :
    Fresh(t, q, i) /\ (\A j \in Places(q, Crossing(t, x)) : j <= i) =>
      (q[i].to = x <=> p[Ann] = x)

\* If she talked last, she does, unless she has left since.
TalkLast(t, q, k) ==
  \A i \in Places(q, Talk(t)) :
    Fresh(t, q, i) /\ (\A j \in Places(q, Talk(t)) : j <= i) /\ q[i].on =>
      k \/ \E j \in Places(q, Leaving(t)) : i < j

\* So the queue q tells of tab t, whose connection has the status s, whose
\* people are where p says and where Ann talks if k.
Traced(t, q, s, p, k) ==
  /\ NewsLast(t, q, s) /\ OnlyOnceThere(t, q, s) /\ TalkBreaksOff(t, q)
  /\ OwnLast(t, q, p) /\ AnnLast(t, q, p) /\ TalkLast(t, q, k)
  /\ k => s = "established" /\ p[Ann] # NoChannel

\* The first call is served: the others move up.
LEMMA PlacesServed ==
  ASSUME NEW q \in Seq(Calls), q # <<>>, NEW S
  PROVE  /\ \A i \in Places(Tail(q), S) : /\ i \in Nat /\ 1 <= i /\ i + 1 \in Places(q, S)
                                          /\ Tail(q)[i] = q[i + 1]
         /\ \A i \in Places(q, S) : /\ i \in Nat /\ 1 <= i
                                    /\ i = 1 => Head(q) \in S
                                    /\ i # 1 => i - 1 \in Places(Tail(q), S)
         /\ Head(q) \in S => 1 \in Places(q, S)
         /\ q[1] = Head(q) /\ Head(q) \in Calls
         /\ Places(q, S) = {} => Places(Tail(q), S) = {}
         /\ Head(q) \notin S /\ Places(Tail(q), S) = {} => Places(q, S) = {}
<1> DEFINE rest == Tail(q)
           n == Len(q)
<1>1. /\ n \in Nat /\ n # 0 /\ DOMAIN q = 1..n /\ Head(q) = q[1] /\ Head(q) \in Calls
      /\ rest \in Seq(Calls) /\ Len(rest) = n - 1 /\ \A i \in 1..n - 1 : rest[i] = q[i + 1]
  BY LenProperties, HeadTailProperties, EmptySeq
<1>2. DOMAIN rest = 1..n - 1
  BY <1>1, LenProperties
<1> HIDE DEF rest, n
<1>3. ASSUME NEW i \in Places(rest, S)
      PROVE  i \in Nat /\ 1 <= i /\ i + 1 \in Places(q, S) /\ rest[i] = q[i + 1]
  <2>1. i \in 1..n - 1 /\ rest[i] \in S
    BY <1>2 DEF Places
  <2>2. i \in Nat /\ 1 <= i /\ i + 1 \in 1..n /\ rest[i] = q[i + 1]
    BY <1>1, <2>1
  <2> QED BY <1>1, <2>1, <2>2 DEF Places
<1>4. ASSUME NEW i \in Places(q, S)
      PROVE  /\ i \in Nat /\ 1 <= i /\ (i = 1 => Head(q) \in S)
             /\ i # 1 => i - 1 \in Places(rest, S)
  <2>1. i \in 1..n /\ q[i] \in S
    BY <1>1 DEF Places
  <2>2. ASSUME i # 1 PROVE i - 1 \in Places(rest, S)
    <3>1. i - 1 \in 1..n - 1 /\ (i - 1) + 1 = i
      BY <1>1, <2>1, <2>2
    <3>2. rest[i - 1] = q[i]
      BY <1>1, <3>1
    <3> QED BY <1>2, <2>1, <3>1, <3>2 DEF Places
  <2> QED BY <1>1, <2>1, <2>2
<1>5. Head(q) \in S => 1 \in Places(q, S)
  BY <1>1 DEF Places
<1>6. Places(q, S) = {} => Places(rest, S) = {}
  BY <1>3
<1>7. Head(q) \notin S /\ Places(rest, S) = {} => Places(q, S) = {}
  BY <1>4
<1> QED BY <1>1, <1>3, <1>4, <1>5, <1>6, <1>7 DEF rest

\* What is yet to come tells of the tab as the whole did.
LEMMA TracedServed ==
  ASSUME NEW t, NEW q \in Seq(Calls), q # <<>>, NEW s, NEW p, NEW k, Traced(t, q, s, p, k)
  PROVE  Traced(t, Tail(q), s, p, k)
<1> DEFINE rest == Tail(q)
<1>1. ASSUME NEW S
      PROVE  /\ \A i \in Places(rest, S) : /\ i \in Nat /\ 1 <= i /\ i + 1 \in Places(q, S)
                                           /\ rest[i] = q[i + 1]
             /\ \A i \in Places(q, S) : /\ i \in Nat /\ 1 <= i
                                        /\ i # 1 => i - 1 \in Places(rest, S)
  BY PlacesServed
<1> HIDE DEF rest
<1>2. ASSUME NEW S, NEW i \in Nat, 1 <= i, \A j \in Places(rest, S) : j < i
      PROVE  \A j \in Places(q, S) : j < i + 1
  <2> SUFFICES ASSUME NEW j \in Places(q, S) PROVE j < i + 1
    OBVIOUS
  <2>1. j \in Nat /\ (j # 1 => j - 1 < i)
    BY <1>1, <1>2
  <2> QED BY <1>2, <2>1
<1>3. ASSUME NEW S, NEW i \in Nat, 1 <= i, \A j \in Places(rest, S) : j <= i
      PROVE  \A j \in Places(q, S) : j <= i + 1
  <2> SUFFICES ASSUME NEW j \in Places(q, S) PROVE j <= i + 1
    OBVIOUS
  <2>1. j \in Nat /\ (j # 1 => j - 1 <= i)
    BY <1>1, <1>3
  <2> QED BY <1>3, <2>1
<1>4. ASSUME NEW S, NEW i \in Places(rest, S), Fresh(t, rest, i) PROVE Fresh(t, q, i + 1)
  BY <1>1, <1>2, <1>4 DEF Fresh
<1>5. NewsLast(t, rest, s)
  BY <1>1, <1>3 DEF Traced, NewsLast
<1>6. OnlyOnceThere(t, rest, s)
  BY <1>1, <1>4 DEF Traced, OnlyOnceThere
<1>7. TalkBreaksOff(t, rest)
  <2> SUFFICES ASSUME NEW i \in Places(rest, Talk(t)), NEW j \in Places(rest, News(t)), i < j,
                      \A l \in Places(rest, News(t)) : l < j => l < i
               PROVE  rest[j].status # "connected"
    BY DEF TalkBreaksOff
  <2>1. /\ i \in Nat /\ 1 <= i /\ i + 1 \in Places(q, Talk(t))
        /\ j \in Nat /\ j + 1 \in Places(q, News(t)) /\ rest[j] = q[j + 1]
    BY <1>1
  <2>2. \A l \in Places(q, News(t)) : l < j + 1 => l < i + 1
    <3> SUFFICES ASSUME NEW l \in Places(q, News(t)), l < j + 1 PROVE l < i + 1
      OBVIOUS
    <3>1. l \in Nat /\ (l # 1 => l - 1 \in Places(rest, News(t)))
      BY <1>1
    <3>2. l # 1 => (l - 1 < j => l - 1 < i)
      BY <3>1
    <3> QED BY <2>1, <3>1, <3>2
  <2>3. i + 1 < j + 1
    BY <2>1
  <2> QED BY <2>1, <2>2, <2>3 DEF Traced, TalkBreaksOff
<1>8. OwnLast(t, rest, p)
  BY <1>1, <1>4 DEF Traced, OwnLast
<1>9. AnnLast(t, rest, p)
  <2> SUFFICES ASSUME NEW i \in Places(rest, AnnMoves(t)), NEW x \in Here, Fresh(t, rest, i),
                      \A j \in Places(rest, Crossing(t, x)) : j <= i
               PROVE  rest[i].to = x <=> p[Ann] = x
    BY DEF AnnLast
  <2>1. /\ i \in Nat /\ 1 <= i /\ i + 1 \in Places(q, AnnMoves(t)) /\ rest[i] = q[i + 1]
        /\ Fresh(t, q, i + 1)
    BY <1>1, <1>4
  <2>2. \A j \in Places(q, Crossing(t, x)) : j <= i + 1
    BY <1>3, <2>1
  <2> QED BY <2>1, <2>2 DEF Traced, AnnLast
<1>10. TalkLast(t, rest, k)
  <2> SUFFICES ASSUME NEW i \in Places(rest, Talk(t)), Fresh(t, rest, i), rest[i].on,
                      \A j \in Places(rest, Talk(t)) : j <= i
               PROVE  k \/ \E j \in Places(rest, Leaving(t)) : i < j
    BY DEF TalkLast
  <2>1. /\ i \in Nat /\ 1 <= i /\ i + 1 \in Places(q, Talk(t)) /\ rest[i] = q[i + 1]
        /\ Fresh(t, q, i + 1)
    BY <1>1, <1>4
  <2>2. \A j \in Places(q, Talk(t)) : j <= i + 1
    BY <1>3, <2>1
  <2>3. k \/ \E j \in Places(q, Leaving(t)) : i + 1 < j
    BY <2>1, <2>2 DEF Traced, TalkLast
  <2>4. ASSUME NEW j \in Places(q, Leaving(t)), i + 1 < j
        PROVE  j - 1 \in Places(rest, Leaving(t)) /\ i < j - 1
    <3>1. j \in Nat /\ (j # 1 => j - 1 \in Places(rest, Leaving(t)))
      BY <1>1
    <3> QED BY <2>1, <2>4, <3>1
  <2> QED BY <2>3, <2>4
<1> QED BY <1>5, <1>6, <1>7, <1>8, <1>9, <1>10 DEF Traced, rest

\* More calls are added: the others keep their places.
LEMMA PlacesTold ==
  ASSUME NEW q \in Seq(Calls), NEW more \in Seq(Calls), NEW S
  PROVE  /\ Len(q) \in Nat /\ Len(more) \in Nat
         /\ \A i \in Places(q, S) : /\ i \in 1..Len(q) /\ i \in Places(q \o more, S)
                                    /\ (q \o more)[i] = q[i]
         /\ \A i \in Places(q \o more, S) :
              /\ i \in 1..Len(q) + Len(more)
              /\ i <= Len(q) => i \in Places(q, S) /\ (q \o more)[i] = q[i]
              /\ ~(i <= Len(q)) => /\ i - Len(q) \in 1..Len(more) /\ more[i - Len(q)] \in S
                                   /\ (q \o more)[i] = more[i - Len(q)]
         /\ \A j \in 1..Len(more) : more[j] \in S =>
              Len(q) + j \in Places(q \o more, S) /\ (q \o more)[Len(q) + j] = more[j]
<1> DEFINE all == q \o more
           n == Len(q)
           m == Len(more)
<1>1. n \in Nat /\ m \in Nat /\ DOMAIN q = 1..n
  BY LenProperties
<1>2. /\ DOMAIN all = 1..n + m
      /\ \A i \in 1..n + m : all[i] = IF i <= n THEN q[i] ELSE more[i - n]
  <2>1. /\ all \in Seq(Calls) /\ Len(all) = n + m
        /\ \A i \in 1..n + m : all[i] = IF i <= n THEN q[i] ELSE more[i - n]
    BY ConcatProperties
  <2> QED BY <2>1, LenProperties
<1> HIDE DEF all, n, m
<1>3. \A i \in 1..n : i \in 1..n + m /\ all[i] = q[i]
  BY <1>1, <1>2
<1>4. \A i \in 1..n + m : /\ i <= n => i \in 1..n
                          /\ ~(i <= n) => i - n \in 1..m /\ all[i] = more[i - n]
  BY <1>1, <1>2
<1>5. \A j \in 1..m : n + j \in 1..n + m /\ all[n + j] = more[j]
  <2> SUFFICES ASSUME NEW j \in 1..m PROVE n + j \in 1..n + m /\ all[n + j] = more[j]
    OBVIOUS
  <2>1. n + j \in 1..n + m /\ ~(n + j <= n) /\ (n + j) - n = j
    BY <1>1
  <2> QED BY <1>2, <2>1
<1>6. \A i \in Places(q, S) : i \in 1..n /\ i \in Places(all, S) /\ all[i] = q[i]
  BY <1>1, <1>2, <1>3 DEF Places
<1>7. \A i \in Places(all, S) :
        /\ i \in 1..n + m
        /\ i <= n => i \in Places(q, S) /\ all[i] = q[i]
        /\ ~(i <= n) => i - n \in 1..m /\ more[i - n] \in S /\ all[i] = more[i - n]
  BY <1>1, <1>2, <1>3, <1>4 DEF Places
<1>8. \A j \in 1..m : more[j] \in S => n + j \in Places(all, S) /\ all[n + j] = more[j]
  BY <1>2, <1>5 DEF Places
<1> QED BY <1>1, <1>6, <1>7, <1>8 DEF all, n, m

\* One call is added behind the others.
LEMMA PlacesAppended ==
  ASSUME NEW q \in Seq(Calls), NEW m \in Calls, NEW S
  PROVE  /\ Len(q) \in Nat
         /\ \A i \in Places(q, S) : /\ i \in Nat /\ i <= Len(q) /\ i \in Places(q \o <<m>>, S)
                                    /\ (q \o <<m>>)[i] = q[i]
         /\ \A i \in Places(q \o <<m>>, S) :
              /\ i \in Nat /\ i <= Len(q) + 1
              /\ i <= Len(q) => i \in Places(q, S) /\ (q \o <<m>>)[i] = q[i]
              /\ ~(i <= Len(q)) => i = Len(q) + 1 /\ m \in S /\ (q \o <<m>>)[i] = m
         /\ m \in S => Len(q) + 1 \in Places(q \o <<m>>, S) /\ (q \o <<m>>)[Len(q) + 1] = m
<1>1. PICK more \in Seq(Calls) : more = <<m>> /\ Len(more) = 1 /\ more[1] = m
  <2>1. <<m>> \in Seq(Calls) /\ Len(<<m>>) = 1 /\ <<m>>[1] = m
    OBVIOUS
  <2> QED BY <2>1, Zenon
<1>2. /\ Len(q) \in Nat
      /\ \A i \in Places(q, S) : /\ i \in 1..Len(q) /\ i \in Places(q \o more, S)
                                 /\ (q \o more)[i] = q[i]
      /\ \A i \in Places(q \o more, S) :
           /\ i \in 1..Len(q) + Len(more)
           /\ i <= Len(q) => i \in Places(q, S) /\ (q \o more)[i] = q[i]
           /\ ~(i <= Len(q)) => /\ i - Len(q) \in 1..Len(more) /\ more[i - Len(q)] \in S
                                /\ (q \o more)[i] = more[i - Len(q)]
      /\ \A j \in 1..Len(more) : more[j] \in S =>
           Len(q) + j \in Places(q \o more, S) /\ (q \o more)[Len(q) + j] = more[j]
  BY PlacesTold
<1> DEFINE all == q \o more
           n == Len(q)
<1> HIDE DEF all, n
<1>3. /\ n \in Nat
      /\ \A i \in Places(q, S) : i \in 1..n /\ i \in Places(all, S) /\ all[i] = q[i]
      /\ \A i \in Places(all, S) :
           /\ i \in 1..n + 1
           /\ i <= n => i \in Places(q, S) /\ all[i] = q[i]
           /\ ~(i <= n) => i - n \in 1..1 /\ more[i - n] \in S /\ all[i] = more[i - n]
      /\ more[1] \in S => n + 1 \in Places(all, S) /\ all[n + 1] = more[1]
  BY <1>1, <1>2 DEF all, n
<1>4. ASSUME NEW i \in Places(all, S), ~(i <= n) PROVE i = n + 1 /\ m \in S /\ all[i] = m
  <2>1. i - n = 1 /\ i \in Nat
    BY <1>3, <1>4
  <2> QED BY <1>1, <1>3, <1>4, <2>1
<1> QED BY <1>1, <1>3, <1>4 DEF all, n

\* Calls that are not of S do not change where those of S are.
LEMMA PlacesWithout ==
  ASSUME NEW q \in Seq(Calls), NEW more \in Seq(Calls), NEW S,
         \A j \in 1..Len(more) : more[j] \notin S
  PROVE  /\ Places(q \o more, S) = Places(q, S)
         /\ \A i \in Places(q, S) : (q \o more)[i] = q[i]
<1> DEFINE all == q \o more
           n == Len(q)
<1>1. /\ \A i \in Places(q, S) : i \in Places(all, S) /\ all[i] = q[i]
      /\ \A i \in Places(all, S) :
           /\ i <= n => i \in Places(q, S)
           /\ ~(i <= n) => i - n \in 1..Len(more) /\ more[i - n] \in S
  BY PlacesTold
<1> HIDE DEF all, n
<1>2. \A i \in Places(all, S) : i <= n
  BY <1>1
<1>3. Places(all, S) = Places(q, S)
  BY <1>1, <1>2
<1> QED BY <1>1, <1>3 DEF all

\* Calls about other tabs tell nothing of this one.
LEMMA PlacesElsewhere ==
  ASSUME NEW t, NEW q \in Seq(Calls), NEW more \in Seq(Calls),
         \A j \in 1..Len(more) : more[j].tab # t,
         NEW S \in SUBSET About(t)
  PROVE  /\ Places(q \o more, S) = Places(q, S)
         /\ \A i \in Places(q, S) : (q \o more)[i] = q[i]
<1>1. \A m \in S : m.tab = t
  BY DEF About
<1>2. \A j \in 1..Len(more) : more[j] \notin S
  BY <1>1
<1> QED BY <1>2, PlacesWithout

\* Calls about other tabs tell nothing of this one.
LEMMA TracedElsewhere ==
  ASSUME NEW t, NEW q \in Seq(Calls), NEW more \in Seq(Calls),
         \A j \in 1..Len(more) : more[j].tab # t,
         NEW s, NEW p, NEW k, Traced(t, q, s, p, k)
  PROVE  Traced(t, q \o more, s, p, k)
<1> DEFINE all == q \o more
<1>1. \A S \in SUBSET About(t) : Places(all, S) = Places(q, S)
                                 /\ \A i \in Places(q, S) : all[i] = q[i]
  BY PlacesElsewhere
<1> HIDE DEF all
<1>2. /\ News(t) \in SUBSET About(t) /\ OwnMoves(t) \in SUBSET About(t)
      /\ AnnMoves(t) \in SUBSET About(t) /\ Leaving(t) \in SUBSET About(t)
      /\ Talk(t) \in SUBSET About(t) /\ About(t) \in SUBSET About(t)
      /\ \A x : Crossing(t, x) \in SUBSET About(t)
  BY DEF News, OwnMoves, AnnMoves, Leaving, Talk, Crossing
<1>3. \A i : Fresh(t, all, i) <=> Fresh(t, q, i)
  BY <1>1, <1>2 DEF Fresh
<1>4. NewsLast(t, all, s) /\ OnlyOnceThere(t, all, s) /\ TalkBreaksOff(t, all)
  BY <1>1, <1>2, <1>3 DEF Traced, NewsLast, OnlyOnceThere, TalkBreaksOff
<1>5. OwnLast(t, all, p) /\ AnnLast(t, all, p)
  BY <1>1, <1>2, <1>3 DEF Traced, OwnLast, AnnLast
<1>6. TalkLast(t, all, k)
  BY <1>1, <1>2, <1>3 DEF Traced, TalkLast
<1> QED BY <1>4, <1>5, <1>6 DEF Traced, all

\* Something happens on an established connection, or the user changes to it,
\* and is told.
LEMMA TracedCall ==
  ASSUME NEW t, NEW q \in Seq(Calls), NEW m \in About(t), m.is \notin {"status", "stopped"},
         NEW s, NEW p, NEW k, NEW p1, NEW k1, Traced(t, q, s, p, k),
         s = "established" \/ m.is = "current",
         p[Me] = NoChannel => p1[Me] = NoChannel,
         m \in OwnMoves(t) => p1[Me] = m.to,
         m \in AnnMoves(t) => m.from = p[Ann] /\ m.to = p1[Ann] /\ m.from # m.to,
         m \notin AnnMoves(t) => p1[Ann] = p[Ann],
         m \in Talk(t) => k1 = m.on,
         m \notin Talk(t) /\ m \notin Leaving(t) => (k => k1),
         k1 => s = "established" /\ p1[Ann] # NoChannel
  PROVE  Traced(t, Append(q, m), s, p1, k1)
<1> DEFINE all == q \o <<m>>
           n == Len(q)
<1>1. m \in Calls /\ m.tab = t /\ m \notin News(t)
  BY DEF About, News
<1>3. Append(q, m) = all
  BY <1>1, AppendIsConcat
<1>4. ASSUME NEW S
      PROVE  /\ n \in Nat
             /\ \A i \in Places(q, S) : /\ i \in Nat /\ i <= n /\ i \in Places(all, S)
                                        /\ all[i] = q[i]
             /\ \A i \in Places(all, S) :
                  /\ i \in Nat /\ i <= n + 1
                  /\ i <= n => i \in Places(q, S) /\ all[i] = q[i]
                  /\ ~(i <= n) => i = n + 1 /\ m \in S /\ all[i] = m
             /\ m \in S => n + 1 \in Places(all, S) /\ all[n + 1] = m
  BY <1>1, PlacesAppended
<1> HIDE DEF all, n
<1>5. Places(all, News(t)) = Places(q, News(t))
  BY <1>1, <1>4
<1>6. \A i : Fresh(t, all, i) <=> Fresh(t, q, i)
  BY <1>5 DEF Fresh
<1>7. NewsLast(t, all, s)
  BY <1>4, <1>5 DEF Traced, NewsLast
<1>8. OnlyOnceThere(t, all, s)
  BY <1>4, <1>6 DEF Traced, OnlyOnceThere
<1>9. TalkBreaksOff(t, all)
  <2> SUFFICES ASSUME NEW i \in Places(all, Talk(t)), NEW j \in Places(all, News(t)), i < j,
                      \A l \in Places(all, News(t)) : l < j => l < i
               PROVE  all[j].status # "connected"
    BY DEF TalkBreaksOff
  <2>1. j \in Places(q, News(t)) /\ j <= n /\ all[j] = q[j] /\ j \in Nat /\ i \in Nat /\ n \in Nat
    BY <1>4, <1>5
  <2>2. i <= n
    BY <2>1
  <2>3. i \in Places(q, Talk(t))
    BY <1>4, <2>2
  <2> QED BY <1>5, <2>1, <2>3 DEF Traced, TalkBreaksOff
<1>10. OwnLast(t, all, p1)
  <2> SUFFICES ASSUME NEW i \in Places(all, OwnMoves(t)), Fresh(t, all, i), all[i].to = NoChannel
               PROVE  p1[Me] = NoChannel
    BY DEF OwnLast
  <2>1. CASE i <= n
    BY <1>4, <1>6, <2>1 DEF Traced, OwnLast
  <2>2. CASE ~(i <= n)
    BY <1>4, <2>2
  <2> QED BY <2>1, <2>2
<1>11. AnnLast(t, all, p1)
  <2> SUFFICES ASSUME NEW i \in Places(all, AnnMoves(t)), NEW x \in Here, Fresh(t, all, i),
                      \A j \in Places(all, Crossing(t, x)) : j <= i
               PROVE  all[i].to = x <=> p1[Ann] = x
    BY DEF AnnLast
  <2>1. CASE i <= n
    <3>1. i \in Places(q, AnnMoves(t)) /\ all[i] = q[i] /\ Fresh(t, q, i) /\ i \in Nat /\ n \in Nat
      BY <1>4, <1>6, <2>1
    <3>2. \A j \in Places(q, Crossing(t, x)) : j <= i
      BY <1>4
    <3>3. q[i].to = x <=> p[Ann] = x
      BY <3>1, <3>2 DEF Traced, AnnLast
    <3>4. CASE m \notin AnnMoves(t)
      BY <3>1, <3>3, <3>4
    <3>5. CASE m \in AnnMoves(t)
      <4>1. m \notin Crossing(t, x)
        <5> SUFFICES ASSUME m \in Crossing(t, x) PROVE FALSE
          OBVIOUS
        <5>1. n + 1 \in Places(all, Crossing(t, x))
          BY <1>4
        <5> QED BY <2>1, <3>1, <5>1
      <4>2. p[Ann] # x /\ p1[Ann] # x
        BY <3>5, <4>1 DEF Crossing
      <4> QED BY <3>1, <3>3, <4>2
    <3> QED BY <3>4, <3>5
  <2>2. CASE ~(i <= n)
    BY <1>4, <2>2
  <2> QED BY <2>1, <2>2
<1>12. TalkLast(t, all, k1)
  <2> SUFFICES ASSUME NEW i \in Places(all, Talk(t)), Fresh(t, all, i), all[i].on,
                      \A j \in Places(all, Talk(t)) : j <= i
               PROVE  k1 \/ \E j \in Places(all, Leaving(t)) : i < j
    BY DEF TalkLast
  <2>1. CASE i <= n
    <3>1. i \in Places(q, Talk(t)) /\ all[i] = q[i] /\ Fresh(t, q, i) /\ i \in Nat /\ n \in Nat
      BY <1>4, <1>6, <2>1
    <3>2. \A j \in Places(q, Talk(t)) : j <= i
      BY <1>4
    <3>3. k \/ \E j \in Places(q, Leaving(t)) : i < j
      BY <3>1, <3>2 DEF Traced, TalkLast
    <3>4. m \notin Talk(t)
      <4> SUFFICES ASSUME m \in Talk(t) PROVE FALSE
        OBVIOUS
      <4>1. n + 1 \in Places(all, Talk(t))
        BY <1>4
      <4> QED BY <2>1, <3>1, <4>1
    <3>5. CASE m \in Leaving(t)
      <4>1. n + 1 \in Places(all, Leaving(t)) /\ i < n + 1
        BY <1>4, <2>1, <3>1, <3>5
      <4> QED BY <4>1
    <3>6. CASE m \notin Leaving(t)
      BY <1>4, <3>3, <3>4, <3>6
    <3> QED BY <3>5, <3>6
  <2>2. CASE ~(i <= n)
    BY <1>4, <2>2
  <2> QED BY <2>1, <2>2
<1> QED BY <1>3, <1>7, <1>8, <1>9, <1>10, <1>11, <1>12 DEF Traced

\* The tab's status changes, possibly because the server stops, and is told.
LEMMA TracedStatus ==
  ASSUME NEW t, NEW q \in Seq(Calls), NEW more \in Seq(Calls), Len(more) # 0,
         NEW s, NEW p, NEW k, Traced(t, q, s, p, k),
         NEW s1, NEW p1, NEW k1,
         more[Len(more)] \in News(t), more[Len(more)].status = Mapped(s1),
         \A j \in 1..Len(more) : j # Len(more) => more[j] \notin News(t) /\ more[j] \notin Talk(t),
         Mapped(s1) = "connected" => s # "established",
         k1 => s1 = "established" /\ p1[Ann] # NoChannel
  PROVE  Traced(t, q \o more, s1, p1, k1)
<1> DEFINE all == q \o more
           n == Len(q)
           m == Len(more)
<1>1. ASSUME NEW S
      PROVE  /\ n \in Nat /\ m \in Nat
             /\ \A i \in Places(q, S) : i \in 1..n /\ i \in Places(all, S) /\ all[i] = q[i]
             /\ \A i \in Places(all, S) :
                  /\ i \in 1..n + m
                  /\ i <= n => i \in Places(q, S) /\ all[i] = q[i]
                  /\ ~(i <= n) => i - n \in 1..m /\ more[i - n] \in S /\ all[i] = more[i - n]
             /\ \A j \in 1..m : more[j] \in S => n + j \in Places(all, S) /\ all[n + j] = more[j]
  BY PlacesTold
<1> HIDE DEF all, n
<1>2. /\ m \in Nat /\ n \in Nat /\ m \in 1..m /\ n + m \in Nat
  BY <1>1
<1>3. /\ n + m \in Places(all, News(t)) /\ all[n + m].status = Mapped(s1)
  BY <1>1, <1>2
<1>4. \A S : \A i \in Places(all, S) : i \in Nat /\ i <= n + m
  BY <1>1, <1>2
<1>5. \A S : \A i \in Places(all, S) : ~Fresh(t, all, i)
  <2> SUFFICES ASSUME NEW S, NEW i \in Places(all, S), Fresh(t, all, i) PROVE FALSE
    OBVIOUS
  <2>1. n + m < i
    BY <1>3 DEF Fresh
  <2> QED BY <1>2, <1>4, <2>1
<1>6. NewsLast(t, all, s1)
  <2> SUFFICES ASSUME NEW i \in Places(all, News(t)), \A j \in Places(all, News(t)) : j <= i
               PROVE  all[i].status = Mapped(s1)
    BY DEF NewsLast
  <2>1. i = n + m
    BY <1>2, <1>3, <1>4
  <2> QED BY <1>3, <2>1
<1>7. OnlyOnceThere(t, all, s1) /\ OwnLast(t, all, p1) /\ AnnLast(t, all, p1)
      /\ TalkLast(t, all, k1)
  BY <1>5 DEF OnlyOnceThere, OwnLast, AnnLast, TalkLast
<1>8. TalkBreaksOff(t, all)
  <2> SUFFICES ASSUME NEW i \in Places(all, Talk(t)), NEW j \in Places(all, News(t)), i < j,
                      \A l \in Places(all, News(t)) : l < j => l < i
               PROVE  all[j].status # "connected"
    BY DEF TalkBreaksOff
  <2>1. i \in Nat /\ j \in Nat /\ i <= n + m /\ j <= n + m
    BY <1>4
  <2>2. i <= n
    <3> SUFFICES ASSUME ~(i <= n) PROVE FALSE
      OBVIOUS
    <3>1. i - n \in 1..m /\ more[i - n] \in Talk(t)
      BY <1>1
    <3>2. i - n # m
      BY <1>2, <2>1
    <3> QED BY <3>1, <3>2
  <2>3. i \in Places(q, Talk(t)) /\ all[i] = q[i]
    BY <1>1, <2>2
  <2>4. CASE j <= n
    <3>1. j \in Places(q, News(t)) /\ all[j] = q[j]
      BY <1>1, <2>4
    <3>2. \A l \in Places(q, News(t)) : l < j => l < i
      BY <1>1
    <3> QED BY <2>3, <3>1, <3>2 DEF Traced, TalkBreaksOff
  <2>5. CASE ~(j <= n)
    <3>1. j - n \in 1..m /\ more[j - n] \in News(t)
      BY <1>1, <2>5
    <3>2. j - n = m
      BY <3>1
    <3>3. j = n + m
      BY <1>2, <2>1, <3>2
    <3>4. Fresh(t, q, i)
      <4> SUFFICES ASSUME NEW l \in Places(q, News(t)) PROVE l < i
        BY DEF Fresh
      <4>1. l \in 1..n /\ l \in Places(all, News(t))
        BY <1>1
      <4>2. l < j
        BY <1>2, <2>1, <2>5, <4>1
      <4> QED BY <4>1, <4>2
    <3>5. i \in Places(q, About(t)) /\ q[i].is = "talking"
      BY <2>3 DEF Places, Talk
    <3>6. s = "established"
      BY <3>4, <3>5 DEF Traced, OnlyOnceThere
    <3> QED BY <1>3, <3>3, <3>6
  <2> QED BY <2>4, <2>5
<1> QED BY <1>6, <1>7, <1>8 DEF Traced, all

-----------------------------------------------------------------------------
(* What the overlay shows of the tab that is followed. *)

\* If somebody is shown talking, the connection breaks off before it connects
\* again, so that nothing is carried over.
BreaksOff(t, q, c) ==
  Speaks(c) =>
    \A i \in Places(q, News(t)) :
      (\A j \in Places(q, News(t)) : i <= j) => q[i].status # "connected"

\* On an established connection the channel shown is ours unless our moves are
\* still to come, we are in it, and so is Ann if she is, unless a move of hers
\* is still to come; and if she is shown talking she does, or is yet to stop.
InChannel(t, q, c, p, k) ==
  /\ Places(q, OwnMoves(t)) = {} => c.channel = p[Me]
  /\ c.channel # NoChannel => Has(c, Me)
  /\ c.channel # NoChannel /\ Places(q, Crossing(t, c.channel)) = {} =>
       /\ Has(c, Ann) <=> p[Ann] = c.channel
       /\ Speaks(c) /\ Places(q, Talk(t)) = {} => k

\* So the cache c shows tab t while the calls in q are still to come.
Shows(t, q, c, s, p, k) ==
  /\ BreaksOff(t, q, c)
  /\ Places(q, News(t)) = {} => IF s = "established" THEN InChannel(t, q, c, p, k)
                                ELSE c.channel = NoChannel

\* The cache after a re-read of a connection with status s and people where p
\* says.
Reread(d, s, p) ==
  /\ d.channel = IF s = "established" THEN p[Me] ELSE NoChannel
  /\ \A x \in ClientIds : Has(d, x) <=> d.channel # NoChannel /\ p[x] = d.channel

\* A re-read after which nobody is shown talking is right whatever is to come.
LEMMA RereadSilent ==
  ASSUME NEW t, NEW q, NEW d, NEW s, NEW p, NEW k, Reread(d, s, p), ~Speaks(d)
  PROVE  Shows(t, q, d, s, p, k)
BY People DEF Shows, BreaksOff, InChannel, Reread

\* Nothing is shown, and there is nothing to be shown.
LEMMA ShowsNothing ==
  ASSUME NEW t, NEW q, NEW d, NEW s, NEW p, NEW k, d.channel = NoChannel, ~Speaks(d),
         Places(q, News(t)) = {} /\ s = "established" => p[Me] = NoChannel
  PROVE  Shows(t, q, d, s, p, k)
BY DEF Shows, BreaksOff, InChannel

\* A call that brings no news of the status does not change what comes first
\* of it.
LEMMA BreaksOffServed ==
  ASSUME NEW t, NEW q \in Seq(Calls), q # <<>>, Head(q) \notin News(t), NEW c, NEW d,
         Speaks(d) => Speaks(c), BreaksOff(t, q, c)
  PROVE  BreaksOff(t, Tail(q), d)
<1> DEFINE rest == Tail(q)
<1>1. /\ \A i \in Places(rest, News(t)) : /\ i \in Nat /\ 1 <= i /\ i + 1 \in Places(q, News(t))
                                          /\ rest[i] = q[i + 1]
      /\ \A i \in Places(q, News(t)) : /\ i \in Nat /\ 1 <= i /\ (i = 1 => Head(q) \in News(t))
                                       /\ (i # 1 => i - 1 \in Places(rest, News(t)))
  BY PlacesServed
<1> HIDE DEF rest
<1>2. ASSUME NEW i \in Places(rest, News(t)), \A j \in Places(rest, News(t)) : i <= j
      PROVE  \A j \in Places(q, News(t)) : i + 1 <= j
  <2> SUFFICES ASSUME NEW j \in Places(q, News(t)) PROVE i + 1 <= j
    OBVIOUS
  <2>1. j \in Nat /\ j # 1 /\ j - 1 \in Places(rest, News(t)) /\ i \in Nat
    BY <1>1
  <2>2. i <= j - 1
    BY <1>2, <2>1
  <2> QED BY <2>1, <2>2
<1>3. BreaksOff(t, rest, d)
  BY <1>1, <1>2 DEF BreaksOff
<1> QED BY <1>3 DEF rest

\* While news of the status is still to come, only that matters.
LEMMA ShowsMeanwhile ==
  ASSUME NEW t, NEW q \in Seq(Calls), q # <<>>, Head(q) \notin News(t),
         Places(Tail(q), News(t)) # {}, NEW c, NEW d, Speaks(d) => Speaks(c),
         NEW s, NEW p, NEW k, Shows(t, q, c, s, p, k)
  PROVE  Shows(t, Tail(q), d, s, p, k)
BY BreaksOffServed DEF Shows

\* A call that concerns nothing that is shown changes nothing.
LEMMA ShowsStill ==
  ASSUME NEW t, NEW q \in Seq(Calls), q # <<>>, NEW c, NEW s, NEW p, NEW k,
         Head(q) \notin News(t), Head(q) \notin OwnMoves(t), Head(q) \notin Talk(t),
         c.channel # NoChannel => Head(q) \notin Crossing(t, c.channel),
         Shows(t, q, c, s, p, k)
  PROVE  Shows(t, Tail(q), c, s, p, k)
<1>1. \A S : Head(q) \notin S /\ Places(Tail(q), S) = {} => Places(q, S) = {}
  BY PlacesServed
<1>2. BreaksOff(t, Tail(q), c)
  BY BreaksOffServed DEF Shows
<1>3. InChannel(t, q, c, p, k) => InChannel(t, Tail(q), c, p, k)
  BY <1>1 DEF InChannel
<1> QED BY <1>1, <1>2, <1>3 DEF Shows

\* What is the first call is the last of its kind if no other is to come, and
\* is about the tab as it is if no news of the status is.
LEMMA FirstCall ==
  ASSUME NEW t, NEW q \in Seq(Calls), q # <<>>, Head(q) \notin News(t),
         Places(Tail(q), News(t)) = {}
  PROVE  /\ Places(q, News(t)) = {} /\ Fresh(t, q, 1) /\ q[1] = Head(q)
         /\ \A S : Head(q) \in S => 1 \in Places(q, S)
         /\ \A S : Places(Tail(q), S) = {} => \A j \in Places(q, S) : j = 1
<1>1. /\ Places(q, News(t)) = {} /\ q[1] = Head(q)
      /\ \A S : Head(q) \in S => 1 \in Places(q, S)
      /\ \A S : \A j \in Places(q, S) : j # 1 => j - 1 \in Places(Tail(q), S)
  BY PlacesServed
<1> QED BY <1>1 DEF Fresh

\* Ann begins or stops talking, or is shown so already.
LEMMA ShowsTalk ==
  ASSUME NEW t, NEW q \in Seq(Calls), q # <<>>, Head(q) \in Talk(t),
         NEW c, NEW d, Kept(d), d.channel = c.channel, \A x : Has(d, x) <=> Has(c, x),
         Has(d, Ann) => (Speaks(d) <=> Head(q).on),
         NEW s, NEW p, NEW k, Traced(t, q, s, p, k), Shows(t, q, c, s, p, k)
  PROVE  Shows(t, Tail(q), d, s, p, k)
<1>1. Head(q) \notin News(t) /\ Head(q) \notin OwnMoves(t) /\ Head(q) \notin AnnMoves(t)
      /\ \A x : Head(q) \notin Crossing(t, x)
  BY DEF Talk, News, OwnMoves, AnnMoves, Crossing
<1>2. Speaks(d) => Has(d, Ann) /\ Head(q).on
  BY KeptRows
<1>3. \A S : Head(q) \notin S /\ Places(Tail(q), S) = {} => Places(q, S) = {}
  BY PlacesServed
<1>4. BreaksOff(t, Tail(q), d)
  <2> DEFINE rest == Tail(q)
  <2>a. /\ \A i \in Places(rest, News(t)) : /\ i \in Nat /\ 1 <= i /\ i + 1 \in Places(q, News(t))
                                            /\ rest[i] = q[i + 1]
        /\ \A j \in Places(q, News(t)) : /\ j \in Nat /\ (j = 1 => Head(q) \in News(t))
                                         /\ (j # 1 => j - 1 \in Places(rest, News(t)))
    BY PlacesServed
  <2> SUFFICES ASSUME NEW i \in Places(rest, News(t)), \A j \in Places(rest, News(t)) : i <= j
               PROVE  rest[i].status # "connected"
    BY DEF BreaksOff
  <2>1. /\ i \in Nat /\ 1 <= i /\ i + 1 \in Places(q, News(t)) /\ rest[i] = q[i + 1]
        /\ \A j \in Places(q, News(t)) : /\ j \in Nat /\ (j = 1 => Head(q) \in News(t))
                                         /\ (j # 1 => j - 1 \in Places(rest, News(t)))
    BY <2>a
  <2>2. 1 \in Places(q, Talk(t))
    BY PlacesServed
  <2> HIDE DEF rest
  <2>3. \A l \in Places(q, News(t)) : ~(l < i + 1)
    <3> SUFFICES ASSUME NEW l \in Places(q, News(t)), l < i + 1 PROVE FALSE
      OBVIOUS
    <3>1. l \in Nat /\ l # 1 /\ l - 1 \in Places(rest, News(t))
      BY <1>1, <2>1
    <3>2. i <= l - 1
      BY <3>1
    <3> QED BY <2>1, <3>1, <3>2
  <2>4. 1 < i + 1
    BY <2>1
  <2> QED BY <2>1, <2>2, <2>3, <2>4 DEF Traced, TalkBreaksOff
<1>5. ASSUME Places(Tail(q), News(t)) = {}, s = "established"
      PROVE  InChannel(t, Tail(q), d, p, k)
  <2>1. Places(q, News(t)) = {} /\ InChannel(t, q, c, p, k)
    BY <1>1, <1>3, <1>5 DEF Shows
  <2>2. Places(Tail(q), OwnMoves(t)) = {} => d.channel = p[Me]
    BY <1>1, <1>3, <2>1 DEF InChannel
  <2>3. d.channel # NoChannel => Has(d, Me)
    BY <2>1 DEF InChannel
  <2>4. ASSUME d.channel # NoChannel, Places(Tail(q), Crossing(t, d.channel)) = {}
        PROVE  /\ Has(d, Ann) <=> p[Ann] = d.channel
               /\ Speaks(d) /\ Places(Tail(q), Talk(t)) = {} => k
    <3>1. Places(q, Crossing(t, d.channel)) = {}
      BY <1>1, <1>3, <2>4
    <3>2. Has(d, Ann) <=> p[Ann] = d.channel
      BY <2>1, <2>4, <3>1 DEF InChannel
    <3>3. ASSUME Speaks(d), Places(Tail(q), Talk(t)) = {} PROVE k
      <4>1. /\ Fresh(t, q, 1) /\ q[1] = Head(q) /\ 1 \in Places(q, Talk(t))
            /\ \A j \in Places(q, Talk(t)) : j = 1
        BY <1>1, <1>5, <3>3, FirstCall
      <4>2. k \/ \E j \in Places(q, Leaving(t)) : 1 < j
        <5>1. \A j \in Places(q, Talk(t)) : j <= 1
          BY <4>1
        <5> QED BY <1>2, <3>3, <4>1, <5>1 DEF Traced, TalkLast
      <4>3. ASSUME NEW j \in Places(q, Leaving(t)) PROVE FALSE
        <5>1. j \in Places(q, AnnMoves(t)) /\ q[j].to = NoChannel
          BY DEF Places, Leaving
        <5>2. d.channel \in Here
          BY DEF Kept, Contents, Here
        <5>3. Fresh(t, q, j)
          BY <2>1 DEF Fresh
        <5>4. q[j].to = d.channel <=> p[Ann] = d.channel
          BY <3>1, <5>1, <5>2, <5>3 DEF Traced, AnnLast
        <5> QED BY <1>2, <2>4, <3>2, <3>3, <5>1, <5>4
      <4> QED BY <4>2, <4>3
    <3> QED BY <3>2, <3>3
  <2> QED BY <2>2, <2>3, <2>4 DEF InChannel
<1>6. Places(Tail(q), News(t)) = {} /\ s # "established" => d.channel = NoChannel
  BY <1>1, <1>3 DEF Shows
<1> QED BY <1>4, <1>5, <1>6 DEF Shows

\* Ann comes into the channel shown, or goes out of it.
LEMMA ShowsCrossing ==
  ASSUME NEW t, NEW q \in Seq(Calls), q # <<>>, NEW c, NEW d,
         c.channel \in Channels, Head(q) \in Crossing(t, c.channel),
         d.channel = c.channel, ~Speaks(d), Has(d, Me) <=> Has(c, Me),
         Has(d, Ann) <=> Head(q).to = c.channel,
         NEW s, NEW p, NEW k, Traced(t, q, s, p, k), Shows(t, q, c, s, p, k)
  PROVE  Shows(t, Tail(q), d, s, p, k)
<1>1. /\ Head(q) \in AnnMoves(t) /\ Head(q) \notin News(t) /\ Head(q) \notin OwnMoves(t)
      /\ Head(q) \in About(t) /\ Head(q).is = "moved"
  BY People DEF Crossing, AnnMoves, News, OwnMoves
<1>2. BreaksOff(t, Tail(q), d)
  BY DEF BreaksOff
<1>3. ASSUME Places(Tail(q), News(t)) = {}
      PROVE  s = "established" /\ InChannel(t, Tail(q), d, p, k)
  <2>1. /\ Places(q, News(t)) = {} /\ Fresh(t, q, 1) /\ q[1] = Head(q)
        /\ 1 \in Places(q, AnnMoves(t)) /\ 1 \in Places(q, About(t))
    BY <1>1, <1>3, FirstCall
  <2>2. s = "established"
    BY <1>1, <2>1 DEF Traced, OnlyOnceThere
  <2>3. InChannel(t, q, c, p, k)
    BY <2>1, <2>2 DEF Shows
  <2>4. Places(Tail(q), OwnMoves(t)) = {} => Places(q, OwnMoves(t)) = {}
    BY <1>1, PlacesServed
  <2>5. ASSUME Places(Tail(q), Crossing(t, d.channel)) = {}
        PROVE  Has(d, Ann) <=> p[Ann] = d.channel
    <3>1. \A j \in Places(q, Crossing(t, d.channel)) : j = 1
      BY <1>1, <1>3, <2>5, FirstCall
    <3>2. \A j \in Places(q, Crossing(t, d.channel)) : j <= 1
      BY <3>1
    <3>3. d.channel \in Here
      BY DEF Here
    <3>4. q[1].to = d.channel <=> p[Ann] = d.channel
      BY <2>1, <3>2, <3>3 DEF Traced, AnnLast
    <3> QED BY <2>1, <3>4
  <2> QED BY <2>2, <2>3, <2>4, <2>5 DEF InChannel
<1> QED BY <1>2, <1>3 DEF Shows

\* The connection is read again, ahead of what is still to come.
LEMMA ShowsReread ==
  ASSUME NEW t, NEW q \in Seq(Calls), q # <<>>, NEW c, NEW d, Kept(c), Kept(d),
         Head(q) \notin News(t), Head(q) \notin Talk(t),
         Head(q) \notin Crossing(t, c.channel),
         NEW s, NEW p \in [ClientIds -> Here], NEW k,
         Reread(d, s, p), Speaks(d) => Speaks(c),
         Traced(t, q, s, p, k), Shows(t, q, c, s, p, k)
  PROVE  Shows(t, Tail(q), d, s, p, k)
<1>1. BreaksOff(t, Tail(q), d)
  BY BreaksOffServed DEF Shows
<1>2. s # "established" => d.channel = NoChannel
  BY DEF Reread
<1>3. ASSUME Places(Tail(q), News(t)) = {}, s = "established"
      PROVE  InChannel(t, Tail(q), d, p, k)
  <2>1. /\ Places(q, News(t)) = {} /\ InChannel(t, q, c, p, k)
        /\ \A S : Head(q) \notin S /\ Places(Tail(q), S) = {} => Places(q, S) = {}
    BY <1>3, PlacesServed DEF Shows
  <2>2. d.channel = p[Me] /\ (d.channel # NoChannel => Has(d, Me))
    BY <1>3, People DEF Reread
  <2>3. d.channel # NoChannel => (Has(d, Ann) <=> p[Ann] = d.channel)
    BY People DEF Reread
  <2>4. ASSUME Speaks(d), Places(Tail(q), Crossing(t, d.channel)) = {},
               Places(Tail(q), Talk(t)) = {}
        PROVE  k
    <3>1. Speaks(c) /\ c.channel # NoChannel /\ d.channel # NoChannel /\ p[Ann] = d.channel
      BY <2>3, <2>4, KeptRows
    <3>2. Places(q, Talk(t)) = {}
      BY <2>1, <2>4
    <3>3. Places(q, Crossing(t, c.channel)) = {}
      <4> SUFFICES ASSUME NEW i \in Places(q, Crossing(t, c.channel)) PROVE FALSE
        OBVIOUS
      <4>1. CASE d.channel = c.channel
        BY <2>1, <2>4, <4>1
      <4>2. CASE d.channel # c.channel
        <5> DEFINE g == d.channel
        <5>1. g \in Here
          BY DEF Kept, Contents, Here
        <5>2. /\ i \in Places(q, AnnMoves(t))
              /\ q[i].from # q[i].to /\ c.channel \in {q[i].from, q[i].to}
          BY DEF Places, Crossing
        <5>3. Fresh(t, q, i)
          BY <2>1 DEF Fresh
        <5>4. i # 1 /\ i \in Nat /\ 1 <= i
          <6>1. i \in Nat /\ 1 <= i /\ (i = 1 => Head(q) \in Crossing(t, c.channel))
            BY PlacesServed
          <6> QED BY <6>1
        <5>5. \A j \in Places(q, Crossing(t, g)) : j = 1
          <6> SUFFICES ASSUME NEW j \in Places(q, Crossing(t, g)), j # 1 PROVE FALSE
            OBVIOUS
          <6>1. j - 1 \in Places(Tail(q), Crossing(t, g))
            BY PlacesServed
          <6> QED BY <2>4, <6>1
        <5>6. \A j \in Places(q, Crossing(t, g)) : j <= i
          BY <5>4, <5>5
        <5>7. q[i].to = g
          <6>1. q[i].to = g <=> p[Ann] = g
            BY <5>1, <5>2, <5>3, <5>6 DEF Traced, AnnLast
          <6> QED BY <3>1, <6>1
        <5>8. i \in Places(q, Crossing(t, g))
          BY <5>2, <5>7 DEF Places, Crossing
        <5> QED BY <5>4, <5>5, <5>8
      <4> QED BY <4>1, <4>2
    <3> QED BY <2>1, <3>1, <3>2, <3>3 DEF InChannel
  <2> QED BY <2>2, <2>3, <2>4 DEF InChannel
<1> QED BY <1>1, <1>2, <1>3 DEF Shows

\* Calls about other tabs are added.
LEMMA ShowsElsewhere ==
  ASSUME NEW t, NEW q \in Seq(Calls), NEW more \in Seq(Calls),
         \A j \in 1..Len(more) : more[j].tab # t,
         NEW c, NEW s, NEW p, NEW k, Shows(t, q, c, s, p, k)
  PROVE  Shows(t, q \o more, c, s, p, k)
<1> DEFINE all == q \o more
<1>1. \A S \in SUBSET About(t) : Places(all, S) = Places(q, S)
                                 /\ \A i \in Places(q, S) : all[i] = q[i]
  BY PlacesElsewhere
<1>2. /\ News(t) \in SUBSET About(t) /\ OwnMoves(t) \in SUBSET About(t)
      /\ Talk(t) \in SUBSET About(t) /\ \A x : Crossing(t, x) \in SUBSET About(t)
  BY DEF News, OwnMoves, AnnMoves, Talk, Crossing
<1> HIDE DEF all
<1>3. BreaksOff(t, all, c)
  BY <1>1, <1>2 DEF Shows, BreaksOff
<1>4. InChannel(t, q, c, p, k) => InChannel(t, all, c, p, k)
  BY <1>1, <1>2 DEF InChannel
<1> QED BY <1>1, <1>2, <1>3, <1>4 DEF Shows, all

\* Something happens on the tab, or the user changes to it, and is told.
LEMMA ShowsCall ==
  ASSUME NEW t, NEW q \in Seq(Calls), NEW m \in About(t), m.is \notin {"status", "stopped"},
         NEW c, Kept(c), NEW s, NEW p, NEW k, NEW p1, NEW k1, Shows(t, q, c, s, p, k),
         m \notin OwnMoves(t) => p1[Me] = p[Me],
         m \in AnnMoves(t) => m.from = p[Ann] /\ m.to = p1[Ann] /\ m.from # m.to,
         m \notin AnnMoves(t) => p1[Ann] = p[Ann],
         m \notin Talk(t) => (k /\ p1[Ann] # NoChannel => k1)
  PROVE  Shows(t, Append(q, m), c, s, p1, k1)
<1> DEFINE all == q \o <<m>>
           n == Len(q)
<1>1. m \in Calls /\ m.tab = t /\ m \notin News(t)
  BY DEF About, News
<1>2. Append(q, m) = all
  BY <1>1, AppendIsConcat
<1>3. ASSUME NEW S
      PROVE  /\ n \in Nat
             /\ \A i \in Places(q, S) : /\ i \in Nat /\ i <= n /\ i \in Places(all, S)
                                        /\ all[i] = q[i]
             /\ \A i \in Places(all, S) :
                  /\ i \in Nat /\ i <= n + 1
                  /\ i <= n => i \in Places(q, S) /\ all[i] = q[i]
                  /\ ~(i <= n) => i = n + 1 /\ m \in S /\ all[i] = m
             /\ m \in S => n + 1 \in Places(all, S) /\ all[n + 1] = m
  BY <1>1, PlacesAppended
<1> HIDE DEF all, n
<1>4. Places(all, News(t)) = Places(q, News(t))
  BY <1>1, <1>3
<1>5. BreaksOff(t, all, c)
  BY <1>3, <1>4 DEF Shows, BreaksOff
<1>6. ASSUME InChannel(t, q, c, p, k) PROVE InChannel(t, all, c, p1, k1)
  <2>1. \A S : Places(all, S) = {} => Places(q, S) = {} /\ m \notin S
    BY <1>3
  <2>2. Places(all, OwnMoves(t)) = {} => c.channel = p1[Me]
    BY <1>6, <2>1 DEF InChannel
  <2>3. ASSUME c.channel # NoChannel, Places(all, Crossing(t, c.channel)) = {}
        PROVE  /\ Has(c, Ann) <=> p1[Ann] = c.channel
               /\ Speaks(c) /\ Places(all, Talk(t)) = {} => k1
    <3>1. /\ m \notin Crossing(t, c.channel)
          /\ Has(c, Ann) <=> p[Ann] = c.channel
          /\ Speaks(c) /\ Places(q, Talk(t)) = {} => k
      BY <1>6, <2>1, <2>3 DEF InChannel
    <3>2. p1[Ann] = c.channel <=> p[Ann] = c.channel
      BY <3>1 DEF Crossing
    <3>3. Speaks(c) => Has(c, Ann)
      BY KeptRows
    <3> QED BY <2>1, <2>3, <3>1, <3>2, <3>3
  <2> QED BY <1>6, <2>2, <2>3 DEF InChannel
<1> QED BY <1>2, <1>4, <1>5, <1>6 DEF Shows

\* The tab's status changes and is told.
LEMMA ShowsStatus ==
  ASSUME NEW t, NEW q \in Seq(Calls), NEW more \in Seq(Calls), Len(more) # 0,
         NEW c, Kept(c), NEW s, NEW p, NEW k, Shows(t, q, c, s, p, k),
         NEW s1, NEW p1, NEW k1,
         more[Len(more)] \in News(t), more[Len(more)].status = Mapped(s1),
         \A j \in 1..Len(more) : j # Len(more) => more[j] \notin News(t) /\ more[j] \notin Talk(t),
         Mapped(s1) = "connected" => s # "established"
  PROVE  Shows(t, q \o more, c, s1, p1, k1) /\ Places(q \o more, News(t)) # {}
<1> DEFINE all == q \o more
           n == Len(q)
           m == Len(more)
<1>1. ASSUME NEW S
      PROVE  /\ n \in Nat /\ m \in Nat
             /\ \A i \in Places(q, S) : i \in 1..n /\ i \in Places(all, S) /\ all[i] = q[i]
             /\ \A i \in Places(all, S) :
                  /\ i \in 1..n + m
                  /\ i <= n => i \in Places(q, S) /\ all[i] = q[i]
                  /\ ~(i <= n) => i - n \in 1..m /\ more[i - n] \in S /\ all[i] = more[i - n]
             /\ \A j \in 1..m : more[j] \in S => n + j \in Places(all, S) /\ all[n + j] = more[j]
  BY PlacesTold
<1> HIDE DEF all, n
<1>2. n + m \in Places(all, News(t))
  BY <1>1
<1>3. BreaksOff(t, all, c)
  <2> SUFFICES ASSUME Speaks(c), NEW i \in Places(all, News(t)),
                      \A j \in Places(all, News(t)) : i <= j
               PROVE  all[i].status # "connected"
    BY DEF BreaksOff
  <2>1. CASE i <= n
    <3>1. i \in Places(q, News(t)) /\ all[i] = q[i]
      BY <1>1, <2>1
    <3>2. \A j \in Places(q, News(t)) : i <= j
      BY <1>1
    <3> QED BY <3>1, <3>2 DEF Shows, BreaksOff
  <2>2. CASE ~(i <= n)
    <3>1. i - n \in 1..m /\ more[i - n] \in News(t) /\ all[i] = more[i - n]
      BY <1>1, <2>2
    <3>2. i - n = m
      BY <3>1
    <3>3. Places(q, News(t)) = {}
      <4> SUFFICES ASSUME NEW j \in Places(q, News(t)) PROVE FALSE
        OBVIOUS
      <4>1. j \in 1..n /\ j \in Places(all, News(t))
        BY <1>1
      <4>2. n \in Nat /\ i \in 1..n + m /\ m \in Nat
        BY <1>1
      <4>3. i <= j
        BY <4>1
      <4> QED BY <2>2, <4>1, <4>2, <4>3
    <3>4. c.channel # NoChannel
      BY KeptRows
    <3>5. s = "established"
      BY <3>3, <3>4 DEF Shows
    <3> QED BY <3>1, <3>2, <3>5
  <2> QED BY <2>1, <2>2
<1> QED BY <1>2, <1>3 DEF Shows, all

-----------------------------------------------------------------------------
(* The invariant. *)

\* The callback that runs, if one does, will leave c in the cache.
Awaited(c) == \/ script \in EndsIn(c)
              \/ script \in Seq(SendSteps) /\ c = cache

\* That shows the tab that is followed; and if none is followed, nothing.  In
\* that case news of the user's tab is still to come if it is connected.
FollowedBy(c) ==
  /\ Kept(c)
  /\ ~takenOver /\ active = NoServer =>
       /\ c.channel = NoChannel
       /\ Places(coming, Switching) = {} /\ Mapped(status[foreground]) = "connected" =>
            Places(coming, News(foreground)) # {}
  /\ ~takenOver /\ active # NoServer =>
       Shows(active, coming, c, status[active], place[active], talks[active])

\* Every tab is what the calls still to come tell of it, the last change of
\* tabs that is to be told leads to the tab the user is on, which but for that
\* is the one followed, if one is, and so it is shown.
FollowInv ==
  /\ \A t \in Servers : Traced(t, coming, status[t], place[t], talks[t])
  /\ \A i \in Places(coming, Switching) :
       (\A j \in Places(coming, Switching) : j <= i) => coming[i].tab = foreground
  /\ ~takenOver /\ Places(coming, Switching) = {} => active \in {NoServer, foreground}
  /\ \E c : Awaited(c) /\ FollowedBy(c)

\* Something happens on tab t, or the user changes to it: the plugin is called.
CalledOnce(t, m) ==
  /\ m \in About(t) /\ m.is \notin {"status", "stopped"}
  /\ coming' = Append(coming, m) /\ status' = status
  /\ status[t] = "established" \/ m.is = "current"
  /\ m \in OwnMoves(t) => place[t][Me] # NoChannel /\ place'[t][Me] = m.to
  /\ m \notin OwnMoves(t) => place'[t][Me] = place[t][Me]
  /\ m \in AnnMoves(t) => /\ m.from = place[t][Ann] /\ m.to = place'[t][Ann] /\ m.from # m.to
                          /\ talks'[t] => place'[t][Ann] # NoChannel
  /\ m \notin AnnMoves(t) => place'[t][Ann] = place[t][Ann]
  /\ m \in Talk(t) => talks'[t] = m.on /\ place[t][Ann] # NoChannel
  /\ m \notin Talk(t) => /\ talks'[t] => talks[t]
                         /\ talks[t] /\ place'[t][Ann] # NoChannel => talks'[t]
  /\ m.is = "current" => foreground' = t
  /\ m.is # "current" => foreground' = foreground

\* The status of its connection changes, and the plugin is told.
ToldStatus(t, more) ==
  /\ more \in Seq(Calls) /\ Len(more) # 0 /\ coming' = coming \o more
  /\ more[Len(more)] \in News(t) /\ more[Len(more)].status = Mapped(status'[t])
  /\ \A j \in 1..Len(more) : more[j].tab = t /\ (j # Len(more) => more[j].is = "stopped")
  /\ Mapped(status'[t]) = "connected" => status[t] # "established"
  /\ talks'[t] => talks[t] /\ status[t] # "established"
  /\ foreground' = foreground

\* Whatever happens is one or the other, and happens on that tab only.
LEMMA Happening ==
  ASSUME TabsTyped, NEW t \in Servers,
         \/ Connects(t) \/ Establishes(t) \/ Disconnects(t) \/ ServerStops(t)
         \/ Moves(t) \/ Talks(t) \/ Subscribes(t) \/ SwitchesTo(t)
  PROVE  /\ UNCHANGED <<pluginVars, announced, takenOver>>
         /\ \A u \in Servers : u # t => /\ status'[u] = status[u] /\ place'[u] = place[u]
                                        /\ talks'[u] = talks[u]
         /\ (\E m : CalledOnce(t, m)) \/ (\E more : ToldStatus(t, more))
<1> DEFINE Stays == UNCHANGED <<pluginVars, announced, takenOver>>
           Apart == \A u \in Servers : u # t => /\ status'[u] = status[u] /\ place'[u] = place[u]
                                                /\ talks'[u] = talks[u]
           Once == \E m : CalledOnce(t, m)
           News1 == \E more : ToldStatus(t, more)
<1>0. /\ status \in [Servers -> TabStates] /\ place \in [Servers -> [ClientIds -> Here]]
      /\ talks \in [Servers -> BOOLEAN] /\ foreground \in Servers /\ coming \in Seq(Calls)
      /\ place[t] \in [ClientIds -> Here] /\ place[t][Me] \in Here /\ place[t][Ann] \in Here
  <2>1. place \in [Servers -> [ClientIds -> Here]] /\ Me \in ClientIds /\ Ann \in ClientIds
    BY People DEF TabsTyped
  <2>2. place[t] \in [ClientIds -> Here]
    BY <2>1
  <2>3. place[t][Me] \in Here /\ place[t][Ann] \in Here
    BY <2>1, <2>2
  <2> QED BY <2>1, <2>2, <2>3 DEF TabsTyped
<1>a. \A calls : Tells(calls) => Stays /\ coming' = coming \o calls
  BY DEF Tells
<1>b. \A s \in TabStates : /\ Status(t, s) \in News(t) /\ Status(t, s) \in Calls
                           /\ Status(t, s).status = Mapped(s) /\ Status(t, s).tab = t
  BY StatusMapped DEF Status, Calls, News, About
<1>c. \A m \in Calls : coming \o <<m>> = Append(coming, m)
  BY <1>0, AppendIsConcat
<1>1. ASSUME NEW s \in TabStates, status' = [status EXCEPT ![t] = s], Tells(<<Status(t, s)>>),
             Mapped(s) = "connected" => status[t] # "established",
             talks'[t] => talks[t] /\ status[t] # "established", foreground' = foreground
      PROVE  Stays /\ News1
  <2> DEFINE c == Status(t, s)
  <2>1. c \in News(t) /\ c \in Calls /\ c.status = Mapped(s) /\ c.tab = t
    BY <1>b
  <2>2. Tells(<<c>>)
    BY <1>1
  <2> HIDE DEF c
  <2>3. <<c>> \in Seq(Calls) /\ Len(<<c>>) = 1 /\ <<c>>[1] = c /\ 1..1 = {1}
    BY <2>1
  <2>4. Stays /\ coming' = coming \o <<c>>
    BY <1>a, <2>2
  <2>5. status'[t] = s
    BY <1>0, <1>1
  <2>6. ToldStatus(t, <<c>>)
    BY <1>1, <2>1, <2>3, <2>4, <2>5 DEF ToldStatus
  <2> QED BY <2>4, <2>6
<1>2. Mapped("disconnected") # "connected" /\ Mapped("connecting") # "connected"
      /\ Halfway \subseteq TabStates /\ "established" \notin Halfway
      /\ {"disconnected", "connecting", "established"} \subseteq TabStates
  BY DEF Mapped, Halfway, TabStates
<1>3. ASSUME Connects(t) PROVE Stays /\ Apart /\ News1
  <2>1. PICK s \in {"connecting"} \cup Halfway :
          /\ status' = [status EXCEPT ![t] = s] /\ status[t] # "established"
    BY <1>2, <1>3 DEF Connects
  <2>2. status'[t] = s /\ s \in TabStates
    BY <1>0, <1>2, <2>1
  <2>3. Tells(<<Status(t, s)>>) /\ UNCHANGED <<place, talks, foreground>>
    BY <1>3, <2>2 DEF Connects
  <2>4. Apart
    BY <1>0, <2>1, <2>3
  <2> QED BY <1>1, <2>1, <2>2, <2>3, <2>4
<1>4. ASSUME Establishes(t) PROVE Stays /\ Apart /\ News1
  <2>1. /\ status' = [status EXCEPT ![t] = "established"] /\ status[t] # "established"
        /\ Tells(<<Status(t, "established")>>) /\ UNCHANGED <<talks, foreground>>
        /\ \E mine \in Channels, anns \in Here :
             place' = [place EXCEPT ![t] = [c \in ClientIds |-> IF c = Me THEN mine ELSE anns]]
    BY <1>2, <1>4 DEF Establishes
  <2>2. Apart
    BY <1>0, <2>1
  <2> QED BY <1>1, <1>2, <2>1, <2>2
<1>5. ASSUME Disconnects(t) PROVE Stays /\ Apart /\ News1
  <2>1. /\ status' = [status EXCEPT ![t] = "disconnected"]
        /\ place' = [place EXCEPT ![t] = Nowhere]
        /\ talks' = [talks EXCEPT ![t] = FALSE] /\ foreground' = foreground
        /\ Tells(<<Status(t, "disconnected")>>)
    BY <1>5 DEF Disconnects
  <2>2. Apart /\ ~talks'[t]
    BY <1>0, <2>1
  <2> QED BY <1>1, <1>2, <2>1, <2>2
<1>6. ASSUME ServerStops(t) PROVE Stays /\ Apart /\ News1
  <2>1. /\ status' = [status EXCEPT ![t] = "disconnected"]
        /\ place' = [place EXCEPT ![t] = Nowhere]
        /\ talks' = [talks EXCEPT ![t] = FALSE] /\ foreground' = foreground
        /\ Tells(<<Stopped(t), Status(t, "disconnected")>>)
    BY <1>6 DEF ServerStops
  <2>2. Apart /\ ~talks'[t] /\ status'[t] = "disconnected"
    BY <1>0, <2>1
  <2> DEFINE c == Stopped(t)
             d == Status(t, "disconnected")
  <2>3. /\ c \in Calls /\ c.tab = t /\ c.is = "stopped"
        /\ d \in News(t) /\ d \in Calls /\ d.status = Mapped("disconnected") /\ d.tab = t
    BY <1>b, <1>2 DEF Stopped, Calls
  <2>4. Tells(<<c, d>>)
    BY <2>1
  <2> HIDE DEF c, d
  <2>5. /\ <<c, d>> \in Seq(Calls) /\ Len(<<c, d>>) = 2 /\ <<c, d>>[1] = c /\ <<c, d>>[2] = d
        /\ \A j \in 1..2 : j = 1 \/ j = 2
    BY <2>3
  <2>6. Stays /\ coming' = coming \o <<c, d>>
    BY <1>a, <2>4
  <2>7. ToldStatus(t, <<c, d>>)
    BY <1>2, <2>1, <2>2, <2>3, <2>5, <2>6 DEF ToldStatus
  <2> QED BY <2>2, <2>6, <2>7
<1>7. ASSUME Moves(t) PROVE Stays /\ Apart /\ Once
  <2>1. PICK w \in ClientIds, to \in Here :
          /\ to # place[t][w] /\ (w = Ann \/ place[t][Me] # NoChannel)
          /\ place' = [place EXCEPT ![t][w] = to]
          /\ talks' = [talks EXCEPT ![t] = @ /\ place'[t][Ann] # NoChannel]
          /\ Tells(<<Moved(t, w, place[t][w], to)>>)
    BY <1>7 DEF Moves
  <2>2. status[t] = "established" /\ status' = status /\ foreground' = foreground
    BY <1>7 DEF Moves, OwnKnown
  <2> DEFINE m == Moved(t, w, place[t][w], to)
  <2>3. /\ m \in Calls /\ m.tab = t /\ m.is = "moved" /\ m.who = w
        /\ m.from = place[t][w] /\ m.to = to
    BY <1>0, <2>1 DEF Moved, Calls
  <2>4. Tells(<<m>>)
    BY <2>1
  <2> HIDE DEF m
  <2>5. /\ m \in About(t) /\ (m \in OwnMoves(t) <=> w = Me) /\ (m \in AnnMoves(t) <=> w = Ann)
        /\ m \notin Talk(t)
    BY <2>3 DEF About, OwnMoves, AnnMoves, Talk
  <2>6. Stays /\ coming' = Append(coming, m)
    BY <1>a, <1>c, <2>3, <2>4
  <2>7. /\ place'[t][w] = to /\ \A x \in ClientIds : x # w => place'[t][x] = place[t][x]
        /\ \A u \in Servers : u # t => place'[u] = place[u]
    BY <1>0, <2>1
  <2>8. /\ talks'[t] => talks[t] /\ place'[t][Ann] # NoChannel
        /\ talks[t] /\ place'[t][Ann] # NoChannel => talks'[t]
        /\ \A u \in Servers : u # t => talks'[u] = talks[u]
    <3>1. talks'[t] = (talks[t] /\ place'[t][Ann] # NoChannel)
      BY <1>0, <2>1
    <3>2. \A u \in Servers : u # t => talks'[u] = talks[u]
      BY <1>0, <2>1
    <3> QED BY <1>0, <3>1, <3>2
  <2>9. w = Me \/ w = Ann
    BY People
  <2>10. CalledOnce(t, m)
    BY <2>1, <2>2, <2>3, <2>5, <2>6, <2>7, <2>8, <2>9, People DEF CalledOnce
  <2> QED BY <2>2, <2>6, <2>7, <2>8, <2>10
<1>8. ASSUME Talks(t) PROVE Stays /\ Apart /\ Once
  <2>1. /\ status[t] = "established" /\ place[t][Ann] # NoChannel
        /\ talks' = [talks EXCEPT ![t] = ~@]
        /\ Tells(<<Talking(t, talks'[t])>>) /\ UNCHANGED <<status, place, foreground>>
    BY <1>8 DEF Talks, OwnKnown
  <2> DEFINE m == Talking(t, talks'[t])
  <2>2. talks'[t] \in BOOLEAN
    BY <1>0, <2>1
  <2>3. m \in Calls /\ m.tab = t /\ m.is = "talking" /\ m.on = talks'[t]
    BY <2>2 DEF Talking, Calls
  <2>4. Tells(<<m>>)
    BY <2>1
  <2> HIDE DEF m
  <2>5. /\ m \in About(t) /\ m \notin OwnMoves(t) /\ m \notin AnnMoves(t) /\ m \in Talk(t)
    BY <2>3 DEF About, OwnMoves, AnnMoves, Talk
  <2>6. Stays /\ coming' = Append(coming, m)
    BY <1>a, <1>c, <2>3, <2>4
  <2>7. CalledOnce(t, m)
    BY <2>1, <2>3, <2>5, <2>6 DEF CalledOnce
  <2>8. Apart
    BY <1>0, <2>1
  <2> QED BY <2>6, <2>7, <2>8
<1>9. ASSUME NEW m \in Calls, m.tab = t, m.is \in {"subscribed", "current"},
             status[t] = "established" \/ m.is = "current", Tells(<<m>>),
             UNCHANGED <<status, place, talks>>,
             m.is = "current" => foreground' = t, m.is # "current" => foreground' = foreground
      PROVE  Stays /\ Apart /\ Once
  <2>1. /\ m \in About(t) /\ m \notin OwnMoves(t) /\ m \notin AnnMoves(t) /\ m \notin Talk(t)
    BY <1>9 DEF About, OwnMoves, AnnMoves, Talk
  <2>2. Stays /\ coming' = Append(coming, m)
    BY <1>9, <1>a, <1>c
  <2>3. CalledOnce(t, m)
    BY <1>9, <2>1, <2>2 DEF CalledOnce
  <2> QED BY <1>9, <2>2, <2>3
<1>10. ASSUME Subscribes(t) PROVE Stays /\ Apart /\ Once
  <2> DEFINE m == Subscribed(t)
  <2>1. m \in Calls /\ m.tab = t /\ m.is = "subscribed"
    BY DEF Subscribed, Calls
  <2>2. status[t] = "established" /\ Tells(<<m>>) /\ UNCHANGED <<status, place, talks, foreground>>
    BY <1>10 DEF Subscribes, OwnKnown
  <2> HIDE DEF m
  <2> QED BY <1>9, <2>1, <2>2
<1>11. ASSUME SwitchesTo(t) PROVE Stays /\ Apart /\ Once
  <2> DEFINE m == Current(t)
  <2>1. m \in Calls /\ m.tab = t /\ m.is = "current"
    BY DEF Current, Calls
  <2>2. foreground' = t /\ Tells(<<m>>) /\ UNCHANGED <<status, place, talks>>
    BY <1>11 DEF SwitchesTo
  <2> HIDE DEF m
  <2> QED BY <1>9, <2>1, <2>2
<1> HIDE DEF Stays, Apart, Once, News1
<1>12. Stays /\ Apart /\ (Once \/ News1)
  BY <1>3, <1>4, <1>5, <1>6, <1>7, <1>8, <1>10, <1>11
<1> QED BY <1>12 DEF Stays, Apart, Once, News1

\* What happens on a tab keeps the invariant: the plugin is told all of it.
LEMMA HappeningFollowed ==
  ASSUME TabsTyped, FollowInv, NEW t \in Servers,
         \/ Connects(t) \/ Establishes(t) \/ Disconnects(t) \/ ServerStops(t)
         \/ Moves(t) \/ Talks(t) \/ Subscribes(t) \/ SwitchesTo(t)
  PROVE  FollowInv'
<1>0. /\ status \in [Servers -> TabStates] /\ coming \in Seq(Calls)
      /\ active \in Servers \cup {NoServer} /\ foreground \in Servers
      /\ \A u \in Servers : Traced(u, coming, status[u], place[u], talks[u])
      /\ Traced(t, coming, status[t], place[t], talks[t])
      /\ talks[t] => status[t] = "established" /\ place[t][Ann] # NoChannel
  BY DEF TabsTyped, FollowInv, Traced
<1>1. /\ UNCHANGED <<cache, script, active, takenOver>>
      /\ \A u \in Servers : u # t => /\ status'[u] = status[u] /\ place'[u] = place[u]
                                     /\ talks'[u] = talks[u]
      /\ (\E m : CalledOnce(t, m)) \/ (\E more : ToldStatus(t, more))
  BY Happening DEF pluginVars
<1>2. PICK c : Awaited(c) /\ FollowedBy(c)
  BY DEF FollowInv
<1>3. Awaited(c)' /\ Kept(c)
  BY <1>1, <1>2 DEF Awaited, FollowedBy
<1>4. ASSUME \A u \in Servers : Traced(u, coming', status'[u], place'[u], talks'[u]),
             \A i \in Places(coming', Switching) :
               (\A j \in Places(coming', Switching) : j <= i) => coming'[i].tab = foreground',
             Places(coming', Switching) = {} =>
               /\ Places(coming, Switching) = {} /\ foreground' = foreground
               /\ \/ Places(coming', News(foreground)) # {}
                  \/ /\ status'[foreground] = status[foreground]
                     /\ Places(coming, News(foreground)) = {},
             active \in Servers /\ Shows(active, coming, c, status[active], place[active], talks[active])
               => Shows(active, coming', c, status'[active], place'[active], talks'[active])
      PROVE  FollowInv'
  <2>1. (~takenOver /\ Places(coming, Switching) = {} => active \in {NoServer, foreground})'
    BY <1>1, <1>4 DEF FollowInv
  <2>2. FollowedBy(c)'
    <3>1. ASSUME ~takenOver', active' = NoServer
          PROVE  /\ c.channel = NoChannel
                 /\ Places(coming', Switching) = {} /\ Mapped(status'[foreground']) = "connected" =>
                      Places(coming', News(foreground')) # {}
      BY <1>1, <1>2, <1>4, <3>1 DEF FollowedBy
    <3>2. ASSUME ~takenOver', active' # NoServer
          PROVE  Shows(active', coming', c, status'[active'], place'[active'], talks'[active'])
      BY <1>0, <1>1, <1>2, <1>4, <3>2 DEF FollowedBy
    <3> QED BY <1>3, <3>1, <3>2 DEF FollowedBy
  <2> QED BY <1>3, <1>4, <2>1, <2>2 DEF FollowInv
<1>5. ASSUME NEW m, CalledOnce(t, m) PROVE FollowInv'
  <2>1. /\ m \in About(t) /\ m.is \notin {"status", "stopped"} /\ coming' = Append(coming, m)
        /\ status' = status /\ m \in Calls /\ m.tab = t /\ m \notin News(t)
    BY <1>5 DEF CalledOnce, About, News
  <2>2. <<m>> \in Seq(Calls) /\ Len(<<m>>) = 1 /\ <<m>>[1] = m /\ \A j \in 1..1 : j = 1
    BY <2>1
  <2>3. coming' = coming \o <<m>>
    BY <1>0, <2>1, AppendIsConcat
  <2>4. Traced(t, Append(coming, m), status[t], place'[t], talks'[t])
    <3>1. /\ status[t] = "established" \/ m.is = "current"
          /\ m \in OwnMoves(t) => place[t][Me] # NoChannel /\ place'[t][Me] = m.to
          /\ m \notin OwnMoves(t) => place'[t][Me] = place[t][Me]
          /\ m \in AnnMoves(t) => m.from = place[t][Ann] /\ m.to = place'[t][Ann] /\ m.from # m.to
          /\ m \notin AnnMoves(t) => place'[t][Ann] = place[t][Ann]
          /\ m \in Talk(t) => talks'[t] = m.on
      BY <1>5 DEF CalledOnce
    <3>2. /\ m \in Leaving(t) <=> m \in AnnMoves(t) /\ m.to = NoChannel
          /\ m \in Talk(t) => m.is # "current"
      BY DEF Leaving, Talk
    <3>3. m \notin Talk(t) /\ m \notin Leaving(t) => (talks[t] => talks'[t])
      BY <1>0, <1>5, <3>2 DEF CalledOnce
    <3>4. talks'[t] => status[t] = "established" /\ place'[t][Ann] # NoChannel
      <4>1. CASE m \in Talk(t)
        <5>1. m \notin AnnMoves(t)
          BY <4>1 DEF Talk, AnnMoves
        <5> QED BY <1>5, <3>2, <4>1, <5>1 DEF CalledOnce
      <4>2. CASE m \notin Talk(t)
        BY <1>0, <1>5, <4>2 DEF CalledOnce
      <4> QED BY <4>1, <4>2
    <3>5. place[t][Me] = NoChannel => place'[t][Me] = NoChannel
      BY <3>1
    <3> QED BY <1>0, <2>1, <3>1, <3>3, <3>4, <3>5, TracedCall
  <2>5. ASSUME NEW u \in Servers, u # t
        PROVE  \A j \in 1..Len(<<m>>) : <<m>>[j].tab # u
    BY <2>1, <2>2, <2>5
  <2>6. ASSUME NEW u \in Servers PROVE Traced(u, coming', status'[u], place'[u], talks'[u])
    <3>1. CASE u = t
      BY <2>1, <2>4, <3>1
    <3>2. CASE u # t
      <4>1. Traced(u, coming \o <<m>>, status[u], place[u], talks[u])
        BY <1>0, <2>2, <2>5, <3>2, TracedElsewhere
      <4> QED BY <1>1, <2>3, <3>2, <4>1
    <3> QED BY <3>1, <3>2
  <2>7. /\ Len(coming) \in Nat
        /\ \A S : \A i \in Places(coming, S) : i \in Places(coming', S) /\ coming'[i] = coming[i]
        /\ \A S : \A i \in Places(coming', S) :
             /\ i \in Nat /\ i <= Len(coming) + 1
             /\ i <= Len(coming) => i \in Places(coming, S) /\ coming'[i] = coming[i]
             /\ ~(i <= Len(coming)) => i = Len(coming) + 1 /\ m \in S /\ coming'[i] = m
        /\ \A S : m \in S => Len(coming) + 1 \in Places(coming', S)
    <3>0. coming \in Seq(Calls) /\ m \in Calls
      BY <1>0, <2>1
    <3>1. ASSUME NEW S
          PROVE  /\ Len(coming) \in Nat
                 /\ \A i \in Places(coming, S) :
                      /\ i \in Nat /\ i <= Len(coming) /\ i \in Places(coming \o <<m>>, S)
                      /\ (coming \o <<m>>)[i] = coming[i]
                 /\ \A i \in Places(coming \o <<m>>, S) :
                      /\ i \in Nat /\ i <= Len(coming) + 1
                      /\ i <= Len(coming) => i \in Places(coming, S)
                                             /\ (coming \o <<m>>)[i] = coming[i]
                      /\ ~(i <= Len(coming)) => i = Len(coming) + 1 /\ m \in S
                                                /\ (coming \o <<m>>)[i] = m
                 /\ m \in S => Len(coming) + 1 \in Places(coming \o <<m>>, S)
                               /\ (coming \o <<m>>)[Len(coming) + 1] = m
      BY <3>0, PlacesAppended
    <3> QED BY <2>3, <3>1
  <2>8. m \in Switching <=> m.is = "current"
    BY <2>1 DEF Switching
  <2>9. ASSUME NEW i \in Places(coming', Switching),
               \A j \in Places(coming', Switching) : j <= i
        PROVE  coming'[i].tab = foreground'
    <3>1. CASE m \in Switching
      <4>1. Len(coming) + 1 \in Places(coming', Switching)
        BY <2>7, <3>1
      <4>2. ~(i <= Len(coming))
        BY <2>7, <2>9, <4>1
      <4> QED BY <1>5, <2>1, <2>7, <2>8, <3>1, <4>2 DEF CalledOnce
    <3>2. CASE m \notin Switching
      <4>1. i \in Places(coming, Switching) /\ coming'[i] = coming[i]
        BY <2>7, <3>2
      <4>2. \A j \in Places(coming, Switching) : j <= i
        BY <2>7, <2>9
      <4> QED BY <1>5, <2>8, <3>2, <4>1, <4>2 DEF CalledOnce, FollowInv
    <3> QED BY <3>1, <3>2
  <2>10. Places(coming', Switching) = {} =>
           /\ Places(coming, Switching) = {} /\ foreground' = foreground
           /\ \/ Places(coming', News(foreground)) # {}
              \/ /\ status'[foreground] = status[foreground]
                 /\ Places(coming, News(foreground)) = {}
    BY <1>5, <2>1, <2>7, <2>8 DEF CalledOnce
  <2>11. ASSUME active \in Servers,
                Shows(active, coming, c, status[active], place[active], talks[active])
         PROVE  Shows(active, coming', c, status'[active], place'[active], talks'[active])
    <3>1. CASE active = t
      <4>1. /\ m \notin OwnMoves(t) => place'[t][Me] = place[t][Me]
            /\ m \in AnnMoves(t) => m.from = place[t][Ann] /\ m.to = place'[t][Ann] /\ m.from # m.to
            /\ m \notin AnnMoves(t) => place'[t][Ann] = place[t][Ann]
            /\ m \notin Talk(t) => (talks[t] /\ place'[t][Ann] # NoChannel => talks'[t])
        BY <1>5 DEF CalledOnce
      <4>2. Shows(t, coming, c, status[t], place[t], talks[t])
        BY <2>11, <3>1
      <4>3. Shows(t, Append(coming, m), c, status[t], place'[t], talks'[t])
        BY <1>0, <1>3, <2>1, <4>1, <4>2, ShowsCall
      <4> QED BY <2>1, <3>1, <4>3
    <3>2. CASE active # t
      <4>1. Shows(active, coming \o <<m>>, c, status[active], place[active], talks[active])
        BY <1>0, <2>2, <2>5, <2>11, <3>2, ShowsElsewhere
      <4> QED BY <1>1, <2>3, <2>11, <3>2, <4>1
    <3> QED BY <3>1, <3>2
  <2> QED BY <1>4, <2>6, <2>9, <2>10, <2>11
<1>6. ASSUME NEW more, ToldStatus(t, more) PROVE FollowInv'
  <2>1. /\ more \in Seq(Calls) /\ Len(more) # 0 /\ coming' = coming \o more
        /\ more[Len(more)] \in News(t) /\ more[Len(more)].status = Mapped(status'[t])
        /\ \A j \in 1..Len(more) : more[j].tab = t /\ (j # Len(more) => more[j].is = "stopped")
        /\ Mapped(status'[t]) = "connected" => status[t] # "established"
        /\ talks'[t] => talks[t] /\ status[t] # "established"
        /\ foreground' = foreground
    BY <1>6 DEF ToldStatus
  <2>2. /\ \A j \in 1..Len(more) : j # Len(more) => more[j] \notin News(t) /\ more[j] \notin Talk(t)
        /\ \A j \in 1..Len(more) : more[j] \notin Switching
    BY <2>1 DEF News, Talk, Switching
  <2>3. ~talks'[t]
    BY <1>0, <2>1
  <2>4. Traced(t, coming', status'[t], place'[t], talks'[t])
    BY <1>0, <2>1, <2>2, <2>3, TracedStatus
  <2>5. ASSUME NEW u \in Servers, u # t PROVE \A j \in 1..Len(more) : more[j].tab # u
    BY <2>1, <2>5
  <2>6. ASSUME NEW u \in Servers PROVE Traced(u, coming', status'[u], place'[u], talks'[u])
    <3>1. CASE u = t
      BY <2>4, <3>1
    <3>2. CASE u # t
      <4>1. Traced(u, coming \o more, status[u], place[u], talks[u])
        BY <1>0, <2>1, <2>5, <3>2, TracedElsewhere
      <4> QED BY <1>1, <2>1, <3>2, <4>1
    <3> QED BY <3>1, <3>2
  <2>7. /\ Places(coming', Switching) = Places(coming, Switching)
        /\ \A i \in Places(coming, Switching) : coming'[i] = coming[i]
    <3>1. /\ Places(coming \o more, Switching) = Places(coming, Switching)
          /\ \A i \in Places(coming, Switching) : (coming \o more)[i] = coming[i]
      BY <1>0, <2>1, <2>2, PlacesWithout
    <3> QED BY <2>1, <3>1
  <2>8. \A i \in Places(coming', Switching) :
           (\A j \in Places(coming', Switching) : j <= i) => coming'[i].tab = foreground'
    BY <2>1, <2>7 DEF FollowInv
  <2>9. \A S : \A i \in Places(coming, S) : i \in Places(coming', S)
    BY <1>0, <2>1, PlacesTold
  <2>10. Places(coming', News(t)) # {}
    <3>1. Len(more) \in 1..Len(more) /\ Len(coming) + Len(more) \in Places(coming', News(t))
      <4>1. Len(more) \in 1..Len(more)
        BY <2>1, LenProperties
      <4> QED BY <1>0, <2>1, <4>1, PlacesTold
    <3> QED BY <3>1
  <2>11. Places(coming', Switching) = {} =>
           /\ Places(coming, Switching) = {} /\ foreground' = foreground
           /\ \/ Places(coming', News(foreground)) # {}
              \/ /\ status'[foreground] = status[foreground]
                 /\ Places(coming, News(foreground)) = {}
    BY <1>0, <1>1, <2>1, <2>7, <2>9, <2>10
  <2>12. ASSUME active \in Servers,
                Shows(active, coming, c, status[active], place[active], talks[active])
         PROVE  Shows(active, coming', c, status'[active], place'[active], talks'[active])
    <3>1. CASE active = t
      <4>1. Shows(t, coming, c, status[t], place[t], talks[t])
        BY <2>12, <3>1
      <4>2. Shows(t, coming \o more, c, status'[t], place'[t], talks'[t])
        BY <1>0, <1>3, <2>1, <2>2, <4>1, ShowsStatus
      <4> QED BY <2>1, <3>1, <4>2
    <3>2. CASE active # t
      <4>1. Shows(active, coming \o more, c, status[active], place[active], talks[active])
        BY <1>0, <2>1, <2>5, <2>12, <3>2, ShowsElsewhere
      <4> QED BY <1>1, <2>1, <2>12, <3>2, <4>1
    <3> QED BY <3>1, <3>2
  <2> QED BY <1>4, <2>6, <2>8, <2>11, <2>12
<1> QED BY <1>1, <1>5, <1>6

-----------------------------------------------------------------------------
(* The callbacks keep it. *)

\* set_connection() empties the roster unless it says connected.
LEMMA ConnectionSet ==
  ASSUME NEW c, Kept(c), NEW k \in Connections
  PROVE  LET d == SetConnection(c, k)
         IN  /\ Kept(d)
             /\ Speaks(d) => Speaks(c)
             /\ k # "connected" => d.channel = NoChannel /\ ~Speaks(d)
<1> DEFINE d == SetConnection(c, k)
<1>1. d \in Contents
  BY ContentsKept DEF Kept
<1>2. CASE k = "connected"
  <2>1. d = [c EXCEPT !.connection = k]
    BY <1>2 DEF SetConnection
  <2>2. d.users = c.users /\ d.channel = c.channel
    BY <2>1 DEF Kept, Contents
  <2> HIDE DEF d
  <2>3. Kept(d)
    BY <1>1, <2>2 DEF Kept
  <2>4. Speaks(d) => Speaks(c)
    BY <2>2 DEF Speaks
  <2> QED BY <1>2, <2>3, <2>4 DEF d
<1>3. CASE k # "connected"
  <2>1. d = [c EXCEPT !.connection = k, !.users = <<>>, !.channel = NoChannel]
    BY <1>3 DEF SetConnection
  <2>2. d.users = <<>> /\ d.channel = NoChannel /\ DOMAIN d.users = {}
    BY <2>1 DEF Kept, Contents
  <2> HIDE DEF d
  <2>3. Kept(d) /\ ~Speaks(d)
    BY <1>1, <2>2 DEF Kept, Speaks
  <2> QED BY <1>3, <2>2, <2>3 DEF d
<1> QED BY <1>2, <1>3

\* The cache of a plugin that follows no tab.
LEMMA OfflineKept == Kept(Offline) /\ Offline.channel = NoChannel /\ ~Speaks(Offline)
<1>1. Offline.users = <<>> /\ Offline.channel = NoChannel /\ DOMAIN Offline.users = {}
  BY DEF Offline
<1>2. Offline \in Contents
  BY ContentsKept
<1> QED BY <1>1, <1>2 DEF Kept, Speaks

\* A re-read of a tab, in the terms of Shows.
LEMMA RereadTab ==
  ASSUME TabsTyped, NEW c, Kept(c), NEW t \in Servers
  PROVE  LET d == Resynchronise(c, ChannelOf(t), GatheredOn(t))
         IN  Kept(d) /\ Reread(d, status[t], place[t]) /\ (Speaks(d) => Speaks(c))
<1> DEFINE d == Resynchronise(c, ChannelOf(t), GatheredOn(t))
<1>1. /\ Kept(d) /\ d.channel = ChannelOf(t) /\ (Speaks(d) => Speaks(c))
      /\ \A x \in ClientIds : Has(d, x) <=> x \in PresentOn(t)
  BY Rereading DEF TabsTyped
<1> HIDE DEF d
<1>2. d.channel = IF status[t] = "established" THEN place[t][Me] ELSE NoChannel
  BY <1>1 DEF ChannelOf, OwnKnown
<1>3. \A x \in ClientIds : x \in PresentOn(t) <=> d.channel # NoChannel /\ place[t][x] = d.channel
  BY <1>1 DEF PresentOn
<1> QED BY <1>1, <1>2, <1>3 DEF Reread, d

\* What holds when a call arrives, and what of the invariant is kept whatever
\* the plugin does about it.
LEMMA Arriving ==
  ASSUME TabsTyped, FollowInv, NEW kind, Arrives(kind)
  PROVE  /\ coming \in Seq(Calls) /\ coming # <<>> /\ Call = Head(coming) /\ Call \in Calls
         /\ Call.is = kind /\ Call.tab \in Servers /\ Call \in About(Call.tab)
         /\ coming' = Tail(coming) /\ UNCHANGED <<status, place, talks, foreground>>
         /\ \A u \in Servers : Traced(u, coming, status[u], place[u], talks[u])
         /\ \A u \in Servers : Traced(u, coming', status'[u], place'[u], talks'[u])
         /\ \A i \in Places(coming', Switching) :
              (\A j \in Places(coming', Switching) : j <= i) => coming'[i].tab = foreground'
         /\ script = <<>> /\ script \in Seq(SendSteps) /\ FollowedBy(cache)
         /\ \A S : Call \notin S /\ Places(coming', S) = {} => Places(coming, S) = {}
         /\ place \in [Servers -> [ClientIds -> Here]]
         /\ Call \in Switching /\ Places(coming', Switching) = {} => Call.tab = foreground
<1>1. /\ coming \in Seq(Calls) /\ coming # <<>> /\ Call = Head(coming) /\ Call.is = kind
      /\ coming' = Tail(coming) /\ UNCHANGED <<status, place, talks, foreground>>
      /\ script = <<>> /\ place \in [Servers -> [ClientIds -> Here]]
      /\ \A u \in Servers : Traced(u, coming, status[u], place[u], talks[u])
  BY DEF Arrives, Call, TabsTyped, FollowInv, world
<1>2. Call \in Calls
  BY <1>1, HeadTailProperties
<1>3. Call.tab \in Servers /\ Call \in About(Call.tab)
  BY <1>2 DEF Calls, About
<1>4. ASSUME NEW u \in Servers PROVE Traced(u, coming', status'[u], place'[u], talks'[u])
  <2>1. Traced(u, Tail(coming), status[u], place[u], talks[u])
    BY <1>1, TracedServed
  <2> QED BY <1>1, <2>1
<1>5. ASSUME NEW S
      PROVE  /\ \A i \in Places(coming', S) : i \in Nat /\ i + 1 \in Places(coming, S)
                                              /\ coming'[i] = coming[i + 1] /\ 1 <= i
             /\ \A i \in Places(coming, S) : /\ i \in Nat /\ i >= 1
                                             /\ i # 1 => i - 1 \in Places(coming', S)
             /\ Call \notin S /\ Places(coming', S) = {} => Places(coming, S) = {}
             /\ Call \in S => 1 \in Places(coming, S)
             /\ coming[1] = Call
  <2>1. /\ \A i \in Places(Tail(coming), S) : /\ i \in Nat /\ 1 <= i /\ i + 1 \in Places(coming, S)
                                              /\ Tail(coming)[i] = coming[i + 1]
        /\ \A i \in Places(coming, S) : /\ i \in Nat /\ 1 <= i
                                        /\ i # 1 => i - 1 \in Places(Tail(coming), S)
        /\ Head(coming) \in S => 1 \in Places(coming, S)
        /\ coming[1] = Head(coming)
        /\ Head(coming) \notin S /\ Places(Tail(coming), S) = {} => Places(coming, S) = {}
    BY <1>1, PlacesServed
  <2> QED BY <1>1, <2>1
<1>6. ASSUME NEW i \in Places(coming', Switching), \A j \in Places(coming', Switching) : j <= i
      PROVE  coming'[i].tab = foreground'
  <2>1. i \in Nat /\ i + 1 \in Places(coming, Switching) /\ coming'[i] = coming[i + 1] /\ 1 <= i
    BY <1>5
  <2>2. \A j \in Places(coming, Switching) : j <= i + 1
    <3> SUFFICES ASSUME NEW j \in Places(coming, Switching) PROVE j <= i + 1
      OBVIOUS
    <3>1. j \in Nat /\ (j # 1 => j - 1 \in Places(coming', Switching))
      BY <1>5
    <3>2. j # 1 => j - 1 <= i
      BY <1>6, <3>1
    <3> QED BY <2>1, <3>1, <3>2
  <2> QED BY <1>1, <2>1, <2>2 DEF FollowInv
<1>7. ASSUME Call \in Switching, Places(coming', Switching) = {} PROVE Call.tab = foreground
  <2>1. 1 \in Places(coming, Switching) /\ \A j \in Places(coming, Switching) : j = 1
    BY <1>5, <1>7
  <2>2. \A j \in Places(coming, Switching) : j <= 1
    BY <2>1
  <2>3. coming[1].tab = foreground
    BY <2>1, <2>2 DEF FollowInv
  <2> QED BY <1>5, <2>3
<1>8. FollowedBy(cache) /\ script \in Seq(SendSteps)
  <2>1. PICK c : Awaited(c) /\ FollowedBy(c)
    BY DEF FollowInv
  <2>2. script \notin EndsIn(c)
    <3>1. DOMAIN script = {}
      BY <1>1
    <3> QED BY <3>1 DEF EndsIn
  <2> QED BY <2>1, <2>2 DEF Awaited
<1> QED BY <1>1, <1>2, <1>3, <1>4, <1>5, <1>6, <1>7, <1>8

\* A call other than of a status or a change of tabs: the tab that is followed
\* stays, and it is enough that it is shown as before.
LEMMA SameTab ==
  ASSUME TabsTyped, FollowInv, NEW kind \in {"moved", "talking", "stopped", "subscribed"},
         Arrives(kind), active' = active, takenOver' = takenOver,
         NEW d, Awaited(d)', Kept(d), active = NoServer => d = cache,
         active \in Servers
           /\ Shows(active, coming, cache, status[active], place[active], talks[active]) =>
             Shows(active, Tail(coming), d, status[active], place[active], talks[active])
  PROVE  FollowInv'
<1>1. /\ Call.is = kind /\ coming' = Tail(coming)
      /\ UNCHANGED <<status, place, talks, foreground>>
      /\ \A u \in Servers : Traced(u, coming', status'[u], place'[u], talks'[u])
      /\ \A i \in Places(coming', Switching) :
           (\A j \in Places(coming', Switching) : j <= i) => coming'[i].tab = foreground'
      /\ FollowedBy(cache)
      /\ \A S : Call \notin S /\ Places(coming', S) = {} => Places(coming, S) = {}
  BY Arriving
<1>2. Call \notin Switching /\ Call \notin News(foreground)
  BY <1>1 DEF Switching, News
<1>3. active \in Servers \cup {NoServer}
  BY DEF TabsTyped
<1>4. (~takenOver /\ Places(coming, Switching) = {} => active \in {NoServer, foreground})'
  BY <1>1, <1>2 DEF FollowInv
<1>5. FollowedBy(d)'
  <2>1. ASSUME ~takenOver', active' = NoServer
        PROVE  /\ d.channel = NoChannel
               /\ Places(coming', Switching) = {} /\ Mapped(status'[foreground']) = "connected" =>
                    Places(coming', News(foreground')) # {}
    BY <1>1, <1>2, <2>1 DEF FollowedBy
  <2>2. ASSUME ~takenOver', active' # NoServer
        PROVE  Shows(active', coming', d, status'[active'], place'[active'], talks'[active'])
    BY <1>1, <1>3, <2>2 DEF FollowedBy
  <2> QED BY <2>1, <2>2 DEF FollowedBy
<1> QED BY <1>1, <1>4, <1>5 DEF FollowInv

\* A callback that returns at once leaves the cache as it is to be.
LEMMA ReturnsAwaited ==
  ASSUME script = <<>>, UNCHANGED pluginVars, NEW d, d = cache
  PROVE  Awaited(d)' /\ active' = active
BY EmptySeq DEF Awaited, pluginVars

\* on_client_moved() about ourselves.
LEMMA SelfMoveFollowed == TabsTyped /\ FollowInv /\ SelfMoveArrives => FollowInv'
<1> SUFFICES ASSUME TabsTyped, FollowInv, SelfMoveArrives PROVE FollowInv'
  OBVIOUS
<1>1. Arrives("moved") /\ takenOver' = takenOver
  BY DEF SelfMoveArrives
<1>2. /\ coming \in Seq(Calls) /\ coming # <<>> /\ Call = Head(coming) /\ Call \in Calls
      /\ Call.is = "moved" /\ Call.tab \in Servers /\ Call \in About(Call.tab)
      /\ coming' = Tail(coming) /\ FollowedBy(cache)
      /\ \A u \in Servers : Traced(u, coming, status[u], place[u], talks[u])
      /\ place \in [Servers -> [ClientIds -> Here]]
  BY <1>1, Arriving
<1> DEFINE t == Call.tab
           ch == ChannelOf(t)
           g == GatheredOn(t)
<1>0. PICK d : d = Resynchronise(cache, ch, g)
  OBVIOUS
<1>3. active = t /\ Call.who = Me /\ t \in Servers
  BY <1>2 DEF SelfMoveArrives, IsActive
<1>4. /\ Call \in OwnMoves(t) /\ Call \notin News(t) /\ Call \notin Talk(t)
      /\ \A x : Call \notin Crossing(t, x)
  BY <1>2, <1>3, People DEF OwnMoves, News, Talk, Crossing, AnnMoves
<1>5. Kept(cache) /\ cache \in Contents /\ ch \in SaidChannels /\ g \in Gatherings
  BY <1>2, <1>3, QueriesAnswered DEF FollowedBy, Kept
<1>6. CASE Call.to = NoChannel
  <2>1. OnSelfLeft
    BY <1>6 DEF SelfMoveArrives
  <2>2. script' \in EndsIn(Offline) /\ active' = active
    BY <1>5, <2>1, CallbackEnds DEF OnSelfLeft
  <2>3. Awaited(Offline)'
    BY <2>2 DEF Awaited
  <2>4. ASSUME Places(Tail(coming), News(t)) = {} PROVE place[t][Me] = NoChannel
    <3>1. Fresh(t, coming, 1) /\ coming[1] = Call /\ 1 \in Places(coming, OwnMoves(t))
      BY <1>2, <1>4, <2>4, FirstCall
    <3> QED BY <1>2, <1>3, <1>6, <3>1 DEF Traced, OwnLast
  <2>5. Shows(t, Tail(coming), Offline, status[t], place[t], talks[t])
    BY <2>4, OfflineKept, ShowsNothing
  <2> QED BY <1>1, <1>3, <2>2, <2>3, <2>5, OfflineKept, SameTab, PluginAssumption
<1>7. CASE Call.to # NoChannel
  <2>1. OnSelfMoved(ch, g)
    BY <1>7 DEF SelfMoveArrives, Told
  <2>2. script' \in EndsIn(d) /\ active' = active
    <3>1. script' \in EndsIn(Resynchronise(cache, ch, g))
      BY <1>5, <2>1, CallbackEnds
    <3> QED BY <1>0, <2>1, <3>1 DEF OnSelfMoved
  <2>3. Awaited(d)'
    BY <2>2 DEF Awaited
  <2>4. Kept(d) /\ Reread(d, status[t], place[t]) /\ (Speaks(d) => Speaks(cache))
    BY <1>0, <1>3, <1>5, RereadTab
  <2>5. ASSUME Shows(t, coming, cache, status[t], place[t], talks[t])
        PROVE  Shows(t, Tail(coming), d, status[t], place[t], talks[t])
    <3>1. place[t] \in [ClientIds -> Here] /\ Traced(t, coming, status[t], place[t], talks[t])
      BY <1>2, <1>3
    <3> QED BY <1>2, <1>4, <1>5, <2>4, <2>5, <3>1, ShowsReread
  <2> HIDE DEF t
  <2> QED BY <1>1, <1>3, <2>2, <2>3, <2>4, <2>5, SameTab, PluginAssumption
<1> QED BY <1>6, <1>7

\* on_subscription_finished(), and on_channel_updated(), which does the same.
LEMMA SubscriptionFollowed == TabsTyped /\ FollowInv /\ SubscriptionArrives => FollowInv'
<1> SUFFICES ASSUME TabsTyped, FollowInv, SubscriptionArrives PROVE FollowInv'
  OBVIOUS
<1>1. Arrives("subscribed") /\ takenOver' = takenOver
  BY DEF SubscriptionArrives
<1>2. /\ coming \in Seq(Calls) /\ coming # <<>> /\ Call = Head(coming) /\ Call \in Calls
      /\ Call.is = "subscribed" /\ Call.tab \in Servers /\ Call \in About(Call.tab)
      /\ coming' = Tail(coming) /\ FollowedBy(cache) /\ script = <<>>
      /\ \A u \in Servers : Traced(u, coming, status[u], place[u], talks[u])
      /\ place \in [Servers -> [ClientIds -> Here]]
  BY <1>1, Arriving
<1> DEFINE t == Call.tab
           ch == ChannelOf(t)
           g == GatheredOn(t)
<1>0. PICK d : d = Resynchronise(cache, ch, g)
  OBVIOUS
<1>3. \A u : /\ Call \notin OwnMoves(u) /\ Call \notin News(u) /\ Call \notin Talk(u)
             /\ \A x : Call \notin Crossing(u, x)
  BY <1>2 DEF OwnMoves, News, Talk, Crossing, AnnMoves
<1>4. Kept(cache) /\ cache \in Contents /\ ch \in SaidChannels /\ g \in Gatherings
  BY <1>2, QueriesAnswered DEF FollowedBy, Kept
<1>5. CASE IsActive(t)
  <2>1. OnChannelRefreshed(ch, g) /\ active = t
    BY <1>5 DEF SubscriptionArrives, Told, IsActive
  <2>2. script' \in EndsIn(d) /\ active' = active
    <3>1. script' \in EndsIn(Resynchronise(cache, ch, g))
      BY <1>4, <2>1, CallbackEnds
    <3> QED BY <1>0, <2>1, <3>1 DEF OnChannelRefreshed
  <2>3. Awaited(d)'
    BY <2>2 DEF Awaited
  <2>4. Kept(d) /\ Reread(d, status[t], place[t]) /\ (Speaks(d) => Speaks(cache))
    BY <1>0, <1>2, <1>4, RereadTab
  <2>5. ASSUME Shows(t, coming, cache, status[t], place[t], talks[t])
        PROVE  Shows(t, Tail(coming), d, status[t], place[t], talks[t])
    <3>1. place[t] \in [ClientIds -> Here] /\ Traced(t, coming, status[t], place[t], talks[t])
      BY <1>2
    <3> QED BY <1>2, <1>3, <1>4, <2>4, <2>5, <3>1, ShowsReread
  <2>6. active # NoServer
    BY <1>2, <2>1, PluginAssumption
  <2> HIDE DEF t
  <2> QED BY <1>1, <2>1, <2>2, <2>3, <2>4, <2>5, <2>6, SameTab
<1>6. CASE ~IsActive(t)
  <2>0. PICK c : c = cache
    OBVIOUS
  <2>1. UNCHANGED pluginVars
    BY <1>6 DEF SubscriptionArrives, Returns
  <2>2. Awaited(c)' /\ active' = active
    BY <1>2, <2>0, <2>1, ReturnsAwaited
  <2>3. ASSUME Shows(active, coming, cache, status[active], place[active], talks[active])
        PROVE  Shows(active, Tail(coming), c, status[active], place[active], talks[active])
    BY <1>2, <1>3, <2>0, <2>3, ShowsStill
  <2> QED BY <1>1, <1>4, <2>0, <2>2, <2>3, SameTab
<1> QED BY <1>5, <1>6

\* on_talk_status().
LEMMA TalkFollowed == TabsTyped /\ FollowInv /\ TalkArrives => FollowInv'
<1> SUFFICES ASSUME TabsTyped, FollowInv, TalkArrives PROVE FollowInv'
  OBVIOUS
<1>1. Arrives("talking") /\ takenOver' = takenOver
  BY DEF TalkArrives
<1>2. /\ coming \in Seq(Calls) /\ coming # <<>> /\ Call = Head(coming) /\ Call \in Calls
      /\ Call.is = "talking" /\ Call.tab \in Servers /\ Call \in About(Call.tab)
      /\ coming' = Tail(coming) /\ FollowedBy(cache) /\ script = <<>>
      /\ \A u \in Servers : Traced(u, coming, status[u], place[u], talks[u])
      /\ place \in [Servers -> [ClientIds -> Here]]
  BY <1>1, Arriving
<1> DEFINE t == Call.tab
           at == ClientRow(cache.users, Ann)
           on == Call.on
<1>3. /\ \A u : /\ Call \notin OwnMoves(u) /\ Call \notin News(u)
                /\ \A x : Call \notin Crossing(u, x)
      /\ \A u : Call \in Talk(u) <=> u = t
      /\ on \in BOOLEAN
  BY <1>2 DEF OwnMoves, News, Talk, Crossing, AnnMoves, About, Calls
<1>4. Kept(cache) /\ cache \in Contents
  BY <1>2 DEF FollowedBy, Kept
<1>5. /\ at \in 0..Len(cache.users) /\ Len(cache.users) \in Nat
      /\ DOMAIN cache.users = 1..Len(cache.users)
      /\ at # 0 => cache.users[at].cid = Ann
      /\ Has(cache, Ann) <=> at # 0
      /\ \A i \in 1..Len(cache.users) :
           /\ cache.users[i] \in UserState
           /\ cache.users[i].talking => cache.users[i] = Speaking
           /\ ~cache.users[i].talking => cache.users[i] = WhoIs[cache.users[i].cid]
  BY <1>4, KeptRows
<1>6. at # 0 => at \in 1..Len(cache.users)
  BY <1>5
<1>7. at # 0 => (Speaks(cache) <=> cache.users[at].talking)
  <2> SUFFICES ASSUME at # 0 PROVE Speaks(cache) <=> cache.users[at].talking
    OBVIOUS
  <2>1. ASSUME NEW i \in DOMAIN cache.users, cache.users[i].talking PROVE i = at
    <3>1. cache.users[i].cid = Ann
      BY <1>5, <2>1, People
    <3> QED BY <1>4, <1>5, <1>6, <3>1 DEF Kept
  <2> QED BY <1>5, <1>6, <2>1 DEF Speaks
<1> DEFINE Served == IsActive(t) /\ at # 0 /\ cache.users[at].talking # on
<1>8. IF Served THEN OnTalkStatusChanged(at, on, FALSE) ELSE Returns
  BY DEF TalkArrives
<1> HIDE DEF at
<1>9. CASE Served
  <2>0. PICK r : r = [cache.users[at] EXCEPT !.talking = on, !.whispering = FALSE]
    OBVIOUS
  <2>d. PICK d : d = [cache EXCEPT !.users[at] = r]
    OBVIOUS
  <2>1. OnTalkStatusChanged(at, on, FALSE) /\ active = t /\ at \in 1..Len(cache.users)
    BY <1>6, <1>8, <1>9 DEF IsActive
  <2>2. script' \in EndsIn(d) /\ active' = active
    <3>1. script' \in EndsIn([cache EXCEPT !.users[at] =
                          [@ EXCEPT !.talking = on, !.whispering = FALSE]])
      BY <1>3, <1>4, <1>5, <2>1, CallbackEnds, QueriesAnswered, <1>2
    <3>2. [cache EXCEPT !.users[at] = [@ EXCEPT !.talking = on, !.whispering = FALSE]] = d
      BY <2>0, <2>d
    <3> QED BY <2>1, <3>1, <3>2 DEF OnTalkStatusChanged
  <2>3. Awaited(d)'
    BY <2>2 DEF Awaited
  <2>4. r \in {WhoIs[Me], WhoIs[Ann], Speaking} /\ r.cid = Ann /\ r.talking = on
    <3>0. PICK u : u = cache.users[at]
      OBVIOUS
    <3>a. r = [u EXCEPT !.talking = on, !.whispering = FALSE]
      BY <2>0, <3>0
    <3>1. u \in UserState /\ u.cid = Ann /\ u.talking # on
          /\ (u.talking => u = Speaking) /\ (~u.talking => u = WhoIs[Ann])
      BY <1>5, <1>9, <2>1, <3>0
    <3>2. CASE on
      <4>1. u = WhoIs[Ann]
        BY <1>3, <3>1, <3>2 DEF UserState
      <4>2. r = [WhoIs[Ann] EXCEPT !.talking = TRUE, !.whispering = FALSE]
        BY <1>3, <3>2, <3>a, <4>1
      <4>3. r = Speaking
        BY <4>2, People DEF Speaking, UserState
      <4> QED BY <3>2, <4>3, People
    <3>3. CASE ~on
      <4>1. u = Speaking
        BY <1>3, <3>1, <3>3 DEF UserState
      <4>2. r = [Speaking EXCEPT !.talking = FALSE, !.whispering = FALSE]
        BY <1>3, <3>3, <3>a, <4>1
      <4>3. WhoIs[Ann] \in UserState /\ ~WhoIs[Ann].talking /\ ~WhoIs[Ann].whispering
        BY People
      <4>4. \A w \in UserState : ~w.talking /\ ~w.whispering =>
              [[w EXCEPT !.talking = TRUE] EXCEPT !.talking = FALSE, !.whispering = FALSE] = w
        BY DEF UserState
      <4>5. [[WhoIs[Ann] EXCEPT !.talking = TRUE] EXCEPT !.talking = FALSE, !.whispering = FALSE]
              = WhoIs[Ann]
        BY <4>3, <4>4, Zenon
      <4>6. r = WhoIs[Ann]
        BY <4>2, <4>5, Zenon DEF Speaking
      <4>7. r.talking = on
        BY <1>3, <3>3, <4>3, <4>6 DEF UserState
      <4> HIDE DEF on
      <4> QED BY <4>6, <4>7, People
    <3> QED BY <3>2, <3>3
  <2>5. cache.users[at].cid = Ann
    BY <1>5, <1>9
  <2>6. /\ Kept(d) /\ d.channel = cache.channel
        /\ \A x : Has(d, x) <=> Has(cache, x)
        /\ Speaks(d) <=> on
    <3>1. LET e == [cache EXCEPT !.users[at] = r]
          IN  /\ Kept(e) /\ e.channel = cache.channel
              /\ \A x : Has(e, x) <=> Has(cache, x)
              /\ r.cid = Ann => (Speaks(e) <=> r.talking)
      <4>1. Kept(cache) /\ at \in 1..Len(cache.users) /\ r.cid = cache.users[at].cid
            /\ r \in {WhoIs[Me], WhoIs[Ann], Speaking}
        BY <1>4, <2>1, <2>4, <2>5
      <4> HIDE DEF t, on, Served
      <4> QED BY <4>1, RowReplaced, Zenon
    <3> HIDE DEF on
    <3> QED BY <2>4, <2>d, <3>1
  <2>7. ASSUME Shows(t, coming, cache, status[t], place[t], talks[t])
        PROVE  Shows(t, Tail(coming), d, status[t], place[t], talks[t])
    <3>1. Traced(t, coming, status[t], place[t], talks[t]) /\ Head(coming) \in Talk(t)
          /\ Head(coming).on = on
      BY <1>2, <1>3
    <3> HIDE DEF t, on
    <3> QED BY <1>2, <2>6, <2>7, <3>1, ShowsTalk
  <2>8. active # NoServer
    BY <1>2, <2>1, PluginAssumption
  <2> HIDE DEF t, on, Served
  <2> QED BY <1>1, <2>1, <2>2, <2>3, <2>6, <2>7, <2>8, SameTab
<1>10. CASE ~Served
  <2>0. PICK c : c = cache
    OBVIOUS
  <2>1. UNCHANGED pluginVars
    BY <1>8, <1>10 DEF Returns
  <2>2. Awaited(c)' /\ active' = active
    BY <1>2, <2>0, <2>1, ReturnsAwaited
  <2>3. ASSUME active \in Servers,
               Shows(active, coming, cache, status[active], place[active], talks[active])
        PROVE  Shows(active, Tail(coming), c, status[active], place[active], talks[active])
    <3>1. CASE active = t
      <4>1. IsActive(t)
        BY <2>3, <3>1, PluginAssumption DEF IsActive
      <4>2. Has(cache, Ann) => (Speaks(cache) <=> on)
        <5>1. at # 0 => cache.users[at].talking = on
          BY <1>10, <4>1
        <5> QED BY <1>5, <1>7, <5>1
      <4>3. Traced(active, coming, status[active], place[active], talks[active])
            /\ Head(coming) \in Talk(active) /\ Head(coming).on = on
        BY <1>2, <1>3, <2>3, <3>1
      <4> HIDE DEF t, on, Served
      <4> QED BY <1>2, <1>4, <2>0, <2>3, <4>2, <4>3, ShowsTalk
    <3>2. CASE active # t
      BY <1>2, <1>3, <2>0, <2>3, <3>2, ShowsStill
    <3> QED BY <3>1, <3>2
  <2> QED BY <1>1, <1>4, <2>0, <2>2, <2>3, SameTab
<1> QED BY <1>9, <1>10

\* on_client_moved() about Ann, or about ourselves when the query for our own
\* id fails.
LEMMA MoveFollowed == TabsTyped /\ FollowInv /\ MoveArrives => FollowInv'
<1> SUFFICES ASSUME TabsTyped, FollowInv, MoveArrives PROVE FollowInv'
  OBVIOUS
<1> DEFINE t == Call.tab
           ch == ChannelOf(t)
           g == GatheredOn(t)
           ours == cache.channel
           in == Call.to = ours /\ Call.from # ours
           out == Call.from = ours /\ Call.to # ours
           Concerned == IsActive(t) /\ ours # NoChannel /\ (in \/ out)
           Ours == IsActive(t) /\ Call.who = Me /\ OwnKnown(t)
<1>1. /\ Arrives("moved") /\ takenOver' = takenOver /\ ~Ours
      /\ Concerned =>
           /\ out => OnClientMovedOut(Call.who, ch, g)
           /\ ~out /\ InView(t, Call.who) => OnKnownMovedIn(WhoIs[Call.who], ch, g)
           /\ ~out /\ ~InView(t, Call.who) => OnUnknownMovedIn(ch, g)
      /\ ~Concerned => Returns
  BY DEF MoveArrives, Told
<1>2. /\ coming \in Seq(Calls) /\ coming # <<>> /\ Call = Head(coming) /\ Call \in Calls
      /\ Call.is = "moved" /\ Call.tab \in Servers /\ Call \in About(Call.tab)
      /\ coming' = Tail(coming) /\ FollowedBy(cache) /\ script = <<>>
      /\ \A u \in Servers : Traced(u, coming, status[u], place[u], talks[u])
      /\ place \in [Servers -> [ClientIds -> Here]]
  BY <1>1, Arriving
<1>3. /\ \A u : Call \notin News(u) /\ Call \notin Talk(u)
      /\ Call.who \in {Me, Ann} /\ Call.from \in Here /\ Call.to \in Here
      /\ Call.who = Me => Call \in OwnMoves(t) /\ \A u, x : Call \notin Crossing(u, x)
      /\ Call.who = Ann => \A u : Call \notin OwnMoves(u)
      /\ \A u, x : Call \in Crossing(u, x) => u = t /\ Call.who = Ann
      /\ \A u : Call \in OwnMoves(u) => u = t /\ Call.who = Me
      /\ \A x : Call \in Crossing(t, x) <=>
                  Call.who = Ann /\ Call.from # Call.to /\ x \in {Call.from, Call.to}
  BY <1>2, People DEF OwnMoves, News, Talk, Crossing, AnnMoves, About, Calls
<1>4. Kept(cache) /\ cache \in Contents /\ ch \in SaidChannels /\ g \in Gatherings
  BY <1>2, QueriesAnswered DEF FollowedBy, Kept
<1>5. ASSUME IsActive(t), Call.who = Me
      PROVE  Places(Tail(coming), News(t)) # {}
  <2>1. status[t] # "established"
    BY <1>1, <1>5 DEF OwnKnown
  <2> SUFFICES ASSUME Places(Tail(coming), News(t)) = {} PROVE FALSE
    OBVIOUS
  <2>2. Fresh(t, coming, 1) /\ coming[1] = Call /\ 1 \in Places(coming, About(t))
    BY <1>2, <1>3, FirstCall
  <2>3. Traced(t, coming, status[t], place[t], talks[t])
    BY <1>2
  <2>4. Call.is = "current"
    BY <2>1, <2>2, <2>3 DEF Traced, OnlyOnceThere
  <2> QED BY <1>2, <2>4
<1>6. CASE ~Concerned
  <2>0. PICK c : c = cache
    OBVIOUS
  <2>1. UNCHANGED pluginVars
    BY <1>1, <1>6 DEF Returns
  <2>2. Awaited(c)' /\ active' = active
    BY <1>2, <2>0, <2>1, ReturnsAwaited
  <2>3. ASSUME active \in Servers,
               Shows(active, coming, cache, status[active], place[active], talks[active])
        PROVE  Shows(active, Tail(coming), c, status[active], place[active], talks[active])
    <3>1. CASE active # t
      <4>1. Call \notin OwnMoves(active) /\ \A x : Call \notin Crossing(active, x)
        BY <1>3, <3>1
      <4> QED BY <1>2, <1>3, <2>0, <2>3, <4>1, ShowsStill
    <3>2. CASE active = t /\ Call.who = Me
      <4>1. IsActive(t)
        BY <2>3, <3>2, PluginAssumption DEF IsActive
      <4>2. Places(Tail(coming), News(active)) # {}
        BY <1>5, <3>2, <4>1
      <4> QED BY <1>2, <1>3, <2>0, <2>3, <4>2, ShowsMeanwhile
    <3>3. CASE active = t /\ Call.who = Ann
      <4>1. IsActive(t)
        BY <2>3, <3>3, PluginAssumption DEF IsActive
      <4>2. ours # NoChannel => ~in /\ ~out
        BY <1>6, <4>1
      <4>3. ours # NoChannel => Call \notin Crossing(t, ours)
        BY <1>3, <4>2
      <4> QED BY <1>2, <1>3, <2>0, <2>3, <3>3, <4>3, ShowsStill
    <3> QED BY <1>3, <3>1, <3>2, <3>3
  <2> QED BY <1>1, <1>4, <2>0, <2>2, <2>3, SameTab
<1>7. ASSUME Concerned, NEW d, Kept(d), script' \in EndsIn(d), active' = active,
             Call.who = Me => (Speaks(d) => Speaks(cache)),
             Call.who = Ann =>
               \/ Reread(d, status[t], place[t]) /\ ~Speaks(d)
               \/ /\ d.channel = ours /\ ~Speaks(d) /\ (Has(d, Me) <=> Has(cache, Me))
                  /\ Has(d, Ann) <=> Call.to = ours
      PROVE  FollowInv'
  <2>1. active = t /\ active # NoServer /\ ours # NoChannel /\ (in \/ out) /\ IsActive(t)
    BY <1>7 DEF IsActive
  <2>2. Awaited(d)'
    BY <1>7 DEF Awaited
  <2>3. ASSUME Shows(t, coming, cache, status[t], place[t], talks[t])
        PROVE  Shows(t, Tail(coming), d, status[t], place[t], talks[t])
    <3>1. CASE Call.who = Me
      <4>1. Places(Tail(coming), News(t)) # {}
        BY <1>5, <2>1, <3>1
      <4> QED BY <1>2, <1>3, <1>7, <2>3, <3>1, <4>1, ShowsMeanwhile
    <3>2. CASE Call.who = Ann /\ Reread(d, status[t], place[t]) /\ ~Speaks(d)
      BY <3>2, RereadSilent
    <3>3. CASE /\ Call.who = Ann
               /\ d.channel = ours /\ ~Speaks(d) /\ (Has(d, Me) <=> Has(cache, Me))
               /\ Has(d, Ann) <=> Call.to = ours
      <4>1. ours \in Channels /\ Call \in Crossing(t, ours)
        BY <1>3, <1>4, <2>1, <3>3 DEF Contents, Here
      <4>2. Traced(t, coming, status[t], place[t], talks[t])
        BY <1>2
      <4> HIDE DEF t
      <4> QED BY <1>2, <2>3, <3>3, <4>1, <4>2, ShowsCrossing
    <3> QED BY <1>3, <1>7, <3>1, <3>2, <3>3
  <2> HIDE DEF t, Concerned
  <2> QED BY <1>1, <1>7, <2>1, <2>2, <2>3, SameTab
<1>8. CASE Concerned /\ out
  <2>1. OnClientMovedOut(Call.who, ch, g) /\ active = t /\ ours # NoChannel
    BY <1>1, <1>8 DEF IsActive
  <2>2. active' = active /\ Call.who \in ClientIds
    BY <1>3, <2>1, People DEF OnClientMovedOut
  <2>3. PICK at : at = ClientRow(cache.users, Call.who)
    OBVIOUS
  <2>4. script' \in EndsIn(IF at # 0 THEN [cache EXCEPT !.users = RemoveAt(@, at)]
                           ELSE Resynchronise(cache, ch, g))
    BY <1>4, <2>1, <2>2, <2>3, CallbackEnds
  <2>5. /\ at \in 0..Len(cache.users) /\ Len(cache.users) \in Nat
        /\ at # 0 => cache.users[at].cid = Call.who
        /\ Has(cache, Call.who) <=> at # 0
        /\ Speaks(cache) => Has(cache, Ann)
    BY <1>4, <2>3, KeptRows
  <2>6. CASE at # 0
    <3>1. PICK d : d = [cache EXCEPT !.users = RemoveAt(@, at)]
      OBVIOUS
    <3>2. at \in 1..Len(cache.users)
      BY <2>5, <2>6
    <3>3. /\ Kept(d) /\ d.channel = ours
          /\ \A x : Has(d, x) <=> Has(cache, x) /\ x # Call.who
          /\ Speaks(d) => Speaks(cache)
      BY <1>4, <2>5, <2>6, <3>1, <3>2, RowRemoved
    <3>4. Speaks(d) => Has(d, Ann)
      BY <3>3, KeptRows
    <3>5. script' \in EndsIn(d)
      BY <2>4, <2>6, <3>1
    <3>6. Call.to # ours
      BY <1>8
    <3> HIDE DEF t, ours, Concerned
    <3> QED BY <1>7, <1>8, <2>2, <3>3, <3>4, <3>5, <3>6, People
  <2>7. CASE at = 0
    <3>1. PICK d : d = Resynchronise(cache, ch, g)
      OBVIOUS
    <3>2. Kept(d) /\ Reread(d, status[t], place[t]) /\ (Speaks(d) => Speaks(cache))
      BY <1>2, <1>4, <3>1, RereadTab
    <3>3. script' \in EndsIn(d)
      BY <2>4, <2>7, <3>1
    <3>4. Call.who = Ann => ~Speaks(d)
      BY <2>5, <2>7, <3>2
    <3> HIDE DEF t, ours, Concerned
    <3> QED BY <1>7, <1>8, <2>2, <3>2, <3>3, <3>4
  <2> QED BY <2>6, <2>7
<1>9. CASE Concerned /\ ~out /\ InView(t, Call.who)
  <2>1. OnKnownMovedIn(WhoIs[Call.who], ch, g) /\ active = t /\ ours # NoChannel /\ in
    BY <1>1, <1>9 DEF IsActive
  <2>2. Call.who = Ann
    BY <1>1, <1>3, <1>9 DEF InView
  <2>3. active' = active /\ WhoIs[Ann] \in UserState /\ WhoIs[Ann].cid = Ann
    BY <2>1, People DEF OnKnownMovedIn
  <2>4. PICK at : at = ClientRow(cache.users, Ann)
    OBVIOUS
  <2>5. script' \in EndsIn(
          IF at # 0 THEN Resynchronise([cache EXCEPT !.users[at] = WhoIs[Ann]], ch, g)
          ELSE IF Len(cache.users) < MaxUsers
          THEN [cache EXCEPT !.users = Append(@, WhoIs[Ann])]
          ELSE Resynchronise(cache, ch, g))
    <3>1. OnKnownMovedIn(WhoIs[Ann], ch, g)
      BY <2>1, <2>2
    <3> HIDE DEF t, ch, g
    <3>2. LET row == ClientRow(cache.users, WhoIs[Ann].cid)
          IN  script' \in EndsIn(
                IF row # 0 THEN Resynchronise([cache EXCEPT !.users[row] = WhoIs[Ann]], ch, g)
                ELSE IF Len(cache.users) < MaxUsers
                THEN [cache EXCEPT !.users = Append(@, WhoIs[Ann])]
                ELSE Resynchronise(cache, ch, g))
      BY <1>4, <2>3, <3>1, CallbackEnds, Zenon
    <3> QED BY <2>3, <2>4, <3>2, Zenon
  <2>6. /\ at \in 0..Len(cache.users) /\ Len(cache.users) \in Nat
        /\ at # 0 => cache.users[at].cid = Ann
        /\ Has(cache, Ann) <=> at # 0
    BY <1>4, <2>4, KeptRows
  <2>7. CASE at = 0
    <3>1. PICK d : d = [cache EXCEPT !.users = Append(@, WhoIs[Ann])]
      OBVIOUS
    <3>2. /\ Kept(d) /\ d.channel = ours /\ ~Speaks(d)
          /\ Has(d, Ann) /\ (Has(d, Me) <=> Has(cache, Me))
          /\ Len(cache.users) < MaxUsers
      BY <1>4, <2>1, <2>6, <2>7, <3>1, RowAdded
    <3>3. script' \in EndsIn(d) /\ Call.to = ours
      BY <2>1, <2>5, <2>7, <3>1, <3>2
    <3> HIDE DEF t, ours, Concerned
    <3> QED BY <1>7, <1>9, <2>2, <2>3, <3>2, <3>3, People
  <2>8. CASE at # 0
    <3>1. PICK kept : kept = [cache EXCEPT !.users[at] = WhoIs[Ann]]
      OBVIOUS
    <3>2. at \in 1..Len(cache.users) /\ WhoIs[Ann] \in {WhoIs[Me], WhoIs[Ann], Speaking}
          /\ WhoIs[Ann].cid = cache.users[at].cid
      BY <2>3, <2>6, <2>8
    <3>3. Kept(kept) /\ (Speaks(kept) <=> WhoIs[Ann].talking)
      <4> HIDE DEF t, ours, Concerned
      <4>1. LET e == [cache EXCEPT !.users[at] = WhoIs[Ann]]
            IN  /\ Kept(e) /\ e.channel = cache.channel
                /\ \A x : Has(e, x) <=> Has(cache, x)
                /\ WhoIs[Ann].cid = Ann => (Speaks(e) <=> WhoIs[Ann].talking)
        BY <1>4, <3>2, RowReplaced, Zenon
      <4> QED BY <2>3, <3>1, <4>1, Zenon
    <3>4. ~Speaks(kept)
      BY <3>3, People
    <3>5. PICK d : d = Resynchronise(kept, ch, g)
      OBVIOUS
    <3>6. Kept(d) /\ Reread(d, status[t], place[t]) /\ (Speaks(d) => Speaks(kept))
      BY <1>2, <3>3, <3>5, RereadTab
    <3>7. script' \in EndsIn(d)
      BY <2>5, <2>8, <3>1, <3>5, Zenon
    <3> HIDE DEF t, ours, Concerned
    <3> QED BY <1>7, <1>9, <2>2, <2>3, <3>4, <3>6, <3>7, People
  <2> QED BY <2>7, <2>8
<1>10. CASE Concerned /\ ~out /\ ~InView(t, Call.who)
  <2>1. OnUnknownMovedIn(ch, g) /\ active = t
    BY <1>1, <1>10 DEF IsActive
  <2>2. active' = active
    BY <2>1 DEF OnUnknownMovedIn
  <2>3. PICK d : d = Resynchronise(cache, ch, g)
    OBVIOUS
  <2>4. Kept(d) /\ Reread(d, status[t], place[t]) /\ (Speaks(d) => Speaks(cache))
    BY <1>2, <1>4, <2>3, RereadTab
  <2>5. script' \in EndsIn(d)
    BY <1>4, <2>1, <2>3, CallbackEnds
  <2>6. Call.who = Ann => ~Speaks(d)
    <3> SUFFICES ASSUME Call.who = Ann, Speaks(d) PROVE FALSE
      OBVIOUS
    <3>1. Has(d, Ann) /\ d.channel # NoChannel
      BY <2>4, KeptRows
    <3>2. /\ place[t][Ann] = d.channel
          /\ d.channel = IF status[t] = "established" THEN place[t][Me] ELSE NoChannel
      BY <2>4, <3>1, People DEF Reread
    <3> QED BY <1>10, <3>1, <3>2 DEF InView, OwnKnown
  <2> HIDE DEF t, ours, Concerned
  <2> QED BY <1>7, <1>10, <2>2, <2>4, <2>5, <2>6
<1> HIDE DEF Concerned
<1> QED BY <1>6, <1>8, <1>9, <1>10

\* on_server_stopped(): nothing is shown then, and if the user is on that tab
\* the news that its connection is gone is still to come.
LEMMA StopFollowed == TabsTyped /\ FollowInv /\ StopArrives => FollowInv'
<1> SUFFICES ASSUME TabsTyped, FollowInv, StopArrives PROVE FollowInv'
  OBVIOUS
<1> DEFINE t == Call.tab
           ch == ChannelOf(t)
           g == GatheredOn(t)
<1>1. Arrives("stopped") /\ takenOver' = takenOver
  BY DEF StopArrives
<1>2. /\ coming \in Seq(Calls) /\ coming # <<>> /\ Call = Head(coming) /\ Call \in Calls
      /\ Call.is = "stopped" /\ t \in Servers /\ Call \in About(t)
      /\ coming' = Tail(coming) /\ UNCHANGED <<status, place, talks, foreground>>
      /\ FollowedBy(cache) /\ script = <<>>
      /\ \A u \in Servers : Traced(u, coming, status[u], place[u], talks[u])
      /\ \A u \in Servers : Traced(u, coming', status'[u], place'[u], talks'[u])
      /\ \A i \in Places(coming', Switching) :
           (\A j \in Places(coming', Switching) : j <= i) => coming'[i].tab = foreground'
      /\ \A S : Call \notin S /\ Places(coming', S) = {} => Places(coming, S) = {}
      /\ place \in [Servers -> [ClientIds -> Here]]
  BY <1>1, Arriving
<1>3. \A u : /\ Call \notin OwnMoves(u) /\ Call \notin News(u) /\ Call \notin Talk(u)
             /\ Call \notin Switching /\ \A x : Call \notin Crossing(u, x)
  BY <1>2 DEF OwnMoves, News, Talk, Crossing, AnnMoves, Switching
<1>4. Kept(cache) /\ cache \in Contents /\ ch \in SaidChannels /\ g \in Gatherings
  BY <1>2, QueriesAnswered DEF FollowedBy, Kept
<1>5. CASE ~IsActive(t)
  <2>0. PICK c : c = cache
    OBVIOUS
  <2>1. UNCHANGED pluginVars
    BY <1>5 DEF StopArrives, Returns
  <2>2. Awaited(c)' /\ active' = active
    BY <1>2, <2>0, <2>1, ReturnsAwaited
  <2>3. ASSUME Shows(active, coming, cache, status[active], place[active], talks[active])
        PROVE  Shows(active, Tail(coming), c, status[active], place[active], talks[active])
    BY <1>2, <1>3, <2>0, <2>3, ShowsStill
  <2> HIDE DEF t
  <2> QED BY <1>1, <1>4, <2>0, <2>2, <2>3, SameTab
<1>6. CASE IsActive(t)
  <2>1. OnServerStopped /\ active = t /\ active' = NoServer
    BY <1>6 DEF StopArrives, OnServerStopped, IsActive
  <2>2. PICK d : d = SetConnection(cache, "disconnected")
    OBVIOUS
  <2>3. script' \in EndsIn(d)
    <3> HIDE DEF ch, g
    <3> QED BY <1>4, <2>1, <2>2, CallbackEnds
  <2>4. Awaited(d)'
    BY <2>3 DEF Awaited
  <2>5. Kept(d) /\ d.channel = NoChannel
    BY <1>4, <2>2, ConnectionSet DEF Connections
  <2>6. Places(Tail(coming), News(t)) # {}
    <3> SUFFICES ASSUME Places(Tail(coming), News(t)) = {} PROVE FALSE
      OBVIOUS
    <3>1. Fresh(t, coming, 1) /\ coming[1] = Call /\ 1 \in Places(coming, About(t))
      BY <1>2, <1>3, FirstCall
    <3>2. Traced(t, coming, status[t], place[t], talks[t])
      BY <1>2
    <3>3. Call.is # "stopped"
      BY <3>1, <3>2 DEF Traced, OnlyOnceThere
    <3> QED BY <1>2, <3>3
  <2>7. ASSUME ~takenOver', Places(coming', Switching) = {}
        PROVE  Places(coming', News(foreground')) # {}
    <3>1. Places(coming, Switching) = {}
      BY <1>2, <1>3, <2>7
    <3>2. active \in {NoServer, foreground}
      BY <1>1, <2>7, <3>1 DEF FollowInv
    <3>3. t = foreground
      BY <1>2, <2>1, <3>2, PluginAssumption
    <3> QED BY <1>2, <2>6, <3>3
  <2>8. FollowedBy(d)'
    BY <2>1, <2>5, <2>7 DEF FollowedBy
  <2> HIDE DEF t
  <2> QED BY <1>2, <2>1, <2>4, <2>8 DEF FollowInv
<1> QED BY <1>5, <1>6

\* on_current_server_changed(): the tab is read from nothing.
LEMMA SwitchFollowed == TabsTyped /\ FollowInv /\ SwitchArrives => FollowInv'
<1> SUFFICES ASSUME TabsTyped, FollowInv, SwitchArrives PROVE FollowInv'
  OBVIOUS
<1> DEFINE t == Call.tab
           ch == ChannelOf(t)
           g == GatheredOn(t)
<1>1. Arrives("current")
  BY DEF SwitchArrives
<1>2. /\ coming \in Seq(Calls) /\ coming # <<>> /\ Call = Head(coming) /\ Call \in Calls
      /\ Call.is = "current" /\ t \in Servers
      /\ coming' = Tail(coming) /\ UNCHANGED <<status, place, talks, foreground>>
      /\ FollowedBy(cache) /\ script = <<>>
      /\ place \in [Servers -> [ClientIds -> Here]]
      /\ \A u \in Servers : Traced(u, coming', status'[u], place'[u], talks'[u])
      /\ \A i \in Places(coming', Switching) :
           (\A j \in Places(coming', Switching) : j <= i) => coming'[i].tab = foreground'
      /\ Call \in Switching /\ Places(coming', Switching) = {} => t = foreground
  BY <1>1, Arriving
<1>3. /\ \A u : /\ Call \notin OwnMoves(u) /\ Call \notin News(u) /\ Call \notin Talk(u)
                /\ \A x : Call \notin Crossing(u, x)
      /\ Call \in Switching
  BY <1>2 DEF OwnMoves, News, Talk, Crossing, AnnMoves, Switching
<1>4. Kept(cache) /\ cache \in Contents /\ ch \in SaidChannels /\ g \in Gatherings
  BY <1>2, QueriesAnswered DEF FollowedBy, Kept
<1>5. t # NoServer
  BY <1>2, PluginAssumption
<1>6. ASSUME active' = t, NEW d, Awaited(d)', Kept(d),
             ~takenOver' => Shows(t, coming', d, status'[t], place'[t], talks'[t])
      PROVE  FollowInv'
  <2>1. FollowedBy(d)'
    BY <1>5, <1>6 DEF FollowedBy
  <2> HIDE DEF t
  <2> QED BY <1>2, <1>3, <1>6, <2>1 DEF FollowInv
<1>7. CASE t # active
  <2>1. OnCurrentServerChanged(t, ch, g) /\ active' = t
    BY <1>7 DEF SwitchArrives, Told, OnCurrentServerChanged
  <2>2. PICK up : up = SetConnection(Offline, "connected")
    OBVIOUS
  <2>3. PICK d : d = Resynchronise(up, ch, g)
    OBVIOUS
  <2>4. script' \in EndsIn(d)
    BY <1>2, <1>4, <2>1, <2>2, <2>3, CallbackEnds
  <2>5. Awaited(d)'
    BY <2>4 DEF Awaited
  <2>6. Kept(up) /\ ~Speaks(up)
    BY <2>2, OfflineKept, ConnectionSet DEF Connections
  <2>7. Kept(d) /\ Reread(d, status[t], place[t]) /\ ~Speaks(d)
    BY <1>2, <2>3, <2>6, RereadTab
  <2>8. Shows(t, coming', d, status'[t], place'[t], talks'[t])
    BY <1>2, <2>7, RereadSilent
  <2> QED BY <1>6, <2>1, <2>5, <2>7, <2>8
<1>8. CASE t = active
  <2>0. PICK c : c = cache
    OBVIOUS
  <2>1. UNCHANGED pluginVars /\ takenOver' = takenOver
    BY <1>8 DEF SwitchArrives, Returns
  <2>2. Awaited(c)' /\ active' = active
    BY <1>2, <2>0, <2>1, ReturnsAwaited
  <2>3. ASSUME ~takenOver'
        PROVE  Shows(t, coming', c, status'[t], place'[t], talks'[t])
    <3>1. Shows(t, coming, cache, status[t], place[t], talks[t])
      BY <1>2, <1>5, <1>8, <2>1, <2>3 DEF FollowedBy
    <3>2. Shows(t, Tail(coming), cache, status[t], place[t], talks[t])
      BY <1>2, <1>3, <3>1, ShowsStill
    <3> QED BY <1>2, <2>0, <3>2
  <2> QED BY <1>4, <1>6, <1>8, <2>0, <2>2, <2>3
<1> QED BY <1>7, <1>8

\* on_connect_status_changed().
LEMMA StatusFollowed == TabsTyped /\ FollowInv /\ StatusArrives => FollowInv'
<1> SUFFICES ASSUME TabsTyped, FollowInv, StatusArrives PROVE FollowInv'
  OBVIOUS
<1> DEFINE t == Call.tab
           k == Call.status
           ch == ChannelOf(t)
           g == GatheredOn(t)
<1>1. Arrives("status")
  BY DEF StatusArrives
<1>2. /\ coming \in Seq(Calls) /\ coming # <<>> /\ Call = Head(coming) /\ Call \in Calls
      /\ Call.is = "status" /\ t \in Servers /\ Call \in About(t)
      /\ coming' = Tail(coming) /\ UNCHANGED <<status, place, talks, foreground>>
      /\ FollowedBy(cache) /\ script = <<>>
      /\ place \in [Servers -> [ClientIds -> Here]]
      /\ \A u \in Servers : Traced(u, coming, status[u], place[u], talks[u])
      /\ \A u \in Servers : Traced(u, coming', status'[u], place'[u], talks'[u])
      /\ \A i \in Places(coming', Switching) :
           (\A j \in Places(coming', Switching) : j <= i) => coming'[i].tab = foreground'
      /\ \A S : Call \notin S /\ Places(coming', S) = {} => Places(coming, S) = {}
  BY <1>1, Arriving
<1>3. /\ \A u : /\ Call \notin OwnMoves(u) /\ Call \notin Talk(u)
                /\ \A x : Call \notin Crossing(u, x)
                /\ u # t => Call \notin News(u)
      /\ Call \in News(t) /\ Call \notin Switching /\ k \in Connections
  BY <1>2 DEF OwnMoves, News, Talk, Crossing, AnnMoves, Switching, About, Calls
<1>4. Kept(cache) /\ cache \in Contents /\ ch \in SaidChannels /\ g \in Gatherings
  BY <1>2, QueriesAnswered DEF FollowedBy, Kept
<1>5. /\ t # NoServer /\ active \in Servers \cup {NoServer}
      /\ Places(coming', Switching) = {} => Places(coming, Switching) = {}
  BY <1>2, <1>3, PluginAssumption DEF TabsTyped
<1>6. ASSUME NEW d, Awaited(d)', FollowedBy(d)', ~takenOver' => ~takenOver,
             ~takenOver' /\ active \in {NoServer, foreground} => active' \in {NoServer, foreground}
      PROVE  FollowInv'
  <2>1. (~takenOver /\ Places(coming, Switching) = {} => active \in {NoServer, foreground})'
    BY <1>2, <1>5, <1>6 DEF FollowInv
  <2> HIDE DEF t
  <2> QED BY <1>2, <1>6, <2>1 DEF FollowInv
<1>7. /\ 1 \in Places(coming, News(t)) /\ coming[1] = Call
      /\ \A i \in Places(coming, News(t)) : i \in Nat /\ 1 <= i
      /\ Places(Tail(coming), News(t)) = {} => \A i \in Places(coming, News(t)) : i = 1
  BY <1>2, <1>3, PlacesServed
<1>8. Places(coming', News(t)) = {} => Mapped(status'[t]) = k
  <2>1. Traced(t, coming, status[t], place[t], talks[t])
    BY <1>2
  <2> SUFFICES ASSUME Places(coming', News(t)) = {} PROVE Mapped(status'[t]) = k
    OBVIOUS
  <2>2. \A j \in Places(coming, News(t)) : j <= 1
    BY <1>2, <1>7
  <2> QED BY <1>2, <1>7, <2>1, <2>2 DEF Traced, NewsLast
<1>9. CASE ~Concerns(t, k)
  <2>0. PICK c : c = cache
    OBVIOUS
  <2>1. UNCHANGED pluginVars /\ takenOver' = takenOver /\ t # active /\ active # NoServer
    BY <1>9 DEF StatusArrives, Returns, Concerns
  <2>2. Awaited(c)' /\ active' = active
    BY <1>2, <2>0, <2>1, ReturnsAwaited
  <2>3. ASSUME ~takenOver'
        PROVE  Shows(active', coming', c, status'[active'], place'[active'], talks'[active'])
    <3>1. Shows(active, coming, cache, status[active], place[active], talks[active])
      BY <1>2, <2>1, <2>3 DEF FollowedBy
    <3>2. Shows(active, Tail(coming), cache, status[active], place[active], talks[active])
      BY <1>2, <1>3, <2>1, <3>1, ShowsStill
    <3> QED BY <1>2, <2>0, <2>2, <3>2
  <2>4. FollowedBy(c)'
    BY <1>4, <2>0, <2>1, <2>2, <2>3 DEF FollowedBy
  <2> HIDE DEF t, k
  <2> QED BY <1>6, <2>1, <2>2, <2>4
<1>10. Concerns(t, k) =>
         /\ OnConnectStatusChanged(t, k, ch, g)
         /\ takenOver' = (takenOver \/ (t # active /\ (active # NoServer \/ t # foreground)))
  BY DEF StatusArrives, Told
<1>11. CASE Concerns(t, k) /\ k = "connected"
  <2>1. /\ OnConnectStatusChanged(t, k, ch, g) /\ active' = t
        /\ ~takenOver' => ~takenOver /\ (t = active \/ (active = NoServer /\ t = foreground))
    BY <1>10, <1>11 DEF OnConnectStatusChanged
  <2>2. PICK now : now = SetConnection(cache, k)
    OBVIOUS
  <2>3. PICK d : d = Resynchronise(now, ch, g)
    OBVIOUS
  <2>4. script' \in EndsIn(d)
    BY <1>2, <1>3, <1>4, <1>11, <2>1, <2>2, <2>3, CallbackEnds
  <2>5. Awaited(d)'
    BY <2>4 DEF Awaited
  <2>6. Kept(now) /\ (Speaks(now) => Speaks(cache))
    BY <1>3, <1>4, <2>2, ConnectionSet
  <2>7. Kept(d) /\ Reread(d, status[t], place[t]) /\ (Speaks(d) => Speaks(now))
    BY <1>2, <2>3, <2>6, RereadTab
  <2>8. ASSUME ~takenOver' PROVE ~Speaks(cache)
    <3>1. CASE t = active
      <4>1. BreaksOff(t, coming, cache)
        BY <1>2, <1>5, <2>1, <2>8, <3>1 DEF FollowedBy, Shows
      <4> QED BY <1>7, <1>11, <4>1 DEF BreaksOff
    <3>2. CASE active = NoServer
      <4>1. cache.channel = NoChannel
        BY <1>2, <2>1, <2>8, <3>2 DEF FollowedBy
      <4> QED BY <1>4, <4>1, KeptRows
    <3> QED BY <2>1, <2>8, <3>1, <3>2
  <2>9. ~takenOver' => Shows(t, coming', d, status'[t], place'[t], talks'[t])
    BY <1>2, <2>6, <2>7, <2>8, RereadSilent
  <2>10. FollowedBy(d)'
    BY <1>5, <2>1, <2>7, <2>9 DEF FollowedBy
  <2> HIDE DEF t, k
  <2> QED BY <1>5, <1>6, <2>1, <2>5, <2>10
<1>12. CASE Concerns(t, k) /\ k # "connected"
  <2>1. /\ OnConnectStatusChanged(t, k, ch, g)
        /\ active' = IF k = "disconnected" /\ t = active THEN NoServer ELSE active
        /\ ~takenOver' => ~takenOver /\ (t = active \/ (active = NoServer /\ t = foreground))
    BY <1>10, <1>12 DEF OnConnectStatusChanged
  <2>2. PICK d : d = SetConnection(cache, k)
    OBVIOUS
  <2>3. script' \in EndsIn(d)
    BY <1>2, <1>3, <1>4, <1>12, <2>1, <2>2, CallbackEnds
  <2>4. Awaited(d)'
    BY <2>3 DEF Awaited
  <2>5. Kept(d) /\ d.channel = NoChannel /\ ~Speaks(d)
    BY <1>3, <1>4, <1>12, <2>2, ConnectionSet
  <2>6. ASSUME ~takenOver', active' = NoServer, Places(coming', Switching) = {},
               Mapped(status'[foreground']) = "connected"
        PROVE  Places(coming', News(foreground')) # {}
    <3>1. active \in {NoServer, foreground}
      BY <1>5, <2>1, <2>6 DEF FollowInv
    <3>2. t = foreground'
      BY <1>2, <1>5, <2>1, <2>6, <3>1
    <3> QED BY <1>8, <1>12, <2>6, <3>2
  <2>7. ASSUME ~takenOver', active' # NoServer
        PROVE  Shows(active', coming', d, status'[active'], place'[active'], talks'[active'])
    <3>1. active' = t
      BY <2>1, <2>7
    <3>2. Places(coming', News(t)) = {} => status'[t] # "established"
      BY <1>8, <1>12 DEF Mapped
    <3> QED BY <2>5, <3>1, <3>2, ShowsNothing
  <2>8. FollowedBy(d)'
    BY <2>5, <2>6, <2>7 DEF FollowedBy
  <2> HIDE DEF t, k
  <2> QED BY <1>6, <2>1, <2>4, <2>8
<1> QED BY <1>9, <1>11, <1>12

\* A step of the callback that runs brings the cache nearer to what it will
\* leave there, and no step but a refresh touches the cache.
LEMMA RefreshFollowed == TabsTyped /\ FollowInv /\ Refreshes => FollowInv'
<1> SUFFICES ASSUME TabsTyped, FollowInv, Refreshes PROVE FollowInv'
  OBVIOUS
<1>1. /\ script # <<>> /\ Head(script).do = "refresh" /\ script' = Tail(script)
      /\ cache' = Head(script).cache
      /\ UNCHANGED <<active, status, place, talks, foreground, coming, takenOver>>
  BY DEF Refreshes, RefreshCache, world, told
<1>2. PICK c : Awaited(c) /\ FollowedBy(c)
  BY DEF FollowInv
<1>3. Awaited(c)'
  <2>1. script \notin Seq(SendSteps)
    BY <1>1, EndApproached
  <2>2. script \in EndsIn(c)
    BY <1>2, <2>1 DEF Awaited
  <2>3. Tail(script) \in EndsIn(c) \/ (Tail(script) \in Seq(SendSteps) /\ Head(script).cache = c)
    BY <1>1, <2>2, EndApproached
  <2> QED BY <1>1, <2>3 DEF Awaited
<1>4. FollowedBy(c)'
  BY <1>1, <1>2 DEF FollowedBy
<1> QED BY <1>1, <1>3, <1>4 DEF FollowInv

\* A broadcast leaves the cache as it is.
LEMMA BroadcastFollowed == TabsTyped /\ FollowInv /\ Broadcasts => FollowInv'
<1> SUFFICES ASSUME TabsTyped, FollowInv, Broadcasts PROVE FollowInv'
  OBVIOUS
<1>1. /\ script # <<>> /\ Head(script).do = "send" /\ script' = Tail(script) /\ cache' = cache
      /\ UNCHANGED <<active, status, place, talks, foreground, coming, takenOver>>
  BY DEF Broadcasts, world
<1>2. PICK c : Awaited(c) /\ FollowedBy(c)
  BY DEF FollowInv
<1>3. Awaited(c)'
  <2>1. CASE script \in EndsIn(c)
    <3>1. Tail(script) \in EndsIn(c)
      BY <1>1, <2>1, EndApproached
    <3> QED BY <1>1, <3>1 DEF Awaited
  <2>2. CASE script \in Seq(SendSteps) /\ c = cache
    <3>1. Tail(script) \in Seq(SendSteps)
      BY <1>1, <2>2, EndApproached
    <3> QED BY <1>1, <2>2, <3>1 DEF Awaited
  <2> QED BY <1>2, <2>1, <2>2 DEF Awaited
<1>4. FollowedBy(c)'
  BY <1>1, <1>2 DEF FollowedBy
<1> QED BY <1>1, <1>3, <1>4 DEF FollowInv

\* Every step keeps the invariant.
LEMMA FollowStep == TabsInv /\ FollowInv /\ [TabsNext]_tabVars => FollowInv'
<1> SUFFICES ASSUME TabsInv, FollowInv, [TabsNext]_tabVars PROVE FollowInv'
  OBVIOUS
<1>1. TabsTyped
  BY DEF TabsInv
<1>2. CASE Happens
  <2>1. PICK t \in Servers :
          \/ Connects(t) \/ Establishes(t) \/ Disconnects(t) \/ ServerStops(t)
          \/ Moves(t) \/ Talks(t) \/ Subscribes(t) \/ SwitchesTo(t)
    BY <1>2 DEF Happens
  <2> QED BY <1>1, <2>1, HappeningFollowed
<1>3. CASE Arrival
  BY <1>1, <1>3, StatusFollowed, SelfMoveFollowed, MoveFollowed, TalkFollowed, StopFollowed,
     SubscriptionFollowed, SwitchFollowed DEF Arrival
<1>4. CASE Refreshes
  BY <1>1, <1>4, RefreshFollowed
<1>5. CASE Broadcasts
  BY <1>1, <1>5, BroadcastFollowed
<1>6. CASE UNCHANGED tabVars
  <2>1. UNCHANGED <<cache, script, active, status, place, talks, foreground, coming, takenOver>>
    BY <1>6 DEF tabVars, pluginVars, world, told
  <2>2. PICK c : Awaited(c) /\ FollowedBy(c)
    BY DEF FollowInv
  <2>3. Awaited(c)' /\ FollowedBy(c)'
    BY <2>1, <2>2 DEF Awaited, FollowedBy
  <2> QED BY <2>1, <2>3 DEF FollowInv
<1> QED BY <1>2, <1>3, <1>4, <1>5, <1>6 DEF TabsNext

\* At first no call is to come, and a roster is one that has just been read.
LEMMA FollowInit == TabsInit => FollowInv
<1> SUFFICES ASSUME TabsInit PROVE FollowInv
  OBVIOUS
<1> DEFINE f == foreground
           ch == ChannelOf(f)
           g == GatheredOn(f)
<1>1. /\ TabsTyped /\ coming = <<>> /\ script = <<>> /\ ~takenOver /\ f \in Servers
      /\ active = IF OwnKnown(f) THEN f ELSE NoServer
      /\ cache = IF OwnKnown(f)
                 THEN [users |-> g, channel |-> ch, connection |-> "connected"]
                 ELSE Offline
      /\ \A t \in Servers : ~talks[t]
      /\ status[f] = "established" => place[f][Me] \in Channels
      /\ status[f] \in {"disconnected", "established"}
  <2>1. TabsTyped /\ coming = <<>> /\ script = <<>> /\ ~takenOver /\ f \in Servers
    BY TabsInitInv DEF TabsInit, TabsInv
  <2>2. /\ active = IF OwnKnown(f) THEN f ELSE NoServer
        /\ cache = IF OwnKnown(f)
                   THEN [users |-> g, channel |-> ch, connection |-> "connected"]
                   ELSE Offline
    BY DEF TabsInit
  <2>3. (\A t \in Servers : ~talks[t]) /\ status[f] \in {"disconnected", "established"}
    BY DEF TabsInit
  <2>4. status[f] = "established" => place[f][Me] \in Channels
    BY <2>1, People DEF TabsInit
  <2> QED BY <2>1, <2>2, <2>3, <2>4
<1>2. \A S : Places(coming, S) = {}
  BY <1>1, EmptySeq DEF Places
<1>3. \A t \in Servers : Traced(t, coming, status[t], place[t], talks[t])
  BY <1>1, <1>2 DEF Traced, NewsLast, OnlyOnceThere, TalkBreaksOff, OwnLast, AnnLast, TalkLast
<1>4. Awaited(cache)
  BY <1>1, EmptySeq DEF Awaited
<1>5. f # NoServer
  BY <1>1, PluginAssumption
<1>6. CASE ~OwnKnown(f)
  <2>1. Mapped(status[f]) # "connected"
    BY <1>1, <1>6 DEF OwnKnown, Mapped
  <2>2. FollowedBy(cache)
    BY <1>1, <1>6, <2>1, OfflineKept DEF FollowedBy
  <2> QED BY <1>1, <1>2, <1>3, <1>4, <1>6, <2>2 DEF FollowInv
<1>7. CASE OwnKnown(f)
  <2>1. ch \in Channels /\ ch # NoChannel /\ ch # Unnamed
    BY <1>1, <1>7, ModelAssumption, PluginAssumption DEF ChannelOf, OwnKnown
  <2>2. PICK up : up = SetConnection(Offline, "connected")
    OBVIOUS
  <2>3. up = [users |-> <<>>, channel |-> NoChannel, connection |-> "connected"]
    BY <2>2 DEF SetConnection, Offline
  <2>4. Kept(up) /\ ~Speaks(up)
    BY <2>2, OfflineKept, ConnectionSet DEF Connections
  <2>5. PICK d : d = Resynchronise(up, ch, g)
    OBVIOUS
  <2>6. Kept(d) /\ Reread(d, status[f], place[f]) /\ ~Speaks(d)
    BY <1>1, <2>4, <2>5, RereadTab
  <2>7. \A p : KeepTalking(up, p) = p
    <3> SUFFICES ASSUME NEW p PROVE KeepTalking(up, p) = p
      OBVIOUS
    <3>1. Len(up.users) = 0
      BY <2>3, EmptySeq
    <3>2. BusyRow(up, p.uid) = 0
      BY <3>1 DEF BusyRow, SelectInSeq
    <3> QED BY <3>2 DEF KeepTalking
  <2>8. g \in Gatherings
    BY <1>1, QueriesAnswered DEF TabsTyped
  <2>9. g = [i \in DOMAIN g |-> g[i]]
    BY DEF GatheredOn
  <2>10. d = cache
    <3> HIDE DEF ch, g
    <3>1. d = [up EXCEPT !.channel = ch, !.users = [i \in DOMAIN g |-> KeepTalking(up, g[i])]]
      BY <2>1, <2>5 DEF Resynchronise
    <3>2. [i \in DOMAIN g |-> KeepTalking(up, g[i])] = g
      BY <2>7, <2>9
    <3>3. d = [users |-> g, channel |-> ch, connection |-> "connected"]
      BY <2>3, <3>1, <3>2
    <3> QED BY <1>1, <1>7, <3>3
  <2>11. Shows(f, coming, d, status[f], place[f], talks[f])
    BY <2>6, RereadSilent
  <2>12. FollowedBy(cache)
    BY <1>1, <1>5, <1>7, <2>6, <2>10, <2>11 DEF FollowedBy
  <2> QED BY <1>1, <1>2, <1>3, <1>4, <1>7, <2>12 DEF FollowInv
<1> QED BY <1>6, <1>7

\* The callbacks still to come always account for what the overlay does not
\* show yet of the tab that is followed.
THEOREM FollowInvariance == TabsSpec => []FollowInv
<1>1. TabsInit => FollowInv
  BY FollowInit
<1>2. TabsInv /\ FollowInv /\ [TabsNext]_tabVars => FollowInv'
  BY FollowStep
<1> QED BY <1>1, <1>2, TabsInvariance, PTL DEF TabsSpec

\* Once the callbacks have been served the overlay is told of the channel of
\* the tab the user is on and of exactly the people in it, once each, nobody
\* talks there who does not, and that tab is the one followed; unless a tab
\* that is not the user's has taken over.
THEOREM OverlayShowsTheTab == TabsSpec => []ShownIsTheTab
<1>1. TabsInv /\ FollowInv => ShownIsTheTab
  <2> SUFFICES ASSUME TabsInv, FollowInv, Settled, ~takenOver
               PROVE  /\ cache.channel = ChannelOf(foreground)
                      /\ {cache.users[i].cid : i \in DOMAIN cache.users} = PresentOn(foreground)
                      /\ Len(cache.users) = Cardinality(PresentOn(foreground))
                      /\ \A i \in DOMAIN cache.users :
                           cache.users[i].talking => cache.users[i].cid = Ann /\ talks[foreground]
                      /\ Mapped(status[foreground]) = "connected" => active = foreground
    BY DEF ShownIsTheTab
  <2> DEFINE f == foreground
             u == cache.users
             n == Len(u)
             there == PresentOn(f)
  <2>1. /\ f \in Servers /\ active \in {NoServer, f}
        /\ \A S : Places(coming, S) = {}
        /\ place[f] \in [ClientIds -> Here]
    <3>1. \A S : Places(coming, S) = {}
      BY EmptySeq DEF Places, Settled
    <3> QED BY <3>1 DEF FollowInv, TabsInv, TabsTyped
  <2>2. FollowedBy(cache) /\ Kept(cache)
    <3>1. PICK c : Awaited(c) /\ FollowedBy(c)
      BY DEF FollowInv
    <3>2. script \notin EndsIn(c)
      <4>1. DOMAIN script = {}
        BY EmptySeq DEF Settled
      <4> QED BY <4>1 DEF EndsIn
    <3> QED BY <3>1, <3>2 DEF Awaited, FollowedBy
  <2>3. /\ n \in Nat /\ DOMAIN u = 1..n
        /\ \A i \in 1..n : /\ u[i] \in UserState /\ u[i].cid \in ClientIds
                           /\ u[i].talking => u[i] = Speaking
        /\ \A i, j \in 1..n : u[i].cid = u[j].cid => i = j
        /\ \A x : Has(cache, x) => cache.channel # NoChannel
        /\ Speaks(cache) => cache.channel # NoChannel
    <3>1. \A i, j \in DOMAIN u : u[i].cid = u[j].cid => i = j
      BY <2>2 DEF Kept
    <3> QED BY <2>2, <3>1, KeptRows
  <2>4. /\ cache.channel = ChannelOf(f)
        /\ \A x \in ClientIds : Has(cache, x) <=> x \in there
        /\ Speaks(cache) => talks[f]
        /\ Mapped(status[f]) = "connected" => active = f
    <3>1. CASE active = NoServer
      <4>1. cache.channel = NoChannel /\ Mapped(status[f]) # "connected"
        BY <2>1, <2>2, <3>1 DEF FollowedBy
      <4>2. ChannelOf(f) = NoChannel
        BY <4>1 DEF ChannelOf, OwnKnown, Mapped
      <4> QED BY <2>3, <4>1, <4>2 DEF PresentOn
    <3>2. CASE active = f /\ active # NoServer
      <4>1. Shows(f, coming, cache, status[f], place[f], talks[f])
        BY <2>2, <3>2 DEF FollowedBy
      <4>2. CASE status[f] # "established"
        <5>1. cache.channel = NoChannel /\ ChannelOf(f) = NoChannel
          BY <2>1, <4>1, <4>2 DEF Shows, ChannelOf, OwnKnown
        <5> QED BY <2>3, <3>2, <5>1 DEF PresentOn
      <4>3. CASE status[f] = "established"
        <5>1. InChannel(f, coming, cache, place[f], talks[f])
          BY <2>1, <4>1, <4>3 DEF Shows
        <5>2. cache.channel = place[f][Me] /\ ChannelOf(f) = place[f][Me]
          BY <2>1, <4>3, <5>1 DEF InChannel, ChannelOf, OwnKnown
        <5>3. cache.channel # NoChannel =>
                /\ Has(cache, Me) /\ (Has(cache, Ann) <=> place[f][Ann] = cache.channel)
                /\ Speaks(cache) => talks[f]
          BY <2>1, <5>1 DEF InChannel
        <5>4. \A x \in ClientIds :
                x \in there <=> cache.channel # NoChannel /\ place[f][x] = cache.channel
          BY <5>2 DEF PresentOn
        <5> QED BY <2>3, <3>2, <5>2, <5>3, <5>4, People
      <4> QED BY <4>2, <4>3
    <3> QED BY <2>1, <3>1, <3>2
  <2>5. there \in SUBSET ClientIds
    BY DEF PresentOn
  <2> HIDE DEF f, u, n, there
  <2>6. \A x \in ClientIds : x \in there <=> \E i \in 1..n : u[i].cid = x
    BY <2>3, <2>4 DEF Has, u
  <2>7. {u[i].cid : i \in DOMAIN u} = there
    BY <2>3, <2>5, <2>6
  <2>8. Cardinality(there) = n
    <3> DEFINE ids == [i \in 1..n |-> u[i].cid]
    <3>1. ids \in [1..n -> there]
      BY <2>3, <2>6
    <3>2. \A i, j \in 1..n : ids[i] = ids[j] => i = j
      BY <2>3
    <3>3. \A x \in there : \E i \in 1..n : ids[i] = x
      BY <2>5, <2>6
    <3> HIDE DEF ids
    <3>4. ExistsBijection(1..n, there)
      BY <3>1, <3>2, <3>3 DEF ExistsBijection, Bijection, Injection, Surjection, IsInjective
    <3> QED BY <2>3, <3>4, FS_CountingElements
  <2>9. \A i \in DOMAIN u : u[i].talking => u[i].cid = Ann /\ talks[f]
    BY <2>3, <2>4, People DEF Speaks, u
  <2> QED BY <2>4, <2>7, <2>8, <2>9 DEF f, u, n, there
<1> QED BY <1>1, TabsInvariance, FollowInvariance, PTL
=============================================================================
