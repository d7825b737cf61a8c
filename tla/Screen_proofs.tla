--------------------------- MODULE Screen_proofs ---------------------------
(***************************************************************************)
(* What holds of the drawn screen for every configuration, roster, screen  *)
(* and batch of events: the properties that the run screen checks.         *)
(*                                                                         *)
(* First the orderings the model is built from, and an induction over the  *)
(* events of one frame; then the list of users, the queue of toasts and    *)
(* the block of title and list each on its own; then the invariant.        *)
(***************************************************************************)
EXTENDS Screen, SequenceTheorems, FunctionTheorems, FiniteSetTheorems,
        WellFoundedInduction, TLAPS

-----------------------------------------------------------------------------
(* Sets in order. *)

StrictOrder(S, R) ==
  /\ \A i \in S : <<i, i>> \notin R
  /\ \A i, j, k \in S : <<i, j>> \in R /\ <<j, k>> \in R => <<i, k>> \in R
  /\ \A i, j \in S : i = j \/ <<i, j>> \in R \/ <<j, i>> \in R

\* Each element has fewer before it than there are, and who comes later more.
LEMMA RankProperties ==
  ASSUME NEW S, NEW R, IsFiniteSet(S), StrictOrder(S, R)
  PROVE  /\ \A i \in S : Rank(S, R, i) \in 0..Cardinality(S) - 1
         /\ \A i, j \in S : <<i, j>> \in R => Rank(S, R, i) < Rank(S, R, j)
<1> DEFINE Below(i) == {j \in S : <<j, i>> \in R}
<1>1. \A i : IsFiniteSet(Below(i)) /\ Cardinality(Below(i)) \in Nat
  BY FS_Subset, FS_CardinalityType
<1>2. Cardinality(S) \in Nat
  BY FS_CardinalityType
<1>3. ASSUME NEW i \in S, NEW T \in SUBSET S, i \in T, Below(i) \subseteq T
      PROVE  Cardinality(Below(i)) < Cardinality(T)
  <2>1. i \notin Below(i)
    BY DEF StrictOrder
  <2> HIDE DEF Below
  <2>2. Cardinality(Below(i) \cup {i}) = Cardinality(Below(i)) + 1
    BY <1>1, <2>1, FS_AddElement
  <2>3. IsFiniteSet(T) /\ Cardinality(T) \in Nat
    BY FS_Subset, FS_CardinalityType
  <2>4. Cardinality(Below(i) \cup {i}) <= Cardinality(T)
    BY <1>3, <2>3, FS_Subset
  <2> QED BY <1>1, <2>2, <2>3, <2>4
<1>4. ASSUME NEW i \in S PROVE Rank(S, R, i) \in 0..Cardinality(S) - 1
  <2>1. Cardinality(Below(i)) < Cardinality(S)
    BY <1>3
  <2>2. Cardinality(Below(i)) \in Nat
    BY <1>1
  <2>3. Rank(S, R, i) = Cardinality(Below(i))
    BY DEF Rank
  <2> HIDE DEF Below
  <2> QED BY <1>2, <2>1, <2>2, <2>3
<1>5. ASSUME NEW i \in S, NEW j \in S, <<i, j>> \in R
      PROVE  Rank(S, R, i) < Rank(S, R, j)
  <2>1. Below(j) \in SUBSET S /\ i \in Below(j) /\ Below(i) \subseteq Below(j)
    BY <1>5 DEF StrictOrder
  <2>2. Cardinality(Below(i)) < Cardinality(Below(j))
    BY <1>3, <2>1
  <2> QED BY <2>2 DEF Rank
<1> QED BY <1>4, <1>5

\* InOrder lists every element once, each before those that come after it.
LEMMA InOrderLists ==
  ASSUME NEW S, NEW R, IsFiniteSet(S), StrictOrder(S, R)
  PROVE  /\ Cardinality(S) \in Nat
         /\ InOrder(S, R) \in [1..Cardinality(S) -> S]
         /\ \A i \in S : Rank(S, R, i) + 1 \in 1..Cardinality(S)
                           /\ InOrder(S, R)[Rank(S, R, i) + 1] = i
         /\ \A k, l \in 1..Cardinality(S) :
              k < l => <<InOrder(S, R)[k], InOrder(S, R)[l]>> \in R
<1> DEFINE n == Cardinality(S)
           f == [i \in S |-> Rank(S, R, i) + 1]
           r == InOrder(S, R)
<1>1. n \in Nat
  BY FS_CardinalityType
<1>2. \A i \in S : Rank(S, R, i) \in 0..n - 1
  BY RankProperties
<1>3. \A i, j \in S : <<i, j>> \in R => Rank(S, R, i) < Rank(S, R, j)
  BY RankProperties
<1> HIDE DEF n
<1>4. \A i, j \in S : Rank(S, R, i) = Rank(S, R, j) => i = j
  <2> SUFFICES ASSUME NEW i \in S, NEW j \in S, Rank(S, R, i) = Rank(S, R, j)
               PROVE  i = j
    OBVIOUS
  <2>1. ~(Rank(S, R, i) < Rank(S, R, j)) /\ ~(Rank(S, R, j) < Rank(S, R, i))
    BY <1>1, <1>2
  <2> QED BY <1>3, <2>1 DEF StrictOrder
<1>5. f \in [S -> 1..n]
  BY <1>1, <1>2
<1>6. \A i, j \in S : f[i] = f[j] => i = j
  BY <1>1, <1>2, <1>4
<1>7. f \in Injection(S, 1..n)
  <2> HIDE DEF f
  <2> QED BY <1>5, <1>6, Fun_IsInj
<1>8. IsFiniteSet(1..n) /\ Cardinality(1..n) = n
  BY <1>1, FS_Interval
<1>9. f \in Surjection(S, 1..n)
  <2> HIDE DEF f
  <2> QED BY <1>7, <1>8, FS_Injection DEF n
<1>10. \A k \in 1..n : \E i \in S : Rank(S, R, i) = k - 1
  <2>1. \A k \in 1..n : \E i \in S : f[i] = k
    <3> HIDE DEF f
    <3> QED BY <1>9, Fun_SurjectionProperties
  <2> QED BY <1>1, <1>2, <2>1
<1>11. \A k \in 1..n : r[k] \in S /\ Rank(S, R, r[k]) = k - 1
  BY <1>10 DEF InOrder, n
<1>12. r \in [1..n -> S]
  BY <1>11 DEF InOrder, n
<1>13. \A i \in S : Rank(S, R, i) + 1 \in 1..n /\ r[Rank(S, R, i) + 1] = i
  <2> SUFFICES ASSUME NEW i \in S PROVE Rank(S, R, i) + 1 \in 1..n /\ r[Rank(S, R, i) + 1] = i
    OBVIOUS
  <2> DEFINE k == Rank(S, R, i) + 1
  <2>1. k \in 1..n /\ k - 1 = Rank(S, R, i)
    BY <1>1, <1>2
  <2> HIDE DEF r
  <2>2. r[k] \in S /\ Rank(S, R, r[k]) = k - 1
    BY <1>11, <2>1
  <2> QED BY <1>4, <2>1, <2>2
<1>14. ASSUME NEW k \in 1..n, NEW l \in 1..n, k < l PROVE <<r[k], r[l]>> \in R
  <2> HIDE DEF r
  <2>1. r[k] \in S /\ r[l] \in S /\ Rank(S, R, r[k]) = k - 1 /\ Rank(S, R, r[l]) = l - 1
    BY <1>11
  <2>2. r[k] # r[l] /\ ~(Rank(S, R, r[l]) < Rank(S, R, r[k]))
    BY <1>1, <1>14, <2>1
  <2> QED BY <1>3, <2>1, <2>2 DEF StrictOrder
<1> QED BY <1>1, <1>12, <1>13, <1>14 DEF n

\* The numbers of an interval in ascending order: each follows from its place.
LEMMA AscendingInterval ==
  ASSUME NEW d \in Nat, NEW n \in Nat, d <= n
  PROVE  /\ Cardinality(d + 1..n) = n - d
         /\ Ascending(d + 1..n) \in [1..n - d -> d + 1..n]
         /\ \A k \in 1..n - d : Ascending(d + 1..n)[k] = d + k
<1> DEFINE S == d + 1..n
           R == {p \in S \X S : p[1] < p[2]}
<1>1. IsFiniteSet(S) /\ Cardinality(S) = n - d
  <2>1. d + 1 \in Int /\ n \in Int
    OBVIOUS
  <2>2. IsFiniteSet(S) /\ Cardinality(S) = IF d + 1 > n THEN 0 ELSE n - (d + 1) + 1
    BY <2>1, FS_Interval
  <2> QED BY <2>2
<1>2. StrictOrder(S, R)
  BY DEF StrictOrder
<1>3. ASSUME NEW i \in S PROVE Rank(S, R, i) = i - d - 1
  <2>1. {j \in S : <<j, i>> \in R} = d + 1..i - 1
    OBVIOUS
  <2>2. Cardinality(d + 1..i - 1) = i - d - 1
    BY FS_Interval
  <2> QED BY <2>1, <2>2 DEF Rank
<1>4. Ascending(S) = InOrder(S, R)
  BY DEF Ascending
<1> HIDE DEF R
<1>5. /\ InOrder(S, R) \in [1..Cardinality(S) -> S]
      /\ \A i \in S : InOrder(S, R)[Rank(S, R, i) + 1] = i
  <2> HIDE DEF S
  <2> QED BY <1>1, <1>2, InOrderLists
<1>6. ASSUME NEW k \in 1..n - d PROVE InOrder(S, R)[k] = d + k
  <2>1. d + k \in S /\ Rank(S, R, d + k) + 1 = k
    BY <1>3
  <2> QED BY <1>5, <2>1
<1> QED BY <1>1, <1>4, <1>5, <1>6

-----------------------------------------------------------------------------
(* Induction over the events of one frame. *)

\* A nonempty set of natural numbers has a least element.
LEMMA LeastExists ==
  ASSUME NEW T \in SUBSET Nat, T # {}
  PROVE  \E x \in T : \A y \in T : x <= y
<1> DEFINE Less == {p \in Nat \X Nat : p[1] < p[2]}
<1>1. IsWellFoundedOn(Less, Nat)
  BY NatLessThanWellFounded DEF OpToRel
<1> HIDE DEF Less
<1>2. PICK x \in T : \A y \in T : <<y, x>> \notin Less
  BY <1>1, WFMin
<1>3. \A y \in T : ~(y < x)
  BY <1>2 DEF Less
<1> QED BY <1>3

\* What holds at 0 and passes from each number to the next holds up to N.
LEMMA UpTo ==
  ASSUME NEW N \in Nat, NEW T, 0 \in T, \A n \in 0..N - 1 : n \in T => n + 1 \in T
  PROVE  \A n \in 0..N : n \in T
<1> DEFINE F == {n \in 0..N : n \notin T}
<1>1. SUFFICES ASSUME F # {} PROVE FALSE
  OBVIOUS
<1>2. F \in SUBSET Nat
  OBVIOUS
<1> HIDE DEF F
<1>3. PICK x \in F : \A y \in F : x <= y
  BY <1>1, <1>2, LeastExists
<1>4. x \in 0..N /\ x \notin T /\ x # 0
  BY <1>3 DEF F
<1>5. x - 1 \in 0..N - 1 /\ x - 1 \notin F
  BY <1>3, <1>4
<1>6. x - 1 \in T
  BY <1>4, <1>5 DEF F
<1>7. x \in T
  BY <1>4, <1>5, <1>6
<1> QED BY <1>4, <1>7

\* submit_events() stays within any set of queues that each of its events
\* stays within.
LEMMA SubmittedWithin ==
  ASSUME NEW Q, NEW q \in Q, NEW events, Len(events) \in Nat,
         \A x \in Q, n \in 1..Len(events) : Submit(x, events[n], cfg) \in Q
  PROVE  Submitted(q, events) \in Q
<1> DEFINE N == Len(events)
           Upto(k, g) == g = [n \in 0..k |->
                                IF n = 0 THEN q ELSE Submit(g[n - 1], events[n], cfg)]
           T == {k \in 0..N : \E g : Upto(k, g)}
           after == CHOOSE g : Upto(N, g)
<1> HIDE DEF N
<1>1. 0 \in T
  <2> DEFINE g == [n \in 0..0 |-> q]
  <2>1. Upto(0, g)
    OBVIOUS
  <2> HIDE DEF g
  <2> QED BY <2>1 DEF N
<1>2. ASSUME NEW k \in 0..N - 1, k \in T PROVE k + 1 \in T
  <2>1. PICK g : Upto(k, g)
    BY <1>2
  <2> DEFINE h == [n \in 0..k + 1 |->
                     IF n = k + 1 THEN Submit(g[k], events[k + 1], cfg) ELSE g[n]]
  <2>2. k \in Nat /\ N \in Nat /\ k + 1 \in 0..N
    BY DEF N
  <2>3. \A n \in 0..k + 1 :
           h[n] = IF n = 0 THEN q ELSE Submit(h[n - 1], events[n], cfg)
    <3> SUFFICES ASSUME NEW n \in 0..k + 1
                 PROVE  h[n] = IF n = 0 THEN q ELSE Submit(h[n - 1], events[n], cfg)
      OBVIOUS
    <3>1. CASE n = k + 1
      <4>1. h[n] = Submit(g[k], events[k + 1], cfg) /\ n # 0 /\ n - 1 = k /\ h[k] = g[k]
        BY <2>2, <3>1
      <4> HIDE DEF h
      <4> QED BY <3>1, <4>1
    <3>2. CASE n # k + 1
      <4>1. n \in 0..k /\ h[n] = g[n]
        BY <2>2, <3>2
      <4>2. g[n] = IF n = 0 THEN q ELSE Submit(g[n - 1], events[n], cfg)
        BY <2>1, <4>1
      <4>3. n # 0 => h[n - 1] = g[n - 1]
        BY <2>2, <4>1
      <4> HIDE DEF h
      <4> QED BY <4>1, <4>2, <4>3
    <3> QED BY <3>1, <3>2
  <2>4. h = [n \in 0..k + 1 |-> h[n]]
    OBVIOUS
  <2> HIDE DEF h
  <2>5. Upto(k + 1, h)
    BY <2>3, <2>4, Zenon
  <2> QED BY <2>2, <2>5
<1>3. N \in T
  <2> HIDE DEF T
  <2>1. \A n \in 0..N : n \in T
    BY <1>1, <1>2, UpTo DEF N
  <2> QED BY <2>1 DEF N
<1>4. Upto(N, after)
  BY <1>3
<1>5. \A n \in 0..N : after[n] = IF n = 0 THEN q ELSE Submit(after[n - 1], events[n], cfg)
  <2> HIDE DEF after
  <2> QED BY <1>4
<1>6. Submitted(q, events) = after[N]
  BY DEF Submitted, N
<1> HIDE DEF after
<1> DEFINE W == {n \in 0..N : after[n] \in Q}
<1>7. 0 \in W
  BY <1>5 DEF N
<1>8. \A n \in 0..N - 1 : n \in W => n + 1 \in W
  <2> SUFFICES ASSUME NEW n \in 0..N - 1, after[n] \in Q PROVE n + 1 \in W
    OBVIOUS
  <2>1. n + 1 \in 1..N /\ n + 1 \in 0..N /\ n + 1 # 0 /\ (n + 1) - 1 = n
    BY DEF N
  <2>2. after[n + 1] = Submit(after[n], events[n + 1], cfg)
    BY <1>5, <2>1
  <2>3. Submit(after[n], events[n + 1], cfg) \in Q
    BY <2>1 DEF N
  <2> QED BY <2>1, <2>2, <2>3
<1>9. N \in W
  <2> HIDE DEF W
  <2>1. \A n \in 0..N : n \in W
    BY <1>7, <1>8, UpTo DEF N
  <2> QED BY <2>1 DEF N
<1> QED BY <1>6, <1>9

-----------------------------------------------------------------------------
(* The list of users. *)

\* What order_users() gives stable_sort is a strict weak order, so that the
\* sort is defined at all.
LEMMA BeforeOrders ==
  ASSUME NEW c
  PROVE  /\ \A a \in User : ~Before(a, a, c)
         /\ \A a, b, d \in User : Before(a, b, c) /\ Before(b, d, c) => Before(a, d, c)
         /\ \A a, b, d \in User : Before(a, d, c) => Before(a, b, c) \/ Before(b, d, c)
<1>1. /\ \A a \in User : ~ByMode(a, a, c)
      /\ \A a, b, d \in User : ByMode(a, b, c) /\ ByMode(b, d, c) => ByMode(a, d, c)
      /\ \A a, b, d \in User : ByMode(a, d, c) => ByMode(a, b, c) \/ ByMode(b, d, c)
  BY DEF User, ByMode
<1> QED BY <1>1 DEF User, Before

\* Which of two toasts came earlier is such an order too.
LEMMA EarlierOrders ==
  ASSUME NEW c, NEW users \in Seq(User), NEW S \in SUBSET (DOMAIN users)
  PROVE  StrictOrder(S, {p \in S \X S :
            \/ Before(users[p[1]], users[p[2]], c)
            \/ ~Before(users[p[2]], users[p[1]], c) /\ p[1] < p[2]})
<1> DEFINE E(i, j) == \/ Before(users[i], users[j], c)
                      \/ ~Before(users[j], users[i], c) /\ i < j
           B(i, j) == Before(users[i], users[j], c)
<1>1. \A i \in S : i \in Nat /\ users[i] \in User
  BY LenProperties, ElementOfSeq
<1>2. /\ \A i \in S : ~B(i, i)
      /\ \A i, j, k \in S : B(i, j) /\ B(j, k) => B(i, k)
      /\ \A i, j, k \in S : B(i, k) => B(i, j) \/ B(j, k)
  BY <1>1, BeforeOrders
<1> HIDE DEF B
<1>3. \A i, j \in S : E(i, j) <=> B(i, j) \/ (~B(j, i) /\ i < j)
  BY DEF B
<1> HIDE DEF E
<1>4. /\ \A i \in S : ~E(i, i)
      /\ \A i, j \in S : i = j \/ E(i, j) \/ E(j, i)
  BY <1>1, <1>2, <1>3
<1>5. \A i, j, k \in S : E(i, j) /\ E(j, k) => E(i, k)
  <2> SUFFICES ASSUME NEW i \in S, NEW j \in S, NEW k \in S, E(i, j), E(j, k)
               PROVE  E(i, k)
    OBVIOUS
  <2>1. B(i, j) \/ (~B(j, i) /\ i < j)
    BY <1>3
  <2>2. B(j, k) \/ (~B(k, j) /\ j < k)
    BY <1>3
  <2>3. B(i, k) \/ (~B(k, i) /\ i < k)
    BY <1>1, <1>2, <2>1, <2>2
  <2> QED BY <1>3, <2>3
<1> DEFINE R == {p \in S \X S : E(p[1], p[2])}
<1>6. \A i, j \in S : <<i, j>> \in R <=> E(i, j)
  OBVIOUS
<1> HIDE DEF R
<1>7. StrictOrder(S, R)
  BY <1>4, <1>5, <1>6 DEF StrictOrder
<1> QED BY <1>7 DEF R, E

\* order_users() lists exactly whom the configuration lists, each speaker
\* behind speakers only where they come first.
LEMMA OrderUsersLists ==
  ASSUME NEW c, NEW users \in Seq(User)
  PROVE  /\ OrderUsers(users, c) \in Seq(User)
         /\ Len(OrderUsers(users, c)) <= Len(users)
         /\ \A k \in 1..Len(OrderUsers(users, c)) :
              \E i \in 1..Len(users) : OrderUsers(users, c)[k] = users[i]
         /\ \A i \in 1..Len(users) : Listed(users[i], c) =>
              \E k \in 1..Len(OrderUsers(users, c)) :
                /\ OrderUsers(users, c)[k] = users[i]
                /\ SpeakingFirst(c) /\ users[i].talking =>
                     \A l \in 1..k - 1 : OrderUsers(users, c)[l].talking
<1> DEFINE S == {i \in DOMAIN users : Listed(users[i], c)}
           R == {p \in S \X S : \/ Before(users[p[1]], users[p[2]], c)
                                \/ ~Before(users[p[2]], users[p[1]], c) /\ p[1] < p[2]}
           order == InOrder(S, R)
           n == Cardinality(S)
           out == [k \in 1..n |-> users[order[k]]]
<1>1. Len(users) \in Nat /\ DOMAIN users = 1..Len(users)
  BY LenProperties
<1>2. IsFiniteSet(S)
  <2>1. IsFiniteSet(1..Len(users))
    BY <1>1, FS_Interval
  <2> QED BY <1>1, <2>1, FS_Subset
<1>11. n <= Len(users)
  <2> DEFINE l == Len(users)
  <2>1. IsFiniteSet(1..l) /\ Cardinality(1..l) = l
    <3>1. l \in Nat /\ l \in Int /\ 1 \in Int
      BY <1>1
    <3> HIDE DEF l
    <3>2. IsFiniteSet(1..l) /\ Cardinality(1..l) = IF 1 > l THEN 0 ELSE l - 1 + 1
      BY <3>1, FS_Interval
    <3> QED BY <3>1, <3>2
  <2>2. S \subseteq 1..Len(users)
    BY <1>1
  <2> HIDE DEF S
  <2> QED BY <2>1, <2>2, FS_Subset
<1>3. StrictOrder(S, R)
  BY EarlierOrders
<1> HIDE DEF R
<1>4. /\ n \in Nat /\ order \in [1..n -> S]
      /\ \A i \in S : Rank(S, R, i) + 1 \in 1..n /\ order[Rank(S, R, i) + 1] = i
      /\ \A k, l \in 1..n : k < l => <<order[k], order[l]>> \in R
  <2> HIDE DEF S
  <2> QED BY <1>2, <1>3, InOrderLists
<1>5. OrderUsers(users, c) = out
  <2>1. order \in [1..n -> S]
    BY <1>4
  <2>2. DOMAIN order = 1..n
    <3> HIDE DEF order, n, S
    <3> QED BY <2>1
  <2>3. OrderUsers(users, c) = [k \in DOMAIN order |-> users[order[k]]]
    BY DEF OrderUsers, R
  <2> HIDE DEF order, n, S
  <2> QED BY <2>2, <2>3
<1>6. ASSUME NEW i \in S PROVE i \in 1..Len(users) /\ Listed(users[i], c) /\ users[i] \in User
  BY <1>1, ElementOfSeq
<1> HIDE DEF order, n, S
<1>7. \A k \in 1..n : order[k] \in S /\ out[k] = users[order[k]]
  BY <1>4
<1>8. out \in Seq(User) /\ Len(out) = n
  BY <1>4, <1>6, <1>7
<1>9. ASSUME NEW i \in 1..Len(users), Listed(users[i], c)
      PROVE  \E k \in 1..n :
                /\ out[k] = users[i]
                /\ SpeakingFirst(c) /\ users[i].talking => \A l \in 1..k - 1 : out[l].talking
  <2>1. i \in S
    BY <1>1, <1>9 DEF S
  <2> DEFINE k == Rank(S, R, i) + 1
  <2>2. k \in 1..n /\ order[k] = i
    BY <1>4, <2>1
  <2> HIDE DEF k
  <2>3. out[k] = users[i]
    BY <1>7, <2>2
  <2>4. ASSUME SpeakingFirst(c), users[i].talking, NEW l \in 1..k - 1
        PROVE  out[l].talking
    <3>1. l \in 1..n /\ l < k
      BY <1>4, <2>2
    <3>2. <<order[l], i>> \in R
      BY <1>4, <2>2, <3>1
    <3>3. \/ Before(users[order[l]], users[i], c)
          \/ ~Before(users[i], users[order[l]], c)
      BY <3>2 DEF R
    <3>4. users[order[l]] \in User /\ users[i] \in User
      BY <1>6, <1>7, <2>1, <3>1
    <3>5. users[order[l]].talking
      BY <2>4, <3>3, <3>4 DEF Before, User
    <3> QED BY <1>7, <3>1, <3>5
  <2> QED BY <2>2, <2>3, <2>4
<1>10. ASSUME NEW k \in 1..n PROVE \E i \in 1..Len(users) : out[k] = users[i]
  BY <1>6, <1>7
<1> HIDE DEF out
<1> QED BY <1>5, <1>8, <1>9, <1>10, <1>11

\* The rows of a layout: no more than fit, all of them users of the state, and
\* no speaker left out for anybody silent.
ShowsSpeakers(rows, users, c) ==
  /\ Range(rows) \subseteq Range(users)
  /\ SpeakingFirst(c) =>
       \A u \in Range(users) :
          u.talking /\ Listed(u, c) =>
             \/ u \in Range(rows)
             \/ /\ Len(rows) = c.max_visible_users
                /\ \A k \in DOMAIN rows : rows[k].talking

\* The rows of a layout are users, as many as fit, and nobody talking goes
\* missing while one who is silent is listed.
LEMMA RowsFit ==
  ASSUME NEW c, c.max_visible_users \in Nat, NEW s, s.users \in Seq(User)
  PROVE  /\ Rows(s, c) \in Seq(User)
         /\ Len(Rows(s, c)) <= c.max_visible_users
         /\ VisibleRows(s, c) \in Nat
         /\ s.live \/ s.users = <<>> => ShowsSpeakers(Rows(s, c), s.users, c)
<1> DEFINE o == OrderUsers(s.users, c)
           m == Least(c.max_visible_users, Len(o))
           r == SubSeq(o, 1, m)
<1>1. /\ o \in Seq(User) /\ Len(o) \in Nat
      /\ \A k \in 1..Len(o) : \E i \in 1..Len(s.users) : o[k] = s.users[i]
      /\ \A i \in 1..Len(s.users) : Listed(s.users[i], c) =>
           \E k \in 1..Len(o) :
             /\ o[k] = s.users[i]
             /\ SpeakingFirst(c) /\ s.users[i].talking => \A l \in 1..k - 1 : o[l].talking
  BY OrderUsersLists, LenProperties
<1>2. /\ Len(s.users) \in Nat /\ DOMAIN s.users = 1..Len(s.users)
      /\ Range(s.users) = {s.users[i] : i \in 1..Len(s.users)}
  BY LenProperties, RangeEquality
<1> HIDE DEF o
<1>3. m \in 0..Len(o) /\ m <= c.max_visible_users /\ (m = Len(o) \/ m = c.max_visible_users)
  BY <1>1 DEF Least
<1> HIDE DEF m
<1>4. /\ r \in Seq(User) /\ Len(r) = m /\ \A k \in 1..m : r[k] = o[k]
  <2>1. \A k \in 1..m : o[k] \in User
    BY <1>1, <1>3, ElementOfSeq
  <2>2. 1 \in Int /\ m \in Int
    BY <1>1, <1>3
  <2>3. /\ r \in Seq(User) /\ Len(r) = (IF 1 <= m THEN m - 1 + 1 ELSE 0)
        /\ \A k \in 1..m - 1 + 1 : r[k] = o[1 + k - 1]
    BY <2>1, <2>2, SubSeqProperties
  <2> QED BY <1>1, <1>3, <2>3
<1> HIDE DEF r
<1>5. s.live => Rows(s, c) = r
  BY DEF Rows, o, m, r
<1>6. ~s.live => Rows(s, c) = <<>>
  BY DEF Rows
<1>7. <<>> \in Seq(User) /\ Len(<<>>) = 0
  BY EmptySeq
<1>8. /\ Rows(s, c) \in Seq(User)
      /\ Len(Rows(s, c)) <= c.max_visible_users
  <2>1. CASE s.live
    BY <1>3, <1>4, <1>5, <2>1
  <2>2. CASE ~s.live
    <3>1. Rows(s, c) = <<>>
      BY <1>6, <2>2
    <3>2. 0 <= c.max_visible_users
      OBVIOUS
    <3>3. Len(Rows(s, c)) <= c.max_visible_users
      BY <1>7, <3>1, <3>2
    <3>4. Rows(s, c) \in Seq(User)
      BY <1>7, <3>1
    <3> QED BY <3>3, <3>4
  <2> QED BY <2>1, <2>2
<1>9. VisibleRows(s, c) \in Nat
  <2>1. Len(Rows(s, c)) \in Nat
    BY <1>8, LenProperties
  <2> QED BY <2>1 DEF VisibleRows
<1>10. ASSUME s.live PROVE ShowsSpeakers(r, s.users, c)
  <2>1. DOMAIN r = 1..m /\ Range(r) = {r[k] : k \in 1..m}
    BY <1>4, LenProperties, RangeEquality
  <2>2. \A k \in 1..m : k \in 1..Len(o)
    BY <1>1, <1>3
  <2>3. Range(r) \subseteq Range(s.users)
    <3> SUFFICES ASSUME NEW k \in 1..m PROVE r[k] \in Range(s.users)
      BY <2>1
    <3>1. r[k] = o[k] /\ k \in 1..Len(o)
      BY <1>4, <2>2
    <3>2. PICK i \in 1..Len(s.users) : o[k] = s.users[i]
      BY <1>1, <3>1
    <3> QED BY <1>2, <3>1, <3>2
  <2>4. ASSUME SpeakingFirst(c), NEW i \in 1..Len(s.users), s.users[i].talking,
               Listed(s.users[i], c), s.users[i] \notin Range(r)
        PROVE  /\ Len(r) = c.max_visible_users
               /\ \A k \in DOMAIN r : r[k].talking
    <3>1. PICK k \in 1..Len(o) :
             o[k] = s.users[i] /\ \A l \in 1..k - 1 : o[l].talking
      BY <1>1, <2>4
    <3>2. k \notin 1..m
      BY <1>4, <2>1, <2>4, <3>1
    <3>3. m = c.max_visible_users /\ \A l \in 1..m : l \in 1..k - 1
      BY <1>1, <1>3, <3>2
    <3> QED BY <1>4, <2>1, <3>1, <3>3
  <2> QED BY <1>2, <2>3, <2>4 DEF ShowsSpeakers
<1>11. ASSUME s.users = <<>>, ~s.live PROVE ShowsSpeakers(<<>>, s.users, c)
  <2>1. Range(<<>>) = {}
    BY <1>11, <1>2, EmptySeq
  <2> QED BY <1>11, <2>1 DEF ShowsSpeakers
<1> QED BY <1>5, <1>6, <1>8, <1>9, <1>10, <1>11

\* The preview's rows: its one user, or nobody if there is no room for him.
LEMMA PreviewRows ==
  ASSUME NEW c, c.max_visible_users \in Nat
  PROVE  Rows(PreviewState, c) \in {<<Alice>>, <<>>}
<1> DEFINE u == <<Alice>>
           o == OrderUsers(u, c)
           m == Least(c.max_visible_users, Len(o))
<1>1. Alice \in User
  BY DEF Alice, User
<1>2. u \in Seq(User) /\ Len(u) = 1 /\ u[1] = Alice
  BY <1>1
<1>3. Rows(PreviewState, c) = SubSeq(o, 1, m)
  BY DEF Rows, PreviewState
<1> HIDE DEF u
<1>4. /\ o \in Seq(User) /\ Len(o) \in 0..1
      /\ \A k \in 1..Len(o) : o[k] = Alice
  <2>1. /\ o \in Seq(User) /\ Len(o) <= Len(u)
        /\ \A k \in 1..Len(o) : \E i \in 1..Len(u) : o[k] = u[i]
    BY <1>2, OrderUsersLists
  <2>2. \A i \in 1..Len(u) : u[i] = Alice
    BY <1>2
  <2> HIDE DEF o
  <2>3. Len(o) \in Nat
    BY <2>1, LenProperties
  <2> QED BY <1>2, <2>1, <2>2, <2>3
<1> HIDE DEF o
<1>5. Len(o) \in 0..1
  BY <1>4
<1>6. m = 0 \/ (m = 1 /\ Len(o) = 1)
  <2> DEFINE v == c.max_visible_users
             l == Len(o)
  <2>1. v \in Nat /\ l \in 0..1
    BY <1>5
  <2>2. m = IF v < l THEN v ELSE l
    BY DEF Least
  <2> HIDE DEF m, v, l
  <2>3. m = 0 \/ (m = 1 /\ l = 1)
    BY <2>1, <2>2
  <2> QED BY <2>3 DEF l
<1> HIDE DEF m
<1>7. CASE m = 0
  <2>1. SubSeq(o, 1, 0) = <<>>
    BY SubSeqEmpty
  <2> QED BY <1>3, <1>7, <2>1
<1>8. CASE m = 1 /\ Len(o) = 1
  <2> DEFINE r == SubSeq(o, 1, 1)
  <2>1. \A k \in 1..1 : o[k] \in User /\ o[k] = Alice
    BY <1>1, <1>4, <1>8
  <2>2. /\ r \in Seq(User) /\ Len(r) = (IF 1 <= 1 THEN 1 - 1 + 1 ELSE 0)
        /\ \A k \in 1..1 - 1 + 1 : r[k] = o[1 + k - 1]
    BY <2>1, SubSeqProperties
  <2> HIDE DEF r
  <2>3. Len(r) = 1 /\ \A k \in 1..1 : r[k] = Alice
    BY <2>1, <2>2
  <2>4. r = u
    <3>1. Len(u) = 1 /\ \A k \in 1..1 : u[k] = Alice
      BY <1>2
    <3> QED BY <1>2, <2>2, <2>3, <3>1, SeqEqual
  <2> QED BY <1>3, <1>8, <2>4 DEF r, u
<1> QED BY <1>6, <1>7, <1>8
-----------------------------------------------------------------------------
(* The queue of toasts. *)

OldestFirst(items) == \A i, j \in 1..Len(items) : i < j => items[i].age >= items[j].age

\* What the renderer's queue may be under a configuration.
Waiting(c) ==
  {q \in [items : Seq(Toast), since : 0..Suppress] :
     Len(q.items) <= c.max_visible /\ OldestFirst(q.items)}

Plain(items) == \A i \in 1..Len(items) : ~items[i].sample

NewToast(e) == [kind |-> e.kind, sample |-> e.sample, age |-> 0, phase |-> "FadeIn"]

\* An added toast renews the last one, or comes last and pushes out the first
\* if there is no room.
Renewed(items, e, r) ==
  /\ Len(items) > 0 /\ Len(r) = Len(items)
  /\ SameText(items[Len(items)], e)
  /\ \A k \in 1..Len(items) - 1 : r[k] = items[k]
  /\ r[Len(items)] = [items[Len(items)] EXCEPT !.age = 0, !.phase = "Visible"]

Pushed(d, items, e, r, c) ==
  /\ Len(r) = Len(items) + 1 - d
  /\ d = 1 => Len(r) = c.max_visible
  /\ \A k \in 1..Len(items) - d : r[k] = items[k + d]
  /\ Len(items) + 1 - d > 0 => r[Len(items) + 1 - d] = NewToast(e)

\* A toast that is added goes last, and the oldest leaves if there was no room.
LEMMA AddedShape ==
  ASSUME NEW c, c.max_visible \in Nat, NEW items \in Seq(Toast),
         Len(items) <= c.max_visible, NEW e \in Events
  PROVE  /\ Added(items, e, c) \in Seq(Toast) /\ Len(Added(items, e, c)) <= c.max_visible
         /\ \/ Renewed(items, e, Added(items, e, c))
            \/ Pushed(0, items, e, Added(items, e, c), c)
            \/ Pushed(1, items, e, Added(items, e, c), c)
<1> DEFINE r == Added(items, e, c)
           n == Len(items)
           t == NewToast(e)
<1>1. n \in Nat /\ 0 \in 0..Life
  BY LenProperties, PhasesInOrder
<1>2. t \in Toast
  BY <1>1 DEF Events, Toast, NewToast
<1>3. CASE Merges(items, e)
  <2>1. n > 0 /\ SameText(items[n], e)
    BY <1>1, <1>3, EmptySeq DEF Merges
  <2>2. items[n] \in Toast
    BY <1>1, <2>1, ElementOfSeq
  <2> DEFINE u == [items[n] EXCEPT !.age = 0, !.phase = "Visible"]
  <2>3. u \in Toast
    BY <1>1, <2>2 DEF Toast
  <2>4. r = [items EXCEPT ![n] = u]
    BY <1>1, <1>3, <2>1, LenProperties DEF Added
  <2> HIDE DEF r, u
  <2>5. r \in Seq(Toast) /\ Len(r) = n /\ \A j \in 1..n : r[j] = IF j = n THEN u ELSE items[j]
    BY <1>1, <2>1, <2>3, <2>4, ExceptSeq
  <2>6. Renewed(items, e, r)
    BY <1>1, <2>1, <2>5 DEF Renewed, u
  <2> QED BY <2>5, <2>6 DEF r
<1>4. CASE ~Merges(items, e)
  <2> DEFINE all == Append(items, t)
  <2>1. /\ all \in Seq(Toast) /\ Len(all) = n + 1 /\ all[n + 1] = t
        /\ \A k \in 1..n : all[k] = items[k]
    BY <1>2, AppendProperties
  <2>2. r = Evicted(all, c)
    BY <1>4 DEF Added, NewToast
  <2>3. CASE n + 1 <= c.max_visible
    <3>1. r = all
      BY <1>1, <2>1, <2>2, <2>3 DEF Evicted
    <3> HIDE DEF r, all
    <3>2. Pushed(0, items, e, r, c)
      BY <1>1, <2>1, <3>1 DEF Pushed
    <3> QED BY <2>1, <2>3, <3>1, <3>2 DEF r
  <2>4. CASE n = c.max_visible
    <3>1. r = SubSeq(all, 2, n + 1)
      <4>1. n + 1 - n + 1 = 2 /\ n + 1 > n
        BY <1>1
      <4>2. Len(all) > c.max_visible /\ Len(all) - c.max_visible + 1 = 2
        BY <2>1, <2>4, <4>1
      <4>3. r = SubSeq(all, Len(all) - c.max_visible + 1, Len(all))
        BY <2>2, <4>2 DEF Evicted
      <4> HIDE DEF r, all
      <4> QED BY <2>1, <4>2, <4>3
    <3>2. \A k \in 2..n + 1 : all[k] \in Toast
      <4>1. \A k \in 2..n + 1 : k \in 1..Len(all)
        BY <1>1, <2>1
      <4> QED BY <2>1, <4>1, ElementOfSeq
    <3>3. 2 \in Int /\ n + 1 \in Int
      BY <1>1
    <3> HIDE DEF all, r
    <3>4. /\ r \in Seq(Toast)
          /\ Len(r) = IF 2 <= n + 1 THEN n + 1 - 2 + 1 ELSE 0
          /\ \A k \in 1..n + 1 - 2 + 1 : r[k] = all[2 + k - 1]
      BY <3>1, <3>2, <3>3, SubSeqProperties
    <3>5. Len(r) = n /\ \A k \in 1..n : r[k] = all[k + 1]
      BY <1>1, <3>4
    <3>6. /\ \A k \in 1..n - 1 : r[k] = items[k + 1]
          /\ n > 0 => r[n] = t
      BY <1>1, <2>1, <3>5
    <3>7. Pushed(1, items, e, r, c)
      BY <1>1, <2>4, <3>5, <3>6 DEF Pushed
    <3> QED BY <2>4, <3>4, <3>5, <3>7 DEF r
  <2> QED BY <1>1, <2>3, <2>4
<1> QED BY <1>3, <1>4

\* One queue after another: the first `gone` toasts have been pushed out, as
\* many being shown as may; what was behind them comes first, no older, and
\* what comes after that is new.
FollowsBy(gone, old, new, c) ==
  /\ gone \in 0..Len(old)
  /\ gone > 0 => Len(new) = c.max_visible
  /\ \A i \in gone + 1..Len(old) :
       /\ i - gone \in 1..Len(new)
       /\ SameText(new[i - gone], old[i])
       /\ new[i - gone].age <= old[i].age
  /\ \A j \in 1..Len(new) : j > Len(old) - gone => new[j].age = 0

Follows(old, new, c) == \E gone \in 0..Len(old) : FollowsBy(gone, old, new, c)

\* A queue that nothing happens to follows itself.
LEMMA FollowsItself ==
  ASSUME NEW c, NEW items \in Seq(Toast)
  PROVE  Follows(items, items, c)
<1>1. Len(items) \in Nat
  BY LenProperties
<1>2. \A i \in 1..Len(items) : items[i] \in Toast
  BY ElementOfSeq
<1>3. FollowsBy(0, items, items, c)
  BY <1>1, <1>2, PhasesInOrder DEF FollowsBy, SameText, Toast
<1> QED BY <1>1, <1>3 DEF Follows

\* Adding a toast keeps the oldest first, keeps what is plain plain, and
\* follows whatever the queue before it follows.
LEMMA AddedKeeps ==
  ASSUME NEW c, c.max_visible \in Nat, NEW items \in Seq(Toast),
         Len(items) <= c.max_visible, OldestFirst(items), NEW e \in Events
  PROVE  /\ OldestFirst(Added(items, e, c))
         /\ Plain(items) /\ ~e.sample => Plain(Added(items, e, c))
         /\ \A old \in Seq(Toast) : Follows(old, items, c) => Follows(old, Added(items, e, c), c)
<1> DEFINE r == Added(items, e, c)
           n == Len(items)
<1>1. /\ r \in Seq(Toast) /\ Len(r) <= c.max_visible
      /\ Renewed(items, e, r) \/ \E d \in {0, 1} : Pushed(d, items, e, r, c)
  BY AddedShape
<1>2. n \in Nat /\ Len(r) \in Nat
  BY <1>1, LenProperties
<1>3. \A i \in 1..n : items[i] \in Toast
  BY ElementOfSeq
<1> HIDE DEF r
<1>4. \A i \in 1..n : items[i].age \in Nat
  BY <1>3, PhasesInOrder DEF Toast
<1>5. ASSUME Renewed(items, e, r)
      PROVE  /\ n > 0 /\ Len(r) = n /\ r[n].age = 0
             /\ \A k \in 1..n - 1 : r[k] = items[k]
             /\ \A k \in 1..n : r[k].sample = items[k].sample /\ r[k].kind = items[k].kind
             /\ \A k \in 1..n : r[k].age = items[k].age \/ r[k].age = 0
  <2>1. /\ n > 0 /\ Len(r) = n
        /\ \A k \in 1..n - 1 : r[k] = items[k]
        /\ r[n] = [items[n] EXCEPT !.age = 0, !.phase = "Visible"]
    BY <1>5 DEF Renewed
  <2>2. items[n] \in Toast
    BY <1>2, <1>3, <2>1
  <2>3. r[n].age = 0 /\ r[n].kind = items[n].kind /\ r[n].sample = items[n].sample
    BY <2>1, <2>2 DEF Toast
  <2>4. \A k \in 1..n : k = n \/ k \in 1..n - 1
    BY <1>2
  <2> QED BY <2>1, <2>3, <2>4
<1>6. ASSUME NEW d \in {0, 1}, Pushed(d, items, e, r, c)
      PROVE  /\ Len(r) = n + 1 - d
             /\ d = 1 => Len(r) = c.max_visible
             /\ \A k \in 1..n - d : r[k] = items[k + d] /\ k + d \in 1..n
             /\ \A k \in 1..Len(r) :
                  k \in 1..n - d \/ (r[k].age = 0 /\ r[k].sample = e.sample /\ k = n + 1 - d)
  <2>1. /\ Len(r) = n + 1 - d
        /\ d = 1 => Len(r) = c.max_visible
        /\ \A k \in 1..n - d : r[k] = items[k + d]
        /\ n + 1 - d > 0 => r[n + 1 - d] = NewToast(e)
    BY <1>6 DEF Pushed
  <2>2. \A k \in 1..n - d : k + d \in 1..n
    BY <1>2
  <2>3. \A k \in 1..Len(r) : k \in 1..n - d \/ (k = n + 1 - d /\ n + 1 - d > 0)
    BY <1>2, <2>1
  <2>4. NewToast(e).age = 0 /\ NewToast(e).sample = e.sample
    BY DEF NewToast
  <2> QED BY <2>1, <2>2, <2>3, <2>4
<1>7. OldestFirst(r)
  <2> SUFFICES ASSUME NEW i \in 1..Len(r), NEW j \in 1..Len(r), i < j
               PROVE  r[i].age >= r[j].age
    BY DEF OldestFirst
  <2>1. CASE Renewed(items, e, r)
    <3>1. i \in 1..n - 1 /\ i \in 1..n /\ (j = n \/ j \in 1..n - 1) /\ j \in 1..n
      BY <1>2, <1>5, <2>1
    <3>2. r[i] = items[i] /\ items[i].age \in Nat
      BY <1>4, <1>5, <2>1, <3>1
    <3>3. CASE j = n
      <4>1. r[j].age = 0
        BY <1>5, <2>1, <3>3
      <4> QED BY <3>2, <4>1
    <3>4. CASE j \in 1..n - 1
      <4>1. r[j] = items[j]
        BY <1>5, <2>1, <3>4
      <4> QED BY <3>1, <3>2, <4>1 DEF OldestFirst
    <3> QED BY <3>1, <3>3, <3>4
  <2>2. ASSUME NEW d \in {0, 1}, Pushed(d, items, e, r, c) PROVE r[i].age >= r[j].age
    <3>1. i \in 1..n - d
      <4>1. Len(r) = n + 1 - d
        BY <1>6, <2>2
      <4> QED BY <1>2, <4>1
    <3>2. r[i] = items[i + d] /\ i + d \in 1..n
      BY <1>6, <2>2, <3>1
    <3>3. CASE j \in 1..n - d
      <4>1. r[j] = items[j + d] /\ j + d \in 1..n
        BY <1>6, <2>2, <3>3
      <4>2. i + d < j + d
        BY <1>2
      <4> QED BY <3>2, <4>1, <4>2 DEF OldestFirst
    <3>4. CASE r[j].age = 0
      <4>1. items[i + d].age \in Nat
        BY <1>4, <3>2
      <4> QED BY <3>2, <3>4, <4>1
    <3>5. j \in 1..n - d \/ r[j].age = 0
      BY <1>6, <2>2
    <3> QED BY <3>3, <3>4, <3>5
  <2> QED BY <1>1, <2>1, <2>2
<1>8. ASSUME Plain(items), ~e.sample PROVE Plain(r)
  <2> SUFFICES ASSUME NEW i \in 1..Len(r) PROVE ~r[i].sample
    BY DEF Plain
  <2>1. CASE Renewed(items, e, r)
    BY <1>5, <1>8, <2>1 DEF Plain
  <2>2. ASSUME NEW d \in {0, 1}, Pushed(d, items, e, r, c) PROVE ~r[i].sample
    <3>1. \/ r[i] = items[i + d] /\ i + d \in 1..n
          \/ r[i].sample = e.sample
      BY <1>6, <2>2
    <3> QED BY <1>8, <3>1 DEF Plain
  <2> QED BY <1>1, <2>1, <2>2
<1>9. ASSUME NEW old \in Seq(Toast), Follows(old, items, c) PROVE Follows(old, r, c)
  <2> DEFINE m == Len(old)
  <2>1. m \in Nat
    BY LenProperties
  <2>2. PICK gone \in 0..m : FollowsBy(gone, old, items, c)
    BY <1>9 DEF Follows
  <2>3. /\ gone > 0 => n = c.max_visible
        /\ \A i \in gone + 1..m :
             /\ i - gone \in 1..n
             /\ SameText(items[i - gone], old[i])
             /\ items[i - gone].age <= old[i].age
        /\ \A j \in 1..n : j > m - gone => items[j].age = 0
    BY <2>2 DEF FollowsBy
  <2>4. \A i \in 1..m : old[i].age \in Nat
    <3>1. \A i \in 1..m : old[i] \in Toast
      BY ElementOfSeq
    <3> QED BY <3>1, PhasesInOrder DEF Toast
  <2>5. CASE Renewed(items, e, r)
    <3>1. ASSUME NEW i \in gone + 1..m
          PROVE  /\ i - gone \in 1..Len(r)
                 /\ SameText(r[i - gone], old[i])
                 /\ r[i - gone].age <= old[i].age
      <4>1. i \in 1..m /\ i - gone \in 1..n
        BY <2>1, <2>3
      <4>2. old[i].age \in Nat /\ items[i - gone].age <= old[i].age
        BY <2>3, <2>4, <4>1
      <4>3. /\ r[i - gone].sample = items[i - gone].sample
            /\ r[i - gone].kind = items[i - gone].kind
        BY <1>5, <2>5, <4>1
      <4>4. r[i - gone].age = items[i - gone].age \/ r[i - gone].age = 0
        BY <1>5, <2>5, <4>1
      <4>5. r[i - gone].age <= old[i].age
        BY <4>2, <4>4
      <4>6. SameText(r[i - gone], old[i])
        BY <2>3, <4>3 DEF SameText
      <4>7. Len(r) = n
        BY <1>5, <2>5
      <4> QED BY <4>1, <4>5, <4>6, <4>7
    <3>2. \A j \in 1..Len(r) : j > m - gone => r[j].age = 0
      BY <1>5, <2>3, <2>5
    <3>3. FollowsBy(gone, old, r, c)
      BY <1>5, <2>3, <2>5, <3>1, <3>2 DEF FollowsBy
    <3> QED BY <3>3 DEF Follows
  <2>6. CASE Pushed(0, items, e, r, c)
    <3>1. /\ Len(r) = n + 1 /\ \A k \in 1..n : r[k] = items[k]
          /\ r[n + 1].age = 0
      BY <1>2, <1>6, <2>6
    <3>2. gone = 0
      BY <1>1, <1>2, <2>3, <3>1
    <3>3. ASSUME NEW i \in gone + 1..m
          PROVE  /\ i - gone \in 1..Len(r)
                 /\ SameText(r[i - gone], old[i])
                 /\ r[i - gone].age <= old[i].age
      <4>1. i - gone \in 1..n /\ i - gone \in 1..n + 1
        BY <1>2, <2>3
      <4>2. r[i - gone] = items[i - gone]
        BY <3>1, <4>1
      <4> QED BY <2>3, <3>1, <4>1, <4>2
    <3>4. ASSUME NEW j \in 1..Len(r), j > m - gone PROVE r[j].age = 0
      <4>1. j = n + 1 \/ j \in 1..n
        BY <1>2, <3>1
      <4> QED BY <2>3, <3>1, <3>4, <4>1
    <3>5. FollowsBy(gone, old, r, c)
      BY <3>2, <3>3, <3>4 DEF FollowsBy
    <3> QED BY <3>5 DEF Follows
  <2>7. CASE Pushed(1, items, e, r, c)
    <3>1. /\ Len(r) = n /\ Len(r) = c.max_visible
          /\ \A k \in 1..n - 1 : r[k] = items[k + 1]
          /\ \A k \in 1..Len(r) : k \in 1..n - 1 \/ r[k].age = 0
      <4>1. n + 1 - 1 = n
        BY <1>2
      <4> QED BY <1>6, <2>7, <4>1
    <3> DEFINE g == IF gone < m THEN gone + 1 ELSE m
    <3>2. g \in 0..m /\ g >= gone /\ (g = gone + 1 \/ (g = m /\ gone = m))
      BY <2>1, <2>2
    <3> HIDE DEF g
    <3>3. ASSUME NEW i \in g + 1..m
          PROVE  /\ i - g \in 1..Len(r)
                 /\ SameText(r[i - g], old[i])
                 /\ r[i - g].age <= old[i].age
      <4>1. g = gone + 1 /\ i \in gone + 1..m /\ (i - g) + 1 = i - gone /\ i - g >= 1 /\ i - g \in Int
        BY <2>1, <3>2
      <4>2. /\ i - gone \in 1..n /\ SameText(items[i - gone], old[i])
            /\ items[i - gone].age <= old[i].age
        BY <2>3, <4>1
      <4> DEFINE k == i - g
      <4>3. k \in Int /\ k >= 1 /\ k + 1 = i - gone
        BY <4>1
      <4> HIDE DEF k
      <4>5. k + 1 <= n
        BY <4>2, <4>3
      <4>6. k \in 1..n - 1 /\ k \in 1..n
        BY <1>2, <4>3, <4>5
      <4>4. r[k] = items[i - gone]
        BY <3>1, <4>3, <4>6
      <4> QED BY <3>1, <4>2, <4>4, <4>6 DEF k
    <3>4. ASSUME NEW j \in 1..Len(r), j > m - g PROVE r[j].age = 0
      <4>1. CASE j \in 1..n - 1
        <5>1. j + 1 \in 1..n /\ j + 1 > m - gone
          BY <1>2, <2>1, <3>2, <3>4, <4>1
        <5>2. items[j + 1].age = 0
          BY <2>3, <5>1
        <5> QED BY <3>1, <4>1, <5>2
      <4> QED BY <3>1, <4>1
    <3>5. FollowsBy(g, old, r, c)
      BY <3>1, <3>2, <3>3, <3>4 DEF FollowsBy
    <3> QED BY <3>2, <3>5 DEF Follows
  <2> QED BY <1>1, <2>5, <2>6, <2>7
<1> QED BY <1>7, <1>8, <1>9 DEF r

\* tick(): oldest first, the toasts that are over are the first ones; the
\* others are kept as they are but for their phase.
LEMMA TickedShape ==
  ASSUME NEW c, c.max_visible \in Nat, NEW items \in Seq(Toast),
         Len(items) <= c.max_visible, OldestFirst(items)
  PROVE  \E d \in 0..Len(items) :
           /\ Ticked(items, c) = [k \in 1..Len(items) - d |-> Rephased(items[k + d])]
           /\ \A i \in 1..d : items[i].age >= Life
           /\ \A i \in d + 1..Len(items) : items[i].age < Life
<1> DEFINE n == Len(items)
           live == {i \in DOMAIN items : items[i].age < Life}
<1>1. n \in Nat /\ DOMAIN items = 1..n
  BY LenProperties
<1>2. \A i \in 1..n : items[i].age \in Nat /\ Life \in Nat
  <2>1. \A i \in 1..n : items[i] \in Toast
    BY ElementOfSeq
  <2> QED BY <2>1, PhasesInOrder DEF Toast
<1>3. PICK d \in 0..n : /\ \A i \in 1..d : items[i].age >= Life
                        /\ \A i \in d + 1..n : items[i].age < Life
  <2>1. CASE live = {}
    <3>1. \A i \in 1..n : items[i].age >= Life
      <4> SUFFICES ASSUME NEW i \in 1..n PROVE items[i].age >= Life
        OBVIOUS
      <4>1. ~(items[i].age < Life)
        BY <1>1, <2>1
      <4> QED BY <1>2, <4>1
    <3>2. n \in 0..n /\ n + 1..n = {}
      BY <1>1
    <3> QED BY <3>1, <3>2
  <2>2. CASE live # {}
    <3>1. live \in SUBSET Nat
      BY <1>1
    <3>2. PICK x \in live : \A y \in live : x <= y
      BY <2>2, <3>1, LeastExists
    <3>3. x \in 1..n /\ items[x].age < Life
      BY <1>1, <3>2
    <3> DEFINE e == x - 1
    <3>4. e \in 0..n /\ e + 1 = x
      BY <1>1, <3>3
    <3>5. ASSUME NEW i \in 1..e PROVE items[i].age >= Life
      <4>1. i \in 1..n /\ i < x
        BY <1>1, <3>3
      <4>2. i \notin live
        BY <3>2, <3>3, <4>1
      <4> QED BY <1>1, <1>2, <4>1, <4>2
    <3>6. ASSUME NEW i \in x..n PROVE items[i].age < Life
      <4>1. i \in 1..n /\ (i = x \/ x < i)
        BY <1>1, <3>3
      <4>2. items[x].age >= items[i].age
        BY <1>2, <3>3, <4>1 DEF OldestFirst
      <4> QED BY <1>2, <3>3, <4>1, <4>2
    <3> HIDE DEF e
    <3> QED BY <3>4, <3>5, <3>6
  <2> QED BY <2>1, <2>2
<1>4. live = d + 1..n
  <2>1. ASSUME NEW i \in 1..n PROVE i \in d + 1..n <=> items[i].age < Life
    <3>1. i \in 1..d \/ i \in d + 1..n
      BY <1>1
    <3>2. i \in 1..d => i \notin d + 1..n
      BY <1>1
    <3> QED BY <1>2, <1>3, <3>1, <3>2
  <2>2. \A i \in d + 1..n : i \in 1..n
    BY <1>1
  <2> QED BY <1>1, <2>1, <2>2
<1> DEFINE order == Ascending(live)
           kept == [k \in DOMAIN order |-> Rephased(items[order[k]])]
           out == [k \in 1..n - d |-> Rephased(items[k + d])]
<1>5. /\ order \in [1..n - d -> d + 1..n]
      /\ \A k \in 1..n - d : order[k] = d + k
  <2>1. d \in Nat /\ d <= n
    BY <1>1
  <2>2. order = Ascending(d + 1..n)
    BY <1>4
  <2> HIDE DEF n, order, live
  <2> QED BY <1>1, <2>1, <2>2, AscendingInterval
<1>6. kept = out
  <2> HIDE DEF order
  <2>1. DOMAIN order = 1..n - d
    BY <1>5
  <2>2. \A k \in 1..n - d : order[k] = k + d
    BY <1>5
  <2> QED BY <2>1, <2>2
<1>7. Ticked(items, c) = Evicted(kept, c)
  BY DEF Ticked
<1>8. Len(out) = n - d /\ n - d <= c.max_visible
  <2>1. n - d \in Nat /\ n - d <= n
    BY <1>1
  <2> QED BY <1>1, <2>1
<1> HIDE DEF out, kept
<1>9. Ticked(items, c) = out
  <2>1. Len(kept) \in Int /\ Len(kept) <= c.max_visible
    BY <1>1, <1>6, <1>8
  <2>2. ~(Len(kept) > c.max_visible)
    BY <2>1
  <2>3. Evicted(kept, c) = kept
    BY <2>2 DEF Evicted
  <2> QED BY <1>6, <1>7, <2>3
<1> QED BY <1>3, <1>9 DEF out

\* What tick() leaves: toasts in the same order, none of them over.
LEMMA TickedKeeps ==
  ASSUME NEW c, c.max_visible \in Nat, NEW items \in Seq(Toast),
         Len(items) <= c.max_visible, OldestFirst(items)
  PROVE  /\ Ticked(items, c) \in Seq(Toast)
         /\ Len(Ticked(items, c)) <= c.max_visible
         /\ OldestFirst(Ticked(items, c))
         /\ Plain(items) => Plain(Ticked(items, c))
         /\ \A i \in DOMAIN Ticked(items, c) : Ticked(items, c)[i].age < Life
<1> DEFINE n == Len(items)
           out == Ticked(items, c)
<1>1. n \in Nat /\ \A i \in 1..n : items[i] \in Toast
  BY LenProperties, ElementOfSeq
<1>2. PICK d \in 0..n :
        /\ out = [k \in 1..n - d |-> Rephased(items[k + d])]
        /\ \A i \in d + 1..n : items[i].age < Life
  BY TickedShape
<1> HIDE DEF out
<1>3. n - d \in Nat /\ n - d <= n /\ \A k \in 1..n - d : k + d \in d + 1..n /\ k + d \in 1..n
  BY <1>1
<1>4. ASSUME NEW t \in Toast
      PROVE  Rephased(t) \in Toast /\ Rephased(t).age = t.age /\ Rephased(t).sample = t.sample
  BY <1>4 DEF Rephased, Phase, Toast
<1>5. ASSUME NEW k \in 1..n - d
      PROVE  /\ out[k] \in Toast /\ out[k].age = items[k + d].age
             /\ out[k].sample = items[k + d].sample /\ k + d \in 1..n /\ out[k].age < Life
  <2>1. k + d \in 1..n /\ k + d \in d + 1..n /\ out[k] = Rephased(items[k + d])
    BY <1>2, <1>3
  <2>2. items[k + d] \in Toast
    BY <1>1, <2>1
  <2> QED BY <1>2, <1>4, <2>1, <2>2
<1>6. out \in Seq(Toast) /\ Len(out) = n - d /\ DOMAIN out = 1..n - d
  <2> DEFINE m == n - d
  <2>1. m \in Nat /\ out = [k \in 1..m |-> Rephased(items[k + d])]
    BY <1>2, <1>3
  <2>2. \A k \in 1..m : out[k] \in Toast
    BY <1>5
  <2> HIDE DEF m
  <2>3. out \in [1..m -> Toast]
    BY <2>1, <2>2
  <2>4. m \in Nat
    BY <2>1
  <2>5. out \in Seq(Toast) /\ Len(out) = m /\ DOMAIN out = 1..m
    BY <2>3, <2>4
  <2> QED BY <2>5 DEF m
<1>7. OldestFirst(out)
  <2> SUFFICES ASSUME NEW i \in 1..n - d, NEW j \in 1..n - d, i < j PROVE out[i].age >= out[j].age
    BY <1>6 DEF OldestFirst
  <2>1. i + d < j + d
    BY <1>3
  <2> QED BY <1>5, <2>1 DEF OldestFirst
<1>8. Plain(items) => Plain(out)
  BY <1>5, <1>6 DEF Plain
<1> QED BY <1>3, <1>5, <1>6, <1>7, <1>8 DEF out

\* Submitting an event keeps the queue what it may be.
LEMMA SubmitKeeps ==
  ASSUME NEW c, c.max_visible \in Nat, NEW q \in Waiting(c), NEW e \in Events
  PROVE  /\ Submit(q, e, c) \in Waiting(c)
         /\ Plain(q.items) /\ ~e.sample => Plain(Submit(q, e, c).items)
         /\ \A old \in Seq(Toast) :
              Follows(old, q.items, c) => Follows(old, Submit(q, e, c).items, c)
<1>1. /\ q.items \in Seq(Toast) /\ q.since \in 0..Suppress
      /\ Len(q.items) <= c.max_visible /\ OldestFirst(q.items)
  BY DEF Waiting
<1> DEFINE items == Added(q.items, e, c)
<1>2. /\ items \in Seq(Toast) /\ Len(items) <= c.max_visible /\ OldestFirst(items)
      /\ Plain(q.items) /\ ~e.sample => Plain(items)
      /\ \A old \in Seq(Toast) : Follows(old, q.items, c) => Follows(old, items, c)
  BY <1>1, AddedShape, AddedKeeps
<1>3. Noted(q, e) \in 0..Suppress
  BY <1>1, PhasesInOrder DEF Noted
<1> HIDE DEF items
<1>4. CASE Submit(q, e, c) = Queue(q.items, Noted(q, e))
  BY <1>1, <1>3, <1>4 DEF Waiting, Queue
<1>5. CASE Submit(q, e, c) = Queue(items, Noted(q, e))
  BY <1>2, <1>3, <1>5 DEF Waiting, Queue
<1> QED BY <1>4, <1>5 DEF Submit, items

\* The empty queue is one that may wait to be drawn, and holds no sample.
LEMMA EmptyQueue ==
  ASSUME NEW c, c.max_visible \in Nat, NEW since \in 0..Suppress
  PROVE  Queue(<<>>, since) \in Waiting(c) /\ Plain(<<>>)
<1>1. <<>> \in Seq(Toast) /\ Len(<<>>) = 0 /\ 1..0 = {}
  BY EmptySeq
<1> QED BY <1>1 DEF Waiting, Queue, OldestFirst, Plain

\* The samples of the preview are a queue like any other.
LEMMA SeededWaits ==
  ASSUME cfg.max_visible \in Nat
  PROVE  Seeded \in Waiting(cfg)
<1>1. LongAgo \in 0..Suppress
  BY PhasesInOrder DEF LongAgo
<1>2. \A k \in Kinds : Sample(k) \in Events
  BY DEF Sample, Events
<1>3. "join" \in Kinds /\ "connected" \in Kinds /\ "chat" \in Kinds
  BY DEF Kinds
<1> DEFINE q1 == Submit(Queue(<<>>, LongAgo), Sample("join"), cfg)
           q2 == Submit(q1, Sample("connected"), cfg)
           q3 == Queue(q2.items, LongAgo)
<1>4. q1 \in Waiting(cfg)
  BY <1>1, <1>2, <1>3, EmptyQueue, SubmitKeeps
<1> HIDE DEF q1
<1>5. q2 \in Waiting(cfg)
  BY <1>2, <1>3, <1>4, SubmitKeeps
<1> HIDE DEF q2
<1>6. q3 \in Waiting(cfg)
  BY <1>1, <1>5 DEF Waiting, Queue
<1> HIDE DEF q3
<1>7. Submit(q3, Sample("chat"), cfg) \in Waiting(cfg)
  BY <1>2, <1>3, <1>6, SubmitKeeps
<1> QED BY <1>7 DEF Seeded, q3, q2, q1

\* The events of one frame: the queue stays one, stays plain, and follows the
\* one before.
LEMMA SubmittedKeeps ==
  ASSUME cfg.max_visible \in Nat, NEW q \in Waiting(cfg), NEW events \in Batches
  PROVE  /\ Submitted(q, events) \in Waiting(cfg)
         /\ Plain(q.items) => Plain(Submitted(q, events).items)
         /\ Follows(q.items, Submitted(q, events).items, cfg)
<1>1. /\ Len(events) \in Nat
      /\ \A n \in 1..Len(events) : events[n] \in Events /\ ~events[n].sample
  <2>1. PICK m \in 0..Batch : events \in [1..m -> [kind : Kinds, sample : {FALSE}]]
    BY DEF Batches
  <2>2. m \in Nat
    BY ScreenAssumption
  <2>3. Len(events) = m
    BY <2>1, <2>2
  <2> QED BY <2>1, <2>2, <2>3 DEF Events
<1>2. q.items \in Seq(Toast)
  BY DEF Waiting
<1> DEFINE Q == {x \in Waiting(cfg) : /\ Plain(q.items) => Plain(x.items)
                                      /\ Follows(q.items, x.items, cfg)}
<1>3. q \in Q
  BY <1>2, FollowsItself
<1>4. \A x \in Q, n \in 1..Len(events) : Submit(x, events[n], cfg) \in Q
  BY <1>1, <1>2, SubmitKeeps
<1>5. Submitted(q, events) \in Q
  <2> HIDE DEF Q
  <2> QED BY <1>1, <1>3, <1>4, SubmittedWithin
<1> QED BY <1>5

\* A tick of the clock keeps the queue in order, and each toast what it says.
LEMMA AgedKeeps ==
  ASSUME NEW items \in Seq(Toast)
  PROVE  /\ Aged(items) \in Seq(Toast) /\ Len(Aged(items)) = Len(items)
         /\ OldestFirst(items) => OldestFirst(Aged(items))
         /\ Plain(items) => Plain(Aged(items))
         /\ \A i \in 1..Len(items) : SameText(Aged(items)[i], items[i])
<1> DEFINE n == Len(items)
           out == Aged(items)
           Older(t) == [t EXCEPT !.age = IF @ < Life THEN @ + 1 ELSE @]
<1>1. n \in Nat /\ DOMAIN items = 1..n
  BY LenProperties
<1>2. \A i \in 1..n : items[i] \in Toast
  BY ElementOfSeq
<1>3. Life \in Nat
  BY PhasesInOrder
<1>4. out = [i \in 1..n |-> Older(items[i])]
  BY <1>1 DEF Aged
<1>5. ASSUME NEW t \in Toast
      PROVE  /\ Older(t) \in Toast /\ t.age \in Nat
             /\ Older(t).age = IF t.age < Life THEN t.age + 1 ELSE t.age
             /\ Older(t).kind = t.kind /\ Older(t).sample = t.sample
  BY <1>3, <1>5 DEF Toast
<1> HIDE DEF out, Older, n
<1>6. ASSUME NEW i \in 1..n
      PROVE  /\ out[i] \in Toast /\ items[i].age \in Nat
             /\ out[i].age = IF items[i].age < Life THEN items[i].age + 1 ELSE items[i].age
             /\ out[i].kind = items[i].kind /\ out[i].sample = items[i].sample
  BY <1>2, <1>4, <1>5
<1>7. out \in [1..n -> Toast]
  BY <1>4, <1>6
<1>8. out \in Seq(Toast) /\ Len(out) = n
  BY <1>1, <1>7
<1>9. OldestFirst(items) => OldestFirst(out)
  <2> SUFFICES ASSUME OldestFirst(items), NEW i \in 1..n, NEW j \in 1..n, i < j
               PROVE  out[i].age >= out[j].age
    BY <1>8 DEF OldestFirst
  <2>1. items[i].age >= items[j].age
    BY DEF OldestFirst, n
  <2>2. items[i].age \in Nat /\ items[j].age \in Nat
    BY <1>6
  <2>3. /\ out[i].age = IF items[i].age < Life THEN items[i].age + 1 ELSE items[i].age
        /\ out[j].age = IF items[j].age < Life THEN items[j].age + 1 ELSE items[j].age
    BY <1>6
  <2> DEFINE a == items[i].age
             b == items[j].age
             x == out[i].age
             y == out[j].age
  <2>4. a \in Nat /\ b \in Nat /\ a >= b
    BY <2>1, <2>2
  <2>5. x = (IF a < Life THEN a + 1 ELSE a) /\ y = (IF b < Life THEN b + 1 ELSE b)
    BY <2>3
  <2> HIDE DEF a, b, x, y
  <2>6. x >= y
    BY <1>3, <2>4, <2>5
  <2> QED BY <2>6 DEF x, y
<1>10. Plain(items) => Plain(out)
  BY <1>6, <1>8 DEF Plain, n
<1> QED BY <1>6, <1>8, <1>9, <1>10 DEF SameText, out, n

\* What becomes of the toasts from one frame to the next: the first `gone` are
\* gone, those among them that had not had their time because as many are shown
\* as may; the others say what they said, in their places.
Course(old, new, c) ==
  \E gone \in 0..Len(old) :
    /\ (\E i \in 1..gone : old[i].age < Life) => Len(new) = c.max_visible
    /\ \A i \in gone + 1..Len(old) :
         i - gone \in DOMAIN new /\ SameText(new[i - gone], old[i])

\* A queue that follows another has let its toasts run their course.
LEMMA FollowingIsCourse ==
  ASSUME NEW c, NEW old \in Seq(Toast), NEW new \in Seq(Toast), Follows(old, new, c)
  PROVE  Course(old, new, c)
<1>1. PICK gone \in 0..Len(old) : FollowsBy(gone, old, new, c)
  BY DEF Follows
<1>2. DOMAIN new = 1..Len(new) /\ Len(old) \in Nat
  BY LenProperties
<1>3. (\E i \in 1..gone : old[i].age < Life) => Len(new) = c.max_visible
  BY <1>1, <1>2 DEF FollowsBy
<1> QED BY <1>1, <1>2, <1>3 DEF FollowsBy, Course

\* After what follows is ticked, too: a toast that has not had its time and was
\* pushed out had only such behind it, so none of those is over either.
LEMMA TickedIsCourse ==
  ASSUME NEW c, c.max_visible \in Nat,
         NEW old \in Seq(Toast), OldestFirst(old),
         NEW new \in Seq(Toast), OldestFirst(new), Len(new) <= c.max_visible,
         Follows(old, new, c)
  PROVE  Course(old, Ticked(new, c), c)
<1> DEFINE m == Len(old)
           n == Len(new)
           out == Ticked(new, c)
<1>1. m \in Nat /\ n \in Nat
  BY LenProperties
<1>2. \A i \in 1..m : old[i].age \in Nat
  <2>1. \A i \in 1..m : old[i] \in Toast
    BY ElementOfSeq
  <2> QED BY <2>1, PhasesInOrder DEF Toast
<1>3. \A i \in 1..n : new[i] \in Toast
  BY ElementOfSeq
<1>4. \A i \in 1..n : new[i].age \in Nat
  BY <1>3, PhasesInOrder DEF Toast
<1>5. Life \in Nat /\ 0 < Life
  BY PhasesInOrder
<1>6. PICK gone \in 0..m : FollowsBy(gone, old, new, c)
  BY DEF Follows
<1>7. /\ gone > 0 => n = c.max_visible
      /\ \A i \in gone + 1..m : /\ i - gone \in 1..n
                                /\ SameText(new[i - gone], old[i])
                                /\ new[i - gone].age <= old[i].age
      /\ \A j \in 1..n : j > m - gone => new[j].age = 0
  BY <1>6 DEF FollowsBy
<1>8. PICK d \in 0..n : /\ out = [k \in 1..n - d |-> Rephased(new[k + d])]
                        /\ \A i \in 1..d : new[i].age >= Life
  BY TickedShape
<1> HIDE DEF out
<1>9. d <= m - gone
  <2> SUFFICES ASSUME d > m - gone PROVE FALSE
    BY <1>1
  <2>1. d \in 1..d /\ d \in 1..n
    BY <1>1
  <2>2. new[d].age = 0 /\ new[d].age >= Life
    BY <1>7, <1>8, <2>1
  <2> QED BY <1>5, <2>2
<1> DEFINE g == gone + d
<1>10. g \in 0..m
  BY <1>1, <1>9
<1>11. ASSUME NEW i \in gone + 1..g PROVE old[i].age >= Life
  <2>1. i \in gone + 1..m /\ i - gone \in 1..d /\ i \in 1..m
    BY <1>1, <1>9
  <2>2. i - gone \in 1..n
    BY <1>7, <2>1
  <2>3. new[i - gone].age <= old[i].age /\ new[i - gone].age >= Life
    BY <1>7, <1>8, <2>1
  <2>4. old[i].age \in Nat /\ new[i - gone].age \in Nat
    BY <1>2, <1>4, <2>1, <2>2
  <2> DEFINE a == old[i].age
             b == new[i - gone].age
  <2>5. a \in Nat /\ b \in Nat /\ b <= a /\ b >= Life
    BY <2>3, <2>4
  <2> HIDE DEF a, b
  <2>6. a >= Life
    BY <1>5, <2>5
  <2> QED BY <2>6 DEF a
<1>12. ASSUME NEW i \in 1..gone, old[i].age < Life PROVE d = 0 /\ n = c.max_visible
  <2>1. gone > 0 /\ i \in 1..m
    BY <1>1
  <2>2. ASSUME d > 0 PROVE FALSE
    <3>1. gone + 1 \in gone + 1..g /\ gone + 1 \in 1..m /\ i < gone + 1
      BY <1>1, <1>10, <2>2
    <3>2. old[gone + 1].age >= Life
      BY <1>11, <3>1
    <3>3. old[i].age >= old[gone + 1].age
      BY <2>1, <3>1 DEF OldestFirst
    <3>4. old[i].age \in Nat /\ old[gone + 1].age \in Nat
      BY <1>2, <2>1, <3>1
    <3> DEFINE a == old[i].age
               b == old[gone + 1].age
    <3>5. a \in Nat /\ b \in Nat /\ b >= Life /\ a >= b /\ a < Life
      BY <1>12, <3>2, <3>3, <3>4
    <3> HIDE DEF a, b
    <3> QED BY <1>5, <3>5
  <2> QED BY <1>1, <1>7, <2>1, <2>2
<1>13. Len(out) = n - d /\ DOMAIN out = 1..n - d
  <2> DEFINE l == n - d
  <2>1. l \in Nat /\ out = [k \in 1..l |-> Rephased(new[k + d])]
    BY <1>1, <1>8
  <2> HIDE DEF l
  <2>2. DOMAIN out = 1..l /\ Len(out) = l
    BY <2>1
  <2> QED BY <2>2 DEF l
<1>14. ASSUME NEW i \in 1..g, old[i].age < Life PROVE Len(out) = c.max_visible
  <2>1. i \in 1..gone \/ i \in gone + 1..g
    BY <1>1
  <2>2. i \in 1..m
    BY <1>1, <1>10
  <2>3. i \in 1..gone
    BY <1>2, <1>5, <1>11, <1>14, <2>1, <2>2
  <2>4. d = 0 /\ n = c.max_visible
    BY <1>12, <1>14, <2>3
  <2> QED BY <1>1, <1>13, <2>4
<1>15. ASSUME NEW i \in g + 1..m
       PROVE  i - g \in DOMAIN out /\ SameText(out[i - g], old[i])
  <2>1. i \in gone + 1..m /\ i - gone \in Int /\ i - gone > d
    BY <1>1, <1>10
  <2>2. i - gone \in 1..n
    BY <1>7, <2>1
  <2> DEFINE k == i - g
  <2>3. k \in 1..n - d /\ k + d = i - gone
    BY <1>1, <2>1, <2>2
  <2> HIDE DEF k
  <2>4. out[k] = Rephased(new[i - gone])
    BY <1>8, <2>3
  <2>5. SameText(new[i - gone], old[i]) /\ new[i - gone] \in Toast
    BY <1>3, <1>7, <2>1, <2>2
  <2>6. SameText(out[k], old[i])
    BY <2>4, <2>5 DEF SameText, Rephased, Toast
  <2> QED BY <1>13, <2>3, <2>6 DEF k
<1> HIDE DEF g
<1> QED BY <1>10, <1>14, <1>15 DEF Course, out

-----------------------------------------------------------------------------
(* The block of title and list. *)

\* compute_layout() keeps the block on the screen, whatever it is anchored to.
LEMMA LayoutPlaced ==
  ASSUME NEW c \in Settings, NEW s, s.users \in Seq(User), NEW vp \in Viewports
  PROVE  LET l == ComputeLayout(s, c, vp)
         IN  /\ l.viewport = vp /\ l.rows = Rows(s, c)
             /\ l.height \in Nat /\ l.y \in Nat
             /\ l.height <= vp => l.y + l.height <= vp
<1> DEFINE n == VisibleRows(s, c)
           h == TitleHeight + (IF n > 0 THEN RowGap ELSE 0) + ListHeight(n)
           y == Placed(c.anchor, c.offset, h, vp)
<1>1. n \in Nat
  BY RowsFit, ScreenAssumption
<1>2. vp \in Nat /\ c.offset \in Int /\ c.anchor \in {"top", "bottom", "middle"}
  BY ScreenAssumption
<1> HIDE DEF n
<1>3. h \in Nat
  BY <1>1 DEF TitleHeight, RowGap, RowHeight, ListHeight
<1> HIDE DEF h
<1>4. y \in Int
  <2>1. (vp - h) \div 2 \in Int
    BY <1>2, <1>3
  <2>2. CASE c.anchor = "top"
    BY <1>2, <2>2 DEF Placed
  <2>3. CASE c.anchor = "bottom"
    BY <1>2, <1>3, <2>3 DEF Placed
  <2>4. CASE c.anchor = "middle"
    <3>1. Placed(c.anchor, c.offset, h, vp) = (vp - h) \div 2 + c.offset
      BY <2>4 DEF Placed
    <3> QED BY <1>2, <2>1, <3>1
  <2> QED BY <1>2, <2>2, <2>3, <2>4
<1> HIDE DEF y
<1>5. /\ OnScreen(y, h, vp) \in Nat
      /\ h <= vp => OnScreen(y, h, vp) + h <= vp
  BY <1>2, <1>3, <1>4 DEF OnScreen, Greatest
<1>6. ComputeLayout(s, c, vp) = [viewport |-> vp, height |-> h, rows |-> Rows(s, c),
                                 y |-> OnScreen(y, h, vp)]
  BY DEF ComputeLayout, y, h, n
<1> QED BY <1>3, <1>5, <1>6

-----------------------------------------------------------------------------
(* The invariant. *)

\* The rows shown are those of the newest frame, or the preview's, unless a
\* layout is due; the block was on the screen it was laid out for, which is
\* this one if it was just drawn; the queue is one without samples if the
\* preview was not shown.
Inv ==
  /\ TypeOK
  /\ queue \in Waiting(cfg)
  /\ ~was => Plain(queue.items)
  /\ /\ layout.y \in Nat /\ layout.height \in Nat
     /\ layout.height <= layout.viewport => layout.y + layout.height <= layout.viewport
     /\ drawn => layout.viewport = viewport
  /\ ~dirty /\ ~fresh => layout.rows \in {Rows(frame, cfg), Rows(PreviewState, cfg)}
  /\ SpeakersAreShown

\* A frame of the triple buffer lists users, and none without a link.
LEMMA FramesAreStates ==
  ASSUME NEW f \in Frames
  PROVE  f.users \in Seq(User) /\ (f.live \/ f.users = <<>>)
<1>1. f.users \in Users \cup {<<>>} /\ (f.live \/ f.users = <<>>)
  BY DEF Frames
<1>2. <<>> \in Seq(User)
  BY EmptySeq
<1> QED BY <1>1, <1>2, ScreenAssumption

\* The state shown in preview lists users and is live.
LEMMA PreviewIsState ==
  PreviewState.users \in Seq(User) /\ PreviewState.live
<1>1. Alice \in User
  BY DEF Alice, User
<1> QED BY <1>1 DEF PreviewState

\* The invariant holds of a renderer that has just been created.
LEMMA InvInit ==
  ASSUME Init PROVE Inv
<1>1. /\ cfg \in Settings /\ viewport \in Viewports
      /\ cfg.max_visible \in Nat /\ cfg.max_visible_users \in Nat
  BY ScreenAssumption DEF Init
<1>2. LongAgo \in 0..Suppress
  BY PhasesInOrder DEF LongAgo
<1>3. queue = Queue(<<>>, LongAgo) /\ queue \in Waiting(cfg) /\ Plain(<<>>)
  BY <1>1, <1>2, EmptyQueue DEF Init
<1>4. queue.items = <<>>
  BY <1>3 DEF Queue
<1>5. /\ queue.items \in Seq(Toast) /\ Len(queue.items) <= cfg.max_visible
      /\ queue.since \in 0..Suppress
  BY <1>3 DEF Waiting
<1>6. frame \in Frames
  BY DEF Init, Frames
<1>7. layout = [viewport |-> 0, height |-> 0, rows |-> <<>>, y |-> 0]
  BY DEF Init
<1>8. layout.rows = <<>> /\ layout.y = 0 /\ layout.height = 0 /\ layout.viewport = 0
  BY <1>7
<1>9. Len(layout.rows) <= cfg.max_visible_users
  <2>1. Len(<<>>) = 0
    BY EmptySeq
  <2> QED BY <1>1, <1>8, <2>1
<1>10. TypeOK
  BY <1>1, <1>5, <1>6, <1>8, <1>9 DEF TypeOK, Init
<1>11. SpeakersAreShown
  BY DEF SpeakersAreShown, Init
<1> QED BY <1>3, <1>4, <1>8, <1>10, <1>11 DEF Inv, Init

\* What on_reshade_overlay() hands to draw(): a queue, without samples unless
\* the preview is shown.
LEMMA PreviewedKeeps ==
  ASSUME Inv, NEW events \in Batches
  PROVE  LET q == Previewed(Submitted(queue, events))
         IN  /\ q \in Waiting(cfg)
             /\ ~preview => Plain(q.items)
             /\ preview = was => Len(queue.items) = 0 \/ Follows(queue.items, q.items, cfg)
<1>1. cfg.max_visible \in Nat
  BY ScreenAssumption DEF Inv, TypeOK
<1> DEFINE s == Submitted(queue, events)
           q == Previewed(s)
<1>2. /\ s \in Waiting(cfg) /\ (Plain(queue.items) => Plain(s.items))
      /\ Follows(queue.items, s.items, cfg)
  BY <1>1, SubmittedKeeps DEF Inv
<1> HIDE DEF s
<1>3. Seeded \in Waiting(cfg)
  BY <1>1, SeededWaits
<1>4. Queue(<<>>, 0) \in Waiting(cfg) /\ Plain(<<>>)
  <2>1. 0 \in 0..Suppress
    BY PhasesInOrder
  <2> QED BY <1>1, <2>1, EmptyQueue
<1>5. preview \in BOOLEAN /\ was \in BOOLEAN
  BY DEF Inv, TypeOK
<1>6. q \in Waiting(cfg)
  BY <1>2, <1>3, <1>4 DEF Previewed
<1>7. ASSUME ~preview PROVE Plain(q.items)
  <2>1. CASE was
    BY <1>4, <1>7, <2>1 DEF Previewed, Queue
  <2>2. CASE ~was
    BY <1>2, <1>7, <2>2 DEF Previewed, Inv
  <2> QED BY <2>1, <2>2
<1>8. ASSUME preview = was PROVE Len(queue.items) = 0 \/ Follows(queue.items, q.items, cfg)
  <2>1. CASE q = s
    BY <1>2, <2>1
  <2>2. CASE q # s
    <3>1. s.items = <<>>
      BY <1>5, <1>8, <2>2 DEF Previewed
    <3> DEFINE m == Len(queue.items)
    <3>2. m \in Nat
      BY LenProperties DEF Inv, TypeOK
    <3>3. PICK gone \in 0..m : FollowsBy(gone, queue.items, s.items, cfg)
      BY <1>2 DEF Follows
    <3>4. Len(s.items) = 0
      BY <3>1, EmptySeq
    <3>5. /\ gone > 0 => 0 = cfg.max_visible
          /\ \A i \in gone + 1..m : i - gone \in 1..0
      BY <3>3, <3>4 DEF FollowsBy
    <3>7. m <= cfg.max_visible
      BY DEF Inv, TypeOK
    <3>6. m = 0
      <4>1. gone > 0 => m = 0
        BY <3>2, <3>5, <3>7
      <4>2. CASE gone = 0
        <5>1. m > 0 => 1 \in gone + 1..m
          BY <3>2, <4>2
        <5> QED BY <3>2, <3>5, <4>2, <5>1
      <4> QED BY <3>2, <4>1, <4>2
    <3> QED BY <3>6
  <2> QED BY <2>1, <2>2
<1> QED BY <1>6, <1>7, <1>8 DEF s

\* The screen of a frame: draw() in a frame that is drawn.
LEMMA DrawKeeps ==
  ASSUME Inv, NEW q \in Waiting(cfg), NEW events, Draw(q, events),
         ~preview => Plain(q.items),
         UNCHANGED <<cfg, enabled, viewport, frame, preview>>, was' = preview
  PROVE  Inv'
<1>1. /\ cfg \in Settings /\ cfg' = cfg /\ viewport \in Viewports /\ viewport' = viewport
      /\ frame \in Frames /\ frame' = frame /\ preview \in BOOLEAN /\ preview' = preview
      /\ enabled' = enabled /\ enabled \in BOOLEAN
  BY DEF Inv, TypeOK
<1>2. cfg.max_visible \in Nat /\ cfg.max_visible_users \in Nat /\ cfg.feed_shown \in BOOLEAN
  BY <1>1, ScreenAssumption
<1>3. /\ q.items \in Seq(Toast) /\ q.since \in 0..Suppress
      /\ Len(q.items) <= cfg.max_visible /\ OldestFirst(q.items)
  BY DEF Waiting
<1> DEFINE t == Ticked(q.items, cfg)
<1>4. /\ t \in Seq(Toast) /\ Len(t) <= cfg.max_visible /\ OldestFirst(t)
      /\ (Plain(q.items) => Plain(t))
  BY <1>2, <1>3, TickedKeeps
<1>5. State.users \in Seq(User) /\ (State.live \/ State.users = <<>>)
  BY <1>1, FramesAreStates, PreviewIsState DEF State
<1>6. frame.users \in Seq(User) /\ (frame.live \/ frame.users = <<>>)
  BY <1>1, FramesAreStates
<1>7. ASSUME Gated
      PROVE  /\ queue' = q /\ drawn' = FALSE /\ dirty' = (dirty \/ events # <<>>)
             /\ layout' = layout /\ fresh' = fresh /\ stamp' = stamp
  BY <1>7 DEF Draw
<1>8. ASSUME ~Gated
      PROVE  queue' = Queue(t, q.since) /\ drawn' = TRUE
  BY <1>8 DEF Draw
<1>9. ASSUME ~Gated, NeedsLayout(dirty \/ events # <<>>)
      PROVE  /\ layout' = ComputeLayout(State, cfg, viewport)
             /\ dirty' = FALSE /\ fresh' = FALSE /\ stamp' = FeedShown
  BY <1>9 DEF Draw
<1>10. ASSUME ~Gated, ~NeedsLayout(dirty \/ events # <<>>)
       PROVE  layout' = layout /\ dirty' = dirty /\ fresh' = fresh /\ stamp' = stamp
  BY <1>10 DEF Draw
<1>11. /\ queue' \in Waiting(cfg)
       /\ ~preview => Plain(queue'.items)
  <2>1. CASE Gated
    BY <1>7, <2>1
  <2>2. CASE ~Gated
    <3>1. queue' = Queue(t, q.since)
      BY <1>8, <2>2
    <3> HIDE DEF t
    <3> QED BY <1>3, <1>4, <3>1 DEF Waiting, Queue
  <2> QED BY <2>1, <2>2
<1>12. /\ layout'.viewport \in Viewports \cup {0}
       /\ Len(layout'.rows) <= cfg.max_visible_users
       /\ layout'.y \in Nat /\ layout'.height \in Nat
       /\ layout'.height <= layout'.viewport => layout'.y + layout'.height <= layout'.viewport
       /\ drawn' => layout'.viewport = viewport
  <2>1. CASE Gated
    BY <1>7, <2>1 DEF Inv, TypeOK
  <2>2. CASE ~Gated /\ NeedsLayout(dirty \/ events # <<>>)
    <3> DEFINE l == ComputeLayout(State, cfg, viewport)
    <3>1. /\ l.viewport = viewport /\ l.rows = Rows(State, cfg)
          /\ l.height \in Nat /\ l.y \in Nat
          /\ l.height <= viewport => l.y + l.height <= viewport
      BY <1>1, <1>5, LayoutPlaced
    <3>2. layout' = l
      BY <1>9, <2>2
    <3>3. Len(Rows(State, cfg)) <= cfg.max_visible_users
      BY <1>2, <1>5, RowsFit
    <3> HIDE DEF l
    <3> QED BY <1>1, <3>1, <3>2, <3>3
  <2>3. CASE ~Gated /\ ~NeedsLayout(dirty \/ events # <<>>)
    <3>1. layout' = layout
      BY <1>10, <2>3
    <3>2. layout.viewport = viewport
      BY <2>3 DEF NeedsLayout
    <3> QED BY <3>1, <3>2 DEF Inv, TypeOK
  <2> QED BY <2>1, <2>2, <2>3
<1>13. /\ fresh' \in BOOLEAN /\ stamp' \in BOOLEAN /\ drawn' \in BOOLEAN /\ dirty' \in BOOLEAN
  <2>1. /\ fresh \in BOOLEAN /\ stamp \in BOOLEAN /\ dirty \in BOOLEAN
    BY DEF Inv, TypeOK
  <2>2. (dirty \/ events # <<>>) \in BOOLEAN /\ FeedShown \in BOOLEAN
    BY <1>1, <1>2 DEF FeedShown
  <2> QED BY <1>7, <1>8, <1>9, <1>10, <2>1, <2>2
<1>14. TypeOK'
  <2>1. queue'.items \in Seq(Toast) /\ Len(queue'.items) <= cfg.max_visible /\ queue'.since \in 0..Suppress
    BY <1>11 DEF Waiting
  <2> QED BY <1>1, <1>12, <1>13, <2>1 DEF TypeOK
<1>15. ~dirty' /\ ~fresh' => layout'.rows \in {Rows(frame, cfg), Rows(PreviewState, cfg)}
  <2>1. CASE Gated
    BY <1>7, <2>1 DEF Inv
  <2>2. CASE ~Gated /\ NeedsLayout(dirty \/ events # <<>>)
    <3>1. layout' = ComputeLayout(State, cfg, viewport)
      BY <1>9, <2>2
    <3>2. layout'.rows = Rows(State, cfg)
      BY <3>1 DEF ComputeLayout
    <3> QED BY <3>2 DEF State
  <2>3. CASE ~Gated /\ ~NeedsLayout(dirty \/ events # <<>>)
    BY <1>10, <2>3 DEF Inv
  <2> QED BY <2>1, <2>2, <2>3
<1>16. SpeakersAreShown'
  <2>1. SUFFICES ASSUME drawn', ~preview, layout'.rows # <<Alice>>
                 PROVE  ShowsSpeakers(layout'.rows, frame.users, cfg)
    BY <1>1 DEF SpeakersAreShown, ShowsSpeakers, LeftByPreview
  <2>2. ~Gated
    BY <1>7, <2>1
  <2>3. State = frame
    BY <2>1 DEF State
  <2>4. ShowsSpeakers(Rows(frame, cfg), frame.users, cfg)
    BY <1>2, <1>6, RowsFit
  <2>5. CASE NeedsLayout(dirty \/ events # <<>>)
    <3>1. layout' = ComputeLayout(State, cfg, viewport)
      BY <1>9, <2>2, <2>5
    <3>2. layout'.rows = Rows(frame, cfg)
      BY <2>3, <3>1 DEF ComputeLayout
    <3> QED BY <2>4, <3>2
  <2>6. CASE ~NeedsLayout(dirty \/ events # <<>>)
    <3>1. layout' = layout /\ ~dirty /\ ~fresh /\ ~Talking(frame)
      BY <1>10, <2>2, <2>3, <2>6 DEF NeedsLayout
    <3>2. layout.rows \in {Rows(frame, cfg), Rows(PreviewState, cfg)}
      BY <3>1 DEF Inv
    <3>3. CASE layout.rows = Rows(frame, cfg)
      BY <2>4, <3>1, <3>3
    <3>4. CASE layout.rows = Rows(PreviewState, cfg)
      <4>1. layout.rows = <<>>
        BY <1>2, <2>1, <3>1, <3>4, PreviewRows
      <4>2. \A u \in Range(frame.users) : ~u.talking
        <5>1. /\ DOMAIN frame.users = 1..Len(frame.users)
              /\ Range(frame.users) = {frame.users[i] : i \in 1..Len(frame.users)}
          BY <1>6, LenProperties, RangeEquality
        <5> QED BY <3>1, <5>1 DEF Talking
      <4>3. Range(<<>>) = {}
        <5>1. <<>> \in Seq(User) /\ Len(<<>>) = 0
          BY EmptySeq
        <5>2. Range(<<>>) = {<<>>[i] : i \in 1..Len(<<>>)}
          BY <5>1, RangeEquality
        <5> QED BY <5>1, <5>2
      <4> QED BY <3>1, <4>1, <4>2, <4>3 DEF ShowsSpeakers
    <3> QED BY <3>2, <3>3, <3>4
  <2> QED BY <2>5, <2>6
<1> QED BY <1>1, <1>11, <1>12, <1>14, <1>15, <1>16 DEF Inv

\* Every step keeps the invariant.
LEMMA InvNext ==
  ASSUME Inv, [Next]_vars PROVE Inv'
<1>1. /\ cfg \in Settings /\ viewport \in Viewports /\ preview \in BOOLEAN
      /\ queue.items \in Seq(Toast) /\ queue.since \in 0..Suppress
      /\ Len(queue.items) <= cfg.max_visible /\ OldestFirst(queue.items)
  BY DEF Inv, TypeOK, Waiting
<1>2. CASE UNCHANGED vars
  BY <1>2 DEF Inv, TypeOK, SpeakersAreShown, LeftByPreview, vars
<1>3. CASE Frame
  <2>1. PICK events \in Batches : Draw(Previewed(Submitted(queue, events)), events)
    BY <1>3 DEF Frame
  <2> DEFINE q == Previewed(Submitted(queue, events))
  <2>2. q \in Waiting(cfg) /\ (~preview => Plain(q.items))
    BY PreviewedKeeps
  <2>3. UNCHANGED <<cfg, enabled, viewport, frame, preview>> /\ was' = preview
    BY <1>3 DEF Frame
  <2>4. Draw(q, events)
    BY <2>1
  <2> HIDE DEF q
  <2> QED BY <2>2, <2>3, <2>4, DrawKeeps
<1>4. ASSUME NEW f \in Frames, Publish(f) PROVE Inv'
  BY <1>4 DEF Inv, TypeOK, SpeakersAreShown, Publish
<1>5. CASE Tick
  <2> DEFINE items == Aged(queue.items)
             since == IF queue.since < Suppress THEN queue.since + 1 ELSE Suppress
  <2>1. /\ items \in Seq(Toast) /\ Len(items) = Len(queue.items) /\ OldestFirst(items)
        /\ (Plain(queue.items) => Plain(items))
    BY <1>1, AgedKeeps
  <2>2. since \in 0..Suppress
    BY <1>1, PhasesInOrder
  <2>3. queue' = Queue(items, since) /\ drawn' = FALSE
        /\ UNCHANGED <<cfg, enabled, viewport, frame, fresh, preview, was, layout, dirty, stamp>>
    BY <1>5 DEF Tick
  <2> HIDE DEF items, since
  <2>4. queue' = [items |-> items, since |-> since]
    BY <2>3 DEF Queue
  <2>5. queue' \in Waiting(cfg) /\ (~was => Plain(queue'.items))
    BY <1>1, <2>1, <2>2, <2>4 DEF Waiting, Inv
  <2>6. TypeOK'
    <3>1. queue'.items = items /\ queue'.since = since
      BY <2>4
    <3>2. /\ queue'.items \in Seq(Toast) /\ Len(queue'.items) <= cfg.max_visible
          /\ queue'.since \in 0..Suppress
      BY <1>1, <2>1, <2>2, <3>1
    <3> QED BY <2>3, <3>2 DEF Inv, TypeOK
  <2>7. SpeakersAreShown'
    BY <2>3 DEF SpeakersAreShown
  <2> QED BY <2>3, <2>5, <2>6, <2>7 DEF Inv
<1>6. CASE TogglePreview
  BY <1>1, <1>6 DEF Inv, TypeOK, SpeakersAreShown, TogglePreview
<1>7. CASE ToggleEnabled
  BY <1>7 DEF Inv, TypeOK, SpeakersAreShown, ToggleEnabled
<1>8. ASSUME NEW vp \in Viewports, Resize(vp) PROVE Inv'
  BY <1>8 DEF Inv, TypeOK, SpeakersAreShown, Resize
<1> QED BY <1>2, <1>3, <1>4, <1>5, <1>6, <1>7, <1>8 DEF Next

\* The invariant holds in every reachable state.
THEOREM Invariance == Spec => []Inv
<1>1. Init => Inv
  BY InvInit
<1>2. Inv /\ [Next]_vars => Inv'
  BY InvNext
<1> QED BY <1>1, <1>2, PTL DEF Spec

\* Every variable stays in its domain: the queue and the list of rows never
\* grow past their limits, whatever comes in one frame.
THEOREM TypeCorrect == Spec => []TypeOK
<1>1. Inv => TypeOK
  BY DEF Inv
<1> QED BY <1>1, Invariance, PTL

\* No sample of the preview is left among the toasts after a frame without it.
THEOREM SamplesGone == Spec => []SamplesGoWithPreview
<1>1. Inv => SamplesGoWithPreview
  <2> SUFFICES ASSUME Inv PROVE SamplesGoWithPreview
    OBVIOUS
  <2>1. DOMAIN queue.items = 1..Len(queue.items)
    BY LenProperties DEF Inv, TypeOK
  <2>2. ~was => \A i \in DOMAIN queue.items : ~queue.items[i].sample
    BY <2>1 DEF Inv, Plain
  <2> QED BY <2>2 DEF SamplesGoWithPreview, Toasts
<1> QED BY <1>1, Invariance, PTL

\* The rows are users of the newest frame, and no speaker is missing for the
\* sake of anybody silent.
THEOREM SpeakersShown == Spec => []SpeakersAreShown
<1>1. Inv => SpeakersAreShown
  BY DEF Inv
<1> QED BY <1>1, Invariance, PTL

\* The block of title and list is on the screen of the frame it is drawn in.
THEOREM BlockStays == Spec => []BlockOnScreen
<1>1. Inv => BlockOnScreen
  BY DEF Inv, BlockOnScreen
<1> QED BY <1>1, Invariance, PTL

\* A frame takes away only toasts that had their time, or that newer ones pushed
\* out because as many are shown as may; what is drawn is not over.
LEMMA FrameIsCourse ==
  ASSUME Inv, Frame
  PROVE  /\ drawn' => \A i \in DOMAIN Toasts' : Toasts'[i].age < Life
         /\ preview = was => Course(Toasts, Toasts', cfg)
<1>1. /\ cfg.max_visible \in Nat
      /\ queue.items \in Seq(Toast) /\ OldestFirst(queue.items)
  BY ScreenAssumption DEF Inv, TypeOK, Waiting
<1>2. PICK events \in Batches : Draw(Previewed(Submitted(queue, events)), events)
  BY DEF Frame
<1> DEFINE q == Previewed(Submitted(queue, events))
<1>3. /\ q \in Waiting(cfg)
      /\ preview = was => Len(queue.items) = 0 \/ Follows(queue.items, q.items, cfg)
  BY PreviewedKeeps
<1>4. Draw(q, events)
  BY <1>2
<1> HIDE DEF q
<1>5. /\ q.items \in Seq(Toast) /\ Len(q.items) <= cfg.max_visible /\ OldestFirst(q.items)
  BY <1>3 DEF Waiting
<1> DEFINE t == Ticked(q.items, cfg)
<1>6. \A i \in DOMAIN t : t[i].age < Life
  BY <1>1, <1>5, TickedKeeps
<1> HIDE DEF t
<1>7. \/ queue' = q /\ drawn' = FALSE
      \/ queue' = Queue(t, q.since) /\ drawn' = TRUE
  BY <1>4 DEF Draw, t
<1>8. \/ Toasts' = q.items /\ drawn' = FALSE
      \/ Toasts' = t /\ drawn' = TRUE
  BY <1>7 DEF Toasts, Queue
<1>9. ASSUME preview = was, Len(queue.items) = 0 PROVE Course(Toasts, Toasts', cfg)
  BY <1>9 DEF Course, Toasts
<1>10. ASSUME Follows(queue.items, q.items, cfg)
       PROVE  Course(Toasts, q.items, cfg) /\ Course(Toasts, t, cfg)
  BY <1>1, <1>5, <1>10, FollowingIsCourse, TickedIsCourse DEF Toasts, t
<1>11. preview = was => Course(Toasts, Toasts', cfg)
  BY <1>3, <1>8, <1>9, <1>10
<1> QED BY <1>6, <1>8, <1>11

\* A toast stays in its place until it had its time, and is not drawn after;
\* only newer ones push it out, and the preview's coming and going.
THEOREM ToastsStay == Spec => ToastsRunTheirCourse
<1> DEFINE Stay == /\ drawn' => \A i \in DOMAIN Toasts' : Toasts'[i].age < Life
                   /\ preview = was => Course(Toasts, Toasts', cfg)
<1>1. ASSUME Inv, [Next]_vars PROVE [Stay]_vars
  <2>1. /\ queue.items \in Seq(Toast) /\ Len(queue.items) \in Nat
        /\ DOMAIN queue.items = 1..Len(queue.items)
    <3>1. queue.items \in Seq(Toast)
      BY <1>1 DEF Inv, TypeOK
    <3> QED BY <3>1, LenProperties
  <2>2. ASSUME queue' = queue, drawn' = FALSE PROVE Stay
    <3>1. \A i \in 1..Len(queue.items) : i - 0 = i /\ SameText(queue.items[i], queue.items[i])
      BY DEF SameText
    <3> QED BY <2>1, <2>2, <3>1 DEF Course, Toasts
  <2>3. CASE UNCHANGED vars
    BY <2>3
  <2>4. CASE Frame
    BY <1>1, <2>4, FrameIsCourse
  <2>5. ASSUME NEW f \in Frames, Publish(f) PROVE Stay
    BY <2>2, <2>5 DEF Publish
  <2>6. CASE Tick
    <3> DEFINE items == Aged(queue.items)
    <3>1. /\ items \in Seq(Toast) /\ Len(items) = Len(queue.items)
          /\ \A i \in 1..Len(queue.items) : SameText(items[i], queue.items[i])
      BY <2>1, AgedKeeps
    <3> HIDE DEF items
    <3>2. Toasts' = items /\ drawn' = FALSE
      BY <2>6 DEF Tick, Toasts, Queue, items
    <3>3. DOMAIN items = 1..Len(queue.items)
      BY <3>1, LenProperties
    <3> QED BY <2>1, <3>1, <3>2, <3>3 DEF Course, Toasts
  <2>7. CASE TogglePreview
    BY <2>2, <2>7 DEF TogglePreview
  <2>8. CASE ToggleEnabled
    BY <2>2, <2>8 DEF ToggleEnabled
  <2>9. ASSUME NEW vp \in Viewports, Resize(vp) PROVE Stay
    BY <2>2, <2>9 DEF Resize
  <2> QED BY <1>1, <2>3, <2>4, <2>5, <2>6, <2>7, <2>8, <2>9 DEF Next
<1>2. ASSUME Inv, [Next]_vars
      PROVE  [(drawn' => \A i \in DOMAIN Toasts' : Toasts'[i].age < Life) /\
              (preview = was =>
                 \E gone \in 0..Len(Toasts) :
                     /\ (\E i \in 1..gone : Toasts[i].age < Life) => Len(Toasts') = cfg.max_visible
                     /\ \A i \in gone + 1..Len(Toasts) :
                           /\ i - gone \in DOMAIN Toasts'
                           /\ SameText(Toasts'[i - gone], Toasts[i]))]_vars
  BY <1>1, <1>2 DEF Course
<1> HIDE DEF Stay
<1> QED BY <1>2, Invariance, PTL DEF Spec, ToastsRunTheirCourse
=============================================================================
