---------------------------- MODULE Notifications ----------------------------
(***************************************************************************)
(* shared/src/notifications.cpp: the queue of toasts.  A toast is kept as  *)
(* to its kind, its age and phase and whether it is a sample; one text     *)
(* stands for all of a kind.  Time is counted in ticks since it was made.  *)
(***************************************************************************)
EXTENDS Naturals, Sequences, Ordering

CONSTANTS
    FadeIn,     \* the ages at which it is visible,
    Held,       \* at which it fades out
    Life,       \* and at which it is over
    Suppress    \* suppress_after_connect_ms

ASSUME PhasesInOrder ==
    /\ {FadeIn, Held, Life, Suppress} \subseteq Nat
    /\ 0 < FadeIn /\ FadeIn <= Held /\ Held <= Life

Kinds == {"join", "connected", "chat"}    \* a leave is treated as a join
Events == [kind : Kinds, sample : BOOLEAN]
Toast == [kind : Kinds, sample : BOOLEAN, age : 0..Life, phase : {"FadeIn", "Visible", "FadeOut"}]

\* connected_at_ms_: how long ago that was; 0 in the code is long ago.
LongAgo == Suppress
Queue(items, since) == [items |-> items, since |-> since]

-----------------------------------------------------------------------------
\* "TeamSpeak connected" reads the same in a sample.
SameText(a, b) == a.kind = b.kind /\ (a.kind = "connected" \/ a.sample = b.sample)

Merges(items, e) ==
    /\ items # <<>>
    /\ SameText(items[Len(items)], e)
    /\ items[Len(items)].phase # "FadeOut"

\* Mutant: the limit is looked at one toast too late.
EvictedLate(items, cfg) ==
    IF Len(items) > cfg.max_visible + 1
    THEN SubSeq(items, Len(items) - cfg.max_visible + 1, Len(items)) ELSE items

\* The oldest go, whatever they are doing.
Evicted(items, cfg) ==
    IF Len(items) > cfg.max_visible
    THEN SubSeq(items, Len(items) - cfg.max_visible + 1, Len(items)) ELSE items

Added(items, e, cfg) ==
    IF Merges(items, e)
    THEN [items EXCEPT ![Len(items)].age = 0, ![Len(items)].phase = "Visible"]
    ELSE Evicted(Append(items, [kind |-> e.kind, sample |-> e.sample, age |-> 0, phase |-> "FadeIn"]),
                 cfg)

\* The connection is noted before it is known whether it is to be shown.
Noted(q, e) == IF e.kind = "connected" THEN 0 ELSE q.since

Silenced(e, since) == e.kind = "join" /\ since < Suppress

Submit(q, e, cfg) ==
    IF e.kind \notin cfg.enabled \/ Silenced(e, Noted(q, e))
    THEN Queue(q.items, Noted(q, e))
    ELSE Queue(Added(q.items, e, cfg), Noted(q, e))

Phase(age) == IF age < FadeIn THEN "FadeIn" ELSE IF age < Held THEN "Visible" ELSE "FadeOut"
Rephased(t) == [t EXCEPT !.phase = Phase(t.age)]

\* Mutant: a toast goes as soon as it begins to fade.
TickedEarly(items, cfg) ==
    LET order == Ascending({i \in DOMAIN items : items[i].age < Held})
    IN Evicted([k \in DOMAIN order |-> Rephased(items[order[k]])], cfg)

\* tick(): what is over is erased, and nothing else is.
Ticked(items, cfg) ==
    LET order == Ascending({i \in DOMAIN items : items[i].age < Life})
    IN Evicted([k \in DOMAIN order |-> Rephased(items[order[k]])], cfg)

-----------------------------------------------------------------------------
Aged(items) == [i \in DOMAIN items |-> [items[i] EXCEPT !.age = IF @ < Life THEN @ + 1 ELSE @]]
=============================================================================
