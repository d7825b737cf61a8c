-------------------------------- MODULE Screen --------------------------------
(***************************************************************************)
(* What the game's render thread draws: reshade-integration's addon.cpp    *)
(* (on_reshade_overlay) and renderer.cpp (submit_events, seeding, draw),   *)
(* over the queue of toasts and the layout.  The client's frames and       *)
(* events come from its own thread at any time, and the person opens and   *)
(* closes the preview, switches the overlay off and on, and resizes.       *)
(***************************************************************************)
EXTENDS Notifications, Layout, Functions

CONSTANTS
    Settings,   \* the configurations considered
    Viewports,  \* heights of the screen
    Users,      \* what the frames' rosters may hold: sequences of users
    Batch       \* bound: events drained at once

User == [name : Nat, self : BOOLEAN, talking : BOOLEAN, muted : BOOLEAN, power : Int]

ASSUME ScreenAssumption ==
    /\ \A c \in Settings :
          /\ c.max_visible \in Nat /\ c.max_visible_users \in Nat /\ c.offset \in Int
          /\ c.anchor \in {"top", "bottom", "middle"}
          /\ c.speaking_first \in BOOLEAN /\ c.feed_shown \in BOOLEAN
    /\ Viewports \subseteq Nat /\ Users \subseteq Seq(User) /\ Batch \in Nat

VARIABLES
    cfg,        \* the configuration; AddonSession is about its changes
    enabled,    \* general.enabled
    viewport,
    frame,      \* the client's latest: link and connection up, and the roster
    fresh,      \* frame.revision differs from last_revision_
    preview,    \* the settings window shows the preview
    was,        \* AddonState::preview_was_active
    queue,      \* Renderer::notifications_
    layout,     \* Renderer::layout_
    dirty,      \* Renderer::layout_dirty_
    stamp,      \* Renderer::last_config_hash_: was the chat feed shown
    drawn       \* a frame was just drawn, past draw()'s early returns
vars == <<cfg, enabled, viewport, frame, fresh, preview, was, queue, layout, dirty, stamp, drawn>>

Frames == [link : {FALSE}, live : {FALSE}, users : {<<>>}]
          \cup [link : {TRUE}, live : {FALSE}, users : {<<>>}]
          \cup [link : {TRUE}, live : {TRUE}, users : Users]

\* preview_state(): one of its ten users stands for them.
Alice == [name |-> 0, self |-> FALSE, talking |-> TRUE, muted |-> FALSE, power |-> 0]
PreviewState == [link |-> TRUE, live |-> TRUE, users |-> <<Alice>>]

TypeOK ==
    /\ cfg \in Settings /\ enabled \in BOOLEAN /\ viewport \in Viewports
    /\ frame \in Frames /\ fresh \in BOOLEAN
    /\ preview \in BOOLEAN /\ was \in BOOLEAN
    /\ queue.items \in Seq(Toast) /\ Len(queue.items) <= cfg.max_visible
    /\ queue.since \in 0..Suppress
    /\ layout.viewport \in Viewports \cup {0}
    /\ Len(layout.rows) <= cfg.max_visible_users
    /\ dirty \in BOOLEAN /\ stamp \in BOOLEAN /\ drawn \in BOOLEAN

Init ==
    /\ cfg \in Settings /\ enabled = TRUE /\ viewport \in Viewports
    /\ frame = [link |-> FALSE, live |-> FALSE, users |-> <<>>]
    /\ fresh = FALSE /\ preview = FALSE /\ was = FALSE
    /\ queue = Queue(<<>>, LongAgo)
    /\ layout = [viewport |-> 0, height |-> 0, rows |-> <<>>, y |-> 0]
    /\ dirty = TRUE /\ stamp = FALSE /\ drawn = FALSE

-----------------------------------------------------------------------------
\* push_events() keeps the last so many; any events may have come since.
Batches == UNION {[1..n -> [kind : Kinds, sample : {FALSE}]] : n \in 0..Batch}

\* submit_events(): one after the other.
Submitted(q, events) ==
    LET after[n \in 0..Len(events)] ==
            IF n = 0 THEN q ELSE Submit(after[n - 1], events[n], cfg)
    IN after[Len(events)]

Sample(kind) == [kind |-> kind, sample |-> TRUE]

\* seed_preview_notifications(): the silence after connecting is lifted first,
\* and again after the sample of a connection.
Seeded ==
    LET q1 == Submit(Queue(<<>>, LongAgo), Sample("join"), cfg)
        q2 == Submit(q1, Sample("connected"), cfg)
    IN Submit(Queue(q2.items, LongAgo), Sample("chat"), cfg)

\* Mutant: the samples stay when the preview is left.
PreviewedOnly(q) == IF preview /\ (~was \/ q.items = <<>>) THEN Seeded ELSE q

\* What on_reshade_overlay() makes of the queue before it draws.
Previewed(q) ==
    IF preview THEN (IF ~was \/ q.items = <<>> THEN Seeded ELSE q)
    ELSE IF was THEN Queue(<<>>, 0) ELSE q

State == IF preview THEN PreviewState ELSE frame
Gated ==
    \/ ~enabled
    \/ ~State.link /\ ~cfg.show_when_plugin_unavailable
    \/ ~State.live /\ ~cfg.show_when_disconnected

Talking(state) == \E i \in DOMAIN state.users : state.users[i].talking

\* A preview is laid out with the chat feed shown, which is hashed.
FeedShown == cfg.feed_shown \/ preview
HashChanged == stamp # FeedShown

\* Mutant: a new frame is not noticed.
NeedsNoNews(unsettled) == unsettled \/ layout.viewport # viewport \/ HashChanged \/ preview

\* Mutant: a new size of the screen is not noticed.
NeedsNoResize(unsettled) == unsettled \/ HashChanged \/ fresh \/ preview \/ Talking(State)

NeedsLayout(unsettled) ==
    \/ unsettled \/ layout.viewport # viewport \/ HashChanged
    \/ fresh \/ preview \/ Talking(State)

\* draw()
Draw(q, events) ==
    LET unsettled == dirty \/ events # <<>> IN
    IF Gated
    THEN /\ queue' = q /\ drawn' = FALSE /\ dirty' = unsettled
         /\ UNCHANGED <<layout, fresh, stamp>>
    ELSE /\ queue' = Queue(Ticked(q.items, cfg), q.since) /\ drawn' = TRUE
         /\ IF NeedsLayout(unsettled)
            THEN /\ layout' = ComputeLayout(State, cfg, viewport)
                 /\ dirty' = FALSE /\ fresh' = FALSE /\ stamp' = FeedShown
            ELSE UNCHANGED <<layout, dirty, fresh, stamp>>

\* on_reshade_overlay()
Frame ==
    /\ \E events \in Batches :
          Draw(Previewed(Submitted(queue, events)), events)
    /\ was' = preview
    /\ UNCHANGED <<cfg, enabled, viewport, frame, preview>>

-----------------------------------------------------------------------------
Publish(f) ==
    /\ frame' = f /\ fresh' = TRUE
    /\ drawn' = FALSE
    /\ UNCHANGED <<cfg, enabled, viewport, preview, was, queue, layout, dirty, stamp>>

Tick ==
    /\ queue' = Queue(Aged(queue.items), IF queue.since < Suppress THEN queue.since + 1 ELSE Suppress)
    /\ drawn' = FALSE
    /\ UNCHANGED <<cfg, enabled, viewport, frame, fresh, preview, was, layout, dirty, stamp>>

TogglePreview ==
    /\ preview' = ~preview /\ drawn' = FALSE
    /\ UNCHANGED <<cfg, enabled, viewport, frame, fresh, was, queue, layout, dirty, stamp>>

\* A click on "Enabled" is a change of the configuration.
ToggleEnabled ==
    /\ enabled' = ~enabled /\ dirty' = TRUE /\ drawn' = FALSE
    /\ UNCHANGED <<cfg, viewport, frame, fresh, preview, was, queue, layout, stamp>>

Resize(vp) ==
    /\ vp # viewport /\ viewport' = vp /\ drawn' = FALSE
    /\ UNCHANGED <<cfg, enabled, frame, fresh, preview, was, queue, layout, dirty, stamp>>

Next ==
    \/ Frame
    \/ \E f \in Frames : Publish(f)
    \/ Tick
    \/ TogglePreview
    \/ ToggleEnabled
    \/ \E vp \in Viewports : Resize(vp)

Spec == Init /\ [][Next]_vars

-----------------------------------------------------------------------------
Toasts == queue.items

\* A toast stays, in its place among the others, until it had its time, and is
\* not drawn after: only as many newer ones as may be seen push it out, or the
\* preview's coming and going ("never removed mid-animation" but for those).
ToastsRunTheirCourse ==
    [][(drawn' => \A i \in DOMAIN Toasts' : Toasts'[i].age < Life) /\
       (preview = was =>
          \E gone \in 0..Len(Toasts) :
              /\ (\E i \in 1..gone : Toasts[i].age < Life) => Len(Toasts') = cfg.max_visible
              /\ \A i \in gone + 1..Len(Toasts) :
                    /\ i - gone \in DOMAIN Toasts'
                    /\ SameText(Toasts'[i - gone], Toasts[i]))]_vars

\* After a frame without the preview no sample is among the toasts, however
\* preview, overlay and game were switched in between, drawn or not.
SamplesGoWithPreview ==
    (~preview /\ ~was) => \A i \in DOMAIN Toasts : ~Toasts[i].sample

\* Each row is a user of the newest frame, speaking if he speaks now; and where
\* speakers come first one of them is missing only when the list is full of
\* others that speak.  Except for the preview's own user, whom leaving it does
\* not take off the list if the feed is shown anyway, so that the hash agrees.
LeftByPreview == layout.rows = <<Alice>>
SpeakersAreShown ==
    (drawn /\ ~preview /\ ~LeftByPreview) =>
        /\ Range(layout.rows) \subseteq Range(frame.users)
        /\ SpeakingFirst(cfg) =>
              \A u \in Range(frame.users) :
                  u.talking /\ Listed(u, cfg) =>
                      \/ u \in Range(layout.rows)
                      \/ /\ Len(layout.rows) = cfg.max_visible_users
                         /\ \A k \in DOMAIN layout.rows : layout.rows[k].talking

\* Whatever the anchor, the roster and the size of the screen now, the block of
\* title and list begins on the screen, and ends on it if it can.
BlockOnScreen ==
    drawn => /\ layout.y >= 0
             /\ layout.height <= viewport => layout.y + layout.height <= viewport
=============================================================================
