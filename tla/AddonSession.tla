---------------------------- MODULE AddonSession ----------------------------
(***************************************************************************)
(* reshade-integration/src/addon.cpp with renderer.cpp's decision to lay   *)
(* out again: one game from the moment the add-on is loaded until it is    *)
(* unloaded, and how what the person sets in the window reaches the        *)
(* screen, the client's subscription, the logger and the disk.  Saving is  *)
(* atomic here; ProfileStore models its steps.                             *)
(***************************************************************************)
EXTENDS SettingsUi

CONSTANTS MaxEdits,    \* bound: frames of the window in which something is touched
          MaxOutside,  \* bound: changes other programs make to the files,
          Foreign      \* bound: and the keys they change

ASSUME SessionAssumption == /\ MaxEdits \in Nat /\ MaxOutside \in Nat
                            /\ Foreign \subseteq Keys

VARIABLES
    started,   \* AddonState::started
    using,     \* AddonState::profile_name
    client,    \* what the overlay client was last told
    logging,   \* what the logger was last told
    font,      \* AddonState::applied_font_file
    laid,      \* the configuration layout_ was computed from
    dirty,     \* Renderer::layout_dirty_
    stamp,     \* Renderer::last_config_hash_
    drawn,     \* a frame has been drawn since the configuration last changed
    hushed,    \* parts edited since without a word to the client
    edits, outside
vars == <<uiVars, started, using, client, logging, font, laid, dirty, stamp, drawn,
          hushed, edits, outside>>

\* layout_hash()
Hash(c) == <<c["geometry"], c["chat.visible"]>>

On(c, k) == c[k] = 1
\* subscription_from()
Subscription(c) ==
    [channel |-> (On(c, "chat.visible") /\ On(c, "chat.channel")) \/ On(c, "toast.chat"),
     server |-> On(c, "chat.visible") /\ On(c, "chat.server"),
     priv |-> (On(c, "chat.visible") /\ On(c, "chat.private")) \/ On(c, "toast.private"),
     length |-> c["chat.length"]]
Subscriptions ==
    [channel : BOOLEAN, server : BOOLEAN, priv : BOOLEAN, length : 0..Wild]
Subscribed == {"chat.visible", "chat.length"} \cup Feeds \cup Toasts

TypeOK ==
    /\ cfg \in [Keys -> 0..Wild] /\ cfg["retry"] # Wild /\ cfg["field"] = 0
    /\ shown \in Names /\ listed \subseteq Names
    /\ preview \in BOOLEAN /\ started \in BOOLEAN /\ using \in Names
    /\ DOMAIN file \subseteq Names
    /\ \A n \in DOMAIN file : /\ file[n] \in [Keys -> 0..Bad]
                              /\ \A k \in Keys : file[n][k] \in Says(k) \cup {Wild}
    /\ client.subscription \in Subscriptions
    /\ client.stale \in 0..Wild /\ client.pipe \in 0..1
    /\ logging \in 0..1 /\ font \in 0..1 /\ laid \in [Keys -> 0..Wild]
    /\ dirty \in BOOLEAN /\ stamp \in (0..Wild) \X (0..1) /\ drawn \in BOOLEAN
    /\ hushed \subseteq Subscribed
    /\ edits \in 0..MaxEdits /\ outside \in 0..MaxOutside

\* ProfileStore::load(); a text that does not parse is as good as none.
Loaded(n) == IF n \in DOMAIN file THEN Parse(file[n]) ELSE DefaultConfig

\* Before the add-on is loaded nothing of it exists; the values are its defaults.
Init ==
    /\ cfg = DefaultConfig /\ shown = Default /\ using = Default
    /\ file = [n \in {Default} |-> DefaultConfig]
    /\ listed = {} /\ preview = FALSE /\ started = FALSE
    /\ client = [subscription |-> Subscription(DefaultConfig), stale |-> 0, pipe |-> 0]
    /\ logging = 0 /\ font = 0
    /\ laid = DefaultConfig /\ dirty = TRUE /\ stamp = Hash(DefaultConfig) /\ drawn = FALSE
    /\ hushed = {} /\ edits = 0 /\ outside = 0

-----------------------------------------------------------------------------
\* load_configuration(): the game's own profile if the default one says so and
\* the table, which may name any profile that exists, has one.
ProfileAtStart ==
    {Default} \cup (IF On(Loaded(Default), "auto") THEN OnDisk(file) ELSE {})

\* initialise(), with start_client()
Load ==
    /\ ~started /\ started' = TRUE
    /\ \E n \in ProfileAtStart :
          /\ using' = n /\ shown' = n
          /\ cfg' = Loaded(n)
          /\ client' = [subscription |-> Subscription(Loaded(n)),
                        stale |-> Loaded(n)["stale"], pipe |-> Loaded(n)["pipe"]]
          /\ logging' = Loaded(n)["logging"]
    /\ listed' = OnDisk(file)
    /\ preview' = FALSE /\ dirty' = TRUE /\ drawn' = FALSE /\ font' = 0 /\ hushed' = {}
    /\ UNCHANGED <<file, laid, stamp, edits, outside>>

\* shutdown()
Unload ==
    /\ started /\ started' = FALSE
    /\ UNCHANGED <<uiVars, using, client, logging, font, laid, dirty, stamp, drawn,
                   hushed, edits, outside>>

\* on_reshade_overlay(), up to Renderer::draw()'s layout.  A frame of the client
\* may be new; a preview is laid out each time, with the chat feed shown.
Frame ==
    /\ started
    /\ font' = cfg["font"]
    /\ LET used == IF preview THEN [cfg EXCEPT !["chat.visible"] = 1] ELSE cfg IN
       \E arrived \in BOOLEAN :
          IF dirty \/ preview \/ arrived \/ Hash(used) # stamp
          THEN laid' = used /\ dirty' = FALSE /\ stamp' = Hash(used)
          ELSE UNCHANGED <<laid, dirty, stamp>>
    /\ drawn' = TRUE
    /\ UNCHANGED <<uiVars, started, using, client, logging, hushed, edits, outside>>

-----------------------------------------------------------------------------
(* on_settings_overlay(): the window, then what it asked for, in order.    *)

Raised(o, flag) == flag \in o.raises

\* Which configuration is in force when the window and its requests are done.
Reloads(o) == Raised(o, "reload") \/ o.load # None
NewName(o) == IF o.load # None THEN o.load ELSE using
\* Mutant: an edit is not clamped.
EditedRaw(o) == o.cfg

Edited(o) == IF Raised(o, "config") THEN Clamped(o.cfg) ELSE o.cfg
NewConfig(o) == IF Reloads(o) THEN Loaded(NewName(o)) ELSE Edited(o)

\* Mutant: a reload does not tell the client.
RedeclaredIfRaised(o) == Raised(o, "subscription")

Redeclared(o) == Raised(o, "subscription") \/ Reloads(o)

\* A save can fail, and then only says so.
SaveOutcomes(o) ==
    IF Raised(o, "save")
    THEN {[file |-> Put(o.file, using, o.cfg), listed |-> DOMAIN o.file \cup {using}],
          [file |-> o.file, listed |-> o.listed]}
    ELSE {[file |-> o.file, listed |-> o.listed]}

TellClient(o) ==
    client' = [client EXCEPT
        !.subscription = IF Redeclared(o) THEN Subscription(NewConfig(o)) ELSE @,
        !.stale = IF Raised(o, "config") THEN Edited(o)["stale"] ELSE @]

\* Mutant: a reload does not tell the renderer.
TellRendererOfEdits(o) == dirty' = (dirty \/ Raised(o, "config"))
TellRenderer(o) == dirty' = (dirty \/ Raised(o, "config") \/ Reloads(o))

TellLogger(o) ==
    logging' = IF o.load # None THEN NewConfig(o)["logging"]
               ELSE IF Raised(o, "config") THEN Edited(o)["logging"] ELSE logging

Settings(o) ==
    /\ cfg' = NewConfig(o)
    /\ shown' = IF Reloads(o) THEN NewName(o) ELSE o.shown
    /\ using' = NewName(o)
    /\ \E s \in SaveOutcomes(o) : file' = s.file /\ listed' = s.listed
    /\ preview' = o.preview
    /\ TellClient(o) /\ TellRenderer(o) /\ TellLogger(o)
    /\ drawn' = (drawn /\ cfg' = cfg)
    /\ hushed' = IF Raised(o, "subscription") \/ Reloads(o) THEN {}
                 ELSE {k \in Subscribed : k \in hushed \/ cfg'[k] # cfg[k]}

Touch ==
    /\ started /\ edits < MaxEdits /\ edits' = edits + 1
    /\ \E o \in Draw : Settings(o)
    /\ UNCHANGED <<started, font, laid, stamp, outside>>

\* Another game, an editor or a newer build of the overlay changes a profile.
Elsewhere ==
    /\ outside < MaxOutside /\ outside' = outside + 1
    /\ \E n \in Names :
          \/ \E k \in Foreign : \E v \in Says(k) : file' = Put(file, n, [DefaultConfig EXCEPT ![k] = v])
          \/ n # Default /\ file' = Drop(file, n)
    /\ UNCHANGED <<cfg, shown, listed, preview, started, using, client, logging, font,
                   laid, dirty, stamp, drawn, hushed, edits>>

Next == Load \/ Unload \/ Frame \/ Touch \/ Elsewhere
Spec == Init /\ [][Next]_vars

-----------------------------------------------------------------------------
\* What is on screen was laid out from the settings in force, whichever part
\* was edited, reset, imported, reloaded or switched, and whether or not the
\* hash has that part; a preview only differs in showing the feed.
ScreenFollowsConfig ==
    (started /\ drawn) => \A k \in Parts \ {"chat.visible", "advanced", "auto"} : laid[k] = cfg[k]

\* The plugin is asked for what the settings want, however they came to be in
\* force, until an edit of what it depends on raises no flag.
DeclaredUnlessHushed ==
    (started /\ hushed = {}) => client.subscription = Subscription(cfg)
=============================================================================
