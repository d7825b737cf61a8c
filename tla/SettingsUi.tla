------------------------------ MODULE SettingsUi ------------------------------
(***************************************************************************)
(* reshade-integration/src/settings_ui.cpp: what one frame of the settings *)
(* window may do.  A person touches at most one widget in a frame; the     *)
(* widget edits the configuration in place and raises flags the add-on     *)
(* acts on.  A slider takes any number that is typed into it.              *)
(***************************************************************************)
EXTENDS Configuration

CONSTANTS Names, Default    \* profiles

ASSUME DefaultIsAName == Default \in Names

None == "none"

VARIABLES
    cfg,       \* AddonState::config
    shown,     \* config.general.profile_name
    file,      \* name on disk -> configuration
    listed,    \* SettingsUi::profiles_
    preview    \* SettingsUi::preview_active_
uiVars == <<cfg, shown, file, listed, preview>>

-----------------------------------------------------------------------------
\* What a frame of the window leaves behind: an Outcome.
Untouched == [cfg |-> cfg, shown |-> shown, file |-> file, listed |-> listed,
              preview |-> preview, raises |-> {}, load |-> None]

Press(flags) == {[Untouched EXCEPT !.raises = flags]}

\* A widget for part k leaves it at v.
At(k, v) == [cfg EXCEPT ![k] = v]
Widget(k, v, flags) == [Untouched EXCEPT !.cfg = At(k, v), !.raises = flags]
Settable(k) == IF k \in Sliders THEN 0..Wild ELSE 0..1
Edit(parts, flags) == UNION {{Widget(k, v, flags) : v \in Settable(k)} : k \in parts}

Changes == {"config"}
Redeclares == {"config", "subscription"}

TogglePreview == {[Untouched EXCEPT !.preview = ~preview]}

Put(f, n, c) == [m \in DOMAIN f \cup {n} |-> IF m = n THEN c ELSE f[m]]
Drop(f, n) == [m \in DOMAIN f \ {n} |-> f[m]]
\* ProfileStore::list(), as refresh_profiles() keeps it.
OnDisk(f) == DOMAIN f

SectionTypography == Edit({"font", "appearance", "general", "geometry"}, Changes)
SectionNotificationBox == Edit({"toasts"}, Changes)

\* placement_editor() edits `visible` like any other field of a placement.
ChatPlacement == Edit({"chat.visible", "chat.look", "geometry"}, Changes)
\* notification_editor(), for each kind of toast; two of them are subscribed to.
NotificationEditors == Edit({"toasts"} \cup Toasts, Changes)

TabGeneral == Edit({"general", "geometry", "advanced"}, Changes) \cup TogglePreview
TabAppearance == Edit({"appearance", "geometry"}, Changes)
TabLayout == Edit({"group", "geometry", "toasts", "chat.look"}, Changes) \cup ChatPlacement
\* Adding or erasing an override changes the number of them, which is hashed.
TabUsers == Edit({"users", "geometry"}, Changes)
TabChannels == Edit({"channels", "geometry"}, Changes)
TabIndicators == Edit({"indicators"}, Changes)
TabNotifications == Edit({"toasts"}, Changes) \cup SectionNotificationBox \cup NotificationEditors
TabChat ==
    Edit({"chat.visible"} \cup Feeds, Redeclares)
    \cup (IF cfg["chat.visible"] = 1 THEN ChatPlacement ELSE {})
    \cup Edit({"chat.look", "chat.length"}, Changes)
TabAnimation == Edit({"animation"}, Changes)
TabIntegration == Edit({"pipe", "stale", "retry"}, Changes) \cup Press({"reconnect"})
TabDiagnostics == Edit({"users", "logging"}, Changes) \cup Press({"reconnect"})

LoadSelected == {[Untouched EXCEPT !.load = n] : n \in listed}

ResetAll == {[Untouched EXCEPT !.cfg = DefaultConfig, !.raises = Redeclares]}

\* The name in the configuration follows; AddonState::profile_name does not.
SaveAs ==
    {[Untouched EXCEPT !.file = Put(file, n, cfg), !.shown = n, !.listed = DOMAIN file \cup {n}] :
        n \in Names}

DeleteSelected ==
    {[Untouched EXCEPT !.file = Drop(file, n), !.listed = DOMAIN file \ {n}] :
        n \in (listed \ {Default}) \cap DOMAIN file}

\* import_from(): a text from anywhere.
Import ==
    UNION {{[Untouched EXCEPT !.cfg = Parse([DefaultConfig EXCEPT ![k] = v]), !.raises = Redeclares] :
                v \in Says(k)} : k \in Keys}

\* Mapping a game to a profile is ProfileStore's Remap, and read at a start only.
TabProfiles ==
    UNION {LoadSelected, Press({"save"}), Press({"reload"}), ResetAll, SaveAs,
           DeleteSelected, Import, Edit({"auto"}, Changes)}

BasicLayout == Edit({"group", "geometry", "appearance", "users", "toasts", "chat.look"}, Changes)
BasicToasts ==
    UNION {Edit({"toasts", "toast.chat"}, Changes), Edit({"toast.private"}, Redeclares),
           SectionNotificationBox}
BasicChat ==
    Edit({"chat.visible"} \cup (IF cfg["chat.visible"] = 1 THEN Feeds ELSE {}), Redeclares)
    \cup (IF cfg["chat.visible"] = 1 THEN Edit({"chat.look", "geometry"}, Changes) ELSE {})
BasicColours == Edit({"appearance", "indicators", "users"}, Changes)

BasicView ==
    UNION {Edit({"general"}, Changes), TogglePreview, Press({"reconnect"}),
           SectionTypography, BasicLayout, BasicToasts, BasicChat, BasicColours,
           TabProfiles, TabDiagnostics}

AllTabs ==
    UNION {TabGeneral, TabAppearance, TabLayout, TabUsers, TabChannels, TabIndicators,
           TabNotifications, TabChat, TabAnimation, TabIntegration, TabProfiles,
           TabDiagnostics}

Draw ==
    UNION {Edit({"advanced"}, Changes), Press({"save"}), Press({"reload"}),
           IF cfg["advanced"] = 1 THEN AllTabs ELSE BasicView}
=============================================================================
