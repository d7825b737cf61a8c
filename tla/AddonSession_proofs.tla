------------------------- MODULE AddonSession_proofs -------------------------
(***************************************************************************)
(* Theorems about AddonSession, for any profiles, number of edits and of   *)
(* changes from outside.                                                   *)
(*                                                                         *)
(* The argument: whatever the window did, a configuration that changed was *)
(* announced with "config", so that it is clamped before it is in force    *)
(* and the renderer lays out again.                                        *)
(***************************************************************************)
EXTENDS AddonSession, TLAPS

Looked == Parts \ {"chat.visible", "advanced", "auto"}

\* A text as it may be on disk, and a configuration as it may be in force.
TextOK(d) == d \in [Keys -> 0..Bad] /\ \A k \in Keys : d[k] \in Says(k) \cup {Wild}
FilesOK(f) == DOMAIN f \subseteq Names /\ \A n \in DOMAIN f : TextOK(f[n])
EditedOK(c) == /\ c \in [Keys -> 0..Wild] /\ c["field"] = 0
               /\ \A k \in Parts \ Sliders : c[k] \in 0..1
ConfigOK(c) == EditedOK(c) /\ c["retry"] # Wild

\* What holds of each outcome of a frame of the window.
OutcomeOK(o) ==
  /\ EditedOK(o.cfg)
  /\ o.cfg = cfg \/ "config" \in o.raises
  /\ o.shown \in Names /\ o.listed \subseteq Names /\ o.preview \in BOOLEAN
  /\ o.load \in Names \cup {None}
  /\ FilesOK(o.file)

UiOK == /\ ConfigOK(cfg) /\ FilesOK(file)
        /\ shown \in Names /\ listed \subseteq Names /\ preview \in BOOLEAN

\* The part names that decide something are different and are parts.
LEMMA KeysOK ==
  /\ "retry" \in Sliders /\ "retry" \in Keys /\ "field" \in Keys /\ "version" \in Keys
  /\ Sliders \subseteq Keys /\ Parts \subseteq Keys /\ Subscribed \subseteq Keys
  /\ "field" \notin Parts /\ "version" \notin Parts /\ "section" \notin Parts
  /\ Keys = Parts \cup {"version", "section", "field"}
  BY DEF Keys, Parts, Sliders, Looks, Feeds, Toasts, Subscribed

\* The defaults are a configuration and a text.
LEMMA DefaultOK == ConfigOK(DefaultConfig) /\ TextOK(DefaultConfig)
  BY KeysOK DEF DefaultConfig, ConfigOK, EditedOK, TextOK, Says, Wild, Bad, kConfigVersion, NoVersion, Newer

\* Any configuration may be written to a file.
LEMMA ConfigIsText == ASSUME NEW c \in [Keys -> 0..Wild] PROVE TextOK(c)
<1>1. \A k \in Keys : c[k] \in {0, 1, 2} /\ {0, 1, 2} \subseteq Says(k) \cup {Wild}
  BY DEF Wild, Says, NoVersion, kConfigVersion, Newer, Bad
<1> QED
  BY <1>1 DEF TextOK, Wild, Bad

\* clamp() puts the delays in order and touches nothing else.
LEMMA ClampOK == ASSUME NEW c, EditedOK(c) PROVE ConfigOK(Clamped(c))
  BY KeysOK DEF Clamped, Wild, EditedOK, ConfigOK

\* Whatever text is read, what comes out is a configuration.
LEMMA ParseOK == ASSUME NEW d, TextOK(d) PROVE ConfigOK(Parse(d))
<1> DEFINE m == Migrated(d)
           c == [k \in Keys |-> CASE k \in Parts -> Read(k, m[k])
                                  [] k = "field" -> 0
                                  [] k \in {"version", "section"} -> m[k]]
<1>1. \A k \in Keys : m[k] \in 0..Bad
  BY KeysOK DEF TextOK, Migrated, kConfigVersion, NoVersion, Bad
<1>2. m["version"] \in 0..Wild /\ m["section"] \in 0..Wild
  BY KeysOK DEF TextOK, Migrated, Says, Sliders, Looks, kConfigVersion, NoVersion, Newer, Bad, Wild
<1>3. \A k \in Parts : Read(k, m[k]) \in 0..1
  BY <1>1, KeysOK DEF Read, DefaultConfig, Wild, Bad
<1>4. EditedOK(c)
  <2>1. 0..1 \subseteq 0..Wild /\ 0 \in 0..Wild
    BY DEF Wild
  <2>2. \A k \in Parts : c[k] \in 0..1
    BY <1>3, KeysOK
  <2>3. c["field"] = 0 /\ c["version"] = m["version"] /\ c["section"] = m["section"]
    BY KeysOK
  <2>4. \A k \in Keys : c[k] \in 0..Wild
    BY <1>2, <2>1, <2>2, <2>3, KeysOK
  <2> HIDE DEF c
  <2>5. c \in [Keys -> 0..Wild]
    BY <2>4, KeysOK DEF c
  <2> QED
    BY <2>2, <2>3, <2>5 DEF EditedOK
<1>5. Parse(d) = Clamped(c)
  BY DEF Parse, FromJson
<1> HIDE DEF c
<1> QED
  BY <1>4, <1>5, ClampOK DEF ConfigOK, EditedOK

\* What load() returns is a configuration, whatever is on disk.
LEMMA LoadedOK == ASSUME FilesOK(file), NEW n PROVE ConfigOK(Loaded(n))
  BY ParseOK, DefaultOK DEF Loaded, FilesOK

\* Putting a text in and taking a file out leave texts.
LEMMA PutDropOK ==
  ASSUME NEW f, FilesOK(f), NEW n \in Names, NEW c, TextOK(c)
  PROVE  FilesOK(Put(f, n, c)) /\ FilesOK(Drop(f, n))
  BY DEF FilesOK, Put, Drop

\* An edit that announces itself is a proper outcome.
LEMMA EditOK ==
  ASSUME UiOK, NEW parts, NEW flags, "config" \in flags, parts \subseteq Keys \ {"field"}
  PROVE  \A o \in Edit(parts, flags) : OutcomeOK(o)
<1> SUFFICES ASSUME NEW k \in parts, NEW v \in Settable(k)
             PROVE  OutcomeOK(Widget(k, v, flags))
  BY DEF Edit
<1>1. v \in 0..Wild
  BY DEF Settable, Wild
<1>2. EditedOK(At(k, v))
  BY <1>1, KeysOK DEF At, Settable, UiOK, ConfigOK, EditedOK
<1> QED
  BY <1>2 DEF Widget, OutcomeOK, Untouched, UiOK, None

\* So is a button.
LEMMA PressOK == ASSUME UiOK, NEW flags PROVE \A o \in Press(flags) : OutcomeOK(o)
  BY DEF Press, OutcomeOK, Untouched, UiOK, ConfigOK, EditedOK, None

\* So is everything the profiles tab does.
LEMMA ProfilesOK == ASSUME UiOK PROVE \A o \in TabProfiles : OutcomeOK(o)
<1>1. \A o \in LoadSelected : OutcomeOK(o)
  BY DEF LoadSelected, OutcomeOK, Untouched, UiOK, ConfigOK, EditedOK
<1>2. \A o \in ResetAll : OutcomeOK(o)
  BY DefaultOK DEF ResetAll, Redeclares, OutcomeOK, Untouched, UiOK, ConfigOK, EditedOK
<1>3. \A o \in SaveAs : OutcomeOK(o)
  <2> TAKE o \in SaveAs
  <2>0. PICK n \in Names :
         o = [Untouched EXCEPT !.file = Put(file, n, cfg), !.shown = n, !.listed = DOMAIN file \cup {n}]
    BY Zenon DEF SaveAs
  <2>1. FilesOK(Put(file, n, cfg))
    BY ConfigIsText, PutDropOK DEF UiOK, ConfigOK, EditedOK
  <2> QED
    BY <2>0, <2>1 DEF OutcomeOK, Untouched, UiOK, ConfigOK, EditedOK, FilesOK, None
<1>4. \A o \in DeleteSelected : OutcomeOK(o)
  <2> TAKE o \in DeleteSelected
  <2>0. PICK n \in listed \cap DOMAIN file :
         o = [Untouched EXCEPT !.file = Drop(file, n), !.listed = DOMAIN file \ {n}]
    BY Zenon DEF DeleteSelected
  <2>1. FilesOK(Drop(file, n))
    BY DefaultOK, PutDropOK DEF UiOK
  <2> QED
    BY <2>0, <2>1 DEF OutcomeOK, Untouched, UiOK, ConfigOK, EditedOK, FilesOK, None
<1>5. \A o \in Import : OutcomeOK(o)
  <2> TAKE o \in Import
  <2>0. PICK k \in Keys : o \in
         {[Untouched EXCEPT !.cfg = Parse([DefaultConfig EXCEPT ![k] = v]), !.raises = Redeclares] :
            v \in Says(k)}
    BY Zenon DEF Import
  <2> PICK v \in Says(k) :
         o = [Untouched EXCEPT !.cfg = Parse([DefaultConfig EXCEPT ![k] = v]), !.raises = Redeclares]
    BY <2>0, Zenon
  <2>1. v \in 0..Bad
    BY DEF Says, NoVersion, kConfigVersion, Newer, Bad
  <2>2. ConfigOK(Parse([DefaultConfig EXCEPT ![k] = v]))
    BY <2>1, DefaultOK, ParseOK DEF TextOK
  <2> QED
    BY <2>2 DEF OutcomeOK, Untouched, UiOK, ConfigOK, EditedOK, Redeclares, None
<1>6. \A o \in Edit({"auto"}, Changes) : OutcomeOK(o)
  BY EditOK, KeysOK DEF Changes, Parts
<1> QED
  BY <1>1, <1>2, <1>3, <1>4, <1>5, <1>6, PressOK DEF TabProfiles

\* A frame of the window changes the configuration only if it says so.
LEMMA DrawOK == ASSUME UiOK PROVE \A o \in Draw : OutcomeOK(o)
<1>1. \A parts \in SUBSET Parts : \A flags \in {Changes, Redeclares} :
        \A o \in Edit(parts, flags) : OutcomeOK(o)
  BY EditOK, KeysOK DEF Changes, Redeclares
<1>2. \A o \in TogglePreview : OutcomeOK(o)
  BY DEF TogglePreview, OutcomeOK, Untouched, UiOK, ConfigOK, EditedOK, None
<1> USE DEF Parts, Sliders, Looks, Feeds, Toasts
<1>3. \A o \in ChatPlacement \cup NotificationEditors \cup SectionTypography
               \cup SectionNotificationBox : OutcomeOK(o)
  BY <1>1 DEF ChatPlacement, NotificationEditors, SectionTypography, SectionNotificationBox
<1>4. \A o \in TabDiagnostics \cup TabIntegration : OutcomeOK(o)
  BY <1>1, PressOK DEF TabDiagnostics, TabIntegration
<1>5. \A o \in AllTabs : OutcomeOK(o)
  <2>1. \A o \in TabGeneral \cup TabAppearance \cup TabLayout : OutcomeOK(o)
    BY <1>1, <1>2, <1>3 DEF TabGeneral, TabAppearance, TabLayout
  <2>2. \A o \in TabUsers \cup TabChannels \cup TabIndicators : OutcomeOK(o)
    BY <1>1 DEF TabUsers, TabChannels, TabIndicators
  <2>3. \A o \in TabNotifications \cup TabAnimation : OutcomeOK(o)
    BY <1>1, <1>3 DEF TabNotifications, TabAnimation
  <2>4. \A o \in TabChat : OutcomeOK(o)
    BY <1>1, <1>3 DEF TabChat
  <2> QED
    BY <1>4, <2>1, <2>2, <2>3, <2>4, ProfilesOK DEF AllTabs
<1>6. \A o \in BasicView : OutcomeOK(o)
  <2>1. \A o \in BasicLayout \cup BasicColours : OutcomeOK(o)
    BY <1>1 DEF BasicLayout, BasicColours
  <2>2. \A o \in BasicToasts : OutcomeOK(o)
    BY <1>1, <1>3 DEF BasicToasts
  <2>3. \A o \in BasicChat : OutcomeOK(o)
    BY <1>1 DEF BasicChat
  <2>4. \A o \in Edit({"general"}, Changes) : OutcomeOK(o)
    BY <1>1
  <2> QED
    BY <1>2, <1>3, <1>4, <2>1, <2>2, <2>3, <2>4, PressOK, ProfilesOK DEF BasicView
<1>7. \A o \in Edit({"advanced"}, Changes) : OutcomeOK(o)
  BY <1>1
<1> QED
  BY <1>5, <1>6, <1>7, PressOK DEF Draw

Flags == started \in BOOLEAN /\ dirty \in BOOLEAN /\ drawn \in BOOLEAN
Client == client \in [subscription : Subscriptions, stale : 0..Wild, pipe : 0..1]
Rest == /\ using \in Names /\ logging \in 0..1 /\ font \in 0..1
        /\ laid \in [Keys -> 0..Wild] /\ stamp \in (0..Wild) \X (0..1)
        /\ hushed \subseteq Subscribed
        /\ edits \in 0..MaxEdits /\ outside \in 0..MaxOutside

Typed == UiOK /\ Flags /\ Client /\ Rest

\* Together these say a little more than the type invariant.
LEMMA TypedOK == Typed => TypeOK
  BY DEF Typed, UiOK, Flags, Client, Rest, TypeOK, ConfigOK, EditedOK, FilesOK, TextOK

\* Whatever the window asked for, what is in force after it is clamped.
LEMMA NewConfigOK ==
  ASSUME UiOK, NEW o, OutcomeOK(o)
  PROVE  ConfigOK(NewConfig(o)) /\ ConfigOK(Edited(o))
  BY ClampOK, LoadedOK DEF NewConfig, Edited, Raised, OutcomeOK, UiOK

\* subscription_from() of a configuration is a subscription.
LEMMA SubscriptionOK == ASSUME NEW c, ConfigOK(c) PROVE Subscription(c) \in Subscriptions
<1>1. c["chat.length"] \in 0..Wild
  BY KeysOK DEF ConfigOK, EditedOK, Subscribed
<1> QED
  BY <1>1 DEF Subscription, Subscriptions, On

\* The parts that are switches.
LEMMA SwitchOK ==
  ASSUME NEW c, ConfigOK(c)
  PROVE  /\ c["font"] \in 0..1 /\ c["pipe"] \in 0..1 /\ c["logging"] \in 0..1
         /\ c["chat.visible"] \in 0..1
         /\ c["stale"] \in 0..Wild /\ c["geometry"] \in 0..Wild
  BY KeysOK DEF ConfigOK, EditedOK, Parts, Sliders, Looks, Feeds, Toasts

\* Loading keeps the types.
LEMMA LoadTyped == Typed /\ Load => Typed'
<1> SUFFICES ASSUME Typed, Load PROVE Typed'
  OBVIOUS
<1>1. PICK n \in ProfileAtStart :
        /\ using' = n /\ shown' = n /\ cfg' = Loaded(n)
        /\ client' = [subscription |-> Subscription(Loaded(n)),
                      stale |-> Loaded(n)["stale"], pipe |-> Loaded(n)["pipe"]]
        /\ logging' = Loaded(n)["logging"]
  BY DEF Load
<1>2. n \in Names
  BY DefaultIsAName DEF ProfileAtStart, OnDisk, Typed, UiOK, FilesOK
<1>3. ConfigOK(Loaded(n))
  BY LoadedOK DEF Typed, UiOK
<1>4. Client' /\ logging' \in 0..1
  BY <1>1, <1>3, SubscriptionOK, SwitchOK DEF Client
<1>5. UiOK'
  BY <1>1, <1>2, <1>3 DEF Load, Typed, UiOK, OnDisk, FilesOK
<1>6. Rest'
  BY <1>1, <1>2, <1>4 DEF Load, Typed, Rest
<1>7. Flags'
  BY DEF Load, Flags
<1> QED
  BY <1>4, <1>5, <1>6, <1>7 DEF Typed

\* Drawing a frame keeps the types.
LEMMA FrameTyped == Typed /\ Frame => Typed'
<1> SUFFICES ASSUME Typed, Frame PROVE Typed'
  OBVIOUS
<1> DEFINE used == IF preview THEN [cfg EXCEPT !["chat.visible"] = 1] ELSE cfg
<1>1. ConfigOK(cfg)
  BY DEF Typed, UiOK
<1>2. used \in [Keys -> 0..Wild] /\ Hash(used) \in (0..Wild) \X (0..1)
  <2>1. cfg \in [Keys -> 0..Wild] /\ 1 \in 0..Wild /\ {"geometry", "chat.visible"} \subseteq Keys
    BY <1>1, KeysOK DEF ConfigOK, EditedOK, Wild, Parts, Sliders
  <2>2. used \in [Keys -> 0..Wild]
    BY <2>1
  <2>3. used["geometry"] \in 0..Wild /\ used["chat.visible"] \in 0..1
    BY <1>1, <2>1, SwitchOK
  <2> HIDE DEF used
  <2> QED
    BY <2>2, <2>3 DEF Hash
<1>3. \/ laid' = used /\ dirty' = FALSE /\ stamp' = Hash(used)
      \/ UNCHANGED <<laid, dirty, stamp>>
  BY DEF Frame
<1> HIDE DEF used
<1>4. Rest'
  BY <1>1, <1>2, <1>3, SwitchOK DEF Frame, Typed, Rest
<1>5. Flags'
  BY <1>3 DEF Frame, Typed, Flags
<1>6. UiOK' /\ Client'
  BY DEF Frame, Typed, UiOK, uiVars, Client
<1> QED
  BY <1>4, <1>5, <1>6 DEF Typed

\* A frame of the window, with all that follows from it, keeps the types.
LEMMA TouchTyped == Typed /\ Touch => Typed'
<1> SUFFICES ASSUME Typed, Touch PROVE Typed'
  OBVIOUS
<1>1. PICK o \in Draw : Settings(o)
  BY DEF Touch
<1>2. OutcomeOK(o) /\ ConfigOK(NewConfig(o)) /\ ConfigOK(Edited(o))
  BY DrawOK, NewConfigOK DEF Typed
<1>3. NewName(o) \in Names /\ using \in Names
  BY <1>2 DEF NewName, OutcomeOK, Typed, Rest
<1>4. PICK kept \in SaveOutcomes(o) : file' = kept.file /\ listed' = kept.listed
  BY <1>1 DEF Settings
<1>5. FilesOK(file') /\ listed' \subseteq Names
  <2>1. TextOK(o.cfg)
    BY <1>2, ConfigIsText DEF OutcomeOK, EditedOK
  <2>2. FilesOK(Put(o.file, using, o.cfg))
    BY <1>2, <1>3, <2>1, PutDropOK DEF OutcomeOK
  <2> QED
    BY <1>2, <1>3, <1>4, <2>2 DEF SaveOutcomes, OutcomeOK, FilesOK
<1>6. UiOK'
  BY <1>1, <1>2, <1>3, <1>5 DEF Settings, UiOK, OutcomeOK, FilesOK
<1>7. Client'
  BY <1>1, <1>2, SubscriptionOK, SwitchOK DEF Settings, TellClient, Typed, Client
<1>8. Rest'
  <2>1. logging' \in 0..1
    BY <1>1, <1>2, SwitchOK DEF Settings, TellLogger, Typed, Rest
  <2>2. hushed' \subseteq Subscribed
    BY <1>1 DEF Settings
  <2>3. edits' \in 0..MaxEdits
    BY SessionAssumption DEF Touch, Typed, Rest
  <2> QED
    BY <1>1, <1>3, <2>1, <2>2, <2>3 DEF Touch, Settings, Typed, Rest
<1>9. Flags'
  <2>1. started' = started
    BY DEF Touch
  <2>2. drawn' \in BOOLEAN
    BY <1>1 DEF Settings
  <2>3. dirty' \in BOOLEAN
    BY <1>1 DEF Settings, TellRenderer
  <2> QED
    BY <2>1, <2>2, <2>3 DEF Typed, Flags
<1> QED
  BY <1>6, <1>7, <1>8, <1>9 DEF Typed

\* So does what other programs do to the files.
LEMMA ElsewhereTyped == Typed /\ Elsewhere => Typed'
<1> SUFFICES ASSUME Typed, Elsewhere PROVE Typed'
  OBVIOUS
<1>1. FilesOK(file')
  <2>1. \A k \in Foreign : \A v \in Says(k) : TextOK([DefaultConfig EXCEPT ![k] = v])
    <3> SUFFICES ASSUME NEW k \in Foreign, NEW v \in Says(k)
                 PROVE  TextOK([DefaultConfig EXCEPT ![k] = v])
      OBVIOUS
    <3>1. v \in 0..Bad
      BY DEF Says, NoVersion, kConfigVersion, Newer, Bad
    <3> QED
      BY <3>1, DefaultOK DEF TextOK
  <2>2. FilesOK(file)
    BY DEF Typed, UiOK
  <2> QED
    BY <2>1, <2>2, DefaultOK, PutDropOK DEF Elsewhere
<1>2. UiOK'
  BY <1>1 DEF Elsewhere, Typed, UiOK
<1> QED
  BY <1>2, SessionAssumption DEF Elsewhere, Typed, Flags, Client, Rest

\* Every step keeps the types.
LEMMA NextTyped == Typed /\ [Next]_vars => Typed'
<1>1. Typed /\ Unload => Typed'
  BY DEF Unload, Typed, UiOK, uiVars, Flags, Client, Rest
<1>2. Typed /\ UNCHANGED vars => Typed'
  BY DEF vars, uiVars, Typed, UiOK, Flags, Client, Rest
<1> QED
  BY <1>1, <1>2, LoadTyped, FrameTyped, TouchTyped, ElsewhereTyped DEF Next

\* The types hold before the add-on is loaded.
LEMMA InitTyped == Init => Typed
<1> SUFFICES ASSUME Init PROVE Typed
  OBVIOUS
<1>1. UiOK
  BY DefaultIsAName, DefaultOK DEF Init, UiOK, FilesOK
<1>2. Client
  BY DefaultOK, SubscriptionOK DEF Init, Client, Wild
<1>3. Rest
  BY DefaultIsAName, DefaultOK, SwitchOK, SessionAssumption DEF Init, Rest, Hash, ConfigOK, EditedOK
<1>4. Flags
  BY DEF Init, Flags
<1> QED
  BY <1>1, <1>2, <1>3, <1>4 DEF Typed

\* The screen, when nothing is waiting to be laid out.
Settled ==
  started /\ (drawn \/ ~dirty) => \A k \in Looked : laid[k] = cfg[k]

\* Every step that changes what is in force has the screen laid out again.
LEMMA NextSettled == Typed /\ Settled /\ [Next]_vars => Settled'
<1> SUFFICES ASSUME Typed, Settled, [Next]_vars PROVE Settled'
  OBVIOUS
<1>1. CASE Load
  BY <1>1 DEF Load, Settled
<1>2. CASE Unload
  BY <1>2 DEF Unload, Settled
<1>3. CASE Frame
  <2> DEFINE used == IF preview THEN [cfg EXCEPT !["chat.visible"] = 1] ELSE cfg
  <2>1. \A k \in Looked : used[k] = cfg[k]
    BY KeysOK DEF Typed, UiOK, ConfigOK, EditedOK, Looked
  <2>2. \/ laid' = used
        \/ ~dirty /\ laid' = laid
    BY <1>3 DEF Frame
  <2>3. started /\ cfg' = cfg
    BY <1>3 DEF Frame, uiVars
  <2> HIDE DEF used
  <2> QED
    BY <2>1, <2>2, <2>3 DEF Settled
<1>4. CASE Touch
  <2>1. PICK o \in Draw : Settings(o)
    BY <1>4 DEF Touch
  <2>2. OutcomeOK(o)
    BY DrawOK DEF Typed
  <2>3. ASSUME ~dirty' PROVE ~dirty /\ cfg' = cfg
    BY <2>1, <2>2, <2>3
    DEF Settings, TellRenderer, OutcomeOK, Raised, NewConfig, Edited
  <2>4. ASSUME drawn' PROVE drawn /\ cfg' = cfg
    BY <2>1, <2>4 DEF Settings
  <2>5. started' = started /\ laid' = laid
    BY <1>4 DEF Touch
  <2> QED
    BY <2>3, <2>4, <2>5 DEF Settled
<1>5. CASE Elsewhere
  BY <1>5 DEF Elsewhere, Settled
<1>6. CASE UNCHANGED vars
  BY <1>6 DEF vars, uiVars, Settled
<1> QED
  BY <1>1, <1>2, <1>3, <1>4, <1>5, <1>6 DEF Next

\* Every step tells the client, or leaves a mark that it did not.
LEMMA NextDeclared ==
  Typed /\ DeclaredUnlessHushed /\ [Next]_vars => DeclaredUnlessHushed'
<1> SUFFICES ASSUME Typed, DeclaredUnlessHushed, [Next]_vars PROVE DeclaredUnlessHushed'
  OBVIOUS
<1>1. CASE Load
  BY <1>1 DEF Load, DeclaredUnlessHushed
<1>2. CASE Unload
  BY <1>2 DEF Unload, DeclaredUnlessHushed
<1>3. CASE Frame
  BY <1>3 DEF Frame, uiVars, DeclaredUnlessHushed
<1>4. CASE Touch
  <2>1. PICK o \in Draw : Settings(o)
    BY <1>4 DEF Touch
  <2>2. CASE Redeclared(o)
    <3>1. client'.subscription = Subscription(NewConfig(o)) /\ cfg' = NewConfig(o)
      BY <2>1, <2>2 DEF Settings, TellClient, Typed, Client
    <3> QED
      BY <3>1 DEF DeclaredUnlessHushed
  <2>3. CASE ~Redeclared(o)
    <3>1. /\ client'.subscription = client.subscription /\ started' = started
          /\ hushed' = {k \in Subscribed : k \in hushed \/ cfg'[k] # cfg[k]}
      BY <1>4, <2>1, <2>3 DEF Touch, Settings, TellClient, Redeclared, Typed, Client
    <3>2. ASSUME hushed' = {} PROVE hushed = {} /\ \A k \in Subscribed : cfg'[k] = cfg[k]
      BY <3>1, <3>2 DEF Typed, Rest
    <3>3. ASSUME \A k \in Subscribed : cfg'[k] = cfg[k] PROVE Subscription(cfg') = Subscription(cfg)
      BY <3>3 DEF Subscription, Subscribed, Feeds, Toasts, On
    <3> QED
      BY <3>1, <3>2, <3>3 DEF DeclaredUnlessHushed
  <2> QED
    BY <2>2, <2>3
<1>5. CASE Elsewhere
  BY <1>5 DEF Elsewhere, DeclaredUnlessHushed
<1>6. CASE UNCHANGED vars
  BY <1>6 DEF vars, uiVars, DeclaredUnlessHushed
<1> QED
  BY <1>1, <1>2, <1>3, <1>4, <1>5, <1>6 DEF Next

\* The type invariant: in particular, the configuration in force is clamped,
\* whatever was typed, imported, reloaded or left on disk by others.
THEOREM TypeCorrect == Spec => []TypeOK
  BY InitTyped, NextTyped, TypedOK, PTL DEF Spec

\* What is on screen was laid out from the settings in force.
THEOREM ScreenIsCurrent == Spec => []ScreenFollowsConfig
<1>1. Init => Settled
  BY DEF Init, Settled
<1>2. Settled => ScreenFollowsConfig
  BY DEF Settled, ScreenFollowsConfig, Looked
<1> QED
  BY <1>1, <1>2, InitTyped, NextTyped, NextSettled, PTL DEF Spec

\* The client was told the subscription in force, unless an edit raised no flag.
THEOREM ClientIsTold == Spec => []DeclaredUnlessHushed
<1>1. Init => DeclaredUnlessHushed
  BY DEF Init, DeclaredUnlessHushed
<1> QED
  BY <1>1, InitTyped, NextTyped, NextDeclared, PTL DEF Spec
=============================================================================
