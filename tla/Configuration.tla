---------------------------- MODULE Configuration ----------------------------
(***************************************************************************)
(* shared/src/config.cpp: how the text of a profile becomes a              *)
(* configuration.  A configuration has some two hundred fields; those the  *)
(* program treats alike are one part here, with a value in its range (0,   *)
(* the default, or 1) or out of it.                                        *)
(***************************************************************************)
EXTENDS Naturals

Feeds == {"chat.channel", "chat.server", "chat.private"}
Toasts == {"toast.chat", "toast.private"}
Looks == {"general", "appearance", "group", "users", "channels",
          "indicators", "toasts", "chat.look", "animation"}
\* "geometry" are the fields layout_hash() mixes, "retry" the two delays.
Sliders == Looks \cup {"geometry", "chat.length", "stale", "retry"}
Parts == Sliders \cup Feeds \cup Toasts
         \cup {"chat.visible", "font", "pipe", "logging", "advanced", "auto"}
\* "section" and "field" are what only a newer build knows: sections of its
\* own, and fields in the sections that there are now.
Keys == Parts \cup {"version", "section", "field"}

Wild == 2    \* out of range, or delays in the wrong order
Bad == 3     \* of the wrong type, which only a text can be

kConfigVersion == 1
Newer == 2
NoVersion == 0

\* What the text of a file may say of k.
Says(k) ==
    IF k = "version" THEN {NoVersion, kConfigVersion, Newer, Bad}
    ELSE IF k \in {"section", "field"} THEN 0..1
    ELSE IF k \in Sliders THEN 0..Bad ELSE {0, 1, Bad}

\* Config::defaults(): the feed is hidden and private messages are off.
DefaultConfig == [k \in Keys |-> IF k = "version" THEN kConfigVersion ELSE 0]

-----------------------------------------------------------------------------
\* migrate(): there is nothing to migrate from yet.
Migrated(d) == [d EXCEPT !["version"] = IF @ \in {NoVersion, Bad} THEN kConfigVersion ELSE @]

\* The tolerant reader: a wrong type leaves the default, a range is kept to.
Read(k, v) == IF v = Bad THEN DefaultConfig[k] ELSE IF v = Wild THEN 1 ELSE v

\* clamp() sees to what ranges alone do not say.
Clamped(c) == [c EXCEPT !["retry"] = IF @ = Wild THEN 1 ELSE @]

\* The version is taken over as it is, sections nobody knows are kept for the
\* next save, and fields nobody knows are dropped.
FromJson(d) ==
    Clamped([k \in Keys |->
        CASE k \in Parts -> Read(k, d[k])
          [] k = "field" -> 0
          [] k \in {"version", "section"} -> d[k]])

Parse(d) == FromJson(Migrated(d))
=============================================================================
