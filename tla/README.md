# A formal model of the TeamSpeak racing overlay

Project Touge shows who is talking on TeamSpeak inside a racing game. A TeamSpeak
plugin follows TeamSpeak's callbacks and serves what it knows over a local pipe; a
ReShade add-on inside the game reads the pipe and draws the list. This directory
holds TLA+ modules for that chain, the configurations that model-check them with
TLC, and proofs checked by TLAPS.

Paths below are relative to the repository; `docs/`, `shared/`, `teamspeak-plugin/`
and `reshade-integration/` are all under its top directory.

## The system

```
TeamSpeak ──callbacks──▶ PluginCore + TsState ──broadcast──▶ IpcServer: Session
 (its own thread)         snapshot cache ◀──────reads────────  reader, writer
                                                                  │ pipe ▲
                                                                  ▼      │
   render thread ◀──TripleBuffer── OverlayClient + StateStore (IPC thread)
     │   │                                ▲
     │   └── start, stop, update_subscription, request_reconnect, set_endpoint
     ▼
   addon.cpp: frame ─▶ SettingsUi ─▶ Config ─▶ Renderer (layout, toasts), client, logger
                            └──▶ ProfileStore ──▶ files (shared by all games)
```

| Component | State it keeps | Operations | Correct when |
|---|---|---|---|
| Plugin core, TeamSpeak state (`plugin_core.cpp`, `ts_state.cpp`) | roster of the current channel, active server, last connection status, a cache of the snapshot | TeamSpeak's callbacks, one after another on TeamSpeak's thread; each refreshes the cache and broadcasts what changed | the stream of broadcasts describes the roster it keeps, and that is the roster of the tab the user is on |
| IPC server (`ipc_server.cpp`) | sessions, per session a queue, a sequence number, a connection, two threads | start, stop, accept, reap, broadcast, heartbeat; reader and writer of each session | every overlay gets the state or a gap it can see; no thread that has to be joined waits for a peer; `stop()` returns and leaves no thread |
| Transport (`transport_posix.cpp`, `transport_win32.cpp`) | a connection | blocking read and write, `cancel()`, and a destructor that on Windows waits until the peer has read what was written | a cancelled call returns |
| Overlay client (`overlay_client.cpp`) | link state, endpoint, subscription and its dirty mark, pointer to the open connection | its thread's `run()` and `session()`; calls from the game's thread | it can be stopped and redirected at any moment; a list does not outlive its link; the plugin has the latest subscription |
| State store (`state_store.cpp`) | the overlay's replica, last sequence number, staleness | `apply`, `tick`, `on_disconnected` | gaps are asked about, old lines ignored, limits kept, silence noticed |
| Frame hand-off (`triple_buffer.hpp`) | three slots and one atomic word | `publish`, `acquire` | the renderer never sees a torn or an older frame, and sees the newest in the end |
| Add-on and renderer (`addon.cpp`, `renderer.cpp`) | configuration, profile in use, cached layout and what it was computed from, preview switches | one frame at a time on the render thread: drain, draw, settings window, follow what was pressed | the screen follows the configuration and the newest frame; samples leave with the preview |
| Settings window (`settings_ui.cpp`) | what is listed and typed in the window | eight pages of widgets that edit the configuration in place and raise flags | an edit is announced to all who depend on it |
| Notifications (`notifications.cpp`) | toasts and their lifetimes | `submit` (merge, evict, silence), `tick` | nothing goes before its time, and all of it leaves |
| Layout (`layout.cpp`) | — | chooses, orders and places the rows | who is listed is who should be, and the block is on the screen |
| Configuration (`config*.cpp`) | some two hundred fields | parse, migrate, clamp, print | any text yields a configuration in range |
| Profile store (`profile_store.cpp`) | a file per profile, a table of games | load, save through a temporary file and a rename, remove, rename, copy, map | whoever dies or fails, what was saved is there and parses |
| Data model, protocol, JSON, line framing | — | encode, decode, split a stream into lines | what is sent is what is read; limits refuse what is too large |
| Logger, contacts, plugin entry points, tools | a log file; none; none; none | | |

What is hard here is concurrency between seven kinds of thread (TeamSpeak's, accept,
heartbeat, reader, writer, the overlay's IPC thread, the render thread) and between
games that share files; ordering (numbers are drawn and lines queued in different
critical sections, TeamSpeak answers queries ahead of its own callbacks); partial
failure (a session can end at any of its calls, a file operation can fail or be cut
short); backlogs that overflow; caches (the layout, the snapshot, the last status)
that outlive what they were made from; and clocks that two processes read
separately. `PROJECT.json` lists each such place under `hazards`, with the property
that covers it or why none does.

## The modules

| Module | Models | Composition |
|---|---|---|
| `LatestFrame` | what the hand-off promises: a register of whole frames in which the renderer may see any frame not older than its last | abstract specification |
| `TripleBuffer` | `triple_buffer.hpp`, with `publish()` and `acquire_frame()` | implements `LatestFrame` |
| `OverlayModel` | rows, rosters and snapshots shared by both ends | used by the next five |
| `StateStore` | `StateStore::apply`, `tick`, `on_disconnected` | |
| `StoreSession` (`MCStoreSession`) | the store against a peer that sends anything in any order | extends `StateStore` |
| `PluginCore` | `PluginCore`'s callbacks over `TsState` | |
| `EventStream` (`MCEventStream`) | TeamSpeak to overlay: `PluginCore`, one `Session`, the pipe, the overlay's `StateStore` | extends `PluginCore` and `StateStore` |
| `PluginTabs` (`MCPluginTabs`) | `PluginCore` under a TeamSpeak with several tabs that says what is so, a bounded number of callbacks behind | extends `PluginCore` |
| `OverlayClient` | `run()`, `session()` and the add-on's calls | |
| `IpcServer` | all threads of the server, as to who waits for whom | |
| `ProfileStore` | the store's calls by several games, a step per call on the file system | |
| `Configuration` | which values survive parsing, migration and clamping | |
| `SettingsUi` | what a frame of the window may edit, and what it raises | extends `Configuration` |
| `AddonSession` | one game from load to unload: how settings reach screen, client, logger and disk | extends `SettingsUi` |
| `Ordering` | what a stable sort and `remove_if` leave, as ranks in a finite set | used by the next two and `PluginTabs` |
| `Notifications`, `Layout` | the queue of toasts; ordering and placing of users | pure operators |
| `Screen` (`MCScreen`) | the render thread's frames over both, with preview and switches | extends `Notifications` and `Layout` |
| `*_proofs` | theorems about `TripleBuffer`, `OverlayClient`, `IpcServer`, `ProfileStore`, `AddonSession`, `Screen` | each extends its module |
| `Plugin_proofs` | theorems about `PluginCore` and `PluginTabs` | extends `PluginTabs` |
| `Replica_proofs` | theorems about `StateStore`, `StoreSession` and `EventStream` | extends `Plugin_proofs`, `StoreSession` and `EventStream` |

How they correspond to the code (the lines are in `PROJECT.json`, `map`):

- **TripleBuffer.** `shared_` is a record of index and dirty bit; each load or
  exchange is a step, and slots are read and written a field at a time, so that two
  threads in one slot would show as a mixed frame. A field's value is the revision
  that wrote it.
- **StateStore.** One operator per message type, in the order of `apply()`'s checks:
  sequence number first, then the payload. `apply` answers with what the caller has to do, as the
  code does. Names, statistics and round-trip times are left out.
- **PluginCore.** A callback becomes a script of cache refreshes and broadcasts,
  since the IPC threads may look at the cache between any two. What TeamSpeak
  answers to a query is any answer of the right kind, and it may know where we are without giving the channel's name
  (`Unnamed`). The roster is the cache: every
  change to it ends in a refresh.
- **EventStream.** One step per critical section of `session->mutex`. A number is
  drawn in one and its line queued in another, as in `broadcast()`.
- **PluginTabs.** TeamSpeak itself is a model of what the plugin sees of it: tabs with
  a status, who is in which channel, who talks. A change adds its callbacks to
  `coming`; a query is answered with what is so now.
- **OverlayClient.** One step per lock, atomic access and call on the connection.
  Of the store only what the thread acts on is kept: whether the list is there and
  fresh, whether a line asks for a snapshot or ends the session. A connection
  remembers the last subscription it was sent (`got`), and whether the plugin has read it
  all (`unread`): the destructor of the Windows build (`transport_win32.cpp:136`) flushes and waits for
  that, whatever was cancelled. The POSIX build's does not wait, which is the case of nothing unread.
- **IpcServer.** One step per access to a flag, condition variable or connection.
  A queue is its length. A writer holds the mutex from evaluating its predicate
  until it sleeps; `shutdown()` sets `closing` and notifies without the mutex. A session is
  destroyed by whoever drops its last reference (`Holders`): the list, the accept thread's and `stop()`'s
  copies of it, and those `broadcast()` and the heartbeat go through (`caster.held`). That thread flushes (`LetsGo`), so
  `JoinDead`, `Refuses`, `StopJoins` and `Cast` each have a place where they wait for it (`DropDead`,
  `RefusalIsRead`, `StopDrops`, `CastDrops`). Threads not joined when their session is destroyed end the process (`Terminates`).
- **ProfileStore.** `doing` is the place of each game in the call it is in. A step
  may fail from outside or the game may die before it, each counted in `faults`. As on
  Windows an open file cannot be renamed or removed. Texts are kept as to whether
  they are whole; two configurations differ by name. Removing a file may fail too, and nobody looks
  (`leftover`: what a dead process or a refused removal left behind). `map_executable` and
  `unmap_executable` read the table, truncate it and write it, and any number of games may be anywhere in that:
  `wanted` is what each game chose last, `unwritten` whose choice the file does not have, and
  `missed` which choices a call does not know of because it had read the table before.
- **Configuration, SettingsUi, AddonSession.** The fields the program treats alike are
  one *part* with a value in range, out of range or, in a file, of the wrong
  type. Each page is the set of outcomes a frame of it may have: what is edited
  and which of the `SettingsActions` are raised; `AddonSession` then follows
  them in the order of `addon.cpp`. The hash by which the renderer notices edits is
  kept as the fields it mixes.
- **Screen.** One action per frame of the game, which drains a batch of events, seeds or
  clears samples, lays out if it must and draws, with every early return. A
  toast is its kind, age and phase; a rectangle is its vertical extent.

## The runs

Passing runs:

| Run | What it shows |
|---|---|
| `triple_buffer` | No torn frame, never an older one, the newest in the end, and refinement of `LatestFrame`, with publishes overtaking a read as often as they like. |
| `store_session` | The replica keeps to its limit, asks once per silence, asks for every gap whatever message reveals it, and lets late lines change nothing. |
| `event_stream` | With callbacks, heartbeats, pings, requested snapshots and overflowing queues interleaved, the overlay ends up with the plugin's roster (`ConvergedUnlessMissed`, `EventuallyAgrees`), and only requested snapshots exceed the queue's depth (`BacklogBounded`). |
| `plugin_tabs` | Once the callbacks are served the overlay is told of the channel and the people of the tab the user is on (`ShownIsTheTab`), and the last connection status announced is the true one (`ConnectionAsAnnounced`), although queries run ahead of the callbacks. The exceptions are below. |
| `overlay_client` | `stop()` returns unless the plugin keeps the flush waiting for ever, a changed endpoint is left, no call goes through a dead connection, no list is shown without a link, and the plugin has the subscription that is not marked dirty, at whichever step a session ends. |
| `ipc_server` | The accept thread joins only threads no peer can hold up (`JoinsWaitForNoPeer`), the limit of overlays holds, a vanished overlay's threads are joined and `stop()` returns — provided no overlay keeps a flush waiting for ever, and with one more exception, see `lost_wakeup`. |
| `profile_store` | A profile parses whatever died or failed, but for refused renames and two savers of one name (`Intact`). A temporary file has a save that will deal with it, or is left by a dead process or by a removal refused from outside (`NoLitter`). While games map and unmap at once, a choice the table has stays in it; lost are just the choices made while another call had already read the table, and all of a table cut short or read while truncated (`MappingKept`). |
| `addon_session` | What is on screen was laid out from the settings in force (`ScreenFollowsConfig`) and the plugin is asked for what they want (`DeclaredUnlessHushed`), whichever of the window's widgets and buttons were used and whatever others did to the files. What is in force has been clamped (`TypeOK`). |
| `screen` | Toasts run their course and are pushed out only by newer ones (`ToastsRunTheirCourse`), samples leave with the preview, rows are users of the newest frame with speakers first (`SpeakersAreShown`), the block is on the screen (`BlockOnScreen`). |

Runs that show a disagreement between the code and what the repository says of it
(`findings` quotes the lines):

| Run | What it shows |
|---|---|
| `greeting_window` | A session gets its snapshot before it is registered for broadcasts. A broadcast in between reaches it neither as an event nor as a gap; the overlay is wrong until the next event. |
| `lost_wakeup` | `shutdown()` notifies without the mutex; a writer that has just found nothing to do misses it, the accept thread joins it for ever and no further overlay is served. |
| `profile_lost` | When a rename is refused, `save()` removes the profile before it knows it has a replacement. With two games saving one profile the temporary file may be gone by then, and so is the profile. |

## Disagreements met while modelling, without a run of their own

Server and stream:

- Two threads can queue lines in the opposite order of their numbers
  (`ipc_server.cpp:246`), while `docs/protocol.md:45` has `seq` order the stream; the
  overlay drops the late one, and the gap before it has already made it ask for a
  snapshot, which is why `ConvergedUnlessMissed` holds all the same. Snapshots an overlay requests are
  queued beyond `queue_depth` (`ipc_server.cpp:421`), hence the wording of `BacklogBounded`.
- `stop()` copies the session list before it joins the accept thread, which may add
  one more that nobody joins (`ipc_server.cpp:82`): the exception of `StopReturnsUnlessLost`. Its
  threads are destroyed joinable, which is `std::terminate`: the host process ends (`Terminates`).
- On Windows a connection's destructor waits until the peer has read everything, and `cancel()` does not
  end that (`transport_win32.cpp:136`). An overlay that hangs can so hold up the accept thread (a reaped session at
  `ipc_server.cpp:118`, a refused one at 147) and `stop()`, where sessions go one by one, although the
  comment at 77–78 has the shutdown "concurrent rather than serialised" and `ipc_server.hpp:4–6` says that
  TeamSpeak's callbacks "never block on a peer". `broadcast()` too may hold the last reference, to a session that was
  reaped while it went through its copy (231–235), and then TeamSpeak's thread flushes in a callback, against
  `docs/architecture.md:266`. In the client it is `stop()` and the next reconnect that wait. The properties say as much:
  `JoinsWaitForNoPeer` is about the joins only, and four liveness properties have the hypothesis `[]<>~Flushing`.
- The plugin's roster is keyed by client id, the overlay's by unique id
  (`state_store.cpp:28`, `ts_state.cpp:49`, `docs/architecture.md:205`): one person connected twice
  makes them differ. Freshness compares the overlay's clock with the sender's `ts`
  (`state_store.cpp:404`), documented as display only (`docs/protocol.md:46`).

Client:

- `session()` clears the dirty mark after sending the subscription it read before
  (`overlay_client.cpp:238`); a change in between is never sent: the exception of
  `DeclaredUnlessSlipped`. `update_subscription` notifies a condition variable nobody waits on
  during a session (`:112`); the new one goes out after the next line from the plugin.
- Silence is noticed only after a read returns (`:257`); with a plugin that hangs,
  the list stays on screen as live, although `README.md:84` says otherwise.

Plugin:

- Any tab that connects takes over the active server (`plugin_core.cpp:163`), although
  the comment at 87–88 follows "the tab the user is actually on"; its later
  disconnection leaves no active server while the user's tab is live. Both properties of
  `plugin_tabs` except takeovers.
- `on_current_server_changed` announces "connected" for a tab that is not (506) and
  leaves `last_connection_` as it was (502), so that a later loss may go
  unannounced: the exception of `ConnectionAsAnnounced`.
- TeamSpeak's STATUS_CONNECTED before STATUS_CONNECTION_ESTABLISHING, the order of
  the enumeration at `plugin_core.hpp:21`, makes one connect announce connecting,
  connected, connecting, connected; the comment at `plugin_core.cpp:18` speaks of preventing that burst.
- A re-read ignores that `read_channel` failed (`ts_state.cpp:168`) and puts the new roster under the channel of before,
  or under none. The overlay then shows what the plugin believes (`ConvergedUnlessMissed` includes it), but that is
  not the user's channel, which `ShownIsTheTab` supposes TeamSpeak can name.
- A whisper from another channel is only ever announced as begun (323); `set_contacts`
  re-stamps rows without a broadcast (`ts_state.cpp:274`).

Profile store:

- Two games that choose a profile at once read, change and rewrite one table with nothing between them
  (`profile_store.cpp:369–384`), and one's choice is lost, while `docs/configuration.md` says of it that
  "That executable loads it from then on". A game that reads while another writes loses all of them.
- The errors of removing a temporary file are ignored (209, 217, 221), so one that a scanner holds stays
  until the next save of that name.

Add-on and settings:

- Five widgets change what the subscription depends on without raising
  `subscription_changed`: visibility of the chat (`settings_ui.cpp:499`, 865), the channels'
  switches (845), the toast of channel chat (1572), the length (892). The window
  says of the hidden feed that "TeamSpeak is not asked to send messages at all" (862).
  `DeclaredUnlessHushed` excepts what follows until something raises it.
- *Save as* changes the configuration's `profile_name` but not the add-on's, so the next
  *Save* goes to the old file. Reloading does not apply the logging and staleness settings; switching
  not the latter. `remove()` protects the profile "default", `rename()` does not.
- `clamp()` only puts two delays in order (`config.cpp:888`), while `config.hpp:566` says it clamps every
  numeric field; the ranges are enforced in reading, and the window's widgets keep them.
- A file of a newer version keeps its version number when saved (`config.cpp:963` says
  otherwise), and unknown fields inside known sections are dropped.
- Leaving the preview with the feed shown and everyone silent leaves the preview's
  user in the list until the next layout (`addon.cpp:237`): the exception of `SpeakersAreShown`.
- The speaking envelope's release is never seen (`notifications.hpp:85`), sounds are drained only
  while seeding the preview, and toggling the preview wipes real toasts.

## Bounds, and why they are enough

- `TripleBuffer`: two fields are the fewest that can be torn; five publishes lap the
  three slots during one read. The proofs remove both bounds.
- `StoreSession`: two people for one place on the roster, sequence numbers to 2 (one gap,
  one repeat), a window of 1 and lines that lie 0 or 1 behind our clock (their time is the
  sender's), so that a list may be called stale early by just that much. The view leaves out what the last
  call answered, which no later step reads; nothing tells the two people apart (symmetry). The proofs remove the bounds, of the lag too.
- `EventStream`: two people, one of whom may change a flag; room for both. A queue
  of 3 instead of the code's 8 or more: the smallest that holds the greeting and one
  more, so that one callback overflows it. A pipe of one line, the most blocking
  there is. `MaxStirs = 2` lets two callbacks follow each other, or one callback race a
  heartbeat or a ping. Initial states include every roster TeamSpeak may have at
  rest, so two callbacks start from anywhere. The view leaves out what nothing
  reads any more, so it merges only states with the same futures and is sound for
  the liveness property too. The proofs remove the bounds for the invariants, `ConvergedUnlessMissed` as long as nobody has two connections.
- `PluginTabs`: two tabs, two channels, the user and one other; TeamSpeak up to
  two callbacks ahead, so that a query made in one callback sees the change the next is about
  (longer than a run may take, both properties also hold three callbacks ahead, over 30 million
  states). That `read_user` fails for someone who moves in (`OnUnknownMovedIn`) only when the client has
  gone out of view again matters: where it could fail while the channel's listing names them, someone who stops
  talking during two moves would be shown talking for good. No bound on time. Every channel has a name when asked for, see the disagreements. Tabs and channels are interchangeable (symmetry). The proofs of
  both properties remove the bounds on tabs, channels and callbacks to come; they keep the two people.
- `OverlayClient`: three calls (start, then two that race), two lines per connection,
  any number of connections. The proofs remove the bounds for the invariants.
- `IpcServer`: two sessions and a limit of one, so that one is refused, or reaped for
  the other. `MaxStirs = 2` counts connections, lines, broadcasts and wake-ups without
  cause together; that an overlay reads, hangs, vanishes or breaks its pipe is not counted. Two are enough for a
  flush by each thread that can come to one, TeamSpeak's included. The proofs remove the bounds for the invariants.
- `ProfileStore`: two games, two names, two calls each and two faults: two savers of
  one name, one of whom dies or fails twice (the rename and its retry), or a
  copy or rename running into a save. The proofs remove the bounds.
- `AddonSession`: two profiles, two frames in which something is pressed and one
  change from outside, in one of six keys that stand for the kinds there are. The proofs remove the bounds.
- `Screen`: the user's own row talking alone, or silent with a muted and a perhaps talking other; two configurations that differ in every setting the module reads; two events at a
  time; a life of three ticks with each phase one; a screen that holds the block and one
  that does not. No bound on time. The proofs remove the bounds.

## Fairness

- `TripleBuffer`: the render thread goes on, for the game presents frames. Nothing is
  assumed of the IPC thread.
- `EventStream`: somebody runs on while anybody has something to do. This is weaker than
  fairness to each thread, since no thread can take away what another has to do.
  Nothing is assumed of TeamSpeak, the heartbeat or the client's pings.
- `OverlayClient`: the IPC thread goes on when it is not blocked in a read, and a
  call once begun goes on. Nothing is assumed of the plugin, not even that it reads; hence the
  hypothesis of `StopReturns`, that the client is not for ever in a flush.
- `IpcServer`: each thread goes on when it can. A write of a peer that does not read need
  never return, no peer need speak, read or leave, and no condition variable wakes without cause. As a flush waits for just such a peer,
  the two liveness properties of `ipc_server` and the one of `lost_wakeup` suppose that again and again no thread is
  in one (`Flushing`).

The other specifications state no fairness and no liveness. Deadlock checking is off
where the system may really come to rest: TeamSpeak falls silent, the client or the
server is stopped, every game has made its calls, or the bounds are used up.

## What is proved

All for every value of the constants that the named assumptions allow; the theorems are listed in
`PROJECT.json` with the properties of the runs they state.

**`TripleBuffer_proofs`** (`FieldCount \in Nat \ {0}`, `MaxRevision \in Nat`):
`TypeCorrect`, `Disjoint`, `NoTearing`, `Monotone`, and `Refinement`: every behaviour of
`TripleBuffer` is one of `LatestFrame`. `NoTornFrame` is not inductive: that two fields agree says
nothing of the field read next. The invariant `IInv` adds that the three indices are a
permutation of the slots (`SlotsDisjoint`); what the slots hold (`Contents`): the
producer's is complete up to `written`, the consumer's is one whole frame, the shared
one is the newest whole frame if it is dirty, and the consumer has the newest if it is
not; and what the render thread knows (`Reader`): if it is about to exchange, the slot is
dirty, and what it has read is of the consumer's frame. A write touches only the producer's
slot (`WriteIsPrivate`), and everything follows case by case. The refinement maps
`latest` to the shared slot when it is dirty and to the consumer's otherwise.

**`OverlayClient_proofs`** (`ClientAssumption`: the bounds are numbers, `Undeclared` is no
subscription): `TypeCorrect`, `PointerIsGood` (`ActiveIsOpen`), `ListNeedsLink` (`NoListWithoutLink`),
`PluginHasSubscription` (`DeclaredUnlessSlipped`). A pointer or a list says nothing of how
it is going to be taken away, so the invariant ties both to where the IPC thread is: `Joined`,
outside `stop()` a client that is not running has no thread; `LinkHeld`, from where to where in a
session the connection is open and the pointer set; `ListHeld`, only inside a session is there a
list, and a frame that shows one was published there; `Declared`, at each place, which of the
subscription read and the one the plugin has is the current one.

**`IpcServer_proofs`** (`ServerAssumption`: the bounds are numbers, `MaxClients` at least 1):
`TypeCorrect`, `JoinsAreFree` (`JoinsWaitForNoPeer`), `LimitHolds` (`OpenWithinLimit`). Either of a
session's two threads may be the one that ends it. `Told` says of both, by place,
that `closing` is set before the connection is cancelled and both before `finished`; neither is
ever undone (`NeverUndone`), so what the accept thread takes out is cancelled, and its joins wait for no read or write.
Of the destruction after them, which may wait for the peer, it says nothing. For the limit,
`Limited` says that what is open is registered or about to be until `stop()` returns, and that
those are within the limit; at that moment the list is emptied, but the accept thread is off by
then (`Posted`), so nothing opens any more.

**`ProfileStore_proofs`** (`DefaultIsAName`, `BoundsAssumption`, `TextsDiffer`): `TypeCorrect`, `ProfilesIntact`
(`Intact`), `NothingLeftBehind` (`NoLitter`), `ChoicesKept` (`MappingKept`). `SavePath` says that an unspoilt
name has at most one saver and that its place says what the temporary file holds; from it
follows `Whole` (a rename puts a whole text in place). `Tended` says who will deal with a temporary file, or that
it is among what was left behind. `Remapped` says that the table on disk has every choice not in `unwritten`, and that
the table each running call is about to write has every choice it has not `missed`: any number of calls
may be under way, and a write passes the second on to the first.

**`AddonSession_proofs`** (`DefaultIsAName`, `SessionAssumption`): `TypeCorrect`, `ScreenIsCurrent`
(`ScreenFollowsConfig`), `ClientIsTold` (`DeclaredUnlessHushed`). The lemma the rest hangs on is `DrawOK`: every
outcome of every page that changes the configuration raised "config", page by page; with
`ParseOK`, that any text reads as a clamped configuration. `Settled` then holds between frames: if nothing is
dirty, the layout is of the configuration in force.

**`Screen_proofs`** (`PhasesInOrder`, `ScreenAssumption`): `Invariance`, `TypeCorrect`, `SamplesGone`
(`SamplesGoWithPreview`), `SpeakersShown` (`SpeakersAreShown`), `BlockStays` (`BlockOnScreen`), `ToastsStay`
(`ToastsRunTheirCourse`). First what the operators compute for every input: `InOrderLists`, that putting a
set in order lists each element once and in order, from which `OrderUsersLists` (the sort of
the users) and `TickedShape` (erasing what is over) follow; `SubmittedWithin`, by induction over the events of
a frame. Then `Inv`: unless a layout is due, the rows are those of the newest frame or of the preview
(a layout says nothing of the frame it was made from, and a frame may come at any time);
the block was on the screen it was laid out for; and a queue holds samples only if the
preview was shown at the last frame. For the toasts, `Follows` relates a queue to a later one and is what
`submit` and `tick` preserve. An earlier `ToastsRunTheirCourse` counted what leaves by its length; the
proof failed, rightly, where `max_visible` is 3 or more, which the bound of the run had hidden.

**`Plugin_proofs`** (`ModelAssumption`, `TabsAssumption`; `MaxUsers > 1` there leaves room
for the two people of the module, it is 512, and they have different unique ids): `TabsInvariance`,
`NothingUnannounced` (`ConnectionAsAnnounced`), `FollowInvariance`, `OverlayShowsTheTab` (`ShownIsTheTab`), and
`TabsAreTeamSpeak`, which relates the two environments of `PluginCore`: every step of a TeamSpeak with several
tabs is, for the plugin, a callback of the unconstrained one, a step of the one that runs, or nothing.
So the event stream is checked against at least what `PluginTabs` can do to it. What is so, what the
plugin believes and what was announced are apart in time, and `TabsInv` says how they are bridged. The callbacks
still to come lead from `last_connection_` to the status of the user's tab (`Owed`: the
last of them about its status tells it, and a stop is followed by one). The script of the
callback that runs leads from what was announced to `last_connection_` (`Telling`: each `connection_changed` in it
says that). Either has to be kept by each of TeamSpeak's eight doings (`HappeningTold`) and each
callback's script (`CallbackScripts`).

`ShownIsTheTab` speaks only of the moment when nothing is under way. `FollowInv` says of every other moment what is
missing and which call will bring it. Three things make it up. `Traced`: what the calls still to come
say of each tab, followed or not. The last news of its status is its status (`NewsLast`), nothing but a change of
tabs is told of a connection that is not there any more (`OnlyOnceThere`), the last of Ann's moves across the
border of a channel says whether she is in it (`AnnLast`), and if her last talking call says she talks she does, or
leaves the server later (`TalkLast`). `Awaited`: the cache that counts is the one the running callback will leave, the
last its script puts there (`EndsIn`, `CallbackEnds`). `Shows`: that cache is right about the followed tab in each
respect in which no call is still to come. The talking flag needs most care, for a re-read keeps it by
unique id (`KeepTalking`) while the query it reads from runs ahead of the calls. It survives only if she was
in the channel before and after, and then a call about her talking is still to come or what it shows is so (`ShowsReread`).
And it must not be carried from one connection into the next: since a connection in which somebody talked is lost before
it is established again, the status that empties the roster always comes first (`TalkBreaksOff`, `BreaksOff`). Each of
TeamSpeak's eight doings keeps that (`HappeningFollowed`), and each of the seven callbacks
(`StatusFollowed` to `SwitchFollowed`). The proof showed what the bound of the run could not: that a
tab that connects and takes over (plugin_core.cpp:163) is shown with the talking flags of the tab followed before, whoever
in it has the same unique id, because `set_connection` keeps the roster when it says connected. The property excepts
takeovers; without that it would be wrong about more than which tab is shown. And two
clients of one identity would share the flag, hence the assumption.

**`Replica_proofs`** (`ModelAssumption`, `SessionAssumption`, and those of `PluginCore`, `StateStore` and `EventStream`):
`SessionInvariance`, `SessionTypeCorrect`, `RosterLimited` (`RosterWithinLimit`), `StaleOnlyIfSilent`
(`StaleMeansSilent`: for a sender whose clock lags ours, by any number of ticks; not for one ahead), `OneRequest` (`OneRequestPerSilence`), `GapNeverSilent` (`GapAsks`), for any peer; `StreamInvariance`,
`StreamTypeCorrect` (`TypeOK`) and `BacklogNeverExceeded` (`BacklogBounded`) of the stream. Both rest on `OutcomeKeeps`:
every message applied to a roster within its limit leaves one. `Attention` ties `stale_reported_` to what is
shown and asked once the handshake is over; before it a session may have ended with a list marked stale and
the request made. The stream's `TypeOK` is not inductive: that a drawn number is below the next one could be
undone by the greeting, which starts the numbers; `StreamInv` adds that no thread has drawn
one before, and that what TeamSpeak's thread has drawn belongs to the step of the script it is at.

`CourseInvariance` and `StreamConverges` (`ConvergedUnlessMissed`) have a hypothesis on top of the assumptions:
`NobodyTwice`, the same unique id if and only if the same client id. The code does not ensure it
(see above), and the property does not hold without: give the run two connections of one identity, and a
whisper of the one marks the row of the other until a snapshot comes. It is assumed for the theorem,
not in `EventStream`, and `MCEventStream` has TLC evaluate it for the people of the run.

The invariant has to say
what the overlay would show if the script, the queue and the pipe were replayed into it, across dropped
backlogs, gaps and lines out of order. It does so without a recursion: a relation is a replay if it holds of
what is left after each step whenever it held before it. `Brings(a, s, goal)`: some such relation takes an
overlay that shows a through the sends of the script s to the goal. `OnCourse`: whatever the cache is while the script
runs, a snapshot of it (`Copy`) is brought to the goal by what is left of the script, and at the end the
roster is one TeamSpeak could have given (`Listed`). `Delivers`: an overlay that reads all lines on their way and
misses none of them ends in one of `Ends`, from where the rest of the script brings it to the goal; a line
numbered but not yet queued belongs to that rest unless the overlay is already past its number. `Course` is
these together: the plugin is on course, and once it is greeted the overlay is told all the
way there, unless its request for a snapshot is on the way (`Pending`) or it has missed a broadcast. An overflowing
queue, a requested snapshot and a heartbeat between a number and its line each start or
stretch the delivery (`SnapshotDelivers`, `DeliversAppended`); a line that shows a gap is what makes `Pending` true.

That each callback begins such a script is where the plugin's rules and the overlay's meet
(`CallbackCourse`): a script that re-reads the channel closes with a snapshot (`Closing`), and the others
refresh the cache, send one line that says the change, and may go on with lines that say what is so already
(`Idle`). The line must have the same effect on an overlay that has a copy from before the refresh as
on one whose snapshot already contains it, for the cache is served to other threads in between: joins repeated
must not double a row, departures repeated must be ignored (`RosterLines`, `RowSpoken`, `RowUpdated`,
`RowRepeated`). `Course` quantifies over relations and cannot be evaluated, so TLC checks only what follows from it.

Induction is over data only through its least counterexample: a set of numbers that is not
empty has a least element (`LeastExists`), so what holds at 0 and passes on holds throughout (`UpTo`).

Model-checked only is liveness, which is out of the prover's reach: `NewestIsShown`, `EventuallyAgrees`, `StopReturns`,
`OldEndpointIsLeft`, `StopReturnsUnlessLost`, `VanishedIsJoinedUnlessLost`. Every other property of a
passing run is proved.

## Not modelled

- `json.cpp`, the line framer, `broadcast_chat`, `want_speaking` and the rate limit, statistics, contacts and the SQLite
  reader, individual fields and names, per-user and per-channel inheritance, widths, pixels and
  drawing, fonts, the logger, the tools: pure functions or input and output without state of
  interest, or foreign formats. `PROJECT.json` says why for each.
- Weak memory: the triple buffer's exchange is acquire-release, which makes each
  step of the model a step of the program; plain races (`set_stale_after_ms`) are listed as hazards.
- The operating system's pipes beyond what both ends rely on; the loader's lock around
  unloading, under which the game's `stop()` may run. The client's writes are taken never to block, for its few lines fit
  the pipe's buffer of 64 KB.
- A sender's clock ahead of ours, by which a dead link would look live for longer.
- The toasts a switch of profile clears (`addon.cpp:295`): `Screen` has no switch of profile, `AddonSession` no toasts.
- More than one widget used in a frame of the settings window: what a frame raises is the union of what they
  raise, but two that interfere within one frame are not tried.
- The oldest events dropped where more than the client's queue holds come between two frames (`overlay_client.cpp:95`):
  a frame of `Screen` takes any batch within its bound, so toasts that never came are covered, the place of the loss is not.

## What could come next

The chat gate and the per-session subscription of the server; the lines of the framer
against splitting the whole stream; quarantine of corrupt profiles and export.
