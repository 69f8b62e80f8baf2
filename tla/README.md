# isiMotor Pulse: TLA+ models, checks and proofs

isiMotor Pulse is a plugin for rFactor 2 and Le Mans Ultimate
(`isimotor-pulse-plugin/src/main.cpp`) that publishes the simulator's state as
FlatBuffers on ZeroMQ sockets and takes commands back, with clients, an
installer and a manager in Python and Rust. This directory models the parts in
which order, time or failure matters, checks the models with TLC and proves
invariants of them with TLAPS.

## 1. Inventory

| Component | State | Operations | Interacts with | What makes it correct |
|---|---|---|---|---|
| Configuration hot reload (`ConfigFileWatcher`, `LoadConfigFile`, head of `UpdateScoring`) | watcher thread, notification handle, `dirty`, `config` | Startup, watch, debounce, reload, Shutdown | editor through the file, OS through the notification, simulator thread through `dirty` | no save is lost; the plugin ends up with the file's content; Shutdown ends |
| Outbound sockets (`Startup`, rebind loop, `Shutdown`) | 8 PUB sockets, `pubBound`, endpoints | bind, unbind and bind, close | other programs on the ports, ZeroMQ's I/O thread, subscribers | a socket serves the configured endpoint and no other; nothing held after Shutdown |
| Inbound commands (`PollInboundCommands`, `ApplyHWControl`, `UpdateHardware`, `CheckHWControl`, `AccessWeather`) | SUB queue, 32 pulses, one pending override | receive, press, wear down, read, hand over | clients, the game's frame loop, hot reload | a press reaches the game, a pulse ends, one pulse per control, an override is applied |
| Telemetry and extended state (`UpdateTelemetry`, `RateLimiter`, session callbacks) | limiters, damage figures, session flags, driving aids | frames per car, transitions, periodic message | the game's callbacks, hot reload, clients | figures are the player's and of this session; clients see the settled state; no car starves |
| Other streams (scoring, weather, force feedback, graphics) | one limiter each | one callback each | the game | follow the configuration |
| Configuration text parsing (`ExtractJsonString`, `Parse*String`) | none | the first occurrence of a key in an 8191-byte buffer, its number | the file | the value of the right key, or its default |
| ABI shim, SDK header | none | forward calls | the game | external |
| Subscriber (`ZmqSubscriber`) | sockets, poller, thread, running flag | start, stop, listen | application thread, callbacks | one listener per start, no callback after stop |
| Command publisher (`ZmqPublisher`) | lock, context, lazy PUB socket, endpoint on record | connect, send, close | application and callback threads | a command goes to its endpoint, close releases everything |
| Client state (`StateStore`, `EventDispatcher`, facades and their factories) | latest packet and count, listeners, attribute callbacks | receive, store, dispatch, subscribe, unsubscribe, start, stop | listener thread, application | callbacks hear of stored packets, every listener once |
| Client decoders, schemas | none | decode a message of a kind | listener thread, the manager's poll | a packet, None, or an exception, and which |
| Installer and configuration writer (`install/`) | files of each game, DLL copies | merge keys, write, copy, install, uninstall | the plugin and the manager through the files | what is saved is loaded; other plugins' settings survive |
| Manager engine (`TelemetryEngine`) | pending list, latest packets, counts | append (listener thread), poll, reset | UI thread | every packet processed once, in order |
| Manager UI and extractors (`ui/app.py`, `extractors/`) | active view and tab, tables, search, form | navigation, rebuild, update, commands, install view | engine, installer | the screen shows the engine's state |
| Rust client, tests, scripts | a second client; drivers | | | |

Hard behaviours: three threads meet in hot reload (editor, watcher, simulator);
the rebind loop fails part-way; commands arrive during a drain and pulses
expire in the same call; callbacks of the game come, or stop coming, depending
on what the plugin answered; messages conflate; the Python listener thread
outlives a `stop()` that timed out; a callback sends commands while the
application closes the publisher; listeners unsubscribe within a dispatch; poll
takes away a list that is being appended to; a save fails half-way over several
games. `PROJECT.json` lists the hazards at their
lines.

## 2. Modules

| Module | Models | Companions |
|---|---|---|
| `ConfigReload` | hot reload, four actors | `MCConfigReload`, `ConfigReload_proofs` |
| `PubSockets` | the nine sockets of the plugin | `MCPubSockets`, `PubSockets_proofs` |
| `PulseBoard` | abstract specification of hardware controls: at most one pulse per control | |
| `InboundControl` | queue, slot table, override; implements `PulseBoard` | `MCInboundControl`, `InboundControl_proofs` |
| `Telemetry` | frames, limiters, damage, ExtendedState | `MCTelemetry`, `Telemetry_proofs` |
| `ZmqSubscriber` | the Python client's listener thread, start and stop | `ZmqSubscriber_proofs` |
| `ZmqPublisher` | the command publisher, for any number of threads | `PulseClient_proofs` |
| `Schemas` | the tables of the messages, as the generated accessors show them | |
| `Decoders` | what each decoder answers; extends `Schemas` | |
| `PulseClient` | the four clients; extends `ZmqPublisher` and `Decoders` | `MCPulseClient`, `PulseClient_proofs` |
| `TelemetryEngine` | the manager's engine; extends `Decoders` | |
| `Extractors` | the rows of each table, and the search | |
| `PulseManager` | the application; extends `TelemetryEngine` and `Extractors` | `MCPulseManager`, `PulseManager_proofs` |
| `ConfigFiles` | the configuration file as installer, form and plugin see it | |
| `Detection` | the libraries Steam names and the games in them | `MCInstaller` |
| `Installer` | operations over all games; extends `ConfigFiles` | `MCInstaller`, `Installer_proofs` |

Operators whose comment begins with *Variant* (`LoadUnchecked`,
`WatcherRearmForgets`, `FinishUpdateFirst`, ...) are plausible errors used to
see that a property can fail; no specification uses them.

### ConfigReload
`disk` is the file and how much of it is written; the editor truncates, writes
and may stop half-way (`write_text` of `config.py`), or replaces the file by a
finished one. `signaled` and `recorded` are the change notification: a
signalled handle, and what the system records until `FindNextChangeNotification`
re-arms it. `watcher` is the place of the watcher thread in its loop (waiting,
debounce, before the re-arm), `dirty` its flag. The simulator's thread
(`host`) reads the file in `StartupLoad`, begins the watch in `StartupWatch`,
tests and clears the flag in `CheckAndClearDirty` and reads the file in `Reload`
-- separate steps, since the watcher and the editor may move in between. What a
configuration says is abstracted to whether it is enabled and whether it keeps
scoring on, the one setting reload depends on.

### PubSockets
`pubBound` is the plugin's flag, `at` what the socket is really bound to: a
failed rebind makes them differ. `Startup` and `Reload` begin loops whose rounds
(`BindPub`, `RebindPub`) may find an endpoint taken by another program, by one of
the plugin's own sockets or by a listener ZeroMQ has not closed yet
(`lingering`). A wildcard host clashes with every host on its port. The inbound
socket has a host and a port of its own.
`hindered` is a history: the sockets that something else -- another program, a
listener still closing, an overlap of old and new endpoints, a host that is none --
kept from moving since they were opened.

### InboundControl
`queue` is the SUB socket. `BeginUpdate`, `Receive` and `FinishUpdate` are one
`UpdateHardware`: a command may arrive between two receives. The table holds
names as stored (`Truncated`), matches whole names, and takes the first free
slot. `CheckHWControl` is an operator: it changes nothing. `pressed` is a history
of what the drain under way wrote. A failing `recv` ends the drain.

### Telemetry
`wait[l]` is the time until limiter `l` lets the next message through: it stands
for `hasSentFirst` and `lastTime` together (zero after `SetRate`, the interval after
a message of a limited stream). `shown` is the last ExtendedState message, which
is what a client of a conflating socket has; `stale` holds the cars that moved
since they were last published. Opponents with equal `mID % OpponentSlots` share
a limiter (`SameSlot`); of such cars `EveryCarIsFollowed` claims that one is
followed, not that each is: the others may starve. The model ends where a frame is
given to the socket. `lastImpact` is the game's
`mLastImpactMagnitude`, which keeps its value; `hits` and `damage` are the
history of the player's impacts. Whether cars are whole when a session starts is
the game's doing and no line of the plugin's: the constant `WholeCars` states it, and
the runs and the theorem about damage assume it. Which cars the game reports follows
`WantsTelemetryUpdates`. SystemEvent messages and the encoding of fields are left
out: they touch no state.

### ZmqSubscriber
`running`, `sockets`, `poller` and `thread` are the object's attributes; each start
is a generation that numbers its sockets and its thread. `open` are the generations
whose sockets are open. `pc` is the place of every listener thread in
`_listen_loop`, `list` the list its inner loop goes through: the loop reads the
attributes when it reaches them, so a thread may meet the sockets of a later
start. `caller` is the place of the application in `start` or `stop`, between whose
steps threads move. A socket enters `_sockets` only after its `connect` returned:
the one whose `connect` raised (`StartRaises`) is in `stray`, in no list that `stop`
closes, and lives until whoever caught the exception lets go of it
(`ExceptionDropped`). `context` is the object's context, and `StopTerm` waits for
every socket of it, listed or not. `overrun` and `selfStopped` are histories: threads whose join
timed out, and threads whose own callback called `stop`. One application thread
calls `start` and `stop`; two of them at once are outside of what the class
provides for. A join gives up only on a callback: nothing else the
loop does takes a second. Sockets that a restart drops without closing them (only
after a `stop` in a callback) count as open; the interpreter may collect them.

### ZmqPublisher
`lock`, `context`, `socket` and `connected` are the object's attributes, `pc` the
place of each thread in `_ensure_connected`, `_transmit` or `close`. The test
before the lock, the steps under it, the send and the steps of `close` are
separate, since `close` takes no lock. `socket.joined` says whether the plugin's
subscription has arrived: a PUB socket drops what it sends before. The sleep of a
tenth of a second is taken as enough for that (`Settle`); this is the one
assumption about time. `disturbed` (commands another thread crossed) and `failed` (the
last reconnection did not succeed) are histories for `SentWhereMeant`: a failed
`connect` leaves a socket connected to nothing under the old endpoint's name, and
later commands for that endpoint are then reported as sent and lost.

### Schemas, Decoders
A table of `Schemas` maps the fields a decoder reads to the kind of accessor the
generated class gives them; `Absent` is what such an accessor answers for a field
the writer left out. Numbers that stand together are one field. `Decoders` says
of each decoder whether a message gives a packet, None or an exception: an empty
message is None, bytes that end too early raise, a text that is not UTF-8 raises,
and so does an absent structure, since the decoders ask only the tables in `Asked`
whether they are None. `MCPulseClient` states which fields are vital and TLC
evaluates that, message by message. The values of fields are not modelled.

### PulseClient
One module for the four facades, which share the receiver: `ReceiveMulti`,
`ReceiveRaw`, `ReceiveUnder` and `DecodeRaw` differ in what they store where, and in
what an exception of a decoder does -- it ends the listener of `IsiMotorClient` and
is swallowed by the layered ones. `progress` is how far the dispatch of `packet` got:
`on_packet`, the attribute of its kind, then the list of listeners by index,
so that a removal within a callback shifts the list under the loop. Both threads
may subscribe, unsubscribe, set attributes and send. `left` counts those who left a
place the loop had passed (`Passed`): each shifts the list by one under the loop,
which then skips a listener. `NobodySkipped` claims the exact calls where nobody did
and bounds the listeners skipped by `left` otherwise. Commands go through
`ZmqPublisher`, whose steps appear as `Publishing(t)`. `app` is the place of the
application in `start` and `stop`.

### TelemetryEngine, PulseManager
`grip` is the list the subscriber's callback has read: the pending one (`"inbox"`),
the one a poll has taken meanwhile (`"batch"`), or one that no longer matters
(`"orphan"`). `PollBegin`, one `ProcessPacket` per packet, and `PollEnd` or
`PollRaises` are one poll. The application's handlers run on one thread, so only
`Subscribing` moves within an update. A tab bar posts a message (`mail`) when a tab
becomes active; `active_nav` and `active_tab` follow when it is handled. A table maps
row keys to what they show; a cell of a packet's field shows the packet's number,
so "stale" means "of another packet". `UpdateRaises` is the update that nothing
guards against a decoder's exception: the application then unmounts.

### ConfigFiles, Detection, Installer
A file is its sections by name, each with its place in the text. `Saved`,
`Configured` and `ReadVariables` are the merges of `install/config.py` with their
precedences, `LoadForm` and `ReadForm` the widgets, `LoadConfigFile` and
`ExtractJsonString` the plugin: it looks for the first occurrence of a key in the
first 8191 bytes, whatever section that is in. `Detection` computes the games'
directories, which are the constant `Targets` of `Installer`. An operation is at a
step (`job.next`) of a game (`job.game`), in the order of the loops; `StepsOf`
lists what it does to one game. Each step may fail, and `GiveUp`, `NextGame` or
`GoOn` is what that operation does then. `harmed` are files that were, or were
found, half-written. With no game found every operation refuses
(`install/config.py:224`, `install/dll.py:112`, `install/dll.py:211`), so
`Targets` is not empty; and the files at first are any that parse into sections
(`IsFile`), with rates among the texts the form can write. The rows of the
overview are keyed by the game, not by its directory: of a game found in two
directories the second group of rows repeats the keys of the first, the table
refuses it, and the manager does not come up (`ManagerComesUp`). With such targets
only the command line's operations take place.

## 3. Runs

| Run | Question | Bounds |
|---|---|---|
| `config_reload` | Is a save ever lost, does the plugin converge, does Shutdown end? | three contents: one without scoring, one disabled; torn and abandoned writes; a notification that may fail |
| `config_scoring_off` | Does convergence hold when scoring is turned off? **No.** | same, notification sound |
| `sockets_safety` | Stale endpoints, endpoints held after Shutdown, moves that are not completed, under every failure | three types with a gap, five settings (neighbouring, far enough, wildcard, bad host, commands on a host of their own), two contested endpoints |
| `sockets_neighbour` | Does a move to the neighbouring base complete? **No.** | bases 10 and 11 |
| `inbound` | Refinement of `PulseBoard`, presses reach the game, pulses end, overrides arrive | two slots, four names (one truncated onto another), six commands, queue of three, frames shorter than pulses |
| `inbound_long_frame` | And when a frame is as long as a pulse? **A press is lost.** | same, frames of 1 and 2 |
| `telemetry` | Whose damage, what a client ends up seeing, does a car starve whose limiter nobody else keeps busy | the player and two opponents that share a slot (1 and 3 of two slots), four configurations, interval of two ticks |
| `telemetry_damage` | Is cumulative damage the sum of the impacts? **No.** | same, safety only |
| `subscriber` | Do listeners pile up, are sockets released, is anybody called after a stop, does stop return? | three starts, callbacks that overrun, raise, never return or call `stop`, starts that fail with a socket in no list |
| `client` | What do callbacks hear of, is anyone skipped, what ends the listener, do commands arrive, does stop release everything? | all four facades, two messages out of four (good, garbled, incomplete, empty), two uses by either thread, two listeners, three endpoints (one malformed) |
| `manager` | Which packets are lost, in what order are the others processed, is the screen current? | two packets out of four (one and two cars, garbled, weather), two tabs, two messages of the bars, a search |
| `installer` | Is what was saved what the plugins load and the form shows, do other sections survive? | two games, two files each in five states, four operations, edits or failures |

Why small bounds are enough: three versions allow a save to overtake another
that is being applied; three packet types with a gap show moves onto one's own
and onto foreign endpoints; two slots and three distinct stored names fill and
overflow the table; an interval of two ticks distinguishes a limiter restarted
by every call from one restarted by each message; two opponents on one limiter
compete for it, and one of them may starve; three starts let a thread left by
the first meet the sockets of the second and the stop that ends them; two uses
let one thread unsubscribe while the other sends, or send to two endpoints; two
packets suffice for one in hand while a poll takes the other, for one that raises
before another, and for rows that change; two messages of the tab bars allow an
update between the choice of a view and of its tab; four steps are a hand edit, a
save, its failure and another operation. `DamageBound`, `QueueBound`,
`MaxSlots`, `MaxStarts`, `Interval`, `OpponentSlots`, `MaxMessages`, `MaxUses`,
`MaxReceived`, `MaxMail` and `MaxSteps` are the named bounds. `DamageBound` makes the
sum saturate; the queue drops what it cannot hold, as the socket's high-water
mark does.

Deadlock is checked except in `client` (the context's `term` may block for ever,
once a stop has given up on a callback that sends) and in `manager` (a closed
application has stopped).

### Fairness
- `ConfigReload`: the watcher is a live thread; `UpdateScoring` comes again and
  again while the plugin wants scoring, a started callback goes on, and
  Shutdown's join ends if the thread has. None for editors.
- `InboundControl`: the game calls `UpdateHardware` every frame and
  `AccessWeather` between frames as long as it is wanted -- strong fairness,
  because it is never enabled within a drain. None for clients: where
  `PulsesEnd` and `OverrideReachesTheGame` need them to pause, the formula says so.
- `Telemetry`: time passes, and the game reports each car it was asked for every
  frame.
- `ZmqSubscriber`: threads run and a `stop` that began goes on; its join ends when the
  thread has or its time is up. None for callbacks: `StopReturns` holds although one
  may never return, and where `LeftoversEnd` needs them to return, it says so. None
  for whoever caught the exception of a failed start: `StopReturns` says that it is
  let go of.
- `PulseClient`: a dispatch, a command and a stop that began go on, the listener
  leaves its loop when told to, the plugin's subscription arrives. Nothing of
  callbacks: `StopReleases` covers a stop that gave up waiting for one, too, and
  excepts it only while that callback is in a command or has opened a socket behind
  the close.
- `PulseManager`: the update timer goes off, an update goes on, and the subscriber's
  callback finishes its append.
- `PubSockets` and `Installer` state safety only and assume none.

## 4. What the runs found

1. Reload sits in `UpdateScoring`, which the game stops calling when scoring is
   off or masked: such a configuration is the last one applied
   (`AppliedWithoutScoring`).
2. The rebind loop moves sockets in ascending order; a base changed by one runs
   into the plugin's own sockets, and the flag stays on for sockets bound to
   nothing (`MovesComplete`). Where nothing stands in the way, moves do complete
   (`MovesUnlessHindered`, proved).
3. A pulse not longer than the frame in which it arrives is worn down before the
   game can ask for it (`PressReachesTheGame`).
4. One impact is added to the cumulative damage on every frame that still
   reports it (`DamageCountedOnce`).

Other behaviour met while modelling, for which there is no run of its own. Where a
property of a passing run excepts it, the exception is named:

- The telemetry socket keeps one message and carries the frames of all cars, so an
  opponent's frame may displace the player's, which it does not supersede, although
  the comment at `main.cpp:908` takes a frame lost there for one a newer one replaced.
- A socket whose `connect` raised is in no list: a `stop` called while that exception
  is held does not close it and waits for it in `term`; if the exception is let go
  of only after `stop`, as in a `finally`, it waits for ever. `StopReturns` has it let
  go of as its premise; a stop that does return has seen
  every socket closed, that one too (`SocketsReleased`, proved).
- Whoever leaves a place the loop of a dispatch has passed makes it skip a listener
  that stays subscribed (`left` in `NobodySkipped`, which bounds the skips by it).
- One message that does not decode ends the listener of `IsiMotorClient` with
  `is_running` still true (`client.py:134`; `dead` in `DiesOfDamageOnly`).
- A callback that outlives stop's one second and then sends a command opens a socket
  behind `close`, and `stop` waits for it in `term` for ever (the exception in
  `StopReleases`).
- After a command for a malformed host the record still names the endpoint before
  it: the next command for that is reported as sent on a socket connected to nothing
  (`failed` in `SentWhereMeant`).
- The send is not under the lock: a command may go out on the socket another thread
  has just made for another endpoint (`disturbed` in `SentWhereMeant`).
- In limited mode with the box left as it was loaded, the form saves
  `unlimitedHz`, which the plugin reads as off (`Numberless` in `SavedIsLoaded`).
- InboundControl switched on by a reload binds no socket; it works after a restart
  (`BindInbound` runs in Startup only).
- Of opponents that share a limiter, by `mID` modulo 128, all but one may never be
  published: `EveryCarIsFollowed` claims one.
- The plugin finds the first ` Enabled` of the file, whichever plugin it belongs to,
  and only within its buffer (`MetFirst` in `SavedIsLoaded`).
- The form shows a hand-written `" Enabled": "yes"` as disabled, while the plugin
  loads it as enabled.
- A save that follows an overview taken before a hand edit overwrites that edit.
- A file that cannot be parsed, for one because it was met half-written, counts as
  empty and is overwritten, other plugins' settings with it (`harmed` in
  `OthersKept`).
- A game found in two Steam libraries gives the overview two rows of one key, and
  the manager does not come up (`ManagerComesUp`).
- `configure_game_json` swallows errors of writing, so copying the DLL reports
  success over a file it could not write.
- A text that is not UTF-8, or a structure the sender left out, also raises through
  the manager's update. The layered clients swallow it; the
  DTO client hands on roots whose fields may fail in the callback.
- A packet the subscriber is about to append while a whole poll goes by is lost
  (`late` in `OnlyLateAreLost`); a packet that raises takes the rest of its list
  with it (`dropped`).
- Rows a packet adds (its first, more cars) appear only when the table is
  rebuilt (`grown` in `ScreenIsCurrent`).

## 5. Proofs

| Theorem | Says | Argument |
|---|---|---|
| `ConfigReload_proofs!TypeCorrect` | types | by action |
| `ConfigReload_proofs!SavesAreNotLost` | `NoLostUpdate` | with `HandleInv` (while the thread debounces or re-arms, the handle is still signalled, and only then are changes recorded) and `StartInv` (no thread before the watch; nothing stale between Startup's read and the watch unless a write was missed): without the first a save during the debounce would leave no notice |
| `PubSockets_proofs!SocketTypes`, `NoSocketServesAnOldEndpoint`, `ShutdownReleasesAll`, `UnhinderedSocketsMove` | `TypeOK`, `NoStaleEndpoint`, `StoppedHoldsNothing`, `MovesUnlessHindered` | sockets without the flag are bound to nothing, and those the loop has still to visit answer for the previous configuration |
| `InboundControl_proofs!InboundTypes`, `NoControlHeldTwice` | `TypeOK`, `OneSlotPerName` | a free slot is taken only when no entry holds the name |
| `InboundControl_proofs!TableImplementsBoard` | `IsABoard` | each step of the table maps to a press, a passing of time, a clear, or nothing; with one slot per name the board's reading of the table does not depend on which slot |
| `InboundControl_proofs!PressesAreRead` | `PressReachesTheGame` | where every frame is shorter than every hold time, as `ShortFrames` says and the inbound run has it (the run with a long frame shows the press lost): `PressedInv`, while commands are drained each plain name that was given a value has a slot with that value and a whole hold time left; no other name's press takes that slot, and one frame does not use it up |
| `Telemetry_proofs!TelemetryTypesHold` | `TypeOK` | by action |
| `Telemetry_proofs!DamageBelongsToThePlayer` | `DamageIsThePlayers` | with the game's last impact of the player being one of this session's; under two hypotheses the code takes for granted: the game starts a session with whole cars (`WholeCars`), and `mID <= 0` singles out the player's car |
| `ZmqSubscriber_proofs!SubscriberTypes` | `TypeOK` | by action |
| `ZmqSubscriber_proofs!ListenersDoNotPileUp` | `OneListener` | with `LeftBehind`: past the join, and until a start has its thread, every live listener is one that was given up on; otherwise a start could add a thread to a live one |
| `ZmqSubscriber_proofs!StopReleasesSockets`, `NoCallbackOnceStopped` | `SocketsReleased`, `QuietAfterStop` | with `OpenInv`: open sockets in a list are those of the object's list, none past the close, and one in no list belongs to the object's context; `stop` passes `term` only once no socket of that context is open, so one whose `connect` raised is gone by then too; a callback needs a message, and a message an open socket |
| `PulseClient_proofs!TypeCorrect`, `MutualExclusion`, `ContextOutlivesSocket`, `CommandsArrive` | `PublisherTypeOK`, `OneReconnects`, `SocketNeedsContext`, `SentWhereMeant` | for any number of threads; `Inv` says what each place under the lock implies about socket and record, unless the thread was disturbed, and that a terminating context has no new socket |
| `PulseClient_proofs!ClientUsesPublisher` | the client implements `PublisherSpec` | each action of the client is a publisher's step or leaves it alone |
| `PulseClient_proofs!ClientContexts`, `ClientCommandsArrive` | `SocketNeedsContext`, `SentWhereMeant` | from the publisher's theorems through the implementation |
| `PulseClient_proofs!CallbacksHearOfStored`, `OnlyDamageKills` | `HearsOfStored`, `DiesOfDamageOnly` | between storing and the end of a dispatch the store holds the packet in hand |
| `PulseClient_proofs!NoListenerIsSkipped` | `NobodySkipped` | with `DispatchInv`: while nobody has left a passed place, the calls of the dispatch so far are the attributes that were set, then the list up to the loop's index, and whatever is subscribed is appended behind it (`SwitchInv`: the lists hold callbacks, what is steady is set); and with `MissedInv`: the listeners in passed places that were not called, and the places passed that the list no longer has, are together no more than left |
| `PulseClient_proofs!ClientTypes` | `TypeOK` | with `StoreInv`: no store counts more packets than were received, and a layered client's own store lags behind while it has bytes it has not decoded |
| `PulseManager_proofs!ManagerUsesEngine` | the manager implements `EngineSpec` | with `AppInv`: nothing was received before the mount, and no poll is under way when the application stops |
| `PulseManager_proofs!ProcessedInOrder` | `InOrder` | with `QueueInv`: lists are sorted, older than the packet in hand, newer than everything processed; and once poll has taken the list the callback read, the new pending list stays empty until the append, so the straggler cannot be overtaken |
| `PulseManager_proofs!OnlyLatePacketsAreLost` | `OnlyLateAreLost` | with `QueueInv` and `LossInv`: what is gone is older than what any list holds, a poll that is over leaves nothing in its list, and a packet comes too late only when both lists are empty; sorted lists have as many numbers as packets, so nothing is in two places |
| `PulseManager_proofs!ScreenShowsTheEngine` | `ScreenIsCurrent` | with `TableInv`: in a running application that is not in an update, the open table's rows are those the extractor gives for the engine's present state; opening, polling, resetting and searching rebuild or refresh it, and without a row the packets brought meanwhile (`grown`) a refresh changes no row's existence |
| `PulseManager_proofs!ManagerTypes` | `TypeOK` | with `CountInv` (what was processed and what the lists hold is no more than was received), `NavInv` and `AppInv` |
| `Installer_proofs!InstallerTypes` | `TypeOK` | with `DiskInv` (each file is one that parses, is missing or is torn), `JobInv` (an operation that is not over is at one of its steps, and a save has a form's variables) and `FormInv`; that sections keep distinct places rests on `AssignedSections` |
| `Installer_proofs!SavedReachesThePlugin` | `SavedIsLoaded` | with `SavedInv`: the files a save under way has visited carry its variables (`Carries`: in the section of the exact key, with no earlier key left), and all files carry those of a save that was reported as saved, until one is torn or edited; a `Configured` file carries what it carried (`ConfiguredFile`) |
| `Installer_proofs!SavedReachesTheForm` | `SavedIsShown` | with `SavedInv` and `ShownInv`: whichever file the overview reads carries the variables, and if it reads none, the first game's are the defaults (`ActiveOnes`); loading a form and reading it gives the variables back (`LoadedForm`, `ParsedRate`) |
| `Installer_proofs!OtherPluginsAreSafe` | `OthersKept` | with `OthersInv`: each write keeps other plugins' sections and the merged host (`SavedOthers`, `ConfiguredOthers`, `EditedFile`) |

The theorems hold for every value of the constants that satisfies the modules'
assumptions (`ConstantsAssumption`, `PublisherAssumption`, `ClientAssumption`,
`EngineAssumption`, `ManagerAssumption`, `InstallerAssumption`), which TLC evaluates in the runs.

Model-checked only: everything under fairness (`Convergence`, `ShutdownEnds`,
`PulsesEnd`, `OverrideReachesTheGame`, `SettledStateIsShown`,
`EveryCarIsFollowed`, `StopReturns`, `LeftoversEnd`, `StopReleases`,
`EveryPacketIsReached`), which is beyond the prover. `Detection` filters and flattens
sequences (`SelectSeq`, `FlattenSeq`), which the prover cannot expand: the
installer's theorems hold for any list of games, and TLC computes the one of the
run. Every invariant a passing run checks is a theorem.

## 6. Not modelled

- The Rust client, a second client with blocking receives on the caller's thread,
  and the Rust installer.
- C++ and Rust bindings, builders and encoders; the values of numbers and the
  conversions to enumerations and properties of the dataclasses. `Schemas` covers
  the generated Python classes only in what their accessors answer for a field
  that is absent; that answer is nearly all these files consist of.
- Frequencies, intervals, jitter and byte counts of the engine, packet times of the
  stores, `StateStore.reset`, which nothing calls.
- Home cards, styles, layouts and the clipboard's text.
- In the installer: finding the compiled DLL, Steam's candidate paths,
  `--target-dir`, `--dry-run`, `--status`; two processes merging one file at the same
  time; of the plugin's variables all but a switch, a rate and a host, which
  are treated like one of these three.
- The ABI shim, which forwards calls; scripts, benchmarks, the mock host, tests.
- In the plugin: memory ordering of the plain `dirty` flag is taken to be sequential,
  wall-clock rates are ticks, and a thread that misses Shutdown's two-second wait is
  left out: the debounce takes a tenth of that.

## 7. Plan

Done: hot reload, sockets, inbound commands, telemetry, subscriber, publisher,
clients, decoders, engine, manager, configuration files and installer. Left:

1. `Installer` against `ConfigReload`'s editor: the torn write of one as the other's.
2. The composition of `PulseClient` with the restarts of `ZmqSubscriber`, which
   `PulseClient` leaves out (a start while an earlier thread is in a callback).
3. The Rust client's blocking receive.
4. An abstract register for hot reload that `ConfigReload` implements.
