# A TLA+ model of mitos-audio

mitos-audio is the audio daemon of a Linux desktop: it keeps the registry of
sound devices, decides which of them is the default, mixes what applications
play onto them, groups speakers, and remembers its settings. This directory
holds a model of it in TLA+, checked with TLC on small instances, and proofs of
some of its properties for instances of every size, checked with TLAPS.

Paths below are relative to the root of the repository.

## The system

| part | source | state it keeps | its operations |
|---|---|---|---|
| manager | `src/manager/state.rs` | devices, default output and input, stream records, groups, profile, microphone settings, under one async mutex | `refresh` (scan and diff), `restore`, `apply_routing`, one handler per command |
| routing | `src/routing/` | rules, memory of the previous default | evaluate the rules for a trigger; note, take and restore the memory |
| stream hub | `src/engine/mod.rs` | the live streams: target, volume, ring of samples | insert, remove, `set_device`, `push`, `take` |
| sinks | `src/engine/sink.rs` | one mixer thread per target that is played on | `tick` (every 500 ms), `close_sink`, mixer loops |
| sources | `src/engine/source.rs` | one capture thread per input that a stream records from | `tick`, `close_source`, capture loops; not wired into the daemon at this commit |
| groups | `src/groups/mod.rs` | members and latencies | delays that line the members up |
| data plane | `src/engine/dataserver.rs`, `protocol.rs`, `convert.rs` | one stream per connection | OPEN, DATA, CLOSE, disconnect |
| control plane | `src/daemon/event_loop.rs`, `src/ipc/` | connections, subscriptions, event channels | requests, responses, event and level lines |
| persistence | `src/persistence/database.rs` | `state.json`, the writer's queue | `request_save`, debounced writer, `load` |
| hotplug | `src/daemon/hotplug.rs` | bursts of udev events | one `refresh` for a burst |
| client library | `client/src/` | one connection, monitors | call with one reconnect and retry, event and level monitors, playback |
| pure parts | `src/policy`, `src/profiles`, `src/bluetooth`, `src/routing/rules.rs` | none | first matching rule, profile validation, codec negotiation, glob matching |
| signal processing | `src/effects`, `src/microphone`, `src/engine/convert.rs` | filter state | floating-point filters |
| backends | `src/backend/` | the hardware | scan, open, write, volume |

The parts meet in four places. The **state lock** of the manager is taken by
every handler, more than once in most of them, and the runtime is
multi-threaded: what a handler does between two critical sections interleaves
with every other handler. The **hub** is written after the lock has been
released and read by the mixer threads and the lifecycle pass. The **sinks** are
opened by one task, on snapshots, and closed by three. The **settings** travel
from the lock through a bounded channel to the writer, and from the file back
through the boot sequence.

That is where the hard behaviour is: a handler that acts on what it read in an
earlier critical section; records and live streams that are changed one after
the other; a pass that works on snapshots while commands change what they show;
threads that are told to stop and are joined later; a crash between two steps of
a save; a boot that applies rules before it restores what was saved.

What makes each part correct:

- *manager*: a default is a device that exists and can be one; there is a
  default whenever default whenever there could be; streams that follow the default are on it;
  the mixers play a stream where its record says; nothing survives in the hub
  without a record.
- *sinks and groups*: every mixer thread can be reached and stopped; every
  target that is played on is served in the end, a group by exactly its
  connected members and with its configured delays; idle sinks are closed; the
  samples of a stream have one consumer.
- *persistence*: the file can always be read; what it has held survives
  restarts; in the end it holds the latest settings.
- *data plane*: a stream lives exactly as long as its connection.
- *control plane and client*: every request gets its own response, in order; a
  subscriber that stays connected sees the current state in the end.
- *pure parts*: the result agrees with a plain definition of what is asked.

## Modules

| module | models | checked by | proved in |
|---|---|---|---|
| `AudioManager` | the manager's devices, defaults, streams, routing and groups, with the hub's targets | `manager`, `manager_follow` | `AudioManagerProofs` |
| `RoutingRules` | what a rules file and a microphone policy mean; extended by `AudioManager`, whose rules `MCAudioManager` computes with it | `manager` | `AudioManagerProofs` |
| `SinkManager` | the lifecycle pass, `close_sink`, mixer threads, group commands | `sinks` | `SinkManagerProofs` |
| `CaptureSources` | the lifecycle pass of capture, its threads, what streams hear | `capture` | `CaptureSourcesProofs` |
| `GroupDelays` | delays of a group and delay lines; used by `SinkManager` | `sinks` | `SinkManagerProofs` |
| `DataPlane` | connections, streams, rings, mixers, stream volume and mute, the playback client | `streams` | `DataPlaneProofs` |
| `AudioFrames` | conversion of payloads, the ring in samples, partial reads | `streams` | `DataPlaneProofs` |
| `DeviceSettings` | volume, mute, profile and microphone commands, scans, udev bursts, mixer controls | `settings`, `settings_soft` | `DeviceSettingsProofs` |
| `EffectsChain` | effects chains, presets, their saving and restoring; used by `DeviceSettings` | `settings` | `DeviceSettingsProofs` |
| `EventStream` | subscriptions from the state change to the program that watches, the meter | `events` | `EventStreamProofs` |
| `ControlClient` | calls of the client library against the daemon's request loop | `client` | `ControlClientProofs` |
| `SettingsStore` | saving and restoring settings across crashes | `store_crash`, `store_saved`, `store_boot_rule` | `SettingsStoreProofs` |
| `DurableSettings` | what the store promises, abstractly; `SettingsStore` implements it | `store_saved` | |
| `MC...` | instances for TLC | | |

`AudioManager`, `SinkManager`, `DataPlane` and `DeviceSettings` look at the same
daemon from four sides. What one of them abstracts is another one's state: the
targets of streams are `AudioManager`'s, their volumes `DataPlane`'s; the
targets that are played on are inputs of `SinkManager`; the volumes of devices
are `DeviceSettings`'. Where one uses what another computes, it uses its
operators: the delays of a sink in `SinkManager` are `GroupDelays!Connected`,
and the rules of `AudioManager` are `RoutingRules!Evaluate` of a rules file.

Lines ending in `\* mutant` in the modules are plausible mistakes in a
definition next to them. Every property of a passing run is broken by at least
one of them (`PROJECT.json`, "mutants"); otherwise they are not used.

### AudioManager

One action is one critical section of a handler, or one write to the hub, which
is done outside the lock. What a handler still has to do is kept in `task[t]`:
`gone`, `added` and `removed` are the devices a refresh still has to treat,
`acts` are the actions that are left of `apply_routing()` (or of the command),
`writes` the hub writes that follow the critical section just left. Handlers of
different tasks interleave freely.

| in the model | in `src/manager/state.rs` |
|---|---|
| `Refresh`, `Retarget`, `RunDeviceRules` | the three parts of `refresh()`: the diff under the lock, followers of removed devices, rules |
| `Restore`, `SkipRestore` | the boot sequence, after the first scan, with and without `persist` |
| `SwitchOutput`, `SwitchInput` | `switch_default_output()`, `switch_default_input()` |
| `NotePrevious`, `TakePrevious`, `TakePreviousInput`, `ApplyProfile` | the other actions of `apply_routing()`: the routing memory, a profile |
| `CheckRoutedMove`, `Move` | a move by a rule looks and moves under two locks |
| `WriteHub` | `live.set_device()` |
| `CreateLiveStream`, `CreateStream`, `RunStreamRules` | OPEN on the data plane, `CreateStream`, their rules |
| `DestroyStream`, `LeaveHub` | the two halves of `destroy_live_stream()` |
| `CreateGroup`, `DeleteGroup`, `SetDefaultOutput`, `SetDefaultInput`, `MoveStream`, `SetProfile` | the commands |

A device is its direction, or "gone". What the hardware may report is the
constant `Scanned`, so an instance says which devices can vanish or change their
direction. `Rules` is the outcome of evaluating a rules file: a sequence of
actions for every trigger and device, one for each profile that may be active
(which one is, is not kept here). `Permitted` are the applications the microphone
policy lets record. Scans run outside the lock, so one may be
applied late; the model lets every possible report be applied at any time.

### RoutingRules

`GlobMatch` is the one-pass matcher with its single backtracking point, as in
`routing/rules.rs`; `Evaluate` is `RoutingEngine::evaluate()` (conditions, stop,
disabled rules, actions without a device or stream to act on);
`CheckMicrophone` is the policy, which uses the same patterns. `WildcardsMatch`
compares the matcher with the meaning of a pattern (`Stands`): a place of the
matcher (`Places`) is the four variables of its loop, `Advance`, `TakeNone` and
`Retry` are the three ways a round of it goes on. `RulesAgree` compares the
evaluation with the set of rules that should fire. Texts are sequences of
letters, a match is a function from the conditions a rule states to their
patterns, and the TOML syntax is left to its library.

### SinkManager and GroupDelays

The pass is a sequence of small steps, since it awaits twice for its snapshots,
once per open and once per join. A mixer thread is a slot of `thread` that stays
occupied until it has been joined. Group commands and a refresh that finds a
device gone are handlers of their own: they change the registry under the state
lock and close the sink later, by the same `close_sink()` the pass uses. The two
clocks of the pass (2 s between attempts to open, 5 s until an idle sink is
closed) are sets of targets that time takes elements out of, at any moment. An
open may fail at any time; a mixer of a single device may die (`MayDie`), that
of a group may not, as in the code.

`ComputeDelays`, `NewLine` and `Process` are `compute_delays_ms()` and
`DelayLine`; `Played` runs a line over the periods of `group_mixer_loop()`.
`Written` drops the periods whose write fails: the member is recovered and goes
on, and hardware is assumed to keep time meanwhile, so such a period is silence
(also if a part of it had been taken). `InStepFor` adds the latency of the
hardware and says that every connected member is then heard in step with the
slowest, whichever writes fail.

### CaptureSources

`Survey` to `EndTick` are `SourceManager::tick()`: what it references and will
close is read at once from the hub, opens and joins are awaited one after the
other. `Close` and `Join` are `close_source()`, which the pass alone calls.
`Loop`, `Capture`, `Look`, `Push` and their likes are `capture_loop()`: a thread
takes its snapshot of the streams, looks at the device of one, and pushes to it
after that, while `Place` and `Leave` may move the stream. `heard[s]` is the
device a stream got its last period from. No task of the daemon calls `tick()`
yet; it is assumed to be called as that of the sinks is, again and again by one
task, with the devices the registry has at that moment.

### DataPlane and AudioFrames

A connection is a FIFO of frames in each direction between a client and the task
that serves it. `Connect`, `Opened`, `WritePcm` and `CloseStream` are a client of
the library; `SendAnything` is any other; both may `Vanish` at any point, also in
the middle of a frame. `ServeOpen` and `FinishOpen` are creating the stream and
writing OPEN_ACK, between which the client may go; `ForgetRecord` and
`EndConnection` are the two halves of `destroy_live_stream()`; `Hangup`,
`ReadFails` and `PanicOnTorn` are the other ways out of the loop. A payload may
be "torn": it ends in the middle of a frame. `SetStreamVolume`,
`SetStreamMute` and `DestroyStream` change the record and leave the hub to
`WriteLive`. `Mix` takes any part of a ring. The n-th DATA frame of a client is
the number n, so order and gaps can be told.

`AudioFrames` looks inside such a frame: where each sample of a payload goes
through `to_stereo()`, `resample_stereo()`, `push()` and `take()`. A sample is
its frame and channel; amplitudes are left out. A payload has any number of
samples (bytes that make no whole sample are dropped by `decode()`), and each is
read as beginning a frame, as the code does.

### DeviceSettings and EffectsChain

A volume command reads its target under the lock (`SetVolume`,
`SetMasterMuted`), writes the mixer control without it (`Push`) and the record
under it again (`Record`). A scan is taken without the lock (`StartScan`) and
applied later (`ApplyScan`); there is one for the poll, one for udev (`Burst`,
`EndBurst`) and one for the `Rescan` command. A control has the range
`0 .. Steps`, so percentages are rounded as in `percent_to_raw()` and
`raw_to_percent()`; the devices of a card share its control, and a card may have
no volume (`Controlled`) or no mute switch (`Switched`): `set_volume()` and
`set_mute()` are refused separately. `Turn` is another program. Microphone commands copy all fields under the
lock and `Emit` the event after it.

`EffectsChain` is the chain of one device as the commands, the presets, the
snapshot that is saved and `restore_effects()` leave it.

### EventStream

`Handle` changes a field under the lock and `Emit` broadcasts it, after the lock,
so two commands may announce one field in the wrong order; `overtaken` notes the
fields whose last event was not of the last change. The event carries the new
value; of those that carry only an id (`DeviceChanged`, `StreamChanged`,
`GroupChanged`) the value stands for what a program that fetches on it gets. Every
connection is its handler (`Subscribe`, `Respond`, `EndOfFile`), its
subscription task (`Forward`) and its writer (`Write`), with a bounded queue
between them and a socket that buffers. The broadcast channel drops its oldest
event (`DropOldest`) for a subscriber that lags; everything else waits. `Park`,
`Measure` and `MeasureFails` are the meter task, which looks at the number of
receivers. A monitor of the client library connects, subscribes, tells its
program to fetch the state (`Resync`), reads, and starts over after any failure.
The daemon may `Crash` and `Start` with other values in all fields.

### ControlClient

`queue` is the mutex around the connection, first come first served. A call
issues, acquires the mutex and opens a connection if none is kept, sends its
line, receives the next line; `Lose`, `Reconnect`, `Resend`, `ReceiveAgain` and
`LoseAgain` are the one transparent retry. `Cancel` drops the call's future at
any await: what was written stays written, also half a line, which with the next
line makes one malformed request; and the part of an answer that was read is gone
with the buffer, so the rest of it is a torn line for the next call. `Serve`,
`Respond` and `Refuse` are the request loop of a connection, which goes on after
its client has left. `NotText` ends it without an answer: a half line cut inside a
character makes `read_line()` fail. `Crash` takes the requests of all connections
with it; what was answered can be read up to some point, which may be the middle
of a line. A torn answer does not parse, which ends a call without a retry.
`executed[c]` is a history variable: the runs of the daemon that carried the
command of `c` out.

### SettingsStore

The value of a setting is the number of the change that made it, 0 for a
default, so older and newer are comparable. A command changes a setting under
the lock, takes its snapshot under the lock again, and queues it outside: three
actions. The writer receives, debounces (`Extend`, `Timeout`) and writes
(`Create`, `Complete` on `state.json.tmp`, then `Rename`). `Crash` is possible
in every state and takes the queue, the writer and the memory with it; `Start`,
`BootScan`, `BootSave` and `Restore` are the boot sequence. `newest` is a
history variable: the newest value of each setting the file has held.

## What the runs check

Runs that pass:

| run | instance | properties |
|---|---|---|
| `manager` | two handlers, two devices that may vanish and change direction, the rules file of the documentation, one number | `DefaultsUsable`, `DefaultUnlessNoCandidate`, `ActiveIsDefault`, `HubEntryHasRecord`, `GlobIsWildcard`, `RulesFireInOrder`, and as action properties `OnlyLostDefaultStrands`, `OnlyLateWritesMislead`, `ExplicitTargetIsKept` |
| `sinks` | two device sinks, or a group of the two; one device and all members come and go; mixers die; two threads, one handler | `MixerOwned`, `GroupInStep`, and as liveness `ServedWhileAlive`, `NoIdleSink` |
| `capture` | one stream moved between a built-in microphone and a headset that comes and goes, two threads, which may die | `OneReader`, and as liveness `StreamsHearTheirDevice`, `NoIdleSource` |
| `store_crash` | two concurrent commands, three changes, a queue of two, hotplug, rules in the boot scan, failing writes, crashes | `TypeOK`, `NeverTorn`, `OnlyLossesLeaveBehind`, and as liveness `LatestSaved` |
| `store_saved` | one command at a time, two fixed devices, three changes, crashes | `SettingsSurvive`, `ImplementsDurable` |
| `streams` | one connection of either kind, two concurrent commands, one stream, four frames, a ring of two, a volume below and one above the cap | `StreamHasConnectionOrIsAbandoned`, `RingIsNewest`, `OnlyLateSettingsMislead`, `FramesStayAligned`, and as liveness `OpenIsAnswered`, `ClosedStreamEnds` |
| `settings` | a card with a control and one without, two concurrent commands, two changes, three scanners | `EffectsRestored`, `CurrentScanSettles`, `OnlyOvertakenEventsMislead`, and as liveness `RecordsConverge` |
| `events` | two concurrent commands, one monitor, four connections, every queue of length one, three changes, restarts included | `NothingLost`, and as liveness `KnownCurrent`, `MeteringParks` |
| `client` | three concurrent calls, three connections, two deaths of the daemon | `TypeOK`, `AtMostOncePerRun`, `OwnAnswerUnlessCancelled`, `FailureMeansOutage`, and as liveness `CallsReturn` |

Every property is stated in words above its definition. The types of
`AudioManager`, `SinkManager`, `CaptureSources`, `DataPlane`, `DeviceSettings`
and `EventStream` are proved and not checked again. Five of the properties are facts
about data that no step changes (`GlobIsWildcard`, `RulesFireInOrder`,
`GroupInStep`, `FramesStayAligned`, `EffectsRestored`): they quantify over all
small inputs of a pure function and are looked at in the initial states only, so
they read `Init => ...`. Their bounds: all patterns and texts of up to four
characters with repeated letters, stars and both cases; all files of up to three
of six rules; all groups of up to three members with latencies of 0 to 2 ms and
all subsets of connected ones and of failing writes; all sequences of four payloads of one to five samples
and reads of one or two frames at four rates with one to three channels through a
ring of eight samples; all sequences of up to three effects commands and restarts.

Runs that show where the code does not do what its documentation says:

| run | what happens |
|---|---|
| `manager_follow` | The last output vanishes: `refresh()` has no default to move its followers to. An output that is added later becomes the default, but only followers of a removed device are retargeted. `docs/audio-model.md`: `follows_default` "moves automatically if the default output changes". |
| `store_boot_rule` | A rule that fires in the first scan makes `apply_routing()` save settings that are not restored yet; `restore()` itself saves nothing. If the daemon restarts before anything else changes, groups and microphone settings are gone. `docs/architecture.md`: "Group definitions persist across restarts". |
| `settings_soft` | A device without a mixer control is reported by every scan with the volume of `Device::new()`. After `SetVolume` the record differs from the report, so the next scan replaces it. `docs/ipc.md`: "`hw_applied` is `false` when the device has no hardware volume control (state is still tracked)". |

### Known departures

The models show more behaviour one may not expect. No run is spent on these;
each can be seen with the constants or the stronger property named here.

- *Followers are stranded* also when the default output loses its output
  direction without being removed: `refresh()` picks another default and moves
  nobody. `OnlyLostDefaultStrands` names both ways, and that there is no other.
  Recording streams are followers of the default *output* too.
- *The hub may be left behind its records.* Of two handlers that move a stream
  the second may write the hub before the first; of two `SetStreamVolume` as well.
  `OnlyLateWritesMislead` and `OnlyLateSettingsMislead` say that such a late write
  is the only way, and that its place is known when it is made.
- *The previous input is never remembered*: `note_input_switch()` has no caller,
  so `restore-input` (`docs/routing.md`: "same, for input") finds only what a
  settings file brought. `TakePreviousInput` has what the code does.
- *Group delays from a stale snapshot*: a pass takes its snapshot of the groups,
  a command changes a latency and closes the sink, the pass opens it again from
  its snapshot; `tick()` compares member sets only, so the old delays stay,
  though `docs/ipc.md` promises that "latency changes take effect within
  ~0.5 s". `ServedWhileAlive` therefore compares members and not delays.
- *Two mixers of one target*: a command has taken the handle of a sink and waits
  for its thread; the pass finds no handle and opens a second mixer, until the
  first looks at its stop flag. `docs/architecture.md` relies on a ring having
  "exactly one consumer". `MixerOwned` bounds it to threads told to stop.
- *A device sink whose mixer has died keeps its handle* and is not reopened
  while a stream plays on it. `ServedWhileAlive` excepts it (`Dead`). So does a capture thread, and
  `StreamsHearTheirDevice` excepts it too.
- *The order of saves*: two commands may take snapshots in one order and queue
  them in the other, so the file ends up with the older one
  (`persistence/database.rs`: "latest settings win"); a full queue drops the
  newest; a refused write is not repeated. The setting then stays out of the file
  until some command saves again. `OnlyLossesLeaveBehind` names the ways, and
  `LatestSaved` speaks of the settings that took none of them.
- *Settings of an unplugged device* are dropped from the file by the next save:
  `SettingsSurvive` fails with `Hotplug = TRUE`.
- *A settings file that exists and cannot be read* counts as absent, and the
  next save replaces it (`SettingsStore::load`). `Readable` has no such file: with
  one, `SettingsSurvive` would fail by definition.
- *A subscriber that lags is not told* that it has missed events; `KnownCurrent`
  excepts it (`Lagging`).
- *A connection an event monitor has left* keeps its tasks until two more events
  have been sent, and `EventStream` of the client does not stop its monitor when
  it is dropped and no event comes. `MeteringParks` speaks of level monitors.
- *Two concurrent microphone commands* may send their events in the other order,
  and each carries all fields, so a subscriber is left with an old setting, though
  `manager/state.rs` says of `mic_event_fields` that a client "never has a stale
  view of the rest". `OnlyOvertakenEventsMislead` says that only this does it, and
  the same goes for any field in `KnownCurrent` and `NothingLost` (`overtaken`).
- *Channels are swapped for good* by one stereo payload with an odd number of
  samples at 48 kHz, which goes to the ring as it is. `Swaps` is this case, which
  `EveryFrameAligned` excepts; at any other rate and number of channels such a
  payload costs one frame, or the task (below).
- *A cancelled call leaves its answer to the next one.* Responses are not matched
  by id: a call whose future is dropped after its request was written leaves an
  answer unread, and every later call on that connection gets the answer of the
  call before. `OwnAnswer` fails in `client` with one cancelled call, though
  `client/src/connection.rs` says "Fire a request and await its response".
- *A compressor is lost by a restart* after bands were edited under a preset
  that has one; `EveryChainRestored` says exactly when.
- *A stream is abandoned* when OPEN_ACK cannot be written, and when the task
  panics on a torn payload of three and more channels. `StreamHasConnection` is
  the stronger property that fails.
- *`*` does not match a text that begins with a star of its own*;
  `WildcardsMatch` leaves such texts out.
- *`DeleteGroup`* leaves streams on a target that is gone, and *`RestoreOutput`*
  forgets the previous output also when the switch then fails. The documents do
  not say what should happen.

### Bounds

Two devices are enough for every situation the manager distinguishes: the
default and another candidate, a removed device and the one its followers move
to, a device and a group. One number with two handlers lets one stream be
created, moved, retargeted and destroyed by concurrent handlers; streams meet in
nothing but the number they are given, and the properties speak of one stream
each. The theorems do without these bounds.
`MaxId` is a bound of the model only; when it is reached nothing is created any
more.

In `sinks`, two threads let a target have one stopping and one running, or one
each for two targets; a third thread waits, and a target that waits for a slot
gets one. A group of two loses and regains members by commands and by unplugging.
The latencies of groups are one value there, because delays are compared by
`GroupInStep` over all latencies.

In `capture`, two devices are the one a stream leaves and the one it is moved
to, so a thread may be about to push to a stream that has left it, and each
device may have a thread while both are open. Streams meet in no state but the
set of devices they are on, which one stream changes in every way.

In `streams`, one connection creates a stream and loses it to one of two commands
that run at the same time, and a second OPEN is refused; four frames, of which two
fit a socket, overflow a ring of two twice. `SendAnything` covers
frames in any order from a client that does not keep to the protocol. Two
connections do not meet but in the number they are given; that they stay apart
(`StreamsApart`) is proved for any number of them.

In `settings`, two changes of any kind (commands, another program, plugs) meet
three scans that are taken and applied at any time. Four steps make 50 %
rounded. In `events`, queues of one are always at their limit, and three changes
let one be lost, one overtaken by the response or by another command, and one made
while the program fetches. The daemon handles changes only for a monitor of events
(`Watched`), since a monitor of levels takes no notice of them. In `client`, three calls make a holder of the mutex, one that waits and
one that has left something on the connection; two deaths let the retry fail as
well; a connection that is free again may be used again, so three are enough for
the kept one, the retried one and one that the daemon still serves.

Three changes let an older snapshot, a newer one and one that is lost differ, and
in `store_crash` fill the queue of two. In `store_saved` the queue is as long as
there are changes, commands follow one another, devices stay and writes succeed:
what is shown there is what is left of the promise without the losses that
`store_crash` names, of which a refinement of an ideal store cannot speak.

### Fairness

Everywhere the runtime polls every task that is ready: weak fairness of what the
daemon's and the client library's tasks do next. Nothing is assumed of users:
commands, plugs, other programs, cancellation and crashes happen or not. Beyond
that:

- `SinkManager` assumes that a mixer thread looks at its stop flag once a period,
  that time passes, and that opening a device that is tried again and again
  succeeds in the end (strong fairness, since the attempts are throttled);
  without the last one nothing could be said of hardware that refuses forever.
- `CaptureSources` assumes the same of capture threads, and that a device that is
  read again and again yields a period in the end.
- `SettingsStore` assumes that the debounce timer expires.
- `DataPlane` assumes that a client of the library that waits for its answer
  reads it, since `PlaybackStream::open()` awaits nothing else.
- `DeviceSettings` assumes that the daemon boots and that the poll scans again
  and again, as it does every three seconds; the other scanners only finish what
  they have begun.
- `EventStream` and `ControlClient` assume that a daemon that died is started
  again, as its service unit does; `EventStream` also that programs take the
  events they subscribed to and that the meter reads levels (`Measure`) at its
  interval.

## What is proved

The theorems hold for all values of the constants that meet the named
assumptions of the modules: any number of devices, handlers, streams,
connections and numbers, any rules.

`AudioManagerProofs` proves that `TypeOK` is an invariant and that both defaults
are usable, exist whenever possible, and are the only devices that are Active.
`DefaultsInv` is the conjunction of the last three and is inductive together
with `TypeOK`: a switch keeps a default because its target was found playable
in the same critical section, and a diff replaces what has become unusable.

The same module proves that an explicit target is only changed by an explicit
move, and that no hub entry outlives its record. The last is inductive, because a
handler that removes a record holds "unhub" at the head of its work and nothing
can come before it (`OtherTasks`: a step of one task leaves the others' work
alone).

Two more theorems say of what the code gets wrong that there is no other way to
it, for any number of handlers. `FollowersLeftOnlyByLostDefault`: a follower that
is on the default, or on a device some refresh is about to treat as gone, ceases
to be only in a step that loses the default in one of the two ways of *Followers
are stranded*. `MixersMisledOnlyByLateWrites`: a mixer that plays a stream where
its record says, or is about to be told, ceases to only by a hub write of a target
the record has left since. It needs `HubBelowNext` (a number still to come has no
hub entry, so a new record never meets an old one); a step that moves records
leaves a write for each (`ToldAnnounced`).

Of `RoutingRules` the same module proves that any rules file is evaluated in file
order (`RulesInFileOrder`: after every rule the loop is over exactly if a rule up
to there fired and stops), and that a policy is a rules file in which every rule
stops (`PolicyMeansRules`: then at most one fires). `MatcherMeansPattern` proves
that the one backtracking point of the matcher is enough for any pattern and any
text without a star. The matcher ends because every round lessens `Left`: the star
or what it takes grows, or else the place in the pattern. From every place it
can get to (`Followed`) it answers `Want`: the rest of the pattern fits the rest of
the text, or what follows the last star fits a later one. Forgetting an earlier
star is sound, since a part of a pattern without a star has one length
(`FitPlain`): where the earlier star could have taken more, the later one can
(`Behind`). `WildcardsMean` and `RulesInOrder` state the properties of the run.

`SettingsStoreProofs` proves that `state.json` is never torn (`FileNeverTorn`)
for any number of commands, devices, changes and crashes, with hotplug, boot
rules and failing writes. It rests on `DiskInv`, which says where the writer is
when `state.json.tmp` is complete: from then until the rename it holds the
settings the writer holds, and what it holds, like everything queued for it, are
settings. The same induction gives the types, and so the bound of the queue.

`OnlyLosses` proves `OnlyLossesLeaveBehind` without any condition: a setting that
is in the file, or will be by the end of the queue, what the writer holds or what a
command has still to send, is left behind only by one of the losses named. The
argument goes along the way of a snapshot (`SnapshotHasIt`, `SendDelivers`,
`WriterMovesOn`): each step hands on what comes last, and `Extend` takes the
newer one.

That the store implements `DurableSettings` and that restarts never take a saved
setting back are checked and not proved: they hold only while commands follow one
another, devices stay and no rule saves at boot, and a theorem under these
conditions would say little of the daemon.

`SinkManagerProofs` proves `TypeOK`, `MixerOwned`, and that no mixer handle is
ever held in two places (`JoinedOnce`: never joined twice, and never joined while
the table still has it). `MixerOwned` is not inductive: a handle has to be the
one of a thread that exists and plays on that target, whoever waits for a thread
waits for one that has been told to stop, and the waiters wait for different
ones. `OwnInv` says that, and that the pass only opens a target that has no
handle, which holds because nobody else opens. `TypeOK` needs that a group has a
slowest member, so that its delays are natural numbers, which is a lemma about
maxima of finite sets.

`CaptureSourcesProofs` proves `TypeOK` and `OneReader`: no two threads capture
from one device. `SourceInv` says that the handle of a device is that of a
thread on this device, that a thread is the one its device has a handle for or
the one the pass is joining, and that the device of a thread being joined and
the one being opened have no handle. The sinks have no such
theorem, since their commands close as well: there a second mixer may run until
the first looks at its stop flag.

`SinkManagerProofs` also proves, of `GroupDelays`, that latency and delay of every member sum to
the latency of the slowest, for every finite group (`GroupLinedUp`), that a delay
line of any length loses, repeats and reorders nothing of any input
(`DelayLineConserves`), and from the two that every connected member of any group
is heard in step with the slowest one, however many periods of whatever lengths
the mixer cuts the stream into and whichever writes fail (`GroupsHeardInStep`, and for the groups of the run
`GroupsInStep`).

`DataPlaneProofs` proves, besides `TypeOK`:
- what exists of a stream has an owner (`StreamHasConnectionOrIsAbandoned`) and
  no two connections share one (`StreamsApart`). `OwnInv` adds that a task
  which creates a stream has its number, that numbers in use are below the next one, and
  that an entry without a record is about to be removed by a command or a task;
- `RingIsNewest`, from `RingInv`: the ring is the end of what has gone into it,
  which appending, dropping the oldest and taking the oldest all keep;
- `OnlyLateSettingsMislead`, for any number of concurrent commands: a mixer that
  has the volume and mute of the record, or is about to be told, ceases to only by
  a write of a value another command has replaced since;
- of `AudioFrames`, that what is heard of a stream are whole frames in the order
  of the client, left and right from the same two frames (`HeardInStep`), for any
  sequence of payloads and reads, payloads ending anywhere, any rate, one to eight
  channels, but for odd stereo payloads at 48 kHz (`Swaps`), and any ring whose half is whole frames (`RING_CAP` is 96000 samples, half of it 24000
  frames); `FramesInOrder` is that for the sequences of the run. A payload becomes
  a blend of frames whose positions stay inside it and never go back
  (`Positions`, `BlendAligned`); whole frames from anywhere in what is aligned are
  aligned (`AlignedPart`), and so is one part after another if nothing in the
  second is older (`AlignedConcat`). `State` says this of what has been heard, of
  the ring after it, and that neither holds a frame yet to be sent.

`ControlClientProofs` proves `TypeOK`, `AtMostOncePerRun`, `FailureMeansOutage`
and `OwnAnswerUnlessCancelled` in layers. `MutexInv`: nobody waits twice, and only
the head of the queue is inside. `UseInv`: a connection in use is open at the
client's end, and one whose daemon died has nothing left to serve. On these,
`OnceInv` says that a command's line exists at most once among all connections,
not at all once it was carried out in this run, and not yet if the call may
still write it. The last part is the point: a call may write its line again
only when the first connection is dead, and then no daemon of this run has seen
it. `OutageInv` says that whoever is inside while the daemon is down, or waits
on a second connection that is broken, has seen the daemon down; the first
connection may be stale without that, and costs the retry only. `TornInv` says
that, while nobody has given up, half an answer is only found on a connection
whose daemon has died, and the call that waits for it has seen that.

`AnswersAreOwn` proves `OwnAnswerUnlessCancelled` by `AnswerInv`: while nobody
has given up, the connection in use carries the request of the call that waits
on it, or its answer, and nothing at all if nobody waits (`Carries`, `Quiet`).
The order of lines is all that matches answers to requests, so one call that
leaves something behind is enough to break it: see *a cancelled call* above.

`DeviceSettingsProofs` proves the types, `CurrentScanSettles` (the next current
report makes the registry agree with the hardware, and only a change or a command
spoils it: the safety half of `RecordsConverge`), and `ViewFollowsEvents`: with any
number of concurrent commands only an event that a later command has overtaken
leaves a subscriber with old microphone settings. Of `EffectsChain` it proves that after commands of
any number a restart, or two, brings the chain back (`ChainsRestored`). The chains
that commands can make are those with the properties of `Tuned`, which every
command keeps, and for these one restart is computed by cases over presets.

`EventStreamProofs` proves the types from three parts. `OwnInv`: a monitor shares
its connection with no other. `LinkInv`: while the handler of such a connection
runs, its request is still to be read or its subscription runs, and the one
response is in one queue, or still to be sent, or read; so what a program is
handed is never a response. On these rests `NoChangeLost`, which proves
`NothingLost` for any number of concurrent commands. `FlowInv` speaks of the
concatenation of the queues between the daemon and the program: socket, writer's
queue, subscription. Of a field that is `Announced` (no event of it is still to be sent, and the last
one sent was of the last change) every line in them is followed by one with the
value the state has, or there is none, in which case a `Resync` or what the program
knows has to stand for it. `Forward` and `Write` leave the concatenation as it is
(`LinesForwarded`, `LinesWritten`), a response and level frames say nothing in it
(`Neutral`), `Emit` appends to it unless the subscription lags, and `Resync` is
what makes it complete: a connection that starts empty is as good as one that
carried everything, once a Resync stands before it.

Theorems about recursive functions (delay lines over many periods, effects
commands in sequence, payloads and reads of a stream, rules of a file) are proved by
induction over the set of lengths for which they hold (`SetInduction`, from the
well-foundedness of the natural numbers), after a proof that the function exists; the
matcher is treated so by what it has `Left`.

Only model-checked, and why: the liveness properties, since fairness and ENABLED
are out of the prover's reach, and `SettingsSurvive` and `ImplementsDurable`, as
said above. Every other invariant and action property of the passing runs is stated
by a theorem, none of which assumes more than the named assumptions on the
constants.

## Not modelled

- *Bluetooth coordination* (`src/bluetooth/`): no command and no task reaches it.
  The constructor of the demo backend builds one, notes one fixed headset, and
  drops it.
- *Access control* (`src/ipc/permissions.rs`): one comparison of credentials at
  accept, without state.
- *Signal processing*: filters of `src/effects` and `src/microphone`, mixing and
  volume of samples. Floating-point arithmetic, which TLC cannot evaluate.
- *Backends*: PCM devices and the capture meter are nondeterministic results;
  of ALSA only mixer controls and scans are modelled.
- *Configuration, errors, the command line tool*: parsing, formatting, argument
  handling. Queries (`Get...`, `List...`) and the reloads of rules and policy are
  not actions; the rules are a parameter.
- *Power failure*: a crash is one of the process. What a file system loses on a
  power failure (the temporary file is not synced before it is renamed) is
  outside the model.

## Plan

1. *Composition*: streams of the data plane on the sinks through the manager's
   hub, to relate a vanished client to the closing of its sink.
2. *Reloads*: rules and policy swapped under running handlers.
