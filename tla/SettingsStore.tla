---------------------------- MODULE SettingsStore ----------------------------
(* Persistence of the settings: the snapshots `manager/state.rs` requests   *)
(* to be saved, the debounced writer of `persistence/database.rs`, the file *)
(* itself, and the boot sequence of `daemon/event_loop.rs` that restores    *)
(* it, across stops and crashes of the daemon.                              *)
(*                                                                          *)
(* The value of a setting is the number of the change that set it, 0 for a  *)
(* default, or for what a device's hardware starts with.  `Shared` stands   *)
(* for the settings that are no device's: groups, microphone, profile,      *)
(* defaults, routing memory.                                                *)
(*                                                                          *)
(* Abstracted: the validation of single values on restore (a default that   *)
(* is gone, a volume over the maximum, a profile the device cannot play);   *)
(* a power failure that loses what the kernel has not written: a crash here *)
(* is one of the process.                                                   *)
EXTENDS Naturals, Sequences

CONSTANTS
  Device, Shared,
  Task,       \* concurrently running commands
  MaxChange,  \* bound: changes of a setting, ever
  Capacity,   \* of the writer's channel (16)
  MayFail,    \* TRUE: the disk may refuse a write
  BootRule,   \* TRUE: a rule for an added device changes something at boot
  Hotplug,    \* TRUE: devices come and go
  None

Key == {Shared} \cup Device
Version == 0 .. MaxChange

ASSUME SharedAssumption == Shared \notin Device
ASSUME BoundAssumption == MaxChange \in Nat /\ Capacity \in Nat \ {0}
ASSUME FlagAssumption == {MayFail, BootRule, Hotplug} \subseteq BOOLEAN

(* Settings of the shared part and of the connected devices.                *)
Settings == UNION {[{Shared} \cup S -> Version] : S \in SUBSET Device}
Torn == [k \in {} |-> 0]   \* a file written in part

ASSUME NoneAssumption == None \notin Settings \cup {Torn}

VARIABLES
  phase,    \* the daemon: "down", "loaded", "scanned", "boot_save", "up"
  mem,      \* manager: the settings in use
  loaded,   \* what boot has read from the file
  task,     \* commands on their way from the change to the channel
  chan,     \* the writer's channel
  writer,   \* the writer: state and the settings it is about to write
  disk,     \* state.json and state.json.tmp
  changes,  \* changes so far
  newest    \* the newest value of each setting the file has ever held

vars == <<phase, mem, loaded, task, chan, writer, disk, changes, newest>>

Default(S) == [k \in {Shared} \cup S |-> 0]
TaskIdle == [pc |-> "idle", copy |-> None]
WriterIdle == [pc |-> "recv", latest |-> None]

TypeOK ==
  /\ phase \in {"down", "loaded", "scanned", "boot_save", "up"}
  /\ mem \in Settings
  /\ loaded \in Settings \cup {None}
  /\ task \in [Task -> [pc : {"idle", "snapshot", "send"}, copy : Settings \cup {None}]]
  /\ chan \in Seq(Settings) /\ Len(chan) <= Capacity
  /\ writer \in [pc : {"recv", "debounce", "write", "writing", "rename"},
                 latest : Settings \cup {None}]
  /\ disk \in [file : Settings \cup {Torn, None}, tmp : Settings \cup {Torn, None}]
  /\ changes \in Version
  /\ newest \in [Key -> Version]

Init ==
  /\ phase = "down"
  /\ mem = Default({})
  /\ loaded = None
  /\ task = [t \in Task |-> TaskIdle]
  /\ chan = <<>>
  /\ writer = WriterIdle
  /\ disk = [file |-> None, tmp |-> None]
  /\ changes = 0
  /\ newest = [k \in Key |-> 0]

-----------------------------------------------------------------------------
(* Commands: the change under the state lock, the snapshot under the lock   *)
(* again, then try_send() outside it.                                       *)

(* request_save(): a full channel drops the snapshot that is being sent.    *)
Queued(copy) == Append(chan, copy)                          \* mutant
Offered(copy) == IF Len(chan) < Capacity THEN Append(chan, copy) ELSE chan

Change(t, k) ==
  /\ phase = "up" /\ task[t].pc = "idle"
  /\ changes < MaxChange
  /\ k \in DOMAIN mem
  /\ changes' = changes + 1
  /\ mem' = [mem EXCEPT ![k] = changes + 1]
  /\ task' = [task EXCEPT ![t].pc = "snapshot"]
  /\ UNCHANGED <<phase, loaded, chan, writer, disk, newest>>

Snapshot(t) ==
  /\ task[t].pc = "snapshot"
  /\ task' = [task EXCEPT ![t] = [pc |-> "send", copy |-> mem]]
  /\ UNCHANGED <<phase, mem, loaded, chan, writer, disk, changes, newest>>

Send(t) ==
  /\ task[t].pc = "send"
  /\ chan' = Offered(task[t].copy)
  /\ task' = [task EXCEPT ![t] = TaskIdle]
  /\ UNCHANGED <<phase, mem, loaded, writer, disk, changes, newest>>

(* refresh() forgets a device that is gone and takes one that comes as the  *)
(* hardware is; it saves nothing.                                           *)
Plug(d) ==
  /\ Hotplug /\ phase = "up"
  /\ mem' = IF d \in DOMAIN mem
            THEN [k \in DOMAIN mem \ {d} |-> mem[k]]
            ELSE [k \in DOMAIN mem \cup {d} |-> IF k = d THEN 0 ELSE mem[k]]
  /\ UNCHANGED <<phase, loaded, task, chan, writer, disk, changes, newest>>

-----------------------------------------------------------------------------
(* The writer                                                               *)

Receive ==
  /\ writer.pc = "recv" /\ chan # <<>>
  /\ writer' = [pc |-> "debounce", latest |-> Head(chan)]
  /\ chan' = Tail(chan)
  /\ UNCHANGED <<phase, mem, loaded, task, disk, changes, newest>>

(* Every update replaces what will be written and extends the window.       *)
Oldest(held, update) == held                                 \* mutant
Latest(held, update) == update

Extend ==
  /\ writer.pc = "debounce" /\ chan # <<>>
  /\ writer' = [writer EXCEPT !.latest = Latest(@, Head(chan))]
  /\ chan' = Tail(chan)
  /\ UNCHANGED <<phase, mem, loaded, task, disk, changes, newest>>

TimeoutOnUpdate ==                                           \* mutant
  /\ writer.pc = "debounce" /\ chan # <<>>
  /\ writer' = [writer EXCEPT !.pc = "write"]
  /\ UNCHANGED <<phase, mem, loaded, task, chan, disk, changes, newest>>

Timeout ==
  /\ writer.pc = "debounce"
  /\ writer' = [writer EXCEPT !.pc = "write"]
  /\ UNCHANGED <<phase, mem, loaded, task, chan, disk, changes, newest>>

(* write_atomic(): all of the data goes to path.tmp first.                  *)
Direct == "file"                                             \* mutant
Scratch == "tmp"

Create ==
  /\ writer.pc = "write"
  /\ writer' = [writer EXCEPT !.pc = "writing"]
  /\ disk' = [disk EXCEPT ![Scratch] = Torn]
  /\ UNCHANGED <<phase, mem, loaded, task, chan, changes, newest>>

Complete ==
  /\ writer.pc = "writing"
  /\ writer' = [writer EXCEPT !.pc = "rename"]
  /\ disk' = [disk EXCEPT ![Scratch] = writer.latest]
  /\ UNCHANGED <<phase, mem, loaded, task, chan, changes, newest>>

Newer(k) ==
  IF k \in DOMAIN writer.latest /\ writer.latest[k] > newest[k]
  THEN writer.latest[k] ELSE newest[k]

Rename ==
  /\ writer.pc = "rename"
  /\ writer' = WriterIdle
  /\ disk' = [file |-> disk.tmp, tmp |-> None]
  /\ newest' = [k \in Key |-> Newer(k)]
  /\ UNCHANGED <<phase, mem, loaded, task, chan, changes>>

(* An error is logged; nothing is tried again.                              *)
WriteFails ==
  /\ MayFail
  /\ writer.pc \in {"write", "writing", "rename"}
  /\ writer' = WriterIdle
  /\ UNCHANGED <<phase, mem, loaded, task, chan, disk, changes, newest>>

-----------------------------------------------------------------------------
(* Stop, crash and boot                                                     *)

(* The writer is a task of the daemon: what is queued or held goes with it. *)
Crash ==
  /\ phase # "down"
  /\ phase' = "down"
  /\ mem' = Default({})
  /\ loaded' = None
  /\ task' = [t \in Task |-> TaskIdle]
  /\ chan' = <<>>
  /\ writer' = WriterIdle
  /\ UNCHANGED <<disk, changes, newest>>

Scratched == disk.tmp                                        \* mutant
Stored == disk.file
(* SettingsStore::load(): a missing or corrupt file counts as defaults.     *)
Readable(contents) == contents \notin {None, Torn}
Load == IF Readable(Stored) THEN Stored ELSE Default({})

Start ==
  /\ phase = "down"
  /\ phase' = "loaded"
  /\ loaded' = Load
  /\ UNCHANGED <<mem, task, chan, writer, disk, changes, newest>>

(* The initial refresh(): every device is new, so its rules run, and save   *)
(* settings nobody has restored yet if they change something.               *)
BootScan ==
  /\ phase = "loaded"
  /\ \E S \in (IF Hotplug THEN SUBSET Device ELSE {Device}) : mem' = Default(S)
  /\ phase' \in IF BootRule THEN {"scanned", "boot_save"} ELSE {"scanned"}
  /\ UNCHANGED <<loaded, task, chan, writer, disk, changes, newest>>

BootSave ==
  /\ phase = "boot_save"
  /\ chan' = Offered(mem)
  /\ phase' = "scanned"
  /\ UNCHANGED <<mem, loaded, task, writer, disk, changes, newest>>

(* restore(): the shared settings and those of the devices that are there.  *)
SharedOnly(k) == k = Shared                                  \* mutant
Restorable(k) == k \in DOMAIN loaded

Restore ==
  /\ phase = "scanned"
  /\ phase' = "up"
  /\ mem' = [k \in DOMAIN mem |-> IF Restorable(k) THEN loaded[k] ELSE mem[k]]
  /\ UNCHANGED <<loaded, task, chan, writer, disk, changes, newest>>

-----------------------------------------------------------------------------
Saving(t) == Snapshot(t) \/ Send(t)
Writing == Receive \/ Extend \/ Timeout \/ Create \/ Complete \/ Rename \/ WriteFails
Booting == Start \/ BootScan \/ BootSave \/ Restore

Next ==
  \/ \E t \in Task : Saving(t) \/ \E k \in Key : Change(t, k)
  \/ \E d \in Device : Plug(d)
  \/ Writing
  \/ Crash \/ Booting

Spec == Init /\ [][Next]_vars

(* The runtime polls the commands and the writer, and the 400 ms pass.      *)
FairSpec == Spec /\ WF_vars(Writing) /\ \A t \in Task : WF_vars(Saving(t))

-----------------------------------------------------------------------------
(* Properties                                                               *)

Held(k) == IF disk.file # None /\ k \in DOMAIN disk.file THEN disk.file[k] ELSE 0

(* "Crashes never leave a torn file" (database.rs): whatever the moment the *)
(* daemon dies at, the next one can read state.json.                        *)
NeverTorn == disk.file # Torn

(* A setting the file has held is never lost by restarts: "defaults,        *)
(* per-device volume/mute/effects, mic settings, and routing memory survive *)
(* a restart", "group definitions persist across restarts".                 *)
SettingsSurvive == [][Restore => \A k \in DOMAIN mem' : mem'[k] >= newest[k]]_vars

(* What the file will hold once the writer is at rest: the snapshot at the  *)
(* end of the channel, or the one the writer holds, or what the file holds. *)
Value(copy, k) == IF copy # None /\ k \in DOMAIN copy THEN copy[k] ELSE 0
Upcoming ==
  IF chan # <<>> THEN chan[Len(chan)]
  ELSE IF writer.pc # "recv" THEN writer.latest ELSE disk.file

(* A setting in use is saved, or will be by what is on its way; otherwise   *)
(* the file is behind, and stays so until another command saves.            *)
OnItsWay(k) ==
  \/ Value(Upcoming, k) = mem[k]
  \/ \E t \in Task : task[t].pc = "snapshot"
  \/ \E t \in Task : task[t].pc = "send" /\ Value(task[t].copy, k) = mem[k]
Behind(k) == phase = "up" /\ k \in DOMAIN mem /\ ~OnItsWay(k)

(* The ways in which a setting does not reach the file: a full channel      *)
(* drops the snapshot, one taken before the setting was changed is sent     *)
(* after a later one, the disk refuses the last write, the device has just  *)
(* come and its saved settings are not applied, or the boot scan has saved  *)
(* what restore() is about to replace.                                      *)
Sent(t) == task[t].pc = "send" /\ task'[t].pc = "idle"
Dropped(t) == Sent(t) /\ Len(chan) = Capacity
Overtaken(t, k) == Sent(t) /\ Value(task[t].copy, k) # mem[k]
Refused ==
  writer.pc \in {"write", "writing", "rename"} /\ writer'.pc = "recv" /\ disk'.file # writer.latest
Arrived(k) == k \notin DOMAIN mem
SavedAtBoot == phase = "scanned" /\ (chan # <<>> \/ writer.pc # "recv" \/ Load # loaded)

(* "Non-blocking: latest settings win; written after the debounce window"   *)
(* (database.rs): whatever commands run at the same time, there is no other *)
(* way for the settings in use to miss the file.                            *)
OnlyLossesLeaveBehind ==
  [][\A k \in Key : Behind(k)' =>
       \/ Behind(k)
       \/ \E t \in Task : Dropped(t) \/ Overtaken(t, k)
       \/ Refused \/ Arrived(k) \/ SavedAtBoot]_vars

(* Once nobody changes a setting and the daemon does not stop, the file     *)
(* ends up with every setting in use that is not behind.                    *)
Quiet == <>[][FALSE]_<<changes, phase, DOMAIN mem>>
LatestSaved ==
  Quiet => <>[](phase = "up" => \A k \in DOMAIN mem : Held(k) = mem[k] \/ Behind(k))

(* The store is a durable copy that only ever catches up (DurableSettings): *)
(* while the daemon is not up, the settings in use are those of the file.   *)
Durable == INSTANCE DurableSettings
  WITH settings <- [k \in Key |-> IF phase = "up" /\ k \in DOMAIN mem THEN mem[k] ELSE Held(k)],
       durable <- [k \in Key |-> Held(k)]
ImplementsDurable == Durable!Spec
=============================================================================
