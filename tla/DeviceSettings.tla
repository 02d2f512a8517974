---------------------------- MODULE DeviceSettings ----------------------------
(***************************************************************************)
(* What the registry says of a device's volume, mute and profile, and what *)
(* the hardware does: the volume, mute, profile and microphone handlers of *)
(* `manager/state.rs`, the scans that correct the registry                 *)
(* (`daemon/event_loop.rs`, `daemon/hotplug.rs`), and the mixer controls   *)
(* behind them (`backend/alsa.rs`).                                        *)
(*                                                                         *)
(* A handler reads the registry under the state lock, writes the hardware  *)
(* without it, and takes it again to write the registry.  A scan is taken  *)
(* without the lock and applied under it later.  Other programs turn the   *)
(* same mixer controls, and devices come and go.                           *)
(*                                                                         *)
(* Abstracted: the devices of a card share its control, whose range is the *)
(* integers 0 .. Steps; every field of the microphone settings is 0 or 1.  *)
(* Defaults other than "the default output" are those of `AudioManager`,   *)
(* saving is `SettingsStore`'s.  The effects of a device, which no scan    *)
(* touches, are `EffectsChain`'s.                                          *)
(***************************************************************************)
EXTENDS EffectsChain, Integers, FiniteSets

CONSTANTS
  Device, Card,
  CardOf,      \* CardOf[d]: the card whose control a device uses
  Controlled,  \* cards that have a control of the volume
  Switched,    \* cards whose control has a mute switch
  Steps,       \* range of a control
  Volume,      \* percentages a user may ask for
  Profile,     \* profiles every device lists; new devices have "stereo"
  MicField,    \* fields of the microphone settings
  Task,        \* commands that run concurrently
  MaxChange,   \* bound: commands, external changes and plugs
  None

Percentage == 0 .. 100
Settings == [volume : Percentage, muted : BOOLEAN, profile : Profile]
Scanner == {"poll", "udev", "rescan"}
Report == [Device -> Settings \cup {None}]

ASSUME CardAssumption == CardOf \in [Device -> Card] /\ {Controlled, Switched} \subseteq SUBSET Card
ASSUME VolumeAssumption == Volume \subseteq Percentage /\ Steps \in Nat \ {0} /\ MaxChange \in Nat
ASSUME ProfileAssumption == "stereo" \in Profile
ASSUME NoneAssumption == None \notin Device \cup Settings

VARIABLES
  plugged,   \* devices that are there
  hw,        \* raw volume and mute of every card's control
  rec,       \* registry: settings of every known device
  default,   \* the default output
  profile,   \* the active profile of the system
  scan,      \* what every scanner is doing, with the report it will apply
  uevent,    \* a uevent waits for the debouncer
  mic,       \* microphone settings
  micView,   \* what a subscriber knows of them from MicrophoneChanged
  task,      \* what a command still has to do
  boot,
  changes

vars == <<plugged, hw, rec, default, profile, scan, uevent, mic, micView, task, boot, changes>>

Microphone == [MicField -> {0, 1}]
Idle == [todo |-> "nothing"]
Work ==
  {Idle}
  \cup [todo : {"push-volume", "record-volume"}, dev : Device, volume : Volume]
  \cup [todo : {"push-mute", "record-mute"}, dev : Device, muted : BOOLEAN]
  \cup [todo : {"emit"}, view : Microphone]
Quiet == [pc |-> "idle"]
Scan == [pc : {"idle", "burst", "due"}] \cup [pc : {"scanned"}, report : Report]

TypeOK ==
  /\ plugged \subseteq Device
  /\ hw \in [Card -> [raw : 0 .. Steps, muted : BOOLEAN]]
  /\ rec \in Report
  /\ default \in Device \cup {None}
  /\ profile \in Profile
  /\ scan \in [Scanner -> Scan]
  /\ uevent \in BOOLEAN
  /\ mic \in Microphone
  /\ micView \in Microphone
  /\ task \in [Task -> Work]
  /\ boot \in {"scan", "restore", "up"}
  /\ changes \in 0 .. MaxChange

-----------------------------------------------------------------------------
(* Hardware                                                                 *)

PercentToRaw(percent) == (Steps * percent) \div 100
RawToPercent(raw) == (raw * 100) \div Steps

NewDevice == [volume |-> 50, muted |-> FALSE, profile |-> "stereo"]

(* What scan() says of a device: the control of its card, or what           *)
(* Device::new() gives a device without one.                                *)
Reported(d) ==
  LET control == hw[CardOf[d]]
  IN IF CardOf[d] \in Controlled
     THEN [NewDevice EXCEPT !.volume = RawToPercent(control.raw), !.muted = control.muted]
     ELSE NewDevice
ScanReport == [d \in Device |-> IF d \in plugged THEN Reported(d) ELSE None]

(* set_volume(), set_mute(): nothing happens without the device, or if its  *)
(* card's control cannot do it.                                             *)
Writable(d, controls) == d \in plugged /\ CardOf[d] \in controls

Init ==
  /\ plugged \in SUBSET Device
  /\ hw \in [Card -> [raw : {0, Steps}, muted : {FALSE}]]
  /\ rec = [d \in Device |-> None]
  /\ default = None
  /\ profile = "stereo"
  /\ scan = [r \in Scanner |-> Quiet]
  /\ uevent = FALSE
  /\ mic = [f \in MicField |-> 0]
  /\ micView = mic
  /\ task = [t \in Task |-> Idle]
  /\ boot = "scan"
  /\ changes = 0

Count == changes < MaxChange /\ changes' = changes + 1

(* Devices come and go, and another program turns a control.                *)
Plug(d) ==
  /\ Count
  /\ plugged' = IF d \in plugged THEN plugged \ {d} ELSE plugged \cup {d}
  /\ uevent' = TRUE
  /\ UNCHANGED <<hw, rec, default, profile, scan, mic, micView, task, boot>>

Turn(c) ==
  /\ Count
  /\ \E raw \in 0 .. Steps, muted \in IF c \in Switched THEN BOOLEAN ELSE {FALSE} :
       hw' = [hw EXCEPT ![c] = [raw |-> raw, muted |-> muted]]
  /\ UNCHANGED <<plugged, rec, default, profile, scan, uevent, mic, micView, task, boot>>

-----------------------------------------------------------------------------
(* Scans                                                                    *)

(* hardware_equal() compares what the hardware says, the active profile     *)
(* included, which the manager sets.                                        *)
EqualButVolume(a, b) == a.muted = b.muted /\ a.profile = b.profile    \* mutant
HardwareEqual(a, b) == a.volume = b.volume /\ a.muted = b.muted /\ a.profile = b.profile

Merged(report) ==
  [d \in Device |->
     IF report[d] # None /\ rec[d] # None /\ HardwareEqual(rec[d], report[d])
     THEN rec[d] ELSE report[d]]

ApplyReport(report) ==
  /\ rec' = Merged(report)
  /\ IF default # None /\ report[default] # None
     THEN UNCHANGED default
     ELSE LET candidates == {d \in Device : report[d] # None}
          IN default' = IF candidates = {} THEN None ELSE CHOOSE d \in candidates : TRUE

(* The boot scan, and restore(): settings of devices that are there, pushed *)
(* to the hardware where they differ, and the profile.  Nothing else of the *)
(* daemon runs yet; the restored microphone settings are those of Init.     *)
BootScan ==
  /\ boot = "scan"
  /\ boot' = "restore"
  /\ ApplyReport(ScanReport)
  /\ UNCHANGED <<plugged, hw, profile, scan, uevent, mic, micView, task, changes>>

Saved == [Device -> [volume : Volume, muted : BOOLEAN] \cup {None}]
Told(p) == IF default # None /\ rec[default] # None
           THEN [rec EXCEPT ![default].profile = p] ELSE rec
RestoredDevice(settings, saved) ==
  IF settings = None \/ saved = None THEN settings
  ELSE [settings EXCEPT !.volume = saved.volume, !.muted = saved.muted]

(* The devices whose saved volume or mute differs are told one after the    *)
(* other; the last one of a card decides.                                   *)
Restored(d, saved) == rec[d] # None /\ saved[d] # None
Restore(saved, p) ==
  LET loud(c) == {d \in Device : /\ CardOf[d] = c /\ Writable(d, Controlled)
                                 /\ Restored(d, saved) /\ rec[d].volume # saved[d].volume}
      mute(c) == {d \in Device : /\ CardOf[d] = c /\ Writable(d, Switched)
                                 /\ Restored(d, saved) /\ rec[d].muted # saved[d].muted}
  IN /\ boot = "restore"
     /\ boot' = "up"
     /\ profile' = p
     /\ LET known == IF p = profile THEN rec ELSE Told(p)
        IN rec' = [d \in Device |-> RestoredDevice(known[d], saved[d])]
     /\ \E v, m \in [Card -> Device] :
          /\ \A c \in Card : loud(c) # {} => v[c] \in loud(c)
          /\ \A c \in Card : mute(c) # {} => m[c] \in mute(c)
          /\ hw' = [c \in Card |->
                      [ raw |-> IF loud(c) = {} THEN hw[c].raw
                                ELSE PercentToRaw(saved[v[c]].volume),
                        muted |-> IF mute(c) = {} THEN hw[c].muted ELSE saved[m[c]].muted ]]
     /\ UNCHANGED <<plugged, default, scan, uevent, mic, micView, task, changes>>

(* The udev task waits for a uevent, drops those that follow within the     *)
(* burst window, and scans once.                                            *)
Burst ==
  /\ boot = "up" /\ scan["udev"] = Quiet /\ uevent
  /\ uevent' = FALSE
  /\ scan' = [scan EXCEPT !["udev"] = [pc |-> "burst"]]
  /\ UNCHANGED <<plugged, hw, rec, default, profile, mic, micView, task, boot, changes>>

EndBurst ==
  /\ scan["udev"].pc = "burst"
  /\ uevent' = FALSE
  /\ scan' = [scan EXCEPT !["udev"] = [pc |-> "due"]]
  /\ UNCHANGED <<plugged, hw, rec, default, profile, mic, micView, task, boot, changes>>

StartScan(r) ==
  /\ boot = "up"
  /\ scan[r].pc = IF r = "udev" THEN "due" ELSE "idle"
  /\ IF r = "rescan" THEN Count ELSE UNCHANGED changes
  /\ scan' = [scan EXCEPT ![r] = [pc |-> "scanned", report |-> ScanReport]]
  /\ UNCHANGED <<plugged, hw, rec, default, profile, uevent, mic, micView, task, boot>>

ApplyScan(r) ==
  /\ scan[r].pc = "scanned"
  /\ ApplyReport(scan[r].report)
  /\ scan' = [scan EXCEPT ![r] = Quiet]
  /\ UNCHANGED <<plugged, hw, profile, uevent, mic, micView, task, boot, changes>>

-----------------------------------------------------------------------------
(* Commands                                                                 *)

Free(t) == boot = "up" /\ task[t] = Idle
Go(t, work) == task' = [task EXCEPT ![t] = work]

(* SetVolume names a device or means the default output.                    *)
SetVolume(t, d, volume) ==
  /\ Free(t) /\ Count
  /\ rec[d] # None
  /\ Go(t, [todo |-> "push-volume", dev |-> d, volume |-> volume])
  /\ UNCHANGED <<plugged, hw, rec, default, profile, scan, uevent, mic, micView, boot>>

(* set_master_muted(): the default output is chosen in the first section.   *)
SetMasterMuted(t, muted) ==
  /\ Free(t) /\ Count
  /\ default # None /\ rec[default] # None
  /\ Go(t, [todo |-> "push-mute", dev |-> default, muted |-> muted])
  /\ UNCHANGED <<plugged, hw, rec, default, profile, scan, uevent, mic, micView, boot>>

(* push_volume(), push_mute(): a write that is refused is only reported.    *)
Push(t) ==
  LET w == task[t]
      c == CardOf[w.dev]
  IN /\ \/ /\ w.todo = "push-volume"
           /\ Go(t, [w EXCEPT !.todo = "record-volume"])
           /\ hw' = IF Writable(w.dev, Controlled) THEN [hw EXCEPT ![c].raw = PercentToRaw(w.volume)] ELSE hw
        \/ /\ w.todo = "push-mute"
           /\ Go(t, [w EXCEPT !.todo = "record-mute"])
           /\ hw' = IF Writable(w.dev, Switched) THEN [hw EXCEPT ![c].muted = w.muted] ELSE hw
     /\ UNCHANGED <<plugged, rec, default, profile, scan, uevent, mic, micView, boot, changes>>

Record(t) ==
  LET w == task[t]
  IN /\ \/ /\ w.todo = "record-volume"
           /\ rec' = IF rec[w.dev] = None THEN rec ELSE [rec EXCEPT ![w.dev].volume = w.volume]
        \/ /\ w.todo = "record-mute"
           /\ rec' = IF rec[w.dev] = None THEN rec ELSE [rec EXCEPT ![w.dev].muted = w.muted]
     /\ Go(t, Idle)
     /\ UNCHANGED <<plugged, hw, default, profile, scan, uevent, mic, micView, boot, changes>>

(* apply_profile(): one critical section; the default output is told.       *)
SetProfile(t, p) ==
  /\ Free(t) /\ Count
  /\ profile' = p
  /\ rec' = Told(p)
  /\ UNCHANGED <<plugged, hw, default, scan, uevent, mic, micView, task, boot>>

(* The microphone commands change their field and copy all of them for the  *)
(* event under the lock; the event is sent after it.                        *)
BeforeTheChange(f, value) == mic                             \* mutant
MicWith(f, value) == [mic EXCEPT ![f] = value]

SetMicrophone(t, f, value) ==
  /\ Free(t) /\ Count
  /\ mic' = [mic EXCEPT ![f] = value]
  /\ Go(t, [todo |-> "emit", view |-> MicWith(f, value)])
  /\ UNCHANGED <<plugged, hw, rec, default, profile, scan, uevent, micView, boot>>

Emit(t) ==
  /\ task[t].todo = "emit"
  /\ micView' = task[t].view
  /\ Go(t, Idle)
  /\ UNCHANGED <<plugged, hw, rec, default, profile, scan, uevent, mic, boot, changes>>

-----------------------------------------------------------------------------
Proceed(t) == Push(t) \/ Record(t) \/ Emit(t)

Command(t) ==
  \/ \E d \in Device, volume \in Volume : SetVolume(t, d, volume)
  \/ \E muted \in BOOLEAN : SetMasterMuted(t, muted)
  \/ \E p \in Profile : SetProfile(t, p)
  \/ \E f \in MicField, value \in {0, 1} : SetMicrophone(t, f, value)

Scans == Burst \/ EndBurst \/ \E r \in Scanner : StartScan(r) \/ ApplyScan(r)

Next ==
  \/ BootScan
  \/ \E saved \in Saved : \E p \in Profile : Restore(saved, p)
  \/ Scans
  \/ \E t \in Task : Command(t) \/ Proceed(t)
  \/ \E d \in Device : Plug(d)
  \/ \E c \in Controlled : Turn(c)

Spec == Init /\ [][Next]_vars

(* The daemon boots, ready tasks are polled, and the poll scans every three *)
(* seconds.                                                                 *)
Fairness ==
  /\ WF_vars(BootScan)
  /\ WF_vars(\E saved \in Saved : \E p \in Profile : Restore(saved, p))
  /\ WF_vars(StartScan("poll"))
  /\ \A r \in Scanner : WF_vars(ApplyScan(r))
  /\ WF_vars(Burst) /\ WF_vars(EndBurst) /\ WF_vars(StartScan("udev"))
  /\ \A t \in Task : WF_vars(Proceed(t))
FairSpec == Spec /\ Fairness

-----------------------------------------------------------------------------
(* Properties                                                               *)

(* "`scan` is the source of truth": once nobody changes anything the        *)
(* registry holds the devices that are there with the settings the hardware *)
(* has, whatever reports were applied late and however commands and scans   *)
(* overtook each other.                                                     *)
RecordsConverge == <>[](rec = ScanReport)

(* A client that listens for MicrophoneChanged "never has a stale view of   *)
(* the rest" of the microphone settings: whatever commands run, it has the  *)
(* daemon's settings or an event that will bring them is still to be sent,  *)
(* and only an event that a later command's has overtaken ends that.        *)
Brings(t) == task[t].todo = "emit" /\ task[t].view = mic
StaleView == micView # mic /\ \A t \in Task : ~Brings(t)
OvertakenEvent == \E t \in Task : Emit(t) /\ task[t].view # mic
OnlyOvertakenEventsMislead == [][StaleView' => StaleView \/ OvertakenEvent]_vars

(* "`hw_applied` is `false` when the device has no hardware volume control  *)
(* (state is still tracked)": the volume of such a device in the registry   *)
(* changes only by a command or by the restore at boot.                     *)
SoftVolumeTracked ==
  [][\A d \in {e \in Device : CardOf[e] \notin Controlled /\ rec[e] # None} :
       rec'[d] # None /\ rec'[d].volume # rec[d].volume =>
         \/ boot = "restore"
         \/ \E t \in Task : task[t].todo = "record-volume" /\ task[t].dev = d]_vars

(* As long as nobody changes anything, no command is half done and every    *)
(* report under way is what the hardware says now, the next report that is  *)
(* applied corrects the registry, and nothing spoils it again.              *)
HalfDone(t) == task[t].todo \in {"push-volume", "push-mute", "record-volume", "record-mute"}
ReportsCurrent == \A r \in Scanner : scan[r].pc = "scanned" => scan[r].report = ScanReport
CurrentScanSettles ==
  [][boot = "up" /\ changes' = changes /\ ReportsCurrent /\ (\A t \in Task : ~HalfDone(t))
     /\ (rec = ScanReport \/ \E r \in Scanner : ApplyScan(r))
       => (rec = ScanReport /\ ReportsCurrent)']_vars

(* A restart changes no setting of an effects chain and nothing that is     *)
(* heard, but the compressor under edited bands, after whatever commands.   *)
(* No state changes that, so it is looked at in the initial states.         *)
EffectsRestored == Init => EveryChainRestored
=============================================================================
