---------------------------- MODULE AudioManager ----------------------------
(***************************************************************************)
(* The registry at the centre of the daemon, `src/src/manager/state.rs`:   *)
(* devices, the two defaults, the stream records, the live streams of the  *)
(* engine's hub and the routing memory.                                    *)
(*                                                                         *)
(* The daemon runs on a multi-threaded runtime.  Every connection, the     *)
(* poll, the udev watcher and the boot sequence is a task, and a handler   *)
(* takes the state lock several times: what it does between two critical   *)
(* sections interleaves with every other task.  One action below is one    *)
(* critical section, or one write to the hub, which is done after the lock *)
(* has been released.  `task[t]` holds what the handler still has to do.   *)
(*                                                                         *)
(* Abstracted: what a device is beyond its direction (no volume or effect  *)
(* is touched by what follows), the contents of groups, which profile is   *)
(* active, which rules a file states (`Rules` is what evaluating it yields *)
(* for a trigger, one list for each profile that may be active:            *)
(* RoutingRules), and the events and saves that end a handler.             *)
(***************************************************************************)
EXTENDS RoutingRules, FiniteSets

CONSTANTS
  Device,     \* device ids a scan may report
  Scanned,    \* Scanned[d]: what a scan may say of d, a direction or "gone"
  OutRank,    \* order in which an output is preferred as the default
  InRank,     \* the same for inputs
  Task,       \* concurrently running handlers
  MaxId,      \* bound: stream and group numbers handed out in one run
  Rules,      \* Rules[trigger][target]: lists of actions the rules file yields
  Application,
  Permitted,  \* applications the microphone policy lets record
  None

Direction == {"input", "output", "both"}
Ids == 1 .. MaxId
Target == Device \cup Ids        \* a stream plays on a device or on a group
Trigger == {"device-added", "device-removed", "stream-added", "profile-changed"}

StreamRecord ==
  [device : Target, follows : BOOLEAN, kind : {"playback", "recording"}]

(* Work a handler queues: the actions of `ResolvedAction`, and the parts of *)
(* a handler that follow a critical section: the move proper, noting the    *)
(* previous default, running the rules of a new stream, leaving the hub.    *)
(* A field an action does not use is None, FALSE or 0.                      *)
RuleAction ==
  [ act : {"set-output", "set-input", "set-profile", "restore-output", "restore-input",
           "move-stream"},
    dev : Target \cup {None}, remember : BOOLEAN, stream : Ids \cup {0} ]
Action ==
  RuleAction
  \cup [act : {"move"}, dev : Target, remember : BOOLEAN, stream : Ids]
  \cup [act : {"note"}, dev : Device \cup {None}, remember : BOOLEAN, stream : {0}]
  \cup [act : {"added", "unhub"}, dev : Target \cup {None}, remember : BOOLEAN, stream : Ids]

ASSUME DeviceAssumption == Device \cap (Nat \cup {None}) = {}
ASSUME NoneAssumption == None \notin Nat \cup StreamRecord
ASSUME MaxIdAssumption == MaxId \in Nat
ASSUME ScannedAssumption == Scanned \in [Device -> SUBSET (Direction \cup {"gone"})]
ASSUME RulesAssumption == Rules \in [Trigger -> [Target \cup {None} -> SUBSET Seq(RuleAction)]]
ASSUME PermittedAssumption == Permitted \subseteq Application

(* `min_by_key` over a kind rank and the id is a strict total order, so     *)
(* every set of candidates has exactly one first element.                   *)
IsRank(rank) ==
  /\ rank \in [Device -> Nat]
  /\ \A S \in SUBSET Device \ {{}} : \E d \in S : \A e \in S \ {d} : rank[d] < rank[e]
ASSUME RankAssumption == IsRank(OutRank) /\ IsRank(InRank)

VARIABLES
  devices,      \* registry: direction of every known device, "gone" if absent
  active,       \* devices whose state is Active; the others are Available
  defaultOut, defaultIn,
  streams,      \* stream records
  live,         \* hub: the target the mixers use for a stream, None if absent
  groups,       \* numbers of the existing speaker groups
  nextId,       \* next_stream_id, shared by streams and groups
  previousOut,  \* RoutingMemory.previous_output
  previousIn,   \* RoutingMemory.previous_input
  boot,         \* progress of the boot sequence
  task          \* what every running handler still has to do

vars == <<devices, active, defaultOut, defaultIn, streams, live, groups,
          nextId, previousOut, previousIn, boot, task>>

Memory == [output : Device \cup {None}, input : Device \cup {None}]

TaskState ==
  [ gone : SUBSET Device,      \* refresh: removed devices not yet retargeted
    added : SUBSET Device,     \* refresh: added devices whose rules have not run
    removed : SUBSET Device,   \* refresh: removed devices whose rules have not run
    acts : Seq(Action),        \* the rest of apply_routing, or of the handler
    writes : SUBSET (Ids \X Target) ]  \* hub writes that follow a lock region

TypeOK ==
  /\ devices \in [Device -> Direction \cup {"gone"}]
  /\ active \subseteq Device
  /\ defaultOut \in Device \cup {None}
  /\ defaultIn \in Device \cup {None}
  /\ streams \in [Ids -> StreamRecord \cup {None}]
  /\ live \in [Ids -> Target \cup {None}]
  /\ groups \subseteq Ids
  /\ nextId \in 1 .. MaxId + 1
  /\ previousOut \in Device \cup {None}
  /\ previousIn \in Device \cup {None}
  /\ boot \in {"init", "scanned", "up"}
  /\ task \in [Task -> TaskState]

-----------------------------------------------------------------------------
(* Helpers                                                                  *)

CanPlay(reg, d) == d \in Device /\ reg[d] \in {"output", "both"}
CanRecord(reg, d) == d \in Device /\ reg[d] \in {"input", "both"}

First(S, rank) ==
  IF S = {} THEN None ELSE CHOOSE d \in S : \A e \in S \ {d} : rank[d] < rank[e]

PickOutput(reg) == First({d \in Device : CanPlay(reg, d)}, OutRank)
PickInput(reg) == First({d \in Device : CanRecord(reg, d)}, InRank)

Exists(s) == streams[s] # None
Follows(s) == Exists(s) /\ streams[s].follows

FollowersInHub(d) == {s \in Ids : live[s] # None /\ Follows(s) /\ streams[s].device # d}  \* mutants
EverybodyAwayFrom(d) == {s \in Ids : Exists(s) /\ streams[s].device # d}
FollowersAwayFrom(d) == {s \in Ids : Follows(s) /\ streams[s].device # d}

(* A default moves from one device to another: the old one becomes          *)
(* Available and the new one Active.                                        *)
ActivatedOnly(states, old, new) == states \cup {new}          \* mutant
Activated(states, old, new) == (states \ {old}) \cup {new}

(* next_stream_id.fetch_add(1)                                              *)
AfterNumber(n) == n + 1

(* The records after every stream of S has been pointed at d, and the hub   *)
(* writes that bring the live streams in line once the lock is released.    *)
Pointed(S, d) ==
  [s \in Ids |-> IF s \in S THEN [streams[s] EXCEPT !.device = d] ELSE streams[s]]
WritesLater(S, d) == {}                                      \* mutant
Writes(S, d) == S \X {d}

NoWork == [gone |-> {}, added |-> {}, removed |-> {}, acts |-> <<>>, writes |-> {}]
Idle(t) == task[t] = NoWork

(* A task's hub writes come first, then its queued actions, then what is    *)
(* left of the refresh it is in.                                            *)
Acting(t) == task[t].writes = {} /\ task[t].acts # <<>>
Running(t, act) == Acting(t) /\ Head(task[t].acts).act = act
Current(t) == Head(task[t].acts)
Refreshing(t) == task[t].writes = {} /\ task[t].acts = <<>>
Done(t) == task' = [task EXCEPT ![t].acts = Tail(@)]
Instead(t, a) == task' = [task EXCEPT ![t].acts[1] = a]

Act(act, dev, s) == [act |-> act, dev |-> dev, remember |-> FALSE, stream |-> s]
Start(t, a) == task' = [task EXCEPT ![t].acts = <<a>>]

Init ==
  /\ devices = [d \in Device |-> "gone"]
  /\ active = {}
  /\ defaultOut = None
  /\ defaultIn = None
  /\ streams = [s \in Ids |-> None]
  /\ live = [s \in Ids |-> None]
  /\ groups = {}
  /\ nextId = 1
  /\ previousOut = None
  /\ previousIn = None
  /\ boot = "init"
  /\ task = [t \in Task |-> NoWork]

-----------------------------------------------------------------------------
(* refresh(): the diff under the lock.  Scans run outside the lock and may  *)
(* be applied late, so any report the hardware can give may be applied at   *)
(* any time.                                                                *)

KeepAny(default, usable) == default                          \* mutant
Keep(default, usable) == IF usable THEN default ELSE None
OrNothing(x, y) == x                                         \* mutant
Or(x, y) == IF x # None THEN x ELSE y

Refresh(t, scan) ==
  LET gone == {d \in Device : devices[d] # "gone" /\ scan[d] = "gone"}
      added == {d \in Device : devices[d] = "gone" /\ scan[d] # "gone"}
      output == Or(Keep(defaultOut, CanPlay(scan, defaultOut)), PickOutput(scan))
      input == Or(Keep(defaultIn, CanRecord(scan, defaultIn)), PickInput(scan))
  IN /\ Idle(t)
     /\ boot \in {"init", "up"}
     /\ boot' = IF boot = "init" THEN "scanned" ELSE boot
     /\ devices' = scan
     /\ defaultOut' = output
     /\ defaultIn' = input
     /\ active' = {d \in Device : scan[d] # "gone" /\ d \in {output, input}}
     /\ task' = [task EXCEPT ![t].gone = gone, ![t].added = added, ![t].removed = gone]
     /\ UNCHANGED <<streams, live, groups, nextId, previousOut, previousIn>>

(* One removed device: its followers go to whatever is the default now.     *)
Retarget(t, d) ==
  LET moved == {s \in Ids : Follows(s) /\ streams[s].device = d}
  IN /\ Refreshing(t)
     /\ d \in task[t].gone
     /\ IF defaultOut \notin {None, d}
        THEN /\ streams' = Pointed(moved, defaultOut)
             /\ task' = [task EXCEPT ![t].gone = @ \ {d}, ![t].writes = Writes(moved, defaultOut)]
        ELSE /\ task' = [task EXCEPT ![t].gone = @ \ {d}]
             /\ UNCHANGED streams
     /\ UNCHANGED <<devices, active, defaultOut, defaultIn, live, groups, nextId, previousOut, previousIn, boot>>

(* Rules of the added devices run before those of the removed ones.         *)
RunDeviceRules(t, d) ==
  /\ Refreshing(t)
  /\ task[t].gone = {}
  /\ \/ /\ d \in task[t].added
        /\ \E acts \in Rules["device-added"][d] :
             task' = [task EXCEPT ![t].added = @ \ {d}, ![t].acts = acts]
     \/ /\ task[t].added = {}
        /\ d \in task[t].removed
        /\ \E acts \in Rules["device-removed"][d] :
             task' = [task EXCEPT ![t].removed = @ \ {d}, ![t].acts = acts]
  /\ UNCHANGED <<devices, active, defaultOut, defaultIn, streams, live, groups,
                 nextId, previousOut, previousIn, boot>>

(* restore(): once, when the boot scan and its rules are done.  A saved     *)
(* default is taken if its device is there and has the direction.           *)
Restore(savedOut, savedIn, savedGroups, saved) ==
  LET output == IF CanPlay(devices, savedOut) THEN savedOut ELSE defaultOut
      input == IF CanRecord(devices, savedIn) THEN savedIn ELSE defaultIn
      played == IF output = defaultOut THEN active ELSE Activated(active, defaultOut, output)
  IN /\ boot # "up"
     /\ \A t \in Task : Idle(t)
     /\ boot' = "up"
     /\ defaultOut' = output
     /\ defaultIn' = input
     /\ active' = IF input = defaultIn THEN played ELSE Activated(played, defaultIn, input)
     /\ groups' = savedGroups
     /\ previousOut' = saved.output
     /\ previousIn' = saved.input
     /\ UNCHANGED <<devices, streams, live, nextId, task>>

(* persist = false: the daemon goes on with what the boot scan left.        *)
SkipRestore ==
  /\ boot # "up"
  /\ \A t \in Task : Idle(t)
  /\ boot' = "up"
  /\ UNCHANGED <<devices, active, defaultOut, defaultIn, streams, live, groups,
                 nextId, previousOut, previousIn, task>>

-----------------------------------------------------------------------------
(* apply_routing() and the handlers that share its parts                    *)

(* switch_default_output(): default, states and follower records in one     *)
(* critical section; the hub is written and the memory noted after it.      *)
SwitchOutput(t) ==
  LET a == Current(t)
      followers == FollowersAwayFrom(a.dev)
      note == Act("note", defaultOut, 0)
  IN /\ Running(t, "set-output")
     /\ IF CanPlay(devices, a.dev) /\ defaultOut # a.dev
        THEN /\ defaultOut' = a.dev
             /\ active' = Activated(active, defaultOut, a.dev)
             /\ streams' = Pointed(followers, a.dev)
             /\ task' = [task EXCEPT
                           ![t].acts = IF a.remember THEN [@ EXCEPT ![1] = note] ELSE Tail(@),
                           ![t].writes = Writes(followers, a.dev)]
        ELSE /\ Done(t)
             /\ UNCHANGED <<defaultOut, active, streams>>
     /\ UNCHANGED <<devices, defaultIn, live, groups, nextId, previousOut, previousIn, boot>>

SwitchInput(t) ==
  LET a == Current(t)
  IN /\ Running(t, "set-input")
     /\ IF CanRecord(devices, a.dev) /\ defaultIn # a.dev
        THEN /\ defaultIn' = a.dev
             /\ active' = Activated(active, defaultIn, a.dev)
        ELSE UNCHANGED <<defaultIn, active>>
     /\ Done(t)
     /\ UNCHANGED <<devices, defaultOut, streams, live, groups, nextId, previousOut, previousIn, boot>>

NotePrevious(t) ==
  /\ Running(t, "note")
  /\ previousOut' = Current(t).dev
  /\ Done(t)
  /\ UNCHANGED <<devices, active, defaultOut, defaultIn, streams, live, groups, nextId, previousIn, boot>>

(* The memory is taken before the switch is tried: a switch that is then    *)
(* refused has still consumed it.                                           *)
TakePrevious(t) ==
  /\ Running(t, "restore-output")
  /\ previousOut' = None
  /\ IF previousOut = None THEN Done(t) ELSE Instead(t, Act("set-output", previousOut, 0))
  /\ UNCHANGED <<devices, active, defaultOut, defaultIn, streams, live, groups, nextId, previousIn, boot>>

(* The same for the input.  No switch notes the previous input              *)
(* (note_input_switch() has no caller), so it can only come from the file.  *)
TakePreviousInput(t) ==
  /\ Running(t, "restore-input")
  /\ previousIn' = None
  /\ IF previousIn = None THEN Done(t) ELSE Instead(t, Act("set-input", previousIn, 0))
  /\ UNCHANGED <<devices, active, defaultOut, defaultIn, streams, live, groups, nextId, previousOut, boot>>

(* apply_profile(), which may refuse: nothing here depends on the profile.  *)
ApplyProfile(t) ==
  /\ Running(t, "set-profile")
  /\ Done(t)
  /\ UNCHANGED <<devices, active, defaultOut, defaultIn, streams, live, groups,
                 nextId, previousOut, previousIn, boot>>

(* The routing action looks at target and stream under one lock and moves   *)
(* under the next.                                                          *)
CheckRoutedMove(t) ==
  LET a == Current(t)
  IN /\ Running(t, "move-stream")
     /\ IF CanPlay(devices, a.dev) /\ a.stream \in Ids /\ Exists(a.stream)
        THEN Instead(t, Act("move", a.dev, a.stream))
        ELSE Done(t)
     /\ UNCHANGED <<devices, active, defaultOut, defaultIn, streams, live, groups,
                    nextId, previousOut, previousIn, boot>>

(* move_stream_internal(): the record under the lock, the hub after it.     *)
Move(t) ==
  LET a == Current(t)
      s == a.stream
  IN /\ Running(t, "move")
     /\ IF Exists(s)
        THEN /\ streams' = [streams EXCEPT ![s].device = a.dev, ![s].follows = FALSE]
             /\ task' = [task EXCEPT ![t].acts = Tail(@),
                           ![t].writes = IF streams[s].device # a.dev THEN {<<s, a.dev>>} ELSE {}]
        ELSE Done(t) /\ UNCHANGED streams
     /\ UNCHANGED <<devices, active, defaultOut, defaultIn, live, groups, nextId, previousOut, previousIn, boot>>

WriteHub(t, w) ==
  /\ w \in task[t].writes
  /\ live' = IF live[w[1]] # None THEN [live EXCEPT ![w[1]] = w[2]] ELSE live
  /\ task' = [task EXCEPT ![t].writes = @ \ {w}]
  /\ UNCHANGED <<devices, active, defaultOut, defaultIn, streams, groups, nextId, previousOut, previousIn, boot>>

-----------------------------------------------------------------------------
(* Commands.  A command starts when the daemon is up and its task is free.  *)

Free(t) == boot = "up" /\ Idle(t)

SetDefaultOutput(t, d) ==
  /\ Free(t)
  /\ CanPlay(devices, d)
  /\ Start(t, Act("set-output", d, 0))
  /\ UNCHANGED <<devices, active, defaultOut, defaultIn, streams, live, groups,
                 nextId, previousOut, previousIn, boot>>

SetDefaultInput(t, d) ==
  /\ Free(t)
  /\ CanRecord(devices, d)
  /\ Start(t, Act("set-input", d, 0))
  /\ UNCHANGED <<devices, active, defaultOut, defaultIn, streams, live, groups,
                 nextId, previousOut, previousIn, boot>>

(* SetProfile: the rules of the new profile run after it has been applied.  *)
SetProfile(t) ==
  /\ Free(t)
  /\ \E acts \in Rules["profile-changed"][None] : task' = [task EXCEPT ![t].acts = acts]
  /\ UNCHANGED <<devices, active, defaultOut, defaultIn, streams, live, groups,
                 nextId, previousOut, previousIn, boot>>

TargetExists(x) == (x \in Device /\ devices[x] # "gone") \/ x \in groups

MoveStream(t, s, x) ==
  /\ Free(t)
  /\ TargetExists(x)
  /\ Exists(s)
  /\ Start(t, Act("move", x, s))
  /\ UNCHANGED <<devices, active, defaultOut, defaultIn, streams, live, groups,
                 nextId, previousOut, previousIn, boot>>

(* What a new stream is attached to: an explicit target, or the default of  *)
(* its direction, which it then follows.                                    *)
Placed(explicit, kind) ==
  [ device |-> IF explicit # None THEN explicit
               ELSE IF kind = "recording" THEN defaultIn ELSE defaultOut,
    follows |-> explicit = None, kind |-> kind ]

HasTarget(new) == new.device # None

(* create_live_stream(): record and hub entry under one lock.  The rules    *)
(* are evaluated later, from the record as it is by then (dev = None).      *)
CreateLiveStream(t, explicit) ==
  LET s == nextId
      new == Placed(explicit, "playback")
  IN /\ Free(t)
     /\ s \in Ids
     /\ HasTarget(new)
     /\ explicit # None => CanPlay(devices, explicit) \/ explicit \in groups
     /\ nextId' = AfterNumber(s)
     /\ streams' = [streams EXCEPT ![s] = new]
     /\ live' = [live EXCEPT ![s] = new.device]
     /\ Start(t, Act("added", None, s))
     /\ UNCHANGED <<devices, active, defaultOut, defaultIn, groups, previousOut, previousIn, boot>>

(* CreateStream: a record without a live stream; its rules see the target   *)
(* the stream was created on.  The microphone policy is asked first.        *)
CreateStream(t, application, explicit, kind) ==
  LET s == nextId
      new == Placed(explicit, kind)
  IN /\ Free(t)
     /\ kind = "recording" => application \in Permitted
     /\ s \in Ids
     /\ HasTarget(new)
     /\ explicit # None => TargetExists(explicit)
     /\ nextId' = AfterNumber(s)
     /\ streams' = [streams EXCEPT ![s] = new]
     /\ Start(t, Act("added", new.device, s))
     /\ UNCHANGED <<devices, active, defaultOut, defaultIn, live, groups, previousOut, previousIn, boot>>

RunStreamRules(t) ==
  LET a == Current(t)
      on == IF a.dev # None THEN a.dev ELSE streams[a.stream].device
  IN /\ Running(t, "added")
     /\ IF a.dev = None /\ ~Exists(a.stream)
        THEN Done(t)
        ELSE \E acts \in Rules["stream-added"][on] :
               task' = [task EXCEPT ![t].acts =
                          [i \in DOMAIN acts |-> [acts[i] EXCEPT !.stream = a.stream]]]
     /\ UNCHANGED <<devices, active, defaultOut, defaultIn, streams, live, groups,
                    nextId, previousOut, previousIn, boot>>

(* destroy_live_stream(): the record under the lock, then the hub entry.    *)
DestroyStream(t, s) ==
  /\ Free(t)
  /\ streams' = [streams EXCEPT ![s] = None]
  /\ Start(t, Act("unhub", None, s))
  /\ UNCHANGED <<devices, active, defaultOut, defaultIn, live, groups, nextId, previousOut, previousIn, boot>>

LeaveHubIfKnown(t) ==                                        \* mutant
  /\ Running(t, "unhub")
  /\ live' = IF Exists(Current(t).stream) THEN [live EXCEPT ![Current(t).stream] = None] ELSE live
  /\ Done(t)
  /\ UNCHANGED <<devices, active, defaultOut, defaultIn, streams, groups, nextId, previousOut, previousIn, boot>>

LeaveHub(t) ==
  /\ Running(t, "unhub")
  /\ live' = [live EXCEPT ![Current(t).stream] = None]
  /\ Done(t)
  /\ UNCHANGED <<devices, active, defaultOut, defaultIn, streams, groups, nextId, previousOut, previousIn, boot>>

(* CreateGroup: group definitions survive a restart and the counter does    *)
(* not, so numbers already taken are skipped.                               *)
CreateGroup(t) ==
  /\ Free(t)
  /\ \E g \in Ids :
       /\ g >= nextId /\ g \notin groups
       /\ \A h \in nextId .. g - 1 : h \in groups
       /\ groups' = groups \cup {g}
       /\ nextId' = AfterNumber(g)
  /\ UNCHANGED <<devices, active, defaultOut, defaultIn, streams, live, previousOut, previousIn, boot, task>>

DeleteGroup(t, g) ==
  /\ Free(t)
  /\ g \in groups
  /\ groups' = groups \ {g}
  /\ UNCHANGED <<devices, active, defaultOut, defaultIn, streams, live, nextId, previousOut, previousIn, boot, task>>

-----------------------------------------------------------------------------
Scan == {scan \in [Device -> Direction \cup {"gone"}] : \A d \in Device : scan[d] \in Scanned[d]}

TaskStep(t) ==
  \/ SwitchOutput(t) \/ SwitchInput(t) \/ ApplyProfile(t)
  \/ NotePrevious(t) \/ TakePrevious(t) \/ TakePreviousInput(t)
  \/ CheckRoutedMove(t) \/ Move(t) \/ RunStreamRules(t) \/ LeaveHub(t)
  \/ \E d \in Device : Retarget(t, d) \/ RunDeviceRules(t, d)
  \/ \E w \in task[t].writes : WriteHub(t, w)

Command(t) ==
  \/ \E scan \in Scan : Refresh(t, scan)
  \/ \E d \in Device : SetDefaultOutput(t, d) \/ SetDefaultInput(t, d)
  \/ SetProfile(t)
  \/ \E s \in Ids : DestroyStream(t, s) \/ \E x \in Target : MoveStream(t, s, x)
  \/ \E x \in Target \cup {None} : CreateLiveStream(t, x)
  \/ \E application \in Application, x \in Target \cup {None}, kind \in {"playback", "recording"} :
       CreateStream(t, application, x, kind)
  \/ CreateGroup(t)
  \/ \E g \in Ids : DeleteGroup(t, g)

Boot ==
  \/ SkipRestore
  \/ \E o, i \in Device \cup {None}, g \in SUBSET Ids, saved \in Memory : Restore(o, i, g, saved)

Next == Boot \/ \E t \in Task : TaskStep(t) \/ Command(t)

Spec == Init /\ [][Next]_vars

-----------------------------------------------------------------------------
(* Properties                                                               *)

(* A default is a device of the registry with the right direction.  GetVolume *)
(* and GetState index the registry with the default without a check.        *)
DefaultsUsable ==
  /\ defaultOut # None => CanPlay(devices, defaultOut)
  /\ defaultIn # None => CanRecord(devices, defaultIn)

(* There is no default only when no device could be one.  Callers of        *)
(* switch_default_input() take a missing previous default for "nothing was  *)
(* switched"; that is right only because of this.                           *)
DefaultUnlessNoCandidate ==
  /\ defaultOut = None => \A d \in Device : ~CanPlay(devices, d)
  /\ defaultIn = None => \A d \in Device : ~CanRecord(devices, d)

(* Of the devices the manager shows as Active each is a default: no device  *)
(* keeps the state of a default it was before.                              *)
ActiveIsDefault == active \subseteq {defaultOut, defaultIn}

(* A hub entry, which the mixers and the sink tick act on, belongs to a     *)
(* stream of the registry, or the handler that removed the record is about  *)
(* to remove the entry: no stream plays on without a record.                *)
Leaving(t, s) ==
  task[t].acts # <<>> /\ Current(t).act = "unhub" /\ Current(t).stream = s
HubEntryHasRecord ==
  \A s \in Ids : live[s] # None /\ ~Exists(s) => \E t \in Task : Leaving(t, s)

(* "follows_default: moves automatically if the default output changes"     *)
(* (docs/audio-model.md): with no handler under way a playback stream that  *)
(* follows the default is on it, while there is one.                        *)
Follower(s) == Follows(s) /\ streams[s].kind = "playback"
FollowersTrackDefault ==
  \A s \in Ids : defaultOut # None /\ Follower(s) /\ (\A t \in Task : Idle(t)) =>
    streams[s].device = defaultOut

(* A follower is on the default, or a refresh that saw its device go is     *)
(* about to move it there, except where the default was lost in one of two  *)
(* ways refresh() does not retarget for: the last output went and another   *)
(* has come since, or the default has lost its output direction without     *)
(* being removed.  No race of scans, switches, moves, rules and new streams *)
(* leaves a follower behind.                                                *)
OnDefault(s) ==
  \/ streams[s].device = defaultOut
  \/ \E t \in Task : streams[s].device \in task[t].gone
Stranded(s) == defaultOut # None /\ Follower(s) /\ ~OnDefault(s)
DefaultLost ==
  /\ defaultOut' # defaultOut
  /\ defaultOut = None \/ devices'[defaultOut] = "input"
OnlyLostDefaultStrands ==
  [][\A s \in Ids : Stranded(s)' => Stranded(s) \/ DefaultLost]_vars

(* The mixers play a stream where its record says it is, or a handler still *)
(* has to tell them so: "Move a stream to `device_id` (record + live)".     *)
(* Handlers write to the hub after the lock, in any order.  Of all they do, *)
(* only a write that is late takes it away: one of a target the record has  *)
(* been moved on from since, by another handler.                            *)
Playing(s) == Exists(s) /\ live[s] # None
Told(s) ==
  \/ live[s] = streams[s].device
  \/ \E t \in Task : <<s, streams[s].device>> \in task[t].writes
LateWrite(s) ==
  \E t \in Task : \E w \in task[t].writes :
    w[1] = s /\ w[2] # streams[s].device /\ live'[s] = w[2]
OnlyLateWritesMislead ==
  [][\A s \in Ids : (Playing(s) /\ ~Told(s))' => (Playing(s) /\ ~Told(s)) \/ LateWrite(s)]_vars

(* A stream with an explicit target changes it only by a move of that       *)
(* stream, and never starts to follow the default.                          *)
ExplicitTargetIsKept ==
  [][\A s \in Ids : Exists(s) /\ ~Follows(s) /\ streams'[s] # None =>
       /\ ~streams'[s].follows
       /\ streams'[s].device # streams[s].device =>
            \E t \in Task : Running(t, "move") /\ Current(t).stream = s]_vars

-----------------------------------------------------------------------------
(* Two facts about the rules file, which no state changes: they are         *)
(* looked at where the daemon has read it.                                  *)

(* A pattern of a rule or of the microphone policy matches as its wildcards *)
(* say, wherever its stars are.                                             *)
GlobIsWildcard == Init => WildcardsMatch

(* The rules that fire are those that match and follow no rule that fired   *)
(* and stops, in file order, without those that have nothing to act on.     *)
RulesFireInOrder == Init => RulesAgree
=============================================================================
