---------------------------- MODULE SinkManager -----------------------------
(* Output sinks, `src/src/engine/sink.rs`: which mixer threads run, opened  *)
(* and closed by the lifecycle tick of `daemon/event_loop.rs`, and closed   *)
(* as well by the group commands and refresh() of `manager/state.rs`, which *)
(* are other tasks.                                                         *)
(*                                                                          *)
(* One action is what a task does between two awaits.  A mixer thread is a  *)
(* slot of `thread`, kept until it has been joined.  The two clocks of the  *)
(* tick are sets: `recent`, the targets with an attempt to open less than   *)
(* OPEN_RETRY ago, and `fresh`, the sinks used less than IDLE_CLOSE ago;    *)
(* time may pass in any step.                                               *)
(*                                                                          *)
(* Abstracted: the audio itself, levels and effects; a device listed twice  *)
(* in one group; a thread that cannot be spawned.                           *)
EXTENDS GroupDelays

CONSTANTS
  Device, Group,
  BuiltIn,    \* devices the boot scan has found and that never vanish
  Scenario,   \* bound: sets of targets, streams play on those of one of them
  Latency,    \* the latencies group members are given
  Slot,       \* bound: mixer threads that exist at the same time
  Handler,    \* concurrently running group commands and refreshes
  MayDie,     \* TRUE: hardware may fail for good while a device is open
  None

Target == Device \cup Group

ASSUME TargetAssumption == Device \cap Group = {} /\ Scenario \subseteq SUBSET Target /\ BuiltIn \subseteq Device
ASSUME LatencyAssumption == Latency \subseteq Nat /\ IsFiniteSet(Latency) /\ 0 \in Latency
ASSUME MayDieAssumption == MayDie \in BOOLEAN

MaxLatency == CHOOSE l \in Latency : \A k \in Latency : k <= l
(* A group is a partial function from its members to their latencies.       *)
Members == UNION {[S -> Latency] : S \in SUBSET Device}
Delays == UNION {[S -> 0 .. MaxLatency] : S \in SUBSET Device}

VARIABLES
  present,   \* manager: ids of the device registry
  streamed,  \* the targets streams play on in this behaviour
  groups,    \* manager: the groups, None if there is none of that id
  refs,      \* hub: targets of the live streams
  sinks,     \* the slot of a target's handle, None if it has no handle
  thread,    \* mixer threads not joined yet
  recent, fresh,
  tick,      \* the lifecycle pass
  handler    \* the group commands and refreshes

vars == <<present, streamed, groups, refs, sinks, thread, recent, fresh, tick, handler>>
environment == <<present, streamed, groups, refs, handler>>

Thread == [target : Target, delays : Delays, state : {"run", "exited"}, stop : BOOLEAN]

ASSUME NoneAssumption == None \notin Slot \cup Target /\ None \notin Thread

TickState ==
  [ pc : {"idle", "groups", "survey", "open", "opening", "close", "join"},
    devs : SUBSET Device, groups : [Group -> Members \cup {None}],   \* snapshots
    todo : SUBSET Target,       \* referenced targets not looked at yet
    close : SUBSET Target,      \* sinks this pass still has to close
    target : Target \cup {None}, delays : Delays,   \* being opened
    slot : Slot \cup {None} ]   \* being joined

HandlerState ==
  [pc : {"idle", "close", "join"}, target : Target \cup {None}, slot : Slot \cup {None}]

NoDelays == [d \in {} |-> 0]
NoGroups == [g \in Group |-> None]
TickIdle == [pc |-> "idle", devs |-> {}, groups |-> NoGroups, todo |-> {}, close |-> {},
             target |-> None, delays |-> NoDelays, slot |-> None]
HandlerIdle == [pc |-> "idle", target |-> None, slot |-> None]

TypeOK ==
  /\ present \subseteq Device
  /\ groups \in [Group -> Members \cup {None}]
  /\ streamed \in Scenario
  /\ refs \subseteq streamed
  /\ sinks \in [Target -> Slot \cup {None}]
  /\ thread \in [Slot -> Thread \cup {None}]
  /\ \A t \in Target : sinks[t] # None => thread[sinks[t]] # None
  /\ recent \subseteq Target
  /\ fresh \subseteq Target
  /\ tick \in TickState
  /\ handler \in [Handler -> HandlerState]

Init ==
  /\ present = BuiltIn
  /\ streamed \in Scenario
  /\ groups = NoGroups
  /\ refs = {}
  /\ sinks = [t \in Target |-> None]
  /\ thread = [s \in Slot |-> None]
  /\ recent = {}
  /\ fresh = {}
  /\ tick = TickIdle
  /\ handler = [h \in Handler |-> HandlerIdle]

-----------------------------------------------------------------------------
(* The manager and the hub, as far as the sinks see them                    *)

Plug(d) ==
  /\ d \notin present
  /\ present' = present \cup {d}
  /\ UNCHANGED <<streamed, groups, refs, sinks, thread, recent, fresh, tick, handler>>

(* refresh() takes a device that is gone out of the registry under the      *)
(* state lock and closes its sink after it.                                 *)
Unplug(h, d) ==
  /\ handler[h].pc = "idle"
  /\ d \in present \ BuiltIn
  /\ present' = present \ {d}
  /\ handler' = [handler EXCEPT ![h].pc = "close", ![h].target = d]
  /\ UNCHANGED <<streamed, groups, refs, sinks, thread, recent, fresh, tick>>

(* A stream is opened, moved or destroyed.                                  *)
Play(t) ==
  /\ t \in streamed
  /\ refs' = IF t \in refs THEN refs \ {t} ELSE refs \cup {t}
  /\ UNCHANGED <<present, streamed, groups, sinks, thread, recent, fresh, tick, handler>>

(* Groups on which no stream plays are left out.                            *)
CreateGroup(g, S) ==
  /\ g \in streamed
  /\ groups[g] = None
  /\ S \subseteq present
  /\ groups' = [groups EXCEPT ![g] = [d \in S |-> 0]]
  /\ UNCHANGED <<present, streamed, refs, sinks, thread, recent, fresh, tick, handler>>

(* A group command changes the group under the state lock and closes its    *)
(* sink after it: "reopen next tick with the new membership".               *)
Edit(h, g, members) ==
  /\ handler[h].pc = "idle"
  /\ groups[g] # None
  /\ groups' = [groups EXCEPT ![g] = members]
  /\ handler' = [handler EXCEPT ![h].pc = "close", ![h].target = g]
  /\ UNCHANGED <<present, streamed, refs, sinks, thread, recent, fresh, tick>>

DeleteGroup(h, g) == Edit(h, g, None)

AddGroupMember(h, g, d, latency) ==
  /\ d \in present
  /\ groups[g] # None
  /\ Edit(h, g, [x \in DOMAIN groups[g] \cup {d} |->
                   IF x \in DOMAIN groups[g] THEN groups[g][x] ELSE latency])

RemoveGroupMember(h, g, d) ==
  /\ groups[g] # None
  /\ Edit(h, g, [x \in DOMAIN groups[g] \ {d} |-> groups[g][x]])

SetGroupMemberLatency(h, g, d, latency) ==
  /\ groups[g] # None
  /\ d \in DOMAIN groups[g]
  /\ Edit(h, g, [groups[g] EXCEPT ![d] = latency])

-----------------------------------------------------------------------------
(* Helpers                                                                  *)

Exists(t, devs, grps) == t \in devs \/ (t \in Group /\ grps[t] # None)

(* What the pass closes, `fresh` as it is after the pass has touched the    *)
(* referenced sinks.                                                        *)
IdleIgnored(t) == FALSE                                      \* mutant
Idle(t) == t \notin refs /\ t \notin fresh
SameLength(opened, members, devs) ==                         \* mutant of Regroup
  Cardinality(DOMAIN opened) # Cardinality(DOMAIN members \cap devs)
Regroup(opened, members, devs) == DOMAIN opened # DOMAIN members \cap devs

ToClose(devs, grps) ==
  {t \in Target :
     /\ sinks[t] # None
     /\ \/ ~Exists(t, devs, grps)
        \/ Idle(t)
        \/ /\ t \in Group /\ grps[t] # None
           /\ Regroup(thread[sinks[t]].delays, grps[t], devs)}

(* close_sink() up to the join: the handle leaves the map and the thread is *)
(* told to stop.                                                            *)
HandleRemoved(t) == [sinks EXCEPT ![t] = None]
Stopped(t) == [thread EXCEPT ![sinks[t]].stop = TRUE]

-----------------------------------------------------------------------------
(* The pass, one every 500 ms                                               *)

SnapshotDevices ==
  /\ tick.pc = "idle"
  /\ tick' = [tick EXCEPT !.pc = "groups", !.devs = present]
  /\ UNCHANGED <<present, streamed, groups, refs, sinks, thread, recent, fresh, handler>>

SnapshotGroups ==
  /\ tick.pc = "groups"
  /\ tick' = [tick EXCEPT !.pc = "survey", !.groups = groups]
  /\ UNCHANGED <<present, streamed, groups, refs, sinks, thread, recent, fresh, handler>>

Survey ==
  /\ tick.pc = "survey"
  /\ fresh' = fresh \cup {t \in refs : sinks[t] # None}
  /\ tick' = [tick EXCEPT !.pc = "open", !.todo = refs,
                          !.close = ToClose(tick.devs, tick.groups)]
  /\ UNCHANGED <<present, streamed, groups, refs, sinks, thread, recent, handler>>

(* A referenced target: there is a sink, or it is too early to try again,   *)
(* or there is nothing to open, or the open is started.                     *)
AnyHandle(t) == FALSE                                        \* mutant
HasHandle(t) == sinks[t] # None

Skip(t) ==
  /\ tick.pc = "open" /\ t \in tick.todo
  /\ HasHandle(t) \/ t \in recent
  /\ tick' = [tick EXCEPT !.todo = @ \ {t}]
  /\ UNCHANGED <<present, streamed, groups, refs, sinks, thread, recent, fresh, handler>>

Attempt(t) ==
  /\ tick.pc = "open" /\ t \in tick.todo
  /\ ~HasHandle(t) /\ t \notin recent
  /\ recent' = recent \cup {t}
  /\ LET grouped == t \in Group /\ tick.groups[t] # None
         delays == IF grouped THEN Connected(tick.groups[t], tick.devs) ELSE NoDelays
         opens == IF grouped THEN DOMAIN delays # {} ELSE t \in tick.devs
     IN tick' = IF opens
                THEN [tick EXCEPT !.todo = @ \ {t}, !.pc = "opening", !.target = t,
                                  !.delays = delays]
                ELSE [tick EXCEPT !.todo = @ \ {t}]
  /\ UNCHANGED <<present, streamed, groups, refs, sinks, thread, fresh, handler>>

OpenSucceeds(t, s) ==
  /\ tick.pc = "opening" /\ tick.target = t
  /\ thread[s] = None
  /\ thread' = [thread EXCEPT ![s] =
                  [target |-> t, delays |-> tick.delays, state |-> "run", stop |-> FALSE]]
  /\ sinks' = [sinks EXCEPT ![t] = s]
  /\ fresh' = fresh \cup {t}
  /\ tick' = [tick EXCEPT !.pc = "open", !.target = None, !.delays = NoDelays]
  /\ UNCHANGED <<present, streamed, groups, refs, recent, handler>>

OpenFails ==
  /\ tick.pc = "opening"
  /\ tick' = [tick EXCEPT !.pc = "open", !.target = None, !.delays = NoDelays]
  /\ UNCHANGED <<present, streamed, groups, refs, sinks, thread, recent, fresh, handler>>

StartClosing ==
  /\ tick.pc = "open" /\ tick.todo = {}
  /\ tick' = [tick EXCEPT !.pc = "close"]
  /\ UNCHANGED <<present, streamed, groups, refs, sinks, thread, recent, fresh, handler>>

(* close_sink() of the pass: a command may have been faster.                *)
Close(t) ==
  /\ tick.pc = "close" /\ t \in tick.close
  /\ IF sinks[t] = None
     THEN /\ tick' = [tick EXCEPT !.close = @ \ {t}]
          /\ UNCHANGED <<sinks, thread>>
     ELSE /\ sinks' = HandleRemoved(t)
          /\ thread' = Stopped(t)
          /\ tick' = [tick EXCEPT !.close = @ \ {t}, !.pc = "join", !.slot = sinks[t]]
  /\ UNCHANGED <<present, streamed, groups, refs, recent, fresh, handler>>

Join ==
  /\ tick.pc = "join"
  /\ thread[tick.slot].state = "exited"
  /\ thread' = [thread EXCEPT ![tick.slot] = None]
  /\ tick' = [tick EXCEPT !.pc = "close", !.slot = None]
  /\ UNCHANGED <<present, streamed, groups, refs, sinks, recent, fresh, handler>>

EndTick ==
  /\ tick.pc = "close" /\ tick.close = {}
  /\ tick' = TickIdle
  /\ UNCHANGED <<present, streamed, groups, refs, sinks, thread, recent, fresh, handler>>

-----------------------------------------------------------------------------
(* The handlers' close_sink(), the mixer threads, and time                  *)

HandlerClose(h) ==
  LET t == handler[h].target
  IN /\ handler[h].pc = "close"
     /\ IF sinks[t] = None
        THEN /\ handler' = [handler EXCEPT ![h] = HandlerIdle]
             /\ UNCHANGED <<sinks, thread>>
        ELSE /\ sinks' = HandleRemoved(t)
             /\ thread' = Stopped(t)
             /\ handler' = [handler EXCEPT ![h].pc = "join", ![h].slot = sinks[t]]
     /\ UNCHANGED <<present, streamed, groups, refs, recent, fresh, tick>>

HandlerJoin(h) ==
  /\ handler[h].pc = "join"
  /\ thread[handler[h].slot].state = "exited"
  /\ thread' = [thread EXCEPT ![handler[h].slot] = None]
  /\ handler' = [handler EXCEPT ![h] = HandlerIdle]
  /\ UNCHANGED <<present, streamed, groups, refs, sinks, recent, fresh, tick>>

(* A thread looks at its stop flag once a period.                           *)
Exit(s) ==
  /\ thread[s] # None /\ thread[s].state = "run" /\ thread[s].stop
  /\ thread' = [thread EXCEPT ![s].state = "exited"]
  /\ UNCHANGED <<present, streamed, groups, refs, sinks, recent, fresh, tick, handler>>

(* mixer_loop() ends when a write fails and recover() does too; the handle  *)
(* stays.  group_mixer_loop() goes on whatever its members do.              *)
Die(s) ==
  /\ MayDie
  /\ thread[s] # None /\ thread[s].state = "run" /\ thread[s].target \in Device
  /\ thread' = [thread EXCEPT ![s].state = "exited"]
  /\ UNCHANGED <<present, streamed, groups, refs, sinks, recent, fresh, tick, handler>>

RetryElapses(t) ==
  /\ t \in recent
  /\ recent' = recent \ {t}
  /\ UNCHANGED <<present, streamed, groups, refs, sinks, thread, fresh, tick, handler>>

IdleElapses(t) ==
  /\ t \in fresh
  /\ fresh' = fresh \ {t}
  /\ UNCHANGED <<present, streamed, groups, refs, sinks, thread, recent, tick, handler>>

-----------------------------------------------------------------------------
Environment ==
  \/ \E d \in Device : Plug(d)
  \/ \E t \in Target : Play(t)
  \/ \E g \in Group, S \in SUBSET Device : CreateGroup(g, S)

GroupCommand(h, g) ==
  \/ DeleteGroup(h, g)
  \/ \E d \in Device : RemoveGroupMember(h, g, d)
  \/ \E d \in Device, l \in Latency :
       AddGroupMember(h, g, d, l) \/ SetGroupMemberLatency(h, g, d, l)

Consider == \E t \in Target : Skip(t) \/ Attempt(t)
Open(t) == \E s \in Slot : OpenSucceeds(t, s)
Pass ==
  \/ SnapshotDevices \/ SnapshotGroups \/ Survey \/ Consider
  \/ StartClosing \/ (\E t \in Target : Close(t)) \/ Join \/ EndTick
Opening == OpenFails \/ \E t \in Target : Open(t)
Command(h) == HandlerClose(h) \/ HandlerJoin(h)
Time(t) == RetryElapses(t) \/ IdleElapses(t)

Next ==
  \/ Environment
  \/ \E h \in Handler : (\E d \in Device : Unplug(h, d)) \/ \E g \in Group : GroupCommand(h, g)
  \/ Pass \/ Opening
  \/ \E h \in Handler : Command(h)
  \/ \E s \in Slot : Exit(s) \/ Die(s)
  \/ \E t \in Target : Time(t)

Spec == Init /\ [][Next]_vars

(* The runtime polls every task, a thread told to stop looks at the flag,   *)
(* time passes, and a device that is tried again and again is opened in the *)
(* end.  Nothing is assumed of streams, devices and commands.               *)
Fairness ==
  /\ WF_vars(Pass) /\ WF_vars(Opening)
  /\ \A h \in Handler : WF_vars(Command(h))
  /\ \A s \in Slot : WF_vars(Exit(s))
  /\ \A t \in Target : /\ WF_vars(RetryElapses(t)) /\ WF_vars(IdleElapses(t))
                       /\ SF_vars(Open(t))
FairSpec == Spec /\ Fairness

-----------------------------------------------------------------------------
(* Properties                                                               *)

Running(s) == thread[s] # None /\ thread[s].state = "run"

(* Every mixer thread is reachable: it belongs to the handle of its target, *)
(* or it has been told to stop and somebody waits for it.  A thread nobody  *)
(* can reach would hold its device open and eat its streams' samples for    *)
(* the rest of the run.                                                     *)
MixerOwned ==
  \A s \in Slot : thread[s] # None =>
    \/ sinks[thread[s].target] = s
    \/ /\ thread[s].stop
       /\ tick.slot = s \/ \E h \in Handler : handler[h].slot = s

(* Once devices, groups and streams stay as they are and no command runs,   *)
(* every target a stream plays on is served if it can be: "ensure sinks     *)
(* exist for every referenced device or group", a group by exactly its      *)
(* connected members.  Hardware may fail for good: a mixer that has died of *)
(* it keeps its handle, and its target is the only one not served.          *)
CanServe(t) ==
  \/ t \in present
  \/ t \in Group /\ groups[t] # None /\ DOMAIN groups[t] \cap present # {}
Serves(t) ==
  /\ sinks[t] # None
  /\ Running(sinks[t])
  /\ t \in Group => DOMAIN thread[sinks[t]].delays = DOMAIN groups[t] \cap present
Quiet == <>[][FALSE]_environment
Dead(t) == sinks[t] # None /\ thread[sinks[t]].state = "exited"
ServedWhileAlive ==
  Quiet => <>[](\A t \in refs : CanServe(t) => Serves(t) \/ Dead(t))

(* Once they stay as they are, no sink is left that no stream plays on or   *)
(* whose target is gone: "idle sinks close after 5 s".                      *)
NoIdleSink == Quiet => <>[](\A t \in Target : sinks[t] # None => t \in refs /\ CanServe(t))

(* Every connected member of a group is heard in step with the slowest one, *)
(* whichever members are connected and however the mix is cut into periods. *)
(* No state changes that, so it is looked at in the initial states.         *)
GroupInStep == Init => EveryGroupInStep
=============================================================================
