---------------------------- MODULE CaptureSources ----------------------------
(***************************************************************************)
(* Capture sources, `src/src/engine/source.rs`: a thread for every input   *)
(* device a live capture stream is on.  The lifecycle pass opens and       *)
(* closes them; a thread hands every period it reads to the streams that   *)
(* are on its device at that moment.  Threads, pass and whoever places the *)
(* streams run concurrently.                                               *)
(*                                                                         *)
(* No task of the daemon calls tick() yet; it is taken to be called as     *)
(* that of the sinks is, by one task again and again, with the devices the *)
(* registry has at that time.  The two clocks are sets, as in SinkManager. *)
(*                                                                         *)
(* Abstracted: samples and their processing, the ring of a stream (that is *)
(* DataPlane's), a thread that cannot be spawned.                          *)
(***************************************************************************)
EXTENDS Naturals, FiniteSets

CONSTANTS
  Device,   \* input devices
  BuiltIn,  \* those that never vanish
  Stream,   \* capture streams
  Slot,     \* bound: threads that exist at the same time
  MayDie,   \* TRUE: hardware may fail for good while a device is open
  None

ASSUME DeviceAssumption == BuiltIn \subseteq Device /\ Device \cap {"new", "gone"} = {}
ASSUME MayDieAssumption == MayDie \in BOOLEAN

VARIABLES
  present,   \* manager: input devices of the registry
  on,        \* hub: the device of a stream, "new" before and "gone" after
  heard,     \* the device whose audio a stream got last
  sources,   \* the slot of a device's handle, None if it has no handle
  thread,    \* capture threads not joined yet
  recent,    \* devices with an attempt to open less than OPEN_RETRY ago
  fresh,     \* sources used less than IDLE_CLOSE ago
  tick       \* the lifecycle pass

vars == <<present, on, heard, sources, thread, recent, fresh, tick>>
environment == <<present, on>>
capture == <<heard, sources, thread, recent, fresh, tick>>

Thread ==
  [ dev : Device, at : {"top", "reading", "fan", "push", "exited"}, stop : BOOLEAN,
    todo : SUBSET Stream,           \* streams of the snapshot it still looks at
    to : Stream \cup {None} ]       \* the one it is about to push to

ASSUME NoneAssumption == None \notin Slot \cup Device \cup Stream /\ None \notin Thread

TickState ==
  [ pc : {"idle", "open", "opening", "join"},
    devs : SUBSET Device,           \* tick()'s argument
    todo : SUBSET Device,           \* referenced devices not looked at yet
    close : SUBSET Device,          \* sources this pass still has to close
    target : Device \cup {None},    \* being opened
    slot : Slot \cup {None} ]       \* being joined

TickIdle == [pc |-> "idle", devs |-> {}, todo |-> {}, close |-> {}, target |-> None, slot |-> None]

TypeOK ==
  /\ present \subseteq Device
  /\ on \in [Stream -> Device \cup {"new", "gone"}]
  /\ heard \in [Stream -> Device \cup {None}]
  /\ sources \in [Device -> Slot \cup {None}]
  /\ thread \in [Slot -> Thread \cup {None}]
  /\ recent \subseteq Device
  /\ fresh \subseteq Device
  /\ tick \in TickState

Init ==
  /\ present = BuiltIn
  /\ on = [s \in Stream |-> "new"]
  /\ heard = [s \in Stream |-> None]
  /\ sources = [d \in Device |-> None]
  /\ thread = [x \in Slot |-> None]
  /\ recent = {}
  /\ fresh = {}
  /\ tick = TickIdle

-----------------------------------------------------------------------------
(* Devices come and go; a stream enters the hub, is moved and leaves.       *)

Plug(d) ==
  /\ d \notin BuiltIn
  /\ present' = IF d \in present THEN present \ {d} ELSE present \cup {d}
  /\ UNCHANGED <<on, capture>>

Place(s, d) ==
  /\ on[s] \notin {"gone", d}
  /\ on' = [on EXCEPT ![s] = d]
  /\ UNCHANGED <<present, capture>>

Leave(s) ==
  /\ on[s] \in Device
  /\ on' = [on EXCEPT ![s] = "gone"]
  /\ UNCHANGED <<present, capture>>

-----------------------------------------------------------------------------
(* The pass                                                                 *)

InHub == {s \in Stream : on[s] \in Device}
Referenced == {on[s] : s \in InHub}

(* What the pass closes; the clock of a referenced source has just been     *)
(* reset.                                                                   *)
IdleIgnored(refs) == {d \in Device : sources[d] # None /\ d \notin present}      \* mutants
ClockOnly(refs) == {d \in Device : sources[d] # None /\ (d \notin present \/ d \notin fresh)}
ToClose(refs) ==
  {d \in Device : sources[d] # None /\ (d \notin present \/ d \notin refs \cup fresh)}

Survey ==
  LET refs == Referenced
  IN /\ tick.pc = "idle"
     /\ fresh' = fresh \cup {d \in refs : sources[d] # None}
     /\ tick' = [tick EXCEPT !.pc = "open", !.devs = present, !.todo = refs,
                             !.close = ToClose(refs)]
     /\ UNCHANGED <<environment, heard, sources, thread, recent>>

(* A referenced device: it has a source, or it is not there, or it is too   *)
(* early to try again, or the open is started.                              *)
Skip(d) ==
  /\ tick.pc = "open" /\ d \in tick.todo
  /\ sources[d] # None \/ d \notin tick.devs \/ d \in recent
  /\ tick' = [tick EXCEPT !.todo = @ \ {d}]
  /\ UNCHANGED <<environment, heard, sources, thread, recent, fresh>>

Attempt(d) ==
  /\ tick.pc = "open" /\ d \in tick.todo
  /\ sources[d] = None /\ d \in tick.devs /\ d \notin recent
  /\ recent' = recent \cup {d}
  /\ tick' = [tick EXCEPT !.pc = "opening", !.todo = @ \ {d}, !.target = d]
  /\ UNCHANGED <<environment, heard, sources, thread, fresh>>

Opened(d) == [dev |-> d, at |-> "top", stop |-> FALSE, todo |-> {}, to |-> None]

OpenSucceeds(d, x) ==
  /\ tick.pc = "opening" /\ tick.target = d
  /\ thread[x] = None
  /\ thread' = [thread EXCEPT ![x] = Opened(d)]
  /\ sources' = [sources EXCEPT ![d] = x]
  /\ fresh' = fresh \cup {d}
  /\ tick' = [tick EXCEPT !.pc = "open", !.target = None]
  /\ UNCHANGED <<environment, heard, recent>>

OpenFails ==
  /\ tick.pc = "opening"
  /\ tick' = [tick EXCEPT !.pc = "open", !.target = None]
  /\ UNCHANGED <<environment, heard, sources, thread, recent, fresh>>

(* close_source(): the handle leaves the map, the thread is told to stop    *)
(* and waited for.  The pass alone closes, so it finds the handle it saw.   *)
NoJoin(d) == [tick EXCEPT !.close = @ \ {d}]                 \* mutant
WaitFor(d) == [tick EXCEPT !.close = @ \ {d}, !.pc = "join", !.slot = sources[d]]

Close(d) ==
  /\ tick.pc = "open" /\ tick.todo = {} /\ d \in tick.close
  /\ sources[d] # None
  /\ sources' = [sources EXCEPT ![d] = None]
  /\ thread' = [thread EXCEPT ![sources[d]].stop = TRUE]
  /\ tick' = WaitFor(d)
  /\ UNCHANGED <<environment, heard, recent, fresh>>

Join ==
  /\ tick.pc = "join"
  /\ thread[tick.slot].at = "exited"
  /\ thread' = [thread EXCEPT ![tick.slot] = None]
  /\ tick' = [tick EXCEPT !.pc = "open", !.slot = None]
  /\ UNCHANGED <<environment, heard, sources, recent, fresh>>

EndTick ==
  /\ tick.pc = "open" /\ tick.todo = {} /\ tick.close = {}
  /\ tick' = TickIdle
  /\ UNCHANGED <<environment, heard, sources, thread, recent, fresh>>

-----------------------------------------------------------------------------
(* capture_loop()                                                           *)

At(x, pc) == thread[x] # None /\ thread[x].at = pc
Becomes(x, t) ==
  /\ thread' = [thread EXCEPT ![x] = t]
  /\ UNCHANGED <<environment, sources, recent, fresh, tick>>

Loop(x) ==
  /\ At(x, "top")
  /\ Becomes(x, [thread[x] EXCEPT !.at = IF thread[x].stop THEN "exited" ELSE "reading"])
  /\ UNCHANGED heard

(* A period, for the streams in the hub by then.                            *)
Capture(x) ==
  /\ At(x, "reading")
  /\ Becomes(x, [thread[x] EXCEPT !.at = "fan", !.todo = InHub])
  /\ UNCHANGED heard

(* No frames, or an error from which the device recovers.                   *)
NothingRead(x) ==
  /\ At(x, "reading")
  /\ Becomes(x, [thread[x] EXCEPT !.at = "top"])
  /\ UNCHANGED heard

(* An error from which it does not: the thread ends and its handle stays.   *)
Die(x) ==
  /\ MayDie
  /\ At(x, "reading")
  /\ Becomes(x, [thread[x] EXCEPT !.at = "exited"])
  /\ UNCHANGED heard

(* It looks at the device of a stream, and pushes after that: the stream    *)
(* may have been moved in between.                                          *)
Look(x, s) ==
  /\ At(x, "fan") /\ s \in thread[x].todo
  /\ Becomes(x, IF on[s] = thread[x].dev
                THEN [thread[x] EXCEPT !.at = "push", !.todo = @ \ {s}, !.to = s]
                ELSE [thread[x] EXCEPT !.todo = @ \ {s}])
  /\ UNCHANGED heard

Push(x) ==
  /\ At(x, "push")
  /\ heard' = [heard EXCEPT ![thread[x].to] = thread[x].dev]
  /\ Becomes(x, [thread[x] EXCEPT !.at = "fan", !.to = None])

EndFan(x) ==
  /\ At(x, "fan") /\ thread[x].todo = {}
  /\ Becomes(x, [thread[x] EXCEPT !.at = "top"])
  /\ UNCHANGED heard

-----------------------------------------------------------------------------
RetryElapses(d) ==
  /\ d \in recent
  /\ recent' = recent \ {d}
  /\ UNCHANGED <<environment, heard, sources, thread, fresh, tick>>

IdleElapses(d) ==
  /\ d \in fresh
  /\ fresh' = fresh \ {d}
  /\ UNCHANGED <<environment, heard, sources, thread, recent, tick>>

Open(d) == \E x \in Slot : OpenSucceeds(d, x)
Opening == OpenFails \/ \E d \in Device : Open(d)
Pass ==
  \/ Survey \/ Join \/ EndTick
  \/ \E d \in Device : Skip(d) \/ Attempt(d) \/ Close(d)
Period(x) ==
  Loop(x) \/ Capture(x) \/ NothingRead(x) \/ Push(x) \/ EndFan(x) \/ \E s \in Stream : Look(x, s)

Next ==
  \/ \E d \in Device : Plug(d) \/ RetryElapses(d) \/ IdleElapses(d)
  \/ \E s \in Stream : Leave(s) \/ \E d \in Device : Place(s, d)
  \/ Pass \/ Opening
  \/ \E x \in Slot : Period(x) \/ Die(x)

Spec == Init /\ [][Next]_vars

(* The pass is run again and again, threads run, time passes, a device that *)
(* is tried again and again is opened in the end, and one that is read      *)
(* again and again yields a period.  Nothing is assumed of devices coming   *)
(* and going, nor of streams.                                               *)
Fairness ==
  /\ WF_vars(Pass) /\ WF_vars(Opening)
  /\ \A x \in Slot : WF_vars(Period(x)) /\ SF_vars(Capture(x))
  /\ \A d \in Device : /\ WF_vars(RetryElapses(d)) /\ WF_vars(IdleElapses(d))
                       /\ SF_vars(Open(d))
FairSpec == Spec /\ Fairness

-----------------------------------------------------------------------------
(* Properties                                                               *)

Reads(x) == thread[x] # None /\ thread[x].at # "exited"

(* No two threads capture from one device: "one input device + capture      *)
(* thread per source device".  The sinks cannot promise it, whose commands  *)
(* close as well; here the pass alone closes, and it waits for the thread   *)
(* before it looks at another device.                                       *)
OneReader ==
  \A x, y \in Slot : Reads(x) /\ Reads(y) /\ thread[x].dev = thread[y].dev => x = y

(* Once devices and streams stay as they are, every stream hears the device *)
(* it is on if that is there, however often it was moved and wherever a     *)
(* thread was when it was; a thread that has died of its hardware keeps its *)
(* handle, and the device is the only one not heard.                        *)
Quiet == <>[][FALSE]_environment
Dead(d) == sources[d] # None /\ thread[sources[d]].at = "exited"
StreamsHearTheirDevice ==
  Quiet => <>[](\A s \in InHub : on[s] \in present =>
                  \/ sources[on[s]] # None /\ Reads(sources[on[s]]) /\ heard[s] = on[s]
                  \/ Dead(on[s]))

(* Once they stay as they are, no device stays open that no stream is on or *)
(* that has gone: "close idle ones and ones whose device vanished".         *)
NoIdleSource ==
  Quiet => <>[](\A d \in Device : sources[d] # None => d \in Referenced \cap present)
=============================================================================
