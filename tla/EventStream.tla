------------------------------ MODULE EventStream ------------------------------
(***************************************************************************)
(* Event and level subscriptions, from the state change to the program     *)
(* that watches: the broadcast channels of the manager, the connection     *)
(* tasks and the meter task of the daemon (`daemon/event_loop.rs`), the    *)
(* wire, and the monitors of the client library (`client/src/client.rs`,   *)
(* `levels.rs`) with their reconnects.                                     *)
(*                                                                         *)
(* A connection of the daemon is three tasks: the handler reads requests   *)
(* and queues responses, a subscription task forwards broadcast events to  *)
(* the same queue, the writer writes the queue to the socket.  Every stage *)
(* has a bound and waits when the next one is full, except the broadcast   *)
(* channel, which drops its oldest event.  The daemon may die and start.   *)
(*                                                                         *)
(* Abstracted: the state is a few fields, a change gives one of them a     *)
(* number never used before, and the event carries both; level frames are  *)
(* alike; a delay of the backoff elapses.  A daemon that starts again has  *)
(* other values in all fields.                                             *)
(***************************************************************************)
EXTENDS Integers, Sequences, FiniteSets

CONSTANTS
  Field,      \* what events announce changes of: volume, profile, ...
  Task,       \* commands of the daemon that run concurrently
  Monitor,    \* monitors of client programs
  Conn,       \* connections
  MayUse,     \* bound: connections a monitor may have, by what it subscribes to
  EventCap,   \* events a broadcast channel keeps for a subscriber
  OutCap,     \* lines queued for the writer
  WireCap,    \* lines a socket buffers
  ChanCap,    \* events a monitor queues for its program
  MaxChange,  \* bound: changes of the state, restarts included
  Subscribed, Level, Refetch,  \* the response, a level frame, ClientEvent::Resync
  None

ASSUME CapAssumption == {EventCap, OutCap, WireCap, ChanCap} \subseteq Nat \ {0} /\ MaxChange \in Nat
ASSUME ConnAssumption == MayUse \in [{"events", "levels"} -> SUBSET Conn]

Value == 0 .. MaxChange
Change == [field : Field, value : Value]

ASSUME NoneAssumption == None \notin Conn \cup Change \cup [Field -> Value]
ASSUME LineAssumption ==
  /\ {Subscribed, Level, Refetch} \cap Change = {}
  /\ Subscribed # Level /\ Subscribed # Refetch /\ Level # Refetch

Event == Change \cup {Level}
Line == Event \cup {Subscribed}

VARIABLES
  up,        \* the daemon runs
  state,     \* its state
  changes,   \* how often it has changed
  emitting,  \* what a command has changed and not announced yet, or None
  overtaken, \* history: fields whose last event was not of their last change
  conn,      \* daemon's side of every connection, and its socket
  metering,  \* the meter task keeps the hardware meter running
  kind,      \* what every monitor subscribes to
  monitor,   \* what it is doing, on which connection
  chan,      \* events it has queued for its program
  known,     \* the state the program knows, or None
  listening  \* the program still holds its end

vars == <<up, state, changes, emitting, overtaken, conn, metering, kind, monitor, chan,
          known, listening>>

Free == [ handler |-> "ended", request |-> "none", sub |-> "none", events |-> <<>>, lagged |-> FALSE,
          out |-> <<>>, writer |-> FALSE, wire |-> <<>>, open |-> FALSE ]

TypeOK ==
  /\ up \in BOOLEAN
  /\ state \in [Field -> Value]
  /\ changes \in Value
  /\ emitting \in [Task -> Change \cup {None}]
  /\ overtaken \subseteq Field
  /\ \A c \in Conn :
       /\ conn[c].handler \in {"read", "respond", "ended"}
       /\ conn[c].request \in {"none", "events", "levels"}
       /\ conn[c].sub \in {"none", "events", "levels"}
       /\ conn[c].events \in Seq(Event) /\ Len(conn[c].events) <= EventCap
       /\ conn[c].out \in Seq(Line) /\ Len(conn[c].out) <= OutCap
       /\ conn[c].wire \in Seq(Line) /\ Len(conn[c].wire) <= WireCap
       /\ {conn[c].lagged, conn[c].writer, conn[c].open} \subseteq BOOLEAN
  /\ metering \in BOOLEAN
  /\ kind \in [Monitor -> {"events", "levels"}]
  /\ \A m \in Monitor :
       /\ monitor[m].pc \in {"connect", "subscribe", "resync", "stream", "backoff", "ended"}
       /\ monitor[m].conn \in Conn \cup {None}
       /\ chan[m] \in Seq(Event \cup {Refetch}) /\ Len(chan[m]) <= ChanCap
       /\ known[m] \in [Field -> Value] \cup {None}
  /\ listening \in [Monitor -> BOOLEAN]

Init ==
  /\ up = TRUE
  /\ state = [f \in Field |-> 0]
  /\ changes = 0
  /\ emitting = [t \in Task |-> None]
  /\ overtaken = {}
  /\ conn = [c \in Conn |-> Free]
  /\ metering = FALSE
  /\ kind \in [Monitor -> {"events", "levels"}]
  /\ monitor = [m \in Monitor |-> [pc |-> "connect", conn |-> None]]
  /\ chan = [m \in Monitor |-> <<>>]
  /\ known = [m \in Monitor |-> None]
  /\ listening = [m \in Monitor |-> TRUE]

daemonVars == <<up, state, changes, emitting, overtaken, metering>>
monitorVars == <<kind, monitor, chan, known, listening>>

-----------------------------------------------------------------------------
(* The daemon: changes and their events                                     *)

(* A command changes the state under the lock and sends the event after it, *)
(* so that of two commands the first may be the last to send.               *)
Watched == \E m \in Monitor : kind[m] = "events"    \* bound: the changes that matter
Handle(t, f) ==
  /\ up /\ emitting[t] = None /\ changes < MaxChange /\ Watched
  /\ changes' = changes + 1
  /\ state' = [state EXCEPT ![f] = changes']
  /\ emitting' = [emitting EXCEPT ![t] = [field |-> f, value |-> changes']]
  /\ UNCHANGED <<up, overtaken, conn, metering, monitorVars>>

(* A receiver that is behind by more than the channel holds loses the       *)
(* oldest event; its recv() says Lagged once, and the task goes on.         *)
DropOldest(queue, event) ==
  IF Len(queue) < EventCap THEN Append(queue, event) ELSE Append(Tail(queue), event)

Broadcast(channel, event) ==
  [c \in Conn |->
     IF conn[c].sub # channel THEN conn[c]
     ELSE [conn[c] EXCEPT !.events = DropOldest(@, event),
                          !.lagged = @ \/ (conn[c].open /\ Len(conn[c].events) = EventCap)]]

Emit(t) ==
  /\ up /\ emitting[t] # None
  /\ conn' = Broadcast("events", emitting[t])
  /\ emitting' = [emitting EXCEPT ![t] = None]
  /\ LET f == emitting[t].field
     IN overtaken' = IF emitting[t].value = state[f] THEN overtaken \ {f} ELSE overtaken \cup {f}
  /\ UNCHANGED <<up, state, changes, metering, monitorVars>>

(* The meter task, at every interval: without receivers it parks the        *)
(* hardware meter, else it reads the levels, which may fail, and sends.     *)
Receivers == {c \in Conn : conn[c].sub = "levels"}

Park ==
  /\ up /\ Receivers = {} /\ metering
  /\ metering' = FALSE
  /\ UNCHANGED <<up, state, changes, emitting, overtaken, conn, monitorVars>>

Measure ==
  /\ up /\ Receivers # {}
  /\ metering' = TRUE
  /\ conn' = Broadcast("levels", Level)
  /\ UNCHANGED <<up, state, changes, emitting, overtaken, monitorVars>>

MeasureFails ==
  /\ up /\ Receivers # {}
  /\ metering' = TRUE
  /\ UNCHANGED <<up, state, changes, emitting, overtaken, conn, monitorVars>>

-----------------------------------------------------------------------------
(* The daemon: one connection                                               *)

Set(c, side) == conn' = [conn EXCEPT ![c] = side]

(* The handler subscribes and starts the task, then queues the response.    *)
Subscribe(c) ==
  LET k == conn[c]
  IN /\ up /\ k.handler = "read" /\ k.request # "none"
     /\ Set(c, [k EXCEPT !.sub = k.request, !.request = "none", !.handler = "respond"])
     /\ UNCHANGED <<daemonVars, monitorVars>>

(* send() waits for room and fails once the writer has gone.                *)
Respond(c) ==
  LET k == conn[c]
  IN /\ k.handler = "respond"
     /\ \/ k.writer /\ Len(k.out) < OutCap
           /\ Set(c, [k EXCEPT !.out = Append(@, Subscribed), !.handler = "read"])
        \/ ~k.writer /\ Set(c, [k EXCEPT !.handler = "ended"])
     /\ UNCHANGED <<daemonVars, monitorVars>>

(* The handler reads end of file once the client has closed.                *)
EndOfFile(c) ==
  LET k == conn[c]
  IN /\ k.handler = "read" /\ k.request = "none" /\ ~k.open
     /\ Set(c, [k EXCEPT !.handler = "ended"])
     /\ UNCHANGED <<daemonVars, monitorVars>>

(* The subscription task learns that the client has gone from the writer.   *)
Unsubscribed(k) == [k EXCEPT !.sub = "none", !.events = <<>>]
StillSubscribed(k) == [k EXCEPT !.events = Tail(@)]          \* mutant
NobodyListens(k) == Unsubscribed(k)

Forward(c) ==
  LET k == conn[c]
  IN /\ k.sub # "none" /\ k.events # <<>>
     /\ \/ k.writer /\ Len(k.out) < OutCap
           /\ Set(c, [k EXCEPT !.out = Append(@, Head(k.events)), !.events = Tail(@)])
        \/ ~k.writer /\ Set(c, NobodyListens(k))
     /\ UNCHANGED <<daemonVars, monitorVars>>

(* A write to a socket the client has closed fails and ends the writer;     *)
(* until then the subscription task, which may queue lines, keeps it alive. *)
Write(c) ==
  LET k == conn[c]
  IN /\ k.writer /\ k.out # <<>>
     /\ \/ k.open /\ Len(k.wire) < WireCap
           /\ Set(c, [k EXCEPT !.wire = Append(@, Head(k.out)), !.out = Tail(@)])
        \/ ~k.open /\ Set(c, [k EXCEPT !.writer = FALSE, !.out = <<>>])
     /\ UNCHANGED <<daemonVars, monitorVars>>

(* The daemon dies; what the sockets hold may still be read.                *)
Crash ==
  /\ up /\ changes < MaxChange
  /\ up' = FALSE
  /\ changes' = changes + 1
  /\ state' = [f \in Field |-> changes']
  /\ emitting' = [t \in Task |-> None]
  /\ overtaken' = {}
  /\ metering' = FALSE
  /\ conn' = [c \in Conn |-> IF conn[c].open
                             THEN [Free EXCEPT !.open = TRUE, !.wire = conn[c].wire] ELSE Free]
  /\ UNCHANGED monitorVars

Start ==
  /\ ~up
  /\ up' = TRUE
  /\ UNCHANGED <<state, changes, emitting, overtaken, conn, metering, monitorVars>>

-----------------------------------------------------------------------------
(* The client: a monitor                                                    *)

At(m, pc, c) == monitor' = [monitor EXCEPT ![m] = [pc |-> pc, conn |-> c]]

(* The client closes its end; a connection without tasks is gone.           *)
Closed(c) == [conn[c] EXCEPT !.open = FALSE, !.wire = <<>>, !.lagged = FALSE]
Leave(m, pc) ==
  /\ At(m, pc, None)
  /\ Set(monitor[m].conn, Closed(monitor[m].conn))

Unused(m) == {c \in MayUse[kind[m]] : conn[c] = Free}

(* It connects and writes its request; a refused connect backs off.         *)
Connect(m) ==
  /\ monitor[m].pc = "connect"
  /\ \/ /\ up
        /\ Unused(m) # {}
        /\ LET c == CHOOSE u \in Unused(m) : TRUE
           IN /\ Set(c, [Free EXCEPT !.handler = "read", !.request = kind[m],
                                     !.writer = TRUE, !.open = TRUE])
              /\ At(m, "subscribe", c)
     \/ /\ ~up
        /\ At(m, "backoff", None)
        /\ UNCHANGED conn
  /\ UNCHANGED <<daemonVars, kind, chan, known, listening>>

(* The first line must be the response; an event that got there before it   *)
(* does not parse as one, and the monitor starts again.                     *)
StraightToEvents(m) == "stream"                              \* mutant
AfterSubscribe(m) == IF kind[m] = "events" THEN "resync" ELSE "stream"

Answer(m) ==
  LET c == monitor[m].conn
  IN /\ monitor[m].pc = "subscribe" /\ conn[c].wire # <<>>
     /\ IF Head(conn[c].wire) = Subscribed
        THEN /\ At(m, AfterSubscribe(m), c)
             /\ Set(c, [conn[c] EXCEPT !.wire = Tail(@)])
        ELSE Leave(m, "backoff")
     /\ UNCHANGED <<daemonVars, kind, chan, known, listening>>

Broken(c) == conn[c].handler = "ended"
Lost(m) ==
  /\ monitor[m].pc \in {"subscribe", "stream"} /\ Broken(monitor[m].conn)
  /\ Leave(m, "backoff")
  /\ UNCHANGED <<daemonVars, kind, chan, known, listening>>

Elapsed(m) ==
  /\ monitor[m].pc = "backoff"
  /\ At(m, "connect", None)
  /\ UNCHANGED <<daemonVars, conn, kind, chan, known, listening>>

(* Handing an event to the program waits for room; once the program has     *)
(* dropped its end it ends the monitor.                                     *)
Hand(m, event) ==
  /\ listening[m] /\ Len(chan[m]) < ChanCap
  /\ chan' = [chan EXCEPT ![m] = Append(@, event)]

Resync(m) ==
  /\ monitor[m].pc = "resync"
  /\ \/ /\ Hand(m, Refetch)
        /\ At(m, "stream", monitor[m].conn)
        /\ UNCHANGED conn
     \/ /\ ~listening[m]
        /\ Leave(m, "ended")
        /\ UNCHANGED chan
  /\ UNCHANGED <<daemonVars, kind, known, listening>>

Read(m) ==
  LET c == monitor[m].conn
  IN /\ monitor[m].pc = "stream" /\ conn[c].wire # <<>>
     /\ \/ /\ Hand(m, Head(conn[c].wire))
           /\ Set(c, [conn[c] EXCEPT !.wire = Tail(@)])
           /\ UNCHANGED monitor
        \/ /\ ~listening[m]
           /\ Leave(m, "ended")
           /\ UNCHANGED chan
     /\ UNCHANGED <<daemonVars, kind, known, listening>>

(* The program applies events in order and fetches the state on a Resync,   *)
(* on its own connection; a daemon that is down gives no answer.            *)
Learnt(m, event) ==
  IF event = Refetch THEN IF up THEN state ELSE known[m]
  ELSE IF event = Level \/ known[m] = None THEN known[m]
  ELSE [known[m] EXCEPT ![event.field] = event.value]

Consume(m) ==
  /\ chan[m] # <<>>
  /\ chan' = [chan EXCEPT ![m] = Tail(@)]
  /\ known' = [known EXCEPT ![m] = Learnt(m, Head(chan[m]))]
  /\ UNCHANGED <<daemonVars, conn, kind, monitor, listening>>

Drop(m) ==
  /\ listening[m]
  /\ listening' = [listening EXCEPT ![m] = FALSE]
  /\ chan' = [chan EXCEPT ![m] = <<>>]
  /\ UNCHANGED <<daemonVars, conn, kind, monitor, known>>

-----------------------------------------------------------------------------
Handler(c) == Subscribe(c) \/ Respond(c) \/ EndOfFile(c)
Advance(m) == Connect(m) \/ Answer(m) \/ Lost(m) \/ Elapsed(m) \/ Resync(m) \/ Read(m)

Next ==
  \/ \E t \in Task : Emit(t) \/ \E f \in Field : Handle(t, f)
  \/ Park \/ Measure \/ MeasureFails
  \/ \E c \in Conn : Handler(c) \/ Forward(c) \/ Write(c)
  \/ Crash \/ Start
  \/ \E m \in Monitor : Advance(m) \/ Consume(m) \/ Drop(m)

Spec == Init /\ [][Next]_vars

(* Ready tasks are polled, a daemon that died is started again, the meter   *)
(* reads levels again and again, and programs take what they subscribed to. *)
Fairness ==
  /\ \A t \in Task : WF_vars(Emit(t))
  /\ WF_vars(Park) /\ WF_vars(Measure) /\ WF_vars(Start)
  /\ \A c \in Conn : WF_vars(Handler(c)) /\ WF_vars(Forward(c)) /\ WF_vars(Write(c))
  /\ \A m \in Monitor : WF_vars(Advance(m)) /\ WF_vars(Consume(m))
FairSpec == Spec /\ Fairness

-----------------------------------------------------------------------------
(* Properties                                                               *)

(* A program that listens ends up knowing the state, through restarts of    *)
(* the daemon, refused connects, events that overtake the response and      *)
(* events that are announced while it fetches, unless its subscription fell *)
(* so far behind that events were dropped, of which it is never told; but a *)
(* field whose last two commands sent their events in the other order it    *)
(* may have as the first of them left it.                                   *)
Lagging(m) == monitor[m].conn # None /\ conn[monitor[m].conn].lagged
Knows(m, f) == known[m] # None /\ known[m][f] = state[f]
KnownCurrent ==
  \A m \in Monitor :
    <>[](kind[m] = "events" /\ listening[m] /\ ~Lagging(m) =>
           \A f \in Field : Knows(m, f) \/ f \in overtaken)

(* No change is lost on the way to a program that follows the events: what  *)
(* it will know of a field once it has taken everything that is under way   *)
(* is what the daemon has, unless an event of the field is still to be sent *)
(* or the last one sent was not of the last change.  The last thing under   *)
(* way that matters for the field is the event with its value or a Resync,  *)
(* or there is nothing and the program knows it already.                    *)
IsFor(line, f) == line \in Change /\ line.field = f
Absent(lines, f) == \A i \in 1 .. Len(lines) : ~IsFor(lines[i], f)
Brings(lines, f, v) ==
  \E i \in 1 .. Len(lines) :
    /\ lines[i] = Refetch \/ (IsFor(lines[i], f) /\ lines[i].value = v)
    /\ \A j \in i + 1 .. Len(lines) : ~IsFor(lines[j], f)
Rest(c) == (conn[c].wire \o conn[c].out) \o conn[c].events
UnderWay(m) == chan[m] \o Rest(monitor[m].conn)
Announced(f) ==
  f \notin overtaken /\ \A t \in Task : emitting[t] # None => emitting[t].field # f
Follows(m) ==
  /\ kind[m] = "events" /\ listening[m] /\ monitor[m].pc = "stream"
  /\ ~Broken(monitor[m].conn) /\ ~Lagging(m)
NothingLost ==
  \A m \in Monitor : Follows(m) => \A f \in Field : Announced(f) =>
    \/ Brings(UnderWay(m), f, state[f])
    \/ Absent(UnderWay(m), f) /\ Knows(m, f)

(* "the daemon parks hardware metering when nobody listens": once the level *)
(* monitors have ended, the subscription tasks they left behind end too and *)
(* the meter is parked for good.                                            *)
MeteringParks ==
  <>[](\A m \in Monitor : monitor[m].pc = "ended") => <>[](~metering)
=============================================================================
