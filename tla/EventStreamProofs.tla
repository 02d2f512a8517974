-------------------------- MODULE EventStreamProofs --------------------------
(* Proofs about EventStream: any fields, commands, monitors, connections    *)
(* and bounds of the queues, whenever the daemon dies and starts again.     *)
EXTENDS EventStream, SequenceTheorems, TLAPS

(* Lines a socket, a queue or a program may hold.                           *)
Item == Line \cup {Refetch}

NoAnswer(lines) == \A i \in 1 .. Len(lines) : lines[i] # Subscribed
OneAnswer(lines) ==
  \A i, j \in 1 .. Len(lines) : lines[i] = Subscribed /\ lines[j] = Subscribed => i = j

(* The daemon's side of a connection.                                       *)
Request == {"none", "events", "levels"}
Side ==
  [ handler : {"read", "respond", "ended"}, request : Request, sub : Request,
    events : Seq(Event), lagged : BOOLEAN, out : Seq(Line), writer : BOOLEAN,
    wire : Seq(Line), open : BOOLEAN ]
Fits(k) == Len(k.events) <= EventCap /\ Len(k.out) <= OutCap /\ Len(k.wire) <= WireCap

Phase == {"connect", "subscribe", "resync", "stream", "backoff", "ended"}
Joined == {"subscribe", "resync", "stream"}

TypeInv ==
  /\ up \in BOOLEAN
  /\ state \in [Field -> Value]
  /\ changes \in Value
  /\ emitting \in [Task -> Change \cup {None}]
  /\ overtaken \subseteq Field
  /\ conn \in [Conn -> Side]
  /\ \A c \in Conn : Fits(conn[c])
  /\ metering \in BOOLEAN
  /\ kind \in [Monitor -> {"events", "levels"}]
  /\ monitor \in [Monitor -> [pc : Phase, conn : Conn \cup {None}]]
  /\ chan \in [Monitor -> Seq(Event \cup {Refetch})]
  /\ \A m \in Monitor : Len(chan[m]) <= ChanCap
  /\ known \in [Monitor -> [Field -> Value] \cup {None}]
  /\ listening \in [Monitor -> BOOLEAN]

(* A monitor has a connection of its own while it uses one.                 *)
OwnInv ==
  /\ \A m \in Monitor : monitor[m].conn # None <=> monitor[m].pc \in Joined
  /\ \A m, n \in Monitor :
       m # n /\ monitor[m].conn # None => monitor[m].conn # monitor[n].conn

(* What a connection is like that a monitor uses: the request is still to   *)
(* be read, or the subscription runs; and there is at most one response,    *)
(* which is not on its way before it is sent and not after it was read.     *)
Link(m, k, pc) ==
  /\ k.open
  /\ k.handler # "ended" =>
       /\ up /\ k.writer
       /\ \/ /\ k.request = kind[m] /\ k.handler = "read" /\ k.sub = "none"
             /\ k.events = <<>> /\ k.out = <<>> /\ k.wire = <<>>
          \/ k.request = "none" /\ k.sub = kind[m]
  /\ OneAnswer(k.wire) /\ OneAnswer(k.out) /\ (NoAnswer(k.wire) \/ NoAnswer(k.out))
  /\ k.handler = "respond" \/ k.request # "none" \/ pc \in {"resync", "stream"} =>
       NoAnswer(k.wire) /\ NoAnswer(k.out)
  /\ pc \in {"resync", "stream"} => k.handler # "respond" /\ k.request = "none"
LinkInv ==
  \A m \in Monitor : monitor[m].conn # None => Link(m, conn[monitor[m].conn], monitor[m].pc)

Inv == TypeInv /\ OwnInv /\ LinkInv

-----------------------------------------------------------------------------
(* Lemmas about lines                                                       *)

LEMMA Caps ==
  /\ EventCap \in Nat \ {0} /\ OutCap \in Nat \ {0} /\ WireCap \in Nat \ {0}
  /\ ChanCap \in Nat \ {0} /\ MaxChange \in Nat
BY CapAssumption

LEMMA Distinct == Subscribed \notin Event /\ None \notin Change /\ Refetch \notin Event
BY LineAssumption, NoneAssumption DEF Event

LEMMA HeadTail ==
  ASSUME NEW S, NEW q \in Seq(S), q # <<>>
  PROVE  Head(q) \in S /\ Tail(q) \in Seq(S) /\ Len(Tail(q)) = Len(q) - 1
OBVIOUS

LEMMA AppendType ==
  ASSUME NEW S, NEW q \in Seq(S), NEW e \in S
  PROVE  Append(q, e) \in Seq(S) /\ Len(Append(q, e)) = Len(q) + 1
OBVIOUS

LEMMA AnswerEmpty == NoAnswer(<<>>) /\ OneAnswer(<<>>)
BY DEF NoAnswer, OneAnswer

LEMMA AnswerAppend ==
  ASSUME NEW q \in Seq(Line), NEW e \in Line
  PROVE  /\ NoAnswer(Append(q, e)) <=> NoAnswer(q) /\ e # Subscribed
         /\ OneAnswer(q) /\ (e # Subscribed \/ NoAnswer(q)) => OneAnswer(Append(q, e))
<1>1. /\ Len(q) \in Nat /\ Len(Append(q, e)) = Len(q) + 1
      /\ \A i \in 1 .. Len(q) : Append(q, e)[i] = q[i]
      /\ Append(q, e)[Len(q) + 1] = e
  OBVIOUS
<1>2. QED
  BY <1>1 DEF NoAnswer, OneAnswer

LEMMA AnswerTail ==
  ASSUME NEW q \in Seq(Line), q # <<>>
  PROVE  /\ NoAnswer(q) => NoAnswer(Tail(q)) /\ Head(q) # Subscribed
         /\ NoAnswer(Tail(q)) /\ Head(q) # Subscribed => NoAnswer(q)
         /\ OneAnswer(q) => OneAnswer(Tail(q))
         /\ OneAnswer(q) /\ Head(q) = Subscribed => NoAnswer(Tail(q))
<1>1. /\ Len(q) \in Nat \ {0} /\ Len(Tail(q)) = Len(q) - 1 /\ Head(q) = q[1]
      /\ \A i \in 1 .. Len(q) - 1 : Tail(q)[i] = q[i + 1]
  OBVIOUS
<1>2. QED
  BY <1>1 DEF NoAnswer, OneAnswer

-----------------------------------------------------------------------------
(* Type correctness: the daemon                                             *)

LEMMA ValueType == ASSUME TypeInv, changes < MaxChange PROVE changes + 1 \in Value
BY Caps DEF TypeInv, Value

LEMMA FreeType == Free \in Side /\ Fits(Free)
BY Caps DEF Free, Side, Request, Fits

LEMMA SideWith ==
  ASSUME NEW k \in Side, Fits(k), NEW e \in Seq(Event), Len(e) <= EventCap,
         NEW o \in Seq(Line), Len(o) <= OutCap, NEW w \in Seq(Line), Len(w) <= WireCap
  PROVE  /\ [k EXCEPT !.out = o, !.events = e] \in Side
         /\ Fits([k EXCEPT !.out = o, !.events = e])
         /\ [k EXCEPT !.wire = w, !.out = o] \in Side
         /\ Fits([k EXCEPT !.wire = w, !.out = o])
         /\ [k EXCEPT !.open = TRUE, !.wire = w] \in Side
         /\ Fits([k EXCEPT !.open = TRUE, !.wire = w])
         /\ [k EXCEPT !.writer = FALSE, !.out = o] \in Side
         /\ Fits([k EXCEPT !.writer = FALSE, !.out = o])
         /\ [k EXCEPT !.sub = "none", !.events = e] \in Side
         /\ Fits([k EXCEPT !.sub = "none", !.events = e])
         /\ [k EXCEPT !.wire = w] \in Side
         /\ Fits([k EXCEPT !.wire = w])
         /\ [k EXCEPT !.open = FALSE, !.wire = w, !.lagged = FALSE] \in Side
         /\ Fits([k EXCEPT !.open = FALSE, !.wire = w, !.lagged = FALSE])
BY DEF Side, Request, Fits

LEMMA NoLines ==
  <<>> \in Seq(Event) /\ <<>> \in Seq(Line) /\ Len(<<>>) <= EventCap /\ Len(<<>>) <= OutCap
  /\ Len(<<>>) <= WireCap
BY Caps

(* What the daemon does without its connections.                            *)
LEMMA Apart ==
  ASSUME Inv, UNCHANGED <<up, conn, monitorVars>>,
         state' \in [Field -> Value], changes' \in Value,
         emitting' \in [Task -> Change \cup {None}], overtaken' \subseteq Field,
         metering' \in BOOLEAN
  PROVE  Inv'
<1>1. TypeInv'
  BY DEF Inv, TypeInv, monitorVars
<1>2. OwnInv'
  BY DEF Inv, OwnInv, monitorVars
<1>3. LinkInv'
  BY DEF Inv, LinkInv, Link, monitorVars
<1>4. QED
  BY <1>1, <1>2, <1>3 DEF Inv

LEMMA HandleInv == ASSUME Inv, NEW t \in Task, NEW f \in Field, Handle(t, f) PROVE Inv'
<1>1. changes' \in Value
  BY ValueType DEF Inv, Handle
<1>2. [field |-> f, value |-> changes'] \in Change
  BY <1>1 DEF Change
<1>3. state' \in [Field -> Value] /\ emitting' \in [Task -> Change \cup {None}]
  BY <1>1, <1>2 DEF Handle, Inv, TypeInv
<1>4. QED
  BY <1>1, <1>3, Apart DEF Handle, Inv, TypeInv

LEMMA DropOldestType ==
  ASSUME NEW q \in Seq(Event), Len(q) <= EventCap, NEW e \in Event
  PROVE  /\ DropOldest(q, e) \in Seq(Event)
         /\ Len(DropOldest(q, e)) <= EventCap
<1>1. CASE Len(q) < EventCap
  BY <1>1, Caps, AppendType DEF DropOldest
<1>2. CASE ~(Len(q) < EventCap)
  <2>1. q # <<>> /\ Len(q) = EventCap
    BY <1>2, Caps
  <2>2. Tail(q) \in Seq(Event) /\ Len(Tail(q)) = Len(q) - 1
    BY <2>1, HeadTail
  <2>3. QED
    BY <1>2, <2>1, <2>2, Caps, AppendType DEF DropOldest
<1>3. QED
  BY <1>1, <1>2

LEMMA BroadcastSide ==
  ASSUME TypeInv, NEW channel \in {"events", "levels"}, NEW e \in Event, NEW c \in Conn
  PROVE  LET k == Broadcast(channel, e)[c]
         IN /\ k \in Side /\ Fits(k)
            /\ conn[c].sub # channel => k = conn[c]
            /\ conn[c].sub = channel =>
                 k.events = DropOldest(conn[c].events, e)
                 /\ k.lagged = (conn[c].lagged \/ (conn[c].open /\ Len(conn[c].events) = EventCap))
            /\ /\ k.handler = conn[c].handler /\ k.request = conn[c].request /\ k.sub = conn[c].sub
               /\ k.out = conn[c].out /\ k.writer = conn[c].writer
               /\ k.wire = conn[c].wire /\ k.open = conn[c].open
<1>1. conn[c] \in Side /\ Fits(conn[c])
  BY DEF TypeInv
<1>2. CASE conn[c].sub # channel
  BY <1>1, <1>2 DEF Broadcast
<1>3. CASE conn[c].sub = channel
  <2> DEFINE new == DropOldest(conn[c].events, e)
             lag == conn[c].lagged \/ (conn[c].open /\ Len(conn[c].events) = EventCap)
  <2>1. new \in Seq(Event) /\ Len(new) <= EventCap
    BY <1>1, DropOldestType DEF Side, Fits
  <2>2. lag \in BOOLEAN
    BY <1>1 DEF Side
  <2>3. Broadcast(channel, e)[c] = [conn[c] EXCEPT !.events = new, !.lagged = lag]
    BY <1>1, <1>3 DEF Broadcast, Side
  <2> HIDE DEF new, lag
  <2>4. [conn[c] EXCEPT !.events = new, !.lagged = lag] \in Side
    BY <1>1, <2>1, <2>2 DEF Side
  <2>5. QED
    BY <1>1, <1>3, <2>1, <2>3, <2>4 DEF Side, Fits, new, lag
<1>4. QED
  BY <1>2, <1>3

LEMMA BroadcastInv ==
  ASSUME Inv, NEW channel \in {"events", "levels"}, NEW e \in Event,
         conn' = Broadcast(channel, e),
         UNCHANGED <<up, state, changes, monitorVars>>,
         emitting' \in [Task -> Change \cup {None}], overtaken' \subseteq Field,
         metering' \in BOOLEAN
  PROVE  Inv'
<1>1. conn' \in [Conn -> Side] /\ \A c \in Conn : Fits(conn'[c])
  <2>1. conn' = [c \in Conn |-> conn'[c]]
    BY DEF Broadcast
  <2>2. QED
    BY <2>1, BroadcastSide DEF Inv
<1>2. TypeInv'
  BY <1>1 DEF Inv, TypeInv, monitorVars
<1>3. OwnInv'
  BY DEF Inv, OwnInv, monitorVars
<1>4. LinkInv'
  <2> SUFFICES ASSUME NEW m \in Monitor, monitor'[m].conn # None
               PROVE  Link(m, conn[monitor[m].conn], monitor[m].pc)'
    BY DEF LinkInv
  <2> DEFINE c == monitor[m].conn
  <2>1. monitor' = monitor /\ kind' = kind /\ c \in Conn /\ kind[m] \in {"events", "levels"}
    BY DEF Inv, TypeInv, monitorVars
  <2>2. Link(m, conn[c], monitor[m].pc)
    BY <2>1 DEF Inv, LinkInv
  <2>3. /\ conn'[c].handler = conn[c].handler /\ conn'[c].request = conn[c].request
        /\ conn'[c].sub = conn[c].sub /\ conn'[c].out = conn[c].out
        /\ conn'[c].writer = conn[c].writer /\ conn'[c].wire = conn[c].wire
        /\ conn'[c].open = conn[c].open
        /\ conn[c].sub # channel => conn'[c] = conn[c]
    BY <2>1, BroadcastSide DEF Inv
  <2> HIDE DEF c
  <2>4. Link(m, conn'[c], monitor[m].pc)
    BY <2>1, <2>2, <2>3 DEF Link
  <2>5. QED
    BY <2>1, <2>4 DEF Link, c
<1>5. QED
  BY <1>2, <1>3, <1>4 DEF Inv

LEMMA MeterInv == ASSUME Inv, Park \/ Measure \/ MeasureFails PROVE Inv'
<1>1. emitting \in [Task -> Change \cup {None}] /\ state \in [Field -> Value] /\ changes \in Value
      /\ overtaken \subseteq Field
  BY DEF Inv, TypeInv
<1>2. Level \in Event
  BY DEF Event
<1>3. CASE Park \/ MeasureFails
  BY <1>1, <1>3, Apart DEF Park, MeasureFails
<1>4. CASE Measure
  BY <1>1, <1>2, <1>4, BroadcastInv DEF Measure
<1>5. QED
  BY <1>3, <1>4

LEMMA EmitInv == ASSUME Inv, NEW t \in Task, Emit(t) PROVE Inv'
<1>1. emitting[t] \in Event /\ metering \in BOOLEAN
  BY DEF Inv, TypeInv, Emit, Event
<1>2. emitting' \in [Task -> Change \cup {None}] /\ overtaken' \subseteq Field
  <2>1. emitting[t].field \in Field /\ overtaken \subseteq Field
    BY DEF Inv, TypeInv, Emit, Change
  <2>2. overtaken' \subseteq Field
    BY <2>1 DEF Emit
  <2>3. QED
    BY <2>2 DEF Inv, TypeInv, Emit
<1>3. QED
  BY <1>1, <1>2, BroadcastInv DEF Emit

LEMMA CrashInv == ASSUME Inv, Crash PROVE Inv'
<1> DEFINE Left(c) == [Free EXCEPT !.open = TRUE, !.wire = conn[c].wire]
<1>1. changes' \in Value
  BY ValueType DEF Inv, Crash
<1>2. ASSUME NEW c \in Conn PROVE Left(c) \in Side /\ Fits(Left(c))
  <2>1. conn[c].wire \in Seq(Line) /\ Len(conn[c].wire) <= WireCap
    BY DEF Inv, TypeInv, Side, Fits
  <2>2. QED
    BY <2>1, NoLines, FreeType, SideWith
<1>3. conn' = [c \in Conn |-> IF conn[c].open THEN Left(c) ELSE Free]
  BY DEF Crash
<1>4. conn' \in [Conn -> Side] /\ \A c \in Conn : Fits(conn'[c])
  <2> HIDE DEF Left
  <2> QED
    BY <1>2, <1>3, FreeType
<1>5. TypeInv'
  BY <1>1, <1>4 DEF Inv, TypeInv, Crash, monitorVars
<1>6. OwnInv'
  BY DEF Inv, OwnInv, Crash, monitorVars
<1>7. LinkInv'
  <2> SUFFICES ASSUME NEW m \in Monitor, monitor'[m].conn # None
               PROVE  Link(m, conn[monitor[m].conn], monitor[m].pc)'
    BY DEF LinkInv
  <2> DEFINE c == monitor[m].conn
  <2>1. monitor' = monitor /\ kind' = kind /\ c \in Conn
    BY DEF Inv, TypeInv, Crash, monitorVars
  <2>2. Link(m, conn[c], monitor[m].pc)
    BY <2>1 DEF Inv, LinkInv
  <2>3. conn'[c] = Left(c)
    BY <1>3, <2>1, <2>2 DEF Link
  <2>4. /\ conn'[c].open /\ conn'[c].handler = "ended" /\ conn'[c].request = "none"
        /\ conn'[c].out = <<>> /\ conn'[c].wire = conn[c].wire
    <3>1. Free \in Side /\ Free.handler = "ended" /\ Free.request = "none" /\ Free.out = <<>>
      BY FreeType DEF Free
    <3>2. QED
      BY <2>3, <3>1 DEF Side
  <2> HIDE DEF c
  <2>5. QED
    BY <2>1, <2>2, <2>4, AnswerEmpty DEF Link, c
<1>8. QED
  BY <1>5, <1>6, <1>7 DEF Inv

LEMMA StartInv == ASSUME Inv, Start PROVE Inv'
<1>1. TypeInv'
  BY DEF Inv, TypeInv, Start, monitorVars
<1>2. OwnInv'
  BY DEF Inv, OwnInv, Start, monitorVars
<1>3. LinkInv'
  BY DEF Inv, LinkInv, Link, Start, monitorVars
<1>4. QED
  BY <1>1, <1>2, <1>3 DEF Inv

-----------------------------------------------------------------------------
(* Type correctness: one connection of the daemon                           *)

LEMMA SideInv ==
  ASSUME Inv, NEW c \in Conn, NEW k \in Side, Fits(k), Set(c, k),
         UNCHANGED <<daemonVars, monitorVars>>,
         \A m \in Monitor : LET pc == monitor[m].pc
                            IN monitor[m].conn = c /\ Link(m, conn[c], pc) => Link(m, k, pc)
  PROVE  Inv'
<1>0. conn' = [conn EXCEPT ![c] = k] /\ conn \in [Conn -> Side] /\ \A d \in Conn : Fits(conn[d])
  BY DEF Set, Inv, TypeInv
<1>1. conn' \in [Conn -> Side] /\ \A d \in Conn : Fits(conn'[d])
  BY <1>0
<1>2. TypeInv'
  BY <1>1 DEF Inv, TypeInv, daemonVars, monitorVars
<1>3. OwnInv'
  BY DEF Inv, OwnInv, monitorVars
<1>4. LinkInv'
  <2> SUFFICES ASSUME NEW m \in Monitor, monitor'[m].conn # None
               PROVE  Link(m, conn[monitor[m].conn], monitor[m].pc)'
    BY DEF LinkInv
  <2> DEFINE d == monitor[m].conn
  <2>1. monitor' = monitor /\ kind' = kind /\ up' = up /\ d \in Conn
    BY DEF Inv, TypeInv, daemonVars, monitorVars
  <2>2. Link(m, conn[d], monitor[m].pc)
    BY <2>1 DEF Inv, LinkInv
  <2>3. Link(m, conn'[d], monitor[m].pc)
    BY <1>0, <2>1, <2>2
  <2> HIDE DEF d
  <2>4. QED
    BY <2>1, <2>3 DEF Link, d
<1>5. QED
  BY <1>2, <1>3, <1>4 DEF Inv

LEMMA SideOf ==
  ASSUME Inv, NEW c \in Conn
  PROVE  conn[c] \in Side /\ Fits(conn[c]) /\ \A m \in Monitor : kind[m] \in {"events", "levels"}
BY DEF Inv, TypeInv

LEMMA SubscribeInv == ASSUME Inv, NEW c \in Conn, Subscribe(c) PROVE Inv'
<1> DEFINE new == [conn[c] EXCEPT !.sub = conn[c].request, !.request = "none", !.handler = "respond"]
<1>1. conn[c] \in Side /\ Fits(conn[c])
  BY SideOf
<1>2. new \in Side /\ Fits(new)
  BY <1>1 DEF Side, Request, Fits
<1>3. /\ new.handler = "respond" /\ new.request = "none" /\ new.sub = conn[c].request
      /\ new.out = conn[c].out /\ new.wire = conn[c].wire /\ new.writer = conn[c].writer
      /\ new.open = conn[c].open
  BY <1>1 DEF Side
<1>4. Set(c, new) /\ UNCHANGED <<daemonVars, monitorVars>>
      /\ conn[c].handler = "read" /\ conn[c].request # "none"
  BY DEF Subscribe
<1> HIDE DEF new
<1>5. ASSUME NEW m \in Monitor, Link(m, conn[c], monitor[m].pc) PROVE Link(m, new, monitor[m].pc)
  BY <1>3, <1>4, <1>5, SideOf DEF Link
<1>6. QED
  BY <1>2, <1>4, <1>5, SideInv

LEMMA RespondInv == ASSUME Inv, NEW c \in Conn, Respond(c) PROVE Inv'
<1>1. conn[c] \in Side /\ Fits(conn[c])
  BY SideOf
<1>2. CASE conn[c].writer
  <2> DEFINE out == Append(conn[c].out, Subscribed)
             new == [conn[c] EXCEPT !.out = out, !.handler = "read"]
  <2>1. conn[c].out \in Seq(Line) /\ Subscribed \in Line /\ Len(conn[c].out) < OutCap
    BY <1>1, <1>2 DEF Side, Respond, Line
  <2>2. out \in Seq(Line) /\ Len(out) <= OutCap
    BY <2>1, AppendType, Caps
  <2>3. Set(c, new) /\ UNCHANGED <<daemonVars, monitorVars>> /\ conn[c].handler = "respond"
    BY <1>1, <1>2 DEF Respond, Side
  <2>4. NoAnswer(conn[c].out) => OneAnswer(out)
    BY <2>1, AnswerAppend DEF NoAnswer, OneAnswer
  <2> HIDE DEF out
  <2>5. /\ new \in Side /\ Fits(new)
        /\ new.handler = "read" /\ new.request = conn[c].request /\ new.sub = conn[c].sub
        /\ new.out = out /\ new.wire = conn[c].wire /\ new.writer = conn[c].writer
        /\ new.open = conn[c].open
    BY <1>1, <2>2 DEF Side, Fits
  <2> HIDE DEF new
  <2>6. ASSUME NEW m \in Monitor, Link(m, conn[c], monitor[m].pc) PROVE Link(m, new, monitor[m].pc)
    <3>1. NoAnswer(conn[c].wire) /\ NoAnswer(conn[c].out) /\ conn[c].request = "none"
          /\ monitor[m].pc \notin {"resync", "stream"}
      BY <2>3, <2>6, SideOf DEF Link
    <3>2. QED
      BY <2>3, <2>4, <2>5, <2>6, <3>1 DEF Link
  <2>7. QED
    BY <2>3, <2>5, <2>6, SideInv
<1>3. CASE ~conn[c].writer
  <2> DEFINE new == [conn[c] EXCEPT !.handler = "ended"]
  <2>1. new \in Side /\ Fits(new)
    BY <1>1 DEF Side, Fits
  <2>2. Set(c, new) /\ UNCHANGED <<daemonVars, monitorVars>> /\ conn[c].handler = "respond"
    BY <1>1, <1>3 DEF Respond, Side
  <2>3. ASSUME NEW m \in Monitor, Link(m, conn[c], monitor[m].pc) PROVE FALSE
    BY <1>3, <2>2, <2>3 DEF Link
  <2> HIDE DEF new
  <2>4. QED
    BY <2>1, <2>2, <2>3, SideInv
<1>4. QED
  BY <1>2, <1>3

LEMMA EndOfFileInv == ASSUME Inv, NEW c \in Conn, EndOfFile(c) PROVE Inv'
<1> DEFINE new == [conn[c] EXCEPT !.handler = "ended"]
<1>1. new \in Side /\ Fits(new)
  BY SideOf DEF Side, Fits
<1>2. Set(c, new) /\ UNCHANGED <<daemonVars, monitorVars>> /\ ~conn[c].open
  BY DEF EndOfFile
<1>3. ASSUME NEW m \in Monitor, Link(m, conn[c], monitor[m].pc) PROVE FALSE
  BY <1>2, <1>3 DEF Link
<1> HIDE DEF new
<1>4. QED
  BY <1>1, <1>2, <1>3, SideInv

LEMMA ForwardInv == ASSUME Inv, NEW c \in Conn, Forward(c) PROVE Inv'
<1>1. conn[c] \in Side /\ Fits(conn[c])
  BY SideOf
<1>2. CASE conn[c].writer
  <2> DEFINE e == Head(conn[c].events)
             rest == Tail(conn[c].events)
             out == Append(conn[c].out, e)
             new == [conn[c] EXCEPT !.out = out, !.events = rest]
  <2>1. conn[c].out \in Seq(Line) /\ Len(conn[c].out) < OutCap
        /\ conn[c].events \in Seq(Event) /\ conn[c].events # <<>> /\ conn[c].sub # "none"
    BY <1>1, <1>2 DEF Side, Forward
  <2>2. e \in Event /\ rest \in Seq(Event) /\ Len(rest) = Len(conn[c].events) - 1
    BY <2>1, HeadTail
  <2>3. Set(c, new) /\ UNCHANGED <<daemonVars, monitorVars>>
    BY <1>1, <1>2 DEF Forward, Side
  <2> HIDE DEF e, rest
  <2>4. e \in Line /\ e # Subscribed
    BY <2>2, Distinct DEF Line
  <2>5. out \in Seq(Line) /\ Len(out) <= OutCap
    BY <2>1, <2>4, AppendType, Caps
  <2>6. /\ NoAnswer(out) <=> NoAnswer(conn[c].out)
        /\ OneAnswer(conn[c].out) => OneAnswer(out)
    BY <2>1, <2>4, AnswerAppend
  <2> HIDE DEF out
  <2>7. /\ new \in Side /\ Fits(new)
        /\ new.handler = conn[c].handler /\ new.request = conn[c].request
        /\ new.sub = conn[c].sub /\ new.out = out /\ new.wire = conn[c].wire
        /\ new.writer = conn[c].writer /\ new.open = conn[c].open
    <3>1. Len(rest) <= EventCap /\ conn[c].wire \in Seq(Line) /\ Len(conn[c].wire) <= WireCap
      BY <1>1, <2>1, <2>2, Caps DEF Side, Fits
    <3>2. new \in Side /\ Fits(new)
      BY <1>1, <2>2, <2>5, <3>1, SideWith
    <3>3. QED
      BY <1>1, <3>2 DEF Side
  <2> HIDE DEF new
  <2>8. ASSUME NEW m \in Monitor, Link(m, conn[c], monitor[m].pc) PROVE Link(m, new, monitor[m].pc)
    BY <2>1, <2>6, <2>7, <2>8 DEF Link
  <2>9. QED
    BY <2>3, <2>7, <2>8, SideInv
<1>3. CASE ~conn[c].writer
  <2> DEFINE new == NobodyListens(conn[c])
  <2>1. new \in Side /\ Fits(new)
    BY <1>1, NoLines, SideWith DEF NobodyListens, Unsubscribed
  <2>2. /\ new.handler = conn[c].handler /\ new.request = conn[c].request
        /\ new.out = conn[c].out /\ new.wire = conn[c].wire /\ new.open = conn[c].open
    BY <1>1 DEF Side, NobodyListens, Unsubscribed
  <2>3. Set(c, new) /\ UNCHANGED <<daemonVars, monitorVars>>
    BY <1>1, <1>3 DEF Forward, Side
  <2> HIDE DEF new
  <2>4. ASSUME NEW m \in Monitor, Link(m, conn[c], monitor[m].pc) PROVE Link(m, new, monitor[m].pc)
    BY <1>3, <2>2, <2>4 DEF Link
  <2>5. QED
    BY <2>1, <2>3, <2>4, SideInv
<1>4. QED
  BY <1>2, <1>3

LEMMA WriteInv == ASSUME Inv, NEW c \in Conn, Write(c) PROVE Inv'
<1>1. conn[c] \in Side /\ Fits(conn[c])
  BY SideOf
<1>2. CASE conn[c].open
  <2> DEFINE e == Head(conn[c].out)
             rest == Tail(conn[c].out)
             wire == Append(conn[c].wire, e)
             new == [conn[c] EXCEPT !.wire = wire, !.out = rest]
  <2>1. conn[c].wire \in Seq(Line) /\ Len(conn[c].wire) < WireCap
        /\ conn[c].out \in Seq(Line) /\ conn[c].out # <<>>
    BY <1>1, <1>2 DEF Side, Write
  <2>2. e \in Line /\ rest \in Seq(Line) /\ Len(rest) = Len(conn[c].out) - 1
    BY <2>1, HeadTail
  <2>3. Set(c, new) /\ UNCHANGED <<daemonVars, monitorVars>>
    BY <1>1, <1>2 DEF Write, Side
  <2>4. /\ NoAnswer(conn[c].out) <=> NoAnswer(rest) /\ e # Subscribed
        /\ OneAnswer(conn[c].out) => OneAnswer(rest) /\ (e = Subscribed => NoAnswer(rest))
    BY <2>1, AnswerTail
  <2> HIDE DEF e, rest
  <2>5. /\ wire \in Seq(Line) /\ Len(wire) <= WireCap
        /\ NoAnswer(wire) <=> NoAnswer(conn[c].wire) /\ e # Subscribed
        /\ OneAnswer(conn[c].wire) /\ (e # Subscribed \/ NoAnswer(conn[c].wire)) => OneAnswer(wire)
    BY <2>1, <2>2, AppendType, AnswerAppend, Caps
  <2> HIDE DEF wire
  <2>6. /\ new \in Side /\ Fits(new)
        /\ new.handler = conn[c].handler /\ new.request = conn[c].request
        /\ new.sub = conn[c].sub /\ new.out = rest /\ new.wire = wire
        /\ new.writer = conn[c].writer /\ new.open = conn[c].open
    <3>1. Len(rest) <= OutCap /\ conn[c].events \in Seq(Event) /\ Len(conn[c].events) <= EventCap
      BY <1>1, <2>1, <2>2, Caps DEF Side, Fits
    <3>2. new \in Side /\ Fits(new)
      BY <1>1, <2>2, <2>5, <3>1, SideWith
    <3>3. QED
      BY <1>1, <3>2 DEF Side
  <2> HIDE DEF new
  <2>7. ASSUME NEW m \in Monitor, Link(m, conn[c], monitor[m].pc) PROVE Link(m, new, monitor[m].pc)
    BY <2>1, <2>4, <2>5, <2>6, <2>7 DEF Link
  <2>8. QED
    BY <2>3, <2>6, <2>7, SideInv
<1>3. CASE ~conn[c].open
  <2> DEFINE new == [conn[c] EXCEPT !.writer = FALSE, !.out = <<>>]
  <2>1. new \in Side /\ Fits(new)
    BY <1>1, NoLines, SideWith
  <2>2. Set(c, new) /\ UNCHANGED <<daemonVars, monitorVars>>
    BY <1>1, <1>3 DEF Write, Side
  <2>3. ASSUME NEW m \in Monitor, Link(m, conn[c], monitor[m].pc) PROVE FALSE
    BY <1>3, <2>3 DEF Link
  <2> HIDE DEF new
  <2>4. QED
    BY <2>1, <2>2, <2>3, SideInv
<1>4. QED
  BY <1>2, <1>3

-----------------------------------------------------------------------------
(* Type correctness: a monitor                                              *)

(* A monitor changes itself, its connection and its program's end, no other *)
(* monitor uses that connection.                                            *)
LEMMA MonitorStep ==
  ASSUME Inv, NEW m \in Monitor, NEW pc \in Phase, NEW d \in Conn \cup {None}, At(m, pc, d),
         d # None <=> pc \in Joined,
         \A n \in Monitor : n # m /\ d # None => monitor[n].conn # d,
         conn' \in [Conn -> Side], \A c \in Conn : Fits(conn'[c]),
         \A n \in Monitor : n # m /\ monitor[n].conn # None =>
           conn'[monitor[n].conn] = conn[monitor[n].conn],
         d # None => Link(m, conn'[d], pc),
         UNCHANGED <<daemonVars, kind, known, listening>>,
         chan' \in [Monitor -> Seq(Event \cup {Refetch})],
         \A n \in Monitor : Len(chan'[n]) <= ChanCap
  PROVE  Inv'
<1>0. monitor' = [monitor EXCEPT ![m] = [pc |-> pc, conn |-> d]]
      /\ monitor \in [Monitor -> [pc : Phase, conn : Conn \cup {None}]]
  BY DEF At, Inv, TypeInv
<1>1. TypeInv'
  <2>1. monitor' \in [Monitor -> [pc : Phase, conn : Conn \cup {None}]]
    BY <1>0
  <2>2. QED
    BY <2>1 DEF Inv, TypeInv, daemonVars
<1>2. monitor'[m].pc = pc /\ monitor'[m].conn = d /\ \A n \in Monitor : n # m => monitor'[n] = monitor[n]
  BY <1>0
<1>3. OwnInv'
  BY <1>2 DEF Inv, OwnInv
<1>4. LinkInv'
  <2> SUFFICES ASSUME NEW n \in Monitor, monitor'[n].conn # None
               PROVE  Link(n, conn[monitor[n].conn], monitor[n].pc)'
    BY DEF LinkInv
  <2>0. up' = up /\ kind' = kind
    BY DEF daemonVars
  <2>1. CASE n = m
    <3>1. Link(m, conn'[d], pc)
      BY <1>2, <2>1
    <3>2. QED
      BY <1>2, <2>0, <2>1, <3>1 DEF Link
  <2>2. CASE n # m
    <3> DEFINE c == monitor[n].conn
    <3>1. monitor'[n] = monitor[n] /\ conn'[c] = conn[c]
      BY <1>2, <2>2
    <3>2. Link(n, conn[c], monitor[n].pc)
      BY <3>1 DEF Inv, LinkInv
    <3> HIDE DEF c
    <3>3. QED
      BY <2>0, <3>1, <3>2 DEF Link, c
  <2>3. QED
    BY <2>1, <2>2
<1>5. QED
  BY <1>1, <1>3, <1>4 DEF Inv

LEMMA ChanType ==
  ASSUME Inv
  PROVE  chan \in [Monitor -> Seq(Event \cup {Refetch})] /\ \A n \in Monitor : Len(chan[n]) <= ChanCap
BY DEF Inv, TypeInv

(* The connection a monitor uses.                                           *)
LEMMA Uses ==
  ASSUME Inv, NEW m \in Monitor, monitor[m].pc \in Joined
  PROVE  LET c == monitor[m].conn
         IN /\ c \in Conn /\ conn[c] \in Side /\ Fits(conn[c])
            /\ Link(m, conn[c], monitor[m].pc)
            /\ \A n \in Monitor : n # m => monitor[n].conn # c
BY DEF Inv, TypeInv, OwnInv, LinkInv

LEMMA UsedKept ==
  ASSUME Inv, NEW m \in Monitor, NEW c \in Conn, NEW k \in Side, Fits(k), Set(c, k),
         \A n \in Monitor : n # m => monitor[n].conn # c
  PROVE  /\ conn' \in [Conn -> Side] /\ conn'[c] = k
         /\ \A d \in Conn : Fits(conn'[d])
         /\ \A n \in Monitor : n # m /\ monitor[n].conn # None =>
              conn'[monitor[n].conn] = conn[monitor[n].conn]
<1>1. conn' = [conn EXCEPT ![c] = k] /\ conn \in [Conn -> Side] /\ \A d \in Conn : Fits(conn[d])
  BY DEF Set, Inv, TypeInv
<1>2. \A n \in Monitor : monitor[n].conn \in Conn \cup {None}
  BY DEF Inv, TypeInv
<1>3. QED
  BY <1>1, <1>2

LEMMA LeaveInv ==
  ASSUME Inv, NEW m \in Monitor, monitor[m].pc \in Joined, NEW pc \in Phase \ Joined, Leave(m, pc),
         UNCHANGED <<daemonVars, kind, chan, known, listening>>
  PROVE  Inv'
<1> DEFINE c == monitor[m].conn
           k == Closed(c)
<1>1. c \in Conn /\ conn[c] \in Side /\ Fits(conn[c]) /\ \A n \in Monitor : n # m => monitor[n].conn # c
  BY Uses
<1>2. k \in Side /\ Fits(k)
  <2>1. k = [conn[c] EXCEPT !.open = FALSE, !.wire = <<>>, !.lagged = FALSE]
    BY DEF Closed
  <2>2. QED
    BY <1>1, <2>1, NoLines, SideWith
<1>3. Set(c, k) /\ At(m, pc, None)
  BY DEF Leave
<1> HIDE DEF c, k
<1>4. /\ conn' \in [Conn -> Side]
      /\ \A d \in Conn : Fits(conn'[d])
      /\ \A n \in Monitor : n # m /\ monitor[n].conn # None =>
           conn'[monitor[n].conn] = conn[monitor[n].conn]
  BY <1>1, <1>2, <1>3, UsedKept
<1>5. QED
  BY <1>3, <1>4, ChanType, MonitorStep

LEMMA ConnectInv == ASSUME Inv, NEW m \in Monitor, Connect(m) PROVE Inv'
<1>1. monitor[m].pc = "connect"
  BY DEF Connect
<1>2. CASE up /\ Unused(m) # {}
  <2> DEFINE c == CHOOSE u \in Unused(m) : TRUE
             k == [Free EXCEPT !.handler = "read", !.request = kind[m], !.writer = TRUE, !.open = TRUE]
  <2>1. c \in Conn /\ conn[c] = Free
    <3>1. c \in Unused(m)
      BY <1>2
    <3> HIDE DEF c
    <3>2. kind[m] \in {"events", "levels"}
      BY DEF Inv, TypeInv
    <3>3. QED
      BY <3>1, <3>2, ConnAssumption DEF Unused
  <2>2. Set(c, k) /\ At(m, "subscribe", c)
    BY <1>2 DEF Connect
  <2> HIDE DEF c
  <2>3. Free \in Side /\ ~Free.open /\ Free.sub = "none" /\ Free.events = <<>> /\ Free.out = <<>>
        /\ Free.wire = <<>> /\ Fits(Free)
    BY FreeType DEF Free
  <2>4. kind[m] \in Request \ {"none"}
    BY DEF Request, Inv, TypeInv
  <2>5. /\ k \in Side /\ Fits(k)
        /\ k.open /\ k.writer /\ k.handler = "read" /\ k.request = kind[m] /\ k.sub = "none"
        /\ k.events = <<>> /\ k.out = <<>> /\ k.wire = <<>>
    BY <2>3, <2>4 DEF Side, Fits
  <2> HIDE DEF k
  <2>6. ASSUME NEW n \in Monitor, n # m PROVE monitor[n].conn # c
    BY <2>1, <2>3, NoneAssumption DEF Inv, LinkInv, Link
  <2>7. /\ conn' \in [Conn -> Side] /\ conn'[c] = k
        /\ \A d \in Conn : Fits(conn'[d])
        /\ \A n \in Monitor : n # m /\ monitor[n].conn # None =>
             conn'[monitor[n].conn] = conn[monitor[n].conn]
    BY <2>1, <2>2, <2>5, <2>6, UsedKept
  <2>8. Link(m, conn'[c], "subscribe")
    BY <1>2, <2>5, <2>7, AnswerEmpty DEF Link
  <2>9. c # None /\ "subscribe" \in Phase /\ "subscribe" \in Joined
    BY <2>1, NoneAssumption DEF Phase, Joined
  <2>10. UNCHANGED <<daemonVars, kind, chan, known, listening>>
    BY DEF Connect
  <2>11. QED
    BY <2>1, <2>2, <2>6, <2>7, <2>8, <2>9, <2>10, ChanType, MonitorStep
<1>3. CASE ~up
  <2>1. At(m, "backoff", None) /\ UNCHANGED <<conn, daemonVars, kind, chan, known, listening>>
    BY <1>3 DEF Connect
  <2>2. "backoff" \in Phase \ Joined
    BY DEF Phase, Joined
  <2>3. conn' \in [Conn -> Side] /\ \A c \in Conn : Fits(conn'[c])
    BY <2>1 DEF Inv, TypeInv
  <2>4. QED
    BY <2>1, <2>2, <2>3, ChanType, MonitorStep
<1>4. QED
  BY <1>2, <1>3 DEF Connect

(* What is left of a connection once a monitor has taken a line.            *)
LEMMA TakenLine ==
  ASSUME Inv, NEW m \in Monitor, monitor[m].pc \in Joined, NEW c, c = monitor[m].conn,
         conn[c].wire # <<>>, NEW k, k = [conn[c] EXCEPT !.wire = Tail(@)]
  PROVE  /\ k \in Side /\ Fits(k)
         /\ k.handler = conn[c].handler /\ k.request = conn[c].request /\ k.sub = conn[c].sub
         /\ k.events = conn[c].events /\ k.out = conn[c].out /\ k.lagged = conn[c].lagged
         /\ k.wire = Tail(conn[c].wire) /\ k.writer = conn[c].writer /\ k.open = conn[c].open
         /\ Head(conn[c].wire) \in Line
<1>1. conn[c] \in Side /\ Fits(conn[c]) /\ conn[c].wire \in Seq(Line)
  BY Uses DEF Side
<1>2. Head(conn[c].wire) \in Line /\ Tail(conn[c].wire) \in Seq(Line)
      /\ Len(Tail(conn[c].wire)) = Len(conn[c].wire) - 1
  BY <1>1, HeadTail
<1>3. /\ Len(Tail(conn[c].wire)) <= WireCap
      /\ conn[c].out \in Seq(Line) /\ Len(conn[c].out) <= OutCap
      /\ conn[c].events \in Seq(Event) /\ Len(conn[c].events) <= EventCap
  BY <1>1, <1>2, Caps DEF Side, Fits
<1> DEFINE rest == Tail(conn[c].wire)
<1>4. k = [conn[c] EXCEPT !.wire = rest]
  BY <1>1 DEF Side
<1>5. rest \in Seq(Line) /\ Len(rest) <= WireCap
  BY <1>2, <1>3
<1> HIDE DEF rest
<1>6. k \in Side /\ Fits(k)
  <2>1. [conn[c] EXCEPT !.wire = rest] \in Side /\ Fits([conn[c] EXCEPT !.wire = rest])
    BY <1>1, <1>3, <1>5, SideWith
  <2>2. QED
    BY <1>4, <2>1
<1>7. QED
  BY <1>1, <1>2, <1>4, <1>6 DEF Side, rest

LEMMA AnswerInv == ASSUME Inv, NEW m \in Monitor, Answer(m) PROVE Inv'
<1> DEFINE c == monitor[m].conn
           k == [conn[c] EXCEPT !.wire = Tail(@)]
           pc == AfterSubscribe(m)
<1>0. monitor[m].pc = "subscribe" /\ monitor[m].pc \in Joined /\ conn[c].wire # <<>>
      /\ UNCHANGED <<daemonVars, kind, chan, known, listening>>
  BY DEF Answer, Joined
<1>1. c \in Conn /\ Link(m, conn[c], "subscribe") /\ conn[c] \in Side
      /\ \A n \in Monitor : n # m => monitor[n].conn # c
  BY <1>0, Uses
<1>2. CASE Head(conn[c].wire) = Subscribed
  <2>1. /\ k \in Side /\ Fits(k)
        /\ k.handler = conn[c].handler /\ k.request = conn[c].request /\ k.sub = conn[c].sub
        /\ k.events = conn[c].events /\ k.out = conn[c].out
        /\ k.wire = Tail(conn[c].wire) /\ k.writer = conn[c].writer /\ k.open = conn[c].open
    BY <1>0, TakenLine
  <2>2. Set(c, k) /\ At(m, pc, c)
    BY <1>0, <1>2 DEF Answer
  <2> HIDE DEF k
  <2>3. /\ conn' \in [Conn -> Side] /\ conn'[c] = k
        /\ \A d \in Conn : Fits(conn'[d])
        /\ \A n \in Monitor : n # m /\ monitor[n].conn # None =>
             conn'[monitor[n].conn] = conn[monitor[n].conn]
    BY <1>1, <2>1, <2>2, UsedKept
  <2>4. conn[c].wire \in Seq(Line)
    BY <1>1 DEF Side
  <2>5. ~NoAnswer(conn[c].wire) /\ NoAnswer(Tail(conn[c].wire)) /\ NoAnswer(conn[c].out)
        /\ OneAnswer(Tail(conn[c].wire))
    BY <1>0, <1>1, <1>2, <2>4, AnswerTail DEF Link
  <2>6. conn[c].handler # "respond" /\ conn[c].request = "none"
    BY <1>1, <2>5 DEF Link
  <2>7. pc \in {"resync", "stream"} /\ pc \in Phase /\ pc \in Joined
    BY DEF AfterSubscribe, Phase, Joined
  <2> HIDE DEF c, pc
  <2>8. Link(m, k, pc)
    BY <1>0, <1>1, <2>1, <2>5, <2>6 DEF Link
  <2>9. c # None
    BY <1>1, NoneAssumption
  <2>10. QED
    BY <1>0, <1>1, <2>2, <2>3, <2>7, <2>8, <2>9, ChanType, MonitorStep
<1>3. CASE Head(conn[c].wire) # Subscribed
  <2>1. Leave(m, "backoff") /\ "backoff" \in Phase \ Joined
    BY <1>3 DEF Answer, Phase, Joined
  <2>2. QED
    BY <1>0, <2>1, LeaveInv
<1>4. QED
  BY <1>2, <1>3

LEMMA LostInv == ASSUME Inv, NEW m \in Monitor, Lost(m) PROVE Inv'
<1>1. Leave(m, "backoff") /\ "backoff" \in Phase \ Joined /\ monitor[m].pc \in Joined
      /\ UNCHANGED <<daemonVars, kind, chan, known, listening>>
  BY DEF Lost, Phase, Joined
<1>2. QED
  BY <1>1, LeaveInv

LEMMA ElapsedInv == ASSUME Inv, NEW m \in Monitor, Elapsed(m) PROVE Inv'
<1>1. At(m, "connect", None) /\ UNCHANGED <<conn, daemonVars, kind, chan, known, listening>>
  BY DEF Elapsed
<1>2. "connect" \in Phase \ Joined
  BY DEF Phase, Joined
<1>3. conn' \in [Conn -> Side] /\ \A c \in Conn : Fits(conn'[c])
  BY <1>1 DEF Inv, TypeInv
<1>4. QED
  BY <1>1, <1>2, <1>3, ChanType, MonitorStep

LEMMA HandType ==
  ASSUME Inv, NEW m \in Monitor, NEW e \in Event \cup {Refetch}, Hand(m, e)
  PROVE  /\ chan' = [chan EXCEPT ![m] = Append(chan[m], e)]
         /\ chan' \in [Monitor -> Seq(Event \cup {Refetch})]
         /\ \A n \in Monitor : Len(chan'[n]) <= ChanCap
<1>1. chan' = [chan EXCEPT ![m] = Append(chan[m], e)] /\ Len(chan[m]) < ChanCap
  BY DEF Hand
<1>2. chan[m] \in Seq(Event \cup {Refetch})
  BY ChanType
<1> DEFINE new == Append(chan[m], e)
<1>3. new \in Seq(Event \cup {Refetch}) /\ Len(new) <= ChanCap
  BY <1>1, <1>2, AppendType, Caps
<1> HIDE DEF new
<1>4. chan' = [chan EXCEPT ![m] = new]
  BY <1>1 DEF new
<1>5. QED
  BY <1>1, <1>3, <1>4, ChanType

LEMMA ResyncInv == ASSUME Inv, NEW m \in Monitor, Resync(m) PROVE Inv'
<1> DEFINE c == monitor[m].conn
<1>0. monitor[m].pc = "resync" /\ monitor[m].pc \in Joined
      /\ UNCHANGED <<daemonVars, kind, known, listening>>
  BY DEF Resync, Joined
<1>1. c \in Conn /\ Link(m, conn[c], "resync")
      /\ \A n \in Monitor : n # m => monitor[n].conn # c
  BY <1>0, Uses
<1>2. CASE Hand(m, Refetch) /\ At(m, "stream", c) /\ UNCHANGED conn
  <2>1. conn' \in [Conn -> Side] /\ \A d \in Conn : Fits(conn'[d])
    BY <1>2 DEF Inv, TypeInv
  <2>2. chan' \in [Monitor -> Seq(Event \cup {Refetch})] /\ \A n \in Monitor : Len(chan'[n]) <= ChanCap
    BY <1>2, HandType
  <2>3. "stream" \in Phase /\ "stream" \in Joined /\ c # None
    BY <1>1, NoneAssumption DEF Phase, Joined
  <2> HIDE DEF c
  <2>4. Link(m, conn'[c], "stream")
    BY <1>1, <1>2 DEF Link
  <2>5. QED
    BY <1>0, <1>1, <1>2, <2>1, <2>2, <2>3, <2>4, MonitorStep
<1>3. CASE Leave(m, "ended") /\ UNCHANGED chan
  <2>1. "ended" \in Phase \ Joined
    BY DEF Phase, Joined
  <2>2. QED
    BY <1>0, <1>3, <2>1, LeaveInv
<1>4. QED
  BY <1>2, <1>3 DEF Resync

LEMMA ReadInv == ASSUME Inv, NEW m \in Monitor, Read(m) PROVE Inv'
<1> DEFINE c == monitor[m].conn
           k == [conn[c] EXCEPT !.wire = Tail(@)]
<1>0. monitor[m].pc = "stream" /\ monitor[m].pc \in Joined /\ conn[c].wire # <<>>
      /\ UNCHANGED <<daemonVars, kind, known, listening>>
  BY DEF Read, Joined
<1>1. c \in Conn /\ Link(m, conn[c], "stream") /\ conn[c] \in Side
      /\ \A n \in Monitor : n # m => monitor[n].conn # c
  BY <1>0, Uses
<1>2. CASE Hand(m, Head(conn[c].wire)) /\ Set(c, k) /\ UNCHANGED monitor
  <2>1. /\ k \in Side /\ Fits(k)
        /\ k.handler = conn[c].handler /\ k.request = conn[c].request /\ k.sub = conn[c].sub
        /\ k.events = conn[c].events /\ k.out = conn[c].out
        /\ k.wire = Tail(conn[c].wire) /\ k.writer = conn[c].writer /\ k.open = conn[c].open
        /\ Head(conn[c].wire) \in Line
    BY <1>0, TakenLine
  <2>2. Set(c, k)
    BY <1>2
  <2> HIDE DEF k
  <2>3. /\ conn' \in [Conn -> Side] /\ conn'[c] = k
        /\ \A d \in Conn : Fits(conn'[d])
        /\ \A n \in Monitor : n # m /\ monitor[n].conn # None =>
             conn'[monitor[n].conn] = conn[monitor[n].conn]
    BY <1>1, <2>1, <2>2, UsedKept
  <2>4. conn[c].wire \in Seq(Line)
    BY <1>1 DEF Side
  <2>5. NoAnswer(Tail(conn[c].wire)) /\ NoAnswer(conn[c].out) /\ OneAnswer(Tail(conn[c].wire))
        /\ Head(conn[c].wire) # Subscribed
    BY <1>0, <1>1, <2>4, AnswerTail DEF Link
  <2>6. Head(conn[c].wire) \in Event \cup {Refetch}
    BY <2>1, <2>5 DEF Line
  <2>7. chan' \in [Monitor -> Seq(Event \cup {Refetch})] /\ \A n \in Monitor : Len(chan'[n]) <= ChanCap
    BY <1>2, <2>6, HandType
  <2>8. At(m, "stream", c)
    <3>1. monitor \in [Monitor -> [pc : Phase, conn : Conn \cup {None}]]
      BY DEF Inv, TypeInv
    <3>2. QED
      BY <1>0, <1>2, <3>1 DEF At
  <2>9. "stream" \in Phase /\ "stream" \in Joined /\ c # None
    BY <1>1, NoneAssumption DEF Phase, Joined
  <2> HIDE DEF c
  <2>10. Link(m, conn'[c], "stream")
    BY <1>0, <1>1, <2>1, <2>3, <2>5 DEF Link
  <2>11. QED
    BY <1>0, <1>1, <2>3, <2>7, <2>8, <2>9, <2>10, MonitorStep
<1>3. CASE Leave(m, "ended") /\ UNCHANGED chan
  <2>1. "ended" \in Phase \ Joined
    BY DEF Phase, Joined
  <2>2. QED
    BY <1>0, <1>3, <2>1, LeaveInv
<1>4. QED
  BY <1>2, <1>3 DEF Read

(* What the program does.                                                   *)
LEMMA ProgramInv ==
  ASSUME Inv, UNCHANGED <<daemonVars, conn, kind, monitor>>,
         chan' \in [Monitor -> Seq(Event \cup {Refetch})],
         \A n \in Monitor : Len(chan'[n]) <= ChanCap,
         known' \in [Monitor -> [Field -> Value] \cup {None}],
         listening' \in [Monitor -> BOOLEAN]
  PROVE  Inv'
<1>1. TypeInv'
  BY DEF Inv, TypeInv, daemonVars
<1>2. OwnInv'
  BY DEF Inv, OwnInv
<1>3. LinkInv'
  BY DEF Inv, LinkInv, Link, daemonVars
<1>4. QED
  BY <1>1, <1>2, <1>3 DEF Inv

LEMMA ConsumeType ==
  ASSUME Inv, NEW m \in Monitor, Consume(m)
  PROVE  /\ Head(chan[m]) \in Event \cup {Refetch}
         /\ chan' \in [Monitor -> Seq(Event \cup {Refetch})]
         /\ \A n \in Monitor : Len(chan'[n]) <= ChanCap
         /\ known' \in [Monitor -> [Field -> Value] \cup {None}]
<1> DEFINE e == Head(chan[m])
           rest == Tail(chan[m])
<1>1. e \in Event \cup {Refetch} /\ rest \in Seq(Event \cup {Refetch}) /\ Len(rest) = Len(chan[m]) - 1
  BY ChanType, HeadTail DEF Consume
<1>2. Len(rest) <= ChanCap
  BY <1>1, ChanType, Caps
<1>3. chan' = [chan EXCEPT ![m] = rest] /\ known' = [known EXCEPT ![m] = Learnt(m, e)]
  BY DEF Consume
<1> HIDE DEF e, rest
<1>4. Learnt(m, e) \in [Field -> Value] \cup {None}
  <2>1. known[m] \in [Field -> Value] \cup {None} /\ state \in [Field -> Value]
    BY DEF Inv, TypeInv
  <2>2. CASE e = Refetch \/ e = Level
    BY <2>1, <2>2, LineAssumption DEF Learnt
  <2>3. CASE ~(e = Refetch \/ e = Level)
    <3>1. e \in Change
      BY <1>1, <2>3 DEF Event
    <3>2. QED
      BY <2>1, <2>3, <3>1 DEF Learnt, Change
  <2>4. QED
    BY <2>2, <2>3
<1>5. chan' \in [Monitor -> Seq(Event \cup {Refetch})] /\ \A n \in Monitor : Len(chan'[n]) <= ChanCap
  BY <1>1, <1>2, <1>3, ChanType
<1>6. known' \in [Monitor -> [Field -> Value] \cup {None}]
  BY <1>3, <1>4 DEF Inv, TypeInv
<1>7. QED
  BY <1>1, <1>5, <1>6 DEF e

LEMMA ConsumeInv == ASSUME Inv, NEW m \in Monitor, Consume(m) PROVE Inv'
<1>1. listening \in [Monitor -> BOOLEAN]
  BY DEF Inv, TypeInv
<1>2. QED
  BY <1>1, ConsumeType, ProgramInv DEF Consume

LEMMA DropInv == ASSUME Inv, NEW m \in Monitor, Drop(m) PROVE Inv'
<1>1. listening' \in [Monitor -> BOOLEAN] /\ known' \in [Monitor -> [Field -> Value] \cup {None}]
  BY DEF Inv, TypeInv, Drop
<1>2. chan' = [chan EXCEPT ![m] = <<>>]
  BY DEF Drop
<1>3. <<>> \in Seq(Event \cup {Refetch}) /\ Len(<<>>) <= ChanCap
  BY Caps
<1>4. chan' \in [Monitor -> Seq(Event \cup {Refetch})] /\ \A n \in Monitor : Len(chan'[n]) <= ChanCap
  BY <1>2, <1>3, ChanType
<1>5. QED
  BY <1>1, <1>4, ProgramInv DEF Drop

-----------------------------------------------------------------------------
LEMMA InitInv == Init => Inv
<1> SUFFICES ASSUME Init
             PROVE  Inv
  OBVIOUS
<1>1. 0 \in Value /\ <<>> \in Seq(Event \cup {Refetch}) /\ Len(<<>>) <= ChanCap
  BY Caps DEF Value
<1>2. state \in [Field -> Value] /\ emitting \in [Task -> Change \cup {None}]
  BY <1>1 DEF Init
<1>3. conn \in [Conn -> Side] /\ \A c \in Conn : Fits(conn[c])
  BY FreeType DEF Init
<1>4. /\ chan \in [Monitor -> Seq(Event \cup {Refetch})]
      /\ \A m \in Monitor : Len(chan[m]) <= ChanCap
      /\ known \in [Monitor -> [Field -> Value] \cup {None}]
  BY <1>1 DEF Init
<1>5. monitor \in [Monitor -> [pc : Phase, conn : Conn \cup {None}]]
      /\ listening \in [Monitor -> BOOLEAN] /\ kind \in [Monitor -> {"events", "levels"}]
  BY DEF Init, Phase
<1>6. up \in BOOLEAN /\ changes \in Value /\ metering \in BOOLEAN /\ overtaken \subseteq Field
  BY <1>1 DEF Init
<1>7. TypeInv
  BY <1>2, <1>3, <1>4, <1>5, <1>6 DEF TypeInv
<1>8. OwnInv /\ LinkInv
  BY DEF Init, OwnInv, LinkInv, Joined
<1>9. QED
  BY <1>7, <1>8 DEF Inv

LEMMA NextInv == Inv /\ [Next]_vars => Inv'
<1> SUFFICES ASSUME Inv, [Next]_vars
             PROVE  Inv'
  OBVIOUS
<1>1. ASSUME NEW t \in Task, Emit(t) \/ \E f \in Field : Handle(t, f) PROVE Inv'
  BY <1>1, EmitInv, HandleInv
<1>2. CASE Park \/ Measure \/ MeasureFails
  BY <1>2, MeterInv
<1>3. ASSUME NEW c \in Conn, Handler(c) \/ Forward(c) \/ Write(c) PROVE Inv'
  BY <1>3, SubscribeInv, RespondInv, EndOfFileInv, ForwardInv, WriteInv DEF Handler
<1>4. CASE Crash \/ Start
  BY <1>4, CrashInv, StartInv
<1>5. ASSUME NEW m \in Monitor, Advance(m) \/ Consume(m) \/ Drop(m) PROVE Inv'
  BY <1>5, ConnectInv, AnswerInv, LostInv, ElapsedInv, ResyncInv, ReadInv, ConsumeInv, DropInv
     DEF Advance
<1>6. CASE UNCHANGED vars
  <2>1. TypeInv'
    BY <1>6 DEF Inv, TypeInv, vars
  <2>2. OwnInv' /\ LinkInv'
    BY <1>6 DEF Inv, OwnInv, LinkInv, Link, vars
  <2>3. QED
    BY <2>1, <2>2 DEF Inv
<1>7. QED
  BY <1>1, <1>2, <1>3, <1>4, <1>5, <1>6 DEF Next

LEMMA InvAlways == Spec => []Inv
BY InitInv, NextInv, PTL DEF Spec

(* The variables keep their types: no queue on the way of an event exceeds  *)
(* its bound, and nothing but events and Resyncs reaches a program, because *)
(* the one response is read before (`client/src/client.rs`).                *)
THEOREM TypeCorrect == Spec => []TypeOK
<1>1. Inv => TypeOK
  BY DEF Inv, TypeInv, TypeOK, Side, Request, Fits, Phase
<1>2. QED
  BY <1>1, InvAlways, PTL

-----------------------------------------------------------------------------
(* Lemmas about what is under way                                           *)

LEMMA ConcatAt ==
  ASSUME NEW S, NEW s \in Seq(S), NEW t \in Seq(S)
  PROVE  /\ s \o t \in Seq(S) /\ Len(s \o t) = Len(s) + Len(t)
         /\ Len(s) \in Nat /\ Len(t) \in Nat
         /\ \A i \in 1 .. Len(s) : (s \o t)[i] = s[i]
         /\ \A i \in 1 .. Len(t) : (s \o t)[Len(s) + i] = t[i]
OBVIOUS

LEMMA AbsentConcat ==
  ASSUME NEW s \in Seq(Item), NEW t \in Seq(Item), NEW f
  PROVE  Absent(s \o t, f) <=> Absent(s, f) /\ Absent(t, f)
<1> DEFINE a == Len(s)
           b == Len(t)
           u == s \o t
<1>1. /\ Len(u) = a + b /\ a \in Nat /\ b \in Nat
      /\ \A i \in 1 .. a : u[i] = s[i]
      /\ \A i \in 1 .. b : u[a + i] = t[i]
  BY ConcatAt
<1> HIDE DEF a, b, u
<1>2. \A i \in 1 .. a + b : i \in 1 .. a \/ (i - a \in 1 .. b /\ a + (i - a) = i)
  BY <1>1
<1>3. Absent(u, f) => (\A i \in 1 .. a : ~IsFor(s[i], f)) /\ (\A i \in 1 .. b : ~IsFor(t[i], f))
  <2>1. ASSUME Absent(u, f), NEW i \in 1 .. b PROVE ~IsFor(t[i], f)
    <3>1. a + i \in 1 .. a + b
      BY <1>1
    <3>2. QED
      BY <1>1, <2>1, <3>1 DEF Absent
  <2>2. ASSUME Absent(u, f), NEW i \in 1 .. a PROVE ~IsFor(s[i], f)
    <3>1. i \in 1 .. a + b
      BY <1>1
    <3>2. QED
      BY <1>1, <2>2, <3>1 DEF Absent
  <2>3. QED
    BY <2>1, <2>2
<1>4. (\A i \in 1 .. a : ~IsFor(s[i], f)) /\ (\A i \in 1 .. b : ~IsFor(t[i], f)) => Absent(u, f)
  <2> SUFFICES ASSUME \A i \in 1 .. a : ~IsFor(s[i], f), \A i \in 1 .. b : ~IsFor(t[i], f),
                      NEW i \in 1 .. a + b
               PROVE  ~IsFor(u[i], f)
    BY <1>1 DEF Absent
  <2>1. CASE i \in 1 .. a
    BY <1>1, <2>1
  <2>2. CASE i - a \in 1 .. b /\ a + (i - a) = i
    <3>1. u[a + (i - a)] = t[i - a]
      BY <1>1, <2>2
    <3>2. QED
      BY <2>2, <3>1
  <2>3. QED
    BY <1>2, <2>1, <2>2
<1>5. QED
  BY <1>3, <1>4 DEF Absent, a, b, u

LEMMA BringsConcat ==
  ASSUME NEW s \in Seq(Item), NEW t \in Seq(Item), NEW f, NEW v
  PROVE  Brings(s \o t, f, v) <=> Brings(t, f, v) \/ (Absent(t, f) /\ Brings(s, f, v))
<1> DEFINE a == Len(s)
           b == Len(t)
           u == s \o t
           Good(e) == e = Refetch \/ (IsFor(e, f) /\ e.value = v)
<1>1. /\ Len(u) = a + b /\ a \in Nat /\ b \in Nat
      /\ \A i \in 1 .. a : u[i] = s[i]
      /\ \A i \in 1 .. b : u[a + i] = t[i]
  BY ConcatAt
<1> HIDE DEF a, b, u
<1>2. ASSUME NEW i \in 1 .. a + b, i \notin 1 .. a
      PROVE  i - a \in 1 .. b /\ a + (i - a) = i /\ u[i] = t[i - a]
  <2>1. i - a \in 1 .. b /\ a + (i - a) = i
    BY <1>1, <1>2
  <2>2. QED
    BY <1>1, <2>1
<1>3. ASSUME NEW i \in 1 .. a + b, Good(u[i]), \A j \in i + 1 .. a + b : ~IsFor(u[j], f)
      PROVE  \/ \E k \in 1 .. b : Good(t[k]) /\ \A j \in k + 1 .. b : ~IsFor(t[j], f)
             \/ /\ \A k \in 1 .. b : ~IsFor(t[k], f)
                /\ \E k \in 1 .. a : Good(s[k]) /\ \A j \in k + 1 .. a : ~IsFor(s[j], f)
  <2> HIDE DEF Good
  <2>1. CASE i \in 1 .. a
    <3>1. ASSUME NEW k \in 1 .. b PROVE ~IsFor(t[k], f)
      <4>1. a + k \in i + 1 .. a + b
        BY <1>1, <2>1
      <4>2. QED
        BY <1>1, <1>3, <4>1
    <3>2. ASSUME NEW j \in i + 1 .. a PROVE ~IsFor(s[j], f)
      <4>1. j \in i + 1 .. a + b /\ j \in 1 .. a
        BY <1>1, <2>1
      <4>2. QED
        BY <1>1, <1>3, <4>1
    <3>3. Good(s[i])
      BY <1>1, <1>3, <2>1
    <3>4. QED
      BY <2>1, <3>1, <3>2, <3>3
  <2>2. CASE i \notin 1 .. a
    <3>1. i - a \in 1 .. b /\ Good(t[i - a])
      BY <1>2, <1>3, <2>2
    <3>2. ASSUME NEW j \in (i - a) + 1 .. b PROVE ~IsFor(t[j], f)
      <4>1. a + j \in i + 1 .. a + b /\ j \in 1 .. b
        BY <1>1, <2>2, <3>1
      <4>2. QED
        BY <1>1, <1>3, <4>1
    <3>3. QED
      BY <3>1, <3>2
  <2>3. QED
    BY <2>1, <2>2
<1>4. ASSUME NEW k \in 1 .. b, Good(t[k]), \A j \in k + 1 .. b : ~IsFor(t[j], f)
      PROVE  \E i \in 1 .. a + b : Good(u[i]) /\ \A j \in i + 1 .. a + b : ~IsFor(u[j], f)
  <2> HIDE DEF Good
  <2>1. a + k \in 1 .. a + b /\ u[a + k] = t[k]
    BY <1>1
  <2>2. ASSUME NEW j \in a + k + 1 .. a + b PROVE ~IsFor(u[j], f)
    <3>1. j \in 1 .. a + b /\ j \notin 1 .. a
      BY <1>1
    <3>2. j - a \in k + 1 .. b /\ u[j] = t[j - a]
      BY <1>1, <1>2, <3>1
    <3>3. QED
      BY <1>4, <3>2
  <2>3. QED
    BY <1>4, <2>1, <2>2
<1>5. ASSUME NEW k \in 1 .. a, Good(s[k]), \A j \in k + 1 .. a : ~IsFor(s[j], f),
             \A j \in 1 .. b : ~IsFor(t[j], f)
      PROVE  \E i \in 1 .. a + b : Good(u[i]) /\ \A j \in i + 1 .. a + b : ~IsFor(u[j], f)
  <2> HIDE DEF Good
  <2>1. k \in 1 .. a + b /\ u[k] = s[k]
    BY <1>1
  <2>2. ASSUME NEW j \in k + 1 .. a + b PROVE ~IsFor(u[j], f)
    <3>1. CASE j \in 1 .. a
      BY <1>1, <1>5, <3>1
    <3>2. CASE j \notin 1 .. a
      <4>1. j \in 1 .. a + b
        BY <1>1
      <4>2. j - a \in 1 .. b /\ u[j] = t[j - a]
        BY <1>2, <3>2, <4>1
      <4>3. QED
        BY <1>5, <4>2
    <3>3. QED
      BY <3>1, <3>2
  <2>3. QED
    BY <1>5, <2>1, <2>2
<1>6. Brings(u, f, v) <=> \E i \in 1 .. a + b : Good(u[i]) /\ \A j \in i + 1 .. a + b : ~IsFor(u[j], f)
  BY <1>1 DEF Brings
<1>7. /\ Brings(t, f, v) <=> \E k \in 1 .. b : Good(t[k]) /\ \A j \in k + 1 .. b : ~IsFor(t[j], f)
      /\ Brings(s, f, v) <=> \E k \in 1 .. a : Good(s[k]) /\ \A j \in k + 1 .. a : ~IsFor(s[j], f)
      /\ Absent(t, f) <=> \A k \in 1 .. b : ~IsFor(t[k], f)
  BY DEF Brings, Absent, a, b
<1> HIDE DEF Good
<1>8. Brings(u, f, v) <=> Brings(t, f, v) \/ (Absent(t, f) /\ Brings(s, f, v))
  BY <1>3, <1>4, <1>5, <1>6, <1>7
<1>9. QED
  BY <1>8 DEF u

LEMMA UnitLines ==
  ASSUME NEW e \in Item, NEW f, NEW v
  PROVE  /\ <<e>> \in Seq(Item)
         /\ Absent(<<e>>, f) <=> ~IsFor(e, f)
         /\ Brings(<<e>>, f, v) <=> e = Refetch \/ (IsFor(e, f) /\ e.value = v)
<1>1. <<e>> \in Seq(Item) /\ Len(<<e>>) = 1 /\ <<e>>[1] = e
  OBVIOUS
<1> DEFINE u == <<e>>
<1>2. u \in Seq(Item) /\ Len(u) = 1 /\ u[1] = e
  BY <1>1
<1> HIDE DEF u
<1>3. Absent(u, f) <=> ~IsFor(e, f)
  BY <1>2 DEF Absent
<1>4. Brings(u, f, v) <=> e = Refetch \/ (IsFor(e, f) /\ e.value = v)
  BY <1>2 DEF Brings
<1>5. QED
  BY <1>2, <1>3, <1>4 DEF u

LEMMA NothingUnderWay == ASSUME NEW f PROVE Absent(<<>>, f)
BY DEF Absent

LEMMA Split ==
  ASSUME NEW S, NEW q \in Seq(S)
  PROVE  /\ \A e \in S : Append(q, e) = q \o <<e>> /\ <<e>> \in Seq(S)
         /\ q # <<>> => q = <<Head(q)>> \o Tail(q)
OBVIOUS

(* A line that moves from one queue to the next stays where it is in all.   *)
LEMMA Moved ==
  ASSUME NEW S, NEW s \in Seq(S), NEW t \in Seq(S), t # <<>>
  PROVE  Append(s, Head(t)) \o Tail(t) = s \o t
<1>1. Head(t) \in S /\ Tail(t) \in Seq(S)
  BY HeadTail
<1>2. Append(s, Head(t)) = s \o <<Head(t)>> /\ <<Head(t)>> \in Seq(S) /\ t = <<Head(t)>> \o Tail(t)
  BY <1>1, Split
<1>3. (s \o <<Head(t)>>) \o Tail(t) = s \o (<<Head(t)>> \o Tail(t))
  BY <1>1, <1>2, ConcatAssociative
<1>4. QED
  BY <1>2, <1>3

LEMMA Widen == ASSUME NEW S, NEW T, S \subseteq T PROVE Seq(S) \subseteq Seq(T)
OBVIOUS

LEMMA ConcatAssoc ==
  ASSUME NEW r \in Seq(Item), NEW s \in Seq(Item), NEW t \in Seq(Item)
  PROVE  (r \o s) \o t = r \o (s \o t) /\ r \o s \in Seq(Item)
BY ConcatAssociative, ConcatAt

(* Lines that say the same about every field.                               *)
Alike(s, t) ==
  \A f, v : (Absent(s, f) <=> Absent(t, f)) /\ (Brings(s, f, v) <=> Brings(t, f, v))

LEMMA AlikeConcat ==
  ASSUME NEW r \in Seq(Item), NEW s \in Seq(Item), NEW t \in Seq(Item), Alike(s, t)
  PROVE  Alike(r \o s, r \o t) /\ Alike(s \o r, t \o r)
BY AbsentConcat, BringsConcat DEF Alike

(* A response or a level frame says nothing.                                *)
LEMMA Neutral ==
  ASSUME NEW e \in {Subscribed, Level}, NEW q \in Seq(Item)
  PROVE  /\ e \in Item /\ <<e>> \in Seq(Item)
         /\ Alike(q \o <<e>>, q) /\ Alike(<<e>> \o q, q)
<1>1. e \in Item /\ e # Refetch /\ e \notin Change
  BY LineAssumption DEF Item, Line, Event
<1>2. \A f, v : Absent(<<e>>, f) /\ ~Brings(<<e>>, f, v) /\ <<e>> \in Seq(Item)
  BY <1>1, UnitLines DEF IsFor
<1>3. QED
  BY <1>1, <1>2, AbsentConcat, BringsConcat DEF Alike

(* The lines of one connection, those of the socket first.                  *)
Lines(k) == (k.wire \o k.out) \o k.events

LEMMA LinesType ==
  ASSUME NEW k \in Side
  PROVE  /\ k.wire \in Seq(Line) /\ k.out \in Seq(Line) /\ k.events \in Seq(Event)
         /\ k.wire \in Seq(Item) /\ k.out \in Seq(Item) /\ k.events \in Seq(Item)
         /\ k.wire \o k.out \in Seq(Item) /\ Lines(k) \in Seq(Item)
<1>1. k.wire \in Seq(Line) /\ k.out \in Seq(Line) /\ k.events \in Seq(Event)
  BY DEF Side
<1>2. Seq(Line) \subseteq Seq(Item) /\ Seq(Event) \subseteq Seq(Item)
  BY Widen DEF Item, Line
<1>3. k.wire \in Seq(Item) /\ k.out \in Seq(Item) /\ k.events \in Seq(Item)
  BY <1>1, <1>2
<1>4. k.wire \o k.out \in Seq(Item)
  BY <1>3, ConcatAt
<1>5. Lines(k) \in Seq(Item)
  BY <1>3, <1>4, ConcatAt DEF Lines
<1>6. QED
  BY <1>1, <1>3, <1>4, <1>5

(* The event that is sent comes last.                                       *)
LEMMA LinesSent ==
  ASSUME NEW k \in Side, NEW n \in Side, NEW e \in Event,
         n.wire = k.wire, n.out = k.out, n.events = Append(k.events, e)
  PROVE  Lines(n) = Lines(k) \o <<e>> /\ <<e>> \in Seq(Item)
<1>1. k.events \in Seq(Item) /\ k.wire \o k.out \in Seq(Item) /\ e \in Item
  BY LinesType DEF Item, Line
<1>2. n.events = k.events \o <<e>> /\ <<e>> \in Seq(Item)
  BY <1>1, Split
<1>3. Lines(n) = (k.wire \o k.out) \o (k.events \o <<e>>)
  BY <1>2 DEF Lines
<1>4. QED
  BY <1>1, <1>2, <1>3, ConcatAssoc DEF Lines

(* The subscription task and the writer move lines, the handler's response  *)
(* says nothing.                                                            *)
LEMMA LinesForwarded ==
  ASSUME NEW k \in Side, NEW n \in Side, k.events # <<>>,
         n.wire = k.wire, n.out = Append(k.out, Head(k.events)), n.events = Tail(k.events)
  PROVE  Lines(n) = Lines(k)
<1>1. n.out \o n.events = k.out \o k.events
  BY LinesType, Moved
<1>2. ASSUME NEW l \in Side PROVE Lines(l) = l.wire \o (l.out \o l.events)
  <2>1. l.wire \in Seq(Item) /\ l.out \in Seq(Item) /\ l.events \in Seq(Item)
    BY LinesType
  <2>2. QED
    BY <2>1, ConcatAssoc DEF Lines
<1>3. QED
  BY <1>1, <1>2

LEMMA LinesWritten ==
  ASSUME NEW k \in Side, NEW n \in Side, k.out # <<>>,
         n.wire = Append(k.wire, Head(k.out)), n.out = Tail(k.out), n.events = k.events
  PROVE  Lines(n) = Lines(k)
<1>1. n.wire \o n.out = k.wire \o k.out
  BY LinesType, Moved
<1>2. QED
  BY <1>1 DEF Lines

LEMMA LinesAnswered ==
  ASSUME NEW k \in Side, NEW n \in Side,
         n.wire = k.wire, n.out = Append(k.out, Subscribed), n.events = k.events
  PROVE  Alike(Lines(n), Lines(k))
<1>0. k.out \in Seq(Item) /\ n.out \in Seq(Item) /\ Subscribed \in Item
  BY LinesType DEF Item, Line
<1>1. n.out = k.out \o <<Subscribed>>
  BY <1>0, Split
<1>2. Alike(n.out, k.out)
  BY <1>1, LinesType, Neutral
<1>3. Alike(n.wire \o n.out, k.wire \o k.out)
  BY <1>2, LinesType, AlikeConcat
<1>4. QED
  BY <1>3, LinesType, AlikeConcat DEF Lines

(* The line a monitor takes is the first.                                   *)
LEMMA LinesTaken ==
  ASSUME NEW k \in Side, NEW n \in Side, k.wire # <<>>,
         n.wire = Tail(k.wire), n.out = k.out, n.events = k.events
  PROVE  Lines(k) = <<Head(k.wire)>> \o Lines(n) /\ <<Head(k.wire)>> \in Seq(Item)
<1> DEFINE h == <<Head(k.wire)>>
<1>1. k.wire = h \o n.wire /\ h \in Seq(Item)
  <2>1. Head(k.wire) \in Item /\ k.wire = h \o n.wire
    BY LinesType, HeadTail, Split
  <2>2. QED
    BY <2>1, UnitLines
<1> HIDE DEF h
<1> DEFINE r == n.wire \o n.out
<1>2. n.wire \in Seq(Item) /\ n.out \in Seq(Item) /\ n.events \in Seq(Item) /\ r \in Seq(Item)
  BY LinesType
<1>3. k.wire \o k.out = h \o r
  <2>1. (h \o n.wire) \o n.out = h \o (n.wire \o n.out)
    BY <1>1, <1>2, ConcatAssoc
  <2>2. QED
    BY <1>1, <2>1
<1> HIDE DEF r
<1>5. (h \o r) \o n.events = h \o (r \o n.events)
  BY <1>1, <1>2, ConcatAssoc
<1>6. Lines(k) = h \o Lines(n)
  BY <1>3, <1>5 DEF Lines, r
<1>7. QED
  BY <1>1, <1>6 DEF h

(* What is left of lines after the first.                                   *)
LEMMA AfterFirst ==
  ASSUME NEW e \in Item, NEW t \in Seq(Item), NEW f, NEW v
  PROVE  /\ Absent(<<e>> \o t, f) <=> ~IsFor(e, f) /\ Absent(t, f)
         /\ Brings(<<e>> \o t, f, v) <=>
              \/ Brings(t, f, v)
              \/ Absent(t, f) /\ (e = Refetch \/ (IsFor(e, f) /\ e.value = v))
<1>1. /\ <<e>> \in Seq(Item)
      /\ Absent(<<e>>, f) <=> ~IsFor(e, f)
      /\ Brings(<<e>>, f, v) <=> e = Refetch \/ (IsFor(e, f) /\ e.value = v)
  BY UnitLines
<1>2. QED
  BY <1>1, AbsentConcat, BringsConcat

(* A Resync that no event of the field follows brings it.                   *)
LEMMA RefetchBrings ==
  ASSUME NEW s \in Seq(Item), NEW i \in 1 .. Len(s), s[i] = Refetch, NEW f, NEW v, Absent(s, f)
  PROVE  Brings(s, f, v)
<1>1. \A j \in i + 1 .. Len(s) : ~IsFor(s[j], f)
  BY DEF Absent
<1>2. QED
  BY <1>1 DEF Brings

-----------------------------------------------------------------------------
(* No change is lost                                                        *)

(* The monitor receives events on a connection of which none were dropped.  *)
Attached(m) ==
  /\ kind[m] = "events" /\ monitor[m].conn # None
  /\ ~Broken(monitor[m].conn) /\ ~conn[monitor[m].conn].lagged

(* Lines that say nothing else of a field than what the daemon has.         *)
Right(lines, f) == Brings(lines, f, state[f]) \/ Absent(lines, f)
Told(m, lines, f) == Brings(lines, f, state[f]) \/ (Absent(lines, f) /\ Knows(m, f))

(* While it follows the events, the program knows a state or has a Resync   *)
(* in its queue that makes it fetch one.                                    *)
Flow(m) ==
  Attached(m) =>
    /\ \A f \in Field : Announced(f) => Right(Rest(monitor[m].conn), f)
    /\ monitor[m].pc = "stream" /\ listening[m] =>
         /\ \A f \in Field : Announced(f) => Told(m, UnderWay(m), f)
         /\ known[m] # None \/ \E i \in 1 .. Len(chan[m]) : chan[m][i] = Refetch

FlowInv == \A m \in Monitor : Flow(m)

LEMMA RestType ==
  ASSUME Inv, NEW m \in Monitor
  PROVE  /\ chan[m] \in Seq(Item)
         /\ monitor[m].conn # None =>
              /\ monitor[m].conn \in Conn /\ conn[monitor[m].conn] \in Side
              /\ Rest(monitor[m].conn) = Lines(conn[monitor[m].conn])
              /\ Rest(monitor[m].conn) \in Seq(Item)
<1>1. chan[m] \in Seq(Event \cup {Refetch}) /\ Seq(Event \cup {Refetch}) \subseteq Seq(Item)
  BY ChanType, Widen DEF Item, Line
<1>2. ASSUME monitor[m].conn # None
      PROVE  monitor[m].conn \in Conn /\ conn[monitor[m].conn] \in Side
  BY <1>2 DEF Inv, TypeInv
<1>3. QED
  BY <1>1, <1>2, LinesType DEF Rest, Lines

(* Nothing about the monitor has changed but that lines that say nothing    *)
(* have come or gone and that fewer fields are announced.                   *)
LEMMA FlowKept ==
  ASSUME Inv, Inv', NEW m \in Monitor, Flow(m), monitor'[m] = monitor[m], kind' = kind,
         chan'[m] = chan[m], known'[m] = known[m], listening'[m] = listening[m],
         Attached(m)' =>
           Attached(m) /\ Alike(Rest(monitor[m].conn)', Rest(monitor[m].conn)),
         \A f \in Field : Announced(f)' => Announced(f) /\ state'[f] = state[f]
  PROVE  Flow(m)'
<1> SUFFICES ASSUME Attached(m)'
             PROVE  /\ \A f \in Field : Announced(f)' => Right(Rest(monitor[m].conn), f)'
                    /\ (monitor[m].pc = "stream" /\ listening[m])' =>
                         /\ \A f \in Field : Announced(f)' => Told(m, UnderWay(m), f)'
                         /\ (known[m] # None \/ \E i \in 1 .. Len(chan[m]) : chan[m][i] = Refetch)'
  BY DEF Flow
<1> DEFINE s == Rest(monitor[m].conn)
           q == chan[m]
<1>1. Attached(m) /\ Alike(s', s) /\ monitor[m].conn # None
  BY DEF Attached
<1>2. s \in Seq(Item) /\ s' \in Seq(Item) /\ q \in Seq(Item)
  <2>1. s \in Seq(Item) /\ q \in Seq(Item)
    BY <1>1, RestType
  <2>2. (monitor[m].conn # None => Rest(monitor[m].conn) \in Seq(Item))'
    BY RestType, PTL
  <2>3. QED
    BY <1>1, <2>1, <2>2
<1>3. UnderWay(m) = q \o s /\ UnderWay(m)' = q \o s'
  BY DEF UnderWay
<1> HIDE DEF s, q
<1>4. Alike(q \o s', q \o s)
  BY <1>1, <1>2, AlikeConcat
<1>5. ASSUME NEW f \in Field, Announced(f)'
      PROVE  Right(s, f)' /\ (monitor[m].pc = "stream" /\ listening[m] => Told(m, UnderWay(m), f)')
  <2>1. Announced(f) /\ state'[f] = state[f]
    BY <1>5
  <2>2. Right(s, f)'
    BY <1>1, <2>1 DEF Flow, Right, Alike, s
  <2>3. ASSUME monitor[m].pc = "stream", listening[m] PROVE Told(m, UnderWay(m), f)'
    <3>1. Told(m, q \o s, f)
      BY <1>1, <1>3, <2>1, <2>3 DEF Flow
    <3>2. QED
      BY <1>3, <1>4, <2>1, <3>1 DEF Told, Alike, Knows
  <2>4. QED
    BY <2>2, <2>3
<1>6. QED
  BY <1>1, <1>5 DEF Flow, s

(* The daemon: a change makes its field wait for the event.                 *)
LEMMA HandleFlow ==
  ASSUME Inv, Inv', FlowInv, NEW t \in Task, NEW f \in Field, Handle(t, f)
  PROVE  FlowInv'
<1> DEFINE e == [field |-> f, value |-> changes']
<1>1. /\ emitting[t] = None /\ UNCHANGED <<overtaken, conn, kind, monitor, chan, known, listening>>
      /\ state' = [state EXCEPT ![f] = changes'] /\ emitting' = [emitting EXCEPT ![t] = e]
  BY DEF Handle, monitorVars
<1>2. e \in Change /\ e.field = f /\ e.value = changes' /\ e # None
  BY NoneAssumption DEF Change, Inv, TypeInv
<1> HIDE DEF e
<1>3. /\ emitting'[t] = e /\ \A u \in Task : u # t => emitting'[u] = emitting[u]
      /\ \A g \in Field : g # f => state'[g] = state[g]
  BY <1>1 DEF Inv, TypeInv
<1>5. ASSUME NEW g \in Field, Announced(g)' PROVE Announced(g) /\ state'[g] = state[g]
  <2>1. g # f
    BY <1>2, <1>3, <1>5 DEF Announced
  <2>2. QED
    BY <1>1, <1>3, <1>5, <2>1 DEF Announced
<1>6. ASSUME NEW m \in Monitor PROVE Flow(m)'
  <2>1. Attached(m)' => Attached(m) /\ Alike(Rest(monitor[m].conn)', Rest(monitor[m].conn))
    BY <1>1 DEF Attached, Broken, Rest, Alike
  <2>2. QED
    BY <1>1, <1>5, <2>1, FlowKept DEF FlowInv
<1>7. QED
  BY <1>6 DEF FlowInv

(* What a broadcast on a channel does to a connection whose subscription    *)
(* does not fall behind.                                                    *)
LEMMA BroadcastRest ==
  ASSUME Inv, Inv', NEW channel \in {"events", "levels"}, NEW e \in Event,
         conn' = Broadcast(channel, e), UNCHANGED <<monitor, kind>>,
         NEW m \in Monitor, Attached(m)'
  PROVE  /\ Attached(m)
         /\ LET k == conn[monitor[m].conn]
            IN \/ channel = "events" /\ k.sub = "events"
                  /\ Rest(monitor[m].conn)' = Rest(monitor[m].conn) \o <<e>>
               \/ channel = "levels" /\ Rest(monitor[m].conn)' = Rest(monitor[m].conn)
               \/ monitor[m].pc \notin {"resync", "stream"}
                  /\ Rest(monitor[m].conn)' = Rest(monitor[m].conn)
                  /\ \A f : Absent(Rest(monitor[m].conn), f)
<1> DEFINE c == monitor[m].conn
           n == conn'[c]
<1>1. /\ monitor'[m] = monitor[m] /\ c # None /\ c \in Conn /\ conn[c] \in Side /\ Fits(conn[c])
      /\ Link(m, conn[c], monitor[m].pc) /\ kind[m] = "events"
  BY DEF Attached, Inv, TypeInv, LinkInv
<1>2. /\ n \in Side
      /\ conn[c].sub # channel => n = conn[c]
      /\ conn[c].sub = channel =>
           n.events = DropOldest(conn[c].events, e)
           /\ n.lagged = (conn[c].lagged \/ (conn[c].open /\ Len(conn[c].events) = EventCap))
      /\ n.handler = conn[c].handler /\ n.sub = conn[c].sub
      /\ n.out = conn[c].out /\ n.wire = conn[c].wire
  BY <1>1, BroadcastSide DEF Inv
<1>3. n.handler # "ended" /\ ~n.lagged
  BY <1>1 DEF Attached, Broken
<1>4. Attached(m)
  BY <1>1, <1>2, <1>3 DEF Attached, Broken
<1>5. /\ Rest(monitor[m].conn) = Lines(conn[c]) /\ Rest(monitor[m].conn)' = Lines(n)
  BY <1>1 DEF Rest, Lines
<1> HIDE DEF c, n
<1>6. CASE conn[c].sub = "none"
  <2>1. /\ conn[c].wire = <<>> /\ conn[c].out = <<>> /\ conn[c].events = <<>>
        /\ monitor[m].pc \notin {"resync", "stream"}
    BY <1>1, <1>2, <1>3, <1>6 DEF Link
  <2>2. n = conn[c]
    BY <1>2, <1>6
  <2>3. \A f : Absent(Lines(conn[c]), f)
    <3>1. <<>> \in Seq(Item)
      OBVIOUS
    <3>2. QED
      BY <2>1, <3>1, AbsentConcat, NothingUnderWay, ConcatAt DEF Lines
  <2>4. QED
    BY <1>4, <1>5, <2>1, <2>2, <2>3 DEF c
<1>7. CASE conn[c].sub # "none"
  <2>1. conn[c].sub = "events"
    BY <1>1, <1>2, <1>3, <1>7 DEF Link
  <2>2. CASE channel = "events"
    <3>1. Len(conn[c].events) # EventCap
      BY <1>1, <1>2, <1>3, <2>1, <2>2 DEF Link
    <3>2. Len(conn[c].events) < EventCap
      BY <1>1, <3>1, Caps DEF Fits, Side
    <3>3. n.events = Append(conn[c].events, e)
      BY <1>2, <2>1, <2>2, <3>2 DEF DropOldest
    <3>4. Lines(n) = Lines(conn[c]) \o <<e>>
      BY <1>1, <1>2, <3>3, LinesSent
    <3>5. QED
      BY <1>4, <1>5, <2>1, <2>2, <3>4 DEF c
  <2>3. CASE channel = "levels"
    <3>1. n = conn[c]
      BY <1>2, <2>1, <2>3
    <3>2. QED
      BY <1>4, <1>5, <2>3, <3>1
  <2>4. QED
    BY <2>2, <2>3
<1>8. QED
  BY <1>6, <1>7

LEMMA EmitFlow ==
  ASSUME Inv, Inv', FlowInv, NEW t \in Task, Emit(t)
  PROVE  FlowInv'
<1> DEFINE e == emitting[t]
<1>1. /\ e # None /\ UNCHANGED <<state, kind, monitor, chan, known, listening>>
      /\ conn' = Broadcast("events", e) /\ emitting' = [emitting EXCEPT ![t] = None]
  BY DEF Emit, monitorVars
<1>2. e \in Change /\ e \in Event /\ e \in Item /\ e # Refetch
  BY <1>1, Distinct DEF Inv, TypeInv, Event, Item, Line
<1>3. \A u \in Task : u # t => emitting'[u] = emitting[u]
  BY <1>1 DEF Inv, TypeInv
<1>4. overtaken' = IF e.value = state[e.field] THEN overtaken \ {e.field}
                   ELSE overtaken \cup {e.field}
  BY DEF Emit
<1>5. ASSUME NEW f \in Field, Announced(f)'
      PROVE  IF f = e.field THEN e.value = state[f] ELSE Announced(f)
  <2>1. f \notin overtaken'
    BY <1>5 DEF Announced
  <2>2. CASE f = e.field
    BY <1>4, <2>1, <2>2
  <2>3. CASE f # e.field
    BY <1>3, <1>4, <1>5, <2>1, <2>3 DEF Announced
  <2>4. QED
    BY <2>2, <2>3
<1> HIDE DEF e
<1>6. ASSUME NEW m \in Monitor PROVE Flow(m)'
  <2> SUFFICES ASSUME Attached(m)' PROVE Flow(m)'
    BY DEF Flow
  <2> DEFINE s == Rest(monitor[m].conn)
             q == chan[m]
  <2>0. Attached(m) /\ UnderWay(m) = q \o s /\ UnderWay(m)' = q \o s' /\ monitor[m].conn # None
    BY <1>1, <1>2, BroadcastRest DEF Attached, UnderWay
  <2>1. s \in Seq(Item) /\ q \in Seq(Item)
    BY <2>0, RestType
  <2>2. CASE s' = s \o <<e>>
    <3> HIDE DEF s, q
    <3>1. <<e>> \in Seq(Item) /\ q \o s \in Seq(Item) /\ q \o (s \o <<e>>) = (q \o s) \o <<e>>
      BY <1>2, <2>1, UnitLines, ConcatAssoc
    <3>2. ASSUME NEW f \in Field, f # e.field, Announced(f)'
          PROVE  /\ ~IsFor(e, f)
                 /\ Right(s, f)'
                 /\ monitor[m].pc = "stream" /\ listening[m] => Told(m, UnderWay(m), f)'
      <4>1. ~IsFor(e, f)
        BY <3>2 DEF IsFor
      <4>2. Absent(<<e>>, f) /\ ~Brings(<<e>>, f, state[f])
        BY <1>2, <4>1, UnitLines
      <4>3. /\ Right(s, f)
            /\ monitor[m].pc = "stream" /\ listening[m] => Told(m, q \o s, f)
        BY <1>5, <2>0, <3>2 DEF FlowInv, Flow, s
      <4>4. Right(s, f)'
        BY <1>1, <2>1, <2>2, <3>1, <4>2, <4>3, AbsentConcat, BringsConcat DEF Right
      <4>5. /\ Absent((q \o s) \o <<e>>, f) <=> Absent(q \o s, f)
            /\ Brings((q \o s) \o <<e>>, f, state[f]) <=> Brings(q \o s, f, state[f])
        BY <3>1, <4>2, AbsentConcat, BringsConcat
      <4>6. UnderWay(m)' = (q \o s) \o <<e>>
        BY <2>0, <2>2, <3>1
      <4>7. QED
        BY <1>1, <4>1, <4>3, <4>4, <4>5, <4>6 DEF Told, Knows
    <3>3. ASSUME NEW f \in Field, f = e.field, Announced(f)'
          PROVE  Right(s, f)' /\ Told(m, UnderWay(m), f)'
      <4>1. Brings(<<e>>, f, state[f])
        BY <1>2, <1>5, <3>3, UnitLines DEF IsFor
      <4>2. Brings(s \o <<e>>, f, state[f]) /\ Brings((q \o s) \o <<e>>, f, state[f])
        BY <2>1, <3>1, <4>1, BringsConcat
      <4>3. QED
        BY <1>1, <2>0, <2>2, <3>1, <4>2 DEF Right, Told
    <3>4. monitor[m].pc = "stream" /\ listening[m] =>
            known[m] # None \/ \E i \in 1 .. Len(chan[m]) : chan[m][i] = Refetch
      BY <2>0 DEF FlowInv, Flow
    <3>5. QED
      BY <1>1, <3>2, <3>3, <3>4 DEF Flow, s
  <2>3. CASE monitor[m].pc \notin {"resync", "stream"} /\ s' = s /\ \A f : Absent(s, f)
    BY <1>1, <2>3 DEF Flow, Right
  <2>4. QED
    BY <1>1, <1>2, <2>2, <2>3, BroadcastRest
<1>7. QED
  BY <1>6 DEF FlowInv

(* Everything the daemon does that leaves commands and monitors alone.      *)
LEMMA SideFlow ==
  ASSUME Inv, Inv', FlowInv, UNCHANGED <<state, emitting, overtaken, monitorVars>>,
         \A m \in Monitor :
           Attached(m)' => Attached(m) /\ Alike(Rest(monitor[m].conn)', Rest(monitor[m].conn))
  PROVE  FlowInv'
<1>2. ASSUME NEW m \in Monitor PROVE Flow(m)'
  <2>1. \A f \in Field : Announced(f)' => Announced(f) /\ state'[f] = state[f]
    BY DEF Announced
  <2>2. QED
    BY <2>1, FlowKept DEF FlowInv, monitorVars
<1>3. QED
  BY <1>2 DEF FlowInv

LEMMA MeterFlow ==
  ASSUME Inv, Inv', FlowInv, Park \/ Measure \/ MeasureFails
  PROVE  FlowInv'
<1>1. CASE Park \/ MeasureFails
  <2>1. UNCHANGED <<state, emitting, overtaken, conn, monitorVars>>
    BY <1>1 DEF Park, MeasureFails
  <2>2. ASSUME NEW m \in Monitor, Attached(m)'
        PROVE  Attached(m) /\ Alike(Rest(monitor[m].conn)', Rest(monitor[m].conn))
    BY <2>1, <2>2 DEF Attached, Broken, Rest, Alike, monitorVars
  <2>3. QED
    BY <2>1, <2>2, SideFlow
<1>2. CASE Measure
  <2>1. UNCHANGED <<state, emitting, overtaken, monitorVars>> /\ conn' = Broadcast("levels", Level)
        /\ Level \in Event /\ UNCHANGED <<monitor, kind>>
    BY <1>2 DEF Measure, Event, monitorVars
  <2>2. ASSUME NEW m \in Monitor, Attached(m)'
        PROVE  Attached(m) /\ Alike(Rest(monitor[m].conn)', Rest(monitor[m].conn))
    BY <2>1, <2>2, BroadcastRest DEF Alike
  <2>3. QED
    BY <2>1, <2>2, SideFlow
<1>3. QED
  BY <1>1, <1>2

LEMMA CrashFlow == ASSUME Inv, Inv', FlowInv, Crash PROVE FlowInv'
<1>1. /\ UNCHANGED monitorVars /\ emitting' = [t \in Task |-> None]
      /\ conn' = [c \in Conn |-> IF conn[c].open
                                 THEN [Free EXCEPT !.open = TRUE, !.wire = conn[c].wire] ELSE Free]
  BY DEF Crash
<1>2. \A c \in Conn : conn'[c].handler = "ended"
  BY <1>1 DEF Free
<1>3. \A m \in Monitor : ~Attached(m)'
  BY <1>2 DEF Attached, Broken, Inv, TypeInv
<1>4. QED
  BY <1>1, <1>3 DEF FlowInv, Flow

LEMMA StartFlow == ASSUME Inv, Inv', FlowInv, Start PROVE FlowInv'
<1>1. UNCHANGED <<state, emitting, overtaken, conn, monitorVars>>
  BY DEF Start
<1>2. ASSUME NEW m \in Monitor, Attached(m)'
      PROVE  Attached(m) /\ Alike(Rest(monitor[m].conn)', Rest(monitor[m].conn))
  BY <1>1, <1>2 DEF Attached, Broken, Rest, Alike, monitorVars
<1>3. QED
  BY <1>1, <1>2, SideFlow

(* One connection takes a step.  A monitor that still receives on it did so *)
(* before, and there is nothing new under way.                              *)
LEMMA ConnFlow ==
  ASSUME Inv, Inv', FlowInv, NEW c \in Conn, NEW k \in Side, Set(c, k),
         UNCHANGED <<daemonVars, monitorVars>>,
         \A m \in Monitor :
           Link(m, conn[c], monitor[m].pc) /\ k.handler # "ended" /\ ~k.lagged =>
             /\ conn[c].handler # "ended" /\ ~conn[c].lagged
             /\ Alike(Lines(k), Lines(conn[c]))
  PROVE  FlowInv'
<1>1. conn' = [conn EXCEPT ![c] = k] /\ conn \in [Conn -> Side]
      /\ UNCHANGED <<state, emitting, overtaken, monitorVars, monitor, kind>>
  BY DEF Set, Inv, TypeInv, daemonVars, monitorVars
<1>2. ASSUME NEW m \in Monitor, Attached(m)'
      PROVE  Attached(m) /\ Alike(Rest(monitor[m].conn)', Rest(monitor[m].conn))
  <2> DEFINE d == monitor[m].conn
  <2>1. d # None /\ d \in Conn /\ Link(m, conn[d], monitor[m].pc) /\ monitor' = monitor
    BY <1>1, <1>2 DEF Attached, Inv, TypeInv, LinkInv
  <2>2. Rest(d) = Lines(conn[d]) /\ Rest(d)' = Lines(conn'[d])
    BY <2>1 DEF Rest, Lines
  <2>3. conn'[d].handler # "ended" /\ ~conn'[d].lagged /\ kind[m] = "events"
    BY <1>1, <1>2 DEF Attached, Broken
  <2> HIDE DEF d
  <2>4. CASE d = c
    <3>1. conn'[d] = k /\ conn[d] = conn[c]
      BY <1>1, <2>1, <2>4
    <3>2. conn[c].handler # "ended" /\ ~conn[c].lagged /\ Alike(Lines(k), Lines(conn[c]))
      BY <2>1, <2>3, <3>1
    <3>3. QED
      BY <2>1, <2>2, <2>3, <3>1, <3>2 DEF Attached, Broken, d
  <2>5. CASE d # c
    <3>1. conn'[d] = conn[d]
      BY <1>1, <2>1, <2>5
    <3>2. QED
      BY <2>1, <2>2, <2>3, <3>1 DEF Attached, Broken, Alike, d
  <2>6. QED
    BY <2>4, <2>5
<1>3. QED
  BY <1>1, <1>2, SideFlow

LEMMA HandlerFlow ==
  ASSUME Inv, Inv', FlowInv, NEW c \in Conn, Handler(c)
  PROVE  FlowInv'
<1>1. conn[c] \in Side
  BY SideOf
<1>2. CASE Subscribe(c)
  <2> DEFINE new == [conn[c] EXCEPT !.sub = conn[c].request, !.request = "none", !.handler = "respond"]
  <2>1. /\ new \in Side /\ new.out = conn[c].out /\ new.wire = conn[c].wire
        /\ new.events = conn[c].events /\ new.lagged = conn[c].lagged
    BY <1>1 DEF Side, Request
  <2>2. Set(c, new) /\ UNCHANGED <<daemonVars, monitorVars>> /\ conn[c].handler = "read"
    BY <1>2 DEF Subscribe
  <2> HIDE DEF new
  <2>3. Alike(Lines(new), Lines(conn[c]))
    BY <2>1 DEF Lines, Alike
  <2>4. QED
    BY <2>1, <2>2, <2>3, ConnFlow
<1>3. CASE Respond(c) /\ conn[c].writer
  <2> DEFINE new == [conn[c] EXCEPT !.out = Append(conn[c].out, Subscribed), !.handler = "read"]
  <2>1. Append(conn[c].out, Subscribed) \in Seq(Line)
    BY <1>1, LinesType, AppendType DEF Line
  <2>2. /\ new \in Side /\ new.out = Append(conn[c].out, Subscribed) /\ new.wire = conn[c].wire
        /\ new.events = conn[c].events /\ new.lagged = conn[c].lagged
    BY <1>1, <2>1 DEF Side
  <2>3. Set(c, new) /\ UNCHANGED <<daemonVars, monitorVars>> /\ conn[c].handler = "respond"
    BY <1>1, <1>3 DEF Respond, Side
  <2> HIDE DEF new
  <2>4. Alike(Lines(new), Lines(conn[c]))
    BY <1>1, <2>2, LinesAnswered
  <2>5. QED
    BY <2>2, <2>3, <2>4, ConnFlow
<1>4. CASE EndOfFile(c) \/ (Respond(c) /\ ~conn[c].writer)
  <2> DEFINE new == [conn[c] EXCEPT !.handler = "ended"]
  <2>1. new \in Side /\ new.handler = "ended"
    BY <1>1 DEF Side
  <2>2. Set(c, new) /\ UNCHANGED <<daemonVars, monitorVars>>
    BY <1>1, <1>4 DEF Respond, EndOfFile, Side
  <2> HIDE DEF new
  <2>3. QED
    BY <2>1, <2>2, ConnFlow
<1>5. QED
  BY <1>2, <1>3, <1>4 DEF Handler

LEMMA ForwardFlow ==
  ASSUME Inv, Inv', FlowInv, NEW c \in Conn, Forward(c)
  PROVE  FlowInv'
<1>1. conn[c] \in Side
  BY SideOf
<1>2. CASE conn[c].writer
  <2> DEFINE out == Append(conn[c].out, Head(conn[c].events))
             rest == Tail(conn[c].events)
             new == [conn[c] EXCEPT !.out = out, !.events = rest]
  <2>1. conn[c].events # <<>> /\ conn[c].out \in Seq(Line) /\ conn[c].events \in Seq(Event)
    BY <1>1, LinesType DEF Forward
  <2>2. out \in Seq(Line) /\ rest \in Seq(Event)
    BY <2>1, HeadTail, AppendType DEF Line
  <2>3. Set(c, new) /\ UNCHANGED <<daemonVars, monitorVars>>
    BY <1>1, <1>2 DEF Forward, Side
  <2> HIDE DEF out, rest
  <2>4. /\ new \in Side /\ new.out = out /\ new.wire = conn[c].wire /\ new.events = rest
        /\ new.handler = conn[c].handler /\ new.lagged = conn[c].lagged
    BY <1>1, <2>2 DEF Side
  <2> HIDE DEF new
  <2>5. Lines(new) = Lines(conn[c])
    BY <1>1, <2>1, <2>4, LinesForwarded DEF out, rest
  <2>6. QED
    BY <2>3, <2>4, <2>5, ConnFlow DEF Alike
<1>3. CASE ~conn[c].writer
  <2> DEFINE new == NobodyListens(conn[c])
  <2>1. new \in Side /\ new.handler = conn[c].handler
    BY <1>1, NoLines DEF Side, Request, NobodyListens, Unsubscribed
  <2>2. Set(c, new) /\ UNCHANGED <<daemonVars, monitorVars>>
    BY <1>1, <1>3 DEF Forward, Side
  <2> HIDE DEF new
  <2>3. ASSUME NEW m \in Monitor, Link(m, conn[c], monitor[m].pc), new.handler # "ended" PROVE FALSE
    BY <1>3, <2>1, <2>3 DEF Link
  <2>4. QED
    BY <2>1, <2>2, <2>3, ConnFlow
<1>4. QED
  BY <1>2, <1>3

LEMMA WriteFlow ==
  ASSUME Inv, Inv', FlowInv, NEW c \in Conn, Write(c)
  PROVE  FlowInv'
<1>1. conn[c] \in Side
  BY SideOf
<1>2. CASE conn[c].open
  <2> DEFINE wire == Append(conn[c].wire, Head(conn[c].out))
             rest == Tail(conn[c].out)
             new == [conn[c] EXCEPT !.wire = wire, !.out = rest]
  <2>1. conn[c].out # <<>> /\ conn[c].out \in Seq(Line) /\ conn[c].wire \in Seq(Line)
    BY <1>1, LinesType DEF Write
  <2>2. wire \in Seq(Line) /\ rest \in Seq(Line)
    BY <2>1, HeadTail, AppendType
  <2>3. Set(c, new) /\ UNCHANGED <<daemonVars, monitorVars>>
    BY <1>1, <1>2 DEF Write, Side
  <2> HIDE DEF wire, rest
  <2>4. /\ new \in Side /\ new.out = rest /\ new.wire = wire /\ new.events = conn[c].events
        /\ new.handler = conn[c].handler /\ new.lagged = conn[c].lagged
    BY <1>1, <2>2 DEF Side
  <2> HIDE DEF new
  <2>5. Lines(new) = Lines(conn[c])
    BY <1>1, <2>1, <2>4, LinesWritten DEF wire, rest
  <2>6. QED
    BY <2>3, <2>4, <2>5, ConnFlow DEF Alike
<1>3. CASE ~conn[c].open
  <2> DEFINE new == [conn[c] EXCEPT !.writer = FALSE, !.out = <<>>]
  <2>1. new \in Side
    BY <1>1, NoLines DEF Side
  <2>2. Set(c, new) /\ UNCHANGED <<daemonVars, monitorVars>>
    BY <1>1, <1>3 DEF Write, Side
  <2>3. ASSUME NEW m \in Monitor, Link(m, conn[c], monitor[m].pc) PROVE FALSE
    BY <1>3, <2>3 DEF Link
  <2> HIDE DEF new
  <2>4. QED
    BY <2>1, <2>2, <2>3, ConnFlow
<1>4. QED
  BY <1>2, <1>3

(* A monitor or its program takes a step.                                   *)
LEMMA OneFlow ==
  ASSUME Inv, Inv', FlowInv, NEW m \in Monitor, UNCHANGED <<daemonVars, kind>>,
         \A n \in Monitor : n # m =>
           /\ monitor'[n] = monitor[n] /\ chan'[n] = chan[n]
           /\ known'[n] = known[n] /\ listening'[n] = listening[n]
           /\ monitor[n].conn # None => conn'[monitor[n].conn] = conn[monitor[n].conn],
         Flow(m)'
  PROVE  FlowInv'
<1>1. state' = state /\ emitting' = emitting /\ overtaken' = overtaken
  BY DEF daemonVars
<1>3. ASSUME NEW n \in Monitor, n # m PROVE Flow(n)'
  <2>1. Attached(n)' => Attached(n) /\ Alike(Rest(monitor[n].conn)', Rest(monitor[n].conn))
    BY <1>3 DEF Attached, Broken, Rest, Alike
  <2>2. \A f \in Field : Announced(f)' => Announced(f) /\ state'[f] = state[f]
    BY <1>1 DEF Announced
  <2>3. QED
    BY <1>3, <2>1, <2>2, FlowKept DEF FlowInv
<1>4. QED
  BY <1>3 DEF FlowInv

LEMMA OthersKept ==
  ASSUME Inv, NEW m \in Monitor, NEW c \in Conn, NEW k, Set(c, k),
         \A n \in Monitor : n # m => monitor[n].conn # c
  PROVE  /\ conn'[c] = k
         /\ \A n \in Monitor : n # m /\ monitor[n].conn # None =>
              conn'[monitor[n].conn] = conn[monitor[n].conn]
<1>1. conn' = [conn EXCEPT ![c] = k] /\ conn \in [Conn -> Side]
  BY DEF Set, Inv, TypeInv
<1>2. \A n \in Monitor : monitor[n].conn \in Conn \cup {None}
  BY DEF Inv, TypeInv
<1>3. QED
  BY <1>1, <1>2

LEMMA AtOne ==
  ASSUME Inv, NEW m \in Monitor, NEW pc, NEW d, At(m, pc, d)
  PROVE  /\ monitor'[m].pc = pc /\ monitor'[m].conn = d
         /\ \A n \in Monitor : n # m => monitor'[n] = monitor[n]
BY DEF At, Inv, TypeInv

LEMMA LeaveFlow ==
  ASSUME Inv, Inv', FlowInv, NEW m \in Monitor, monitor[m].pc \in Joined, NEW pc, Leave(m, pc),
         UNCHANGED <<daemonVars, kind, chan, known, listening>>
  PROVE  FlowInv'
<1> DEFINE c == monitor[m].conn
           k == Closed(c)
<1>1. c \in Conn /\ \A n \in Monitor : n # m => monitor[n].conn # c
  BY Uses
<1>2. At(m, pc, None) /\ Set(c, k)
  BY DEF Leave
<1> HIDE DEF c, k
<1>3. Flow(m)'
  BY <1>2, AtOne DEF Flow, Attached
<1>4. QED
  BY <1>1, <1>2, <1>3, AtOne, OthersKept, OneFlow

LEMMA ConnectFlow ==
  ASSUME Inv, Inv', FlowInv, NEW m \in Monitor, Connect(m)
  PROVE  FlowInv'
<1>0. UNCHANGED <<daemonVars, kind, chan, known, listening>>
  BY DEF Connect
<1>1. CASE up /\ Unused(m) # {}
  <2> DEFINE c == CHOOSE u \in Unused(m) : TRUE
             k == [Free EXCEPT !.handler = "read", !.request = kind[m], !.writer = TRUE, !.open = TRUE]
  <2>1. c \in Conn /\ conn[c] = Free
    <3>1. c \in Unused(m)
      BY <1>1
    <3> HIDE DEF c
    <3>2. kind[m] \in {"events", "levels"}
      BY DEF Inv, TypeInv
    <3>3. QED
      BY <3>1, <3>2, ConnAssumption DEF Unused
  <2>2. Set(c, k) /\ At(m, "subscribe", c)
    BY <1>1 DEF Connect
  <2> HIDE DEF c
  <2>3. Free \in Side /\ ~Free.open /\ Free.events = <<>> /\ Free.out = <<>> /\ Free.wire = <<>>
    BY FreeType DEF Free
  <2>4. k.events = <<>> /\ k.out = <<>> /\ k.wire = <<>>
    BY <2>3 DEF Side
  <2> HIDE DEF k
  <2>5. ASSUME NEW n \in Monitor, n # m PROVE monitor[n].conn # c
    BY <2>1, <2>3, NoneAssumption DEF Inv, LinkInv, Link
  <2>6. \A f : Absent(Lines(k), f)
    <3>1. <<>> \in Seq(Item)
      OBVIOUS
    <3>2. QED
      BY <2>4, <3>1, AbsentConcat, NothingUnderWay, ConcatAt DEF Lines
  <2>7. Flow(m)'
    <3>1. conn'[c] = k /\ monitor'[m].pc = "subscribe" /\ monitor'[m].conn = c
      BY <2>1, <2>2, <2>5, AtOne, OthersKept
    <3>2. Rest(monitor[m].conn)' = Lines(k)
      BY <3>1 DEF Rest, Lines
    <3>3. QED
      BY <2>6, <3>1, <3>2 DEF Flow, Right
  <2>8. QED
    BY <1>0, <2>1, <2>2, <2>5, <2>7, AtOne, OthersKept, OneFlow
<1>2. CASE ~up
  <2>1. At(m, "backoff", None) /\ UNCHANGED conn
    BY <1>2 DEF Connect
  <2>2. Flow(m)'
    BY <2>1, AtOne DEF Flow, Attached
  <2>3. QED
    BY <1>0, <2>1, <2>2, AtOne, OneFlow
<1>3. QED
  BY <1>1, <1>2 DEF Connect

(* Right lines are right without the first.                                 *)
LEMMA RightAfterFirst ==
  ASSUME NEW e \in Item, NEW t \in Seq(Item), NEW f, Right(<<e>> \o t, f)
  PROVE  Right(t, f)
BY AfterFirst DEF Right

(* What is left when the monitor has taken a line from the socket.          *)
LEMMA Taken ==
  ASSUME Inv, FlowInv, NEW m \in Monitor, monitor[m].pc \in Joined, NEW c, c = monitor[m].conn,
         conn[c].wire # <<>>, Set(c, [conn[c] EXCEPT !.wire = Tail(@)]),
         UNCHANGED <<daemonVars, kind>>, monitor'[m].conn = c
  PROVE  LET h == Head(conn[c].wire)
         IN /\ h \in Item
            /\ Rest(c) \in Seq(Item) /\ Rest(c)' \in Seq(Item) /\ Rest(c) = <<h>> \o Rest(c)'
            /\ Attached(m)' => Attached(m)
            /\ \A n \in Monitor : n # m /\ monitor[n].conn # None =>
                 conn'[monitor[n].conn] = conn[monitor[n].conn]
            /\ Attached(m)' => \A f \in Field : Announced(f)' => Right(Rest(c), f)'
<1> DEFINE k == [conn[c] EXCEPT !.wire = Tail(@)]
           h == Head(conn[c].wire)
<1>1. c \in Conn /\ conn[c] \in Side /\ \A n \in Monitor : n # m => monitor[n].conn # c
  BY Uses
<1>2. /\ k \in Side /\ k.handler = conn[c].handler /\ k.events = conn[c].events
      /\ k.out = conn[c].out /\ k.lagged = conn[c].lagged /\ k.wire = Tail(conn[c].wire)
      /\ h \in Item
  BY TakenLine DEF Item
<1> HIDE DEF k, h
<1>3. /\ conn'[c] = k
      /\ \A n \in Monitor : n # m /\ monitor[n].conn # None =>
           conn'[monitor[n].conn] = conn[monitor[n].conn]
  BY <1>1, OthersKept DEF k
<1>4. Rest(c) = Lines(conn[c]) /\ Rest(c)' = Lines(k)
  BY <1>3 DEF Rest, Lines
<1>5. Lines(conn[c]) = <<h>> \o Lines(k) /\ Lines(k) \in Seq(Item) /\ Lines(conn[c]) \in Seq(Item)
  BY <1>1, <1>2, LinesTaken, LinesType DEF h
<1>6. Attached(m)' => Attached(m)
  BY <1>2, <1>3 DEF Attached, Broken
<1>7. ASSUME Attached(m)', NEW f \in Field, Announced(f)' PROVE Right(Rest(c), f)'
  <2>1. Announced(f) /\ state' = state
    BY <1>7 DEF Announced, daemonVars
  <2>2. Right(Rest(c), f)
    BY <1>6, <1>7, <2>1 DEF FlowInv, Flow
  <2>3. Right(Lines(k), f)
    BY <1>2, <1>4, <1>5, <2>2, RightAfterFirst
  <2>4. QED
    BY <1>4, <2>1, <2>3 DEF Right
<1>8. QED
  BY <1>2, <1>3, <1>4, <1>5, <1>6, <1>7 DEF h

LEMMA AnswerFlow ==
  ASSUME Inv, Inv', FlowInv, NEW m \in Monitor, Answer(m)
  PROVE  FlowInv'
<1> SUFFICES ASSUME NEW c, c = monitor[m].conn
             PROVE  FlowInv'
  OBVIOUS
<1>0. monitor[m].pc = "subscribe" /\ monitor[m].pc \in Joined /\ conn[c].wire # <<>>
      /\ UNCHANGED <<daemonVars, kind, chan, known, listening>>
  BY DEF Answer, Joined
<1>1. CASE Head(conn[c].wire) = Subscribed
  <2>1. At(m, AfterSubscribe(m), c) /\ Set(c, [conn[c] EXCEPT !.wire = Tail(@)])
    BY <1>1 DEF Answer
  <2>2. monitor'[m].pc = AfterSubscribe(m) /\ monitor'[m].conn = c
        /\ \A n \in Monitor : n # m => monitor'[n] = monitor[n]
    BY <2>1, AtOne
  <2>3. /\ \A n \in Monitor : n # m /\ monitor[n].conn # None =>
             conn'[monitor[n].conn] = conn[monitor[n].conn]
        /\ Attached(m)' => \A f \in Field : Announced(f)' => Right(Rest(c), f)'
    BY <1>0, <2>1, <2>2, Taken
  <2>4. Attached(m)' => monitor'[m].pc = "resync"
    BY <1>0, <2>2 DEF Attached, AfterSubscribe
  <2>5. Flow(m)'
    BY <2>2, <2>3, <2>4 DEF Flow
  <2>6. QED
    BY <1>0, <2>2, <2>3, <2>5, OneFlow
<1>2. CASE Head(conn[c].wire) # Subscribed
  <2>1. Leave(m, "backoff")
    BY <1>2 DEF Answer
  <2>2. QED
    BY <1>0, <2>1, LeaveFlow
<1>3. QED
  BY <1>1, <1>2

LEMMA AwayFlow ==
  ASSUME Inv, Inv', FlowInv, NEW m \in Monitor, Lost(m) \/ Elapsed(m)
  PROVE  FlowInv'
<1>1. CASE Lost(m)
  <2>1. Leave(m, "backoff") /\ monitor[m].pc \in Joined
        /\ UNCHANGED <<daemonVars, kind, chan, known, listening>>
    BY <1>1 DEF Lost, Joined
  <2>2. QED
    BY <2>1, LeaveFlow
<1>2. CASE Elapsed(m)
  <2>1. At(m, "connect", None) /\ UNCHANGED <<daemonVars, conn, kind, chan, known, listening>>
    BY <1>2 DEF Elapsed
  <2>2. Flow(m)'
    BY <2>1, AtOne DEF Flow, Attached
  <2>3. QED
    BY <2>1, <2>2, AtOne, OneFlow
<1>3. QED
  BY <1>1, <1>2

(* What the monitor hands to the program comes last in its queue.           *)
LEMMA Handed ==
  ASSUME Inv, NEW m \in Monitor, NEW e \in Item, Hand(m, e)
  PROVE  /\ chan'[m] = Append(chan[m], e) /\ chan'[m] = chan[m] \o <<e>>
         /\ <<e>> \in Seq(Item) /\ chan[m] \in Seq(Item) /\ chan'[m] \in Seq(Item)
         /\ Len(chan'[m]) = Len(chan[m]) + 1 /\ Len(chan[m]) \in Nat
         /\ chan'[m][Len(chan[m]) + 1] = e
         /\ \A i \in 1 .. Len(chan[m]) : chan'[m][i] = chan[m][i]
         /\ \A n \in Monitor : n # m => chan'[n] = chan[n]
<1>1. chan' = [chan EXCEPT ![m] = Append(@, e)] /\ chan \in [Monitor -> Seq(Event \cup {Refetch})]
  BY ChanType DEF Hand
<1>2. chan'[m] = Append(chan[m], e) /\ \A n \in Monitor : n # m => chan'[n] = chan[n]
  BY <1>1
<1>3. chan[m] \in Seq(Item)
  BY RestType
<1> DEFINE q == chan[m]
<1> HIDE DEF q
<1>4. /\ Append(q, e) = q \o <<e>> /\ <<e>> \in Seq(Item) /\ Append(q, e) \in Seq(Item)
      /\ Len(Append(q, e)) = Len(q) + 1 /\ Len(q) \in Nat /\ Append(q, e)[Len(q) + 1] = e
      /\ \A i \in 1 .. Len(q) : Append(q, e)[i] = q[i]
  BY <1>3 DEF q
<1>5. QED
  BY <1>2, <1>3, <1>4 DEF q

LEMMA ResyncFlow ==
  ASSUME Inv, Inv', FlowInv, NEW m \in Monitor, Resync(m)
  PROVE  FlowInv'
<1> SUFFICES ASSUME NEW c, c = monitor[m].conn
             PROVE  FlowInv'
  OBVIOUS
<1>0. monitor[m].pc = "resync" /\ monitor[m].pc \in Joined
      /\ UNCHANGED <<daemonVars, kind, known, listening>>
  BY DEF Resync, Joined
<1>1. CASE Hand(m, Refetch) /\ At(m, "stream", c) /\ UNCHANGED conn
  <2>0. c # None
    BY <1>0, Uses, NoneAssumption
  <2>1. monitor'[m].conn = c /\ \A n \in Monitor : n # m => monitor'[n] = monitor[n]
    BY <1>1, AtOne
  <2>2. Refetch \in Item
    BY DEF Item
  <2>3. /\ chan'[m] = chan[m] \o <<Refetch>> /\ <<Refetch>> \in Seq(Item)
        /\ chan[m] \in Seq(Item) /\ chan'[m] \in Seq(Item)
        /\ Len(chan'[m]) = Len(chan[m]) + 1 /\ Len(chan[m]) \in Nat
        /\ chan'[m][Len(chan[m]) + 1] = Refetch
        /\ \A n \in Monitor : n # m => chan'[n] = chan[n]
    BY <1>1, <2>2, Handed
  <2>4. Rest(c) \in Seq(Item) /\ Rest(c)' = Rest(c) /\ UnderWay(m)' = chan'[m] \o Rest(c)
    BY <1>1, <2>0, <2>1, RestType DEF Rest, UnderWay
  <2>5. ASSUME Attached(m)', NEW f \in Field, Announced(f)'
        PROVE  Right(Rest(c), f)' /\ Told(m, UnderWay(m), f)'
    <3>1. Attached(m) /\ Announced(f) /\ state' = state
      BY <1>0, <1>1, <2>1, <2>5 DEF Attached, Broken, Announced, daemonVars
    <3>2. Right(Rest(c), f)
      BY <3>1 DEF FlowInv, Flow
    <3>3. Brings(<<Refetch>>, f, state[f])
      BY <2>2, UnitLines
    <3>4. Brings(chan'[m], f, state[f])
      BY <2>3, <3>3, BringsConcat
    <3>5. Brings(chan'[m] \o Rest(c), f, state[f])
      BY <2>3, <2>4, <3>2, <3>4, BringsConcat DEF Right
    <3>6. QED
      BY <2>4, <3>1, <3>2, <3>5 DEF Right, Told
  <2>6. \E i \in 1 .. Len(chan'[m]) : chan'[m][i] = Refetch
    <3>1. Len(chan[m]) + 1 \in 1 .. Len(chan'[m])
      BY <2>3
    <3>2. QED
      BY <2>3, <3>1
  <2>7. Flow(m)'
    BY <2>1, <2>5, <2>6 DEF Flow
  <2>8. QED
    BY <1>0, <1>1, <2>1, <2>3, <2>7, OneFlow
<1>2. CASE Leave(m, "ended") /\ UNCHANGED chan
  BY <1>0, <1>2, LeaveFlow
<1>3. QED
  BY <1>1, <1>2 DEF Resync

LEMMA ReadFlow ==
  ASSUME Inv, Inv', FlowInv, NEW m \in Monitor, Read(m)
  PROVE  FlowInv'
<1> SUFFICES ASSUME NEW c, c = monitor[m].conn
             PROVE  FlowInv'
  OBVIOUS
<1> DEFINE h == Head(conn[c].wire)
<1>0. monitor[m].pc = "stream" /\ monitor[m].pc \in Joined /\ conn[c].wire # <<>>
      /\ UNCHANGED <<daemonVars, kind, known, listening>>
  BY DEF Read, Joined
<1>1. CASE Hand(m, h) /\ Set(c, [conn[c] EXCEPT !.wire = Tail(@)]) /\ UNCHANGED monitor
  <2>1. monitor'[m].conn = c
    BY <1>1
  <2>2. /\ h \in Item
        /\ Rest(c) \in Seq(Item) /\ Rest(c)' \in Seq(Item) /\ Rest(c) = <<h>> \o Rest(c)'
        /\ Attached(m)' => Attached(m)
        /\ \A n \in Monitor : n # m /\ monitor[n].conn # None =>
             conn'[monitor[n].conn] = conn[monitor[n].conn]
        /\ Attached(m)' => \A f \in Field : Announced(f)' => Right(Rest(c), f)'
    BY <1>0, <1>1, <2>1, Taken
  <2> HIDE DEF h
  <2>3. /\ chan'[m] = chan[m] \o <<h>> /\ <<h>> \in Seq(Item) /\ chan[m] \in Seq(Item)
        /\ Len(chan'[m]) = Len(chan[m]) + 1 /\ Len(chan[m]) \in Nat
        /\ \A i \in 1 .. Len(chan[m]) : chan'[m][i] = chan[m][i]
        /\ \A n \in Monitor : n # m => chan'[n] = chan[n]
    BY <1>1, <2>2, Handed
  <2>4. UnderWay(m)' = UnderWay(m)
    <3>1. UnderWay(m) = chan[m] \o Rest(c) /\ UnderWay(m)' = chan'[m] \o Rest(c)'
      BY <2>1 DEF UnderWay
    <3>2. PICK r \in Seq(Item) : r = Rest(c)'
      BY <2>2
    <3>3. (chan[m] \o <<h>>) \o r = chan[m] \o (<<h>> \o r)
      BY <2>3, ConcatAssoc
    <3>4. QED
      BY <2>2, <2>3, <3>1, <3>2, <3>3
  <2>5. ASSUME Attached(m)', listening[m] PROVE Flow(m)'
    <3>1. Attached(m)
      BY <2>2, <2>5
    <3>2. ASSUME NEW f \in Field, Announced(f)' PROVE Told(m, UnderWay(m), f)'
      <4>1. Announced(f) /\ state' = state /\ known' = known
        BY <1>0, <3>2 DEF Announced, daemonVars
      <4>2. Told(m, UnderWay(m), f)
        BY <1>0, <2>5, <3>1, <4>1 DEF FlowInv, Flow
      <4>3. QED
        BY <2>4, <4>1, <4>2 DEF Told, Knows
    <3>3. known[m] # None \/ \E i \in 1 .. Len(chan'[m]) : chan'[m][i] = Refetch
      <4>1. known[m] # None \/ \E i \in 1 .. Len(chan[m]) : chan[m][i] = Refetch
        BY <1>0, <2>5, <3>1 DEF FlowInv, Flow
      <4>2. \A i \in 1 .. Len(chan[m]) : i \in 1 .. Len(chan'[m])
        BY <2>3
      <4>3. QED
        BY <2>3, <4>1, <4>2
    <3>4. QED
      BY <1>0, <2>1, <2>2, <2>5, <3>2, <3>3 DEF Flow
  <2>6. Flow(m)'
    BY <1>0, <1>1, <2>1, <2>2, <2>5 DEF Flow, Hand
  <2>7. QED
    BY <1>0, <1>1, <2>2, <2>3, <2>6, OneFlow
<1>2. CASE Leave(m, "ended") /\ UNCHANGED chan
  BY <1>0, <1>2, LeaveFlow
<1>3. QED
  BY <1>1, <1>2 DEF Read

LEMMA Within ==
  ASSUME NEW q \in Seq(Item), NEW s \in Seq(Item), NEW j \in 1 .. Len(q)
  PROVE  j \in 1 .. Len(q \o s) /\ (q \o s)[j] = q[j]
<1>1. /\ Len(q \o s) = Len(q) + Len(s) /\ Len(q) \in Nat /\ Len(s) \in Nat
      /\ \A i \in 1 .. Len(q) : (q \o s)[i] = q[i]
  BY ConcatAt
<1> DEFINE a == Len(q)
           b == Len(s)
<1> HIDE DEF a, b
<1>2. a \in Nat /\ b \in Nat /\ j \in 1 .. a /\ Len(q \o s) = a + b
  BY <1>1 DEF a, b
<1>3. j \in 1 .. a + b
  BY <1>2
<1>4. QED
  BY <1>1, <1>2, <1>3

LEMMA ConsumeFlow ==
  ASSUME Inv, Inv', FlowInv, NEW m \in Monitor, Consume(m)
  PROVE  FlowInv'
<1> SUFFICES ASSUME NEW h, h = Head(chan[m]), NEW q, q = Tail(chan[m])
             PROVE  FlowInv'
  OBVIOUS
<1>1. /\ chan[m] # <<>> /\ UNCHANGED <<daemonVars, conn, kind, monitor, listening>>
      /\ chan' = [chan EXCEPT ![m] = q] /\ known' = [known EXCEPT ![m] = Learnt(m, h)]
  BY DEF Consume
<1>2. h \in Item /\ q \in Seq(Item) /\ <<h>> \in Seq(Item) /\ chan[m] = <<h>> \o q
  BY <1>1, RestType, HeadTail, Split
<1>3. chan'[m] = q /\ known'[m] = Learnt(m, h) /\ state' = state /\ emitting' = emitting
      /\ overtaken' = overtaken
      /\ \A n \in Monitor : n # m => chan'[n] = chan[n] /\ known'[n] = known[n]
  BY <1>1, ChanType DEF Inv, TypeInv, daemonVars
<1>4. /\ known[m] \in [Field -> Value] \cup {None} /\ None \notin [Field -> Value]
      /\ state \in [Field -> Value]
  BY NoneAssumption DEF Inv, TypeInv
(* The program fetches from a daemon that is up, else it applies the event. *)
<1>5. ASSUME Attached(m)
      PROVE  h = Refetch => known'[m] = state
  <2>1. up
    BY <1>5 DEF Attached, Broken, Inv, LinkInv, Link
  <2>2. QED
    BY <1>3, <2>1 DEF Learnt
<1>6. ASSUME h # Refetch, NEW f \in Field
      PROVE  /\ known'[m] = None <=> known[m] = None
             /\ known[m] # None =>
                  known'[m][f] = IF IsFor(h, f) THEN h.value ELSE known[m][f]
  <2>1. CASE h \notin Change
    <3>1. known'[m] = known[m]
      <4>1. h \in {Level, Subscribed}
        BY <1>2, <1>6, <2>1 DEF Item, Line, Event
      <4>2. h # Subscribed
        <5>1. chan[m] \in Seq(Event \cup {Refetch})
          BY ChanType
        <5>2. h \in Event \cup {Refetch}
          BY <1>1, <5>1, HeadTail
        <5>3. QED
          BY <1>6, <5>2, Distinct
      <4>3. QED
        BY <1>3, <1>6, <4>1, <4>2 DEF Learnt
    <3>2. QED
      BY <2>1, <3>1 DEF IsFor
  <2>2. CASE h \in Change
    <3>1. h # Level /\ h.field \in Field /\ h.value \in Value
      BY <2>2, LineAssumption DEF Change
    <3>2. known[m] = None => known'[m] = None
      BY <1>3, <1>6, <3>1 DEF Learnt
    <3>3. known[m] # None => known'[m] = [known[m] EXCEPT ![h.field] = h.value]
      BY <1>3, <1>6, <3>1 DEF Learnt
    <3>4. known[m] # None => known'[m] \in [Field -> Value]
      BY <1>4, <3>1, <3>3
    <3>5. QED
      BY <1>4, <2>2, <3>1, <3>2, <3>3, <3>4 DEF IsFor
  <2>3. QED
    BY <2>1, <2>2
<1>7. \A i \in 1 .. Len(chan[m]) : chan[m][i] = Refetch =>
        h = Refetch \/ \E j \in 1 .. Len(q) : q[j] = Refetch
  <2>1. chan[m] \in Seq(Item)
    BY RestType
  <2>2. Len(q) = Len(chan[m]) - 1 /\ \A i \in 1 .. Len(chan[m]) - 1 : q[i] = chan[m][i + 1]
        /\ chan[m][1] = h /\ Len(chan[m]) \in Nat
    BY <1>1, <2>1
  <2>3. ASSUME NEW i \in 1 .. Len(chan[m]), chan[m][i] = Refetch, i # 1
        PROVE  i - 1 \in 1 .. Len(q) /\ q[i - 1] = Refetch
    BY <2>2, <2>3
  <2>4. QED
    BY <2>2, <2>3
<1>8. Flow(m)'
  <2> SUFFICES ASSUME Attached(m)' PROVE Flow(m)'
    BY DEF Flow
  <2> SUFFICES ASSUME NEW s, s = Rest(monitor[m].conn) PROVE Flow(m)'
    OBVIOUS
  <2>1. Attached(m) /\ Rest(monitor[m].conn)' = s /\ s \in Seq(Item)
    <3>1. Attached(m) /\ Rest(monitor[m].conn)' = s
      BY <1>1 DEF Attached, Broken, Rest
    <3>2. QED
      BY <3>1, RestType DEF Attached
  <2>2. q \o s \in Seq(Item) /\ UnderWay(m)' = q \o s /\ UnderWay(m) = <<h>> \o (q \o s)
    <3>1. UnderWay(m)' = q \o s /\ UnderWay(m) = (<<h>> \o q) \o s
      BY <1>2, <1>3, <2>1 DEF UnderWay
    <3>2. (<<h>> \o q) \o s = <<h>> \o (q \o s) /\ q \o s \in Seq(Item)
      BY <1>2, <2>1, ConcatAssoc
    <3>3. QED
      BY <3>1, <3>2
  <2>3. ASSUME NEW f \in Field, Announced(f)' PROVE Right(Rest(monitor[m].conn), f)'
    <3>1. Right(s, f)
      BY <1>3, <2>1, <2>3 DEF FlowInv, Flow, Announced
    <3>2. QED
      BY <1>3, <2>1, <3>1 DEF Right
  <2>4. ASSUME monitor[m].pc = "stream", listening[m]
        PROVE  /\ \A f \in Field : Announced(f)' => Told(m, UnderWay(m), f)'
               /\ known'[m] # None \/ \E i \in 1 .. Len(q) : q[i] = Refetch
    <3>1. known[m] # None \/ h = Refetch \/ \E i \in 1 .. Len(q) : q[i] = Refetch
      BY <1>7, <2>1, <2>4 DEF FlowInv, Flow
    <3>2. known'[m] # None \/ \E i \in 1 .. Len(q) : q[i] = Refetch
      <4>1. ASSUME known[m] # None, h # Refetch PROVE known'[m] # None
        <5>1. CASE Field = {}
          <6>1. h \notin Change
            BY <5>1 DEF Change
          <6>2. h # Subscribed
            <7>1. chan[m] \in Seq(Event \cup {Refetch})
              BY ChanType
            <7>2. h \in Event \cup {Refetch}
              BY <1>1, <7>1, HeadTail
            <7>3. QED
              BY <4>1, <7>2, Distinct
          <6>3. h = Level
            BY <1>2, <4>1, <6>1, <6>2 DEF Item, Line, Event
          <6>4. QED
            BY <1>3, <4>1, <6>3 DEF Learnt
        <5>2. CASE Field # {}
          BY <1>6, <4>1, <5>2
        <5>3. QED
          BY <5>1, <5>2
      <4>2. QED
        BY <1>4, <1>5, <2>1, <3>1, <4>1
    <3>3. ASSUME NEW f \in Field, Announced(f)' PROVE Told(m, q \o s, f)'
      <4>1. Told(m, <<h>> \o (q \o s), f)
        BY <1>3, <2>1, <2>2, <2>4, <3>3 DEF FlowInv, Flow, Announced
      <4>2. CASE Brings(q \o s, f, state[f])
        BY <1>3, <4>2 DEF Told
      <4>3. CASE ~Brings(q \o s, f, state[f])
        <5>1. Absent(q \o s, f)
          BY <1>2, <2>2, <4>1, <4>3, AfterFirst DEF Told
        <5>2. known'[m] # None /\ known'[m][f] = state[f]
          <6>1. CASE h = Refetch
            BY <1>4, <1>5, <2>1, <6>1
          <6>2. CASE h # Refetch
            <7>1. known[m] # None
              <8>1. ASSUME NEW j \in 1 .. Len(q), q[j] = Refetch PROVE FALSE
                <9>1. j \in 1 .. Len(q \o s) /\ (q \o s)[j] = Refetch
                  BY <1>2, <2>1, <8>1, Within
                <9>2. QED
                  BY <2>2, <4>3, <5>1, <9>1, RefetchBrings
              <8>2. QED
                BY <3>1, <6>2, <8>1
            <7>2. (IsFor(h, f) /\ h.value = state[f]) \/ (~IsFor(h, f) /\ known[m][f] = state[f])
              BY <1>2, <2>2, <4>1, <4>3, <6>2, AfterFirst DEF Told, Knows
            <7>3. QED
              BY <1>6, <6>2, <7>1, <7>2
          <6>3. QED
            BY <6>1, <6>2
        <5>3. QED
          BY <1>3, <5>1, <5>2 DEF Told, Knows
      <4>4. QED
        BY <4>2, <4>3
    <3>4. QED
      BY <2>2, <3>2, <3>3 DEF Told
  <2>5. QED
    BY <1>1, <1>3, <2>3, <2>4 DEF Flow
<1>9. QED
  BY <1>1, <1>3, <1>8, OneFlow

LEMMA DropFlow ==
  ASSUME Inv, Inv', FlowInv, NEW m \in Monitor, Drop(m)
  PROVE  FlowInv'
<1>1. /\ UNCHANGED <<daemonVars, conn, kind, monitor, known>>
      /\ chan' = [chan EXCEPT ![m] = <<>>] /\ listening' = [listening EXCEPT ![m] = FALSE]
  BY DEF Drop
<1>2. ~listening'[m] /\ \A n \in Monitor : n # m => chan'[n] = chan[n] /\ listening'[n] = listening[n]
  BY <1>1 DEF Inv, TypeInv
<1>3. Flow(m)'
  BY <1>1, <1>2 DEF FlowInv, Flow, Attached, Broken, Right, Rest, Announced, daemonVars
<1>4. QED
  BY <1>1, <1>2, <1>3, OneFlow

LEMMA FlowInit == Init => FlowInv
BY DEF Init, FlowInv, Flow, Attached

LEMMA FlowNext == ASSUME Inv, Inv', FlowInv, [Next]_vars PROVE FlowInv'
<1>1. ASSUME NEW t \in Task, Emit(t) \/ \E f \in Field : Handle(t, f) PROVE FlowInv'
  BY <1>1, EmitFlow, HandleFlow
<1>2. CASE Park \/ Measure \/ MeasureFails
  BY <1>2, MeterFlow
<1>3. ASSUME NEW c \in Conn, Handler(c) \/ Forward(c) \/ Write(c) PROVE FlowInv'
  BY <1>3, HandlerFlow, ForwardFlow, WriteFlow
<1>4. CASE Crash \/ Start
  BY <1>4, CrashFlow, StartFlow
<1>5. ASSUME NEW m \in Monitor, Advance(m) \/ Consume(m) \/ Drop(m) PROVE FlowInv'
  BY <1>5, ConnectFlow, AnswerFlow, AwayFlow, ResyncFlow, ReadFlow, ConsumeFlow, DropFlow
     DEF Advance
<1>6. CASE UNCHANGED vars
  <2>1. UNCHANGED <<state, emitting, overtaken, conn, monitorVars>>
    BY <1>6 DEF vars, monitorVars
  <2>2. ASSUME NEW m \in Monitor, Attached(m)'
        PROVE  Attached(m) /\ Alike(Rest(monitor[m].conn)', Rest(monitor[m].conn))
    BY <2>1, <2>2 DEF Attached, Broken, Rest, Alike, monitorVars
  <2>3. QED
    BY <2>1, <2>2, SideFlow
<1>7. QED
  BY <1>1, <1>2, <1>3, <1>4, <1>5, <1>6 DEF Next

(* No change is lost between the state of the daemon and a program that     *)
(* follows its events: whatever the numbers of commands, connections,       *)
(* monitors and fields and the sizes of the queues, however often the       *)
(* daemon dies and the monitor connects again, what the program will know   *)
(* of a field once it has taken what is under way is what the daemon has,   *)
(* if the last event sent for the field is that of its last change.  Events *)
(* are sent after the lock is released, so that it may not be.              *)
THEOREM NoChangeLost == Spec => []NothingLost
<1>1. Inv /\ FlowInv => NothingLost
  <2> SUFFICES ASSUME Inv, FlowInv, NEW m \in Monitor, Follows(m), NEW f \in Field, Announced(f)
               PROVE  \/ Brings(UnderWay(m), f, state[f])
                      \/ Absent(UnderWay(m), f) /\ Knows(m, f)
    BY DEF NothingLost
  <2>1. monitor[m].pc \in Joined /\ monitor[m].conn # None
    BY DEF Follows, Joined, Inv, OwnInv
  <2>2. Attached(m)
    BY <2>1 DEF Follows, Attached, Lagging
  <2>3. QED
    BY <2>2 DEF FlowInv, Flow, Follows, Told
<1>2. Init => FlowInv
  BY FlowInit
<1>3. Inv /\ Inv' /\ FlowInv /\ [Next]_vars => FlowInv'
  BY FlowNext
<1>4. QED
  BY <1>1, <1>2, <1>3, InvAlways, PTL DEF Spec
=============================================================================
