------------------------------ MODULE DataPlane ------------------------------
(***************************************************************************)
(* The binary plane: `engine/dataserver.rs` with its frames                *)
(* (`engine/protocol.rs`), the rings of `engine/mod.rs`, the mixers that   *)
(* empty them, and the playback half of the client library.                *)
(*                                                                         *)
(* A connection is two FIFOs of frames between a client and the task that  *)
(* serves it.  Clients of the library send OPEN, wait for the answer, and  *)
(* then write; others send whatever they like, and every client may vanish *)
(* at any point.  The task creates a stream when it reads OPEN and         *)
(* destroys it when it leaves its loop; between those it shares records,   *)
(* live streams and rings with the control plane and the mixers.           *)
(*                                                                         *)
(* The n-th DATA frame of a client is the number n, and so is what it      *)
(* leaves in the ring; `AudioFrames` looks at the samples of such frames.  *)
(* Targets of streams and routing rules are those of `AudioManager`.       *)
(***************************************************************************)
EXTENDS AudioFrames, FiniteSets

CONSTANTS
  Conn,       \* data-plane connections
  Handler,    \* control-plane commands that run concurrently
  MaxStream,  \* bound: stream numbers handed out
  MaxSent,    \* bound: frames a client sends on one connection
  MaxWire,    \* bound: frames a socket holds on their way to the daemon
  RingCap,    \* RING_CAP, in frames of the model
  Volume,     \* volumes a user may set
  None

Ids == 1 .. MaxStream
FullVolume == 100                \* live volumes are capped here

ASSUME BoundAssumption == MaxStream \in Nat /\ MaxSent \in Nat /\ MaxWire \in Nat
ASSUME RingAssumption == RingCap \in Nat \ {0, 1}
ASSUME VolumeAssumption == Volume \subseteq Nat

Frame == [kind : {"open", "data", "torn", "close", "other"}, n : 1 .. MaxSent]
Answer == {"ack", "error", "closed"}
Settings == [volume : Nat, muted : BOOLEAN]

ASSUME NoneAssumption == None \notin Settings

VARIABLES
  client,     \* what the client of a connection is doing
  sent,       \* number of frames it has sent
  toServer, toClient,            \* the two directions of a connection
  server,     \* where the serving task is
  current,    \* the stream of a connection, 0 if it has none
  record,     \* the manager's volume and mute of a stream, None if absent
  live,       \* the mixer's volume and mute of a live stream, None if absent
  ring,       \* frames in the ring of a live stream
  got,        \* history: the frames that have gone into the ring
  abandoned,  \* history: streams whose task ended without destroying them
  pending,    \* what a control-plane command still has to write to the hub
  nextId

clientVars == <<client, sent>>
wireVars == <<toServer, toClient>>
serverVars == <<server, current, abandoned, nextId>>
streamVars == <<record, live, ring, got>>
vars == <<client, sent, toServer, toClient, server, current, record, live,
          ring, got, abandoned, pending, nextId>>

HubWrite == [stream : Ids, what : {"volume"}, volume : Nat]
            \cup [stream : Ids, what : {"mute"}, muted : BOOLEAN]
            \cup [stream : Ids, what : {"remove"}]
NoWrite == [what |-> "nothing"]

TypeOK ==
  /\ client \in [Conn -> {"idle", "opening", "playing", "raw", "gone"}]
  /\ sent \in [Conn -> 0 .. MaxSent]
  /\ toServer \in [Conn -> Seq(Frame)]
  /\ toClient \in [Conn -> Seq(Answer)]
  /\ server \in [Conn -> {"none", "reading", "creating", "ending", "unhub", "done"}]
  /\ current \in [Conn -> Ids \cup {0}]
  /\ record \in [Ids -> Settings \cup {None}]
  /\ live \in [Ids -> Settings \cup {None}]
  /\ ring \in [Ids -> Seq(1 .. MaxSent)]
  /\ got \in [Ids -> Seq(1 .. MaxSent)]
  /\ abandoned \subseteq Ids
  /\ pending \in [Handler -> HubWrite \cup {NoWrite}]
  /\ nextId \in 1 .. MaxStream + 1

Init ==
  /\ client = [c \in Conn |-> "idle"]
  /\ sent = [c \in Conn |-> 0]
  /\ toServer = [c \in Conn |-> <<>>]
  /\ toClient = [c \in Conn |-> <<>>]
  /\ server = [c \in Conn |-> "none"]
  /\ current = [c \in Conn |-> 0]
  /\ record = [s \in Ids |-> None]
  /\ live = [s \in Ids |-> None]
  /\ ring = [s \in Ids |-> <<>>]
  /\ got = [s \in Ids |-> <<>>]
  /\ abandoned = {}
  /\ pending = [h \in Handler |-> NoWrite]
  /\ nextId = 1

-----------------------------------------------------------------------------
(* Clients.  The daemon's half of a connection is gone once its task is.    *)

Connected(c) == client[c] \in {"opening", "playing", "raw"}
Refused(c) == server[c] = "done"

(* send(): a frame on the wire; write_all() waits for room.                 *)
Send(c, kind) ==
  /\ sent[c] < MaxSent
  /\ Len(toServer[c]) < MaxWire
  /\ sent' = [sent EXCEPT ![c] = @ + 1]
  /\ toServer' = [toServer EXCEPT ![c] = Append(@, [kind |-> kind, n |-> sent[c] + 1])]

(* PlaybackStream::open() connects and sends OPEN at once; a client that is *)
(* not of the library connects and sends what it will.                      *)
Connect(c) ==
  /\ client[c] = "idle"
  /\ \/ client' = [client EXCEPT ![c] = "opening"] /\ Send(c, "open")
     \/ client' = [client EXCEPT ![c] = "raw"] /\ UNCHANGED <<sent, toServer>>
  /\ server' = [server EXCEPT ![c] = "reading"]
  /\ UNCHANGED <<toClient, current, abandoned, nextId, streamVars, pending>>

(* The rest of open(): anything but OPEN_ACK, or the end of the connection, *)
(* is an error, and dropping the half-open stream closes the socket.        *)
Opened(c) ==
  /\ client[c] = "opening"
  /\ \/ /\ toClient[c] # <<>>
        /\ client' = [client EXCEPT ![c] = IF Head(toClient[c]) = "ack" THEN "playing" ELSE "gone"]
        /\ toClient' = [toClient EXCEPT ![c] = Tail(@)]
     \/ /\ toClient[c] = <<>> /\ Refused(c)
        /\ client' = [client EXCEPT ![c] = "gone"]
        /\ UNCHANGED toClient
  /\ UNCHANGED <<sent, toServer, serverVars, streamVars, pending>>

WritePcm(c) ==
  /\ client[c] = "playing"
  /\ \/ /\ ~Refused(c)
        /\ Send(c, "data")
        /\ UNCHANGED client
     \/ /\ Refused(c)
        /\ client' = [client EXCEPT ![c] = "gone"]
        /\ UNCHANGED <<sent, toServer>>
  /\ UNCHANGED <<toClient, serverVars, streamVars, pending>>

(* close() consumes the stream, so nothing follows CLOSE.                   *)
CloseStream(c) ==
  /\ client[c] = "playing"
  /\ Send(c, "close")
  /\ client' = [client EXCEPT ![c] = "gone"]
  /\ UNCHANGED <<toClient, serverVars, streamVars, pending>>

SendAnything(c) ==
  /\ client[c] = "raw"
  /\ ~Refused(c)
  /\ \E kind \in {"open", "data", "torn", "close", "other"} : Send(c, kind)
  /\ UNCHANGED <<client, toClient, serverVars, streamVars, pending>>

Vanish(c) ==
  /\ Connected(c)
  /\ client' = [client EXCEPT ![c] = "gone"]
  /\ UNCHANGED <<sent, wireVars, serverVars, streamVars, pending>>

-----------------------------------------------------------------------------
(* The serving task: handle_connection()                                    *)

Receive(c, kind) ==
  /\ server[c] = "reading"
  /\ toServer[c] # <<>>
  /\ Head(toServer[c]).kind = kind
  /\ toServer' = [toServer EXCEPT ![c] = Tail(@)]

SayNothing(c, answer) == UNCHANGED toClient                  \* mutant

(* write_frame(): an error if the client has closed its end.  Errors of     *)
(* send_error() and of CLOSED are ignored.                                  *)
Say(c, answer) ==
  toClient' = [toClient EXCEPT ![c] = IF client[c] = "gone" THEN @ ELSE Append(@, answer)]

Fresh == [volume |-> FullVolume, muted |-> FALSE]

(* OPEN, first half: create_live_stream() makes the record and the live     *)
(* stream under the state lock, or refuses (no output, an unknown device, a *)
(* format or a payload that is not understood).                             *)
ServeOpen(c) ==
  /\ Receive(c, "open")
  /\ current[c] = 0
  /\ \/ /\ nextId \in Ids
        /\ record' = [record EXCEPT ![nextId] = Fresh]
        /\ live' = [live EXCEPT ![nextId] = Fresh]
        /\ current' = [current EXCEPT ![c] = nextId]
        /\ server' = [server EXCEPT ![c] = "creating"]
        /\ nextId' = nextId + 1
        /\ UNCHANGED toClient
     \/ /\ Say(c, "error")
        /\ UNCHANGED <<record, live, current, server, nextId>>
  /\ UNCHANGED <<clientVars, ring, got, abandoned, pending>>

(* OPEN, second half: the rules have run and the record is looked up again. *)
(* The stream becomes the connection's only after OPEN_ACK has been         *)
(* written: if that fails the task returns at once and nobody will destroy  *)
(* the stream.                                                              *)
FinishOpen(c) ==
  /\ server[c] = "creating"
  /\ \/ /\ record[current[c]] = None
        /\ Say(c, "error")
        /\ current' = [current EXCEPT ![c] = 0]
        /\ server' = [server EXCEPT ![c] = "reading"]
        /\ UNCHANGED abandoned
     \/ /\ record[current[c]] # None
        /\ client[c] # "gone"
        /\ Say(c, "ack")
        /\ server' = [server EXCEPT ![c] = "reading"]
        /\ UNCHANGED <<current, abandoned>>
     \/ /\ record[current[c]] # None
        /\ client[c] = "gone"
        /\ abandoned' = abandoned \cup {current[c]}
        /\ current' = [current EXCEPT ![c] = 0]
        /\ server' = [server EXCEPT ![c] = "done"]
        /\ UNCHANGED toClient
  /\ UNCHANGED <<clientVars, toServer, nextId, streamVars, pending>>

OpenAgain(c) ==
  /\ Receive(c, "open")
  /\ current[c] # 0
  /\ Say(c, "error")
  /\ UNCHANGED <<clientVars, serverVars, streamVars, pending>>

Newest(seq, k) == SubSeq(seq, Len(seq) - k + 1, Len(seq))

(* push(): a ring that overflows keeps its newest half.                     *)
KeepOldest(r) == IF Len(r) > RingCap THEN SubSeq(r, 1, RingCap) ELSE r   \* mutant
KeepNewest(r) ==
  IF Len(r) > RingCap THEN Newest(r, RingCap \div 2) ELSE r

Queue(s, n) ==
  IF live[s] # None
  THEN /\ ring' = [ring EXCEPT ![s] = KeepNewest(Append(@, n))]
       /\ got' = [got EXCEPT ![s] = Append(@, n)]
  ELSE UNCHANGED <<ring, got>>

(* A payload that is torn is queued for what it holds, or nothing of it.    *)
ServeData(c) ==
  /\ current[c] # 0
  /\ \/ Receive(c, "data") /\ Queue(current[c], Head(toServer[c]).n)
     \/ Receive(c, "torn") /\ (Queue(current[c], Head(toServer[c]).n) \/ UNCHANGED <<ring, got>>)
  /\ UNCHANGED <<clientVars, toClient, serverVars, record, live, pending>>

(* If it tears a frame of more than two channels after its first sample,    *)
(* to_stereo() panics, and the task dies without destroying its stream.     *)
PanicOnTorn(c) ==
  /\ Receive(c, "torn")
  /\ current[c] # 0
  /\ server' = [server EXCEPT ![c] = "done"]
  /\ abandoned' = abandoned \cup {current[c]}
  /\ current' = [current EXCEPT ![c] = 0]
  /\ UNCHANGED <<clientVars, toClient, nextId, streamVars, pending>>

(* DATA before OPEN, CLOSE, and a frame of unknown type or too large end    *)
(* the connection; the last without a word.                                 *)
Hangup(c) ==
  /\ \/ /\ current[c] = 0
        /\ Receive(c, "data") \/ Receive(c, "torn")
        /\ Say(c, "error")
     \/ Receive(c, "other") /\ (Say(c, "error") \/ UNCHANGED toClient)
     \/ Receive(c, "close") /\ Say(c, "closed")
  /\ server' = [server EXCEPT ![c] = "ending"]
  /\ UNCHANGED <<clientVars, current, abandoned, nextId, streamVars, pending>>

ReadOn(c) ==                                                 \* mutant
  /\ server[c] = "reading"
  /\ client[c] = "gone"
  /\ UNCHANGED vars

(* read_frame() fails once the client is gone.  What it had sent may still  *)
(* be read, or be lost with the connection.                                 *)
ReadFails(c) ==
  /\ server[c] = "reading"
  /\ client[c] = "gone"
  /\ server' = [server EXCEPT ![c] = "ending"]
  /\ UNCHANGED <<clientVars, wireVars, current, abandoned, nextId, streamVars, pending>>

(* destroy_live_stream(): the record under the lock, then the hub entry.    *)
ForgetRecord(c) ==
  /\ server[c] = "ending"
  /\ record' = IF current[c] # 0 THEN [record EXCEPT ![current[c]] = None] ELSE record
  /\ server' = [server EXCEPT ![c] = "unhub"]
  /\ UNCHANGED <<clientVars, wireVars, current, abandoned, nextId, live, ring, got, pending>>

SkipHub(c) ==                                                \* mutant
  /\ server[c] = "unhub"
  /\ server' = [server EXCEPT ![c] = "done"]
  /\ current' = [current EXCEPT ![c] = 0]
  /\ UNCHANGED <<clientVars, wireVars, abandoned, nextId, streamVars, pending>>

EndConnection(c) ==
  /\ server[c] = "unhub"
  /\ live' = IF current[c] # 0 THEN [live EXCEPT ![current[c]] = None] ELSE live
  /\ ring' = IF current[c] # 0 THEN [ring EXCEPT ![current[c]] = <<>>] ELSE ring
  /\ server' = [server EXCEPT ![c] = "done"]
  /\ current' = [current EXCEPT ![c] = 0]
  /\ UNCHANGED <<clientVars, wireVars, abandoned, nextId, record, got, pending>>

-----------------------------------------------------------------------------
(* Control-plane commands: the record under the lock, the hub after it      *)

IdleHandler(h) == pending[h] = NoWrite
Never(h, write) == UNCHANGED pending                         \* mutant
Later(h, write) == pending' = [pending EXCEPT ![h] = write]

SetStreamVolume(h, s, volume) ==
  /\ IdleHandler(h)
  /\ record[s] # None
  /\ record' = [record EXCEPT ![s].volume = volume]
  /\ Later(h, [stream |-> s, what |-> "volume", volume |-> volume])
  /\ UNCHANGED <<clientVars, wireVars, serverVars, live, ring, got>>

SetStreamMute(h, s, mute) ==
  /\ IdleHandler(h)
  /\ record[s] # None
  /\ record' = [record EXCEPT ![s].muted = mute]
  /\ Later(h, [stream |-> s, what |-> "mute", muted |-> mute])
  /\ UNCHANGED <<clientVars, wireVars, serverVars, live, ring, got>>

DestroyStream(h, s) ==
  /\ IdleHandler(h)
  /\ record' = [record EXCEPT ![s] = None]
  /\ Later(h, [stream |-> s, what |-> "remove"])
  /\ UNCHANGED <<clientVars, wireVars, serverVars, live, ring, got>>

Capped(volume) == IF volume > FullVolume THEN FullVolume ELSE volume

WriteLive(h) ==
  LET w == pending[h]
      s == w.stream
  IN /\ ~IdleHandler(h)
     /\ live' = IF live[s] = None THEN live
                ELSE CASE w.what = "volume" -> [live EXCEPT ![s].volume = Capped(w.volume)]
                       [] w.what = "mute" -> [live EXCEPT ![s].muted = w.muted]
                       [] w.what = "remove" -> [live EXCEPT ![s] = None]
     /\ ring' = IF w.what = "remove" THEN [ring EXCEPT ![s] = <<>>] ELSE ring
     /\ pending' = [pending EXCEPT ![h] = NoWrite]
     /\ UNCHANGED <<clientVars, wireVars, serverVars, record, got>>

(* A mixer takes up to a period from the ring of a live stream; what it     *)
(* takes of a muted stream is discarded.                                    *)
Mix(s) ==
  /\ ring[s] # <<>>
  /\ \E k \in 1 .. Len(ring[s]) : ring' = [ring EXCEPT ![s] = SubSeq(@, k + 1, Len(@))]
  /\ UNCHANGED <<clientVars, wireVars, serverVars, record, live, got, pending>>

-----------------------------------------------------------------------------
Client(c) ==
  Connect(c) \/ Opened(c) \/ WritePcm(c) \/ CloseStream(c) \/ SendAnything(c) \/ Vanish(c)

Serve(c) ==
  \/ ServeOpen(c) \/ FinishOpen(c) \/ OpenAgain(c) \/ ServeData(c) \/ PanicOnTorn(c)
  \/ Hangup(c) \/ ReadFails(c) \/ ForgetRecord(c) \/ EndConnection(c)

Command(h) ==
  \E s \in Ids :
    \/ \E v \in Volume : SetStreamVolume(h, s, v)
    \/ \E mute \in BOOLEAN : SetStreamMute(h, s, mute)
    \/ DestroyStream(h, s)

Next ==
  \/ \E c \in Conn : Client(c) \/ Serve(c)
  \/ \E h \in Handler : Command(h) \/ WriteLive(h)
  \/ \E s \in Ids : Mix(s)

Spec == Init /\ [][Next]_vars

(* The runtime polls every task that is ready, and a client of the library  *)
(* that waits for its answer reads it.                                      *)
Fairness ==
  /\ \A c \in Conn : WF_vars(Serve(c)) /\ WF_vars(Opened(c))
  /\ \A h \in Handler : WF_vars(WriteLive(h))
FairSpec == Spec /\ Fairness

-----------------------------------------------------------------------------
(* Properties                                                               *)

Owned(s) == \E c \in Conn : current[c] = s
Removing(s) ==
  \E h \in Handler : ~IdleHandler(h) /\ pending[h].stream = s /\ pending[h].what = "remove"

(* "Closing the connection (or sending CLOSE) destroys the stream": what    *)
(* exists of a stream, record or live, belongs to a connection whose task   *)
(* will destroy it, or is about to be removed by a command.                 *)
StreamHasConnection ==
  \A s \in Ids : record[s] # None \/ live[s] # None => Owned(s) \/ Removing(s)

(* The same but for the two ways in which a task ends without destroying    *)
(* its stream: OPEN_ACK could not be written, or a payload made it panic.   *)
StreamHasConnectionOrIsAbandoned ==
  \A s \in Ids : record[s] # None \/ live[s] # None =>
    Owned(s) \/ Removing(s) \/ s \in abandoned

(* A ring holds the newest of what its stream was sent, in order and without *)
(* a gap: overflow drops the oldest and a mixer takes the oldest.           *)
RingIsNewest ==
  \A s \in Ids : Len(ring[s]) <= RingCap /\ ring[s] = Newest(got[s], Len(ring[s]))

(* The mixers use the volume and the mute of the record, or a command is    *)
(* about to tell them.  Commands write to the hub after the lock, in any    *)
(* order: of all that happens to a stream, only a write that is late takes  *)
(* this away, one of a value another command has replaced since.            *)
Mixed(s) == record[s] # None /\ live[s] # None
Tells(h, s, what) == ~IdleHandler(h) /\ pending[h].stream = s /\ pending[h].what = what
TellsVolume(h, s) == Tells(h, s, "volume") /\ pending[h].volume = record[s].volume
TellsMute(h, s) == Tells(h, s, "mute") /\ pending[h].muted = record[s].muted

WrongVolume(s) ==
  Mixed(s) /\ live[s].volume # Capped(record[s].volume) /\ \A h \in Handler : ~TellsVolume(h, s)
WrongMute(s) ==
  Mixed(s) /\ live[s].muted # record[s].muted /\ \A h \in Handler : ~TellsMute(h, s)

LateVolume(s) ==
  \E h \in Handler : Tells(h, s, "volume") /\ ~TellsVolume(h, s) /\ IdleHandler(h)'
LateMute(s) ==
  \E h \in Handler : Tells(h, s, "mute") /\ ~TellsMute(h, s) /\ IdleHandler(h)'
OnlyLateSettingsMislead ==
  [][\A s \in Ids : /\ WrongVolume(s)' => WrongVolume(s) \/ LateVolume(s)
                    /\ WrongMute(s)' => WrongMute(s) \/ LateMute(s)]_vars

(* A client that asks for a stream is told, or its connection ends.         *)
OpenIsAnswered ==
  \A c \in Conn : client[c] = "opening" ~> client[c] # "opening"

(* Once a client that has its stream is gone, so is its stream.             *)
Serves(c, s) == current[c] = s /\ server[c] # "creating"
ClosedStreamEnds ==
  \A c \in Conn, s \in Ids :
    client[c] = "gone" /\ Serves(c, s) ~> \/ record[s] = None /\ live[s] = None
                                          \/ s \in abandoned

(* Whatever a stream's format, its payloads and the overflows of its ring,  *)
(* channels are not swapped and frames not torn or played out of order, but *)
(* for stereo payloads with an odd number of samples at the mixers' rate.   *)
(* No state changes that, so it is looked at in the initial state.          *)
FramesStayAligned == Init => EveryFrameAligned
=============================================================================
