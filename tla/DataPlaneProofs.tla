--------------------------- MODULE DataPlaneProofs ---------------------------
(* Proofs about DataPlane: any number of connections, clients that send     *)
(* what they like and vanish when they like, rings of any capacity.         *)
EXTENDS DataPlane, SequenceTheorems, WellFoundedInduction, TLAPS

(* The suffix of a sequence that a full ring keeps.                         *)
LEMMA NewestProperties ==
  ASSUME NEW S, NEW q \in Seq(S), NEW k \in 0 .. Len(q)
  PROVE  /\ Newest(q, k) \in Seq(S)
         /\ Len(Newest(q, k)) = k
         /\ \A i \in 1 .. k : Newest(q, k)[i] = q[Len(q) - k + i]
<1>1. Len(q) \in Nat /\ \A i \in 1 .. Len(q) : q[i] \in S
  BY ElementOfSeq, LenProperties
<1>2. \A i \in (Len(q) - k + 1) .. Len(q) : q[i] \in S
  BY <1>1
<1>3. /\ SubSeq(q, Len(q) - k + 1, Len(q)) \in Seq(S)
      /\ Len(SubSeq(q, Len(q) - k + 1, Len(q))) = k
      /\ \A i \in 1 .. k :
           SubSeq(q, Len(q) - k + 1, Len(q))[i] = q[Len(q) - k + 1 + i - 1]
  <2>1. /\ SubSeq(q, Len(q) - k + 1, Len(q)) \in Seq(S)
        /\ Len(SubSeq(q, Len(q) - k + 1, Len(q))) =
             IF Len(q) - k + 1 <= Len(q) THEN Len(q) - (Len(q) - k + 1) + 1 ELSE 0
        /\ \A i \in 1 .. Len(q) - (Len(q) - k + 1) + 1 :
             SubSeq(q, Len(q) - k + 1, Len(q))[i] = q[Len(q) - k + 1 + i - 1]
    <3>1. Len(q) - k + 1 \in Int /\ Len(q) \in Int
      BY <1>1
    <3>2. QED
      BY <1>2, <3>1, SubSeqProperties
  <2>2. QED
    BY <1>1, <2>1
<1>4. QED
  BY <1>1, <1>3 DEF Newest

LEMMA AppendGrows ==
  ASSUME NEW S, NEW q \in Seq(S), NEW e \in S
  PROVE  /\ Append(q, e) \in Seq(S)
         /\ Len(Append(q, e)) = Len(q) + 1
         /\ \A i \in 1 .. Len(q) : Append(q, e)[i] = q[i]
         /\ Append(q, e)[Len(q) + 1] = e
OBVIOUS

LEMMA KeepNewestProperties ==
  ASSUME NEW S, NEW q \in Seq(S)
  PROVE  /\ KeepNewest(q) \in Seq(S)
         /\ Len(KeepNewest(q)) <= RingCap
         /\ Len(KeepNewest(q)) <= Len(q)
         /\ \A i \in 1 .. Len(KeepNewest(q)) :
              KeepNewest(q)[i] = q[Len(q) - Len(KeepNewest(q)) + i]
<1>1. Len(q) \in Nat
  BY LenProperties
<1>2. CASE Len(q) > RingCap
  <2>1. PICK k \in 0 .. Len(q) : KeepNewest(q) = Newest(q, k) /\ k <= RingCap
    <3>1. RingCap \div 2 \in 0 .. Len(q) /\ RingCap \div 2 <= RingCap
      BY <1>1, <1>2, RingAssumption
    <3>2. QED
      BY <1>2, <3>1 DEF KeepNewest
  <2>2. /\ Newest(q, k) \in Seq(S)
        /\ Len(Newest(q, k)) = k
        /\ \A i \in 1 .. k : Newest(q, k)[i] = q[Len(q) - k + i]
    BY NewestProperties
  <2>3. k <= Len(q)
    BY <1>1
  <2>4. QED
    BY <2>1, <2>2, <2>3
<1>3. CASE ~(Len(q) > RingCap)
  <2>1. KeepNewest(q) = q
    BY <1>3 DEF KeepNewest
  <2>2. \A i \in 1 .. Len(q) : Len(q) - Len(q) + i = i
    BY <1>1
  <2>3. Len(q) <= RingCap
    BY <1>1, <1>3, RingAssumption
  <2>4. QED
    BY <1>1, <2>1, <2>2, <2>3
<1>4. QED
  BY <1>2, <1>3

-----------------------------------------------------------------------------
(* Types                                                                    *)

(* A task that creates a stream has its number.                             *)
CreatesOne == \A c \in Conn : server[c] = "creating" => current[c] \in Ids

LEMMA InitTypes == Init => TypeOK
BY BoundAssumption DEF Init, TypeOK, NoWrite, Ids

LEMMA SendTypes ==
  ASSUME TypeOK, NEW c \in Conn, NEW kind \in {"open", "data", "torn", "close", "other"},
         Send(c, kind)
  PROVE  sent' \in [Conn -> 0 .. MaxSent] /\ toServer' \in [Conn -> Seq(Frame)]
<1>1. sent[c] \in Nat /\ sent[c] + 1 \in 1 .. MaxSent
  BY BoundAssumption DEF TypeOK, Send
<1>2. [kind |-> kind, n |-> sent[c] + 1] \in Frame
  BY <1>1 DEF Frame
<1>3. toServer[c] \in Seq(Frame)
  BY DEF TypeOK
<1>4. Append(toServer[c], [kind |-> kind, n |-> sent[c] + 1]) \in Seq(Frame)
  BY <1>2, <1>3, AppendGrows
<1>5. QED
  BY <1>1, <1>4 DEF TypeOK, Send

LEMMA SayTypes ==
  ASSUME TypeOK, NEW c \in Conn, NEW answer \in Answer, Say(c, answer)
  PROVE  toClient' \in [Conn -> Seq(Answer)]
<1>1. Append(toClient[c], answer) \in Seq(Answer)
  BY AppendGrows DEF TypeOK
<1>2. QED
  BY <1>1 DEF TypeOK, Say

LEMMA ReceiveTypes ==
  ASSUME TypeOK, NEW c \in Conn, NEW kind, Receive(c, kind)
  PROVE  toServer' \in [Conn -> Seq(Frame)] /\ Head(toServer[c]) \in Frame
<1>1. toServer[c] \in Seq(Frame) /\ toServer[c] # <<>>
  BY DEF TypeOK, Receive
<1>2. Tail(toServer[c]) \in Seq(Frame) /\ Head(toServer[c]) \in Frame
  BY <1>1, HeadTailProperties
<1>3. QED
  BY <1>2 DEF TypeOK, Receive

LEMMA ClientTypes ==
  ASSUME TypeOK, NEW c \in Conn, Client(c)
  PROVE  TypeOK'
<1> USE DEF TypeOK, serverVars, streamVars
<1>1. CASE Connect(c)
  BY <1>1, SendTypes DEF Connect
<1>2. CASE Opened(c)
  <2>1. toClient' \in [Conn -> Seq(Answer)]
    <3>1. CASE toClient[c] # <<>> /\ toClient' = [toClient EXCEPT ![c] = Tail(@)]
      <4>1. Tail(toClient[c]) \in Seq(Answer)
        BY <3>1, HeadTailProperties
      <4>2. QED
        BY <3>1, <4>1
    <3>2. QED
      BY <1>2, <3>1 DEF Opened
  <2>2. client' \in [Conn -> {"idle", "opening", "playing", "raw", "gone"}]
    BY <1>2 DEF Opened
  <2>3. QED
    BY <1>2, <2>1, <2>2 DEF Opened
<1>3. CASE WritePcm(c)
  BY <1>3, SendTypes DEF WritePcm
<1>4. CASE CloseStream(c)
  BY <1>4, SendTypes DEF CloseStream
<1>5. CASE SendAnything(c)
  BY <1>5, SendTypes DEF SendAnything
<1>6. CASE Vanish(c)
  BY <1>6 DEF Vanish, wireVars
<1>7. QED
  BY <1>1, <1>2, <1>3, <1>4, <1>5, <1>6 DEF Client

LEMMA FreshIsSettings == Fresh \in Settings
BY DEF Fresh, Settings, FullVolume

LEMMA ServeTypes ==
  ASSUME TypeOK, CreatesOne, NEW c \in Conn, Serve(c)
  PROVE  TypeOK'
<1> USE DEF TypeOK, clientVars, serverVars, streamVars
<1>1. CASE ServeOpen(c)
  <2>1. toServer' \in [Conn -> Seq(Frame)]
    BY <1>1, ReceiveTypes DEF ServeOpen
  <2>2. toClient' \in [Conn -> Seq(Answer)]
    BY <1>1, SayTypes DEF ServeOpen, Answer
  <2>3. /\ record' \in [Ids -> Settings \cup {None}]
        /\ live' \in [Ids -> Settings \cup {None}]
        /\ current' \in [Conn -> Ids \cup {0}]
    <3>1. CASE /\ nextId \in Ids
               /\ record' = [record EXCEPT ![nextId] = Fresh]
               /\ live' = [live EXCEPT ![nextId] = Fresh]
               /\ current' = [current EXCEPT ![c] = nextId]
      BY <3>1, FreshIsSettings
    <3>2. CASE UNCHANGED <<record, live, current>>
      BY <3>2
    <3>3. QED
      BY <1>1, <3>1, <3>2 DEF ServeOpen
  <2>6. nextId' \in 1 .. MaxStream + 1
    BY <1>1, BoundAssumption DEF ServeOpen, Ids
  <2>4. server' \in [Conn -> {"none", "reading", "creating", "ending", "unhub", "done"}]
    BY <1>1 DEF ServeOpen
  <2>5. QED
    BY <1>1, <2>1, <2>2, <2>3, <2>4, <2>6 DEF ServeOpen
<1>2. CASE FinishOpen(c)
  <2>1. toClient' \in [Conn -> Seq(Answer)]
    BY <1>2, SayTypes DEF FinishOpen, Answer
  <2>2. current' \in [Conn -> Ids \cup {0}]
    BY <1>2 DEF FinishOpen
  <2>3. server' \in [Conn -> {"none", "reading", "creating", "ending", "unhub", "done"}]
    BY <1>2 DEF FinishOpen
  <2>4. abandoned' \subseteq Ids
    BY <1>2 DEF FinishOpen, CreatesOne
  <2>5. QED
    BY <1>2, <2>1, <2>2, <2>3, <2>4 DEF FinishOpen
<1>3. CASE OpenAgain(c)
  BY <1>3, ReceiveTypes, SayTypes DEF OpenAgain, Answer
<1>4. CASE ServeData(c)
  <2>1. toServer' \in [Conn -> Seq(Frame)] /\ Head(toServer[c]) \in Frame
    BY <1>4, ReceiveTypes DEF ServeData
  <2>2. Head(toServer[c]).n \in 1 .. MaxSent
    BY <2>1 DEF Frame
  <2>3. current[c] \in Ids
    BY <1>4 DEF ServeData
  <2>4. /\ KeepNewest(Append(ring[current[c]], Head(toServer[c]).n)) \in Seq(1 .. MaxSent)
        /\ Append(got[current[c]], Head(toServer[c]).n) \in Seq(1 .. MaxSent)
    BY <2>2, <2>3, AppendGrows, KeepNewestProperties
  <2>5. ring' \in [Ids -> Seq(1 .. MaxSent)] /\ got' \in [Ids -> Seq(1 .. MaxSent)]
    <3>1. CASE Queue(current[c], Head(toServer[c]).n)
      BY <2>3, <2>4, <3>1 DEF Queue
    <3>2. CASE UNCHANGED <<ring, got>>
      BY <3>2
    <3>3. QED
      BY <1>4, <3>1, <3>2 DEF ServeData
  <2>6. QED
    BY <1>4, <2>1, <2>5 DEF ServeData
<1>5. CASE PanicOnTorn(c)
  BY <1>5, ReceiveTypes DEF PanicOnTorn
<1>6. CASE Hangup(c)
  BY <1>6, ReceiveTypes, SayTypes DEF Hangup, Answer
<1>7. CASE ReadFails(c)
  BY <1>7 DEF ReadFails, wireVars
<1>8. CASE ForgetRecord(c)
  BY <1>8 DEF ForgetRecord, wireVars
<1>9. CASE EndConnection(c)
  BY <1>9, EmptySeq DEF EndConnection, wireVars
<1>10. QED
  BY <1>1, <1>2, <1>3, <1>4, <1>5, <1>6, <1>7, <1>8, <1>9 DEF Serve

LEMMA HubWriteFields ==
  ASSUME NEW w \in HubWrite
  PROVE  /\ w.stream \in Ids /\ w.what \in {"volume", "mute", "remove"}
         /\ w.what = "volume" => w.volume \in Nat
         /\ w.what = "mute" => w.muted \in BOOLEAN
<1>1. \/ w \in [stream : Ids, what : {"volume"}, volume : Nat]
      \/ w \in [stream : Ids, what : {"mute"}, muted : BOOLEAN]
      \/ w \in [stream : Ids, what : {"remove"}]
  BY DEF HubWrite
<1>2. QED
  BY <1>1

LEMMA WriteTypes ==
  ASSUME TypeOK, NEW h \in Handler, WriteLive(h)
  PROVE  live' \in [Ids -> Settings \cup {None}] /\ ring' \in [Ids -> Seq(1 .. MaxSent)]
<1> DEFINE w == pending[h]  s == w.stream
<1>1. w \in HubWrite
  BY DEF TypeOK, WriteLive, IdleHandler
<1>2. s \in Ids /\ w.what \in {"volume", "mute", "remove"}
  BY <1>1, HubWriteFields
<1>3. /\ w.what = "volume" => Capped(w.volume) \in Nat
      /\ w.what = "mute" => w.muted \in BOOLEAN
  BY <1>1, HubWriteFields DEF Capped, FullVolume
<1>4. live[s] # None => live[s] \in Settings
  BY <1>2 DEF TypeOK
<1>5. live' \in [Ids -> Settings \cup {None}]
  <2>1. CASE live[s] = None
    BY <2>1 DEF TypeOK, WriteLive
  <2>2. CASE live[s] # None /\ w.what = "volume"
    <3>1. live' = [live EXCEPT ![s].volume = Capped(w.volume)]
      BY <2>2 DEF WriteLive
    <3>2. QED
      BY <1>2, <1>3, <1>4, <2>2, <3>1 DEF TypeOK, Settings
  <2>3. CASE live[s] # None /\ w.what = "mute"
    <3>1. live' = [live EXCEPT ![s].muted = w.muted]
      BY <2>3 DEF WriteLive
    <3>2. QED
      BY <1>2, <1>3, <1>4, <2>3, <3>1 DEF TypeOK, Settings
  <2>4. CASE live[s] # None /\ w.what = "remove"
    <3>1. live' = [live EXCEPT ![s] = None]
      BY <2>4 DEF WriteLive
    <3>2. QED
      BY <3>1 DEF TypeOK
  <2>5. QED
    BY <1>2, <2>1, <2>2, <2>3, <2>4
<1>6. ring' \in [Ids -> Seq(1 .. MaxSent)]
  BY EmptySeq DEF TypeOK, WriteLive
<1>7. QED
  BY <1>5, <1>6

LEMMA MixedRest ==
  ASSUME NEW S, NEW q \in Seq(S), NEW k \in 1 .. Len(q)
  PROVE  /\ SubSeq(q, k + 1, Len(q)) \in Seq(S)
         /\ Len(SubSeq(q, k + 1, Len(q))) = Len(q) - k
         /\ \A i \in 1 .. Len(q) - k : SubSeq(q, k + 1, Len(q))[i] = q[k + i]
<1>1. Len(q) \in Nat /\ Len(q) - k \in 0 .. Len(q)
  BY LenProperties
<1>2. Newest(q, Len(q) - k) = SubSeq(q, k + 1, Len(q))
  BY <1>1 DEF Newest
<1>3. \A i \in 1 .. Len(q) - k : Len(q) - (Len(q) - k) + i = k + i
  BY <1>1
<1>4. /\ Newest(q, Len(q) - k) \in Seq(S)
      /\ Len(Newest(q, Len(q) - k)) = Len(q) - k
      /\ \A i \in 1 .. Len(q) - k : Newest(q, Len(q) - k)[i] = q[Len(q) - (Len(q) - k) + i]
  BY <1>1, NewestProperties
<1>5. QED
  BY <1>2, <1>3, <1>4

LEMMA CommandTypes ==
  ASSUME TypeOK, NEW h \in Handler, Command(h) \/ WriteLive(h)
  PROVE  TypeOK'
<1> USE DEF TypeOK, clientVars, wireVars, serverVars
<1>1. ASSUME NEW s \in Ids, NEW v \in Volume, SetStreamVolume(h, s, v)
      PROVE  TypeOK'
  <2>1. record[s] \in Settings /\ v \in Nat
    BY <1>1, VolumeAssumption DEF SetStreamVolume
  <2>2. record' \in [Ids -> Settings \cup {None}]
    BY <1>1, <2>1 DEF SetStreamVolume, Settings
  <2>3. pending' \in [Handler -> HubWrite \cup {NoWrite}]
    BY <1>1, <2>1 DEF SetStreamVolume, Later, HubWrite
  <2>4. QED
    BY <1>1, <2>2, <2>3 DEF SetStreamVolume
<1>2. ASSUME NEW s \in Ids, NEW mute \in BOOLEAN, SetStreamMute(h, s, mute)
      PROVE  TypeOK'
  <2>1. record[s] \in Settings
    BY <1>2 DEF SetStreamMute
  <2>2. record' \in [Ids -> Settings \cup {None}]
    BY <1>2, <2>1 DEF SetStreamMute, Settings
  <2>3. pending' \in [Handler -> HubWrite \cup {NoWrite}]
    BY <1>2 DEF SetStreamMute, Later, HubWrite
  <2>4. QED
    BY <1>2, <2>2, <2>3 DEF SetStreamMute
<1>3. ASSUME NEW s \in Ids, DestroyStream(h, s)
      PROVE  TypeOK'
  BY <1>3 DEF DestroyStream, Later, HubWrite
<1>4. CASE WriteLive(h)
  <2>1. pending[h] \in HubWrite
    BY <1>4 DEF WriteLive, IdleHandler
  <2>2. live' \in [Ids -> Settings \cup {None}] /\ ring' \in [Ids -> Seq(1 .. MaxSent)]
    BY <1>4, WriteTypes
  <2>3. pending' \in [Handler -> HubWrite \cup {NoWrite}]
    BY <1>4 DEF WriteLive
  <2>4. QED
    BY <1>4, <2>2, <2>3 DEF WriteLive
<1>5. QED
  BY <1>1, <1>2, <1>3, <1>4 DEF Command

LEMMA MixTypes ==
  ASSUME TypeOK, NEW s \in Ids, Mix(s)
  PROVE  TypeOK'
<1> USE DEF TypeOK, clientVars, wireVars, serverVars
<1>1. PICK k \in 1 .. Len(ring[s]) : ring' = [ring EXCEPT ![s] = SubSeq(@, k + 1, Len(@))]
  BY DEF Mix
<1>2. SubSeq(ring[s], k + 1, Len(ring[s])) \in Seq(1 .. MaxSent)
  BY <1>1, MixedRest
<1>3. QED
  BY <1>1, <1>2 DEF Mix

-----------------------------------------------------------------------------
(* Who owns a stream                                                        *)

(* Only a connection that has begun has a task, the numbers in use are      *)
(* below the next one, and a task that has forgotten the record of its      *)
(* stream finds no new one under its number.                                *)
IdleUnserved == \A c \in Conn : client[c] = "idle" => server[c] = "none"
NumbersUsed == \A c \in Conn : current[c] < nextId
Forgotten(c, s) == current[c] = s /\ server[c] = "unhub"
ForgottenHasNone == \A c \in Conn, s \in Ids : Forgotten(c, s) => record[s] = None

(* A record has a task that will destroy it, a live stream without a record *)
(* a command or a task that is about to remove it.                          *)
RecordHasOwner == \A s \in Ids : record[s] # None => Owned(s) \/ s \in abandoned
LiveIsEnding ==
  \A s \in Ids : live[s] # None /\ record[s] = None =>
    Removing(s) \/ \E c \in Conn : Forgotten(c, s)

(* No two connections write into the same stream.                           *)
StreamsApart ==
  \A c, d \in Conn : c # d /\ current[c] # 0 => current[c] # current[d]

OwnInv ==
  /\ CreatesOne /\ IdleUnserved /\ NumbersUsed /\ ForgottenHasNone
  /\ RecordHasOwner /\ LiveIsEnding /\ StreamsApart

LEMMA InitOwns == Init => OwnInv
BY DEF Init, OwnInv, CreatesOne, IdleUnserved, NumbersUsed, Forgotten, ForgottenHasNone,
       RecordHasOwner, LiveIsEnding, StreamsApart, Ids

(* Steps that touch neither a task's place nor its stream.                  *)
LEMMA OtherStepsOwn ==
  ASSUME TypeOK, OwnInv,
         UNCHANGED <<server, current, abandoned, nextId, record, live, pending>>,
         \A c \in Conn : client'[c] = "idle" => client[c] = "idle"
  PROVE  OwnInv'
BY DEF OwnInv, CreatesOne, IdleUnserved, NumbersUsed, Forgotten, ForgottenHasNone,
       RecordHasOwner, LiveIsEnding, StreamsApart, Owned, Removing, IdleHandler

LEMMA ClientOwns ==
  ASSUME TypeOK, OwnInv, NEW c \in Conn, Client(c)
  PROVE  OwnInv'
<1>1. \A d \in Conn : client'[d] = "idle" => client[d] = "idle"
  BY DEF Client, Connect, Opened, WritePcm, CloseStream, SendAnything, Vanish, TypeOK
<1>2. CASE Connect(c)
  <2>1. /\ server[c] = "none" /\ server' = [server EXCEPT ![c] = "reading"]
        /\ client'[c] # "idle"
        /\ UNCHANGED <<current, abandoned, nextId, record, live, pending>>
    BY <1>2 DEF Connect, OwnInv, IdleUnserved, TypeOK, streamVars
  <2>2. /\ \A d \in Conn, s \in Ids : Forgotten(d, s)' <=> Forgotten(d, s)
        /\ \A s \in Ids : (Owned(s)' <=> Owned(s)) /\ (Removing(s)' <=> Removing(s))
    BY <2>1 DEF Forgotten, Owned, Removing, IdleHandler, TypeOK
  <2>3. CreatesOne' /\ IdleUnserved' /\ NumbersUsed' /\ StreamsApart'
    BY <1>1, <2>1 DEF OwnInv, CreatesOne, IdleUnserved, NumbersUsed, StreamsApart, TypeOK
  <2>4. ForgottenHasNone' /\ RecordHasOwner' /\ LiveIsEnding'
    BY <2>1, <2>2 DEF OwnInv, ForgottenHasNone, RecordHasOwner, LiveIsEnding
  <2>5. QED
    BY <2>3, <2>4 DEF OwnInv
<1>3. CASE Opened(c) \/ WritePcm(c) \/ CloseStream(c) \/ SendAnything(c) \/ Vanish(c)
  BY <1>1, <1>3, OtherStepsOwn
     DEF Opened, WritePcm, CloseStream, SendAnything, Vanish, serverVars, streamVars
<1>4. QED
  BY <1>2, <1>3 DEF Client

(* Steps of the task of c after which it is in another place with the same  *)
(* stream.                                                                  *)
LEMMA TaskMovesOn ==
  ASSUME TypeOK, OwnInv, NEW c \in Conn, server[c] \notin {"none", "unhub"},
         NEW place \in {"reading", "ending"},
         server' = [server EXCEPT ![c] = place],
         UNCHANGED <<client, current, abandoned, nextId, record, live, pending>>
  PROVE  OwnInv'
<1>1. /\ \A d \in Conn, s \in Ids : Forgotten(d, s)' <=> Forgotten(d, s)
      /\ \A s \in Ids : (Owned(s)' <=> Owned(s)) /\ (Removing(s)' <=> Removing(s))
  BY DEF Forgotten, Owned, Removing, IdleHandler, TypeOK
<1>2. CreatesOne' /\ IdleUnserved' /\ NumbersUsed' /\ StreamsApart'
  BY DEF OwnInv, CreatesOne, IdleUnserved, NumbersUsed, StreamsApart, TypeOK
<1>3. ForgottenHasNone' /\ RecordHasOwner' /\ LiveIsEnding'
  BY <1>1 DEF OwnInv, ForgottenHasNone, RecordHasOwner, LiveIsEnding
<1>4. QED
  BY <1>2, <1>3 DEF OwnInv

(* The task of c ends or goes on without its stream.                        *)
LEMMA TaskLetsGo ==
  ASSUME TypeOK, OwnInv, NEW c \in Conn, server[c] # "none", server[c] # "unhub",
         NEW place \in {"reading", "done"},
         server' = [server EXCEPT ![c] = place],
         current' = [current EXCEPT ![c] = 0],
         abandoned \subseteq abandoned',
         \A s \in Ids : record[s] # None /\ current[c] = s => s \in abandoned',
         UNCHANGED <<client, nextId, record, live, pending>>
  PROVE  OwnInv'
<1>1. /\ \A d \in Conn, s \in Ids : Forgotten(d, s)' <=> Forgotten(d, s)
      /\ \A s \in Ids : Owned(s) => Owned(s)' \/ current[c] = s
      /\ \A s \in Ids : Removing(s)' <=> Removing(s)
  BY DEF Forgotten, Owned, Removing, IdleHandler, TypeOK
<1>2. CreatesOne' /\ IdleUnserved' /\ StreamsApart'
  BY DEF OwnInv, CreatesOne, IdleUnserved, StreamsApart, TypeOK
<1>3. NumbersUsed'
  BY DEF OwnInv, NumbersUsed, TypeOK
<1>4. ForgottenHasNone' /\ RecordHasOwner' /\ LiveIsEnding'
  BY <1>1 DEF OwnInv, ForgottenHasNone, RecordHasOwner, LiveIsEnding
<1>5. QED
  BY <1>2, <1>3, <1>4 DEF OwnInv

LEMMA ServeOpenOwns ==
  ASSUME TypeOK, OwnInv, NEW c \in Conn, ServeOpen(c)
  PROVE  OwnInv'
<1>1. CASE UNCHANGED <<record, live, current, server, nextId>>
  BY <1>1, OtherStepsOwn DEF ServeOpen, clientVars
<1>2. CASE /\ nextId \in Ids
           /\ record' = [record EXCEPT ![nextId] = Fresh]
           /\ live' = [live EXCEPT ![nextId] = Fresh]
           /\ current' = [current EXCEPT ![c] = nextId]
           /\ server' = [server EXCEPT ![c] = "creating"]
           /\ nextId' = nextId + 1
  <2>1. /\ server[c] = "reading" /\ current[c] = 0
        /\ UNCHANGED <<client, abandoned, pending>>
    BY DEF ServeOpen, Receive, clientVars
  <2>2. /\ \A d \in Conn : current[d] \in Int /\ current[d] < nextId
        /\ nextId \in Nat
    BY DEF OwnInv, NumbersUsed, TypeOK, Ids
  <2>11. \A d \in Conn : current'[d] = IF d = c THEN nextId ELSE current[d]
    BY <1>2 DEF TypeOK
  <2>3. /\ \A s \in Ids : Removing(s)' <=> Removing(s)
        /\ \A s \in Ids : Owned(s) => Owned(s)'
        /\ \A s \in Ids : s = nextId => Owned(s)'
    <3>1. \A s \in Ids : s # 0
      BY DEF Ids
    <3>2. \A s \in Ids : Owned(s) => Owned(s)'
      BY <2>1, <2>11, <3>1 DEF Owned
    <3>3. \A s \in Ids : s = nextId => Owned(s)'
      BY <2>11 DEF Owned
    <3>4. QED
      BY <2>1, <3>2, <3>3 DEF Removing, IdleHandler
  <2>4. \A d \in Conn, s \in Ids : Forgotten(d, s)' <=> Forgotten(d, s)
    BY <1>2, <2>1 DEF Forgotten, TypeOK
  <2>5. CreatesOne' /\ IdleUnserved'
    BY <1>2, <2>1 DEF OwnInv, CreatesOne, IdleUnserved, TypeOK
  <2>6. NumbersUsed'
    BY <1>2, <2>2 DEF NumbersUsed, TypeOK
  <2>7. StreamsApart'
    BY <1>2, <2>2 DEF OwnInv, StreamsApart, TypeOK
  <2>8. ForgottenHasNone'
    BY <1>2, <2>2, <2>4 DEF OwnInv, ForgottenHasNone, Forgotten, TypeOK
  <2>9. RecordHasOwner' /\ LiveIsEnding'
    <3>1. \A s \in Ids : s # nextId => record'[s] = record[s] /\ live'[s] = live[s]
      BY <1>2 DEF TypeOK
    <3>2. \A s \in Ids : s = nextId => record'[s] # None
      BY <1>2, FreshIsSettings, NoneAssumption DEF TypeOK
    <3>3. RecordHasOwner'
      BY <2>1, <2>3, <3>1 DEF OwnInv, RecordHasOwner
    <3>4. LiveIsEnding'
      BY <2>3, <2>4, <3>1, <3>2 DEF OwnInv, LiveIsEnding
    <3>5. QED
      BY <3>3, <3>4
  <2>10. QED
    BY <2>5, <2>6, <2>7, <2>8, <2>9 DEF OwnInv
<1>3. QED
  BY <1>1, <1>2 DEF ServeOpen

LEMMA FinishOpenOwns ==
  ASSUME TypeOK, OwnInv, NEW c \in Conn, FinishOpen(c)
  PROVE  OwnInv'
<1>1. /\ server[c] = "creating" /\ current[c] \in Ids
      /\ UNCHANGED <<client, nextId, record, live, pending>>
  BY DEF FinishOpen, clientVars, streamVars, OwnInv, CreatesOne
<1>2. CASE /\ record[current[c]] = None
           /\ current' = [current EXCEPT ![c] = 0]
           /\ server' = [server EXCEPT ![c] = "reading"]
           /\ UNCHANGED abandoned
  BY <1>1, <1>2, TaskLetsGo
<1>3. CASE server' = [server EXCEPT ![c] = "reading"] /\ UNCHANGED <<current, abandoned>>
  BY <1>1, <1>3, TaskMovesOn
<1>4. CASE /\ abandoned' = abandoned \cup {current[c]}
           /\ current' = [current EXCEPT ![c] = 0]
           /\ server' = [server EXCEPT ![c] = "done"]
  BY <1>1, <1>4, TaskLetsGo
<1>5. QED
  BY <1>2, <1>3, <1>4 DEF FinishOpen

LEMMA EndingOwns ==
  ASSUME TypeOK, OwnInv, NEW c \in Conn, ForgetRecord(c) \/ EndConnection(c)
  PROVE  OwnInv'
<1>1. CASE ForgetRecord(c)
  <2>1. /\ server[c] = "ending" /\ server' = [server EXCEPT ![c] = "unhub"]
        /\ UNCHANGED <<client, current, abandoned, nextId, live, pending>>
    BY <1>1 DEF ForgetRecord, clientVars
  <2>2. \A s \in Ids : record'[s] = IF s = current[c] THEN None ELSE record[s]
    BY <1>1 DEF ForgetRecord, TypeOK, Ids
  <2>7. \A d \in Conn : server'[d] = IF d = c THEN "unhub" ELSE server[d]
    BY <2>1 DEF TypeOK
  <2>3. /\ \A s \in Ids : (Owned(s)' <=> Owned(s)) /\ (Removing(s)' <=> Removing(s))
        /\ \A d \in Conn, s \in Ids : Forgotten(d, s) => Forgotten(d, s)'
        /\ \A d \in Conn, s \in Ids : Forgotten(d, s)' => Forgotten(d, s) \/ s = current[c]
        /\ \A s \in Ids : s = current[c] => Forgotten(c, s)'
    BY <2>1, <2>7 DEF Forgotten, Owned, Removing, IdleHandler
  <2>4. CreatesOne' /\ IdleUnserved' /\ NumbersUsed' /\ StreamsApart'
    BY <2>1 DEF OwnInv, CreatesOne, IdleUnserved, NumbersUsed, StreamsApart, TypeOK
  <2>5. ForgottenHasNone' /\ RecordHasOwner' /\ LiveIsEnding'
    BY <2>1, <2>2, <2>3 DEF OwnInv, ForgottenHasNone, RecordHasOwner, LiveIsEnding
  <2>6. QED
    BY <2>4, <2>5 DEF OwnInv
<1>2. CASE EndConnection(c)
  <2>1. /\ server[c] = "unhub" /\ server' = [server EXCEPT ![c] = "done"]
        /\ current' = [current EXCEPT ![c] = 0]
        /\ UNCHANGED <<client, abandoned, nextId, record, pending>>
    BY <1>2 DEF EndConnection, clientVars
  <2>2. \A s \in Ids : live'[s] = IF s = current[c] THEN None ELSE live[s]
    BY <1>2 DEF EndConnection, TypeOK, Ids
  <2>3. \A s \in Ids : s = current[c] => record[s] = None
    BY <2>1 DEF OwnInv, ForgottenHasNone, Forgotten
  <2>4. /\ \A s \in Ids : s # current[c] => (Owned(s) => Owned(s)')
        /\ \A s \in Ids : Removing(s)' <=> Removing(s)
        /\ \A d \in Conn, s \in Ids : s # current[c] => (Forgotten(d, s)' <=> Forgotten(d, s))
        /\ \A d \in Conn, s \in Ids : Forgotten(d, s)' => Forgotten(d, s)
    BY <2>1 DEF Forgotten, Owned, Removing, IdleHandler, TypeOK, Ids
  <2>5. CreatesOne' /\ IdleUnserved' /\ StreamsApart'
    BY <2>1 DEF OwnInv, CreatesOne, IdleUnserved, StreamsApart, TypeOK
  <2>6. NumbersUsed'
    BY <2>1 DEF OwnInv, NumbersUsed, TypeOK
  <2>7. ForgottenHasNone' /\ RecordHasOwner' /\ LiveIsEnding'
    BY <2>1, <2>2, <2>3, <2>4 DEF OwnInv, ForgottenHasNone, RecordHasOwner, LiveIsEnding
  <2>8. QED
    BY <2>5, <2>6, <2>7 DEF OwnInv
<1>3. QED
  BY <1>1, <1>2

LEMMA ServeOwns ==
  ASSUME TypeOK, OwnInv, NEW c \in Conn, Serve(c)
  PROVE  OwnInv'
<1>1. CASE OpenAgain(c) \/ ServeData(c)
  BY <1>1, OtherStepsOwn DEF OpenAgain, ServeData, clientVars, serverVars, streamVars
<1>2. CASE PanicOnTorn(c)
  <2>1. /\ server[c] = "reading" /\ UNCHANGED <<client, nextId, record, live, pending>>
    BY <1>2 DEF PanicOnTorn, Receive, clientVars, serverVars, streamVars
  <2>2. CASE UNCHANGED serverVars
    BY <2>1, <2>2, OtherStepsOwn DEF serverVars
  <2>3. CASE /\ server' = [server EXCEPT ![c] = "done"]
             /\ abandoned' = abandoned \cup {current[c]}
             /\ current' = [current EXCEPT ![c] = 0]
    BY <2>1, <2>3, TaskLetsGo
  <2>4. QED
    BY <1>2, <2>2, <2>3 DEF PanicOnTorn
<1>3. CASE Hangup(c) \/ ReadFails(c)
  <2>1. /\ server[c] = "reading" /\ server' = [server EXCEPT ![c] = "ending"]
        /\ UNCHANGED <<client, current, abandoned, nextId, record, live, pending>>
    BY <1>3 DEF Hangup, ReadFails, Receive, clientVars, streamVars
  <2>2. QED
    BY <2>1, TaskMovesOn
<1>4. QED
  BY <1>1, <1>2, <1>3, ServeOpenOwns, FinishOpenOwns, EndingOwns DEF Serve

(* A command gives no stream life, and takes it from the one it removes.    *)
LEMMA WrittenWasLive ==
  ASSUME TypeOK, NEW h \in Handler, WriteLive(h), NEW s \in Ids, live[s] = None
  PROVE  live'[s] = None
<1>1. pending[h] \in HubWrite
  BY DEF TypeOK, WriteLive, IdleHandler
<1>2. pending[h].what \in {"volume", "mute", "remove"}
  BY <1>1, HubWriteFields
<1>3. CASE live[pending[h].stream] = None
  BY <1>3 DEF WriteLive
<1>4. CASE live[pending[h].stream] # None
  <2>1. pending[h].stream # s
    BY <1>4
  <2>2. CASE pending[h].what = "volume"
    <3>1. live' = [live EXCEPT ![pending[h].stream].volume = Capped(pending[h].volume)]
      BY <1>4, <2>2 DEF WriteLive
    <3>2. QED
      BY <2>1, <3>1 DEF TypeOK
  <2>3. CASE pending[h].what = "mute"
    <3>1. live' = [live EXCEPT ![pending[h].stream].muted = pending[h].muted]
      BY <1>4, <2>3 DEF WriteLive
    <3>2. QED
      BY <2>1, <3>1 DEF TypeOK
  <2>4. CASE pending[h].what = "remove"
    <3>1. live' = [live EXCEPT ![pending[h].stream] = None]
      BY <1>4, <2>4 DEF WriteLive
    <3>2. QED
      BY <2>1, <3>1 DEF TypeOK
  <2>5. QED
    BY <1>2, <2>2, <2>3, <2>4
<1>5. QED
  BY <1>3, <1>4

LEMMA RemovedIsGone ==
  ASSUME TypeOK, NEW h \in Handler, WriteLive(h), NEW s \in Ids,
         pending[h].stream = s, pending[h].what = "remove"
  PROVE  live'[s] = None
<1>1. CASE live[s] = None
  BY <1>1, WrittenWasLive
<1>2. CASE live[s] # None
  <2>1. live' = [live EXCEPT ![s] = None]
    BY <1>2 DEF WriteLive
  <2>2. QED
    BY <2>1 DEF TypeOK
<1>3. QED
  BY <1>1, <1>2

LEMMA CommandOwns ==
  ASSUME TypeOK, OwnInv, NEW h \in Handler, Command(h) \/ WriteLive(h)
  PROVE  OwnInv'
<1>1. UNCHANGED <<client, server, current, abandoned, nextId>>
  BY DEF Command, WriteLive, SetStreamVolume, SetStreamMute, DestroyStream, clientVars, serverVars
<1>2. /\ \A s \in Ids : Owned(s)' <=> Owned(s)
      /\ \A d \in Conn, s \in Ids : Forgotten(d, s)' <=> Forgotten(d, s)
  BY <1>1 DEF Owned, Forgotten
<1>3. CreatesOne' /\ IdleUnserved' /\ NumbersUsed' /\ StreamsApart'
  BY <1>1 DEF OwnInv, CreatesOne, IdleUnserved, NumbersUsed, StreamsApart
<1>4. CASE Command(h)
  <2>1. /\ pending[h] = NoWrite /\ \A g \in Handler : g # h => pending'[g] = pending[g]
        /\ UNCHANGED live
        /\ \A s \in Ids : record[s] = None => record'[s] = None
        /\ \A s \in Ids : record[s] # None /\ record'[s] = None =>
             pending'[h] = [stream |-> s, what |-> "remove"]
    <3>1. ASSUME NEW s \in Ids, NEW v \in Volume, SetStreamVolume(h, s, v)
          PROVE  <2>1
      <4>1. record[s] \in Settings /\ record' = [record EXCEPT ![s].volume = v]
        BY <3>1 DEF SetStreamVolume, TypeOK
      <4>2. [record[s] EXCEPT !.volume = v] \in Settings
        BY <4>1, VolumeAssumption DEF Settings
      <4>3. \A z \in Ids : record[z] = None <=> record'[z] = None
        BY <4>1, <4>2, NoneAssumption DEF TypeOK
      <4>4. QED
        BY <3>1, <4>3 DEF SetStreamVolume, Later, IdleHandler, TypeOK
    <3>2. ASSUME NEW s \in Ids, NEW mute \in BOOLEAN, SetStreamMute(h, s, mute)
          PROVE  <2>1
      <4>1. record[s] \in Settings /\ record' = [record EXCEPT ![s].muted = mute]
        BY <3>2 DEF SetStreamMute, TypeOK
      <4>2. [record[s] EXCEPT !.muted = mute] \in Settings
        BY <4>1 DEF Settings
      <4>3. \A z \in Ids : record[z] = None <=> record'[z] = None
        BY <4>1, <4>2, NoneAssumption DEF TypeOK
      <4>4. QED
        BY <3>2, <4>3 DEF SetStreamMute, Later, IdleHandler, TypeOK
    <3>3. ASSUME NEW s \in Ids, DestroyStream(h, s)
          PROVE  <2>1
      BY <3>3 DEF DestroyStream, Later, IdleHandler, TypeOK
    <3>4. QED
      BY <1>4, <3>1, <3>2, <3>3 DEF Command
  <2>2. \A s \in Ids : Removing(s) => Removing(s)'
    BY <2>1 DEF Removing, IdleHandler
  <2>3. \A s \in Ids : record[s] # None /\ record'[s] = None => Removing(s)'
    <3>1. \A s \in Ids : [stream |-> s, what |-> "remove"] # NoWrite
      BY DEF NoWrite
    <3>2. \A s \in Ids : [stream |-> s, what |-> "remove"].stream = s
      OBVIOUS
    <3>3. \A s \in Ids : [stream |-> s, what |-> "remove"].what = "remove"
      OBVIOUS
    <3>4. QED
      BY <2>1, <3>1, <3>2, <3>3 DEF Removing, IdleHandler
  <2>4. ForgottenHasNone' /\ RecordHasOwner' /\ LiveIsEnding'
    BY <1>1, <1>2, <2>1, <2>2, <2>3 DEF OwnInv, ForgottenHasNone, RecordHasOwner, LiveIsEnding
  <2>5. QED
    BY <1>3, <2>4 DEF OwnInv
<1>5. CASE WriteLive(h)
  <2>1. /\ UNCHANGED record
        /\ \A g \in Handler : g # h => pending'[g] = pending[g]
    BY <1>5 DEF WriteLive, TypeOK
  <2>2. \A s \in Ids : live'[s] # None => live[s] # None
    BY <1>5, WrittenWasLive DEF Ids
  <2>3. \A s \in Ids : live'[s] # None /\ Removing(s) => Removing(s)'
    <3>1. ASSUME NEW s \in Ids, live'[s] # None, NEW g \in Handler,
                 pending[g] # NoWrite, pending[g].stream = s, pending[g].what = "remove"
          PROVE  g # h
      BY <1>5, <3>1, RemovedIsGone
    <3>2. \A s \in Ids : [stream |-> s, what |-> "remove"].stream = s
      OBVIOUS
    <3>3. \A s \in Ids : [stream |-> s, what |-> "remove"].what = "remove"
      OBVIOUS
    <3>4. QED
      BY <2>1, <3>1, <3>2, <3>3 DEF Removing, IdleHandler
  <2>4. ForgottenHasNone' /\ RecordHasOwner' /\ LiveIsEnding'
    BY <1>1, <1>2, <2>1, <2>2, <2>3 DEF OwnInv, ForgottenHasNone, RecordHasOwner, LiveIsEnding
  <2>5. QED
    BY <1>3, <2>4 DEF OwnInv
<1>6. QED
  BY <1>4, <1>5

-----------------------------------------------------------------------------
(* Rings                                                                    *)

(* One sequence is the end of another.                                      *)
Ends(r, g) ==
  /\ Len(r) <= Len(g)
  /\ \A i \in 1 .. Len(r) : r[i] = g[Len(g) - Len(r) + i]

RingInv == \A s \in Ids : Len(ring[s]) <= RingCap /\ Ends(ring[s], got[s])

LEMMA EndsAfterPush ==
  ASSUME NEW S, NEW r \in Seq(S), NEW g \in Seq(S), NEW e \in S, Ends(r, g)
  PROVE  /\ Len(KeepNewest(Append(r, e))) <= RingCap
         /\ Ends(KeepNewest(Append(r, e)), Append(g, e))
<1> DEFINE a == Append(r, e)  b == Append(g, e)  k == KeepNewest(a)
<1>1. /\ a \in Seq(S) /\ Len(a) = Len(r) + 1 /\ a[Len(r) + 1] = e
      /\ \A i \in 1 .. Len(r) : a[i] = r[i]
  BY AppendGrows
<1>2. /\ Len(b) = Len(g) + 1 /\ b[Len(g) + 1] = e
      /\ \A i \in 1 .. Len(g) : b[i] = g[i]
  BY AppendGrows
<1>3. /\ k \in Seq(S) /\ Len(k) <= RingCap /\ Len(k) <= Len(a)
      /\ \A i \in 1 .. Len(k) : k[i] = a[Len(a) - Len(k) + i]
  BY <1>1, KeepNewestProperties
<1>4. Len(r) \in Nat /\ Len(g) \in Nat /\ Len(k) \in Nat /\ Len(r) <= Len(g)
  BY <1>3, LenProperties DEF Ends
<1>5. \A j \in 1 .. Len(a) : a[j] = b[Len(b) - Len(a) + j]
  <2>1. ASSUME NEW j \in 1 .. Len(r)
        PROVE  a[j] = b[Len(b) - Len(a) + j]
    <3>1. Len(g) - Len(r) + j \in 1 .. Len(g) /\ Len(b) - Len(a) + j = Len(g) - Len(r) + j
      BY <1>1, <1>2, <1>4
    <3>2. r[j] = g[Len(g) - Len(r) + j]
      BY DEF Ends
    <3>3. QED
      BY <1>1, <1>2, <3>1, <3>2
  <2>2. Len(b) - Len(a) + (Len(r) + 1) = Len(g) + 1
    BY <1>1, <1>2, <1>4
  <2>3. \A j \in 1 .. Len(a) : j \in 1 .. Len(r) \/ j = Len(r) + 1
    BY <1>1, <1>4
  <2>4. QED
    BY <1>1, <1>2, <2>1, <2>2, <2>3
<1> HIDE DEF a, b, k
<1>6. ASSUME NEW i \in 1 .. Len(k)
      PROVE  k[i] = b[Len(b) - Len(k) + i]
  <2>1. /\ Len(a) - Len(k) + i \in 1 .. Len(a)
        /\ Len(b) - Len(a) + (Len(a) - Len(k) + i) = Len(b) - Len(k) + i
    BY <1>1, <1>2, <1>3, <1>4
  <2>2. QED
    BY <1>3, <1>5, <2>1
<1>7. Len(k) <= Len(b)
  BY <1>1, <1>2, <1>3, <1>4
<1>8. Ends(k, b)
  BY <1>6, <1>7 DEF Ends
<1>9. QED
  BY <1>3, <1>8 DEF a, b, k

LEMMA EndsAfterMix ==
  ASSUME NEW S, NEW r \in Seq(S), NEW g \in Seq(S), NEW k \in 1 .. Len(r), Ends(r, g)
  PROVE  /\ Len(SubSeq(r, k + 1, Len(r))) <= Len(r)
         /\ Ends(SubSeq(r, k + 1, Len(r)), g)
<1> DEFINE m == SubSeq(r, k + 1, Len(r))
<1>1. /\ Len(m) = Len(r) - k
      /\ \A i \in 1 .. Len(r) - k : m[i] = r[k + i]
  BY MixedRest
<1>2. Len(r) \in Nat /\ Len(g) \in Nat /\ Len(r) <= Len(g)
  BY LenProperties DEF Ends
<1> HIDE DEF m
<1>3. ASSUME NEW i \in 1 .. Len(m)
      PROVE  m[i] = g[Len(g) - Len(m) + i]
  <2>1. k + i \in 1 .. Len(r) /\ Len(g) - Len(r) + (k + i) = Len(g) - Len(m) + i
    BY <1>1, <1>2
  <2>2. r[k + i] = g[Len(g) - Len(r) + (k + i)]
    BY <2>1 DEF Ends
  <2>3. QED
    BY <1>1, <2>1, <2>2
<1>4. Len(m) <= Len(r) /\ Len(m) <= Len(g)
  BY <1>1, <1>2
<1>5. QED
  BY <1>3, <1>4 DEF Ends, m

LEMMA EmptyEnds ==
  ASSUME NEW S, NEW g \in Seq(S)
  PROVE  Len(<<>>) <= RingCap /\ Ends(<<>>, g)
<1>1. Len(<<>>) = 0 /\ Len(g) \in Nat
  BY LenProperties
<1>2. 1 .. 0 = {}
  OBVIOUS
<1>3. QED
  BY <1>1, <1>2, RingAssumption DEF Ends

LEMMA EndIsNewest ==
  ASSUME NEW S, NEW r \in Seq(S), NEW g \in Seq(S), Ends(r, g)
  PROVE  r = Newest(g, Len(r))
<1>1. Len(r) \in 0 .. Len(g)
  BY LenProperties DEF Ends
<1>2. /\ Newest(g, Len(r)) \in Seq(S) /\ Len(Newest(g, Len(r))) = Len(r)
      /\ \A i \in 1 .. Len(r) : Newest(g, Len(r))[i] = g[Len(g) - Len(r) + i]
  BY <1>1, NewestProperties
<1>3. \A i \in 1 .. Len(r) : r[i] = Newest(g, Len(r))[i]
  BY <1>2 DEF Ends
<1>4. QED
  BY <1>2, <1>3, SeqEqual

LEMMA RingSteps ==
  ASSUME TypeOK, RingInv, [Next]_vars
  PROVE  RingInv'
<1>1. \A s \in Ids : ring[s] \in Seq(1 .. MaxSent) /\ got[s] \in Seq(1 .. MaxSent)
  BY DEF TypeOK
<1>2. ASSUME UNCHANGED <<ring, got>>
      PROVE  RingInv'
  BY <1>2 DEF RingInv, Ends
<1>3. ASSUME NEW s \in Ids, UNCHANGED got,
             \A z \in Ids : z # s => ring'[z] = ring[z],
             Len(ring'[s]) <= RingCap, Ends(ring'[s], got[s])
      PROVE  RingInv'
  <2>1. \A z \in Ids : Len(ring'[z]) <= RingCap /\ Ends(ring'[z], got'[z])
    BY <1>3 DEF RingInv
  <2>2. QED
    BY <2>1 DEF RingInv, Ends
<1>4. ASSUME NEW c \in Conn, ServeData(c)
      PROVE  RingInv'
  <2>1. current[c] \in Ids /\ Head(toServer[c]).n \in 1 .. MaxSent
    BY <1>4, ReceiveTypes DEF ServeData, TypeOK, Frame
  <2>2. PICK s \in Ids : s = current[c]
    BY <2>1
  <2>3. PICK n \in 1 .. MaxSent : n = Head(toServer[c]).n
    BY <2>1
  <2>4. CASE /\ ring' = [ring EXCEPT ![s] = KeepNewest(Append(@, n))]
             /\ got' = [got EXCEPT ![s] = Append(@, n)]
    <3>1. /\ ring'[s] = KeepNewest(Append(ring[s], n)) /\ got'[s] = Append(got[s], n)
          /\ \A z \in Ids : z # s => ring'[z] = ring[z] /\ got'[z] = got[z]
      BY <2>4 DEF TypeOK
    <3>2. Len(ring'[s]) <= RingCap /\ Ends(ring'[s], got'[s])
      BY <1>1, <3>1, EndsAfterPush DEF RingInv
    <3>3. \A z \in Ids : Len(ring'[z]) <= RingCap /\ Ends(ring'[z], got'[z])
      BY <3>1, <3>2 DEF RingInv
    <3>4. QED
      BY <3>3 DEF RingInv, Ends
  <2>5. Queue(s, n) \/ UNCHANGED <<ring, got>>
    BY <1>4, <2>2, <2>3 DEF ServeData
  <2>6. QED
    BY <1>2, <2>4, <2>5 DEF Queue
<1>5. ASSUME NEW s, ring' = [ring EXCEPT ![s] = <<>>] \/ UNCHANGED ring, UNCHANGED got
      PROVE  RingInv'
  <2>1. \A z \in Ids : ring'[z] = <<>> \/ ring'[z] = ring[z]
    BY <1>5 DEF TypeOK
  <2>2. \A z \in Ids : Len(ring'[z]) <= RingCap /\ Ends(ring'[z], got[z])
    BY <1>1, <2>1, EmptyEnds DEF RingInv
  <2>3. QED
    BY <1>5, <2>2 DEF RingInv, Ends
<1>6. ASSUME NEW c \in Conn, Client(c)
      PROVE  RingInv'
  BY <1>2, <1>6
     DEF Client, Connect, Opened, WritePcm, CloseStream, SendAnything, Vanish, streamVars
<1>7. ASSUME NEW c \in Conn, Serve(c)
      PROVE  RingInv'
  <2>1. CASE EndConnection(c)
    BY <1>5, <2>1 DEF EndConnection
  <2>2. CASE ~EndConnection(c) /\ ~ServeData(c)
    BY <1>2, <1>7, <2>2
       DEF Serve, ServeOpen, FinishOpen, OpenAgain, PanicOnTorn, Hangup, ReadFails,
           ForgetRecord, streamVars
  <2>3. QED
    BY <1>4, <2>1, <2>2
<1>8. ASSUME NEW h \in Handler, Command(h) \/ WriteLive(h)
      PROVE  RingInv'
  <2>1. CASE Command(h)
    BY <1>2, <2>1 DEF Command, SetStreamVolume, SetStreamMute, DestroyStream
  <2>2. CASE WriteLive(h)
    BY <1>5, <2>2 DEF WriteLive
  <2>3. QED
    BY <1>8, <2>1, <2>2
<1>9. ASSUME NEW s \in Ids, Mix(s)
      PROVE  RingInv'
  <2>1. PICK k \in 1 .. Len(ring[s]) : ring' = [ring EXCEPT ![s] = SubSeq(@, k + 1, Len(@))]
    BY <1>9 DEF Mix
  <2>2. UNCHANGED got /\ \A z \in Ids : z # s => ring'[z] = ring[z]
    BY <1>9, <2>1 DEF Mix, TypeOK
  <2>3. ring'[s] = SubSeq(ring[s], k + 1, Len(ring[s]))
    BY <2>1 DEF TypeOK
  <2>4. Len(ring'[s]) <= Len(ring[s]) /\ Ends(ring'[s], got[s])
    BY <1>1, <2>3, EndsAfterMix DEF RingInv
  <2>5. ring'[s] \in Seq(1 .. MaxSent)
    BY <1>1, <2>3, MixedRest
  <2>6. Len(ring'[s]) \in Nat /\ Len(ring[s]) \in Nat /\ Len(ring[s]) <= RingCap
    BY <1>1, <2>5, LenProperties DEF RingInv
  <2>7. Len(ring'[s]) <= RingCap
    BY <2>4, <2>6, RingAssumption
  <2>8. QED
    BY <1>3, <2>2, <2>4, <2>7
<1>10. CASE UNCHANGED vars
  BY <1>2, <1>10 DEF vars
<1>11. QED
  BY <1>6, <1>7, <1>8, <1>9, <1>10 DEF Next

-----------------------------------------------------------------------------
(* The invariant                                                            *)

Inv == TypeOK /\ OwnInv /\ RingInv

LEMMA InitInv == Init => Inv
<1>1. Init => RingInv
  <2> SUFFICES ASSUME Init, NEW s \in Ids
               PROVE  Len(ring[s]) <= RingCap /\ Ends(ring[s], got[s])
    BY DEF RingInv
  <2>1. ring[s] = <<>> /\ got[s] = <<>> /\ <<>> \in Seq({})
    BY DEF Init
  <2>2. QED
    BY <2>1, EmptyEnds
<1>2. QED
  BY <1>1, InitTypes, InitOwns DEF Inv

LEMMA NextInv == Inv /\ [Next]_vars => Inv'
<1> SUFFICES ASSUME Inv, [Next]_vars PROVE Inv'
  OBVIOUS
<1> USE DEF Inv
<1>1. TypeOK'
  <2>1. CASE UNCHANGED vars
    BY <2>1 DEF vars, TypeOK
  <2>2. QED
    BY <2>1, ClientTypes, ServeTypes, CommandTypes, MixTypes DEF Next, OwnInv
<1>2. OwnInv'
  <2>1. ASSUME NEW s \in Ids, Mix(s)
        PROVE  OwnInv'
    BY <2>1, OtherStepsOwn DEF Mix, clientVars, serverVars
  <2>2. CASE UNCHANGED vars
    BY <2>2, OtherStepsOwn DEF vars
  <2>3. QED
    BY <2>1, <2>2, ClientOwns, ServeOwns, CommandOwns DEF Next
<1>3. RingInv'
  BY RingSteps
<1>4. QED
  BY <1>1, <1>2, <1>3

LEMMA Invariant == Spec => []Inv
BY InitInv, NextInv, PTL DEF Spec

(* Every variable keeps its type.                                           *)
THEOREM TypeCorrect == Spec => []TypeOK
<1>1. Inv => TypeOK
  BY DEF Inv
<1>2. QED
  BY <1>1, Invariant, PTL

(* What exists of a stream, record or live, has a connection whose task     *)
(* will destroy it, or is about to be removed by a command, or was left     *)
(* behind in one of the two known ways.                                     *)
THEOREM StreamsAreOwned == Spec => []StreamHasConnectionOrIsAbandoned
<1>1. Inv => StreamHasConnectionOrIsAbandoned
  BY DEF Inv, OwnInv, RecordHasOwner, LiveIsEnding, Forgotten, Owned,
         StreamHasConnectionOrIsAbandoned
<1>2. QED
  BY <1>1, Invariant, PTL

(* No two connections ever write into the same stream.                      *)
THEOREM OneWriterPerStream == Spec => []StreamsApart
<1>1. Inv => StreamsApart
  BY DEF Inv, OwnInv
<1>2. QED
  BY <1>1, Invariant, PTL

(* A ring never exceeds its capacity and holds the newest of what its       *)
(* stream was sent, in order and without a gap.                             *)
THEOREM RingsHoldNewest == Spec => []RingIsNewest
<1>1. Inv => RingIsNewest
  <2> SUFFICES ASSUME Inv, NEW s \in Ids
               PROVE  Len(ring[s]) <= RingCap /\ ring[s] = Newest(got[s], Len(ring[s]))
    BY DEF RingIsNewest
  <2>2. ring[s] \in Seq(1 .. MaxSent) /\ got[s] \in Seq(1 .. MaxSent)
    BY DEF Inv, TypeOK
  <2>3. Len(ring[s]) <= RingCap /\ Ends(ring[s], got[s])
    BY DEF Inv, RingInv
  <2>4. QED
    BY <2>2, <2>3, EndIsNewest
<1>2. QED
  BY <1>1, Invariant, PTL

-----------------------------------------------------------------------------
(* Volume and mute                                                          *)

Misled(s) ==
  /\ WrongVolume(s)' => WrongVolume(s) \/ LateVolume(s)
  /\ WrongMute(s)' => WrongMute(s) \/ LateMute(s)

(* Nothing changes for a stream, or it is begun afresh, or given up.        *)
LEMMA NotMisled ==
  ASSUME NEW s \in Ids, UNCHANGED pending,
         \/ record'[s] = record[s] /\ live'[s] = live[s]
         \/ record'[s] = Fresh /\ live'[s] = Fresh
         \/ record'[s] = None
         \/ live'[s] = None
  PROVE  Misled(s)
<1>1. CASE record'[s] = record[s] /\ live'[s] = live[s]
  BY <1>1 DEF Misled, WrongVolume, WrongMute, Mixed, TellsVolume, TellsMute, Tells, IdleHandler
<1>2. CASE record'[s] = Fresh /\ live'[s] = Fresh
  BY <1>2 DEF Misled, WrongVolume, WrongMute, Fresh, Capped, FullVolume
<1>3. CASE record'[s] = None \/ live'[s] = None
  BY <1>3 DEF Misled, WrongVolume, WrongMute, Mixed
<1>4. QED
  BY <1>1, <1>2, <1>3

LEMMA CommandMisled ==
  ASSUME TypeOK, NEW h \in Handler, Command(h), NEW s \in Ids
  PROVE  Misled(s)
<1>0. /\ UNCHANGED live /\ pending[h] = NoWrite
      /\ \A g \in Handler : g # h => pending'[g] = pending[g]
  <2>1. /\ UNCHANGED live /\ IdleHandler(h)
        /\ \E w : Later(h, w)
    BY Zenon DEF Command, SetStreamVolume, SetStreamMute, DestroyStream
  <2>2. QED
    BY <2>1 DEF IdleHandler, Later, TypeOK
<1>1. CASE UNCHANGED record
  BY <1>0, <1>1
     DEF Misled, WrongVolume, WrongMute, Mixed, TellsVolume, TellsMute, Tells, IdleHandler
<1>2. ASSUME NEW v \in Volume, NEW z \in Ids, SetStreamVolume(h, z, v) PROVE Misled(s)
  <2>1. record[z] \in Settings /\ v \in Nat
    BY <1>2, VolumeAssumption DEF SetStreamVolume, TypeOK
  <2>2. /\ record'[z] = [record[z] EXCEPT !.volume = v]
        /\ \A y \in Ids : y # z => record'[y] = record[y]
        /\ pending'[h] = [stream |-> z, what |-> "volume", volume |-> v]
    BY <1>2 DEF SetStreamVolume, Later, TypeOK
  <2>3. record'[z].volume = v /\ record'[z].muted = record[z].muted /\ record[z] # None
    BY <2>1, <2>2, NoneAssumption DEF Settings
  <2>4. pending'[h] # NoWrite /\ pending'[h].stream = z /\ pending'[h].what = "volume"
        /\ pending'[h].volume = v
    BY <2>2 DEF NoWrite
  <2>5. CASE s = z
    <3>1. TellsVolume(h, s)'
      BY <2>3, <2>4, <2>5 DEF TellsVolume, Tells, IdleHandler
    <3>2. ~WrongVolume(s)'
      BY <3>1 DEF WrongVolume
    <3>3. \A g \in Handler : TellsMute(g, s) => TellsMute(g, s)'
      BY <1>0, <2>3, <2>5 DEF TellsMute, Tells, IdleHandler
    <3>4. WrongMute(s)' => WrongMute(s)
      BY <1>0, <2>3, <2>5, <3>3 DEF WrongMute, Mixed
    <3>5. QED
      BY <3>2, <3>4 DEF Misled
  <2>6. CASE s # z
    BY <1>0, <2>2, <2>6
       DEF Misled, WrongVolume, WrongMute, Mixed, TellsVolume, TellsMute, Tells, IdleHandler
  <2>7. QED
    BY <2>5, <2>6
<1>3. ASSUME NEW m \in BOOLEAN, NEW z \in Ids, SetStreamMute(h, z, m) PROVE Misled(s)
  <2>1. record[z] \in Settings
    BY <1>3 DEF SetStreamMute, TypeOK
  <2>2. /\ record'[z] = [record[z] EXCEPT !.muted = m]
        /\ \A y \in Ids : y # z => record'[y] = record[y]
        /\ pending'[h] = [stream |-> z, what |-> "mute", muted |-> m]
    BY <1>3 DEF SetStreamMute, Later, TypeOK
  <2>3. record'[z].muted = m /\ record'[z].volume = record[z].volume /\ record[z] # None
    BY <2>1, <2>2, NoneAssumption DEF Settings
  <2>4. pending'[h] # NoWrite /\ pending'[h].stream = z /\ pending'[h].what = "mute"
        /\ pending'[h].muted = m
    BY <2>2 DEF NoWrite
  <2>5. CASE s = z
    <3>1. TellsMute(h, s)'
      BY <2>3, <2>4, <2>5 DEF TellsMute, Tells, IdleHandler
    <3>2. ~WrongMute(s)'
      BY <3>1 DEF WrongMute
    <3>3. \A g \in Handler : TellsVolume(g, s) => TellsVolume(g, s)'
      BY <1>0, <2>3, <2>5 DEF TellsVolume, Tells, IdleHandler
    <3>4. WrongVolume(s)' => WrongVolume(s)
      BY <1>0, <2>3, <2>5, <3>3 DEF WrongVolume, Mixed
    <3>5. QED
      BY <3>2, <3>4 DEF Misled
  <2>6. CASE s # z
    BY <1>0, <2>2, <2>6
       DEF Misled, WrongVolume, WrongMute, Mixed, TellsVolume, TellsMute, Tells, IdleHandler
  <2>7. QED
    BY <2>5, <2>6
<1>4. ASSUME NEW z \in Ids, DestroyStream(h, z) PROVE Misled(s)
  <2>1. \/ record'[s] = None
        \/ record'[s] = record[s]
    BY <1>4 DEF DestroyStream, TypeOK
  <2>2. \A g \in Handler : /\ TellsVolume(g, s) /\ record'[s] = record[s] => TellsVolume(g, s)'
                           /\ TellsMute(g, s) /\ record'[s] = record[s] => TellsMute(g, s)'
    BY <1>0 DEF TellsVolume, TellsMute, Tells, IdleHandler
  <2>3. QED
    BY <1>0, <2>1, <2>2 DEF Misled, WrongVolume, WrongMute, Mixed
<1>5. QED
  BY <1>2, <1>3, <1>4 DEF Command

(* A write of what the record says corrects the mixer, another one is late. *)
LEMMA WriteMisled ==
  ASSUME TypeOK, NEW h \in Handler, WriteLive(h), NEW s \in Ids
  PROVE  Misled(s)
<1>1. PICK w \in HubWrite : w = pending[h]
  BY DEF TypeOK, WriteLive, IdleHandler
<1>2. /\ pending[h] # NoWrite /\ pending'[h] = NoWrite /\ UNCHANGED record
      /\ \A g \in Handler : g # h => pending'[g] = pending[g]
      /\ w.stream \in Ids /\ w.what \in {"volume", "mute", "remove"}
  BY <1>1, HubWriteFields DEF WriteLive, IdleHandler, TypeOK
<1>3. \A g \in Handler : g # h => /\ TellsVolume(g, s) => TellsVolume(g, s)'
                                  /\ TellsMute(g, s) => TellsMute(g, s)'
  BY <1>2 DEF TellsVolume, TellsMute, Tells, IdleHandler
<1>4. CASE w.stream # s \/ live[s] = None
  <2>1. live'[s] = live[s] \/ live'[s] = None
    BY <1>1, <1>2, <1>4 DEF WriteLive, TypeOK
  <2>2. CASE live'[s] = None
    BY <2>2 DEF Misled, WrongVolume, WrongMute, Mixed
  <2>3. CASE live'[s] = live[s] /\ live[s] # None
    <3>1. ~TellsVolume(h, s) /\ ~TellsMute(h, s)
      BY <1>1, <1>4, <2>3 DEF TellsVolume, TellsMute, Tells
    <3>2. QED
      BY <1>2, <1>3, <2>3, <3>1 DEF Misled, WrongVolume, WrongMute, Mixed
  <2>4. QED
    BY <2>1, <2>2, <2>3
<1>5. CASE w.stream = s /\ live[s] # None /\ w.what = "remove"
  <2>1. live' = [live EXCEPT ![s] = None]
    BY <1>1, <1>5 DEF WriteLive
  <2>2. live'[s] = None
    BY <2>1 DEF TypeOK
  <2>3. QED
    BY <2>2 DEF Misled, WrongVolume, WrongMute, Mixed
<1>6. CASE w.stream = s /\ live[s] # None /\ w.what = "volume"
  <2>1. live' = [live EXCEPT ![s].volume = Capped(w.volume)]
    BY <1>1, <1>6 DEF WriteLive
  <2>2. live[s] \in Settings
    BY <1>6 DEF TypeOK
  <2>3. live'[s].volume = Capped(w.volume) /\ live'[s].muted = live[s].muted
    BY <2>1, <2>2 DEF TypeOK, Settings
  <2>4. ~TellsMute(h, s)
    BY <1>1, <1>6 DEF TellsMute, Tells
  <2>5. WrongMute(s)' => WrongMute(s)
    BY <1>2, <1>3, <1>6, <2>3, <2>4 DEF WrongMute, Mixed
  <2>6. w.volume # record[s].volume => LateVolume(s)
    BY <1>1, <1>2, <1>6 DEF LateVolume, TellsVolume, Tells, IdleHandler
  <2>7. w.volume = record[s].volume => ~WrongVolume(s)'
    BY <1>2, <2>3 DEF WrongVolume
  <2>8. QED
    BY <2>5, <2>6, <2>7 DEF Misled
<1>7. CASE w.stream = s /\ live[s] # None /\ w.what = "mute"
  <2>1. live' = [live EXCEPT ![s].muted = w.muted]
    BY <1>1, <1>7 DEF WriteLive
  <2>2. live[s] \in Settings
    BY <1>7 DEF TypeOK
  <2>3. live'[s].muted = w.muted /\ live'[s].volume = live[s].volume
    BY <2>1, <2>2 DEF TypeOK, Settings
  <2>4. ~TellsVolume(h, s)
    BY <1>1, <1>7 DEF TellsVolume, Tells
  <2>5. WrongVolume(s)' => WrongVolume(s)
    BY <1>2, <1>3, <1>7, <2>3, <2>4 DEF WrongVolume, Mixed
  <2>6. w.muted # record[s].muted => LateMute(s)
    BY <1>1, <1>2, <1>7 DEF LateMute, TellsMute, Tells, IdleHandler
  <2>7. w.muted = record[s].muted => ~WrongMute(s)'
    BY <1>2, <2>3 DEF WrongMute
  <2>8. QED
    BY <2>5, <2>6, <2>7 DEF Misled
<1>8. QED
  BY <1>2, <1>4, <1>5, <1>6, <1>7

LEMMA OnlyLateMislead ==
  ASSUME TypeOK, [Next]_vars, NEW s \in Ids
  PROVE  Misled(s)
<1>1. ASSUME UNCHANGED <<record, live, pending>>
      PROVE  Misled(s)
  BY <1>1, NotMisled
<1>2. ASSUME NEW c \in Conn, Client(c)
      PROVE  Misled(s)
  BY <1>1, <1>2
     DEF Client, Connect, Opened, WritePcm, CloseStream, SendAnything, Vanish, serverVars, streamVars
<1>3. ASSUME NEW c \in Conn, ServeOpen(c)
      PROVE  Misled(s)
  <2>1. CASE UNCHANGED <<record, live>>
    BY <1>1, <1>3, <2>1 DEF ServeOpen
  <2>2. CASE /\ nextId \in Ids
             /\ record' = [record EXCEPT ![nextId] = Fresh]
             /\ live' = [live EXCEPT ![nextId] = Fresh]
    <3>1. \/ record'[s] = record[s] /\ live'[s] = live[s]
          \/ record'[s] = Fresh /\ live'[s] = Fresh
      BY <2>2 DEF TypeOK
    <3>2. UNCHANGED pending
      BY <1>3 DEF ServeOpen
    <3>3. QED
      BY <3>1, <3>2, NotMisled
  <2>3. QED
    BY <1>3, <2>1, <2>2 DEF ServeOpen
<1>4. ASSUME NEW c \in Conn, ForgetRecord(c) \/ EndConnection(c)
      PROVE  Misled(s)
  <2>1. UNCHANGED pending
    BY <1>4 DEF ForgetRecord, EndConnection
  <2>2. \/ record'[s] = record[s] /\ live'[s] = live[s]
        \/ record'[s] = None
        \/ live'[s] = None
    BY <1>4 DEF ForgetRecord, EndConnection, TypeOK
  <2>3. QED
    BY <2>1, <2>2, NotMisled
<1>5. ASSUME NEW c \in Conn, Serve(c)
      PROVE  Misled(s)
  <2>1. CASE FinishOpen(c) \/ OpenAgain(c) \/ ServeData(c) \/ PanicOnTorn(c) \/ Hangup(c) \/ ReadFails(c)
    BY <1>1, <2>1
       DEF FinishOpen, OpenAgain, ServeData, PanicOnTorn, Hangup, ReadFails, serverVars, streamVars
  <2>2. QED
    BY <1>3, <1>4, <1>5, <2>1 DEF Serve
<1>6. ASSUME NEW z \in Ids, Mix(z)
      PROVE  Misled(s)
  BY <1>1, <1>6 DEF Mix, serverVars
<1>7. CASE UNCHANGED vars
  BY <1>1, <1>7 DEF vars
<1>8. QED
  BY <1>2, <1>5, <1>6, <1>7, CommandMisled, WriteMisled DEF Next

(* However many commands set the volume and the mute of a stream at the     *)
(* same time, the mixers are misled only by a late write: of everything the *)
(* commands, the connections and the mixers do, only a write of a value     *)
(* that another command has replaced takes the mixers away from the record. *)
THEOREM MixersMisledOnlyByLateWrites == Spec => OnlyLateSettingsMislead
<1>1. ASSUME TypeOK, [Next]_vars
      PROVE  [\A s \in Ids : /\ WrongVolume(s)' => WrongVolume(s) \/ LateVolume(s)
                             /\ WrongMute(s)' => WrongMute(s) \/ LateMute(s)]_vars
  BY <1>1, OnlyLateMislead DEF Misled
<1>2. QED
  BY <1>1, TypeCorrect, PTL DEF Spec, OnlyLateSettingsMislead
-----------------------------------------------------------------------------
(* Samples stay aligned                                                     *)

Sample == [a : Nat \X (1 .. 2), b : Nat \X (1 .. 2)]

(* What is asked of everything that is heard.                               *)
Aligned(s, channels) ==
  /\ s \in Seq(Sample) /\ Len(s) % 2 = 0
  /\ \A i \in 1 .. (Len(s) \div 2) : IsFrame(s[2 * i - 1], s[2 * i], channels)
  /\ \A k \in 1 .. Len(s) : s[k].b[1] - s[k].a[1] \in {0, 1}
  /\ \A j, k \in 1 .. Len(s) : j <= k => s[j].a[1] <= s[k].a[1]
Ordered(s, t) == \A j \in 1 .. Len(s), k \in 1 .. Len(t) : s[j].a[1] <= t[k].a[1]
Until(s, n) == \A k \in 1 .. Len(s) : s[k].a[1] < n

LEMMA Halves ==
  ASSUME NEW n \in Nat
  PROVE  /\ n \div 2 \in Nat /\ 2 * (n \div 2) <= n
         /\ n % 2 = 0 <=> n = 2 * (n \div 2)
         /\ \A m \in Nat : (2 * m) \div 2 = m /\ (2 * m) % 2 = 0
OBVIOUS

LEMMA AlignedLen ==
  ASSUME NEW s, NEW c, Aligned(s, c)
  PROVE  s \in Seq(Sample) /\ Len(s) \in Nat /\ Len(s) % 2 = 0
BY DEF Aligned

LEMMA ConcatParts ==
  ASSUME NEW S, NEW s \in Seq(S), NEW t \in Seq(S)
  PROVE  /\ s \o t \in Seq(S) /\ Len(s \o t) = Len(s) + Len(t)
         /\ Len(s) \in Nat /\ Len(t) \in Nat
         /\ \A i \in 1 .. Len(s) : (s \o t)[i] = s[i]
         /\ \A i \in Len(s) + 1 .. Len(s) + Len(t) :
              i - Len(s) \in 1 .. Len(t) /\ (s \o t)[i] = t[i - Len(s)]
OBVIOUS

LEMMA AlignedConcat ==
  ASSUME NEW c, NEW s, NEW t, Aligned(s, c), Aligned(t, c), Ordered(s, t)
  PROVE  Aligned(s \o t, c)
<1> DEFINE m == Len(s)
           n == Len(t)
           u == s \o t
<1>1. /\ u \in Seq(Sample) /\ Len(u) = m + n /\ m \in Nat /\ n \in Nat
      /\ \A i \in 1 .. m : u[i] = s[i]
      /\ \A i \in m + 1 .. m + n : i - m \in 1 .. n /\ u[i] = t[i - m]
  BY ConcatParts DEF Aligned
<1>2. /\ m % 2 = 0 /\ n % 2 = 0
      /\ \A i \in 1 .. (m \div 2) : IsFrame(s[2 * i - 1], s[2 * i], c)
      /\ \A i \in 1 .. (n \div 2) : IsFrame(t[2 * i - 1], t[2 * i], c)
      /\ \A k \in 1 .. m : s[k].b[1] - s[k].a[1] \in {0, 1}
      /\ \A k \in 1 .. n : t[k].b[1] - t[k].a[1] \in {0, 1}
      /\ \A j, k \in 1 .. m : j <= k => s[j].a[1] <= s[k].a[1]
      /\ \A j, k \in 1 .. n : j <= k => t[j].a[1] <= t[k].a[1]
      /\ \A j \in 1 .. m, k \in 1 .. n : s[j].a[1] <= t[k].a[1]
  BY DEF Aligned, Ordered
<1> HIDE DEF m, n, u
<1>3. PICK p \in Nat, q \in Nat : m = 2 * p /\ n = 2 * q /\ m \div 2 = p /\ n \div 2 = q
  BY <1>1, <1>2, Halves
<1>4. (m + n) % 2 = 0 /\ (m + n) \div 2 = p + q
  <2>1. m + n = 2 * (p + q) /\ p + q \in Nat
    BY <1>3
  <2>2. QED
    BY <2>1, Halves
<1>5. ASSUME NEW i \in 1 .. p + q PROVE IsFrame(u[2 * i - 1], u[2 * i], c)
  <2>1. CASE i <= p
    <3>1. i \in 1 .. p /\ 2 * i - 1 \in 1 .. m /\ 2 * i \in 1 .. m
      BY <1>3, <2>1
    <3>2. QED
      BY <1>1, <1>2, <1>3, <3>1
  <2>2. CASE i > p
    <3>1. i - p \in 1 .. q /\ 2 * i - 1 \in m + 1 .. m + n /\ 2 * i \in m + 1 .. m + n
          /\ (2 * i - 1) - m = 2 * (i - p) - 1 /\ 2 * i - m = 2 * (i - p)
      BY <1>3, <2>2
    <3>2. u[2 * i - 1] = t[2 * (i - p) - 1] /\ u[2 * i] = t[2 * (i - p)]
      BY <1>1, <3>1
    <3>3. QED
      BY <1>2, <1>3, <3>1, <3>2
  <2>3. QED
    BY <1>3, <2>1, <2>2
<1>6. ASSUME NEW k \in 1 .. m + n PROVE u[k].b[1] - u[k].a[1] \in {0, 1}
  <2>1. CASE k <= m
    BY <1>1, <1>2, <2>1
  <2>2. CASE k > m
    <3>1. k \in m + 1 .. m + n
      BY <1>1, <2>2
    <3>2. QED
      BY <1>1, <1>2, <3>1
  <2>3. QED
    BY <1>1, <2>1, <2>2
<1>7. ASSUME NEW j \in 1 .. m + n, NEW k \in 1 .. m + n, j <= k PROVE u[j].a[1] <= u[k].a[1]
  <2>1. CASE k <= m
    <3>1. j \in 1 .. m /\ k \in 1 .. m
      BY <1>1, <1>7, <2>1
    <3>2. QED
      BY <1>1, <1>2, <1>7, <3>1
  <2>2. CASE k > m /\ j <= m
    <3>1. k \in m + 1 .. m + n /\ j \in 1 .. m
      BY <1>1, <2>2
    <3>2. QED
      BY <1>1, <1>2, <3>1
  <2>3. CASE k > m /\ j > m
    <3>1. k \in m + 1 .. m + n /\ j \in m + 1 .. m + n /\ j - m <= k - m
      BY <1>1, <1>7, <2>3
    <3>2. QED
      BY <1>1, <1>2, <3>1
  <2>4. QED
    BY <1>1, <2>1, <2>2, <2>3
<1>8. QED
  BY <1>1, <1>3, <1>4, <1>5, <1>6, <1>7 DEF Aligned, u

(* Whole frames from the middle.                                            *)
Part(u, s, x, y) ==
  /\ x \in Nat /\ y \in Nat /\ x <= y /\ 2 * y <= Len(s)
  /\ u = SubSeq(s, 2 * x + 1, 2 * y)

LEMMA AlignedPart ==
  ASSUME NEW c, NEW s, Aligned(s, c), NEW x, NEW y, NEW u, Part(u, s, x, y)
  PROVE  /\ Aligned(u, c) /\ Len(u) = 2 * (y - x)
         /\ \A k \in 1 .. Len(u) : k + 2 * x \in 1 .. Len(s) /\ u[k] = s[k + 2 * x]
<1> DEFINE m == Len(s)
<1>0. x \in Nat /\ y \in Nat /\ x <= y /\ 2 * y <= m /\ u = SubSeq(s, 2 * x + 1, 2 * y)
  BY DEF Part
<1>1. s \in Seq(Sample) /\ m \in Nat /\ \A k \in 1 .. m : s[k] \in Sample
  BY DEF Aligned
<1>2. /\ u \in Seq(Sample) /\ Len(u) = 2 * (y - x)
      /\ \A k \in 1 .. 2 * (y - x) : u[k] = s[(2 * x + 1) + k - 1]
  <2>1. \A k \in (2 * x + 1) .. (2 * y) : s[k] \in Sample
    BY <1>0, <1>1
  <2>2. Len(u) = IF 2 * x + 1 <= 2 * y THEN 2 * y - (2 * x + 1) + 1 ELSE 0
    BY <1>0, <2>1, SubSeqProperties
  <2>3. Len(u) = 2 * (y - x)
    BY <1>0, <2>2
  <2>4. u \in Seq(Sample) /\ \A k \in 1 .. Len(u) : u[k] = s[(2 * x + 1) + k - 1]
    BY <1>0, <2>1, SubSeqProperties
  <2>5. QED
    BY <1>0, <2>3, <2>4
<1>3. \A k \in 1 .. 2 * (y - x) : k + 2 * x \in 1 .. m /\ u[k] = s[k + 2 * x]
  BY <1>0, <1>2, <1>1
<1>4. /\ m % 2 = 0
      /\ \A i \in 1 .. (m \div 2) : IsFrame(s[2 * i - 1], s[2 * i], c)
      /\ \A k \in 1 .. m : s[k].b[1] - s[k].a[1] \in {0, 1}
      /\ \A j, k \in 1 .. m : j <= k => s[j].a[1] <= s[k].a[1]
  BY DEF Aligned
<1> HIDE DEF m
<1>5. PICK p \in Nat : m = 2 * p /\ m \div 2 = p
  BY <1>0, <1>1, <1>4, Halves
<1>6. Len(u) % 2 = 0 /\ Len(u) \div 2 = y - x /\ y - x \in Nat
  BY <1>0, <1>2, Halves
<1>7. ASSUME NEW i \in 1 .. y - x PROVE IsFrame(u[2 * i - 1], u[2 * i], c)
  <2>1. /\ 2 * i - 1 \in 1 .. 2 * (y - x) /\ 2 * i \in 1 .. 2 * (y - x)
        /\ (2 * i - 1) + 2 * x = 2 * (i + x) - 1 /\ 2 * i + 2 * x = 2 * (i + x)
        /\ i + x \in 1 .. p
    BY <1>0, <1>5, <1>6 DEF m
  <2>2. QED
    BY <1>0, <1>3, <1>4, <1>5, <2>1
<1>8. \A k \in 1 .. Len(u) : u[k].b[1] - u[k].a[1] \in {0, 1}
  BY <1>0, <1>2, <1>3, <1>4
<1>9. ASSUME NEW j \in 1 .. Len(u), NEW k \in 1 .. Len(u), j <= k PROVE u[j].a[1] <= u[k].a[1]
  <2>1. j \in 1 .. 2 * (y - x) /\ k \in 1 .. 2 * (y - x)
    BY <1>0, <1>2
  <2>2. /\ j + 2 * x \in 1 .. m /\ k + 2 * x \in 1 .. m
        /\ u[j] = s[j + 2 * x] /\ u[k] = s[k + 2 * x]
    BY <1>0, <1>3, <2>1
  <2>3. j + 2 * x <= k + 2 * x
    BY <1>0, <1>9, <2>1
  <2>4. QED
    BY <1>0, <1>4, <2>2, <2>3
<1>10. QED
  BY <1>0, <1>2, <1>3, <1>6, <1>7, <1>8, <1>9 DEF Aligned, m


-----------------------------------------------------------------------------
(* What a payload becomes                                                   *)

(* The i-th of the stereo samples made of a payload that begins with frame  *)
(* `first`, and samples of which n frames are whole.                        *)
SampleAt(first, i, channels) ==
  <<first + ((i - 1) \div 2), IF channels = 1 THEN 1 ELSE ((i - 1) % 2) + 1>>
IsStereo(t, first, n, channels) ==
  /\ n \in Nat /\ Len(t) \in {2 * n, 2 * n + 1}
  /\ DOMAIN t = 1 .. Len(t)
  /\ \A i \in 1 .. (2 * n) : t[i] = SampleAt(first, i, channels)

LEMMA Pairs ==
  ASSUME NEW n \in Nat, NEW i \in 1 .. (2 * n)
  PROVE  /\ (i - 1) \div 2 \in 0 .. n - 1 /\ (i - 1) % 2 \in {0, 1}
         /\ i - 1 = 2 * ((i - 1) \div 2) + ((i - 1) % 2)
         /\ (i + 1) \div 2 = (i - 1) \div 2 + 1
<1>1. (i - 1) % 2 \in {0, 1} /\ (i - 1) \div 2 \in Int
  OBVIOUS
<1>2. i - 1 = 2 * ((i - 1) \div 2) + ((i - 1) % 2)
  OBVIOUS
<1>3. (i - 1) \div 2 >= 0 /\ (i - 1) \div 2 <= n - 1
  BY <1>1, <1>2
<1>4. (i + 1) \div 2 = (i - 1) \div 2 + 1
  OBVIOUS
<1>5. QED
  BY <1>1, <1>2, <1>3, <1>4

LEMMA StereoOfMono ==
  ASSUME NEW first \in Nat, NEW samples \in Nat
  PROVE  /\ IsStereo(ToStereo(Payload(first, samples, 1), 1), first, samples, 1)
         /\ Len(ToStereo(Payload(first, samples, 1), 1)) = 2 * samples
         /\ FramesOf(samples, 1) = samples
<1> DEFINE d == Payload(first, samples, 1)
           t == ToStereo(d, 1)
<1>1. /\ Len(d) = samples
      /\ \A i \in 1 .. samples : d[i] = <<first + (i - 1), 1>>
  BY DEF Payload
<1> HIDE DEF d
<1>2. t = [i \in 1 .. (2 * samples) |-> d[(i + 1) \div 2]]
  BY <1>1 DEF ToStereo
<1>3. ASSUME NEW i \in 1 .. (2 * samples) PROVE d[(i + 1) \div 2] = SampleAt(first, i, 1)
  <2>1. (i + 1) \div 2 \in 1 .. samples /\ (i + 1) \div 2 - 1 = (i - 1) \div 2
    BY Pairs
  <2>2. QED
    BY <1>1, <2>1 DEF SampleAt
<1>4. FramesOf(samples, 1) = samples
  BY DEF FramesOf
<1> HIDE DEF t
<1>5. Len(t) = 2 * samples /\ DOMAIN t = 1 .. (2 * samples)
  BY <1>2
<1>6. QED
  BY <1>2, <1>3, <1>4, <1>5 DEF IsStereo, t, d

LEMMA StereoOfStereo ==
  ASSUME NEW first \in Nat, NEW samples \in Nat
  PROVE  /\ IsStereo(ToStereo(Payload(first, samples, 2), 2), first, samples \div 2, 2)
         /\ Len(ToStereo(Payload(first, samples, 2), 2)) = samples
         /\ samples \div 2 \in Nat /\ samples \div 2 <= FramesOf(samples, 2)
<1> DEFINE t == ToStereo(Payload(first, samples, 2), 2)
<1>1. /\ Len(t) = samples /\ DOMAIN t = 1 .. samples
      /\ \A i \in 1 .. samples : t[i] = SampleAt(first, i, 2)
  BY DEF ToStereo, Payload, SampleAt
<1>2. /\ samples \div 2 \in Nat /\ samples \in {2 * (samples \div 2), 2 * (samples \div 2) + 1}
      /\ samples \div 2 <= FramesOf(samples, 2)
  BY DEF FramesOf
<1> HIDE DEF t
<1>3. QED
  BY <1>1, <1>2 DEF IsStereo, t

(* Of three and more channels the first two are kept, in a payload whose    *)
(* last frame, if it is torn, has them.                                     *)
Room(c, n, samples) == samples > c * (n - 1) + 1
LEMMA Covered ==
  ASSUME NEW c \in 3 .. 8, NEW samples \in Nat, ~Panics(samples, c)
  PROVE  /\ FramesOf(samples, c) \in Nat
         /\ FramesOf(samples, c) > 0 => Room(c, FramesOf(samples, c), samples)
<1>1. CASE c = 3
  BY <1>1 DEF Panics, FramesOf, Room
<1>2. CASE c = 4
  BY <1>2 DEF Panics, FramesOf, Room
<1>3. CASE c = 5
  BY <1>3 DEF Panics, FramesOf, Room
<1>4. CASE c = 6
  BY <1>4 DEF Panics, FramesOf, Room
<1>5. CASE c = 7
  BY <1>5 DEF Panics, FramesOf, Room
<1>6. CASE c = 8
  BY <1>6 DEF Panics, FramesOf, Room
<1>7. QED
  BY <1>1, <1>2, <1>3, <1>4, <1>5, <1>6

LEMMA Interleaved ==
  ASSUME NEW c \in 3 .. 8, NEW q \in Nat, NEW r \in {0, 1}, NEW n \in Nat, q < n,
         NEW samples \in Nat, Room(c, n, samples)
  PROVE  /\ c * q + r + 1 \in 1 .. samples
         /\ ((c * q + r + 1) - 1) \div c = q /\ ((c * q + r + 1) - 1) % c = r
<1>1. CASE c = 3
  BY <1>1 DEF Room
<1>2. CASE c = 4
  BY <1>2 DEF Room
<1>3. CASE c = 5
  BY <1>3 DEF Room
<1>4. CASE c = 6
  BY <1>4 DEF Room
<1>5. CASE c = 7
  BY <1>5 DEF Room
<1>6. CASE c = 8
  BY <1>6 DEF Room
<1>7. QED
  BY <1>1, <1>2, <1>3, <1>4, <1>5, <1>6

LEMMA StereoOfMore ==
  ASSUME NEW first \in Nat, NEW samples \in Nat, NEW c \in 3 .. 8, ~Panics(samples, c)
  PROVE  /\ IsStereo(ToStereo(Payload(first, samples, c), c), first, FramesOf(samples, c), c)
         /\ Len(ToStereo(Payload(first, samples, c), c)) = 2 * FramesOf(samples, c)
<1> DEFINE d == Payload(first, samples, c)
           n == FramesOf(samples, c)
           t == ToStereo(d, c)
           at(i) == c * ((i - 1) \div 2) + ((i - 1) % 2) + 1
<1>1. n \in Nat /\ (n > 0 => Room(c, n, samples))
  BY Covered
<1>2. /\ Len(d) = samples
      /\ \A x \in 1 .. samples : d[x] = <<first + ((x - 1) \div c), ((x - 1) % c) + 1>>
  BY DEF Payload
<1> HIDE DEF d
<1>3. t = [i \in 1 .. (2 * n) |-> d[at(i)]]
  <2>1. c # 1 /\ c # 2
    OBVIOUS
  <2>2. t = [i \in 1 .. (2 * FramesOf(Len(d), c)) |-> d[at(i)]]
    BY <2>1, Zenon DEF ToStereo
  <2>3. QED
    BY <1>2, <2>2
<1>4. ASSUME NEW i \in 1 .. (2 * n) PROVE d[at(i)] = SampleAt(first, i, c)
  <2> DEFINE q == (i - 1) \div 2
             r == (i - 1) % 2
             x == c * q + r + 1
  <2> HIDE DEF n
  <2>1. q \in Nat /\ q < n /\ r \in {0, 1}
    BY <1>1, Pairs
  <2> HIDE DEF q, r
  <2>2. n > 0
    BY <1>1, <2>1
  <2>3. x \in 1 .. samples /\ (x - 1) \div c = q /\ (x - 1) % c = r
    BY <1>1, <2>1, <2>2, Interleaved
  <2>4. d[x] = <<first + q, r + 1>>
    <3> HIDE DEF x
    <3> QED
      BY <1>2, <2>3
  <2>5. c # 1
    OBVIOUS
  <2>6. QED
    BY <2>4, <2>5 DEF q, r, SampleAt
<1> HIDE DEF at, t, n
<1>5. Len(t) = 2 * n /\ DOMAIN t = 1 .. (2 * n)
  BY <1>1, <1>3
<1>6. \A i \in 1 .. (2 * n) : t[i] = SampleAt(first, i, c)
  BY <1>3, <1>4
<1>7. QED
  BY <1>1, <1>5, <1>6 DEF IsStereo, n, t, d

(* A payload that makes nobody panic becomes stereo frames, no more of them *)
(* than it begins; only an odd payload in stereo leaves half a frame over.  *)
Frames(t, first, samples, c, n) ==
  /\ n <= FramesOf(samples, c) /\ IsStereo(t, first, n, c)
  /\ (c # 2 \/ samples % 2 # 1) => Len(t) = 2 * n
LEMMA StereoIs ==
  ASSUME NEW first \in Nat, NEW samples \in Nat, NEW c \in 1 .. 8, ~Panics(samples, c),
         NEW t, t = ToStereo(Payload(first, samples, c), c)
  PROVE  \E n \in Nat : Frames(t, first, samples, c, n)
<1>1. c = 1 \/ c = 2 \/ c \in 3 .. 8
  OBVIOUS
<1>2. CASE c = 1
  BY <1>2, StereoOfMono DEF Frames
<1>3. CASE c = 2
  <2>1. samples % 2 # 1 => samples = 2 * (samples \div 2)
    OBVIOUS
  <2>2. QED
    BY <1>3, <2>1, StereoOfStereo DEF Frames
<1>4. CASE c \in 3 .. 8
  <2>1. FramesOf(samples, c) \in Nat /\ FramesOf(samples, c) <= FramesOf(samples, c)
    BY <1>4, Covered
  <2>2. QED
    BY <1>4, <2>1, StereoOfMore DEF Frames
<1>5. QED
  BY <1>1, <1>2, <1>3, <1>4

(* The frames A[i] and B[i] are blended into frame i of what is queued.     *)
Blend(first, n, A, B, channels) ==
  [k \in 1 .. (2 * n) |->
     LET c == IF channels = 1 THEN 1 ELSE ((k - 1) % 2) + 1
     IN [a |-> <<first + A[(k - 1) \div 2], c>>, b |-> <<first + B[(k - 1) \div 2], c>>]]

LEMMA Blended ==
  ASSUME NEW x \in Nat, NEW y \in Nat, NEW c \in 1 .. 2,
         NEW u, u = [a |-> <<x, c>>, b |-> <<y, c>>]
  PROVE  u \in Sample /\ u.a[1] = x /\ u.b[1] = y /\ u.a[2] = c /\ u.b[2] = c
<1>1. <<x, c>> \in Nat \X (1 .. 2) /\ <<y, c>> \in Nat \X (1 .. 2)
  OBVIOUS
<1>2. u.a = <<x, c>> /\ u.b = <<y, c>>
  OBVIOUS
<1>3. u \in Sample
  BY <1>1 DEF Sample
<1>4. QED
  BY <1>2, <1>3

LEMMA IsSeq ==
  ASSUME NEW S, NEW n \in Nat, NEW s, s = [k \in 1 .. n |-> s[k]], \A k \in 1 .. n : s[k] \in S
  PROVE  s \in Seq(S) /\ Len(s) = n
<1>1. s \in [1 .. n -> S]
  OBVIOUS
<1>2. QED
  BY <1>1

LEMMA BlendAligned ==
  ASSUME NEW first \in Nat, NEW frames \in Nat, NEW n \in Nat, NEW channels,
         NEW A \in [0 .. n - 1 -> 0 .. frames - 1], NEW B \in [0 .. n - 1 -> 0 .. frames - 1],
         \A i \in 0 .. n - 1 : B[i] - A[i] \in {0, 1},
         \A i, j \in 0 .. n - 1 : i <= j => A[i] <= A[j],
         NEW s, s = Blend(first, n, A, B, channels)
  PROVE  /\ Aligned(s, channels)
         /\ \A k \in 1 .. Len(s) : first <= s[k].a[1] /\ s[k].a[1] < first + frames
<1> DEFINE f(k) == (k - 1) \div 2
           c(k) == IF channels = 1 THEN 1 ELSE ((k - 1) % 2) + 1
<1>1. \A k \in 1 .. (2 * n) : f(k) \in 0 .. n - 1 /\ c(k) \in 1 .. 2
  BY Pairs
<1>2. /\ Len(s) = 2 * n
      /\ \A k \in 1 .. (2 * n) : s[k] = [a |-> <<first + A[f(k)], c(k)>>, b |-> <<first + B[f(k)], c(k)>>]
      /\ s = [k \in 1 .. (2 * n) |-> s[k]]
  BY DEF Blend
<1>3. ASSUME NEW k \in 1 .. (2 * n)
      PROVE  /\ s[k] \in Sample
             /\ s[k].a = <<first + A[f(k)], c(k)>> /\ s[k].b = <<first + B[f(k)], c(k)>>
             /\ s[k].a[1] = first + A[f(k)] /\ s[k].b[1] = first + B[f(k)]
             /\ A[f(k)] \in 0 .. frames - 1 /\ B[f(k)] - A[f(k)] \in {0, 1}
  <2> HIDE DEF f, c
  <2>1. f(k) \in 0 .. n - 1 /\ c(k) \in 1 .. 2
    BY <1>1
  <2>2. A[f(k)] \in 0 .. frames - 1 /\ B[f(k)] \in 0 .. frames - 1 /\ B[f(k)] - A[f(k)] \in {0, 1}
    BY <2>1
  <2> DEFINE x == first + A[f(k)]
             y == first + B[f(k)]
  <2>3. x \in Nat /\ y \in Nat
    BY <2>2
  <2> DEFINE u == s[k]
             ch == c(k)
  <2>4. u = [a |-> <<x, ch>>, b |-> <<y, ch>>] /\ ch \in 1 .. 2
    BY <1>2, <2>1
  <2> HIDE DEF x, y, u, ch
  <2>5. u \in Sample /\ u.a[1] = x /\ u.b[1] = y
    BY <2>3, <2>4, Blended
  <2>6. u.a = <<x, ch>> /\ u.b = <<y, ch>>
    BY <2>4
  <2>7. QED
    BY <2>2, <2>5, <2>6 DEF x, y, u, ch
<1>4. s \in Seq(Sample) /\ Len(s) % 2 = 0 /\ Len(s) \div 2 = n
  <2>1. 2 * n \in Nat /\ (2 * n) % 2 = 0 /\ (2 * n) \div 2 = n
    BY Halves
  <2> HIDE DEF f, c
  <2>2. s \in Seq(Sample)
    BY <1>2, <1>3, <2>1, IsSeq
  <2>3. QED
    BY <1>2, <2>1, <2>2
<1>5. ASSUME NEW i \in 1 .. n PROVE IsFrame(s[2 * i - 1], s[2 * i], channels)
  <2>1. /\ 2 * i - 1 \in 1 .. (2 * n) /\ 2 * i \in 1 .. (2 * n)
        /\ f(2 * i - 1) = i - 1 /\ f(2 * i) = i - 1
        /\ c(2 * i - 1) = 1 /\ c(2 * i) = IF channels = 1 THEN 1 ELSE 2
    OBVIOUS
  <2> DEFINE x == first + A[i - 1]
             y == first + B[i - 1]
             left == s[2 * i - 1]
             right == s[2 * i]
  <2>2. left = [a |-> <<x, 1>>, b |-> <<y, 1>>]
    <3> HIDE DEF f, c
    <3> QED
      BY <1>2, <2>1
  <2>3. right = [a |-> <<x, c(2 * i)>>, b |-> <<y, c(2 * i)>>]
    <3> HIDE DEF f, c
    <3> QED
      BY <1>2, <2>1
  <2> HIDE DEF f, c, x, y, left, right
  <2>4. left.a = <<x, 1>> /\ left.b = <<y, 1>>
    BY <2>2
  <2>5. left.a[1] = x /\ left.b[1] = y /\ left.a[2] = 1 /\ left.b[2] = 1
    BY <2>4
  <2>6. channels = 1 => right = left
    BY <2>1, <2>2, <2>3
  <2>7. channels # 1 => right = [a |-> <<x, 2>>, b |-> <<y, 2>>]
    BY <2>1, <2>3
  <2>8. IsFrame(left, right, channels)
    BY <2>5, <2>6, <2>7 DEF IsFrame
  <2>9. QED
    BY <2>8 DEF left, right
<1>6. ASSUME NEW k \in 1 .. (2 * n)
      PROVE  /\ s[k].b[1] - s[k].a[1] \in {0, 1}
             /\ s[k].a[1] = first + A[f(k)]
             /\ first <= s[k].a[1] /\ s[k].a[1] < first + frames
  <2> HIDE DEF f, c
  <2>1. /\ s[k].a[1] = first + A[f(k)] /\ s[k].b[1] = first + B[f(k)]
        /\ A[f(k)] \in 0 .. frames - 1 /\ B[f(k)] - A[f(k)] \in {0, 1}
    BY <1>3
  <2>2. B[f(k)] \in 0 .. frames - 1
    BY <1>1
  <2>3. (first + B[f(k)]) - (first + A[f(k)]) = B[f(k)] - A[f(k)]
    BY <2>1, <2>2
  <2>4. QED
    BY <2>1, <2>3
<1>7. ASSUME NEW j \in 1 .. (2 * n), NEW k \in 1 .. (2 * n), j <= k
      PROVE  s[j].a[1] <= s[k].a[1]
  <2>1. f(j) <= f(k)
    BY <1>7
  <2> HIDE DEF f, c
  <2>2. f(j) \in 0 .. n - 1 /\ f(k) \in 0 .. n - 1
    BY <1>1
  <2>3. A[f(j)] <= A[f(k)] /\ A[f(j)] \in Int /\ A[f(k)] \in Int
    BY <2>1, <2>2
  <2>4. QED
    BY <1>6, <2>3
<1>8. QED
  <2> HIDE DEF f, c
  <2>1. QED
    BY <1>2, <1>4, <1>5, <1>6, <1>7 DEF Aligned


LEMMA Product ==
  ASSUME NEW x \in Nat, NEW y \in Nat, NEW z \in Nat, x <= y
  PROVE  x * z \in Nat /\ y * z \in Nat /\ x * z <= y * z /\ (x + 1) * z = x * z + z
OBVIOUS

LEMMA Floor ==
  ASSUME NEW x \in Nat, NEW y \in Nat, y > 0
  PROVE  x \div y \in Nat /\ (x \div y) * y <= x
OBVIOUS

(* The resampler stays inside the payload, and its position never goes      *)
(* back.                                                                    *)
LEMMA Positions ==
  ASSUME NEW frames \in Nat, NEW rate \in Nat, rate > 0,
         NEW i \in Nat, i < FramesOut(frames, rate)
  PROVE  /\ From(i, rate) \in 0 .. frames - 1
         /\ Second(i, frames, rate) \in 0 .. frames - 1
         /\ Second(i, frames, rate) - From(i, rate) \in {0, 1}
         /\ \A j \in Nat : j <= i => From(j, rate) <= From(i, rate)
<1> DEFINE q == (frames * 48000) \div rate
           x == i * rate
<1>1. q \in Nat /\ q * rate <= frames * 48000
  BY Floor
<1>2. i + 1 <= q
  BY <1>1 DEF FramesOut, MixRate
<1> HIDE DEF q
<1>3. x \in Nat /\ x + rate <= frames * 48000
  <2>1. (i + 1) * rate <= q * rate /\ (i + 1) * rate = i * rate + rate /\ i * rate \in Nat
    BY <1>1, <1>2, Product
  <2>2. q * rate \in Nat
    BY <1>1
  <2>3. QED
    BY <1>1, <2>1, <2>2
<1>4. From(i, rate) = x \div 48000
  BY DEF From, MixRate
<1>5. \A j \in Nat : j <= i => From(j, rate) <= From(i, rate)
  <2> SUFFICES ASSUME NEW j \in Nat, j <= i PROVE From(j, rate) <= From(i, rate)
    OBVIOUS
  <2>1. j * rate \in Nat /\ j * rate <= x
    BY Product
  <2>2. From(j, rate) = (j * rate) \div 48000
    BY DEF From, MixRate
  <2> DEFINE y == j * rate
  <2> HIDE DEF x, y
  <2>3. y \div 48000 <= x \div 48000
    BY <1>3, <2>1 DEF y
  <2>4. QED
    BY <1>4, <2>2, <2>3 DEF y
<1> HIDE DEF x
<1>6. x \div 48000 \in Nat /\ x \div 48000 <= frames - 1
  BY <1>3
<1>7. QED
  BY <1>4, <1>5, <1>6 DEF Second, MinOf

LEMMA SampleOf ==
  ASSUME NEW first \in Nat, NEW frames \in Nat, NEW channels,
         NEW t, IsStereo(t, first, frames, channels),
         NEW f \in 0 .. frames - 1, NEW r \in {0, 1}
  PROVE  t[f * 2 + (r + 1)] = <<first + f, IF channels = 1 THEN 1 ELSE r + 1>>
<1> DEFINE x == f * 2 + (r + 1)
<1>1. x \in 1 .. (2 * frames) /\ (x - 1) \div 2 = f /\ (x - 1) % 2 = r
  OBVIOUS
<1> HIDE DEF x
<1>2. t[x] = SampleAt(first, x, channels)
  BY <1>1, Zenon DEF IsStereo
<1>3. t[x] = <<first + f, IF channels = 1 THEN 1 ELSE r + 1>>
  BY <1>1, <1>2 DEF SampleAt
<1>4. QED
  BY <1>3 DEF x

LEMMA ResampledBlend ==
  ASSUME NEW first \in Nat, NEW frames \in Nat, NEW rate \in Nat, rate > 0, NEW channels,
         NEW s, IsStereo(s, first, frames, channels)
  PROVE  Resample(s, rate)
           = Blend(first, FramesOut(frames, rate),
                   [i \in 0 .. FramesOut(frames, rate) - 1 |-> From(i, rate)],
                   [i \in 0 .. FramesOut(frames, rate) - 1 |-> Second(i, frames, rate)], channels)
<1> DEFINE n == FramesOut(frames, rate)
           A == [i \in 0 .. n - 1 |-> From(i, rate)]
           B == [i \in 0 .. n - 1 |-> Second(i, frames, rate)]
           f(k) == (k - 1) \div 2
           r(k) == (k - 1) % 2
           c(k) == IF channels = 1 THEN 1 ELSE r(k) + 1
           heard(k) == [a |-> s[From(f(k), rate) * 2 + (r(k) + 1)],
                      b |-> s[Second(f(k), frames, rate) * 2 + (r(k) + 1)]]
           want(k) == [a |-> <<first + A[f(k)], c(k)>>, b |-> <<first + B[f(k)], c(k)>>]
<1>1. Len(s) \div 2 = frames
  <2>1. Len(s) \in {2 * frames, 2 * frames + 1}
    BY Zenon DEF IsStereo
  <2>2. (2 * frames) \div 2 = frames /\ (2 * frames + 1) \div 2 = frames
    OBVIOUS
  <2>3. QED
    BY <2>1, <2>2
<1>2. n \in Nat
  <2>1. frames * MixRate \in Nat
    BY DEF MixRate
  <2>2. QED
    BY <2>1, Floor DEF FramesOut
<1>3. Resample(s, rate) = [k \in 1 .. (2 * n) |-> heard(k)]
  <2> HIDE DEF n
  <2>1. QED
    BY <1>1 DEF Resample, MixChannels, n
<1>4. \A k \in 1 .. (2 * n) : heard(k) = want(k)
  <2> SUFFICES ASSUME NEW k \in 1 .. (2 * n) PROVE heard(k) = want(k)
    OBVIOUS
  <2>1. f(k) \in 0 .. n - 1 /\ r(k) \in {0, 1}
    <3> HIDE DEF n
    <3> QED
      BY <1>2, Pairs
  <2> DEFINE i == f(k)
             q == r(k)
  <2>2. i \in 0 .. n - 1 /\ i \in Nat /\ q \in {0, 1}
    <3> HIDE DEF n
    <3> QED
      BY <1>2, <2>1
  <2> HIDE DEF f, r, i, q
  <2>3. i < n
    BY <1>2, <2>2
  <2>4. From(i, rate) \in 0 .. frames - 1 /\ Second(i, frames, rate) \in 0 .. frames - 1
    BY <2>2, <2>3, Positions
  <2>5. A[i] = From(i, rate) /\ B[i] = Second(i, frames, rate)
    BY <2>2
  <2>6. /\ s[From(i, rate) * 2 + (q + 1)] = <<first + From(i, rate), IF channels = 1 THEN 1 ELSE q + 1>>
        /\ s[Second(i, frames, rate) * 2 + (q + 1)]
             = <<first + Second(i, frames, rate), IF channels = 1 THEN 1 ELSE q + 1>>
    BY <2>2, <2>4, SampleOf
  <2> HIDE DEF A, B
  <2>7. QED
    BY <2>5, <2>6 DEF i, q
<1>5. [k \in 1 .. (2 * n) |-> want(k)] = Blend(first, n, A, B, channels)
  BY DEF Blend
<1>6. [k \in 1 .. (2 * n) |-> heard(k)] = [k \in 1 .. (2 * n) |-> want(k)]
  <2> HIDE DEF heard, want, n
  <2> QED
    BY <1>4
<1> HIDE DEF heard, want
<1>7. QED
  BY <1>3, <1>5, <1>6, Zenon

(* What is queued of a payload, with the exception of `Swaps`.               *)
Odd(rate, channels, samples) == rate = MixRate /\ channels = 2 /\ samples % 2 = 1

LEMMA IngestAligned ==
  ASSUME NEW first \in Nat, NEW samples \in Nat, NEW rate \in Nat, rate > 0,
         NEW channels \in 1 .. 8, ~Panics(samples, channels), ~Odd(rate, channels, samples),
         NEW s, s = Ingest(rate, channels, Payload(first, samples, channels))
  PROVE  /\ Aligned(s, channels)
         /\ \A k \in 1 .. Len(s) :
              first <= s[k].a[1] /\ s[k].a[1] < first + FramesOf(samples, channels)
<1>0. PICK t : t = ToStereo(Payload(first, samples, channels), channels)
  OBVIOUS
<1>frames. PICK frames \in Nat : Frames(t, first, samples, channels, frames)
  BY <1>0, StereoIs
<1>1. /\ frames <= FramesOf(samples, channels) /\ IsStereo(t, first, frames, channels)
      /\ (channels # 2 \/ samples % 2 # 1) => Len(t) = 2 * frames
  BY <1>frames DEF Frames
<1>2. FramesOf(samples, channels) \in Int
  BY DEF FramesOf
<1>3. s = IF rate = MixRate THEN [i \in DOMAIN t |-> [a |-> t[i], b |-> t[i]]]
          ELSE Resample(t, rate)
  BY <1>0 DEF Ingest
<1>4. /\ Aligned(s, channels)
      /\ \A k \in 1 .. Len(s) : first <= s[k].a[1] /\ s[k].a[1] < first + frames
  <2>1. CASE rate = MixRate
    <3> DEFINE A == [i \in 0 .. frames - 1 |-> i]
    <3>1. s = Blend(first, frames, A, A, channels)
      <4>1. DOMAIN t = 1 .. (2 * frames)
        BY <1>1, <2>1 DEF IsStereo, Odd
      <4>2. \A k \in 1 .. (2 * frames) :
              t[k] = <<first + A[(k - 1) \div 2], IF channels = 1 THEN 1 ELSE ((k - 1) % 2) + 1>>
        <5> TAKE k \in 1 .. (2 * frames)
        <5>1. A[(k - 1) \div 2] = (k - 1) \div 2
          BY Pairs
        <5> HIDE DEF A
        <5>2. QED
          BY <1>1, <5>1 DEF IsStereo, SampleAt
      <4> HIDE DEF A
      <4>3. QED
        BY <1>3, <2>1, <4>1, <4>2 DEF Blend
    <3>2. /\ A \in [0 .. frames - 1 -> 0 .. frames - 1]
          /\ \A i \in 0 .. frames - 1 : A[i] - A[i] \in {0, 1}
          /\ \A i, j \in 0 .. frames - 1 : i <= j => A[i] <= A[j]
      OBVIOUS
    <3> HIDE DEF A
    <3>3. QED
      BY <3>1, <3>2, BlendAligned
  <2>2. CASE rate # MixRate
    <3> DEFINE n == FramesOut(frames, rate)
               A == [i \in 0 .. n - 1 |-> From(i, rate)]
               B == [i \in 0 .. n - 1 |-> Second(i, frames, rate)]
    <3>1. s = Blend(first, n, A, B, channels)
      BY <1>1, <1>3, <2>2, ResampledBlend
    <3>2. n \in Nat
      <4>1. frames * MixRate \in Nat
        BY DEF MixRate
      <4>2. QED
        BY <4>1, Floor DEF FramesOut
    <3>3. ASSUME NEW i \in 0 .. n - 1
          PROVE  /\ From(i, rate) \in 0 .. frames - 1
                 /\ Second(i, frames, rate) \in 0 .. frames - 1
                 /\ Second(i, frames, rate) - From(i, rate) \in {0, 1}
                 /\ \A j \in 0 .. n - 1 : j <= i => From(j, rate) <= From(i, rate)
      <4>1. i \in Nat /\ i < n /\ \A j \in 0 .. n - 1 : j \in Nat
        <5> HIDE DEF n
        <5> QED
          BY <3>2
      <4>2. QED
        BY <4>1, Positions
    <3> HIDE DEF n
    <3>4. /\ A \in [0 .. n - 1 -> 0 .. frames - 1] /\ B \in [0 .. n - 1 -> 0 .. frames - 1]
          /\ \A i \in 0 .. n - 1 : B[i] - A[i] \in {0, 1}
          /\ \A i, j \in 0 .. n - 1 : i <= j => A[i] <= A[j]
      BY <3>3
    <3> HIDE DEF A, B
    <3>5. QED
      BY <3>1, <3>2, <3>4, BlendAligned
  <2>3. QED
    BY <2>1, <2>2
<1>5. s \in Seq(Sample)
  BY <1>4 DEF Aligned
<1>6. ASSUME NEW k \in 1 .. Len(s)
      PROVE  first <= s[k].a[1] /\ s[k].a[1] < first + FramesOf(samples, channels)
  <2>1. s[k] \in Sample
    BY <1>5, <1>6
  <2>2. s[k].a[1] \in Nat
    BY <2>1 DEF Sample
  <2>3. first <= s[k].a[1] /\ s[k].a[1] < first + frames
    BY <1>4, <1>6
  <2> DEFINE x == s[k].a[1]
             top == FramesOf(samples, channels)
  <2>4. x \in Nat /\ first <= x /\ x < first + frames /\ top \in Int /\ frames <= top
    BY <1>1, <1>2, <2>2, <2>3
  <2> HIDE DEF x, top
  <2>5. first <= x /\ x < first + top
    BY <2>4
  <2>6. QED
    BY <2>5 DEF x, top
<1>7. QED
  BY <1>4, <1>6

-----------------------------------------------------------------------------
(* What a stream has queued and a mixer has taken                           *)

OpsOf == [do : {"push", "take"}, size : Nat]
State(s, channels) ==
  /\ s \in [open : BOOLEAN, sent : Nat, ring : Seq(Sample), out : Seq(Sample)]
  /\ Aligned(s.ring, channels) /\ Aligned(s.out, channels)
  /\ Ordered(s.out, s.ring) /\ Until(s.out, s.sent) /\ Until(s.ring, s.sent)

Pushed(s, op, rate, channels, cap) ==
  [s EXCEPT !.sent = @ + FramesOf(op.size, channels),
            !.ring = Push(@, Ingest(rate, channels, Payload(s.sent, op.size, channels)), cap)]
TakenFrom(s, op) ==
  LET k == Taken(s.ring, MixChannels * op.size)
  IN [s EXCEPT !.ring = SubSeq(@, k + 1, Len(@)), !.out = @ \o SubSeq(s.ring, 1, k)]
After(s, op, rate, channels, cap) ==
  IF op.do = "take" THEN TakenFrom(s, op)
  ELSE IF s.open /\ ~Panics(op.size, channels) THEN Pushed(s, op, rate, channels, cap)
  ELSE [s EXCEPT !.open = FALSE]

(* The elements of a concatenation.                                         *)
LEMMA ConcatOrder ==
  ASSUME NEW channels, NEW s, NEW t, NEW u, NEW n \in Nat, NEW m \in Nat, m <= n,
         Aligned(s, channels), Aligned(t, channels), Aligned(u, channels)
  PROVE  /\ Ordered(s, u) /\ Ordered(t, u) => Ordered(s \o t, u)
         /\ Ordered(u, s) /\ Ordered(u, t) => Ordered(u, s \o t)
         /\ Until(s, m) /\ Until(t, n) => Until(s \o t, n)
<1>1. /\ Len(s \o t) = Len(s) + Len(t) /\ Len(s) \in Nat /\ Len(t) \in Nat
      /\ \A i \in 1 .. Len(s) : (s \o t)[i] = s[i]
      /\ \A i \in Len(s) + 1 .. Len(s) + Len(t) :
           i - Len(s) \in 1 .. Len(t) /\ (s \o t)[i] = t[i - Len(s)]
  BY ConcatParts DEF Aligned
<1>2. \A k \in 1 .. Len(s \o t) :
        \/ k \in 1 .. Len(s) /\ (s \o t)[k] = s[k]
        \/ k - Len(s) \in 1 .. Len(t) /\ (s \o t)[k] = t[k - Len(s)]
  <2> TAKE k \in 1 .. Len(s \o t)
  <2>1. k \in 1 .. Len(s) \/ k \in Len(s) + 1 .. Len(s) + Len(t)
    BY <1>1
  <2>2. QED
    BY <1>1, <2>1
<1>3. Ordered(s, u) /\ Ordered(t, u) => Ordered(s \o t, u)
  BY <1>2 DEF Ordered
<1>4. Ordered(u, s) /\ Ordered(u, t) => Ordered(u, s \o t)
  BY <1>2 DEF Ordered
<1>5. Until(s, m) /\ Until(t, n) => Until(s \o t, n)
  <2> SUFFICES ASSUME Until(s, m), Until(t, n), NEW k \in 1 .. Len(s \o t)
               PROVE  (s \o t)[k].a[1] < n
    BY DEF Until
  <2>1. CASE k \in 1 .. Len(s) /\ (s \o t)[k] = s[k]
    <3>1. s[k].a[1] < m /\ s[k].a[1] \in Nat
      <4>1. s[k] \in Sample
        BY <2>1 DEF Aligned
      <4>2. QED
        BY <2>1, <4>1 DEF Until, Sample
    <3>2. QED
      BY <2>1, <3>1
  <2>2. CASE k - Len(s) \in 1 .. Len(t) /\ (s \o t)[k] = t[k - Len(s)]
    BY <2>2 DEF Until
  <2>3. QED
    BY <1>2, <2>1, <2>2
<1>6. QED
  BY <1>3, <1>4, <1>5

LEMMA PartOrder ==
  ASSUME NEW channels, NEW s, Aligned(s, channels), NEW x, NEW y, NEW u, Part(u, s, x, y),
         NEW o, NEW n
  PROVE  /\ Aligned(u, channels)
         /\ Ordered(o, s) => Ordered(o, u)
         /\ Until(s, n) => Until(u, n)
<1>1. /\ Aligned(u, channels)
      /\ \A k \in 1 .. Len(u) : k + 2 * x \in 1 .. Len(s) /\ u[k] = s[k + 2 * x]
  BY AlignedPart
<1>2. Ordered(o, s) => Ordered(o, u)
  BY <1>1 DEF Ordered
<1>3. Until(s, n) => Until(u, n)
  BY <1>1 DEF Until
<1>4. QED
  BY <1>1, <1>2, <1>3

LEMMA FramesAreNumbers ==
  ASSUME NEW samples \in Nat, NEW c \in 1 .. 8
  PROVE  FramesOf(samples, c) \in Nat
<1>1. samples + c - 1 \in Nat /\ c > 0
  OBVIOUS
<1>2. QED
  BY <1>1, Floor DEF FramesOf

LEMMA StepPush ==
  ASSUME NEW rate \in Nat, rate > 0, NEW channels \in 1 .. 8,
         NEW cap \in Nat, Kept(cap) % 2 = 0, NEW op \in OpsOf, NEW s, State(s, channels),
         ~Panics(op.size, channels), ~Odd(rate, channels, op.size)
  PROVE  State(Pushed(s, op, rate, channels, cap), channels)
<1> DEFINE new == Ingest(rate, channels, Payload(s.sent, op.size, channels))
           all == s.ring \o new
           now == s.sent + FramesOf(op.size, channels)
           kept == Push(s.ring, new, cap)
<1>1. op.size \in Nat /\ s.sent \in Nat /\ now \in Nat /\ s.sent <= now
  <2>1. op.size \in Nat /\ s.sent \in Nat
    BY DEF OpsOf, State
  <2>2. FramesOf(op.size, channels) \in Nat
    BY <2>1, FramesAreNumbers
  <2>3. QED
    BY <2>1, <2>2
<1>2. /\ Aligned(new, channels)
      /\ \A k \in 1 .. Len(new) : s.sent <= new[k].a[1] /\ new[k].a[1] < now
  BY <1>1, IngestAligned
<1>3. /\ Pushed(s, op, rate, channels, cap).sent = now
      /\ Pushed(s, op, rate, channels, cap).ring = kept
      /\ Pushed(s, op, rate, channels, cap).out = s.out
      /\ Pushed(s, op, rate, channels, cap)
           = [open |-> s.open, sent |-> now, ring |-> kept, out |-> s.out]
  <2> HIDE DEF new, all, now, kept
  <2>1. s \in [open : BOOLEAN, sent : Nat, ring : Seq(Sample), out : Seq(Sample)]
    BY DEF State
  <2>2. Pushed(s, op, rate, channels, cap) = [s EXCEPT !.sent = now, !.ring = kept]
    BY DEF Pushed, now, kept, new
  <2>3. QED
    BY <2>1, <2>2
<1> HIDE DEF new
<1>4. ASSUME NEW t, Aligned(t, channels), Until(t, s.sent)
      PROVE  Ordered(t, new)
  <2> SUFFICES ASSUME NEW j \in 1 .. Len(t), NEW k \in 1 .. Len(new)
               PROVE  t[j].a[1] <= new[k].a[1]
    BY DEF Ordered
  <2>1. t[j].a[1] < s.sent /\ s.sent <= new[k].a[1]
    BY <1>2, <1>4 DEF Until
  <2>2. t[j] \in Sample /\ new[k] \in Sample
    BY <1>2, <1>4 DEF Aligned
  <2>3. t[j].a[1] \in Nat /\ new[k].a[1] \in Nat
    BY <2>2 DEF Sample
  <2>4. QED
    BY <1>1, <2>1, <2>3
<1>5. /\ Aligned(s.ring, channels) /\ Aligned(s.out, channels)
      /\ Ordered(s.out, s.ring) /\ Until(s.out, s.sent) /\ Until(s.ring, s.sent)
  BY DEF State
<1>6. Ordered(s.ring, new) /\ Ordered(s.out, new) /\ Until(new, now)
  BY <1>2, <1>4, <1>5 DEF Until
<1> HIDE DEF now
<1>7. Aligned(all, channels) /\ Ordered(s.out, all) /\ Until(all, now)
  <2>1. Aligned(all, channels)
    BY <1>2, <1>5, <1>6, AlignedConcat
  <2>2. Ordered(s.out, all) /\ Until(all, now)
    BY <1>1, <1>2, <1>5, <1>6, ConcatOrder
  <2>3. QED
    BY <2>1, <2>2
<1>8. Until(s.out, now)
  <2> SUFFICES ASSUME NEW k \in 1 .. Len(s.out) PROVE s.out[k].a[1] < now
    BY DEF Until
  <2>1. s.out[k].a[1] < s.sent
    BY <1>5 DEF Until
  <2>2. s.out[k] \in Sample
    BY <1>5 DEF Aligned
  <2>3. s.out[k].a[1] \in Nat
    BY <2>2 DEF Sample
  <2>4. QED
    BY <1>1, <2>1, <2>3
<1> HIDE DEF all
<1>9. Aligned(kept, channels) /\ Ordered(s.out, kept) /\ Until(kept, now)
  <2>1. CASE ~(Len(all) > cap)
    <3>1. kept = all
      BY <2>1 DEF Push, all
    <3>2. QED
      BY <1>7, <3>1
  <2>2. CASE Len(all) > cap
    <3>1. kept = SubSeq(all, Len(all) - Kept(cap) + 1, Len(all))
      BY <2>2 DEF Push, all
    <3>2. Kept(cap) \in Nat /\ Kept(cap) <= cap
      BY DEF Kept
    <3>3. Len(all) \in Nat /\ Len(all) % 2 = 0
      BY <1>7 DEF Aligned
    <3>4. PICK y \in Nat, z \in Nat : Len(all) = 2 * y /\ Kept(cap) = 2 * z
      BY <3>2, <3>3, Halves
    <3>5. z <= y
      BY <2>2, <3>2, <3>4
    <3> DEFINE x == y - z
    <3>6. x \in Nat /\ x <= y /\ 2 * x + 1 = Len(all) - Kept(cap) + 1 /\ 2 * y <= Len(all)
      BY <3>4, <3>5
    <3> HIDE DEF x, kept
    <3>7. Part(kept, all, x, y)
      BY <3>1, <3>4, <3>6 DEF Part
    <3>8. QED
      BY <1>7, <3>7, PartOrder
  <2>3. QED
    BY <2>1, <2>2
<1> HIDE DEF kept
<1>10. QED
  <2>1. kept \in Seq(Sample) /\ s.out \in Seq(Sample)
    BY <1>5, <1>9, AlignedLen
  <2>2. s.open \in BOOLEAN
    BY DEF State
  <2>3. QED
    BY <1>1, <1>3, <1>5, <1>8, <1>9, <2>1, <2>2 DEF State

LEMMA StepTake ==
  ASSUME NEW channels \in 1 .. 8, NEW op \in OpsOf, NEW s, State(s, channels)
  PROVE  State(TakenFrom(s, op), channels)
<1> DEFINE k == Taken(s.ring, MixChannels * op.size)
           u == SubSeq(s.ring, 1, k)
           v == SubSeq(s.ring, k + 1, Len(s.ring))
<1>1. /\ s.sent \in Nat /\ Aligned(s.ring, channels) /\ Aligned(s.out, channels)
      /\ Ordered(s.out, s.ring) /\ Until(s.out, s.sent) /\ Until(s.ring, s.sent)
      /\ Len(s.ring) \in Nat /\ Len(s.ring) % 2 = 0
  <2> HIDE DEF k, u, v
  <2>1. s.sent \in Nat
    BY DEF State
  <2>2. /\ Aligned(s.ring, channels) /\ Aligned(s.out, channels)
        /\ Ordered(s.out, s.ring) /\ Until(s.out, s.sent) /\ Until(s.ring, s.sent)
    BY DEF State
  <2>3. QED
    BY <2>1, <2>2, AlignedLen
<1>2. PICK y \in Nat : Len(s.ring) = 2 * y /\ Len(s.ring) \div 2 = y
  BY <1>1, Halves
<1>3. PICK x \in Nat : x <= y /\ k = 2 * x
  <2>1. op.size \in Nat
    BY DEF OpsOf
  <2>2. (2 * op.size) \div 2 = op.size
    BY <2>1, Halves
  <2>3. k = 2 * MinOf(y, op.size)
    BY <1>2, <2>2 DEF Taken, MixChannels
  <2>4. MinOf(y, op.size) \in Nat /\ MinOf(y, op.size) <= y
    BY <2>1 DEF MinOf
  <2>5. QED
    BY <2>3, <2>4
<1>4. /\ TakenFrom(s, op).sent = s.sent /\ TakenFrom(s, op).ring = v
      /\ TakenFrom(s, op).out = s.out \o u
      /\ TakenFrom(s, op) = [open |-> s.open, sent |-> s.sent, ring |-> v, out |-> s.out \o u]
  <2> HIDE DEF k, u, v
  <2>1. s \in [open : BOOLEAN, sent : Nat, ring : Seq(Sample), out : Seq(Sample)]
    BY DEF State
  <2>2. TakenFrom(s, op) = [s EXCEPT !.ring = v, !.out = s.out \o u]
    BY DEF TakenFrom, k, u, v
  <2>3. QED
    BY <2>1, <2>2
<1>5. Part(u, s.ring, 0, x) /\ Part(v, s.ring, x, y)
  <2> HIDE DEF k
  <2>1. 2 * 0 + 1 = 1
    OBVIOUS
  <2>2. QED
    BY <1>2, <1>3, <2>1 DEF Part
<1> HIDE DEF u, v, k
<1>6. /\ Aligned(u, channels) /\ Ordered(s.out, u) /\ Until(u, s.sent)
      /\ \A i \in 1 .. Len(u) : i \in 1 .. Len(s.ring) /\ u[i] = s.ring[i] /\ i <= 2 * x
  <2>2. Aligned(u, channels) /\ Ordered(s.out, u) /\ Until(u, s.sent)
    BY <1>1, <1>5, PartOrder
  <2>3. /\ Len(u) = 2 * (x - 0)
        /\ \A i \in 1 .. Len(u) : i + 2 * 0 \in 1 .. Len(s.ring) /\ u[i] = s.ring[i + 2 * 0]
    BY <1>1, <1>5, AlignedPart
  <2>4. QED
    BY <2>2, <2>3
<1>7. /\ Aligned(v, channels) /\ Ordered(s.out, v) /\ Until(v, s.sent)
      /\ \A i \in 1 .. Len(v) : i + 2 * x \in 1 .. Len(s.ring) /\ v[i] = s.ring[i + 2 * x]
  <2>2. Aligned(v, channels) /\ Ordered(s.out, v) /\ Until(v, s.sent)
    BY <1>1, <1>5, PartOrder
  <2>3. \A i \in 1 .. Len(v) : i + 2 * x \in 1 .. Len(s.ring) /\ v[i] = s.ring[i + 2 * x]
    BY <1>1, <1>5, AlignedPart
  <2>4. QED
    BY <2>2, <2>3
<1>8. Ordered(u, v)
  <2> SUFFICES ASSUME NEW i \in 1 .. Len(u), NEW j \in 1 .. Len(v)
               PROVE  u[i].a[1] <= v[j].a[1]
    BY DEF Ordered
  <2>1. i <= j + 2 * x
    BY <1>6
  <2>2. s.ring[i].a[1] <= s.ring[j + 2 * x].a[1]
    BY <1>1, <1>6, <1>7, <2>1 DEF Aligned
  <2>3. QED
    BY <1>6, <1>7, <2>2
<1>9. Aligned(s.out \o u, channels)
  BY <1>1, <1>6, AlignedConcat
<1>10. Ordered(s.out \o u, v) /\ Until(s.out \o u, s.sent)
  <2>1. s.sent <= s.sent
    BY <1>1
  <2>2. QED
    BY <1>1, <1>6, <1>7, <1>8, <2>1, ConcatOrder
<1>11. QED
  <2>1. v \in Seq(Sample) /\ s.out \o u \in Seq(Sample)
    BY <1>7, <1>9, AlignedLen
  <2>2. s.open \in BOOLEAN
    BY DEF State
  <2>3. QED
    BY <1>1, <1>4, <1>7, <1>9, <1>10, <2>1, <2>2 DEF State

(* The task has panicked: nothing more is queued.                           *)
LEMMA StepClose ==
  ASSUME NEW channels, NEW s, State(s, channels)
  PROVE  State([s EXCEPT !.open = FALSE], channels)
<1>1. s \in [open : BOOLEAN, sent : Nat, ring : Seq(Sample), out : Seq(Sample)]
  BY DEF State
<1>2. ASSUME NEW b
      PROVE  [s EXCEPT !.open = b]
               = [open |-> b, sent |-> s.sent, ring |-> s.ring, out |-> s.out]
  BY <1>1
<1>3. QED
  BY <1>1, <1>2 DEF State

-----------------------------------------------------------------------------
(* Any number of operations                                                 *)

LEMMA Least ==
  ASSUME NEW T \in SUBSET Nat, T # {}
  PROVE  \E m \in T : \A k \in T : m <= k
<1>1. PICK m \in T : \A k \in T : ~(<<k, m>> \in OpToRel(<, Nat))
  BY NatLessThanWellFounded, WFMin, Zenon
<1>2. \A k \in T : ~(k < m)
  BY <1>1 DEF OpToRel
<1>3. QED
  BY <1>2

(* Induction, for a set of numbers: otherwise there is a least number that  *)
(* is not of it.                                                            *)
LEMMA SetInduction ==
  ASSUME NEW S, 0 \in S, \A n \in Nat : n \in S => n + 1 \in S
  PROVE  \A n \in Nat : n \in S
<1> SUFFICES ASSUME NEW x \in Nat, x \notin S
             PROVE  FALSE
  OBVIOUS
<1> DEFINE T == {n \in Nat : n \notin S}
<1>1. PICK m \in T : \A k \in T : m <= k
  <2>1. T \in SUBSET Nat /\ T # {}
    OBVIOUS
  <2> HIDE DEF T
  <2>2. QED
    BY <2>1, Least
<1>2. m # 0 /\ m - 1 \in Nat
  OBVIOUS
<1>3. m - 1 \in S
  BY <1>1, <1>2
<1>4. QED
  BY <1>2, <1>3

Start == [open |-> TRUE, sent |-> 0, ring |-> <<>>, out |-> <<>>]
Course(f, ops, rate, channels, cap, n) ==
  f = [k \in 0 .. n |-> IF k = 0 THEN Start ELSE After(f[k - 1], ops[k], rate, channels, cap)]

LEMMA CourseExists ==
  ASSUME NEW ops, NEW rate, NEW channels, NEW cap
  PROVE  \A n \in Nat : \E f : Course(f, ops, rate, channels, cap, n)
<1> DEFINE Succ(s, k) == After(s, ops[k], rate, channels, cap)
           S == {n \in Nat : \E f : f = [k \in 0 .. n |-> IF k = 0 THEN Start ELSE Succ(f[k - 1], k)]}
<1> HIDE DEF Succ
<1>1. 0 \in S
  <2> DEFINE f == [k \in 0 .. 0 |-> Start]
  <2>1. f = [k \in 0 .. 0 |-> IF k = 0 THEN Start ELSE Succ(f[k - 1], k)]
    OBVIOUS
  <2>2. QED
    BY <2>1
<1>2. ASSUME NEW n \in Nat, n \in S PROVE n + 1 \in S
  <2>1. PICK f : f = [k \in 0 .. n |-> IF k = 0 THEN Start ELSE Succ(f[k - 1], k)]
    BY <1>2
  <2> DEFINE Value(k) == IF k = n + 1 THEN Succ(f[n], n + 1) ELSE f[k]
             g == [k \in 0 .. n + 1 |-> Value(k)]
  <2>2. ASSUME NEW k \in 0 .. n + 1
        PROVE  g[k] = IF k = 0 THEN Start ELSE Succ(g[k - 1], k)
    <3>1. g[k] = Value(k) /\ (k # 0 => g[k - 1] = f[k - 1])
      OBVIOUS
    <3> HIDE DEF g
    <3>2. CASE k = n + 1
      BY <3>1, <3>2
    <3>3. CASE k # n + 1
      <4>1. k \in 0 .. n
        BY <3>3
      <4>2. f[k] = IF k = 0 THEN Start ELSE Succ(f[k - 1], k)
        BY <2>1, <4>1
      <4>3. QED
        BY <3>1, <3>3, <4>2
    <3>4. QED
      BY <3>2, <3>3
  <2>3. g = [k \in 0 .. n + 1 |-> IF k = 0 THEN Start ELSE Succ(g[k - 1], k)]
    <3>1. g = [k \in 0 .. n + 1 |-> g[k]]
      OBVIOUS
    <3> HIDE DEF g
    <3>2. QED
      BY <2>2, <3>1
  <2> HIDE DEF g
  <2>4. QED
    BY <2>3
<1>3. \A n \in Nat : n \in S
  <2> HIDE DEF S
  <2>1. QED
    BY <1>1, <1>2, SetInduction
<1>4. QED
  BY <1>3 DEF Course, Succ

LEMMA HeardIsCourse ==
  ASSUME NEW ops, NEW rate, NEW channels, NEW cap, Len(ops) \in Nat
  PROVE  \E f : /\ Course(f, ops, rate, channels, cap, Len(ops))
                /\ Heard(ops, rate, channels, cap) = f[Len(ops)].out
<1> DEFINE g == CHOOSE f : Course(f, ops, rate, channels, cap, Len(ops))
<1>1. Course(g, ops, rate, channels, cap, Len(ops))
  <2>1. \E f : Course(f, ops, rate, channels, cap, Len(ops))
    BY CourseExists
  <2>2. QED
    BY <2>1
<1>2. Heard(ops, rate, channels, cap) = g[Len(ops)].out
  BY DEF Heard, Course, After, Pushed, TakenFrom, Start
<1>3. QED
  BY <1>1, <1>2

LEMMA StartAligned ==
  ASSUME NEW channels
  PROVE  State(Start, channels)
<1>1. <<>> \in Seq(Sample) /\ Len(<<>>) = 0 /\ 0 \div 2 = 0 /\ 0 % 2 = 0
  OBVIOUS
<1>2. Aligned(<<>>, channels)
  BY <1>1 DEF Aligned
<1>3. Ordered(<<>>, <<>>) /\ Until(<<>>, 0)
  BY <1>1 DEF Ordered, Until
<1>4. Start.sent = 0 /\ Start.ring = <<>> /\ Start.out = <<>>
      /\ Start \in [open : BOOLEAN, sent : Nat, ring : Seq(Sample), out : Seq(Sample)]
  BY <1>1 DEF Start
<1>5. QED
  BY <1>2, <1>3, <1>4 DEF State

LEMMA CourseAligned ==
  ASSUME NEW ops \in Seq(OpsOf), NEW rate \in Nat, rate > 0, NEW channels \in 1 .. 8,
         NEW cap \in Nat, Kept(cap) % 2 = 0, ~Swaps(ops, rate, channels),
         NEW f, Course(f, ops, rate, channels, cap, Len(ops))
  PROVE  State(f[Len(ops)], channels)
<1> DEFINE m == Len(ops)
           S == {n \in Nat : n <= m => State(f[n], channels)}
<1>1. m \in Nat
  OBVIOUS
<1>2. \A k \in 0 .. m : f[k] = IF k = 0 THEN Start ELSE After(f[k - 1], ops[k], rate, channels, cap)
  BY DEF Course
<1> HIDE DEF m
<1>3. 0 \in S
  BY <1>1, <1>2, StartAligned
<1>4. ASSUME NEW n \in Nat, n \in S PROVE n + 1 \in S
  <2> SUFFICES ASSUME n + 1 <= m PROVE State(f[n + 1], channels)
    OBVIOUS
  <2> DEFINE op == ops[n + 1]
             s == f[n]
  <2>1. op \in OpsOf
    BY <1>1 DEF m
  <2>2. State(s, channels)
    BY <1>1, <1>4
  <2>3. f[n + 1] = After(s, op, rate, channels, cap)
    <3>1. n + 1 \in 0 .. m /\ n + 1 # 0 /\ (n + 1) - 1 = n
      BY <1>1
    <3>2. QED
      BY <1>2, <3>1
  <2>4. op.do # "take" => ~Odd(rate, channels, op.size)
    <3>1. op.do \in {"push", "take"} /\ n + 1 \in DOMAIN ops
      BY <1>1, <2>1 DEF OpsOf, m
    <3>2. QED
      BY <3>1 DEF Swaps, Odd
  <2> HIDE DEF op, s
  <2>5. CASE op.do = "take"
    <3>1. State(TakenFrom(s, op), channels)
      BY <2>1, <2>2, StepTake
    <3>2. QED
      BY <2>3, <2>5, <3>1 DEF After
  <2>6. CASE op.do # "take" /\ s.open /\ ~Panics(op.size, channels)
    <3>1. State(Pushed(s, op, rate, channels, cap), channels)
      BY <2>1, <2>2, <2>4, <2>6, StepPush
    <3>2. QED
      BY <2>3, <2>6, <3>1 DEF After
  <2>7. CASE op.do # "take" /\ ~(s.open /\ ~Panics(op.size, channels))
    <3>1. State([s EXCEPT !.open = FALSE], channels)
      BY <2>2, StepClose
    <3>2. QED
      BY <2>3, <2>7, <3>1 DEF After
  <2>8. QED
    BY <2>5, <2>6, <2>7
<1>5. \A n \in Nat : n \in S
  <2> HIDE DEF S
  <2>1. QED
    BY <1>3, <1>4, SetInduction
<1>6. QED
  <2>1. m \in S /\ m <= m
    BY <1>1, <1>5
  <2>2. QED
    BY <2>1 DEF m

THEOREM HeardInStep ==
  ASSUME NEW ops \in Seq(OpsOf), NEW rate \in Nat, rate > 0, NEW channels \in 1 .. 8,
         NEW cap \in Nat, Kept(cap) % 2 = 0, ~Swaps(ops, rate, channels)
  PROVE  FramesInStep(Heard(ops, rate, channels, cap), channels)
<1>1. Len(ops) \in Nat
  OBVIOUS
<1>2. PICK f : /\ Course(f, ops, rate, channels, cap, Len(ops))
               /\ Heard(ops, rate, channels, cap) = f[Len(ops)].out
  BY <1>1, HeardIsCourse
<1> DEFINE out == Heard(ops, rate, channels, cap)
<1>3. Aligned(out, channels)
  <2>1. State(f[Len(ops)], channels)
    BY <1>2, CourseAligned
  <2>2. QED
    BY <1>2, <2>1 DEF State
<1> HIDE DEF out
<1>4. Len(out) \in Nat
  BY <1>3, AlignedLen
<1>5. \A k \in 1 .. Len(out) - 2 : out[k].a[1] <= out[k + 2].a[1]
  <2> TAKE k \in 1 .. Len(out) - 2
  <2>1. k \in 1 .. Len(out) /\ k + 2 \in 1 .. Len(out) /\ k <= k + 2
    BY <1>4
  <2>2. QED
    BY <1>3, <2>1 DEF Aligned
<1>6. FramesInStep(out, channels)
  BY <1>3, <1>5 DEF FramesInStep, Aligned, MixChannels
<1>7. QED
  BY <1>6 DEF out

(* The same for the bounded streams of the run.                             *)
THEOREM FramesInOrder == Spec => []FramesStayAligned
<1>1. SampleCap \in Nat /\ Kept(SampleCap) % 2 = 0
  BY DEF SampleCap, Kept
<1>2. ASSUME NEW ops \in [1 .. 4 -> Ops] PROVE ops \in Seq(OpsOf)
  <2>1. Ops \subseteq OpsOf
    BY DEF Ops, OpsOf
  <2>2. ops \in [1 .. 4 -> OpsOf]
    BY <2>1
  <2>3. 4 \in Nat
    OBVIOUS
  <2>4. \A n \in Nat : \A f \in [1 .. n -> OpsOf] : f \in Seq(OpsOf)
    OBVIOUS
  <2>5. QED
    BY <2>2, <2>3, <2>4, Zenon
<1>3. ASSUME NEW format \in Formats
      PROVE  format[1] \in Nat /\ format[1] > 0 /\ format[2] \in 1 .. 8
  BY SMT DEF Formats
<1>4. EveryFrameAligned
  <2> HIDE DEF SampleCap
  <2>1. ASSUME NEW ops \in [1 .. 4 -> Ops], NEW format \in Formats,
               ~Swaps(ops, format[1], format[2])
        PROVE  FramesInStep(Heard(ops, format[1], format[2], SampleCap), format[2])
    <3>1. ops \in Seq(OpsOf) /\ format[1] \in Nat /\ format[1] > 0 /\ format[2] \in 1 .. 8
      BY <1>2, <1>3, Zenon
    <3> DEFINE rate == format[1]
               channels == format[2]
    <3>2. rate \in Nat /\ rate > 0 /\ channels \in 1 .. 8 /\ ~Swaps(ops, rate, channels)
      BY <2>1, <3>1
    <3> HIDE DEF rate, channels
    <3>3. FramesInStep(Heard(ops, rate, channels, SampleCap), channels)
      BY <1>1, <3>1, <3>2, HeardInStep
    <3>4. QED
      BY <3>3 DEF rate, channels
  <2>2. QED
    BY <2>1 DEF EveryFrameAligned
<1>5. FramesStayAligned
  BY <1>4 DEF FramesStayAligned
<1>6. QED
  BY <1>5, PTL
=============================================================================
