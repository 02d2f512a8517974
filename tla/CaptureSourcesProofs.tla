------------------------- MODULE CaptureSourcesProofs -------------------------
(* Proofs about CaptureSources: its types, and that no two threads capture  *)
(* from one device, for any number of devices, streams and threads.         *)
EXTENDS CaptureSources, TLAPS

(* A step of a thread keeps its device and touches nothing but the thread   *)
(* and, in a push, what a stream has heard.                                 *)
LEMMA ThreadStep ==
  ASSUME TypeOK, NEW x \in Slot, Period(x) \/ Die(x)
  PROVE  /\ thread[x] # None
         /\ \E t \in Thread : t.dev = thread[x].dev /\ Becomes(x, t)
         /\ heard' \in [Stream -> Device \cup {None}]
<1>0. thread \in [Slot -> Thread \cup {None}] /\ heard \in [Stream -> Device \cup {None}]
  BY DEF TypeOK
<1>1. thread[x] # None
  BY DEF Period, Die, Loop, Capture, NothingRead, Push, EndFan, Look, At
<1>2. thread[x] \in Thread
  BY <1>0, <1>1
<1> DEFINE Goal == /\ \E t \in Thread : t.dev = thread[x].dev /\ Becomes(x, t)
                   /\ heard' \in [Stream -> Device \cup {None}]
<1>3. ASSUME NEW at \in {"top", "reading", "fan", "push", "exited"}
      PROVE  /\ [thread[x] EXCEPT !.at = at] \in Thread
             /\ [thread[x] EXCEPT !.at = at].dev = thread[x].dev
  BY <1>2 DEF Thread
<1>4. CASE Loop(x)
  <2> DEFINE at == IF thread[x].stop THEN "exited" ELSE "reading"
  <2>1. at \in {"top", "reading", "fan", "push", "exited"}
    OBVIOUS
  <2>2. Becomes(x, [thread[x] EXCEPT !.at = at]) /\ UNCHANGED heard
    BY <1>4 DEF Loop
  <2>3. QED
    BY <1>0, <1>1, <1>3, <2>1, <2>2
<1>5. CASE Capture(x)
  <2> DEFINE t == [thread[x] EXCEPT !.at = "fan", !.todo = InHub]
  <2>1. t \in Thread /\ t.dev = thread[x].dev
    BY <1>2 DEF Thread, InHub
  <2>2. Becomes(x, t) /\ UNCHANGED heard
    BY <1>5 DEF Capture
  <2>3. QED
    BY <1>0, <1>1, <2>1, <2>2
<1>6. CASE NothingRead(x) \/ EndFan(x)
  <2>1. Becomes(x, [thread[x] EXCEPT !.at = "top"]) /\ UNCHANGED heard
    BY <1>6 DEF NothingRead, EndFan
  <2>2. QED
    BY <1>0, <1>1, <1>3, <2>1
<1>7. CASE Die(x)
  <2>1. Becomes(x, [thread[x] EXCEPT !.at = "exited"]) /\ UNCHANGED heard
    BY <1>7 DEF Die
  <2>2. QED
    BY <1>0, <1>1, <1>3, <2>1
<1>8. ASSUME NEW s \in Stream, Look(x, s) PROVE Goal
  <2> DEFINE t == IF on[s] = thread[x].dev
                  THEN [thread[x] EXCEPT !.at = "push", !.todo = @ \ {s}, !.to = s]
                  ELSE [thread[x] EXCEPT !.todo = @ \ {s}]
  <2>1. t \in Thread /\ t.dev = thread[x].dev
    BY <1>2 DEF Thread
  <2>2. Becomes(x, t) /\ UNCHANGED heard
    BY <1>8 DEF Look
  <2>3. QED
    BY <1>0, <2>1, <2>2
<1>9. CASE Push(x)
  <2> DEFINE t == [thread[x] EXCEPT !.at = "fan", !.to = None]
  <2>1. t \in Thread /\ t.dev = thread[x].dev /\ t.dev \in Device
    BY <1>2 DEF Thread
  <2>2. Becomes(x, t)
    BY <1>9 DEF Push
  <2>3. heard' \in [Stream -> Device \cup {None}]
    BY <1>0, <1>9, <2>1 DEF Push
  <2>4. QED
    BY <1>1, <2>1, <2>2, <2>3
<1>10. Goal
  BY <1>4, <1>5, <1>6, <1>7, <1>8, <1>9 DEF Period
<1>11. QED
  BY <1>1, <1>10

-----------------------------------------------------------------------------
(* The invariant                                                            *)

Joining(x) == tick.pc = "join" /\ tick.slot = x

(* A handle is that of a thread of its device.  A thread has the handle of  *)
(* its device, or the pass waits for it.  The device of the thread the pass *)
(* waits for, and the one it is about to open, have no handle.              *)
HandlesInv == \A d \in Device :
  sources[d] # None => thread[sources[d]] # None /\ thread[sources[d]].dev = d
ThreadsInv == \A x \in Slot :
  thread[x] # None => sources[thread[x].dev] = x \/ Joining(x)
JoinInv == tick.pc = "join" =>
  tick.slot \in Slot /\ thread[tick.slot] # None /\ sources[thread[tick.slot].dev] = None
OpenInv == tick.pc = "opening" => tick.target \in Device /\ sources[tick.target] = None

SourceInv == TypeOK /\ HandlesInv /\ ThreadsInv /\ JoinInv /\ OpenInv

LEMMA InvInit == Init => SourceInv
BY DeviceAssumption DEF Init, SourceInv, TypeOK, HandlesInv, ThreadsInv, JoinInv, OpenInv, TickIdle, TickState

(* Steps that leave handles and threads alone, and do not open or wait.     *)
LEMMA InvQuiet ==
  ASSUME SourceInv, TypeOK', UNCHANGED <<sources, thread>>,
         \/ tick' = tick
         \/ tick.pc # "join" /\ tick'.pc \notin {"join", "opening"}
  PROVE  SourceInv'
BY DEF SourceInv, HandlesInv, ThreadsInv, JoinInv, OpenInv, Joining

LEMMA InvThread ==
  ASSUME SourceInv, NEW x \in Slot, Period(x) \/ Die(x)
  PROVE  SourceInv'
<1>0. TypeOK
  BY DEF SourceInv
<1>1. PICK t \in Thread : t.dev = thread[x].dev /\ Becomes(x, t)
  BY <1>0, ThreadStep
<1>2. thread[x] # None /\ heard' \in [Stream -> Device \cup {None}]
  BY <1>0, ThreadStep
<1>3. /\ thread' = [thread EXCEPT ![x] = t] /\ UNCHANGED <<environment, sources, recent, fresh, tick>>
      /\ thread \in [Slot -> Thread \cup {None}]
  BY <1>0, <1>1 DEF Becomes, TypeOK
<1>4. TypeOK'
  BY <1>0, <1>2, <1>3 DEF TypeOK, environment
<1>5. \A y \in Slot : /\ thread'[y] = None <=> thread[y] = None
                      /\ thread'[y].dev = thread[y].dev
  BY <1>1, <1>2, <1>3, NoneAssumption
<1>6. \A d \in Device : sources[d] # None => sources[d] \in Slot
  BY <1>0 DEF TypeOK
<1>7. QED
  BY <1>3, <1>4, <1>5, <1>6 DEF SourceInv, HandlesInv, ThreadsInv, JoinInv, OpenInv, Joining

LEMMA InvOpen ==
  ASSUME SourceInv, NEW d \in Device, NEW x \in Slot, OpenSucceeds(d, x)
  PROVE  SourceInv'
<1> USE DEF SourceInv
<1>0. /\ tick \in TickState /\ sources \in [Device -> Slot \cup {None}]
      /\ thread \in [Slot -> Thread \cup {None}] /\ fresh \subseteq Device
      /\ tick.pc = "opening" /\ sources[d] = None /\ thread[x] = None
  BY DEF TypeOK, OpenSucceeds, OpenInv
<1>1. Opened(d) \in Thread /\ Opened(d).dev = d
  BY DEF Opened, Thread
<1>2. Opened(d) # None /\ x # None
  BY <1>1, NoneAssumption
<1>3. /\ thread' = [thread EXCEPT ![x] = Opened(d)] /\ sources' = [sources EXCEPT ![d] = x]
      /\ tick' = [tick EXCEPT !.pc = "open", !.target = None] /\ fresh' = fresh \cup {d}
      /\ UNCHANGED <<environment, heard, recent>>
  BY DEF OpenSucceeds
<1>4. tick' \in TickState /\ tick'.pc = "open"
  BY <1>0, <1>3 DEF TickState
<1>5. TypeOK'
  BY <1>0, <1>1, <1>3, <1>4 DEF TypeOK, environment
<1>6. ASSUME NEW e \in Device, sources'[e] # None
      PROVE  thread'[sources'[e]] # None /\ thread'[sources'[e]].dev = e
  <2>1. CASE e = d
    BY <1>0, <1>1, <1>2, <1>3, <2>1
  <2>2. CASE e # d
    <3>1. sources'[e] = sources[e] /\ sources[e] \in Slot
      BY <1>0, <1>3, <1>6, <2>2
    <3>2. thread[sources[e]] # None /\ thread[sources[e]].dev = e
      BY <1>6, <3>1 DEF HandlesInv
    <3>3. QED
      BY <1>0, <1>3, <3>1, <3>2
  <2>3. QED
    BY <2>1, <2>2
<1>7. ASSUME NEW y \in Slot, thread'[y] # None PROVE sources'[thread'[y].dev] = y
  <2>1. CASE y = x
    BY <1>0, <1>1, <1>3, <2>1
  <2>2. CASE y # x
    <3>1. thread'[y] = thread[y] /\ thread[y] \in Thread /\ thread[y].dev \in Device
      BY <1>0, <1>3, <1>7, <2>2 DEF Thread
    <3>2. sources[thread[y].dev] = y
      BY <1>0, <1>7, <3>1 DEF ThreadsInv, Joining
    <3>3. thread[y].dev # d
      BY <1>0, <3>2, NoneAssumption
    <3>4. QED
      BY <1>0, <1>3, <3>1, <3>2, <3>3
  <2>3. QED
    BY <2>1, <2>2
<1>8. QED
  BY <1>4, <1>5, <1>6, <1>7 DEF HandlesInv, ThreadsInv, JoinInv, OpenInv

LEMMA InvClose ==
  ASSUME SourceInv, NEW d \in Device, Close(d)
  PROVE  SourceInv'
<1> USE DEF SourceInv
<1> DEFINE x == sources[d]
           t == [thread[x] EXCEPT !.stop = TRUE]
<1>0. /\ tick \in TickState /\ sources \in [Device -> Slot \cup {None}]
      /\ thread \in [Slot -> Thread \cup {None}]
      /\ tick.pc = "open" /\ x \in Slot
  BY DEF TypeOK, Close
<1>1. thread[x] \in Thread /\ thread[x] # None /\ thread[x].dev = d
  BY <1>0, NoneAssumption DEF HandlesInv
<1>2. t \in Thread /\ t.dev = d
  BY <1>1 DEF Thread
<1>3. t # None
  BY <1>2, NoneAssumption
<1>4. /\ thread' = [thread EXCEPT ![x] = t] /\ sources' = [sources EXCEPT ![d] = None]
      /\ tick' = [tick EXCEPT !.close = @ \ {d}, !.pc = "join", !.slot = x]
      /\ UNCHANGED <<environment, heard, recent, fresh>>
  BY DEF Close, WaitFor
<1> HIDE DEF t, x
<1>5. tick' \in TickState /\ tick'.pc = "join" /\ tick'.slot = x
  BY <1>0, <1>4 DEF TickState
<1>6. TypeOK'
  BY <1>0, <1>2, <1>4, <1>5 DEF TypeOK, environment
<1>7. ASSUME NEW e \in Device, sources'[e] # None
      PROVE  thread'[sources'[e]] # None /\ thread'[sources'[e]].dev = e
  <2>1. e # d /\ sources'[e] = sources[e] /\ sources[e] \in Slot
    BY <1>0, <1>4, <1>7
  <2>2. thread[sources[e]] # None /\ thread[sources[e]].dev = e
    BY <1>7, <2>1 DEF HandlesInv
  <2>3. sources[e] # x
    BY <1>1, <2>1, <2>2
  <2>4. QED
    BY <1>0, <1>4, <2>1, <2>2, <2>3
<1>8. ASSUME NEW y \in Slot, thread'[y] # None, y # x PROVE sources'[thread'[y].dev] = y
  <2>1. thread'[y] = thread[y] /\ thread[y].dev \in Device
    BY <1>0, <1>4, <1>8 DEF Thread
  <2>2. sources[thread[y].dev] = y
    BY <1>0, <1>8, <2>1 DEF ThreadsInv, Joining
  <2>3. thread[y].dev # d
    BY <1>8, <2>2 DEF x
  <2>4. QED
    BY <1>0, <1>4, <2>1, <2>2, <2>3
<1>9. thread'[x] # None /\ sources'[thread'[x].dev] = None
  BY <1>0, <1>2, <1>3, <1>4
<1>10. QED
  BY <1>0, <1>5, <1>6, <1>7, <1>8, <1>9
     DEF HandlesInv, ThreadsInv, JoinInv, OpenInv, Joining

LEMMA InvJoin ==
  ASSUME SourceInv, Join
  PROVE  SourceInv'
<1> USE DEF SourceInv
<1> DEFINE x == tick.slot
<1>0. /\ tick \in TickState /\ sources \in [Device -> Slot \cup {None}]
      /\ thread \in [Slot -> Thread \cup {None}]
      /\ tick.pc = "join" /\ x \in Slot /\ thread[x] # None /\ sources[thread[x].dev] = None
  BY DEF TypeOK, Join, JoinInv
<1>1. /\ thread' = [thread EXCEPT ![x] = None] /\ tick' = [tick EXCEPT !.pc = "open", !.slot = None]
      /\ UNCHANGED <<environment, heard, sources, recent, fresh>>
  BY DEF Join
<1>2. tick' \in TickState /\ tick'.pc = "open"
  BY <1>0, <1>1 DEF TickState
<1>3. TypeOK'
  BY <1>0, <1>1, <1>2 DEF TypeOK, environment
<1>4. ASSUME NEW e \in Device, sources'[e] # None
      PROVE  thread'[sources'[e]] # None /\ thread'[sources'[e]].dev = e
  <2>1. sources[e] \in Slot /\ thread[sources[e]] # None /\ thread[sources[e]].dev = e
    BY <1>0, <1>1, <1>4 DEF HandlesInv
  <2>2. sources[e] # x
    BY <1>0, <2>1, NoneAssumption
  <2>3. QED
    BY <1>0, <1>1, <2>1, <2>2
<1>5. ASSUME NEW y \in Slot, thread'[y] # None PROVE sources'[thread'[y].dev] = y
  <2>1. y # x /\ thread'[y] = thread[y]
    BY <1>0, <1>1, <1>5
  <2>2. QED
    BY <1>1, <1>5, <2>1 DEF ThreadsInv, Joining
<1>6. QED
  BY <1>2, <1>3, <1>4, <1>5 DEF HandlesInv, ThreadsInv, JoinInv, OpenInv

-----------------------------------------------------------------------------
(* The other steps                                                          *)

LEMMA InvPass ==
  ASSUME SourceInv, Pass \/ OpenFails
  PROVE  SourceInv'
<1>0. /\ TypeOK /\ tick \in TickState /\ present \subseteq Device
      /\ fresh \subseteq Device /\ recent \subseteq Device
  BY DEF SourceInv, TypeOK
<1>1. CASE Survey
  <2>1. Referenced \subseteq Device /\ ToClose(Referenced) \subseteq Device
    BY DEF Referenced, InHub, ToClose
  <2>2. /\ tick' \in TickState /\ tick'.pc = "open" /\ fresh' \subseteq Device
        /\ tick.pc = "idle"
    BY <1>0, <1>1, <2>1 DEF Survey, TickState
  <2>3. UNCHANGED <<environment, heard, sources, thread, recent>>
    BY <1>1 DEF Survey
  <2>4. TypeOK'
    BY <1>0, <2>2, <2>3 DEF TypeOK, environment
  <2>5. QED
    BY <2>2, <2>3, <2>4, InvQuiet
<1>2. ASSUME NEW d \in Device, Skip(d) PROVE SourceInv'
  <2>1. tick' \in TickState /\ tick'.pc = "open" /\ tick.pc = "open"
    BY <1>0, <1>2 DEF Skip, TickState
  <2>2. UNCHANGED <<environment, heard, sources, thread, recent, fresh>>
    BY <1>2 DEF Skip
  <2>3. TypeOK'
    BY <1>0, <2>1, <2>2 DEF TypeOK, environment
  <2>4. QED
    BY <2>1, <2>2, <2>3, InvQuiet
<1>3. ASSUME NEW d \in Device, Attempt(d) PROVE SourceInv'
  <2>1. /\ tick' \in TickState /\ tick'.pc = "opening" /\ tick'.target = d /\ tick.pc = "open"
        /\ sources[d] = None /\ recent' \subseteq Device
    BY <1>0, <1>3 DEF Attempt, TickState
  <2>2. UNCHANGED <<environment, heard, sources, thread, fresh>>
    BY <1>3 DEF Attempt
  <2>3. TypeOK'
    BY <1>0, <2>1, <2>2 DEF TypeOK, environment
  <2>4. QED
    BY <2>1, <2>2, <2>3 DEF SourceInv, HandlesInv, ThreadsInv, JoinInv, OpenInv, Joining
<1>4. CASE OpenFails
  <2>1. tick' \in TickState /\ tick'.pc = "open" /\ tick.pc = "opening"
    BY <1>0, <1>4 DEF OpenFails, TickState
  <2>2. UNCHANGED <<environment, heard, sources, thread, recent, fresh>>
    BY <1>4 DEF OpenFails
  <2>3. TypeOK'
    BY <1>0, <2>1, <2>2 DEF TypeOK, environment
  <2>4. QED
    BY <2>1, <2>2, <2>3, InvQuiet
<1>5. CASE EndTick
  <2>1. tick' \in TickState /\ tick'.pc = "idle" /\ tick.pc = "open"
    BY <1>5 DEF EndTick, TickIdle, TickState
  <2>2. UNCHANGED <<environment, heard, sources, thread, recent, fresh>>
    BY <1>5 DEF EndTick
  <2>3. TypeOK'
    BY <1>0, <2>1, <2>2 DEF TypeOK, environment
  <2>4. QED
    BY <2>1, <2>2, <2>3, InvQuiet
<1>6. QED
  BY <1>1, <1>2, <1>3, <1>4, <1>5, InvClose, InvJoin DEF Pass

LEMMA InvEnvironment ==
  ASSUME SourceInv,
         \/ \E d \in Device : Plug(d) \/ RetryElapses(d) \/ IdleElapses(d)
         \/ \E s \in Stream : Leave(s) \/ \E d \in Device : Place(s, d)
  PROVE  SourceInv'
<1>0. TypeOK
  BY DEF SourceInv
<1>1. UNCHANGED <<sources, thread, tick>>
  BY DEF Plug, RetryElapses, IdleElapses, Leave, Place, capture
<1>2. TypeOK'
  BY <1>0 DEF TypeOK, Plug, RetryElapses, IdleElapses, Leave, Place, capture, environment
<1>3. QED
  BY <1>1, <1>2, InvQuiet

LEMMA InvStep == SourceInv /\ [Next]_vars => SourceInv'
<1> SUFFICES ASSUME SourceInv, [Next]_vars PROVE SourceInv'
  OBVIOUS
<1>1. CASE UNCHANGED vars
  BY <1>1 DEF vars, SourceInv, TypeOK, HandlesInv, ThreadsInv, JoinInv, OpenInv, Joining
<1>2. QED
  BY <1>1, InvThread, InvOpen, InvPass, InvEnvironment DEF Next, Opening, Open

(* Every variable keeps its type.                                           *)
THEOREM TypeCorrect == Spec => []TypeOK
<1>1. SourceInv => TypeOK
  BY DEF SourceInv
<1>2. QED
  BY <1>1, InvInit, InvStep, PTL DEF Spec

(* No two threads capture from one device, however devices vanish, streams  *)
(* move and threads die while the pass opens and closes.                    *)
THEOREM OneReaderPerDevice == Spec => []OneReader
<1>1. SourceInv => OneReader
  <2> SUFFICES ASSUME SourceInv, NEW x \in Slot, NEW y \in Slot, Reads(x), Reads(y),
                      thread[x].dev = thread[y].dev
               PROVE  x = y
    BY DEF OneReader
  <2>1. /\ sources[thread[x].dev] = x \/ Joining(x)
        /\ sources[thread[x].dev] = y \/ Joining(y)
    BY DEF SourceInv, ThreadsInv, Reads
  <2>2. x # None /\ y # None
    BY NoneAssumption
  <2>3. QED
    BY <2>1, <2>2 DEF SourceInv, JoinInv, Joining
<1>2. QED
  BY <1>1, InvInit, InvStep, PTL DEF Spec
=============================================================================
