------------------------ MODULE SettingsStoreProofs -------------------------
(* Proofs about SettingsStore: any number of devices, commands, changes and *)
(* crashes, with hotplug, rules at boot and a disk that refuses writes.     *)
EXTENDS SettingsStore, SequenceTheorems, TLAPS

(* Where the settings on their way to the file are complete.                *)
SnapshotsTaken == \A t \in Task : task[t].pc = "send" => task[t].copy \in Settings
WriterLoaded == writer.pc # "recv" => writer.latest \in Settings
ScratchComplete == writer.pc = "rename" => disk.tmp = writer.latest
FileRead == phase \in {"loaded", "scanned", "boot_save"} => loaded \in Settings

DiskInv ==
  /\ SnapshotsTaken
  /\ WriterLoaded
  /\ ScratchComplete
  /\ FileRead
  /\ NeverTorn

Inv == TypeOK /\ DiskInv

-----------------------------------------------------------------------------
(* Lemmas about settings                                                    *)

LEMMA SettingsOf ==
  ASSUME NEW f \in Settings
  PROVE  /\ DOMAIN f \in SUBSET Key
         /\ Shared \in DOMAIN f
         /\ f \in [DOMAIN f -> Version]
BY DEF Settings, Key

LEMMA IsSettings ==
  ASSUME NEW S \in SUBSET Key, Shared \in S, NEW f \in [S -> Version]
  PROVE  f \in Settings
<1>1. S \cap Device \in SUBSET Device /\ S = {Shared} \cup (S \cap Device)
  BY DEF Key
<1>2. QED
  BY <1>1 DEF Settings

LEMMA ZeroIsVersion == 0 \in Version
BY BoundAssumption DEF Version

LEMMA DefaultType == ASSUME NEW S \in SUBSET Device PROVE Default(S) \in Settings
BY ZeroIsVersion DEF Default, Settings

(* A file written in part has no settings, not even the shared ones.        *)
LEMMA TornIsNoSettings == Torn \notin Settings
<1>1. Shared \notin DOMAIN Torn
  BY DEF Torn
<1>2. QED
  BY <1>1, SettingsOf

LEMMA QueueType ==
  ASSUME NEW q \in Seq(Settings), q # <<>>
  PROVE  /\ Head(q) \in Settings
         /\ Tail(q) \in Seq(Settings)
         /\ Len(q) <= Capacity => Len(Tail(q)) <= Capacity
BY BoundAssumption

LEMMA OfferedType ==
  ASSUME chan \in Seq(Settings), Len(chan) <= Capacity, NEW copy \in Settings
  PROVE  Offered(copy) \in Seq(Settings) /\ Len(Offered(copy)) <= Capacity
BY BoundAssumption DEF Offered

(* A missing file and a torn one count as defaults.                         *)
LEMMA LoadType == ASSUME TypeOK PROVE Load \in Settings
<1>1. Default({}) \in Settings
  BY DefaultType
<1>2. QED
  BY <1>1 DEF TypeOK, Load, Readable, Stored

-----------------------------------------------------------------------------
(* The invariant is inductive                                               *)

LEMMA InvInit == Init => Inv
<1>1. Default({}) \in Settings
  BY DefaultType
<1>2. None # Torn
  BY NoneAssumption
<1>3. SUFFICES ASSUME Init PROVE Inv
  OBVIOUS
<1>4. TypeOK
  BY <1>1, <1>3, ZeroIsVersion, BoundAssumption DEF Init, TypeOK, TaskIdle, WriterIdle
<1>5. DiskInv
  BY <1>2, <1>3
  DEF Init, DiskInv, SnapshotsTaken, WriterLoaded, ScratchComplete, FileRead, NeverTorn,
      TaskIdle, WriterIdle
<1>6. QED
  BY <1>4, <1>5 DEF Inv

(* Commands: what they queue are settings; they never touch the disk.       *)
LEMMA CommandsKeepInv ==
  ASSUME Inv, NEW t \in Task, Saving(t) \/ \E k \in Key : Change(t, k)
  PROVE  Inv'
<1>1. TypeOK /\ DiskInv
  BY DEF Inv
<1>2. CASE \E k \in Key : Change(t, k)
  <2>1. PICK k \in Key : Change(t, k)
    BY <1>2
  <2>2. changes' \in Version
    BY <1>1, <2>1, BoundAssumption DEF Change, TypeOK, Version
  <2>3. mem' \in Settings
    <3>1. mem \in [DOMAIN mem -> Version] /\ DOMAIN mem \in SUBSET Key /\ Shared \in DOMAIN mem
      BY <1>1, SettingsOf DEF TypeOK
    <3>2. mem' \in [DOMAIN mem -> Version]
      BY <2>1, <2>2, <3>1 DEF Change
    <3>3. QED
      BY <3>1, <3>2, IsSettings
  <2>4. TypeOK'
    BY <1>1, <2>1, <2>2, <2>3 DEF Change, TypeOK
  <2>5. DiskInv'
    BY <1>1, <2>1
    DEF Change, TypeOK, DiskInv, SnapshotsTaken, WriterLoaded, ScratchComplete, FileRead, NeverTorn
  <2>6. QED
    BY <2>4, <2>5 DEF Inv
<1>3. CASE Snapshot(t)
  <2>1. TypeOK'
    BY <1>1, <1>3 DEF Snapshot, TypeOK
  <2>2. DiskInv'
    BY <1>1, <1>3
    DEF Snapshot, TypeOK, DiskInv, SnapshotsTaken, WriterLoaded, ScratchComplete, FileRead, NeverTorn
  <2>3. QED
    BY <2>1, <2>2 DEF Inv
<1>4. CASE Send(t)
  <2>1. chan' \in Seq(Settings) /\ Len(chan') <= Capacity
    BY <1>1, <1>4, OfferedType DEF Send, TypeOK, DiskInv, SnapshotsTaken
  <2>2. TypeOK'
    BY <1>1, <1>4, <2>1 DEF Send, TypeOK, TaskIdle
  <2>3. DiskInv'
    BY <1>1, <1>4
    DEF Send, TypeOK, TaskIdle, DiskInv, SnapshotsTaken, WriterLoaded, ScratchComplete, FileRead,
        NeverTorn
  <2>4. QED
    BY <2>2, <2>3 DEF Inv
<1>5. QED
  BY <1>2, <1>3, <1>4 DEF Saving

LEMMA PlugKeepsInv ==
  ASSUME Inv, NEW d \in Device, Plug(d)
  PROVE  Inv'
<1>1. TypeOK /\ DiskInv
  BY DEF Inv
<1>2. mem' \in Settings
  <2>1. mem \in [DOMAIN mem -> Version] /\ DOMAIN mem \in SUBSET Key /\ Shared \in DOMAIN mem
    BY <1>1, SettingsOf DEF TypeOK
  <2>2. CASE d \in DOMAIN mem
    <3>1. mem' \in [DOMAIN mem \ {d} -> Version]
      BY <2>1, <2>2 DEF Plug
    <3>2. Shared \in DOMAIN mem \ {d}
      BY <2>1, SharedAssumption
    <3>3. QED
      BY <2>1, <3>1, <3>2, IsSettings
  <2>3. CASE d \notin DOMAIN mem
    <3>1. mem' \in [DOMAIN mem \cup {d} -> Version]
      BY <2>1, <2>3, ZeroIsVersion DEF Plug
    <3>2. QED
      BY <2>1, <3>1, IsSettings DEF Key
  <2>4. QED
    BY <2>2, <2>3
<1>3. TypeOK'
  BY <1>1, <1>2 DEF Plug, TypeOK
<1>4. DiskInv'
  BY <1>1
  DEF Plug, DiskInv, SnapshotsTaken, WriterLoaded, ScratchComplete, FileRead, NeverTorn
<1>5. QED
  BY <1>3, <1>4 DEF Inv

(* The writer: the file is only ever replaced by a complete one.            *)
LEMMA WriterKeepsInv == ASSUME Inv, Writing PROVE Inv'
<1>1. TypeOK /\ DiskInv
  BY DEF Inv
<1>2. CASE Receive
  <2>1. Head(chan) \in Settings /\ Tail(chan) \in Seq(Settings) /\ Len(Tail(chan)) <= Capacity
    BY <1>1, <1>2, QueueType DEF Receive, TypeOK
  <2>2. TypeOK'
    BY <1>1, <1>2, <2>1 DEF Receive, TypeOK
  <2>3. DiskInv'
    BY <1>1, <1>2, <2>1
    DEF Receive, DiskInv, SnapshotsTaken, WriterLoaded, ScratchComplete, FileRead, NeverTorn
  <2>4. QED
    BY <2>2, <2>3 DEF Inv
<1>3. CASE Extend
  <2>1. Head(chan) \in Settings /\ Tail(chan) \in Seq(Settings) /\ Len(Tail(chan)) <= Capacity
    BY <1>1, <1>3, QueueType DEF Extend, TypeOK
  <2>2. writer' = [writer EXCEPT !.latest = Head(chan)]
    BY <1>3 DEF Extend, Latest
  <2>3. TypeOK'
    BY <1>1, <1>3, <2>1, <2>2 DEF Extend, TypeOK
  <2>4. DiskInv'
    BY <1>1, <1>3, <2>1, <2>2
    DEF Extend, TypeOK, DiskInv, SnapshotsTaken, WriterLoaded, ScratchComplete, FileRead, NeverTorn
  <2>5. QED
    BY <2>3, <2>4 DEF Inv
<1>4. CASE Timeout
  <2>1. TypeOK'
    BY <1>1, <1>4 DEF Timeout, TypeOK
  <2>2. DiskInv'
    BY <1>1, <1>4
    DEF Timeout, TypeOK, DiskInv, SnapshotsTaken, WriterLoaded, ScratchComplete, FileRead, NeverTorn
  <2>3. QED
    BY <2>1, <2>2 DEF Inv
<1>5. CASE Create
  <2>1. disk' = [disk EXCEPT !.tmp = Torn]
    BY <1>1, <1>5 DEF Create, Scratch, TypeOK
  <2>2. TypeOK'
    BY <1>1, <1>5, <2>1 DEF Create, TypeOK
  <2>3. DiskInv'
    BY <1>1, <1>5, <2>1
    DEF Create, TypeOK, DiskInv, SnapshotsTaken, WriterLoaded, ScratchComplete, FileRead, NeverTorn
  <2>4. QED
    BY <2>2, <2>3 DEF Inv
<1>6. CASE Complete
  <2>1. writer.latest \in Settings
    BY <1>1, <1>6 DEF Complete, DiskInv, WriterLoaded
  <2>2. disk' = [disk EXCEPT !.tmp = writer.latest]
    BY <1>6 DEF Complete, Scratch
  <2>3. TypeOK'
    BY <1>1, <1>6, <2>1, <2>2 DEF Complete, TypeOK
  <2>4. DiskInv'
    BY <1>1, <1>6, <2>1, <2>2
    DEF Complete, TypeOK, DiskInv, SnapshotsTaken, WriterLoaded, ScratchComplete, FileRead, NeverTorn
  <2>5. QED
    BY <2>3, <2>4 DEF Inv
<1>7. CASE Rename
  <2>1. disk.tmp \in Settings
    BY <1>1, <1>7 DEF Rename, DiskInv, WriterLoaded, ScratchComplete
  <2>2. newest' \in [Key -> Version]
    <3>1. ASSUME NEW k \in Key PROVE Newer(k) \in Version
      <4>1. writer.latest \in Settings
        BY <1>1, <1>7 DEF Rename, DiskInv, WriterLoaded
      <4>2. QED
        BY <1>1, <4>1, SettingsOf DEF Newer, TypeOK
    <3>2. QED
      BY <1>7, <3>1 DEF Rename
  <2>3. TypeOK'
    BY <1>1, <1>7, <2>1, <2>2 DEF Rename, TypeOK, WriterIdle
  <2>4. disk'.file # Torn
    BY <1>7, <2>1, TornIsNoSettings DEF Rename
  <2>5. DiskInv'
    BY <1>1, <1>7, <2>4
    DEF Rename, WriterIdle, DiskInv, SnapshotsTaken, WriterLoaded, ScratchComplete, FileRead,
        NeverTorn
  <2>6. QED
    BY <2>3, <2>5 DEF Inv
<1>8. CASE WriteFails
  <2>1. TypeOK'
    BY <1>1, <1>8 DEF WriteFails, TypeOK, WriterIdle
  <2>2. DiskInv'
    BY <1>1, <1>8
    DEF WriteFails, WriterIdle, DiskInv, SnapshotsTaken, WriterLoaded, ScratchComplete, FileRead,
        NeverTorn
  <2>3. QED
    BY <2>1, <2>2 DEF Inv
<1>9. QED
  BY <1>2, <1>3, <1>4, <1>5, <1>6, <1>7, <1>8 DEF Writing

(* A crash at any moment leaves the file as it is.                          *)
LEMMA CrashKeepsInv == ASSUME Inv, Crash PROVE Inv'
<1>1. TypeOK /\ DiskInv
  BY DEF Inv
<1>2. mem' \in Settings
  BY DefaultType DEF Crash
<1>3. TypeOK'
  BY <1>1, <1>2, BoundAssumption DEF Crash, TypeOK, TaskIdle, WriterIdle
<1>4. DiskInv'
  BY <1>1
  DEF Crash, TaskIdle, WriterIdle, DiskInv, SnapshotsTaken, WriterLoaded, ScratchComplete,
      FileRead, NeverTorn
<1>5. QED
  BY <1>3, <1>4 DEF Inv

LEMMA BootKeepsInv == ASSUME Inv, Booting PROVE Inv'
<1>1. TypeOK /\ DiskInv
  BY DEF Inv
<1>2. CASE Start
  <2>1. loaded' \in Settings
    BY <1>1, <1>2, LoadType DEF Start
  <2>2. TypeOK'
    BY <1>1, <1>2, <2>1 DEF Start, TypeOK
  <2>3. DiskInv'
    BY <1>1, <1>2, <2>1
    DEF Start, DiskInv, SnapshotsTaken, WriterLoaded, ScratchComplete, FileRead, NeverTorn
  <2>4. QED
    BY <2>2, <2>3 DEF Inv
<1>3. CASE BootScan
  <2>1. mem' \in Settings
    BY <1>3, DefaultType DEF BootScan
  <2>2. phase' \in {"scanned", "boot_save"}
    BY <1>3 DEF BootScan
  <2>3. TypeOK'
    BY <1>1, <1>3, <2>1, <2>2 DEF BootScan, TypeOK
  <2>4. DiskInv'
    BY <1>1, <1>3, <2>2
    DEF BootScan, DiskInv, SnapshotsTaken, WriterLoaded, ScratchComplete, FileRead, NeverTorn
  <2>5. QED
    BY <2>3, <2>4 DEF Inv
<1>4. CASE BootSave
  <2>1. chan' \in Seq(Settings) /\ Len(chan') <= Capacity
    BY <1>1, <1>4, OfferedType DEF BootSave, TypeOK
  <2>2. TypeOK'
    BY <1>1, <1>4, <2>1 DEF BootSave, TypeOK
  <2>3. DiskInv'
    BY <1>1, <1>4
    DEF BootSave, DiskInv, SnapshotsTaken, WriterLoaded, ScratchComplete, FileRead, NeverTorn
  <2>4. QED
    BY <2>2, <2>3 DEF Inv
<1>5. CASE Restore
  <2>1. mem' \in Settings
    <3>1. mem \in [DOMAIN mem -> Version] /\ DOMAIN mem \in SUBSET Key /\ Shared \in DOMAIN mem
      BY <1>1, SettingsOf DEF TypeOK
    <3>2. loaded \in [DOMAIN loaded -> Version]
      BY <1>1, <1>5, SettingsOf DEF Restore, DiskInv, FileRead
    <3>3. mem' \in [DOMAIN mem -> Version]
      BY <1>5, <3>1, <3>2 DEF Restore, Restorable
    <3>4. QED
      BY <3>1, <3>3, IsSettings
  <2>2. TypeOK'
    BY <1>1, <1>5, <2>1 DEF Restore, TypeOK
  <2>3. DiskInv'
    BY <1>1, <1>5
    DEF Restore, DiskInv, SnapshotsTaken, WriterLoaded, ScratchComplete, FileRead, NeverTorn
  <2>4. QED
    BY <2>2, <2>3 DEF Inv
<1>6. QED
  BY <1>2, <1>3, <1>4, <1>5 DEF Booting

LEMMA InvInductive == Inv /\ [Next]_vars => Inv'
<1>1. SUFFICES ASSUME Inv, [Next]_vars PROVE Inv'
  OBVIOUS
<1>2. CASE \E t \in Task : Saving(t) \/ \E k \in Key : Change(t, k)
  BY <1>1, <1>2, CommandsKeepInv
<1>3. CASE \E d \in Device : Plug(d)
  BY <1>1, <1>3, PlugKeepsInv
<1>4. CASE Writing
  BY <1>1, <1>4, WriterKeepsInv
<1>5. CASE Crash
  BY <1>1, <1>5, CrashKeepsInv
<1>6. CASE Booting
  BY <1>1, <1>6, BootKeepsInv
<1>7. CASE UNCHANGED vars
  BY <1>1, <1>7
  DEF vars, Inv, TypeOK, DiskInv, SnapshotsTaken, WriterLoaded, ScratchComplete, FileRead, NeverTorn
<1>8. QED
  BY <1>1, <1>2, <1>3, <1>4, <1>5, <1>6, <1>7 DEF Next

LEMMA InvAlways == Spec => []Inv
BY InvInit, InvInductive, PTL DEF Spec

-----------------------------------------------------------------------------
(* Only losses leave the file behind                                        *)

(* Before restore() has run, the settings in use are those of the hardware. *)
BootFresh == phase \in {"scanned", "boot_save"} => \A k \in DOMAIN mem : mem[k] = 0

LEMMA BootFreshStep ==
  ASSUME Inv, BootFresh, [Next]_vars
  PROVE  BootFresh'
<1>1. CASE BootScan
  <2>1. PICK S \in SUBSET Device : mem' = Default(S)
    BY <1>1 DEF BootScan
  <2>2. QED
    BY <2>1 DEF BootFresh, Default
<1>2. CASE Crash \/ Start \/ Restore
  BY <1>2 DEF Crash, Start, Restore, BootFresh
<1>3. CASE BootSave
  BY <1>3 DEF BootSave, BootFresh
<1>4. CASE Writing
  BY <1>4 DEF Writing, Receive, Extend, Timeout, Create, Complete, Rename, WriteFails, BootFresh
<1>5. CASE \E d \in Device : Plug(d)
  BY <1>5 DEF Plug, BootFresh
<1>6. CASE \E t \in Task : Saving(t) \/ \E k \in Key : Change(t, k)
  BY <1>6 DEF Saving, Snapshot, Send, Change, BootFresh
<1>7. CASE UNCHANGED vars
  BY <1>7 DEF vars, BootFresh
<1>8. QED
  BY <1>1, <1>2, <1>3, <1>4, <1>5, <1>6, <1>7 DEF Next, Booting

LEMMA BootFreshAlways == Spec => []BootFresh
<1>1. Init => BootFresh
  BY DEF Init, BootFresh
<1>2. QED
  BY <1>1, BootFreshStep, InvAlways, PTL DEF Spec

Losing(k) ==
  \/ \E t \in Task : Dropped(t) \/ Overtaken(t, k)
  \/ Refused \/ Arrived(k) \/ SavedAtBoot

(* What a setting in use needs to be saved, and where nothing changes it.   *)
LEMMA StaysOnItsWay ==
  ASSUME Inv, NEW k \in Key, ~Behind(k), Behind(k)', phase = "up", k \in DOMAIN mem,
         UNCHANGED task, mem'[k] = mem[k]
  PROVE  Value(Upcoming, k) = mem[k] /\ Value(Upcoming, k)' # mem[k]
BY DEF Behind, OnItsWay

LEMMA ChangeIsSeen ==
  ASSUME Inv, NEW t \in Task, NEW c \in Key, Change(t, c), NEW k \in Key
  PROVE  ~Behind(k)'
<1>1. task'[t].pc = "snapshot"
  BY DEF Change, Inv, TypeOK
<1>2. QED
  BY <1>1 DEF Behind, OnItsWay

LEMMA SnapshotHasIt ==
  ASSUME Inv, NEW t \in Task, Snapshot(t), NEW k \in Key, Behind(k)'
  PROVE  Behind(k)
<1>1. /\ task'[t] = [pc |-> "send", copy |-> mem]
      /\ \A u \in Task : u # t => task'[u] = task[u]
      /\ UNCHANGED <<phase, mem, chan, writer, disk>>
  BY DEF Snapshot, Inv, TypeOK
<1>2. Value(Upcoming, k)' = Value(Upcoming, k)
  BY <1>1 DEF Value, Upcoming
<1>3. Value(mem, k) = mem[k] \/ k \notin DOMAIN mem
  BY NoneAssumption DEF Value, Inv, TypeOK
<1>4. SUFFICES ASSUME ~Behind(k) PROVE FALSE
  OBVIOUS
<1>5. phase = "up" /\ k \in DOMAIN mem /\ OnItsWay(k) /\ ~OnItsWay(k)'
  BY <1>1, <1>4 DEF Behind
<1>6. \A u \in Task : task'[u].pc = "send" => Value(task'[u].copy, k) # mem[k]
  BY <1>1, <1>5 DEF OnItsWay, Value
<1>7. Value(task'[t].copy, k) = mem[k]
  BY <1>1, <1>3, <1>5
<1>8. QED
  BY <1>1, <1>6, <1>7

LEMMA SendDelivers ==
  ASSUME Inv, NEW t \in Task, Send(t), NEW k \in Key, Behind(k)'
  PROVE  Behind(k) \/ Dropped(t) \/ Overtaken(t, k)
<1>1. /\ task[t].pc = "send" /\ task'[t].pc = "idle"
      /\ \A u \in Task : u # t => task'[u] = task[u]
      /\ chan' = Offered(task[t].copy)
      /\ UNCHANGED <<phase, mem, writer, disk>>
  BY DEF Send, TaskIdle, Inv, TypeOK
<1>2. SUFFICES ASSUME ~Dropped(t), ~Overtaken(t, k) PROVE FALSE
  OBVIOUS
<1>3. Value(task[t].copy, k) = mem[k] /\ Len(chan) # Capacity
  BY <1>1, <1>2 DEF Dropped, Overtaken, Sent
<1>4. task[t].copy \in Settings /\ chan \in Seq(Settings) /\ Len(chan) < Capacity
  BY <1>1, <1>3, BoundAssumption DEF Inv, TypeOK, DiskInv, SnapshotsTaken
<1>5. chan' # <<>> /\ chan'[Len(chan')] = task[t].copy
  BY <1>1, <1>4 DEF Offered
<1>6. Value(Upcoming, k)' = mem'[k]
  BY <1>1, <1>3, <1>5 DEF Value, Upcoming
<1>7. QED
  BY <1>6 DEF Behind, OnItsWay

LEMMA PlugArrives ==
  ASSUME Inv, NEW d \in Device, Plug(d), NEW k \in Key, Behind(k)'
  PROVE  Behind(k) \/ Arrived(k)
<1>1. UNCHANGED <<phase, task, chan, writer, disk>> /\ phase = "up"
  BY DEF Plug
<1>2. SUFFICES ASSUME k \in DOMAIN mem, ~Behind(k) PROVE FALSE
  BY DEF Arrived
<1>3. k \in DOMAIN mem'
  BY DEF Behind
<1>4. mem'[k] = mem[k]
  BY <1>2, <1>3 DEF Plug
<1>5. Value(Upcoming, k)' = Value(Upcoming, k)
  BY <1>1 DEF Value, Upcoming
<1>6. QED
  BY <1>1, <1>2, <1>4, <1>5, StaysOnItsWay

(* Taking the first update leaves the last one where it is.                 *)
LEMMA LastStays ==
  ASSUME NEW q \in Seq(Settings), q # <<>>, Len(q) # 1
  PROVE  Tail(q) # <<>> /\ Tail(q)[Len(Tail(q))] = q[Len(q)]
<1>1. Len(q) \in Nat \ {0}
  BY EmptySeq
<1>2. PICK n \in Nat : n = Len(q) /\ n # 0
  BY <1>1
<1>3. n >= 2 /\ n - 1 \in 1 .. n - 1
  BY <1>2
<1>4. /\ Len(Tail(q)) = n - 1
      /\ \A i \in 1 .. n - 1 : Tail(q)[i] = q[i + 1]
  BY <1>2, <1>3, HeadTailProperties
<1>5. Tail(q) # <<>>
  BY <1>3, <1>4, EmptySeq, Len(<<>>) = 0
<1>6. Tail(q)[n - 1] = q[n]
  <2>1. Tail(q)[n - 1] = q[(n - 1) + 1]
    BY <1>3, <1>4
  <2>2. (n - 1) + 1 = n
    OBVIOUS
  <2>3. QED
    BY <2>1, <2>2, Zenon
<1>7. QED
  BY <1>2, <1>4, <1>5, <1>6

(* The writer only moves the last snapshot on, from the channel to its      *)
(* hands and from there to the file.                                        *)
LEMMA WriterMovesOn ==
  ASSUME Inv, Writing, ~Refused
  PROVE  Upcoming' = Upcoming
<1>1. TypeOK /\ WriterLoaded /\ ScratchComplete
  BY DEF Inv, DiskInv
<1>2. CASE Receive
  <2>1. CASE Len(chan) = 1
    BY <1>1, <1>2, <2>1 DEF Receive, Upcoming, TypeOK
  <2>2. CASE Len(chan) # 1
    <3>1. Tail(chan) # <<>> /\ Tail(chan)[Len(Tail(chan))] = chan[Len(chan)]
      BY <1>1, <1>2, <2>2, LastStays DEF Receive, TypeOK
    <3>2. QED
      BY <1>2, <3>1 DEF Receive, Upcoming
  <2>3. QED
    BY <2>1, <2>2
<1>3. CASE Extend
  <2>0. writer' = [writer EXCEPT !.latest = Head(chan)]
    BY <1>3 DEF Extend, Latest
  <2>1. writer'.latest = Head(chan) /\ writer'.pc # "recv"
    BY <1>1, <1>3, <2>0 DEF Extend, TypeOK
  <2>2. CASE Len(chan) = 1
    BY <1>1, <1>3, <2>1, <2>2 DEF Extend, Upcoming, TypeOK
  <2>3. CASE Len(chan) # 1
    <3>1. Tail(chan) # <<>> /\ Tail(chan)[Len(Tail(chan))] = chan[Len(chan)]
      BY <1>1, <1>3, <2>3, LastStays DEF Extend, TypeOK
    <3>2. QED
      BY <1>3, <3>1 DEF Extend, Upcoming
  <2>4. QED
    BY <2>2, <2>3
<1>4. CASE Timeout \/ Create \/ Complete
  <2>1. /\ writer.pc # "recv" /\ writer'.pc # "recv" /\ writer'.latest = writer.latest
        /\ UNCHANGED chan
    BY <1>1, <1>4 DEF Timeout, Create, Complete, TypeOK
  <2>2. QED
    BY <2>1 DEF Upcoming
<1>5. CASE Rename
  <2>1. /\ writer.pc = "rename" /\ writer'.pc = "recv" /\ disk'.file = disk.tmp
        /\ UNCHANGED chan
    BY <1>1, <1>5 DEF Rename, WriterIdle, TypeOK
  <2>2. QED
    BY <1>1, <2>1 DEF Upcoming, ScratchComplete
<1>6. CASE WriteFails
  <2>1. /\ writer.pc \in {"write", "writing", "rename"} /\ writer'.pc = "recv"
        /\ UNCHANGED <<chan, disk>>
    BY <1>6 DEF WriteFails, WriterIdle
  <2>2. disk'.file = writer.latest
    BY <2>1 DEF Refused
  <2>3. QED
    BY <2>1, <2>2 DEF Upcoming
<1>7. QED
  BY <1>2, <1>3, <1>4, <1>5, <1>6 DEF Writing

(* restore() takes over what the file holds, unless the boot scan has saved *)
(* something since the file was read.                                       *)
LEMMA RestoreTakesFile ==
  ASSUME Inv, BootFresh, Restore, NEW k \in Key, Behind(k)'
  PROVE  Arrived(k) \/ SavedAtBoot
<1>1. SUFFICES ASSUME k \in DOMAIN mem, ~SavedAtBoot PROVE FALSE
  BY DEF Arrived
<1>2. /\ phase = "scanned" /\ mem[k] = 0
      /\ mem'[k] = IF k \in DOMAIN loaded THEN loaded[k] ELSE mem[k]
      /\ UNCHANGED <<task, chan, writer, disk>>
  BY <1>1 DEF Restore, Restorable, BootFresh
<1>3. chan = <<>> /\ writer.pc = "recv" /\ loaded = Load
  BY <1>1, <1>2 DEF SavedAtBoot
<1>4. disk.file \in Settings \cup {None}
  BY DEF Inv, TypeOK, DiskInv, NeverTorn
<1>5. None # Torn /\ Torn \notin Settings /\ None \notin Settings
  BY NoneAssumption, TornIsNoSettings
<1>6. Value(disk.file, k) = mem'[k]
  <2>1. CASE disk.file = None
    <3>1. loaded = Default({})
      BY <1>3, <2>1 DEF Load, Readable, Stored
    <3>2. QED
      BY <1>2, <2>1, <3>1 DEF Value, Default
  <2>2. CASE disk.file \in Settings
    <3>1. loaded = disk.file /\ disk.file # None
      BY <1>3, <1>5, <2>2 DEF Load, Readable, Stored
    <3>2. QED
      BY <1>2, <3>1 DEF Value
  <2>3. QED
    BY <1>4, <2>1, <2>2
<1>7. Upcoming' = disk.file
  BY <1>2, <1>3 DEF Upcoming
<1>8. Value(Upcoming, k)' = mem'[k]
  BY <1>6, <1>7 DEF Value
<1>9. QED
  BY <1>8 DEF Behind, OnItsWay

LEMMA BehindByLoss ==
  ASSUME Inv, BootFresh, [Next]_vars, NEW k \in Key, Behind(k)'
  PROVE  Behind(k) \/ Losing(k)
<1>1. CASE \E t \in Task : Saving(t) \/ \E c \in Key : Change(t, c)
  BY <1>1, ChangeIsSeen, SnapshotHasIt, SendDelivers DEF Saving, Losing
<1>2. CASE \E d \in Device : Plug(d)
  BY <1>2, PlugArrives DEF Losing
<1>3. CASE Writing
  <2>1. SUFFICES ASSUME ~Refused, ~Behind(k) PROVE FALSE
    BY DEF Losing
  <2>2. Upcoming' = Upcoming
    BY <1>3, <2>1, WriterMovesOn
  <2>3. UNCHANGED <<phase, mem, task>>
    BY <1>3 DEF Writing, Receive, Extend, Timeout, Create, Complete, Rename, WriteFails
  <2>4. phase = "up" /\ k \in DOMAIN mem
    BY <2>3 DEF Behind
  <2>5. Value(Upcoming, k)' = Value(Upcoming, k)
    BY <2>2 DEF Value
  <2>6. QED
    BY <2>1, <2>3, <2>4, <2>5, StaysOnItsWay
<1>4. CASE Restore
  BY <1>4, RestoreTakesFile DEF Losing
<1>5. CASE Crash \/ Start \/ BootScan \/ BootSave
  <2>1. phase' # "up"
    BY <1>5 DEF Crash, Start, BootScan, BootSave
  <2>2. QED
    BY <2>1 DEF Behind
<1>6. CASE UNCHANGED vars
  BY <1>6 DEF vars, Behind, OnItsWay, Upcoming, Value
<1>7. QED
  BY <1>1, <1>2, <1>3, <1>4, <1>5, <1>6 DEF Next, Booting

-----------------------------------------------------------------------------
(* Theorems                                                                 *)

(* The variables keep their types: in particular, everything that is queued *)
(* for the writer are settings (`request_save()`), and the queue is bounded.*)
THEOREM TypeCorrect == Spec => []TypeOK
BY InvAlways, PTL DEF Inv

(* "Crashes never leave a torn file" (`persistence/database.rs`), whenever  *)
(* the daemon dies and whatever write fails.                                *)
THEOREM FileNeverTorn == Spec => []NeverTorn
<1>1. Inv => NeverTorn
  BY DEF Inv, DiskInv
<1>2. QED
  BY <1>1, InvAlways, PTL

(* "Latest settings win" (`persistence/database.rs`), for any number of      *)
(* commands that save at the same time, any size of the queue, rules at     *)
(* boot and devices that come and go: a setting in use misses the file only *)
(* by a full queue, a snapshot sent after a later one, a disk that refuses  *)
(* the last write, the arrival of its device, or a save of the boot scan.   *)
THEOREM OnlyLosses == Spec => OnlyLossesLeaveBehind
<1>1. ASSUME Inv, BootFresh, [Next]_vars
      PROVE  [\A k \in Key : Behind(k)' =>
                \/ Behind(k)
                \/ \E t \in Task : Dropped(t) \/ Overtaken(t, k)
                \/ Refused \/ Arrived(k) \/ SavedAtBoot]_vars
  BY <1>1, BehindByLoss DEF Losing
<1>2. QED
  BY <1>1, InvAlways, BootFreshAlways, PTL DEF Spec, OnlyLossesLeaveBehind
=============================================================================
