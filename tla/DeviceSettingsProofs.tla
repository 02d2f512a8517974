------------------------ MODULE DeviceSettingsProofs -------------------------
(* Proofs about DeviceSettings and EffectsChain: any devices that share any *)
(* cards, any range of their controls, any number of concurrent commands,   *)
(* and effects commands of any number.                                      *)
EXTENDS DeviceSettings, WellFoundedInduction, TLAPS

-----------------------------------------------------------------------------
(* Lemmas about percentages                                                 *)

LEMMA Monotone ==
  ASSUME NEW k \in Nat, NEW a \in Nat, NEW b \in Nat, a <= b
  PROVE  k * a <= k * b
OBVIOUS

LEMMA Quotient ==
  ASSUME NEW a \in Nat, NEW n \in Nat \ {0}
  PROVE  a \div n \in Nat /\ n * (a \div n) <= a
OBVIOUS

(* A part of k, at most 100 of 100, is at most k.                           *)
LEMMA PartOf ==
  ASSUME NEW k \in Nat, NEW a \in Nat, NEW n \in Nat \ {0}, a <= n
  PROVE  (k * a) \div n \in 0 .. k
<1> DEFINE q == (k * a) \div n
<1>1. k * a \in Nat /\ k * a <= k * n /\ k * n = n * k
  BY Monotone
<1>2. q \in Nat /\ n * q <= k * a
  BY <1>1, Quotient
<1> HIDE DEF q
<1>3. n * q <= n * k
  BY <1>1, <1>2
<1>4. ASSUME k < q PROVE FALSE
  <2>1. n * (k + 1) <= n * q
    BY <1>2, <1>4, Monotone
  <2>2. n * (k + 1) = n * k + n
    OBVIOUS
  <2>3. n * k \in Nat /\ n * q \in Nat
    BY <1>2
  <2>4. QED
    BY <1>3, <2>1, <2>2, <2>3
<1>5. QED
  BY <1>2, <1>4 DEF q

LEMMA RawType ==
  ASSUME NEW percent \in Percentage
  PROVE  PercentToRaw(percent) \in 0 .. Steps
BY VolumeAssumption, PartOf DEF PercentToRaw, Percentage

LEMMA PercentType ==
  ASSUME NEW raw \in 0 .. Steps
  PROVE  RawToPercent(raw) \in Percentage
<1>1. raw \in Nat /\ raw <= Steps /\ 100 \in Nat /\ Steps \in Nat \ {0}
  BY VolumeAssumption
<1>2. raw * 100 = 100 * raw
  BY <1>1
<1>3. (100 * raw) \div Steps \in 0 .. 100
  BY <1>1, PartOf
<1>4. QED
  BY <1>2, <1>3 DEF RawToPercent, Percentage

-----------------------------------------------------------------------------
(* Lemmas about records and reports                                         *)

LEMMA NewDeviceType == NewDevice \in Settings
BY ProfileAssumption DEF NewDevice, Settings, Percentage

LEMMA ReportType ==
  ASSUME TypeOK
  PROVE  ScanReport \in Report
<1>1. ASSUME NEW d \in Device PROVE Reported(d) \in Settings
  <2>1. hw[CardOf[d]] \in [raw : 0 .. Steps, muted : BOOLEAN]
    BY CardAssumption DEF TypeOK
  <2>2. RawToPercent(hw[CardOf[d]].raw) \in Percentage
    BY <2>1, PercentType
  <2>3. QED
    BY <2>1, <2>2, NewDeviceType DEF Reported, NewDevice, Settings
<1>2. QED
  BY <1>1 DEF ScanReport, Report

LEMMA AppliedType ==
  ASSUME TypeOK, NEW report \in Report, ApplyReport(report)
  PROVE  rec' \in Report /\ default' \in Device \cup {None}
<1>1. rec' \in Report
  BY DEF ApplyReport, Merged, Report, TypeOK
<1>2. default' \in Device \cup {None}
  BY DEF ApplyReport, TypeOK
<1>3. QED
  BY <1>1, <1>2

LEMMA ToldType ==
  ASSUME TypeOK, NEW p \in Profile
  PROVE  Told(p) \in Report
<1>1. rec \in Report /\ default \in Device \cup {None}
  BY DEF TypeOK
<1>2. CASE default # None /\ rec[default] # None
  <2>1. rec[default] \in Settings
    BY <1>1, <1>2 DEF Report
  <2>2. [rec[default] EXCEPT !.profile = p] \in Settings
    BY <2>1 DEF Settings
  <2>3. QED
    BY <1>1, <1>2, <2>2 DEF Told, Report
<1>3. QED
  BY <1>1, <1>2 DEF Told

(* What merging a report makes of a record that the report agrees with.     *)
LEMMA MergedIsReport ==
  ASSUME TypeOK, NEW report \in Report
  PROVE  Merged(report) = report
<1>1. ASSUME NEW d \in Device, rec[d] # None, report[d] # None, HardwareEqual(rec[d], report[d])
      PROVE  rec[d] = report[d]
  <2>1. rec[d] \in Settings /\ report[d] \in Settings
    BY <1>1 DEF TypeOK, Report
  <2>2. QED
    BY <1>1, <2>1 DEF HardwareEqual, Settings
<1>2. \A d \in Device : Merged(report)[d] = report[d]
  BY <1>1 DEF Merged
<1>3. Merged(report) = [d \in Device |-> Merged(report)[d]] /\ report = [d \in Device |-> report[d]]
  BY DEF Merged, Report
<1>4. QED
  BY <1>2, <1>3

-----------------------------------------------------------------------------
(* The invariant                                                            *)

LEMMA WorkType ==
  ASSUME TypeOK, NEW t \in Task, NEW work \in Work, Go(t, work)
  PROVE  task' \in [Task -> Work]
BY DEF TypeOK, Go

LEMMA WorkOf ==
  ASSUME NEW w \in Work
  PROVE  /\ w.todo \in {"push-volume", "record-volume"} => w.dev \in Device /\ w.volume \in Volume
         /\ w.todo \in {"push-mute", "record-mute"} => w.dev \in Device /\ w.muted \in BOOLEAN
         /\ w.todo = "emit" => w.view \in Microphone
         /\ w.todo = "push-volume" => [w EXCEPT !.todo = "record-volume"] \in Work
         /\ w.todo = "push-mute" => [w EXCEPT !.todo = "record-mute"] \in Work
BY DEF Work, Idle

LEMMA ScanOf ==
  ASSUME TypeOK, NEW r \in Scanner
  PROVE  scan[r].pc = "scanned" => scan[r].report \in Report
BY DEF TypeOK, Scan

LEMMA CountType ==
  ASSUME TypeOK, Count
  PROVE  changes' \in 0 .. MaxChange /\ changes' # changes
BY VolumeAssumption DEF TypeOK, Count

LEMMA InitInv == Init => TypeOK
<1> SUFFICES ASSUME Init
             PROVE  TypeOK
  OBVIOUS
<1>1. Steps \in Nat \ {0} /\ MaxChange \in Nat /\ "stereo" \in Profile
  BY VolumeAssumption, ProfileAssumption
<1>2. hw \in [Card -> [raw : 0 .. Steps, muted : BOOLEAN]]
  <2>1. {0, Steps} \subseteq 0 .. Steps /\ {FALSE} \subseteq BOOLEAN
    BY <1>1
  <2>2. [raw : {0, Steps}, muted : {FALSE}] \subseteq [raw : 0 .. Steps, muted : BOOLEAN]
    BY <2>1
  <2>3. QED
    BY <2>2 DEF Init
<1>3. rec \in Report /\ default \in Device \cup {None}
  BY DEF Init, Report
<1>4. scan \in [Scanner -> Scan] /\ task \in [Task -> Work]
  BY DEF Init, Scan, Quiet, Work
<1>5. mic \in Microphone /\ micView \in Microphone
  BY DEF Init, Microphone
<1>6. QED
  <2>1. plugged \subseteq Device /\ profile \in Profile /\ uevent \in BOOLEAN
    BY <1>1 DEF Init
  <2>2. boot \in {"scan", "restore", "up"}
    BY DEF Init
  <2>3. changes \in 0 .. MaxChange
    BY <1>1 DEF Init
  <2>4. QED
    BY <1>2, <1>3, <1>4, <1>5, <2>1, <2>2, <2>3 DEF TypeOK

LEMMA RestoreType ==
  ASSUME TypeOK, NEW saved \in Saved, NEW p \in Profile, Restore(saved, p)
  PROVE  TypeOK'
<1> DEFINE known == IF p = profile THEN rec ELSE Told(p)
           loud(c) == {d \in Device : /\ CardOf[d] = c /\ Writable(d, Controlled)
                                      /\ Restored(d, saved) /\ rec[d].volume # saved[d].volume}
           mute(c) == {d \in Device : /\ CardOf[d] = c /\ Writable(d, Switched)
                                      /\ Restored(d, saved) /\ rec[d].muted # saved[d].muted}
           raw(c, v) == IF loud(c) = {} THEN hw[c].raw ELSE PercentToRaw(saved[v[c]].volume)
           muted(c, m) == IF mute(c) = {} THEN hw[c].muted ELSE saved[m[c]].muted
<1>1. known \in Report
  BY ToldType DEF TypeOK
<1>2. \A d \in Device : saved[d] # None => saved[d].volume \in Percentage /\ saved[d].muted \in BOOLEAN
  BY VolumeAssumption DEF Saved
<1>3. rec' = [d \in Device |-> RestoredDevice(known[d], saved[d])]
  BY DEF Restore
<1>4. rec' \in Report
  <2> HIDE DEF known
  <2>1. ASSUME NEW d \in Device
        PROVE  RestoredDevice(known[d], saved[d]) \in Settings \cup {None}
    <3>1. known[d] \in Settings \cup {None}
      BY <1>1 DEF Report
    <3>2. QED
      BY <1>2, <3>1 DEF RestoredDevice, Settings
  <2>2. QED
    BY <1>3, <2>1 DEF Report
<1>5. hw' \in [Card -> [raw : 0 .. Steps, muted : BOOLEAN]]
  <2>1. PICK v \in [Card -> Device], m \in [Card -> Device] :
          /\ \A c \in Card : loud(c) # {} => v[c] \in loud(c)
          /\ \A c \in Card : mute(c) # {} => m[c] \in mute(c)
          /\ hw' = [c \in Card |-> [raw |-> raw(c, v), muted |-> muted(c, m)]]
    BY DEF Restore
  <2>2. \A c \in Card : hw[c] \in [raw : 0 .. Steps, muted : BOOLEAN]
    BY DEF TypeOK
  <2>3. ASSUME NEW c \in Card PROVE raw(c, v) \in 0 .. Steps
    <3>1. CASE loud(c) = {}
      BY <2>2, <3>1
    <3>2. CASE loud(c) # {}
      <4>1. v[c] \in Device /\ saved[v[c]] # None
        BY <2>1, <3>2 DEF Restored
      <4>2. QED
        BY <1>2, <3>2, <4>1, RawType
    <3>3. QED
      BY <3>1, <3>2
  <2>4. ASSUME NEW c \in Card PROVE muted(c, m) \in BOOLEAN
    <3>1. CASE mute(c) = {}
      BY <2>2, <3>1
    <3>2. CASE mute(c) # {}
      <4>1. m[c] \in Device /\ saved[m[c]] # None
        BY <2>1, <3>2 DEF Restored
      <4>2. QED
        BY <1>2, <3>2, <4>1
    <3>3. QED
      BY <3>1, <3>2
  <2> HIDE DEF raw, muted
  <2>5. QED
    BY <2>1, <2>3, <2>4
<1>6. QED
  BY <1>4, <1>5 DEF Restore, TypeOK

LEMMA NextInv == TypeOK /\ [Next]_vars => TypeOK'
<1> SUFFICES ASSUME TypeOK, [Next]_vars
             PROVE  TypeOK'
  OBVIOUS
<1>1. CASE BootScan
  <2>1. rec' \in Report /\ default' \in Device \cup {None}
    BY <1>1, ReportType, AppliedType DEF BootScan
  <2>2. QED
    BY <1>1, <2>1 DEF BootScan, TypeOK
<1>2. CASE \E saved \in Saved : \E p \in Profile : Restore(saved, p)
  BY <1>2, RestoreType
<1>3. CASE Burst \/ EndBurst
  <2>1. scan' \in [Scanner -> Scan]
    <3>1. [pc |-> "burst"] \in Scan /\ [pc |-> "due"] \in Scan
      BY DEF Scan
    <3>2. scan \in [Scanner -> Scan]
      BY DEF TypeOK
    <3>3. QED
      BY <1>3, <3>1, <3>2 DEF Burst, EndBurst
  <2>2. QED
    BY <1>3, <2>1 DEF Burst, EndBurst, TypeOK
<1>4. ASSUME NEW r \in Scanner, StartScan(r) PROVE TypeOK'
  <2>1. scan' \in [Scanner -> Scan]
    <3>1. [pc |-> "scanned", report |-> ScanReport] \in Scan
      BY ReportType DEF Scan
    <3>2. QED
      BY <1>4, <3>1 DEF StartScan, TypeOK
  <2>2. changes' \in 0 .. MaxChange
    BY <1>4, CountType DEF StartScan, TypeOK
  <2>3. QED
    BY <1>4, <2>1, <2>2 DEF StartScan, TypeOK
<1>5. ASSUME NEW r \in Scanner, ApplyScan(r) PROVE TypeOK'
  <2>1. rec' \in Report /\ default' \in Device \cup {None}
    BY <1>5, ScanOf, AppliedType DEF ApplyScan
  <2>2. scan' \in [Scanner -> Scan]
    BY <1>5 DEF ApplyScan, TypeOK, Scan, Quiet
  <2>3. QED
    BY <1>5, <2>1, <2>2 DEF ApplyScan, TypeOK
<1>6. ASSUME NEW t \in Task, Command(t) PROVE TypeOK'
  <2>1. CASE \E d \in Device, volume \in Volume : SetVolume(t, d, volume)
    <3>1. PICK d \in Device, volume \in Volume : SetVolume(t, d, volume)
      BY <2>1
    <3>2. [todo |-> "push-volume", dev |-> d, volume |-> volume] \in Work
      BY DEF Work
    <3>3. QED
      BY <3>1, <3>2, WorkType, CountType DEF SetVolume, TypeOK
  <2>2. CASE \E muted \in BOOLEAN : SetMasterMuted(t, muted)
    <3>1. PICK muted \in BOOLEAN : SetMasterMuted(t, muted)
      BY <2>2
    <3>2. [todo |-> "push-mute", dev |-> default, muted |-> muted] \in Work
      BY <3>1 DEF Work, SetMasterMuted, TypeOK
    <3>3. QED
      BY <3>1, <3>2, WorkType, CountType DEF SetMasterMuted, TypeOK
  <2>3. CASE \E p \in Profile : SetProfile(t, p)
    BY <2>3, ToldType, CountType DEF SetProfile, TypeOK
  <2>4. CASE \E f \in MicField, value \in {0, 1} : SetMicrophone(t, f, value)
    <3>1. PICK f \in MicField, value \in {0, 1} : SetMicrophone(t, f, value)
      BY <2>4
    <3>2. MicWith(f, value) \in Microphone /\ mic' \in Microphone
      BY <3>1 DEF MicWith, SetMicrophone, Microphone, TypeOK
    <3>3. [todo |-> "emit", view |-> MicWith(f, value)] \in Work
      BY <3>2 DEF Work
    <3>4. QED
      BY <3>1, <3>2, <3>3, WorkType, CountType DEF SetMicrophone, TypeOK
  <2>5. QED
    BY <1>6, <2>1, <2>2, <2>3, <2>4 DEF Command
<1>7. ASSUME NEW t \in Task, Proceed(t) PROVE TypeOK'
  <2>0. task[t] \in Work /\ Idle \in Work
    BY DEF TypeOK, Work
  <2>1. CASE Push(t)
    <3>1. hw \in [Card -> [raw : 0 .. Steps, muted : BOOLEAN]]
      BY DEF TypeOK
    <3>2. CASE task[t].todo = "push-volume"
      <4>1. task[t].dev \in Device /\ task[t].volume \in Percentage
        BY <2>0, <3>2, WorkOf, VolumeAssumption
      <4>2. PercentToRaw(task[t].volume) \in 0 .. Steps
        BY <4>1, RawType
      <4>3. hw' \in [Card -> [raw : 0 .. Steps, muted : BOOLEAN]]
        BY <2>1, <3>1, <3>2, <4>2 DEF Push
      <4>4. task' \in [Task -> Work]
        BY <2>0, <2>1, <3>2, WorkOf, WorkType DEF Push
      <4>5. QED
        BY <2>1, <4>3, <4>4 DEF Push, TypeOK
    <3>3. CASE task[t].todo = "push-mute"
      <4>1. task[t].dev \in Device /\ task[t].muted \in BOOLEAN
        BY <2>0, <3>3, WorkOf
      <4>2. hw' \in [Card -> [raw : 0 .. Steps, muted : BOOLEAN]]
        BY <2>1, <3>1, <3>3, <4>1 DEF Push
      <4>3. task' \in [Task -> Work]
        BY <2>0, <2>1, <3>3, WorkOf, WorkType DEF Push
      <4>4. QED
        BY <2>1, <4>2, <4>3 DEF Push, TypeOK
    <3>4. QED
      BY <2>1, <3>2, <3>3 DEF Push
  <2>2. CASE Record(t)
    <3>1. rec \in [Device -> Settings \cup {None}]
      BY DEF TypeOK, Report
    <3>2. task' \in [Task -> Work]
      BY <2>0, <2>2, WorkType DEF Record
    <3>3. rec' \in [Device -> Settings \cup {None}]
      <4>1. CASE task[t].todo = "record-volume"
        <5>1. task[t].dev \in Device /\ task[t].volume \in Percentage
          BY <2>0, <4>1, WorkOf, VolumeAssumption
        <5>2. rec[task[t].dev] # None =>
                [rec[task[t].dev] EXCEPT !.volume = task[t].volume] \in Settings
          BY <3>1, <5>1 DEF Settings
        <5>3. QED
          BY <2>2, <3>1, <4>1, <5>1, <5>2 DEF Record
      <4>2. CASE task[t].todo = "record-mute"
        <5>1. task[t].dev \in Device /\ task[t].muted \in BOOLEAN
          BY <2>0, <4>2, WorkOf
        <5>2. rec[task[t].dev] # None =>
                [rec[task[t].dev] EXCEPT !.muted = task[t].muted] \in Settings
          BY <3>1, <5>1 DEF Settings
        <5>3. QED
          BY <2>2, <3>1, <4>2, <5>1, <5>2 DEF Record
      <4>3. QED
        BY <2>2, <4>1, <4>2 DEF Record
    <3>4. QED
      BY <2>2, <3>2, <3>3 DEF Record, TypeOK, Report
  <2>3. CASE Emit(t)
    <3>1. micView' \in Microphone
      BY <2>0, <2>3, WorkOf DEF Emit
    <3>2. task' \in [Task -> Work]
      BY <2>0, <2>3, WorkType DEF Emit
    <3>3. QED
      BY <2>3, <3>1, <3>2 DEF Emit, TypeOK
  <2>4. QED
    BY <1>7, <2>1, <2>2, <2>3 DEF Proceed
<1>8. ASSUME NEW d \in Device, Plug(d) PROVE TypeOK'
  BY <1>8, CountType DEF Plug, TypeOK
<1>9. ASSUME NEW c \in Controlled, Turn(c) PROVE TypeOK'
  <2>1. hw' \in [Card -> [raw : 0 .. Steps, muted : BOOLEAN]]
    <3>1. PICK raw \in 0 .. Steps, muted \in BOOLEAN :
            hw' = [hw EXCEPT ![c] = [raw |-> raw, muted |-> muted]]
      BY <1>9 DEF Turn
    <3>2. [raw |-> raw, muted |-> muted] \in [raw : 0 .. Steps, muted : BOOLEAN]
      OBVIOUS
    <3>3. hw \in [Card -> [raw : 0 .. Steps, muted : BOOLEAN]]
      BY DEF TypeOK
    <3>4. QED
      BY <3>1, <3>2, <3>3
  <2>2. QED
    BY <1>9, <2>1, CountType DEF Turn, TypeOK
<1>10. CASE UNCHANGED vars
  BY <1>10 DEF vars, TypeOK
<1>11. QED
  BY <1>1, <1>2, <1>3, <1>4, <1>5, <1>6, <1>7, <1>8, <1>9, <1>10 DEF Next, Scans

(* Every variable keeps its type: in particular every percentage the        *)
(* daemon asks for is a value of the control (`percent_to_raw()`), and      *)
(* every value of a control is reported as a percentage.                    *)
THEOREM TypeCorrect == Spec => []TypeOK
BY InitInv, NextInv, PTL DEF Spec

-----------------------------------------------------------------------------
(* The registry settles                                                     *)

LEMMA SameScanReport ==
  ASSUME UNCHANGED <<plugged, hw>>
  PROVE  ScanReport' = ScanReport
BY DEF ScanReport, Reported

LEMMA AppliedCurrent ==
  ASSUME TypeOK, ReportsCurrent, NEW r \in Scanner, ApplyScan(r)
  PROVE  (rec = ScanReport /\ ReportsCurrent)'
<1>1. scan[r].report = ScanReport
  BY DEF ApplyScan, ReportsCurrent
<1>2. rec' = ScanReport
  BY <1>1, ReportType, MergedIsReport DEF ApplyScan, ApplyReport
<1>3. ScanReport' = ScanReport
  BY SameScanReport DEF ApplyScan
<1>4. scan' = [scan EXCEPT ![r] = Quiet] /\ scan \in [Scanner -> Scan]
  BY DEF ApplyScan, TypeOK
<1>5. ReportsCurrent'
  BY <1>3, <1>4 DEF ReportsCurrent, Quiet
<1>6. QED
  BY <1>2, <1>3, <1>5

LEMMA SettledStep ==
  ASSUME TypeOK, Next, boot = "up", changes' = changes, rec = ScanReport, ReportsCurrent,
         \A t \in Task : ~HalfDone(t)
  PROVE  (rec = ScanReport /\ ReportsCurrent)'
<1>0. scan \in [Scanner -> Scan] /\ ~Count
  BY CountType DEF TypeOK
<1>1. CASE Burst \/ EndBurst
  <2>1. UNCHANGED <<plugged, hw, rec>>
    BY <1>1 DEF Burst, EndBurst
  <2>2. \A r \in Scanner : scan'[r].pc = "scanned" => scan'[r] = scan[r]
    BY <1>0, <1>1 DEF Burst, EndBurst
  <2>3. QED
    BY <2>1, <2>2, SameScanReport DEF ReportsCurrent
<1>2. ASSUME NEW r \in Scanner, StartScan(r)
      PROVE  (rec = ScanReport /\ ReportsCurrent)'
  <2>1. UNCHANGED <<plugged, hw, rec>>
    BY <1>2 DEF StartScan
  <2>2. scan' = [scan EXCEPT ![r] = [pc |-> "scanned", report |-> ScanReport]]
    BY <1>2 DEF StartScan
  <2>3. QED
    BY <1>0, <2>1, <2>2, SameScanReport DEF ReportsCurrent
<1>3. ASSUME NEW r \in Scanner, ApplyScan(r)
      PROVE  (rec = ScanReport /\ ReportsCurrent)'
  BY <1>3, AppliedCurrent
<1>4. ASSUME NEW t \in Task, Emit(t)
      PROVE  (rec = ScanReport /\ ReportsCurrent)'
  <2>1. UNCHANGED <<plugged, hw, rec, scan>>
    BY <1>4 DEF Emit
  <2>2. QED
    BY <2>1, SameScanReport DEF ReportsCurrent
<1>5. ASSUME NEW t \in Task PROVE ~Push(t) /\ ~Record(t)
  BY DEF HalfDone, Push, Record
<1>6. ASSUME NEW t \in Task PROVE ~Command(t)
  BY <1>0 DEF Command, SetVolume, SetMasterMuted, SetProfile, SetMicrophone
<1>7. ~BootScan /\ \A saved \in Saved, p \in Profile : ~Restore(saved, p)
  BY DEF BootScan, Restore
<1>8. /\ \A d \in Device : ~Plug(d)
      /\ \A c \in Controlled : ~Turn(c)
  BY <1>0 DEF Plug, Turn
<1>9. QED
  BY <1>1, <1>2, <1>3, <1>4, <1>5, <1>6, <1>7, <1>8 DEF Next, Scans, Proceed

(* "`scan` is the source of truth", as far as it is a matter of safety: a   *)
(* report that is what the hardware says corrects the registry, and while   *)
(* nobody changes anything neither the other scanners nor the rest of a     *)
(* command spoil it again.                                                  *)
THEOREM CurrentScansSettle == Spec => CurrentScanSettles
<1> DEFINE Premise == /\ boot = "up" /\ changes' = changes /\ ReportsCurrent
                      /\ \A t \in Task : ~HalfDone(t)
                      /\ rec = ScanReport \/ \E r \in Scanner : ApplyScan(r)
           Settled == (rec = ScanReport /\ ReportsCurrent)'
<1>1. ASSUME TypeOK, [Next]_vars, ~UNCHANGED vars, Premise PROVE Settled
  BY <1>1, AppliedCurrent, SettledStep
<1>2. TypeOK /\ [Next]_vars => [Premise => Settled]_vars
  BY <1>1
<1>3. QED
  BY <1>2, TypeCorrect, PTL DEF Spec, CurrentScanSettles

-----------------------------------------------------------------------------
(* What a subscriber knows of the microphone                                *)

Misled == StaleView' => StaleView \/ OvertakenEvent

LEMMA MicStep == TypeOK /\ [Next]_vars => Misled
<1> SUFFICES ASSUME TypeOK, [Next]_vars
             PROVE  Misled
  OBVIOUS
<1>0. task \in [Task -> Work]
  BY DEF TypeOK
<1>1. CASE UNCHANGED <<task, mic, micView>>
  BY <1>1 DEF Misled, StaleView, Brings
<1>2. ASSUME NEW t \in Task, UNCHANGED <<mic, micView>>, task[t].todo # "emit",
             \E w \in Work : w.todo # "emit" /\ Go(t, w)
      PROVE  Misled
  <2>1. PICK w \in Work : w.todo # "emit" /\ task' = [task EXCEPT ![t] = w]
    BY <1>2 DEF Go
  <2>2. \A u \in Task : Brings(u) => Brings(u)'
    BY <1>0, <1>2, <2>1 DEF Brings
  <2>3. QED
    BY <1>2, <2>2 DEF Misled, StaleView
<1>3. ASSUME NEW t \in Task, Command(t) PROVE Misled
  <2>1. CASE \E d \in Device, volume \in Volume : SetVolume(t, d, volume)
    <3>1. PICK d \in Device, volume \in Volume : SetVolume(t, d, volume)
      BY <2>1
    <3> DEFINE w == [todo |-> "push-volume", dev |-> d, volume |-> volume]
    <3>2. w \in Work /\ w.todo # "emit" /\ Go(t, w)
      BY <3>1 DEF Work, SetVolume
    <3>3. UNCHANGED <<mic, micView>> /\ task[t].todo # "emit"
      BY <3>1 DEF SetVolume, Free, Idle
    <3> HIDE DEF w
    <3>4. QED
      BY <1>2, <3>2, <3>3
  <2>2. CASE \E muted \in BOOLEAN : SetMasterMuted(t, muted)
    <3>1. PICK muted \in BOOLEAN : SetMasterMuted(t, muted)
      BY <2>2
    <3> DEFINE w == [todo |-> "push-mute", dev |-> default, muted |-> muted]
    <3>2. w \in Work /\ w.todo # "emit" /\ Go(t, w)
      BY <3>1 DEF Work, SetMasterMuted, TypeOK
    <3>3. UNCHANGED <<mic, micView>> /\ task[t].todo # "emit"
      BY <3>1 DEF SetMasterMuted, Free, Idle
    <3> HIDE DEF w
    <3>4. QED
      BY <1>2, <3>2, <3>3
  <2>3. CASE \E p \in Profile : SetProfile(t, p)
    BY <1>1, <2>3 DEF SetProfile
  <2>4. CASE \E f \in MicField, value \in {0, 1} : SetMicrophone(t, f, value)
    <3>1. PICK f \in MicField, value \in {0, 1} : SetMicrophone(t, f, value)
      BY <2>4
    <3>2. mic' = MicWith(f, value)
      BY <3>1 DEF SetMicrophone, MicWith
    <3>3. task'[t] = [todo |-> "emit", view |-> MicWith(f, value)]
      BY <1>0, <3>1 DEF SetMicrophone, Go
    <3>4. Brings(t)'
      BY <3>2, <3>3 DEF Brings
    <3>5. QED
      BY <3>4 DEF Misled, StaleView
  <2>5. QED
    BY <1>3, <2>1, <2>2, <2>3, <2>4 DEF Command
<1>4. ASSUME NEW t \in Task, Push(t) \/ Record(t) PROVE Misled
  <2>1. task[t] \in Work /\ Idle \in Work /\ Idle.todo # "emit"
    BY <1>0 DEF Work, Idle
  <2>2. UNCHANGED <<mic, micView>> /\ task[t].todo # "emit"
    BY <1>4 DEF Push, Record
  <2>3. \E w \in Work : w.todo # "emit" /\ Go(t, w)
    <3>1. CASE Push(t)
      <4>1. CASE task[t].todo = "push-volume"
        <5> DEFINE w == [task[t] EXCEPT !.todo = "record-volume"]
        <5>1. w \in Work
          BY <2>1, <4>1, WorkOf
        <5>2. w.todo = "record-volume"
          BY <2>1, <4>1 DEF Work, Idle
        <5>3. Go(t, w)
          BY <3>1, <4>1 DEF Push
        <5> HIDE DEF w
        <5>4. QED
          BY <5>1, <5>2, <5>3
      <4>2. CASE task[t].todo = "push-mute"
        <5> DEFINE w == [task[t] EXCEPT !.todo = "record-mute"]
        <5>1. w \in Work
          BY <2>1, <4>2, WorkOf
        <5>2. w.todo = "record-mute"
          BY <2>1, <4>2 DEF Work, Idle
        <5>3. Go(t, w)
          BY <3>1, <4>2 DEF Push
        <5> HIDE DEF w
        <5>4. QED
          BY <5>1, <5>2, <5>3
      <4>3. QED
        BY <3>1, <4>1, <4>2 DEF Push
    <3>2. CASE Record(t)
      BY <2>1, <3>2 DEF Record
    <3>3. QED
      BY <1>4, <3>1, <3>2
  <2>4. QED
    BY <1>2, <2>2, <2>3
<1>5. ASSUME NEW t \in Task, Emit(t) PROVE Misled
  <2>1. CASE task[t].view = mic
    <3>1. micView' = mic /\ mic' = mic
      BY <1>5, <2>1 DEF Emit
    <3>2. QED
      BY <3>1 DEF Misled, StaleView
  <2>2. CASE task[t].view # mic
    BY <1>5, <2>2 DEF Misled, OvertakenEvent
  <2>3. QED
    BY <2>1, <2>2
<1>6. CASE BootScan \/ (\E saved \in Saved : \E p \in Profile : Restore(saved, p)) \/ Scans
  BY <1>1, <1>6 DEF BootScan, Restore, Scans, Burst, EndBurst, StartScan, ApplyScan
<1>7. CASE \/ \E d \in Device : Plug(d)
           \/ \E c \in Controlled : Turn(c)
  BY <1>1, <1>7 DEF Plug, Turn
<1>8. CASE UNCHANGED vars
  BY <1>1, <1>8 DEF vars
<1>9. QED
  BY <1>3, <1>4, <1>5, <1>6, <1>7, <1>8 DEF Next, Proceed

(* However many commands run at a time, a client that listens for           *)
(* MicrophoneChanged is misled only by the event of an overtaken command.   *)
THEOREM ViewFollowsEvents == Spec => OnlyOvertakenEventsMislead
<1>1. TypeOK /\ [Next]_vars => [StaleView' => StaleView \/ OvertakenEvent]_vars
  BY MicStep DEF Misled
<1>2. QED
  BY <1>1, TypeCorrect, PTL DEF Spec, OnlyOvertakenEventsMislead

-----------------------------------------------------------------------------
(* Effects after any number of commands                                     *)

LEMMA Least ==
  ASSUME NEW T \in SUBSET Nat, T # {}
  PROVE  \E m \in T : \A k \in T : m <= k
<1>1. PICK m \in T : \A k \in T : ~(<<k, m>> \in OpToRel(<, Nat))
  BY NatLessThanWellFounded, WFMin, Zenon
<1>2. \A k \in T : ~(k < m)
  BY <1>1 DEF OpToRel
<1>3. QED
  BY <1>2

(* Induction, for a set of numbers: otherwise there is a least number that  *)
(* is not of it.                                                            *)
LEMMA SetInduction ==
  ASSUME NEW S, 0 \in S, \A n \in Nat : n \in S => n + 1 \in S
  PROVE  \A n \in Nat : n \in S
<1> SUFFICES ASSUME NEW x \in Nat, x \notin S
             PROVE  FALSE
  OBVIOUS
<1> DEFINE T == {n \in Nat : n \notin S}
<1>1. PICK m \in T : \A k \in T : m <= k
  <2>1. T \in SUBSET Nat /\ T # {}
    OBVIOUS
  <2> HIDE DEF T
  <2>2. QED
    BY <2>1, Least
<1>2. m # 0 /\ m - 1 \in Nat
  OBVIOUS
<1>3. m - 1 \in S
  BY <1>1, <1>2
<1>4. QED
  BY <1>2, <1>3

(* The chain after each of n commands.                                      *)
Run(f, commands, n) ==
  f = [k \in 0 .. n |-> IF k = 0 THEN New ELSE Obey(f[k - 1], commands[k])]

LEMMA RunExists ==
  ASSUME NEW commands
  PROVE  \A n \in Nat : \E f : Run(f, commands, n)
<1> DEFINE S == {n \in Nat : \E f : Run(f, commands, n)}
<1>1. 0 \in S
  <2> DEFINE f == [k \in 0 .. 0 |-> New]
  <2>1. Run(f, commands, 0)
    BY DEF Run
  <2>2. QED
    BY <2>1
<1>2. ASSUME NEW n \in Nat, n \in S PROVE n + 1 \in S
  <2>1. PICK f : Run(f, commands, n)
    BY <1>2
  <2> DEFINE Value(k) == IF k = n + 1 THEN Obey(f[n], commands[n + 1]) ELSE f[k]
             g == [k \in 0 .. n + 1 |-> Value(k)]
  <2>2. ASSUME NEW k \in 0 .. n + 1
        PROVE  g[k] = IF k = 0 THEN New ELSE Obey(g[k - 1], commands[k])
    <3>1. g[k] = Value(k) /\ (k # 0 => g[k - 1] = f[k - 1])
      OBVIOUS
    <3> HIDE DEF g
    <3>2. CASE k = n + 1
      BY <3>1, <3>2
    <3>3. CASE k # n + 1
      <4>1. k \in 0 .. n
        BY <3>3
      <4>2. f[k] = IF k = 0 THEN New ELSE Obey(f[k - 1], commands[k])
        BY <2>1, <4>1 DEF Run
      <4>3. QED
        BY <3>1, <3>3, <4>2
    <3>4. QED
      BY <3>2, <3>3
  <2>3. Run(g, commands, n + 1)
    <3>1. g = [k \in 0 .. n + 1 |-> g[k]]
      OBVIOUS
    <3> HIDE DEF g
    <3>2. QED
      BY <2>2, <3>1 DEF Run
  <2>4. QED
    BY <2>3
<1>3. \A n \in Nat : n \in S
  <2> HIDE DEF S
  <2>1. QED
    BY <1>1, <1>2, SetInduction
<1>4. QED
  BY <1>3

LEMMA ObeyedIsRun ==
  ASSUME NEW commands, Len(commands) \in Nat
  PROVE  \E f : Run(f, commands, Len(commands)) /\ Obeyed(commands) = f[Len(commands)]
<1> DEFINE g == CHOOSE f : Run(f, commands, Len(commands))
<1>1. Run(g, commands, Len(commands))
  <2>1. \E f : Run(f, commands, Len(commands))
    BY RunExists
  <2>2. QED
    BY <2>1
<1>2. Obeyed(commands) = g[Len(commands)]
  BY DEF Obeyed, Run
<1>3. QED
  BY <1>1, <1>2

(* A chain as commands leave it: under a named preset it is tuned as that   *)
(* preset is.                                                               *)
Curve == Named \cup {"zero", "drawn"}
Chain == [enabled : BOOLEAN, preset : Preset, bands : Curve, compressor : Named \cup {"off"},
          width : {1}]
Tuned(chain) ==
  /\ chain \in Chain
  /\ chain.preset \in Named =>
       chain.bands = Bands(chain.preset) /\ chain.compressor = Compressor(chain.preset)

LEMMA PresetType ==
  ASSUME NEW preset \in Preset
  PROVE  /\ Bands(preset) \in Curve
         /\ Compressor(preset) \in Named \cup {"off"}
         /\ preset \notin Named => preset = "custom"
         /\ Compressor("custom") = "off"
BY DEF Bands, Compressor, Preset, Named, Curve

(* What a restart makes of a chain.                                         *)
LEMMA RestoredChain ==
  ASSUME NEW chain, Tuned(chain)
  PROVE  /\ RestoreEffects(Snapshot(chain))
              = IF EditedPreset(chain) THEN [chain EXCEPT !.compressor = "off"] ELSE chain
         /\ Snapshot(RestoreEffects(Snapshot(chain))) = Snapshot(chain)
         /\ Tuned(RestoreEffects(Snapshot(chain)))
<1> DEFINE again == RestoreEffects(Snapshot(chain))
<1>1. chain \in Chain
  BY DEF Tuned
<1>2. CASE chain.preset \in Named
  <2>1. again = chain
    BY <1>1, <1>2
       DEF Tuned, Chain, RestoreEffects, Snapshot, IsNamed, ApplyPreset, New
  <2>2. ~EditedPreset(chain)
    BY <1>2 DEF EditedPreset, Named
  <2>3. QED
    BY <2>1, <2>2
<1>3. CASE chain.preset \notin Named
  <2>1. chain.preset = "custom"
    BY <1>1, <1>3, PresetType DEF Chain
  <2>2. again = [chain EXCEPT !.compressor = "off"]
    <3>1. again = [ enabled |-> chain.enabled, preset |-> "custom", bands |-> chain.bands,
                    compressor |-> "off", width |-> chain.width ]
      <4> DEFINE saved == Snapshot(chain)
                 on == [New EXCEPT !.enabled = saved.enabled]
                 tuned == SetBands(on, saved.bands)
      <4>1. /\ saved.enabled = chain.enabled /\ saved.preset = chain.preset
            /\ saved.bands = chain.bands /\ saved.width = chain.width
        BY DEF Snapshot
      <4>2. again = [tuned EXCEPT !.width = saved.width]
        BY <1>3, <4>1 DEF RestoreEffects, IsNamed
      <4> HIDE DEF saved, again
      <4>3. tuned = [ enabled |-> chain.enabled, preset |-> "custom", bands |-> chain.bands,
                      compressor |-> "off", width |-> 1 ]
        <5>1. on = [ enabled |-> chain.enabled, preset |-> "flat", bands |-> "zero",
                     compressor |-> "off", width |-> 1 ]
          BY <4>1 DEF New
        <5> HIDE DEF on
        <5>2. tuned = [on EXCEPT !.preset = "custom", !.bands = chain.bands]
          BY <4>1 DEF SetBands
        <5> HIDE DEF tuned
        <5>3. QED
          BY <5>1, <5>2
      <4> HIDE DEF tuned
      <4>4. QED
        BY <4>1, <4>2, <4>3
    <3> HIDE DEF again
    <3>2. QED
      BY <1>1, <2>1, <3>1 DEF Chain
  <2>3. ~EditedPreset(chain) => again = chain
    BY <1>1, <2>1, <2>2 DEF EditedPreset, Chain
  <2>4. again \in Chain /\ again.preset = chain.preset
    BY <1>1, <2>2 DEF Chain
  <2>5. Snapshot(again) = Snapshot(chain)
    BY <1>1, <2>2 DEF Chain, Snapshot
  <2>6. QED
    BY <1>3, <2>2, <2>3, <2>4, <2>5 DEF Tuned
<1>4. QED
  BY <1>2, <1>3

LEMMA ObeyTuned ==
  ASSUME NEW chain, Tuned(chain), NEW c \in ChainCommand
  PROVE  Tuned(Obey(chain, c))
<1>1. chain \in Chain
  BY DEF Tuned
<1>2. CASE c.do = "enabled"
  <2>1. Obey(chain, c) = [chain EXCEPT !.enabled = c.to = "on"]
    BY <1>2 DEF Obey
  <2>2. QED
    BY <1>1, <2>1 DEF Tuned, Chain
<1>3. CASE c.do = "preset"
  <2>1. c.to \in Preset
    BY <1>3 DEF ChainCommand
  <2>2. Obey(chain, c) = ApplyPreset(chain, c.to)
    BY <1>3 DEF Obey
  <2>3. QED
    BY <1>1, <2>1, <2>2, PresetType DEF Tuned, Chain, ApplyPreset
<1>4. CASE c.do = "bands"
  <2>1. c.to \in Curve
    BY <1>4 DEF ChainCommand, Curve
  <2>2. Obey(chain, c) = SetBands(chain, c.to)
    BY <1>4 DEF Obey
  <2>3. QED
    BY <1>1, <2>1, <2>2 DEF Tuned, Chain, SetBands, Preset, Named
<1>5. CASE c.do = "restart"
  <2>1. Obey(chain, c) = RestoreEffects(Snapshot(chain))
    BY <1>5 DEF Obey
  <2>2. QED
    BY <2>1, RestoredChain
<1>6. QED
  BY <1>2, <1>3, <1>4, <1>5 DEF ChainCommand

LEMMA ObeyedTuned ==
  ASSUME NEW commands \in Seq(ChainCommand)
  PROVE  Tuned(Obeyed(commands))
<1> DEFINE N == Len(commands)
<1>0. N \in Nat
  OBVIOUS
<1>1. PICK f : Run(f, commands, N) /\ Obeyed(commands) = f[N]
  BY <1>0, ObeyedIsRun
<1> DEFINE S == {n \in Nat : n <= N => Tuned(f[n])}
<1>2. 0 \in S
  <2>1. f[0] = New
    BY <1>0, <1>1 DEF Run
  <2>2. Tuned(New)
    BY DEF Tuned, Chain, New, Preset, Named, Curve, Bands, Compressor
  <2>3. QED
    BY <2>1, <2>2
<1>3. ASSUME NEW n \in Nat, n \in S PROVE n + 1 \in S
  <2> SUFFICES ASSUME n + 1 <= N
               PROVE  Tuned(f[n + 1])
    OBVIOUS
  <2>1. Tuned(f[n]) /\ commands[n + 1] \in ChainCommand
    BY <1>0, <1>3
  <2>2. f[n + 1] = Obey(f[n], commands[n + 1])
    <3>1. n + 1 \in 0 .. N /\ n + 1 # 0 /\ (n + 1) - 1 = n
      BY <1>0
    <3>2. QED
      BY <1>1, <3>1 DEF Run
  <2>3. QED
    BY <2>1, <2>2, ObeyTuned
<1>4. \A n \in Nat : n \in S
  <2> HIDE DEF S
  <2>1. QED
    BY <1>2, <1>3, SetInduction
<1>5. QED
  BY <1>0, <1>1, <1>4

(* restore_effects() gives a chain back as `get_effects()` reports it, and  *)
(* as it is heard but for the compressor under edited bands, after any      *)
(* number of commands and earlier restarts.                                 *)
THEOREM ChainsRestored ==
  ASSUME NEW commands \in Seq(ChainCommand)
  PROVE  LET chain == Obeyed(commands)
             again == RestoreEffects(Snapshot(chain))
         IN /\ Snapshot(again) = Snapshot(chain)
            /\ again = IF EditedPreset(chain) THEN [chain EXCEPT !.compressor = "off"] ELSE chain
BY ObeyedTuned, RestoredChain

(* The commands that the run looks at are of this kind.                     *)
THEOREM EffectsAlwaysRestored == Spec => []EffectsRestored
<1>1. \A n \in 0 .. 3 : [1 .. n -> ChainCommand] \subseteq Seq(ChainCommand)
  OBVIOUS
<1>2. EveryChainRestored
  BY <1>1, ChainsRestored DEF EveryChainRestored
<1>3. EffectsRestored
  BY <1>2 DEF EffectsRestored
<1>4. QED
  BY <1>3, PTL
=============================================================================
