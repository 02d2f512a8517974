------------------------- MODULE AudioManagerProofs -------------------------
(* Proofs about AudioManager, for every set of devices, tasks and rules.    *)
EXTENDS AudioManager, SequenceTheorems, WellFoundedInduction, TLAPS

LEMMA HeadTail ==
  ASSUME NEW S, NEW q \in Seq(S), q # <<>>
  PROVE  /\ Head(q) \in S
         /\ Tail(q) \in Seq(S)
         /\ \A x \in S : [q EXCEPT ![1] = x] \in Seq(S)
OBVIOUS

LEMMA FirstType ==
  ASSUME NEW S \in SUBSET Device, NEW rank, IsRank(rank)
  PROVE  /\ S = {} => First(S, rank) = None
         /\ S # {} => First(S, rank) \in S
BY DEF First, IsRank

LEMMA PickType ==
  ASSUME NEW reg \in [Device -> Direction \cup {"gone"}]
  PROVE  /\ PickOutput(reg) # None => CanPlay(reg, PickOutput(reg))
         /\ PickOutput(reg) = None => \A d \in Device : ~CanPlay(reg, d)
         /\ PickInput(reg) # None => CanRecord(reg, PickInput(reg))
         /\ PickInput(reg) = None => \A d \in Device : ~CanRecord(reg, d)
BY FirstType, RankAssumption, DeviceAssumption DEF PickOutput, PickInput, CanPlay, CanRecord

-----------------------------------------------------------------------------
(* Type correctness                                                         *)

LEMMA TypeInit == Init => TypeOK
BY MaxIdAssumption DEF Init, TypeOK, NoWork, TaskState, Ids

LEMMA PointedType ==
  ASSUME streams \in [Ids -> StreamRecord \cup {None}],
         NEW S \in SUBSET Ids, NEW d \in Target, \A s \in S : Exists(s)
  PROVE  Pointed(S, d) \in [Ids -> StreamRecord \cup {None}]
<1>1. ASSUME NEW s \in S PROVE [streams[s] EXCEPT !.device = d] \in StreamRecord
  <2>1. streams[s] \in StreamRecord
    BY DEF Exists
  <2>2. QED
    BY <2>1 DEF StreamRecord
<1>2. QED
  BY <1>1 DEF Pointed

(* What the updates of `task` return.                                       *)
LEMMA TaskType ==
  ASSUME task \in [Task -> TaskState], NEW t \in Task
  PROVE  /\ \A acts \in Seq(Action) : [task EXCEPT ![t].acts = acts] \in [Task -> TaskState]
         /\ \A acts \in Seq(Action), writes \in SUBSET (Ids \X Target) :
              [task EXCEPT ![t].acts = acts, ![t].writes = writes] \in [Task -> TaskState]
         /\ \A d : [task EXCEPT ![t].gone = @ \ {d}] \in [Task -> TaskState]
         /\ \A d : \A writes \in SUBSET (Ids \X Target) :
              [task EXCEPT ![t].gone = @ \ {d}, ![t].writes = writes] \in [Task -> TaskState]
         /\ \A d : \A acts \in Seq(Action) :
              /\ [task EXCEPT ![t].added = @ \ {d}, ![t].acts = acts] \in [Task -> TaskState]
              /\ [task EXCEPT ![t].removed = @ \ {d}, ![t].acts = acts] \in [Task -> TaskState]
         /\ \A w : [task EXCEPT ![t].writes = @ \ {w}] \in [Task -> TaskState]
<1>1. ASSUME NEW acts \in Seq(Action) PROVE [task EXCEPT ![t].acts = acts] \in [Task -> TaskState]
  BY DEF TaskState
<1>2. ASSUME NEW acts \in Seq(Action), NEW writes \in SUBSET (Ids \X Target)
      PROVE  [task EXCEPT ![t].acts = acts, ![t].writes = writes] \in [Task -> TaskState]
  BY DEF TaskState
<1>3. ASSUME NEW d PROVE [task EXCEPT ![t].gone = @ \ {d}] \in [Task -> TaskState]
  BY DEF TaskState
<1>4. ASSUME NEW d, NEW writes \in SUBSET (Ids \X Target)
      PROVE  [task EXCEPT ![t].gone = @ \ {d}, ![t].writes = writes] \in [Task -> TaskState]
  BY DEF TaskState
<1>5. ASSUME NEW d, NEW acts \in Seq(Action)
      PROVE  [task EXCEPT ![t].added = @ \ {d}, ![t].acts = acts] \in [Task -> TaskState]
  BY DEF TaskState
<1>6. ASSUME NEW d, NEW acts \in Seq(Action)
      PROVE  [task EXCEPT ![t].removed = @ \ {d}, ![t].acts = acts] \in [Task -> TaskState]
  BY DEF TaskState
<1>7. ASSUME NEW w PROVE [task EXCEPT ![t].writes = @ \ {w}] \in [Task -> TaskState]
  BY DEF TaskState
<1>8. QED
  BY <1>1, <1>2, <1>3, <1>4, <1>5, <1>6, <1>7

LEMMA RulesType ==
  ASSUME NEW trigger \in Trigger, NEW x \in Target \cup {None}, NEW acts \in Rules[trigger][x]
  PROVE  /\ acts \in Seq(Action)
         /\ \A s \in Ids : [i \in DOMAIN acts |-> [acts[i] EXCEPT !.stream = s]] \in Seq(Action)
<1>1. acts \in Seq(RuleAction)
  BY RulesAssumption
<1>2. RuleAction \subseteq Action
  BY DEF Action
<1>3. ASSUME NEW s \in Ids, NEW r \in RuleAction PROVE [r EXCEPT !.stream = s] \in Action
  <2>1. [r EXCEPT !.stream = s] \in RuleAction
    BY DEF RuleAction
  <2>2. QED
    BY <1>2, <2>1
<1>4. QED
  BY <1>1, <1>2, <1>3

LEMMA TypeTaskStep ==
  ASSUME TypeOK, NEW t \in Task, TaskStep(t)
  PROVE  TypeOK'
<1>0. /\ task \in [Task -> TaskState]
      /\ streams \in [Ids -> StreamRecord \cup {None}]
      /\ defaultOut \in Device \cup {None}
      /\ previousOut \in Device \cup {None}
      /\ previousIn \in Device \cup {None}
  BY DEF TypeOK
<1>1. /\ task[t].acts \in Seq(Action)
      /\ task[t].acts # <<>> => Current(t) \in Action /\ Tail(task[t].acts) \in Seq(Action)
  BY <1>0, HeadTail DEF TaskState, Current
<1>2. ASSUME task[t].acts # <<>>, NEW a \in Action
      PROVE  [task[t].acts EXCEPT ![1] = a] \in Seq(Action)
  BY <1>1, <1>2, HeadTail
<1>3. Done(t) /\ task[t].acts # <<>> => task' \in [Task -> TaskState]
  <2>1. Done(t) => task' = [task EXCEPT ![t].acts = Tail(task[t].acts)]
    BY DEF Done
  <2>2. \A acts \in Seq(Action) : [task EXCEPT ![t].acts = acts] \in [Task -> TaskState]
    BY <1>0, TaskType
  <2>3. QED
    BY <1>1, <2>1, <2>2
<1>4. ASSUME NEW a \in Action
      PROVE  Instead(t, a) /\ task[t].acts # <<>> => task' \in [Task -> TaskState]
  <2>1. Instead(t, a) => task' = [task EXCEPT ![t].acts = [task[t].acts EXCEPT ![1] = a]]
    BY DEF Instead
  <2>2. \A acts \in Seq(Action) : [task EXCEPT ![t].acts = acts] \in [Task -> TaskState]
    BY <1>0, TaskType
  <2>3. QED
    BY <1>2, <2>1, <2>2
<1>5. CASE SwitchOutput(t)
  <2>1. task[t].acts # <<>> /\ Current(t) \in Action
    BY <1>1, <1>5 DEF SwitchOutput, Running, Acting
  <2>2. CASE CanPlay(devices, Current(t).dev) /\ defaultOut # Current(t).dev
    <3> DEFINE d == Current(t).dev
               S == FollowersAwayFrom(d)
               acts == IF Current(t).remember
                         THEN [task[t].acts EXCEPT ![1] = Act("note", defaultOut, 0)]
                         ELSE Tail(task[t].acts)
    <3>1. d \in Device /\ d \in Target
      BY <2>2 DEF CanPlay, Target
    <3>2. S \in SUBSET Ids /\ \A s \in S : Exists(s)
      BY DEF FollowersAwayFrom, Follows
    <3>3. Act("note", defaultOut, 0) \in Action
      BY <1>0 DEF Act, Action
    <3>4. acts \in Seq(Action)
      BY <1>1, <1>2, <2>1, <3>3
    <3>5. Writes(S, d) \in SUBSET (Ids \X Target)
      BY <3>1, <3>2 DEF Writes
    <3>6. task' = [task EXCEPT ![t].acts = acts, ![t].writes = Writes(S, d)]
      BY <1>5, <2>2 DEF SwitchOutput
    <3>7. task' \in [Task -> TaskState]
      BY <1>0, <3>4, <3>5, <3>6, TaskType
    <3>8. streams' = Pointed(S, d)
      BY <1>5, <2>2 DEF SwitchOutput
    <3>9. streams' \in [Ids -> StreamRecord \cup {None}]
      BY <1>0, <3>1, <3>2, <3>8, PointedType
    <3>10. defaultOut' \in Device /\ active' \in SUBSET Device
      BY <1>5, <2>2, <3>1 DEF SwitchOutput, Activated, TypeOK
    <3>11. QED
      BY <1>5, <3>7, <3>9, <3>10 DEF SwitchOutput, TypeOK
  <2>3. CASE ~(CanPlay(devices, Current(t).dev) /\ defaultOut # Current(t).dev)
    BY <1>3, <1>5, <2>1, <2>3 DEF SwitchOutput, TypeOK
  <2>4. QED
    BY <2>2, <2>3
<1>6. CASE SwitchInput(t)
  BY <1>3, <1>6 DEF SwitchInput, Running, Acting, Activated, CanRecord, TypeOK
<1>7. CASE NotePrevious(t)
  <2>1. Current(t) \in Action /\ Current(t).act = "note"
    BY <1>1, <1>7 DEF NotePrevious, Running, Acting, Current
  <2>2. Current(t).dev \in Device \cup {None}
    BY <2>1 DEF Action, RuleAction
  <2>3. QED
    BY <1>3, <1>7, <2>2 DEF NotePrevious, Running, Acting, TypeOK
<1>8. CASE TakePrevious(t)
  <2>1. Act("set-output", previousOut, 0) \in Action
    BY <1>0 DEF Act, Action, RuleAction, Target
  <2>2. task' \in [Task -> TaskState]
    BY <1>3, <1>4, <1>8, <2>1 DEF TakePrevious, Running, Acting
  <2>3. QED
    BY <1>8, <2>2 DEF TakePrevious, TypeOK
<1>9. CASE CheckRoutedMove(t)
  <2>1. Current(t).stream \in Ids /\ Current(t).dev \in Device =>
          Act("move", Current(t).dev, Current(t).stream) \in Action
    BY DEF Act, Action, Target
  <2>2. task' \in [Task -> TaskState]
    BY <1>3, <1>4, <1>9, <2>1 DEF CheckRoutedMove, CanPlay, Running, Acting
  <2>3. QED
    BY <1>9, <2>2 DEF CheckRoutedMove, TypeOK
<1>10. CASE Move(t)
  <2>1. task[t].acts # <<>> /\ Current(t) \in Action /\ Current(t).act = "move"
    BY <1>1, <1>10 DEF Move, Running, Acting, Current
  <2>2. Current(t).stream \in Ids /\ Current(t).dev \in Target
    BY <2>1 DEF Action, RuleAction
  <2>3. CASE Exists(Current(t).stream)
    <3> DEFINE a == Current(t)
               s == a.stream
               writes == IF streams[s].device # a.dev THEN {<<s, a.dev>>} ELSE {}
    <3>1. writes \in SUBSET (Ids \X Target)
      BY <2>2
    <3>2. /\ task' = [task EXCEPT ![t].acts = Tail(@), ![t].writes = writes]
          /\ streams' = [streams EXCEPT ![s].device = a.dev, ![s].follows = FALSE]
      BY <1>10, <2>3 DEF Move
    <3>3. task' \in [Task -> TaskState]
      BY <1>0, <1>1, <2>1, <3>1, <3>2, TaskType
    <3>4. streams[s] \in StreamRecord
      BY <1>0, <2>2, <2>3 DEF Exists
    <3>5. streams' \in [Ids -> StreamRecord \cup {None}]
      BY <1>0, <2>2, <3>2, <3>4 DEF StreamRecord
    <3>6. QED
      BY <1>10, <3>3, <3>5 DEF Move, TypeOK
  <2>4. CASE ~Exists(Current(t).stream)
    BY <1>3, <1>10, <2>1, <2>4 DEF Move, TypeOK
  <2>5. QED
    BY <2>3, <2>4
<1>11. CASE RunStreamRules(t)
  <2> DEFINE a == Current(t)
             on == IF a.dev # None THEN a.dev ELSE streams[a.stream].device
  <2>1. task[t].acts # <<>> /\ a \in Action /\ a.act = "added"
    BY <1>1, <1>11 DEF RunStreamRules, Running, Acting, Current
  <2>2. a.stream \in Ids /\ a.dev \in Target \cup {None}
    BY <2>1 DEF Action, RuleAction
  <2>3. CASE a.dev = None /\ ~Exists(a.stream)
    BY <1>3, <1>11, <2>1, <2>3 DEF RunStreamRules, TypeOK
  <2>4. CASE ~(a.dev = None /\ ~Exists(a.stream))
    <3>0. PICK rules \in Rules["stream-added"][on] :
            task' = [task EXCEPT ![t].acts =
                       [i \in DOMAIN rules |-> [rules[i] EXCEPT !.stream = a.stream]]]
      BY <1>11, <2>4 DEF RunStreamRules
    <3> DEFINE acts == [i \in DOMAIN rules |-> [rules[i] EXCEPT !.stream = a.stream]]
    <3>1. on \in Target
      BY <1>0, <2>2, <2>4 DEF Exists, StreamRecord
    <3>2. "stream-added" \in Trigger
      BY DEF Trigger
    <3>3. acts \in Seq(Action)
      BY <2>2, <3>1, <3>2, RulesType
    <3>4. task' = [task EXCEPT ![t].acts = acts]
      BY <3>0
    <3>5. task' \in [Task -> TaskState]
      BY <1>0, <3>3, <3>4, TaskType
    <3>6. QED
      BY <1>11, <3>5 DEF RunStreamRules, TypeOK
  <2>5. QED
    BY <2>3, <2>4
<1>12. CASE LeaveHub(t)
  BY <1>3, <1>12 DEF LeaveHub, Running, Acting, TypeOK
<1>13. ASSUME NEW d \in Device, Retarget(t, d) PROVE TypeOK'
  <2> DEFINE S == {s \in Ids : Follows(s) /\ streams[s].device = d}
  <2>1. CASE defaultOut \notin {None, d}
    <3>1. defaultOut \in Target /\ S \in SUBSET Ids /\ \A s \in S : Exists(s)
      BY <1>0, <2>1 DEF Target, Follows
    <3>2. Writes(S, defaultOut) \in SUBSET (Ids \X Target)
      BY <3>1 DEF Writes
    <3>3. /\ streams' = Pointed(S, defaultOut)
          /\ task' = [task EXCEPT ![t].gone = @ \ {d}, ![t].writes = Writes(S, defaultOut)]
      BY <1>13, <2>1 DEF Retarget
    <3>4. streams' \in [Ids -> StreamRecord \cup {None}]
      BY <1>0, <3>1, <3>3, PointedType
    <3>5. task' \in [Task -> TaskState]
      BY <1>0, <3>2, <3>3, TaskType
    <3>6. QED
      BY <1>13, <3>4, <3>5 DEF Retarget, TypeOK
  <2>2. CASE defaultOut \in {None, d}
    <3>1. task' = [task EXCEPT ![t].gone = @ \ {d}]
      BY <1>13, <2>2 DEF Retarget
    <3>2. task' \in [Task -> TaskState]
      BY <1>0, <3>1, TaskType
    <3>3. QED
      BY <1>13, <2>2, <3>2 DEF Retarget, TypeOK
  <2>3. QED
    BY <2>1, <2>2
<1>14. ASSUME NEW d \in Device, RunDeviceRules(t, d) PROVE TypeOK'
  <2>1. ASSUME NEW trigger \in Trigger, NEW acts \in Rules[trigger][d] PROVE acts \in Seq(Action)
    BY <2>1, RulesType DEF Target
  <2>2. \A acts \in Seq(Action) :
          /\ [task EXCEPT ![t].added = @ \ {d}, ![t].acts = acts] \in [Task -> TaskState]
          /\ [task EXCEPT ![t].removed = @ \ {d}, ![t].acts = acts] \in [Task -> TaskState]
    BY <1>0, TaskType
  <2>3. ASSUME NEW acts \in Rules["device-added"][d],
               task' = [task EXCEPT ![t].added = @ \ {d}, ![t].acts = acts]
        PROVE  task' \in [Task -> TaskState]
    BY <2>1, <2>2, <2>3 DEF Trigger
  <2>4. ASSUME NEW acts \in Rules["device-removed"][d],
               task' = [task EXCEPT ![t].removed = @ \ {d}, ![t].acts = acts]
        PROVE  task' \in [Task -> TaskState]
    BY <2>1, <2>2, <2>4 DEF Trigger
  <2>5. task' \in [Task -> TaskState]
    BY <1>14, <2>3, <2>4 DEF RunDeviceRules
  <2>6. QED
    BY <1>14, <2>5 DEF RunDeviceRules, TypeOK
<1>15. ASSUME NEW w \in task[t].writes, WriteHub(t, w) PROVE TypeOK'
  <2>1. w \in Ids \X Target
    BY <1>0, <1>15 DEF TaskState
  <2>2. task' \in [Task -> TaskState]
    BY <1>0, <1>15, TaskType DEF WriteHub
  <2>3. QED
    BY <1>15, <2>1, <2>2 DEF WriteHub, TypeOK
<1>16. CASE TakePreviousInput(t)
  <2>1. Act("set-input", previousIn, 0) \in Action
    BY <1>0 DEF Act, Action, RuleAction, Target
  <2>2. task' \in [Task -> TaskState]
    BY <1>3, <1>4, <1>16, <2>1 DEF TakePreviousInput, Running, Acting
  <2>3. QED
    BY <1>16, <2>2 DEF TakePreviousInput, TypeOK
<1>17. CASE ApplyProfile(t)
  BY <1>3, <1>17 DEF ApplyProfile, Running, Acting, TypeOK
<1>18. QED
  BY <1>5, <1>6, <1>7, <1>8, <1>9, <1>10, <1>11, <1>12, <1>13, <1>14, <1>15, <1>16, <1>17 DEF TaskStep

LEMMA StartType ==
  ASSUME TypeOK, NEW t \in Task, NEW a \in Action
  PROVE  Start(t, a) => task' \in [Task -> TaskState]
<1>1. <<a>> \in Seq(Action)
  OBVIOUS
<1>2. Start(t, a) => task' = [task EXCEPT ![t].acts = <<a>>]
  BY DEF Start
<1>3. \A acts \in Seq(Action) : [task EXCEPT ![t].acts = acts] \in [Task -> TaskState]
  BY TaskType DEF TypeOK
<1>4. QED
  BY <1>1, <1>2, <1>3

LEMMA PlacedType ==
  ASSUME TypeOK, NEW explicit \in Target \cup {None}, NEW kind \in {"playback", "recording"},
         Placed(explicit, kind).device # None
  PROVE  Placed(explicit, kind) \in StreamRecord
BY DEF TypeOK, Placed, StreamRecord, Target

LEMMA TypeRefresh ==
  ASSUME TypeOK, NEW t \in Task, NEW scan \in Scan, Refresh(t, scan)
  PROVE  TypeOK'
<1> DEFINE gone == {d \in Device : devices[d] # "gone" /\ scan[d] = "gone"}
           added == {d \in Device : devices[d] = "gone" /\ scan[d] # "gone"}
<1>1. scan \in [Device -> Direction \cup {"gone"}]
  BY DEF Scan
<1>2. defaultOut' \in Device \cup {None} /\ defaultIn' \in Device \cup {None}
  <2>1. PickOutput(scan) \in Device \cup {None} /\ PickInput(scan) \in Device \cup {None}
    BY <1>1, PickType DEF CanPlay, CanRecord
  <2>2. QED
    BY <2>1 DEF Refresh, TypeOK, Or, Keep
<1>3. task' \in [Task -> TaskState]
  <2>1. task' = [task EXCEPT ![t].gone = gone, ![t].added = added, ![t].removed = gone]
    BY DEF Refresh
  <2>2. task \in [Task -> TaskState] /\ gone \in SUBSET Device /\ added \in SUBSET Device
    BY DEF TypeOK
  <2>3. QED
    BY <2>1, <2>2 DEF TaskState
<1>4. active' \subseteq Device /\ devices' = scan /\ boot' \in {"init", "scanned", "up"}
  BY DEF Refresh, TypeOK
<1>5. QED
  BY <1>1, <1>2, <1>3, <1>4 DEF Refresh, TypeOK

LEMMA TypeCommand ==
  ASSUME TypeOK, NEW t \in Task, Command(t)
  PROVE  TypeOK'
<1>1. ASSUME NEW scan \in Scan, Refresh(t, scan) PROVE TypeOK'
  BY <1>1, TypeRefresh
<1>2. ASSUME NEW d \in Device, SetDefaultOutput(t, d) PROVE TypeOK'
  <2>1. Act("set-output", d, 0) \in Action
    BY DEF Act, Action, RuleAction, Target
  <2>2. QED
    BY <1>2, <2>1, StartType DEF SetDefaultOutput, TypeOK
<1>3. ASSUME NEW d \in Device, SetDefaultInput(t, d) PROVE TypeOK'
  <2>1. Act("set-input", d, 0) \in Action
    BY DEF Act, Action, RuleAction, Target
  <2>2. QED
    BY <1>3, <2>1, StartType DEF SetDefaultInput, TypeOK
<1>4. ASSUME NEW s \in Ids, DestroyStream(t, s) PROVE TypeOK'
  <2>1. Act("unhub", None, s) \in Action
    BY DEF Act, Action
  <2>2. QED
    BY <1>4, <2>1, StartType DEF DestroyStream, TypeOK
<1>5. ASSUME NEW s \in Ids, NEW x \in Target, MoveStream(t, s, x) PROVE TypeOK'
  <2>1. Act("move", x, s) \in Action
    BY DEF Act, Action
  <2>2. QED
    BY <1>5, <2>1, StartType DEF MoveStream, TypeOK
<1>6. ASSUME NEW x \in Target \cup {None}, CreateLiveStream(t, x) PROVE TypeOK'
  <2> DEFINE new == Placed(x, "playback")
  <2>1. nextId \in Ids /\ new.device # None
    BY <1>6 DEF CreateLiveStream, HasTarget
  <2>2. new \in StreamRecord
    BY <2>1, PlacedType
  <2>3. Act("added", None, nextId) \in Action
    BY <2>1 DEF Act, Action
  <2>4. task' \in [Task -> TaskState]
    BY <1>6, <2>3, StartType DEF CreateLiveStream
  <2>5. nextId' \in 1 .. MaxId + 1
    BY <1>6, <2>1, MaxIdAssumption DEF CreateLiveStream, AfterNumber, Ids
  <2>6. /\ streams' = [streams EXCEPT ![nextId] = new]
        /\ live' = [live EXCEPT ![nextId] = new.device]
        /\ UNCHANGED <<devices, active, defaultOut, defaultIn, groups, previousOut, previousIn, boot>>
    BY <1>6 DEF CreateLiveStream
  <2>7. new.device \in Target
    BY <2>2 DEF StreamRecord
  <2>8. QED
    BY <2>2, <2>4, <2>5, <2>6, <2>7 DEF TypeOK
<1>7. ASSUME NEW x \in Target \cup {None}, NEW kind \in {"playback", "recording"},
             NEW application, CreateStream(t, application, x, kind)
      PROVE  TypeOK'
  <2> DEFINE new == Placed(x, kind)
  <2>1. nextId \in Ids /\ new.device # None
    BY <1>7 DEF CreateStream, HasTarget
  <2>2. new \in StreamRecord
    BY <2>1, PlacedType
  <2>3. new.device \in Target
    BY <2>2 DEF StreamRecord
  <2>4. Act("added", new.device, nextId) \in Action
    BY <2>1, <2>3 DEF Act, Action
  <2>5. task' \in [Task -> TaskState]
    BY <1>7, <2>4, StartType DEF CreateStream
  <2>6. nextId' \in 1 .. MaxId + 1
    BY <1>7, <2>1, MaxIdAssumption DEF CreateStream, AfterNumber, Ids
  <2>7. /\ streams' = [streams EXCEPT ![nextId] = new]
        /\ UNCHANGED <<devices, active, defaultOut, defaultIn, live, groups, previousOut, previousIn, boot>>
    BY <1>7 DEF CreateStream
  <2>8. QED
    BY <2>2, <2>5, <2>6, <2>7 DEF TypeOK
<1>8. CASE CreateGroup(t)
  BY <1>8, MaxIdAssumption DEF CreateGroup, AfterNumber, TypeOK, Ids
<1>9. ASSUME NEW g \in Ids, DeleteGroup(t, g) PROVE TypeOK'
  BY <1>9 DEF DeleteGroup, TypeOK
<1>10. CASE SetProfile(t)
  <2>1. PICK acts \in Rules["profile-changed"][None] : task' = [task EXCEPT ![t].acts = acts]
    BY <1>10 DEF SetProfile
  <2>2. acts \in Seq(Action)
    BY RulesType DEF Trigger
  <2>3. task' \in [Task -> TaskState]
    BY <2>1, <2>2, TaskType DEF TypeOK
  <2>4. QED
    BY <1>10, <2>3 DEF SetProfile, TypeOK
<1>11. QED
  BY <1>1, <1>2, <1>3, <1>4, <1>5, <1>6, <1>7, <1>8, <1>9, <1>10 DEF Command

LEMMA TypeBoot ==
  ASSUME TypeOK, Boot
  PROVE  TypeOK'
<1>1. CASE SkipRestore
  BY <1>1 DEF SkipRestore, TypeOK
<1>2. ASSUME NEW o \in Device \cup {None}, NEW i \in Device \cup {None},
             NEW g \in SUBSET Ids, NEW saved \in Memory, Restore(o, i, g, saved)
      PROVE  TypeOK'
  <2>1. defaultOut' \in Device \cup {None} /\ defaultIn' \in Device \cup {None}
    BY <1>2 DEF Restore, CanPlay, CanRecord, TypeOK
  <2>2. active' \subseteq Device
    BY <1>2 DEF Restore, Activated, CanPlay, CanRecord, TypeOK
  <2>3. QED
    BY <1>2, <2>1, <2>2 DEF Restore, TypeOK, Memory
<1>3. QED
  BY <1>1, <1>2 DEF Boot

LEMMA TypeStep == TypeOK /\ [Next]_vars => TypeOK'
<1> SUFFICES ASSUME TypeOK, [Next]_vars PROVE TypeOK'
  OBVIOUS
<1>1. CASE Boot
  BY <1>1, TypeBoot
<1>2. ASSUME NEW t \in Task, TaskStep(t) PROVE TypeOK'
  BY <1>2, TypeTaskStep
<1>3. ASSUME NEW t \in Task, Command(t) PROVE TypeOK'
  BY <1>3, TypeCommand
<1>4. CASE UNCHANGED vars
  BY <1>4 DEF vars, TypeOK
<1>5. QED
  BY <1>1, <1>2, <1>3, <1>4 DEF Next

(* Every state of the manager has its type: in particular every queued      *)
(* action and every hub write names a device, a group or a stream number    *)
(* the daemon has handed out.                                               *)
THEOREM TypeCorrect == Spec => []TypeOK
<1>1. QED
  BY TypeInit, TypeStep, PTL DEF Spec

-----------------------------------------------------------------------------
(* The defaults.  Only the diff of a refresh, the switches and restore()    *)
(* write them or the registry.                                              *)

DefaultsInv == DefaultsUsable /\ DefaultUnlessNoCandidate /\ ActiveIsDefault

LEMMA DefaultsRefresh ==
  ASSUME TypeOK, NEW t \in Task, NEW scan \in Scan, Refresh(t, scan)
  PROVE  DefaultsInv'
<1>1. scan \in [Device -> Direction \cup {"gone"}]
  BY DEF Scan
<1>2. devices' = scan
  BY DEF Refresh
<1>3. /\ defaultOut' # None => CanPlay(scan, defaultOut')
      /\ defaultOut' = None => \A d \in Device : ~CanPlay(scan, d)
  BY <1>1, PickType DEF Refresh, Or, Keep
<1>4. /\ defaultIn' # None => CanRecord(scan, defaultIn')
      /\ defaultIn' = None => \A d \in Device : ~CanRecord(scan, d)
  BY <1>1, PickType DEF Refresh, Or, Keep
<1>5. active' \subseteq {defaultOut', defaultIn'}
  BY DEF Refresh
<1>6. DefaultsUsable'
  BY <1>2, <1>3, <1>4 DEF DefaultsUsable, CanPlay, CanRecord
<1>7. DefaultUnlessNoCandidate'
  BY <1>2, <1>3, <1>4 DEF DefaultUnlessNoCandidate, CanPlay, CanRecord
<1>8. QED
  BY <1>5, <1>6, <1>7 DEF DefaultsInv, ActiveIsDefault

LEMMA DefaultsStep == TypeOK /\ DefaultsInv /\ [Next]_vars => DefaultsInv'
<1> SUFFICES ASSUME TypeOK, DefaultsInv, [Next]_vars PROVE DefaultsInv'
  OBVIOUS
<1> USE DEF DefaultsInv, DefaultsUsable, DefaultUnlessNoCandidate, ActiveIsDefault,
            CanPlay, CanRecord
<1>0. None \notin Device
  BY DeviceAssumption
<1>1. CASE UNCHANGED <<devices, active, defaultOut, defaultIn>>
  BY <1>1
<1>2. ASSUME NEW t \in Task, NEW scan \in Scan, Refresh(t, scan) PROVE DefaultsInv'
  BY <1>2, DefaultsRefresh
<1>3. ASSUME NEW t \in Task, SwitchOutput(t) PROVE DefaultsInv'
  BY <1>0, <1>3 DEF SwitchOutput, Activated
<1>4. ASSUME NEW t \in Task, SwitchInput(t) PROVE DefaultsInv'
  BY <1>0, <1>4 DEF SwitchInput, Activated
<1>5. ASSUME NEW o, NEW i, NEW g, NEW saved, Restore(o, i, g, saved) PROVE DefaultsInv'
  BY <1>0, <1>5 DEF Restore, Activated
<1>6. ASSUME NEW t \in Task, TaskStep(t) PROVE DefaultsInv'
  BY <1>1, <1>3, <1>4, <1>6
     DEF TaskStep, NotePrevious, TakePrevious, TakePreviousInput, ApplyProfile,
         CheckRoutedMove, Move, RunStreamRules, LeaveHub,
         Retarget, RunDeviceRules, WriteHub
<1>7. ASSUME NEW t \in Task, Command(t) PROVE DefaultsInv'
  BY <1>1, <1>2, <1>7
     DEF Command, SetDefaultOutput, SetDefaultInput, SetProfile, DestroyStream, MoveStream,
         CreateLiveStream,
         CreateStream, CreateGroup, DeleteGroup
<1>8. CASE Boot
  BY <1>1, <1>5, <1>8 DEF Boot, SkipRestore
<1>9. QED
  BY <1>1, <1>6, <1>7, <1>8 DEF Next, vars

LEMMA DefaultsCorrect == Spec => []DefaultsInv
<1>1. Init => DefaultsInv
  BY DEF Init, DefaultsInv, DefaultsUsable, DefaultUnlessNoCandidate, ActiveIsDefault,
         CanPlay, CanRecord
<1>2. QED
  BY <1>1, TypeCorrect, DefaultsStep, PTL DEF Spec

(* A default, when there is one, is a present device of the right direction *)
(* whatever scans, switches and rules interleave: GetVolume never indexes   *)
(* the registry with a device that has gone.                                *)
THEOREM DefaultsAlwaysUsable == Spec => []DefaultsUsable
<1>1. DefaultsInv => DefaultsUsable
  BY DEF DefaultsInv
<1>2. QED
  BY <1>1, DefaultsCorrect, PTL

(* No default is ever missing while a present device could be one.          *)
THEOREM DefaultWheneverPossible == Spec => []DefaultUnlessNoCandidate
<1>1. DefaultsInv => DefaultUnlessNoCandidate
  BY DEF DefaultsInv
<1>2. QED
  BY <1>1, DefaultsCorrect, PTL

(* No device but a default is shown as Active.                              *)
THEOREM OnlyDefaultsActive == Spec => []ActiveIsDefault
<1>1. DefaultsInv => ActiveIsDefault
  BY DEF DefaultsInv
<1>2. QED
  BY <1>1, DefaultsCorrect, PTL

-----------------------------------------------------------------------------
(* The streams: that no hub entry outlives its record, that an explicit     *)
(* target is kept, what leaves a follower behind and what misleads a mixer. *)

TaskOrCommand(t) == TaskStep(t) \/ Command(t)

(* A step of one task leaves what the others have to do alone.              *)
LEMMA OtherTasks ==
  ASSUME TypeOK, NEW t \in Task, TaskOrCommand(t), NEW u \in Task, u # t
  PROVE  task'[u] = task[u]
<1>0. task \in [Task -> TaskState]
  BY DEF TypeOK
<1>1. CASE TaskStep(t)
  BY <1>0, <1>1
     DEF TaskStep, SwitchOutput, SwitchInput, NotePrevious, TakePrevious, TakePreviousInput,
         ApplyProfile, CheckRoutedMove, Move,
         RunStreamRules, LeaveHub, Retarget, RunDeviceRules, WriteHub, Done, Instead
<1>2. CASE Command(t)
  BY <1>0, <1>2
     DEF Command, Refresh, SetDefaultOutput, SetDefaultInput, SetProfile, DestroyStream,
         MoveStream,
         CreateLiveStream, CreateStream, CreateGroup, DeleteGroup, Start
<1>3. QED
  BY <1>1, <1>2 DEF TaskOrCommand

(* What pointing a set of streams at a target does to a record.             *)
LEMMA PointedRecord ==
  ASSUME TypeOK, NEW S \in SUBSET Ids, \A s \in S : Exists(s), NEW d \in Target, NEW s \in Ids,
         streams' = Pointed(S, d)
  PROVE  /\ Exists(s)' <=> Exists(s)
         /\ Exists(s) => /\ streams'[s].follows = streams[s].follows
                         /\ streams'[s].kind = streams[s].kind
                         /\ streams'[s].device = IF s \in S THEN d ELSE streams[s].device
<1>1. streams[s] \in StreamRecord \cup {None}
  BY DEF TypeOK
<1>2. CASE s \in S
  <2>1. streams[s] \in StreamRecord
    BY <1>1, <1>2 DEF Exists
  <2>2. streams'[s] = [streams[s] EXCEPT !.device = d]
    BY <1>2 DEF Pointed
  <2>3. [streams[s] EXCEPT !.device = d] # None
    <3>1. [streams[s] EXCEPT !.device = d] \in StreamRecord
      BY <2>1 DEF StreamRecord
    <3>2. QED
      BY <3>1, NoneAssumption
  <2>4. QED
    BY <1>2, <2>1, <2>2, <2>3 DEF Exists, StreamRecord
<1>3. CASE s \notin S
  BY <1>3 DEF Pointed, Exists
<1>4. QED
  BY <1>2, <1>3
(* Which steps touch the records, and how.                                  *)
LEMMA MoveRecord ==
  ASSUME TypeOK, NEW t \in Task, Move(t), NEW s \in Ids
  PROVE  /\ Exists(s)' <=> Exists(s)
         /\ Exists(s) /\ streams'[s] # streams[s] => /\ ~streams'[s].follows
                                                    /\ Current(t).stream = s
<1>1. streams \in [Ids -> StreamRecord \cup {None}]
  BY DEF TypeOK
<1>2. task[t].acts # <<>> /\ Current(t).act = "move"
  BY DEF Move, Running, Acting, Current
<1>3. Current(t).dev \in Target /\ Current(t).stream \in Ids
  <2>0. task[t].acts \in Seq(Action)
    BY DEF TypeOK, TaskState
  <2>1. Current(t) \in Action
    BY <1>2, <2>0, HeadTail DEF Current
  <2>2. QED
    BY <1>2, <2>1 DEF Action, RuleAction
<1>4. CASE Exists(Current(t).stream)
  <2> DEFINE x == Current(t).stream
             new == [streams[x] EXCEPT !.device = Current(t).dev, !.follows = FALSE]
  <2>1. streams[x] \in StreamRecord
    BY <1>1, <1>3, <1>4 DEF Exists
  <2>2. new \in StreamRecord /\ ~new.follows
    BY <1>3, <2>1 DEF StreamRecord
  <2>3. new # None
    BY <2>2, NoneAssumption
  <2>4. streams' = [streams EXCEPT ![x].device = Current(t).dev, ![x].follows = FALSE]
    BY <1>4 DEF Move
  <2>5. streams'[x] = new
    BY <1>1, <1>3, <2>4
  <2>6. s # x => streams'[s] = streams[s]
    BY <1>1, <1>3, <2>4
  <2>7. QED
    BY <1>4, <2>2, <2>3, <2>5, <2>6 DEF Exists
<1>5. CASE ~Exists(Current(t).stream)
  BY <1>5 DEF Move, Exists
<1>6. QED
  BY <1>4, <1>5

LEMMA StepRecords ==
  ASSUME TypeOK, NEW t \in Task, TaskStep(t), NEW s \in Ids
  PROVE  /\ Exists(s)' <=> Exists(s)
         /\ Exists(s) /\ streams'[s] # streams[s] =>
              IF Follows(s) THEN TRUE ELSE Move(t) /\ Current(t).stream = s /\ ~streams'[s].follows
<1>1. CASE SwitchOutput(t)
  <2> DEFINE S == FollowersAwayFrom(Current(t).dev)
  <2>1. CASE CanPlay(devices, Current(t).dev) /\ defaultOut # Current(t).dev
    <3>1. S \in SUBSET Ids /\ (\A x \in S : Exists(x)) /\ Current(t).dev \in Target
      BY <2>1 DEF FollowersAwayFrom, Follows, CanPlay, Target
    <3>2. streams' = Pointed(S, Current(t).dev)
      BY <1>1, <2>1 DEF SwitchOutput
    <3>3. Exists(s)' <=> Exists(s)
      BY <3>1, <3>2, PointedRecord
    <3>4. ~Follows(s) => streams'[s] = streams[s]
      BY <3>2 DEF Pointed, FollowersAwayFrom
    <3>5. QED
      BY <3>3, <3>4
  <2>2. CASE ~(CanPlay(devices, Current(t).dev) /\ defaultOut # Current(t).dev)
    BY <1>1, <2>2 DEF SwitchOutput, Exists
  <2>3. QED
    BY <2>1, <2>2
<1>2. CASE Move(t)
  BY <1>2, MoveRecord DEF Exists
<1>3. ASSUME NEW d \in Device, Retarget(t, d)
      PROVE  /\ Exists(s)' <=> Exists(s)
             /\ ~Follows(s) => streams'[s] = streams[s]
  <2> DEFINE S == {x \in Ids : Follows(x) /\ streams[x].device = d}
  <2>1. CASE defaultOut \notin {None, d}
    <3>1. S \in SUBSET Ids /\ (\A x \in S : Exists(x)) /\ defaultOut \in Target
      BY <2>1 DEF Follows, TypeOK, Target
    <3>2. streams' = Pointed(S, defaultOut)
      BY <1>3, <2>1 DEF Retarget
    <3>3. Exists(s)' <=> Exists(s)
      BY <3>1, <3>2, PointedRecord
    <3>4. ~Follows(s) => streams'[s] = streams[s]
      BY <3>2 DEF Pointed
    <3>5. QED
      BY <3>3, <3>4
  <2>2. CASE defaultOut \in {None, d}
    BY <1>3, <2>2 DEF Retarget, Exists
  <2>3. QED
    BY <2>1, <2>2
<1>4. QED
  BY <1>1, <1>2, <1>3
     DEF TaskStep, SwitchInput, NotePrevious, TakePrevious, TakePreviousInput, ApplyProfile,
         CheckRoutedMove, RunStreamRules,
         LeaveHub, RunDeviceRules, WriteHub, Exists

LEMMA NewRecord ==
  ASSUME TypeOK, NEW explicit \in Target \cup {None}, NEW kind \in {"playback", "recording"},
         HasTarget(Placed(explicit, kind))
  PROVE  /\ Placed(explicit, kind) # None
         /\ Placed(explicit, kind).follows =>
              /\ Placed(explicit, kind).kind = kind
              /\ kind = "playback" => Placed(explicit, kind).device = defaultOut
<1>1. Placed(explicit, kind) \in StreamRecord
  BY PlacedType DEF HasTarget
<1>2. QED
  BY <1>1, NoneAssumption DEF Placed

(* A command makes at most one new record, which takes the next number, and *)
(* removes at most one.                                                     *)
LEMMA CommandRecords ==
  ASSUME TypeOK, NEW t \in Task, Command(t), NEW s \in Ids
  PROVE  \/ streams'[s] = streams[s]
         \/ DestroyStream(t, s) /\ streams'[s] = None
         \/ /\ s = nextId
            /\ \E explicit \in Target \cup {None}, kind \in {"playback", "recording"} :
                 /\ HasTarget(Placed(explicit, kind))
                 /\ streams'[s] = Placed(explicit, kind)
<1>1. streams \in [Ids -> StreamRecord \cup {None}]
  BY DEF TypeOK
<1>2. ASSUME NEW x \in Ids, DestroyStream(t, x)
      PROVE  streams'[s] = IF s = x THEN None ELSE streams[s]
  BY <1>1, <1>2 DEF DestroyStream
<1>3. ASSUME NEW x \in Target \cup {None}, CreateLiveStream(t, x)
      PROVE  /\ HasTarget(Placed(x, "playback"))
             /\ streams'[s] = IF s = nextId THEN Placed(x, "playback") ELSE streams[s]
  BY <1>1, <1>3 DEF CreateLiveStream
<1>4. ASSUME NEW x \in Target \cup {None}, NEW kind \in {"playback", "recording"},
             NEW application, CreateStream(t, application, x, kind)
      PROVE  /\ HasTarget(Placed(x, kind))
             /\ streams'[s] = IF s = nextId THEN Placed(x, kind) ELSE streams[s]
  BY <1>1, <1>4 DEF CreateStream
<1>5. CASE UNCHANGED streams
  BY <1>5
<1>6. QED
  BY <1>2, <1>3, <1>4, <1>5
     DEF Command, Refresh, SetDefaultOutput, SetDefaultInput, SetProfile, MoveStream,
         CreateGroup, DeleteGroup
-----------------------------------------------------------------------------
(* Explicit targets: no record has a number that is still to come, so none  *)
(* is replaced by a new one.                                                *)

NumbersFresh == \A s \in Ids : s >= nextId => ~Exists(s)

NumberGrows ==
  /\ nextId' \in Nat /\ nextId' >= nextId
  /\ \A s \in Ids : streams'[s] # None /\ ~Exists(s) => s = nextId /\ nextId' = nextId + 1

LEMMA NextIdGrows ==
  ASSUME TypeOK, NEW t \in Task, Command(t)
  PROVE  NumberGrows
<1>1. nextId \in Nat /\ streams \in [Ids -> StreamRecord \cup {None}]
  BY MaxIdAssumption DEF TypeOK
<1>2. ASSUME NEW x \in Ids, DestroyStream(t, x) PROVE NumberGrows
  BY <1>1, <1>2 DEF DestroyStream, NumberGrows, Exists
<1>3. ASSUME NEW x \in Target \cup {None}, CreateLiveStream(t, x) PROVE NumberGrows
  BY <1>1, <1>3 DEF CreateLiveStream, AfterNumber, NumberGrows, Exists
<1>4. ASSUME NEW x \in Target \cup {None}, NEW kind \in {"playback", "recording"},
             NEW application, CreateStream(t, application, x, kind)
      PROVE  NumberGrows
  BY <1>1, <1>4 DEF CreateStream, AfterNumber, NumberGrows, Exists
<1>5. CASE CreateGroup(t)
  BY <1>1, <1>5 DEF CreateGroup, AfterNumber, NumberGrows, Exists, Ids
<1>6. CASE UNCHANGED <<streams, nextId>>
  BY <1>1, <1>6 DEF NumberGrows, Exists
<1>7. QED
  BY <1>2, <1>3, <1>4, <1>5, <1>6
     DEF Command, Refresh, SetDefaultOutput, SetDefaultInput, SetProfile, MoveStream, DeleteGroup

LEMMA FreshStep == TypeOK /\ NumbersFresh /\ [Next]_vars => NumbersFresh'
<1> SUFFICES ASSUME TypeOK, NumbersFresh, [Next]_vars PROVE NumbersFresh'
  OBVIOUS
<1>0. nextId \in Nat /\ Ids \subseteq Nat
  BY MaxIdAssumption DEF TypeOK, Ids
<1>1. ASSUME NEW t \in Task, TaskStep(t) PROVE NumbersFresh'
  <2>1. nextId' = nextId
    BY <1>1 DEF TaskStep, SwitchOutput, SwitchInput, NotePrevious, TakePrevious,
                TakePreviousInput, ApplyProfile, CheckRoutedMove,
                Move, RunStreamRules, LeaveHub, Retarget, RunDeviceRules, WriteHub
  <2>2. QED
    BY <1>1, <2>1, StepRecords DEF NumbersFresh
<1>2. ASSUME NEW t \in Task, Command(t) PROVE NumbersFresh'
  <2>1. ASSUME NEW s \in Ids, s >= nextId' PROVE ~Exists(s)'
    <3>1. nextId' >= nextId /\ nextId' \in Nat
      BY <1>2, NextIdGrows DEF NumberGrows
    <3>2. ~Exists(s)
      BY <1>0, <2>1, <3>1 DEF NumbersFresh
    <3>3. streams'[s] # None => s = nextId /\ nextId' = nextId + 1
      BY <1>2, <3>2, NextIdGrows DEF NumberGrows
    <3>4. QED
      BY <1>0, <2>1, <3>3 DEF Exists
  <2>2. QED
    BY <2>1 DEF NumbersFresh
<1>3. CASE Boot
  BY <1>3 DEF Boot, SkipRestore, Restore, NumbersFresh, Exists
<1>4. CASE UNCHANGED vars
  BY <1>4 DEF vars, NumbersFresh, Exists
<1>5. QED
  BY <1>1, <1>2, <1>3, <1>4 DEF Next

LEMMA FreshCorrect == Spec => []NumbersFresh
<1>1. Init => NumbersFresh
  BY DEF Init, NumbersFresh, Exists
<1>2. QED
  BY <1>1, TypeCorrect, FreshStep, PTL DEF Spec

KeepsExplicit ==
  \A s \in Ids : Exists(s) /\ ~Follows(s) /\ streams'[s] # None =>
    /\ ~streams'[s].follows
    /\ streams'[s].device # streams[s].device =>
         \E t \in Task : Running(t, "move") /\ Current(t).stream = s

LEMMA ExplicitStep == TypeOK /\ NumbersFresh /\ [Next]_vars => [KeepsExplicit]_vars
<1> SUFFICES ASSUME TypeOK, NumbersFresh, Next,
                    NEW s \in Ids, Exists(s), ~Follows(s), streams'[s] # None
             PROVE  /\ ~streams'[s].follows
                    /\ streams'[s].device # streams[s].device =>
                         \E t \in Task : Running(t, "move") /\ Current(t).stream = s
  BY DEF KeepsExplicit
<1>1. CASE streams'[s] = streams[s]
  BY <1>1 DEF Follows
<1>2. ASSUME NEW t \in Task, TaskStep(t), streams'[s] # streams[s]
      PROVE  ~streams'[s].follows /\ Running(t, "move") /\ Current(t).stream = s
  BY <1>2, StepRecords DEF Move
<1>3. ASSUME NEW t \in Task, Command(t) PROVE streams'[s] = streams[s]
  <2>1. s # nextId
    BY MaxIdAssumption DEF NumbersFresh, TypeOK, Ids
  <2>2. QED
    BY <1>3, <2>1, CommandRecords
<1>4. CASE Boot
  BY <1>1, <1>4 DEF Boot, SkipRestore, Restore
<1>5. QED
  BY <1>1, <1>2, <1>3, <1>4 DEF Next

(* Only a move of the stream itself changes an explicit target, and a       *)
(* stream that was given one never follows the default afterwards.          *)
THEOREM ExplicitTargetsKept == Spec => ExplicitTargetIsKept
<1>1. Spec => [][KeepsExplicit]_vars
  BY TypeCorrect, FreshCorrect, ExplicitStep, PTL DEF Spec
<1>2. QED
  BY <1>1 DEF ExplicitTargetIsKept, KeepsExplicit
-----------------------------------------------------------------------------
(* The hub                                                                  *)

LEMMA LeavingStays ==
  ASSUME TypeOK, NEW t \in Task, TaskOrCommand(t), NEW u \in Task, NEW s \in Ids, Leaving(u, s)
  PROVE  Leaving(u, s)' \/ (u = t /\ LeaveHub(t))
<1>0. task \in [Task -> TaskState]
  BY DEF TypeOK
<1>1. CASE u # t
  <2>1. task'[u] = task[u]
    BY <1>1, OtherTasks
  <2>2. QED
    BY <2>1 DEF Leaving, Current
<1>2. CASE u = t /\ Command(t)
  <2>1. task[t].acts # <<>>
    BY <1>2 DEF Leaving
  <2>2. ~Idle(t)
    BY <2>1 DEF Idle, NoWork
  <2>3. QED
    BY <1>2, <2>2
       DEF Command, Refresh, SetDefaultOutput, SetDefaultInput, SetProfile, DestroyStream,
           MoveStream,
           CreateLiveStream, CreateStream, CreateGroup, DeleteGroup, Free
<1>3. CASE u = t /\ TaskStep(t)
  <2>1. Head(task[t].acts).act = "unhub" /\ task[t].acts # <<>>
    BY <1>3 DEF Leaving, Current
  <2>2. ASSUME NEW w, WriteHub(t, w) PROVE task'[t].acts = task[t].acts
    BY <1>0, <2>2 DEF WriteHub, TaskState
  <2>3. CASE \E w \in task[t].writes : WriteHub(t, w)
    <3>1. task'[u].acts = task[u].acts
      BY <1>3, <2>2, <2>3
    <3>2. QED
      BY <3>1 DEF Leaving, Current
  <2>4. CASE LeaveHub(t)
    BY <1>3, <2>4
  <2>5. QED
    BY <1>3, <2>1, <2>3, <2>4
       DEF TaskStep, SwitchOutput, SwitchInput, NotePrevious, TakePrevious, TakePreviousInput,
           ApplyProfile, CheckRoutedMove, Move,
           RunStreamRules, Retarget, RunDeviceRules, Running, Acting, Refreshing
<1>4. QED
  BY <1>1, <1>2, <1>3 DEF TaskOrCommand

(* What becomes of a hub entry that is there after the step.                *)
LEMMA LiveEntries ==
  ASSUME TypeOK, NEW t \in Task, TaskOrCommand(t), NEW s \in Ids, live'[s] # None
  PROVE  \/ live[s] # None /\ ~(LeaveHub(t) /\ Current(t).stream = s)
         \/ Exists(s)'
<1>0. live \in [Ids -> Target \cup {None}] /\ streams \in [Ids -> StreamRecord \cup {None}]
  BY DEF TypeOK
<1>1. CASE LeaveHub(t)
  BY <1>0, <1>1 DEF LeaveHub
<1>2. ASSUME NEW w \in task[t].writes, WriteHub(t, w) PROVE live[s] # None
  BY <1>0, <1>2 DEF WriteHub
<1>3. ASSUME NEW x \in Target \cup {None}, CreateLiveStream(t, x) PROVE live[s] # None \/ Exists(s)'
  <2>1. Placed(x, "playback") # None
    BY <1>3, NewRecord DEF CreateLiveStream
  <2>2. s = nextId => streams'[s] = Placed(x, "playback")
    BY <1>0, <1>3 DEF CreateLiveStream
  <2>3. s # nextId => live'[s] = live[s]
    BY <1>0, <1>3 DEF CreateLiveStream
  <2>4. QED
    BY <2>1, <2>2, <2>3 DEF Exists
<1>4. CASE UNCHANGED live /\ ~LeaveHub(t)
  BY <1>4
<1>5. QED
  <2>1. CASE ~LeaveHub(t)
    BY <1>2, <1>3, <1>4, <2>1
       DEF TaskOrCommand, TaskStep, SwitchOutput, SwitchInput, NotePrevious, TakePrevious,
           TakePreviousInput, ApplyProfile,
           CheckRoutedMove, Move, RunStreamRules, Retarget, RunDeviceRules,
           Command, Refresh, SetDefaultOutput, SetDefaultInput, SetProfile, DestroyStream, MoveStream,
           CreateStream, CreateGroup, DeleteGroup
  <2>2. QED
    BY <1>1, <2>1

LEMMA HubStep == TypeOK /\ HubEntryHasRecord /\ [Next]_vars => HubEntryHasRecord'
<1> SUFFICES ASSUME TypeOK, HubEntryHasRecord, [Next]_vars,
                    NEW s \in Ids, live'[s] # None, ~Exists(s)'
             PROVE  (\E t \in Task : Leaving(t, s))'
  BY DEF HubEntryHasRecord
<1>1. ASSUME NEW t \in Task, TaskOrCommand(t) PROVE (\E u \in Task : Leaving(u, s))'
  <2>1. live[s] # None /\ ~(LeaveHub(t) /\ Current(t).stream = s)
    BY <1>1, LiveEntries
  <2>2. CASE Exists(s)
    <3>1. Command(t)
      BY <1>1, <2>2, StepRecords DEF TaskOrCommand
    <3>2. DestroyStream(t, s)
      BY <2>2, <3>1, CommandRecords, NewRecord DEF Exists
    <3>3. task' = [task EXCEPT ![t].acts = <<Act("unhub", None, s)>>]
      BY <3>2 DEF DestroyStream, Start
    <3>4. task'[t].acts = <<Act("unhub", None, s)>>
      BY <3>3 DEF TypeOK, TaskState
    <3>5. Leaving(t, s)'
      BY <3>4 DEF Leaving, Current, Act
    <3>6. QED
      BY <3>5
  <2>3. CASE ~Exists(s)
    <3>1. PICK u \in Task : Leaving(u, s)
      BY <2>1, <2>3 DEF HubEntryHasRecord
    <3>2. ~(u = t /\ LeaveHub(t))
      BY <2>1, <3>1 DEF Leaving
    <3>3. Leaving(u, s)'
      BY <1>1, <3>1, <3>2, LeavingStays
    <3>4. QED
      BY <3>3
  <2>4. QED
    BY <2>2, <2>3
<1>2. ASSUME UNCHANGED <<live, streams, task>> PROVE (\E u \in Task : Leaving(u, s))'
  BY <1>2 DEF HubEntryHasRecord, Exists, Leaving, Current
<1>3. CASE Boot
  BY <1>2, <1>3 DEF Boot, SkipRestore, Restore
<1>4. CASE UNCHANGED vars
  BY <1>2, <1>4 DEF vars
<1>5. QED
  BY <1>1, <1>3, <1>4 DEF Next, TaskOrCommand

(* No stream of the hub plays on without a record, except in the window of  *)
(* the very handler that has removed the record and is about to remove it.  *)
THEOREM HubEntriesHaveRecords == Spec => []HubEntryHasRecord
<1>1. Init => HubEntryHasRecord
  BY DEF Init, HubEntryHasRecord
<1>2. QED
  BY <1>1, TypeCorrect, HubStep, PTL DEF Spec
-----------------------------------------------------------------------------
(* Followers                                                                *)

KeepsFollowers == \A s \in Ids : Stranded(s)' => Stranded(s) \/ DefaultLost

(* Until restore() has run, which points no follower at the default it      *)
(* restores, there is no stream.                                            *)
NoStreamYet == boot # "up" => \A s \in Ids : ~Exists(s)

LEMMA NoStreamStep == TypeOK /\ NoStreamYet /\ [Next]_vars => NoStreamYet'
<1> SUFFICES ASSUME TypeOK, NoStreamYet, [Next]_vars, boot' # "up", NEW s \in Ids
             PROVE  ~Exists(s)'
  BY DEF NoStreamYet
<1>1. ASSUME NEW t \in Task, TaskStep(t) PROVE ~Exists(s)'
  <2>1. boot' = boot
    BY <1>1 DEF TaskStep, SwitchOutput, SwitchInput, NotePrevious, TakePrevious,
                TakePreviousInput,
                ApplyProfile, CheckRoutedMove, Move, RunStreamRules, LeaveHub, Retarget,
                RunDeviceRules, WriteHub
  <2>2. QED
    BY <1>1, <2>1, StepRecords DEF NoStreamYet
<1>2. ASSUME NEW t \in Task, Command(t) PROVE boot # "up" /\ UNCHANGED streams
  BY <1>2 DEF Command, Refresh, SetDefaultOutput, SetDefaultInput, SetProfile, DestroyStream,
              MoveStream, CreateLiveStream, CreateStream, CreateGroup, DeleteGroup, Free
<1>3. CASE UNCHANGED <<boot, streams>>
  BY <1>3 DEF NoStreamYet, Exists
<1>4. QED
  BY <1>1, <1>2, <1>3 DEF Next, Boot, SkipRestore, Restore, NoStreamYet, Exists, vars

(* A refresh strands nobody unless it is one that loses the default without *)
(* seeing its device go.                                                    *)
LEMMA StrandedRefresh ==
  ASSUME TypeOK, DefaultsInv, NEW t \in Task, NEW scan \in Scan, Refresh(t, scan)
  PROVE  KeepsFollowers
<1> DEFINE gone == {d \in Device : devices[d] # "gone" /\ scan[d] = "gone"}
<1>0. task \in [Task -> TaskState] /\ devices' = scan /\ streams' = streams /\ Idle(t)
  BY DEF TypeOK, Refresh
<1>1. \A u \in Task : task'[u].gone = IF u = t THEN gone ELSE task[u].gone
  BY <1>0 DEF Refresh, TaskState
<1>2. task[t].gone = {}
  BY <1>0 DEF Idle, NoWork
<1>3. defaultOut' # defaultOut /\ ~DefaultLost => defaultOut \in gone
  <2>1. SUFFICES ASSUME defaultOut' # defaultOut, defaultOut # None, scan[defaultOut] # "input"
                 PROVE  defaultOut \in gone
    BY <1>0 DEF DefaultLost
  <2>2. defaultOut \in Device /\ devices[defaultOut] \in {"output", "both"}
    BY <2>1 DEF DefaultsInv, DefaultsUsable, CanPlay
  <2>3. ~CanPlay(scan, defaultOut)
    BY <2>1 DEF Refresh, Or, Keep
  <2>4. scan[defaultOut] \in Direction \cup {"gone"}
    BY <2>2 DEF Scan
  <2>5. scan[defaultOut] = "gone"
    BY <2>1, <2>2, <2>3, <2>4 DEF CanPlay, Direction
  <2>6. QED
    BY <2>2, <2>5
<1>4. ASSUME NEW s \in Ids, Stranded(s)', ~Stranded(s), ~DefaultLost PROVE FALSE
  <2>1. Follower(s)
    BY <1>0, <1>4 DEF Stranded, Follower, Follows, Exists
  <2>2. defaultOut # None
    BY <1>4 DEF DefaultLost, Stranded
  <2>3. OnDefault(s)
    BY <1>4, <2>1, <2>2 DEF Stranded
  <2>4. /\ streams[s].device # defaultOut'
        /\ \A u \in Task : streams[s].device \notin task'[u].gone
    BY <1>0, <1>4 DEF Stranded, OnDefault
  <2>5. CASE streams[s].device = defaultOut
    BY <1>1, <1>3, <1>4, <2>4, <2>5
  <2>6. CASE \E u \in Task : streams[s].device \in task[u].gone
    BY <1>1, <1>2, <2>4, <2>6
  <2>7. QED
    BY <2>3, <2>5, <2>6 DEF OnDefault
<1>5. QED
  BY <1>4 DEF KeepsFollowers

(* What the other steps leave alone.                                        *)
GoneKept == \A u \in Task : task'[u].gone = task[u].gone

LEMMA GoneStays ==
  ASSUME TypeOK, NEW t \in Task,
         \/ TaskStep(t) /\ \A d \in Device : ~Retarget(t, d)
         \/ Command(t) /\ \A scan \in Scan : ~Refresh(t, scan)
  PROVE  GoneKept
<1>0. task \in [Task -> TaskState]
  BY DEF TypeOK
<1>1. ASSUME NEW x PROVE task' = [task EXCEPT ![t].acts = x] => GoneKept
  BY <1>0 DEF GoneKept, TaskState
<1>2. ASSUME NEW x, NEW y PROVE task' = [task EXCEPT ![t].acts = x, ![t].writes = y] => GoneKept
  BY <1>0 DEF GoneKept, TaskState
<1>3. ASSUME NEW x PROVE task' = [task EXCEPT ![t].writes = x] => GoneKept
  BY <1>0 DEF GoneKept, TaskState
<1>4. ASSUME NEW x, NEW y PROVE task' = [task EXCEPT ![t].added = x, ![t].acts = y] => GoneKept
  BY <1>0 DEF GoneKept, TaskState
<1>5. ASSUME NEW x, NEW y PROVE task' = [task EXCEPT ![t].removed = x, ![t].acts = y] => GoneKept
  BY <1>0 DEF GoneKept, TaskState
<1>6. CASE UNCHANGED task
  BY <1>6 DEF GoneKept
<1>7. ASSUME Done(t) PROVE GoneKept
  BY <1>1, <1>7 DEF Done
<1>8. ASSUME NEW a, Instead(t, a) PROVE GoneKept
  BY <1>1, <1>8 DEF Instead
<1>9. ASSUME NEW a, Start(t, a) PROVE GoneKept
  BY <1>1, <1>9 DEF Start
<1>10. CASE SwitchOutput(t) \/ Move(t)
  BY <1>2, <1>7, <1>10 DEF SwitchOutput, Move
<1>11. CASE RunStreamRules(t)
  BY <1>1, <1>7, <1>11 DEF RunStreamRules
<1>12. ASSUME NEW d \in Device, RunDeviceRules(t, d) PROVE GoneKept
  BY <1>4, <1>5, <1>12 DEF RunDeviceRules
<1>13. ASSUME NEW w, WriteHub(t, w) PROVE GoneKept
  BY <1>3, <1>13 DEF WriteHub
<1>14. CASE TaskStep(t) /\ \A d \in Device : ~Retarget(t, d)
  BY <1>7, <1>8, <1>10, <1>11, <1>12, <1>13, <1>14
     DEF TaskStep, SwitchInput, NotePrevious, TakePrevious, TakePreviousInput, ApplyProfile,
         CheckRoutedMove, LeaveHub
<1>15. CASE Command(t) /\ \A scan \in Scan : ~Refresh(t, scan)
  BY <1>1, <1>6, <1>9, <1>15
     DEF Command, SetDefaultOutput, SetDefaultInput, SetProfile, DestroyStream, MoveStream,
         CreateLiveStream,
         CreateStream, CreateGroup, DeleteGroup
<1>16. QED
  BY <1>14, <1>15

(* A step strands nobody if every follower it leaves was one before and has *)
(* kept its device, or is on the default.                                   *)
LEMMA StrandedKept ==
  ASSUME GoneKept, UNCHANGED defaultOut,
         \A s \in Ids : Follower(s)' =>
           \/ Follower(s) /\ streams'[s].device = streams[s].device
           \/ streams'[s].device = defaultOut
  PROVE  KeepsFollowers
BY DEF KeepsFollowers, Stranded, OnDefault, GoneKept

LEMMA StrandedSwitch ==
  ASSUME TypeOK, NEW t \in Task, SwitchOutput(t), GoneKept
  PROVE  KeepsFollowers
<1> DEFINE d == Current(t).dev
           S == FollowersAwayFrom(d)
<1>1. CASE CanPlay(devices, d) /\ defaultOut # d
  <2>1. d \in Target
    BY <1>1 DEF CanPlay, Target
  <2>2. /\ S \in SUBSET Ids /\ \A s \in S : Exists(s)
        /\ streams' = Pointed(S, d) /\ defaultOut' = d
    BY <1>1 DEF SwitchOutput, FollowersAwayFrom, Follows
  <2>3. ASSUME NEW s \in Ids, Follower(s)' PROVE streams'[s].device = d
    <3>1. Exists(s) /\ streams'[s].follows
      BY <2>1, <2>2, <2>3, PointedRecord DEF Follower, Follows
    <3>2. Follows(s)
      BY <2>1, <2>2, <3>1, PointedRecord DEF Follows
    <3>3. s \in S \/ streams[s].device = d
      BY <3>2 DEF FollowersAwayFrom
    <3>4. QED
      BY <2>1, <2>2, <3>1, <3>3, PointedRecord
  <2>4. QED
    BY <2>2, <2>3 DEF KeepsFollowers, Stranded, OnDefault
<1>2. CASE ~(CanPlay(devices, d) /\ defaultOut # d)
  <2>1. UNCHANGED <<defaultOut, streams>>
    BY <1>2 DEF SwitchOutput
  <2>2. QED
    BY <2>1, StrandedKept DEF Follower, Follows, Exists
<1>3. QED
  BY <1>1, <1>2

LEMMA StrandedRetarget ==
  ASSUME TypeOK, NEW t \in Task, NEW d \in Device, Retarget(t, d)
  PROVE  KeepsFollowers
<1>0. UNCHANGED defaultOut /\ task \in [Task -> TaskState]
  BY DEF Retarget, TypeOK
<1>1. ASSUME NEW u \in Task PROVE task[u].gone \ {d} \subseteq task'[u].gone
  <2>1. \/ task' = [task EXCEPT ![t].gone = task[t].gone \ {d}]
        \/ \E w : task' = [task EXCEPT ![t].gone = task[t].gone \ {d}, ![t].writes = w]
    BY DEF Retarget
  <2>2. CASE u = t
    BY <1>0, <2>1, <2>2 DEF TaskState
  <2>3. CASE u # t
    BY <1>0, <2>1, <2>3
  <2>4. QED
    BY <2>2, <2>3
<1>2. ASSUME NEW s \in Ids, Follower(s)', defaultOut # None
      PROVE  /\ Follower(s)
             /\ \/ streams'[s].device = defaultOut
                \/ streams'[s].device = streams[s].device /\ streams[s].device # d
  <2> DEFINE S == {x \in Ids : Follows(x) /\ streams[x].device = d}
  <2>1. CASE defaultOut \notin {None, d}
    <3>1. S \in SUBSET Ids /\ (\A x \in S : Exists(x)) /\ defaultOut \in Target
      BY <2>1 DEF Follows, TypeOK, Target
    <3>2. streams' = Pointed(S, defaultOut)
      BY <2>1 DEF Retarget
    <3> HIDE DEF S
    <3>3. /\ Exists(s)' <=> Exists(s)
          /\ Exists(s) => /\ streams'[s].follows = streams[s].follows
                          /\ streams'[s].kind = streams[s].kind
                          /\ streams'[s].device = IF s \in S THEN defaultOut ELSE streams[s].device
      BY <3>1, <3>2, PointedRecord
    <3>4. s \in S <=> Follows(s) /\ streams[s].device = d
      BY DEF S
    <3>5. QED
      BY <1>2, <3>3, <3>4 DEF Follower, Follows
  <2>2. CASE defaultOut = d
    BY <1>2, <2>2 DEF Retarget, Follower, Follows, Exists
  <2>3. QED
    BY <1>2, <2>1, <2>2
<1>3. ASSUME NEW s \in Ids, Stranded(s)', ~Stranded(s) PROVE FALSE
  <2>1. defaultOut # None /\ Follower(s) /\ streams'[s].device # defaultOut
    BY <1>0, <1>2, <1>3 DEF Stranded, OnDefault
  <2>2. streams'[s].device = streams[s].device /\ streams[s].device # d
    BY <1>2, <1>3, <2>1 DEF Stranded
  <2>3. \E u \in Task : streams[s].device \in task[u].gone
    BY <1>3, <2>1, <2>2 DEF Stranded, OnDefault
  <2>4. \E u \in Task : streams'[s].device \in task'[u].gone
    BY <1>1, <2>2, <2>3
  <2>5. QED
    BY <1>3, <2>4 DEF Stranded, OnDefault
<1>4. QED
  BY <1>3 DEF KeepsFollowers

LEMMA StrandedStep ==
  TypeOK /\ DefaultsInv /\ NoStreamYet /\ NoStreamYet' /\ [Next]_vars => [KeepsFollowers]_vars
<1> SUFFICES ASSUME TypeOK, DefaultsInv, NoStreamYet, Next PROVE KeepsFollowers
  OBVIOUS
<1>1. ASSUME NEW t \in Task, NEW scan \in Scan, Refresh(t, scan) PROVE KeepsFollowers
  BY <1>1, StrandedRefresh
<1>2. ASSUME NEW t \in Task, NEW d \in Device, Retarget(t, d) PROVE KeepsFollowers
  BY <1>2, StrandedRetarget
<1>3. ASSUME NEW t \in Task, TaskStep(t), \A d \in Device : ~Retarget(t, d) PROVE KeepsFollowers
  <2>1. GoneKept
    BY <1>3, GoneStays
  <2>2. CASE SwitchOutput(t)
    BY <2>1, <2>2, StrandedSwitch
  <2>3. CASE ~SwitchOutput(t)
    <3>1. UNCHANGED defaultOut
      BY <1>3, <2>3
         DEF TaskStep, SwitchInput, NotePrevious, TakePrevious, TakePreviousInput, ApplyProfile,
             CheckRoutedMove, Move, RunStreamRules, LeaveHub, RunDeviceRules, WriteHub
    <3>2. CASE Move(t)
      <4>1. \A s \in Ids : /\ Exists(s)' <=> Exists(s)
                           /\ Follower(s)' => streams'[s] = streams[s]
        BY <3>2, MoveRecord DEF Follower, Follows, Exists
      <4>2. QED
        BY <2>1, <3>1, <4>1, StrandedKept DEF Follower, Follows, Exists
    <3>3. CASE UNCHANGED streams
      BY <2>1, <3>1, <3>3, StrandedKept DEF Follower, Follows, Exists
    <3>4. QED
      BY <1>3, <2>3, <3>2, <3>3
         DEF TaskStep, SwitchInput, NotePrevious, TakePrevious, TakePreviousInput, ApplyProfile,
             CheckRoutedMove, RunStreamRules, LeaveHub, RunDeviceRules, WriteHub
  <2>4. QED
    BY <2>2, <2>3
<1>4. ASSUME NEW t \in Task, Command(t), \A scan \in Scan : ~Refresh(t, scan) PROVE KeepsFollowers
  <2>1. GoneKept
    BY <1>4, GoneStays
  <2>2. UNCHANGED defaultOut
    BY <1>4 DEF Command, SetDefaultOutput, SetDefaultInput, SetProfile, DestroyStream, MoveStream,
                CreateLiveStream, CreateStream, CreateGroup, DeleteGroup
  <2>3. ASSUME NEW s \in Ids, Follower(s)'
        PROVE  \/ Follower(s) /\ streams'[s].device = streams[s].device
               \/ streams'[s].device = defaultOut
    <3>1. CASE streams'[s] = streams[s]
      BY <2>3, <3>1 DEF Follower, Follows, Exists
    <3>2. CASE streams'[s] = None
      BY <2>3, <3>2 DEF Follower, Follows, Exists
    <3>3. ASSUME NEW explicit \in Target \cup {None}, NEW kind \in {"playback", "recording"},
                 HasTarget(Placed(explicit, kind)), streams'[s] = Placed(explicit, kind)
          PROVE  streams'[s].device = defaultOut
      <4>1. Placed(explicit, kind).follows /\ Placed(explicit, kind).kind = "playback"
        BY <2>3, <3>3 DEF Follower, Follows
      <4>2. QED
        BY <3>3, <4>1, NewRecord
    <3>4. QED
      BY <1>4, <3>1, <3>2, <3>3, CommandRecords
  <2>4. QED
    BY <2>1, <2>2, <2>3, StrandedKept
<1>5. CASE Boot
  <2>1. boot # "up" /\ UNCHANGED streams
    BY <1>5 DEF Boot, SkipRestore, Restore
  <2>2. \A s \in Ids : ~Exists(s)'
    BY <2>1 DEF NoStreamYet, Exists
  <2>3. QED
    BY <2>2 DEF KeepsFollowers, Stranded, Follower, Follows
<1>6. QED
  BY <1>1, <1>2, <1>3, <1>4, <1>5 DEF Next

(* Whatever the hardware, the rules and the handlers do, a playback stream  *)
(* that follows the default is left behind only by a refresh in which the   *)
(* default loses its output direction, or in which there is a default again *)
(* after there was none.                                                    *)
THEOREM FollowersLeftOnlyByLostDefault == Spec => OnlyLostDefaultStrands
<1>1. Init => NoStreamYet
  BY DEF Init, NoStreamYet, Exists
<1>2. Spec => []NoStreamYet
  BY <1>1, NoStreamStep, TypeCorrect, PTL DEF Spec
<1>3. Spec => [][KeepsFollowers]_vars
  BY <1>2, StrandedStep, TypeCorrect, DefaultsCorrect, PTL DEF Spec
<1>4. QED
  BY <1>3 DEF OnlyLostDefaultStrands, KeepsFollowers
-----------------------------------------------------------------------------
(* What the mixers are told                                                 *)

(* A number still to come has no entry: a new record never meets one.       *)
HubBelowNext == \A s \in Ids : live[s] # None => s < nextId

Mislead(s) == Playing(s) /\ ~Told(s)
KeepsTold == \A s \in Ids : Mislead(s)' => Mislead(s) \/ LateWrite(s)

(* A step that moves records leaves a write for each of them.               *)
Announced(t) ==
  \A s \in Ids : Exists(s)' =>
    /\ Exists(s)
    /\ \/ streams'[s].device = streams[s].device
       \/ <<s, streams'[s].device>> \in task'[t].writes

LEMMA AnnouncedPointing ==
  ASSUME TypeOK, NEW t \in Task, NEW S \in SUBSET Ids, \A s \in S : Exists(s), NEW d \in Target,
         streams' = Pointed(S, d), task'[t].writes = Writes(S, d)
  PROVE  Announced(t)
<1>1. ASSUME NEW s \in Ids, Exists(s)'
      PROVE  /\ Exists(s)
             /\ \/ streams'[s].device = streams[s].device
                \/ <<s, streams'[s].device>> \in task'[t].writes
  <2>1. /\ Exists(s)
        /\ streams'[s].device = IF s \in S THEN d ELSE streams[s].device
    BY <1>1, PointedRecord
  <2>2. QED
    BY <2>1 DEF Writes
<1>2. QED
  BY <1>1 DEF Announced

LEMMA AnnouncedMove ==
  ASSUME TypeOK, NEW t \in Task, Move(t)
  PROVE  Announced(t)
<1> DEFINE a == Current(t)
           x == a.stream
<1>0. /\ streams \in [Ids -> StreamRecord \cup {None}]
      /\ task \in [Task -> TaskState]
      /\ task[t].writes = {}
  BY DEF TypeOK, Move, Running, Acting
<1>1. a.dev \in Target /\ x \in Ids
  <2>0. task[t].acts \in Seq(Action) /\ task[t].acts # <<>> /\ a.act = "move"
    BY DEF TypeOK, TaskState, Move, Running, Acting, Current
  <2>1. a \in Action
    BY <2>0, HeadTail DEF Current
  <2>2. QED
    BY <2>0, <2>1 DEF Action, RuleAction
<1>2. CASE Exists(x)
  <2> DEFINE writes == IF streams[x].device # a.dev THEN {<<x, a.dev>>} ELSE {}
             new == [streams[x] EXCEPT !.device = a.dev, !.follows = FALSE]
  <2>1. /\ streams' = [streams EXCEPT ![x].device = a.dev, ![x].follows = FALSE]
        /\ task' = [task EXCEPT ![t].acts = Tail(task[t].acts), ![t].writes = writes]
    BY <1>2 DEF Move
  <2>2. task'[t].writes = writes
    BY <1>0, <2>1 DEF TaskState
  <2>3. streams[x] \in StreamRecord
    BY <1>0, <1>1, <1>2 DEF Exists
  <2>4. streams'[x] = new /\ new.device = a.dev
    BY <1>0, <1>1, <2>1, <2>3 DEF StreamRecord
  <2>5. \A s \in Ids : s # x => streams'[s] = streams[s]
    BY <1>0, <1>1, <2>1
  <2>6. ASSUME NEW s \in Ids, Exists(s)'
        PROVE  /\ Exists(s)
               /\ \/ streams'[s].device = streams[s].device
                  \/ <<s, streams'[s].device>> \in task'[t].writes
    <3>1. CASE s = x
      BY <1>2, <2>2, <2>4, <3>1
    <3>2. CASE s # x
      BY <2>5, <2>6, <3>2 DEF Exists
    <3>3. QED
      BY <3>1, <3>2
  <2>7. QED
    BY <2>6 DEF Announced
<1>3. CASE ~Exists(x)
  <2>1. streams' = streams /\ task' = [task EXCEPT ![t].acts = Tail(task[t].acts)]
    BY <1>3 DEF Move, Done
  <2>2. task'[t].writes = {}
    BY <1>0, <2>1 DEF TaskState
  <2>3. QED
    BY <2>1, <2>2 DEF Announced, Exists
<1>4. QED
  BY <1>2, <1>3

(* Steps that leave the records alone leave no write either.                *)
LEMMA AnnouncedQuiet ==
  ASSUME NEW t \in Task, UNCHANGED streams
  PROVE  Announced(t)
BY DEF Announced, Exists

LEMMA AnnouncedStep ==
  ASSUME TypeOK, NEW t \in Task, TaskStep(t), \A w \in task[t].writes : ~WriteHub(t, w)
  PROVE  task[t].writes = {} /\ Announced(t)
<1>0. task \in [Task -> TaskState]
  BY DEF TypeOK
<1>1. task[t].writes = {}
  BY DEF TaskStep, SwitchOutput, SwitchInput, NotePrevious, TakePrevious, TakePreviousInput,
         ApplyProfile, CheckRoutedMove, Move,
         RunStreamRules, LeaveHub, Retarget, RunDeviceRules, Running, Acting, Refreshing
<1>2. ASSUME NEW acts PROVE task' = [task EXCEPT ![t].acts = acts] => task'[t].writes = {}
  BY <1>0, <1>1 DEF TaskState
<1>3. CASE SwitchOutput(t)
  <2> DEFINE d == Current(t).dev
             S == FollowersAwayFrom(d)
  <2>1. CASE CanPlay(devices, d) /\ defaultOut # d
    <3>1. S \in SUBSET Ids /\ (\A x \in S : Exists(x)) /\ d \in Target
      BY <2>1 DEF FollowersAwayFrom, Follows, CanPlay, Target
    <3>2. streams' = Pointed(S, d)
      BY <1>3, <2>1 DEF SwitchOutput
    <3>3. task'[t].writes = Writes(S, d)
      BY <1>0, <1>3, <2>1 DEF SwitchOutput, TaskState
    <3>4. QED
      BY <1>1, <3>1, <3>2, <3>3, AnnouncedPointing
  <2>2. CASE ~(CanPlay(devices, d) /\ defaultOut # d)
    <3>1. UNCHANGED streams /\ task'[t].writes = {}
      BY <1>2, <1>3, <2>2 DEF SwitchOutput, Done
    <3>2. QED
      BY <1>1, <3>1, AnnouncedQuiet
  <2>3. QED
    BY <2>1, <2>2
<1>4. ASSUME NEW d \in Device, Retarget(t, d) PROVE Announced(t)
  <2> DEFINE S == {x \in Ids : Follows(x) /\ streams[x].device = d}
  <2>1. CASE defaultOut \notin {None, d}
    <3>1. S \in SUBSET Ids /\ (\A x \in S : Exists(x)) /\ defaultOut \in Target
      BY <2>1 DEF Follows, TypeOK, Target
    <3>2. streams' = Pointed(S, defaultOut)
      BY <1>4, <2>1 DEF Retarget
    <3>3. task'[t].writes = Writes(S, defaultOut)
      BY <1>0, <1>4, <2>1 DEF Retarget, TaskState
    <3>4. QED
      BY <3>1, <3>2, <3>3, AnnouncedPointing
  <2>2. CASE defaultOut \in {None, d}
    <3>1. UNCHANGED streams /\ task'[t].writes = {}
      BY <1>0, <1>1, <1>4, <2>2 DEF Retarget, TaskState
    <3>2. QED
      BY <3>1, AnnouncedQuiet
  <2>3. QED
    BY <2>1, <2>2
<1>5. ASSUME NEW d \in Device, RunDeviceRules(t, d) PROVE Announced(t)
  <2>1. UNCHANGED streams /\ task'[t].writes = {}
    BY <1>0, <1>1, <1>5 DEF RunDeviceRules, TaskState
  <2>2. QED
    BY <2>1, AnnouncedQuiet
<1>6. CASE \/ SwitchInput(t) \/ ApplyProfile(t) \/ NotePrevious(t) \/ TakePrevious(t)
           \/ TakePreviousInput(t) \/ CheckRoutedMove(t) \/ RunStreamRules(t) \/ LeaveHub(t)
  <2>1. UNCHANGED streams /\ task'[t].writes = {}
    BY <1>2, <1>6
       DEF SwitchInput, NotePrevious, TakePrevious, TakePreviousInput, ApplyProfile,
           CheckRoutedMove, RunStreamRules, LeaveHub,
           Done, Instead
  <2>2. QED
    BY <1>1, <2>1, AnnouncedQuiet
<1>7. QED
  BY <1>1, <1>3, <1>4, <1>5, <1>6, AnnouncedMove DEF TaskStep

(* A write of what the record says corrects the hub, another one is late.   *)
LEMMA ToldWrite ==
  ASSUME TypeOK, NEW t \in Task, NEW w \in task[t].writes, WriteHub(t, w)
  PROVE  KeepsTold
<1>0. /\ live \in [Ids -> Target \cup {None}] /\ task \in [Task -> TaskState]
      /\ w \in Ids \X Target /\ UNCHANGED streams
  BY DEF TypeOK, TaskState, WriteHub
<1>1. w = <<w[1], w[2]>>
  BY <1>0
<1>2. \A u \in Task : task[u].writes \ {w} \subseteq task'[u].writes
  BY <1>0 DEF WriteHub, TaskState
<1>3. \A s \in Ids : live'[s] = IF s = w[1] /\ live[s] # None THEN w[2] ELSE live[s]
  BY <1>0 DEF WriteHub
<1>4. ASSUME NEW s \in Ids, Mislead(s)', ~Mislead(s), ~LateWrite(s) PROVE FALSE
  <2>1. Playing(s) /\ Told(s)
    BY <1>0, <1>3, <1>4 DEF Mislead, Playing, Exists
  <2>2. /\ live'[s] # streams[s].device
        /\ \A u \in Task : <<s, streams[s].device>> \notin task'[u].writes
    BY <1>0, <1>4 DEF Mislead, Told
  <2>3. CASE s = w[1]
    <3>1. live'[s] = w[2]
      BY <1>3, <2>1, <2>3 DEF Playing
    <3>2. LateWrite(s)
      BY <2>2, <2>3, <3>1 DEF LateWrite
    <3>3. QED
      BY <1>4, <3>2
  <2>4. CASE s # w[1]
    <3>1. live'[s] = live[s] /\ <<s, streams[s].device>> # w
      BY <1>1, <1>3, <2>4
    <3>2. QED
      BY <1>2, <2>1, <2>2, <3>1 DEF Told
  <2>5. QED
    BY <2>3, <2>4
<1>5. QED
  BY <1>4 DEF KeepsTold

LEMMA ToldAnnounced ==
  ASSUME TypeOK, NEW t \in Task, TaskOrCommand(t), task[t].writes = {}, Announced(t),
         \A s \in Ids : live'[s] # None => live'[s] = live[s]
  PROVE  KeepsTold
<1>1. ASSUME NEW s \in Ids, Mislead(s)' PROVE Mislead(s)
  <2>1. Playing(s) /\ live'[s] = live[s]
    BY <1>1 DEF Mislead, Playing, Announced
  <2>2. \A u \in Task : <<s, streams'[s].device>> \notin task'[u].writes
    BY <1>1 DEF Mislead, Told
  <2>3. streams'[s].device = streams[s].device
    BY <1>1, <2>2 DEF Mislead, Playing, Announced
  <2>4. \A u \in Task : <<s, streams[s].device>> \notin task[u].writes
    <3>1. ASSUME NEW u \in Task, u # t PROVE task'[u] = task[u]
      BY <3>1, OtherTasks
    <3>2. QED
      BY <2>2, <2>3, <3>1
  <2>5. live[s] # streams[s].device
    BY <1>1, <2>1, <2>3 DEF Mislead, Told
  <2>6. QED
    BY <2>1, <2>4, <2>5 DEF Mislead, Told
<1>2. QED
  BY <1>1 DEF KeepsTold

(* A command finds no write pending and leaves none.                        *)
LEMMA QuietCommand ==
  ASSUME TypeOK, NEW t \in Task, Command(t)
  PROVE  task[t].writes = {} /\ task'[t].writes = {}
<1>0. task \in [Task -> TaskState]
  BY DEF TypeOK
<1>1. CASE UNCHANGED task /\ Idle(t)
  BY <1>1 DEF Idle, NoWork
<1>2. ASSUME NEW a, Start(t, a), Idle(t) PROVE task[t].writes = {} /\ task'[t].writes = {}
  BY <1>0, <1>2 DEF Idle, NoWork, Start, TaskState
<1>3. ASSUME NEW scan \in Scan, Refresh(t, scan)
      PROVE  task[t].writes = {} /\ task'[t].writes = {}
  <2>0. Idle(t)
    BY <1>3 DEF Refresh
  <2>1. task[t].writes = {}
    BY <2>0 DEF Idle, NoWork
  <2> DEFINE gone == {d \in Device : devices[d] # "gone" /\ scan[d] = "gone"}
             added == {d \in Device : devices[d] = "gone" /\ scan[d] # "gone"}
  <2>2. task' = [task EXCEPT ![t].gone = gone, ![t].added = added, ![t].removed = gone]
    BY <1>3 DEF Refresh
  <2> HIDE DEF gone, added
  <2>3. QED
    BY <1>0, <2>1, <2>2 DEF TaskState
<1>4. ASSUME NEW a, Idle(t), task' = [task EXCEPT ![t].acts = a]
      PROVE  task[t].writes = {} /\ task'[t].writes = {}
  BY <1>0, <1>4 DEF Idle, NoWork, TaskState
<1>5. QED
  BY <1>1, <1>2, <1>3, <1>4
     DEF Command, SetDefaultOutput, SetDefaultInput, SetProfile, DestroyStream, MoveStream,
         CreateLiveStream,
         CreateStream, CreateGroup, DeleteGroup, Free

LEMMA ToldCommand ==
  ASSUME TypeOK, HubBelowNext, NEW t \in Task, Command(t)
  PROVE  KeepsTold
<1>0. /\ live \in [Ids -> Target \cup {None}]
      /\ streams \in [Ids -> StreamRecord \cup {None}]
      /\ nextId \in Nat /\ Ids \subseteq Nat
  BY MaxIdAssumption DEF TypeOK, Ids
<1>1. \A u \in Task : task'[u].writes = task[u].writes
  <2>1. task[t].writes = {} /\ task'[t].writes = {}
    BY QuietCommand
  <2>2. ASSUME NEW u \in Task, u # t PROVE task'[u] = task[u]
    BY <2>2, OtherTasks DEF TaskOrCommand
  <2>3. QED
    BY <2>1, <2>2
<1>2. live[nextId] = None \/ nextId \notin Ids
  BY <1>0 DEF HubBelowNext
<1>3. ASSUME NEW s \in Ids, Mislead(s)' PROVE Mislead(s)
  <2>1. ASSUME NEW x \in Target \cup {None}, CreateLiveStream(t, x) PROVE s # nextId
    <3>1. s = nextId => live'[s] = streams'[s].device
      BY <1>0, <2>1 DEF CreateLiveStream
    <3>2. QED
      BY <1>3, <3>1 DEF Mislead, Told
  <2>2. live'[s] = live[s]
    BY <1>0, <2>1
       DEF Command, CreateLiveStream, Refresh, SetDefaultOutput, SetDefaultInput, SetProfile,
           DestroyStream, MoveStream, CreateStream, CreateGroup, DeleteGroup
  <2>3. streams'[s] = streams[s]
    <3>1. streams'[s] # None /\ live[s] # None
      BY <1>3, <2>2 DEF Mislead, Playing, Exists
    <3>2. QED
      BY <1>2, <3>1, CommandRecords
  <2>4. QED
    BY <1>1, <1>3, <2>2, <2>3 DEF Mislead, Playing, Told, Exists
<1>4. QED
  BY <1>3 DEF KeepsTold

LEMMA NoNewEntries ==
  ASSUME TypeOK, NEW t \in Task, TaskStep(t), NEW s \in Ids, live'[s] # None
  PROVE  live[s] # None /\ nextId' = nextId
BY DEF TypeOK, TaskStep, SwitchOutput, SwitchInput, NotePrevious, TakePrevious, TakePreviousInput,
       ApplyProfile, CheckRoutedMove, Move, RunStreamRules, LeaveHub, Retarget, RunDeviceRules,
       WriteHub

LEMMA BelowNextStep == TypeOK /\ HubBelowNext /\ [Next]_vars => HubBelowNext'
<1> SUFFICES ASSUME TypeOK, HubBelowNext, [Next]_vars, NEW s \in Ids, live'[s] # None
             PROVE  s < nextId'
  BY DEF HubBelowNext
<1>0. /\ live \in [Ids -> Target \cup {None}]
      /\ nextId \in Nat /\ Ids \subseteq Nat
  BY MaxIdAssumption DEF TypeOK, Ids
<1>1. ASSUME NEW t \in Task, TaskStep(t) PROVE s < nextId'
  BY <1>1, NoNewEntries DEF HubBelowNext
<1>2. ASSUME NEW t \in Task, Command(t) PROVE s < nextId'
  <2>1. nextId' \in Nat /\ nextId' >= nextId
    BY <1>2, NextIdGrows DEF NumberGrows
  <2>2. ASSUME NEW x \in Target \cup {None}, CreateLiveStream(t, x)
        PROVE  (s # nextId /\ live[s] # None) \/ s < nextId'
    BY <1>0, <2>2 DEF CreateLiveStream, AfterNumber
  <2>3. live[s] # None \/ s < nextId'
    BY <1>2, <2>2
       DEF Command, Refresh, SetDefaultOutput, SetDefaultInput, SetProfile, DestroyStream,
           MoveStream, CreateStream, CreateGroup, DeleteGroup
  <2>4. QED
    BY <1>0, <2>1, <2>3 DEF HubBelowNext
<1>3. CASE UNCHANGED <<live, nextId>>
  BY <1>3 DEF HubBelowNext
<1>4. QED
  BY <1>1, <1>2, <1>3 DEF Next, Boot, SkipRestore, Restore, vars

LEMMA ToldStep == TypeOK /\ HubBelowNext /\ [Next]_vars => [KeepsTold]_vars
<1> SUFFICES ASSUME TypeOK, HubBelowNext, Next PROVE KeepsTold
  OBVIOUS
<1>1. ASSUME NEW t \in Task, NEW w \in task[t].writes, WriteHub(t, w) PROVE KeepsTold
  BY <1>1, ToldWrite
<1>2. ASSUME NEW t \in Task, TaskStep(t), \A w \in task[t].writes : ~WriteHub(t, w)
      PROVE  KeepsTold
  <2>1. task[t].writes = {} /\ Announced(t)
    BY <1>2, AnnouncedStep
  <2>2. ASSUME NEW s \in Ids, live'[s] # None PROVE live'[s] = live[s]
    <3>1. CASE live' = live
      BY <3>1
    <3>2. CASE LeaveHub(t)
      BY <2>2, <3>2 DEF LeaveHub, TypeOK
    <3>3. QED
      BY <1>2, <3>1, <3>2
         DEF TaskStep, SwitchOutput, SwitchInput, NotePrevious, TakePrevious, TakePreviousInput,
             ApplyProfile, CheckRoutedMove, Move, RunStreamRules, Retarget, RunDeviceRules
  <2>3. QED
    BY <1>2, <2>1, <2>2, ToldAnnounced DEF TaskOrCommand
<1>3. ASSUME NEW t \in Task, Command(t) PROVE KeepsTold
  BY <1>3, ToldCommand
<1>4. CASE UNCHANGED <<streams, live, task>>
  BY <1>4 DEF KeepsTold, Mislead, Playing, Told, Exists
<1>5. QED
  BY <1>1, <1>2, <1>3, <1>4 DEF Next, Boot, SkipRestore, Restore

(* However many handlers move streams, switch defaults and retarget, the    *)
(* mixers leave the target of a record only through a write to the hub that *)
(* another handler's move has overtaken; a stream that two handlers do not  *)
(* move at the same time is always played where its record says, or about   *)
(* to be.                                                                   *)
THEOREM MixersMisledOnlyByLateWrites == Spec => OnlyLateWritesMislead
<1>1. Init => HubBelowNext
  BY DEF Init, HubBelowNext
<1>2. Spec => []HubBelowNext
  BY <1>1, BelowNextStep, TypeCorrect, PTL DEF Spec
<1>3. Spec => [][KeepsTold]_vars
  BY <1>2, ToldStep, TypeCorrect, PTL DEF Spec
<1>4. QED
  BY <1>3 DEF OnlyLateWritesMislead, KeepsTold, Mislead
-----------------------------------------------------------------------------
(* Rules in file order                                                      *)

LEMMA Least ==
  ASSUME NEW T \in SUBSET Nat, T # {}
  PROVE  \E m \in T : \A k \in T : m <= k
<1>1. PICK m \in T : \A k \in T : ~(<<k, m>> \in OpToRel(<, Nat))
  BY NatLessThanWellFounded, WFMin, Zenon
<1>2. \A k \in T : ~(k < m)
  BY <1>1 DEF OpToRel
<1>3. QED
  BY <1>2

(* Induction, for a set of numbers: otherwise there is a least number that  *)
(* is not of it.                                                            *)
LEMMA SetInduction ==
  ASSUME NEW S, 0 \in S, \A n \in Nat : n \in S => n + 1 \in S
  PROVE  \A n \in Nat : n \in S
<1> SUFFICES ASSUME NEW x \in Nat, x \notin S
             PROVE  FALSE
  OBVIOUS
<1> DEFINE T == {n \in Nat : n \notin S}
<1>1. PICK m \in T : \A k \in T : m <= k
  <2>1. T \in SUBSET Nat /\ T # {}
    OBVIOUS
  <2> HIDE DEF T
  <2>2. QED
    BY <2>1, Least
<1>2. m # 0 /\ m - 1 \in Nat
  OBVIOUS
<1>3. m - 1 \in S
  BY <1>1, <1>2
<1>4. QED
  BY <1>2, <1>3

(* One rule of evaluate(), and of what it is compared with.                 *)
Ruled(acc, rule, ctx) ==
  IF acc.over THEN acc
  ELSE [out |-> IF Fires(rule, ctx) THEN acc.out \o Actions(rule, ctx) ELSE acc.out,
        over |-> Stops(rule, ctx)]
Listed(out, n, rules, ctx) ==
  IF n \in Fired(rules, ctx) THEN out \o Actions(rules[n], ctx) ELSE out
NothingYet == [out |-> <<>>, over |-> FALSE]
AllRuled(f, rules, ctx, n) ==
  f = [k \in 0 .. n |-> IF k = 0 THEN NothingYet ELSE Ruled(f[k - 1], rules[k], ctx)]
AllListed(f, rules, ctx, n) ==
  f = [k \in 0 .. n |-> IF k = 0 THEN <<>> ELSE Listed(f[k - 1], k, rules, ctx)]

LEMMA RuledExists ==
  ASSUME NEW rules, NEW ctx
  PROVE  \A n \in Nat : \E f : AllRuled(f, rules, ctx, n)
<1> DEFINE Then(x, k) == Ruled(x, rules[k], ctx)
           S == {n \in Nat : \E f : f = [k \in 0 .. n |-> IF k = 0 THEN NothingYet ELSE Then(f[k - 1], k)]}
<1> HIDE DEF Then
<1>1. 0 \in S
  <2> DEFINE f == [k \in 0 .. 0 |-> NothingYet]
  <2>1. f = [k \in 0 .. 0 |-> IF k = 0 THEN NothingYet ELSE Then(f[k - 1], k)]
    OBVIOUS
  <2>2. QED
    BY <2>1
<1>2. ASSUME NEW n \in Nat, n \in S PROVE n + 1 \in S
  <2>1. PICK f : f = [k \in 0 .. n |-> IF k = 0 THEN NothingYet ELSE Then(f[k - 1], k)]
    BY <1>2
  <2> DEFINE Value(k) == IF k = n + 1 THEN Then(f[n], n + 1) ELSE f[k]
             g == [k \in 0 .. n + 1 |-> Value(k)]
  <2>2. ASSUME NEW k \in 0 .. n + 1
        PROVE  g[k] = IF k = 0 THEN NothingYet ELSE Then(g[k - 1], k)
    <3>1. g[k] = Value(k) /\ (k # 0 => g[k - 1] = f[k - 1])
      OBVIOUS
    <3> HIDE DEF g
    <3>2. CASE k = n + 1
      BY <3>1, <3>2
    <3>3. CASE k # n + 1
      <4>1. k \in 0 .. n
        BY <3>3
      <4>2. f[k] = IF k = 0 THEN NothingYet ELSE Then(f[k - 1], k)
        BY <2>1, <4>1
      <4>3. QED
        BY <3>1, <3>3, <4>2
    <3>4. QED
      BY <3>2, <3>3
  <2>3. g = [k \in 0 .. n + 1 |-> IF k = 0 THEN NothingYet ELSE Then(g[k - 1], k)]
    <3>1. g = [k \in 0 .. n + 1 |-> g[k]]
      OBVIOUS
    <3> HIDE DEF g
    <3>2. QED
      BY <2>2, <3>1
  <2> HIDE DEF g
  <2>4. QED
    BY <2>3
<1>3. \A n \in Nat : n \in S
  <2> HIDE DEF S
  <2>1. QED
    BY <1>1, <1>2, SetInduction
<1>4. QED
  BY <1>3 DEF Then, AllRuled

LEMMA ListedExists ==
  ASSUME NEW rules, NEW ctx
  PROVE  \A n \in Nat : \E f : AllListed(f, rules, ctx, n)
<1> DEFINE Then(x, k) == Listed(x, k, rules, ctx)
           S == {n \in Nat : \E f : f = [k \in 0 .. n |-> IF k = 0 THEN <<>> ELSE Then(f[k - 1], k)]}
<1> HIDE DEF Then
<1>1. 0 \in S
  <2> DEFINE f == [k \in 0 .. 0 |-> <<>>]
  <2>1. f = [k \in 0 .. 0 |-> IF k = 0 THEN <<>> ELSE Then(f[k - 1], k)]
    OBVIOUS
  <2>2. QED
    BY <2>1
<1>2. ASSUME NEW n \in Nat, n \in S PROVE n + 1 \in S
  <2>1. PICK f : f = [k \in 0 .. n |-> IF k = 0 THEN <<>> ELSE Then(f[k - 1], k)]
    BY <1>2
  <2> DEFINE Value(k) == IF k = n + 1 THEN Then(f[n], n + 1) ELSE f[k]
             g == [k \in 0 .. n + 1 |-> Value(k)]
  <2>2. ASSUME NEW k \in 0 .. n + 1
        PROVE  g[k] = IF k = 0 THEN <<>> ELSE Then(g[k - 1], k)
    <3>1. g[k] = Value(k) /\ (k # 0 => g[k - 1] = f[k - 1])
      OBVIOUS
    <3> HIDE DEF g
    <3>2. CASE k = n + 1
      BY <3>1, <3>2
    <3>3. CASE k # n + 1
      <4>1. k \in 0 .. n
        BY <3>3
      <4>2. f[k] = IF k = 0 THEN <<>> ELSE Then(f[k - 1], k)
        BY <2>1, <4>1
      <4>3. QED
        BY <3>1, <3>3, <4>2
    <3>4. QED
      BY <3>2, <3>3
  <2>3. g = [k \in 0 .. n + 1 |-> IF k = 0 THEN <<>> ELSE Then(g[k - 1], k)]
    <3>1. g = [k \in 0 .. n + 1 |-> g[k]]
      OBVIOUS
    <3> HIDE DEF g
    <3>2. QED
      BY <2>2, <3>1
  <2> HIDE DEF g
  <2>4. QED
    BY <2>3
<1>3. \A n \in Nat : n \in S
  <2> HIDE DEF S
  <2>1. QED
    BY <1>1, <1>2, SetInduction
<1>4. QED
  BY <1>3 DEF Then, AllListed

LEMMA EvaluateIs ==
  ASSUME NEW rules, NEW ctx, Len(rules) \in Nat
  PROVE  \E f : /\ AllRuled(f, rules, ctx, Len(rules))
                /\ Evaluate(rules, ctx) = f[Len(rules)].out
<1> DEFINE g == CHOOSE f : AllRuled(f, rules, ctx, Len(rules))
<1>1. AllRuled(g, rules, ctx, Len(rules))
  <2>1. \E f : AllRuled(f, rules, ctx, Len(rules))
    BY RuledExists
  <2>2. QED
    BY <2>1
<1>2. Evaluate(rules, ctx) = g[Len(rules)].out
  BY DEF Evaluate, AllRuled, Ruled, NothingYet
<1>3. QED
  BY <1>1, <1>2

LEMMA InOrderIs ==
  ASSUME NEW rules, NEW ctx, Len(rules) \in Nat
  PROVE  \E f : /\ AllListed(f, rules, ctx, Len(rules))
                /\ InOrder(rules, ctx) = f[Len(rules)]
<1> DEFINE g == CHOOSE f : AllListed(f, rules, ctx, Len(rules))
<1>1. AllListed(g, rules, ctx, Len(rules))
  <2>1. \E f : AllListed(f, rules, ctx, Len(rules))
    BY ListedExists
  <2>2. QED
    BY <2>1
<1>2. InOrder(rules, ctx) = g[Len(rules)]
  BY DEF InOrder, AllListed, Listed
<1>3. QED
  BY <1>1, <1>2

(* evaluate() is over once a rule has fired that stops.                     *)
StoppedBy(n, rules, ctx) == \E i \in 1 .. n : Fires(rules[i], ctx) /\ rules[i].stop

(* evaluate() yields the actions of the rules that match and follow no rule *)
(* that fired and stops, in file order, whatever the rules file.            *)
THEOREM RulesInFileOrder ==
  ASSUME NEW S, NEW rules \in Seq(S), NEW ctx
  PROVE  Evaluate(rules, ctx) = InOrder(rules, ctx)
<1> DEFINE m == Len(rules)
<1>1. m \in Nat /\ DOMAIN rules = 1 .. m
  OBVIOUS
<1>2. PICK f : /\ AllRuled(f, rules, ctx, m)
               /\ Evaluate(rules, ctx) = f[m].out
  BY <1>1, EvaluateIs
<1>3. PICK g : /\ AllListed(g, rules, ctx, m)
               /\ InOrder(rules, ctx) = g[m]
  BY <1>1, InOrderIs
<1> HIDE DEF m
<1>4. /\ \A k \in 0 .. m : f[k] = IF k = 0 THEN NothingYet ELSE Ruled(f[k - 1], rules[k], ctx)
      /\ \A k \in 0 .. m : g[k] = IF k = 0 THEN <<>> ELSE Listed(g[k - 1], k, rules, ctx)
  BY <1>2, <1>3 DEF AllRuled, AllListed
<1> DEFINE T == {n \in Nat : n <= m => f[n].out = g[n] /\ (f[n].over <=> StoppedBy(n, rules, ctx))}
<1>5. 0 \in T
  <2>1. f[0] = NothingYet /\ g[0] = <<>>
    <3> HIDE DEF T
    <3>1. 0 \in 0 .. m
      BY <1>1
    <3>2. f[0] = IF 0 = 0 THEN NothingYet ELSE Ruled(f[0 - 1], rules[0], ctx)
      BY <1>4, <3>1
    <3>3. g[0] = IF 0 = 0 THEN <<>> ELSE Listed(g[0 - 1], 0, rules, ctx)
      BY <1>4, <3>1
    <3>4. QED
      BY <3>2, <3>3
  <2>2. ~StoppedBy(0, rules, ctx)
    BY DEF StoppedBy
  <2>3. QED
    BY <2>1, <2>2 DEF NothingYet
<1>6. ASSUME NEW n \in Nat, n \in T PROVE n + 1 \in T
  <2> SUFFICES ASSUME n + 1 <= m
               PROVE  f[n + 1].out = g[n + 1] /\ (f[n + 1].over <=> StoppedBy(n + 1, rules, ctx))
    OBVIOUS
  <2>1. f[n].out = g[n] /\ (f[n].over <=> StoppedBy(n, rules, ctx))
    BY <1>1, <1>6
  <2>2. f[n + 1] = Ruled(f[n], rules[n + 1], ctx) /\ g[n + 1] = Listed(g[n], n + 1, rules, ctx)
    <3>1. n + 1 \in 0 .. m /\ n + 1 # 0 /\ (n + 1) - 1 = n
      BY <1>1
    <3>2. QED
      BY <1>4, <3>1
  <2>3. StoppedBy(n + 1, rules, ctx) <=>
          StoppedBy(n, rules, ctx) \/ (Fires(rules[n + 1], ctx) /\ rules[n + 1].stop)
    <3>1. \A i : i \in 1 .. n + 1 <=> i \in 1 .. n \/ i = n + 1
      OBVIOUS
    <3>2. QED
      BY <3>1 DEF StoppedBy
  <2>4. n + 1 \in Fired(rules, ctx) <=> Fires(rules[n + 1], ctx) /\ ~StoppedBy(n, rules, ctx)
    <3>1. n + 1 \in DOMAIN rules /\ (n + 1) - 1 = n
      BY <1>1
    <3>2. QED
      BY <3>1 DEF Fired, StoppedBy
  <2>5. CASE StoppedBy(n, rules, ctx)
    <3>1. f[n + 1] = f[n]
      BY <2>1, <2>2, <2>5 DEF Ruled
    <3>2. g[n + 1] = g[n]
      BY <2>2, <2>4, <2>5 DEF Listed
    <3>3. QED
      BY <2>1, <2>3, <2>5, <3>1, <3>2
  <2>6. CASE ~StoppedBy(n, rules, ctx)
    <3>1. f[n + 1] = [out |-> IF Fires(rules[n + 1], ctx) THEN f[n].out \o Actions(rules[n + 1], ctx)
                              ELSE f[n].out,
                      over |-> Stops(rules[n + 1], ctx)]
      BY <2>1, <2>2, <2>6 DEF Ruled
    <3>2. g[n + 1] = IF Fires(rules[n + 1], ctx) THEN g[n] \o Actions(rules[n + 1], ctx) ELSE g[n]
      BY <2>2, <2>4, <2>6 DEF Listed
    <3>3. f[n + 1].out = g[n + 1] /\ f[n + 1].over = Stops(rules[n + 1], ctx)
      BY <2>1, <3>1, <3>2
    <3>4. QED
      BY <2>3, <2>6, <3>3 DEF Stops
  <2>7. QED
    BY <2>5, <2>6
<1>7. \A n \in Nat : n \in T
  <2> HIDE DEF T
  <2>1. QED
    BY <1>5, <1>6, SetInduction
<1>8. QED
  <2>1. m \in T /\ m <= m
    BY <1>1, <1>7
  <2>2. QED
    BY <1>2, <1>3, <2>1

(* If at most one rule fires, its actions are all there is.                 *)
LEMMA OneFires ==
  ASSUME NEW S, NEW rules \in Seq(S), NEW ctx, NEW k \in Nat, Fired(rules, ctx) \subseteq {k},
         NEW Y, Actions(rules[k], ctx) \in Seq(Y)
  PROVE  InOrder(rules, ctx) = IF k \in Fired(rules, ctx) THEN Actions(rules[k], ctx) ELSE <<>>
<1> DEFINE m == Len(rules)
           acts == Actions(rules[k], ctx)
           F == Fired(rules, ctx)
<1>1. m \in Nat /\ DOMAIN rules = 1 .. m
  OBVIOUS
<1>2. PICK g : AllListed(g, rules, ctx, m) /\ InOrder(rules, ctx) = g[m]
  BY <1>1, InOrderIs
<1> HIDE DEF m
<1>3. \A n \in 0 .. m : g[n] = IF n = 0 THEN <<>> ELSE Listed(g[n - 1], n, rules, ctx)
  BY <1>2 DEF AllListed
<1>4. <<>> \o acts = acts
  OBVIOUS
<1>5. \A n \in 1 .. m : g[n] = IF n \in F THEN g[n - 1] \o acts ELSE g[n - 1]
  BY <1>1, <1>3 DEF Listed
<1>6. F \subseteq 1 .. m
  BY <1>1 DEF Fired
<1> HIDE DEF acts, F
<1> DEFINE T == {n \in Nat : n <= m => g[n] = IF k \in F /\ k <= n THEN acts ELSE <<>>}
<1>7. 0 \in T
  <2>1. g[0] = <<>>
    BY <1>1, <1>3
  <2>2. ~(k \in F /\ k <= 0)
    BY <1>6
  <2>3. QED
    BY <2>1, <2>2
<1>8. ASSUME NEW n \in Nat, n \in T PROVE n + 1 \in T
  <2> SUFFICES ASSUME n + 1 <= m
               PROVE  g[n + 1] = IF k \in F /\ k <= n + 1 THEN acts ELSE <<>>
    OBVIOUS
  <2>1. g[n] = IF k \in F /\ k <= n THEN acts ELSE <<>>
    BY <1>1, <1>8
  <2>2. g[n + 1] = IF n + 1 \in F THEN g[n] \o acts ELSE g[n]
    <3>1. n + 1 \in 1 .. m /\ (n + 1) - 1 = n
      BY <1>1
    <3>2. QED
      BY <1>5, <3>1
  <2>3. n + 1 \in F => k = n + 1
    BY DEF F
  <2>4. CASE n + 1 \in F
    <3>1. g[n] = <<>> /\ k \in F /\ k <= n + 1
      BY <2>1, <2>3, <2>4
    <3>2. QED
      BY <1>4, <2>2, <2>4, <3>1
  <2>5. CASE n + 1 \notin F
    <3>1. k \in F => (k <= n + 1 <=> k <= n)
      BY <2>5
    <3>2. QED
      BY <2>1, <2>2, <2>5, <3>1
  <2>6. QED
    BY <2>4, <2>5
<1>9. \A n \in Nat : n \in T
  <2> HIDE DEF T
  <2>1. QED
    BY <1>7, <1>8, SetInduction
<1>10. QED
  <2>1. g[m] = IF k \in F /\ k <= m THEN acts ELSE <<>>
    BY <1>1, <1>9
  <2>2. k \in F => k <= m
    BY <1>6
  <2>3. QED
    BY <1>2, <2>1, <2>2 DEF acts, F

AnswerOf(allow) == [act |-> "allow", dev |-> allow, remember |-> FALSE, stream |-> 0]

LEMMA PolicyRule ==
  ASSUME NEW app, NEW application
  PROVE  /\ Fires(AsRule(app), Opening(application)) <=> GlobMatchCI(app.name, application)
         /\ AsRule(app).stop
         /\ Actions(AsRule(app), Opening(application)) = <<AnswerOf(app.allow)>>
<1> DEFINE ctx == Opening(application)
           rule == AsRule(app)
           spec == [act |-> "allow", to |-> app.allow, remember |-> FALSE]
<1>1. /\ rule.enabled /\ rule.stop /\ rule.when = ctx.trigger
      /\ rule.match = [application |-> app.name]
      /\ rule.action = <<spec>>
  BY DEF AsRule, Opening
<1>2. ctx.stream = {[key |-> 1, application |-> application]}
  BY DEF Opening
<1> HIDE DEF ctx, rule
<1>3. RuleMatches(rule.match, ctx) <=> GlobMatchCI(app.name, application)
  <2> DEFINE m == rule.match
  <2>1. DOMAIN m = {"application"} /\ m["application"] = app.name
    BY <1>1
  <2> HIDE DEF m
  <2>2. "profile" \notin DOMAIN m /\ DeviceConditions \cap DOMAIN m = {} /\ "application" \in DOMAIN m
    BY <2>1 DEF DeviceConditions
  <2>3. RuleMatches(m, ctx) <=> \E s \in ctx.stream : GlobMatchCI(app.name, s.application)
    BY <2>1, <2>2 DEF RuleMatches
  <2>4. (\E s \in ctx.stream : GlobMatchCI(app.name, s.application)) <=> GlobMatchCI(app.name, application)
    BY <1>2
  <2>5. QED
    BY <2>3, <2>4 DEF m
<1>4. Fires(rule, ctx) <=> GlobMatchCI(app.name, application)
  BY <1>1, <1>3 DEF Fires
<1>5. ResolveAction(spec, ctx) = {AnswerOf(app.allow)}
  BY DEF ResolveAction, AnswerOf
<1>6. AsSequence({AnswerOf(app.allow)}) = <<AnswerOf(app.allow)>>
  BY DEF AsSequence
<1>7. Actions(rule, ctx) = <<AnswerOf(app.allow)>>
  <2> DEFINE one == <<AnswerOf(app.allow)>>
             IsOut(f) == f = [n \in 0 .. 1 |->
                                IF n = 0 THEN <<>>
                                ELSE f[n - 1] \o AsSequence(ResolveAction(rule.action[n], ctx))]
             h == [n \in 0 .. 1 |-> IF n = 0 THEN <<>> ELSE one]
             g == CHOOSE f : IsOut(f)
  <2>1. Len(rule.action) = 1 /\ AsSequence(ResolveAction(rule.action[1], ctx)) = one
    <3>1. rule.action = <<spec>>
      BY <1>1
    <3> HIDE DEF spec, h, g, IsOut
    <3>2. Len(rule.action) = 1 /\ rule.action[1] = spec
      BY <3>1
    <3>3. QED
      BY <1>5, <1>6, <3>2
  <2>2. <<>> \o one = one
    OBVIOUS
  <2>3. IsOut(h)
    <3>1. \A n \in 0 .. 1 : n = 0 \/ n = 1
      OBVIOUS
    <3>2. h[0] = <<>> /\ h[1] = one
      OBVIOUS
    <3>3. \A n \in 0 .. 1 : h[n] = IF n = 0 THEN <<>>
                                   ELSE h[n - 1] \o AsSequence(ResolveAction(rule.action[n], ctx))
      <4> HIDE DEF h, one
      <4>0. 1 - 1 = 0
        OBVIOUS
      <4>1. h[1] = h[1 - 1] \o AsSequence(ResolveAction(rule.action[1], ctx))
        BY <2>1, <2>2, <3>2, <4>0
      <4>2. QED
        BY <3>1, <3>2, <4>1
    <3>4. h = [n \in 0 .. 1 |-> h[n]]
      OBVIOUS
    <3> HIDE DEF h, one
    <3>5. QED
      BY <3>3, <3>4
  <2>4. IsOut(g)
    <3> HIDE DEF IsOut, h
    <3> QED
      BY <2>3
  <2>5. Actions(rule, ctx) = g[1]
    BY <2>1 DEF Actions
  <2>6. g[1] = g[0] \o AsSequence(ResolveAction(rule.action[1], ctx)) /\ g[0] = <<>>
    <3> HIDE DEF g
    <3> QED
      BY <2>4
  <2> HIDE DEF g, one
  <2>7. QED
    BY <2>1, <2>2, <2>5, <2>6 DEF one
<1>8. QED
  BY <1>1, <1>4, <1>7 DEF ctx, rule

(* The first [[app]] that matches decides, whatever the policy: a policy is *)
(* a rules file in which every rule stops.                                  *)
THEOREM PolicyMeansRules ==
  ASSUME NEW S, NEW app \in Seq(S), NEW default, NEW application
  PROVE  PolicyIsRules(app, default, application)
<1> DEFINE rules == [i \in DOMAIN app |-> AsRule(app[i])]
           ctx == Opening(application)
           matching == {i \in DOMAIN app : GlobMatchCI(app[i].name, application)}
           All == {AsRule(a) : a \in S}
           F == Fired(rules, ctx)
           answer == Evaluate(rules, ctx)
           policy == [app |-> app, default |-> default]
           checked == CheckMicrophone(policy, application)
<1>1. Len(app) \in Nat /\ DOMAIN app = 1 .. Len(app) /\ \A i \in DOMAIN app : app[i] \in S
  OBVIOUS
<1>2. rules \in Seq(All) /\ DOMAIN rules = DOMAIN app
  BY <1>1
<1>3. \A i \in DOMAIN app : /\ Fires(rules[i], ctx) <=> i \in matching
                            /\ rules[i].stop
                            /\ Actions(rules[i], ctx) = <<AnswerOf(app[i].allow)>>
  <2> TAKE i \in DOMAIN app
  <2>1. rules[i] = AsRule(app[i])
    OBVIOUS
  <2> HIDE DEF rules
  <2>2. QED
    BY <2>1, PolicyRule
<1> HIDE DEF rules, ctx, All
<1>4. F = {i \in matching : \A j \in 1 .. i - 1 : j \notin matching}
  <2>1. \A i \in DOMAIN app : \A j \in 1 .. i - 1 : j \in DOMAIN app
    BY <1>1
  <2>2. F = {i \in DOMAIN app : i \in matching /\ \A j \in 1 .. i - 1 : j \notin matching}
    BY <1>2, <1>3, <2>1 DEF Fired
  <2>3. QED
    BY <2>2
<1>5. answer = InOrder(rules, ctx)
  BY <1>2, RulesInFileOrder
<1>6. checked = IF matching = {} THEN default
                ELSE app[CHOOSE i \in matching : \A j \in matching : i <= j].allow
  BY DEF CheckMicrophone
<1>7. matching \subseteq Nat
  BY <1>1
<1>8. checked = IF answer = <<>> THEN default ELSE answer[1].dev
  <2>1. CASE matching = {}
    <3>1. F = {}
      BY <1>4, <2>1
    <3>2. InOrder(rules, ctx) = <<>>
      <4>1. CASE app = <<>>
        <5>1. Len(rules) = 0
          BY <1>2, <4>1
        <5>2. PICK g : AllListed(g, rules, ctx, 0) /\ InOrder(rules, ctx) = g[0]
          BY <5>1, InOrderIs
        <5>3. QED
          BY <5>2 DEF AllListed
      <4>2. CASE app # <<>>
        <5>1. 1 \in DOMAIN app
          BY <1>1, <4>2
        <5>2. Actions(rules[1], ctx) \in Seq({AnswerOf(app[1].allow)})
          <6>1. Actions(rules[1], ctx) = <<AnswerOf(app[1].allow)>>
            BY <1>3, <5>1
          <6>2. \A x : <<x>> \in Seq({x})
            OBVIOUS
          <6>3. QED
            BY <6>1, <6>2
        <5>3. QED
          BY <1>2, <3>1, <5>2, OneFires
      <4>3. QED
        BY <4>1, <4>2
    <3>3. QED
      BY <1>5, <1>6, <2>1, <3>2
  <2>2. CASE matching # {}
    <3> DEFINE k == CHOOSE i \in matching : \A j \in matching : i <= j
    <3>1. k \in matching /\ \A j \in matching : k <= j
      <4>1. \E i \in matching : \A j \in matching : i <= j
        BY <1>7, <2>2, Least
      <4>2. QED
        BY <4>1
    <3> HIDE DEF k
    <3>2. k \in DOMAIN app /\ k \in Nat
      BY <1>7, <3>1
    <3> HIDE DEF matching
    <3>3. F = {k}
      <4>1. k \in F
        BY <1>4, <1>7, <3>1, <3>2
      <4>2. \A i \in F : i = k
        <5> TAKE i \in F
        <5>1. i \in matching /\ \A j \in 1 .. i - 1 : j \notin matching
          BY <1>4
        <5>2. k <= i /\ i \in Nat
          BY <1>7, <3>1, <5>1
        <5>3. k >= 1
          BY <1>1, <3>2
        <5>4. ~(k \in 1 .. i - 1)
          BY <3>1, <5>1
        <5>5. QED
          BY <3>2, <5>2, <5>3, <5>4
      <4>3. QED
        BY <4>1, <4>2
    <3>4. Actions(rules[k], ctx) = <<AnswerOf(app[k].allow)>>
      BY <1>3, <3>2
    <3>5. answer = <<AnswerOf(app[k].allow)>>
      <4>1. Actions(rules[k], ctx) \in Seq({AnswerOf(app[k].allow)})
        BY <3>4
      <4>2. F \subseteq {k} /\ k \in F
        BY <3>3
      <4> HIDE DEF answer
      <4>3. InOrder(rules, ctx) = Actions(rules[k], ctx)
        BY <1>2, <3>2, <4>1, <4>2, OneFires
      <4>4. QED
        BY <1>5, <3>4, <4>3
    <3> HIDE DEF answer, checked
    <3>6. answer # <<>> /\ answer[1].dev = app[k].allow
      BY <3>5 DEF AnswerOf
    <3>7. checked = app[k].allow
      BY <1>6, <2>2 DEF k
    <3>8. QED
      BY <3>6, <3>7
  <2>3. QED
    BY <2>1, <2>2
<1>9. QED
  BY <1>8 DEF PolicyIsRules, rules, ctx

-----------------------------------------------------------------------------
(* The matcher ends                                                         *)

(* One round of the loop of glob_match(), given the answers of later ones.  *)
Round(f, at, p, t) ==
  IF at.ti > Len(t) THEN \A i \in at.pi .. Len(p) : p[i] = "*"
  ELSE IF at.pi <= Len(p) /\ Fits(p[at.pi], t[at.ti]) THEN f[Advance(at)]
  ELSE IF at.pi <= Len(p) /\ p[at.pi] = "*" THEN f[TakeNone(at)]
  ELSE at.star # NoStar /\ f[Retry(at)]
IsMatcher(f, p, t) == f = [at \in Places(p, t) |-> Round(f, at, p, t)]

(* Every round but the last moves the star or what it takes, or else the    *)
(* place in the pattern.                                                    *)
Left(at, p, t) ==
  (Len(p) + Len(t) + 2 - (at.star + at.from)) * (Len(p) + 2) + (Len(p) + 1 - at.pi)

LEMMA Times ==
  ASSUME NEW x \in Nat, NEW y \in Nat, NEW z \in Nat, x <= y
  PROVE  x * z \in Nat /\ y * z \in Nat /\ x * z <= y * z /\ (x + 1) * z = x * z + z
OBVIOUS

LEMMA PlaceType ==
  ASSUME NEW p, NEW t, Len(p) \in Nat, Len(t) \in Nat
  PROVE  \A at : at \in Places(p, t) <=>
           /\ at = [pi |-> at.pi, ti |-> at.ti, star |-> at.star, from |-> at.from]
           /\ at.pi \in Nat /\ at.ti \in Nat /\ at.star \in Nat /\ at.from \in Nat
           /\ 1 <= at.pi /\ at.pi <= Len(p) + 1 /\ 1 <= at.ti /\ at.ti <= Len(t) + 1
           /\ at.star <= Len(p) /\ at.from <= Len(t) + 1
           /\ at.star < at.pi /\ at.from <= at.ti
BY DEF Places

LEMMA LeftNat ==
  ASSUME NEW p, NEW t, Len(p) \in Nat, Len(t) \in Nat, NEW at \in Places(p, t)
  PROVE  /\ Left(at, p, t) \in Nat
         /\ Left(at, p, t) < (Len(p) + Len(t) + 2) * (Len(p) + 2) + (Len(p) + 2)
<1> DEFINE a == Len(p) + Len(t) + 2 - (at.star + at.from)
           b == Len(p) + Len(t) + 2
           w == Len(p) + 2
           r == Len(p) + 1 - at.pi
<1>1. a \in Nat /\ b \in Nat /\ w \in Nat /\ a <= b /\ r \in Nat /\ r < w
  BY PlaceType
<1>2. Left(at, p, t) = a * w + r
  BY DEF Left
<1> HIDE DEF a, b, w, r
<1>3. a * w \in Nat /\ a * w <= b * w /\ b * w \in Nat
  BY <1>1, Times
<1>4. Left(at, p, t) \in Nat /\ Left(at, p, t) < b * w + w
  BY <1>1, <1>2, <1>3
<1>5. QED
  BY <1>4 DEF b, w

LEMMA LeftLess ==
  ASSUME NEW p, NEW t, Len(p) \in Nat, Len(t) \in Nat,
         NEW at \in Places(p, t), NEW next \in Places(p, t),
         \/ at.star + at.from < next.star + next.from
         \/ at.star + at.from = next.star + next.from /\ at.pi < next.pi
  PROVE  Left(next, p, t) < Left(at, p, t)
<1> DEFINE a == Len(p) + Len(t) + 2 - (at.star + at.from)
           b == Len(p) + Len(t) + 2 - (next.star + next.from)
           w == Len(p) + 2
           r == Len(p) + 1 - at.pi
           s == Len(p) + 1 - next.pi
<1>1. /\ a \in Nat /\ b \in Nat /\ w \in Nat /\ r \in Nat /\ s \in Nat /\ s < w
      /\ b + 1 <= a \/ (a = b /\ s < r)
  <2>1. /\ at.pi \in Nat /\ at.star \in Nat /\ at.from \in Nat
        /\ 1 <= at.pi /\ at.pi <= Len(p) + 1 /\ at.star <= Len(p) /\ at.from <= Len(t) + 1
    BY PlaceType
  <2>2. /\ next.pi \in Nat /\ next.star \in Nat /\ next.from \in Nat
        /\ 1 <= next.pi /\ next.pi <= Len(p) + 1 /\ next.star <= Len(p) /\ next.from <= Len(t) + 1
    BY PlaceType
  <2>3. a \in Nat /\ b \in Nat /\ w \in Nat /\ r \in Nat /\ s \in Nat /\ s < w
    <3>1. a \in Nat /\ r \in Nat
      <4>1. at.star + at.from <= Len(p) + Len(t) + 1
        BY <2>1
      <4>2. a \in Nat
        BY <2>1, <4>1
      <4>3. r \in Nat
        BY <2>1
      <4>4. QED
        BY <4>2, <4>3
    <3>2. b \in Nat
      <4>1. next.star + next.from <= Len(p) + Len(t) + 1
        BY <2>2
      <4>2. QED
        BY <2>2, <4>1
    <3>3. s \in Nat /\ s < w
      BY <2>2
    <3>4. w \in Nat
      OBVIOUS
    <3>5. QED
      BY <3>1, <3>2, <3>3, <3>4
  <2>4. CASE at.star + at.from < next.star + next.from
    <3>1. b + 1 <= a
      BY <2>1, <2>2, <2>4
    <3>2. QED
      BY <2>3, <3>1
  <2>5. CASE at.star + at.from = next.star + next.from /\ at.pi < next.pi
    <3>1. a = b
      BY <2>5
    <3>2. s < r
      BY <2>1, <2>2, <2>5
    <3>3. QED
      BY <2>3, <3>1, <3>2
  <2>6. QED
    BY <2>4, <2>5
<1>2. Left(at, p, t) = a * w + r /\ Left(next, p, t) = b * w + s
  BY DEF Left
<1> HIDE DEF a, b, w, r, s
<1>3. a * w \in Nat /\ b * w \in Nat /\ (b + 1) * w = b * w + w
  BY <1>1, Times
<1>4. CASE b + 1 <= a
  <2>1. (b + 1) * w <= a * w
    BY <1>1, <1>4, Times
  <2>2. QED
    BY <1>1, <1>2, <1>3, <2>1
<1>5. CASE a = b /\ s < r
  BY <1>1, <1>2, <1>3, <1>5
<1>6. QED
  BY <1>1, <1>4, <1>5

LEMMA Rounds ==
  ASSUME NEW p, NEW t, Len(p) \in Nat, Len(t) \in Nat, NEW at \in Places(p, t), at.ti <= Len(t)
  PROVE  /\ at.pi <= Len(p) =>
              /\ Advance(at) \in Places(p, t) /\ Left(Advance(at), p, t) < Left(at, p, t)
              /\ Advance(at).pi = at.pi + 1 /\ Advance(at).ti = at.ti + 1
              /\ Advance(at).star = at.star /\ Advance(at).from = at.from
         /\ at.pi <= Len(p) =>
              /\ TakeNone(at) \in Places(p, t) /\ Left(TakeNone(at), p, t) < Left(at, p, t)
              /\ TakeNone(at).pi = at.pi + 1 /\ TakeNone(at).ti = at.ti
              /\ TakeNone(at).star = at.pi /\ TakeNone(at).from = at.ti
         /\ at.star # NoStar =>
              /\ Retry(at) \in Places(p, t) /\ Left(Retry(at), p, t) < Left(at, p, t)
              /\ Retry(at).pi = at.star + 1 /\ Retry(at).ti = at.from + 1
              /\ Retry(at).star = at.star /\ Retry(at).from = at.from + 1
<1>1. /\ at = [pi |-> at.pi, ti |-> at.ti, star |-> at.star, from |-> at.from]
      /\ at.pi \in Nat /\ at.ti \in Nat /\ at.star \in Nat /\ at.from \in Nat
      /\ 1 <= at.pi /\ at.pi <= Len(p) + 1 /\ 1 <= at.ti /\ at.ti <= Len(t) + 1
      /\ at.star <= Len(p) /\ at.from <= Len(t) + 1
      /\ at.star < at.pi /\ at.from <= at.ti
  BY PlaceType
<1>2. ASSUME at.pi <= Len(p)
      PROVE  /\ Advance(at) \in Places(p, t) /\ Left(Advance(at), p, t) < Left(at, p, t)
             /\ Advance(at).pi = at.pi + 1 /\ Advance(at).ti = at.ti + 1
             /\ Advance(at).star = at.star /\ Advance(at).from = at.from
  <2> DEFINE n == Advance(at)
  <2>1. n = [pi |-> at.pi + 1, ti |-> at.ti + 1, star |-> at.star, from |-> at.from]
    BY DEF Advance
  <2> HIDE DEF n
  <2>2. n.pi = at.pi + 1 /\ n.ti = at.ti + 1 /\ n.star = at.star /\ n.from = at.from
    BY <2>1
  <2>3. n = [pi |-> n.pi, ti |-> n.ti, star |-> n.star, from |-> n.from]
    BY <2>1
  <2>4. n \in Places(p, t)
    BY <1>1, <1>2, <2>2, <2>3, PlaceType
  <2>5. Left(n, p, t) < Left(at, p, t)
    BY <1>1, <2>2, <2>4, LeftLess
  <2>6. QED
    BY <2>2, <2>4, <2>5 DEF n
<1>3. ASSUME at.pi <= Len(p)
      PROVE  /\ TakeNone(at) \in Places(p, t) /\ Left(TakeNone(at), p, t) < Left(at, p, t)
             /\ TakeNone(at).pi = at.pi + 1 /\ TakeNone(at).ti = at.ti
             /\ TakeNone(at).star = at.pi /\ TakeNone(at).from = at.ti
  <2> DEFINE n == TakeNone(at)
  <2>1. n = [pi |-> at.pi + 1, ti |-> at.ti, star |-> at.pi, from |-> at.ti]
    BY DEF TakeNone
  <2> HIDE DEF n
  <2>2. n.pi = at.pi + 1 /\ n.ti = at.ti /\ n.star = at.pi /\ n.from = at.ti
    BY <2>1
  <2>3. n = [pi |-> n.pi, ti |-> n.ti, star |-> n.star, from |-> n.from]
    BY <2>1
  <2>4. n \in Places(p, t)
    BY <1>1, <1>3, <2>2, <2>3, PlaceType
  <2>5. Left(n, p, t) < Left(at, p, t)
    BY <1>1, <2>2, <2>4, LeftLess
  <2>6. QED
    BY <2>2, <2>4, <2>5 DEF n
<1>4. ASSUME at.star # NoStar
      PROVE  /\ Retry(at) \in Places(p, t) /\ Left(Retry(at), p, t) < Left(at, p, t)
             /\ Retry(at).pi = at.star + 1 /\ Retry(at).ti = at.from + 1
             /\ Retry(at).star = at.star /\ Retry(at).from = at.from + 1
  <2> DEFINE n == Retry(at)
  <2>1. n = [pi |-> at.star + 1, ti |-> at.from + 1, star |-> at.star, from |-> at.from + 1]
    BY DEF Retry
  <2> HIDE DEF n
  <2>2. n.pi = at.star + 1 /\ n.ti = at.from + 1 /\ n.star = at.star /\ n.from = at.from + 1
    BY <2>1
  <2>3. n = [pi |-> n.pi, ti |-> n.ti, star |-> n.star, from |-> n.from]
    BY <2>1
  <2>4. n \in Places(p, t)
    BY <1>1, <1>4, <2>2, <2>3, PlaceType
  <2>5. Left(n, p, t) < Left(at, p, t)
    BY <1>1, <2>2, <2>4, LeftLess
  <2>6. QED
    BY <2>2, <2>4, <2>5 DEF n
<1>5. QED
  BY <1>2, <1>3, <1>4

LEMMA RoundLocal ==
  ASSUME NEW p, NEW t, Len(p) \in Nat, Len(t) \in Nat, NEW at \in Places(p, t), NEW f, NEW g,
         \A b \in Places(p, t) : Left(b, p, t) < Left(at, p, t) => f[b] = g[b]
  PROVE  Round(f, at, p, t) = Round(g, at, p, t)
<1>1. CASE at.ti > Len(t)
  BY <1>1 DEF Round
<1>2. CASE ~(at.ti > Len(t))
  <2>1. at.ti <= Len(t)
    BY <1>2, PlaceType
  <2>2. /\ at.pi <= Len(p) => f[Advance(at)] = g[Advance(at)] /\ f[TakeNone(at)] = g[TakeNone(at)]
        /\ at.star # NoStar => f[Retry(at)] = g[Retry(at)]
    BY <2>1, Rounds
  <2>3. QED
    BY <1>2, <2>2 DEF Round
<1>3. QED
  BY <1>1, <1>2

LEMMA MatcherExists ==
  ASSUME NEW p, NEW t, Len(p) \in Nat, Len(t) \in Nat
  PROVE  \E f : IsMatcher(f, p, t)
<1> DEFINE D == Places(p, t)
           m(at) == Left(at, p, t)
           Good(f, n) == /\ f = [at \in D |-> f[at]]
                         /\ \A at \in D : m(at) < n => f[at] = Round(f, at, p, t)
           S == {n \in Nat : \E f : Good(f, n)}
<1>1. \A at \in D : m(at) \in Nat
  BY LeftNat
<1>2. 0 \in S
  <2> DEFINE f == [at \in D |-> TRUE]
  <2> HIDE DEF D
  <2>1. f = [at \in D |-> f[at]]
    OBVIOUS
  <2>2. \A at \in D : ~(m(at) < 0)
    <3> HIDE DEF m
    <3> QED
      BY <1>1
  <2> HIDE DEF f, m
  <2>3. Good(f, 0)
    BY <2>1, <2>2
  <2>4. QED
    BY <2>3
<1>3. ASSUME NEW n \in Nat, n \in S PROVE n + 1 \in S
  <2>1. PICK f : Good(f, n)
    BY <1>3
  <2> DEFINE g == [at \in D |-> IF m(at) < n THEN f[at] ELSE Round(f, at, p, t)]
  <2>2. ASSUME NEW at \in D, m(at) < n + 1 PROVE g[at] = Round(g, at, p, t)
    <3>1. g[at] = Round(f, at, p, t)
      <4> HIDE DEF D, m
      <4>1. g[at] = IF m(at) < n THEN f[at] ELSE Round(f, at, p, t)
        OBVIOUS
      <4>2. QED
        BY <2>1, <4>1
    <3>2. \A b \in D : m(b) < m(at) => f[b] = g[b]
      <4> TAKE b \in D
      <4> HIDE DEF D, m
      <4>1. m(b) < m(at) => m(b) < n
        BY <1>1, <2>2
      <4>2. QED
        BY <4>1
    <3> HIDE DEF g
    <3>3. Round(f, at, p, t) = Round(g, at, p, t)
      BY <3>2, RoundLocal
    <3>4. QED
      BY <3>1, <3>3
  <2>3. g = [at \in D |-> g[at]]
    OBVIOUS
  <2> HIDE DEF g, D, m
  <2>4. Good(g, n + 1)
    BY <2>2, <2>3
  <2>5. QED
    BY <2>4
<1>4. \A n \in Nat : n \in S
  <2> HIDE DEF S
  <2>1. QED
    BY <1>2, <1>3, SetInduction
<1>5. PICK N \in Nat : \A at \in D : m(at) < N
  <2> DEFINE w == (Len(p) + Len(t) + 2) * (Len(p) + 2) + (Len(p) + 2)
  <2>1. w \in Nat
    <3>1. Len(p) + Len(t) + 2 \in Nat /\ Len(p) + 2 \in Nat
      OBVIOUS
    <3>2. (Len(p) + Len(t) + 2) * (Len(p) + 2) \in Nat
      BY <3>1, Times
    <3>3. QED
      BY <3>1, <3>2
  <2>2. \A at \in D : m(at) < w
    BY LeftNat
  <2> HIDE DEF w, m, D
  <2>3. QED
    BY <2>1, <2>2
<1>6. PICK f : Good(f, N)
  BY <1>4
<1>7. \A at \in D : f[at] = Round(f, at, p, t)
  BY <1>5, <1>6
<1>8. f = [at \in D |-> Round(f, at, p, t)]
  <2> HIDE DEF D, m
  <2> QED
    BY <1>6, <1>7
<1>9. QED
  BY <1>8 DEF IsMatcher

-----------------------------------------------------------------------------
(* What a pattern stands for, from its i-th character and the j-th one of   *)
(* the text on                                                              *)

Laid(f, i, j, p, t) ==
  /\ f \in [i .. Len(p) + 1 -> 1 .. Len(t) + 1]
  /\ f[i] = j /\ f[Len(p) + 1] = Len(t) + 1
  /\ \A k \in i .. Len(p) : Covers(p[k], t, f[k], f[k + 1])
Fit(i, j, p, t) == \E f : Laid(f, i, j, p, t)

LEMMA StandsIsFit ==
  ASSUME NEW p, NEW t, Len(p) \in Nat, Len(t) \in Nat
  PROVE  Stands(p, t) <=> Fit(1, 1, p, t)
BY DEF Stands, Fit, Laid

LEMMA FitEnd ==
  ASSUME NEW p, NEW t, Len(p) \in Nat, Len(t) \in Nat, NEW j \in 1 .. Len(t) + 1
  PROVE  Fit(Len(p) + 1, j, p, t) <=> j = Len(t) + 1
<1> DEFINE n == Len(p) + 1
<1>1. ASSUME Fit(n, j, p, t) PROVE j = Len(t) + 1
  BY <1>1 DEF Fit, Laid
<1>2. ASSUME j = Len(t) + 1 PROVE Fit(n, j, p, t)
  <2> DEFINE f == [k \in n .. n |-> Len(t) + 1]
  <2>1. f \in [n .. n -> 1 .. Len(t) + 1] /\ f[n] = j
    BY <1>2
  <2>2. ~\E k : k \in n .. Len(p)
    OBVIOUS
  <2> HIDE DEF f
  <2>3. Laid(f, n, j, p, t)
    BY <1>2, <2>1, <2>2 DEF Laid
  <2>4. QED
    BY <2>3 DEF Fit
<1>3. QED
  BY <1>1, <1>2

LEMMA FitStep ==
  ASSUME NEW p, NEW t, Len(p) \in Nat, Len(t) \in Nat,
         NEW i \in 1 .. Len(p), NEW j \in 1 .. Len(t) + 1
  PROVE  Fit(i, j, p, t) <=>
           \E k \in 1 .. Len(t) + 1 : Covers(p[i], t, j, k) /\ Fit(i + 1, k, p, t)
<1> DEFINE m == Len(p) + 1
           n == Len(t) + 1
<1>1. ASSUME Fit(i, j, p, t)
      PROVE  \E k \in 1 .. n : Covers(p[i], t, j, k) /\ Fit(i + 1, k, p, t)
  <2>1. PICK f : Laid(f, i, j, p, t)
    BY <1>1 DEF Fit
  <2> DEFINE g == [k \in i + 1 .. m |-> f[k]]
  <2>2. /\ f \in [i .. m -> 1 .. n] /\ f[i] = j /\ f[m] = n
        /\ \A k \in i .. Len(p) : Covers(p[k], t, f[k], f[k + 1])
    BY <2>1 DEF Laid
  <2>3. f[i + 1] \in 1 .. n /\ Covers(p[i], t, j, f[i + 1])
    <3>1. i \in i .. Len(p) /\ i + 1 \in i .. m
      OBVIOUS
    <3>2. QED
      BY <2>2, <3>1
  <2>4. g \in [i + 1 .. m -> 1 .. n] /\ g[i + 1] = f[i + 1] /\ g[m] = n
    <3>1. i + 1 \in i + 1 .. m /\ m \in i + 1 .. m /\ \A k \in i + 1 .. m : k \in i .. m
      OBVIOUS
    <3>2. QED
      BY <2>2, <3>1
  <2>5. \A k \in i + 1 .. Len(p) : Covers(p[k], t, g[k], g[k + 1])
    <3> TAKE k \in i + 1 .. Len(p)
    <3>1. k \in i .. Len(p) /\ k \in i + 1 .. m /\ k + 1 \in i + 1 .. m
      OBVIOUS
    <3>2. g[k] = f[k] /\ g[k + 1] = f[k + 1]
      BY <3>1
    <3>3. QED
      BY <2>2, <3>1, <3>2
  <2> HIDE DEF g
  <2>6. Laid(g, i + 1, f[i + 1], p, t)
    BY <2>4, <2>5 DEF Laid
  <2>7. QED
    BY <2>3, <2>6 DEF Fit
<1>2. ASSUME NEW k \in 1 .. n, Covers(p[i], t, j, k), Fit(i + 1, k, p, t)
      PROVE  Fit(i, j, p, t)
  <2>1. PICK f : Laid(f, i + 1, k, p, t)
    BY <1>2 DEF Fit
  <2> DEFINE g == [x \in i .. m |-> IF x = i THEN j ELSE f[x]]
  <2>2. /\ f \in [i + 1 .. m -> 1 .. n] /\ f[i + 1] = k /\ f[m] = n
        /\ \A x \in i + 1 .. Len(p) : Covers(p[x], t, f[x], f[x + 1])
    BY <2>1 DEF Laid
  <2>3. \A x \in i .. m : x = i \/ x \in i + 1 .. m
    OBVIOUS
  <2>4. g \in [i .. m -> 1 .. n]
    BY <2>2, <2>3
  <2>5. g[i] = j /\ g[m] = n
    <3>1. i \in i .. m /\ m \in i .. m /\ m # i
      OBVIOUS
    <3>2. QED
      BY <2>2, <3>1
  <2>6. \A x \in i .. Len(p) : Covers(p[x], t, g[x], g[x + 1])
    <3> TAKE x \in i .. Len(p)
    <3>1. x \in i .. m /\ x + 1 \in i .. m /\ x + 1 # i
      OBVIOUS
    <3>2. g[x + 1] = f[x + 1]
      BY <3>1
    <3>3. CASE x = i
      <4>1. g[x] = j /\ g[x + 1] = k
        BY <2>2, <3>1, <3>2, <3>3
      <4>2. QED
        BY <1>2, <3>3, <4>1
    <3>4. CASE x # i
      <4>1. g[x] = f[x] /\ x \in i + 1 .. Len(p)
        BY <3>1, <3>4
      <4>2. QED
        BY <2>2, <3>2, <4>1
    <3>5. QED
      BY <3>3, <3>4
  <2> HIDE DEF g
  <2>7. Laid(g, i, j, p, t)
    BY <2>4, <2>5, <2>6 DEF Laid
  <2>8. QED
    BY <2>7 DEF Fit
<1>3. QED
  BY <1>1, <1>2

(* At the end of the text only stars are left.                              *)
LEMMA FitTail ==
  ASSUME NEW p, NEW t, Len(p) \in Nat, Len(t) \in Nat
  PROVE  \A i \in 1 .. Len(p) + 1 :
           Fit(i, Len(t) + 1, p, t) <=> \A k \in i .. Len(p) : p[k] = "*"
<1> DEFINE m == Len(p) + 1
           n == Len(t) + 1
           S == {x \in Nat : x < m =>
                   (Fit(m - x, n, p, t) <=> \A k \in m - x .. Len(p) : p[k] = "*")}
<1>1. 0 \in S
  <2>1. Fit(m, n, p, t)
    BY FitEnd
  <2>2. m - 0 = m /\ \A k \in m .. Len(p) : p[k] = "*"
    OBVIOUS
  <2> HIDE DEF m, n
  <2>3. QED
    BY <2>1, <2>2 DEF m
<1>2. ASSUME NEW x \in Nat, x \in S PROVE x + 1 \in S
  <2> SUFFICES ASSUME x + 1 < m
               PROVE  Fit(m - (x + 1), n, p, t) <=> \A k \in m - (x + 1) .. Len(p) : p[k] = "*"
    OBVIOUS
  <2> DEFINE i == m - (x + 1)
  <2>1. i \in 1 .. Len(p) /\ i + 1 = m - x
    OBVIOUS
  <2>2. Fit(i + 1, n, p, t) <=> \A k \in i + 1 .. Len(p) : p[k] = "*"
    BY <1>2, <2>1
  <2>3. n \in 1 .. n
    OBVIOUS
  <2> HIDE DEF i
  <2>4. Fit(i, n, p, t) <=> \E k \in 1 .. n : Covers(p[i], t, n, k) /\ Fit(i + 1, k, p, t)
    BY <2>1, <2>3, FitStep
  <2>5. \A k \in 1 .. n : Covers(p[i], t, n, k) <=> p[i] = "*" /\ k = n
    BY DEF Covers
  <2>6. Fit(i, n, p, t) <=> p[i] = "*" /\ Fit(i + 1, n, p, t)
    BY <2>3, <2>4, <2>5
  <2>7. \A k : k \in i .. Len(p) <=> k = i \/ k \in i + 1 .. Len(p)
    BY <2>1
  <2>8. Fit(i, n, p, t) <=> \A k \in i .. Len(p) : p[k] = "*"
    BY <2>2, <2>6, <2>7
  <2>9. QED
    BY <2>8 DEF i
<1>3. \A x \in Nat : x \in S
  <2> HIDE DEF S
  <2>1. QED
    BY <1>1, <1>2, SetInduction
<1>4. QED
  <2> TAKE i \in 1 .. m
  <2>1. m - i \in S /\ m - i < m /\ m - (m - i) = i
    BY <1>3
  <2>2. QED
    BY <2>1

(* A part of the pattern without a star covers as many characters.          *)
LEMMA FitPlain ==
  ASSUME NEW p, NEW t, Len(p) \in Nat, Len(t) \in Nat,
         NEW i \in 1 .. Len(p) + 1, NEW j \in 1 .. Len(t) + 1, Fit(i, j, p, t)
  PROVE  \A n \in Nat : i + n <= Len(p) + 1 /\ (\A k \in i .. i + n - 1 : p[k] # "*") =>
           j + n <= Len(t) + 1 /\ Fit(i + n, j + n, p, t)
<1> DEFINE Plain(n) == i + n <= Len(p) + 1 /\ \A k \in i .. i + n - 1 : p[k] # "*"
           S == {n \in Nat : Plain(n) => j + n <= Len(t) + 1 /\ Fit(i + n, j + n, p, t)}
<1>1. 0 \in S
  <2>1. i + 0 = i /\ j + 0 = j
    OBVIOUS
  <2>2. QED
    BY <2>1
<1>2. ASSUME NEW n \in Nat, n \in S PROVE n + 1 \in S
  <2> SUFFICES ASSUME Plain(n + 1)
               PROVE  j + (n + 1) <= Len(t) + 1 /\ Fit(i + (n + 1), j + (n + 1), p, t)
    OBVIOUS
  <2>1. i + n \in 1 .. Len(p) /\ p[i + n] # "*" /\ Plain(n)
    <3>1. i + n \in i .. i + (n + 1) - 1 /\ \A k \in i .. i + n - 1 : k \in i .. i + (n + 1) - 1
      OBVIOUS
    <3>2. QED
      BY <3>1
  <2>2. j + n \in 1 .. Len(t) + 1 /\ Fit(i + n, j + n, p, t)
    BY <1>2, <2>1
  <2> DEFINE a == i + n
             b == j + n
  <2>3. a \in 1 .. Len(p) /\ b \in 1 .. Len(t) + 1 /\ p[a] # "*" /\ Fit(a, b, p, t)
    BY <2>1, <2>2
  <2> HIDE DEF a, b, Plain
  <2>4. PICK k \in 1 .. Len(t) + 1 : Covers(p[a], t, b, k) /\ Fit(a + 1, k, p, t)
    BY <2>3, FitStep
  <2>5. k = b + 1 /\ b <= Len(t)
    BY <2>3, <2>4 DEF Covers
  <2>6. a + 1 = i + (n + 1) /\ b + 1 = j + (n + 1)
    BY DEF a, b
  <2>7. QED
    BY <2>3, <2>4, <2>5, <2>6
<1>3. \A n \in Nat : n \in S
  <2> HIDE DEF S
  <2>1. QED
    BY <1>1, <1>2, SetInduction
<1>4. QED
  BY <1>3

-----------------------------------------------------------------------------
(* The matcher finds what a pattern stands for                              *)

(* What the matcher answers from a place on: the rest of the pattern stands *)
(* for the rest of the text, or what follows the last star does for a later *)
(* rest.  Since that star the pattern has none, and was followed character  *)
(* by character.                                                            *)
Later(at, p, t) ==
  at.star # NoStar /\ \E b \in at.from + 1 .. Len(t) + 1 : Fit(at.star + 1, b, p, t)
Want(at, p, t) == Fit(at.pi, at.ti, p, t) \/ Later(at, p, t)
Followed(at, p) ==
  at.star # NoStar => /\ at.ti - at.from = at.pi - at.star - 1
                      /\ \A i \in at.star + 1 .. at.pi - 1 : p[i] # "*"

LEMMA Reach ==
  ASSUME NEW b \in Nat, NEW d \in Nat
  PROVE  (d + 1) + (b - d - 1) = b /\ (d + 1) + (b - d - 1) - 1 = b - 1
OBVIOUS

LEMMA Step ==
  ASSUME NEW a \in Nat, NEW b \in Nat, NEW c \in Nat, NEW d \in Nat, a - c = b - d - 1
  PROVE  (a + 1) - c = (b + 1) - d - 1
OBVIOUS

LEMMA Behind ==
  ASSUME NEW p, NEW t, Len(p) \in Nat, Len(t) \in Nat, NEW at \in Places(p, t),
         Followed(at, p), Later(at, p, t)
  PROVE  \E c \in at.ti + 1 .. Len(t) + 1 : Fit(at.pi, c, p, t)
<1>1. /\ at.pi \in Nat /\ at.ti \in Nat /\ at.star \in Nat /\ at.from \in Nat
      /\ 1 <= at.pi /\ at.pi <= Len(p) + 1 /\ at.star <= Len(p) /\ at.star < at.pi
  BY PlaceType
<1>2. PICK b \in at.from + 1 .. Len(t) + 1 : Fit(at.star + 1, b, p, t)
  BY DEF Later
<1>3. /\ at.ti - at.from = at.pi - at.star - 1
      /\ \A i \in at.star + 1 .. at.pi - 1 : p[i] # "*"
  BY DEF Followed, Later
<1> DEFINE n == at.pi - at.star - 1
           i == at.star + 1
<1>4. /\ n \in Nat /\ i \in 1 .. Len(p) + 1 /\ b \in 1 .. Len(t) + 1
      /\ i + n = at.pi /\ i + n - 1 = at.pi - 1 /\ at.pi <= Len(p) + 1
      /\ b + n > at.ti /\ b + n \in Nat
  <2>1. n \in Nat /\ i \in 1 .. Len(p) + 1 /\ b \in 1 .. Len(t) + 1 /\ b > at.from
    BY <1>1, <1>2
  <2>2. i + n = at.pi /\ i + n - 1 = at.pi - 1
    BY <1>1, Reach
  <2>3. n = at.ti - at.from
    BY <1>3
  <2> HIDE DEF n, i
  <2>4. b + n > at.ti /\ b + n \in Nat
    BY <1>1, <2>1, <2>3
  <2>5. QED
    BY <1>1, <2>1, <2>2, <2>4
<1>5. Fit(i, b, p, t) /\ \A k \in i .. i + n - 1 : p[k] # "*"
  BY <1>2, <1>3, <1>4
<1> HIDE DEF n, i
<1>6. b + n <= Len(t) + 1 /\ Fit(i + n, b + n, p, t)
  BY <1>4, <1>5, FitPlain
<1>7. b + n \in at.ti + 1 .. Len(t) + 1 /\ Fit(at.pi, b + n, p, t)
  BY <1>1, <1>4, <1>6
<1>8. QED
  BY <1>7

(* The text is at its end.                                                  *)
LEMMA WantEnd ==
  ASSUME NEW p, NEW t, Len(p) \in Nat, Len(t) \in Nat, NEW at \in Places(p, t),
         Followed(at, p), at.ti > Len(t)
  PROVE  Want(at, p, t) <=> \A i \in at.pi .. Len(p) : p[i] = "*"
<1>1. at.ti = Len(t) + 1 /\ at.pi \in 1 .. Len(p) + 1
  BY PlaceType
<1>2. ~Later(at, p, t)
  BY <1>1, Behind
<1>3. QED
  BY <1>1, <1>2, FitTail DEF Want

(* The next character of the pattern is that of the text.                   *)
LEMMA WantAdvance ==
  ASSUME NEW p, NEW t, Len(p) \in Nat, Len(t) \in Nat, NEW at \in Places(p, t),
         Followed(at, p), at.ti <= Len(t), at.pi <= Len(p),
         Fits(p[at.pi], t[at.ti]), t[at.ti] # "*"
  PROVE  /\ Want(at, p, t) <=> Want(Advance(at), p, t)
         /\ Followed(Advance(at), p)
<1> DEFINE n == Advance(at)
<1>1. n.pi = at.pi + 1 /\ n.ti = at.ti + 1 /\ n.star = at.star /\ n.from = at.from
  BY Rounds
<1> HIDE DEF n
<1>2. /\ at.pi \in 1 .. Len(p) /\ at.ti \in 1 .. Len(t) + 1 /\ at.ti + 1 \in 1 .. Len(t) + 1
      /\ at.pi \in Nat /\ at.ti \in Nat /\ at.star \in Nat /\ at.from \in Nat
  BY PlaceType
<1>3. p[at.pi] # "*"
  BY DEF Fits
<1>4. Fit(at.pi, at.ti, p, t) <=> Fit(n.pi, n.ti, p, t)
  <2>1. \A k \in 1 .. Len(t) + 1 : Covers(p[at.pi], t, at.ti, k) <=> k = at.ti + 1
    BY <1>3 DEF Covers
  <2>2. Fit(at.pi, at.ti, p, t) <=>
          \E k \in 1 .. Len(t) + 1 : Covers(p[at.pi], t, at.ti, k) /\ Fit(at.pi + 1, k, p, t)
    BY <1>2, FitStep
  <2>3. QED
    BY <1>1, <1>2, <2>1, <2>2
<1>5. Later(at, p, t) <=> Later(n, p, t)
  BY <1>1 DEF Later
<1>6. Followed(n, p)
  <2>1. \A i : i \in at.star + 1 .. n.pi - 1 => i \in at.star + 1 .. at.pi - 1 \/ i = at.pi
    BY <1>1, <1>2
  <2>2. ASSUME at.star # NoStar
        PROVE  n.ti - n.from = n.pi - n.star - 1
    <3>1. at.ti - at.from = at.pi - at.star - 1
      BY <2>2 DEF Followed
    <3>2. (at.ti + 1) - at.from = (at.pi + 1) - at.star - 1
      <4> DEFINE a == at.ti
                 b == at.pi
                 c == at.from
                 d == at.star
      <4>1. a \in Nat /\ b \in Nat /\ c \in Nat /\ d \in Nat /\ a - c = b - d - 1
        BY <1>2, <3>1
      <4> HIDE DEF a, b, c, d
      <4>2. (a + 1) - c = (b + 1) - d - 1
        BY <4>1, Step
      <4>3. QED
        BY <4>2 DEF a, b, c, d
    <3>3. QED
      BY <1>1, <3>2
  <2>3. ASSUME at.star # NoStar, NEW i \in n.star + 1 .. n.pi - 1
        PROVE  p[i] # "*"
    <3>1. i \in at.star + 1 .. at.pi - 1 \/ i = at.pi
      BY <1>1, <2>1, <2>3
    <3>2. QED
      BY <1>3, <2>3, <3>1 DEF Followed
  <2>4. QED
    BY <1>1, <2>2, <2>3 DEF Followed
<1>7. QED
  BY <1>4, <1>5, <1>6 DEF Want, n

(* The pattern has a star: an earlier one can take no more than this one.   *)
LEMMA WantTakeNone ==
  ASSUME NEW p, NEW t, Len(p) \in Nat, Len(t) \in Nat, NEW at \in Places(p, t),
         Followed(at, p), at.ti <= Len(t), at.pi <= Len(p), p[at.pi] = "*"
  PROVE  /\ Want(at, p, t) <=> Want(TakeNone(at), p, t)
         /\ Followed(TakeNone(at), p)
<1> DEFINE n == TakeNone(at)
<1>1. n.pi = at.pi + 1 /\ n.ti = at.ti /\ n.star = at.pi /\ n.from = at.ti
  BY Rounds
<1> HIDE DEF n
<1>2. /\ at.pi \in 1 .. Len(p) /\ at.ti \in 1 .. Len(t) + 1
      /\ at.pi \in Nat /\ at.ti \in Nat /\ at.star \in Nat /\ at.from \in Nat
  BY PlaceType
<1>3. ASSUME NEW j \in 1 .. Len(t) + 1
      PROVE  Fit(at.pi, j, p, t) <=> \E k \in j .. Len(t) + 1 : Fit(at.pi + 1, k, p, t)
  <2>1. \A k \in 1 .. Len(t) + 1 : Covers(p[at.pi], t, j, k) <=> j <= k
    BY DEF Covers
  <2>2. Fit(at.pi, j, p, t) <=>
          \E k \in 1 .. Len(t) + 1 : Covers(p[at.pi], t, j, k) /\ Fit(at.pi + 1, k, p, t)
    BY <1>2, FitStep
  <2>3. \A k : k \in j .. Len(t) + 1 <=> k \in 1 .. Len(t) + 1 /\ j <= k
    OBVIOUS
  <2>4. QED
    BY <2>1, <2>2, <2>3
<1>4. Want(n, p, t) <=> \E k \in at.ti .. Len(t) + 1 : Fit(at.pi + 1, k, p, t)
  <2>1. n.star # NoStar
    BY <1>1, <1>2 DEF NoStar
  <2>2. \A k : k \in at.ti .. Len(t) + 1 <=> k = at.ti \/ k \in at.ti + 1 .. Len(t) + 1
    BY <1>2
  <2>3. QED
    BY <1>1, <2>1, <2>2 DEF Want, Later
<1>5. ASSUME Later(at, p, t) PROVE Fit(at.pi, at.ti, p, t)
  <2>1. PICK c \in at.ti + 1 .. Len(t) + 1 : Fit(at.pi, c, p, t)
    BY <1>5, Behind
  <2>2. c \in 1 .. Len(t) + 1
    BY <1>2, <2>1
  <2>3. PICK k \in c .. Len(t) + 1 : Fit(at.pi + 1, k, p, t)
    BY <1>3, <2>1, <2>2
  <2>4. k \in at.ti .. Len(t) + 1
    BY <1>2, <2>1, <2>3
  <2>5. QED
    BY <1>2, <1>3, <2>3, <2>4
<1>6. Want(at, p, t) <=> Want(n, p, t)
  BY <1>2, <1>3, <1>4, <1>5 DEF Want
<1>7. Followed(n, p)
  BY <1>1, <1>2 DEF Followed
<1>8. QED
  BY <1>6, <1>7 DEF n

(* A mismatch: the last star takes one character more.                      *)
LEMMA WantRetry ==
  ASSUME NEW p, NEW t, Len(p) \in Nat, Len(t) \in Nat, NEW at \in Places(p, t),
         at.ti <= Len(t),
         at.pi <= Len(p) => ~Fits(p[at.pi], t[at.ti]) /\ p[at.pi] # "*"
  PROVE  /\ Want(at, p, t) <=> at.star # NoStar /\ Want(Retry(at), p, t)
         /\ at.star # NoStar => Followed(Retry(at), p)
<1>1. /\ at.pi \in Nat /\ at.ti \in Nat /\ at.star \in Nat /\ at.from \in Nat
      /\ at.pi \in 1 .. Len(p) + 1 /\ at.ti \in 1 .. Len(t) + 1 /\ at.from <= at.ti
  BY PlaceType
<1>2. ~Fit(at.pi, at.ti, p, t)
  <2>1. CASE at.pi <= Len(p)
    <3>1. at.pi \in 1 .. Len(p)
      BY <1>1, <2>1
    <3>2. \A k : ~Covers(p[at.pi], t, at.ti, k)
      BY <2>1 DEF Covers
    <3>3. QED
      BY <1>1, <3>1, <3>2, FitStep
  <2>2. CASE ~(at.pi <= Len(p))
    <3>1. at.pi = Len(p) + 1 /\ at.ti # Len(t) + 1
      BY <1>1, <2>2
    <3>2. QED
      BY <1>1, <3>1, FitEnd
  <2>3. QED
    BY <2>1, <2>2
<1>3. CASE at.star = NoStar
  BY <1>2, <1>3 DEF Want, Later
<1>4. CASE at.star # NoStar
  <2> DEFINE n == Retry(at)
  <2>1. n.pi = at.star + 1 /\ n.ti = at.from + 1 /\ n.star = at.star /\ n.from = at.from + 1
    BY <1>4, Rounds
  <2> HIDE DEF n
  <2>2. \A k : k \in at.from + 1 .. Len(t) + 1 <=>
                 k = at.from + 1 \/ k \in (at.from + 1) + 1 .. Len(t) + 1
    BY <1>1
  <2>3. Want(n, p, t) <=> \E k \in at.from + 1 .. Len(t) + 1 : Fit(at.star + 1, k, p, t)
    BY <1>4, <2>1, <2>2 DEF Want, Later
  <2>4. Want(at, p, t) <=> Want(n, p, t)
    BY <1>2, <1>4, <2>3 DEF Want, Later
  <2>5. Followed(n, p)
    BY <1>1, <2>1 DEF Followed
  <2>6. QED
    BY <1>4, <2>4, <2>5 DEF n
<1>5. QED
  BY <1>3, <1>4

LEMMA MatcherWants ==
  ASSUME NEW p, NEW t, Len(p) \in Nat, Len(t) \in Nat, \A j \in 1 .. Len(t) : t[j] # "*",
         NEW f, IsMatcher(f, p, t)
  PROVE  \A at \in Places(p, t) : Followed(at, p) => f[at] = Want(at, p, t)
<1> DEFINE D == Places(p, t)
           m(at) == Left(at, p, t)
           S == {n \in Nat : \A at \in D : m(at) < n /\ Followed(at, p) => f[at] = Want(at, p, t)}
<1>1. \A at \in D : m(at) \in Nat
  BY LeftNat
<1>2. 0 \in S
  <2>1. \A at \in D : ~(m(at) < 0)
    <3> HIDE DEF m, D
    <3> QED
      BY <1>1
  <2> HIDE DEF m, D
  <2>2. QED
    BY <2>1
<1>3. ASSUME NEW n \in Nat, n \in S PROVE n + 1 \in S
  <2> SUFFICES ASSUME NEW at \in D, m(at) < n + 1, Followed(at, p)
               PROVE  f[at] = Want(at, p, t)
    OBVIOUS
  <2>1. \A b \in D : m(b) < m(at) /\ Followed(b, p) => f[b] = Want(b, p, t)
    <3> TAKE b \in D
    <3>1. b \in D /\ at \in D
      OBVIOUS
    <3> HIDE DEF D, m
    <3>2. m(b) < m(at) => m(b) < n
      BY <1>1, <3>1
    <3>3. QED
      BY <1>3, <3>1, <3>2
  <2>2. f[at] = Round(f, at, p, t)
    BY DEF IsMatcher
  <2>3. at.ti \in Nat /\ 1 <= at.ti /\ at.pi \in Nat
    BY PlaceType
  <2>4. Want(at, p, t) \in BOOLEAN
    BY DEF Want, Later
  <2>5. CASE at.ti > Len(t)
    <3>1. Round(f, at, p, t) = \A i \in at.pi .. Len(p) : p[i] = "*"
      BY <2>5 DEF Round
    <3>2. Want(at, p, t) <=> \A i \in at.pi .. Len(p) : p[i] = "*"
      BY <2>5, WantEnd
    <3>3. QED
      BY <2>2, <2>4, <3>1, <3>2
  <2>6. CASE ~(at.ti > Len(t)) /\ at.pi <= Len(p) /\ Fits(p[at.pi], t[at.ti])
    <3>1. at.ti <= Len(t) /\ t[at.ti] # "*"
      BY <2>3, <2>6
    <3>2. Round(f, at, p, t) = f[Advance(at)]
      BY <2>6 DEF Round
    <3>3. Advance(at) \in D /\ m(Advance(at)) < m(at)
      BY <2>6, <3>1, Rounds
    <3>4. Followed(Advance(at), p) /\ (Want(at, p, t) <=> Want(Advance(at), p, t))
      BY <2>6, <3>1, WantAdvance
    <3>5. f[Advance(at)] = Want(Advance(at), p, t)
      BY <2>1, <3>3, <3>4
    <3>6. Want(Advance(at), p, t) \in BOOLEAN
      BY DEF Want, Later
    <3>7. QED
      BY <2>2, <2>4, <3>2, <3>4, <3>5, <3>6
  <2>7. CASE ~(at.ti > Len(t)) /\ at.pi <= Len(p) /\ ~Fits(p[at.pi], t[at.ti]) /\ p[at.pi] = "*"
    <3>1. at.ti <= Len(t)
      BY <2>3, <2>7
    <3>2. Round(f, at, p, t) = f[TakeNone(at)]
      BY <2>7 DEF Round
    <3>3. TakeNone(at) \in D /\ m(TakeNone(at)) < m(at)
      BY <2>7, <3>1, Rounds
    <3>4. Followed(TakeNone(at), p) /\ (Want(at, p, t) <=> Want(TakeNone(at), p, t))
      BY <2>7, <3>1, WantTakeNone
    <3>5. f[TakeNone(at)] = Want(TakeNone(at), p, t)
      BY <2>1, <3>3, <3>4
    <3>6. Want(TakeNone(at), p, t) \in BOOLEAN
      BY DEF Want, Later
    <3>7. QED
      BY <2>2, <2>4, <3>2, <3>4, <3>5, <3>6
  <2>8. CASE ~(at.ti > Len(t)) /\ (at.pi <= Len(p) => ~Fits(p[at.pi], t[at.ti]) /\ p[at.pi] # "*")
    <3>1. at.ti <= Len(t)
      BY <2>3, <2>8
    <3>2. Round(f, at, p, t) = (at.star # NoStar /\ f[Retry(at)])
      BY <2>8 DEF Round
    <3>3. /\ Want(at, p, t) <=> at.star # NoStar /\ Want(Retry(at), p, t)
          /\ at.star # NoStar => Followed(Retry(at), p)
      BY <2>8, <3>1, WantRetry
    <3>4. CASE at.star = NoStar
      BY <2>2, <2>4, <3>2, <3>3, <3>4
    <3>5. CASE at.star # NoStar
      <4>1. Retry(at) \in D /\ m(Retry(at)) < m(at)
        BY <3>1, <3>5, Rounds
      <4>2. f[Retry(at)] = Want(Retry(at), p, t)
        BY <2>1, <3>3, <3>5, <4>1
      <4>3. Want(Retry(at), p, t) \in BOOLEAN
        BY DEF Want, Later
      <4>4. QED
        BY <2>2, <2>4, <3>2, <3>3, <3>5, <4>2, <4>3
    <3>6. QED
      BY <3>4, <3>5
  <2>9. QED
    BY <2>5, <2>6, <2>7, <2>8
<1>4. \A n \in Nat : n \in S
  <2> HIDE DEF S
  <2>1. QED
    BY <1>2, <1>3, SetInduction
<1>5. QED
  <2> TAKE at \in D
  <2>1. m(at) + 1 \in S /\ m(at) < m(at) + 1
    <3> HIDE DEF m, S
    <3> QED
      BY <1>1, <1>4
  <2> HIDE DEF m
  <2>2. QED
    BY <2>1

(* glob_match() answers what the pattern stands for, whatever the pattern   *)
(* and whatever text without a star.                                        *)
THEOREM MatcherMeansPattern ==
  ASSUME NEW S, NEW p \in Seq(S), NEW t \in Seq(S), \A j \in 1 .. Len(t) : t[j] # "*"
  PROVE  GlobMatch(p, t) = Stands(p, t)
<1> DEFINE f == CHOOSE g : IsMatcher(g, p, t)
           start == [pi |-> 1, ti |-> 1, star |-> NoStar, from |-> 0]
<1>1. Len(p) \in Nat /\ Len(t) \in Nat
  OBVIOUS
<1>2. IsMatcher(f, p, t)
  <2>1. \E g : IsMatcher(g, p, t)
    BY <1>1, MatcherExists
  <2>2. QED
    BY <2>1
<1>3. GlobMatch(p, t) = f[start]
  BY DEF GlobMatch, IsMatcher, Round
<1> HIDE DEF f
<1>4. start \in Places(p, t)
  <2>1. start.pi = 1 /\ start.ti = 1 /\ start.star = 0 /\ start.from = 0
    BY DEF NoStar
  <2>2. start = [pi |-> start.pi, ti |-> start.ti, star |-> start.star, from |-> start.from]
    OBVIOUS
  <2> HIDE DEF start
  <2>3. QED
    BY <1>1, <2>1, <2>2, PlaceType
<1>5. Followed(start, p)
  BY DEF Followed
<1>6. Want(start, p, t) <=> Fit(1, 1, p, t)
  BY DEF Want, Later
<1>7. f[start] = Want(start, p, t)
  <2> HIDE DEF start
  <2>1. QED
    BY <1>1, <1>2, <1>4, <1>5, MatcherWants
<1>8. Want(start, p, t) \in BOOLEAN /\ Stands(p, t) \in BOOLEAN
  BY DEF Want, Later, Stands
<1>9. Stands(p, t) <=> Fit(1, 1, p, t)
  BY <1>1, StandsIsFit
<1>10. QED
  BY <1>3, <1>6, <1>7, <1>8, <1>9

LEMMA WiderSeq ==
  ASSUME NEW A, NEW B, A \subseteq B, NEW s \in Seq(A)
  PROVE  s \in Seq(B)
OBVIOUS

LEMMA LowerType ==
  ASSUME NEW S, NEW s \in Seq(S)
  PROVE  /\ Lower(s) \in Seq(S \cup {"a", "b"})
         /\ Len(Lower(s)) = Len(s)
         /\ \A i \in 1 .. Len(s) : Lower(s)[i] = "*" => s[i] = "*"
<1>1. Len(s) \in Nat /\ DOMAIN s = 1 .. Len(s) /\ \A i \in 1 .. Len(s) : s[i] \in S
  OBVIOUS
<1>2. DOMAIN LowerOf = {"A", "B"} /\ LowerOf["A"] = "a" /\ LowerOf["B"] = "b"
  BY DEF LowerOf
<1>3. /\ Lower(s) = [i \in 1 .. Len(s) |-> Lower(s)[i]]
      /\ \A i \in 1 .. Len(s) :
           Lower(s)[i] = IF s[i] \in DOMAIN LowerOf THEN LowerOf[s[i]] ELSE s[i]
  BY <1>1 DEF Lower
<1>4. \A i \in 1 .. Len(s) : /\ Lower(s)[i] \in S \cup {"a", "b"}
                             /\ Lower(s)[i] = "*" => s[i] = "*"
  BY <1>1, <1>2, <1>3
<1>5. Lower(s) \in Seq(S \cup {"a", "b"}) /\ Len(Lower(s)) = Len(s)
  BY <1>1, <1>3, <1>4
<1>6. QED
  BY <1>4, <1>5

(* The same for patterns and texts of any case.                             *)
LEMMA MatchesAnyCase ==
  ASSUME NEW P, NEW T, NEW p \in Seq(P), NEW t \in Seq(T), "*" \notin T
  PROVE  GlobMatchCI(p, t) = Stands(Lower(p), Lower(t))
<1> DEFINE S == (P \cup {"a", "b"}) \cup (T \cup {"a", "b"})
           x == Lower(p)
           y == Lower(t)
<1>1. x \in Seq(P \cup {"a", "b"}) /\ y \in Seq(T \cup {"a", "b"})
  BY LowerType
<1>2. x \in Seq(S) /\ y \in Seq(S)
  <2>1. P \cup {"a", "b"} \subseteq S /\ T \cup {"a", "b"} \subseteq S
    OBVIOUS
  <2> HIDE DEF S, x, y
  <2>2. QED
    BY <1>1, <2>1, WiderSeq
<1>3. \A j \in 1 .. Len(y) : y[j] # "*"
  <2>1. Len(y) = Len(t) /\ \A i \in 1 .. Len(t) : y[i] = "*" => t[i] = "*"
    <3> HIDE DEF S, x
    <3> QED
      BY LowerType
  <2>2. \A i \in 1 .. Len(t) : t[i] \in T
    OBVIOUS
  <2> HIDE DEF S, x, y
  <2>3. QED
    BY <2>1, <2>2
<1> HIDE DEF S, x, y
<1>4. GlobMatch(x, y) = Stands(x, y)
  BY <1>2, <1>3, MatcherMeansPattern
<1>5. QED
  BY <1>4 DEF GlobMatchCI, x, y

LEMMA TextIsSequence ==
  ASSUME NEW X, NEW n \in Nat
  PROVE  UNION {[1 .. k -> X] : k \in 0 .. n} \subseteq Seq(X)
<1>1. \A k \in Nat : \A f \in [1 .. k -> X] : f \in Seq(X)
  OBVIOUS
<1>2. \A k \in 0 .. n : k \in Nat
  OBVIOUS
<1>3. QED
  BY <1>1, <1>2, Zenon

(* What the runs look at on small files and patterns, as facts of the       *)
(* specification.                                                           *)
THEOREM WildcardsMean == Spec => []GlobIsWildcard
<1> DEFINE P == {"a", "B", "?", "*"}
           T == {"A", "b"}
<1>1. Texts(P, 4) \subseteq Seq(P) /\ Texts(T, 4) \subseteq Seq(T)
  <2>1. 4 \in Nat
    OBVIOUS
  <2> HIDE DEF P, T
  <2>2. QED
    BY <2>1, TextIsSequence DEF Texts
<1>2. "*" \notin T
  OBVIOUS
<1>3. \A p \in Texts(P, 4), t \in Texts(T, 4) : GlobMatchCI(p, t) = Stands(Lower(p), Lower(t))
  <2> HIDE DEF P, T
  <2>1. QED
    BY <1>1, <1>2, MatchesAnyCase
<1>4. GlobIsWildcard
  BY <1>3 DEF GlobIsWildcard, WildcardsMatch
<1>5. QED
  BY <1>4, PTL

(* The same for the rules files and the policies.                           *)
THEOREM RulesInOrder == Spec => []RulesFireInOrder
<1>1. SomeFiles \subseteq Seq(SomeRules)
  <2>1. 3 \in Nat
    OBVIOUS
  <2>2. QED
    BY <2>1, TextIsSequence DEF SomeFiles
<1>2. UNION {[1 .. n -> AppRules] : n \in 0 .. 2} \subseteq Seq(AppRules)
  <2>1. 2 \in Nat
    OBVIOUS
  <2>2. QED
    BY <2>1, TextIsSequence
<1>3. \A rules \in SomeFiles, ctx \in SomeContexts : Evaluate(rules, ctx) = InOrder(rules, ctx)
  BY <1>1, RulesInFileOrder
<1>4. \A app \in UNION {[1 .. n -> AppRules] : n \in 0 .. 2}, default \in BOOLEAN,
        application \in Texts({"a", "B"}, 2) : PolicyIsRules(app, default, application)
  BY <1>2, PolicyMeansRules
<1>5. RulesFireInOrder
  BY <1>3, <1>4 DEF RulesFireInOrder, RulesAgree
<1>6. QED
  BY <1>5, PTL
=============================================================================
