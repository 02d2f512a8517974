--------------------------- MODULE MCAudioManager ---------------------------
(* Instances of AudioManager for TLC.                                       *)
EXTENDS AudioManager, TLC

CONSTANTS speakers, headset, calls, music

MCDevice == {speakers, headset}

(* Every device may vanish; the headset may lose either of its directions.  *)
AnyScan == speakers :> {"gone", "output"} @@ headset :> {"gone", "input", "both"}

(* Both may vanish, but neither ever changes its directions.                *)
HotplugScan == speakers :> {"gone", "output"} @@ headset :> {"gone", "both"}

(* The first device preferred as output is the speakers, as input the other.*)
MCOutRank == speakers :> 0 @@ headset :> 1
MCInRank == speakers :> 1 @@ headset :> 0

(* The rules file of the documentation: a headset becomes the default when  *)
(* it appears and the previous default is restored when it goes; streams    *)
(* created while the profile for calls is active are moved to the headset;  *)
(* and another profile restores the previous input.                         *)
Rule(when, match, actions) ==
  [when |-> when, match |-> match, stop |-> FALSE, enabled |-> TRUE, action |-> actions]
OnHeadset == [kind |-> <<"h", "*">>]
RulesFile ==
  << Rule("device-added", OnHeadset,
          <<[act |-> "set-output", to |-> "trigger", remember |-> TRUE]>>),
     Rule("device-removed", OnHeadset,
          <<[act |-> "restore-output", to |-> None, remember |-> FALSE]>>),
     Rule("stream-added", [id |-> <<"?">>, application |-> <<"*">>, profile |-> <<"c", "*">>],
          <<[act |-> "move-stream", to |-> headset, remember |-> FALSE]>>),
     Rule("profile-changed", [profile |-> <<"m">>],
          << [act |-> "set-profile", to |-> None, remember |-> FALSE],
             [act |-> "restore-input", to |-> None, remember |-> FALSE] >>) >>

(* Ids, kinds and profiles are shortened to a letter; a group is no device. *)
Conditions == speakers :> [kind |-> <<"s">>, id |-> <<"1">>]
              @@ headset :> [kind |-> <<"h">>, id |-> <<"1", "2">>]
Context(trigger, x, profile) ==
  [ trigger |-> trigger, profile |-> profile,
    device |-> IF x \in Device THEN {[key |-> x, conditions |-> Conditions[x]]} ELSE {},
    stream |-> IF trigger = "stream-added" THEN {[key |-> 0, application |-> <<"a">>]} ELSE {} ]
Profiles == {<<"c">>, <<"m">>}
HeadsetRules ==
  [trigger \in Trigger |-> [x \in Target \cup {None} |->
     {Evaluate(RulesFile, Context(trigger, x, profile)) : profile \in Profiles}]]

(* A microphone policy that lets nobody record but a call.                  *)
Name == calls :> <<"c", "a">> @@ music :> <<"m">>
Policy == [app |-> <<[name |-> <<"C", "*">>, allow |-> TRUE]>>, default |-> FALSE]
MayRecord == {a \in Application : CheckMicrophone(Policy, Name[a])}

TaskSymmetry == Permutations(Task)
=============================================================================
