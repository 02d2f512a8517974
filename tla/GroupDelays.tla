----------------------------- MODULE GroupDelays -----------------------------
(* How the members of a speaker group are kept in step: the delays of       *)
(* `groups/mod.rs` and the delay lines of `engine/sink.rs`.                 *)
(*                                                                          *)
(* A group is a function from its members to their latencies in ms, the     *)
(* audio a sequence of frames, Silence or a number.                         *)
EXTENDS Integers, Sequences, FiniteSets

MixRate == 48000
Silence == 0

(* compute_delays_ms(): the slowest of all members, connected or not, sets  *)
(* the pace.                                                                *)
Slowest(members) ==
  CHOOSE l \in {members[d] : d \in DOMAIN members} : \A d \in DOMAIN members : members[d] <= l
Unbalanced(members) == [d \in DOMAIN members |-> members[d]]  \* mutant
ComputeDelays(members) == [d \in DOMAIN members |-> Slowest(members) - members[d]]

(* open_group_sink(): only connected members are opened, with the delays    *)
(* they have in the whole group.                                            *)
Connected(members, devs) ==
  [d \in DOMAIN members \cap devs |-> ComputeDelays(members)[d]]

(* DelayLine::new(): filled with silence.                                   *)
DelayFrames(ms) == (ms * MixRate) \div 1000
NewLine(ms) == [i \in 1 .. DelayFrames(ms) |-> Silence]

(* DelayLine::process(): as many frames leave as enter.                     *)
Process(line, input) ==
  LET all == line \o input
  IN [out |-> SubSeq(all, 1, Len(input)), line |-> SubSeq(all, Len(input) + 1, Len(all))]

(* What a line has put out after all the periods of group_mixer_loop(),     *)
(* which takes every period through every line.                             *)
Played(ms, periods) ==
  LET after[n \in 0 .. Len(periods)] ==
        IF n = 0 THEN [out |-> <<>>, line |-> NewLine(ms)]
        ELSE LET step == Process(after[n - 1].line, periods[n])
             IN [out |-> after[n - 1].out \o step.out, line |-> step.line]
  IN after[Len(periods)].out

(* A member whose write fails is recovered and goes on with the next        *)
(* period; it is silent for as long as the period would have played.  That  *)
(* the hardware keeps time is an assumption, also when it has taken a part  *)
(* of the period before the write fails.                                    *)
Missed(periods, failed) ==
  LET end[n \in 0 .. Len(periods)] == IF n = 0 THEN 0 ELSE end[n - 1] + Len(periods[n])
  IN UNION {end[n - 1] + 1 .. end[n] : n \in failed}
Written(ms, periods, failed) ==
  [k \in 1 .. Len(Played(ms, periods)) |->
     IF k \in Missed(periods, failed) THEN Silence ELSE Played(ms, periods)[k]]

-----------------------------------------------------------------------------
(* What is heard of a member: its hardware adds its latency to what is      *)
(* written to it.                                                           *)
Heard(members, delays, d, periods, failed) ==
  NewLine(members[d]) \o Written(delays[d], periods, failed)

(* Every connected member of a group is heard in step with the slowest      *)
(* member, whichever members are connected, however the mix is cut into     *)
(* periods, and whichever writes to it fail: "held back by the difference"  *)
(* holds for what comes out of the speakers and not only for the configured *)
(* numbers, nothing of the mix is repeated or reordered on the way, and     *)
(* nothing is lost but the periods that could not be written, after which   *)
(* the member is in step again.                                             *)
InStepFor(members, devs, periods) ==
  LET mix == Played(0, periods)
      lead == DelayFrames(Slowest(members))
      delays == Connected(members, devs)
      missed(d, k, failed) == k - DelayFrames(members[d]) \in Missed(periods, failed)
  IN \A d \in DOMAIN delays : \A failed \in SUBSET (1 .. Len(periods)) :
       LET heard == Heard(members, delays, d, periods, failed)
       IN \A k \in 1 .. Len(mix) :
            heard[k] = IF k <= lead \/ missed(d, k, failed) THEN Silence ELSE mix[k - lead]

Latencies == 0 .. 2                                          \* bounds
Periods == <<[i \in 1 .. 50 |-> i], [i \in 1 .. 7 |-> 50 + i], [i \in 1 .. 60 |-> 57 + i]>>
EveryGroupInStep ==
  \A members \in UNION {[S -> Latencies] : S \in (SUBSET (1 .. 3)) \ {{}}} :
    \A devs \in SUBSET DOMAIN members : InStepFor(members, devs, Periods)
=============================================================================
