------------------------- MODULE SinkManagerProofs --------------------------
(* Proofs about SinkManager and the delays of speaker groups it opens its   *)
(* mixers with: any number of devices, groups, threads and concurrent       *)
(* commands, whatever hardware fails, any members, latencies and periods.   *)
EXTENDS SinkManager, FiniteSetTheorems, SequenceTheorems, WellFoundedInduction, TLAPS

-----------------------------------------------------------------------------
(* A finite set of numbers has a largest one.  Of the sets of numbers of S  *)
(* that are at least x, for an x of S, a smallest one is that of the        *)
(* largest x.                                                               *)
LEMMA Largest ==
  ASSUME NEW S \in SUBSET Nat, IsFiniteSet(S), S # {}
  PROVE  \E m \in S : \A k \in S : k <= m
<1> DEFINE AtLeast(x) == {y \in S : x <= y}
           T == {AtLeast(x) : x \in S}
<1>1. T \subseteq FiniteSubsetsOf(S) /\ T # {}
  <2>1. ASSUME NEW x \in S PROVE IsFiniteSet(AtLeast(x)) /\ AtLeast(x) \in SUBSET S
    BY FS_Subset
  <2>2. QED
    BY <2>1 DEF FiniteSubsetsOf
<1>2. PICK U \in T : \A V \in T : ~(<<V, U>> \in StrictSubsetOrdering(S))
  <2> HIDE DEF T
  <2>1. IsWellFoundedOn(StrictSubsetOrdering(S), FiniteSubsetsOf(S))
    BY FS_StrictSubsetOrderingWellFounded
  <2>2. QED
    BY <1>1, <2>1, WFMin
<1>3. PICK m \in S : U = AtLeast(m)
  OBVIOUS
<1>4. ASSUME NEW k \in S, ~(k <= m) PROVE FALSE
  <2>1. m \in Nat /\ k \in Nat /\ m <= k
    BY <1>4
  <2>2. \A y \in S : k <= y => m <= y
    BY <2>1
  <2>3. AtLeast(k) \subseteq U /\ m \in U /\ m \notin AtLeast(k)
    <3>1. AtLeast(k) \subseteq AtLeast(m)
      BY <2>2
    <3>2. m \in AtLeast(m) /\ m \notin AtLeast(k)
      BY <1>4, <2>1
    <3>3. QED
      BY <1>3, <3>1, <3>2
  <2>4. <<AtLeast(k), U>> \in StrictSubsetOrdering(S)
    BY <1>3, <2>3 DEF StrictSubsetOrdering
  <2>5. QED
    BY <1>2, <2>4
<1>5. QED
  BY <1>4

(* A group as the code can hold one: finitely many members with latencies.  *)
IsGroup(members) ==
  /\ members \in [DOMAIN members -> Nat]
  /\ IsFiniteSet({members[d] : d \in DOMAIN members})

LEMMA SlowestIsLargest ==
  ASSUME NEW members, IsGroup(members), DOMAIN members # {}
  PROVE  /\ \E d \in DOMAIN members : members[d] = Slowest(members)
         /\ Slowest(members) \in Nat
         /\ \A d \in DOMAIN members : members[d] <= Slowest(members)
<1> DEFINE L == {members[d] : d \in DOMAIN members}
           Top(l) == \A d \in DOMAIN members : members[d] <= l
<1>1. L \in SUBSET Nat /\ IsFiniteSet(L) /\ L # {}
  BY DEF IsGroup
<1>2. \E m \in L : \A k \in L : k <= m
  <2> HIDE DEF L
  <2> QED
    BY <1>1, Largest
<1>3. \E m \in L : Top(m)
  BY <1>2
<1>4. Slowest(members) \in L /\ Top(Slowest(members))
  <2>1. Slowest(members) = CHOOSE l \in L : Top(l)
    BY DEF Slowest
  <2> HIDE DEF L, Top
  <2>2. QED
    BY <1>3, <2>1
<1>5. QED
  BY <1>1, <1>4

(* compute_delays_ms() lines a group up: latency and delay of every member  *)
(* sum to the latency of the slowest, no delay is negative (they are u32 in *)
(* the code), and nothing is held back more than it must be, as some member *)
(* is not held back at all.                                                 *)
THEOREM GroupLinedUp ==
  ASSUME NEW members, IsGroup(members), DOMAIN members # {}
  PROVE  /\ ComputeDelays(members) \in [DOMAIN members -> Nat]
         /\ \A d \in DOMAIN members : members[d] + ComputeDelays(members)[d] = Slowest(members)
         /\ \E d \in DOMAIN members : ComputeDelays(members)[d] = 0
<1>1. members \in [DOMAIN members -> Nat]
  BY DEF IsGroup
<1>2. QED
  BY <1>1, SlowestIsLargest DEF ComputeDelays

-----------------------------------------------------------------------------
(* A delay line neither loses nor repeats nor reorders a frame, and its     *)
(* length, the delay, never changes: what was in it and what enters is what *)
(* leaves and what is in it then, and as much leaves as enters.             *)
THEOREM DelayLineConserves ==
  ASSUME NEW S, NEW line \in Seq(S), NEW input \in Seq(S)
  PROVE  /\ Process(line, input).out \in Seq(S)
         /\ Process(line, input).line \in Seq(S)
         /\ Len(Process(line, input).out) = Len(input)
         /\ Len(Process(line, input).line) = Len(line)
         /\ Process(line, input).out \o Process(line, input).line = line \o input
<1> DEFINE all == line \o input
           n == Len(input)
<1>1. /\ all \in Seq(S) /\ n \in Nat /\ Len(line) \in Nat
      /\ Len(all) = Len(line) + n
  BY ConcatProperties, LenProperties
<1>2. /\ Process(line, input).out = SubSeq(all, 1, n)
      /\ Process(line, input).line = SubSeq(all, n + 1, Len(all))
  BY DEF Process
<1> HIDE DEF all, n
<1>3. \A i \in 1 .. Len(all) : all[i] \in S
  BY <1>1, ElementOfSeq
<1>4. SubSeq(all, 1, n) \in Seq(S) /\ Len(SubSeq(all, 1, n)) = n
  BY <1>1, <1>3, SubSeqProperties
<1>5. /\ SubSeq(all, n + 1, Len(all)) \in Seq(S)
      /\ Len(SubSeq(all, n + 1, Len(all))) = Len(line)
  BY <1>1, <1>3, SubSeqProperties
<1>6. SubSeq(all, 1, n) \o SubSeq(all, n + 1, Len(all)) = SubSeq(all, 1, Len(all))
  <2>1. 1 \in 1 .. Len(all) + 1 /\ n \in 1 - 1 .. Len(all) /\ Len(all) \in n .. Len(all)
    BY <1>1
  <2>2. QED
    BY <1>1, <2>1, ConcatAdjacentSubSeq
<1>7. SubSeq(all, 1, Len(all)) = all
  BY <1>1, SubSeqFull
<1>8. QED
  BY <1>2, <1>4, <1>5, <1>6, <1>7 DEF all, n

-----------------------------------------------------------------------------
(* What a delay line has put out over many periods                          *)

LEMMA Least ==
  ASSUME NEW T \in SUBSET Nat, T # {}
  PROVE  \E m \in T : \A k \in T : m <= k
<1>1. PICK m \in T : \A k \in T : ~(<<k, m>> \in OpToRel(<, Nat))
  BY NatLessThanWellFounded, WFMin, Zenon
<1>2. \A k \in T : ~(k < m)
  BY <1>1 DEF OpToRel
<1>3. QED
  BY <1>2

(* Induction, for a set of numbers: otherwise there is a least number that  *)
(* is not of it.                                                            *)
LEMMA SetInduction ==
  ASSUME NEW S, 0 \in S, \A n \in Nat : n \in S => n + 1 \in S
  PROVE  \A n \in Nat : n \in S
<1> SUFFICES ASSUME NEW x \in Nat, x \notin S
             PROVE  FALSE
  OBVIOUS
<1> DEFINE T == {n \in Nat : n \notin S}
<1>1. PICK m \in T : \A k \in T : m <= k
  <2>1. T \in SUBSET Nat /\ T # {}
    OBVIOUS
  <2> HIDE DEF T
  <2>2. QED
    BY <2>1, Least
<1>2. m # 0 /\ m - 1 \in Nat
  OBVIOUS
<1>3. m - 1 \in S
  BY <1>1, <1>2
<1>4. QED
  BY <1>2, <1>3

(* A line and what it has put out after each of n periods.                  *)
Passed(state, periods, n) ==
  LET step == Process(state.line, periods[n])
  IN [out |-> state.out \o step.out, line |-> step.line]
Run(f, ms, periods, n) ==
  f = [k \in 0 .. n |-> IF k = 0 THEN [out |-> <<>>, line |-> NewLine(ms)]
                        ELSE Passed(f[k - 1], periods, k)]

LEMMA RunExists ==
  ASSUME NEW ms, NEW periods
  PROVE  \A n \in Nat : \E f : Run(f, ms, periods, n)
<1> DEFINE S == {n \in Nat : \E f : Run(f, ms, periods, n)}
<1>1. 0 \in S
  <2> DEFINE f == [k \in 0 .. 0 |-> [out |-> <<>>, line |-> NewLine(ms)]]
  <2>1. Run(f, ms, periods, 0)
    BY DEF Run
  <2>2. QED
    BY <2>1
<1>2. ASSUME NEW n \in Nat, n \in S PROVE n + 1 \in S
  <2>1. PICK f : Run(f, ms, periods, n)
    BY <1>2
  <2> DEFINE Value(k) == IF k = n + 1 THEN Passed(f[n], periods, n + 1) ELSE f[k]
             g == [k \in 0 .. n + 1 |-> Value(k)]
  <2>2. ASSUME NEW k \in 0 .. n + 1
        PROVE  g[k] = IF k = 0 THEN [out |-> <<>>, line |-> NewLine(ms)]
                      ELSE Passed(g[k - 1], periods, k)
    <3>1. g[k] = Value(k) /\ (k # 0 => g[k - 1] = f[k - 1])
      OBVIOUS
    <3> HIDE DEF g
    <3>2. CASE k = n + 1
      BY <3>1, <3>2
    <3>3. CASE k # n + 1
      <4>1. k \in 0 .. n
        BY <3>3
      <4>2. f[k] = IF k = 0 THEN [out |-> <<>>, line |-> NewLine(ms)]
                   ELSE Passed(f[k - 1], periods, k)
        BY <2>1, <4>1 DEF Run
      <4>3. QED
        BY <3>1, <3>3, <4>2
    <3>4. QED
      BY <3>2, <3>3
  <2>3. Run(g, ms, periods, n + 1)
    <3>1. g = [k \in 0 .. n + 1 |-> g[k]]
      OBVIOUS
    <3> HIDE DEF g
    <3>2. QED
      BY <2>2, <3>1 DEF Run
  <2>4. QED
    BY <2>3
<1>3. \A n \in Nat : n \in S
  <2> HIDE DEF S
  <2>1. QED
    BY <1>1, <1>2, SetInduction
<1>4. QED
  BY <1>3

LEMMA PlayedIsRun ==
  ASSUME NEW ms, NEW periods, Len(periods) \in Nat
  PROVE  \E f : Run(f, ms, periods, Len(periods)) /\ Played(ms, periods) = f[Len(periods)].out
<1> DEFINE g == CHOOSE f : Run(f, ms, periods, Len(periods))
<1>1. Run(g, ms, periods, Len(periods))
  <2>1. \E f : Run(f, ms, periods, Len(periods))
    BY RunExists
  <2>2. QED
    BY <2>1
<1>2. Played(ms, periods) = g[Len(periods)].out
  BY DEF Played, Run, Passed
<1>3. QED
  BY <1>1, <1>2

LEMMA DelayType ==
  ASSUME NEW ms \in Nat
  PROVE  /\ DelayFrames(ms) \in Nat
         /\ DelayFrames(ms) = 48 * ms
         /\ NewLine(ms) \in Seq(Nat)
         /\ Len(NewLine(ms)) = DelayFrames(ms)
         /\ \A i \in 1 .. DelayFrames(ms) : NewLine(ms)[i] = Silence
<1>1. DelayFrames(ms) = 48 * ms /\ DelayFrames(ms) \in Nat
  BY DEF DelayFrames, MixRate
<1>2. QED
  BY <1>1 DEF NewLine, Silence

(* Frames are numbers.                                                      *)
LEMMA FramesConserved ==
  \A line, input \in Seq(Nat) :
     /\ Process(line, input).out \in Seq(Nat)
     /\ Process(line, input).line \in Seq(Nat)
     /\ Len(Process(line, input).out) = Len(input)
     /\ Len(Process(line, input).line) = Len(line)
     /\ Process(line, input).out \o Process(line, input).line = line \o input
BY DelayLineConserves

LEMMA FramesConcat ==
  /\ \A s, t \in Seq(Nat) : s \o t \in Seq(Nat) /\ Len(s \o t) = Len(s) + Len(t)
  /\ \A s, t, u \in Seq(Nat) : (s \o t) \o u = s \o (t \o u)
<1>1. \A s, t \in Seq(Nat) : s \o t \in Seq(Nat) /\ Len(s \o t) = Len(s) + Len(t)
  <2> TAKE s, t \in Seq(Nat)
  <2> QED
    BY ConcatProperties
<1>2. \A s, t, u \in Seq(Nat) : (s \o t) \o u = s \o (t \o u)
  <2> TAKE s, t, u \in Seq(Nat)
  <2> QED
    BY ConcatAssociative
<1>3. QED
  BY <1>1, <1>2

(* What a line of ms has put out after n periods is as long as what an      *)
(* empty line has put out, which is the mix, and with what it still holds   *)
(* it is the silence it began with and the mix.                             *)
Behind(f, mix, ms, n) ==
  /\ f[n].out \in Seq(Nat) /\ f[n].line \in Seq(Nat) /\ mix[n].out \in Seq(Nat)
  /\ mix[n].line = <<>>
  /\ Len(f[n].out) = Len(mix[n].out)
  /\ f[n].out \o f[n].line = NewLine(ms) \o mix[n].out

LEMMA PassedType ==
  ASSUME NEW state, state.out \in Seq(Nat), state.line \in Seq(Nat),
         NEW periods \in Seq(Seq(Nat)), NEW n \in 1 .. Len(periods)
  PROVE  /\ Passed(state, periods, n).out \in Seq(Nat)
         /\ Passed(state, periods, n).line \in Seq(Nat)
         /\ Len(Passed(state, periods, n).line) = Len(state.line)
         /\ Len(Passed(state, periods, n).out) = Len(state.out) + Len(periods[n])
         /\ Passed(state, periods, n).out \o Passed(state, periods, n).line
              = (state.out \o state.line) \o periods[n]
<1> DEFINE step == Process(state.line, periods[n])
<1>1. periods[n] \in Seq(Nat)
  OBVIOUS
<1>2. /\ step.out \in Seq(Nat) /\ step.line \in Seq(Nat)
      /\ Len(step.out) = Len(periods[n]) /\ Len(step.line) = Len(state.line)
      /\ step.out \o step.line = state.line \o periods[n]
  BY <1>1, FramesConserved
<1>3. /\ Passed(state, periods, n).out = state.out \o step.out
      /\ Passed(state, periods, n).line = step.line
  BY DEF Passed
<1> HIDE DEF step
<1>4. Len(state.out \o step.out) = Len(state.out) + Len(step.out) /\ state.out \o step.out \in Seq(Nat)
  BY <1>2, FramesConcat
<1>5. /\ (state.out \o step.out) \o step.line = state.out \o (step.out \o step.line)
      /\ state.out \o (state.line \o periods[n]) = (state.out \o state.line) \o periods[n]
  BY <1>1, <1>2, FramesConcat
<1>6. QED
  BY <1>2, <1>3, <1>4, <1>5

LEMMA AlwaysBehind ==
  ASSUME NEW ms \in Nat, NEW periods \in Seq(Seq(Nat)), NEW f, NEW mix,
         Run(f, ms, periods, Len(periods)), Run(mix, 0, periods, Len(periods))
  PROVE  Behind(f, mix, ms, Len(periods))
<1> DEFINE S == {n \in Nat : n <= Len(periods) => Behind(f, mix, ms, n)}
<1>0. Len(periods) \in Nat
  OBVIOUS
<1>1. 0 \in S
  <2>1. f[0] = [out |-> <<>>, line |-> NewLine(ms)] /\ mix[0] = [out |-> <<>>, line |-> NewLine(0)]
    BY <1>0 DEF Run
  <2>2. NewLine(0) \in Seq(Nat) /\ Len(NewLine(0)) = 0 /\ NewLine(ms) \in Seq(Nat)
    BY DelayType
  <2>3. NewLine(0) = <<>>
    BY <2>2, EmptySeq
  <2>4. <<>> \o NewLine(ms) = NewLine(ms) /\ NewLine(ms) \o <<>> = NewLine(ms)
    BY <2>2, ConcatEmptySeq
  <2>5. f[0].out = <<>> /\ f[0].line = NewLine(ms) /\ mix[0].out = <<>> /\ mix[0].line = <<>>
    BY <2>1, <2>3
  <2>6. <<>> \in Seq(Nat)
    BY EmptySeq
  <2>7. f[0].out \o f[0].line = NewLine(ms) \o mix[0].out
    BY <2>4, <2>5
  <2>8. f[0].out = mix[0].out
    BY <2>5
  <2>9. QED
    BY <2>2, <2>5, <2>6, <2>7, <2>8 DEF Behind
<1>2. ASSUME NEW n \in Nat, n \in S PROVE n + 1 \in S
  <2> SUFFICES ASSUME n + 1 <= Len(periods)
               PROVE  Behind(f, mix, ms, n + 1)
    OBVIOUS
  <2>1. Behind(f, mix, ms, n)
    BY <1>0, <1>2
  <2>2. n + 1 \in 1 .. Len(periods) /\ n + 1 \in 0 .. Len(periods) /\ n + 1 # 0 /\ (n + 1) - 1 = n
    BY <1>0
  <2>3. f[n + 1] = Passed(f[n], periods, n + 1) /\ mix[n + 1] = Passed(mix[n], periods, n + 1)
    BY <2>2 DEF Run
  <2> DEFINE p == periods[n + 1]
  <2>4. p \in Seq(Nat)
    BY <2>2
  <2>5. /\ f[n + 1].out \in Seq(Nat) /\ f[n + 1].line \in Seq(Nat)
        /\ Len(f[n + 1].out) = Len(f[n].out) + Len(p)
        /\ f[n + 1].out \o f[n + 1].line = (f[n].out \o f[n].line) \o p
    BY <2>1, <2>2, <2>3, PassedType DEF Behind
  <2>6. /\ mix[n + 1].out \in Seq(Nat) /\ mix[n + 1].line \in Seq(Nat)
        /\ Len(mix[n + 1].line) = 0
        /\ Len(mix[n + 1].out) = Len(mix[n].out) + Len(p)
        /\ mix[n + 1].out \o mix[n + 1].line = (mix[n].out \o mix[n].line) \o p
    <3>1. mix[n].line \in Seq(Nat) /\ Len(mix[n].line) = 0 /\ mix[n].out \in Seq(Nat)
      BY <2>1, EmptySeq DEF Behind
    <3> DEFINE next == Passed(mix[n], periods, n + 1)
    <3>2. /\ next.out \in Seq(Nat) /\ next.line \in Seq(Nat)
          /\ Len(next.line) = Len(mix[n].line)
          /\ Len(next.out) = Len(mix[n].out) + Len(p)
          /\ next.out \o next.line = (mix[n].out \o mix[n].line) \o p
      BY <2>2, <3>1, PassedType
    <3> HIDE DEF next, p
    <3>3. QED
      BY <2>3, <3>1, <3>2 DEF next
  <2> HIDE DEF p
  <2>7. mix[n + 1].line = <<>>
    BY <2>6, EmptySeq
  <2>8. mix[n + 1].out = mix[n].out \o p
    BY <2>1, <2>6, <2>7, ConcatEmptySeq DEF Behind
  <2>9. f[n + 1].out \o f[n + 1].line = NewLine(ms) \o mix[n + 1].out
    <3>1. NewLine(ms) \in Seq(Nat) /\ mix[n].out \in Seq(Nat)
      BY <2>1, DelayType DEF Behind
    <3>2. (NewLine(ms) \o mix[n].out) \o p = NewLine(ms) \o (mix[n].out \o p)
      BY <2>4, <3>1, FramesConcat
    <3>3. QED
      BY <2>1, <2>5, <2>8, <3>2 DEF Behind
  <2>10. QED
    BY <2>1, <2>5, <2>6, <2>7, <2>9 DEF Behind
<1>3. \A n \in Nat : n \in S
  <2> HIDE DEF S
  <2>1. QED
    BY <1>1, <1>2, SetInduction
<1>4. QED
  BY <1>0, <1>3

(* So a line of ms puts out the mix behind ms of silence.                   *)
LEMMA PlaysBehind ==
  ASSUME NEW ms \in Nat, NEW periods \in Seq(Seq(Nat))
  PROVE  /\ Played(ms, periods) \in Seq(Nat)
         /\ Len(Played(ms, periods)) = Len(Played(0, periods))
         /\ \A k \in 1 .. Len(Played(0, periods)) :
              Played(ms, periods)[k] = IF k <= DelayFrames(ms) THEN Silence
                                       ELSE Played(0, periods)[k - DelayFrames(ms)]
<1> DEFINE N == Len(periods)
           out == Played(ms, periods)
           mix == Played(0, periods)
           lead == NewLine(ms)
<1>1. N \in Nat
  OBVIOUS
<1>2. PICK f : Run(f, ms, periods, N) /\ out = f[N].out
  BY <1>1, PlayedIsRun
<1>3. PICK g : Run(g, 0, periods, N) /\ mix = g[N].out
  BY <1>1, PlayedIsRun
<1>4. Behind(f, g, ms, N)
  BY <1>2, <1>3, AlwaysBehind
<1> DEFINE line == f[N].line
<1>5. /\ out \in Seq(Nat) /\ mix \in Seq(Nat) /\ line \in Seq(Nat)
      /\ Len(out) = Len(mix)
      /\ out \o line = lead \o mix
  BY <1>2, <1>3, <1>4 DEF Behind
<1>6. /\ lead \in Seq(Nat) /\ Len(lead) = DelayFrames(ms) /\ DelayFrames(ms) \in Nat
      /\ \A i \in 1 .. DelayFrames(ms) : lead[i] = Silence
  BY DelayType
<1> HIDE DEF N, out, mix, lead, line
<1>7. ASSUME NEW k \in 1 .. Len(mix)
      PROVE  out[k] = IF k <= DelayFrames(ms) THEN Silence ELSE mix[k - DelayFrames(ms)]
  <2>1. (out \o line)[k] = out[k]
    BY <1>5, ConcatProperties
  <2>2. k \in 1 .. Len(lead) + Len(mix)
    BY <1>5, <1>6
  <2>3. (lead \o mix)[k] = IF k <= Len(lead) THEN lead[k] ELSE mix[k - Len(lead)]
    BY <1>5, <1>6, <2>2, ConcatProperties
  <2>4. QED
    BY <1>5, <1>6, <2>1, <2>3
<1>8. QED
  BY <1>5, <1>7 DEF out, mix

(* Every connected member of a group is heard in step with the slowest one, *)
(* for any finitely many members, latencies and connected devices, and      *)
(* however a mix of any length is cut into periods (`group_mixer_loop()`)   *)
(* and whichever writes fail: it misses those periods and is in step again. *)
THEOREM GroupsHeardInStep ==
  ASSUME NEW members, IsGroup(members), DOMAIN members # {}, NEW devs,
         NEW periods \in Seq(Seq(Nat))
  PROVE  InStepFor(members, devs, periods)
<1> DEFINE mix == Played(0, periods)
           delays == Connected(members, devs)
           gone(d, k, failed) == k - DelayFrames(members[d]) \in Missed(periods, failed)
<1>1. SUFFICES ASSUME NEW d \in DOMAIN delays, NEW failed \in SUBSET (1 .. Len(periods)),
                      NEW k \in 1 .. Len(mix)
               PROVE  Heard(members, delays, d, periods, failed)[k]
                        = IF k <= DelayFrames(Slowest(members)) \/ gone(d, k, failed)
                          THEN Silence ELSE mix[k - DelayFrames(Slowest(members))]
  BY DEF InStepFor
<1>2. d \in DOMAIN members /\ delays[d] = ComputeDelays(members)[d]
  BY DEF Connected
<1>3. /\ members[d] \in Nat /\ delays[d] \in Nat
      /\ members[d] + delays[d] = Slowest(members)
  BY <1>2, GroupLinedUp DEF IsGroup
<1> DEFINE line == Played(delays[d], periods)
           missed == Missed(periods, failed)
           out == [i \in 1 .. Len(line) |-> IF i \in missed THEN Silence ELSE line[i]]
           lead == NewLine(members[d])
<1>4. /\ lead \in Seq(Nat) /\ Len(lead) = DelayFrames(members[d])
      /\ \A i \in 1 .. DelayFrames(members[d]) : lead[i] = Silence
  BY <1>3, DelayType
<1>5. /\ DelayFrames(members[d]) \in Nat /\ DelayFrames(delays[d]) \in Nat
      /\ DelayFrames(Slowest(members)) = DelayFrames(members[d]) + DelayFrames(delays[d])
  <2>1. Slowest(members) \in Nat
    BY <1>3
  <2>2. /\ DelayFrames(Slowest(members)) = 48 * Slowest(members)
        /\ DelayFrames(members[d]) = 48 * members[d] /\ DelayFrames(members[d]) \in Nat
        /\ DelayFrames(delays[d]) = 48 * delays[d] /\ DelayFrames(delays[d]) \in Nat
    BY <1>3, <2>1, DelayType
  <2> HIDE DEF delays
  <2>3. 48 * (members[d] + delays[d]) = 48 * members[d] + 48 * delays[d]
    BY <1>3
  <2>4. QED
    BY <1>3, <2>2, <2>3
<1>6. /\ line \in Seq(Nat) /\ mix \in Seq(Nat) /\ Len(line) = Len(mix)
      /\ \A j \in 1 .. Len(mix) : line[j] = IF j <= DelayFrames(delays[d]) THEN Silence
                                             ELSE mix[j - DelayFrames(delays[d])]
  BY <1>3, PlaysBehind
<1>7. Heard(members, delays, d, periods, failed) = lead \o out
  BY DEF Heard, Written
<1>8. gone(d, k, failed) <=> k - Len(lead) \in missed
  BY <1>4
<1> HIDE DEF mix, delays, line, lead, missed, gone
<1>9. /\ out \in Seq(Nat) /\ Len(out) = Len(mix)
      /\ \A j \in 1 .. Len(mix) : out[j] = IF j \in missed THEN Silence ELSE line[j]
  <2>1. \A i \in 1 .. Len(line) : (IF i \in missed THEN Silence ELSE line[i]) \in Nat
    BY <1>6 DEF Silence
  <2>2. /\ out \in [1 .. Len(line) -> Nat]
        /\ \A j \in 1 .. Len(line) : out[j] = IF j \in missed THEN Silence ELSE line[j]
    BY <2>1
  <2> HIDE DEF out
  <2>3. Len(line) \in Nat
    BY <1>6
  <2>4. out \in Seq(Nat) /\ Len(out) = Len(line)
    BY <2>2, <2>3
  <2>5. QED
    BY <1>6, <2>2, <2>4
<1> HIDE DEF out
<1>10. (lead \o out)[k] = IF k <= Len(lead) THEN lead[k] ELSE out[k - Len(lead)]
  <2>1. k \in 1 .. Len(lead) + Len(out)
    BY <1>4, <1>5, <1>6, <1>9
  <2>2. QED
    BY <1>4, <1>9, <2>1, ConcatProperties
<1>11. CASE k <= Len(lead)
  BY <1>4, <1>5, <1>6, <1>7, <1>10, <1>11
<1>12. CASE ~(k <= Len(lead))
  <2>1. k - Len(lead) \in 1 .. Len(mix)
    BY <1>4, <1>5, <1>6, <1>12
  <2>2. (lead \o out)[k] = IF k - Len(lead) \in missed THEN Silence ELSE line[k - Len(lead)]
    BY <1>9, <1>10, <1>12, <2>1
  <2>3. line[k - Len(lead)] = IF k - Len(lead) <= DelayFrames(delays[d]) THEN Silence
                              ELSE mix[(k - Len(lead)) - DelayFrames(delays[d])]
    BY <1>6, <2>1
  <2>4. /\ k - Len(lead) <= DelayFrames(delays[d]) <=> k <= DelayFrames(Slowest(members))
        /\ (k - Len(lead)) - DelayFrames(delays[d]) = k - DelayFrames(Slowest(members))
    BY <1>4, <1>5, <1>6
  <2>5. QED
    BY <1>7, <1>8, <2>2, <2>3, <2>4
<1>13. QED
  BY <1>11, <1>12

(* The groups and periods that the run looks at are of this kind.           *)
THEOREM GroupsInStep == Spec => []GroupInStep
<1>1. ASSUME NEW S \in (SUBSET (1 .. 3)) \ {{}}, NEW members \in [S -> Latencies]
      PROVE  IsGroup(members) /\ DOMAIN members # {}
  <2>1. DOMAIN members = S /\ members \in [S -> Nat]
    BY DEF Latencies
  <2>2. {members[d] : d \in DOMAIN members} \in SUBSET (0 .. 2)
    BY <2>1 DEF Latencies
  <2>3. IsFiniteSet({members[d] : d \in DOMAIN members})
    <3>1. 0 \in Int /\ 2 \in Int
      OBVIOUS
    <3>2. IsFiniteSet(0 .. 2)
      BY <3>1, FS_Interval, Zenon
    <3>3. QED
      BY <2>2, <3>2, FS_Subset
  <2>4. QED
    BY <2>1, <2>3 DEF IsGroup
<1>2. Periods \in Seq(Seq(Nat))
  BY DEF Periods
<1>3. EveryGroupInStep
  BY <1>1, <1>2, GroupsHeardInStep DEF EveryGroupInStep
<1>4. GroupInStep
  BY <1>3 DEF GroupInStep
<1>5. QED
  BY <1>4, PTL

-----------------------------------------------------------------------------
(* Which mixers run                                                         *)

(* A handle is that of a thread for its target.                             *)
HandleHasThread ==
  \A t \in Target : sinks[t] # None => thread[sinks[t]] # None /\ thread[sinks[t]].target = t

(* Who waits for a thread is alone with it: it has been told to stop, it    *)
(* has no handle any more, and nobody else waits for it.                    *)
Parting(s) == thread[s] # None /\ thread[s].stop /\ \A t \in Target : sinks[t] # s
PassJoins ==
  /\ tick.slot # None <=> tick.pc = "join"
  /\ tick.slot # None => Parting(tick.slot)
HandlersJoin ==
  \A h \in Handler :
    /\ handler[h].slot # None <=> handler[h].pc = "join"
    /\ handler[h].slot # None => Parting(handler[h].slot)
JoinersApart ==
  \A h \in Handler : handler[h].slot # None =>
    /\ handler[h].slot # tick.slot
    /\ \A k \in Handler : k # h => handler[k].slot # handler[h].slot

(* A handler that closes a sink knows which one, and the pass opens a sink  *)
(* only where there is none.                                                *)
HandlersAim == \A h \in Handler : handler[h].pc = "close" => handler[h].target \in Target
OpensUnheld == tick.pc = "opening" => tick.target \in Target /\ sinks[tick.target] = None

OwnInv ==
  /\ HandleHasThread /\ PassJoins /\ HandlersJoin /\ JoinersApart
  /\ HandlersAim /\ OpensUnheld /\ MixerOwned

Inv == TypeOK /\ OwnInv

-----------------------------------------------------------------------------
(* Lemmas about groups                                                      *)

LEMMA MembersAreGroup ==
  ASSUME NEW members \in Members
  PROVE  /\ DOMAIN members \in SUBSET Device
         /\ members \in [DOMAIN members -> Latency]
         /\ IsGroup(members)
<1>1. PICK S \in SUBSET Device : members \in [S -> Latency]
  BY DEF Members
<1>2. {members[d] : d \in DOMAIN members} \in SUBSET Latency
  BY <1>1
<1>3. IsFiniteSet({members[d] : d \in DOMAIN members})
  BY <1>2, LatencyAssumption, FS_Subset
<1>4. QED
  BY <1>1, <1>3, LatencyAssumption DEF IsGroup

LEMMA IsMembers ==
  ASSUME NEW S \in SUBSET Device, NEW f \in [S -> Latency]
  PROVE  f \in Members
BY DEF Members

LEMMA MaxLatencyBounds ==
  /\ MaxLatency \in Latency /\ MaxLatency \in Nat
  /\ \A l \in Latency : l <= MaxLatency
<1>1. Latency \in SUBSET Nat /\ IsFiniteSet(Latency) /\ Latency # {}
  BY LatencyAssumption
<1>2. \E l \in Latency : \A k \in Latency : k <= l
  BY <1>1, Largest
<1>3. QED
  BY <1>1, <1>2 DEF MaxLatency

LEMMA ConnectedType ==
  ASSUME NEW members \in Members, NEW devs
  PROVE  Connected(members, devs) \in Delays
<1>1. DOMAIN members \in SUBSET Device /\ members \in [DOMAIN members -> Latency] /\ IsGroup(members)
  BY MembersAreGroup
<1>2. ASSUME NEW d \in DOMAIN members PROVE ComputeDelays(members)[d] \in 0 .. MaxLatency
  <2>1. /\ ComputeDelays(members)[d] \in Nat
        /\ members[d] + ComputeDelays(members)[d] = Slowest(members)
    BY <1>1, <1>2, GroupLinedUp
  <2>2. Slowest(members) \in Latency
    BY <1>1, <1>2, SlowestIsLargest
  <2>3. members[d] \in Nat /\ Slowest(members) \in Nat /\ Slowest(members) <= MaxLatency
    BY <1>1, <2>2, MaxLatencyBounds, LatencyAssumption
  <2>4. QED
    BY <2>1, <2>3, MaxLatencyBounds
<1>3. DOMAIN members \cap devs \in SUBSET Device
  BY <1>1
<1>4. Connected(members, devs) \in [DOMAIN members \cap devs -> 0 .. MaxLatency]
  BY <1>2 DEF Connected
<1>5. QED
  BY <1>3, <1>4 DEF Delays

LEMMA NoDelaysType == NoDelays \in Delays
<1>1. NoDelays \in [{} -> 0 .. MaxLatency]
  BY DEF NoDelays
<1>2. QED
  BY <1>1 DEF Delays

LEMMA NoneApart == None \notin Slot /\ None \notin Target /\ None \notin Thread
BY NoneAssumption

-----------------------------------------------------------------------------
(* Types                                                                    *)

LEMMA TypeInit == Init => TypeOK
BY TargetAssumption, NoDelaysType
DEF Init, TypeOK, TickState, HandlerState, TickIdle, HandlerIdle, NoGroups

LEMMA EnvironmentType == ASSUME TypeOK, Environment PROVE TypeOK'
<1>1. CASE \E d \in Device : Plug(d)
  BY <1>1 DEF TypeOK, Plug
<1>2. CASE \E t \in Target : Play(t)
  BY <1>2 DEF TypeOK, Play
<1>3. CASE \E g \in Group, S \in SUBSET Device : CreateGroup(g, S)
  <2>1. PICK g \in Group, S \in SUBSET Device : CreateGroup(g, S)
    BY <1>3
  <2>2. [d \in S |-> 0] \in Members
    <3>1. [d \in S |-> 0] \in [S -> Latency]
      BY LatencyAssumption
    <3>2. QED
      BY <3>1, IsMembers
  <2>3. groups' \in [Group -> Members \cup {None}]
    BY <2>1, <2>2 DEF TypeOK, CreateGroup
  <2>4. QED
    BY <2>1, <2>3 DEF TypeOK, CreateGroup
<1>4. QED
  BY <1>1, <1>2, <1>3 DEF Environment

LEMMA EditType ==
  ASSUME TypeOK, NEW h \in Handler, NEW g \in Group, NEW members \in Members \cup {None},
         Edit(h, g, members)
  PROVE  TypeOK'
<1>1. groups' \in [Group -> Members \cup {None}]
  BY DEF TypeOK, Edit
<1>2. handler' \in [Handler -> HandlerState]
  BY DEF TypeOK, Edit, HandlerState, Target
<1>3. QED
  BY <1>1, <1>2 DEF TypeOK, Edit

LEMMA CommandType ==
  ASSUME TypeOK, NEW h \in Handler, NEW g \in Group, GroupCommand(h, g)
  PROVE  TypeOK'
<1>1. CASE DeleteGroup(h, g)
  BY <1>1, EditType DEF DeleteGroup
<1>2. CASE \E d \in Device : RemoveGroupMember(h, g, d)
  <2>1. PICK d \in Device : RemoveGroupMember(h, g, d)
    BY <1>2
  <2>2. groups[g] \in Members
    BY <2>1 DEF RemoveGroupMember, TypeOK
  <2>3. [x \in DOMAIN groups[g] \ {d} |-> groups[g][x]] \in Members
    <3>1. [x \in DOMAIN groups[g] \ {d} |-> groups[g][x]] \in [DOMAIN groups[g] \ {d} -> Latency]
      BY <2>2, MembersAreGroup
    <3>2. DOMAIN groups[g] \ {d} \in SUBSET Device
      BY <2>2, MembersAreGroup
    <3>3. QED
      BY <3>1, <3>2, IsMembers
  <2>4. QED
    BY <2>1, <2>3, EditType DEF RemoveGroupMember
<1>3. CASE \E d \in Device, l \in Latency : AddGroupMember(h, g, d, l)
  <2>1. PICK d \in Device, l \in Latency : AddGroupMember(h, g, d, l)
    BY <1>3
  <2> DEFINE S == DOMAIN groups[g] \cup {d}
             with == [x \in S |-> IF x \in DOMAIN groups[g] THEN groups[g][x] ELSE l]
  <2>2. groups[g] \in Members
    BY <2>1 DEF AddGroupMember, TypeOK
  <2>3. with \in Members
    <3>1. with \in [S -> Latency]
      BY <2>2, MembersAreGroup
    <3>2. S \in SUBSET Device
      BY <2>2, MembersAreGroup
    <3>3. QED
      BY <3>1, <3>2, IsMembers
  <2>4. QED
    BY <2>1, <2>3, EditType DEF AddGroupMember
<1>4. CASE \E d \in Device, l \in Latency : SetGroupMemberLatency(h, g, d, l)
  <2>1. PICK d \in Device, l \in Latency : SetGroupMemberLatency(h, g, d, l)
    BY <1>4
  <2>2. groups[g] \in Members
    BY <2>1 DEF SetGroupMemberLatency, TypeOK
  <2>3. [groups[g] EXCEPT ![d] = l] \in Members
    <3>1. [groups[g] EXCEPT ![d] = l] \in [DOMAIN groups[g] -> Latency]
      BY <2>2, MembersAreGroup
    <3>2. QED
      BY <2>2, <3>1, MembersAreGroup, IsMembers
  <2>4. QED
    BY <2>1, <2>3, EditType DEF SetGroupMemberLatency
<1>5. QED
  BY <1>1, <1>2, <1>3, <1>4 DEF GroupCommand
(* Steps that touch neither handles nor threads.                            *)
SurveyStep == SnapshotDevices \/ SnapshotGroups \/ Survey \/ Consider \/ StartClosing \/ EndTick

LEMMA SurveyType == ASSUME TypeOK, SurveyStep PROVE TypeOK'
<1>1. CASE SnapshotDevices
  BY <1>1 DEF TypeOK, SnapshotDevices, TickState
<1>2. CASE SnapshotGroups
  BY <1>2 DEF TypeOK, SnapshotGroups, TickState
<1>3. CASE Survey
  <2>1. ToClose(tick.devs, tick.groups) \in SUBSET Target
    BY DEF ToClose
  <2>2. refs \in SUBSET Target
    BY TargetAssumption DEF TypeOK
  <2>3. QED
    BY <1>3, <2>1, <2>2 DEF TypeOK, Survey, TickState
<1>4. CASE \E t \in Target : Skip(t)
  BY <1>4 DEF TypeOK, Skip, TickState
<1>5. CASE \E t \in Target : Attempt(t)
  <2>1. PICK t \in Target : Attempt(t)
    BY <1>5
  <2> DEFINE grouped == t \in Group /\ tick.groups[t] # None
             delays == IF grouped THEN Connected(tick.groups[t], tick.devs) ELSE NoDelays
  <2>2. delays \in Delays
    <3>1. grouped => tick.groups[t] \in Members
      BY DEF TypeOK, TickState
    <3>2. QED
      BY <3>1, ConnectedType, NoDelaysType
  <2> HIDE DEF delays
  <2>3. tick' \in TickState
    BY <2>1, <2>2 DEF TypeOK, Attempt, TickState, delays
  <2>4. QED
    BY <2>1, <2>3 DEF TypeOK, Attempt
<1>6. CASE StartClosing
  BY <1>6 DEF TypeOK, StartClosing, TickState
<1>7. CASE EndTick
  BY <1>7, TypeInit, NoDelaysType DEF TypeOK, EndTick, TickState, TickIdle, NoGroups
<1>8. QED
  BY <1>1, <1>2, <1>3, <1>4, <1>5, <1>6, <1>7 DEF SurveyStep, Consider

LEMMA OpeningType == ASSUME TypeOK, Opening PROVE TypeOK'
<1>1. CASE OpenFails
  BY <1>1, NoDelaysType DEF TypeOK, OpenFails, TickState
<1>2. CASE \E t \in Target, s \in Slot : OpenSucceeds(t, s)
  <2>1. PICK t \in Target, s \in Slot : OpenSucceeds(t, s)
    BY <1>2
  <2> DEFINE new == [target |-> t, delays |-> tick.delays, state |-> "run", stop |-> FALSE]
  <2>2. new \in Thread /\ new # None
    <3>1. tick.delays \in Delays
      BY DEF TypeOK, TickState
    <3>2. new \in Thread
      BY <3>1 DEF Thread
    <3> HIDE DEF new
    <3>3. QED
      BY <3>2, NoneApart
  <2>3. thread' \in [Slot -> Thread \cup {None}]
    BY <2>1, <2>2 DEF TypeOK, OpenSucceeds
  <2>4. \A x \in Target : sinks'[x] # None => thread'[sinks'[x]] # None
    BY <2>1, <2>2 DEF TypeOK, OpenSucceeds
  <2>5. tick' \in TickState
    BY <2>1, NoDelaysType DEF TypeOK, OpenSucceeds, TickState
  <2>6. QED
    BY <2>1, <2>3, <2>4, <2>5 DEF TypeOK, OpenSucceeds
<1>3. QED
  BY <1>1, <1>2 DEF Opening, Open

(* A thread that is told to stop or ends stays the same thread.             *)
LEMMA ThreadType ==
  ASSUME TypeOK, NEW s \in Slot, thread[s] # None
  PROVE  /\ [thread[s] EXCEPT !.stop = TRUE] \in Thread
         /\ [thread[s] EXCEPT !.state = "exited"] \in Thread
         /\ [thread[s] EXCEPT !.stop = TRUE].target = thread[s].target
         /\ [thread[s] EXCEPT !.state = "exited"].target = thread[s].target
         /\ [thread[s] EXCEPT !.stop = TRUE].stop
         /\ [thread[s] EXCEPT !.state = "exited"].stop = thread[s].stop
<1>1. thread[s] \in Thread
  BY DEF TypeOK
<1>2. QED
  BY <1>1 DEF Thread

(* close_sink() takes the handle of t away.                                 *)
LEMMA ClosingType ==
  ASSUME TypeOK, NEW t \in Target, sinks[t] # None,
         sinks' = HandleRemoved(t), thread' = Stopped(t)
  PROVE  /\ sinks' \in [Target -> Slot \cup {None}]
         /\ thread' \in [Slot -> Thread \cup {None}]
         /\ \A s \in Slot : thread'[s] # None <=> thread[s] # None
         /\ \A x \in Target : sinks'[x] # None => thread'[sinks'[x]] # None
<1>1. sinks[t] \in Slot /\ thread[sinks[t]] # None
  BY DEF TypeOK
<1>2. sinks' \in [Target -> Slot \cup {None}]
  BY DEF TypeOK, HandleRemoved
<1> DEFINE stopped == [thread[sinks[t]] EXCEPT !.stop = TRUE]
<1>3. stopped \in Thread /\ stopped # None
  BY <1>1, ThreadType, NoneApart
<1>4. thread' = [thread EXCEPT ![sinks[t]] = stopped]
  BY DEF Stopped
<1> HIDE DEF stopped
<1>5. thread' \in [Slot -> Thread \cup {None}]
  BY <1>3, <1>4 DEF TypeOK
<1>6. \A s \in Slot : thread'[s] # None <=> thread[s] # None
  BY <1>1, <1>3, <1>4 DEF TypeOK
<1>7. \A x \in Target : sinks'[x] # None => thread'[sinks'[x]] # None
  BY <1>6, NoneApart DEF TypeOK, HandleRemoved
<1>8. QED
  BY <1>2, <1>5, <1>6, <1>7

LEMMA CloseType ==
  ASSUME TypeOK, \E t \in Target : Close(t)
  PROVE  TypeOK'
<1>1. PICK t \in Target : Close(t)
  OBVIOUS
<1>2. tick' \in TickState
  <2>1. CASE sinks[t] = None
    BY <1>1, <2>1 DEF TypeOK, Close, TickState
  <2>2. CASE sinks[t] # None
    <3>1. tick' = [tick EXCEPT !.close = @ \ {t}, !.pc = "join", !.slot = sinks[t]]
      BY <1>1, <2>2 DEF Close
    <3>2. sinks[t] \in Slot /\ tick.close \ {t} \in SUBSET Target
      BY <2>2 DEF TypeOK, TickState
    <3>3. tick \in TickState
      BY DEF TypeOK
    <3>4. QED
      BY <3>1, <3>2, <3>3 DEF TickState
  <2>3. QED
    BY <2>1, <2>2
<1>3. CASE sinks[t] = None
  BY <1>1, <1>2, <1>3 DEF TypeOK, Close
<1>4. CASE sinks[t] # None
  <2>1. sinks' = HandleRemoved(t) /\ thread' = Stopped(t)
    BY <1>1, <1>4 DEF Close
  <2>2. QED
    BY <1>1, <1>2, <1>4, <2>1, ClosingType DEF TypeOK, Close
<1>5. QED
  BY <1>3, <1>4

LEMMA HandlerCloseType ==
  ASSUME TypeOK, HandlersAim, NEW h \in Handler, HandlerClose(h)
  PROVE  TypeOK'
<1>1. handler[h].target \in Target
  BY DEF HandlersAim, HandlerClose
<1>2. handler' \in [Handler -> HandlerState]
  BY <1>1 DEF TypeOK, HandlerClose, HandlerState, HandlerIdle
<1>3. CASE sinks[handler[h].target] = None
  BY <1>2, <1>3 DEF TypeOK, HandlerClose
<1>4. CASE sinks[handler[h].target] # None
  <2>1. sinks' = HandleRemoved(handler[h].target) /\ thread' = Stopped(handler[h].target)
    BY <1>4 DEF HandlerClose
  <2>2. QED
    BY <1>1, <1>2, <1>4, <2>1, ClosingType DEF TypeOK, HandlerClose
<1>5. QED
  BY <1>3, <1>4

(* A thread that has been joined leaves no handle behind.                   *)
LEMMA JoinType == ASSUME TypeOK, PassJoins, Join PROVE TypeOK'
<1>1. tick.slot \in Slot /\ Parting(tick.slot)
  BY DEF TypeOK, PassJoins, Join, TickState
<1>2. thread' \in [Slot -> Thread \cup {None}]
  BY <1>1 DEF TypeOK, Join
<1>3. \A x \in Target : sinks'[x] # None => thread'[sinks'[x]] # None
  BY <1>1 DEF TypeOK, Join, Parting
<1>4. tick' \in TickState
  BY DEF TypeOK, Join, TickState
<1>5. QED
  BY <1>2, <1>3, <1>4 DEF TypeOK, Join

LEMMA HandlerJoinType ==
  ASSUME TypeOK, HandlersJoin, NEW h \in Handler, HandlerJoin(h)
  PROVE  TypeOK'
<1>1. handler[h].slot \in Slot /\ Parting(handler[h].slot)
  BY DEF TypeOK, HandlersJoin, HandlerJoin, HandlerState
<1>2. thread' \in [Slot -> Thread \cup {None}]
  BY <1>1 DEF TypeOK, HandlerJoin
<1>3. \A x \in Target : sinks'[x] # None => thread'[sinks'[x]] # None
  BY <1>1 DEF TypeOK, HandlerJoin, Parting
<1>4. handler' \in [Handler -> HandlerState]
  BY DEF TypeOK, HandlerJoin, HandlerState, HandlerIdle
<1>5. QED
  BY <1>2, <1>3, <1>4 DEF TypeOK, HandlerJoin

LEMMA EndType == ASSUME TypeOK, NEW s \in Slot, Exit(s) \/ Die(s) PROVE TypeOK'
<1> DEFINE ended == [thread[s] EXCEPT !.state = "exited"]
<1>1. thread[s] # None /\ thread' = [thread EXCEPT ![s] = ended]
  BY DEF Exit, Die
<1>2. ended \in Thread /\ ended # None
  BY <1>1, ThreadType, NoneApart
<1> HIDE DEF ended
<1>3. thread' \in [Slot -> Thread \cup {None}]
  BY <1>1, <1>2 DEF TypeOK
<1>4. sinks' = sinks
  BY DEF Exit, Die
<1>5. \A x \in Target : sinks'[x] # None => thread'[sinks'[x]] # None
  BY <1>1, <1>2, <1>4 DEF TypeOK
<1>6. QED
  BY <1>3, <1>4, <1>5 DEF TypeOK, Exit, Die
-----------------------------------------------------------------------------
(* Ownership                                                                *)

LEMMA OwnInit == Init => OwnInv
BY DEF Init, OwnInv, HandleHasThread, PassJoins, HandlersJoin, JoinersApart, HandlersAim,
       OpensUnheld, MixerOwned, TickIdle, HandlerIdle

(* A handler that is about to close a sink changes nothing for the threads  *)
(* and those who wait for them.                                             *)
LEMMA CommandKeepsOwn ==
  ASSUME OwnInv, NEW h \in Handler, handler[h].pc = "idle",
         handler'[h].pc = "close", handler'[h].target \in Target,
         handler'[h].slot = handler[h].slot,
         \A k \in Handler : k # h => handler'[k] = handler[k],
         sinks' = sinks, thread' = thread, tick' = tick
  PROVE  OwnInv'
<1>1. HandleHasThread' /\ PassJoins' /\ OpensUnheld'
  BY DEF OwnInv, HandleHasThread, PassJoins, OpensUnheld, Parting
<1>2. handler'[h].slot = None
  BY DEF OwnInv, HandlersJoin
<1>3. \A k \in Handler : handler'[k].slot = handler[k].slot
  OBVIOUS
<1>4. ASSUME NEW k \in Handler
      PROVE  /\ handler'[k].slot # None <=> handler'[k].pc = "join"
             /\ handler'[k].slot # None => Parting(handler[k].slot)'
  <2>1. CASE k = h
    BY <1>2, <2>1
  <2>2. CASE k # h
    <3>1. handler'[k] = handler[k]
      BY <2>2
    <3>2. QED
      BY <3>1 DEF OwnInv, HandlersJoin, Parting
  <2>3. QED
    BY <2>1, <2>2
<1>5. HandlersJoin'
  BY <1>4 DEF HandlersJoin
<1>6. HandlersAim'
  <2>1. ASSUME NEW k \in Handler, handler'[k].pc = "close" PROVE handler'[k].target \in Target
    BY <2>1 DEF OwnInv, HandlersAim
  <2>2. QED
    BY <2>1 DEF HandlersAim
<1>7. JoinersApart'
  BY <1>3 DEF OwnInv, JoinersApart
<1>8. MixerOwned'
  BY <1>3 DEF OwnInv, MixerOwned
<1>9. QED
  BY <1>1, <1>5, <1>6, <1>7, <1>8 DEF OwnInv

LEMMA StartKeepsOwn ==
  ASSUME OwnInv, TypeOK, NEW h \in Handler, handler[h].pc = "idle", NEW t \in Target,
         handler' = [handler EXCEPT ![h].pc = "close", ![h].target = t],
         sinks' = sinks, thread' = thread, tick' = tick
  PROVE  OwnInv'
<1>1. /\ handler'[h].pc = "close" /\ handler'[h].target = t /\ handler'[h].slot = handler[h].slot
      /\ \A k \in Handler : k # h => handler'[k] = handler[k]
  BY DEF TypeOK, HandlerState
<1>2. QED
  BY <1>1, CommandKeepsOwn

LEMMA PassKeepsOwn ==
  ASSUME OwnInv, tick.slot = None, tick'.slot = None, tick'.pc # "join", OpensUnheld',
         sinks' = sinks, thread' = thread, handler' = handler
  PROVE  OwnInv'
<1>1. HandleHasThread' /\ HandlersJoin' /\ HandlersAim'
  BY DEF OwnInv, HandleHasThread, HandlersJoin, HandlersAim, Parting
<1>2. PassJoins' /\ JoinersApart' /\ MixerOwned'
  BY DEF OwnInv, PassJoins, JoinersApart, MixerOwned
<1>3. QED
  BY <1>1, <1>2 DEF OwnInv

LEMMA SurveyKeepsOwn == ASSUME OwnInv, TypeOK, SurveyStep PROVE OwnInv'
<1>1. tick \in TickState
  BY DEF TypeOK
<1>2. tick.pc # "join" /\ sinks' = sinks /\ thread' = thread /\ handler' = handler
  BY DEF SurveyStep, SnapshotDevices, SnapshotGroups, Survey, Consider, Skip, Attempt,
         StartClosing, EndTick
<1>3. tick.slot = None
  BY <1>2 DEF OwnInv, PassJoins
<1>4. tick'.slot = None /\ tick'.pc # "join" /\ OpensUnheld'
  <2>1. CASE SnapshotDevices
    BY <1>1, <1>3, <2>1 DEF SnapshotDevices, TickState, OpensUnheld
  <2>2. CASE SnapshotGroups
    BY <1>1, <1>3, <2>2 DEF SnapshotGroups, TickState, OpensUnheld
  <2>3. CASE Survey
    BY <1>1, <1>3, <2>3 DEF Survey, TickState, OpensUnheld
  <2>4. CASE \E t \in Target : Skip(t)
    BY <1>1, <1>3, <2>4 DEF Skip, TickState, OpensUnheld
  <2>5. CASE \E t \in Target : Attempt(t)
    <3>1. PICK t \in Target : Attempt(t)
      BY <2>5
    <3>2. \/ tick' = [tick EXCEPT !.todo = @ \ {t}]
          \/ \E delays : tick' = [tick EXCEPT !.todo = @ \ {t}, !.pc = "opening", !.target = t,
                                              !.delays = delays]
      BY <3>1 DEF Attempt
    <3>3. tick.pc = "open" /\ sinks[t] = None
      BY <3>1 DEF Attempt, HasHandle
    <3>4. QED
      BY <1>1, <1>2, <1>3, <3>2, <3>3 DEF TickState, OpensUnheld
  <2>6. CASE StartClosing
    BY <1>1, <1>3, <2>6 DEF StartClosing, TickState, OpensUnheld
  <2>7. CASE EndTick
    BY <2>7 DEF EndTick, TickIdle, OpensUnheld
  <2>8. QED
    BY <2>1, <2>2, <2>3, <2>4, <2>5, <2>6, <2>7 DEF SurveyStep, Consider
<1>5. QED
  BY <1>2, <1>3, <1>4, PassKeepsOwn

(* A new thread gets a slot nobody knows, and a target without a handle.    *)
LEMMA OpenKeepsOwn ==
  ASSUME OwnInv, TypeOK, NEW t \in Target, NEW s \in Slot, OpenSucceeds(t, s)
  PROVE  OwnInv'
<1> DEFINE new == [target |-> t, delays |-> tick.delays, state |-> "run", stop |-> FALSE]
<1>1. new # None /\ new.target = t
  <2>1. tick.delays \in Delays
    BY DEF TypeOK, TickState
  <2>2. new \in Thread
    BY <2>1 DEF Thread
  <2> HIDE DEF new
  <2>3. new # None
    BY <2>2, NoneApart
  <2>4. QED
    BY <2>3 DEF new
<1>2. thread[s] = None /\ thread' = [thread EXCEPT ![s] = new] /\ sinks' = [sinks EXCEPT ![t] = s]
  BY DEF OpenSucceeds
<1> HIDE DEF new
<1>3. sinks[t] = None
  BY DEF OwnInv, OpensUnheld, OpenSucceeds
<1>4. \A x \in Target : sinks[x] # s
  BY <1>2, NoneApart DEF OwnInv, HandleHasThread
<1>5. \A h \in Handler : handler[h].slot # s
  BY <1>2, NoneApart DEF OwnInv, HandlersJoin, Parting
<1>6. tick.pc = "opening" /\ tick.slot = None
  BY DEF OpenSucceeds, OwnInv, PassJoins
<1>7. tick'.pc = "open" /\ tick'.slot = None /\ handler' = handler
  BY <1>6 DEF OpenSucceeds, TypeOK, TickState
<1>8. HandleHasThread'
  BY <1>1, <1>2, <1>4 DEF TypeOK, OwnInv, HandleHasThread
<1>9. \A z \in Slot : z # s /\ Parting(z) => Parting(z)'
  BY <1>2 DEF TypeOK, Parting
<1>10. HandlersJoin'
  <2>1. \A h \in Handler : handler[h].slot # None => handler[h].slot \in Slot
    BY DEF TypeOK, HandlerState
  <2>2. ASSUME NEW h \in Handler, handler[h].slot # None PROVE Parting(handler[h].slot)'
    <3>1. PICK z \in Slot : z = handler[h].slot
      BY <2>1, <2>2
    <3>2. Parting(z) /\ z # s
      BY <1>5, <2>2, <3>1 DEF OwnInv, HandlersJoin
    <3>3. Parting(z)'
      BY <1>9, <3>2
    <3>4. handler'[h].slot = z
      BY <1>7, <3>1
    <3>5. QED
      BY <1>7, <3>1, <3>3, <3>4 DEF Parting
  <2>3. QED
    BY <1>7, <2>2 DEF OwnInv, HandlersJoin, Parting
<1>11. PassJoins' /\ JoinersApart' /\ HandlersAim' /\ OpensUnheld'
  BY <1>6, <1>7 DEF OwnInv, PassJoins, JoinersApart, HandlersAim, OpensUnheld
<1>12. MixerOwned'
  BY <1>1, <1>2, <1>3, <1>6, <1>7, NoneApart DEF TypeOK, OwnInv, MixerOwned
<1>13. QED
  BY <1>8, <1>10, <1>11, <1>12 DEF OwnInv

(* close_sink() up to the join: the thread parts with its handle, and       *)
(* nobody has waited for it before.                                         *)
LEMMA ClosingParts ==
  ASSUME OwnInv, TypeOK, NEW t \in Target, NEW s \in Slot, sinks[t] = s,
         sinks' = HandleRemoved(t), thread' = Stopped(t)
  PROVE  /\ HandleHasThread'
         /\ \A z \in Slot : z = s \/ Parting(z) => Parting(z)'
         /\ \A z \in Slot : z # s => thread'[z] = thread[z]
         /\ \A z \in Slot : thread'[z] # None <=> thread[z] # None
         /\ \A z \in Slot : thread[z] # None => thread'[z].target = thread[z].target
         /\ tick.slot # s /\ \A h \in Handler : handler[h].slot # s
         /\ \A x \in Target : x # t => sinks'[x] = sinks[x]
         /\ thread[s].target = t
<1> DEFINE stopped == [thread[s] EXCEPT !.stop = TRUE]
<1>1. thread[s] # None /\ thread[s].target = t
  BY NoneApart DEF OwnInv, HandleHasThread
<1>2. stopped # None /\ stopped.target = t /\ stopped.stop
  BY <1>1, ThreadType, NoneApart
<1>3. thread' = [thread EXCEPT ![s] = stopped] /\ sinks' = [sinks EXCEPT ![t] = None]
  BY DEF Stopped, HandleRemoved
<1> HIDE DEF stopped
<1>4. \A z \in Slot : thread'[z] = IF z = s THEN stopped ELSE thread[z]
  BY <1>3 DEF TypeOK
<1>5. \A x \in Target : sinks'[x] = IF x = t THEN None ELSE sinks[x]
  BY <1>3 DEF TypeOK
<1>6. \A x \in Target : x # t => sinks[x] # s
  BY <1>1, NoneApart DEF OwnInv, HandleHasThread
<1>7. HandleHasThread'
  BY <1>4, <1>5, <1>6 DEF TypeOK, OwnInv, HandleHasThread
<1>8. Parting(s)'
  BY <1>2, <1>4, <1>5, <1>6, NoneApart DEF Parting
<1>9. ASSUME NEW z \in Slot, Parting(z) PROVE Parting(z)'
  BY <1>4, <1>5, <1>8, <1>9, NoneApart DEF Parting
<1>10. tick.slot # s /\ \A h \in Handler : handler[h].slot # s
  BY NoneApart DEF OwnInv, PassJoins, HandlersJoin, Parting
<1>11. QED
  BY <1>1, <1>2, <1>4, <1>5, <1>7, <1>8, <1>9, <1>10

LEMMA CloseKeepsOwn ==
  ASSUME OwnInv, TypeOK, NEW t \in Target, Close(t)
  PROVE  OwnInv'
<1>1. tick \in TickState /\ tick.pc = "close" /\ tick.slot = None /\ handler' = handler
  BY DEF TypeOK, Close, OwnInv, PassJoins
<1>2. CASE sinks[t] = None
  <2>1. tick' = [tick EXCEPT !.close = @ \ {t}] /\ sinks' = sinks /\ thread' = thread
    BY <1>2 DEF Close
  <2>2. tick'.slot = None /\ tick'.pc = "close"
    BY <1>1, <2>1 DEF TickState
  <2>3. QED
    BY <1>1, <2>1, <2>2, PassKeepsOwn DEF OpensUnheld
<1>3. CASE sinks[t] # None
  <2>1. PICK s \in Slot : s = sinks[t]
    BY <1>3 DEF TypeOK
  <2>2. /\ sinks' = HandleRemoved(t) /\ thread' = Stopped(t)
        /\ tick' = [tick EXCEPT !.close = @ \ {t}, !.pc = "join", !.slot = s]
    BY <1>3, <2>1 DEF Close
  <2>3. tick'.pc = "join" /\ tick'.slot = s
    BY <1>1, <2>2 DEF TickState
  <2>4. /\ HandleHasThread'
        /\ \A z \in Slot : z = s \/ Parting(z) => Parting(z)'
        /\ \A z \in Slot : z # s => thread'[z] = thread[z]
        /\ \A h \in Handler : handler[h].slot # s
        /\ \A x \in Target : x # t => sinks'[x] = sinks[x]
        /\ thread[s].target = t
    BY <2>1, <2>2, ClosingParts
  <2>5. PassJoins' /\ OpensUnheld'
    BY <2>3, <2>4, NoneApart DEF PassJoins, OpensUnheld, Parting
  <2>6. ASSUME NEW h \in Handler, handler[h].slot # None PROVE Parting(handler[h].slot)'
    <3>1. PICK z \in Slot : z = handler[h].slot
      BY <2>6 DEF TypeOK, HandlerState
    <3>2. Parting(z)
      BY <2>6, <3>1 DEF OwnInv, HandlersJoin
    <3>3. Parting(z)'
      BY <2>4, <3>2
    <3>4. QED
      BY <1>1, <3>1, <3>3 DEF Parting
  <2>7. HandlersJoin' /\ HandlersAim' /\ JoinersApart'
    BY <1>1, <2>3, <2>4, <2>6
    DEF OwnInv, HandlersJoin, HandlersAim, JoinersApart, Parting
  <2>8. MixerOwned'
    <3>1. Parting(s)'
      BY <2>4
    <3>2. SUFFICES ASSUME NEW z \in Slot, thread'[z] # None, z # s
                   PROVE  \/ sinks'[thread'[z].target] = z
                          \/ /\ thread'[z].stop
                             /\ tick'.slot = z \/ \E h \in Handler : handler'[h].slot = z
      BY <2>3, <3>1 DEF MixerOwned, Parting
    <3>3. thread[z] \in Thread /\ thread'[z] = thread[z]
      BY <2>4, <3>2 DEF TypeOK
    <3>4. thread[z].target \in Target
      BY <3>3 DEF Thread
    <3>5. thread[z] # None
      BY <3>2, <3>3
    <3>6. z # None
      BY NoneApart
    <3>7. \/ sinks[thread[z].target] = z
          \/ thread[z].stop /\ \E h \in Handler : handler[h].slot = z
      BY <1>1, <3>5, <3>6 DEF OwnInv, MixerOwned
    <3>8. QED
      BY <1>1, <2>1, <2>4, <3>2, <3>3, <3>4, <3>7
  <2>9. QED
    BY <2>4, <2>5, <2>7, <2>8 DEF OwnInv
<1>4. QED
  BY <1>2, <1>3
LEMMA HandlerCloseKeepsOwn ==
  ASSUME OwnInv, TypeOK, NEW h \in Handler, HandlerClose(h)
  PROVE  OwnInv'
<1>1. PICK t \in Target : t = handler[h].target
  BY DEF OwnInv, HandlersAim, HandlerClose
<1>2. handler[h].pc = "close" /\ handler[h].slot = None /\ tick' = tick
  BY DEF HandlerClose, OwnInv, HandlersJoin
<1>3. CASE sinks[t] = None
  <2>1. handler' = [handler EXCEPT ![h] = HandlerIdle] /\ sinks' = sinks /\ thread' = thread
    BY <1>1, <1>3 DEF HandlerClose
  <2>2. /\ handler'[h].pc = "idle" /\ handler'[h].slot = None
        /\ \A k \in Handler : k # h => handler'[k] = handler[k]
    BY <2>1 DEF TypeOK, HandlerIdle
  <2>3. \A k \in Handler : handler'[k].slot = handler[k].slot
    BY <1>2, <2>2
  <2>4. HandlersJoin'
    <3>1. \A k \in Handler : handler'[k].slot # None <=> handler'[k].pc = "join"
      BY <2>2 DEF OwnInv, HandlersJoin
    <3>2. ASSUME NEW k \in Handler, handler'[k].slot # None PROVE Parting(handler[k].slot)'
      <4>1. PICK z : z = handler[k].slot
        OBVIOUS
      <4>2. k # h
        BY <2>2, <3>2
      <4>3. handler'[k].slot = z /\ Parting(z)
        BY <2>2, <3>2, <4>1, <4>2 DEF OwnInv, HandlersJoin
      <4>4. Parting(z)'
        <5>1. sinks' = sinks /\ thread' = thread
          BY <2>1
        <5>2. QED
          BY <4>3, <5>1 DEF Parting
      <4>5. QED
        BY <4>3, <4>4 DEF Parting
    <3>3. QED
      BY <3>1, <3>2 DEF HandlersJoin
  <2>5. HandlersAim'
    BY <2>2 DEF OwnInv, HandlersAim
  <2>6. HandleHasThread' /\ PassJoins' /\ OpensUnheld'
    BY <1>2, <2>1 DEF OwnInv, HandleHasThread, PassJoins, OpensUnheld, Parting
  <2>7. JoinersApart'
    BY <1>2, <2>3 DEF OwnInv, JoinersApart
  <2>8. MixerOwned'
    BY <1>2, <2>1, <2>3 DEF OwnInv, MixerOwned
  <2>9. QED
    BY <2>4, <2>5, <2>6, <2>7, <2>8 DEF OwnInv
<1>4. CASE sinks[t] # None
  <2>1. PICK s \in Slot : s = sinks[t]
    BY <1>4 DEF TypeOK
  <2>2. /\ sinks' = HandleRemoved(t) /\ thread' = Stopped(t)
        /\ handler' = [handler EXCEPT ![h].pc = "join", ![h].slot = s]
    BY <1>1, <1>4, <2>1 DEF HandlerClose
  <2>3. /\ handler'[h].pc = "join" /\ handler'[h].slot = s
        /\ \A k \in Handler : k # h => handler'[k] = handler[k]
    BY <2>2 DEF TypeOK, HandlerState
  <2>4. /\ HandleHasThread'
        /\ \A z \in Slot : z = s \/ Parting(z) => Parting(z)'
        /\ \A z \in Slot : z # s => thread'[z] = thread[z]
        /\ tick.slot # s /\ \A k \in Handler : handler[k].slot # s
        /\ \A x \in Target : x # t => sinks'[x] = sinks[x]
        /\ thread[s].target = t
    BY <2>1, <2>2, ClosingParts
  <2>5. OpensUnheld'
    BY <1>2, <2>2 DEF OwnInv, OpensUnheld, HandleRemoved, TypeOK
  <2>6. PassJoins'
    <3>1. ASSUME tick.slot # None PROVE Parting(tick.slot)'
      <4>1. PICK z \in Slot : z = tick.slot
        BY <3>1 DEF TypeOK, TickState
      <4>2. Parting(z)'
        BY <2>4, <3>1, <4>1 DEF OwnInv, PassJoins
      <4>3. QED
        BY <1>2, <4>1, <4>2 DEF Parting
    <3>2. QED
      BY <1>2, <3>1 DEF OwnInv, PassJoins, Parting
  <2>7. HandlersJoin'
    <3>1. ASSUME NEW k \in Handler, NEW z \in Slot, handler'[k].slot = z PROVE Parting(z)'
      <4>1. CASE k = h
        BY <2>3, <2>4, <3>1, <4>1
      <4>2. CASE k # h
        <5>1. handler[k].slot = z
          BY <2>3, <3>1, <4>2
        <5>2. Parting(z)
          BY <5>1, NoneApart DEF OwnInv, HandlersJoin
        <5>3. QED
          BY <2>4, <5>2
      <4>3. QED
        BY <4>1, <4>2
    <3>2. \A k \in Handler : handler'[k].slot \in Slot \cup {None}
      BY <2>3 DEF TypeOK, HandlerState
    <3>3. \A k \in Handler : handler'[k].slot # None <=> handler'[k].pc = "join"
      BY <2>3, NoneApart DEF OwnInv, HandlersJoin
    <3>4. QED
      BY <3>1, <3>2, <3>3 DEF HandlersJoin, Parting
  <2>8. JoinersApart'
    BY <1>2, <2>3, <2>4 DEF OwnInv, JoinersApart
  <2>9. HandlersAim'
    BY <2>3 DEF OwnInv, HandlersAim
  <2>10. MixerOwned'
    <3>1. Parting(s)'
      BY <2>4
    <3>2. SUFFICES ASSUME NEW z \in Slot, thread'[z] # None, z # s
                   PROVE  \/ sinks'[thread'[z].target] = z
                          \/ /\ thread'[z].stop
                             /\ tick'.slot = z \/ \E k \in Handler : handler'[k].slot = z
      BY <2>3, <3>1 DEF MixerOwned, Parting
    <3>3. thread[z] \in Thread /\ thread'[z] = thread[z] /\ thread[z] # None
      BY <2>4, <3>2 DEF TypeOK
    <3>4. thread[z].target \in Target /\ z # None
      BY <3>3, NoneApart DEF Thread
    <3>5. \/ sinks[thread[z].target] = z
          \/ thread[z].stop /\ (tick.slot = z \/ \E k \in Handler : handler[k].slot = z)
      BY <3>3 DEF OwnInv, MixerOwned
    <3>6. \A k \in Handler : handler[k].slot = z => handler'[k].slot = z
      BY <1>2, <2>3, <3>4
    <3>7. QED
      BY <1>2, <2>1, <2>4, <3>2, <3>3, <3>4, <3>5, <3>6
  <2>11. QED
    BY <2>4, <2>5, <2>6, <2>7, <2>8, <2>9, <2>10 DEF OwnInv
<1>5. QED
  BY <1>3, <1>4

(* The slot of a thread that is joined was known to nobody else.            *)
LEMMA JoinKeepsOwn == ASSUME OwnInv, TypeOK, Join PROVE OwnInv'
<1>1. PICK s \in Slot : s = tick.slot
  BY DEF TypeOK, TickState, Join, OwnInv, PassJoins
<1>2. /\ thread' = [thread EXCEPT ![s] = None] /\ sinks' = sinks /\ handler' = handler
      /\ Parting(s) /\ tick.pc = "join"
  BY <1>1, NoneApart DEF Join, OwnInv, PassJoins
<1>3. tick'.pc = "close" /\ tick'.slot = None
  BY DEF Join, TypeOK, TickState
<1>4. \A z \in Slot : thread'[z] = IF z = s THEN None ELSE thread[z]
  BY <1>2 DEF TypeOK
<1>5. \A h \in Handler : handler[h].slot # s
  BY <1>1, NoneApart DEF OwnInv, JoinersApart
<1>6. HandleHasThread'
  BY <1>2, <1>4 DEF TypeOK, OwnInv, HandleHasThread, Parting
<1>7. ASSUME NEW h \in Handler, handler[h].slot # None PROVE Parting(handler[h].slot)'
  <2>1. PICK z \in Slot : z = handler[h].slot
    BY <1>7 DEF TypeOK, HandlerState
  <2>2. Parting(z) /\ z # s
    BY <1>5, <1>7, <2>1 DEF OwnInv, HandlersJoin
  <2>3. Parting(z)'
    BY <1>2, <1>4, <2>2 DEF Parting
  <2>4. QED
    BY <1>2, <2>1, <2>3 DEF Parting
<1>8. HandlersJoin' /\ HandlersAim' /\ JoinersApart'
  BY <1>2, <1>3, <1>7 DEF OwnInv, HandlersJoin, HandlersAim, JoinersApart, Parting
<1>9. PassJoins' /\ OpensUnheld'
  BY <1>3 DEF PassJoins, OpensUnheld
<1>10. MixerOwned'
  BY <1>1, <1>2, <1>3, <1>4 DEF OwnInv, MixerOwned
<1>11. QED
  BY <1>6, <1>8, <1>9, <1>10 DEF OwnInv

LEMMA HandlerJoinKeepsOwn ==
  ASSUME OwnInv, TypeOK, NEW h \in Handler, HandlerJoin(h)
  PROVE  OwnInv'
<1>1. PICK s \in Slot : s = handler[h].slot
  BY DEF TypeOK, HandlerState, HandlerJoin, OwnInv, HandlersJoin
<1>2. /\ thread' = [thread EXCEPT ![s] = None] /\ sinks' = sinks /\ tick' = tick
      /\ Parting(s) /\ handler[h].pc = "join" /\ handler[h].slot # None
  BY <1>1, NoneApart DEF HandlerJoin, OwnInv, HandlersJoin
<1>3. /\ handler'[h].pc = "idle" /\ handler'[h].slot = None
      /\ \A k \in Handler : k # h => handler'[k] = handler[k]
  BY DEF HandlerJoin, TypeOK, HandlerIdle
<1>4. \A z \in Slot : thread'[z] = IF z = s THEN None ELSE thread[z]
  BY <1>2 DEF TypeOK
<1>5. tick.slot # s /\ \A k \in Handler : k # h => handler[k].slot # s
  BY <1>1, <1>2 DEF OwnInv, JoinersApart
<1>6. HandleHasThread'
  BY <1>2, <1>4 DEF TypeOK, OwnInv, HandleHasThread, Parting
<1>7. ASSUME NEW z \in Slot, z # s, Parting(z) PROVE Parting(z)'
  BY <1>2, <1>4, <1>7 DEF Parting
<1>8. HandlersJoin'
  <2>1. ASSUME NEW k \in Handler, NEW z \in Slot, handler'[k].slot = z PROVE Parting(z)'
    <3>1. k # h /\ handler[k].slot = z
      BY <1>3, <2>1, NoneApart
    <3>2. Parting(z) /\ z # s
      BY <1>5, <3>1, NoneApart DEF OwnInv, HandlersJoin
    <3>3. QED
      BY <1>7, <3>2
  <2>2. \A k \in Handler : handler'[k].slot \in Slot \cup {None}
    BY <1>3 DEF TypeOK, HandlerState
  <2>3. \A k \in Handler : handler'[k].slot # None <=> handler'[k].pc = "join"
    BY <1>3 DEF OwnInv, HandlersJoin
  <2>4. QED
    BY <2>1, <2>2, <2>3 DEF HandlersJoin, Parting
<1>9. HandlersAim' /\ JoinersApart'
  BY <1>2, <1>3 DEF OwnInv, HandlersAim, JoinersApart
<1>10. PassJoins' /\ OpensUnheld'
  <2>1. ASSUME tick.slot # None PROVE Parting(tick.slot)'
    <3>1. PICK z \in Slot : z = tick.slot
      BY <2>1 DEF TypeOK, TickState
    <3>2. Parting(z)'
      BY <1>5, <1>7, <2>1, <3>1 DEF OwnInv, PassJoins
    <3>3. QED
      BY <1>2, <3>1, <3>2 DEF Parting
  <2>2. QED
    BY <1>2, <2>1 DEF OwnInv, PassJoins, OpensUnheld, Parting
<1>11. MixerOwned'
  <2>1. SUFFICES ASSUME NEW z \in Slot, thread'[z] # None
                 PROVE  \/ sinks[thread[z].target] = z
                        \/ /\ thread[z].stop
                           /\ tick.slot = z \/ \E k \in Handler : handler'[k].slot = z
    BY <1>2, <1>4 DEF MixerOwned
  <2>2. z # s /\ thread[z] # None
    BY <1>4, <2>1
  <2>3. \A k \in Handler : handler[k].slot = z => handler'[k].slot = z
    BY <1>1, <1>3, <2>2
  <2>4. QED
    BY <2>2, <2>3 DEF OwnInv, MixerOwned
<1>12. QED
  BY <1>6, <1>8, <1>9, <1>10, <1>11 DEF OwnInv

(* A thread that has ended is still waited for, or keeps its handle.        *)
LEMMA EndKeepsOwn ==
  ASSUME OwnInv, TypeOK, NEW s \in Slot, Exit(s) \/ Die(s)
  PROVE  OwnInv'
<1> DEFINE ended == [thread[s] EXCEPT !.state = "exited"]
<1>1. /\ thread[s] # None /\ thread' = [thread EXCEPT ![s] = ended]
      /\ sinks' = sinks /\ tick' = tick /\ handler' = handler
  BY DEF Exit, Die
<1>2. ended # None /\ ended.target = thread[s].target /\ ended.stop = thread[s].stop
  BY <1>1, ThreadType, NoneApart
<1> HIDE DEF ended
<1>3. \A z \in Slot : /\ thread'[z] # None <=> thread[z] # None
                      /\ thread'[z].target = thread[z].target
                      /\ thread'[z].stop = thread[z].stop
  BY <1>1, <1>2 DEF TypeOK
<1>4. HandleHasThread' /\ MixerOwned'
  BY <1>1, <1>3, NoneApart DEF TypeOK, OwnInv, HandleHasThread, MixerOwned
<1>5. \A z \in Slot : Parting(z) => Parting(z)'
  BY <1>1, <1>3 DEF Parting
<1>6. PassJoins'
  <2>1. ASSUME tick.slot # None PROVE Parting(tick.slot)'
    <3>1. PICK z \in Slot : z = tick.slot
      BY <2>1 DEF TypeOK, TickState
    <3>2. Parting(z)'
      BY <1>5, <2>1, <3>1 DEF OwnInv, PassJoins
    <3>3. QED
      BY <1>1, <3>1, <3>2 DEF Parting
  <2>2. QED
    BY <1>1, <2>1 DEF OwnInv, PassJoins, Parting
<1>7. HandlersJoin'
  <2>1. ASSUME NEW k \in Handler, handler[k].slot # None PROVE Parting(handler[k].slot)'
    <3>1. PICK z \in Slot : z = handler[k].slot
      BY <2>1 DEF TypeOK, HandlerState
    <3>2. Parting(z)'
      BY <1>5, <2>1, <3>1 DEF OwnInv, HandlersJoin
    <3>3. QED
      BY <1>1, <3>1, <3>2 DEF Parting
  <2>2. QED
    BY <1>1, <2>1 DEF OwnInv, HandlersJoin, Parting
<1>8. JoinersApart' /\ HandlersAim' /\ OpensUnheld'
  BY <1>1 DEF OwnInv, JoinersApart, HandlersAim, OpensUnheld
<1>9. QED
  BY <1>4, <1>6, <1>7, <1>8 DEF OwnInv
-----------------------------------------------------------------------------
(* The invariant is inductive                                               *)

LEMMA UnchangedKeepsOwn ==
  ASSUME OwnInv, UNCHANGED <<sinks, thread, tick, handler>>
  PROVE  OwnInv'
BY DEF OwnInv, HandleHasThread, PassJoins, HandlersJoin, JoinersApart, HandlersAim, OpensUnheld,
       MixerOwned, Parting

LEMMA HandlersKeepInv ==
  ASSUME Inv, NEW h \in Handler,
         \/ \E d \in Device : Unplug(h, d)
         \/ \E g \in Group : GroupCommand(h, g)
         \/ Command(h)
  PROVE  Inv'
<1>1. TypeOK /\ OwnInv
  BY DEF Inv
<1>2. CASE \E d \in Device : Unplug(h, d)
  <2>1. PICK d \in Device : Unplug(h, d)
    BY <1>2
  <2>2. handler' \in [Handler -> HandlerState]
    BY <1>1, <2>1 DEF TypeOK, Unplug, HandlerState, Target
  <2>3. TypeOK'
    BY <1>1, <2>1, <2>2 DEF TypeOK, Unplug
  <2>4. OwnInv'
    BY <1>1, <2>1, StartKeepsOwn DEF Unplug, Target
  <2>5. QED
    BY <2>3, <2>4 DEF Inv
<1>3. CASE \E g \in Group : GroupCommand(h, g)
  <2>1. PICK g \in Group : GroupCommand(h, g)
    BY <1>3
  <2>2. TypeOK'
    BY <1>1, <2>1, CommandType
  <2>3. PICK members : Edit(h, g, members)
    BY <2>1
    DEF GroupCommand, DeleteGroup, AddGroupMember, RemoveGroupMember, SetGroupMemberLatency
  <2>4. OwnInv'
    BY <1>1, <2>3, StartKeepsOwn DEF Edit, Target
  <2>5. QED
    BY <2>2, <2>4 DEF Inv
<1>4. CASE HandlerClose(h)
  <2>1. HandlersAim
    BY <1>1 DEF OwnInv
  <2>2. QED
    BY <1>1, <1>4, <2>1, HandlerCloseType, HandlerCloseKeepsOwn DEF Inv
<1>5. CASE HandlerJoin(h)
  <2>1. HandlersJoin
    BY <1>1 DEF OwnInv
  <2>2. QED
    BY <1>1, <1>5, <2>1, HandlerJoinType, HandlerJoinKeepsOwn DEF Inv
<1>6. QED
  BY <1>2, <1>3, <1>4, <1>5 DEF Command

LEMMA PassKeepsInv == ASSUME Inv, Pass \/ Opening PROVE Inv'
<1>1. TypeOK /\ OwnInv /\ PassJoins
  BY DEF Inv, OwnInv
<1>2. CASE SurveyStep
  BY <1>1, <1>2, SurveyType, SurveyKeepsOwn DEF Inv
<1>3. CASE \E t \in Target : Close(t)
  BY <1>1, <1>3, CloseType, CloseKeepsOwn DEF Inv
<1>4. CASE Join
  BY <1>1, <1>4, JoinType, JoinKeepsOwn DEF Inv
<1>5. CASE Opening
  <2>1. TypeOK'
    BY <1>1, <1>5, OpeningType
  <2>2. CASE OpenFails
    <3>1. tick \in TickState /\ tick.slot = None
      BY <1>1, <2>2 DEF TypeOK, OpenFails, PassJoins
    <3>2. tick'.slot = None /\ tick'.pc = "open"
      BY <2>2, <3>1 DEF OpenFails, TickState
    <3>3. OwnInv'
      BY <1>1, <2>2, <3>1, <3>2, PassKeepsOwn DEF OpenFails, OpensUnheld
    <3>4. QED
      BY <2>1, <3>3 DEF Inv
  <2>3. CASE \E t \in Target, s \in Slot : OpenSucceeds(t, s)
    BY <1>1, <2>1, <2>3, OpenKeepsOwn DEF Inv
  <2>4. QED
    BY <1>5, <2>2, <2>3 DEF Opening, Open
<1>6. QED
  BY <1>2, <1>3, <1>4, <1>5 DEF Pass, SurveyStep

LEMMA TimeKeepsInv ==
  ASSUME Inv, Environment \/ \E t \in Target : Time(t)
  PROVE  Inv'
<1>1. TypeOK /\ OwnInv
  BY DEF Inv
<1>2. CASE Environment
  <2>1. UNCHANGED <<sinks, thread, tick, handler>>
    BY <1>2 DEF Environment, Plug, Play, CreateGroup
  <2>2. QED
    BY <1>1, <1>2, <2>1, EnvironmentType, UnchangedKeepsOwn DEF Inv
<1>3. CASE \E t \in Target : Time(t)
  <2>1. UNCHANGED <<sinks, thread, tick, handler>>
    BY <1>3 DEF Time, RetryElapses, IdleElapses
  <2>2. TypeOK'
    BY <1>1, <1>3 DEF TypeOK, Time, RetryElapses, IdleElapses
  <2>3. QED
    BY <1>1, <2>1, <2>2, UnchangedKeepsOwn DEF Inv
<1>4. QED
  BY <1>2, <1>3

LEMMA InvInductive == Inv /\ [Next]_vars => Inv'
<1>1. SUFFICES ASSUME Inv, [Next]_vars PROVE Inv'
  OBVIOUS
<1>2. CASE Environment \/ \E t \in Target : Time(t)
  BY <1>1, <1>2, TimeKeepsInv
<1>3. CASE \E h \in Handler : \/ \E d \in Device : Unplug(h, d)
                              \/ \E g \in Group : GroupCommand(h, g)
                              \/ Command(h)
  BY <1>1, <1>3, HandlersKeepInv
<1>4. CASE Pass \/ Opening
  BY <1>1, <1>4, PassKeepsInv
<1>5. CASE \E s \in Slot : Exit(s) \/ Die(s)
  BY <1>1, <1>5, EndType, EndKeepsOwn DEF Inv
<1>6. CASE UNCHANGED vars
  <2>1. TypeOK'
    BY <1>1, <1>6 DEF Inv, TypeOK, vars
  <2>2. QED
    BY <1>1, <1>6, <2>1, UnchangedKeepsOwn DEF Inv, vars
<1>7. QED
  BY <1>1, <1>2, <1>3, <1>4, <1>5, <1>6 DEF Next

LEMMA InvAlways == Spec => []Inv
<1>1. Init => Inv
  BY TypeInit, OwnInit DEF Inv
<1>2. QED
  BY <1>1, InvInductive, PTL DEF Spec

-----------------------------------------------------------------------------
(* Theorems                                                                 *)

(* The variables keep their types; in particular every handle is that of a  *)
(* thread that has not been joined, and no delay is negative (`sink.rs`).   *)
THEOREM TypeCorrect == Spec => []TypeOK
BY InvAlways, PTL DEF Inv

(* Every mixer thread has its target's handle, or it has been told to stop  *)
(* and somebody waits for it: tick() and concurrent commands (`sink.rs`)    *)
(* never lose a thread that would go on playing.                            *)
THEOREM MixersAreOwned == Spec => []MixerOwned
<1>1. Inv => MixerOwned
  BY DEF Inv, OwnInv
<1>2. QED
  BY <1>1, InvAlways, PTL

(* Nobody joins a thread that somebody else joins, or one that has a        *)
(* handle: a close_sink() never waits for a thread in use.                  *)
THEOREM JoinedOnce == Spec => [](JoinersApart /\ PassJoins /\ HandlersJoin)
<1>1. Inv => JoinersApart /\ PassJoins /\ HandlersJoin
  BY DEF Inv, OwnInv
<1>2. QED
  BY <1>1, InvAlways, PTL
=============================================================================
