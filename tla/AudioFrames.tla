----------------------------- MODULE AudioFrames -----------------------------
(* What happens to the samples of a stream: the conversion of a payload in  *)
(* `engine/convert.rs`, the ring of a live stream in `engine/mod.rs` and    *)
(* what a mixer takes from it.                                              *)
(*                                                                          *)
(* A decoded sample is a pair <<frame, channel>>, frames counted from the   *)
(* first the client has sent.  A resampled sample is a blend of two samples *)
(* [a, b]; how much of each is arithmetic on their amplitudes and left out, *)
(* as are volume, clamping and the byte order of the two formats.           *)
EXTENDS Integers, Sequences

MixRate == 48000
MixChannels == 2

(* validate()                                                               *)
ValidFormat(rate, channels) == rate \in 1000 .. 384000 /\ channels \in 1 .. 8

(* Frames of a payload, the last of which may be torn.                      *)
FramesOf(samples, channels) == (samples + channels - 1) \div channels

(* decode() of a payload: it may end anywhere, but for the bytes that make  *)
(* no whole sample (they are dropped).  Every payload begins a frame.       *)
Payload(first, samples, channels) ==
  [i \in 1 .. samples |-> <<first + ((i - 1) \div channels), ((i - 1) % channels) + 1>>]

(* to_stereo(): one channel is doubled, two are taken as they are, of three *)
(* and more the first two are kept.  If the last frame is torn after its    *)
(* first sample there is no second one to keep, and the task panics.        *)
Panics(samples, channels) == channels > 2 /\ samples % channels = 1
ToStereo(decoded, channels) ==
  CASE channels = 1 -> [i \in 1 .. (2 * Len(decoded)) |-> decoded[(i + 1) \div 2]]
    [] channels = 2 -> decoded
    [] OTHER -> [i \in 1 .. (2 * FramesOf(Len(decoded), channels)) |->
                   decoded[channels * ((i - 1) \div 2) + ((i - 1) % 2) + 1]]

(* resample_stereo(), from the rate `rate`; positions are kept in units of  *)
(* 1/MixRate of a frame, the code's floating point numbers are close enough *)
(* to them not to reach another frame.                                      *)
FramesOut(frames, rate) == (frames * MixRate) \div rate
From(i, rate) == (i * rate) \div MixRate
MinOf(x, y) == IF x <= y THEN x ELSE y
Second(i, frames, rate) == MinOf(From(i, rate) + 1, frames - 1)

Resample(input, rate) ==
  LET frames == Len(input) \div MixChannels
  IN [k \in 1 .. (MixChannels * FramesOut(frames, rate)) |->
        LET i == (k - 1) \div MixChannels  c == ((k - 1) % MixChannels) + 1
        IN [a |-> input[From(i, rate) * MixChannels + c],
            b |-> input[Second(i, frames, rate) * MixChannels + c]]]

Ingest(rate, channels, decoded) ==
  LET stereo == ToStereo(decoded, channels)
  IN IF rate = MixRate THEN [i \in DOMAIN stereo |-> [a |-> stereo[i], b |-> stereo[i]]]
     ELSE Resample(stereo, rate)

(* push(): the oldest samples go when the ring is full, half of it stays.   *)
OneMore(cap) == (cap \div 2) + 1                             \* mutant
Kept(cap) == cap \div 2
Push(buffer, samples, cap) ==
  LET all == buffer \o samples
  IN IF Len(all) > cap THEN SubSeq(all, Len(all) - Kept(cap) + 1, Len(all)) ELSE all

(* take() for a mixer that has room for `room` samples.                     *)
Taken(buffer, room) == MixChannels * MinOf(Len(buffer) \div MixChannels, room \div MixChannels)

-----------------------------------------------------------------------------
(* A stream: its client sends payloads of some samples, a mixer reads some  *)
(* frames, in any order.  A payload that makes the task panic is the last.  *)
Heard(ops, rate, channels, cap) ==
  LET after[n \in 0 .. Len(ops)] ==
        IF n = 0 THEN [open |-> TRUE, sent |-> 0, ring |-> <<>>, out |-> <<>>]
        ELSE LET s == after[n - 1]  op == ops[n]  k == Taken(s.ring, MixChannels * op.size)
             IN IF op.do = "take"
                THEN [s EXCEPT !.ring = SubSeq(@, k + 1, Len(@)), !.out = @ \o SubSeq(s.ring, 1, k)]
                ELSE IF s.open /\ ~Panics(op.size, channels)
                THEN [s EXCEPT
                        !.sent = @ + FramesOf(op.size, channels),
                        !.ring = Push(@, Ingest(rate, channels, Payload(s.sent, op.size, channels)), cap)]
                ELSE [s EXCEPT !.open = FALSE]
  IN after[Len(ops)].out

Ops == [do : {"push"}, size : 1 .. 5] \cup [do : {"take"}, size : 1 .. 2]   \* bounds
Formats == {24000, 44100, 48000, 96000} \X (1 .. 3)
SampleCap == 8

(* Stereo samples at the mixers' rate go to the ring as they are, so that   *)
(* after a payload with an odd number of them left and right are swapped.   *)
Swaps(ops, rate, channels) ==
  /\ rate = MixRate /\ channels = 2
  /\ \E n \in DOMAIN ops : ops[n].do = "push" /\ ops[n].size % 2 = 1

(* With that exception channels are never swapped and frames never torn or  *)
(* played out of order: whatever a stream's format, wherever payloads end,  *)
(* whenever the ring overflows and however much each mixer period reads,    *)
(* what is heard are frames whose first sample comes from the first channel *)
(* and whose second sample from the second one of the same frame, every     *)
(* frame later than the one before unless it is a blend of the same two.    *)
IsFrame(left, right, channels) ==
  /\ left.a[2] = 1 /\ left.b[2] = 1
  /\ right = IF channels = 1 THEN left ELSE [a |-> <<left.a[1], 2>>, b |-> <<left.b[1], 2>>]
FramesInStep(out, channels) ==
  /\ Len(out) % MixChannels = 0
  /\ \A k \in 1 .. (Len(out) \div 2) : IsFrame(out[2 * k - 1], out[2 * k], channels)
  /\ \A k \in 1 .. Len(out) : out[k].b[1] - out[k].a[1] \in {0, 1}
  /\ \A k \in 1 .. Len(out) - 2 : out[k].a[1] <= out[k + 2].a[1]
EveryFrameAligned ==
  \A ops \in [1 .. 4 -> Ops], format \in Formats :
    \/ Swaps(ops, format[1], format[2])
    \/ FramesInStep(Heard(ops, format[1], format[2], SampleCap), format[2])
=============================================================================
