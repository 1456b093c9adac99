------------------------------- MODULE Signal -------------------------------
(***************************************************************************)
(* From a file to measurements: decoding (decode_audio in analyzer.rs), the *)
(* measurements made in the time domain (compute_metrics), and the signal  *)
(* path of the translation targets (translation_sim.rs).                   *)
(*                                                                         *)
(* Samples are integers, multiples of 20 or 40, so that the halves,         *)
(* quarters and widths of the code are exact.  Audio is a sequence of      *)
(* channels, a channel a sequence of samples.                              *)
(***************************************************************************)
EXTENDS Integers, Sequences, FiniteSets, FiniteSetsExt, SequencesExt

CONSTANTS Files,         \* what the demuxer of a file can deliver
          FullScale,     \* 1.0
          StereoWindow,  \* STEREO_WINDOW, also its hop
          RmsWindow, RmsHop,  \* RMS_WINDOW_MS and RMS_HOP_MS in frames
          ChunkFrames,   \* CHUNK_FRAMES
          Devices        \* the translation targets: width in twentieths, 0 for a
                         \* mono one, and a chain of filters with integer coefficients

\* A file is the number of channels its header declares, 0 if it declares none,
\* and events.  A packet holds frames of its own number of channels; the other
\* events are the end, or bytes that are missing, damaged or of a new track.
Packet(track, channels, frames) ==
    [kind |-> "packet", track |-> track, channels |-> channels, frames |-> frames]
Event(kind) == [kind |-> kind, track |-> "none", channels |-> 0, frames |-> <<>>]

IsPacket(e) ==
    /\ e.kind = "packet" /\ e.channels \in Nat \ {0} /\ e.frames \in Seq(Seq(Int))
    /\ \A i \in DOMAIN e.frames : Len(e.frames[i]) = e.channels

Filters == [{"b0", "b1", "b2", "a1", "a2"} -> Int]

ASSUME SignalAssumption ==
    /\ \A f \in Files :
          /\ f.channels \in Nat
          /\ f.events # <<>> /\ DOMAIN f.events = 1..Len(f.events) /\ Len(f.events) \in Nat
          /\ \A i \in DOMAIN f.events : f.events[i].kind = "packet" => IsPacket(f.events[i])
          /\ f.events[Len(f.events)].kind \in {"end", "cut"}
    /\ Devices \subseteq [width : Nat, chain : Seq(Filters)]
    /\ {FullScale, StereoWindow, RmsWindow, RmsHop, ChunkFrames} \subseteq Nat \ {0}

VARIABLES
    source,   \* the file
    next,     \* the next event of it
    decoded,  \* the samples so far, by channel
    decoding  \* "open", "done" or "failed"

signalVars == <<source, next, decoded, decoding>>

SignalInit ==
    /\ source \in Files
    /\ next = 1
    /\ decoded = <<>>
    /\ decoding = "open"

-----------------------------------------------------------------------------
(* decode_audio.                                                           *)

Channels(audio) == Len(audio)
Frames(audio) == IF audio = <<>> THEN 0 ELSE Len(audio[1])

\* The frames of a packet, each a tuple of samples, by channel.
Deinterleaved(packet) ==
    [c \in 1..packet.channels |-> [i \in DOMAIN packet.frames |-> packet.frames[i][c]]]

Upcoming == source.events[next]
ExpectedChannels == IF decoded = <<>> THEN source.channels ELSE Channels(decoded)
Ends(result) == decoding' = result /\ UNCHANGED <<source, next, decoded>>

\* A packet of the default track must have as many channels as those before it.
DecodePacket ==
    /\ decoding = "open" /\ Upcoming.kind = "packet" /\ Upcoming.track = "default"
    /\ LET fresh == Deinterleaved(Upcoming) IN
       IF ExpectedChannels \in {0, Upcoming.channels}
       THEN /\ decoded' = IF decoded = <<>> THEN fresh
                          ELSE [c \in DOMAIN decoded |-> decoded[c] \o fresh[c]]
            /\ UNCHANGED decoding
       ELSE decoding' = "failed" /\ UNCHANGED decoded
    /\ next' = next + 1
    /\ UNCHANGED source

SkipForeignPacket ==
    /\ decoding = "open" /\ Upcoming.kind = "packet" /\ Upcoming.track # "default"
    /\ next' = next + 1
    /\ UNCHANGED <<source, decoded, decoding>>

\* Missing bytes look like the end; without any audio the file is refused.
EndOfFile ==
    /\ decoding = "open" /\ Upcoming.kind \in {"end", "cut"}
    /\ Ends(IF decoded = <<>> THEN "failed" ELSE "done")

\* Faulty: the demuxer idiom, a damaged packet is passed over.
PassOverDamage ==
    /\ decoding = "open" /\ Upcoming.kind \in {"corrupt", "reset"}
    /\ next' = next + 1
    /\ UNCHANGED <<source, decoded, decoding>>

RefuseDamage ==
    /\ decoding = "open" /\ Upcoming.kind \in {"corrupt", "reset"}
    /\ Ends("failed")

SignalNext == DecodePacket \/ SkipForeignPacket \/ EndOfFile \/ RefuseDamage

SignalSpec == SignalInit /\ [][SignalNext]_signalVars

-----------------------------------------------------------------------------
(* compute_metrics.                                                        *)

Abs(x) == IF x < 0 THEN -x ELSE x
EnergyOf(x) == x * x
Fraction(a, b) == [num |-> a, den |-> b]
AtMost(f, g) == f.num * g.den <= g.num * f.den

\* The samples, by channel and frame.
Places(audio) == (DOMAIN audio) \X (1..Frames(audio))
Level(audio, p) == Abs(audio[p[1]][p[2]])

SamplePeak(audio) == Max({0} \union {Level(audio, p) : p \in Places(audio)})
ClippedSamples(audio) == Cardinality({p \in Places(audio) : Level(audio, p) >= FullScale})
Energy(audio) == SumFunction([p \in Places(audio) |-> EnergyOf(audio[p[1]][p[2]])])

\* Three points on the straight line between neighbours.
ApproxTruePeak(audio) ==
    LET between(c, i, q) ==
            Abs(audio[c][i] + ((audio[c][i + 1] - audio[c][i]) * q) \div 4)
    IN  Max({0} \union {Level(audio, p) : p \in Places(audio)}
                \union {between(c, i, q) : c \in DOMAIN audio, i \in 1..(Frames(audio) - 1),
                                          q \in 1..3})

\* Windows start at every hop and are padded with silence.
Starts(frames, hop) == {s \in 0..(IF frames = 0 THEN 0 ELSE frames - 1) : s % hop = 0}
Padded(channel, start, window) ==
    [i \in 1..window |-> IF start + i <= Len(channel) THEN channel[start + i] ELSE 0]

\* Energy per window; the common factor of a mean is left out.
RmsSeries(audio) ==
    [k \in 1..Cardinality(Starts(Frames(audio), RmsHop)) |->
        SumFunction([p \in (DOMAIN audio) \X (1..RmsWindow) |->
            EnergyOf(Padded(audio[p[1]], (k - 1) * RmsHop, RmsWindow)[p[2]])])]

\* Jumps of 6 dB: a factor of 10^0.6 in energy.
Transients(audio) ==
    LET series == RmsSeries(audio) IN
    Cardinality({k \in 2..Len(series) :
        series[k] > 0 /\ 1000 * series[k] >= 3981 * series[k - 1]})

\* Transients by duration, for which the frames stand: the rate is a constant.
TransientDensity(audio) ==
    IF Frames(audio) = 0 THEN Fraction(0, 1) ELSE Fraction(Transients(audio), Frames(audio))

\* The peak over the mean of the whole recording, as energies.
CrestFactor(audio) ==
    LET peak == SamplePeak(audio)
        total == Energy(audio)
    IN  IF total = 0 THEN Fraction(1, 1)
        ELSE Fraction(Max({total, Channels(audio) * Frames(audio) * (peak * peak)}), total)

\* Faulty: the last window is not padded.
CutToAudio(channel, start) ==
    SubSeq(channel, start + 1, Min({Len(channel), start + StereoWindow}))

WindowOf(channel, start) == Padded(channel, start, StereoWindow)

\* Window length times covariance; its size comes from the window itself.
CoMoment(xs, ys) ==
    Len(xs) * SumFunction([i \in DOMAIN xs |-> xs[i] * ys[i]])
        - SumFunction(xs) * SumFunction(ys)

\* Windows in which a channel is constant have no correlation.
Correlations(audio) ==
    IF Channels(audio) < 2 THEN {}
    ELSE LET window(c, s) == WindowOf(audio[c], s)
             moments(s) == [product |-> CoMoment(window(1, s), window(2, s)),
                            left |-> CoMoment(window(1, s), window(1, s)),
                            right |-> CoMoment(window(2, s), window(2, s))]
         IN  {m \in {moments(s) : s \in Starts(Frames(audio), StereoWindow)} :
                 m.left * m.right # 0}

\* The energies of left and right, whose ratio is the balance.
Balance(audio) ==
    IF Channels(audio) < 2 THEN <<>>
    ELSE LET energy(c) == SumFunction([i \in DOMAIN audio[c] |-> EnergyOf(audio[c][i])])
         IN  <<energy(1), energy(2)>>

\* feed_meter_interleaved: what the loudness meter is given, chunk by chunk.
FeedMeter(audio) ==
    LET frames == Frames(audio)
        chunk(k) == FlattenSeq([i \in 1..Min({ChunkFrames, frames - k * ChunkFrames}) |->
                        [c \in DOMAIN audio |-> audio[c][k * ChunkFrames + i]]])
        chunks == (frames + ChunkFrames - 1) \div ChunkFrames
    IN  FlattenSeq([k \in 1..chunks |-> chunk(k - 1)])

-----------------------------------------------------------------------------
(* simulate_targets.                                                       *)

\* Left and right: of more than two channels, the means of the even and the odd.
StereoBasis(audio) ==
    LET mean(cs) == [i \in 1..Frames(audio) |->
                        SumFunction([c \in cs |-> audio[c][i]]) \div Cardinality(cs)]
        every(r) == {c \in DOMAIN audio : c % 2 = r}
    IN  IF Channels(audio) = 1 THEN <<audio[1], audio[1]>> ELSE <<mean(every(1)), mean(every(0))>>

Mid(basis, i) == (basis[1][i] + basis[2][i]) \div 2
Side(basis, i) == (basis[1][i] - basis[2][i]) \div 2

ApplyStereoWidth(basis, width) ==
    <<[i \in DOMAIN basis[1] |-> Mid(basis, i) + (Side(basis, i) * width) \div 20],
      [i \in DOMAIN basis[1] |-> Mid(basis, i) - (Side(basis, i) * width) \div 20]>>

FoldToMono(basis) == <<[i \in DOMAIN basis[1] |-> Mid(basis, i)]>>

\* DirectForm1State, and one sample through a filter.
AtRest == [x1 |-> 0, x2 |-> 0, y1 |-> 0, y2 |-> 0]
Process(state, filter, x) ==
    [x1 |-> x, x2 |-> state.x1,
     y1 |-> filter.b0 * x + filter.b1 * state.x1 + filter.b2 * state.x2
                - filter.a1 * state.y1 - filter.a2 * state.y2,
     y2 |-> state.y1]

\* The states before and after each sample of a channel; y1 is the output.
FilterChannel(from, filter, channel) ==
    LET states[k \in 0..Len(channel)] ==
            IF k = 0 THEN from ELSE Process(states[k - 1], filter, channel[k])
    IN  states
Output(states, channel) == [i \in 1..Len(channel) |-> states[i].y1]

\* Faulty: one state for both channels.
ApplyFilterSharingState(filter, channels) ==
    LET first == FilterChannel(AtRest, filter, channels[1])
        from(c) == IF c = 1 THEN AtRest ELSE first[Len(channels[1])]
    IN  [c \in DOMAIN channels |->
            Output(FilterChannel(from(c), filter, channels[c]), channels[c])]

ApplyFilter(filter, channels) ==
    [c \in DOMAIN channels |->
        Output(FilterChannel(AtRest, filter, channels[c]), channels[c])]

\* Each filter runs over the whole of each channel, from rest.
ApplyFilterChain(chain, channels) ==
    LET done[k \in 0..Len(chain)] ==
            IF k = 0 THEN channels ELSE ApplyFilter(chain[k], done[k - 1])
    IN  done[Len(chain)]

TransformTarget(basis, device) ==
    ApplyFilterChain(device.chain,
        IF device.width = 0 THEN FoldToMono(basis) ELSE ApplyStereoWidth(basis, device.width))

\* Faulty: only kept below full scale.
AttenuateToFullScale(channels, sourcePeak) ==
    IF SamplePeak(channels) > FullScale
    THEN [samples |-> channels, num |-> FullScale, den |-> SamplePeak(channels)]
    ELSE [samples |-> channels, num |-> 1, den |-> 1]

\* Every sample is multiplied by num / den.
AttenuateToSourcePeak(channels, sourcePeak) ==
    IF SamplePeak(channels) > sourcePeak
    THEN [samples |-> channels, num |-> sourcePeak, den |-> SamplePeak(channels)]
    ELSE [samples |-> channels, num |-> 1, den |-> 1]

Simulate(audio, device) ==
    LET basis == StereoBasis(audio) IN
    AttenuateToSourcePeak(TransformTarget(basis, device), SamplePeak(basis))

-----------------------------------------------------------------------------
Decoded == decoding = "done"

\* The packets of the default track before an event, and the frames in them.
Parts(events, k) ==
    {i \in 1..(k - 1) : events[i].kind = "packet" /\ events[i].track = "default"}
FramesBefore(events, k) == SumFunction([i \in Parts(events, k) |-> Len(events[i].frames)])

\* What is measured is the file up to its end or up to where it was cut, every
\* packet of the default track in its place and nothing else; a file damaged
\* before that, or whose channels change, is refused and never measured in part.
NothingSkipped ==
    Decoded =>
       LET events == source.events
           stop == Min({i \in DOMAIN events : events[i].kind # "packet"})
       IN  /\ events[stop].kind \in {"end", "cut"}
           /\ Parts(events, stop) # {}
           /\ \A c \in DOMAIN decoded : Len(decoded[c]) = FramesBefore(events, stop)
           /\ \A i \in Parts(events, stop) :
                 /\ events[i].channels = Channels(decoded)
                 /\ \A c \in DOMAIN decoded, j \in DOMAIN events[i].frames :
                       decoded[c][FramesBefore(events, i) + j] = events[i].frames[j][c]

\* The measures of one recording agree: samples clip exactly if the peak is at
\* full scale, the approximated true peak is never more than the sample peak
\* (between two samples the line goes no higher), the crest factor and the
\* correlations stay in their ranges, and the loudness meter is fed each frame
\* once and in order, whatever the number of chunks.
MeasuresAgree ==
    Decoded =>
       LET peak == SamplePeak(decoded) IN
       /\ (ClippedSamples(decoded) > 0) <=> (peak >= FullScale)
       /\ ApproxTruePeak(decoded) = peak
       /\ Energy(decoded) <= Channels(decoded) * Frames(decoded) * (peak * peak)
       /\ \A m \in Correlations(decoded) : m.product * m.product <= m.left * m.right
       /\ FeedMeter(decoded) =
             FlattenSeq([i \in 1..Frames(decoded) |-> [c \in DOMAIN decoded |-> decoded[c][i]]])

\* Silence at the end adds windows and fills those that were padded, and yet it
\* makes no peak, no clipping, no transient and no correlation, and leaves the
\* balance.  It only dilutes the two measures taken over the whole duration: the
\* density of transients can only fall, and the crest factor, which W004 looks
\* at, can only rise.
TrailingSilenceOnlyDilutes ==
    Decoded =>
       \A n \in {1, StereoWindow} :
          LET tailed == [c \in DOMAIN decoded |-> decoded[c] \o [i \in 1..n |-> 0]] IN
          /\ SamplePeak(tailed) = SamplePeak(decoded)
          /\ ClippedSamples(tailed) = ClippedSamples(decoded)
          /\ ApproxTruePeak(tailed) = ApproxTruePeak(decoded)
          /\ Transients(tailed) = Transients(decoded)
          /\ Correlations(tailed) = Correlations(decoded)
          /\ Balance(tailed) = Balance(decoded)
          /\ AtMost(TransientDensity(tailed), TransientDensity(decoded))
          /\ AtMost(CrestFactor(decoded), CrestFactor(tailed))

\* The measures made in the time domain agree, and a tail only dilutes them.
MeasuresAreSound == MeasuresAgree /\ TrailingSilenceOnlyDilutes

\* No target is louder than the source, so none clips audio that does not.
TargetsKeepPeak ==
    Decoded =>
       \A d \in Devices :
          LET heard == Simulate(decoded, d) IN
          SamplePeak(heard.samples) * heard.num <= SamplePeak(decoded) * heard.den

\* Folding what a stereo target plays down to mono gives what a mono target
\* with the same filters plays: the filters keep the channels apart and start
\* from rest, and the width leaves the middle alone.
FoldDownCommutes ==
    Decoded =>
       LET basis == StereoBasis(decoded) IN
       \A d \in Devices :
          d.width # 0 =>
             FoldToMono(TransformTarget(basis, d)) = TransformTarget(basis, [d EXCEPT !.width = 0])
=============================================================================
