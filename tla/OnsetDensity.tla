---------------------------- MODULE OnsetDensity ----------------------------
(***************************************************************************)
(* Onsets and their density: BeatDetector over one watched band, three of  *)
(* them in LocalDriver, and the ring of event times that MusicDescriptors  *)
(* turns into events per window.                                           *)
(*                                                                         *)
(* The threshold test is exact: mean and deviation are kept as sums, so    *)
(* that magnitude > mean + k * deviation becomes a comparison of integers. *)
(* Time is counted in frames.  What the centroid and the energy compute    *)
(* from one frame is left out.                                             *)
(***************************************************************************)
EXTENDS Naturals, Sequences, SequencesExt, FiniteSets, FiniteSetsExt

CONSTANTS
    Onsets,             \* the detectors
    Refractory,         \* refractory_ms, of each
    Fifths,             \* threshold_k of each, in fifths: 11, 10 and 9
    Magnitudes,         \* magnitudes of a watched band
    HistorySize,        \* kHistorySize
    OnsetWarmup,        \* warmup_frames
    DensityWindow,      \* kDensityWindowMs
    DensityMaxEvents,   \* events in a window that read as 255
    DensityRingCap,     \* kDensityRingCap
    MaxOnsetFrames      \* bound: frames

ASSUME DensityAssumption ==
    /\ {DensityMaxEvents, DensityRingCap, DensityWindow} \subseteq Nat \ {0}
    /\ DensityMaxEvents <= DensityRingCap   \* 16 and 32
    /\ MaxOnsetFrames \in Nat

VARIABLES
    onset,      \* detector -> [history, last_beat]
    events,     \* [ring, head]: event_ts_ (its length is event_count_), event_head_
    density,    \* density_
    frame_now,  \* the time of the last frame
    sounded     \* every time an onset fired, kept to state the property

onsetVars == <<onset, events, density, frame_now, sounded>>

\* last_beat 0 is "never": the first frame comes later than that.
OnsetInit ==
    /\ onset = [o \in Onsets |-> [history |-> <<>>, last_beat |-> 0]]
    /\ events = [ring |-> <<>>, head |-> 1]
    /\ density = 0 /\ frame_now = 0 /\ sounded = {}

-----------------------------------------------------------------------------
\* magnitude > mean + k * deviation: for n samples of sum s and sum of squares q,
\* n m > s and (n m - s)^2 > k^2 (n q - s^2).
AboveThreshold(o, history, magnitude) ==
    LET n == Len(history)
        s == FoldSeq(LAMBDA x, sum : sum + x, 0, history)
        q == FoldSeq(LAMBDA x, sum : sum + (x * x), 0, history)
        excess == (n * magnitude) - s
    IN  n * magnitude > s
        /\ 25 * excess * excess > Fifths[o] * Fifths[o] * ((n * q) - (s * s))

InRefractory(o, now) ==
    onset[o].last_beat # 0 /\ now - onset[o].last_beat < Refractory[o]

\* BeatDetector::process() on a frame that is compared with the frames before
\* it, never with itself.
Fires(o, magnitude, now) ==
    /\ Len(onset[o].history) >= OnsetWarmup
    /\ ~InRefractory(o, now)
    /\ AboveThreshold(o, onset[o].history, magnitude)

Pushed(history, magnitude) ==
    IF Len(history) < HistorySize THEN Append(history, magnitude)
    ELSE Append(Tail(history), magnitude)

Detected(o, magnitude, now) ==
    [history |-> Pushed(onset[o].history, magnitude),
     last_beat |-> IF Fires(o, magnitude, now) THEN now ELSE onset[o].last_beat]

-----------------------------------------------------------------------------
\* A plausible bug: once full, the ring's last entry is replaced each time.
NotedAtLast(now) ==
    [ring |-> IF events.head > Len(events.ring) THEN Append(events.ring, now)
              ELSE [events.ring EXCEPT ![events.head] = now],
     head |-> IF events.head = DensityRingCap THEN events.head ELSE events.head + 1]

\* The ring of event times: it grows to its size, then the oldest is replaced.
Noted(now) ==
    [ring |-> IF events.head > Len(events.ring) THEN Append(events.ring, now)
              ELSE [events.ring EXCEPT ![events.head] = now],
     head |-> IF events.head = DensityRingCap THEN 1 ELSE events.head + 1]

WindowStart(now) == IF now > DensityWindow THEN now - DensityWindow ELSE 0

\* Events per second, over the window or the time so far, clamped to 255.
Scaled(count, now) ==
    Min({255, (255 * count * DensityWindow)
                \div (DensityMaxEvents * Min({now, DensityWindow}))})

DensityOf(ring, now) ==
    Scaled(Cardinality({i \in DOMAIN ring : ring[i] >= WindowStart(now)}), now)

\* One frame: the detectors, then MusicDescriptors::process(), told whether any
\* of them fired.
OnsetFrame ==
    /\ frame_now < MaxOnsetFrames
    /\ \E magnitude \in [Onsets -> Magnitudes] :
          LET now == frame_now + 1
              any_event == \E o \in Onsets : Fires(o, magnitude[o], now)
              noted == IF any_event THEN Noted(now) ELSE events
          IN  /\ onset' = [o \in Onsets |-> Detected(o, magnitude[o], now)]
              /\ events' = noted
              /\ density' = DensityOf(noted.ring, now)
              /\ frame_now' = now
              /\ sounded' = IF any_event THEN sounded \cup {now} ELSE sounded

OnsetNext == OnsetFrame

OnsetSpec == OnsetInit /\ [][OnsetNext]_onsetVars

-----------------------------------------------------------------------------
\* The density a show reads is that of everything that sounded in the window,
\* up to the value it saturates at: the ring forgets nothing that counts,
\* however the onsets of the detectors fall (MusicDescriptors::process()).
DensityTrue ==
    frame_now > 0 =>
        density = Scaled(Cardinality({t \in sounded : t + DensityWindow >= frame_now}),
                         frame_now)
=============================================================================
