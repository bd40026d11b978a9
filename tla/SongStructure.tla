--------------------------- MODULE SongStructure ---------------------------
(***************************************************************************)
(* How the microphone's frames become drops and sections: drop_detector    *)
(* and section_detector, one call of each per frame, in the order of       *)
(* LocalDriver's frame callback.                                           *)
(*                                                                         *)
(* The drop detector's bass is exact and its two rings are the last frames *)
(* pushed.  The smoothed descriptors of the section detector are not kept: *)
(* what they make of a frame, the section it speaks for and whether it is  *)
(* below both low thresholds, is an input.  Time is counted in frames.     *)
(***************************************************************************)
EXTENDS Naturals, Sequences

CONSTANTS
    BassLevels,         \* bass energies of a frame
    ShortWindow,        \* short_window_frames
    LongWindow,         \* long_window_frames
    DropWarmup,         \* warmup_frames of the drop detector
    Cooldown,           \* cooldown_ms
    TransitionFrames, SustainFrames, DropHold,
    SectionWarmup       \* warmup_frames of the section detector

ASSUME SongAssumption ==
    /\ BassLevels \subseteq Nat
    /\ {ShortWindow, LongWindow, DropWarmup, Cooldown, SectionWarmup} \subseteq Nat
    /\ {TransitionFrames, SustainFrames, DropHold} \subseteq Nat \ {0}

VARIABLES
    bass,       \* [recent, armed_drop, armed_breakdown, age]
    song,       \* [seen, current, candidate, streak, low, hold]
    heard       \* what the frames said: see Heard

songVars == <<bass, song, heard>>

Spoken == {"unknown", "verse", "chorus", "buildup"}

\* age: frames since the last event; Cooldown once it no longer matters,
\* and before the first event.
SongInit ==
    /\ bass = [recent |-> <<>>, armed_drop |-> TRUE, armed_breakdown |-> TRUE, age |-> Cooldown]
    /\ song = [seen |-> 0, current |-> "unknown", candidate |-> "unknown", streak |-> 0,
               low |-> 0, hold |-> 0]
    /\ heard = [event |-> "none", dipped |-> TRUE, since_drop |-> DropHold, low_run |-> 0,
                said |-> "unknown", said_run |-> 0]

-----------------------------------------------------------------------------
(* The drop detector.                                                      *)

Latest(s, n) == SubSeq(s, IF Len(s) > n THEN Len(s) - n + 1 ELSE 1, Len(s))

Total(s) ==
    LET sum[i \in 0 .. Len(s)] == IF i = 0 THEN 0 ELSE sum[i - 1] + s[i]
    IN  sum[Len(s)]

\* short_mean against long_mean * num / den.
MeansCompared(recent, num, den) ==
    LET short == Latest(recent, ShortWindow)
    IN  [left |-> Total(short) * Len(recent) * den,
         right |-> Total(recent) * Len(short) * num]

AboveBaseline(recent) ==
    LET c == MeansCompared(recent, 1, 1) IN c.left > c.right

BelowBaseline(recent) ==
    LET c == MeansCompared(recent, 1, 1) IN c.left < c.right

\* drop_ratio 1.8, breakdown_ratio 0.4
IsDrop(recent) ==
    LET c == MeansCompared(recent, 9, 5) IN c.left > c.right

IsBreakdown(recent) ==
    LET c == MeansCompared(recent, 2, 5) IN c.left < c.right

\* The frame is pushed, then the gates: warm-up, cooldown, a silent baseline.
Evaluates(recent) ==
    Len(recent) >= DropWarmup /\ bass.age = Cooldown /\ Total(recent) > 0

Rearmed(recent) ==
    [drop |-> bass.armed_drop \/ ~AboveBaseline(recent),
     breakdown |-> bass.armed_breakdown \/ ~BelowBaseline(recent)]

EventOf(recent, armed) ==
    IF IsDrop(recent) /\ armed.drop THEN "drop"
    ELSE IF IsBreakdown(recent) /\ armed.breakdown THEN "breakdown"
    ELSE "none"

BassAge == IF bass.age < Cooldown THEN bass.age + 1 ELSE Cooldown

\* DropDetector::process(); a frame inside the cooldown re-arms nothing.
BassAfter(recent) ==
    LET armed == Rearmed(recent)
        event == IF Evaluates(recent) THEN EventOf(recent, armed) ELSE "none"
    IN  [event |-> event,
         state |->
            IF Evaluates(recent)
            THEN [recent |-> recent,
                  armed_drop |-> armed.drop /\ event # "drop",
                  armed_breakdown |-> armed.breakdown /\ event # "breakdown",
                  age |-> IF event # "none" THEN 1 ELSE Cooldown]
            ELSE [bass EXCEPT !.recent = recent, !.age = BassAge]]

-----------------------------------------------------------------------------
(* The section detector.                                                   *)

Seen == IF song.seen < SectionWarmup THEN song.seen + 1 ELSE song.seen

\* A drop is held for drop_hold_frames, whatever the descriptors say.
HeldDrop(hold) ==
    [seen |-> Seen, current |-> "drop", candidate |-> "drop", streak |-> 0,
     low |-> 0, hold |-> hold - 1]

LowStreak(low) ==
    IF ~low THEN 0
    ELSE IF song.low < SustainFrames THEN song.low + 1 ELSE song.low

Committed(candidate) == [current |-> candidate, candidate |-> candidate, streak |-> 0]

\* A plausible bug: the streak goes on when the candidate changes.
WeighedAcrossCandidates(candidate) ==
    IF candidate = song.current
    THEN [current |-> song.current, candidate |-> song.current, streak |-> 0]
    ELSE IF candidate = "breakdown" \/ song.streak + 1 >= TransitionFrames
         THEN Committed(candidate)
         ELSE [current |-> song.current, candidate |-> candidate, streak |-> song.streak + 1]

\* The hysteresis of one frame: nothing to change, one more frame of the same
\* candidate, or the first of another.
Weighed(candidate) ==
    IF candidate = song.current
    THEN [current |-> song.current, candidate |-> song.current, streak |-> 0]
    ELSE LET streak == IF candidate = song.candidate THEN song.streak + 1 ELSE 1
             again == candidate = song.candidate
         IN  IF candidate = "breakdown" \/ (again /\ streak >= TransitionFrames)
             THEN Committed(candidate)
             ELSE [current |-> song.current, candidate |-> candidate, streak |-> streak]

\* SectionDetector::process().
SongAfter(said, low, dropped) ==
    LET hold == IF dropped THEN DropHold ELSE song.hold
        low_streak == LowStreak(low)
        candidate == IF low_streak >= SustainFrames THEN "breakdown" ELSE said
        next == Weighed(candidate)
    IN  IF hold > 0 THEN HeldDrop(hold)
        ELSE IF Seen < SectionWarmup THEN [song EXCEPT !.seen = Seen, !.hold = 0]
        ELSE [seen |-> Seen, current |-> next.current, candidate |-> next.candidate,
              streak |-> next.streak, low |-> low_streak, hold |-> 0]

-----------------------------------------------------------------------------
\* What the frames said so far, kept to state the properties: the event of the
\* last frame, whether the short mean fell back to the baseline since the last
\* drop, frames since that drop, and the runs of low frames and of one section
\* spoken for.  Each count stops where it no longer matters.
UpTo(n, bound) == IF n < bound THEN n ELSE bound

Heard(recent, said, low, event) ==
    LET dropped == event = "drop"
    IN  [event |-> event,
         dipped |-> ~dropped /\ (heard.dipped \/ ~AboveBaseline(recent)),
         since_drop |-> IF dropped THEN 1 ELSE UpTo(heard.since_drop + 1, DropHold + 1),
         low_run |-> IF low THEN UpTo(heard.low_run + 1, SustainFrames) ELSE 0,
         said |-> said,
         said_run |-> IF said = heard.said THEN UpTo(heard.said_run + 1, TransitionFrames) ELSE 1]

\* One frame of the microphone.  What it says for a section comes from the slow
\* means, whether it is low from the fast ones: neither decides the other.
AudioFrameIn ==
    \E level \in BassLevels, said \in Spoken, low \in BOOLEAN :
       LET recent == Latest(Append(bass.recent, level), LongWindow)
           after == BassAfter(recent)
       IN  /\ bass' = after.state
           /\ song' = SongAfter(said, low, after.event = "drop")
           /\ heard' = Heard(recent, said, low, after.event)

SongNext == AudioFrameIn

SongSpec == SongInit /\ [][SongNext]_songVars

-----------------------------------------------------------------------------
(* Property.                                                               *)

\* No flicker, from the bass to the label: what replaces a section is a drop, if
\* the bass had fallen back to its baseline since the last one, a breakdown
\* after a sustained low, or a section spoken for by transition_frames frames in
\* a row; and nothing ends a drop before it was held (process() of both
\* detectors).
SectionsDwell ==
    [][ song'.current # song.current =>
          \/ song'.current = "drop" /\ heard'.event = "drop" /\ heard.dipped
          \/ /\ song'.current = "breakdown"
             /\ heard'.low_run = SustainFrames /\ heard'.since_drop > DropHold
          \/ /\ song'.current = heard'.said /\ heard'.said_run = TransitionFrames
             /\ heard'.since_drop > DropHold ]_songVars
=============================================================================
