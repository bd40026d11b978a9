-------------------------- MODULE DmxChannelMapper --------------------------
(***************************************************************************)
(* One block of the universe turned into washes and pulses: process() of   *)
(* dmx_channel_mapper.cpp.  The mapper is called on every pass of the loop *)
(* with the block as it stands, and has to find out itself what is new.    *)
(*                                                                         *)
(* A block is a record of the channels that steer the control: one colour  *)
(* channel stands for three, `shape' for the cycle, the envelope, the time *)
(* to live and the pulse response of the wash, all sent as they are.  Time *)
(* is in units of the loop's cadence (50 ms), kept as the age of the last  *)
(* wash and the time left to the next strobe pulse.                        *)
(***************************************************************************)
EXTENDS Integers, Sequences

CONSTANTS
    MinWashEmitGap,     \* kMinWashEmitGapMs
    MinRawWashEmitGap,  \* kMinRawWashEmitGapMs
    MinStrobeInterval,  \* kMinStrobeIntervalMs
    StrobeScale         \* 63750 ms: the interval of rate 1

ASSUME MapperAssumption ==
    {MinWashEmitGap, MinRawWashEmitGap, MinStrobeInterval, StrobeScale} \subseteq Nat \ {0}

Threshold == 128        \* kTriggerHi, kTriggerLo, kRawEnableThreshold
NoDeadline == -1        \* next_strobe_fire_ms_ = 0
NoWash == [kind |-> "none", colour |-> 0, shape |-> "none", intensity |-> 0]

ScaleByte(channel, master) == (channel * master) \div 255

\* "a non-zero LD input never scales to 0"
ScaleRawByte(channel, master) ==
    IF channel > 0 /\ ScaleByte(channel, master) = 0 THEN 1 ELSE ScaleByte(channel, master)

\* quantize_time(), and quantize_chance() which runs the other way.
QuantizeTime(slider) == slider \div 32
QuantizeChance(slider) == (255 - slider) \div 32

\* The age at which no comparison changes any more.
EmitAgeMax == IF MinRawWashEmitGap > MinWashEmitGap THEN MinRawWashEmitGap ELSE MinWashEmitGap

\* reset()
NewMapper ==
    [armed |-> TRUE, seeded |-> FALSE, wash |-> NoWash, emit_age |-> EmitAgeMax,
     rate |-> 0, deadline |-> NoDeadline, raw_active |-> FALSE, raw |-> 0]

\* `units' of time pass between two calls.
Aged(m, units) ==
    [m EXCEPT !.emit_age = IF @ + units > EmitAgeMax THEN EmitAgeMax ELSE @ + units,
              !.deadline = IF @ = NoDeadline THEN @ ELSE IF @ > units THEN @ - units ELSE 0]

-----------------------------------------------------------------------------
(* The raw path: the block is a plain RGB fixture.                         *)

RawEvent(ch) ==
    [kind |-> "wash", colour |-> ScaleRawByte(ch.raw, ch.master),
     intensity |-> 255, shape |-> "static"]

RawDue(m, ch) ==
    \/ ~m.raw_active
    \/ RawEvent(ch).colour # m.raw /\ m.emit_age >= MinRawWashEmitGap

\* maybe_emit_raw_wash_on_change(); the trigger is held disarmed meanwhile.
RawStep(m, ch) ==
    [m |-> IF RawDue(m, ch)
           THEN [m EXCEPT !.armed = FALSE, !.raw_active = TRUE,
                          !.raw = RawEvent(ch).colour, !.emit_age = 0]
           ELSE [m EXCEPT !.armed = FALSE],
     events |-> IF RawDue(m, ch) THEN <<RawEvent(ch)>> ELSE <<>>]

(* The FX path: wash, trigger and strobe, each with state of its own.      *)

WashEvent(ch) ==
    [kind |-> "wash", colour |-> ch.wash, shape |-> ch.shape,
     intensity |-> ScaleByte(ch.wash_intensity, ch.master)]

\* A plausible bug: the debounce applies to changes and repeats alike, and the
\* wash is noted as sent whether it was or not.
WashNotedAlways(m, ch) == WashEvent(ch)

\* maybe_emit_wash_on_change(): what has changed, but not too soon after the last.
WashDue(m, ch) ==
    \/ ~m.seeded
    \/ WashEvent(ch) # m.wash /\ m.emit_age >= MinWashEmitGap

WashNoted(m, ch) == IF WashDue(m, ch) THEN WashEvent(ch) ELSE m.wash

PulseEvent(ch, why) ==
    [kind |-> why, colour |-> ScaleByte(ch.pulse, ch.master),
     attack |-> QuantizeTime(ch.envelope), chance |-> QuantizeChance(ch.probability)]

Armed(m, ch) == m.armed \/ ch.trigger < Threshold

\* maybe_emit_pulse_on_trigger(): a rising edge fires once.
PulseDue(m, ch) == Armed(m, ch) /\ ch.trigger >= Threshold

\* A plausible bug: firing does not disarm.
StaysArmed(m, ch) == Armed(m, ch)

ArmedAfter(m, ch) == Armed(m, ch) /\ ~PulseDue(m, ch)

StrobeInterval(rate) ==
    IF StrobeScale \div rate < MinStrobeInterval THEN MinStrobeInterval
    ELSE StrobeScale \div rate

\* maybe_emit_strobe(): at the deadline, and at once when the rate changes.
StrobeDue(m, ch) == ch.rate # 0 /\ (ch.rate # m.rate \/ m.deadline = 0)

StrobeDeadline(m, ch) ==
    IF ch.rate = 0 THEN NoDeadline
    ELSE IF StrobeDue(m, ch) \/ m.deadline = NoDeadline THEN StrobeInterval(ch.rate)
    ELSE m.deadline

\* Out of raw mode the next FX wash goes out even if nothing in it moved.
LeftRaw(m) ==
    IF m.raw_active THEN [m EXCEPT !.raw_active = FALSE, !.seeded = FALSE] ELSE m

FxStep(m, ch) ==
    [m |-> [m EXCEPT !.seeded = TRUE,
                     !.wash = WashNoted(m, ch),
                     !.emit_age = IF WashDue(m, ch) THEN 0 ELSE @,
                     !.armed = ArmedAfter(m, ch),
                     !.rate = ch.rate,
                     !.deadline = StrobeDeadline(m, ch)],
     events |-> (IF WashDue(m, ch) THEN <<WashEvent(ch)>> ELSE <<>>)
             \o (IF PulseDue(m, ch) THEN <<PulseEvent(ch, "pulse")>> ELSE <<>>)
             \o (IF StrobeDue(m, ch) THEN <<PulseEvent(ch, "strobe")>> ELSE <<>>)]

\* process(): the mapper after it and the events for the sink.
Processed(m, ch) ==
    IF ch.raw_enable >= Threshold THEN RawStep(m, ch) ELSE FxStep(LeftRaw(m), ch)

\* The wash a steady block amounts to.
WashAsked(ch) == IF ch.raw_enable >= Threshold THEN RawEvent(ch) ELSE WashEvent(ch)
=============================================================================
