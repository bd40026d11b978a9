------------------------------ MODULE LedStrip ------------------------------
(***************************************************************************)
(* The LED strip of a Lume: led_strip_driver.cpp.  The WiFi task puts a    *)
(* pulse or a wash into the driver while it handles the frame; the main    *)
(* task renders the strip on every pass of its loop, pixel by pixel, from  *)
(* a `now' and a pulse it copied when the frame began.  Neither task       *)
(* waits for the other, so anything may arrive between two steps of a      *)
(* frame.                                                                  *)
(*                                                                         *)
(* A pulse stamps the pixels it hits; which of them it hits is a roll of   *)
(* the dice per group of pixels, or the tile mask of the frame, so any set *)
(* of pixels.  Stamps are kept as ages.  Colours are names: the fades are  *)
(* told apart only as lit or not.                                          *)
(***************************************************************************)
EXTENDS Integers, FiniteSets

CONSTANTS
    MaxPixels,      \* kMaxPixels: 288
    PixelCounts,    \* the lengths the strip may be set to
    Pulses,         \* [colour, attack, total]: what the frames ask for
    PulseFloor,     \* 192 ms, the length of a pulse of no length
    Washes,         \* [colour, ttl, release]; ttl 0 is for ever
    Releases,       \* release times of an END, 0 among them: "as the wash says"
    MaxFrameLag,    \* bound: how far the clock runs within a frame
    MaxEvents       \* bound: calls into the driver

ASSUME StripAssumption ==
    /\ MaxPixels \in Nat \ {0}
    /\ PixelCounts \subseteq Nat /\ PixelCounts # {}
    /\ {PulseFloor, MaxEvents} \subseteq Nat \ {0}
    /\ MaxFrameLag \in Nat
    /\ Pulses \subseteq [colour : STRING, attack : Nat, total : Nat]

VARIABLES
    wash_,      \* [active, colour, age, ttl, release, releasing]
    pulse_,     \* current_pulse_: [colour, attack, total]
    stamp,      \* pixel_pulse_started_, per pixel: its age, or Never
    strip,      \* [enabled, count, overlay]: the settings
    render,     \* [pc, lag, pixel, base, pulse]: the frame in the making
    shown,      \* what each pixel shows, or is about to
    events,     \* calls so far
    unseen      \* history: pixels hit between two frames and not yet lit by it

stripVars == <<wash_, pulse_, stamp, strip, render, shown, events, unseen>>

Pixels == 0 .. MaxPixels - 1
Walk == {p \in Pixels : p < strip.count}

Never == -1
Dark == "dark"
Overlay == "overlay"

NoPulse == [colour |-> Dark, attack |-> 0, total |-> 0]
NoStripWash ==
    [active |-> FALSE, colour |-> Dark, age |-> 0, ttl |-> 0, release |-> 0,
     releasing |-> Never]
Idle == [pc |-> "idle", lag |-> 0, pixel |-> 0, base |-> Dark, pulse |-> NoPulse]

\* The ages a pulse or a wash is over at.
Ends ==
    {p.total : p \in Pulses} \cup {w.ttl : w \in Washes}
        \cup {w.release : w \in Washes} \cup Releases \cup {PulseFloor}

ASSUME EndsAssumption == Ends \subseteq Nat /\ \E e \in Ends : \A f \in Ends : f <= e

\* An age beyond every comparison, and what an unsigned subtraction yields
\* when its stamp is later than `now'.
AgeMax == MaxFrameLag + CHOOSE e \in Ends : \A f \in Ends : f <= e

Older(age) == IF age = Never THEN Never ELSE IF age < AgeMax THEN age + 1 ELSE age

\* now - stamp, with the `now' of the frame.
Elapsed(age) == IF age >= render.lag THEN age - render.lag ELSE AgeMax

StripInit ==
    /\ wash_ = NoStripWash
    /\ pulse_ = NoPulse
    /\ stamp = [p \in Pixels |-> Never]
    /\ strip = [enabled |-> TRUE, count |-> CHOOSE n \in PixelCounts : TRUE,
                overlay |-> FALSE]
    /\ render = Idle
    /\ shown = [p \in Pixels |-> Dark]
    /\ events = 0
    /\ unseen = {}

-----------------------------------------------------------------------------
(* The WiFi task: frames of the Director, through lume_led_strip.cpp.      *)

Called == events < MaxEvents /\ events' = events + 1

\* A plausible bug: a pulse of no length is taken as it is.
UnflooredPulse(p) == p

\* A zero-length envelope would never be over, nor seen.
Floored(p) == IF p.total = 0 THEN [p EXCEPT !.total = PulseFloor] ELSE p

\* send(): one pulse for the whole strip, and a stamp for each pixel hit.
SendPulse ==
    /\ strip.enabled /\ Called
    /\ \E p \in Pulses, hits \in SUBSET Walk :
          /\ pulse_' = Floored(p)
          /\ stamp' = [q \in Pixels |-> IF q \in hits THEN 0 ELSE stamp[q]]
          /\ unseen' = IF render.pc = "idle" THEN hits ELSE {}
    /\ UNCHANGED <<wash_, strip, render, shown>>

\* send_wash(): the new wash starts over, whatever the old one was doing.
SendWash ==
    /\ strip.enabled /\ Called
    /\ \E w \in Washes :
          wash_' = [active |-> TRUE, colour |-> w.colour, age |-> 0, ttl |-> w.ttl,
                    release |-> w.release, releasing |-> Never]
    /\ UNCHANGED <<pulse_, stamp, strip, render, shown, unseen>>

Ended(r) ==
    [wash_ EXCEPT !.releasing = 0, !.release = IF r # 0 THEN r ELSE @]

\* send_wash_end()
SendWashEnd ==
    /\ wash_.active /\ Called
    /\ \E r \in Releases : wash_' = Ended(r)
    /\ UNCHANGED <<pulse_, stamp, strip, render, shown, unseen>>

-----------------------------------------------------------------------------
(* The main task: the settings, between two frames.                        *)

SetEnabled ==
    /\ render.pc = "idle" /\ Called
    /\ strip' = [strip EXCEPT !.enabled = ~@]
    /\ UNCHANGED <<wash_, pulse_, stamp, render, shown, unseen>>

\* set_overlay_pixel_0(): the signal indicator of the Lume.
SetOverlay ==
    /\ render.pc = "idle" /\ Called
    /\ strip' = [strip EXCEPT !.overlay = ~@]
    /\ UNCHANGED <<wash_, pulse_, stamp, render, shown, unseen>>

\* set_pixel_count(): the pixels that fall away forget their pulse.
SetPixelCount ==
    /\ render.pc = "idle" /\ Called
    /\ \E n \in PixelCounts \ {strip.count} :
          /\ strip' = [strip EXCEPT !.count = n]
          /\ stamp' = [p \in Pixels |-> IF p >= n THEN Never ELSE stamp[p]]
          /\ unseen' = {p \in unseen : p < n}
    /\ UNCHANGED <<wash_, pulse_, render, shown>>

(* render_frame(), a step for each access that the WiFi task can get       *)
(* between.                                                                *)

FrameBegins ==
    /\ render.pc = "idle"
    /\ strip.enabled /\ strip.count > 0
    /\ render' = [Idle EXCEPT !.pc = "wash"]
    /\ UNCHANGED <<wash_, pulse_, stamp, strip, shown, events, unseen>>

\* compute_wash_baseline(): the time to live runs out here and nowhere else.
Expires == wash_.releasing = Never /\ wash_.ttl # 0 /\ Elapsed(wash_.age) >= wash_.ttl

Releasing == IF Expires THEN render.lag ELSE wash_.releasing

Released == Releasing # Never /\ Elapsed(Releasing) >= wash_.release

FrameReadsWash ==
    /\ render.pc = "wash"
    /\ IF wash_.active /\ Released
       THEN /\ render' = [render EXCEPT !.pc = "release"]
            /\ UNCHANGED wash_
       ELSE /\ render' = [render EXCEPT !.pc = "pulse",
                                        !.base = IF wash_.active THEN wash_.colour ELSE Dark]
            /\ wash_' = IF wash_.active THEN [wash_ EXCEPT !.releasing = Releasing] ELSE wash_
    /\ UNCHANGED <<pulse_, stamp, strip, shown, events, unseen>>

\* The write that ends a wash comes after the test, and finds perhaps another.
FrameEndsWash ==
    /\ render.pc = "release"
    /\ wash_' = [wash_ EXCEPT !.active = FALSE]
    /\ render' = [render EXCEPT !.pc = "pulse"]
    /\ UNCHANGED <<pulse_, stamp, strip, shown, events, unseen>>

\* The snapshot of current_pulse_.
FrameReadsPulse ==
    /\ render.pc = "pulse"
    /\ render' = [render EXCEPT !.pc = "pixel", !.pulse = pulse_]
    /\ UNCHANGED <<wash_, pulse_, stamp, strip, shown, events, unseen>>

\* pulse_envelope_fraction() > 0
Lit(p) ==
    /\ stamp[p] # Never
    /\ Elapsed(stamp[p]) < render.pulse.total
    /\ render.pulse.attack > 0 => Elapsed(stamp[p]) > 0

\* A plausible bug, and once a real one: a pixel that is not lit yet, at the
\* start of the attack, is taken for one whose pulse is over.
OverOrNotLit(p) ==
    stamp[p] # Never /\ render.pulse.total > 0 /\ ~Lit(p)

\* Past the tail of the envelope.
Over(p) ==
    stamp[p] # Never /\ render.pulse.total > 0 /\ Elapsed(stamp[p]) >= render.pulse.total

FramePixel ==
    /\ render.pc = "pixel"
    /\ LET p == render.pixel
       IN  /\ stamp' = IF Over(p) THEN [stamp EXCEPT ![p] = Never] ELSE stamp
           /\ shown' = [shown EXCEPT ![p] = IF Lit(p) THEN render.pulse.colour ELSE render.base]
           /\ unseen' = IF Lit(p) THEN unseen \ {p} ELSE unseen
           /\ render' = IF p + 1 \in Walk THEN [render EXCEPT !.pixel = p + 1]
                        ELSE [render EXCEPT !.pc = "show"]
    /\ UNCHANGED <<wash_, pulse_, strip, events>>

\* The overlay goes over pixel 0, and show().
FrameShows ==
    /\ render.pc = "show"
    /\ shown' = IF strip.overlay THEN [shown EXCEPT ![0] = Overlay] ELSE shown
    /\ render' = Idle
    /\ UNCHANGED <<wash_, pulse_, stamp, strip, events, unseen>>

StripClock ==
    /\ render.pc # "idle" => render.lag < MaxFrameLag
    /\ render' = IF render.pc = "idle" THEN render ELSE [render EXCEPT !.lag = @ + 1]
    /\ stamp' = [p \in Pixels |-> Older(stamp[p])]
    /\ wash_' = [wash_ EXCEPT !.age = IF wash_.active THEN Older(@) ELSE @,
                              !.releasing = Older(@)]
    /\ unseen' = {p \in unseen : stamp[p] + 1 < pulse_.total}
    /\ UNCHANGED <<pulse_, strip, shown, events>>

-----------------------------------------------------------------------------
FrameStep ==
    \/ FrameBegins \/ FrameReadsWash \/ FrameEndsWash
    \/ FrameReadsPulse \/ FramePixel \/ FrameShows

StripNext ==
    \/ SendPulse \/ SendWash \/ SendWashEnd
    \/ SetEnabled \/ SetOverlay \/ SetPixelCount
    \/ FrameStep
    \/ StripClock

StripSpec == StripInit /\ [][StripNext]_stripVars

\* The main loop keeps rendering, and time passes.
StripFairness == WF_stripVars(FrameStep) /\ WF_stripVars(StripClock)

-----------------------------------------------------------------------------
\* Once the Director is silent the strip comes to rest: no pixel stays
\* stamped, a wash that was ended or had a time to live is over, and every
\* pixel shows the wash that is left, or the overlay, or nothing - in
\* whatever order the calls met the steps of the frames.
StripSettles ==
    <>[](strip.enabled =>
            /\ \A p \in Pixels : stamp[p] = Never
            /\ wash_.active => wash_.ttl = 0 /\ wash_.releasing = Never
            /\ \A p \in Walk :
                  \/ shown[p] = (IF wash_.active THEN wash_.colour ELSE Dark)
                  \/ p = 0 /\ strip.overlay)

\* A pulse that arrives between two frames is not dropped: a pixel it hit
\* keeps its stamp until a frame has lit it, its time is up or another
\* pulse has come ("silently dropped any pulse whose send() and
\* render_frame() happened in the same millisecond", the driver remembers).
NothingDroppedBetweenFrames == \A p \in unseen : stamp[p] # Never

=============================================================================
