---------------------------- MODULE LumeFanOut ----------------------------
(***************************************************************************)
(* What a Lume does with the frames it accepts: the fan-out of             *)
(* lume_mode.cpp to its output bindings (src/src/output_bindings), and the *)
(* text binding that owns the LCD.  LumeMode has the session, the lock and *)
(* the channel; every frame here is accepted and new.                      *)
(*                                                                         *)
(* on_recv() runs on the WiFi task, one step.  loop_tick() runs on the     *)
(* main task beside it: tick() of the bindings, the pulse slot, the        *)
(* repaint after a silence, the fallback wash.  A step is an access to     *)
(* what on_recv() also touches.  `behind' is how far the clock has moved   *)
(* since the pass read it.  A header wider than the LCD scrolls and so     *)
(* repaints itself; the texts here fit.                                    *)
(***************************************************************************)
EXTENDS Integers, FiniteSets

CONSTANTS
    Hosts,          \* [strip: "none", "disabled" or "enabled", ir, lcd: BOOLEAN]
    LumeGroup,      \* lume_group_
    Pulses, Washes, \* what frames carry: [class, group, shade], [class, group]
    Texts,          \* [group, name, ttl]; ttl 0 is sticky
    SignalLost, FallbackAfter, FadeAfter,   \* kNoSignalMs, kFallback...Ms
    MaxAge          \* bound: where the age of the signal stops

VARIABLES
    surfaces,       \* the host's hardware and its stored strip switch
    in_slot, slot,  \* pending_light_, pending_light_payload_
    fan_pc, event,  \* the main task, and the event it copied from the slot
    ir_target,      \* current_target_group() of the IR binding's context
    lit,            \* washes held by the drivers: <<binding, group, whose>>
    aired,          \* the group of the last pulse on the IR LED
    rx_age,         \* the age of the last frame; -1 before the first
    lost, recovered, fallback, faded,    \* no_signal_, signal_recovered_..., fallback_...
    content, shown, dirty, text_age,    \* the text binding
    behind, lcd,
    newest, renders \* history: the last LIGHT_PULSE and how often each showed it

slotVars == <<in_slot, slot, event, ir_target, aired>>
linkVars == <<rx_age, lost, recovered, fallback, faded>>
textVars == <<content, shown, dirty, text_age, behind, lcd>>
fanVars == <<surfaces, slotVars, fan_pc, lit, linkVars, textVars, newest, renders>>

All == 0
Light == 1
Display == 4
NoCue == [class |-> Display, group |-> 0, shade |-> "none"]
Blank == [group |-> 0, name |-> "blank", ttl |-> 0]
LostSign == [Blank EXCEPT !.name = "no signal"]

Traits ==
    [strip |-> [class |-> Light, relay |-> FALSE, can_wash |-> TRUE, in_callback |-> TRUE],
     ir |-> [class |-> Light, relay |-> TRUE, can_wash |-> TRUE, in_callback |-> FALSE],
     text |-> [class |-> Display, relay |-> FALSE, can_wash |-> FALSE, in_callback |-> TRUE]]

\* enter(): a binding is active when the host has its hardware; the IR relay
\* stays out beside an enabled strip.
Installed ==
    {b \in DOMAIN Traits :
        CASE b = "strip" -> surfaces.strip # "none"
          [] b = "ir" -> surfaces.ir /\ surfaces.strip # "enabled"
          [] b = "text" -> surfaces.lcd}

\* A disabled strip driver takes no cue; the text binding has no light.
Renders(b) == b = "strip" => surfaces.strip = "enabled"

\* The class and group filter.  A relay leaves the group to its bracelets.
Addressed(b, cue) ==
    /\ cue.class \in {All, Traits[b].class}
    /\ Traits[b].relay \/ cue.group \in {0, LumeGroup}

Narrow(group) == group % 256

\* The IR protocol has 32 groups; a pulse for another goes to every bracelet.
IrGroup(target) == IF target > 31 THEN 0 ELSE target

\* What on_light_wash() and on_light_wash_end() leave of the washes W.  The
\* strip has one wash, the relay one for each of 32 groups.
Held(W, b, target) ==
    {w \in W : w[1] = b /\ (b = "ir" => w[2] = target)}

WashOn(W, b, target, whose) ==
    IF ~Renders(b) \/ (b = "ir" /\ target > 31) THEN W
    ELSE (W \ Held(W, b, target)) \cup {<<b, IF b = "ir" THEN target ELSE 0, whose>>}

WashOff(W, b, target) == IF Renders(b) THEN W \ Held(W, b, target) ELSE W

WashTargets(cue) == {b \in Installed : Traits[b].can_wash /\ Addressed(b, cue)}

\* At most two bindings hold washes, and each touches only its own.  The
\* relay acts on the target its context holds.
FanWash(W, cue, target, whose) ==
    LET S == IF "strip" \in WashTargets(cue) THEN WashOn(W, "strip", 0, whose) ELSE W
    IN IF "ir" \in WashTargets(cue) THEN WashOn(S, "ir", target, whose) ELSE S

FanWashEnd(W, cue, target) ==
    LET S == IF "strip" \in WashTargets(cue) THEN WashOff(W, "strip", 0) ELSE W
    IN IF "ir" \in WashTargets(cue) THEN WashOff(S, "ir", target) ELSE S

Everyone == [class |-> All, group |-> 0]

Bump(n) == IF n < 2 THEN n + 1 ELSE n

-----------------------------------------------------------------------------
FanInit ==
    /\ surfaces \in Hosts
    /\ in_slot = FALSE /\ slot = NoCue /\ event = NoCue /\ fan_pc = "idle"
    /\ ir_target = 0 /\ lit = {} /\ aired = 0
    /\ rx_age = -1 /\ lost = FALSE /\ recovered = FALSE
    /\ fallback = FALSE /\ faded = FALSE
    /\ content = Blank /\ shown = FALSE /\ dirty = FALSE
    /\ text_age = 0 /\ behind = 0 /\ lcd = Blank
    /\ newest = NoCue /\ renders = [b \in {"strip", "ir"} |-> 0]

\* The head of on_recv(): the silence is over, and with it the fallback wash.
SilenceOver ==
    /\ rx_age' = 0 /\ lost' = FALSE /\ recovered' = (recovered \/ lost)
    /\ fallback' = FALSE /\ faded' = (faded /\ ~fallback)

Quietened == IF fallback THEN FanWashEnd(lit, Everyone, 0) ELSE lit

\* on_recv() leaves the target of a relay it called in its context.
Aimed(cue) == IF "ir" \in WashTargets(cue) THEN Narrow(cue.group)
              ELSE IF fallback /\ "ir" \in Installed THEN 0 ELSE ir_target

\* fan_out_light_pulse_inline(), and the slot for the bindings that block.
InCallback(b) == Traits[b].in_callback

RecvPulse(p) ==
    /\ SilenceOver
    /\ newest' = p
    /\ renders' = [b \in DOMAIN renders |->
          IF b \in Installed /\ InCallback(b) /\ Addressed(b, p) /\ Renders(b) THEN 1 ELSE 0]
    /\ in_slot' = TRUE /\ slot' = p
    /\ lit' = Quietened
    /\ ir_target' = IF fallback /\ "ir" \in Installed THEN 0 ELSE ir_target
    /\ UNCHANGED <<surfaces, event, aired, fan_pc, textVars>>

RecvWash(cue) ==
    /\ SilenceOver
    /\ lit' = FanWash(Quietened, cue, Narrow(cue.group), "show")
    /\ ir_target' = Aimed(cue)
    /\ UNCHANGED <<surfaces, in_slot, slot, event, aired, fan_pc, textVars, newest, renders>>

RecvWashEnd(cue) ==
    /\ SilenceOver
    /\ lit' = FanWashEnd(Quietened, cue, Narrow(cue.group))
    /\ ir_target' = Aimed(cue)
    /\ UNCHANGED <<surfaces, in_slot, slot, event, aired, fan_pc, textVars, newest, renders>>

\* The relay airs a wash pulse from the callback; the strip's has no trace here.
RecvWashPulse(p) ==
    /\ SilenceOver
    /\ lit' = Quietened
    /\ ir_target' = Aimed(p)
    /\ aired' = IF "ir" \in WashTargets(p) THEN Narrow(p.group) ELSE aired
    /\ UNCHANGED <<surfaces, in_slot, slot, event, fan_pc, textVars, newest, renders>>

\* The display types: the capability gate, the class, the group.
ForLcd(group) ==
    surfaces.lcd /\ "text" \in Installed /\ group \in {0, LumeGroup}

DisplayHead ==
    /\ SilenceOver
    /\ lit' = Quietened
    /\ ir_target' = IF fallback /\ "ir" \in Installed THEN 0 ELSE ir_target
    /\ UNCHANGED <<surfaces, in_slot, slot, event, aired, fan_pc, newest, renders>>

RecvText(t) ==
    /\ DisplayHead
    /\ IF ForLcd(t.group)
       THEN content' = t /\ shown' = TRUE /\ dirty' = TRUE /\ text_age' = 0
       ELSE UNCHANGED <<content, shown, dirty, text_age>>
    /\ UNCHANGED <<behind, lcd>>

RecvClear(group) ==
    /\ DisplayHead
    /\ IF ForLcd(group)
       THEN content' = Blank /\ shown' = FALSE /\ dirty' = TRUE /\ text_age' = 0
       ELSE UNCHANGED <<content, shown, dirty, text_age>>
    /\ UNCHANGED <<behind, lcd>>

\* A bitmap, a heartbeat, a clear of the bitmap layer: no binding handles them.
RecvOther == DisplayHead /\ UNCHANGED textVars

-----------------------------------------------------------------------------
(* loop_tick()                                                             *)

At(here, next) == fan_pc = here /\ fan_pc' = next
Still == UNCHANGED <<surfaces, newest>>

StartPass ==
    /\ At("idle", "expire") /\ Still
    /\ behind' = 0
    /\ UNCHANGED <<slotVars, lit, linkVars, content, shown, dirty, text_age, lcd, renders>>

\* tick(): the age is an unsigned difference, so a text stamped after the pass
\* read the clock is as old as can be.
Expired ==
    shown /\ content.ttl # 0 /\ (text_age < behind \/ text_age - behind >= content.ttl)

ExpireText ==
    /\ At("expire", IF dirty \/ Expired THEN "paint" ELSE "take") /\ Still
    /\ IF "text" \in Installed /\ Expired
       THEN content' = Blank /\ shown' = FALSE /\ dirty' = TRUE /\ text_age' = 0
       ELSE UNCHANGED <<content, shown, dirty, text_age>>
    /\ behind' = 0
    /\ UNCHANGED <<slotVars, lit, linkVars, lcd, renders>>

PaintText ==
    /\ At("paint", "painted") /\ Still
    /\ lcd' = IF shown THEN content ELSE Blank
    /\ UNCHANGED <<slotVars, lit, linkVars, content, shown, dirty, text_age, behind, renders>>

EndPaint ==
    /\ At("painted", "take") /\ Still
    /\ dirty' = FALSE
    /\ UNCHANGED <<slotVars, lit, linkVars, content, shown, text_age, behind, lcd, renders>>

TakeSlot ==
    /\ At("take", IF in_slot THEN "copy" ELSE "repaint") /\ Still
    /\ in_slot' = FALSE
    /\ UNCHANGED <<slot, event, ir_target, aired, lit, linkVars, textVars, renders>>

\* fan_out_light_pulse() reads the slot by reference: the colours first, ...
CopyEvent ==
    /\ At("copy", "route") /\ Still
    /\ event' = slot
    /\ UNCHANGED <<in_slot, slot, ir_target, aired, lit, linkVars, textVars, renders>>

\* A plausible bug: the bindings the callback served are not skipped.
DeferredAll(b) == TRUE

Deferred(b) == ~InCallback(b)

Served == {b \in Installed \cap {"strip", "ir"} : Deferred(b) /\ Addressed(b, slot)}

\* ... then the class and the group of whatever the slot holds by now, ...
RouteEvent ==
    /\ At("route", IF Served = {} THEN "repaint" ELSE "fire") /\ Still
    /\ ir_target' = IF "ir" \in Served THEN Narrow(slot.group) ELSE ir_target
    /\ renders' = IF "strip" \in Served /\ Renders("strip") /\ event = newest
                  THEN [renders EXCEPT !.strip = Bump(@)] ELSE renders
    /\ event' = IF Served = {} THEN NoCue ELSE event
    /\ UNCHANGED <<in_slot, slot, aired, lit, linkVars, textVars>>

\* ... then the target that the context holds by now.
FireEvent ==
    /\ At("fire", "repaint") /\ Still
    /\ IF "ir" \in Installed
       THEN /\ aired' = IrGroup(ir_target)
            /\ renders' = IF event = newest THEN [renders EXCEPT !.ir = Bump(@)] ELSE renders
       ELSE UNCHANGED <<aired, renders>>
    /\ event' = NoCue
    /\ UNCHANGED <<in_slot, slot, ir_target, lit, linkVars, textVars>>

\* The repaint after a silence clears the LCD, whoever painted on it.
RepaintRecovered ==
    /\ At("repaint", "signal") /\ Still
    /\ recovered' = FALSE
    /\ lcd' = IF recovered /\ surfaces.lcd THEN Blank ELSE lcd
    /\ UNCHANGED <<slotVars, lit, rx_age, lost, fallback, faded,
                   content, shown, dirty, text_age, behind, renders>>

\* NO SIGNAL takes the LCD and ends the pass; LumeMode has its refreshes.
TestSignal ==
    /\ fan_pc = "signal" /\ Still
    /\ IF ~lost /\ rx_age > SignalLost
       THEN /\ lost' = TRUE /\ fan_pc' = "idle"
            /\ lcd' = IF surfaces.lcd THEN LostSign ELSE lcd
       ELSE fan_pc' = "fallback" /\ UNCHANGED <<lost, lcd>>
    /\ UNCHANGED <<slotVars, lit, rx_age, recovered, fallback, faded,
                   content, shown, dirty, text_age, behind, renders>>

\* The fallback wash, for every wash binding and every group: the flag, the
\* relay's target, the wash.  LumeMode has the step between test and flag.
StartFallback ==
    /\ fan_pc = "fallback" /\ Still
    /\ IF ~fallback /\ rx_age > FallbackAfter
       THEN fallback' = TRUE /\ fan_pc' = "light"
       ELSE fan_pc' = "fade" /\ UNCHANGED fallback
    /\ ir_target' = IF fallback' # fallback /\ "ir" \in Installed THEN 0 ELSE ir_target
    /\ UNCHANGED <<in_slot, slot, event, aired, lit, rx_age, lost, recovered, faded,
                   textVars, renders>>

LightFallback ==
    /\ At("light", "fade") /\ Still
    /\ lit' = FanWash(lit, Everyone, ir_target, "fallback")
    /\ UNCHANGED <<slotVars, linkVars, textVars, renders>>

FadeFallback ==
    /\ fan_pc = "fade" /\ Still
    /\ IF fallback /\ ~faded /\ rx_age > FadeAfter
       THEN faded' = TRUE /\ fan_pc' = "dim"
       ELSE fan_pc' = "idle" /\ UNCHANGED faded
    /\ ir_target' = IF faded' # faded /\ "ir" \in Installed THEN 0 ELSE ir_target
    /\ UNCHANGED <<in_slot, slot, event, aired, lit, rx_age, lost, recovered, fallback,
                   textVars, renders>>

DimFallback ==
    /\ At("dim", "idle") /\ Still
    /\ lit' = FanWashEnd(lit, Everyone, ir_target)
    /\ UNCHANGED <<slotVars, linkVars, textVars, renders>>

Older(n) == IF n \in 0 .. MaxAge - 1 THEN n + 1 ELSE n

\* Time, a unit at most between the reading of the clock and its use.
FanClock ==
    /\ fan_pc = "expire" => behind = 0
    /\ rx_age' = Older(rx_age)
    /\ text_age' = IF text_age < content.ttl THEN text_age + 1 ELSE text_age
    /\ behind' = IF fan_pc = "expire" THEN 1 ELSE 0
    /\ UNCHANGED <<surfaces, slotVars, fan_pc, lit, lost, recovered, fallback, faded,
                   content, shown, dirty, lcd, newest, renders>>

FanNext ==
    \/ \E p \in Pulses : RecvPulse(p) \/ RecvWashPulse(p)
    \/ \E w \in Washes : RecvWash(w) \/ RecvWashEnd(w)
    \/ \E t \in Texts : RecvText(t)
    \/ \E t \in Texts : RecvClear(t.group)
    \/ RecvOther
    \/ StartPass \/ ExpireText \/ PaintText \/ EndPaint
    \/ TakeSlot \/ CopyEvent \/ RouteEvent \/ FireEvent
    \/ RepaintRecovered \/ TestSignal
    \/ StartFallback \/ LightFallback \/ FadeFallback \/ DimFallback
    \/ FanClock

FanSpec == FanInit /\ [][FanNext]_fanVars
-----------------------------------------------------------------------------
\* A pulse the strip, or the relay, renders: target_class and, for the strip,
\* target_group.
For(b, p) == p.class \in {All, Light} /\ (b = "strip" => p.group \in {0, LumeGroup})

\* "Skip them here to avoid double-fire" (fan_out_light_pulse): whatever lands
\* between two steps of the main task, the strip shows the newest LIGHT_PULSE
\* meant for it exactly once, and once the main task has nothing left to do the
\* relay has aired the newest one meant for bracelets, although the slot holds
\* one pulse and is read while the callback may write it.
NewestPulseShown ==
    newest # NoCue =>
        /\ renders.strip = IF surfaces.strip = "enabled" /\ For("strip", newest) THEN 1 ELSE 0
        /\ (fan_pc = "idle" /\ ~in_slot /\ surfaces.ir /\ surfaces.strip # "enabled"
              /\ For("ir", newest)) => renders.ir > 0

\* lume_text.h: "TTL=0 means sticky - content holds until CLEAR_SCREEN or
\* superseding TEXT_DISPLAY arrives".  Between two passes with nothing to
\* paint, and a signal, a sticky text is on the LCD.  It is not when it came
\* while tick() painted another, or when a silence took the LCD.
StickyTextHolds ==
    fan_pc = "idle" /\ ~dirty /\ ~lost /\ ~recovered /\ shown /\ content.ttl = 0
        => lcd = content
=============================================================================
