------------------------------ MODULE PixMobIR ------------------------------
(***************************************************************************)
(* The IR relay of a Lume, for one group of PixMob bracelets:              *)
(* pixmob_ir_driver.cpp behind the binding pixmob_ir.cpp.  A bracelet      *)
(* knows no wash: it holds a colour for a few seconds, so the driver keeps *)
(* the wash in a slot and sends it again and again.                        *)
(*                                                                         *)
(* The WiFi task writes the slot while it handles WASH, WASH_END and       *)
(* WASH_PULSE; the main task reads it in loop_tick() and when it drains a  *)
(* pulse.  Neither waits for the other, so a step below is what one task   *)
(* does to the slot before the other may look.  One emitter at least is    *)
(* switched on.                                                            *)
(***************************************************************************)
EXTENDS Integers

CONSTANTS
    IrWashes,       \* [colour, cycle]: the washes sent; NoLight is the all-zero one
    Envelopes,      \* lengths of the pulses sent
    RefreshMin, RefreshMax, Snapshots,  \* kWashRefresh...
    LongPulse,      \* kLongPulseEnvelopeMs
    PulseMargin,    \* kPostPulseRefreshMarginMs
    BraceletHold,   \* T_3840_MS: how long a bracelet holds a refresh
    TwoColorHold,   \* how long it holds the second of two colours
    MaxIrEvents     \* bound: frames for this group

ASSUME IrAssumption ==
    /\ {RefreshMin, RefreshMax, Snapshots, BraceletHold, TwoColorHold} \subseteq Nat \ {0}
    /\ RefreshMin <= RefreshMax /\ RefreshMax < BraceletHold
    /\ {LongPulse, PulseMargin, MaxIrEvents} \subseteq Nat
    /\ Envelopes \subseteq Nat
    /\ \A w \in IrWashes : w.cycle \in Nat

VARIABLES
    ir_slot,    \* wash_slots_[g]; `next' is the time left to next_refresh_ms
    ir_main,    \* [pc, why, cycle, colour, envelope]: the main task in the driver
    ir_wifi,    \* [pc, wash]: the WiFi task in the driver, and the wash it was
                \* asked for last
    bracelet,   \* [colour, left]: what the bracelets show, and for how long
    ir_events

irVars == <<ir_slot, ir_main, ir_wifi, bracelet, ir_events>>

NoLight == "none"
Accent == "accent"

MainIdle == [pc |-> "idle", why |-> "refresh", cycle |-> 0, colour |-> NoLight, envelope |-> 0]
WifiIdle == [pc |-> "idle", wash |-> [colour |-> NoLight, cycle |-> 0]]
Unlit == [colour |-> NoLight, left |-> 0]

Showing(colour, time) == IF time = 0 THEN Unlit ELSE [colour |-> colour, left |-> time]

IrInit ==
    /\ ir_slot = [active |-> FALSE, colour |-> NoLight, cycle |-> 0,
                  interval |-> RefreshMax, next |-> 0]
    /\ ir_main = MainIdle
    /\ ir_wifi = WifiIdle
    /\ bracelet = Unlit
    /\ ir_events = 0

IrCalled == ir_events < MaxIrEvents /\ ir_events' = ir_events + 1

-----------------------------------------------------------------------------
(* The WiFi task.                                                          *)

\* Twenty snapshots of a drift, within bounds; a static wash needs few.
RefreshInterval(cycle) ==
    LET pace == cycle \div Snapshots
    IN  IF cycle = 0 \/ pace > RefreshMax THEN RefreshMax
        ELSE IF pace < RefreshMin THEN RefreshMin
        ELSE pace

\* send_wash(): the slot is written field by field, and the all-zero wash is
\* an end.
IrWashArrives ==
    /\ ir_wifi.pc = "idle" /\ IrCalled
    /\ \E w \in IrWashes :
          IF w.colour = NoLight
          THEN /\ ir_slot.active
               /\ bracelet' = Unlit
               /\ ir_wifi' = [pc |-> "clear", wash |-> w]
               /\ UNCHANGED ir_slot
          ELSE /\ ir_slot' = [ir_slot EXCEPT !.active = TRUE, !.colour = w.colour]
               /\ ir_wifi' = [pc |-> "cycle", wash |-> w]
               /\ UNCHANGED bracelet
    /\ UNCHANGED ir_main

IrWashCycle ==
    /\ ir_wifi.pc = "cycle"
    /\ ir_slot' = [ir_slot EXCEPT !.cycle = ir_wifi.wash.cycle]
    /\ ir_wifi' = [ir_wifi EXCEPT !.pc = "next"]
    /\ UNCHANGED <<ir_main, bracelet, ir_events>>

IrWashNext ==
    /\ ir_wifi.pc = "next"
    /\ LET every == RefreshInterval(ir_wifi.wash.cycle)
       IN  ir_slot' = [ir_slot EXCEPT !.interval = every, !.next = every]
    /\ ir_wifi' = [ir_wifi EXCEPT !.pc = "fire"]
    /\ UNCHANGED <<ir_main, bracelet, ir_events>>

IrWashFires ==
    /\ ir_wifi.pc = "fire"
    /\ bracelet' = Showing(ir_slot.colour, BraceletHold)
    /\ ir_wifi' = [ir_wifi EXCEPT !.pc = "idle"]
    /\ UNCHANGED <<ir_slot, ir_main, ir_events>>

\* send_wash_end(): fade to black, or leave the last refresh to run out.
IrEndArrives ==
    /\ ir_wifi.pc = "idle" /\ ir_slot.active /\ IrCalled
    /\ bracelet' \in {Unlit, bracelet}
    /\ ir_wifi' = [WifiIdle EXCEPT !.pc = "clear"]
    /\ UNCHANGED <<ir_slot, ir_main>>

\* A plausible bug: the instant end returns before the slot is given up.
Abandoned(slot) == IF bracelet = Unlit THEN [slot EXCEPT !.active = FALSE] ELSE slot

Cleared(slot) == [slot EXCEPT !.active = FALSE]

IrEndClears ==
    /\ ir_wifi.pc = "clear"
    /\ ir_slot' = Cleared(ir_slot)
    /\ ir_wifi' = [ir_wifi EXCEPT !.pc = "idle"]
    /\ UNCHANGED <<ir_main, bracelet, ir_events>>

\* send_wash_pulse() over a wash: two colours, which some bracelets ignore.
\* Without a wash it is a pulse like any other.
IrWashPulse ==
    /\ ir_wifi.pc = "idle" /\ IrCalled
    /\ IF ir_slot.active
       THEN /\ bracelet' \in {bracelet, Showing(ir_slot.colour, TwoColorHold)}
            /\ ir_slot' = [ir_slot EXCEPT !.next = ir_slot.interval]
       ELSE /\ \E time \in Envelopes : bracelet' \in {bracelet, Showing(Accent, time)}
            /\ UNCHANGED ir_slot
    /\ UNCHANGED <<ir_main, ir_wifi>>

-----------------------------------------------------------------------------
(* The main task.                                                          *)

RefreshDue == ir_slot.active /\ ir_slot.next = 0

\* loop_tick() finds the slot due.
IrTick ==
    /\ ir_main.pc = "idle" /\ RefreshDue
    /\ ir_main' = [MainIdle EXCEPT !.pc = "test"]
    /\ UNCHANGED <<ir_slot, ir_wifi, bracelet, ir_events>>

\* send(): a drained pulse.  The dice may drop it on the Lume's side or on
\* the bracelet's.
IrPulse ==
    /\ ir_main.pc = "idle" /\ IrCalled
    /\ \E time \in Envelopes :
          IF ir_slot.active
          THEN /\ ir_main' \in {ir_main, [MainIdle EXCEPT !.pc = "test", !.why = "sparkle",
                                                          !.envelope = time]}
               /\ UNCHANGED bracelet
          ELSE /\ bracelet' \in {bracelet, Showing(Accent, time)}
               /\ UNCHANGED ir_main
    /\ UNCHANGED <<ir_slot, ir_wifi>>

\* The caller's `cycle_ms > 0'.
IrTestsDrift ==
    /\ ir_main.pc = "test"
    /\ ir_main' = [ir_main EXCEPT !.colour = ir_slot.colour,
                                  !.pc = IF ir_slot.cycle > 0 THEN "drift" ELSE ir_main.why]
    /\ UNCHANGED <<ir_slot, ir_wifi, bracelet, ir_events>>

\* compute_drift_rgb() takes its own copy of cycle_ms, and tests it again.
IrReadsCycle ==
    /\ ir_main.pc = "drift"
    /\ ir_main' = [ir_main EXCEPT !.cycle = ir_slot.cycle,
                                  !.pc = IF ir_slot.cycle = 0 THEN ir_main.why ELSE "divide"]
    /\ UNCHANGED <<ir_slot, ir_wifi, bracelet, ir_events>>

\* A plausible bug, and once a real one: the field is read once more.
DivisorReread == ir_slot.cycle

Divisor == ir_main.cycle

IrDivides ==
    /\ ir_main.pc = "divide" /\ Divisor > 0
    /\ ir_main' = [ir_main EXCEPT !.pc = ir_main.why]
    /\ UNCHANGED <<ir_slot, ir_wifi, bracelet, ir_events>>

\* The refresh goes out, even if the wash was ended since the test.
IrRefreshes ==
    /\ ir_main.pc = "refresh"
    /\ bracelet' = Showing(ir_main.colour, BraceletHold)
    /\ ir_main' = [ir_main EXCEPT !.pc = "rearm"]
    /\ UNCHANGED <<ir_slot, ir_wifi, ir_events>>

IrRearms ==
    /\ ir_main.pc = "rearm"
    /\ ir_slot' = [ir_slot EXCEPT !.next = ir_slot.interval]
    /\ ir_main' = MainIdle
    /\ UNCHANGED <<ir_wifi, bracelet, ir_events>>

\* The sparkle.  A long one is left to play out, and the next refresh waits
\* for its end; a short one is followed by the wash.
IrSparkles ==
    /\ ir_main.pc = "sparkle"
    /\ bracelet' \in {bracelet, Showing(Accent, ir_main.envelope)}
    /\ LET over == ir_main.envelope + PulseMargin
           long == ir_main.envelope > LongPulse
       IN  /\ ir_slot' = IF long /\ ir_slot.next < over
                         THEN [ir_slot EXCEPT !.next = over] ELSE ir_slot
           /\ ir_main' = IF long THEN MainIdle ELSE [ir_main EXCEPT !.pc = "recover"]
    /\ UNCHANGED <<ir_wifi, ir_events>>

IrRecovers ==
    /\ ir_main.pc = "recover"
    /\ bracelet' = Showing(ir_main.colour, BraceletHold)
    /\ ir_main' = MainIdle
    /\ UNCHANGED <<ir_slot, ir_wifi, ir_events>>

IrMainStep ==
    \/ IrTick \/ IrTestsDrift \/ IrReadsCycle \/ IrDivides
    \/ IrRefreshes \/ IrRearms \/ IrSparkles \/ IrRecovers

IrWifiStep == IrWashCycle \/ IrWashNext \/ IrWashFires \/ IrEndClears

\* A pass of the loop, and a call of the receive callback, take less than a
\* unit of time.
IrClock ==
    /\ ir_main.pc = "idle" /\ ~RefreshDue /\ ir_wifi.pc = "idle"
    /\ bracelet' = IF bracelet.left > 1 THEN [bracelet EXCEPT !.left = @ - 1] ELSE Unlit
    /\ ir_slot' = [ir_slot EXCEPT !.next = IF @ > 0 THEN @ - 1 ELSE 0]
    /\ UNCHANGED <<ir_main, ir_wifi, ir_events>>

IrNext ==
    \/ IrWashArrives \/ IrEndArrives \/ IrWashPulse \/ IrPulse
    \/ IrMainStep \/ IrWifiStep
    \/ IrClock

IrSpec == IrInit /\ [][IrNext]_irVars

\* Both tasks run, and time passes.
IrFairness == WF_irVars(IrMainStep) /\ WF_irVars(IrWifiStep) /\ WF_irVars(IrClock)

-----------------------------------------------------------------------------
\* The drift is never divided by a cycle of zero, whatever the WiFi task
\* writes between the test and the division ("on Xtensa is a hardware
\* IntegerDivideByZero panic (reboot mid-show)", compute_drift_rgb says).
NoDivideByZero == ir_main.pc = "divide" => Divisor > 0

\* Once the Director is silent the bracelets come to show the wash it asked
\* for last, or nothing if it ended that: a refresh or a recovery that was on
\* its way when the wash ended lights them once more at most, and no pulse
\* takes a wash away for good.
IrSettles == <>[](bracelet.colour = ir_wifi.wash.colour)

=============================================================================
