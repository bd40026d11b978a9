------------------------------ MODULE LumeMode ------------------------------
(***************************************************************************)
(* A Lume: src/src/modes/lume_mode.cpp.  Two tasks share its state without *)
(* a lock.  The WiFi task runs on_recv() for every frame on the channel    *)
(* the radio is tuned to; the main task runs loop_tick(), here one step    *)
(* per access to shared state, so that a frame can land between any two of *)
(* them.  on_recv() itself is one step (a callback preempts the loop).     *)
(*                                                                         *)
(* Ages stand for time stamps, as in TofuLock: rx_age is the age of        *)
(* last_rx_ms_, chan_age of last_chan_switch_ms_.  What the code only      *)
(* paints (pip, counters, signal bars) is left out; the LCD keeps the one  *)
(* fact the signal state depends on.                                       *)
(***************************************************************************)
EXTENDS TofuLock, DedupRing, Sequences

CONSTANTS
    ScanOrder,      \* kScanOrder: <<11, 1, 6>>
    ChannelPref,    \* lume_channel_pref_: 0 is auto-scan
    RepeatEnabled,  \* lume_repeat_en_
    PairGestures,   \* display-less host with a strip: Btn1 gestures are live
    MaxHopCount,    \* kMaxHopCount: 3
    Dwell, NoSignal, FallbackEnter, FallbackFade, Rescan,   \* k...Ms
    BurstDuration,  \* kPairingBurstDurationMs
    DirectorChannel,\* the channel each source transmits on
    Seqs, Hops,     \* what frames carry
    FramesPulse,    \* whether the Directors send LIGHT_PULSE frames
    HeartbeatGap,   \* a live Director is heard at least this often; 0: frames
                    \* may be lost without limit
    MaxSessions     \* bound: mode entries

ASSUME LumeAssumption ==
    /\ ChannelPref \in Channels \cup {0}
    /\ {ScanOrder[i] : i \in DOMAIN ScanOrder} = Channels
    /\ DirectorChannel \in [SourceIds -> Channels]
    /\ Seqs \subseteq Nat /\ Hops \subseteq Nat
    /\ NoEntry \notin SourceIds \X Seqs
    /\ {Dwell, NoSignal, FallbackEnter, FallbackFade, Rescan} \subseteq Nat

VARIABLES
    \* the session and its radio
    in_mode,            \* the mode machine has entered this mode
    session,            \* history: how many times it has
    radio_active_, radio_channel,
    \* link state, written by both tasks
    rx_count_,          \* only `> 0' matters: saturates at 1
    rx_age, no_signal_, fallback_active_, fallback_faded_,
    current_listen_chan_, chan_age,
    signal_recovered_needs_repaint_, lcd,
    \* the deferred slots the WiFi task fills and the main task drains
    pending_light_, pending_light_payload_,
    pending_repeat_, pending_repeat_buf_,
    \* the main task
    pc,
    age_since_rx,       \* loop_tick's local
    ev,                 \* fan_out_light_pulse's local: the colours it copied
    \* the pairing windows
    ble_pair_active_, pairing_burst_active_, burst_age, strip_driver_enabled,
    \* the environment
    on_air,             \* the Directors still transmitting
    unheard,            \* time since each was heard on the tuned channel
    \* history of the session
    accepted, dispatched, relayed, fades, quiet

sessionVars == <<in_mode, session, radio_active_>>
linkVars == <<rx_count_, rx_age, no_signal_, fallback_active_, fallback_faded_>>
scanVars == <<current_listen_chan_, chan_age>>
lcdVars == <<signal_recovered_needs_repaint_, lcd>>
slotVars == <<pending_light_, pending_light_payload_, pending_repeat_, pending_repeat_buf_>>
pairVars == <<ble_pair_active_, pairing_burst_active_, burst_age, strip_driver_enabled>>
envVars == <<on_air, unheard>>
countVars == <<accepted, dispatched, relayed>>
loopVars == <<pc, age_since_rx, ev>>

vars == <<tofuVars, ringVars, sessionVars, radio_channel, linkVars, scanVars, lcdVars,
          slotVars, loopVars, pairVars, envVars, countVars, fades, quiet>>

\* Frames that reach the TOFU gate.  A frame is known by (src, seq); pulses
\* have a part for the main task, every other kind is rendered in on_recv().
Frames == [src : SourceIds, seq : Seqs, hop : Hops]
Ids == SourceIds \X Seqs
IdOf(f) == <<f.src, f.seq>>
NoFrame == [src |-> NoSource, seq |-> 0, hop |-> 0]

Bump(count, id) == [count EXCEPT ![id] = IF @ < 2 THEN @ + 1 ELSE 2]

RxAgeMax == FallbackFade + 1 + MaxLag
ChanAgeMax == Dwell + MaxLag

-----------------------------------------------------------------------------
(* enter() and exit()                                                      *)

Init ==
    /\ TofuInit
    /\ EmptyRing
    /\ in_mode = FALSE /\ session = 0
    /\ radio_active_ = FALSE /\ radio_channel = ScanOrder[1]
    /\ rx_count_ = 0 /\ rx_age = 0 /\ no_signal_ = FALSE
    /\ fallback_active_ = FALSE /\ fallback_faded_ = FALSE
    /\ current_listen_chan_ = ScanOrder[1] /\ chan_age = 0
    /\ signal_recovered_needs_repaint_ = FALSE /\ lcd = "blank"
    /\ pending_light_ = FALSE /\ pending_light_payload_ = NoFrame
    /\ pending_repeat_ = FALSE /\ pending_repeat_buf_ = NoFrame
    /\ pc = "idle" /\ age_since_rx = 0 /\ ev = NoFrame
    /\ ble_pair_active_ = FALSE /\ pairing_burst_active_ = FALSE
    /\ burst_age = 0 /\ strip_driver_enabled = TRUE
    /\ on_air = SourceIds /\ unheard = [s \in SourceIds |-> 0]
    /\ accepted = [id \in Ids |-> 0]
    /\ dispatched = [id \in Ids |-> 0]
    /\ relayed = [id \in Ids |-> 0]
    /\ fades = 0 /\ quiet = 0

\* A plausible bug: the pulse slot survives the mode switch.
DropQueuedKeepLight == pending_repeat_' = FALSE /\ UNCHANGED pending_light_

DropQueued == pending_light_' = FALSE /\ pending_repeat_' = FALSE

\* enter(): every trace of the last session goes before the radio callback
\* is armed; the radio may fail to start.
Enter ==
    /\ ~in_mode /\ session < MaxSessions
    /\ in_mode' = TRUE /\ session' = session + 1
    /\ rx_count_' = 0 /\ rx_age' = 0 /\ no_signal_' = FALSE
    /\ fallback_active_' = FALSE /\ fallback_faded_' = FALSE
    /\ TofuClear /\ lag' = 0
    /\ dedup_ring_' = [i \in Slots |-> NoEntry] /\ dedup_head_' = 0
    /\ DropQueued
    /\ current_listen_chan_' = IF ChannelPref = 0 THEN ScanOrder[1] ELSE ChannelPref
    /\ chan_age' = 0
    /\ lcd' = "blank"
    /\ radio_active_' \in BOOLEAN
    /\ radio_channel' = IF radio_active_' THEN current_listen_chan_' ELSE radio_channel
    /\ unheard' = [s \in SourceIds |-> 0]
    /\ accepted' = [id \in Ids |-> 0]
    /\ dispatched' = [id \in Ids |-> 0]
    /\ relayed' = [id \in Ids |-> 0]
    /\ fades' = 0 /\ quiet' = 0
    /\ UNCHANGED <<signal_recovered_needs_repaint_, pending_light_payload_,
                   pending_repeat_buf_, loopVars, pairVars, on_air>>

\* exit(): runs on the main task between loop passes; closes the windows.
Exit ==
    /\ in_mode /\ pc = "idle" /\ session < MaxSessions
    /\ in_mode' = FALSE
    /\ radio_active_' = FALSE
    /\ ble_pair_active_' = FALSE
    /\ pairing_burst_active_' = FALSE
    /\ strip_driver_enabled' =
          (strip_driver_enabled \/ ble_pair_active_ \/ pairing_burst_active_)
    /\ burst_age' = 0
    /\ UNCHANGED <<tofuVars, ringVars, session, radio_channel, linkVars, scanVars, lcdVars,
                   slotVars, loopVars, envVars, countVars, fades, quiet>>

-----------------------------------------------------------------------------
(* on_recv(), on the WiFi task.  Frames that are malformed, of the census  *)
(* or over the hop budget are dropped before they touch any state.         *)

Audible(s) == s \in on_air /\ DirectorChannel[s] = radio_channel

HearingTimers(s) == [unheard EXCEPT ![s] = 0]

\* A plausible bug: the recovery edge that forgets to ask for a repaint.
NoteSignalNoRepaint ==
    /\ rx_count_' = 1 /\ rx_age' = 0 /\ no_signal_' = FALSE
    /\ IF fallback_active_
       THEN fallback_active_' = FALSE /\ fallback_faded_' = FALSE
       ELSE UNCHANGED <<fallback_active_, fallback_faded_>>
    /\ UNCHANGED signal_recovered_needs_repaint_
    /\ fades' = 0

\* The liveness part of on_recv(): every admitted frame, copies included.
NoteSignal ==
    /\ rx_count_' = 1
    /\ rx_age' = 0
    /\ no_signal_' = FALSE
    /\ IF fallback_active_
       THEN fallback_active_' = FALSE /\ fallback_faded_' = FALSE
       ELSE UNCHANGED <<fallback_active_, fallback_faded_>>
    /\ signal_recovered_needs_repaint_' = (signal_recovered_needs_repaint_ \/ no_signal_)
    /\ fades' = 0

\* The single slot for the relay: the newest frame replaces an unsent one.
StageRelay(f) ==
    IF RepeatEnabled /\ f.hop < MaxHopCount
    THEN /\ pending_repeat_buf_' = [f EXCEPT !.hop = @ + 1]
         /\ pending_repeat_' = TRUE
    ELSE UNCHANGED <<pending_repeat_, pending_repeat_buf_>>

\* The single slot for the bindings that must not run on the WiFi task.
StagePulse(f) ==
    IF FramesPulse
    THEN pending_light_payload_' = f /\ pending_light_' = TRUE
    ELSE UNCHANGED <<pending_light_, pending_light_payload_>>

OnRecv(f) ==
    /\ radio_active_ /\ Audible(f.src)
    /\ f.hop <= MaxHopCount
    /\ Admit(f.src, current_listen_chan_)
    /\ NoteSignal
    /\ IF SeenRecently(f.src, f.seq)
       THEN UNCHANGED <<ringVars, slotVars, accepted>>
       ELSE /\ MarkSeen(f.src, f.seq)
            /\ accepted' = Bump(accepted, IdOf(f))
            /\ StageRelay(f)
            /\ StagePulse(f)
    /\ unheard' = HearingTimers(f.src)
    /\ UNCHANGED <<lag, sessionVars, radio_channel, scanVars, lcd, loopVars, pairVars,
                   on_air, dispatched, relayed, quiet>>

\* A frame the TOFU lock refuses changes nothing in the Lume.
OnRecvRefused(s) ==
    /\ radio_active_ /\ Audible(s)
    /\ ~Admits(s, current_listen_chan_)
    /\ unheard' = HearingTimers(s)
    /\ UNCHANGED <<tofuVars, ringVars, sessionVars, radio_channel, linkVars, scanVars,
                   lcdVars, slotVars, loopVars, pairVars, on_air, countVars, fades, quiet>>

-----------------------------------------------------------------------------
(* loop_tick(), on the main task, one access to shared state at a time.    *)

At(label) == in_mode /\ pc = label
GoTo(label) == pc' = label

\* Everything the WiFi task and the timers own, for steps that leave it.
notLoop == <<tofuVars, ringVars, sessionVars, radio_channel, linkVars, scanVars, lcdVars,
             slotVars, pairVars, envVars, countVars, fades, quiet>>

\* const uint32_t now = millis(); no pairing window is open.
LoopBegin ==
    /\ At("idle") /\ ~ble_pair_active_ /\ ~pairing_burst_active_
    /\ CaptureNow
    /\ quiet' = rx_age
    /\ GoTo("light")
    /\ UNCHANGED <<ringVars, sessionVars, radio_channel, linkVars, scanVars, lcdVars,
                   slotVars, age_since_rx, ev, pairVars, envVars, countVars, fades>>

\* if (pending_light_) { pending_light_ = false; ...
DrainLight ==
    /\ At("light")
    /\ pending_light_' = FALSE
    /\ GoTo(IF pending_light_ THEN "light_copy" ELSE "repaint")
    /\ UNCHANGED <<tofuVars, ringVars, sessionVars, radio_channel, linkVars, scanVars,
                   lcdVars, pending_light_payload_, pending_repeat_, pending_repeat_buf_,
                   age_since_rx, ev, pairVars, envVars, countVars, fades, quiet>>

\* fan_out_light_pulse(pending_light_payload_): by reference.  The colours
\* are copied into ev first ...
CopyPulse ==
    /\ At("light_copy")
    /\ ev' = pending_light_payload_
    /\ GoTo("light_render")
    /\ UNCHANGED <<age_since_rx, notLoop>>

\* ... and the class and group of the slot are read when a binding renders.
RenderPulse ==
    /\ At("light_render")
    /\ dispatched' = Bump(dispatched, IdOf(pending_light_payload_))
    /\ ev' = NoFrame
    /\ GoTo("repaint")
    /\ UNCHANGED <<tofuVars, ringVars, sessionVars, radio_channel, linkVars, scanVars,
                   lcdVars, slotVars, age_since_rx, pairVars, envVars, accepted, relayed,
                   fades, quiet>>

\* Clear the screen after NO SIGNAL.
DrainRepaint ==
    /\ At("repaint")
    /\ signal_recovered_needs_repaint_' = FALSE
    /\ lcd' = IF signal_recovered_needs_repaint_ THEN "blank" ELSE lcd
    /\ GoTo("relay")
    /\ UNCHANGED <<tofuVars, ringVars, sessionVars, radio_channel, linkVars, scanVars,
                   slotVars, age_since_rx, ev, pairVars, envVars, countVars, fades, quiet>>

\* if (pending_repeat_) { pending_repeat_ = false; ...
DrainRepeat ==
    /\ At("relay")
    /\ pending_repeat_' = FALSE
    /\ GoTo(IF pending_repeat_ THEN "relay_send" ELSE "age")
    /\ UNCHANGED <<tofuVars, ringVars, sessionVars, radio_channel, linkVars, scanVars,
                   lcdVars, pending_light_, pending_light_payload_, pending_repeat_buf_,
                   age_since_rx, ev, pairVars, envVars, countVars, fades, quiet>>

\* radio->send_broadcast(pending_repeat_buf_, ...): whatever is in it now.
SendRepeat ==
    /\ At("relay_send")
    /\ relayed' = Bump(relayed, IdOf(pending_repeat_buf_))
    /\ GoTo("age")
    /\ UNCHANGED <<tofuVars, ringVars, sessionVars, radio_channel, linkVars, scanVars,
                   lcdVars, slotVars, age_since_rx, ev, pairVars, envVars, accepted,
                   dispatched, fades, quiet>>

\* age_since_rx: last_rx_ms_ may by now be ahead of `now'.
ReadAge ==
    /\ At("age")
    /\ age_since_rx' = AgeAtNow(rx_age)
    /\ GoTo("edge")
    /\ UNCHANGED <<ev, notLoop>>

LoopEnd == GoTo("idle") /\ age_since_rx' = 0

\* The NO SIGNAL edge ends the pass.
SignalEdge ==
    /\ At("edge")
    /\ IF rx_count_ > 0 /\ ~no_signal_ /\ age_since_rx > NoSignal
       THEN /\ no_signal_' = TRUE
            /\ chan_age' = lag
            /\ lcd' = "no_signal"
            /\ LoopEnd
       ELSE /\ GoTo(IF rx_count_ > 0 THEN "fallback" ELSE "scan")
            /\ UNCHANGED <<no_signal_, chan_age, lcd, age_since_rx>>
    /\ UNCHANGED <<tofuVars, ringVars, sessionVars, radio_channel, rx_count_, rx_age,
                   fallback_active_, fallback_faded_, current_listen_chan_,
                   signal_recovered_needs_repaint_, slotVars, ev, pairVars, envVars,
                   countVars, fades, quiet>>

\* The fallback wash starts, and later fades: each test and the assignment
\* it guards are two accesses.
TestFallback ==
    /\ At("fallback")
    /\ GoTo(IF ~fallback_active_ /\ age_since_rx > FallbackEnter THEN "fb_start" ELSE "fade")
    /\ UNCHANGED <<age_since_rx, ev, notLoop>>

StartFallback ==
    /\ At("fb_start")
    /\ fallback_active_' = TRUE
    /\ GoTo("fade")
    /\ UNCHANGED <<tofuVars, ringVars, sessionVars, radio_channel, rx_count_, rx_age,
                   no_signal_, fallback_faded_, scanVars, lcdVars, slotVars, age_since_rx,
                   ev, pairVars, envVars, countVars, fades, quiet>>

TestFade ==
    /\ At("fade")
    /\ GoTo(IF fallback_active_ /\ ~fallback_faded_ /\ age_since_rx > FallbackFade
            THEN "fb_fade" ELSE "scan")
    /\ UNCHANGED <<age_since_rx, ev, notLoop>>

FadeFallback ==
    /\ At("fb_fade")
    /\ fallback_faded_' = TRUE
    /\ fades' = Saturate(fades + 1, 2)
    /\ GoTo("scan")
    /\ UNCHANGED <<tofuVars, ringVars, sessionVars, radio_channel, rx_count_, rx_age,
                   no_signal_, fallback_active_, scanVars, lcdVars, slotVars, age_since_rx,
                   ev, pairVars, envVars, countVars, quiet>>

Scanning == ChannelPref = 0 /\ (rx_count_ = 0 \/ age_since_rx > Rescan)

NextChannel ==
    LET idx == CHOOSE i \in DOMAIN ScanOrder : ScanOrder[i] = current_listen_chan_
    IN  ScanOrder[(idx % Len(ScanOrder)) + 1]

\* current_listen_chan_ moves first ...
Scan ==
    /\ At("scan")
    /\ IF Scanning /\ AgeAtNow(chan_age) >= Dwell
       THEN /\ current_listen_chan_' = NextChannel
            /\ chan_age' = lag
            /\ GoTo("clear")
       ELSE GoTo("tofu") /\ UNCHANGED scanVars
    /\ UNCHANGED <<tofuVars, ringVars, sessionVars, radio_channel, linkVars, lcdVars,
                   slotVars, age_since_rx, ev, pairVars, envVars, countVars, fades, quiet>>

\* A plausible bug: the hop that keeps the lock of the channel it leaves.
HopKeepsLock ==
    /\ At("clear")
    /\ GoTo("retune")
    /\ UNCHANGED <<age_since_rx, ev, notLoop>>

\* ... then the lock goes ...
ClearOnHop ==
    /\ At("clear")
    /\ TofuClear /\ UNCHANGED lag
    /\ GoTo("retune")
    /\ UNCHANGED <<ringVars, sessionVars, radio_channel, linkVars, scanVars, lcdVars,
                   slotVars, age_since_rx, ev, pairVars, envVars, countVars, fades, quiet>>

\* ... and only then is the radio retuned; set_channel() does nothing on a
\* radio that is not running.
Retune ==
    /\ At("retune")
    /\ radio_channel' = IF radio_active_ THEN current_listen_chan_ ELSE radio_channel
    /\ unheard' = [s \in SourceIds |-> 0]
    /\ GoTo("tofu")
    /\ UNCHANGED <<tofuVars, ringVars, sessionVars, linkVars, scanVars, lcdVars, slotVars,
                   age_since_rx, ev, pairVars, on_air, countVars, fades, quiet>>

\* tofu_.tick(now): between its test and its assignments a frame may still
\* be admitted under the lock that is about to go.
TestExpiry ==
    /\ At("tofu")
    /\ GoTo(IF Expired THEN "expire" ELSE "redraw")
    /\ UNCHANGED <<age_since_rx, ev, notLoop>>

ExpireLock ==
    /\ At("expire")
    /\ Unlock /\ UNCHANGED <<historyVars, lag>>
    /\ GoTo("redraw")
    /\ UNCHANGED <<ringVars, sessionVars, radio_channel, linkVars, scanVars, lcdVars,
                   slotVars, age_since_rx, ev, pairVars, envVars, countVars, fades, quiet>>

\* The periodic NO SIGNAL body ends the pass.
RedrawNoSignal ==
    /\ At("redraw")
    /\ lcd' = IF no_signal_ THEN "no_signal" ELSE lcd
    /\ LoopEnd
    /\ UNCHANGED <<tofuVars, ringVars, sessionVars, radio_channel, linkVars, scanVars,
                   signal_recovered_needs_repaint_, slotVars, ev, pairVars, envVars,
                   countVars, fades, quiet>>

LoopTick ==
    \/ LoopBegin \/ DrainLight \/ CopyPulse \/ RenderPulse \/ DrainRepaint
    \/ DrainRepeat \/ SendRepeat \/ ReadAge \/ SignalEdge
    \/ TestFallback \/ StartFallback \/ TestFade \/ FadeFallback
    \/ Scan \/ ClearOnHop \/ Retune \/ TestExpiry \/ ExpireLock \/ RedrawNoSignal

-----------------------------------------------------------------------------
(* The pairing windows.  While one is open loop_tick() does nothing else;  *)
(* on_recv() goes on as before.                                            *)

notPair == <<tofuVars, ringVars, sessionVars, radio_channel, linkVars, scanVars, lcdVars,
             slotVars, loopVars, envVars, countVars, fades, quiet>>

Gesture == PairGestures /\ At("idle")

\* enter_ble_pair(): does not look at the burst window.
EnterBlePair ==
    /\ Gesture /\ ~ble_pair_active_
    /\ ble_pair_active_' = TRUE
    /\ strip_driver_enabled' = FALSE
    /\ UNCHANGED <<pairing_burst_active_, burst_age, notPair>>

\* exit_ble_pair(): a second long press, or tick_ble_pair() once the linger
\* after a terminal state of the BleService is over.
ExitBlePair ==
    /\ At("idle") /\ ble_pair_active_
    /\ ble_pair_active_' = FALSE
    /\ strip_driver_enabled' = TRUE
    /\ UNCHANGED <<pairing_burst_active_, burst_age, notPair>>

EnterPairingBurst ==
    /\ Gesture /\ ~pairing_burst_active_ /\ ~ble_pair_active_
    /\ pairing_burst_active_' = TRUE
    /\ burst_age' = 0
    /\ strip_driver_enabled' = FALSE
    /\ UNCHANGED <<ble_pair_active_, notPair>>

\* A plausible bug: an exit that trusts the BLE window to give the strip back.
ExitPairingBurstKeepsStrip ==
    /\ At("idle") /\ pairing_burst_active_
    /\ (PairGestures \/ (~ble_pair_active_ /\ burst_age >= BurstDuration))
    /\ pairing_burst_active_' = FALSE
    /\ burst_age' = 0
    /\ UNCHANGED <<ble_pair_active_, strip_driver_enabled, notPair>>

\* exit_pairing_burst(): a second gesture, or tick_pairing_burst() at the
\* end of the window, which a BLE window on top of it postpones.
ExitPairingBurst ==
    /\ At("idle") /\ pairing_burst_active_
    /\ (PairGestures \/ (~ble_pair_active_ /\ burst_age >= BurstDuration))
    /\ pairing_burst_active_' = FALSE
    /\ burst_age' = 0
    /\ strip_driver_enabled' = TRUE
    /\ UNCHANGED <<ble_pair_active_, notPair>>

\* A pass with a window open: `now' is captured and nothing more is done.
TickWindow ==
    /\ At("idle") /\ (ble_pair_active_ \/ pairing_burst_active_)
    /\ CaptureNow
    /\ UNCHANGED <<ringVars, sessionVars, radio_channel, linkVars, scanVars, lcdVars,
                   slotVars, loopVars, pairVars, envVars, countVars, fades, quiet>>

-----------------------------------------------------------------------------
(* Time, and the Directors.                                                *)

\* A live Director on the tuned channel is heard within HeartbeatGap.
HeardInTime ==
    \A s \in SourceIds : radio_active_ /\ Audible(s) => unheard[s] < HeartbeatGap

ClockTick ==
    /\ in_mode
    /\ HeartbeatGap > 0 => HeardInTime
    /\ TofuClock
    /\ rx_age' = Saturate(rx_age + 1, RxAgeMax)
    /\ chan_age' = Saturate(chan_age + 1, ChanAgeMax)
    /\ burst_age' = IF pairing_burst_active_
                    THEN Saturate(burst_age + 1, BurstDuration) ELSE 0
    /\ unheard' = [s \in SourceIds |-> Saturate(unheard[s] + 1, HeartbeatGap)]
    /\ UNCHANGED <<ringVars, sessionVars, radio_channel, rx_count_, no_signal_,
                   fallback_active_, fallback_faded_, current_listen_chan_, lcdVars,
                   slotVars, loopVars, ble_pair_active_, pairing_burst_active_,
                   strip_driver_enabled, on_air, countVars, fades, quiet>>

DirectorStops(s) ==
    /\ s \in on_air
    /\ on_air' = on_air \ {s}
    /\ UNCHANGED <<tofuVars, ringVars, sessionVars, radio_channel, linkVars, scanVars,
                   lcdVars, slotVars, loopVars, pairVars, unheard, countVars, fades, quiet>>

Hear(s) ==
    \/ \E f \in Frames : f.src = s /\ OnRecv(f)
    \/ OnRecvRefused(s)

Next ==
    \/ Enter \/ Exit
    \/ \E s \in SourceIds : Hear(s) \/ DirectorStops(s)
    \/ LoopTick
    \/ EnterBlePair \/ ExitBlePair \/ EnterPairingBurst \/ ExitPairingBurst \/ TickWindow
    \/ ClockTick

Spec == Init /\ [][Next]_vars

\* The Arduino loop keeps calling loop_tick(), which never blocks; time goes
\* on; and a Director that is on the air and audible is heard.
FairSpec ==
    /\ Spec
    /\ WF_vars(LoopTick)
    /\ WF_vars(ClockTick)
    /\ \A s \in SourceIds : WF_vars(Hear(s))

-----------------------------------------------------------------------------
LumeTypeOK ==
    /\ TofuTypeOK
    /\ dedup_ring_ \in [Slots -> (SourceIds \X Seqs) \cup {NoEntry}] /\ dedup_head_ \in Slots
    /\ {in_mode, radio_active_, no_signal_, fallback_active_, fallback_faded_,
        signal_recovered_needs_repaint_, pending_light_, pending_repeat_,
        ble_pair_active_, pairing_burst_active_, strip_driver_enabled} \subseteq BOOLEAN
    /\ {radio_channel, current_listen_chan_} \subseteq Channels
    /\ rx_count_ \in 0 .. 1 /\ rx_age \in 0 .. RxAgeMax /\ chan_age \in 0 .. ChanAgeMax
    /\ {age_since_rx, quiet} \subseteq 0 .. RxAgeMax
    /\ lcd \in {"blank", "no_signal"}
    /\ {pending_light_payload_, ev} \subseteq Frames \cup {NoFrame}
    /\ pending_repeat_buf_ \in [src : SourceIds, seq : Seqs, hop : 1 .. MaxHopCount] \cup {NoFrame}
    /\ on_air \subseteq SourceIds /\ unheard \in [SourceIds -> 0 .. HeartbeatGap]
    /\ {accepted, dispatched, relayed} \subseteq [Ids -> 0 .. 2]
    /\ session \in 0 .. MaxSessions /\ fades \in 0 .. 2

\* "ch 11 is performance only" (tofu_lock.h): a Lume that is tuned to the show
\* channel and listens there never follows a community Director, although a
\* frame can be admitted at any point of a hop.
ShowChannelStaysClean ==
    has_lock_ /\ radio_channel = ShowChannel /\ current_listen_chan_ = ShowChannel
        => locked_id_ \in PerformanceIds

\* The silence edges are real: when loop_tick() declares NO SIGNAL, starts the
\* fallback wash, fades it or leaves the channel of a known Director, nothing
\* had been received for that long when the pass began, although last_rx_ms_
\* may run ahead of `now' ("trips a spurious NO SIGNAL", lume_mode.cpp).
SilenceIsReal ==
    [][ /\ ~no_signal_ /\ no_signal_' => quiet > NoSignal
        /\ ~fallback_active_ /\ fallback_active_' => quiet > FallbackEnter
        /\ ~fallback_faded_ /\ fallback_faded_' => quiet > FallbackFade
        /\ in_mode /\ rx_count_ > 0 /\ rx_count_' > 0 /\ pc = "scan" /\ pc' = "clear"
              => quiet > Rescan ]_vars

\* A frame is let through at most once per session by this Lume, copies and
\* relayed copies included, as long as the ring holds every frame in the air.
AcceptedOnce == \A id \in Ids : id[2] # 0 => accepted[id] <= 1

\* "A fresh session never fires a stale queued frame" (lume_mode.cpp): what is
\* rendered or relayed was accepted since the last enter().
OnlyThisSession ==
    \A id \in Ids : dispatched[id] > 0 \/ relayed[id] > 0 => accepted[id] > 0

\* A session of the frame path of on_recv() and loop_tick(): each frame is taken
\* up once, and nothing of the session before is fired or relayed in it.
SessionSound == AcceptedOnce /\ OnlyThisSession

\* However the windows were opened, closed, nested and cut short by exit(),
\* the strip driver they silence is running again once none is open.
StripGivenBack == ~ble_pair_active_ /\ ~pairing_burst_active_ => strip_driver_enabled

\* Whatever the races did, a Lume in range of a Director that stays on the air
\* ends up locked to one, on its channel, with the NO SIGNAL screen and the
\* fallback wash gone for good.
LumeSettles ==
    \A s \in SourceIds :
        <>[](in_mode /\ radio_active_ /\ s \in on_air) =>
        <>[]( /\ has_lock_ /\ Audible(locked_id_)
              /\ ~no_signal_ /\ lcd = "blank" /\ ~fallback_active_ )

-----------------------------------------------------------------------------
(* What comments of the code say, and the code does not do.                *)

\* "Any inbound frame implicitly stops the scan by locking us to whichever
\* channel it arrived on": between passes, a held lock is to a Director of
\* the channel the radio is on.
LockedWhereHeard ==
    in_mode /\ pc = "idle" /\ radio_active_ /\ has_lock_
        => DirectorChannel[locked_id_] = radio_channel

\* The fallback edges are "anchored to age_since_rx so each fires once per
\* silence episode": a wash marked as faded has been faded in this episode.
FadeOncePerEpisode == fallback_faded_ => fades = 1

\* "A binding is dispatched exactly once per pulse" (lume_mode.h).
PulseDispatchedOnce == \A id \in Ids : dispatched[id] <= 1

\* "Rebroadcast each unique inbound frame once" (lume_mode.h).
RelayedOnce == \A id \in Ids : relayed[id] <= 1

\* "Locks to the source_id of the first valid frame, then ignores frames from
\* any other source_id" until "no frames from the locked source for ten
\* seconds" (tofu_lock.h): HandoverOnlyAfterSilence, which holds of TofuLock
\* when calls are atomic, with tick() interrupted between test and clear.
LumeHandover == HandoverOnlyAfterSilence

\* The PixMob relay passes "the inbound NocturNation target_group" on: the
\* group a pulse is rendered to is that of the pulse whose colours are shown.
PulseIsWhole == [][pc = "light_render" /\ pc' # pc => ev = pending_light_payload_]_vars

\* "BLE and ESP-NOW don't share the radio, so there's nothing to fan out
\* anyway": no frame is accepted while the BLE window is open.
NothingDuringBlePair == [][ble_pair_active_ => UNCHANGED accepted]_vars

\* "Defer; the two gestures are exclusive": never both windows at once.
GesturesExclusive == ~(ble_pair_active_ /\ pairing_burst_active_)
=============================================================================
