---------------------------- MODULE RepeaterMode ----------------------------
(***************************************************************************)
(* The headless repeater: src/src/modes/repeater_mode.cpp.  It re-airs     *)
(* every fleet frame it has not seen lately, on a fixed channel or on the  *)
(* one its scan found traffic on.  As in a Lume, on_recv() runs on the     *)
(* WiFi task between any two accesses of loop_tick() to the shared state.  *)
(*                                                                         *)
(* rx_age is the age of last_rx_ms_, probe_age of scan_probe_started_ms_,  *)
(* lag how far millis() is ahead of the `now' of the running pass.         *)
(***************************************************************************)
EXTENDS DedupRing, Sequences

CONSTANTS
    ScanChannels,   \* kScanChannels: <<1, 6, 11>>
    Settings,       \* what the button cycles through: <<0, 1, 6, 11>>, 0 is auto
    Sources,        \* the Directors of the fleet
    SourceChannel,  \* the channel each transmits on
    Seqs,           \* sequence numbers, 0 among them
    NoSource,
    Dwell, Relock,  \* kScanDwellMs, kScanRelockMs
    MaxLag,         \* bound: how far the clock runs within a pass
    TrafficGap,     \* how long a Director in good range may go unheard
    ButtonLive,     \* the owner uses the button
    MaxReboots      \* bound: power cycles

ASSUME RepeaterAssumption ==
    /\ {Settings[i] : i \in DOMAIN Settings} =
          {ScanChannels[i] : i \in DOMAIN ScanChannels} \cup {0}
    /\ SourceChannel \in [Sources -> {ScanChannels[i] : i \in DOMAIN ScanChannels}]
    /\ {Dwell, Relock} \subseteq Nat \ {0}
    /\ {MaxLag, TrafficGap, MaxReboots} \subseteq Nat
    /\ NoEntry \notin Sources \X Seqs

VARIABLES
    channel_setting_,   \* persisted
    active_channel_,    \* the channel the radio is on
    locked_, scan_idx_, probe_age, rx_age, lag,
    pending_repeat_, pending_repeat_buf_,
    pc,
    on_air,             \* the Directors still transmitting
    unheard,            \* time since each was heard on the active channel
    reboots,
    \* history
    accepted, relayed,  \* per frame, since the last boot; saturate at 2
    silent              \* time since the last fleet frame or channel change

scanVars == <<channel_setting_, active_channel_, locked_, scan_idx_, probe_age>>
slotVars == <<pending_repeat_, pending_repeat_buf_>>
airVars == <<on_air, unheard, reboots>>

vars == <<ringVars, scanVars, rx_age, lag, slotVars, pc, airVars, accepted, relayed, silent>>

AllChannels == {ScanChannels[i] : i \in DOMAIN ScanChannels}
Ids == Sources \X Seqs
NoId == <<NoSource, 0>>

Cap(n, max) == IF n > max THEN max ELSE n
Bump(count, id) == [count EXCEPT ![id] = Cap(@ + 1, 2)]

RxAgeMax == Relock + MaxLag + 1
ProbeAgeMax == Dwell + MaxLag

\* now - last_rx_ms_, unsigned and unguarded: a stamp ahead of `now' wraps to
\* an age beyond every limit.
AgeWrapping(age) == IF age >= lag THEN age - lag ELSE RxAgeMax

-----------------------------------------------------------------------------
(* Power and enter(): the mode is entered once, straight from boot.        *)

Init ==
    /\ EmptyRing
    /\ \E i \in DOMAIN Settings : channel_setting_ = Settings[i]
    /\ active_channel_ = ScanChannels[1]
    /\ locked_ = FALSE /\ scan_idx_ = 0 /\ probe_age = 0
    /\ rx_age = 0 /\ lag = 0
    /\ pending_repeat_ = FALSE /\ pending_repeat_buf_ = NoId
    /\ pc = "off"
    /\ on_air = Sources /\ unheard = [s \in Sources |-> 0] /\ reboots = 0
    /\ accepted = [id \in Ids |-> 0] /\ relayed = [id \in Ids |-> 0]
    /\ silent = 0

Running == pc # "off"

Enter ==
    /\ ~Running
    /\ locked_' = (channel_setting_ # 0)
    /\ active_channel_' = IF channel_setting_ = 0 THEN ScanChannels[1] ELSE channel_setting_
    /\ scan_idx_' = 0 /\ probe_age' = 0
    /\ rx_age' = 0 /\ lag' = 0
    /\ dedup_ring_' = [i \in Slots |-> NoEntry] /\ dedup_head_' = 0
    /\ pending_repeat_' = FALSE
    /\ pc' = "idle"
    /\ unheard' = [s \in Sources |-> 0]
    /\ accepted' = [id \in Ids |-> 0] /\ relayed' = [id \in Ids |-> 0]
    /\ silent' = 0
    /\ UNCHANGED <<channel_setting_, pending_repeat_buf_, on_air, reboots>>

\* The power goes at any point: only the persisted setting survives.
PowerCut ==
    /\ Running /\ reboots < MaxReboots
    /\ reboots' = reboots + 1
    /\ pc' = "off"
    /\ UNCHANGED <<ringVars, scanVars, rx_age, lag, slotVars, on_air, unheard, accepted,
                   relayed, silent>>

-----------------------------------------------------------------------------
(* on_recv(), on the WiFi task.                                            *)

Audible(s) == s \in on_air /\ SourceChannel[s] = active_channel_

\* Any fleet frame proves traffic, copies and unsequenced ones included.
NoteTraffic == locked_' = TRUE /\ rx_age' = 0

\* The single slot: the newest frame replaces an unsent one.
Stage(s, seq) ==
    /\ pending_repeat_buf_' = <<s, seq>>
    /\ pending_repeat_' = TRUE

\* Unsequenced frames pass every dedup ring: relaying them could go on forever.
Relayable(s, seq) == seq # 0 /\ ~SeenRecently(s, seq)

OnRecv(s, seq) ==
    /\ Running /\ Audible(s)
    /\ NoteTraffic
    /\ IF Relayable(s, seq)
       THEN /\ MarkSeen(s, seq)
            /\ Stage(s, seq)
            /\ accepted' = Bump(accepted, <<s, seq>>)
       ELSE UNCHANGED <<ringVars, slotVars, accepted>>
    /\ unheard' = [unheard EXCEPT ![s] = 0]
    /\ silent' = 0
    /\ UNCHANGED <<channel_setting_, active_channel_, scan_idx_, probe_age, lag, pc,
                   on_air, reboots, relayed>>

\* A plausible bug: census of another repeater counts as traffic.
OnRecvCensusAsTraffic ==
    /\ Running
    /\ NoteTraffic
    /\ UNCHANGED <<ringVars, channel_setting_, active_channel_, scan_idx_, probe_age, lag,
                   slotVars, pc, airVars, accepted, relayed, silent>>

\* A census heartbeat of another repeater is dropped untouched.
OnRecvCensus == Running /\ UNCHANGED vars

-----------------------------------------------------------------------------
(* loop_tick(), on the main task.                                          *)

LoopBegin ==
    /\ pc = "idle"
    /\ lag' = 0
    /\ pc' = "drain"
    /\ UNCHANGED <<ringVars, scanVars, rx_age, slotVars, airVars, accepted, relayed, silent>>

\* if (pending_repeat_) { pending_repeat_ = false; ...
Drain ==
    /\ pc = "drain"
    /\ pending_repeat_' = FALSE
    /\ pc' = IF pending_repeat_ THEN "send" ELSE "button"
    /\ UNCHANGED <<ringVars, scanVars, rx_age, lag, pending_repeat_buf_, airVars, accepted,
                   relayed, silent>>

\* ... send_broadcast(pending_repeat_buf_): whatever is in it now.
SendRepeat ==
    /\ pc = "send"
    /\ relayed' = Bump(relayed, pending_repeat_buf_)
    /\ pc' = "button"
    /\ UNCHANGED <<ringVars, scanVars, rx_age, lag, slotVars, airVars, accepted, silent>>

NoClick ==
    /\ pc = "button"
    /\ pc' = "scan"
    /\ UNCHANGED <<ringVars, scanVars, rx_age, lag, slotVars, airVars, accepted, relayed, silent>>

NextSetting ==
    LET i == CHOOSE j \in DOMAIN Settings : Settings[j] = channel_setting_
    IN  Settings[(i % Len(Settings)) + 1]

\* poll_button(): a double-click; apply_channel_setting() stores the setting
\* and sets the lock ...
DoubleClick ==
    /\ pc = "button" /\ ButtonLive
    /\ channel_setting_' = NextSetting
    /\ locked_' = (NextSetting # 0)
    /\ IF NextSetting = 0
       THEN scan_idx_' = 0 /\ probe_age' = 0
       ELSE UNCHANGED <<scan_idx_, probe_age>>
    /\ pc' = "apply"
    /\ UNCHANGED <<ringVars, active_channel_, rx_age, lag, slotVars, airVars, accepted,
                   relayed, silent>>

\* start_radio(ch): begin() leaves a running radio alone, set_channel() moves it.
TuneTo(ch) ==
    /\ active_channel_' = ch
    /\ unheard' = [s \in Sources |-> 0]
    /\ silent' = IF ch = active_channel_ THEN silent ELSE 0

\* ... and then retunes.
ApplySetting ==
    /\ pc = "apply"
    /\ TuneTo(IF channel_setting_ = 0 THEN ScanChannels[1] ELSE channel_setting_)
    /\ pc' = "scan"
    /\ UNCHANGED <<ringVars, channel_setting_, locked_, scan_idx_, probe_age, rx_age, lag,
                   slotVars, on_air, reboots, accepted, relayed>>

\* service_scan(): the tests.  A lock lost to silence goes here.
ScanTest ==
    /\ pc = "scan"
    /\ LET probed == ~locked_ /\ probe_age >= Dwell + lag
           lost   == locked_ /\ AgeWrapping(rx_age) >= Relock
       IN  IF channel_setting_ = 0 /\ (probed \/ lost)
           THEN locked_' = FALSE /\ pc' = "hop"
           ELSE UNCHANGED locked_ /\ pc' = "idle"
    /\ UNCHANGED <<ringVars, channel_setting_, active_channel_, scan_idx_, probe_age, rx_age,
                   lag, slotVars, airVars, accepted, relayed, silent>>

\* A plausible bug: the new channel gets what is left of the old one's dwell.
HopKeepsProbeClock ==
    /\ pc = "hop"
    /\ scan_idx_' = (scan_idx_ + 1) % Len(ScanChannels)
    /\ TuneTo(ScanChannels[scan_idx_' + 1])
    /\ pc' = "idle"
    /\ UNCHANGED <<ringVars, channel_setting_, locked_, probe_age, rx_age, lag, slotVars,
                   on_air, reboots, accepted, relayed>>

\* The hop; the probe of the new channel starts at `now'.
Hop ==
    /\ pc = "hop"
    /\ scan_idx_' = (scan_idx_ + 1) % Len(ScanChannels)
    /\ TuneTo(ScanChannels[scan_idx_' + 1])
    /\ probe_age' = lag
    /\ pc' = "idle"
    /\ UNCHANGED <<ringVars, channel_setting_, locked_, rx_age, lag, slotVars, on_air,
                   reboots, accepted, relayed>>

LoopTick ==
    LoopBegin \/ Drain \/ SendRepeat \/ NoClick \/ DoubleClick \/ ApplySetting
    \/ ScanTest \/ Hop

-----------------------------------------------------------------------------
ClockTick ==
    /\ Running /\ lag < MaxLag
    /\ lag' = lag + 1
    /\ rx_age' = Cap(rx_age + 1, RxAgeMax)
    /\ probe_age' = Cap(probe_age + 1, ProbeAgeMax)
    /\ unheard' = [s \in Sources |-> IF Audible(s) THEN Cap(unheard[s] + 1, TrafficGap + 1) ELSE 0]
    /\ silent' = Cap(silent + 1, RxAgeMax)
    /\ UNCHANGED <<ringVars, channel_setting_, active_channel_, locked_, scan_idx_, slotVars,
                   pc, on_air, reboots, accepted, relayed>>

DirectorStops(s) ==
    /\ s \in on_air
    /\ on_air' = on_air \ {s}
    /\ UNCHANGED <<ringVars, scanVars, rx_age, lag, slotVars, pc, unheard, reboots, accepted,
                   relayed, silent>>

Hear(s) == \E seq \in Seqs : OnRecv(s, seq)

Next ==
    \/ Enter \/ PowerCut \/ LoopTick \/ ClockTick \/ OnRecvCensus
    \/ \E s \in Sources : Hear(s) \/ DirectorStops(s)

Spec == Init /\ [][Next]_vars

\* loop_tick() is called forever and never blocks, time passes, and a
\* Director in range is heard.
FairSpec ==
    /\ Spec
    /\ WF_vars(Enter)
    /\ WF_vars(LoopTick)
    /\ WF_vars(ClockTick)
    /\ \A s \in Sources : WF_vars(Hear(s))

-----------------------------------------------------------------------------
RepeaterTypeOK ==
    /\ channel_setting_ \in AllChannels \cup {0} /\ active_channel_ \in AllChannels
    /\ locked_ \in BOOLEAN /\ pending_repeat_ \in BOOLEAN
    /\ scan_idx_ \in 0 .. Len(ScanChannels) - 1
    /\ probe_age \in 0 .. ProbeAgeMax /\ {rx_age, silent} \subseteq 0 .. RxAgeMax
    /\ lag \in 0 .. MaxLag
    /\ dedup_ring_ \in [Slots -> Ids \cup {NoEntry}] /\ dedup_head_ \in Slots
    /\ pending_repeat_buf_ \in Ids \cup {NoId}
    /\ pc \in {"off", "idle", "drain", "send", "button", "apply", "scan", "hop"}
    /\ on_air \subseteq Sources /\ unheard \in [Sources -> 0 .. TrafficGap + 1]
    /\ {accepted, relayed} \subseteq [Ids -> 0 .. 2]
    /\ reboots \in 0 .. MaxReboots

\* "The dedup ring is the only loop guard" (repeater_mode.cpp): between boots a
\* frame is taken up for relay at most once, and an unsequenced one never.
LoopGuard ==
    \A id \in Ids : /\ accepted[id] <= 1
                    /\ id[2] = 0 => relayed[id] = 0

\* The owner's choice holds: between passes a repeater set to a channel is on
\* it, whatever frames arrived while the button was handled.
SettingHonoured ==
    pc = "idle" /\ channel_setting_ # 0 => active_channel_ = channel_setting_ /\ locked_

\* A dead channel is left: an auto repeater does not stay locked past Relock
\* and one pass of silence, however many idle repeaters send census on it.
\* "Two idle repeaters refreshing each other's liveness at 1 Hz would otherwise
\* stay locked to a dead channel forever" (repeater_mode.cpp).
DeadChannelLeft ==
    pc = "idle" /\ channel_setting_ = 0 /\ locked_ => silent <= Relock + MaxLag

\* What a repeater owes the fleet, through every interleaving of frames with its
\* pass and every reboot: no echo, the owner's channel, no dead channel.
RepeaterSafe == LoopGuard /\ SettingHonoured /\ DeadChannelLeft

\* An auto repeater in good range of one Director that stays on the air keeps
\* coming back to its channel, locked, for good or after every lost race.
RepeaterFindsTraffic ==
    \A s \in Sources :
        <>[](on_air = {s} /\ channel_setting_ = 0 /\ unheard[s] <= TrafficGap) =>
        []<>(locked_ /\ active_channel_ = SourceChannel[s])

-----------------------------------------------------------------------------
(* What comments of the code say, and the code does not do.                *)

\* "Auto: probe 1/6/11 and lock to whichever carries Director traffic"
\* (repeater_mode.h): between passes an auto repeater that is locked has heard
\* the fleet on the channel it is on since it came there.
LockedWhereTraffic ==
    pc = "idle" /\ channel_setting_ = 0 /\ locked_ =>
        \E s \in Sources : SourceChannel[s] = active_channel_

\* "Silence on the locked channel before we re-scan" (repeater_mode.h).
RescanAfterSilence == [][pc = "scan" /\ locked_ /\ pc' = "hop" => silent >= Relock]_vars

\* "Every unique frame is re-broadcast verbatim" (repeater_mode.h): a frame
\* that was taken up and is no longer in the slot or in hand has been relayed.
UniqueFramesRelayed ==
    pc = "idle" /\ ~pending_repeat_ => \A id \in Ids : accepted[id] > 0 => relayed[id] > 0
=============================================================================
