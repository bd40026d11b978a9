----------------------- MODULE EspNowBroadcastDriver ------------------------
(***************************************************************************)
(* The Director's radio: src/src/dal/drivers/espnow_broadcast_driver.cpp.  *)
(* It numbers, rate-limits and repeats what the shows send, adds a         *)
(* heartbeat, and on the show channel listens for another user of its      *)
(* source_id before it takes the air.                                      *)
(*                                                                         *)
(* Sends and loop_tick() run on the main task; the receive callback only   *)
(* sets listen_collision_heard_.  Ages stand for time stamps: each counts  *)
(* up from the event and saturates where no comparison can change.  What a *)
(* frame says is left out: a frame is the id and the number it carries.    *)
(***************************************************************************)
EXTENDS Naturals

CONSTANTS
    Channels, ShowChannel,
    DerivedId,      \* derive_source_id() on every other channel
    PerfIds,        \* the ids pick_performance_id_random() chooses from
    UpstreamId,     \* a passed-through frame that keeps its own identity
    NoId,
    MaxSeq,                     \* 255
    RetransmitCounts,           \* what load_retx_count() may return
    GapMin, GapMax,             \* kRedundantGap...Ms
    MinSendInterval, HeartbeatPeriod, ListenWindow,   \* k...Ms
    ListenMaxAttempts,
    TickGap,        \* bound: the longest time between two loop_tick() calls
    MaxStarts       \* bound: calls of start_broadcast()

ASSUME DriverAssumption ==
    /\ ShowChannel \in Channels
    /\ DerivedId \in [Channels \ {ShowChannel} -> (1 .. 254) \ PerfIds]
    /\ PerfIds # {} /\ PerfIds \subseteq 1 .. 254
    /\ UpstreamId \notin PerfIds /\ NoId \notin PerfIds \cup {UpstreamId}
    /\ RetransmitCounts # {} /\ RetransmitCounts \subseteq Nat \ {0}
    /\ {MaxSeq, GapMin, MinSendInterval, HeartbeatPeriod, ListenWindow,
        ListenMaxAttempts, TickGap} \subseteq Nat \ {0}
    /\ GapMax \in Nat /\ GapMin <= GapMax /\ MaxStarts \in Nat

VARIABLES
    startup_state_, active_,
    radio_channel,
    source_id_, seq_num_,
    retransmit_count_, retransmit_buf_, retransmits_remaining_,
    retransmit_wait,    \* next_retransmit_ms_ - now, 0 once due
    airtime_age,        \* age of last_airtime_send_ms_
    hb_age,             \* age of last_hb_ms_
    listen_candidate_, listen_collision_heard_, listen_attempts_remaining_,
    listen_age,         \* age of listen_started_ms_
    perf_id,            \* the persisted candidate
    pc,                 \* where loop_tick() is between its two sends
    tick_age,           \* time since loop_tick() was last called
    starts,
    \* history
    aired,              \* the last frame on the air, as what and on which channel
    copies,             \* how often the last fresh frame has been aired
    budget,             \* retransmit_count_ when that frame was sent
    last_own,           \* number of the last fresh frame under source_id_, 0: none
    quiet,              \* time since a heartbeat left, or since the broadcast began
    clean               \* time listen_candidate_ has gone unheard since it was taken

radioVars == <<startup_state_, active_, radio_channel, source_id_>>
queueVars == <<retransmit_buf_, retransmits_remaining_, retransmit_wait>>
listenVars == <<listen_candidate_, listen_collision_heard_, listen_attempts_remaining_,
                listen_age, perf_id>>
loopVars == <<pc, tick_age>>
airVars == <<aired, copies, budget, last_own>>

vars == <<radioVars, seq_num_, retransmit_count_, queueVars, airtime_age, hb_age, listenVars,
          loopVars, starts, airVars, quiet, clean>>

Cap(n, max) == IF n > max THEN max ELSE n

Frame(src, seq) == [src |-> src, seq |-> seq]
NoFrame == Frame(NoId, 0)

\* 1, 2, ..., MaxSeq, 1, ...: 0 means "not sequenced" and is never used.
NextSeq(seq) == IF seq = MaxSeq THEN 1 ELSE seq + 1

HbMax == HeartbeatPeriod + TickGap

-----------------------------------------------------------------------------
Init ==
    /\ startup_state_ = "Idle" /\ active_ = FALSE
    /\ radio_channel = ShowChannel
    /\ source_id_ = 1 /\ seq_num_ = 1
    /\ retransmit_count_ \in RetransmitCounts
    /\ retransmit_buf_ = NoFrame /\ retransmits_remaining_ = 0 /\ retransmit_wait = 0
    /\ airtime_age = MinSendInterval /\ hb_age = 0
    /\ listen_candidate_ = NoId /\ listen_collision_heard_ = FALSE
    /\ listen_attempts_remaining_ = 0 /\ listen_age = 0
    /\ perf_id \in PerfIds
    /\ pc = "idle" /\ tick_age = 0 /\ starts = 0
    /\ aired = [frame |-> NoFrame, fresh |-> FALSE, channel |-> ShowChannel]
    /\ copies = 0 /\ budget = 0 /\ last_own = 0 /\ quiet = 0 /\ clean = 0

Idle == startup_state_ = "Idle" /\ ~active_

\* What every start resets.  The retransmit queue is not among it.
StartFresh ==
    /\ Idle /\ pc = "idle" /\ starts < MaxStarts
    /\ starts' = starts + 1
    /\ seq_num_' = 1
    /\ airtime_age' = MinSendInterval
    /\ retransmit_count_' \in RetransmitCounts
    /\ last_own' = 0 /\ quiet' = 0
    /\ UNCHANGED <<queueVars, hb_age, loopVars, aired, copies, budget>>

\* start_broadcast(11): hold the candidate, listen, stay off the air.
StartListening ==
    /\ StartFresh
    /\ startup_state_' = "Listening"
    /\ radio_channel' = ShowChannel
    /\ listen_candidate_' = perf_id
    /\ listen_collision_heard_' = FALSE
    /\ listen_attempts_remaining_' = ListenMaxAttempts
    /\ listen_age' = 0 /\ clean' = 0
    /\ UNCHANGED <<active_, source_id_, perf_id>>

\* start_broadcast() on any other channel takes the air at once.
StartActive(ch) ==
    /\ ch # ShowChannel
    /\ StartFresh
    /\ source_id_' = DerivedId[ch]
    /\ active_' = TRUE /\ startup_state_' = "Active"
    /\ radio_channel' = ch
    /\ UNCHANGED <<listenVars, clean>>

\* The radio does not come up: the resets stay, the driver stays idle.
StartFails(ch) ==
    /\ StartFresh
    /\ IF ch = ShowChannel
       THEN /\ listen_candidate_' = perf_id
            /\ listen_collision_heard_' = FALSE
            /\ listen_attempts_remaining_' = ListenMaxAttempts
            /\ UNCHANGED <<source_id_, listen_age, perf_id>>
       ELSE source_id_' = DerivedId[ch] /\ UNCHANGED listenVars
    /\ UNCHANGED <<startup_state_, active_, radio_channel, clean>>

\* stop_broadcast(): the queue and its numbers stay as they are.
StopBroadcast ==
    /\ ~Idle /\ pc = "idle"
    /\ active_' = FALSE /\ startup_state_' = "Idle"
    /\ listen_collision_heard_' = FALSE
    /\ listen_attempts_remaining_' = 0
    /\ UNCHANGED <<radio_channel, source_id_, seq_num_, retransmit_count_, queueVars,
                   airtime_age, hb_age, listen_candidate_, listen_age, perf_id, loopVars,
                   starts, airVars, quiet, clean>>

-----------------------------------------------------------------------------
(* Sending.                                                                *)

\* "A fresh frame replaces any pending retransmit queue."
QueueCopies(f) ==
    IF retransmit_count_ > 1
    THEN /\ retransmit_buf_' = f
         /\ retransmits_remaining_' = retransmit_count_ - 1
         /\ retransmit_wait' \in GapMin .. GapMax
    ELSE retransmits_remaining_' = 0 /\ UNCHANGED <<retransmit_buf_, retransmit_wait>>

\* send_frame_bytes(): on the air now, and queued for its copies.
SendFrameBytes(f) ==
    /\ aired' = [frame |-> f, fresh |-> TRUE, channel |-> radio_channel]
    /\ copies' = 1 /\ budget' = retransmit_count_
    /\ QueueCopies(f)

SendOwn ==
    /\ SendFrameBytes(Frame(source_id_, seq_num_))
    /\ seq_num_' = NextSeq(seq_num_)
    /\ last_own' = seq_num_

AirtimeReady == airtime_age >= MinSendInterval

\* send(), send_wash(), send_wash_end(), send_wash_pulse(), and
\* send_passthrough() of a frame under the broadcast id, which is re-stamped.
Send ==
    /\ active_ /\ pc = "idle" /\ AirtimeReady
    /\ airtime_age' = 0
    /\ SendOwn
    /\ UNCHANGED <<radioVars, retransmit_count_, hb_age, listenVars, loopVars, starts, quiet,
                   clean>>

\* send_passthrough() of a frame that keeps its own id and number.
SendPassthrough ==
    /\ active_ /\ pc = "idle" /\ AirtimeReady
    /\ airtime_age' = 0
    /\ SendFrameBytes(Frame(UpstreamId, 1))
    /\ UNCHANGED <<radioVars, seq_num_, retransmit_count_, hb_age, listenVars, loopVars,
                   starts, last_own, quiet, clean>>

\* A send the airtime cap refuses is dropped; nothing but a counter moves.

-----------------------------------------------------------------------------
(* loop_tick(): listen, or pump one copy and then maybe a heartbeat.       *)

\* pump_retransmits()
PumpRetransmits ==
    /\ active_ /\ pc = "idle"
    /\ pc' = "heartbeat" /\ tick_age' = 0
    /\ IF retransmits_remaining_ > 0 /\ retransmit_wait = 0
       THEN /\ aired' = [frame |-> retransmit_buf_, fresh |-> FALSE, channel |-> radio_channel]
            /\ copies' = copies + 1
            /\ retransmits_remaining_' = retransmits_remaining_ - 1
            /\ IF retransmits_remaining_ > 1
               THEN retransmit_wait' \in GapMin .. GapMax
               ELSE UNCHANGED retransmit_wait
       ELSE UNCHANGED <<aired, copies, retransmits_remaining_, retransmit_wait>>
    /\ UNCHANGED <<radioVars, seq_num_, retransmit_count_, retransmit_buf_, airtime_age,
                   hb_age, listenVars, starts, budget, last_own, quiet, clean>>

\* A plausible bug, which maybe_send_heartbeat() once had: any traffic
\* counts as the heartbeat.
HeartbeatDueOnIdle == hb_age >= HeartbeatPeriod /\ airtime_age >= MinSendInterval

HeartbeatDue == hb_age >= HeartbeatPeriod

\* maybe_send_heartbeat(): exempt from the airtime cap.
MaybeSendHeartbeat ==
    /\ pc = "heartbeat"
    /\ pc' = "idle"
    /\ IF HeartbeatDue
       THEN SendOwn /\ hb_age' = 0 /\ quiet' = 0
       ELSE UNCHANGED <<airVars, queueVars, seq_num_, hb_age, quiet>>
    /\ UNCHANGED <<radioVars, retransmit_count_, airtime_age, listenVars, tick_age, starts,
                   clean>>

\* A plausible bug: a re-roll does not restart the window.
RerollKeepsWindow ==
    /\ listen_attempts_remaining_ > 1
    /\ listen_candidate_' \in PerfIds
    /\ perf_id' = listen_candidate_'
    /\ listen_collision_heard_' = FALSE
    /\ clean' = 0
    /\ UNCHANGED <<listen_age, radioVars, quiet>>

\* Another user was heard and attempts are left: a new candidate, persisted,
\* and a new window.  The draw may repeat the id.
Reroll ==
    /\ listen_attempts_remaining_ > 1
    /\ listen_candidate_' \in PerfIds
    /\ perf_id' = listen_candidate_'
    /\ listen_collision_heard_' = FALSE
    /\ listen_age' = 0
    /\ clean' = 0
    /\ UNCHANGED <<radioVars, quiet>>

Settle ==
    /\ source_id_' = listen_candidate_
    /\ active_' = TRUE /\ startup_state_' = "Active"
    /\ quiet' = 0
    /\ UNCHANGED <<radio_channel, listen_candidate_, listen_collision_heard_, listen_age,
                   perf_id, clean>>

\* listen_tick()
ListenTick ==
    /\ startup_state_ = "Listening"
    /\ tick_age' = 0
    /\ IF listen_age < ListenWindow
       THEN UNCHANGED <<radioVars, listenVars, quiet, clean>>
       ELSE IF listen_collision_heard_
       THEN /\ listen_attempts_remaining_' = listen_attempts_remaining_ - 1
            /\ Reroll \/ (listen_attempts_remaining_ = 1 /\ Settle)
       ELSE Settle /\ UNCHANGED listen_attempts_remaining_
    /\ UNCHANGED <<seq_num_, retransmit_count_, queueVars, airtime_age, hb_age, pc, starts,
                   airVars>>

\* loop_tick() of an idle driver.
IdleTick ==
    /\ Idle /\ tick_age' = 0
    /\ UNCHANGED <<radioVars, seq_num_, retransmit_count_, queueVars, airtime_age, hb_age,
                   listenVars, pc, starts, airVars, quiet, clean>>

LoopTick == ListenTick \/ PumpRetransmits \/ MaybeSendHeartbeat \/ IdleTick

\* A plausible bug: a collision starts the window over.
OnListenRecvRestarts(id) ==
    /\ startup_state_ = "Listening"
    /\ listen_collision_heard_' = (listen_collision_heard_ \/ id = listen_candidate_)
    /\ listen_age' = IF id = listen_candidate_ THEN 0 ELSE listen_age
    /\ clean' = IF id = listen_candidate_ THEN 0 ELSE clean
    /\ UNCHANGED <<radioVars, seq_num_, retransmit_count_, queueVars, airtime_age, hb_age,
                   listen_candidate_, listen_attempts_remaining_, perf_id, loopVars, starts,
                   airVars, quiet>>

\* on_listen_recv(): a heartbeat of another Director under id.
OnListenRecv(id) ==
    /\ startup_state_ = "Listening"
    /\ listen_collision_heard_' = (listen_collision_heard_ \/ id = listen_candidate_)
    /\ clean' = IF id = listen_candidate_ THEN 0 ELSE clean
    /\ UNCHANGED <<radioVars, seq_num_, retransmit_count_, queueVars, airtime_age, hb_age,
                   listen_candidate_, listen_attempts_remaining_, listen_age, perf_id,
                   loopVars, starts, airVars, quiet>>

ClockTick ==
    /\ tick_age < TickGap /\ pc = "idle"
    /\ tick_age' = tick_age + 1
    /\ retransmit_wait' = IF retransmit_wait = 0 THEN 0 ELSE retransmit_wait - 1
    /\ airtime_age' = Cap(airtime_age + 1, MinSendInterval)
    /\ hb_age' = Cap(hb_age + 1, HeartbeatPeriod)
    /\ listen_age' = Cap(listen_age + 1, ListenWindow)
    /\ clean' = IF startup_state_ = "Listening" THEN Cap(clean + 1, ListenWindow) ELSE clean
    /\ quiet' = IF active_ THEN Cap(quiet + 1, HbMax + 1) ELSE quiet
    /\ UNCHANGED <<radioVars, seq_num_, retransmit_count_, retransmit_buf_,
                   retransmits_remaining_, listen_candidate_, listen_collision_heard_,
                   listen_attempts_remaining_, perf_id, pc, starts, airVars>>

Next ==
    \/ StartListening \/ StopBroadcast
    \/ \E ch \in Channels : StartActive(ch) \/ StartFails(ch)
    \/ Send \/ SendPassthrough
    \/ LoopTick
    \/ \E id \in PerfIds : OnListenRecv(id)
    \/ ClockTick

Spec == Init /\ [][Next]_vars

\* loop_tick() is called forever and time passes.
FairSpec == Spec /\ WF_vars(LoopTick) /\ WF_vars(ClockTick)

-----------------------------------------------------------------------------
DriverTypeOK ==
    /\ startup_state_ \in {"Idle", "Listening", "Active"} /\ active_ \in BOOLEAN
    /\ radio_channel \in Channels /\ source_id_ \in 1 .. 254
    /\ seq_num_ \in 1 .. MaxSeq /\ last_own \in 0 .. MaxSeq
    /\ retransmit_count_ \in RetransmitCounts
    /\ retransmits_remaining_ \in Nat
    /\ \E c \in RetransmitCounts : retransmits_remaining_ < c
    /\ retransmit_wait \in 0 .. GapMax
    /\ airtime_age \in 0 .. MinSendInterval /\ hb_age \in 0 .. HeartbeatPeriod
    /\ listen_candidate_ \in PerfIds \cup {NoId} /\ perf_id \in PerfIds
    /\ listen_collision_heard_ \in BOOLEAN
    /\ listen_attempts_remaining_ \in 0 .. ListenMaxAttempts
    /\ listen_age \in 0 .. ListenWindow /\ clean \in 0 .. ListenWindow
    /\ pc \in {"idle", "heartbeat"} /\ tick_age \in 0 .. TickGap
    /\ budget \in RetransmitCounts \cup {0}
    /\ starts \in 0 .. MaxStarts /\ quiet \in 0 .. HbMax + 1

\* What the state machine of the driver rests on: active_ and startup_state_
\* are two names of one fact, and the id on the show channel is the one that
\* was listened for, for the whole window and unheard, or after the last
\* attempt.  (Spec 3.4: "listen for at least one second on its chosen source_id
\* before transmitting; a HEARTBEAT with the same id forces a re-roll".)
ListenBeforeBroadcast ==
    /\ active_ <=> startup_state_ = "Active"
    /\ active_ /\ radio_channel = ShowChannel =>
          /\ source_id_ = listen_candidate_
          /\ clean = ListenWindow \/ listen_attempts_remaining_ = 0

\* A frame is aired at most as often as the count it was sent under, however
\* fresh frames, heartbeats, passed-through frames and restarts interleave.
CopiesBounded == copies <= budget

\* The numbers of a broadcast have no gap, so that a receiver may count every
\* gap as a loss (quality.cpp): the next number to use follows the last one
\* used, whatever was refused or passed through in between.
NoSequenceGap == active_ => seq_num_ = IF last_own = 0 THEN 1 ELSE NextSeq(last_own)

\* "Continuous traffic can't suppress the anchor": a broadcasting Director is
\* never without a heartbeat for longer than the period and one loop pass.
HeartbeatRegular == active_ => quiet <= HbMax

\* A Director asked to take the show channel gets there, whoever is on it:
\* the re-rolls end.
ListeningEnds == startup_state_ = "Listening" ~> startup_state_ # "Listening"

-----------------------------------------------------------------------------
(* What comments of the code say, and the code does not do.                *)

\* "A Director MUST listen on its chosen source_id before transmitting": what
\* is aired on the show channel is the settled id's, or a passed-through
\* frame's.  A queue left over from the broadcast before says otherwise.
OnlyListenedIdsAired ==
    aired.channel = ShowChannel /\ active_ /\ radio_channel = ShowChannel
        => aired.frame.src \in {source_id_, UpstreamId, NoId}
=============================================================================
