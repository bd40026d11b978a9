-------------------------- MODULE Broadcast_proofs --------------------------
(***************************************************************************)
(* What a Director keeps of what it is given to broadcast.                 *)
(*                                                                         *)
(* The driver, for every set of ids and channels, every retransmit count   *)
(* and every setting of its timers.  None of its properties is inductive   *)
(* as it stands: each has a part of DriverInv that says what the driver    *)
(* knows while it still listens, or between the two halves of a            *)
(* loop_tick().                                                            *)
(*                                                                         *)
(* The DMX bridge before it, for every set of looks and universes, over    *)
(* both wires.  BridgeInv follows a session: what the console has written  *)
(* is a sequence of frames, the parser is some bytes into one of them, and *)
(* what a block may still fire is paid for by the rises that lie ahead.    *)
(***************************************************************************)
EXTENDS EspNowBroadcastDriver, DmxBridge, FiniteSetTheorems, WellFoundedInduction, TLAPS

-----------------------------------------------------------------------------
(* The driver.                                                             *)

\* DriverTypeOK, and the type of the one field it leaves to the properties.
TypeInv == DriverTypeOK /\ copies \in Nat

\* active_ and startup_state_ agree; a listening driver is on the show channel
\* with a candidate and an attempt left; between the halves of loop_tick() the
\* driver is on the air.
StartupInv ==
    /\ active_ <=> startup_state_ = "Active"
    /\ startup_state_ = "Listening" =>
          /\ radio_channel = ShowChannel
          /\ listen_candidate_ \in PerfIds
          /\ listen_attempts_remaining_ > 0
    /\ pc = "heartbeat" => active_

\* While no other user was heard, the candidate has gone unheard for as long
\* as the window has been open; on the air, the window was full.
ListenInv ==
    /\ startup_state_ = "Listening" /\ ~listen_collision_heard_ => clean = listen_age
    /\ active_ /\ radio_channel = ShowChannel =>
          /\ source_id_ = listen_candidate_
          /\ clean = ListenWindow \/ listen_attempts_remaining_ = 0

\* The next number follows the last one used; before the first, it is 1.
SeqInv ==
    startup_state_ # "Idle" => seq_num_ = IF last_own = 0 THEN 1 ELSE NextSeq(last_own)

\* What has been aired and what is still queued come from one count, even
\* after a restart has changed retransmit_count_.
CopyInv == copies + retransmits_remaining_ <= budget

\* last_hb_ms_ is never fresher than the last heartbeat of this broadcast, and
\* between passes the silence has only a pass to grow past the period.
HeartbeatInv ==
    active_ => /\ quiet <= hb_age \/ hb_age = HeartbeatPeriod
               /\ pc = "idle" => quiet < HeartbeatPeriod + tick_age
               /\ quiet < HeartbeatPeriod + TickGap

DriverInv == TypeInv /\ StartupInv /\ ListenInv /\ SeqInv /\ CopyInv /\ HeartbeatInv
-----------------------------------------------------------------------------
\* The settings the driver counts with are numbers.
LEMMA Settings ==
    /\ MaxSeq \in Nat /\ MaxSeq > 0
    /\ GapMin \in Nat /\ GapMax \in Nat /\ GapMin <= GapMax
    /\ MinSendInterval \in Nat /\ MinSendInterval > 0
    /\ HeartbeatPeriod \in Nat /\ HeartbeatPeriod > 0
    /\ ListenWindow \in Nat /\ ListenWindow > 0
    /\ ListenMaxAttempts \in Nat /\ ListenMaxAttempts > 0
    /\ TickGap \in Nat /\ TickGap > 0
    /\ MaxStarts \in Nat
    /\ RetransmitCounts \subseteq Nat \ {0}
    /\ PerfIds \subseteq 1 .. 254 /\ NoId \notin PerfIds
    /\ ShowChannel \in Channels
    /\ \A ch \in Channels : ch # ShowChannel => DerivedId[ch] \in 1 .. 254
BY DriverAssumption

\* The wire number stays in 1 .. MaxSeq.
LEMMA NextSeqType == \A seq \in 1 .. MaxSeq : NextSeq(seq) \in 1 .. MaxSeq
BY Settings DEF NextSeq

\* The initial state satisfies every part.
LEMMA DriverInit == Init => DriverInv
<1> SUFFICES ASSUME Init
             PROVE  DriverInv
  OBVIOUS
<1> USE Settings DEF Init
<1>1. TypeInv
  <2>1. /\ startup_state_ \in {"Idle", "Listening", "Active"} /\ active_ \in BOOLEAN
        /\ radio_channel \in Channels
        /\ listen_candidate_ \in PerfIds \cup {NoId} /\ perf_id \in PerfIds
        /\ listen_collision_heard_ \in BOOLEAN
        /\ pc \in {"idle", "heartbeat"}
    OBVIOUS
  <2>2. retransmit_count_ \in RetransmitCounts /\ 0 < retransmit_count_
    OBVIOUS
  <2>3. \E c \in RetransmitCounts : retransmits_remaining_ < c
    BY <2>2
  <2>4. /\ source_id_ \in 1 .. 254
        /\ seq_num_ \in 1 .. MaxSeq /\ last_own \in 0 .. MaxSeq
        /\ retransmits_remaining_ \in Nat /\ retransmit_wait \in 0 .. GapMax
        /\ airtime_age \in 0 .. MinSendInterval /\ hb_age \in 0 .. HeartbeatPeriod
        /\ listen_attempts_remaining_ \in 0 .. ListenMaxAttempts
        /\ listen_age \in 0 .. ListenWindow /\ clean \in 0 .. ListenWindow
        /\ tick_age \in 0 .. TickGap /\ starts \in 0 .. MaxStarts
        /\ quiet \in 0 .. HbMax + 1 /\ copies \in Nat
        /\ budget \in RetransmitCounts \cup {0}
    BY DEF HbMax
  <2> QED
    BY <2>1, <2>2, <2>3, <2>4 DEF TypeInv, DriverTypeOK
<1>2. StartupInv /\ ListenInv /\ SeqInv /\ HeartbeatInv
  BY DEF StartupInv, ListenInv, SeqInv, HeartbeatInv
<1>3. CopyInv
  BY DEF CopyInv
<1> QED
  BY <1>1, <1>2, <1>3 DEF DriverInv

\* A fresh frame moves the number and starts a new count of copies.
LEMMA SendStep ==
    ASSUME DriverInv, Send
    PROVE  DriverInv'
<1> USE Settings, NextSeqType
        DEF DriverInv, TypeInv, DriverTypeOK, Send, SendOwn, SendFrameBytes,
            QueueCopies, AirtimeReady, radioVars, queueVars, listenVars, loopVars,
            airVars
<1>1. TypeInv'
  BY DEF HbMax
<1>2. StartupInv'
  BY DEF StartupInv
<1>3. ListenInv'
  BY DEF StartupInv, ListenInv
<1>4. SeqInv'
  BY DEF StartupInv, SeqInv
<1>5. CopyInv'
  BY DEF CopyInv
<1>6. HeartbeatInv'
  BY DEF StartupInv, HeartbeatInv
<1> QED
  BY <1>1, <1>2, <1>3, <1>4, <1>5, <1>6

\* A passed-through frame starts a new count of copies and leaves the numbers.
LEMMA SendPassthroughStep ==
    ASSUME DriverInv, SendPassthrough
    PROVE  DriverInv'
<1> USE Settings
        DEF DriverInv, TypeInv, DriverTypeOK, SendPassthrough, SendFrameBytes,
            QueueCopies, AirtimeReady, radioVars, queueVars, listenVars, loopVars,
            airVars
<1>1. TypeInv'
  BY DEF HbMax
<1>2. StartupInv'
  BY DEF StartupInv
<1>3. ListenInv'
  BY DEF StartupInv, ListenInv
<1>4. SeqInv'
  BY DEF StartupInv, SeqInv
<1>5. CopyInv'
  BY DEF CopyInv
<1>6. HeartbeatInv'
  BY DEF StartupInv, HeartbeatInv
<1> QED
  BY <1>1, <1>2, <1>3, <1>4, <1>5, <1>6

\* A copy on the air is one less in the queue; the heartbeat is due in this pass.
LEMMA PumpRetransmitsStep ==
    ASSUME DriverInv, PumpRetransmits
    PROVE  DriverInv'
<1> USE Settings
        DEF DriverInv, TypeInv, DriverTypeOK, PumpRetransmits, Cap, radioVars,
            queueVars, listenVars, loopVars, airVars
<1>1. TypeInv'
  BY DEF HbMax
<1>2. StartupInv'
  BY DEF StartupInv
<1>3. ListenInv'
  BY DEF StartupInv, ListenInv
<1>4. SeqInv'
  BY DEF StartupInv, SeqInv
<1>5. CopyInv'
  BY DEF CopyInv
<1>6. HeartbeatInv'
  BY DEF StartupInv, HeartbeatInv
<1> QED
  BY <1>1, <1>2, <1>3, <1>4, <1>5, <1>6

\* A heartbeat sent ends the silence; one not due leaves it within the period.
LEMMA MaybeSendHeartbeatStep ==
    ASSUME DriverInv, MaybeSendHeartbeat
    PROVE  DriverInv'
<1> USE Settings, NextSeqType
        DEF DriverInv, TypeInv, DriverTypeOK, MaybeSendHeartbeat, SendOwn,
            SendFrameBytes, QueueCopies, HeartbeatDue, radioVars, queueVars, listenVars,
            loopVars, airVars
<1>1. TypeInv'
  BY DEF HbMax
<1>2. StartupInv'
  BY DEF StartupInv
<1>3. ListenInv'
  BY DEF StartupInv, ListenInv
<1>4. SeqInv'
  BY DEF StartupInv, SeqInv
<1>5. CopyInv'
  <2>1. CASE HeartbeatDue
    BY <2>1 DEF CopyInv
  <2>2. CASE ~HeartbeatDue
    BY <2>2 DEF CopyInv
  <2> QED
    BY <2>1, <2>2
<1>6. HeartbeatInv'
  BY DEF StartupInv, HeartbeatInv
<1> QED
  BY <1>1, <1>2, <1>3, <1>4, <1>5, <1>6

\* The window closes: the candidate is settled on, or another is drawn and the
\* window opens again.
LEMMA ListenTickStep ==
    ASSUME DriverInv, ListenTick
    PROVE  DriverInv'
<1> USE Settings
        DEF DriverInv, TypeInv, DriverTypeOK, ListenTick, Settle, Reroll, radioVars,
            queueVars, listenVars, loopVars, airVars
<1>1. TypeInv'
  <2>1. /\ startup_state_' \in {"Idle", "Listening", "Active"} /\ active_' \in BOOLEAN
        /\ listen_collision_heard_' \in BOOLEAN /\ pc' \in {"idle", "heartbeat"}
    BY Zenon
  <2>2. /\ radio_channel' \in Channels /\ source_id_' \in 1 .. 254
        /\ listen_candidate_' \in PerfIds \cup {NoId} /\ perf_id' \in PerfIds
    BY DEF StartupInv
  <2>3. /\ seq_num_' \in 1 .. MaxSeq /\ last_own' \in 0 .. MaxSeq
        /\ retransmit_count_' \in RetransmitCounts
        /\ retransmits_remaining_' \in Nat
        /\ \E c \in RetransmitCounts : retransmits_remaining_' < c
        /\ retransmit_wait' \in 0 .. GapMax
    OBVIOUS
  <2>4. /\ airtime_age' \in 0 .. MinSendInterval /\ hb_age' \in 0 .. HeartbeatPeriod
        /\ listen_attempts_remaining_' \in 0 .. ListenMaxAttempts
        /\ listen_age' \in 0 .. ListenWindow /\ clean' \in 0 .. ListenWindow
        /\ tick_age' \in 0 .. TickGap /\ starts' \in 0 .. MaxStarts
        /\ quiet' \in 0 .. HbMax + 1 /\ copies' \in Nat
        /\ budget' \in RetransmitCounts \cup {0}
    BY DEF HbMax
  <2> QED
    BY <2>1, <2>2, <2>3, <2>4
<1>2. StartupInv'
  BY DEF StartupInv
<1>3. ListenInv'
  BY DEF StartupInv, ListenInv
<1>4. SeqInv'
  BY DEF StartupInv, SeqInv
<1>5. CopyInv'
  BY DEF CopyInv
<1>6. HeartbeatInv'
  <2>1. CASE UNCHANGED active_
    BY <2>1 DEF StartupInv, HeartbeatInv
  <2>2. CASE quiet' = 0
    BY <2>2 DEF HeartbeatInv
  <2> QED
    BY <2>1, <2>2
<1> QED
  BY <1>1, <1>2, <1>3, <1>4, <1>5, <1>6

\* An idle pass moves no more than the time of the last pass.
LEMMA IdleTickStep ==
    ASSUME DriverInv, IdleTick
    PROVE  DriverInv'
<1> USE Settings
        DEF DriverInv, TypeInv, DriverTypeOK, IdleTick, Idle, radioVars, queueVars,
            listenVars, loopVars, airVars
<1>1. TypeInv'
  BY DEF HbMax
<1>2. StartupInv'
  BY DEF StartupInv
<1>3. ListenInv'
  BY DEF StartupInv, ListenInv
<1>4. SeqInv'
  BY DEF StartupInv, SeqInv
<1>5. CopyInv'
  BY DEF CopyInv
<1>6. HeartbeatInv'
  BY DEF StartupInv, HeartbeatInv
<1> QED
  BY <1>1, <1>2, <1>3, <1>4, <1>5, <1>6

\* Time passes, on every clock at once.
LEMMA ClockTickStep ==
    ASSUME DriverInv, ClockTick
    PROVE  DriverInv'
<1> USE Settings
        DEF DriverInv, TypeInv, DriverTypeOK, ClockTick, Cap, radioVars, queueVars,
            listenVars, loopVars, airVars
<1>1. TypeInv'
  BY DEF HbMax
<1>2. StartupInv'
  BY DEF StartupInv
<1>3. ListenInv'
  BY DEF StartupInv, ListenInv
<1>4. SeqInv'
  BY DEF StartupInv, SeqInv
<1>5. CopyInv'
  BY DEF CopyInv
<1>6. HeartbeatInv'
  BY DEF StartupInv, HeartbeatInv
<1> QED
  BY <1>1, <1>2, <1>3, <1>4, <1>5, <1>6

\* Listening starts with a candidate, all attempts and a window just opened.
LEMMA StartListeningStep ==
    ASSUME DriverInv, StartListening
    PROVE  DriverInv'
<1> USE Settings
        DEF DriverInv, TypeInv, DriverTypeOK, StartListening, StartFresh, Idle,
            radioVars, queueVars, listenVars, loopVars, airVars
<1>1. TypeInv'
  <2>1. /\ startup_state_' \in {"Idle", "Listening", "Active"} /\ active_' \in BOOLEAN
        /\ listen_collision_heard_' \in BOOLEAN /\ pc' \in {"idle", "heartbeat"}
    BY Zenon
  <2>2. /\ radio_channel' \in Channels /\ source_id_' \in 1 .. 254
        /\ listen_candidate_' \in PerfIds \cup {NoId} /\ perf_id' \in PerfIds
    OBVIOUS
  <2>3. /\ seq_num_' \in 1 .. MaxSeq /\ last_own' \in 0 .. MaxSeq
        /\ retransmit_count_' \in RetransmitCounts
        /\ retransmits_remaining_' \in Nat
        /\ \E c \in RetransmitCounts : retransmits_remaining_' < c
        /\ retransmit_wait' \in 0 .. GapMax
    OBVIOUS
  <2>4. /\ airtime_age' \in 0 .. MinSendInterval /\ hb_age' \in 0 .. HeartbeatPeriod
        /\ listen_attempts_remaining_' \in 0 .. ListenMaxAttempts
        /\ listen_age' \in 0 .. ListenWindow /\ clean' \in 0 .. ListenWindow
        /\ tick_age' \in 0 .. TickGap /\ starts' \in 0 .. MaxStarts
        /\ quiet' \in 0 .. HbMax + 1 /\ copies' \in Nat
        /\ budget' \in RetransmitCounts \cup {0}
    BY DEF HbMax
  <2> QED
    BY <2>1, <2>2, <2>3, <2>4
<1>2. StartupInv'
  BY DEF StartupInv
<1>3. ListenInv'
  BY DEF StartupInv, ListenInv
<1>4. SeqInv'
  BY DEF StartupInv, SeqInv
<1>5. CopyInv'
  BY DEF CopyInv
<1>6. HeartbeatInv'
  BY DEF StartupInv, HeartbeatInv
<1> QED
  BY <1>1, <1>2, <1>3, <1>4, <1>5, <1>6

\* A stop leaves the queue and the numbers; an idle driver promises nothing of them.
LEMMA StopBroadcastStep ==
    ASSUME DriverInv, StopBroadcast
    PROVE  DriverInv'
<1> USE Settings
        DEF DriverInv, TypeInv, DriverTypeOK, StopBroadcast, Idle, radioVars, queueVars,
            listenVars, loopVars, airVars
<1>1. TypeInv'
  <2>1. /\ startup_state_' \in {"Idle", "Listening", "Active"} /\ active_' \in BOOLEAN
        /\ listen_collision_heard_' \in BOOLEAN /\ pc' \in {"idle", "heartbeat"}
    BY Zenon
  <2>2. /\ radio_channel' \in Channels /\ source_id_' \in 1 .. 254
        /\ listen_candidate_' \in PerfIds \cup {NoId} /\ perf_id' \in PerfIds
    OBVIOUS
  <2>3. /\ seq_num_' \in 1 .. MaxSeq /\ last_own' \in 0 .. MaxSeq
        /\ retransmit_count_' \in RetransmitCounts
        /\ retransmits_remaining_' \in Nat
        /\ \E c \in RetransmitCounts : retransmits_remaining_' < c
        /\ retransmit_wait' \in 0 .. GapMax
    OBVIOUS
  <2>4. /\ airtime_age' \in 0 .. MinSendInterval /\ hb_age' \in 0 .. HeartbeatPeriod
        /\ listen_attempts_remaining_' \in 0 .. ListenMaxAttempts
        /\ listen_age' \in 0 .. ListenWindow /\ clean' \in 0 .. ListenWindow
        /\ tick_age' \in 0 .. TickGap /\ starts' \in 0 .. MaxStarts
        /\ quiet' \in 0 .. HbMax + 1 /\ copies' \in Nat
        /\ budget' \in RetransmitCounts \cup {0}
    BY DEF HbMax
  <2> QED
    BY <2>1, <2>2, <2>3, <2>4
<1>2. StartupInv'
  BY DEF StartupInv
<1>3. ListenInv'
  BY DEF StartupInv, ListenInv
<1>4. SeqInv'
  BY DEF StartupInv, SeqInv
<1>5. CopyInv'
  BY DEF CopyInv
<1>6. HeartbeatInv'
  BY DEF StartupInv, HeartbeatInv
<1> QED
  BY <1>1, <1>2, <1>3, <1>4, <1>5, <1>6

\* Any other channel is taken at once, with the numbers starting over.
LEMMA StartActiveStep ==
    ASSUME NEW ch \in Channels, DriverInv, StartActive(ch)
    PROVE  DriverInv'
<1> USE Settings
        DEF DriverInv, TypeInv, DriverTypeOK, StartActive, StartFresh, Idle, radioVars,
            queueVars, listenVars, loopVars, airVars
<1>1. TypeInv'
  BY DEF HbMax
<1>2. StartupInv'
  BY DEF StartupInv
<1>3. ListenInv'
  BY DEF StartupInv, ListenInv
<1>4. SeqInv'
  BY DEF StartupInv, SeqInv
<1>5. CopyInv'
  BY DEF CopyInv
<1>6. HeartbeatInv'
  BY DEF StartupInv, HeartbeatInv
<1> QED
  BY <1>1, <1>2, <1>3, <1>4, <1>5, <1>6

\* A start that fails leaves the driver idle.
LEMMA StartFailsStep ==
    ASSUME NEW ch \in Channels, DriverInv, StartFails(ch)
    PROVE  DriverInv'
<1> USE Settings
        DEF DriverInv, TypeInv, DriverTypeOK, StartFails, StartFresh, Idle, radioVars,
            queueVars, listenVars, loopVars, airVars
<1>1. TypeInv'
  <2>1. /\ startup_state_' \in {"Idle", "Listening", "Active"} /\ active_' \in BOOLEAN
        /\ listen_collision_heard_' \in BOOLEAN /\ pc' \in {"idle", "heartbeat"}
    BY Zenon
  <2>2. /\ radio_channel' \in Channels /\ source_id_' \in 1 .. 254
        /\ listen_candidate_' \in PerfIds \cup {NoId} /\ perf_id' \in PerfIds
    OBVIOUS
  <2>3. /\ seq_num_' \in 1 .. MaxSeq /\ last_own' \in 0 .. MaxSeq
        /\ retransmit_count_' \in RetransmitCounts
        /\ retransmits_remaining_' \in Nat
        /\ \E c \in RetransmitCounts : retransmits_remaining_' < c
        /\ retransmit_wait' \in 0 .. GapMax
    OBVIOUS
  <2>4. /\ airtime_age' \in 0 .. MinSendInterval /\ hb_age' \in 0 .. HeartbeatPeriod
        /\ listen_attempts_remaining_' \in 0 .. ListenMaxAttempts
        /\ listen_age' \in 0 .. ListenWindow /\ clean' \in 0 .. ListenWindow
        /\ tick_age' \in 0 .. TickGap /\ starts' \in 0 .. MaxStarts
        /\ quiet' \in 0 .. HbMax + 1 /\ copies' \in Nat
        /\ budget' \in RetransmitCounts \cup {0}
    BY DEF HbMax
  <2> QED
    BY <2>1, <2>2, <2>3, <2>4
<1>2. StartupInv'
  BY DEF StartupInv
<1>3. ListenInv'
  BY DEF StartupInv, ListenInv
<1>4. SeqInv'
  BY DEF StartupInv, SeqInv
<1>5. CopyInv'
  BY DEF CopyInv
<1>6. HeartbeatInv'
  BY DEF StartupInv, HeartbeatInv
<1> QED
  BY <1>1, <1>2, <1>3, <1>4, <1>5, <1>6

\* A collision ends the claim that the candidate has gone unheard.
LEMMA OnListenRecvStep ==
    ASSUME NEW id \in PerfIds, DriverInv, OnListenRecv(id)
    PROVE  DriverInv'
<1> USE Settings
        DEF DriverInv, TypeInv, DriverTypeOK, OnListenRecv, radioVars, queueVars,
            listenVars, loopVars, airVars
<1>1. TypeInv'
  BY DEF HbMax
<1>2. StartupInv'
  BY DEF StartupInv
<1>3. ListenInv'
  BY DEF StartupInv, ListenInv
<1>4. SeqInv'
  BY DEF StartupInv, SeqInv
<1>5. CopyInv'
  BY DEF CopyInv
<1>6. HeartbeatInv'
  BY DEF StartupInv, HeartbeatInv
<1> QED
  BY <1>1, <1>2, <1>3, <1>4, <1>5, <1>6

\* Every step keeps every part.
LEMMA DriverStep == DriverInv /\ [Next]_vars => DriverInv'
<1> SUFFICES ASSUME DriverInv, [Next]_vars
             PROVE  DriverInv'
  OBVIOUS
<1>1. CASE StartListening
  BY <1>1, StartListeningStep
<1>2. CASE StopBroadcast
  BY <1>2, StopBroadcastStep
<1>3. ASSUME NEW ch \in Channels, StartActive(ch) \/ StartFails(ch)
      PROVE  DriverInv'
  BY <1>3, StartActiveStep, StartFailsStep
<1>4. CASE Send \/ SendPassthrough
  BY <1>4, SendStep, SendPassthroughStep
<1>5. CASE LoopTick
  BY <1>5, ListenTickStep, PumpRetransmitsStep, MaybeSendHeartbeatStep, IdleTickStep
     DEF LoopTick
<1>6. ASSUME NEW id \in PerfIds, OnListenRecv(id)
      PROVE  DriverInv'
  BY <1>6, OnListenRecvStep
<1>7. CASE ClockTick
  BY <1>7, ClockTickStep
<1>8. CASE UNCHANGED vars
  BY <1>8 DEF DriverInv, TypeInv, DriverTypeOK, StartupInv, ListenInv, SeqInv, CopyInv,
              HeartbeatInv, vars, radioVars, queueVars, listenVars, loopVars, airVars
<1> QED
  BY <1>1, <1>2, <1>3, <1>4, <1>5, <1>6, <1>7, <1>8 DEF Next

\* DriverInv is an invariant of the driver.
THEOREM DriverInvariant == Spec => []DriverInv
BY DriverInit, DriverStep, PTL DEF Spec

\* The fields stay in their types: no number leaves the wire's range and the
\* queue never holds more copies than a retransmit count allows.
THEOREM DriverTypeCorrect == Spec => []DriverTypeOK
<1>1. DriverInv => DriverTypeOK
  BY DEF DriverInv, TypeInv
<1> QED
  BY <1>1, DriverInvariant, PTL

\* The show channel is never taken with an id that was not listened for.
THEOREM ListenBeforeBroadcastInvariant == Spec => []ListenBeforeBroadcast
<1>1. DriverInv => ListenBeforeBroadcast
  BY DEF DriverInv, StartupInv, ListenInv, ListenBeforeBroadcast
<1> QED
  BY <1>1, DriverInvariant, PTL

\* No frame is aired more often than the count it was sent under, whatever a
\* restart makes of retransmit_count_ meanwhile.
THEOREM CopiesBoundedInvariant == Spec => []CopiesBounded
<1>1. DriverInv => CopiesBounded
  BY Settings DEF DriverInv, TypeInv, DriverTypeOK, CopyInv, CopiesBounded
<1> QED
  BY <1>1, DriverInvariant, PTL

\* The numbers of a broadcast have no gap, for every width of the counter.
THEOREM NoSequenceGapInvariant == Spec => []NoSequenceGap
<1>1. DriverInv => NoSequenceGap
  BY DEF DriverInv, StartupInv, SeqInv, NoSequenceGap
<1> QED
  BY <1>1, DriverInvariant, PTL

\* A broadcasting Director is never silent for longer than the period and one
\* pass of its loop, whatever the period, the airtime cap and the pass.
THEOREM HeartbeatRegularInvariant == Spec => []HeartbeatRegular
<1>1. DriverInv => HeartbeatRegular
  BY Settings DEF DriverInv, TypeInv, DriverTypeOK, HeartbeatInv, HeartbeatRegular, HbMax
<1> QED
  BY <1>1, DriverInvariant, PTL

-----------------------------------------------------------------------------
(* Recursion over the numbers up to n, for the bytes of a frame.           *)

\* A set that holds 0 and with each number up to n its successor holds n.
LEMMA IntervalInduction ==
    ASSUME NEW n \in Nat, NEW T,
           0 \in T, \A i \in 1 .. n : i - 1 \in T => i \in T
    PROVE  n \in T
<1> SUFFICES ASSUME n \notin T
             PROVE  FALSE
  OBVIOUS
<1> DEFINE Missing == {i \in 0 .. n : i \notin T}
<1>1. Missing \subseteq Nat /\ Missing # {}
  OBVIOUS
<1> HIDE DEF Missing
<1>2. PICK i \in Missing : \A j \in Missing : <<j, i>> \notin OpToRel(<, Nat)
  BY <1>1, WFMin, NatLessThanWellFounded, Zenon
<1>3. \A j \in Missing : ~(j < i)
  BY <1>1, <1>2, Zenon DEF OpToRel
<1>4. i \in 0 .. n /\ i \notin T
  BY <1>2 DEF Missing
<1>5. i # 0 /\ i - 1 \in 0 .. n /\ i \in 1 .. n
  BY <1>4
<1>6. i - 1 \in T
  BY <1>3, <1>5 DEF Missing
<1> QED
  BY <1>4, <1>5, <1>6

\* f is what the steps make of a, one after the other.
Follows(f, n, a, step) == f[0] = a /\ \A i \in 1 .. n : f[i] = step[i][f[i - 1]]

\* Steps within a set can be followed from any of its elements.
LEMMA RecursionExists ==
    ASSUME NEW n \in Nat, NEW S, NEW a \in S, NEW step \in [1 .. n -> [S -> S]]
    PROVE  \E f \in [0 .. n -> S] : Follows(f, n, a, step)
<1> USE DEF Follows
<1> DEFINE Upto(k, f) == Follows(f, k, a, step)
           T == {k \in 0 .. n : \E f \in [0 .. n -> S] : Upto(k, f)}
<1>1. 0 \in T
  <2> DEFINE f == [i \in 0 .. n |-> a]
  <2>1. f \in [0 .. n -> S] /\ Upto(0, f) /\ 0 \in 0 .. n
    OBVIOUS
  <2> HIDE DEF f, Follows
  <2> QED
    BY <2>1
<1>2. ASSUME NEW k \in 1 .. n, k - 1 \in T
      PROVE  k \in T
  <2>1. PICK f \in [0 .. n -> S] : Upto(k - 1, f)
    BY <1>2
  <2> DEFINE v == step[k][f[k - 1]]
             g == [i \in 0 .. n |-> IF i = k THEN v ELSE f[i]]
  <2>2. v \in S
    OBVIOUS
  <2> HIDE DEF v
  <2>3. g \in [0 .. n -> S]
    BY <2>2
  <2>4. \A i \in 0 .. n : g[i] = IF i = k THEN v ELSE f[i]
    OBVIOUS
  <2> HIDE DEF g
  <2>5. g[0] = a
    BY <2>1, <2>4
  <2>6. ASSUME NEW i \in 1 .. k
        PROVE  g[i] = step[i][g[i - 1]]
    <3>1. i \in 0 .. n /\ i - 1 \in 0 .. n /\ i - 1 # k /\ (i # k => i \in 1 .. k - 1)
      OBVIOUS
    <3>2. g[i - 1] = f[i - 1]
      BY <2>4, <3>1
    <3>3. CASE i = k
      BY <2>4, <3>1, <3>2, <3>3 DEF v
    <3>4. CASE i # k
      BY <2>1, <2>4, <3>1, <3>2, <3>4
    <3> QED
      BY <3>3, <3>4
  <2>7. Upto(k, g) /\ k \in 0 .. n
    BY <2>5, <2>6
  <2> HIDE DEF Follows
  <2> QED
    BY <2>3, <2>7
<1> HIDE DEF T
<1>3. n \in T
  BY <1>1, <1>2, IntervalInduction, Zenon
<1> QED
  BY <1>3 DEF T

-----------------------------------------------------------------------------
(* The parser.                                                             *)

Parsers ==
    [state : {"WaitStart", "ReadLabel", "ReadLenLo", "ReadLenHi", "ReadData", "ReadEnd"},
     label : Nat, len : Nat, read : Nat, last_label : Nat, last_len : 0 .. PayloadBufSize,
     buf : [1 .. PayloadBufSize -> Nat]]

\* No length it believes is longer than its buffer.
Bounded(p) == p \in Parsers /\ (p.state \in {"ReadData", "ReadEnd"} => p.len <= PayloadBufSize)

\* It is empty at first, and a session begins with what the last one left.
LEMMA NewIsBounded ==
    /\ Bounded(NewParser)
    /\ \A p : Bounded(p) => /\ Bounded(ParserReset(p)) /\ ParserReset(p).state = "WaitStart"
<1>1. PayloadBufSize \in Nat
  BY ParserAssumption
<1>2. Bounded(NewParser)
  BY <1>1 DEF Bounded, Parsers, NewParser
<1> QED
  BY <1>1, <1>2 DEF Bounded, Parsers, ParserReset, Restarted

\* feed_byte(), state by state.
LEMMA FedByState ==
    ASSUME NEW p, NEW b
    PROVE  /\ p.state = "WaitStart" =>
                 Fed(p, b) = IF b = StartByte THEN [p EXCEPT !.state = "ReadLabel"] ELSE p
           /\ p.state = "ReadLabel" =>
                 Fed(p, b) = [p EXCEPT !.label = b, !.state = "ReadLenLo"]
           /\ p.state = "ReadLenLo" => Fed(p, b) = [p EXCEPT !.len = b, !.state = "ReadLenHi"]
           /\ p.state = "ReadLenHi" => Fed(p, b) = LengthRead(p, b)
           /\ p.state = "ReadData" => Fed(p, b) = DataRead(p, b)
           /\ p.state = "ReadEnd" =>
                 Fed(p, b) =
                     IF b = EndByte
                     THEN Restarted([p EXCEPT !.last_label = p.label, !.last_len = p.len],
                                    "WaitStart")
                     ELSE Resynced(p, b)
BY DEF Fed, Completes

\* Whatever byte comes next, its buffer is not overrun.
LEMMA FedIsBounded ==
    ASSUME NEW p, Bounded(p), NEW b \in Nat
    PROVE  Bounded(Fed(p, b))
<1>0. /\ p \in Parsers /\ PayloadBufSize \in Nat
      /\ p.state \in {"ReadData", "ReadEnd"} => p.len <= PayloadBufSize
  BY ParserAssumption DEF Bounded
<1>1. CASE p.state = "WaitStart"
  <2>1. Fed(p, b) \in {p, [p EXCEPT !.state = "ReadLabel"]}
    BY <1>1, FedByState
  <2> QED
    BY <1>0, <1>1, <2>1 DEF Bounded, Parsers
<1>2. CASE p.state = "ReadLabel"
  <2>1. Fed(p, b) = [p EXCEPT !.label = b, !.state = "ReadLenLo"]
    BY <1>2, FedByState
  <2> QED
    BY <1>0, <2>1 DEF Bounded, Parsers
<1>3. CASE p.state = "ReadLenLo"
  <2>1. Fed(p, b) = [p EXCEPT !.len = b, !.state = "ReadLenHi"]
    BY ZenonT(60), <1>3, FedByState
  <2> QED
    BY <1>0, <2>1 DEF Bounded, Parsers
<1>4. CASE p.state = "ReadLenHi"
  <2>1. Fed(p, b) = LengthRead(p, b)
    BY <1>4, FedByState
  <2>2. p.len + 256 * b \in Nat
    BY <1>0 DEF Parsers
  <2>3. CASE p.len + 256 * b > PayloadBufSize
    <3>1. Fed(p, b) = [p EXCEPT !.state = "WaitStart", !.label = 0, !.len = 0, !.read = 0]
      BY <2>1, <2>3 DEF LengthRead, Resynced, Restarted, StartByte
    <3>2. Fed(p, b) = [state |-> "WaitStart", label |-> 0, len |-> 0, read |-> 0,
                 last_label |-> p.last_label, last_len |-> p.last_len, buf |-> p.buf]
      BY <1>0, <3>1 DEF Parsers
    <3> QED
      BY <1>0, <3>2 DEF Bounded, Parsers
  <2>4. CASE ~(p.len + 256 * b > PayloadBufSize)
    <3> DEFINE len == p.len + 256 * b
    <3>1. Fed(p, b) = [p EXCEPT !.len = len, !.read = 0,
                                !.state = IF len = 0 THEN "ReadEnd" ELSE "ReadData"]
      BY <2>1, <2>4 DEF LengthRead
    <3>2. len \in Nat /\ len <= PayloadBufSize
      BY <1>0, <2>2, <2>4
    <3> HIDE DEF len
    <3>3. \E state \in {"ReadEnd", "ReadData"} :
             Fed(p, b) = [state |-> state, label |-> p.label, len |-> len, read |-> 0,
                             last_label |-> p.last_label, last_len |-> p.last_len, buf |-> p.buf]
      BY <1>0, <3>1 DEF Parsers
    <3> QED
      BY <1>0, <3>2, <3>3 DEF Bounded, Parsers
  <2> QED
    BY <2>3, <2>4
<1>5. CASE p.state = "ReadData"
  <2>1. Fed(p, b) = DataRead(p, b)
    BY <1>5, FedByState
  <2> DEFINE buf == [p.buf EXCEPT ![p.read + 1] = b]
  <2>2. p.buf \in [1 .. PayloadBufSize -> Nat] /\ p.read + 1 \in Nat
    BY <1>0 DEF Parsers
  <2>3. buf \in [1 .. PayloadBufSize -> Nat]
    BY <2>2
  <2>4. Fed(p, b) = [p EXCEPT !.buf = buf, !.read = p.read + 1,
                        !.state = IF p.read + 1 >= p.len THEN "ReadEnd" ELSE "ReadData"]
    BY <1>0, <2>1 DEF DataRead, Parsers
  <2> HIDE DEF buf
  <2> QED
    BY <1>0, <1>5, <2>2, <2>3, <2>4 DEF Bounded, Parsers
<1>6. CASE p.state = "ReadEnd"
  <2>1. CASE b = EndByte
    <3>1. Fed(p, b) = [p EXCEPT !.last_label = p.label, !.last_len = p.len,
                                !.state = "WaitStart", !.label = 0, !.len = 0, !.read = 0]
      BY <1>0, <1>6, <2>1, FedByState DEF Restarted, Parsers
    <3>2. p.len \in 0 .. PayloadBufSize /\ p.label \in Nat
      BY <1>0, <1>6 DEF Parsers
    <3>3. Fed(p, b) = [state |-> "WaitStart", label |-> 0, len |-> 0, read |-> 0,
                 last_label |-> p.label, last_len |-> p.len, buf |-> p.buf]
      BY <1>0, <3>1 DEF Parsers
    <3> QED
      BY SMTT(30), <1>0, <3>2, <3>3 DEF Bounded, Parsers
  <2>2. CASE b # EndByte
    <3>1. \E state \in {"WaitStart", "ReadLabel"} :
             Fed(p, b) = [p EXCEPT !.state = state, !.label = 0, !.len = 0, !.read = 0]
      BY <1>6, <2>2, FedByState DEF Resynced, Restarted
    <3>2. \E state \in {"WaitStart", "ReadLabel"} :
             Fed(p, b) = [state |-> state, label |-> 0, len |-> 0, read |-> 0,
                             last_label |-> p.last_label, last_len |-> p.last_len, buf |-> p.buf]
      BY <1>0, <3>1 DEF Parsers
    <3> QED
      BY <1>0, <3>2 DEF Bounded, Parsers
  <2> QED
    BY <2>1, <2>2
<1> QED
  BY <1>0, <1>1, <1>2, <1>3, <1>4, <1>5, <1>6 DEF Parsers

\* The bytes of an Enttec frame.
Framed(frame) ==
    /\ frame \in Seq(Nat) /\ Len(frame) \in 6 .. PayloadBufSize + 5
    /\ frame[1] = StartByte /\ frame[Len(frame)] = EndByte
    /\ frame[3] + 256 * frame[4] = Len(frame) - 5

\* The parser has taken the first k bytes of the frame.
At(p, frame, k) ==
    /\ k = 0 => p.state = "WaitStart"
    /\ k = 1 => p.state = "ReadLabel"
    /\ k > 1 => p.label = frame[2]
    /\ k = 2 => p.state = "ReadLenLo"
    /\ k = 3 => p.state = "ReadLenHi" /\ p.len = frame[3]
    /\ k > 3 => /\ p.len = Len(frame) - 5 /\ p.read = k - 4
                /\ p.state = IF k = Len(frame) - 1 THEN "ReadEnd" ELSE "ReadData"
    /\ \A j \in 5 .. k : p.buf[j - 4] = frame[j]

\* One byte further, nothing changes but the byte's place in the buffer.
LEMMA ByteTaken ==
    ASSUME NEW p, Bounded(p), NEW frame, Framed(frame), NEW k \in 0 .. Len(frame) - 2,
           At(p, frame, k)
    PROVE  LET q == Fed(p, frame[k + 1])
           IN  /\ At(q, frame, k + 1) /\ ~Completes(p, frame[k + 1])
               /\ q.last_label = p.last_label /\ q.last_len = p.last_len
               /\ \A i \in 1 .. PayloadBufSize : i # k - 3 => q.buf[i] = p.buf[i]
<1> DEFINE b == frame[k + 1]
           q == Fed(p, b)
<1>0. /\ p \in Parsers /\ k \in Nat /\ k + 1 \in 1 .. Len(frame) - 1 /\ Len(frame) \in Nat
      /\ frame \in Seq(Nat) /\ b \in Nat /\ PayloadBufSize \in Nat
  <2>0. frame \in Seq(Nat) /\ Len(frame) \in 6 .. PayloadBufSize + 5
    BY Zenon DEF Framed
  <2>1. frame \in Seq(Nat) /\ Len(frame) \in Nat /\ Len(frame) >= 6 /\ PayloadBufSize \in Nat
    BY <2>0, ParserAssumption
  <2>2. k + 1 \in 1 .. Len(frame) - 1 /\ k + 1 \in DOMAIN frame
    BY <2>1
  <2>3. frame[k + 1] \in Nat
    BY <2>1, <2>2
  <2>4. p \in Parsers
    BY DEF Bounded
  <2> QED
    BY <2>1, <2>2, <2>3, <2>4
<1>1. CASE k = 0
  <2>1. p.state = "WaitStart" /\ b = StartByte
    BY <1>1 DEF At, Framed
  <2>2. q = [p EXCEPT !.state = "ReadLabel"]
    BY <2>1, FedByState
  <2> QED
    BY <1>0, <1>1, <2>1, <2>2 DEF At, Completes, Parsers
<1>2. CASE k = 1
  <2>1. p.state = "ReadLabel"
    BY SMTT(30), <1>2 DEF At
  <2>2. q = [p EXCEPT !.label = b, !.state = "ReadLenLo"]
    BY ZenonT(60), <2>1, FedByState
  <2> QED
    BY <1>0, <1>2, <2>1, <2>2 DEF At, Completes, Parsers
<1>3. CASE k = 2
  <2>1. p.state = "ReadLenLo" /\ p.label = frame[2]
    BY <1>3 DEF At
  <2>2. q = [p EXCEPT !.len = b, !.state = "ReadLenHi"]
    BY ZenonT(60), <2>1, FedByState
  <2> QED
    BY <1>0, <1>3, <2>1, <2>2 DEF At, Completes, Parsers
<1>4. CASE k = 3
  <2>1. p.state = "ReadLenHi" /\ p.label = frame[2] /\ p.len = frame[3]
    BY <1>4 DEF At
  <2>2. q = LengthRead(p, b)
    BY <2>1, FedByState
  <2>3. /\ p.len + 256 * b = Len(frame) - 5
        /\ ~(Len(frame) - 5 > PayloadBufSize) /\ Len(frame) - 5 # 0 /\ 4 # Len(frame) - 1
    <3>1. b = frame[4] /\ p.len = frame[3]
      BY <1>4, <2>1
    <3>2. Len(frame) \in 6 .. PayloadBufSize + 5 /\ frame[3] + 256 * frame[4] = Len(frame) - 5
      BY DEF Framed
    <3>3. p.len + 256 * b = Len(frame) - 5
      BY <3>1, <3>2
    <3> DEFINE len == Len(frame)
    <3>4. len \in 6 .. PayloadBufSize + 5 /\ PayloadBufSize \in Nat
      BY <1>0, <3>2
    <3> HIDE DEF len
    <3>5. ~(len - 5 > PayloadBufSize) /\ len - 5 # 0 /\ 4 # len - 1
      BY <3>4
    <3> QED
      BY <3>3, <3>5 DEF len
  <2>4. q = [p EXCEPT !.len = Len(frame) - 5, !.read = 0, !.state = "ReadData"]
    BY <2>2, <2>3 DEF LengthRead
  <2> QED
    BY <1>0, <1>4, <2>1, <2>3, <2>4 DEF At, Completes, Parsers
<1>5. CASE k > 3
  <2>1. /\ p.state = "ReadData" /\ p.label = frame[2] /\ p.len = Len(frame) - 5
        /\ p.read = k - 4 /\ \A j \in 5 .. k : p.buf[j - 4] = frame[j]
    <3>1. k > 1 /\ k > 3 /\ k # Len(frame) - 1
      BY <1>0, <1>5
    <3> QED
      BY <3>1 DEF At
  <2>2. q = DataRead(p, b)
    BY <2>1, FedByState
  <2>3. k - 3 \in 1 .. PayloadBufSize /\ p.read + 1 = k - 3
    <3> DEFINE len == Len(frame)
    <3>1. len \in 6 .. PayloadBufSize + 5 /\ k \in 0 .. len - 2 /\ PayloadBufSize \in Nat
      BY <1>0 DEF Framed
    <3>2. p.read = k - 4
      BY <2>1
    <3> HIDE DEF len
    <3> QED
      BY <1>5, <3>1, <3>2
  <2>4. q = [p EXCEPT !.buf = [p.buf EXCEPT ![k - 3] = b], !.read = k - 3,
                !.state = IF k - 3 >= Len(frame) - 5 THEN "ReadEnd" ELSE "ReadData"]
    BY <1>0, <2>1, <2>2, <2>3 DEF DataRead, Parsers
  <2>5. /\ q.buf[k - 3] = b /\ \A i \in 1 .. PayloadBufSize : i # k - 3 => q.buf[i] = p.buf[i]
        /\ q.state = (IF k - 3 >= Len(frame) - 5 THEN "ReadEnd" ELSE "ReadData")
        /\ q.label = frame[2] /\ q.len = Len(frame) - 5 /\ q.read = k - 3
        /\ q.last_label = p.last_label /\ q.last_len = p.last_len
    BY SMTT(30), <1>0, <2>1, <2>3, <2>4 DEF Parsers
  <2>6. k - 3 >= Len(frame) - 5 <=> k + 1 = Len(frame) - 1
    BY <1>0
  <2>7. \A j \in 5 .. k + 1 : q.buf[j - 4] = frame[j]
    <3> SUFFICES ASSUME NEW j \in 5 .. k + 1 PROVE q.buf[j - 4] = frame[j]
      OBVIOUS
    <3>1. CASE j = k + 1
      BY <2>5, <3>1, <1>0
    <3>2. CASE j # k + 1
      <4>1. j \in 5 .. k /\ j - 4 \in 1 .. PayloadBufSize /\ j - 4 # k - 3
        BY <1>0, <2>3, <3>2
      <4> QED
        BY <2>1, <2>5, <4>1
    <3> QED
      BY <3>1, <3>2
  <2>8. At(q, frame, k + 1)
    BY SMTT(30), <1>0, <1>5, <2>5, <2>6, <2>7 DEF At
  <2>9. ~Completes(p, b)
    BY <2>1 DEF Completes
  <2> QED
    BY <2>5, <2>8, <2>9
<1> QED
  BY <1>0, <1>1, <1>2, <1>3, <1>4, <1>5

\* The last byte: the frame is the last one now, and the parser waits for the next.
LEMMA FrameTaken ==
    ASSUME NEW p, Bounded(p), NEW frame, Framed(frame), At(p, frame, Len(frame) - 1)
    PROVE  LET q == Fed(p, frame[Len(frame)])
           IN  /\ q.state = "WaitStart" /\ Completes(p, frame[Len(frame)])
               /\ q.last_label = frame[2] /\ q.last_len = Len(frame) - 5
               /\ q.buf = p.buf /\ \A j \in 5 .. Len(frame) - 1 : q.buf[j - 4] = frame[j]
<1>1. /\ p.state = "ReadEnd" /\ p.label = frame[2] /\ p.len = Len(frame) - 5
      /\ \A j \in 5 .. Len(frame) - 1 : p.buf[j - 4] = frame[j]
  BY DEF At, Framed
<1>2. Completes(p, frame[Len(frame)])
  BY SMTT(30), <1>1 DEF Completes, Framed
<1>3. Fed(p, frame[Len(frame)])
        = Restarted([p EXCEPT !.last_label = p.label, !.last_len = p.len], "WaitStart")
  <2>1. frame[Len(frame)] = EndByte
    BY DEF Framed
  <2> QED
    BY <1>1, <2>1, FedByState
<1> QED
  BY <1>1, <1>2, <1>3 DEF Restarted, Bounded, Parsers

\* What a console writes is framed: a universe behind its start code, and a cue.
UniverseFramed(frame, u) ==
    /\ Framed(frame) /\ Len(frame) = Len(u) + 6
    /\ frame[2] = LabelSendDmx /\ frame[5] = 0 /\ \A b \in 1 .. Len(u) : frame[5 + b] = u[b]

LEMMA Sandwiched ==
    ASSUME NEW head \in Seq(Nat), NEW u \in Seq(Nat), NEW tail \in Seq(Nat), NEW frame,
           frame = head \o u \o tail,
           NEW k \in Nat, k = Len(head), NEW m \in Nat, m = Len(tail)
    PROVE  /\ frame \in Seq(Nat) /\ Len(frame) = k + Len(u) + m
           /\ \A i \in 1 .. k : frame[i] = head[i]
           /\ \A i \in 1 .. Len(u) : frame[k + i] = u[i]
           /\ \A i \in 1 .. m : frame[k + Len(u) + i] = tail[i]
OBVIOUS

LEMMA WrapIsFramed ==
    ASSUME NEW u \in Seq(Nat), Len(u) < PayloadBufSize
    PROVE  UniverseFramed(Wrapped(u), u)
<1> DEFINE n == Len(u)
           lo == (n + 1) % 256
           hi == (n + 1) \div 256
           head == <<StartByte, LabelSendDmx, lo, hi, 0>>
           tail == <<EndByte>>
           frame == Wrapped(u)
<1>1. n \in Nat /\ lo \in Nat /\ hi \in Nat /\ lo + 256 * hi = n + 1
  OBVIOUS
<1>2. frame = head \o u \o tail
  BY DEF Wrapped
<1> HIDE DEF lo, hi, frame
<1>3. /\ head \in Seq(Nat) /\ Len(head) = 5 /\ tail \in Seq(Nat) /\ Len(tail) = 1
      /\ head[1] = StartByte /\ head[2] = LabelSendDmx /\ head[3] = lo
      /\ head[4] = hi /\ head[5] = 0 /\ tail[1] = EndByte
  BY <1>1 DEF StartByte, LabelSendDmx, EndByte
<1> HIDE DEF head, tail
<1> DEFINE k == Len(head)
           m == Len(tail)
<1>4. k = 5 /\ m = 1
  BY <1>3
<1> HIDE DEF k, m
<1>5. /\ frame \in Seq(Nat) /\ Len(frame) = n + 6
      /\ \A i \in 1 .. 5 : frame[i] = head[i]
      /\ \A i \in 1 .. n : frame[5 + i] = u[i]
      /\ frame[n + 6] = tail[1]
  <2>1. head \in Seq(Nat) /\ tail \in Seq(Nat)
    BY <1>3
  <2>2. k \in Nat /\ k = Len(head) /\ m \in Nat /\ m = Len(tail)
    BY <2>1 DEF k, m
  <2>3. /\ frame \in Seq(Nat) /\ Len(frame) = k + Len(u) + m
        /\ \A i \in 1 .. k : frame[i] = head[i]
        /\ \A i \in 1 .. Len(u) : frame[k + i] = u[i]
        /\ \A i \in 1 .. m : frame[k + Len(u) + i] = tail[i]
    BY <1>2, <2>1, <2>2, Sandwiched
  <2>4. k + n + m = n + 6 /\ k + n + 1 = n + 6 /\ 1 \in 1 .. m
    BY <1>1, <1>4
  <2>5. frame[n + 6] = tail[1]
    BY <2>3, <2>4
  <2> QED
    BY <1>4, <2>3, <2>4, <2>5
<1>6. /\ frame[1] = StartByte /\ frame[2] = LabelSendDmx /\ frame[3] = lo /\ frame[4] = hi
      /\ frame[5] = 0 /\ frame[n + 6] = EndByte
  BY SMTT(30), <1>3, <1>5
<1>7. n + 6 \in 6 .. PayloadBufSize + 5 /\ (n + 6) - 5 = n + 1
  BY <1>1, ParserAssumption
<1> HIDE DEF n
<1>8. Framed(frame)
  BY <1>1, <1>5, <1>6, <1>7 DEF Framed
<1>9. UniverseFramed(frame, u)
  BY <1>5, <1>6, <1>8 DEF UniverseFramed, n
<1> QED
  BY <1>9 DEF frame

LEMMA CueIsFramed ==
    ASSUME NEW k \in Nat
    PROVE  LET frame == CueFrame(k)
           IN  /\ Framed(frame) /\ Len(frame) = 7
               /\ frame[2] = LabelEspNow /\ frame[5] = Magic /\ frame[6] = k
<1>1. PayloadBufSize >= 2
  BY BridgeAssumption, EthernetAssumption, ParserAssumption
<1> QED
  BY <1>1, ParserAssumption
     DEF CueFrame, Framed, StartByte, LabelEspNow, Magic, EndByte

-----------------------------------------------------------------------------
(* The triggers: what a block may still fire is paid for by its rises.      *)

Rise(from, to) == IF Triggered(to) /\ ~Triggered(from) THEN 1 ELSE 0

\* A block's byte was show[0], .. show[n], one after the other, and the console
\* shows `shown' now; the mapper has come to show[e].  What it is owed is
\* enough for the rises ahead of it, and for the one it is in if it is armed.
Repaid(owed, armed, shown, n, show, e) ==
    \E w \in [0 .. n -> Nat] :
       /\ \A i \in 1 .. n : w[i - 1] >= w[i] + Rise(show[i - 1], show[i])
       /\ w[n] >= Rise(show[n], shown)
       /\ owed >= w[e] + (IF armed /\ Triggered(show[e]) THEN 1 ELSE 0)

\* On entry the mapper is armed and owed one.
LEMMA RepaidAtFirst ==
    ASSUME NEW show, NEW shown
    PROVE  Repaid(1, TRUE, shown, 0, show, 0)
<1> DEFINE w == [i \in 0 .. 0 |-> Rise(show[0], shown)]
<1>1. Rise(show[0], shown) \in Nat /\ (Triggered(show[0]) => Rise(show[0], shown) = 0)
      /\ Rise(show[0], shown) <= 1
  BY DEF Rise
<1>2. w \in [0 .. 0 -> Nat] /\ w[0] = Rise(show[0], shown)
  BY <1>1
<1> HIDE DEF w
<1> QED
  BY <1>1, <1>2 DEF Repaid

\* The mapper comes to the next byte.
LEMMA RepaidOnward ==
    ASSUME NEW owed \in Int, NEW armed, NEW shown, NEW n \in Nat, NEW show, NEW e \in 0 .. n,
           e < n, Repaid(owed, armed, shown, n, show, e)
    PROVE  Repaid(owed, armed, shown, n, show, e + 1)
<1>1. PICK w \in [0 .. n -> Nat] :
         /\ \A i \in 1 .. n : w[i - 1] >= w[i] + Rise(show[i - 1], show[i])
         /\ w[n] >= Rise(show[n], shown)
         /\ owed >= w[e] + (IF armed /\ Triggered(show[e]) THEN 1 ELSE 0)
  BY DEF Repaid
<1>2. e + 1 \in 1 .. n /\ (e + 1) - 1 = e
  OBVIOUS
<1>3. w[e] >= w[e + 1] + Rise(show[e], show[e + 1]) /\ w[e] \in Nat /\ w[e + 1] \in Nat
  BY <1>1, <1>2
<1>4. owed >= w[e + 1] + (IF armed /\ Triggered(show[e + 1]) THEN 1 ELSE 0)
  BY <1>1, <1>3 DEF Rise
<1> QED
  BY <1>1, <1>4 DEF Repaid

\* One more byte is on its way: what the console shows, or the last one again.
LEMMA RepaidFurther ==
    ASSUME NEW owed \in Int, NEW armed, NEW shown, NEW n \in Nat, NEW show, NEW e \in 0 .. n,
           Repaid(owed, armed, shown, n, show, e),
           NEW further, \A i \in 0 .. n : further[i] = show[i],
           further[n + 1] \in {show[n], shown}
    PROVE  Repaid(owed, armed, shown, n + 1, further, e)
<1>1. PICK w \in [0 .. n -> Nat] :
         /\ \A i \in 1 .. n : w[i - 1] >= w[i] + Rise(show[i - 1], show[i])
         /\ w[n] >= Rise(show[n], shown)
         /\ owed >= w[e] + (IF armed /\ Triggered(show[e]) THEN 1 ELSE 0)
  BY DEF Repaid
<1> DEFINE last == Rise(further[n + 1], shown)
           v == [i \in 0 .. n + 1 |-> IF i = n + 1 THEN last ELSE w[i]]
<1>2. last \in Nat /\ w[n] >= last + Rise(show[n], further[n + 1])
  BY <1>1 DEF Rise
<1>3. /\ v \in [0 .. n + 1 -> Nat] /\ v[n + 1] = last
      /\ \A i \in 0 .. n : v[i] = w[i]
  BY <1>2
<1> HIDE DEF v
<1>4. \A i \in 1 .. n + 1 : v[i - 1] >= v[i] + Rise(further[i - 1], further[i])
  <2> SUFFICES ASSUME NEW i \in 1 .. n + 1
               PROVE  v[i - 1] >= v[i] + Rise(further[i - 1], further[i])
    OBVIOUS
  <2>1. CASE i = n + 1
    <3>1. i - 1 = n /\ n \in 0 .. n
      BY <2>1
    <3> QED
      BY <1>2, <1>3, <2>1, <3>1
  <2>2. CASE i \in 1 .. n
    <3>1. i - 1 \in 0 .. n /\ i \in 0 .. n
      BY <2>2
    <3> QED
      BY <1>1, <1>3, <2>2, <3>1
  <2> QED
    BY <2>1, <2>2
<1>5. v[e] = w[e] /\ further[e] = show[e]
  BY <1>3
<1>6. /\ v[n + 1] >= Rise(further[n + 1], shown)
      /\ owed >= v[e] + (IF armed /\ Triggered(further[e]) THEN 1 ELSE 0)
  BY <1>1, <1>2, <1>3, <1>5
<1> QED
  BY <1>3, <1>4, <1>6 DEF Repaid

\* The console goes to another look, and owes for it if it rises.
LEMMA RepaidForChange ==
    ASSUME NEW owed \in Int, NEW armed, NEW shown, NEW n \in Nat, NEW show, NEW e \in 0 .. n,
           Repaid(owed, armed, shown, n, show, e), NEW next
    PROVE  Repaid(owed + Rise(shown, next), armed, next, n, show, e)
<1>1. PICK w \in [0 .. n -> Nat] :
         /\ \A i \in 1 .. n : w[i - 1] >= w[i] + Rise(show[i - 1], show[i])
         /\ w[n] >= Rise(show[n], shown)
         /\ owed >= w[e] + (IF armed /\ Triggered(show[e]) THEN 1 ELSE 0)
  BY DEF Repaid
<1> DEFINE more == Rise(shown, next)
           v == [i \in 0 .. n |-> w[i] + more]
<1>2. more \in Nat /\ w[n] + more >= Rise(show[n], next)
  BY <1>1 DEF Rise
<1> HIDE DEF more
<1>3. v \in [0 .. n -> Nat] /\ \A i \in 0 .. n : v[i] = w[i] + more
  BY <1>2
<1> HIDE DEF v
<1>4. \A i \in 1 .. n : v[i - 1] >= v[i] + Rise(show[i - 1], show[i])
  <2> SUFFICES ASSUME NEW i \in 1 .. n
               PROVE  v[i - 1] >= v[i] + Rise(show[i - 1], show[i])
    OBVIOUS
  <2>1. i - 1 \in 0 .. n /\ i \in 0 .. n /\ Rise(show[i - 1], show[i]) \in Nat
    BY DEF Rise
  <2>2. w[i - 1] >= w[i] + Rise(show[i - 1], show[i]) /\ w[i - 1] \in Nat /\ w[i] \in Nat
    BY <1>1, <2>1
  <2> QED
    BY <1>2, <1>3, <2>1, <2>2
<1>5. v[n] >= Rise(show[n], next) /\ v[e] = w[e] + more
  BY <1>2, <1>3
<1>6. owed + more >= v[e] + (IF armed /\ Triggered(show[e]) THEN 1 ELSE 0)
  BY <1>1, <1>2, <1>5
<1> QED
  BY <1>3, <1>4, <1>5, <1>6 DEF Repaid, more

LEMMA RepaidIsOwed ==
    ASSUME NEW owed \in Int, NEW armed, NEW shown, NEW n \in Nat, NEW show, NEW e \in 0 .. n,
           Repaid(owed, armed, shown, n, show, e)
    PROVE  owed >= 0
BY DEF Repaid

\* The mapper is run over a byte.
Pulses(events) == Cardinality(EventsOf(events, "pulse"))

LEMMA Chained ==
    ASSUME NEW S, NEW a \in Seq(S), NEW b \in Seq(S), NEW c \in Seq(S), NEW r, r = a \o b \o c,
           NEW k \in Nat, k = Len(a), NEW l \in Nat, l = Len(b), NEW m \in Nat, m = Len(c)
    PROVE  /\ DOMAIN r = 1 .. k + l + m
           /\ \A i \in 1 .. k : r[i] = a[i]
           /\ \A i \in 1 .. l : r[k + i] = b[i]
           /\ \A i \in 1 .. m : r[k + l + i] = c[i]
OBVIOUS

LEMMA OneOrNone ==
    ASSUME NEW S, NEW x \in S, NEW due \in BOOLEAN, NEW s, s = IF due THEN <<x>> ELSE <<>>
    PROVE  /\ s \in Seq(S) /\ Len(s) = (IF due THEN 1 ELSE 0)
           /\ \A i \in 1 .. Len(s) : s[i] = x
OBVIOUS

LEMMA PulsesCounted ==
    ASSUME NEW m, NEW ch
    PROVE  /\ Pulses(RawStep(m, ch).events) = 0
           /\ Pulses(FxStep(m, ch).events) = IF PulseDue(m, ch) THEN 1 ELSE 0
           /\ Pulses(<<>>) = 0
<1>1. Pulses(<<>>) = 0
  <2>1. EventsOf(<<>>, "pulse") = {}
    BY DEF EventsOf
  <2> QED
    BY <2>1, FS_EmptySet DEF Pulses
<1>2. Pulses(RawStep(m, ch).events) = 0
  <2>1. EventsOf(RawStep(m, ch).events, "pulse") = {}
    BY DEF EventsOf, RawStep, RawEvent
  <2> QED
    BY <2>1, FS_EmptySet DEF Pulses
<1>3. Pulses(FxStep(m, ch).events) = IF PulseDue(m, ch) THEN 1 ELSE 0
  <2> DEFINE x == WashEvent(ch)
             y == PulseEvent(ch, "pulse")
             z == PulseEvent(ch, "strobe")
             S == {x, y, z}
             washes == IF WashDue(m, ch) THEN <<x>> ELSE <<>>
             pulses == IF PulseDue(m, ch) THEN <<y>> ELSE <<>>
             strobes == IF StrobeDue(m, ch) THEN <<z>> ELSE <<>>
             events == FxStep(m, ch).events
             k == Len(washes)
             l == Len(pulses)
             n == Len(strobes)
  <2>1. x.kind = "wash" /\ y.kind = "pulse" /\ z.kind = "strobe"
    BY DEF WashEvent, PulseEvent
  <2>2. events = washes \o pulses \o strobes
    BY DEF FxStep
  <2> HIDE DEF events, x, y, z
  <2>3. /\ washes \in Seq(S) /\ pulses \in Seq(S) /\ strobes \in Seq(S)
        /\ Len(washes) \in Nat /\ Len(pulses) = (IF PulseDue(m, ch) THEN 1 ELSE 0)
        /\ Len(strobes) \in Nat
        /\ \A i \in 1 .. Len(washes) : washes[i] = x
        /\ \A i \in 1 .. Len(pulses) : pulses[i] = y
        /\ \A i \in 1 .. Len(strobes) : strobes[i] = z
    <3>1. /\ x \in S /\ y \in S /\ z \in S
          /\ WashDue(m, ch) \in BOOLEAN /\ PulseDue(m, ch) \in BOOLEAN
          /\ StrobeDue(m, ch) \in BOOLEAN
      BY DEF WashDue, PulseDue, StrobeDue
    <3> HIDE DEF S
    <3>2. /\ washes \in Seq(S) /\ Len(washes) = (IF WashDue(m, ch) THEN 1 ELSE 0)
          /\ \A i \in 1 .. Len(washes) : washes[i] = x
      BY <3>1, OneOrNone
    <3>3. /\ pulses \in Seq(S) /\ Len(pulses) = (IF PulseDue(m, ch) THEN 1 ELSE 0)
          /\ \A i \in 1 .. Len(pulses) : pulses[i] = y
      BY <3>1, OneOrNone
    <3>4. /\ strobes \in Seq(S) /\ Len(strobes) = (IF StrobeDue(m, ch) THEN 1 ELSE 0)
          /\ \A i \in 1 .. Len(strobes) : strobes[i] = z
      BY <3>1, OneOrNone
    <3> QED
      BY <3>2, <3>3, <3>4
  <2> HIDE DEF S, washes, pulses, strobes, k, l, n
  <2>10. /\ k \in Nat /\ k = Len(washes) /\ l \in Nat /\ l = Len(pulses)
         /\ n \in Nat /\ n = Len(strobes)
    BY <2>3 DEF k, l, n
  <2>4. /\ DOMAIN events = 1 .. k + l + n
        /\ \A i \in 1 .. k : events[i] = x
        /\ \A i \in 1 .. l : events[k + i] = y
        /\ \A i \in 1 .. n : events[k + l + i] = z
    <3>1. washes \in Seq(S) /\ pulses \in Seq(S) /\ strobes \in Seq(S)
      BY <2>3
    <3>2. /\ DOMAIN events = 1 .. k + l + n
          /\ \A i \in 1 .. k : events[i] = washes[i]
          /\ \A i \in 1 .. l : events[k + i] = pulses[i]
          /\ \A i \in 1 .. n : events[k + l + i] = strobes[i]
      BY <2>2, <2>10, <3>1, Chained, SMTT(30)
    <3> QED
      BY <2>3, <2>10, <3>2
  <2>5. k \in Nat /\ l = (IF PulseDue(m, ch) THEN 1 ELSE 0) /\ n \in Nat
    BY <2>3, <2>10
  <2>6. \A i \in DOMAIN events : events[i].kind = "pulse" <=> i \in k + 1 .. k + l
    <3> SUFFICES ASSUME NEW i \in DOMAIN events
                 PROVE  events[i].kind = "pulse" <=> i \in k + 1 .. k + l
      OBVIOUS
    <3>1. CASE i \in 1 .. k
      BY <2>1, <2>4, <2>5, <3>1
    <3>2. CASE i \in k + 1 .. k + l
      <4>1. i - k \in 1 .. l /\ k + (i - k) = i
        BY <2>5, <3>2
      <4> QED
        BY <2>1, <2>4, <3>2, <4>1
    <3>3. CASE i \in k + l + 1 .. k + l + n
      <4>1. i - (k + l) \in 1 .. n /\ k + l + (i - (k + l)) = i
            /\ i \notin k + 1 .. k + l
        BY <2>5, <3>3
      <4> QED
        BY <2>1, <2>4, <4>1
    <3> QED
      BY <2>4, <2>5, <3>1, <3>2, <3>3
  <2>7. EventsOf(events, "pulse") = k + 1 .. k + l
    <3>1. \A i \in k + 1 .. k + l : i \in DOMAIN events
      BY <2>4, <2>5
    <3> QED
      BY <2>6, <3>1 DEF EventsOf
  <2>8. CASE PulseDue(m, ch)
    <3>1. EventsOf(events, "pulse") = {k + 1}
      BY <2>5, <2>7, <2>8
    <3> QED
      BY <2>8, <3>1, FS_Singleton DEF Pulses, events
  <2>9. CASE ~PulseDue(m, ch)
    <3>1. EventsOf(events, "pulse") = {}
      BY <2>5, <2>7, <2>9
    <3> QED
      BY <2>9, <3>1, FS_EmptySet DEF Pulses, events
  <2> QED
    BY <2>8, <2>9
<1> QED
  BY <1>1, <1>2, <1>3

\* It fires only if it was armed and the trigger is up, and is not armed then.
LEMMA FiresOnce ==
    ASSUME NEW m, m.armed \in BOOLEAN, "armed" \in DOMAIN m, NEW units \in Nat, NEW byte
    PROVE  LET step == Processed(Aged(m, units), LookOf(byte))
           IN  /\ step.m.armed \in BOOLEAN /\ "armed" \in DOMAIN step.m
               /\ Pulses(step.events) \in {0, 1}
               /\ Pulses(step.events) = 1 => m.armed /\ Triggered(byte)
               /\ Triggered(byte) => ~step.m.armed
<1> DEFINE ch == LookOf(byte)
           a == Aged(m, units)
           c == LeftRaw(a)
<1>1. a.armed = m.armed /\ "armed" \in DOMAIN a
  BY DEF Aged
<1>2. c.armed = m.armed /\ "armed" \in DOMAIN c
  BY <1>1 DEF LeftRaw
<1>3. Triggered(byte) <=> ch.trigger >= Threshold
  BY DEF Triggered
<1>4. ch.trigger \in 0 .. 255
  BY BridgeAssumption DEF LookOf
<1> HIDE DEF a, c, ch
<1>5. CASE ch.raw_enable >= Threshold
  <2>1. Processed(a, ch) = RawStep(a, ch)
    BY <1>5 DEF Processed
  <2>2. ~RawStep(a, ch).m.armed /\ RawStep(a, ch).m.armed \in BOOLEAN
        /\ "armed" \in DOMAIN RawStep(a, ch).m
    BY <1>1 DEF RawStep
  <2>3. Pulses(RawStep(a, ch).events) = 0
    BY PulsesCounted
  <2> QED
    BY <2>1, <2>2, <2>3 DEF a, ch
<1>6. CASE ~(ch.raw_enable >= Threshold)
  <2>1. Processed(a, ch) = FxStep(c, ch)
    BY <1>6 DEF Processed, c
  <2>2. FxStep(c, ch).m.armed = ArmedAfter(c, ch) /\ "armed" \in DOMAIN FxStep(c, ch).m
    BY <1>2 DEF FxStep
  <2>3. Pulses(FxStep(c, ch).events) = IF PulseDue(c, ch) THEN 1 ELSE 0
    BY PulsesCounted
  <2>4. /\ ArmedAfter(c, ch) \in BOOLEAN
        /\ PulseDue(c, ch) => m.armed /\ Triggered(byte)
        /\ Triggered(byte) => ~ArmedAfter(c, ch)
    BY <1>2, <1>3, <1>4 DEF ArmedAfter, PulseDue, Armed, Threshold
  <2> QED
    BY <2>1, <2>2, <2>3, <2>4 DEF a, ch
<1> QED
  BY <1>5, <1>6

LEMMA RepaidFired ==
    ASSUME NEW owed \in Int, NEW armed \in BOOLEAN, NEW shown, NEW n \in Nat, NEW show,
           NEW e \in 0 .. n, Repaid(owed, armed, shown, n, show, e),
           NEW fired \in {0, 1}, fired = 1 => armed /\ Triggered(show[e]),
           NEW after \in BOOLEAN, Triggered(show[e]) => ~after
    PROVE  Repaid(owed - fired, after, shown, n, show, e)
<1>1. PICK w \in [0 .. n -> Nat] :
         /\ \A i \in 1 .. n : w[i - 1] >= w[i] + Rise(show[i - 1], show[i])
         /\ w[n] >= Rise(show[n], shown)
         /\ owed >= w[e] + (IF armed /\ Triggered(show[e]) THEN 1 ELSE 0)
  BY DEF Repaid
<1>2. w[e] \in Nat
  OBVIOUS
<1>3. owed - fired >= w[e] + (IF after /\ Triggered(show[e]) THEN 1 ELSE 0)
  BY <1>1, <1>2
<1> QED
  BY <1>1, <1>3 DEF Repaid

-----------------------------------------------------------------------------
(* The line: what the console has written in a session, frame by frame.     *)

\* Frame i shows the universe show[_][i], or it is cue nums[i].
ShowsUniverse(f, nums, show, i) ==
    /\ f[2] = LabelSendDmx /\ Len(f) = Len(FirstUniverse) + 6
    /\ \A b \in Blocks : f[5 + b] = show[b][i]
    /\ nums[i] = nums[i - 1]

IsCue(f, nums, show, i) ==
    /\ f[2] = LabelEspNow /\ Len(f) = 7 /\ f[5] = Magic /\ f[6] = nums[i]
    /\ nums[i] = nums[i - 1] + 1
    /\ \A b \in Blocks : show[b][i] = show[b][i - 1]

\* n frames, the i-th of them up to byte off[i] of the stream.
Written(n, frame, off, nums, show) ==
    /\ n \in Nat
    /\ frame \in [1 .. n -> Seq(Nat)] /\ off \in [0 .. n -> Nat] /\ nums \in [0 .. n -> Nat]
    /\ show \in [Blocks -> [0 .. n -> Nat]]
    /\ \A i \in 1 .. n : /\ Framed(frame[i]) /\ off[i] = off[i - 1] + Len(frame[i])
                         /\ \/ ShowsUniverse(frame[i], nums, show, i)
                            \/ IsCue(frame[i], nums, show, i)
    /\ \A i \in 0 .. n : off[i] <= off[n]

\* What is in the buffer are the bytes after the first `at'.
Holds(bytes, n, frame, off, at) ==
    /\ bytes \in Seq(Nat) /\ at \in Nat /\ off[n] = at + Len(bytes)
    /\ \A i \in 1 .. n : \A j \in 1 .. Len(frame[i]) :
          off[i - 1] + j > at => bytes[off[i - 1] + j - at] = frame[i][j]

\* The parser has taken `cur' frames and the first bytes of the next: those of
\* a universe are in its buffer already, those of a cue have spoilt it.
Begun(n, frame, cur, eaten, label) == cur < n /\ frame[cur + 1][2] = label /\ eaten >= 5

Reached(b, n, frame, cur, eaten) ==
    IF Begun(n, frame, cur, eaten, LabelSendDmx) /\ eaten >= 5 + b THEN cur + 1 ELSE cur

Heard(p, n, frame, show, cur, eaten) ==
    /\ cur \in 0 .. n /\ eaten \in Nat
    /\ cur < n => eaten < Len(frame[cur + 1]) /\ At(p, frame[cur + 1], eaten)
    /\ cur = n => eaten = 0 /\ p.state = "WaitStart"
    /\ p.last_label = LabelSendDmx /\ ~Begun(n, frame, cur, eaten, LabelEspNow) =>
          \A b \in Blocks : p.buf[b + 1] = show[b][Reached(b, n, frame, cur, eaten)]

\* A block is a place in the payload, behind the start code.
LEMMA BlocksFit ==
    /\ Len(FirstUniverse) \in Nat /\ Len(FirstUniverse) < PayloadBufSize
    /\ Len(FirstUniverse) >= 1 /\ PayloadBufSize \in Nat
    /\ \A b \in Blocks : b \in Nat /\ b >= 1 /\ b <= Len(FirstUniverse)
                         /\ b + 1 \in 1 .. PayloadBufSize
<1> DEFINE len == Len(FirstUniverse)
<1>1. len \in 1 .. MaxChannels /\ MaxChannels \in Nat /\ MaxChannels < PayloadBufSize
      /\ PayloadBufSize \in Nat
  <2>1. len \in 1 .. MaxChannels
    BY BridgeAssumption
  <2>2. PayloadBufSize \in Nat
    BY ParserAssumption
  <2> QED
    BY <2>1, <2>2, EthernetAssumption
<1>2. Blocks = 1 .. len
  BY DEF Blocks
<1> HIDE DEF len
<1>3. len \in Nat /\ len < PayloadBufSize /\ len >= 1
      /\ \A b \in Blocks : b \in Nat /\ b >= 1 /\ b <= len /\ b + 1 \in 1 .. PayloadBufSize
  BY <1>1, <1>2
<1> QED
  BY <1>1, <1>3 DEF len

\* The parser takes the next byte of the stream.
LEMMA ByteHeard ==
    ASSUME NEW n, NEW frame, NEW off, NEW nums, NEW show, Written(n, frame, off, nums, show),
           NEW p, Bounded(p), NEW cur, NEW eaten, Heard(p, n, frame, show, cur, eaten), cur < n,
           eaten + 1 < Len(frame[cur + 1])
    PROVE  LET byte == frame[cur + 1][eaten + 1]
           IN  /\ ~Completes(p, byte)
               /\ Heard(Fed(p, byte), n, frame, show, cur, eaten + 1)
<1> DEFINE f == frame[cur + 1]
           byte == f[eaten + 1]
           q == Fed(p, byte)
<1>0. /\ n \in Nat /\ cur \in 0 .. n - 1 /\ cur + 1 \in 1 .. n /\ (cur + 1) - 1 = cur
      /\ eaten \in Nat /\ cur # n
  <2>1. n \in Nat
    BY DEF Written
  <2>2. cur \in 0 .. n /\ eaten \in Nat
    BY DEF Heard
  <2> QED
    BY <2>1, <2>2
<1>1. /\ Framed(f)
      /\ ShowsUniverse(f, nums, show, cur + 1) \/ IsCue(f, nums, show, cur + 1)
  BY <1>0 DEF Written
<1>2. At(p, f, eaten)
  BY <1>0 DEF Heard
<1>3. Len(f) \in Nat /\ eaten \in 0 .. Len(f) - 2 /\ Len(f) >= 6
  <2>1. Len(f) \in 6 .. PayloadBufSize + 5 /\ PayloadBufSize \in Nat
    BY <1>1, ParserAssumption DEF Framed
  <2>2. eaten + 1 < Len(f)
    OBVIOUS
  <2> DEFINE len == Len(f)
  <2> HIDE DEF len
  <2>3. len \in 6 .. PayloadBufSize + 5 /\ eaten + 1 < len
    BY <2>1, <2>2 DEF len
  <2>4. len \in Nat /\ eaten \in 0 .. len - 2 /\ len >= 6
    BY <1>0, <2>1, <2>3
  <2> QED
    BY SMTT(30), <2>4 DEF len
<1>4. /\ At(q, f, eaten + 1) /\ ~Completes(p, byte)
      /\ q.last_label = p.last_label
      /\ \A i \in 1 .. PayloadBufSize : i # eaten - 3 => q.buf[i] = p.buf[i]
  BY <1>1, <1>2, <1>3, ByteTaken
<1> HIDE DEF f, byte, q
<1>5. ASSUME q.last_label = LabelSendDmx, ~Begun(n, frame, cur, eaten + 1, LabelEspNow),
             NEW b \in Blocks
      PROVE  q.buf[b + 1] = show[b][Reached(b, n, frame, cur, eaten + 1)]
  <2>0. b \in Nat /\ b >= 1 /\ b + 1 \in 1 .. PayloadBufSize /\ b <= Len(FirstUniverse)
    BY BlocksFit
  <2>1. ~Begun(n, frame, cur, eaten, LabelEspNow)
    BY <1>0, <1>5 DEF Begun
  <2>2. p.buf[b + 1] = show[b][Reached(b, n, frame, cur, eaten)]
    BY <1>4, <1>5, <2>1 DEF Heard
  <2>3. CASE ShowsUniverse(f, nums, show, cur + 1)
    <3>1. f[2] = LabelSendDmx /\ f[5 + b] = show[b][cur + 1]
      BY <2>3 DEF ShowsUniverse
    <3>2. CASE eaten + 1 >= 5 + b
      <4>1. Reached(b, n, frame, cur, eaten + 1) = cur + 1
        BY <1>0, <2>0, <3>1, <3>2 DEF Reached, Begun, f
      <4>2. 5 + b \in 5 .. eaten + 1 /\ (5 + b) - 4 = b + 1
        BY <1>0, <2>0, <3>2
      <4>3. q.buf[(5 + b) - 4] = f[5 + b]
        BY <1>4, <4>2 DEF At
      <4> QED
        BY <3>1, <4>1, <4>2, <4>3
    <3>3. CASE ~(eaten + 1 >= 5 + b)
      <4>1. b + 1 # eaten - 3 /\ ~(eaten >= 5 + b)
        BY <1>0, <2>0, <3>3
      <4>2. /\ Reached(b, n, frame, cur, eaten + 1) = cur
            /\ Reached(b, n, frame, cur, eaten) = cur
        BY <3>3, <4>1 DEF Reached
      <4> QED
        BY <1>4, <2>0, <2>2, <4>1, <4>2
    <3> QED
      BY <3>2, <3>3
  <2>4. CASE IsCue(f, nums, show, cur + 1)
    <3>1. f[2] = LabelEspNow /\ f[2] # LabelSendDmx
      BY <2>4 DEF IsCue, LabelEspNow, LabelSendDmx
    <3>2. ~(eaten + 1 >= 5)
      BY <1>0, <1>5, <3>1 DEF Begun, f
    <3>3. b + 1 # eaten - 3
      BY <1>0, <2>0, <3>2
    <3>4. /\ Reached(b, n, frame, cur, eaten + 1) = cur
          /\ Reached(b, n, frame, cur, eaten) = cur
      BY <3>1 DEF Reached, Begun, f
    <3> QED
      BY <1>4, <2>0, <2>2, <3>3, <3>4
  <2> QED
    BY <1>1, <2>3, <2>4
<1>6. eaten + 1 < Len(f)
  BY DEF f
<1> QED
  BY <1>0, <1>4, <1>5, <1>6 DEF Heard, f, byte, q

\* The byte ends a frame.
LEMMA FrameHeard ==
    ASSUME NEW n, NEW frame, NEW off, NEW nums, NEW show, Written(n, frame, off, nums, show),
           NEW p, Bounded(p), NEW cur, NEW eaten, Heard(p, n, frame, show, cur, eaten), cur < n,
           eaten + 1 = Len(frame[cur + 1])
    PROVE  LET byte == frame[cur + 1][eaten + 1]
               q == Fed(p, byte)
           IN  /\ Completes(p, byte)
               /\ Heard(q, n, frame, show, cur + 1, 0)
               /\ \/ /\ Handed(q) = <<>> /\ nums[cur + 1] = nums[cur]
                     /\ \A b \in Blocks : Reached(b, n, frame, cur, eaten) = cur + 1
                  \/ /\ Handed(q) = <<nums[cur + 1]>> /\ nums[cur + 1] = nums[cur] + 1
                     /\ \A b \in Blocks : Reached(b, n, frame, cur, eaten) = cur
<1> DEFINE f == frame[cur + 1]
           byte == f[eaten + 1]
           q == Fed(p, byte)
<1>0. /\ n \in Nat /\ cur \in 0 .. n - 1 /\ cur + 1 \in 1 .. n /\ (cur + 1) - 1 = cur
      /\ eaten \in Nat /\ cur # n
  <2>1. n \in Nat
    BY DEF Written
  <2>2. cur \in 0 .. n /\ eaten \in Nat
    BY DEF Heard
  <2> QED
    BY <2>1, <2>2
<1>1. /\ Framed(f)
      /\ ShowsUniverse(f, nums, show, cur + 1) \/ IsCue(f, nums, show, cur + 1)
  BY <1>0 DEF Written
<1>2. At(p, f, eaten) /\ Len(f) = eaten + 1 /\ Len(f) - 1 = eaten
  BY <1>0 DEF Heard
<1>3. /\ q.state = "WaitStart" /\ Completes(p, byte)
      /\ q.last_label = f[2] /\ q.last_len = Len(f) - 5
      /\ \A j \in 5 .. eaten : q.buf[j - 4] = f[j]
  <2>1. At(p, f, Len(f) - 1) /\ byte = f[Len(f)]
    BY <1>2
  <2> HIDE DEF f
  <2>2. LET r == Fed(p, f[Len(f)])
        IN  /\ r.state = "WaitStart" /\ Completes(p, f[Len(f)])
            /\ r.last_label = f[2] /\ r.last_len = Len(f) - 5
            /\ \A j \in 5 .. Len(f) - 1 : r.buf[j - 4] = f[j]
    BY <1>1, <2>1, FrameTaken
  <2> QED
    BY <1>2, <2>1, <2>2
<1> HIDE DEF f, byte, q
<1>4. cur + 1 < n => Len(frame[(cur + 1) + 1]) > 0
  <2> SUFFICES ASSUME cur + 1 < n PROVE Len(frame[(cur + 1) + 1]) > 0
    OBVIOUS
  <2>1. (cur + 1) + 1 \in 1 .. n
    BY SMTT(30), <1>0
  <2>2. Len(frame[(cur + 1) + 1]) \in 6 .. PayloadBufSize + 5 /\ PayloadBufSize \in Nat
    <3>1. Framed(frame[(cur + 1) + 1])
      BY <2>1 DEF Written
    <3> QED
      BY <3>1, ParserAssumption DEF Framed
  <2> QED
    BY <2>2
<1>5. At(q, frame[(cur + 1) + 1], 0)
  BY <1>3 DEF At
<1>6. CASE ShowsUniverse(f, nums, show, cur + 1)
  <2>1. /\ f[2] = LabelSendDmx /\ nums[cur + 1] = nums[cur]
        /\ eaten = Len(FirstUniverse) + 5 /\ \A b \in Blocks : f[5 + b] = show[b][cur + 1]
    BY <1>0, <1>2, <1>6, BlocksFit DEF ShowsUniverse
  <2>2. \A b \in Blocks : 5 + b \in 5 .. eaten /\ (5 + b) - 4 = b + 1 /\ eaten >= 5 + b
    BY <2>1, BlocksFit
  <2>3. \A b \in Blocks : q.buf[b + 1] = show[b][cur + 1]
    BY <1>3, <2>1, <2>2
  <2>4. \A b \in Blocks : Reached(b, n, frame, cur, eaten) = cur + 1
    BY <2>1, <2>2, BlocksFit DEF Reached, Begun, f
  <2>5. \A b \in Blocks : Reached(b, n, frame, cur + 1, 0) = cur + 1
    BY DEF Reached, Begun
  <2>6. Heard(q, n, frame, show, cur + 1, 0)
    BY <1>0, <1>3, <1>4, <1>5, <2>3, <2>5 DEF Heard
  <2>7. Handed(q) = <<>>
    BY <1>3, <2>1 DEF Handed, LabelSendDmx, LabelEspNow
  <2> QED
    BY <1>3, <2>1, <2>4, <2>6, <2>7 DEF f, byte, q
<1>7. CASE IsCue(f, nums, show, cur + 1)
  <2>1. /\ f[2] = LabelEspNow /\ nums[cur + 1] = nums[cur] + 1 /\ f[6] = nums[cur + 1]
        /\ eaten = 6
    <3>1. /\ f[2] = LabelEspNow /\ Len(f) = 7 /\ f[6] = nums[cur + 1]
          /\ nums[cur + 1] = nums[(cur + 1) - 1] + 1
      BY <1>7 DEF IsCue
    <3> DEFINE len == Len(f)
    <3>2. len = eaten + 1 /\ len = 7
      BY <1>2, <3>1
    <3> HIDE DEF len
    <3>3. eaten = 6
      BY <1>0, <3>2
    <3> QED
      BY <1>0, <3>1, <3>3
  <2>2. q.last_label # LabelSendDmx /\ q.last_label = LabelEspNow
    BY <1>3, <2>1 DEF LabelSendDmx, LabelEspNow
  <2>3. q.buf[2] = nums[cur + 1]
    <3>1. 6 \in 5 .. eaten /\ 6 - 4 = 2
      BY <2>1
    <3> QED
      BY <1>3, <2>1, <3>1
  <2>4. \A b \in Blocks : Reached(b, n, frame, cur, eaten) = cur
    BY <1>3, <2>1, <2>2 DEF Reached, Begun, f
  <2>5. Heard(q, n, frame, show, cur + 1, 0)
    BY <1>0, <1>3, <1>4, <1>5, <2>2 DEF Heard
  <2>6. Handed(q) = <<nums[cur + 1]>>
    BY <2>2, <2>3 DEF Handed, LastWasDmxPacket
  <2> QED
    BY <1>3, <2>1, <2>4, <2>5, <2>6 DEF f, byte, q
<1> QED
  BY <1>1, <1>6, <1>7

LEMMA FramedIsLong ==
    ASSUME NEW f, Framed(f)
    PROVE  Len(f) \in Nat /\ Len(f) > 0
<1> DEFINE len == Len(f)
<1>1. len \in 6 .. PayloadBufSize + 5 /\ len \in Nat
  BY SMTT(30) DEF Framed
<1>2. PayloadBufSize \in Nat
  BY ParserAssumption
<1> HIDE DEF len
<1>3. len > 0
  BY <1>1, <1>2
<1> QED
  BY <1>1, <1>3 DEF len

LEMMA PlaceHeld ==
    ASSUME NEW before \in Nat, NEW j \in Nat, NEW len \in Nat, NEW last \in Nat, NEW at \in Nat,
           NEW held \in Nat, j <= len, before + len <= last, last = at + held, before + j > at
    PROVE  before + j - at \in 1 .. held
OBVIOUS

\* The next byte of the line is the next byte of the frame.
LEMMA NextByte ==
    ASSUME NEW n, NEW frame, NEW off, NEW nums, NEW show, Written(n, frame, off, nums, show),
           NEW p, NEW cur, NEW eaten, Heard(p, n, frame, show, cur, eaten),
           NEW bytes, Holds(bytes, n, frame, off, off[cur] + eaten)
    PROVE  IF bytes = <<>> THEN cur = n
           ELSE /\ cur < n /\ eaten < Len(frame[cur + 1])
                /\ Head(bytes) = frame[cur + 1][eaten + 1]
                /\ Holds(Tail(bytes), n, frame, off, off[cur] + (eaten + 1))
<1>1. /\ n \in Nat /\ off \in [0 .. n -> Nat] /\ cur \in 0 .. n /\ eaten \in Nat
      /\ cur < n => eaten < Len(frame[cur + 1])
      /\ cur = n => eaten = 0
  BY DEF Written, Heard
<1>2. off[cur] \in Nat /\ off[n] \in Nat /\ off[cur] + eaten \in Nat
  BY <1>1
<1>3. bytes \in Seq(Nat) /\ Len(bytes) \in Nat /\ off[n] = off[cur] + eaten + Len(bytes)
  BY DEF Holds
<1>4. CASE bytes = <<>>
  <2>1. Len(bytes) = 0
    BY <1>4
  <2>2. SUFFICES ASSUME cur < n PROVE FALSE
    BY <1>1, <1>4
  <2>3. cur + 1 \in 1 .. n /\ cur + 1 \in 0 .. n /\ (cur + 1) - 1 = cur
    BY <1>1, <2>2
  <2>4. /\ off[cur + 1] = off[cur] + Len(frame[cur + 1]) /\ off[cur + 1] <= off[n]
        /\ frame[cur + 1] \in Seq(Nat)
    BY <2>3 DEF Written
  <2>5. Len(frame[cur + 1]) \in Nat
    BY <2>4
  <2> QED
    BY <1>1, <1>2, <1>3, <2>1, <2>2, <2>4, <2>5
<1>5. CASE bytes # <<>>
  <2>1. Len(bytes) >= 1 /\ Head(bytes) = bytes[1] /\ Tail(bytes) \in Seq(Nat)
        /\ Len(Tail(bytes)) = Len(bytes) - 1
        /\ \A i \in 1 .. Len(bytes) - 1 : Tail(bytes)[i] = bytes[i + 1]
    BY <1>3, <1>5
  <2>2. cur < n
    <3>1. cur # n
      BY <1>1, <1>2, <1>3, <2>1
    <3> QED
      BY <1>1, <3>1
  <2>3. /\ cur + 1 \in 1 .. n /\ (cur + 1) - 1 = cur /\ frame[cur + 1] \in Seq(Nat)
        /\ eaten < Len(frame[cur + 1])
    BY <1>1, <2>2 DEF Written
  <2>4. eaten + 1 \in 1 .. Len(frame[cur + 1])
    BY <1>1, <2>3
  <2> DEFINE at == off[cur] + eaten
  <2>5. at \in Nat /\ off[cur] + (eaten + 1) = at + 1
    BY <1>1, <1>2
  <2>6. Head(bytes) = frame[cur + 1][eaten + 1]
    <3>1. /\ off[(cur + 1) - 1] + (eaten + 1) > at
          /\ off[(cur + 1) - 1] + (eaten + 1) - at = 1
      BY <1>1, <1>2, <2>3
    <3>2. bytes[off[(cur + 1) - 1] + (eaten + 1) - at] = frame[cur + 1][eaten + 1]
      BY <2>3, <2>4, <3>1 DEF Holds
    <3> QED
      BY <2>1, <3>1, <3>2
  <2>7. Holds(Tail(bytes), n, frame, off, at + 1)
    <3>1. off[n] = (at + 1) + Len(Tail(bytes))
      BY <1>2, <1>3, <2>1, <2>5
    <3>2. ASSUME NEW i \in 1 .. n, NEW j \in 1 .. Len(frame[i]), off[i - 1] + j > at + 1
          PROVE  Tail(bytes)[off[i - 1] + j - (at + 1)] = frame[i][j]
      <4>1. /\ i - 1 \in 0 .. n /\ i \in 0 .. n /\ off[i - 1] \in Nat /\ off[i] \in Nat
            /\ frame[i] \in Seq(Nat) /\ off[i] = off[i - 1] + Len(frame[i])
            /\ off[i] <= off[n]
        BY <1>1 DEF Written
      <4>2. j \in Nat /\ Len(frame[i]) \in Nat /\ j <= Len(frame[i])
        BY <4>1
      <4> DEFINE k == off[i - 1] + j - (at + 1)
      <4>6. k \in 1 .. Len(bytes) - 1
        <5>1. off[n] = (at + 1) + (Len(bytes) - 1) /\ at + 1 \in Nat /\ Len(bytes) - 1 \in Nat
          BY <1>2, <1>3, <2>1, <2>5
        <5>2. off[i - 1] + Len(frame[i]) <= off[n]
          BY <4>1
        <5> QED
          BY <1>2, <3>2, <4>1, <4>2, <5>1, <5>2, PlaceHeld
      <4>3. k \in 1 .. Len(bytes) - 1 /\ k + 1 = off[i - 1] + j - at /\ off[i - 1] + j > at
        <5> DEFINE o == off[i - 1]
        <5>1. o \in Nat /\ o + j > at + 1
          BY <3>2, <4>1
        <5> HIDE DEF o, at
        <5>2. (o + j - (at + 1)) + 1 = o + j - at /\ o + j > at
          BY <2>5, <4>2, <5>1
        <5> QED
          BY <4>6, <5>2 DEF o
      <4>4. bytes[off[i - 1] + j - at] = frame[i][j]
        BY <4>3 DEF Holds
      <4> HIDE DEF k
      <4>5. Tail(bytes)[k] = frame[i][j]
        BY <2>1, <4>3, <4>4
      <4> QED
        BY <4>5 DEF k
    <3> DEFINE tail == Tail(bytes)
    <3>3. tail \in Seq(Nat) /\ at + 1 \in Nat /\ off[n] = (at + 1) + Len(tail)
      BY <2>1, <2>5, <3>1
    <3>4. \A i \in 1 .. n : \A j \in 1 .. Len(frame[i]) :
             off[i - 1] + j > at + 1 => tail[off[i - 1] + j - (at + 1)] = frame[i][j]
      BY <3>2
    <3> HIDE DEF at, tail
    <3>5. Holds(tail, n, frame, off, at + 1)
      BY <3>3, <3>4, Zenon DEF Holds
    <3> QED
      BY <3>5 DEF tail
  <2> QED
    BY <1>5, <2>2, <2>3, <2>5, <2>6, <2>7
<1> QED
  BY <1>4, <1>5

\* One frame more on the line.
Further(g, first, n, x) == [i \in first .. n + 1 |-> IF i = n + 1 THEN x ELSE g[i]]
ShowFurther(show, n, shown) == [b \in Blocks |-> Further(show[b], 0, n, shown[b])]

\* All of one sequence, and then all of another.
Appended(all, bytes, f) ==
    /\ all \in Seq(Nat) /\ Len(all) = Len(bytes) + Len(f)
    /\ \A i \in 1 .. Len(bytes) : all[i] = bytes[i]
    /\ \A i \in 1 .. Len(f) : all[Len(bytes) + i] = f[i]

LEMMA AppendedIs ==
    ASSUME NEW bytes \in Seq(Nat), NEW f \in Seq(Nat), NEW all, all = bytes \o f
    PROVE  Appended(all, bytes, f)
BY DEF Appended

\* The stream, and a frame that may come next.
Streaming(p, bytes, n, frame, off, nums, show, cur, eaten) ==
    /\ Written(n, frame, off, nums, show) /\ Heard(p, n, frame, show, cur, eaten)
    /\ Holds(bytes, n, frame, off, off[cur] + eaten)

NextFrame(f, n, nums, show, num, shown) ==
    /\ f \in Seq(Nat) /\ Framed(f) /\ num \in Nat /\ shown \in [Blocks -> Nat]
    /\ \/ ShowsUniverse(f, Further(nums, 0, n, num), ShowFurther(show, n, shown), n + 1)
       \/ IsCue(f, Further(nums, 0, n, num), ShowFurther(show, n, shown), n + 1)

LEMMA FrameWritten ==
    ASSUME NEW p, NEW bytes, NEW n, NEW frame, NEW off, NEW nums, NEW show, NEW cur, NEW eaten,
           Streaming(p, bytes, n, frame, off, nums, show, cur, eaten),
           NEW f, NEW num, NEW shown, NextFrame(f, n, nums, show, num, shown),
           NEW all, Appended(all, bytes, f)
    PROVE  LET frame_ == Further(frame, 1, n, f)
               off_ == Further(off, 0, n, off[n] + Len(f))
               show_ == ShowFurther(show, n, shown)
           IN  /\ Streaming(p, all, n + 1, frame_, off_, Further(nums, 0, n, num), show_,
                            cur, eaten)
               /\ \A b \in Blocks : Reached(b, n + 1, frame_, cur, eaten)
                                      = Reached(b, n, frame, cur, eaten)
<1> USE DEF Streaming, NextFrame
<1> DEFINE frame_ == Further(frame, 1, n, f)
           off_ == Further(off, 0, n, off[n] + Len(f))
           nums_ == Further(nums, 0, n, num)
           show_ == ShowFurther(show, n, shown)
<1>0. /\ n \in Nat /\ off \in [0 .. n -> Nat] /\ cur \in 0 .. n /\ eaten \in Nat
      /\ frame \in [1 .. n -> Seq(Nat)] /\ nums \in [0 .. n -> Nat]
      /\ show \in [Blocks -> [0 .. n -> Nat]]
      /\ Len(f) \in Nat /\ Len(f) > 0 /\ off[n] \in Nat
  <2>1. /\ n \in Nat /\ off \in [0 .. n -> Nat] /\ cur \in 0 .. n /\ eaten \in Nat
        /\ frame \in [1 .. n -> Seq(Nat)] /\ nums \in [0 .. n -> Nat]
        /\ show \in [Blocks -> [0 .. n -> Nat]]
    BY DEF Written, Heard
  <2>2. Len(f) \in Nat /\ Len(f) > 0
    BY FramedIsLong
  <2>3. off[n] \in Nat
    BY <2>1
  <2> QED
    BY <2>1, <2>2, <2>3
<1>1. /\ frame_ \in [1 .. n + 1 -> Seq(Nat)] /\ off_ \in [0 .. n + 1 -> Nat]
      /\ nums_ \in [0 .. n + 1 -> Nat]
      /\ frame_[n + 1] = f /\ off_[n + 1] = off[n] + Len(f)
      /\ \A i \in 1 .. n : frame_[i] = frame[i]
      /\ \A i \in 0 .. n : off_[i] = off[i] /\ nums_[i] = nums[i]
  <2> DEFINE Frames == Seq(Nat)
             Numbers == Nat
             last == off[n] + Len(f)
  <2>1. /\ n \in Nat /\ frame \in [1 .. n -> Frames] /\ f \in Frames
        /\ off \in [0 .. n -> Numbers] /\ nums \in [0 .. n -> Numbers]
        /\ last \in Numbers /\ num \in Numbers
    BY <1>0
  <2> HIDE DEF Frames, Numbers, last
  <2>2. /\ Further(frame, 1, n, f) \in [1 .. n + 1 -> Frames]
        /\ Further(frame, 1, n, f)[n + 1] = f
        /\ \A i \in 1 .. n : Further(frame, 1, n, f)[i] = frame[i]
    BY <2>1 DEF Further
  <2>3. /\ Further(off, 0, n, last) \in [0 .. n + 1 -> Numbers]
        /\ Further(off, 0, n, last)[n + 1] = last
        /\ \A i \in 0 .. n : Further(off, 0, n, last)[i] = off[i]
    BY <2>1 DEF Further
  <2>4. /\ Further(nums, 0, n, num) \in [0 .. n + 1 -> Numbers]
        /\ \A i \in 0 .. n : Further(nums, 0, n, num)[i] = nums[i]
    BY <2>1 DEF Further
  <2> QED
    BY <2>2, <2>3, <2>4 DEF Frames, Numbers, last
<1>2. /\ show_ \in [Blocks -> [0 .. n + 1 -> Nat]]
      /\ \A b \in Blocks : \A i \in 0 .. n : show_[b][i] = show[b][i]
  <2>1. ASSUME NEW b \in Blocks
        PROVE  /\ Further(show[b], 0, n, shown[b]) \in [0 .. n + 1 -> Nat]
               /\ \A i \in 0 .. n : Further(show[b], 0, n, shown[b])[i] = show[b][i]
    <3>1. show[b] \in [0 .. n -> Nat] /\ shown[b] \in Nat
      BY <1>0
    <3> QED
      BY SMTT(30), <1>0, <3>1 DEF Further
  <2> QED
    BY <2>1 DEF ShowFurther
<1>10. ShowsUniverse(f, nums_, show_, n + 1) \/ IsCue(f, nums_, show_, n + 1)
  OBVIOUS
<1> HIDE DEF frame_, off_, nums_, show_
<1>3. Written(n + 1, frame_, off_, nums_, show_)
  <2>1. ASSUME NEW i \in 1 .. n + 1
        PROVE  /\ Framed(frame_[i]) /\ off_[i] = off_[i - 1] + Len(frame_[i])
               /\ \/ ShowsUniverse(frame_[i], nums_, show_, i)
                  \/ IsCue(frame_[i], nums_, show_, i)
    <3>1. CASE i = n + 1
      <4>1. i - 1 = n /\ n \in 0 .. n
        BY <1>0, <3>1
      <4> QED
        BY <1>1, <1>10, <3>1, <4>1
    <3>2. CASE i \in 1 .. n
      <4>1. i \in 0 .. n /\ i - 1 \in 0 .. n
        BY <1>0, <3>2
      <4>2. /\ Framed(frame[i]) /\ off[i] = off[i - 1] + Len(frame[i])
            /\ \/ ShowsUniverse(frame[i], nums, show, i)
               \/ IsCue(frame[i], nums, show, i)
        BY <3>2 DEF Written
      <4>3. /\ frame_[i] = frame[i] /\ off_[i] = off[i] /\ off_[i - 1] = off[i - 1]
            /\ nums_[i] = nums[i] /\ nums_[i - 1] = nums[i - 1]
            /\ \A b \in Blocks : show_[b][i] = show[b][i] /\ show_[b][i - 1] = show[b][i - 1]
        BY <1>1, <1>2, <3>2, <4>1
      <4>4. CASE ShowsUniverse(frame[i], nums, show, i)
        BY <4>2, <4>3, <4>4 DEF ShowsUniverse
      <4>5. CASE IsCue(frame[i], nums, show, i)
        BY <4>2, <4>3, <4>5 DEF IsCue
      <4> QED
        BY <4>2, <4>4, <4>5
    <3> QED
      BY <1>0, <3>1, <3>2
  <2>2. ASSUME NEW i \in 0 .. n + 1
        PROVE  off_[i] <= off_[n + 1]
    <3>1. CASE i \in 0 .. n
      <4>1. off[i] <= off[n] /\ off[i] \in Nat
        BY <1>0, <3>1 DEF Written
      <4>2. off_[i] = off[i] /\ off_[n + 1] = off[n] + Len(f)
        BY <1>1, <3>1
      <4> DEFINE o == off[i]
                 last == off[n]
                 len == Len(f)
      <4>3. o \in Nat /\ last \in Nat /\ len \in Nat /\ o <= last
        BY <1>0, <4>1
      <4> HIDE DEF o, last, len
      <4>4. o <= last + len
        BY <4>3
      <4> QED
        BY <4>2, <4>4 DEF o, last, len
    <3>2. CASE i = n + 1
      BY <1>0, <1>1, <3>2
    <3> QED
      BY <1>0, <3>1, <3>2
  <2>3. n + 1 \in Nat
    BY <1>0
  <2> QED
    BY <1>1, <1>2, <2>1, <2>2, <2>3 DEF Written
<1>5. \A label : Begun(n + 1, frame_, cur, eaten, label) <=> Begun(n, frame, cur, eaten, label)
  <2>1. cur = n => eaten = 0
    BY DEF Heard
  <2>2. CASE cur < n
    <3>1. cur + 1 \in 1 .. n /\ cur < n + 1
      BY <1>0, <2>2
    <3>2. frame_[cur + 1] = frame[cur + 1]
      BY <1>1, <3>1
    <3> QED
      BY <2>2, <3>1, <3>2 DEF Begun
  <2>3. CASE cur = n
    BY <1>0, <2>1, <2>3 DEF Begun
  <2> QED
    BY <1>0, <2>2, <2>3
<1>6. \A b \in Blocks : Reached(b, n + 1, frame_, cur, eaten) = Reached(b, n, frame, cur, eaten)
  BY <1>5 DEF Reached
<1>7. Heard(p, n + 1, frame_, show_, cur, eaten)
  <2>1. cur < n + 1 /\ eaten < Len(frame_[cur + 1]) /\ At(p, frame_[cur + 1], eaten)
    <3>1. CASE cur < n
      <4>1. cur + 1 \in 1 .. n /\ cur < n + 1
        BY <1>0, <3>1
      <4>2. frame_[cur + 1] = frame[cur + 1]
        BY <1>1, <4>1
      <4>3. eaten < Len(frame[cur + 1]) /\ At(p, frame[cur + 1], eaten)
        BY <3>1 DEF Heard
      <4> QED
        BY <4>1, <4>2, <4>3
    <3>2. CASE cur = n
      <4>1. eaten = 0 /\ p.state = "WaitStart"
        BY <3>2 DEF Heard
      <4>2. frame_[cur + 1] = f
        BY <1>1, <3>2
      <4> QED
        BY <1>0, <3>2, <4>1, <4>2 DEF At
    <3> QED
      BY <1>0, <3>1, <3>2
  <2>2. ASSUME p.last_label = LabelSendDmx, ~Begun(n + 1, frame_, cur, eaten, LabelEspNow),
               NEW b \in Blocks
        PROVE  p.buf[b + 1] = show_[b][Reached(b, n + 1, frame_, cur, eaten)]
    <3>1. p.buf[b + 1] = show[b][Reached(b, n, frame, cur, eaten)]
      BY <1>5, <2>2 DEF Heard
    <3>2. Reached(b, n, frame, cur, eaten) \in 0 .. n
      BY <1>0 DEF Reached, Begun
    <3> QED
      BY <1>2, <1>6, <3>1, <3>2
  <2>3. cur \in 0 .. n + 1 /\ cur # n + 1
    BY <1>0
  <2> QED
    BY <1>0, <2>1, <2>2, <2>3 DEF Heard
<1>8. Holds(all, n + 1, frame_, off_, off_[cur] + eaten)
  <2> DEFINE at == off[cur] + eaten
  <2>1. at \in Nat /\ off_[cur] + eaten = at
    <3>1. off_[cur] = off[cur] /\ off[cur] \in Nat /\ eaten \in Nat
      BY <1>0, <1>1
    <3> QED
      BY <3>1
  <2>2. bytes \in Seq(Nat) /\ Len(bytes) \in Nat /\ off[n] = at + Len(bytes)
    BY DEF Holds
  <2>3. /\ all \in Seq(Nat) /\ Len(all) = Len(bytes) + Len(f)
        /\ \A i \in 1 .. Len(bytes) : all[i] = bytes[i]
        /\ \A i \in 1 .. Len(f) : all[Len(bytes) + i] = f[i]
    BY DEF Appended
  <2>4. off_[n + 1] = at + Len(all)
    BY <1>0, <1>1, <2>1, <2>2, <2>3
  <2>5. ASSUME NEW i \in 1 .. n + 1, NEW j \in 1 .. Len(frame_[i]), off_[i - 1] + j > at
        PROVE  all[off_[i - 1] + j - at] = frame_[i][j]
    <3>1. CASE i \in 1 .. n
      <4>1. /\ i - 1 \in 0 .. n /\ i \in 0 .. n
        BY <1>0, <3>1
      <4>2. /\ off[i - 1] \in Nat /\ off[i] \in Nat
            /\ frame[i] \in Seq(Nat) /\ off[i] = off[i - 1] + Len(frame[i])
            /\ off[i] <= off[n] /\ frame_[i] = frame[i] /\ off_[i - 1] = off[i - 1]
        BY <1>0, <1>1, <3>1, <4>1 DEF Written
      <4>3. j \in Nat /\ Len(frame[i]) \in Nat /\ j <= Len(frame[i]) /\ j \in 1 .. Len(frame[i])
        BY <4>2
      <4> DEFINE k == off[i - 1] + j - at
      <4>4. off[i - 1] + j > at
        BY <2>5, <4>2
      <4>5. k \in 1 .. Len(bytes)
        <5>1. off[i - 1] + Len(frame[i]) <= off[n]
          BY <4>2
        <5> QED
          BY <1>0, <2>1, <2>2, <4>2, <4>3, <4>4, <5>1, PlaceHeld
      <4>6. bytes[k] = frame[i][j]
        BY <3>1, <4>3, <4>4 DEF Holds
      <4> HIDE DEF k
      <4>7. all[k] = frame[i][j]
        BY <2>3, <4>5, <4>6
      <4> QED
        BY <4>2, <4>7 DEF k
    <3>2. CASE i = n + 1
      <4>1. i - 1 = n /\ off_[i - 1] = off[n] /\ frame_[i] = f /\ j \in 1 .. Len(f)
        <5>1. i - 1 = n /\ n \in 0 .. n
          BY <1>0, <3>2
        <5>2. off_[i - 1] = off[n] /\ frame_[i] = f
          BY <1>1, <3>2, <5>1
        <5> QED
          BY <5>1, <5>2
      <4>2. off_[i - 1] + j - at = Len(bytes) + j
        BY <1>0, <2>1, <2>2, <4>1
      <4> QED
        BY <2>3, <4>1, <4>2
    <3>3. i \in 1 .. n \/ i = n + 1
      BY <1>0
    <3> QED
      BY <3>1, <3>2, <3>3
  <2> HIDE DEF at
  <2>6. Holds(all, n + 1, frame_, off_, at)
    BY <2>1, <2>3, <2>4, <2>5 DEF Holds
  <2> QED
    BY <2>1, <2>6
<1> QED
  BY <1>3, <1>6, <1>7, <1>8 DEF frame_, off_, nums_, show_

\* The parser over a whole frame.
LEMMA FrameFed ==
    ASSUME NEW p, Bounded(p), p.state = "WaitStart", NEW f \in Seq(Nat), Framed(f)
    PROVE  LET q == FedAll(p, f)
           IN  /\ Bounded(q) /\ q.state = "WaitStart"
               /\ \A j \in 1 .. PayloadBufSize :
                     q.buf[j] = IF j <= Len(f) - 5 THEN f[j + 4] ELSE p.buf[j]
<1> DEFINE n == Len(f)
           After(g) == g = [i \in 0 .. n |->
               IF i = 0 THEN p ELSE CHOOSE q \in {Fed(r, f[i]) : r \in {g[i - 1]}} : TRUE]
           after == CHOOSE g : After(g)
           Good == {q \in Parsers : Bounded(q)}
<1>1. FedAll(p, f) = after[n]
  BY DEF FedAll
<1>2. n \in Nat /\ n > 0 /\ \A i \in 1 .. n : f[i] \in Nat /\ i - 1 \in 0 .. n /\ i \in 0 .. n
  <2>1. n \in Nat /\ \A i \in 1 .. n : f[i] \in Nat
    OBVIOUS
  <2>2. n > 0
    BY FramedIsLong
  <2> HIDE DEF n
  <2> QED
    BY <2>1, <2>2
<1>3. \A r, b : (CHOOSE q \in {Fed(x, b) : x \in {r}} : TRUE) = Fed(r, b)
  OBVIOUS
<1>4. p \in Good /\ \A q \in Good, b \in Nat : Fed(q, b) \in Good
  <2>1. \A q, b : Bounded(q) /\ b \in Nat => Bounded(Fed(q, b))
    BY FedIsBounded
  <2> QED
    BY <2>1 DEF Bounded
<1> HIDE DEF n, Good
<1>5. After(after)
  <2> DEFINE step == [i \in 1 .. n |-> [r \in Good |-> Fed(r, f[i])]]
  <2>1. step \in [1 .. n -> [Good -> Good]]
    BY <1>2, <1>4
  <2>2. \A i \in 1 .. n : \A r \in Good : step[i][r] = Fed(r, f[i])
    OBVIOUS
  <2> HIDE DEF step
  <2>3. PICK g \in [0 .. n -> Good] : Follows(g, n, p, step)
    BY <1>2, <1>4, <2>1, RecursionExists
  <2>4. \A i \in 1 .. n : g[i] = Fed(g[i - 1], f[i])
    BY <1>2, <2>2, <2>3 DEF Follows
  <2>5. After(g)
    BY <1>2, <1>3, <2>3, <2>4 DEF Follows
  <2> HIDE DEF After
  <2> QED
    BY <2>5
<1>6. after[0] = p /\ \A i \in 1 .. n : after[i] = Fed(after[i - 1], f[i])
  <2>1. after = [i \in 0 .. n |->
               IF i = 0 THEN p ELSE CHOOSE q \in {Fed(r, f[i]) : r \in {after[i - 1]}} : TRUE]
    BY <1>5
  <2> HIDE DEF after
  <2>2. after[0] = p
    BY <1>2, <2>1
  <2>3. ASSUME NEW i \in 1 .. n PROVE after[i] = Fed(after[i - 1], f[i])
    <3>1. after[i] = CHOOSE q \in {Fed(r, f[i]) : r \in {after[i - 1]}} : TRUE
      <4>1. i \in 0 .. n /\ i # 0
        BY <1>2
      <4> QED
        BY <2>1, <4>1
    <3> QED
      BY <1>3, <3>1
  <2> QED
    BY <2>2, <2>3
<1> HIDE DEF after
<1> DEFINE T == {i \in 0 .. n - 1 : /\ Bounded(after[i]) /\ At(after[i], f, i)
                                    /\ \A j \in 1 .. PayloadBufSize :
                                          j > i - 4 => after[i].buf[j] = p.buf[j]}
<1>7. 0 \in T
  BY <1>2, <1>6 DEF At
<1>8. ASSUME NEW i \in 1 .. n - 1, i - 1 \in T
      PROVE  i \in T
  <2> DEFINE k == i - 1
  <2>1. k \in 0 .. n - 2 /\ k + 1 = i /\ i \in 1 .. n /\ k \in Nat
    BY <1>2
  <2>2. Bounded(after[k]) /\ At(after[k], f, k) /\ after[i] = Fed(after[k], f[k + 1])
    BY <1>6, <1>8, <2>1
  <2>3. \A j \in 1 .. PayloadBufSize : j > k - 4 => after[k].buf[j] = p.buf[j]
    BY <1>8
  <2> HIDE DEF k
  <2>4. /\ At(after[i], f, i)
        /\ \A j \in 1 .. PayloadBufSize : j # k - 3 => after[i].buf[j] = after[k].buf[j]
    <3>1. k \in 0 .. Len(f) - 2
      BY <2>1 DEF n
    <3> DEFINE q == Fed(after[k], f[k + 1])
    <3>2. /\ At(q, f, k + 1)
          /\ \A j \in 1 .. PayloadBufSize : j # k - 3 => q.buf[j] = after[k].buf[j]
      BY <2>2, <3>1, ByteTaken
    <3> QED
      BY <2>1, <2>2, <3>2
  <2>5. Bounded(after[i])
    <3>1. f[k + 1] \in Nat
      BY <1>2, <2>1
    <3> QED
      BY <2>2, <3>1, FedIsBounded
  <2>6. \A j \in 1 .. PayloadBufSize : j > i - 4 => after[i].buf[j] = p.buf[j]
    <3> SUFFICES ASSUME NEW j \in 1 .. PayloadBufSize, j > i - 4
                 PROVE  after[i].buf[j] = p.buf[j]
      OBVIOUS
    <3>1. j # k - 3 /\ j > k - 4
      BY <2>1, BlocksFit
    <3> QED
      BY <2>3, <2>4, <3>1
  <2> QED
    BY <2>1, <2>4, <2>5, <2>6
<1> HIDE DEF T
<1>9. n - 1 \in T
  <2>1. n - 1 \in Nat
    BY <1>2
  <2> QED
    BY <1>7, <1>8, <2>1, IntervalInduction
<1> DEFINE p_ == after[n - 1]
<1>10. /\ Bounded(p_) /\ At(p_, f, Len(f) - 1) /\ after[n] = Fed(p_, f[Len(f)])
       /\ \A j \in 1 .. PayloadBufSize : j > n - 5 => p_.buf[j] = p.buf[j]
  <2>1. /\ Bounded(p_) /\ At(p_, f, n - 1)
        /\ \A j \in 1 .. PayloadBufSize : j > (n - 1) - 4 => p_.buf[j] = p.buf[j]
    BY <1>9 DEF T
  <2>2. after[n] = Fed(p_, f[n])
    <3>1. n \in 1 .. n
      BY <1>2
    <3> QED
      BY <1>6, <3>1
  <2>3. (n - 1) - 4 = n - 5
    BY <1>2
  <2> QED
    BY <2>1, <2>2, <2>3 DEF n
<1> HIDE DEF p_
<1> DEFINE q == Fed(p_, f[Len(f)])
<1>11. /\ q.state = "WaitStart" /\ q.buf = p_.buf
       /\ \A j \in 5 .. Len(f) - 1 : q.buf[j - 4] = f[j]
  <2>1. /\ Fed(p_, f[Len(f)]).state = "WaitStart" /\ Fed(p_, f[Len(f)]).buf = p_.buf
        /\ \A j \in 5 .. Len(f) - 1 : Fed(p_, f[Len(f)]).buf[j - 4] = f[j]
    <3>1. Bounded(p_) /\ Framed(f) /\ At(p_, f, Len(f) - 1)
      BY <1>10
    <3>2. LET r == Fed(p_, f[Len(f)])
           IN  /\ r.state = "WaitStart" /\ Completes(p_, f[Len(f)])
               /\ r.last_label = f[2] /\ r.last_len = Len(f) - 5
               /\ r.buf = p_.buf /\ \A j \in 5 .. Len(f) - 1 : r.buf[j - 4] = f[j]
      BY <3>1, FrameTaken
    <3> QED
      BY <3>2
  <2> QED
    BY <2>1
<1>12. Bounded(q)
  <2>1. f[Len(f)] \in Nat
    BY <1>2 DEF n
  <2> QED
    BY <1>10, <2>1, FedIsBounded
<1> HIDE DEF q
<1>13. ASSUME NEW j \in 1 .. PayloadBufSize
       PROVE  q.buf[j] = IF j <= n - 5 THEN f[j + 4] ELSE p.buf[j]
  <2>0. j \in Nat /\ j >= 1
    OBVIOUS
  <2>1. CASE j <= n - 5
    <3>1. j + 4 \in 5 .. n - 1 /\ (j + 4) - 4 = j
      BY <1>2, <2>0, <2>1
    <3>2. q.buf[(j + 4) - 4] = f[j + 4]
      BY <1>11, <3>1 DEF n
    <3> QED
      BY <2>1, <3>1, <3>2
  <2>2. CASE ~(j <= n - 5)
    <3>1. j > n - 5
      BY <1>2, <2>0, <2>2
    <3> QED
      BY <1>10, <1>11, <2>2, <3>1
  <2> QED
    BY <2>1, <2>2
<1> QED
  BY <1>1, <1>10, <1>11, <1>12, <1>13 DEF n, q

\* A packet of any length: the blocks it has channels for are overwritten.
LEMMA UniverseFed ==
    ASSUME NEW p, Bounded(p), p.state = "WaitStart", NEW channels \in Seq(Nat)
    PROVE  LET q == FeedUniverse(p, channels)
           IN  /\ Bounded(q) /\ q.state = "WaitStart"
               /\ \A b \in Blocks :
                     q.buf[b + 1] = IF b <= Len(channels) THEN channels[b] ELSE p.buf[b + 1]
<1> DEFINE len == Len(channels)
           k == IF len > MaxChannels THEN MaxChannels ELSE len
           u == SubSeq(channels, 1, k)
           f == Wrapped(u)
           q == FedAll(p, f)
<1>1. FeedUniverse(p, channels) = q
  BY SMTT(30) DEF FeedUniverse
<1>2. /\ len \in Nat /\ MaxChannels \in Nat /\ MaxChannels < PayloadBufSize
      /\ PayloadBufSize \in Nat
  BY EthernetAssumption, ParserAssumption
<1>3. k \in 0 .. len /\ k < PayloadBufSize /\ (len <= MaxChannels => k = len)
      /\ (len > MaxChannels => k = MaxChannels)
  <2> HIDE DEF len
  <2> QED
    BY <1>2
<1> HIDE DEF k
<1>4. u \in Seq(Nat) /\ Len(u) = k /\ \A b \in 1 .. k : u[b] = channels[b]
  BY <1>3
<1> HIDE DEF u
<1>5. UniverseFramed(f, u)
  BY <1>3, <1>4, WrapIsFramed
<1> HIDE DEF f
<1>6. /\ f \in Seq(Nat) /\ Framed(f) /\ Len(f) = k + 6
      /\ \A b \in 1 .. k : f[5 + b] = channels[b]
  BY <1>4, <1>5 DEF UniverseFramed, Framed
<1>7. /\ Bounded(q) /\ q.state = "WaitStart"
      /\ \A j \in 1 .. PayloadBufSize :
            q.buf[j] = IF j <= Len(f) - 5 THEN f[j + 4] ELSE p.buf[j]
  BY <1>6, FrameFed
<1> HIDE DEF q
<1>8. ASSUME NEW b \in Blocks
      PROVE  q.buf[b + 1] = IF b <= len THEN channels[b] ELSE p.buf[b + 1]
  <2>1. /\ b \in Nat /\ b >= 1 /\ b + 1 \in 1 .. PayloadBufSize /\ b <= MaxChannels
    <3>1. b <= Len(FirstUniverse) /\ Len(FirstUniverse) \in 1 .. MaxChannels
      BY BlocksFit, BridgeAssumption
    <3> QED
      BY <1>2, <3>1, BlocksFit
  <2>2. b <= len <=> b <= k
    <3> HIDE DEF len
    <3> QED
      BY <1>2, <1>3, <2>1
  <2>3. q.buf[b + 1] = IF b + 1 <= (k + 6) - 5 THEN f[(b + 1) + 4] ELSE p.buf[b + 1]
    BY <1>6, <1>7, <2>1
  <2>4. (b + 1 <= (k + 6) - 5 <=> b <= k) /\ (b + 1) + 4 = 5 + b
    BY <1>2, <1>3, <2>1
  <2>5. b <= k => f[5 + b] = channels[b]
    BY <1>2, <1>3, <1>6, <2>1
  <2> QED
    BY <2>2, <2>3, <2>4, <2>5
<1> QED
  BY <1>1, <1>7, <1>8

-----------------------------------------------------------------------------
(* A session over the line.                                                *)

\* The parser is `eaten' bytes into frame `cur' of n; as many cues were told as
\* the frames up to it hold, and each block can pay for the rises ahead of it.
Streamed(p, bytes, con, told, m, n, frame, off, nums, show, cur, eaten) ==
    /\ Streaming(p, bytes, n, frame, off, nums, show, cur, eaten)
    /\ nums[n] = con.cues /\ Len(told.cues) = nums[cur]
    /\ \A b \in Blocks : Repaid(told.owed[b], m[b].armed, con.universe[b], n, show[b],
                                Reached(b, n, frame, cur, eaten))

\* There are such frames.
UsbSession(p, bytes, con, told, m) ==
    \E n, frame, off, nums, show, cur, eaten :
       Streamed(p, bytes, con, told, m, n, frame, off, nums, show, cur, eaten)

InOrder(cues) == cues = [i \in DOMAIN cues |-> i]

\* What the other lemmas say of it, said once.
LEMMA StreamedTypes ==
    ASSUME NEW p, NEW bytes, NEW con, NEW told, NEW m, NEW n, NEW frame, NEW off, NEW nums,
           NEW show, NEW cur, NEW eaten,
           Streamed(p, bytes, con, told, m, n, frame, off, nums, show, cur, eaten)
    PROVE  /\ n \in Nat /\ cur \in 0 .. n /\ eaten \in Nat
           /\ show \in [Blocks -> [0 .. n -> Nat]] /\ nums \in [0 .. n -> Nat]
           /\ \A b \in Blocks : Reached(b, n, frame, cur, eaten) \in 0 .. n
<1>1. /\ n \in Nat /\ cur \in 0 .. n /\ eaten \in Nat
      /\ show \in [Blocks -> [0 .. n -> Nat]] /\ nums \in [0 .. n -> Nat]
  BY DEF Streamed, Streaming, Written, Heard
<1> QED
  BY <1>1 DEF Reached, Begun

LEMMA BytesAreNumbers ==
    ASSUME NEW S, NEW u \in Seq(S), NEW T, S \subseteq T
    PROVE  u \in Seq(T)
OBVIOUS

LEMMA UniverseBytes ==
    ASSUME NEW u \in Universes
    PROVE  /\ u \in Seq(Nat) /\ Len(u) = Len(FirstUniverse) /\ Len(u) < PayloadBufSize
           /\ \A b \in Blocks : u[b] \in Nat
<1>1. u \in Seq(0 .. 255) /\ Len(u) = Len(FirstUniverse)
  BY BridgeAssumption
<1>2. u \in Seq(Nat) /\ \A b \in 1 .. Len(u) : u[b] \in Nat
  <2> DEFINE Bytes == 0 .. 255
             Numbers == Nat
  <2>1. u \in Seq(Bytes) /\ Bytes \subseteq Numbers
    BY <1>1
  <2> HIDE DEF Bytes, Numbers
  <2>2. u \in Seq(Numbers)
    BY <2>1, BytesAreNumbers
  <2>3. \A b \in 1 .. Len(u) : u[b] \in Numbers
    BY <2>2
  <2> QED
    BY <2>2, <2>3 DEF Numbers
<1> QED
  BY <1>1, <1>2, BlocksFit DEF Blocks

LEMMA UsbStarts ==
    ASSUME NEW p, Bounded(p), p.state = "WaitStart", NEW con, con.cues = 0, NEW m,
           \A b \in Blocks : m[b].armed = TRUE
    PROVE  UsbSession(p, <<>>, con, FreshSession, m)
<1> DEFINE frame == [i \in 1 .. 0 |-> <<>>]
           off == [i \in 0 .. 0 |-> 0]
           show == [b \in Blocks |-> [i \in 0 .. 0 |-> p.buf[b + 1]]]
<1>1. show \in [Blocks -> [0 .. 0 -> Nat]] /\ \A b \in Blocks : show[b][0] = p.buf[b + 1]
  BY BlocksFit DEF Bounded, Parsers
<1>2. off \in [0 .. 0 -> Nat] /\ off[0] = 0 /\ frame \in [1 .. 0 -> Seq(Nat)]
  OBVIOUS
<1> HIDE DEF frame, off, show
<1>3. \A i : i \notin 1 .. 0 /\ (i \in 0 .. 0 => i = 0)
  OBVIOUS
<1>4. Written(0, frame, off, off, show)
  BY <1>1, <1>2, <1>3 DEF Written
<1>5. \A b \in Blocks : Reached(b, 0, frame, 0, 0) = 0
  BY DEF Reached, Begun
<1>6. Heard(p, 0, frame, show, 0, 0)
  BY <1>1, <1>5 DEF Heard
<1>7. Holds(<<>>, 0, frame, off, off[0] + 0)
  BY <1>2, <1>3 DEF Holds
<1>8. /\ FreshSession.cues = <<>> /\ Len(FreshSession.cues) = 0
      /\ \A b \in Blocks : FreshSession.owed[b] = 1
  BY DEF FreshSession
<1>9. \A b \in Blocks : Repaid(FreshSession.owed[b], m[b].armed, con.universe[b], 0, show[b],
                               Reached(b, 0, frame, 0, 0))
  BY <1>5, <1>8, RepaidAtFirst
<1>10. Streamed(p, <<>>, con, FreshSession, m, 0, frame, off, off, show, 0, 0)
  BY <1>2, <1>4, <1>6, <1>7, <1>8, <1>9 DEF Streamed, Streaming
<1> QED
  BY <1>10 DEF UsbSession

LEMMA UsbLooks ==
    ASSUME NEW p, NEW bytes, NEW con, NEW told, NEW m, UsbSession(p, bytes, con, told, m),
           told.owed \in [Blocks -> Int], NEW con_, NEW told_,
           con_.cues = con.cues, told_.cues = told.cues,
           \A b \in Blocks :
              told_.owed[b] = told.owed[b] + Rise(con.universe[b], con_.universe[b])
    PROVE  UsbSession(p, bytes, con_, told_, m)
<1>1. PICK n, frame, off, nums, show, cur, eaten :
         Streamed(p, bytes, con, told, m, n, frame, off, nums, show, cur, eaten)
  BY DEF UsbSession
<1>2. n \in Nat /\ \A b \in Blocks : Reached(b, n, frame, cur, eaten) \in 0 .. n
  BY <1>1, StreamedTypes
<1>3. ASSUME NEW b \in Blocks
      PROVE  Repaid(told_.owed[b], m[b].armed, con_.universe[b], n, show[b],
                    Reached(b, n, frame, cur, eaten))
  <2>1. Repaid(told.owed[b], m[b].armed, con.universe[b], n, show[b],
               Reached(b, n, frame, cur, eaten))
    BY <1>1 DEF Streamed, Streaming
  <2>2. told.owed[b] \in Int
    OBVIOUS
  <2>3. Repaid(told.owed[b] + Rise(con.universe[b], con_.universe[b]), m[b].armed,
               con_.universe[b], n, show[b], Reached(b, n, frame, cur, eaten))
    BY <1>2, <2>1, <2>2, RepaidForChange
  <2> QED
    BY <2>3
<1>4. Streamed(p, bytes, con_, told_, m, n, frame, off, nums, show, cur, eaten)
  BY <1>1, <1>3 DEF Streamed, Streaming
<1> QED
  BY <1>4 DEF UsbSession

\* The console writes a frame: the universe it shows, or its next cue.
LEMMA UsbWrites ==
    ASSUME NEW p, NEW bytes, NEW con, NEW told, NEW m, UsbSession(p, bytes, con, told, m),
           told.owed \in [Blocks -> Int], con.universe \in Universes,
           NEW con_, con_.universe = con.universe, NEW f, NEW all, Appended(all, bytes, f),
           \/ f = UniverseFrame(con.universe) /\ con_.cues = con.cues
           \/ f = CueFrame(con.cues + 1) /\ con_.cues = con.cues + 1
    PROVE  UsbSession(p, all, con_, told, m)
<1>1. PICK n, frame, off, nums, show, cur, eaten :
         Streamed(p, bytes, con, told, m, n, frame, off, nums, show, cur, eaten)
  BY DEF UsbSession
<1>2. /\ n \in Nat /\ cur \in 0 .. n /\ eaten \in Nat
      /\ show \in [Blocks -> [0 .. n -> Nat]] /\ nums \in [0 .. n -> Nat]
      /\ \A b \in Blocks : Reached(b, n, frame, cur, eaten) \in 0 .. n
  BY <1>1, StreamedTypes
<1>3. /\ Written(n, frame, off, nums, show) /\ nums[n] = con.cues
      /\ Heard(p, n, frame, show, cur, eaten) /\ Len(told.cues) = nums[cur]
      /\ Holds(bytes, n, frame, off, off[cur] + eaten)
  BY <1>1 DEF Streamed, Streaming
<1>4. con.cues \in Nat
  BY <1>2, <1>3
<1> DEFINE u == con.universe
<1>5. /\ u \in Seq(Nat) /\ Len(u) = Len(FirstUniverse) /\ Len(u) < PayloadBufSize
      /\ \A b \in Blocks : u[b] \in Nat /\ b \in 1 .. Len(u)
  BY UniverseBytes DEF Blocks
<1>6. PICK num \in Nat, shown \in [Blocks -> Nat] :
         /\ Framed(f) /\ f \in Seq(Nat) /\ num = con_.cues
         /\ \A b \in Blocks : shown[b] \in {show[b][n], u[b]}
         /\ \/ ShowsUniverse(f, Further(nums, 0, n, num), ShowFurther(show, n, shown), n + 1)
            \/ IsCue(f, Further(nums, 0, n, num), ShowFurther(show, n, shown), n + 1)
  <2> DEFINE Nums(num) == Further(nums, 0, n, num)
             Show(shown) == ShowFurther(show, n, shown)
  <2>0. /\ (n + 1) - 1 = n /\ n + 1 \in 0 .. n + 1 /\ n \in 0 .. n + 1 /\ n # n + 1
        /\ n \in 0 .. n
    <3>1. n \in Nat
      BY <1>2
    <3> QED
      BY <3>1
  <2>1. \A num : Nums(num)[n + 1] = num /\ Nums(num)[n] = nums[n]
    BY <2>0 DEF Further
  <2>2. \A shown : \A b \in Blocks : /\ Show(shown)[b][n + 1] = shown[b]
                                     /\ Show(shown)[b][n] = show[b][n]
    BY <2>0 DEF Further, ShowFurther
  <2> HIDE DEF Nums, Show
  <2>3. CASE f = UniverseFrame(u) /\ con_.cues = con.cues
    <3> DEFINE shown == [b \in Blocks |-> u[b]]
    <3>1. UniverseFramed(f, u)
      <4>1. f = Wrapped(u)
        BY <2>3 DEF UniverseFrame, Wrapped
      <4> HIDE DEF u
      <4> QED
        BY <1>5, <4>1, WrapIsFramed
    <3>2. shown \in [Blocks -> Nat] /\ \A b \in Blocks : shown[b] = u[b]
      BY <1>5
    <3> HIDE DEF shown, u
    <3>3. /\ Framed(f) /\ f \in Seq(Nat) /\ Len(f) = Len(FirstUniverse) + 6
          /\ f[2] = LabelSendDmx /\ \A b \in Blocks : f[5 + b] = u[b]
      BY <1>5, <3>1 DEF UniverseFramed, Framed
    <3>4. ShowsUniverse(f, Nums(con.cues), Show(shown), n + 1)
      <4>1. Nums(con.cues)[n + 1] = Nums(con.cues)[(n + 1) - 1]
        BY <1>3, <2>0, <2>1
      <4>2. \A b \in Blocks : f[5 + b] = Show(shown)[b][n + 1]
        BY <2>2, <3>2, <3>3
      <4> QED
        BY <3>3, <4>1, <4>2 DEF ShowsUniverse
    <3> QED
      BY <1>4, <2>3, <3>2, <3>3, <3>4 DEF Nums, Show
  <2>4. CASE f = CueFrame(con.cues + 1) /\ con_.cues = con.cues + 1
    <3> DEFINE shown == [b \in Blocks |-> show[b][n]]
    <3>1. con.cues + 1 \in Nat
      BY <1>4
    <3>2. /\ Framed(f) /\ Len(f) = 7 /\ f[2] = LabelEspNow /\ f[5] = Magic
          /\ f[6] = con.cues + 1 /\ f \in Seq(Nat)
      <4>1. LET g == CueFrame(con.cues + 1)
            IN  /\ Framed(g) /\ Len(g) = 7
                /\ g[2] = LabelEspNow /\ g[5] = Magic /\ g[6] = con.cues + 1
        BY <3>1, CueIsFramed
      <4> QED
        BY <2>4, <4>1 DEF Framed
    <3>3. shown \in [Blocks -> Nat] /\ \A b \in Blocks : shown[b] = show[b][n]
      BY <1>2, <2>0
    <3> HIDE DEF shown
    <3>4. IsCue(f, Nums(con.cues + 1), Show(shown), n + 1)
      <4>1. /\ Nums(con.cues + 1)[n + 1] = Nums(con.cues + 1)[(n + 1) - 1] + 1
            /\ Nums(con.cues + 1)[n + 1] = con.cues + 1
        BY <1>3, <2>0, <2>1
      <4>2. \A b \in Blocks : Show(shown)[b][n + 1] = Show(shown)[b][(n + 1) - 1]
        BY <2>0, <2>2, <3>3
      <4> QED
        BY <3>2, <4>1, <4>2 DEF IsCue
    <3> QED
      BY <2>4, <3>1, <3>2, <3>3, <3>4 DEF Nums, Show
  <2> QED
    BY <2>3, <2>4
<1> DEFINE nums_ == Further(nums, 0, n, num)
           show_ == ShowFurther(show, n, shown)
<1>7. /\ ShowsUniverse(f, nums_, show_, n + 1) \/ IsCue(f, nums_, show_, n + 1)
      /\ f \in Seq(Nat) /\ Framed(f)
  BY <1>6
<1> DEFINE frame_ == Further(frame, 1, n, f)
           off_ == Further(off, 0, n, off[n] + Len(f))
<1>9. /\ Streaming(p, all, n + 1, frame_, off_, nums_, show_, cur, eaten)
      /\ \A b \in Blocks : Reached(b, n + 1, frame_, cur, eaten)
                             = Reached(b, n, frame, cur, eaten)
  <2>1. NextFrame(f, n, nums, show, num, shown)
    BY <1>7 DEF NextFrame
  <2>2. Streaming(p, bytes, n, frame, off, nums, show, cur, eaten)
    BY <1>3 DEF Streaming
  <2> QED
    BY <2>1, <2>2, FrameWritten
<1>10. /\ nums_[n + 1] = num /\ nums_[cur] = nums[cur]
       /\ \A b \in Blocks : /\ show_[b][n + 1] = shown[b]
                            /\ \A i \in 0 .. n : show_[b][i] = show[b][i]
  <2>1. /\ n + 1 \in 0 .. n + 1 /\ cur \in 0 .. n + 1 /\ cur # n + 1
        /\ \A i \in 0 .. n : i \in 0 .. n + 1 /\ i # n + 1
    BY <1>2
  <2> QED
    BY <2>1 DEF Further, ShowFurther
<1> HIDE DEF nums_, show_, frame_, off_
<1>11. ASSUME NEW b \in Blocks
       PROVE  Repaid(told.owed[b], m[b].armed, con_.universe[b], n + 1, show_[b],
                     Reached(b, n + 1, frame_, cur, eaten))
  <2>1. Repaid(told.owed[b], m[b].armed, u[b], n, show[b], Reached(b, n, frame, cur, eaten))
    BY <1>1 DEF Streamed, Streaming
  <2>2. told.owed[b] \in Int /\ Reached(b, n, frame, cur, eaten) \in 0 .. n
        /\ con_.universe[b] = u[b]
    BY <1>2
  <2>3. /\ \A i \in 0 .. n : show_[b][i] = show[b][i]
        /\ show_[b][n + 1] \in {show[b][n], u[b]}
    BY <1>6, <1>10
  <2> HIDE DEF u
  <2>4. Repaid(told.owed[b], m[b].armed, u[b], n + 1, show_[b],
               Reached(b, n, frame, cur, eaten))
    BY <1>2, <2>1, <2>2, <2>3, RepaidFurther
  <2> QED
    BY <1>9, <2>2, <2>4
<1>12. Streamed(p, all, con_, told, m, n + 1, frame_, off_, nums_, show_, cur, eaten)
  BY <1>3, <1>6, <1>9, <1>10, <1>11 DEF Streamed, Streaming
<1> QED
  BY <1>12 DEF UsbSession

\* The cues the radio has are the first ones, and one more keeps them so.
LEMMA OneMoreInOrder ==
    ASSUME NEW cues \in Seq(Nat), InOrder(cues)
    PROVE  InOrder(Append(cues, Len(cues) + 1)) /\ InOrder(<<>>)
<1>1. \A i \in 1 .. Len(cues) : cues[i] = i
  BY DEF InOrder
<1> DEFINE more == Append(cues, Len(cues) + 1)
<1>2. /\ more \in Seq(Nat) /\ Len(more) = Len(cues) + 1 /\ more[Len(cues) + 1] = Len(cues) + 1
      /\ \A i \in 1 .. Len(cues) : more[i] = cues[i]
  OBVIOUS
<1> HIDE DEF more
<1>3. \A i \in 1 .. Len(more) : more[i] = i
  BY <1>1, <1>2
<1>4. InOrder(more)
  <2>1. more = [i \in DOMAIN more |-> more[i]] /\ DOMAIN more = 1 .. Len(more)
    BY <1>2
  <2> QED
    BY <1>3, <2>1 DEF InOrder
<1>5. InOrder(<<>>)
  BY DEF InOrder
<1> QED
  BY <1>4, <1>5 DEF more

LEMMA NoneMore ==
    ASSUME NEW cues \in Seq(Nat), NEW all, all = cues \o <<>>
    PROVE  all = cues
OBVIOUS

LEMMA OneMore ==
    ASSUME NEW cues \in Seq(Nat), NEW k \in Nat, NEW all, all = cues \o <<k>>
    PROVE  all = Append(cues, k)
OBVIOUS

\* One turn of the drain.
PassedOn(cues, p, byte) ==
    cues \o (IF Completes(p, byte) THEN Handed(Fed(p, byte)) ELSE <<>>)

LEMMA UsbPolls ==
    ASSUME NEW p, Bounded(p), NEW bytes, bytes # <<>>, NEW con, NEW told, NEW m,
           UsbSession(p, bytes, con, told, m),
           told.owed \in [Blocks -> Int], told.cues \in Seq(Nat), InOrder(told.cues),
           NEW told_, told_.owed = told.owed,
           told_.cues = PassedOn(told.cues, p, Head(bytes))
    PROVE  /\ UsbSession(Fed(p, Head(bytes)), Tail(bytes), con, told_, m)
           /\ InOrder(told_.cues)
<1>1. PICK n, frame, off, nums, show, cur, eaten :
         Streamed(p, bytes, con, told, m, n, frame, off, nums, show, cur, eaten)
  BY DEF UsbSession
<1>2. /\ n \in Nat /\ cur \in 0 .. n /\ eaten \in Nat
      /\ show \in [Blocks -> [0 .. n -> Nat]] /\ nums \in [0 .. n -> Nat]
      /\ \A b \in Blocks : Reached(b, n, frame, cur, eaten) \in 0 .. n
  BY <1>1, StreamedTypes
<1>3. /\ Written(n, frame, off, nums, show) /\ nums[n] = con.cues
      /\ Heard(p, n, frame, show, cur, eaten) /\ Len(told.cues) = nums[cur]
      /\ Holds(bytes, n, frame, off, off[cur] + eaten)
  BY <1>1 DEF Streamed, Streaming
<1> DEFINE byte == Head(bytes)
           q == Fed(p, byte)
           rest == Tail(bytes)
<1>4. /\ cur < n /\ eaten < Len(frame[cur + 1])
      /\ byte = frame[cur + 1][eaten + 1]
      /\ Holds(rest, n, frame, off, off[cur] + (eaten + 1))
  BY <1>3, NextByte
<1> HIDE DEF byte, q, rest
<1>5. cur + 1 \in 1 .. n /\ cur + 1 \in 0 .. n /\ cur \in 0 .. n /\ (cur + 1) - 1 = cur
  BY <1>2, <1>4
<1>6. \A b \in Blocks : Repaid(told.owed[b], m[b].armed, con.universe[b], n, show[b],
                               Reached(b, n, frame, cur, eaten))
  BY <1>1 DEF Streamed
<1>7. frame[cur + 1] \in Seq(Nat) /\ Len(frame[cur + 1]) \in Nat
      /\ off \in [0 .. n -> Nat] /\ off[cur + 1] = off[cur] + Len(frame[cur + 1])
  <2>1. /\ frame \in [1 .. n -> Seq(Nat)] /\ off \in [0 .. n -> Nat]
        /\ \A i \in 1 .. n : off[i] = off[i - 1] + Len(frame[i])
    BY <1>3 DEF Written
  <2>2. frame[cur + 1] \in Seq(Nat)
    BY <1>5, <2>1
  <2>3. off[cur + 1] = off[(cur + 1) - 1] + Len(frame[cur + 1])
    BY <1>5, <2>1
  <2> QED
    BY <1>5, <2>1, <2>2, <2>3
<1>8. CASE eaten + 1 < Len(frame[cur + 1])
  <2>1. ~Completes(p, byte) /\ Heard(q, n, frame, show, cur, eaten + 1)
    BY <1>3, <1>4, <1>8, ByteHeard DEF q
  <2>2. told_.cues = told.cues
    BY <2>1, NoneMore DEF byte, PassedOn
  <2>3. ASSUME NEW b \in Blocks
        PROVE  Repaid(told_.owed[b], m[b].armed, con.universe[b], n, show[b],
                      Reached(b, n, frame, cur, eaten + 1))
    <3>1. Reached(b, n, frame, cur, eaten) \in {cur, cur + 1}
          /\ Reached(b, n, frame, cur, eaten + 1) \in {cur, cur + 1}
          /\ (Reached(b, n, frame, cur, eaten) = cur + 1 =>
                 Reached(b, n, frame, cur, eaten + 1) = cur + 1)
      BY <1>2, BlocksFit DEF Reached, Begun
    <3>2. told.owed[b] \in Int
      OBVIOUS
    <3>3. CASE Reached(b, n, frame, cur, eaten + 1) = Reached(b, n, frame, cur, eaten)
      BY <1>6, <3>3
    <3>4. CASE /\ Reached(b, n, frame, cur, eaten) = cur
               /\ Reached(b, n, frame, cur, eaten + 1) = cur + 1
      <4>1. Repaid(told.owed[b], m[b].armed, con.universe[b], n, show[b], cur)
        BY <1>6, <3>4
      <4>2. Repaid(told.owed[b], m[b].armed, con.universe[b], n, show[b], cur + 1)
        BY <1>2, <1>4, <3>2, <4>1, RepaidOnward
      <4> QED
        BY <3>4, <4>2
    <3> QED
      BY <3>1, <3>3, <3>4
  <2>4. Streamed(q, rest, con, told_, m, n, frame, off, nums, show, cur, eaten + 1)
    BY <1>3, <1>4, <2>1, <2>2, <2>3 DEF Streamed, Streaming
  <2> QED
    BY <2>2, <2>4 DEF UsbSession, q, rest, byte
<1>9. CASE eaten + 1 = Len(frame[cur + 1])
  <2>1. /\ Completes(p, byte)
        /\ Heard(q, n, frame, show, cur + 1, 0)
        /\ \/ /\ Handed(q) = <<>> /\ nums[cur + 1] = nums[cur]
              /\ \A b \in Blocks : Reached(b, n, frame, cur, eaten) = cur + 1
           \/ /\ Handed(q) = <<nums[cur + 1]>> /\ nums[cur + 1] = nums[cur] + 1
              /\ \A b \in Blocks : Reached(b, n, frame, cur, eaten) = cur
    BY <1>3, <1>4, <1>9, FrameHeard DEF q
  <2>2. Len(told_.cues) = nums[cur + 1] /\ InOrder(told_.cues)
    <3>1. told_.cues = told.cues \o Handed(q)
      BY <2>1 DEF byte, q, PassedOn
    <3>2. CASE Handed(q) = <<>> /\ nums[cur + 1] = nums[cur]
      <4>1. told_.cues = told.cues
        BY <3>1, <3>2, NoneMore
      <4> QED
        BY <1>3, <3>2, <4>1
    <3>3. CASE Handed(q) = <<nums[cur + 1]>> /\ nums[cur + 1] = nums[cur] + 1
      <4> DEFINE cues == told.cues
      <4>1. cues \in Seq(Nat) /\ nums[cur + 1] = Len(cues) + 1 /\ nums[cur + 1] \in Nat
        BY <1>2, <1>3, <1>5, <3>3
      <4>2. told_.cues = cues \o <<nums[cur + 1]>> /\ InOrder(cues)
        BY <3>1, <3>3
      <4> HIDE DEF cues
      <4>3. told_.cues = Append(cues, nums[cur + 1])
        BY <4>1, <4>2, OneMore
      <4>4. InOrder(Append(cues, Len(cues) + 1)) /\ Len(Append(cues, Len(cues) + 1)) = Len(cues) + 1
        BY <4>1, <4>2, OneMoreInOrder
      <4> QED
        BY <4>1, <4>3, <4>4
    <3> QED
      BY <2>1, <3>2, <3>3
  <2>3. \A b \in Blocks : Reached(b, n, frame, cur + 1, 0) = cur + 1
    BY DEF Reached, Begun
  <2>4. ASSUME NEW b \in Blocks
        PROVE  Repaid(told_.owed[b], m[b].armed, con.universe[b], n, show[b],
                      Reached(b, n, frame, cur + 1, 0))
    <3>1. told.owed[b] \in Int
      OBVIOUS
    <3>2. CASE Reached(b, n, frame, cur, eaten) = cur + 1
      BY <1>6, <2>3, <3>2
    <3>3. CASE Reached(b, n, frame, cur, eaten) = cur
      <4>1. Repaid(told.owed[b], m[b].armed, con.universe[b], n, show[b], cur)
        BY <1>6, <3>3
      <4>2. Repaid(told.owed[b], m[b].armed, con.universe[b], n, show[b], cur + 1)
        BY <1>2, <1>4, <3>1, <4>1, RepaidOnward
      <4> QED
        BY <2>3, <4>2
    <3> QED
      BY <2>1, <3>2, <3>3
  <2>5. off[cur] + (eaten + 1) = off[cur + 1] + 0
    BY <1>5, <1>7, <1>9
  <2>6. Streamed(q, rest, con, told_, m, n, frame, off, nums, show, cur + 1, 0)
    BY <1>3, <1>4, <2>1, <2>2, <2>4, <2>5 DEF Streamed, Streaming
  <2> QED
    BY <2>2, <2>6 DEF UsbSession, q, rest, byte
<1> QED
  BY SMTT(30), <1>2, <1>4, <1>7, <1>8, <1>9

\* What the mappers make of it.
LEMMA MapperKeeps ==
    ASSUME NEW b \in Blocks, NEW units \in Nat,
           mapper[b].armed \in BOOLEAN, "armed" \in DOMAIN mapper[b],
           NEW owed \in Int, NEW shown, NEW n \in Nat, NEW show, NEW e \in 0 .. n,
           Repaid(owed, mapper[b].armed, shown, n, show, e),
           LastWasDmxPacket(parser_) => parser_.buf[b + 1] = show[e],
           Bounded(parser_)
    PROVE  LET step == MapperStep(b, units)
           IN  /\ step.m.armed \in BOOLEAN /\ "armed" \in DOMAIN step.m
               /\ Pulses(step.events) \in {0, 1}
               /\ Repaid(owed - Pulses(step.events), step.m.armed, shown, n, show, e)
<1> DEFINE step == MapperStep(b, units)
           channels == DmxChannels(parser_)
<1>1. CASE bridge.seen /\ LastWasDmxPacket(parser_) /\ b <= Len(channels)
  <2>1. step = Processed(Aged(mapper[b], units), LookOf(channels[b]))
    BY <1>1 DEF MapperStep
  <2>2. channels[b] = show[e]
    <3>1. parser_.last_len \in 0 .. PayloadBufSize /\ PayloadBufSize \in Nat
          /\ parser_.buf \in [1 .. PayloadBufSize -> Nat] /\ b \in Nat /\ b >= 1
      BY BlocksFit DEF Bounded, Parsers
    <3>2. channels[b] = parser_.buf[b + 1]
      <4>1. channels = SubSeq(parser_.buf, 2, parser_.last_len)
        BY DEF DmxChannels
      <4>2. parser_.buf \in Seq(Nat) /\ Len(parser_.buf) = PayloadBufSize
        BY <3>1
      <4>3. \A i \in 1 .. Len(channels) : channels[i] = parser_.buf[2 + i - 1]
        BY <3>1, <4>1, <4>2
      <4>4. b \in 1 .. Len(channels) /\ 2 + b - 1 = b + 1
        BY <1>1, <3>1, <4>1, <4>2
      <4> QED
        BY <4>3, <4>4
    <3> QED
      BY <1>1, <3>2
  <2> HIDE DEF step, channels
  <2>3. /\ step.m.armed \in BOOLEAN /\ "armed" \in DOMAIN step.m
        /\ Pulses(step.events) \in {0, 1}
        /\ Pulses(step.events) = 1 => mapper[b].armed /\ Triggered(show[e])
        /\ Triggered(show[e]) => ~step.m.armed
    BY <2>1, <2>2, FiresOnce
  <2>4. Repaid(owed - Pulses(step.events), step.m.armed, shown, n, show, e)
    BY <2>3, RepaidFired
  <2> QED
    BY <2>3, <2>4 DEF step
<1>2. CASE ~(bridge.seen /\ LastWasDmxPacket(parser_) /\ b <= Len(channels))
  <2>1. step = [m |-> Aged(mapper[b], units), events |-> <<>>]
    BY <1>2 DEF MapperStep
  <2>2. step.m.armed = mapper[b].armed /\ "armed" \in DOMAIN step.m
    <3>1. step.m = Aged(mapper[b], units)
      BY <2>1
    <3>2. /\ Aged(mapper[b], units).armed = mapper[b].armed
          /\ DOMAIN Aged(mapper[b], units) = DOMAIN mapper[b]
      BY DEF Aged
    <3> QED
      BY <3>1, <3>2
  <2>3. Pulses(step.events) = 0
    BY <2>1, PulsesCounted
  <2>4. owed - 0 = owed
    OBVIOUS
  <2> QED
    BY <2>2, <2>3, <2>4
<1> QED
  BY <1>1, <1>2

LEMMA UsbMaps ==
    ASSUME NEW units \in Nat, Bounded(parser_), sent.owed \in [Blocks -> Int],
           \A b \in Blocks : mapper[b].armed \in BOOLEAN /\ "armed" \in DOMAIN mapper[b],
           UsbSession(parser_, line, console, sent, mapper),
           NEW m_, NEW told_, told_.cues = sent.cues,
           \A b \in Blocks : /\ m_[b] = MapperStep(b, units).m
                             /\ told_.owed[b] = sent.owed[b] - Pulses(MapperStep(b, units).events)
    PROVE  UsbSession(parser_, line, console, told_, m_)
<1>1. PICK n, frame, off, nums, show, cur, eaten :
         Streamed(parser_, line, console, sent, mapper, n, frame, off, nums, show, cur, eaten)
  BY DEF UsbSession
<1>2. /\ n \in Nat /\ cur \in 0 .. n /\ eaten \in Nat
      /\ \A b \in Blocks : Reached(b, n, frame, cur, eaten) \in 0 .. n
  BY <1>1, StreamedTypes
<1>3. /\ Written(n, frame, off, nums, show) /\ Heard(parser_, n, frame, show, cur, eaten)
  BY <1>1 DEF Streamed, Streaming
<1>4. LastWasDmxPacket(parser_) => ~Begun(n, frame, cur, eaten, LabelEspNow)
  <2> SUFFICES ASSUME Begun(n, frame, cur, eaten, LabelEspNow)
               PROVE  parser_.buf[1] # 0
    BY DEF LastWasDmxPacket
  <2>1. cur < n /\ cur + 1 \in 1 .. n /\ frame[cur + 1][2] = LabelEspNow /\ eaten >= 5
    BY <1>2 DEF Begun
  <2>2. IsCue(frame[cur + 1], nums, show, cur + 1)
    <3>1. ~ShowsUniverse(frame[cur + 1], nums, show, cur + 1)
      BY <2>1 DEF ShowsUniverse, LabelSendDmx, LabelEspNow
    <3> QED
      BY <1>3, <2>1, <3>1 DEF Written
  <2>3. 5 \in 5 .. eaten /\ 5 - 4 = 1
    BY <1>2, <2>1
  <2>4. parser_.buf[5 - 4] = frame[cur + 1][5]
    BY <1>3, <2>1, <2>3 DEF Heard, At
  <2> QED
    BY <2>2, <2>3, <2>4 DEF IsCue, Magic
<1>5. ASSUME NEW b \in Blocks
      PROVE  Repaid(told_.owed[b], m_[b].armed, console.universe[b], n, show[b],
                    Reached(b, n, frame, cur, eaten))
  <2> DEFINE e == Reached(b, n, frame, cur, eaten)
             step == MapperStep(b, units)
  <2>1. LastWasDmxPacket(parser_) => parser_.buf[b + 1] = show[b][e]
    BY <1>3, <1>4 DEF Heard, LastWasDmxPacket
  <2>2. e \in 0 .. n /\ sent.owed[b] \in Int
    BY <1>2
  <2>3. Repaid(sent.owed[b], mapper[b].armed, console.universe[b], n, show[b], e)
    BY <1>1 DEF Streamed
  <2> HIDE DEF e
  <2>4. Repaid(sent.owed[b] - Pulses(step.events), step.m.armed, console.universe[b], n,
               show[b], e)
    BY <1>2, <2>1, <2>2, <2>3, MapperKeeps
  <2> QED
    BY <2>4 DEF e
<1>6. Streamed(parser_, line, console, told_, m_, n, frame, off, nums, show, cur, eaten)
  BY <1>1, <1>5 DEF Streamed, Streaming
<1> QED
  BY <1>6 DEF UsbSession

\* What a session says of the two properties.
LEMMA UsbIsWell ==
    ASSUME NEW p, NEW bytes, NEW con, NEW told, NEW m, UsbSession(p, bytes, con, told, m),
           told.owed \in [Blocks -> Int]
    PROVE  /\ bytes = <<>> => Len(told.cues) = con.cues
           /\ \A b \in Blocks : told.owed[b] >= 0
<1>1. PICK n, frame, off, nums, show, cur, eaten :
         Streamed(p, bytes, con, told, m, n, frame, off, nums, show, cur, eaten)
  BY DEF UsbSession
<1>2. n \in Nat /\ \A b \in Blocks : Reached(b, n, frame, cur, eaten) \in 0 .. n
  BY <1>1, StreamedTypes
<1>3. ASSUME NEW b \in Blocks PROVE told.owed[b] >= 0
  <2>1. Repaid(told.owed[b], m[b].armed, con.universe[b], n, show[b],
               Reached(b, n, frame, cur, eaten))
    BY <1>1 DEF Streamed
  <2>2. told.owed[b] \in Int
    OBVIOUS
  <2> QED
    BY <1>2, <2>1, <2>2, RepaidIsOwed
<1>4. ASSUME bytes = <<>> PROVE Len(told.cues) = con.cues
  <2>1. /\ Written(n, frame, off, nums, show) /\ Heard(p, n, frame, show, cur, eaten)
        /\ Holds(bytes, n, frame, off, off[cur] + eaten)
    BY <1>1 DEF Streamed, Streaming
  <2>2. cur = n
    BY <1>4, <2>1, NextByte
  <2> QED
    BY <1>1, <2>2 DEF Streamed
<1> QED
  BY <1>3, <1>4

-----------------------------------------------------------------------------
(* A session over the network.                                             *)

Packets ==
    [fault : {"none", "universe", "start code", "opcode"}, channels : Seq(Nat), count : Nat]

\* What a packet makes of the channels: those it has, as far as it reaches.
LEMMA PacketRead ==
    ASSUME NEW protocol \in Protocols, NEW packet \in Packets
    PROVE  /\ ChannelsOf(protocol, packet) \in Seq(Nat)
           /\ Len(ChannelsOf(protocol, packet)) <= Len(packet.channels)
           /\ \A b \in 1 .. Len(ChannelsOf(protocol, packet)) :
                 ChannelsOf(protocol, packet)[b] = packet.channels[b]
<1>1. /\ packet.channels \in Seq(Nat) /\ packet.count \in Nat
      /\ Len(packet.channels) \in Nat
  <2>1. packet.channels \in Seq(Nat) /\ packet.count \in Nat
    BY DEF Packets
  <2> QED
    BY <2>1
<1>2. ASSUME NEW k \in 0 .. Len(packet.channels)
      PROVE  LET s == SubSeq(packet.channels, 1, k)
             IN  /\ s \in Seq(Nat) /\ Len(s) <= Len(packet.channels)
                 /\ \A b \in 1 .. Len(s) : s[b] = packet.channels[b]
  BY <1>1
<1>3. <<>> \in Seq(Nat) /\ Len(<<>>) = 0 /\ \A b : b \notin 1 .. 0
  OBVIOUS
<1> DEFINE kA == IF packet.count > Len(packet.channels) THEN Len(packet.channels)
                 ELSE packet.count
           kS == IF packet.count > Len(packet.channels) THEN Len(packet.channels)
                 ELSE IF packet.count > 0 THEN packet.count - 1 ELSE 0
<1>4. kA \in 0 .. Len(packet.channels) /\ kS \in 0 .. Len(packet.channels)
  BY <1>1
<1>5. ChannelsOf(protocol, packet)
         \in {<<>>, SubSeq(packet.channels, 1, kA), SubSeq(packet.channels, 1, kS)}
  BY DEF ChannelsOf, ArtnetChannels, SacnChannels
<1> HIDE DEF kA, kS
<1>6. CASE ChannelsOf(protocol, packet) = <<>>
  BY <1>1, <1>3, <1>6
<1>7. CASE ChannelsOf(protocol, packet) = SubSeq(packet.channels, 1, kA)
  BY <1>2, <1>4, <1>7
<1>8. CASE ChannelsOf(protocol, packet) = SubSeq(packet.channels, 1, kS)
  BY <1>2, <1>4, <1>8
<1> QED
  BY <1>5, <1>6, <1>7, <1>8

\* The first `cur' of n packets are taken, the others wait in the socket.
\* show[b][i] is the byte of block b after i of them.
Draws(protocol, packet, was, is, b) ==
    is = IF b <= Len(ChannelsOf(protocol, packet))
         THEN ChannelsOf(protocol, packet)[b] ELSE was

Polled(p, packets, con, told, m, n, show, cur) ==
    /\ n \in Nat /\ cur \in 0 .. n /\ n = cur + Len(packets)
    /\ show \in [Blocks -> [0 .. n -> Nat]]
    /\ \A j \in 1 .. Len(packets), b \in Blocks :
          Draws(con.speaks, packets[j], show[b][cur + j - 1], show[b][cur + j], b)
    /\ \A b \in Blocks : /\ p.buf[b + 1] = show[b][cur]
                         /\ Repaid(told.owed[b], m[b].armed, con.universe[b], n, show[b], cur)

\* Only the console is heard: what else is in the sockets says nothing.
EthernetSession(p, socks, con, told, m) ==
    /\ p.state = "WaitStart" /\ con.cues = 0 /\ told.cues = <<>>
    /\ \A protocol \in Protocols \ {con.speaks} : \A j \in 1 .. Len(socks[protocol]) :
          ChannelsOf(protocol, socks[protocol][j]) = <<>>
    /\ \E n, show, cur : Polled(p, socks[con.speaks], con, told, m, n, show, cur)

LEMMA EthernetStarts ==
    ASSUME NEW p, Bounded(p), p.state = "WaitStart", NEW con, con.cues = 0,
           con.speaks \in Protocols, NEW m, \A b \in Blocks : m[b].armed = TRUE
    PROVE  EthernetSession(p, OpenSockets, con, FreshSession, m)
<1> DEFINE show == [b \in Blocks |-> [i \in 0 .. 0 |-> p.buf[b + 1]]]
<1>1. show \in [Blocks -> [0 .. 0 -> Nat]] /\ \A b \in Blocks : show[b][0] = p.buf[b + 1]
  BY BlocksFit DEF Bounded, Parsers
<1>2. /\ FreshSession.cues = <<>> /\ \A b \in Blocks : FreshSession.owed[b] = 1
  BY DEF FreshSession
<1>3. \A protocol \in Protocols : OpenSockets[protocol] = <<>>
  BY DEF OpenSockets
<1>4. Len(<<>>) = 0 /\ \A j : j \notin 1 .. 0
  OBVIOUS
<1> HIDE DEF show
<1>5. \A b \in Blocks : Repaid(FreshSession.owed[b], m[b].armed, con.universe[b], 0, show[b], 0)
  BY <1>2, RepaidAtFirst
<1>6. Polled(p, OpenSockets[con.speaks], con, FreshSession, m, 0, show, 0)
  <2>1. Len(OpenSockets[con.speaks]) = 0
    BY <1>3, <1>4
  <2> QED
    BY <1>1, <1>4, <1>5, <2>1 DEF Polled
<1> QED
  BY <1>2, <1>3, <1>4, <1>6 DEF EthernetSession

LEMMA EthernetLooks ==
    ASSUME NEW p, NEW socks, NEW con, NEW told, NEW m, EthernetSession(p, socks, con, told, m),
           told.owed \in [Blocks -> Int], NEW con_, NEW told_,
           con_.cues = con.cues, con_.speaks = con.speaks, told_.cues = told.cues,
           \A b \in Blocks :
              told_.owed[b] = told.owed[b] + Rise(con.universe[b], con_.universe[b])
    PROVE  EthernetSession(p, socks, con_, told_, m)
<1>1. PICK n, show, cur : Polled(p, socks[con.speaks], con, told, m, n, show, cur)
  BY DEF EthernetSession
<1>2. n \in Nat /\ cur \in 0 .. n
  BY <1>1 DEF Polled
<1>3. ASSUME NEW b \in Blocks
      PROVE  Repaid(told_.owed[b], m[b].armed, con_.universe[b], n, show[b], cur)
  <2>1. Repaid(told.owed[b], m[b].armed, con.universe[b], n, show[b], cur)
    BY <1>1 DEF Polled
  <2>2. told.owed[b] \in Int
    OBVIOUS
  <2>3. Repaid(told.owed[b] + Rise(con.universe[b], con_.universe[b]), m[b].armed,
               con_.universe[b], n, show[b], cur)
    BY <1>2, <2>1, <2>2, RepaidForChange
  <2> QED
    BY <2>3
<1>4. Polled(p, socks[con_.speaks], con_, told_, m, n, show, cur)
  BY <1>1, <1>3 DEF Polled
<1> QED
  BY <1>4 DEF EthernetSession

\* A packet comes to its socket: one of the console's, or one of others.
LEMMA PacketArrives ==
    ASSUME NEW p, NEW socks \in [Protocols -> Seq(Packets)], NEW con, NEW told, NEW m,
           EthernetSession(p, socks, con, told, m), con.speaks \in Protocols,
           told.owed \in [Blocks -> Int],
           NEW protocol \in Protocols, NEW packet \in Packets,
           NEW socks_, socks_ = [socks EXCEPT ![protocol] = Append(@, packet)],
           protocol # con.speaks => ChannelsOf(protocol, packet) = <<>>,
           \A b \in Blocks : b <= Len(ChannelsOf(protocol, packet)) =>
              ChannelsOf(protocol, packet)[b] = con.universe[b]
    PROVE  EthernetSession(p, socks_, con, told, m)
<1>1. PICK n, show, cur : Polled(p, socks[con.speaks], con, told, m, n, show, cur)
  BY DEF EthernetSession
<1> DEFINE own == socks[con.speaks]
           own_ == socks_[con.speaks]
           len == Len(own)
<1>2. /\ \A q \in Protocols : socks[q] \in Seq(Packets)
      /\ \A q \in Protocols \ {protocol} : socks_[q] = socks[q]
      /\ socks_[protocol] = Append(socks[protocol], packet)
  OBVIOUS
<1>3. /\ n \in Nat /\ cur \in 0 .. n /\ n = cur + len /\ len \in Nat
      /\ show \in [Blocks -> [0 .. n -> Nat]]
      /\ \A j \in 1 .. len, b \in Blocks :
            Draws(con.speaks, own[j], show[b][cur + j - 1], show[b][cur + j], b)
  <2>1. len \in Nat
    BY <1>2
  <2> QED
    BY <1>1, <2>1 DEF Polled
<1> HIDE DEF len
<1>4. CASE protocol # con.speaks
  <2>1. own_ = own
    BY <1>2, <1>4
  <2>2. ASSUME NEW q \in Protocols \ {con.speaks}, NEW j \in 1 .. Len(socks_[q])
        PROVE  ChannelsOf(q, socks_[q][j]) = <<>>
    <3>1. CASE q = protocol
      <4>1. socks_[q] = Append(socks[q], packet) /\ socks[q] \in Seq(Packets)
        BY <1>2, <3>1
      <4>2. \/ j \in 1 .. Len(socks[q]) /\ socks_[q][j] = socks[q][j]
            \/ socks_[q][j] = packet
        BY <4>1
      <4> QED
        BY <3>1, <4>2 DEF EthernetSession
    <3>2. CASE q # protocol
      BY <1>2, <3>2 DEF EthernetSession
    <3> QED
      BY <3>1, <3>2
  <2> QED
    BY <1>1, <2>1, <2>2 DEF EthernetSession
<1>5. CASE protocol = con.speaks
  <2> DEFINE shown == [b \in Blocks |-> IF b <= Len(ChannelsOf(protocol, packet))
                                        THEN ChannelsOf(protocol, packet)[b] ELSE show[b][n]]
             show_ == ShowFurther(show, n, shown)
  <2>1. /\ own \in Seq(Packets) /\ Len(own_) = len + 1 /\ own_[len + 1] = packet
        /\ \A j \in 1 .. len : own_[j] = own[j]
    BY <1>2, <1>5 DEF len
  <2>2. ASSUME NEW b \in Blocks
        PROVE  /\ shown[b] \in Nat /\ Draws(con.speaks, packet, show[b][n], shown[b], b)
               /\ shown[b] \in {show[b][n], con.universe[b]}
    <3>1. /\ ChannelsOf(protocol, packet) \in Seq(Nat) /\ b \in Nat /\ b >= 1
          /\ show[b][n] \in Nat
      <4>1. ChannelsOf(protocol, packet) \in Seq(Nat)
        BY PacketRead
      <4>2. b \in Nat /\ b >= 1
        BY BlocksFit
      <4>3. n \in 0 .. n
        BY <1>3
      <4> QED
        BY <1>3, <4>1, <4>2, <4>3
    <3>2. b <= Len(ChannelsOf(protocol, packet)) => ChannelsOf(protocol, packet)[b] \in Nat
      <4> DEFINE channels == ChannelsOf(protocol, packet)
      <4> HIDE DEF channels
      <4>1. channels \in Seq(Nat) /\ b <= Len(channels) => channels[b] \in Nat
        BY <3>1
      <4> QED
        BY <3>1, <4>1 DEF channels
    <3> QED
      BY <1>5, <3>1, <3>2 DEF Draws
  <2> HIDE DEF shown
  <2>3. /\ show_ \in [Blocks -> [0 .. n + 1 -> Nat]]
        /\ \A b \in Blocks : /\ show_[b][n + 1] = shown[b]
                             /\ \A i \in 0 .. n : show_[b][i] = show[b][i]
    <3>1. /\ n + 1 \in 0 .. n + 1
          /\ \A i \in 0 .. n : i \in 0 .. n + 1 /\ i # n + 1
          /\ \A i \in 0 .. n + 1 : i # n + 1 => i \in 0 .. n
      BY <1>3
    <3> QED
      BY <1>3, <2>2, <3>1 DEF ShowFurther, Further
  <2> HIDE DEF show_
  <2>4. ASSUME NEW j \in 1 .. len + 1, NEW b \in Blocks
        PROVE  Draws(con.speaks, own_[j], show_[b][cur + j - 1], show_[b][cur + j], b)
    <3>1. CASE j = len + 1
      <4>1. cur + j - 1 = n /\ cur + j = n + 1 /\ n \in 0 .. n
        BY <1>3, <3>1
      <4> QED
        BY <2>1, <2>2, <2>3, <3>1, <4>1
    <3>2. CASE j \in 1 .. len
      <4>1. cur + j - 1 \in 0 .. n /\ cur + j \in 0 .. n
        BY <1>3, <3>2
      <4> QED
        BY <1>3, <2>1, <2>3, <3>2, <4>1
    <3>3. len \in Nat
      BY <1>3
    <3>4. j = len + 1 \/ j \in 1 .. len
      BY <3>3
    <3> QED
      BY <3>1, <3>2, <3>4
  <2>5. ASSUME NEW b \in Blocks
        PROVE  /\ p.buf[b + 1] = show_[b][cur]
               /\ Repaid(told.owed[b], m[b].armed, con.universe[b], n + 1, show_[b], cur)
    <3>1. /\ p.buf[b + 1] = show[b][cur]
          /\ Repaid(told.owed[b], m[b].armed, con.universe[b], n, show[b], cur)
      BY <1>1 DEF Polled
    <3>2. told.owed[b] \in Int
      OBVIOUS
    <3>3. show_[b][n + 1] \in {show[b][n], con.universe[b]}
      BY <2>2, <2>3
    <3>4. \A i \in 0 .. n : show_[b][i] = show[b][i]
      BY <2>3
    <3>5. Repaid(told.owed[b], m[b].armed, con.universe[b], n + 1, show_[b], cur)
      BY <1>3, <3>1, <3>2, <3>3, <3>4, RepaidFurther
    <3> QED
      BY <1>3, <3>1, <3>4, <3>5
  <2>6. Polled(p, own_, con, told, m, n + 1, show_, cur)
    <3>1. n + 1 \in Nat /\ cur \in 0 .. n + 1 /\ n + 1 = cur + (len + 1)
      BY <1>3
    <3> QED
      BY <2>1, <2>3, <2>4, <2>5, <3>1 DEF Polled
  <2>7. \A q \in Protocols \ {con.speaks} : socks_[q] = socks[q]
    BY <1>2, <1>5
  <2> QED
    BY <2>6, <2>7 DEF EthernetSession
<1> QED
  BY <1>4, <1>5
LEMMA WithoutFirst ==
    ASSUME NEW S, NEW s \in Seq(S), s # <<>>, NEW rest, rest = Tail(s)
    PROVE  /\ Len(s) >= 1 /\ Len(rest) = Len(s) - 1
           /\ \A j \in 1 .. Len(s) - 1 : rest[j] = s[j + 1]
OBVIOUS

\* A packet is taken.
LEMMA PacketPolled ==
    ASSUME NEW p, Bounded(p), NEW socks \in [Protocols -> Seq(Packets)], NEW con, NEW told,
           NEW m, EthernetSession(p, socks, con, told, m), con.speaks \in Protocols,
           told.owed \in [Blocks -> Int],
           NEW protocol \in Protocols, socks[protocol] # <<>>,
           NEW socks_, socks_ = [socks EXCEPT ![protocol] = Tail(@)],
           NEW channels, channels = ChannelsOf(protocol, Head(socks[protocol])),
           NEW q, q = IF channels = <<>> THEN p ELSE FeedUniverse(p, channels)
    PROVE  Bounded(q) /\ EthernetSession(q, socks_, con, told, m)
<1>1. PICK n, show, cur : Polled(p, socks[con.speaks], con, told, m, n, show, cur)
  BY DEF EthernetSession
<1> DEFINE own == socks[con.speaks]
           own_ == socks_[con.speaks]
           len == Len(own)
<1>2. /\ \A r \in Protocols : socks[r] \in Seq(Packets)
      /\ \A r \in Protocols \ {protocol} : socks_[r] = socks[r]
      /\ socks_[protocol] = Tail(socks[protocol])
  OBVIOUS
<1>3. /\ n \in Nat /\ cur \in 0 .. n /\ n = cur + len /\ len \in Nat
      /\ show \in [Blocks -> [0 .. n -> Nat]]
      /\ \A j \in 1 .. len, b \in Blocks :
            Draws(con.speaks, own[j], show[b][cur + j - 1], show[b][cur + j], b)
  <2>1. len \in Nat
    BY <1>2
  <2> QED
    BY <1>1, <2>1 DEF Polled
<1>4. p.state = "WaitStart" /\ Head(socks[protocol]) \in Packets
  BY <1>2 DEF EthernetSession
<1>5. channels \in Seq(Nat)
  BY <1>4, PacketRead
<1>6. /\ Bounded(q) /\ q.state = "WaitStart"
      /\ \A b \in Blocks :
            q.buf[b + 1] = IF b <= Len(channels) THEN channels[b] ELSE p.buf[b + 1]
  <2>1. CASE channels = <<>>
    <3>1. \A b \in Blocks : ~(b <= Len(channels))
      <4>1. Len(channels) = 0
        BY <2>1
      <4> QED
        BY <4>1, BlocksFit
    <3> QED
      BY <1>4, <2>1, <3>1
  <2>2. CASE channels # <<>>
    <3>1. q = FeedUniverse(p, channels)
      BY <2>2
    <3>2. LET r == FeedUniverse(p, channels)
           IN  /\ Bounded(r) /\ r.state = "WaitStart"
               /\ \A b \in Blocks :
                     r.buf[b + 1] = IF b <= Len(channels) THEN channels[b] ELSE p.buf[b + 1]
      BY <1>4, <1>5, UniverseFed
    <3> QED
      BY <3>1, <3>2
  <2> QED
    BY <2>1, <2>2
<1> HIDE DEF len
<1>7. CASE protocol # con.speaks
  <2>1. own_ = own /\ Head(socks[protocol]) = socks[protocol][1]
        /\ 1 \in 1 .. Len(socks[protocol])
    BY <1>2, <1>7
  <2>2. channels = <<>>
    BY <1>7, <2>1 DEF EthernetSession
  <2>3. q = p
    BY <2>2
  <2>4. ASSUME NEW r \in Protocols \ {con.speaks}, NEW j \in 1 .. Len(socks_[r])
        PROVE  ChannelsOf(r, socks_[r][j]) = <<>>
    <3>1. CASE r = protocol
      <4>1. socks_[r] = Tail(socks[r]) /\ socks[r] \in Seq(Packets) /\ socks[r] # <<>>
        BY <1>2, <3>1
      <4>2. j + 1 \in 1 .. Len(socks[r]) /\ socks_[r][j] = socks[r][j + 1]
        BY <4>1
      <4> QED
        BY <4>2 DEF EthernetSession
    <3>2. CASE r # protocol
      BY <1>2, <3>2 DEF EthernetSession
    <3> QED
      BY <3>1, <3>2
  <2> QED
    BY <1>1, <1>6, <2>1, <2>3, <2>4 DEF EthernetSession
<1>8. CASE protocol = con.speaks
  <2>1. /\ own \in Seq(Packets) /\ own # <<>> /\ own_ = Tail(own)
        /\ Head(own) = own[1]
    BY <1>2, <1>8
  <2>2. /\ len >= 1 /\ Len(own_) = len - 1
        /\ \A j \in 1 .. len - 1 : own_[j] = own[j + 1]
    BY <2>1, WithoutFirst DEF len
  <2>3. cur < n /\ cur + 1 \in 0 .. n /\ n = (cur + 1) + (len - 1)
        /\ 1 \in 1 .. len /\ cur + 1 - 1 = cur
    BY <1>3, <2>2
  <2>4. ASSUME NEW j \in 1 .. len - 1, NEW b \in Blocks
        PROVE  Draws(con.speaks, own_[j], show[b][(cur + 1) + j - 1],
                     show[b][(cur + 1) + j], b)
    <3>1. /\ j + 1 \in 1 .. len /\ cur + (j + 1) - 1 = (cur + 1) + j - 1
          /\ cur + (j + 1) = (cur + 1) + j
      BY <1>3, <2>2
    <3> QED
      BY <1>3, <2>2, <3>1
  <2>5. ASSUME NEW b \in Blocks
        PROVE  /\ q.buf[b + 1] = show[b][cur + 1]
               /\ Repaid(told.owed[b], m[b].armed, con.universe[b], n, show[b], cur + 1)
    <3>1. /\ p.buf[b + 1] = show[b][cur]
          /\ Repaid(told.owed[b], m[b].armed, con.universe[b], n, show[b], cur)
      BY <1>1 DEF Polled
    <3>2. told.owed[b] \in Int
      OBVIOUS
    <3>3. Repaid(told.owed[b], m[b].armed, con.universe[b], n, show[b], cur + 1)
      BY <1>3, <2>3, <3>1, <3>2, RepaidOnward
    <3>4. Draws(con.speaks, own[1], show[b][cur], show[b][cur + 1], b)
      BY <1>3, <2>3
    <3>5. channels = ChannelsOf(con.speaks, own[1])
      BY <1>8, <2>1
    <3> QED
      BY <1>6, <3>1, <3>3, <3>4, <3>5 DEF Draws
  <2>6. Polled(q, own_, con, told, m, n, show, cur + 1)
    BY <1>3, <2>2, <2>3, <2>4, <2>5 DEF Polled
  <2>7. \A r \in Protocols \ {con.speaks} : socks_[r] = socks[r]
    BY <1>2, <1>8
  <2> QED
    BY <1>6, <2>6, <2>7 DEF EthernetSession
<1> QED
  BY <1>6, <1>7, <1>8

LEMMA EthernetMaps ==
    ASSUME NEW units \in Nat, Bounded(parser_), sent.owed \in [Blocks -> Int],
           \A b \in Blocks : mapper[b].armed \in BOOLEAN /\ "armed" \in DOMAIN mapper[b],
           EthernetSession(parser_, sockets, console, sent, mapper),
           NEW m_, NEW told_, told_.cues = sent.cues,
           \A b \in Blocks : /\ m_[b] = MapperStep(b, units).m
                             /\ told_.owed[b] = sent.owed[b] - Pulses(MapperStep(b, units).events)
    PROVE  EthernetSession(parser_, sockets, console, told_, m_)
<1>1. PICK n, show, cur :
         Polled(parser_, sockets[console.speaks], console, sent, mapper, n, show, cur)
  BY DEF EthernetSession
<1>2. n \in Nat /\ cur \in 0 .. n
  BY <1>1 DEF Polled
<1>3. ASSUME NEW b \in Blocks
      PROVE  Repaid(told_.owed[b], m_[b].armed, console.universe[b], n, show[b], cur)
  <2> DEFINE step == MapperStep(b, units)
  <2>1. /\ parser_.buf[b + 1] = show[b][cur]
        /\ Repaid(sent.owed[b], mapper[b].armed, console.universe[b], n, show[b], cur)
    BY <1>1 DEF Polled
  <2>2. sent.owed[b] \in Int
    OBVIOUS
  <2>3. Repaid(sent.owed[b] - Pulses(step.events), step.m.armed, console.universe[b], n,
               show[b], cur)
    BY <1>2, <2>1, <2>2, MapperKeeps
  <2> QED
    BY <2>3
<1>4. Polled(parser_, sockets[console.speaks], console, told_, m_, n, show, cur)
  BY <1>1, <1>3 DEF Polled
<1> QED
  BY <1>4 DEF EthernetSession

LEMMA EthernetIsWell ==
    ASSUME NEW p, NEW socks, NEW con, NEW told, NEW m, EthernetSession(p, socks, con, told, m),
           told.owed \in [Blocks -> Int]
    PROVE  /\ Len(told.cues) = con.cues
           /\ \A b \in Blocks : told.owed[b] >= 0
<1>1. PICK n, show, cur : Polled(p, socks[con.speaks], con, told, m, n, show, cur)
  BY DEF EthernetSession
<1>2. n \in Nat /\ cur \in 0 .. n
  BY <1>1 DEF Polled
<1>3. ASSUME NEW b \in Blocks PROVE told.owed[b] >= 0
  <2>1. Repaid(told.owed[b], m[b].armed, con.universe[b], n, show[b], cur)
    BY <1>1 DEF Polled
  <2>2. told.owed[b] \in Int
    OBVIOUS
  <2> QED
    BY <1>2, <2>1, <2>2, RepaidIsOwed
<1>4. Len(told.cues) = con.cues
  BY DEF EthernetSession
<1> QED
  BY <1>3, <1>4

-----------------------------------------------------------------------------
(* The bridge.                                                             *)

\* The inductive invariant of both properties: the types, what they say of a
\* session that lost no byte, and how far that session has come.
BridgeTypes ==
    /\ bridge \in [wire : {"usb", "ethernet"}, active_ : BOOLEAN, seen : BOOLEAN]
    /\ Bounded(parser_)
    /\ \A b \in Blocks : mapper[b].armed \in BOOLEAN /\ "armed" \in DOMAIN mapper[b]
    /\ line \in Seq(Nat)
    /\ (bridge.wire = "usb" /\ bridge.active_) \/ line = <<>>
    /\ sockets \in [Protocols -> Seq(Packets)]
    /\ bridge.wire = "usb" => sockets = OpenSockets
    /\ console \in [universe : Universes, cues : Nat, speaks : Protocols]
    /\ upset \in [count : Nat, intact : BOOLEAN]
    /\ bridge.wire # "usb" => upset.intact
    /\ {"cues", "wash", "owed"} \subseteq DOMAIN sent
    /\ sent.cues \in Seq(Nat) /\ sent.owed \in [Blocks -> Int]

SessionKept ==
    IF bridge.wire = "usb" THEN UsbSession(parser_, line, console, sent, mapper)
    ELSE EthernetSession(parser_, sockets, console, sent, mapper)

BridgeInv ==
    /\ BridgeTypes
    /\ upset.intact => InOrder(sent.cues) /\ \A b \in Blocks : sent.owed[b] >= 0
    /\ upset.intact /\ bridge.active_ => SessionKept

LEMMA FreshIsTyped ==
    /\ {"cues", "wash", "owed"} \subseteq DOMAIN FreshSession
    /\ FreshSession.cues = <<>> /\ FreshSession.cues \in Seq(Nat)
    /\ FreshSession.owed \in [Blocks -> Int]
    /\ InOrder(FreshSession.cues) /\ \A b \in Blocks : FreshSession.owed[b] >= 0
<1>1. /\ {"cues", "wash", "owed"} \subseteq DOMAIN FreshSession
      /\ FreshSession.cues = <<>>
      /\ FreshSession.owed = [b \in Blocks |-> 1]
  BY DEF FreshSession
<1>2. <<>> \in Seq(Nat) /\ InOrder(<<>>)
  BY DEF InOrder
<1> QED
  BY <1>1, <1>2

LEMMA SocketsOpen ==
    OpenSockets \in [Protocols -> Seq(Packets)] /\ \A q \in Protocols : OpenSockets[q] = <<>>
BY DEF OpenSockets

LEMMA BridgeStarts == DmxInit => BridgeInv
<1> SUFFICES ASSUME DmxInit PROVE BridgeInv
  OBVIOUS
<1>1. bridge \in [wire : {"usb", "ethernet"}, active_ : BOOLEAN, seen : BOOLEAN]
      /\ ~bridge.active_
  BY DEF DmxInit
<1>2. Bounded(parser_) /\ line = <<>> /\ line \in Seq(Nat)
  BY NewIsBounded DEF DmxInit
<1>3. \A b \in Blocks : mapper[b].armed \in BOOLEAN /\ "armed" \in DOMAIN mapper[b]
  BY DEF DmxInit, NewMapper
<1>4. sockets \in [Protocols -> Seq(Packets)] /\ sockets = OpenSockets
  BY SocketsOpen DEF DmxInit
<1>5. console \in [universe : Universes, cues : Nat, speaks : Protocols]
  BY BridgeAssumption DEF DmxInit, Protocols
<1>6. upset \in [count : Nat, intact : BOOLEAN] /\ upset.intact
  BY DEF DmxInit
<1>7. sent = FreshSession
  BY DEF DmxInit
<1>8. BridgeTypes
  BY <1>1, <1>2, <1>3, <1>4, <1>5, <1>6, <1>7, FreshIsTyped DEF BridgeTypes
<1> QED
  BY <1>1, <1>7, <1>8, FreshIsTyped DEF BridgeInv

LEMMA LookChanges ==
    ASSUME BridgeInv, ChangeLook PROVE BridgeInv'
<1>1. PICK u \in Universes :
        /\ console' = [console EXCEPT !.universe = u]
        /\ sent' = [sent EXCEPT !.owed = [b \in Blocks |->
              IF Triggered(u[b]) /\ ~Triggered(console.universe[b])
              THEN @[b] + 1 ELSE @[b]]]
  BY DEF ChangeLook
<1>2. BridgeTypes
  BY DEF BridgeInv
<1>3. upset' = [count |-> upset.count + 1, intact |-> upset.intact]
      /\ UNCHANGED <<bridge, parser_, mapper, line, sockets>>
  BY DEF ChangeLook, Upset
<1>4. /\ console' \in [universe : Universes, cues : Nat, speaks : Protocols]
      /\ console'.universe = u /\ console'.cues = console.cues
      /\ console'.speaks = console.speaks
  BY <1>1, <1>2 DEF BridgeTypes
<1>5. /\ {"cues", "wash", "owed"} \subseteq DOMAIN sent' /\ sent'.cues = sent.cues
      /\ sent'.owed = [b \in Blocks |->
              IF Triggered(u[b]) /\ ~Triggered(console.universe[b])
              THEN sent.owed[b] + 1 ELSE sent.owed[b]]
  BY <1>1, <1>2 DEF BridgeTypes
<1>6. /\ sent'.owed \in [Blocks -> Int]
      /\ \A b \in Blocks : /\ sent'.owed[b] = sent.owed[b] + Rise(console.universe[b], u[b])
                           /\ sent'.owed[b] >= sent.owed[b]
  <2>1. \A b \in Blocks : sent.owed[b] \in Int
    BY <1>2 DEF BridgeTypes
  <2> QED
    BY <1>5, <2>1 DEF Rise
<1>7. upset' \in [count : Nat, intact : BOOLEAN] /\ upset'.intact = upset.intact
  BY <1>2, <1>3 DEF BridgeTypes
<1>8. BridgeTypes'
  BY <1>2, <1>3, <1>4, <1>5, <1>6, <1>7 DEF BridgeTypes
<1>9. upset'.intact => InOrder(sent'.cues) /\ \A b \in Blocks : sent'.owed[b] >= 0
  <2>1. \A b \in Blocks : sent.owed[b] \in Int /\ sent'.owed[b] \in Int
    BY <1>2, <1>6 DEF BridgeTypes
  <2> QED
    BY <1>5, <1>6, <1>7, <2>1 DEF BridgeInv
<1>10. ASSUME upset'.intact, bridge'.active_ PROVE SessionKept'
  <2>1. SessionKept /\ sent.owed \in [Blocks -> Int]
    BY <1>2, <1>3, <1>7, <1>10 DEF BridgeInv, BridgeTypes
  <2>2. CASE bridge.wire = "usb"
    <3>1. UsbSession(parser_, line, console, sent, mapper)
      BY <2>1, <2>2 DEF SessionKept
    <3>2. UsbSession(parser_, line, console', sent', mapper)
      BY <1>4, <1>5, <1>6, <2>1, <3>1, UsbLooks
    <3> QED
      BY <1>3, <2>2, <3>2 DEF SessionKept
  <2>3. CASE bridge.wire # "usb"
    <3>1. EthernetSession(parser_, sockets, console, sent, mapper)
      BY <2>1, <2>3 DEF SessionKept
    <3>2. EthernetSession(parser_, sockets, console', sent', mapper)
      BY <1>4, <1>5, <1>6, <2>1, <3>1, EthernetLooks
    <3> QED
      BY <1>3, <2>3, <3>2 DEF SessionKept
  <2> QED
    BY <2>2, <2>3
<1> QED
  BY <1>8, <1>9, <1>10 DEF BridgeInv

\* The console writes to the line.
LEMMA FrameArrives ==
    ASSUME BridgeInv, SendUniverse \/ SendCue PROVE BridgeInv'
<1>1. BridgeTypes
  BY DEF BridgeInv
<1> DEFINE k == console.cues
           u == console.universe
<1>2. /\ k \in Nat /\ u \in Universes /\ u \in Seq(Nat) /\ Len(u) < PayloadBufSize
      /\ line \in Seq(Nat) /\ sent.owed \in [Blocks -> Int]
  BY <1>1, UniverseBytes DEF BridgeTypes
<1>3. PICK f :
        /\ bridge.active_ /\ bridge.wire = "usb" /\ line' = line \o f
        /\ \/ f = UniverseFrame(u) /\ console' = console
           \/ f = CueFrame(k + 1) /\ console' = [console EXCEPT !.cues = @ + 1]
  BY DEF SendUniverse, SendCue, Arrives
<1>4. UNCHANGED <<bridge, parser_, mapper, sockets, upset, sent>>
  BY DEF SendUniverse, SendCue
<1>5. f \in Seq(Nat)
  <2>1. UniverseFrame(u) = Wrapped(u)
    BY DEF UniverseFrame, Wrapped
  <2>2. UniverseFrame(u) \in Seq(Nat)
    BY <1>2, <2>1, WrapIsFramed DEF UniverseFramed, Framed
  <2>3. CueFrame(k + 1) \in Seq(Nat)
    <3>1. k + 1 \in Nat
      BY <1>2
    <3>2. LET g == CueFrame(k + 1)
          IN  Framed(g)
      BY <3>1, CueIsFramed
    <3> QED
      BY <3>2 DEF Framed
  <2> QED
    BY <1>3, <2>2, <2>3
<1>6. Appended(line', line, f)
  BY <1>2, <1>3, <1>5, AppendedIs
<1>7. /\ console' \in [universe : Universes, cues : Nat, speaks : Protocols]
      /\ console'.universe = u
      /\ \/ f = UniverseFrame(u) /\ console'.cues = k
         \/ f = CueFrame(k + 1) /\ console'.cues = k + 1
  <2>1. console \in [universe : Universes, cues : Nat, speaks : Protocols]
    BY <1>1 DEF BridgeTypes
  <2>2. CASE f = UniverseFrame(u) /\ console' = console
    BY <2>1, <2>2
  <2>3. CASE f = CueFrame(k + 1) /\ console' = [console EXCEPT !.cues = @ + 1]
    <3>1. /\ console' \in [universe : Universes, cues : Nat, speaks : Protocols]
          /\ console'.universe = u /\ console'.cues = k + 1
      BY <2>1, <2>3
    <3> QED
      BY <2>3, <3>1
  <2> QED
    BY <1>3, <2>2, <2>3
<1>8. BridgeTypes'
  <2>1. line' \in Seq(Nat)
    BY <1>6 DEF Appended
  <2> QED
    BY <1>1, <1>3, <1>4, <1>7, <2>1 DEF BridgeTypes
<1>9. ASSUME upset'.intact, bridge'.active_ PROVE SessionKept'
  <2>1. UsbSession(parser_, line, console, sent, mapper)
    BY <1>3, <1>4, <1>9 DEF BridgeInv, SessionKept
  <2>2. UsbSession(parser_, line', console', sent, mapper)
    BY <1>2, <1>6, <1>7, <2>1, UsbWrites
  <2> QED
    BY <1>3, <1>4, <2>2 DEF SessionKept
<1> QED
  BY <1>4, <1>8, <1>9 DEF BridgeInv

LEMMA ByteLost ==
    ASSUME BridgeInv, LoseByte PROVE BridgeInv'
<1>1. BridgeTypes
  BY DEF BridgeInv
<1>2. /\ line # <<>> /\ line' = Tail(line)
      /\ UNCHANGED <<bridge, parser_, mapper, sockets, console, sent>>
      /\ upset' = [count |-> upset.count + 1, intact |-> FALSE]
  BY DEF LoseByte, Upset
<1>3. line' \in Seq(Nat) /\ bridge.wire = "usb" /\ bridge.active_
  BY <1>1, <1>2 DEF BridgeTypes
<1>4. upset' \in [count : Nat, intact : BOOLEAN] /\ ~upset'.intact
  BY <1>1, <1>2 DEF BridgeTypes
<1>5. BridgeTypes'
  BY <1>1, <1>2, <1>3, <1>4 DEF BridgeTypes
<1> QED
  BY <1>4, <1>5 DEF BridgeInv

LEMMA DeliveredIsKept ==
    ASSUME BridgeInv, NEW protocol \in Protocols, NEW packet \in Packets,
           Delivered(protocol, packet),
           upset' \in [count : Nat, intact : BOOLEAN], upset'.intact = upset.intact,
           protocol # console.speaks => ChannelsOf(protocol, packet) = <<>>,
           \A b \in Blocks : b <= Len(ChannelsOf(protocol, packet)) =>
              ChannelsOf(protocol, packet)[b] = console.universe[b]
    PROVE  BridgeInv'
<1>1. BridgeTypes
  BY DEF BridgeInv
<1>2. /\ bridge.active_ /\ bridge.wire # "usb"
      /\ sockets' = [sockets EXCEPT ![protocol] = Append(@, packet)]
      /\ UNCHANGED <<bridge, parser_, mapper, line, console, sent>>
  BY DEF Delivered
<1>3. /\ sockets \in [Protocols -> Seq(Packets)] /\ console.speaks \in Protocols
      /\ sent.owed \in [Blocks -> Int]
  BY <1>1 DEF BridgeTypes
<1>4. sockets' \in [Protocols -> Seq(Packets)]
  <2>1. Append(sockets[protocol], packet) \in Seq(Packets)
    BY <1>3
  <2> QED
    BY <1>2, <1>3, <2>1
<1>5. BridgeTypes'
  BY <1>1, <1>2, <1>4 DEF BridgeTypes
<1>6. ASSUME upset'.intact, bridge'.active_ PROVE SessionKept'
  <2>1. EthernetSession(parser_, sockets, console, sent, mapper)
    BY <1>2, <1>6 DEF BridgeInv, SessionKept
  <2>2. EthernetSession(parser_, sockets', console, sent, mapper)
    BY <1>2, <1>3, <2>1, PacketArrives
  <2> QED
    BY <1>2, <2>2 DEF SessionKept
<1> QED
  BY <1>2, <1>5, <1>6 DEF BridgeInv

LEMMA NothingReached ==
    ASSUME NEW channels, channels = <<>>
    PROVE  \A b \in Blocks : ~(b <= Len(channels))
<1>1. Len(channels) = 0
  OBVIOUS
<1> QED
  BY <1>1, BlocksFit

LEMMA StillIntact ==
    ASSUME upset \in [count : Nat, intact : BOOLEAN], Upset(upset.intact)
    PROVE  upset' \in [count : Nat, intact : BOOLEAN] /\ upset'.intact = upset.intact
BY DEF Upset

\* What the console sends, whole or with a wrong count, is what it shows as
\* far as it goes; what the others send is refused.
LEMMA PacketSent ==
    ASSUME BridgeInv, SendPacket \/ StrayPacket \/ MiscountedPacket PROVE BridgeInv'
<1>1. BridgeTypes
  BY DEF BridgeInv
<1>2. /\ upset \in [count : Nat, intact : BOOLEAN] /\ console.speaks \in Protocols
      /\ console.universe \in Universes
  BY <1>1 DEF BridgeTypes
<1>3. ASSUME NEW u \in Universes, NEW protocol \in Protocols
      PROVE  UniversePacket(u, protocol) \in Packets
  <2>1. u \in Seq(Nat)
    BY UniverseBytes
  <2>2. Len(u) \in Nat
    BY <2>1
  <2> QED
    BY <2>1, <2>2 DEF UniversePacket, Packets
<1>4. ASSUME NEW packet \in Packets, NEW rest \in Seq(Nat),
             Appended(packet.channels, console.universe, rest), NEW b \in Blocks,
             b <= Len(ChannelsOf(console.speaks, packet))
      PROVE  ChannelsOf(console.speaks, packet)[b] = console.universe[b]
  <2>1. b \in 1 .. Len(console.universe) /\ b \in Nat /\ b >= 1
    BY <1>2, UniverseBytes DEF Blocks
  <2>2. /\ ChannelsOf(console.speaks, packet) \in Seq(Nat)
        /\ \A i \in 1 .. Len(ChannelsOf(console.speaks, packet)) :
              ChannelsOf(console.speaks, packet)[i] = packet.channels[i]
    BY <1>2, PacketRead
  <2>3. Len(ChannelsOf(console.speaks, packet)) \in Nat
    BY <2>2
  <2>4. b \in 1 .. Len(ChannelsOf(console.speaks, packet))
    BY <1>4, <2>1, <2>3
  <2>5. packet.channels[b] = console.universe[b]
    BY <1>4, <2>1 DEF Appended
  <2> QED
    BY <2>2, <2>4, <2>5
<1>5. CASE SendPacket
  <2> DEFINE packet == UniversePacket(console.universe, console.speaks)
  <2>1. packet \in Packets /\ Delivered(console.speaks, packet) /\ upset' = upset
    BY <1>2, <1>3, <1>5 DEF SendPacket
  <2>2. Appended(packet.channels, console.universe, <<>>) /\ <<>> \in Seq(Nat)
    <3> DEFINE u == console.universe
    <3>1. packet.channels = u /\ u \in Seq(Nat)
      BY <1>2, UniverseBytes DEF UniversePacket
    <3> HIDE DEF packet, u
    <3>2. packet.channels = u \o <<>> /\ <<>> \in Seq(Nat)
      BY <3>1
    <3>3. Appended(packet.channels, u, <<>>)
      BY <3>1, <3>2, AppendedIs
    <3> QED
      BY <3>2, <3>3 DEF u
  <2> HIDE DEF packet
  <2> QED
    BY <1>2, <1>4, <2>1, <2>2, DeliveredIsKept
<1>6. CASE StrayPacket
  <2>1. PICK protocol \in Protocols, u \in Universes :
          \E fault \in {"universe", IF protocol = "sacn" THEN "start code" ELSE "opcode"} :
             Delivered(protocol, [UniversePacket(u, protocol) EXCEPT !.fault = fault])
    BY <1>6 DEF StrayPacket
  <2>2. PICK fault \in {"universe", IF protocol = "sacn" THEN "start code" ELSE "opcode"} :
             Delivered(protocol, [UniversePacket(u, protocol) EXCEPT !.fault = fault])
    BY <2>1
  <2> DEFINE packet == [UniversePacket(u, protocol) EXCEPT !.fault = fault]
  <2>3. packet \in Packets /\ packet.fault = fault
    BY <1>3 DEF Packets
  <2>4. upset' \in [count : Nat, intact : BOOLEAN] /\ upset'.intact = upset.intact
    BY <1>2, <1>6, StillIntact DEF StrayPacket
  <2> HIDE DEF packet
  <2>5. ChannelsOf(protocol, packet) = <<>>
    BY <2>3 DEF ChannelsOf, ArtnetChannels, SacnChannels, Protocols
  <2>6. \A b \in Blocks : ~(b <= Len(ChannelsOf(protocol, packet)))
    BY <2>5, NothingReached
  <2>7. Delivered(protocol, packet)
    BY <2>2 DEF packet
  <2> QED
    BY <2>3, <2>4, <2>5, <2>6, <2>7, DeliveredIsKept
<1>7. CASE MiscountedPacket
  <2>1. PICK n \in {0, 1, Len(console.universe) + 2}, more \in {<<>>, <<0>>} :
          Delivered(console.speaks, [fault |-> "none", count |-> n,
                                     channels |-> console.universe \o more])
    BY <1>7 DEF MiscountedPacket
  <2> DEFINE all == console.universe \o more
             packet == [fault |-> "none", count |-> n, channels |-> all]
  <2>2. n \in Nat /\ more \in Seq(Nat)
    <3>1. Len(console.universe) \in Nat
      BY <1>2, UniverseBytes, BlocksFit
    <3>2. <<>> \in Seq(Nat) /\ <<0>> \in Seq(Nat)
      OBVIOUS
    <3>3. n \in Nat
      BY <3>1
    <3> QED
      BY <3>2, <3>3
  <2>3. Appended(all, console.universe, more)
    BY <1>2, <2>2, UniverseBytes, AppendedIs
  <2> HIDE DEF all
  <2>4. packet \in Packets /\ packet.channels = all
    BY <2>2, <2>3 DEF Packets, Appended
  <2>5. upset' \in [count : Nat, intact : BOOLEAN] /\ upset'.intact = upset.intact
    BY <1>2, <1>7 DEF MiscountedPacket, Upset
  <2>6. Delivered(console.speaks, packet)
    BY <2>1 DEF all
  <2> HIDE DEF packet
  <2>7. Appended(packet.channels, console.universe, more)
    BY <2>3, <2>4
  <2> QED
    BY <1>2, <1>4, <2>2, <2>4, <2>5, <2>6, <2>7, DeliveredIsKept
<1> QED
  BY <1>5, <1>6, <1>7

\* Of any byte, that of a session or one that is left when bytes were lost.
LEMMA MapperTyped ==
    ASSUME NEW b \in Blocks, NEW units \in Nat,
           mapper[b].armed \in BOOLEAN, "armed" \in DOMAIN mapper[b]
    PROVE  LET step == MapperStep(b, units)
           IN  /\ step.m.armed \in BOOLEAN /\ "armed" \in DOMAIN step.m
               /\ Pulses(step.events) \in {0, 1}
<1> DEFINE step == MapperStep(b, units)
           byte == DmxChannels(parser_)[b]
<1>1. CASE step = Processed(Aged(mapper[b], units), LookOf(byte))
  BY <1>1, FiresOnce
<1>2. CASE step = [m |-> Aged(mapper[b], units), events |-> <<>>]
  <2>1. step.m.armed = mapper[b].armed /\ "armed" \in DOMAIN step.m
    <3>1. step.m = Aged(mapper[b], units)
      BY <1>2
    <3>2. /\ Aged(mapper[b], units).armed = mapper[b].armed
          /\ DOMAIN Aged(mapper[b], units) = DOMAIN mapper[b]
      BY DEF Aged
    <3> QED
      BY <3>1, <3>2
  <2>2. Pulses(step.events) = 0
    BY <1>2, PulsesCounted
  <2> QED
    BY <2>1, <2>2
<1> QED
  BY <1>1, <1>2 DEF MapperStep

LEMMA BridgeEntered ==
    ASSUME BridgeInv, EnterBridge PROVE BridgeInv'
<1>1. BridgeTypes
  BY DEF BridgeInv
<1>2. /\ bridge' = [bridge EXCEPT !.active_ = TRUE, !.seen = FALSE]
      /\ mapper' = [b \in Blocks |-> NewMapper]
      /\ parser_' = ParserReset(parser_) /\ line' = <<>> /\ sockets' = OpenSockets
      /\ console' = [console EXCEPT !.cues = 0] /\ sent' = FreshSession
      /\ upset' = [count |-> upset.count + 1, intact |-> TRUE]
  BY DEF EnterBridge, Upset
<1>3. /\ bridge' \in [wire : {"usb", "ethernet"}, active_ : BOOLEAN, seen : BOOLEAN]
      /\ bridge'.wire = bridge.wire /\ upset' \in [count : Nat, intact : BOOLEAN]
  <2>1. /\ bridge \in [wire : {"usb", "ethernet"}, active_ : BOOLEAN, seen : BOOLEAN]
        /\ upset.count \in Nat
    BY <1>1 DEF BridgeTypes
  <2>2. bridge' = [wire |-> bridge.wire, active_ |-> TRUE, seen |-> FALSE]
    BY <1>2, <2>1
  <2>3. bridge.wire \in {"usb", "ethernet"}
    BY <2>1
  <2>4. bridge' \in [wire : {"usb", "ethernet"}, active_ : BOOLEAN, seen : BOOLEAN]
    BY <2>2, <2>3
  <2>5. bridge'.wire = bridge.wire
    BY <2>2
  <2>6. upset' \in [count : Nat, intact : BOOLEAN]
    BY <1>2, <2>1
  <2> QED
    BY <2>4, <2>5, <2>6
<1>4. \A b \in Blocks : mapper'[b].armed = TRUE /\ "armed" \in DOMAIN mapper'[b]
  BY <1>2 DEF NewMapper
<1>5. Bounded(parser_') /\ parser_'.state = "WaitStart"
  BY <1>1, <1>2, NewIsBounded DEF BridgeTypes
<1>6. /\ console' \in [universe : Universes, cues : Nat, speaks : Protocols]
      /\ console'.cues = 0 /\ console'.speaks \in Protocols
  BY <1>1, <1>2 DEF BridgeTypes
<1>7. line' = <<>> /\ line' \in Seq(Nat)
  BY <1>2
<1>8. BridgeTypes'
  BY <1>2, <1>3, <1>4, <1>5, <1>6, <1>7, FreshIsTyped, SocketsOpen DEF BridgeTypes
<1>9. SessionKept'
  <2>1. UsbSession(parser_', line', console', sent', mapper')
    <3>1. UsbSession(parser_', <<>>, console', FreshSession, mapper')
      BY <1>4, <1>5, <1>6, UsbStarts
    <3> QED
      BY <1>2, <3>1
  <2>2. EthernetSession(parser_', sockets', console', sent', mapper')
    <3>1. EthernetSession(parser_', OpenSockets, console', FreshSession, mapper')
      BY <1>4, <1>5, <1>6, EthernetStarts
    <3> QED
      BY <1>2, <3>1
  <2> QED
    BY <2>1, <2>2 DEF SessionKept
<1> QED
  BY <1>2, <1>8, <1>9, FreshIsTyped DEF BridgeInv

LEMMA BridgeLeft ==
    ASSUME BridgeInv, ExitBridge PROVE BridgeInv'
<1>1. BridgeTypes
  BY DEF BridgeInv
<1>2. /\ bridge' = [bridge EXCEPT !.active_ = FALSE] /\ line' = <<>>
      /\ sent' = [sent EXCEPT !.wash = [b \in Blocks |-> NoWash]]
      /\ UNCHANGED <<parser_, mapper, sockets, console, upset>>
  BY DEF ExitBridge
<1>3. /\ bridge' \in [wire : {"usb", "ethernet"}, active_ : BOOLEAN, seen : BOOLEAN]
      /\ bridge'.wire = bridge.wire /\ ~bridge'.active_
  BY <1>1, <1>2 DEF BridgeTypes
<1>4. /\ {"cues", "wash", "owed"} \subseteq DOMAIN sent'
      /\ sent'.cues = sent.cues /\ sent'.owed = sent.owed
  BY <1>1, <1>2 DEF BridgeTypes
<1>5. line' = <<>> /\ line' \in Seq(Nat)
  BY <1>2
<1>6. BridgeTypes'
  BY <1>1, <1>2, <1>3, <1>4, <1>5 DEF BridgeTypes
<1> QED
  BY <1>2, <1>3, <1>4, <1>6 DEF BridgeInv

LEMMA CuesTyped ==
    ASSUME NEW cues \in Seq(Nat), NEW x \in Nat, NEW due \in BOOLEAN, NEW label \in BOOLEAN,
           NEW all, all = cues \o (IF due THEN (IF label THEN <<x>> ELSE <<>>) ELSE <<>>)
    PROVE  all \in Seq(Nat)
<1>1. <<x>> \in Seq(Nat) /\ <<>> \in Seq(Nat)
  OBVIOUS
<1> QED
  BY <1>1

LEMMA BytePolled ==
    ASSUME BridgeInv, PollByte PROVE BridgeInv'
<1>1. BridgeTypes
  BY DEF BridgeInv
<1> DEFINE q == Fed(parser_, Head(line))
           cues == sent.cues \o (IF Completes(parser_, Head(line)) THEN Handed(q) ELSE <<>>)
<1>2. /\ bridge.active_ /\ line # <<>> /\ line' = Tail(line) /\ parser_' = q
      /\ sent' = [sent EXCEPT !.cues = cues]
      /\ bridge' = [bridge EXCEPT !.seen = TRUE]
      /\ UNCHANGED <<mapper, sockets, console, upset>>
  BY DEF PollByte
<1>3. /\ bridge' \in [wire : {"usb", "ethernet"}, active_ : BOOLEAN, seen : BOOLEAN]
      /\ bridge'.wire = bridge.wire /\ bridge'.active_ /\ bridge.wire = "usb"
  BY <1>1, <1>2 DEF BridgeTypes
<1>4. line \in Seq(Nat) /\ Head(line) \in Nat /\ line' \in Seq(Nat)
  BY <1>1, <1>2 DEF BridgeTypes
<1>5. Bounded(parser_) /\ Bounded(q)
  BY <1>1, <1>4, FedIsBounded DEF BridgeTypes
<1>6. /\ {"cues", "wash", "owed"} \subseteq DOMAIN sent'
      /\ sent'.cues = cues /\ sent'.owed = sent.owed
  BY <1>1, <1>2 DEF BridgeTypes
<1> HIDE DEF q
<1>7. sent'.cues \in Seq(Nat)
  <2>1. q.buf[2] \in Nat
    <3>1. 2 \in 1 .. PayloadBufSize
      BY BlocksFit
    <3> QED
      BY <1>5, <3>1 DEF Bounded, Parsers
  <2>2. sent.cues \in Seq(Nat)
    BY <1>1 DEF BridgeTypes
  <2> DEFINE due == Completes(parser_, Head(line))
             label == ~LastWasDmxPacket(q) /\ q.last_label = LabelEspNow
  <2>3. due \in BOOLEAN /\ label \in BOOLEAN
    BY DEF Completes, LastWasDmxPacket
  <2>4. cues = sent.cues \o (IF due THEN (IF label THEN <<q.buf[2]>> ELSE <<>>) ELSE <<>>)
    BY DEF Handed
  <2> HIDE DEF due, label, cues
  <2> QED
    BY <1>6, <2>1, <2>2, <2>3, <2>4, CuesTyped
<1>8. BridgeTypes'
  BY <1>1, <1>2, <1>3, <1>4, <1>5, <1>6, <1>7 DEF BridgeTypes
<1>9. ASSUME upset'.intact
      PROVE  /\ InOrder(sent'.cues) /\ \A b \in Blocks : sent'.owed[b] >= 0
             /\ SessionKept'
  <2>1. /\ UsbSession(parser_, line, console, sent, mapper) /\ InOrder(sent.cues)
        /\ \A b \in Blocks : sent.owed[b] >= 0
    BY <1>2, <1>3, <1>9 DEF BridgeInv, SessionKept
  <2>2. sent.cues \in Seq(Nat) /\ sent.owed \in [Blocks -> Int]
    BY <1>1 DEF BridgeTypes
  <2>3. UsbSession(q, line', console, sent', mapper) /\ InOrder(sent'.cues)
    <3>1. sent'.cues = PassedOn(sent.cues, parser_, Head(line))
      BY <1>6 DEF q, PassedOn
    <3>2. /\ UsbSession(Fed(parser_, Head(line)), Tail(line), console, sent', mapper)
          /\ InOrder(sent'.cues)
      BY ZenonT(60), <1>2, <1>5, <1>6, <2>1, <2>2, <3>1, UsbPolls
    <3> QED
      BY <1>2, <3>2 DEF q
  <2> QED
    BY <1>2, <1>3, <1>6, <2>1, <2>3 DEF SessionKept
<1> QED
  BY <1>8, <1>9 DEF BridgeInv

LEMMA SocketPolled ==
    ASSUME BridgeInv, NEW protocol \in Protocols, PollPacket(protocol) PROVE BridgeInv'
<1>1. BridgeTypes
  BY DEF BridgeInv
<1> DEFINE channels == ChannelsOf(protocol, Head(sockets[protocol]))
<1>2. /\ bridge.active_ /\ sockets[protocol] # <<>>
      /\ sockets' = [sockets EXCEPT ![protocol] = Tail(@)]
      /\ UNCHANGED <<mapper, line, console, upset, sent>>
      /\ IF channels = <<>> THEN UNCHANGED <<parser_, bridge>>
         ELSE /\ parser_' = FeedUniverse(parser_, channels)
              /\ bridge' = [bridge EXCEPT !.seen = TRUE]
  BY DEF PollPacket
<1>3. /\ sockets \in [Protocols -> Seq(Packets)] /\ bridge.wire # "usb"
      /\ Bounded(parser_) /\ console.speaks \in Protocols /\ sent.owed \in [Blocks -> Int]
  BY <1>1, <1>2, SocketsOpen DEF BridgeTypes
<1>4. /\ bridge' \in [wire : {"usb", "ethernet"}, active_ : BOOLEAN, seen : BOOLEAN]
      /\ bridge'.wire = bridge.wire /\ bridge'.active_
  <2>1. bridge \in [wire : {"usb", "ethernet"}, active_ : BOOLEAN, seen : BOOLEAN]
    BY <1>1 DEF BridgeTypes
  <2>2. bridge' = bridge \/ bridge' = [bridge EXCEPT !.seen = TRUE]
    BY <1>2
  <2> QED
    BY <1>2, <2>1, <2>2
<1>5. parser_' = IF channels = <<>> THEN parser_ ELSE FeedUniverse(parser_, channels)
  BY <1>2
<1>6. sockets' \in [Protocols -> Seq(Packets)]
  <2>1. Tail(sockets[protocol]) \in Seq(Packets)
    BY <1>2, <1>3
  <2> QED
    BY <1>2, <1>3, <2>1
<1>7. /\ EthernetSession(parser_, sockets, console, sent, mapper) /\ InOrder(sent.cues)
      /\ \A b \in Blocks : sent.owed[b] >= 0
  BY <1>1, <1>2, <1>3 DEF BridgeInv, BridgeTypes, SessionKept
<1>8. /\ Bounded(parser_')
      /\ EthernetSession(parser_', sockets', console, sent, mapper)
  BY ZenonT(60), <1>2, <1>3, <1>5, <1>7, PacketPolled
<1>9. BridgeTypes'
  <2>1. line = <<>> /\ line \in Seq(Nat)
    BY <1>1, <1>3 DEF BridgeTypes
  <2> HIDE DEF channels
  <2> QED
    BY <1>1, <1>2, <1>3, <1>4, <1>6, <1>8, <2>1 DEF BridgeTypes
<1>10. SessionKept'
  BY <1>2, <1>3, <1>4, <1>8 DEF SessionKept
<1> QED
  BY <1>2, <1>7, <1>9, <1>10 DEF BridgeInv

LEMMA MappersRun ==
    ASSUME BridgeInv, NEW units \in 0 .. 1, RunMappers(units) PROVE BridgeInv'
<1>1. BridgeTypes
  BY DEF BridgeInv
<1> DEFINE step(b) == MapperStep(b, units)
<1>2. /\ bridge.active_
      /\ UNCHANGED <<bridge, parser_, line, sockets, console, upset>>
      /\ mapper' = [b \in Blocks |-> step(b).m]
      /\ \E wash : sent' = [sent EXCEPT !.wash = wash, !.owed = [b \in Blocks |->
                               @[b] - Pulses(step(b).events)]]
  <2>1. PICK steps \in {[b \in Blocks |-> MapperStep(b, units)]} :
          /\ mapper' = [b \in Blocks |-> steps[b].m]
          /\ sent' = [sent EXCEPT
                !.wash = [b \in Blocks |->
                    IF EventsOf(steps[b].events, "wash") = {} THEN @[b]
                    ELSE steps[b].events[CHOOSE i \in EventsOf(steps[b].events, "wash") : TRUE]],
                !.owed = [b \in Blocks |->
                    @[b] - Cardinality(EventsOf(steps[b].events, "pulse"))]]
    BY DEF RunMappers
  <2>2. \A b \in Blocks : steps[b] = step(b)
    OBVIOUS
  <2>3. mapper' = [b \in Blocks |-> step(b).m]
    BY <2>1, <2>2
  <2>4. [b \in Blocks |-> sent.owed[b] - Cardinality(EventsOf(steps[b].events, "pulse"))]
          = [b \in Blocks |-> sent.owed[b] - Pulses(step(b).events)]
    BY <2>2 DEF Pulses
  <2> HIDE DEF step
  <2> QED
    BY <2>1, <2>3, <2>4 DEF RunMappers
<1>3. units \in Nat
  OBVIOUS
<1>4. /\ Bounded(parser_) /\ sent.owed \in [Blocks -> Int]
      /\ \A b \in Blocks : mapper[b].armed \in BOOLEAN /\ "armed" \in DOMAIN mapper[b]
  BY <1>1 DEF BridgeTypes
<1>5. \A b \in Blocks : /\ step(b).m.armed \in BOOLEAN /\ "armed" \in DOMAIN step(b).m
                        /\ Pulses(step(b).events) \in {0, 1}
  BY <1>3, <1>4, MapperTyped
<1>6. /\ {"cues", "wash", "owed"} \subseteq DOMAIN sent' /\ sent'.cues = sent.cues
      /\ sent'.owed = [b \in Blocks |-> sent.owed[b] - Pulses(step(b).events)]
  BY <1>1, <1>2 DEF BridgeTypes
<1>7. /\ \A b \in Blocks : /\ mapper'[b] = step(b).m
                           /\ sent'.owed[b] = sent.owed[b] - Pulses(step(b).events)
      /\ sent'.owed \in [Blocks -> Int]
  <2> HIDE DEF step
  <2>1. \A b \in Blocks : sent.owed[b] \in Int
    BY <1>4
  <2> QED
    BY <1>2, <1>5, <1>6, <2>1
<1>8. BridgeTypes'
  <2> HIDE DEF step
  <2> QED
    BY <1>1, <1>2, <1>5, <1>6, <1>7 DEF BridgeTypes
<1>9. ASSUME upset'.intact
      PROVE  /\ InOrder(sent'.cues) /\ \A b \in Blocks : sent'.owed[b] >= 0
             /\ SessionKept'
  <2>1. SessionKept /\ InOrder(sent.cues)
    BY <1>2, <1>9 DEF BridgeInv
  <2>2. CASE bridge.wire = "usb"
    <3>1. UsbSession(parser_, line, console, sent, mapper)
      BY <2>1, <2>2 DEF SessionKept
    <3>2. UsbSession(parser_, line, console, sent', mapper')
      BY <1>3, <1>4, <1>6, <1>7, <3>1, UsbMaps
    <3>3. \A b \in Blocks : sent'.owed[b] >= 0
      BY <1>7, <3>2, UsbIsWell
    <3> QED
      BY <1>2, <1>6, <2>1, <2>2, <3>2, <3>3 DEF SessionKept
  <2>3. CASE bridge.wire # "usb"
    <3>1. EthernetSession(parser_, sockets, console, sent, mapper)
      BY <2>1, <2>3 DEF SessionKept
    <3>2. EthernetSession(parser_, sockets, console, sent', mapper')
      BY <1>3, <1>4, <1>6, <1>7, <3>1, EthernetMaps
    <3>3. \A b \in Blocks : sent'.owed[b] >= 0
      BY <1>7, <3>2, EthernetIsWell
    <3> QED
      BY <1>2, <1>6, <2>1, <2>3, <3>2, <3>3 DEF SessionKept
  <2> QED
    BY <2>2, <2>3
<1> QED
  BY <1>8, <1>9 DEF BridgeInv

LEMMA BridgeKeeps == BridgeInv /\ [DmxNext]_dmxVars => BridgeInv'
<1> SUFFICES ASSUME BridgeInv, [DmxNext]_dmxVars PROVE BridgeInv'
  OBVIOUS
<1>1. CASE ChangeLook
  BY <1>1, LookChanges
<1>2. CASE SendUniverse \/ SendCue
  BY <1>2, FrameArrives
<1>3. CASE LoseByte
  BY <1>3, ByteLost
<1>4. CASE SendPacket \/ StrayPacket \/ MiscountedPacket
  BY <1>4, PacketSent
<1>5. CASE EnterBridge
  BY <1>5, BridgeEntered
<1>6. CASE ExitBridge
  BY <1>6, BridgeLeft
<1>7. CASE PollByte
  BY <1>7, BytePolled
<1>8. CASE \E protocol \in Protocols : PollPacket(protocol)
  BY <1>8, SocketPolled
<1>9. CASE \E units \in 0 .. 1 : RunMappers(units)
  BY <1>9, MappersRun
<1>10. CASE UNCHANGED dmxVars
  <2>1. /\ bridge' = bridge /\ parser_' = parser_ /\ mapper' = mapper /\ line' = line
        /\ sockets' = sockets /\ console' = console /\ upset' = upset /\ sent' = sent
    BY <1>10 DEF dmxVars
  <2> QED
    BY <2>1 DEF BridgeInv, BridgeTypes, SessionKept
<1> QED
  BY <1>1, <1>2, <1>3, <1>4, <1>5, <1>6, <1>7, <1>8, <1>9, <1>10 DEF DmxNext

LEMMA BridgeAlways == DmxSpec => []BridgeInv
BY BridgeStarts, BridgeKeeps, PTL DEF DmxSpec

\* "EVERY frame matters": as long as no byte of a session was lost, its cues
\* reach the radio in the order they were sent, none twice, and none is missing
\* once the line is drained: for any universes and cues, and however the loop
\* cuts the stream.
THEOREM EveryCueIsPassedOn == DmxSpec => []PassthroughKept
<1>1. BridgeInv => PassthroughKept
  <2> SUFFICES ASSUME BridgeInv, upset.intact
               PROVE  /\ sent.cues = [i \in DOMAIN sent.cues |-> i]
                      /\ bridge.active_ /\ line = <<>> /\ parser_.state = "WaitStart" =>
                            Len(sent.cues) = console.cues
    BY DEF PassthroughKept
  <2>1. sent.cues = [i \in DOMAIN sent.cues |-> i]
    BY DEF BridgeInv, InOrder
  <2>2. ASSUME bridge.active_, line = <<>> PROVE Len(sent.cues) = console.cues
    <3>1. SessionKept /\ sent.owed \in [Blocks -> Int]
      BY <2>2 DEF BridgeInv, BridgeTypes
    <3>2. CASE UsbSession(parser_, line, console, sent, mapper)
      BY <2>2, <3>1, <3>2, UsbIsWell
    <3>3. CASE EthernetSession(parser_, sockets, console, sent, mapper)
      BY <3>1, <3>3, EthernetIsWell
    <3> QED
      BY <3>1, <3>2, <3>3 DEF SessionKept
  <2> QED
    BY <2>1, <2>2
<1> QED
  BY <1>1, BridgeAlways, PTL

\* A trigger held high fires once, however often the loop runs the mappers over
\* the same universe or over one that is half replaced, for any looks, any
\* universes and any number of blocks, over the line and over the network.
THEOREM TriggersFireOnce == DmxSpec => []HeldTriggerFiresOnce
<1>1. BridgeInv => HeldTriggerFiresOnce
  BY DEF BridgeInv, HeldTriggerFiresOnce
<1> QED
  BY <1>1, BridgeAlways, PTL
=============================================================================
