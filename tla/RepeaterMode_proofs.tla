------------------------ MODULE RepeaterMode_proofs ------------------------
(***************************************************************************)
(* Proofs about the repeater, for any fleet, any setting and any clock: the*)
(* owner's channel is kept, a dead channel is left, an unsequenced frame is*)
(* never relayed, and as long as the ring holds every frame of the fleet   *)
(* none is taken up for relay twice between boots.                         *)
(*                                                                         *)
(* TuneInv: a set repeater is locked and tuned outside of the button's two *)
(* steps.  ClockInv: silence is never longer than the age of the last      *)
(* frame, and between two passes a locked auto repeater has been silent    *)
(* for less than Relock and the pass.  SlotInv: what waits in the slot or  *)
(* is in hand has a sequence number.  OnceInv: what was taken up is in the *)
(* ring.                                                                   *)
(***************************************************************************)
EXTENDS RepeaterMode

USE DEF vars, scanVars, slotVars, airVars

-----------------------------------------------------------------------------
(* The channel                                                             *)

\* A repeater set to a channel is locked, is on that channel but for the step
\* between storing the setting and retuning, and never hops.
TuneInv ==
    Running /\ channel_setting_ # 0 =>
        /\ locked_
        /\ pc # "apply" => active_channel_ = channel_setting_
        /\ pc # "hop"

\* Every frame, button and pass keeps the owner's channel.
LEMMA StepKeepsTune ==
    ASSUME TuneInv, [Next]_vars
    PROVE  TuneInv'
<1> USE DEF TuneInv, Running
<1>1. CASE Enter \/ PowerCut
  BY <1>1 DEF Enter, PowerCut
<1>2. ASSUME NEW s \in Sources, NEW seq \in Seqs, OnRecv(s, seq)
      PROVE  TuneInv'
  BY <1>2 DEF OnRecv, NoteTraffic
<1>3. CASE LoopBegin \/ Drain \/ SendRepeat \/ NoClick
  BY <1>3 DEF LoopBegin, Drain, SendRepeat, NoClick
<1>4. CASE DoubleClick
  <2>1. channel_setting_' # 0 => locked_'
    BY <1>4, Zenon DEF DoubleClick
  <2>2. pc' = "apply"
    BY <1>4 DEF DoubleClick
  <2> QED
    BY <2>1, <2>2
<1>5. CASE ApplySetting
  BY <1>5 DEF ApplySetting, TuneTo
<1>6. CASE ScanTest \/ Hop
  BY <1>6 DEF ScanTest, Hop
<1>7. CASE ClockTick \/ OnRecvCensus
  BY <1>7 DEF ClockTick, OnRecvCensus
<1>8. ASSUME NEW s \in Sources, DirectorStops(s)
      PROVE  TuneInv'
  BY <1>8 DEF DirectorStops
<1>9. CASE UNCHANGED vars
  BY <1>9
<1> HIDE DEF TuneInv
<1> QED
  BY <1>1, <1>2, <1>3, <1>4, <1>5, <1>6, <1>7, <1>8, <1>9 DEF Next, LoopTick, Hear

\* The owner's choice holds between passes, whatever arrived while the button
\* was handled (apply_channel_setting(), service_scan()).
THEOREM RepeaterHonoursSetting == Spec => []SettingHonoured
<1>1. Init => TuneInv
  BY DEF Init, TuneInv, Running
<1>2. TuneInv => SettingHonoured
  BY DEF TuneInv, SettingHonoured, Running
<1> QED
  BY <1>1, <1>2, StepKeepsTune, PTL DEF Spec

-----------------------------------------------------------------------------
(* Silence                                                                 *)

\* The clocks are numbers; silence began no earlier than the last frame; a
\* locked auto repeater that has tested its lock, or heard a frame since, has
\* been silent for less than Relock and the time the pass has taken.
ClockInv ==
    /\ rx_age \in Nat /\ silent \in Nat /\ lag \in 0 .. MaxLag
    /\ silent <= rx_age
    /\ pc \in {"idle", "hop"} /\ channel_setting_ = 0 /\ locked_ => silent < Relock + lag

\* A `now' older than the last frame reads as an age beyond every limit.
LEMMA StepKeepsClock ==
    ASSUME ClockInv, [Next]_vars
    PROVE  ClockInv'
<1> USE RepeaterAssumption DEF ClockInv
<1>1. CASE Enter \/ PowerCut
  BY <1>1 DEF Enter, PowerCut, Running
<1>2. ASSUME NEW s \in Sources, NEW seq \in Seqs, OnRecv(s, seq)
      PROVE  ClockInv'
  BY <1>2 DEF OnRecv, NoteTraffic
<1>3. CASE LoopBegin \/ Drain \/ SendRepeat \/ NoClick \/ DoubleClick
  BY <1>3 DEF LoopBegin, Drain, SendRepeat, NoClick, DoubleClick
<1>4. CASE ApplySetting
  BY <1>4 DEF ApplySetting, TuneTo
<1>5. CASE ScanTest
  BY <1>5 DEF ScanTest, AgeWrapping, RxAgeMax
<1>6. CASE Hop
  BY <1>6 DEF Hop, TuneTo
<1>7. CASE ClockTick
  BY <1>7 DEF ClockTick, Cap, RxAgeMax
<1>8. CASE OnRecvCensus
  BY <1>8 DEF OnRecvCensus
<1>9. ASSUME NEW s \in Sources, DirectorStops(s)
      PROVE  ClockInv'
  BY <1>9 DEF DirectorStops
<1>10. CASE UNCHANGED vars
  BY <1>10
<1> HIDE DEF ClockInv
<1> QED
  BY <1>1, <1>2, <1>3, <1>4, <1>5, <1>6, <1>7, <1>8, <1>9, <1>10 DEF Next, LoopTick, Hear

\* A dead channel is left within Relock and one pass, through every frame that
\* races with the test, a retune to the same channel and census of others.
THEOREM RepeaterLeavesDeadChannel == Spec => []DeadChannelLeft
<1>1. Init => ClockInv
  BY RepeaterAssumption DEF Init, ClockInv
<1>2. ClockInv => DeadChannelLeft
  BY RepeaterAssumption DEF ClockInv, DeadChannelLeft
<1> QED
  BY <1>1, <1>2, StepKeepsClock, PTL DEF Spec

-----------------------------------------------------------------------------
(* Relaying                                                                *)

\* An unsequenced frame is never relayed: not even one that raced into the slot.
UnsequencedStays == \A id \in Ids : id[2] = 0 => relayed[id] = 0

\* A frame in the slot, or about to be sent from it, has a sequence number.
SlotInv ==
    /\ pending_repeat_ \/ pc = "send" =>
          pending_repeat_buf_ \in Ids /\ pending_repeat_buf_[2] # 0
    /\ relayed \in [Ids -> 0 .. 2]
    /\ UnsequencedStays

\* The slot is shared: on_recv() may fill it between the flag and the send.
LEMMA StepKeepsSlot ==
    ASSUME SlotInv, [Next]_vars
    PROVE  SlotInv'
<1> USE DEF SlotInv, UnsequencedStays
<1>1. CASE Enter \/ PowerCut
  BY <1>1 DEF Enter, PowerCut
<1>2. ASSUME NEW s \in Sources, NEW seq \in Seqs, OnRecv(s, seq)
      PROVE  SlotInv'
  BY <1>2 DEF OnRecv, Relayable, Stage, Ids
<1>3. CASE LoopBegin \/ Drain \/ NoClick \/ DoubleClick
  BY <1>3 DEF LoopBegin, Drain, NoClick, DoubleClick
<1>4. CASE SendRepeat
  <2>1. relayed' = [relayed EXCEPT ![pending_repeat_buf_] = Cap(@ + 1, 2)]
    BY <1>4 DEF SendRepeat, Bump
  <2>2. Cap(relayed[pending_repeat_buf_] + 1, 2) \in 0 .. 2
    BY <1>4 DEF SendRepeat, Cap
  <2> QED
    BY <1>4, <2>1, <2>2 DEF SendRepeat
<1>5. CASE ApplySetting \/ ScanTest \/ Hop
  BY <1>5 DEF ApplySetting, ScanTest, Hop
<1>6. CASE ClockTick \/ OnRecvCensus
  BY <1>6 DEF ClockTick, OnRecvCensus
<1>7. ASSUME NEW s \in Sources, DirectorStops(s)
      PROVE  SlotInv'
  BY <1>7 DEF DirectorStops
<1>8. CASE UNCHANGED vars
  BY <1>8
<1> HIDE DEF SlotInv
<1> QED
  BY <1>1, <1>2, <1>3, <1>4, <1>5, <1>6, <1>7, <1>8 DEF Next, LoopTick, Hear

\* "Relaying them could go on forever": a frame without a sequence number is
\* never relayed, whatever the ring holds (on_recv(), Relayable).
THEOREM RepeaterRelaysOnlySequenced == Spec => []UnsequencedStays
<1>1. Init => SlotInv
  BY DEF Init, SlotInv, UnsequencedStays
<1>2. SlotInv => UnsequencedStays
  BY DEF SlotInv
<1> QED
  BY <1>1, <1>2, StepKeepsSlot, PTL DEF Spec

\* The frames a ring remembers, and the condition under which sixteen slots are
\* enough: no more of them are in circulation at a time.
FleetIds == {id \in Ids : id[2] # 0}
RingHoldsTheFleet == IsFiniteSet(FleetIds) /\ Cardinality(FleetIds) <= DedupRingSize

\* What has been taken up is in the ring, once.
OnceInv ==
    /\ RingOf(FleetIds)
    /\ accepted \in [Ids -> 0 .. 1]
    /\ \A id \in Ids : accepted[id] > 0 => id[2] # 0 /\ Holds(id)
    /\ \A id \in FleetIds : Holds(id) => accepted[id] = 1

\* Only a frame the ring does not hold is taken up, and then it holds it.
LEMMA RecvKeepsOnce ==
    ASSUME RingHoldsTheFleet, OnceInv, NEW s \in Sources, NEW seq \in Seqs, OnRecv(s, seq)
    PROVE  OnceInv'
<1> DEFINE id == <<s, seq>>
<1>1. id \in Ids /\ id[2] = seq
  BY DEF Ids
<1>2. CASE ~Relayable(s, seq)
  BY <1>2 DEF OnRecv, OnceInv, RingOf, Holds, ringVars
<1>3. CASE Relayable(s, seq)
  <2>1. MarkSeen(s, seq) /\ accepted' = Bump(accepted, id) /\ seq # 0 /\ ~SeenRecently(s, seq)
    BY <1>3 DEF OnRecv, Relayable
  <2>2. id \in FleetIds
    BY <1>1, <2>1 DEF FleetIds
  <2>3. NoEntry \notin FleetIds
    BY RepeaterAssumption DEF FleetIds, Ids
  <2>4. /\ RingOf(FleetIds)'
        /\ Holds(id)'
        /\ \A e \in FleetIds : Holds(e) => Holds(e)'
    BY <2>1, <2>2, <2>3, MarkSeenKeeps DEF RingHoldsTheFleet, OnceInv
  <2>5. accepted[id] = 0
    BY <1>1, <2>1 DEF OnceInv, SeenRecently, Holds
  <2>6. accepted' = [accepted EXCEPT ![id] = 1]
    BY <1>1, <2>1, <2>5 DEF Bump, Cap, OnceInv
  <2>7. \A e \in FleetIds \ {id} : Holds(e)' => Holds(e)
    BY <2>1 DEF MarkSeen, Holds, OnceInv, RingOf
  <2>8. \A e \in Ids : e[2] # 0 <=> e \in FleetIds
    BY DEF FleetIds
  <2> QED
    BY <1>1, <2>2, <2>4, <2>6, <2>7, <2>8 DEF OnceInv
<1> QED
  BY <1>2, <1>3

\* A boot empties ring and counts together; nothing else but a frame moves them.
LEMMA StepKeepsOnce ==
    ASSUME RingHoldsTheFleet, OnceInv, [Next]_vars
    PROVE  OnceInv'
<1>1. CASE Enter
  <2>1. RingOf(FleetIds)'
    BY <1>1, EmptyRingOf DEF Enter
  <2>2. \A id \in FleetIds : ~Holds(id)'
    BY <1>1, RepeaterAssumption DEF Enter, Holds, FleetIds, Ids
  <2> QED
    BY <1>1, <2>1, <2>2 DEF Enter, OnceInv
<1>2. ASSUME NEW s \in Sources, NEW seq \in Seqs, OnRecv(s, seq)
      PROVE  OnceInv'
  BY <1>2, RecvKeepsOnce
<1>3. CASE UNCHANGED <<ringVars, accepted>>
  BY <1>3 DEF OnceInv, RingOf, Holds, ringVars
<1>4. \/ UNCHANGED <<ringVars, accepted>>
      \/ Enter
      \/ \E s \in Sources, seq \in Seqs : OnRecv(s, seq)
  BY DEF Next, LoopTick, Hear, PowerCut, LoopBegin, Drain, SendRepeat, NoClick, DoubleClick,
     ApplySetting, ScanTest, Hop, ClockTick, OnRecvCensus, DirectorStops
<1> QED
  BY <1>1, <1>2, <1>3, <1>4

\* What a repeater owes the fleet: no echo while the ring holds the fleet's
\* frames, the owner's channel, no dead channel.
THEOREM RepeaterIsSafe ==
    ASSUME RingHoldsTheFleet
    PROVE  Spec => []RepeaterSafe
<1>1. Init => OnceInv
  <2>1. Init => RingOf(FleetIds)
    BY EmptyRingOf DEF Init
  <2>2. Init => \A id \in FleetIds : ~Holds(id)
    BY RepeaterAssumption DEF Init, EmptyRing, Holds, FleetIds, Ids
  <2> QED
    BY <2>1, <2>2 DEF Init, OnceInv
<1>2. OnceInv /\ [Next]_vars => OnceInv'
  BY RingHoldsTheFleet, StepKeepsOnce
<1>3. OnceInv /\ UnsequencedStays => LoopGuard
  BY DEF OnceInv, UnsequencedStays, LoopGuard
<1>4. Spec => []LoopGuard
  BY <1>1, <1>2, <1>3, RepeaterRelaysOnlySequenced, PTL DEF Spec
<1> QED
  BY <1>4, RepeaterHonoursSetting, RepeaterLeavesDeadChannel, PTL DEF RepeaterSafe
=============================================================================
