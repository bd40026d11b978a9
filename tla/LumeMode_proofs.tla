-------------------------- MODULE LumeMode_proofs --------------------------
(***************************************************************************)
(* What a Lume keeps in every interleaving of its two tasks, for every set *)
(* of Directors, scan order and timeout: the strip is given back, the show *)
(* channel stays clean through a hop, the silence edges are real, nothing  *)
(* of the session before is fired, and each frame is taken up once.        *)
(*                                                                         *)
(* Each part has its inductive invariant, a lemma per task that every step *)
(* keeps it, and the theorem.                                              *)
(***************************************************************************)
EXTENDS LumeMode, TLAPS

\* exit_ble_pair(), exit_pairing_burst() and exit() between them give the
\* strip back, whichever window is closed first.
THEOREM LumeGivesStripBack == Spec => []StripGivenBack
<1>1. Init => StripGivenBack
  BY DEF Init, StripGivenBack
<1>2. StripGivenBack /\ [Next]_vars => StripGivenBack'
  <2> SUFFICES ASSUME StripGivenBack, [Next]_vars
               PROVE  StripGivenBack'
    OBVIOUS
  <2> USE DEF StripGivenBack
  <2>1. CASE UNCHANGED pairVars
    BY <2>1 DEF pairVars
  <2>2. CASE Exit
    BY <2>2, Zenon DEF Exit
  <2>3. CASE EnterBlePair \/ ExitBlePair
    BY <2>3, Zenon DEF EnterBlePair, ExitBlePair
  <2>4. CASE EnterPairingBurst \/ ExitPairingBurst
    BY <2>4, Zenon DEF EnterPairingBurst, ExitPairingBurst
  <2>5. CASE ClockTick
    BY <2>5, Zenon DEF ClockTick
  <2>6. Enter => UNCHANGED pairVars
    BY DEF Enter
  <2>7. TickWindow => UNCHANGED pairVars
    BY DEF TickWindow
  <2>8. ASSUME NEW s \in SourceIds, Hear(s) \/ DirectorStops(s)
        PROVE  UNCHANGED pairVars
    BY <2>8 DEF Hear, OnRecv, OnRecvRefused, DirectorStops
  <2>9. LoopTick => UNCHANGED pairVars
    BY DEF LoopTick, notLoop, LoopBegin, DrainLight, CopyPulse, RenderPulse, DrainRepaint,
       DrainRepeat, SendRepeat, ReadAge, SignalEdge, TestFallback, StartFallback, TestFade,
       FadeFallback, Scan, ClearOnHop, Retune, TestExpiry, ExpireLock, RedrawNoSignal
  <2>10. UNCHANGED vars => UNCHANGED pairVars
    BY DEF vars
  <2> QED
    BY <2>1, <2>2, <2>3, <2>4, <2>5, <2>6, <2>7, <2>8, <2>9, <2>10, Zenon DEF Next
<1> QED
  BY <1>1, <1>2, PTL DEF Spec

-----------------------------------------------------------------------------
(* The show channel                                                        *)

\* The two steps of a hop between which scan, lock and radio disagree.
Hopping == {"clear", "retune"}

\* loop_tick() runs in the mode only, and so does the radio.
IdleOutOfMode == ~in_mode => pc = "idle" /\ ~radio_active_

\* Outside a hop a running radio is where the scan says it is.
RadioFollowsScan ==
    in_mode /\ radio_active_ /\ pc \notin Hopping => radio_channel = current_listen_chan_

\* In the mode, a lock was heard on a running radio.
LockWasHeard == in_mode /\ has_lock_ => radio_active_

\* A lock held while the scan is on the show channel is to a performance
\* Director; between the scan's move there and ClearOnHop, only if the radio
\* was there already.
LockIsClean ==
    has_lock_ /\ current_listen_chan_ = ShowChannel =>
        (pc = "clear" /\ radio_channel # ShowChannel) \/ locked_id_ \in PerformanceIds

CleanInv == IdleOutOfMode /\ RadioFollowsScan /\ LockWasHeard /\ LockIsClean

\* What on_recv() does to the link, the scan and the radio.
LEMMA HearKeepsClean ==
    ASSUME CleanInv, NEW s \in SourceIds, Hear(s) \/ DirectorStops(s)
    PROVE  CleanInv'
<1> USE DEF CleanInv, IdleOutOfMode, RadioFollowsScan, LockWasHeard, LockIsClean,
            sessionVars, scanVars, loopVars
<1>1. ASSUME NEW f \in Frames, OnRecv(f)
      PROVE  CleanInv'
  BY <1>1 DEF OnRecv, Admit, Admits, Eligible
<1>2. CASE OnRecvRefused(s)
  BY <1>2 DEF OnRecvRefused, tofuVars
<1>3. CASE DirectorStops(s)
  BY <1>3 DEF DirectorStops, tofuVars
<1> QED
  BY <1>1, <1>2, <1>3 DEF Hear

\* A pass of loop_tick(), step by step: only the three steps of a hop matter.
LEMMA LoopKeepsClean ==
    ASSUME CleanInv, LoopTick
    PROVE  CleanInv'
<1> USE DEF CleanInv, IdleOutOfMode, RadioFollowsScan, LockWasHeard, LockIsClean, Hopping,
            sessionVars, scanVars, tofuVars, lockVars, At, GoTo
<1>1. CASE Scan
  BY <1>1 DEF Scan
<1>2. CASE ClearOnHop
  BY <1>2 DEF ClearOnHop, TofuClear, Unlock
<1>3. CASE Retune
  BY <1>3 DEF Retune
<1>4. CASE ExpireLock
  BY <1>4 DEF ExpireLock, Unlock
<1>5. CASE LoopBegin \/ DrainLight \/ CopyPulse \/ RenderPulse \/ DrainRepaint
  BY <1>5 DEF LoopBegin, DrainLight, CopyPulse, RenderPulse, DrainRepaint, CaptureNow, notLoop
<1>6. CASE DrainRepeat \/ SendRepeat \/ ReadAge
  BY <1>6 DEF DrainRepeat, SendRepeat, ReadAge, notLoop
<1>7. CASE SignalEdge
  BY <1>7 DEF SignalEdge, LoopEnd
<1>8. CASE TestFallback \/ StartFallback \/ TestFade \/ FadeFallback
  BY <1>8 DEF TestFallback, StartFallback, TestFade, FadeFallback, notLoop
<1>9. CASE TestExpiry \/ RedrawNoSignal
  BY <1>9 DEF TestExpiry, RedrawNoSignal, LoopEnd, notLoop
<1> QED
  BY <1>1, <1>2, <1>3, <1>4, <1>5, <1>6, <1>7, <1>8, <1>9 DEF LoopTick

\* The inductive invariant of the show channel.
LEMMA CleanInvHolds == Spec => []CleanInv
<1>1. Init => CleanInv
  BY DEF Init, TofuInit, CleanInv, IdleOutOfMode, RadioFollowsScan, LockWasHeard, LockIsClean
<1>2. CleanInv /\ [Next]_vars => CleanInv'
  <2> SUFFICES ASSUME CleanInv, [Next]_vars
               PROVE  CleanInv'
    OBVIOUS
  <2>1. CASE Enter
    BY <2>1 DEF Enter, TofuClear, Unlock, loopVars, CleanInv, IdleOutOfMode,
       RadioFollowsScan, LockWasHeard, LockIsClean
  <2>2. CASE Exit
    BY <2>2 DEF Exit, tofuVars, scanVars, loopVars, CleanInv, IdleOutOfMode,
       RadioFollowsScan, LockWasHeard, LockIsClean
  <2>3. ASSUME NEW s \in SourceIds, Hear(s) \/ DirectorStops(s)
        PROVE  CleanInv'
    BY <2>3, HearKeepsClean
  <2>4. CASE LoopTick
    BY <2>4, LoopKeepsClean
  <2>5. CASE EnterBlePair \/ ExitBlePair \/ EnterPairingBurst \/ ExitPairingBurst
    BY <2>5 DEF EnterBlePair, ExitBlePair, EnterPairingBurst, ExitPairingBurst, notPair,
       tofuVars, sessionVars, scanVars, loopVars, CleanInv, IdleOutOfMode,
       RadioFollowsScan, LockWasHeard, LockIsClean
  <2>6. CASE TickWindow
    BY <2>6 DEF TickWindow, CaptureNow, lockVars, sessionVars, scanVars, loopVars, CleanInv,
       IdleOutOfMode, RadioFollowsScan, LockWasHeard, LockIsClean
  <2>7. CASE ClockTick
    BY <2>7 DEF ClockTick, TofuClock, sessionVars, loopVars, CleanInv,
       IdleOutOfMode, RadioFollowsScan, LockWasHeard, LockIsClean
  <2>8. CASE UNCHANGED vars
    BY <2>8 DEF vars, tofuVars, sessionVars, scanVars, loopVars, CleanInv,
       IdleOutOfMode, RadioFollowsScan, LockWasHeard, LockIsClean
  <2> QED
    BY <2>1, <2>2, <2>3, <2>4, <2>5, <2>6, <2>7, <2>8, Zenon DEF Next
<1> QED
  BY <1>1, <1>2, PTL DEF Spec

\* "Ch 11 is performance only", at every point of every hop.
THEOREM LumeKeepsShowChannelClean == Spec => []ShowChannelStaysClean
<1>1. CleanInv => ShowChannelStaysClean
  BY DEF CleanInv, LockIsClean, ShowChannelStaysClean
<1> QED
  BY <1>1, CleanInvHolds, PTL

-----------------------------------------------------------------------------
(* The silence edges                                                       *)

AgesAreNat == rx_age \in Nat /\ lag \in Nat /\ quiet \in Nat /\ age_since_rx \in Nat

\* quiet is the age at the top of the pass: since then rx_age was reset, or
\* grew with the clock, which made `now' as much older.
AgeIsBounded == pc # "idle" => rx_age <= quiet + lag

\* The steps that judge by age_since_rx.
Judging == {"edge", "fallback", "fb_start", "fade", "fb_fade", "scan"}

\* age_since_rx is no more than the silence at the top of the pass, and a
\* verdict reached on it stays one until it is carried out.
VerdictIsReal ==
    /\ pc \in Judging => age_since_rx <= quiet
    /\ pc = "fb_start" => age_since_rx > FallbackEnter
    /\ pc = "fb_fade" => age_since_rx > FallbackFade

SilenceInv == AgesAreNat /\ AgeIsBounded /\ VerdictIsReal

\* The times of the loop are natural numbers.
LEMMA LumeConstantsNat ==
    /\ RxAgeMax \in Nat
    /\ NoSignal \in Nat /\ FallbackEnter \in Nat /\ FallbackFade \in Nat /\ Rescan \in Nat
BY LumeAssumption, TofuAssumption DEF RxAgeMax

\* The saturating subtraction of a stale `now' gives back the part of the age
\* that passed before it.
LEMMA AgeAtNowIsBounded ==
    ASSUME NEW age \in Nat, NEW start \in Nat, lag \in Nat, age <= start + lag
    PROVE  AgeAtNow(age) \in Nat /\ AgeAtNow(age) <= start
BY DEF AgeAtNow

\* The steps that move neither the pass nor its clocks forward.
LEMMA OthersKeepSilence ==
    ASSUME SilenceInv, rx_age' = rx_age \/ rx_age' = 0, UNCHANGED <<lag, quiet, loopVars>>
    PROVE  SilenceInv'
BY DEF SilenceInv, AgesAreNat, AgeIsBounded, VerdictIsReal, loopVars

\* Every step of loop_tick() keeps the ages bounded and the verdict true.
LEMMA LoopKeepsSilence ==
    ASSUME SilenceInv, LoopTick
    PROVE  SilenceInv'
<1> USE LumeConstantsNat
    DEF SilenceInv, AgesAreNat, AgeIsBounded, VerdictIsReal, Judging, At, GoTo, LoopEnd,
        linkVars, tofuVars, notLoop
<1>1. CASE LoopBegin
  BY <1>1 DEF LoopBegin, CaptureNow
<1>2. CASE DrainLight \/ CopyPulse \/ RenderPulse \/ DrainRepaint \/ DrainRepeat \/ SendRepeat
  BY <1>2 DEF DrainLight, CopyPulse, RenderPulse, DrainRepaint, DrainRepeat, SendRepeat
<1>3. CASE ReadAge
  BY <1>3, AgeAtNowIsBounded DEF ReadAge
<1>4. CASE SignalEdge
  BY <1>4 DEF SignalEdge
<1>5. CASE TestFallback \/ StartFallback
  BY <1>5 DEF TestFallback, StartFallback
<1>6. CASE TestFade \/ FadeFallback
  BY <1>6 DEF TestFade, FadeFallback
<1>7. CASE Scan
  BY <1>7 DEF Scan
<1>8. CASE ClearOnHop \/ ExpireLock
  BY <1>8 DEF ClearOnHop, ExpireLock
<1>9. CASE Retune \/ TestExpiry \/ RedrawNoSignal
  BY <1>9 DEF Retune, TestExpiry, RedrawNoSignal
<1> QED
  BY <1>1, <1>2, <1>3, <1>4, <1>5, <1>6, <1>7, <1>8, <1>9 DEF LoopTick

\* So do entry, exit, the receive task and the passing of time.
LEMMA StepKeepsSilence ==
    ASSUME IdleOutOfMode, SilenceInv, [Next]_vars
    PROVE  SilenceInv'
<1> USE DEF tofuVars, linkVars
<1>1. CASE Enter
  BY <1>1 DEF Enter, loopVars, IdleOutOfMode, SilenceInv, AgesAreNat, AgeIsBounded,
     VerdictIsReal, Judging
<1>2. CASE Exit
  BY <1>2, OthersKeepSilence DEF Exit
<1>3. ASSUME NEW s \in SourceIds, NEW f \in Frames, OnRecv(f)
      PROVE  SilenceInv'
  BY <1>3, OthersKeepSilence DEF OnRecv, NoteSignal
<1>4. ASSUME NEW s \in SourceIds, OnRecvRefused(s) \/ DirectorStops(s)
      PROVE  SilenceInv'
  BY <1>4, OthersKeepSilence DEF OnRecvRefused, DirectorStops
<1>5. CASE LoopTick
  BY <1>5, LoopKeepsSilence
<1>6. CASE EnterBlePair \/ ExitBlePair \/ EnterPairingBurst \/ ExitPairingBurst
  BY <1>6, OthersKeepSilence
     DEF EnterBlePair, ExitBlePair, EnterPairingBurst, ExitPairingBurst, notPair
<1>7. CASE TickWindow
  BY <1>7 DEF TickWindow, CaptureNow, At, loopVars, SilenceInv, AgesAreNat, AgeIsBounded,
     VerdictIsReal, Judging
<1>8. CASE ClockTick
  BY <1>8, LumeConstantsNat DEF ClockTick, TofuClock, Saturate, loopVars, SilenceInv,
     AgesAreNat, AgeIsBounded, VerdictIsReal
<1>9. CASE UNCHANGED vars
  BY <1>9, OthersKeepSilence DEF vars
<1> QED
  BY <1>1, <1>2, <1>3, <1>4, <1>5, <1>6, <1>7, <1>8, <1>9, Zenon DEF Next, Hear

SilenceStep ==
    /\ ~no_signal_ /\ no_signal_' => quiet > NoSignal
    /\ ~fallback_active_ /\ fallback_active_' => quiet > FallbackEnter
    /\ ~fallback_faded_ /\ fallback_faded_' => quiet > FallbackFade
    /\ in_mode /\ rx_count_ > 0 /\ rx_count_' > 0 /\ pc = "scan" /\ pc' = "clear"
          => quiet > Rescan

\* A step that raises none of the flags and leaves the scan alone.
QuietStep ==
    /\ ~no_signal_' \/ no_signal_' = no_signal_
    /\ ~fallback_active_' \/ fallback_active_' = fallback_active_
    /\ ~fallback_faded_' \/ fallback_faded_' = fallback_faded_
    /\ pc' = pc \/ pc' # "clear"

\* A step that shows nothing of the link tells nothing untrue of it.
LEMMA QuietStepIsReal == QuietStep => SilenceStep
BY DEF QuietStep, SilenceStep

\* Every step of loop_tick() tells the truth about the link.
LEMMA LoopIsReal ==
    ASSUME SilenceInv, LoopTick
    PROVE  SilenceStep
<1> USE DEF At, GoTo, LoopEnd, linkVars, notLoop
<1> USE LumeConstantsNat, QuietStepIsReal
<1>1. CASE LoopBegin \/ DrainLight \/ CopyPulse \/ RenderPulse \/ DrainRepaint
  BY <1>1 DEF LoopBegin, DrainLight, CopyPulse, RenderPulse, DrainRepaint, QuietStep
<1>2. CASE DrainRepeat \/ SendRepeat \/ ReadAge \/ TestFallback \/ TestFade
  BY <1>2 DEF DrainRepeat, SendRepeat, ReadAge, TestFallback, TestFade, QuietStep
<1>3. CASE SignalEdge
  BY <1>3 DEF SignalEdge, SilenceStep, SilenceInv, AgesAreNat, VerdictIsReal, Judging
<1>4. CASE StartFallback
  BY <1>4 DEF StartFallback, SilenceStep, SilenceInv, AgesAreNat, VerdictIsReal, Judging
<1>5. CASE FadeFallback
  BY <1>5 DEF FadeFallback, SilenceStep, SilenceInv, AgesAreNat, VerdictIsReal, Judging
<1>6. CASE Scan
  BY <1>6 DEF Scan, Scanning, SilenceStep, SilenceInv, AgesAreNat, VerdictIsReal, Judging
<1>7. CASE ClearOnHop \/ Retune \/ TestExpiry \/ ExpireLock \/ RedrawNoSignal
  BY <1>7 DEF ClearOnHop, Retune, TestExpiry, ExpireLock, RedrawNoSignal, QuietStep
<1> QED
  BY <1>1, <1>2, <1>3, <1>4, <1>5, <1>6, <1>7 DEF LoopTick

\* So does every other step.
LEMMA StepIsReal ==
    ASSUME SilenceInv, [Next]_vars
    PROVE  SilenceStep
<1> USE DEF linkVars, loopVars
<1>1. CASE Enter \/ Exit \/ TickWindow
  BY <1>1, QuietStepIsReal DEF Enter, Exit, TickWindow, QuietStep
<1>2. ASSUME NEW f \in Frames, OnRecv(f)
      PROVE  SilenceStep
  BY <1>2, QuietStepIsReal DEF OnRecv, NoteSignal, QuietStep
<1>3. ASSUME NEW s \in SourceIds, OnRecvRefused(s) \/ DirectorStops(s)
      PROVE  SilenceStep
  BY <1>3, QuietStepIsReal DEF OnRecvRefused, DirectorStops, QuietStep
<1>4. CASE LoopTick
  BY <1>4, LoopIsReal
<1>5. CASE EnterBlePair \/ ExitBlePair \/ EnterPairingBurst \/ ExitPairingBurst
  BY <1>5, QuietStepIsReal
     DEF EnterBlePair, ExitBlePair, EnterPairingBurst, ExitPairingBurst, notPair, QuietStep
<1>6. CASE ClockTick
  BY <1>6, QuietStepIsReal DEF ClockTick, QuietStep
<1>7. CASE UNCHANGED vars
  BY <1>7, QuietStepIsReal DEF vars, QuietStep
<1> QED
  BY <1>1, <1>2, <1>3, <1>4, <1>5, <1>6, <1>7, Zenon DEF Next, Hear

\* NO SIGNAL, the wash, its fade and the departure from a known Director's
\* channel: each after that much silence, whatever raced with the pass.
THEOREM LumeSilenceIsReal == Spec => SilenceIsReal
<1>1. Init => SilenceInv
  BY DEF Init, TofuInit, SilenceInv, AgesAreNat, AgeIsBounded, VerdictIsReal, Judging
<1>2. IdleOutOfMode /\ SilenceInv /\ [Next]_vars => SilenceInv'
  BY StepKeepsSilence
<1>3. SilenceInv /\ [Next]_vars => [SilenceStep]_vars
  BY StepIsReal
<1>4. CleanInv => IdleOutOfMode
  BY DEF CleanInv
<1> QED
  BY <1>1, <1>2, <1>3, <1>4, CleanInvHolds, PTL DEF Spec, SilenceIsReal, SilenceStep

-----------------------------------------------------------------------------
(* The session                                                             *)

IsAccepted(f) == IdOf(f) \in Ids /\ accepted[IdOf(f)] > 0

\* What a slot holds while its flag is up, or while the main task is on it.
SlotsFilledHere ==
    /\ pending_light_ \/ pc \in {"light_copy", "light_render"}
          => IsAccepted(pending_light_payload_)
    /\ pending_repeat_ \/ pc = "relay_send" => IsAccepted(pending_repeat_buf_)

CountersOK ==
    /\ accepted \in [Ids -> 0 .. 2]
    /\ dispatched \in [Ids -> 0 .. 2]
    /\ relayed \in [Ids -> 0 .. 2]

SessionInv == CountersOK /\ SlotsFilledHere /\ OnlyThisSession

\* Counting a message counts it once, up to the cap, and no other.
LEMMA BumpCounts ==
    ASSUME NEW count \in [Ids -> 0 .. 2], NEW id \in Ids
    PROVE  /\ Bump(count, id) \in [Ids -> 0 .. 2]
           /\ Bump(count, id)[id] > 0
           /\ \A i \in Ids : Bump(count, id)[i] >= count[i]
           /\ \A i \in Ids \ {id} : Bump(count, id)[i] = count[i]
BY DEF Bump

\* The WiFi task fills a slot only with the frame it has just accepted.
LEMMA RecvKeepsSession ==
    ASSUME SessionInv, NEW f \in Frames, OnRecv(f)
    PROVE  SessionInv'
<1> USE DEF SessionInv, loopVars
<1>1. UNCHANGED <<dispatched, relayed, pc>>
  BY DEF OnRecv
<1>2. CASE SeenRecently(f.src, f.seq)
  BY <1>1, <1>2 DEF OnRecv, slotVars, CountersOK, SlotsFilledHere, OnlyThisSession, IsAccepted
<1>3. CASE ~SeenRecently(f.src, f.seq)
  <2> DEFINE id == IdOf(f)
  <2>1. id \in Ids
    BY DEF IdOf, Ids, Frames
  <2>2. accepted' = Bump(accepted, id) /\ StageRelay(f) /\ StagePulse(f)
    BY <1>3 DEF OnRecv
  <2>3. /\ accepted' \in [Ids -> 0 .. 2]
        /\ accepted'[id] > 0
        /\ \A i \in Ids : accepted'[i] >= accepted[i]
    BY <2>1, <2>2, BumpCounts DEF CountersOK
  <2>4. CountersOK'
    BY <1>1, <2>3 DEF CountersOK
  <2>5. OnlyThisSession'
    BY <1>1, <2>3 DEF OnlyThisSession, CountersOK
  <2>6. \/ UNCHANGED <<pending_light_, pending_light_payload_>>
        \/ pending_light_payload_' = f
    BY <2>2 DEF StagePulse
  <2>7. \/ UNCHANGED <<pending_repeat_, pending_repeat_buf_>>
        \/ IdOf(pending_repeat_buf_') = id
    BY <2>2 DEF StageRelay, IdOf, Frames
  <2>8. \A g : IsAccepted(g) => IdOf(g) \in Ids /\ accepted'[IdOf(g)] > 0
    BY <2>3 DEF IsAccepted, CountersOK
  <2>9. SlotsFilledHere'
    BY <1>1, <2>1, <2>3, <2>6, <2>7, <2>8 DEF SlotsFilledHere, IsAccepted
  <2> QED
    BY <2>4, <2>5, <2>9
<1> QED
  BY <1>2, <1>3

\* The steps that leave the slots, the counters and the pass as they are.
LEMMA OthersKeepSession ==
    ASSUME SessionInv, UNCHANGED <<slotVars, countVars, pc>>
    PROVE  SessionInv'
BY DEF SessionInv, CountersOK, SlotsFilledHere, OnlyThisSession, IsAccepted, slotVars, countVars

\* The main task lowers a flag before it uses the slot, and the slot may by
\* then hold a newer frame: one of this session all the same.
LEMMA LoopKeepsSession ==
    ASSUME SessionInv, LoopTick
    PROVE  SessionInv'
<1> USE DEF SessionInv, At, GoTo, LoopEnd, notLoop
<1>1. CASE RenderPulse
  <2> DEFINE id == IdOf(pending_light_payload_)
  <2>1. id \in Ids /\ accepted[id] > 0
    BY <1>1 DEF RenderPulse, SlotsFilledHere, IsAccepted
  <2>2. /\ dispatched' = Bump(dispatched, id) /\ pc' = "repaint"
        /\ UNCHANGED <<slotVars, accepted, relayed>>
    BY <1>1 DEF RenderPulse
  <2>3. /\ dispatched' \in [Ids -> 0 .. 2]
        /\ \A i \in Ids \ {id} : dispatched'[i] = dispatched[i]
    BY <2>1, <2>2, BumpCounts DEF CountersOK
  <2> QED
    BY <2>1, <2>2, <2>3 DEF CountersOK, SlotsFilledHere, OnlyThisSession, IsAccepted, slotVars
<1>2. CASE SendRepeat
  <2> DEFINE id == IdOf(pending_repeat_buf_)
  <2>1. id \in Ids /\ accepted[id] > 0
    BY <1>2 DEF SendRepeat, SlotsFilledHere, IsAccepted
  <2>2. /\ relayed' = Bump(relayed, id) /\ pc' = "age"
        /\ UNCHANGED <<slotVars, accepted, dispatched>>
    BY <1>2 DEF SendRepeat
  <2>3. /\ relayed' \in [Ids -> 0 .. 2]
        /\ \A i \in Ids \ {id} : relayed'[i] = relayed[i]
    BY <2>1, <2>2, BumpCounts DEF CountersOK
  <2> QED
    BY <2>1, <2>2, <2>3 DEF CountersOK, SlotsFilledHere, OnlyThisSession, IsAccepted, slotVars
<1>3. CASE DrainLight \/ DrainRepeat
  BY <1>3 DEF DrainLight, DrainRepeat, CountersOK, SlotsFilledHere, OnlyThisSession,
     IsAccepted, countVars
<1>4. CASE CopyPulse
  BY <1>4 DEF CopyPulse, CountersOK, SlotsFilledHere, OnlyThisSession, IsAccepted,
     slotVars, countVars
<1>5. ASSUME UNCHANGED <<slotVars, countVars>>, pc' \notin {"light_copy", "light_render", "relay_send"}
      PROVE  SessionInv'
  BY <1>5 DEF CountersOK, SlotsFilledHere, OnlyThisSession, IsAccepted, slotVars, countVars
<1>6. CASE LoopBegin \/ DrainRepaint \/ ReadAge \/ SignalEdge
  BY <1>5, <1>6 DEF LoopBegin, DrainRepaint, ReadAge, SignalEdge
<1>7. CASE TestFallback \/ StartFallback \/ TestFade \/ FadeFallback \/ Scan
  BY <1>5, <1>7 DEF TestFallback, StartFallback, TestFade, FadeFallback, Scan
<1>8. CASE ClearOnHop \/ Retune \/ TestExpiry \/ ExpireLock \/ RedrawNoSignal
  BY <1>5, <1>8 DEF ClearOnHop, Retune, TestExpiry, ExpireLock, RedrawNoSignal
<1> QED
  BY <1>1, <1>2, <1>3, <1>4, <1>6, <1>7, <1>8 DEF LoopTick

\* Every step keeps the slots filled from the running session.
LEMMA StepKeepsSession ==
    ASSUME IdleOutOfMode, SessionInv, [Next]_vars
    PROVE  SessionInv'
<1>1. CASE Enter
  <2>1. pc = "idle" /\ pc' = pc /\ ~pending_light_' /\ ~pending_repeat_'
    BY <1>1 DEF Enter, DropQueued, loopVars, IdleOutOfMode
  <2>2. /\ accepted' = [id \in Ids |-> 0]
        /\ dispatched' = [id \in Ids |-> 0]
        /\ relayed' = [id \in Ids |-> 0]
    BY <1>1 DEF Enter
  <2> QED
    BY <2>1, <2>2 DEF SessionInv, CountersOK, SlotsFilledHere, OnlyThisSession
<1>2. CASE Exit
  BY <1>2, OthersKeepSession DEF Exit, loopVars
<1>3. ASSUME NEW f \in Frames, OnRecv(f)
      PROVE  SessionInv'
  BY <1>3, RecvKeepsSession
<1>4. ASSUME NEW s \in SourceIds, OnRecvRefused(s) \/ DirectorStops(s)
      PROVE  SessionInv'
  BY <1>4, OthersKeepSession DEF OnRecvRefused, DirectorStops, loopVars
<1>5. CASE LoopTick
  BY <1>5, LoopKeepsSession
<1>6. CASE EnterBlePair \/ ExitBlePair \/ EnterPairingBurst \/ ExitPairingBurst
  BY <1>6, OthersKeepSession
     DEF EnterBlePair, ExitBlePair, EnterPairingBurst, ExitPairingBurst, notPair, loopVars
<1>7. CASE TickWindow \/ ClockTick
  BY <1>7, OthersKeepSession DEF TickWindow, ClockTick, loopVars
<1>8. CASE UNCHANGED vars
  BY <1>8, OthersKeepSession DEF vars, loopVars
<1> QED
  BY <1>1, <1>2, <1>3, <1>4, <1>5, <1>6, <1>7, <1>8, Zenon DEF Next, Hear

\* "A fresh session never fires a stale queued frame": with the slots shared
\* between the tasks, and an enter() that leaves their contents in place.
THEOREM LumeFiresOnlyThisSession == Spec => []OnlyThisSession
<1>1. Init => SessionInv
  BY DEF Init, SessionInv, CountersOK, SlotsFilledHere, OnlyThisSession
<1>2. IdleOutOfMode /\ SessionInv /\ [Next]_vars => SessionInv'
  BY StepKeepsSession
<1>3. CleanInv => IdleOutOfMode
  BY DEF CleanInv
<1>4. SessionInv => OnlyThisSession
  BY DEF SessionInv
<1> QED
  BY <1>1, <1>2, <1>3, <1>4, CleanInvHolds, PTL DEF Spec

-----------------------------------------------------------------------------
(* Each frame once                                                         *)

\* The frames this Lume can hear: all of them when it scans, those of its
\* channel when it is pinned to one.
HeardIds ==
    {id \in Ids : id[2] # 0 /\ (ChannelPref # 0 => DirectorChannel[id[1]] = ChannelPref)}

\* The condition on the air under which a ring of sixteen is enough.
RingHoldsTheAir == IsFiniteSet(HeardIds) /\ Cardinality(HeardIds) <= DedupRingSize

\* A pinned Lume listens nowhere else.
StaysPinned ==
    in_mode /\ ChannelPref # 0 =>
        /\ current_listen_chan_ = ChannelPref
        /\ radio_active_ => radio_channel = ChannelPref

\* What has been let through is in the ring, and nothing else is.
RingRemembers ==
    /\ RingOf(HeardIds)
    /\ accepted \in [Ids -> 0 .. 2]
    /\ \A id \in Ids : id[2] # 0 /\ accepted[id] > 0 => accepted[id] = 1 /\ Holds(id)

OnceInv == StaysPinned /\ RingRemembers

\* A step that leaves the ring, the radio and the counts alone keeps what the
\* ring remembers.
LEMMA OthersKeepOnce ==
    ASSUME OnceInv, UNCHANGED <<ringVars, accepted, in_mode, radio_active_, radio_channel,
                                current_listen_chan_>>
    PROVE  OnceInv'
BY DEF OnceInv, StaysPinned, RingRemembers, RingOf, Holds, ringVars

\* An accepted message is entered in the ring, which then refuses it.
LEMMA RecvKeepsOnce ==
    ASSUME RingHoldsTheAir, IdleOutOfMode, OnceInv, NEW f \in Frames, OnRecv(f)
    PROVE  OnceInv'
<1> DEFINE id == IdOf(f)
<1>1. /\ UNCHANGED <<in_mode, radio_active_, radio_channel, current_listen_chan_>>
      /\ radio_active_ /\ DirectorChannel[f.src] = radio_channel
  BY DEF OnRecv, Audible, sessionVars, scanVars
<1>2. StaysPinned'
  BY <1>1 DEF OnceInv, StaysPinned
<1>3. id \in Ids /\ id[1] = f.src /\ id[2] = f.seq /\ id = <<f.src, f.seq>>
  BY DEF IdOf, Ids, Frames
<1>4. CASE SeenRecently(f.src, f.seq)
  BY <1>4, OthersKeepOnce DEF OnRecv, sessionVars, scanVars
<1>5. CASE ~SeenRecently(f.src, f.seq)
  <2>1. MarkSeen(f.src, f.seq) /\ accepted' = Bump(accepted, id)
    BY <1>5 DEF OnRecv
  <2>2. /\ accepted' \in [Ids -> 0 .. 2]
        /\ \A i \in Ids \ {id} : accepted'[i] = accepted[i]
    BY <1>3, <2>1, BumpCounts DEF OnceInv, RingRemembers
  <2>3. CASE f.seq = 0
    <3>1. UNCHANGED ringVars
      BY <2>1, <2>3 DEF MarkSeen
    <3> QED
      BY <1>2, <1>3, <2>2, <2>3, <3>1 DEF OnceInv, RingRemembers, RingOf, Holds, ringVars
  <2>4. CASE f.seq # 0
    <3>1. id \in HeardIds
      BY <1>1, <1>3, <2>4 DEF HeardIds, OnceInv, StaysPinned, IdleOutOfMode
    <3>2. NoEntry \notin HeardIds
      BY LumeAssumption DEF HeardIds, Ids
    <3>3. /\ RingOf(HeardIds)'
          /\ Holds(id)'
          /\ \A e \in HeardIds : Holds(e) => Holds(e)'
      BY <1>3, <1>5, <2>1, <2>4, <3>1, <3>2, MarkSeenKeeps
         DEF RingHoldsTheAir, OnceInv, RingRemembers
    <3>4. accepted[id] = 0
      BY <1>3, <1>5, <2>4 DEF OnceInv, RingRemembers, Holds, SeenRecently
    <3>5. accepted'[id] = 1
      BY <1>3, <2>1, <3>4 DEF Bump, OnceInv, RingRemembers
    <3>6. ASSUME NEW i \in Ids, Holds(i), i[2] # 0
          PROVE  i \in HeardIds
      BY <3>6, LumeAssumption DEF OnceInv, RingRemembers, RingOf, Holds, Ids
    <3> QED
      BY <1>2, <2>2, <3>3, <3>5, <3>6 DEF OnceInv, RingRemembers
  <2> QED
    BY <2>3, <2>4
<1> QED
  BY <1>4, <1>5

\* loop_tick() touches neither the ring nor the counts, and keeps a pinned Lume
\* on its channel.
LEMMA LoopKeepsOnce ==
    ASSUME OnceInv, LoopTick
    PROVE  OnceInv'
<1> USE DEF notLoop, sessionVars, scanVars, countVars
<1>1. CASE Scan \/ Retune
  BY <1>1 DEF Scan, Scanning, Retune, At, OnceInv, StaysPinned, RingRemembers, RingOf, Holds,
     ringVars
<1>2. CASE LoopBegin \/ DrainLight \/ CopyPulse \/ RenderPulse \/ DrainRepaint
  BY <1>2, OthersKeepOnce DEF LoopBegin, DrainLight, CopyPulse, RenderPulse, DrainRepaint
<1>3. CASE DrainRepeat \/ SendRepeat \/ ReadAge \/ SignalEdge
  BY <1>3, OthersKeepOnce DEF DrainRepeat, SendRepeat, ReadAge, SignalEdge
<1>4. CASE TestFallback \/ StartFallback \/ TestFade \/ FadeFallback
  BY <1>4, OthersKeepOnce DEF TestFallback, StartFallback, TestFade, FadeFallback
<1>5. CASE ClearOnHop \/ TestExpiry \/ ExpireLock \/ RedrawNoSignal
  BY <1>5, OthersKeepOnce DEF ClearOnHop, TestExpiry, ExpireLock, RedrawNoSignal
<1> QED
  BY <1>1, <1>2, <1>3, <1>4, <1>5 DEF LoopTick

\* So does every other step; entry empties the ring, and the counts with it.
LEMMA StepKeepsOnce ==
    ASSUME RingHoldsTheAir, IdleOutOfMode, OnceInv, [Next]_vars
    PROVE  OnceInv'
<1> USE DEF sessionVars, scanVars, countVars
<1>1. CASE Enter
  <2>1. RingOf(HeardIds)'
    BY <1>1, EmptyRingOf DEF Enter
  <2>2. accepted' = [id \in Ids |-> 0]
    BY <1>1 DEF Enter
  <2>3. StaysPinned'
    BY <1>1 DEF Enter, StaysPinned
  <2> QED
    BY <2>1, <2>2, <2>3 DEF OnceInv, RingRemembers
<1>2. CASE Exit
  BY <1>2 DEF Exit, OnceInv, StaysPinned, RingRemembers, RingOf, Holds, ringVars
<1>3. ASSUME NEW f \in Frames, OnRecv(f)
      PROVE  OnceInv'
  BY <1>3, RecvKeepsOnce
<1>4. ASSUME NEW s \in SourceIds, OnRecvRefused(s) \/ DirectorStops(s)
      PROVE  OnceInv'
  BY <1>4, OthersKeepOnce DEF OnRecvRefused, DirectorStops
<1>5. CASE LoopTick
  BY <1>5, LoopKeepsOnce
<1>6. CASE EnterBlePair \/ ExitBlePair \/ EnterPairingBurst \/ ExitPairingBurst
  BY <1>6, OthersKeepOnce
     DEF EnterBlePair, ExitBlePair, EnterPairingBurst, ExitPairingBurst, notPair
<1>7. CASE TickWindow \/ ClockTick
  BY <1>7, OthersKeepOnce DEF TickWindow, ClockTick
<1>8. CASE UNCHANGED vars
  BY <1>8, OthersKeepOnce DEF vars
<1> QED
  BY <1>1, <1>2, <1>3, <1>4, <1>5, <1>6, <1>7, <1>8, Zenon DEF Next, Hear

\* As long as the ring holds every frame the Lume can hear, each is let
\* through once in a session, and nothing of the session before is fired.
THEOREM LumeSessionIsSound ==
    ASSUME RingHoldsTheAir
    PROVE  Spec => []SessionSound
<1>1. Init => OnceInv
  BY EmptyRingOf DEF Init, OnceInv, StaysPinned, RingRemembers
<1>2. IdleOutOfMode /\ OnceInv /\ [Next]_vars => OnceInv'
  BY RingHoldsTheAir, StepKeepsOnce
<1>3. CleanInv => IdleOutOfMode
  BY DEF CleanInv
<1>4. OnceInv => AcceptedOnce
  BY DEF OnceInv, RingRemembers, AcceptedOnce
<1>5. Spec => []AcceptedOnce
  BY <1>1, <1>2, <1>3, <1>4, CleanInvHolds, PTL DEF Spec
<1> QED
  BY <1>5, LumeFiresOnlyThisSession, PTL DEF SessionSound
=============================================================================
