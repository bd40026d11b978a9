------------------------------ MODULE TofuLock ------------------------------
(***************************************************************************)
(* The Trust-On-First-Use lock of a Lume: src/src/transport/espnow/        *)
(* tofu_lock.cpp.  A Lume follows the first eligible Director it hears and *)
(* drops every other source until that Director has been silent for the   *)
(* timeout, or until the owner clears the lock (channel hop, mode entry).  *)
(*                                                                         *)
(* Two tasks use one lock.  The WiFi task calls admit() with its own       *)
(* millis(); the main task calls tick() with the `now' it captured at the  *)
(* top of loop_tick(), which the clock may since have left behind.  Time   *)
(* is kept as ages: lock_age is millis() - last_frame_ms_, and lag is      *)
(* millis() minus the captured `now'.                                      *)
(*                                                                         *)
(* Here each call is one step, which is what the class itself can promise. *)
(* LumeMode splits tick() where a frame can come between.                  *)
(***************************************************************************)
EXTENDS Naturals

CONSTANTS
    SourceIds,      \* the source_ids a Director can carry
    PerformanceIds, \* those in 0x40..0xFE, the only ones legal on channel 11
    BroadcastId,    \* kBroadcastSourceId, the anonymous sender
    NoSource,       \* locked_id_ when there is no lock
    Channels,       \* the WiFi channels in use: 1, 6 and 11
    ShowChannel,    \* channel 11
    Timeout,        \* kDefaultTimeoutMs
    MaxLag          \* bound: how far the clock may run ahead of `now'

ASSUME TofuAssumption ==
    /\ PerformanceIds \subseteq SourceIds
    /\ BroadcastId \notin SourceIds
    /\ NoSource \notin SourceIds
    /\ Timeout \in Nat \ {0}
    /\ MaxLag \in Nat

VARIABLES
    has_lock_,
    locked_id_,
    lock_age,       \* age of last_frame_ms_; saturates at LockAgeMax
    lag,            \* millis() minus the main task's captured `now'
    incumbent,      \* history: source of the last admitted frame since a clear
    silence         \* history: time since that frame; saturates at LockAgeMax

lockVars == <<has_lock_, locked_id_, lock_age>>
historyVars == <<incumbent, silence>>
tofuVars == <<has_lock_, locked_id_, lock_age, lag, incumbent, silence>>

\* Beyond this age no comparison made by the code can change its outcome.
LockAgeMax == Timeout + MaxLag

Saturate(n, max) == IF n > max THEN max ELSE n

\* A plausible bug: the subtraction without its guard, which wraps when the
\* stamp is ahead of `now'.
AgeAtNowUnguarded(age) == IF age >= lag THEN age - lag ELSE LockAgeMax

\* The age the main task computes from its captured `now': the code's
\* saturating subtraction, (now >= stamp) ? now - stamp : 0.
AgeAtNow(age) == IF age >= lag THEN age - lag ELSE 0

-----------------------------------------------------------------------------
(* admit(): called by the WiFi task for every frame.                       *)

\* A source this Lume may lock to at all when it listens on channel ch.
Eligible(src, ch) ==
    /\ src # BroadcastId
    /\ ch = ShowChannel => src \in PerformanceIds

\* A plausible bug: first use without the trust, any eligible source passes.
AdmitsAnyEligible(src, ch) == Eligible(src, ch)

Admits(src, ch) == Eligible(src, ch) /\ (has_lock_ => src = locked_id_)

Admit(src, ch) ==
    /\ Admits(src, ch)
    /\ has_lock_' = TRUE
    /\ locked_id_' = src
    /\ lock_age' = 0
    /\ incumbent' = src
    /\ silence' = 0

(* tick() and clear(): called by the main task.                            *)

Unlock ==
    /\ has_lock_' = FALSE
    /\ locked_id_' = NoSource
    /\ lock_age' = 0

\* A plausible bug: the lock goes one unit early.
ExpiredEarly == has_lock_ /\ AgeAtNow(lock_age) + 1 >= Timeout

Expired == has_lock_ /\ AgeAtNow(lock_age) >= Timeout

TofuTick ==
    /\ IF Expired THEN Unlock ELSE UNCHANGED lockVars
    /\ UNCHANGED historyVars

TofuClear ==
    /\ Unlock
    /\ incumbent' = NoSource
    /\ silence' = 0

(* The clock: one unit passes for both tasks.                              *)
TofuClock ==
    /\ lag < MaxLag
    /\ lag' = lag + 1
    /\ lock_age' = IF has_lock_ THEN Saturate(lock_age + 1, LockAgeMax) ELSE 0
    /\ silence' = Saturate(silence + 1, LockAgeMax)
    /\ UNCHANGED <<has_lock_, locked_id_, incumbent>>

-----------------------------------------------------------------------------
(* The lock on its own: frames of any source on any channel, interleaved   *)
(* with the loop passes and rescans of the main task.                      *)

TofuInit ==
    /\ has_lock_ = FALSE
    /\ locked_id_ = NoSource
    /\ lock_age = 0
    /\ lag = 0
    /\ incumbent = NoSource
    /\ silence = 0

CaptureNow == lag' = 0 /\ UNCHANGED <<lockVars, historyVars>>

TofuNext ==
    \/ \E src \in SourceIds \cup {BroadcastId}, ch \in Channels :
          Admit(src, ch) /\ UNCHANGED lag
    \/ TofuTick /\ UNCHANGED lag
    \/ TofuClear /\ UNCHANGED lag
    \/ CaptureNow
    \/ TofuClock

TofuSpec == TofuInit /\ [][TofuNext]_tofuVars

-----------------------------------------------------------------------------
TofuTypeOK ==
    /\ has_lock_ \in BOOLEAN
    /\ locked_id_ \in SourceIds \cup {NoSource}
    /\ lock_age \in 0 .. LockAgeMax
    /\ lag \in 0 .. MaxLag
    /\ incumbent \in SourceIds \cup {NoSource}
    /\ silence \in 0 .. LockAgeMax

\* What makes the lock sound: a held lock names the source of the last
\* admitted frame and has its age; a lock that was lost to the timeout was
\* lost to real silence, however stale the `now' the main task used.
LockTracksIncumbent ==
    /\ has_lock_ => /\ locked_id_ = incumbent
                    /\ incumbent # NoSource
                    /\ lock_age = silence
    /\ ~has_lock_ => locked_id_ = NoSource /\ lock_age = 0
    /\ ~has_lock_ /\ incumbent # NoSource => silence >= Timeout

\* A Lume changes Director only after the one it followed has really been
\* silent for the timeout (or after an explicit clear): two shows on one
\* channel never alternate on a Lume.  Admit, tick and a late `now' together.
HandoverOnlyAfterSilence ==
    [][(incumbent # NoSource /\ incumbent' \notin {NoSource, incumbent})
           => silence >= Timeout]_tofuVars

\* What src/include/transport/espnow/tofu_lock.h says of display traffic:
\* a frame whose source_id is the broadcast id is admitted while a lock is
\* held.  admit() rejects every broadcast source first.
BroadcastAdmittedWhenLocked ==
    has_lock_ => \E ch \in Channels : Admits(BroadcastId, ch)
=============================================================================
