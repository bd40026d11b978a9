---------------------------- MODULE DirectorMode ----------------------------
(***************************************************************************)
(* A Director that runs a show from its microphone: director_mode.cpp with *)
(* the shows it may pick, the DAL under them, and the fleet, whose Lumes   *)
(* restart.                                                                *)
(*                                                                         *)
(* Everything here runs on the main task, so one call of the mode is one   *)
(* step.  A call may ask the radio for several frames; it takes one in     *)
(* kMinSendIntervalMs.  The shows that pulse and hold no wash (Simple      *)
(* Beat, Dynamic) are one: they differ in colours and targets.             *)
(***************************************************************************)
EXTENDS BassAndDriftShow

CONSTANTS
    ShowIds,        \* "pulse", "drift", "wash_demo"
    MaxInputs       \* bound: frames that matter, buttons and restarts

ASSUME ShowsAssumption == ShowIds \subseteq {"pulse", "drift", "wash_demo"}

VARIABLES
    mode,       \* "director", or "menu" for any mode but this one
    show_id,    \* active_show_
    overlay,    \* overlay_
    paused,
    delivered,  \* [yes, section]: section_delivered_, last_section_delivered_
    drift,      \* the Bass & Drift singleton and its property bag
    dal,        \* see DalWash
    inputs

stageVars == <<mode, show_id, overlay, paused, delivered, drift, dal, inputs>>

NeverDelivered == [yes |-> FALSE, section |-> "verse"]

DirectorInit ==
    /\ mode = "menu" /\ show_id \in ShowIds /\ overlay = "none" /\ paused = FALSE
    /\ delivered = NeverDelivered /\ drift = FreshDrift /\ dal = FreshDal
    /\ inputs = 0

Asked == inputs < MaxInputs /\ inputs' = inputs + 1

Becomes(after) == drift' = after.show /\ dal' = after.dal

-----------------------------------------------------------------------------
(* The callbacks of the active show.                                       *)

DemoWash(section) == [palette |-> "demo", section |-> section]

ShowEnter(id, before) ==
    CASE id = "drift"     -> DriftEnter(before.show, before.dal)
      [] id = "wash_demo" -> Stage(before.show, RenderWash(before.dal, 0, DemoWash("verse")))
      [] id = "pulse"     -> before

ShowExit(id) ==
    CASE id = "drift"     -> DriftExit(drift, dal)
      [] id = "wash_demo" -> RenderWashEnd(dal, 0)
      [] id = "pulse"     -> dal

\* Simple Beat's pulse on the beat, and Dynamic's on an onset.
Pulsed == IF paused THEN dal ELSE RenderFx(dal)

\* on_beat_detected(); the demo pulses though paused.
ShowBeat(moved) ==
    CASE show_id = "drift"     -> DriftBeat(drift, dal, paused, moved)
      [] show_id = "wash_demo" -> Stage(drift, RenderFx(dal))
      [] show_id = "pulse"     -> Stage(drift, Pulsed)

ShowSection(before, section) ==
    CASE show_id = "drift"     -> DriftSection(before.show, before.dal, section)
      [] show_id = "wash_demo" -> Stage(before.show, RenderWash(before.dal, 0, DemoWash(section)))
      [] show_id = "pulse"     -> before

-----------------------------------------------------------------------------
(* The mode.                                                               *)

\* enter(): the show is entered before the radio is started, which listens
\* first.
Enter ==
    /\ mode = "menu" /\ Asked
    /\ mode' = "director" /\ overlay' = "none" /\ paused' = FALSE
    /\ delivered' = NeverDelivered
    /\ LET shown == ShowEnter(show_id, Stage(drift, dal))
       IN  Becomes([shown EXCEPT !.dal.radio = "listening"])
    /\ UNCHANGED show_id

\* The listening window closes; the gap since the last frame is forgotten.
Listened ==
    /\ dal.radio = "listening"
    /\ dal' = [dal EXCEPT !.radio = "active", !.air = TRUE]
    /\ UNCHANGED <<mode, show_id, overlay, paused, delivered, drift, inputs>>

\* on_audio_frame(): the beat, then the section if it is new.  Nothing is
\* delivered under an overlay.
AudioFrame ==
    /\ mode = "director" /\ overlay = "none" /\ Asked
    /\ \E beat \in BOOLEAN, moved \in BOOLEAN, section \in Sections :
          LET beaten == IF beat THEN ShowBeat(moved) ELSE Stage(drift, dal)
              fresh == ~delivered.yes \/ delivered.section # section
          IN  /\ beat \/ (fresh /\ ~moved)
              /\ Becomes(IF fresh THEN ShowSection(beaten, section) ELSE beaten)
              /\ delivered' = [yes |-> TRUE, section |-> section]
    /\ UNCHANGED <<mode, show_id, overlay, paused>>

TogglePause ==
    /\ mode = "director" /\ overlay = "none" /\ Asked
    /\ paused' = ~paused
    /\ UNCHANGED <<mode, show_id, overlay, delivered, drift, dal>>

\* Confirm and Cycle reach the show when no overlay is up.
ShowInput ==
    /\ mode = "director" /\ overlay = "none" /\ show_id = "drift" /\ Asked
    /\ \/ Becomes(DriftConfirm(drift, dal))
       \/ Becomes(DriftCycle(drift, dal))
    /\ UNCHANGED <<mode, show_id, overlay, paused, delivered>>

\* The buttons that open an overlay close it.
ToggleOverlay ==
    /\ mode = "director"
    /\ \/ overlay = "none" /\ overlay' \in {"picker", "settings"}
       \/ overlay # "none" /\ overlay' = "none"
    /\ UNCHANGED <<mode, show_id, paused, delivered, drift, dal, inputs>>

\* on_picker_confirm() at one of the last two rows, and exit(): the show is
\* left, then the radio stops.
PickerBack ==
    /\ mode = "director" /\ overlay = "picker" /\ Asked
    /\ mode' = "menu" /\ overlay' = "none"
    /\ dal' = [ShowExit(show_id) EXCEPT !.radio = "idle"]
    /\ UNCHANGED <<show_id, paused, delivered, drift>>

\* At the row of another show.  The section that was delivered stays noted,
\* so the new show is not told.
PickerConfirm ==
    /\ mode = "director" /\ overlay = "picker" /\ Asked
    /\ overlay' = "none"
    /\ \E id \in ShowIds \ {show_id} :
          /\ show_id' = id
          /\ Becomes(ShowEnter(id, Stage(drift, ShowExit(show_id))))
    /\ UNCHANGED <<mode, paused, delivered>>

\* on_settings_confirm(), at a row of Bass & Drift that changes what it
\* does; the other rows, and the other shows', tell a look.
SettingsConfirm ==
    /\ mode = "director" /\ overlay = "settings" /\ show_id = "drift" /\ Asked
    /\ \E key \in {"palette_set", "wash_speed", "target_group", "respond_to_sections"} :
          Becomes(DriftEdit(drift, dal, key))
    /\ UNCHANGED <<mode, show_id, overlay, paused, delivered>>

RefreshNow == mode = "director" /\ Accepts(dal) /\ Due(dal) # {}

\* loop_tick() draws, under any overlay, and refreshes.
LoopTick ==
    /\ RefreshNow
    /\ dal' = Refreshed(dal)
    /\ UNCHANGED <<mode, show_id, overlay, paused, delivered, drift, inputs>>

\* A Lume is switched on in the middle of the show, or misses the frame.
LumeRestarts ==
    /\ Asked
    /\ \E t \in Targets : dal' = [dal EXCEPT !.fleet[t] = NoWash]
    /\ UNCHANGED <<mode, show_id, overlay, paused, delivered, drift>>

\* Time passes: much more than a pass of the loop, or the gap between two
\* frames.
Tick ==
    /\ ~RefreshNow
    /\ dal' = Later(dal)
    /\ drift' = [drift EXCEPT !.recompute = TRUE]
    /\ UNCHANGED <<mode, show_id, overlay, paused, delivered, inputs>>

DirectorNext ==
    \/ Enter \/ Listened \/ PickerBack
    \/ AudioFrame \/ LoopTick \/ Tick
    \/ TogglePause \/ ShowInput \/ ToggleOverlay \/ PickerConfirm \/ SettingsConfirm
    \/ LumeRestarts

\* The loop runs, the listening window closes, and time passes.
DirectorSpec ==
    /\ DirectorInit /\ [][DirectorNext]_stageVars
    /\ WF_stageVars(LoopTick) /\ WF_stageVars(Listened) /\ WF_stageVars(Tick)

-----------------------------------------------------------------------------
\* When no show holds a wash, in the menu or under a show that only pulses,
\* the Director's own strip is dark, though the radio may have refused the
\* end of the wash: it listens, or has just sent a frame.
StripReleased == mode = "menu" \/ show_id = "pulse" => dal.strip = NoWash

\* While a manual drop lasts, no beat, section or button takes its wash off
\* the strip but an edit of the settings (on_beat_detected: the drop "owns
\* the wash").
DropHeld ==
    [][ mode = "director" /\ mode' = "director" /\ show_id = "drift" /\ show_id' = "drift"
        /\ drift.drop /\ drift'.drop /\ dal.strip.section = "drop"
        => dal'.strip.section = "drop" \/ overlay = "settings" ]_stageVars

\* A Lume that restarts in the middle of a show is lit again: as long as the
\* table holds a wash for its target, a refresh brings it, whatever other
\* washes are due at the same time and whatever pulses take the airtime.
RestartedLumeRelit ==
    \A t \in Targets :
        \A i \in 1 .. MaxActiveWashes :
            (mode = "director" /\ i \in SlotsOf(dal.table, t))
            ~> (mode # "director" \/ i \notin SlotsOf(dal.table, t)
                \/ dal.fleet[t] = dal.table[i].wash)

\* "tick() restores the previous section's" wash, says
\* bass_and_drift_show.h: a manual drop comes to an end while the show runs.
ManualDropEnds == drift.drop ~> (~drift.drop \/ mode # "director" \/ show_id # "drift")

=============================================================================
