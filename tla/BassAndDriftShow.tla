-------------------------- MODULE BassAndDriftShow --------------------------
(***************************************************************************)
(* The Bass & Drift show: bass_and_drift_show.cpp, as operators on the     *)
(* pair of its own state and the DAL's.  It holds one wash, by section of  *)
(* the song, and pulses on the beat; a button forces the wash of a drop.   *)
(*                                                                         *)
(* The tempo is abstracted: a beat says whether it moved the estimate far  *)
(* enough to recompute a beat-locked drift, and a wash is told by its      *)
(* palette and its section.                                                *)
(***************************************************************************)
EXTENDS DalWash, Sequences, FiniteSets

CONSTANTS
    Palettes,       \* sequence of names
    Sections        \* of a song; "verse" and "drop" are two

\* A fresh instance, with the default properties.
FreshDrift ==
    [drop |-> FALSE, prev |-> "verse", section |-> "verse",
     recompute |-> TRUE,
     palette |-> 1, group |-> 0, locked |-> FALSE, responds |-> TRUE]

Stage(show, dal) == [show |-> show, dal |-> dal]

WashOf(show) == [palette |-> Palettes[show.palette], section |-> show.section]

\* emit_wash_for_section(current_section_): the 3 s gap between recomputations
\* starts again.
DriftEmits(show, dal) ==
    Stage([show EXCEPT !.recompute = FALSE], RenderWash(dal, show.group, WashOf(show)))

\* fire_pulse_for_section(); a starlight pulse after it finds no airtime.
DriftPulses(before) == [before EXCEPT !.dal = RenderFx(@)]

\* enter() keeps the properties, which live in the property bag.
DriftEnter(show, dal) ==
    DriftEmits([show EXCEPT !.drop = FALSE, !.prev = "verse", !.section = "verse"], dal)

DriftExit(show, dal) == RenderWashEnd(dal, show.group)

\* A plausible bug: the test of the manual drop is left out.
RecomputesAnyTime(show, moved) == show.locked /\ show.recompute /\ moved

Recomputes(show, moved) == ~show.drop /\ show.locked /\ show.recompute /\ moved

\* on_beat_detected().
DriftBeat(show, dal, paused, moved) ==
    IF paused THEN Stage(show, dal)
    ELSE DriftPulses(IF Recomputes(show, moved) THEN DriftEmits(show, dal) ELSE Stage(show, dal))

\* on_section_change(): noted while a manual drop lasts.
DriftSection(show, dal, section) ==
    LET noted == [show EXCEPT !.section = section]
    IN  IF show.drop THEN Stage([noted EXCEPT !.prev = section], dal)
        ELSE IF ~show.responds THEN Stage(noted, dal)
        ELSE DriftEmits(noted, dal)

\* Confirm: the drop, and a pulse at once.
DriftConfirm(show, dal) ==
    DriftPulses(DriftEmits([show EXCEPT !.prev = show.section, !.drop = TRUE, !.section = "drop"],
                           dal))

NextPalette(show) == [show EXCEPT !.palette = (@ % Len(Palettes)) + 1]

\* Cycle: set_property(), which does not call on_property_changed().
DriftCycle(show, dal) == Stage(NextPalette(show), dal)

\* The settings overlay: the property steps on, then on_property_changed(),
\* which re-emits the section for three of the keys, in a manual drop too.
DriftEdit(show, dal, key) ==
    CASE key = "palette_set"  -> DriftEmits(NextPalette(show), dal)
      [] key = "wash_speed"   -> DriftEmits([show EXCEPT !.locked = ~@], dal)
      [] key = "target_group" -> DriftEmits([show EXCEPT !.group = (@ + 1) % Cardinality(Targets)], dal)
      [] key = "respond_to_sections" -> Stage([show EXCEPT !.responds = ~@], dal)

=============================================================================
