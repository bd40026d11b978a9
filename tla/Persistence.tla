---------------------------- MODULE Persistence ----------------------------
(***************************************************************************)
(* The settings of a device in NVS, namespace "noct"                       *)
(* (src/src/modes/persistence.cpp).  NVS is a function from keys to raw    *)
(* values, Absent where nothing was written.  Save(key, v) is what the     *)
(* save_*() of a key leaves in NVS; Load(key, raw, r) is the value its     *)
(* load_*() returns and what it leaves there, if it rolls r; Loads(key,    *)
(* raw) is all it may be.  Names are kept by their length.                 *)
(***************************************************************************)
EXTENDS Naturals, FiniteSets

CONSTANTS
    Absent,         \* no such key
    Refused,        \* save_director_perf_source_id() of an illegal id: NVS is left alone
    Rolls,          \* the outcomes of esp_random() a run follows, \subseteq Nat
    DefaultShow, DefaultStripLength, DefaultStripGroup, DefaultBrightness,
    DefaultRuntimeMode, DefaultPairWindow, DefaultRetransmits

ASSUME PersistenceAssumption ==
    /\ Rolls \subseteq Nat /\ Rolls # {}
    /\ Absent \notin Nat \cup BOOLEAN
    /\ Refused \notin Nat \cup {Absent}
    /\ DefaultStripLength \in 1 .. 288
    /\ DefaultRetransmits \in Nat

Or(raw, default) == IF raw = Absent THEN default ELSE raw
Clip(lo, v, hi) == IF v < lo THEN lo ELSE IF v > hi THEN hi ELSE v
OneOf(legal, v, default) == IF v \in legal THEN v ELSE default

PersistedModes == {"Director", "Lume", "Config", "Test"}

FlagDefault ==
    [ir_en |-> TRUE, ir_int_en |-> TRUE, ir_ext_en |-> FALSE, scr_puls_en |-> TRUE,
     dir_calm |-> FALSE, slv_repeat |-> FALSE, strip_en |-> TRUE]
Flags == DOMAIN FlagDefault

DirectorChannels == {1, 6, 11}
LumeChannels == {0, 1, 6, 11}

\* The load of a key that is only read, clamped on its way out.
ReadRuntimeMode(raw) == OneOf(PersistedModes, Or(raw, DefaultRuntimeMode), DefaultRuntimeMode)
ReadDirectorChannel(raw) == OneOf(DirectorChannels, Or(raw, 1), 1)
ReadLumeChannel(raw) == OneOf(LumeChannels, Or(raw, 0), 0)
ReadPairWindow(raw) == Clip(5, Or(raw, DefaultPairWindow), 255)
ReadRetransmits(raw) == Clip(1, Or(raw, DefaultRetransmits), 5)
ReadName(raw) == Clip(0, Or(raw, 0), 20)
ReadBrightness(raw) == Clip(0, Or(raw, DefaultBrightness), 100)
ReadStripGroup(raw) == Clip(1, Or(raw, DefaultStripGroup), 255)
ReadSourceId(raw) == IF Or(raw, 0) > 63 THEN 0 ELSE Or(raw, 0)

\* A length of 0 is not clipped to 1: it means the default.
StripLength(n) == IF n = 0 THEN DefaultStripLength ELSE Clip(1, n, 288)
ReadStripLength(raw) == StripLength(Or(raw, DefaultStripLength))

Kept(value, raw) == [value |-> value, raw |-> raw]

\* The keys whose load writes: the first one pins the default, the roll or
\* the repaired id.

\* A plausible bug: the group is rolled on every load until one is saved.
LoadGroupUnpinned(raw, r) == IF raw = Absent THEN Kept(1 + (r % 3), raw) ELSE Kept(raw, raw)

LoadGroup(raw, r) == IF raw = Absent THEN Kept(1 + (r % 3), 1 + (r % 3)) ELSE Kept(raw, raw)

PerformanceIds == 64 .. 254

LoadPerfSourceId(raw, r) ==
    IF Or(raw, 0) \in PerformanceIds THEN Kept(raw, raw)
    ELSE Kept(64 + (r % 191), 64 + (r % 191))

LoadCalm(raw) == Kept(Or(raw, FALSE), Or(raw, FALSE))
LoadRetransmits(raw) == Kept(ReadRetransmits(raw), Or(raw, DefaultRetransmits))

\* load_*(), should it roll r.
Load(key, raw, r) ==
    CASE key = "last_mode"     -> Kept(ReadRuntimeMode(raw), raw)
      [] key = "dir_calm"      -> LoadCalm(raw)
      [] key \in Flags \ {"dir_calm"} -> Kept(Or(raw, FlagDefault[key]), raw)
      [] key = "retx_count"    -> LoadRetransmits(raw)
      [] key = "pair_win_s"    -> Kept(ReadPairWindow(raw), raw)
      [] key = "friendly_name" -> Kept(ReadName(raw), raw)
      [] key = "mst_chan"      -> Kept(ReadDirectorChannel(raw), raw)
      [] key \in {"slv_chan", "rpt_chan"} -> Kept(ReadLumeChannel(raw), raw)
      [] key = "slv_group"     -> LoadGroup(raw, r)
      [] key = "strip_bri"     -> Kept(ReadBrightness(raw), raw)
      [] key = "strip_cnt"     -> Kept(ReadStripLength(raw), raw)
      [] key = "strip_grp"     -> Kept(ReadStripGroup(raw), raw)
      [] key = "mst_src_id"    -> Kept(ReadSourceId(raw), raw)
      [] key = "mst_pid"       -> LoadPerfSourceId(raw, r)
      [] key = "active_show"   -> Kept(Or(raw, DefaultShow), raw)

Loads(key, raw) == {Load(key, raw, r) : r \in Rolls}

SaveRuntimeMode(m) == IF m \in PersistedModes THEN m ELSE Refused
SaveName(n) == IF n = 0 THEN Absent ELSE Clip(1, n, 20)
SavePerfSourceId(id) == IF id \in PerformanceIds THEN id ELSE Refused

\* What save_*() makes of a value.
Saved(key, v) ==
    CASE key = "last_mode"     -> SaveRuntimeMode(v)
      [] key \in Flags         -> v
      [] key = "retx_count"    -> Clip(1, v, 5)
      [] key = "pair_win_s"    -> Clip(5, v, 255)
      [] key = "friendly_name" -> SaveName(v)
      [] key = "mst_chan"      -> OneOf(DirectorChannels, v, 1)
      [] key \in {"slv_chan", "rpt_chan"} -> OneOf(LumeChannels, v, 0)
      [] key = "slv_group"     -> v
      [] key = "strip_bri"     -> Clip(0, v, 100)
      [] key = "strip_cnt"     -> StripLength(v)
      [] key = "strip_grp"     -> Clip(1, v, 255)
      [] key = "mst_src_id"    -> IF v > 63 THEN 0 ELSE v
      [] key = "mst_pid"       -> SavePerfSourceId(v)
      [] key = "active_show"   -> v

Save(nvs, key, v) == IF Saved(key, v) = Refused THEN nvs ELSE [nvs EXCEPT ![key] = Saved(key, v)]

-----------------------------------------------------------------------------
(* What setup() does to NVS before any mode runs.                          *)

\* The names of the visualisations that became the show "simple-beat".
LegacyShow(vis) == IF vis \in {"beat-pulse", "spectrum-bars"} THEN "simple-beat" ELSE vis

MigrateShow(nvs) ==
    IF nvs["active_vis"] = Absent THEN nvs
    ELSE [nvs EXCEPT !["active_show"] = IF @ = Absent THEN LegacyShow(nvs["active_vis"]) ELSE @,
                     !["active_vis"] = Absent]

RollGroup(nvs) ==
    IF nvs["slv_group"] # Absent THEN {nvs}
    ELSE {[nvs EXCEPT !["slv_group"] = (r % 3) + 1] : r \in Rolls}

RollSourceId(nvs) ==
    IF nvs["mst_src_id"] # Absent /\ nvs["mst_src_id"] <= 63 THEN {nvs}
    ELSE {[nvs EXCEPT !["mst_src_id"] = r % 64] : r \in Rolls}

\* migrate_legacy_nvs_keys(), one call; a cut of the power leaves it after
\* any of its writes.
Migrated(nvs) == UNION {RollSourceId(g) : g \in RollGroup(MigrateShow(nvs))}
MigrationCut(nvs) == {nvs, MigrateShow(nvs)} \cup RollGroup(MigrateShow(nvs))

\* apply_strip_force_defaults(): once per build, the tag last.
ForceStripDefaults(nvs, build) ==
    IF nvs["strip_btag"] = build THEN nvs
    ELSE [nvs EXCEPT !["strip_en"] = TRUE, !["strip_bri"] = DefaultBrightness,
                     !["strip_grp"] = DefaultStripGroup, !["strip_cnt"] = DefaultStripLength,
                     !["strip_btag"] = build]
=============================================================================
