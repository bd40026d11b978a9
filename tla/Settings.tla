------------------------------ MODULE Settings ------------------------------
(***************************************************************************)
(* The settings of one device as it runs: what is in NVS, what it has last *)
(* shown or answered for one of them (history), and what the drivers were  *)
(* last told.  Every load of a screen or a mode goes through Reread, every *)
(* save through Stored, with the repairs and rolls of Persistence.  Within *)
(* a step, seen holds what it has loaded of every setting; across steps    *)
(* only what was seen of the one that is watched.                          *)
(***************************************************************************)
EXTENDS ConfigBag

CONSTANTS
    Unseen,         \* never loaded since it was last reset
    Shows,          \* the ids of the registered Shows
    HasExternalIr,  \* a second emitter: the Plus2
    StripForced,    \* NOCT_STRIP_FORCE_DEFAULTS
    StripCap,       \* hal::HAL::max_strip_brightness_percent()
    Build           \* the tag of the firmware on the device

ASSUME SettingsAssumption == {HasExternalIr, StripForced} \subseteq BOOLEAN

VARIABLES
    disk,       \* [nvs, seen, watched]
    live        \* the enable flags and the strip's numbers in the drivers

MenuSettings ==
    Flags \cup {"retx_count", "mst_chan", "slv_chan", "slv_group", "strip_bri", "strip_cnt",
                "strip_grp", "mst_pid", "mst_src_id", "active_show", "pair_win_s",
                "friendly_name", "last_mode"}
StoredKeys == MenuSettings \cup {"active_vis", "strip_btag"}

StripKeys == {"strip_en", "strip_bri", "strip_grp", "strip_cnt"}
DriverKeys == StripKeys \cup {"ir_en", "ir_int_en", "ir_ext_en", "scr_puls_en"}

\* What loads of the keys S leave, a roll among them being r.
Loaded(S, d, r) ==
    [d EXCEPT !.nvs = [k \in StoredKeys |-> IF k \in S THEN Load(k, @[k], r).raw ELSE @[k]],
              !.seen = [k \in MenuSettings |-> IF k \in S THEN Load(k, d.nvs[k], r).value ELSE @[k]]]

\* The disks a load of the keys S may leave: a load can write too.  No screen,
\* mode or answer loads two settings that roll, so that one roll is enough.
Reread(S, d) == {Loaded(S, d, r) : r \in Rolls}

Stored(k, v, d) == [d EXCEPT !.nvs = Save(@, k, v), !.seen[k] = Unseen]

\* The disk after a step.
Settled(d) == [d EXCEPT !.seen = [k \in MenuSettings |-> IF k = d.watched THEN @[k] ELSE Unseen]]
DiskBecomes(ds) == disk' \in {Settled(d) : d \in ds}

\* save_*() and the load that redraws it.
StoredAndShown(k, v, d) == Reread({k}, Stored(k, v, d))

\* A value as its driver keeps it: set_brightness_percent() clips.
Pushed(k, v) == IF k = "strip_bri" THEN Clip(0, v, StripCap) ELSE v

\* DAL::apply_persisted_strip_settings(), given its loads.
WithStrip(drivers, d) ==
    [k \in DriverKeys |-> IF k \in StripKeys THEN Pushed(k, d.seen[k]) ELSE drivers[k]]

Forget(S, d) == [d EXCEPT !.seen = [k \in MenuSettings |-> IF k \in S THEN Unseen ELSE @[k]]]

\* What button A makes of a value: the next of a cycle, or its first when the
\* value is none of them.
StepIn(cycle, v) ==
    IF \E i \in DOMAIN cycle : cycle[i] = v
    THEN cycle[((CHOOSE i \in DOMAIN cycle : cycle[i] = v) % Len(cycle)) + 1]
    ELSE cycle[1]

DirectorChannelCycle == <<1, 6, 11>>
LumeChannelCycle == <<0, 1, 6, 11>>
StripGroupCycle == <<1, 6, 12, 24>>
StripLengthCycle == <<15, 29, 72, 144, 288>>
BrightnessCycle == <<5, 10, 25, 50>>

\* The id of a Director, a nibble at a time, or rolled anew; 255 is no id.
HighNibble(v) ==
    LET hi == IF v \div 16 >= 15 THEN 4 ELSE (v \div 16) + 1
    IN  IF hi < 4 THEN 64 + (v % 16) ELSE IF hi = 15 /\ v % 16 = 15 THEN 254 ELSE hi * 16 + (v % 16)

LowNibble(v) ==
    LET next == (v - (v % 16)) + ((v + 1) % 16) IN IF next = 255 THEN 240 ELSE next

Rerolled == {64 + (r % 191) : r \in Rolls}

NextValues(k, v) ==
    CASE k \in Flags       -> {~v}
      [] k = "mst_chan"    -> {StepIn(DirectorChannelCycle, v)}
      [] k = "slv_chan"    -> {StepIn(LumeChannelCycle, v)}
      [] k = "retx_count"  -> {IF v >= 5 THEN 1 ELSE v + 1}
      [] k = "mst_pid"     -> {HighNibble(v), LowNibble(v)} \cup Rerolled
      [] k = "slv_group"   -> {(v + 1) % 7}
      [] k = "active_show" -> Shows
      [] k = "strip_grp"   -> {StepIn(StripGroupCycle, v)}
      [] k = "strip_cnt"   -> {StepIn(StripLengthCycle, v)}
      [] k = "strip_bri"   -> {StepIn(BrightnessCycle, v)}

-----------------------------------------------------------------------------
(* ModeMachine::begin(), which every power-up runs.                        *)

BootFlags == {"last_mode", "ir_en", "ir_int_en", "ir_ext_en", "scr_puls_en"}

Forced(d) ==
    IF ~StripForced \/ d.nvs["strip_btag"] = Build THEN d
    ELSE Forget(StripKeys, [d EXCEPT !.nvs = ForceStripDefaults(@, Build)])

\* The disk after it.
Booted(d) ==
    UNION {{Forced([b EXCEPT !.nvs = n]) : n \in Migrated(b.nvs)} : b \in Reread(BootFlags, d)}

\* A power-up cut short while NVS is migrated.
BootCut(d) == {[d EXCEPT !.nvs = n] : n \in MigrationCut(d.nvs)}

FreshNvs == [k \in StoredKeys |-> Absent]
NothingSeen == [k \in MenuSettings |-> Unseen]
Erased(d) == [d EXCEPT !.nvs = FreshNvs, !.seen = NothingSeen]
=============================================================================
