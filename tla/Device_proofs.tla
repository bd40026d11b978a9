---------------------------- MODULE Device_proofs ----------------------------
(***************************************************************************)
(* What holds of a Stick for every content of NVS, every set of rolls,     *)
(* written entries and shows, and every board: no way out of a screen      *)
(* leaves the pairing service or the microphone running, a setting is what *)
(* it was last shown to be, and the strip driver of a mode that renders    *)
(* runs on what is stored.                                                 *)
(***************************************************************************)
EXTENDS Device, TLAPS

-----------------------------------------------------------------------------
(* The screens and the service, and what is running under which of them.   *)

SubScreens ==
    {None, "IR", "EspNow", "Dmx", "LedStrip", "PixMob", "LevelTuning", "System", "Show",
     "BlePair", "ConfigLumes"}

Menus ==
    [level : {"Top", "Picker", "Sub"}, picker : Pickers \cup {None}, sub : SubScreens, prev : {None, "System"},
     mic : BOOLEAN, edit : BOOLEAN, scan : {"Idle", "Requested", "Running", "Shown"},
     workflow : BOOLEAN, pair : {"Countdown", "Success", "Sleeping", "Timeout"},
     back : BOOLEAN]

Services ==
    [stack : BOOLEAN, served : BOOLEAN, active : BOOLEAN,
     window : {"Closed", "Open", "Committed", "Sleeping", "Aborted"},
     role : {"Lume", "Director"}, client : BOOLEAN, left : Nat]

ScreensTyped ==
    /\ menu \in Menus /\ (menu.level = "Picker" => menu.picker \in Pickers)
    /\ ble \in Services /\ (ble.window = "Open" => ble.active)
    /\ link \in BOOLEAN

RunningInv == ScreensTyped /\ NothingLeftRunning

\* What a step does to the service and the screens, when it only keeps them:
\* the disk, the drivers and the bounds are no part of it.
LEMMA UnchangedKeepsRunning ==
    RunningInv /\ UNCHANGED <<ble, link, menu, mode>> => RunningInv'
  BY DEF RunningInv, ScreensTyped, NothingLeftRunning, OnSub, InConfig

\* The clients that end() throws out leave a link or none.
LEMMA UnlinkedIsALink == ScreensTyped => Unlinked \subseteq BOOLEAN
  BY DEF Unlinked, ScreensTyped

\* end() takes the window down, whatever it had come to.
LEMMA EndedIsDown ==
    ASSUME ble \in Services
    PROVE  /\ Ended(ble) \in Services /\ ~Ended(ble).active
           /\ (ble.window = "Open" => ble.active) => Ended(ble).window # "Open"
  BY DEF Ended, Services

\* Entering a mode, and leaving the one that runs: Config takes its microphone
\* and its service with it.
LEMMA EnterModeKeepsRunning ==
    ASSUME NEW id, RunningInv, EnterMode(id),
           ble.active => mode # "Config" \/ menu.level # "Top" \/ id = "Menu",
           id = "Config" => ~ble.active
    PROVE  RunningInv'
  <1>1. /\ menu \in Menus /\ ble \in Services /\ link \in BOOLEAN
        /\ ble.window = "Open" => ble.active
    BY DEF RunningInv, ScreensTyped
  <1>2. mode' = id /\ mode # id /\ link' \in BOOLEAN
    BY <1>1, UnlinkedIsALink DEF EnterMode, RunningInv
  <1>3. ble' \in Services /\ ~ble'.active /\ ble'.window # "Open"
    <2>1. CASE mode = "Config"
      BY <1>1, <2>1, EndedIsDown DEF EnterMode
    <2>2. CASE mode # "Config"
      BY <1>1, <2>2 DEF EnterMode, RunningInv, NothingLeftRunning, OnSub, InConfig
    <2> QED BY <2>1, <2>2
  <1>4. menu' \in Menus /\ ~menu'.mic /\ (menu'.level = "Picker" => menu'.picker \in Pickers)
    <2> DEFINE left == IF mode = "Config" THEN ConfigExited(menu) ELSE menu
    <2>1. left \in Menus /\ ~left.mic /\ (left.level = "Picker" => left.picker \in Pickers)
      BY ZenonT(60), <1>1
         DEF RunningInv, ScreensTyped, NothingLeftRunning, InConfig, ConfigExited, Menus
    <2>2. menu' = IF id = "Config" THEN ConfigEntered(left) ELSE left
      BY DEF EnterMode
    <2> HIDE DEF left
    <2> QED BY <2>1, <2>2 DEF ConfigEntered, MenuReset, Menus, SubScreens
  <1> QED BY <1>1, <1>2, <1>3, <1>4 DEF RunningInv, ScreensTyped, NothingLeftRunning

\* exit_ble_pair(): the window is down when the screen is left.
LEMMA ExitBlePairKeepsRunning == RunningInv /\ InConfig /\ ExitBlePair => RunningInv'
  <1> SUFFICES ASSUME RunningInv, InConfig, ExitBlePair PROVE RunningInv'
    OBVIOUS
  <1>1. /\ menu \in Menus /\ ble \in Services /\ link \in BOOLEAN
        /\ ble.window = "Open" => ble.active
    BY DEF RunningInv, ScreensTyped
  <1>2. ble' \in Services /\ ~ble'.active /\ ble'.window # "Open" /\ link' \in BOOLEAN
    BY <1>1, EndedIsDown, UnlinkedIsALink DEF ExitBlePair, RunningInv
  <1>3. menu' \in Menus /\ menu'.level = "Top"
    BY <1>1 DEF ExitBlePair, ExitedBlePair, Menus, SubScreens
  <1>4. mode' = mode
    BY DEF ExitBlePair
  <1> QED BY <1>2, <1>3, <1>4 DEF RunningInv, ScreensTyped, NothingLeftRunning, InConfig

\* A step of a screen that is not the pairing screen, and that leaves the
\* service and the mode alone: it ends in a screen, and only Level Tuning
\* starts the microphone.
LEMMA ScreenStepKeepsRunning ==
    ASSUME RunningInv, InConfig, ~ble.active, UNCHANGED <<ble, link, mode>>,
           menu' \in Menus, menu'.level = "Picker" => menu'.picker \in Pickers
    PROVE  RunningInv'
  BY DEF RunningInv, ScreensTyped, NothingLeftRunning, InConfig

\* Only the pairing screen has the service under it.
LEMMA ElsewhereIsDown == RunningInv /\ ~OnSub("BlePair") => ~ble.active
  BY DEF RunningInv, NothingLeftRunning

\* Button A, whatever it stands on.
LEMMA ButtonAKeepsRunning == RunningInv /\ ButtonA => RunningInv'
  <1> SUFFICES ASSUME RunningInv, ButtonA PROVE RunningInv'
    OBVIOUS
  <1> USE DEF aroundMenu, InConfig, OnSub
  <1>0. /\ menu \in Menus /\ ble \in Services /\ link \in BOOLEAN
        /\ menu.level = "Picker" => menu.picker \in Pickers
        /\ ble.window = "Open" => ble.active
    BY DEF RunningInv, ScreensTyped
  <1>1. CASE Edit \/ EditLive \/ EditId \/ FactoryReset
    BY <1>1, UnchangedKeepsRunning DEF Edit, EditLive, EditId, FactoryReset
  <1>2. CASE DrillTop
    <2>1. menu' \in Menus /\ (menu'.level = "Picker" => menu'.picker \in Pickers)
      BY <1>0, <1>2 DEF DrillTop, Open, Menus, SubScreens
    <2> QED BY <1>2, <2>1, ElsewhereIsDown, ScreenStepKeepsRunning DEF DrillTop
  <1>3. CASE DrillPicker
    <2>1. PICK s \in Entries[menu.picker] : menu' = [Open(s) EXCEPT !.mic = @ \/ s = "LevelTuning"]
      BY <1>3 DEF DrillPicker
    <2>2. s \in SubScreens
      BY <1>0, <1>3 DEF DrillPicker, Pickers, Entries, SubScreens
    <2>3. menu' \in Menus /\ menu'.level = "Sub"
      BY <1>0, <2>1, <2>2 DEF Open, Menus
    <2> QED BY <1>3, <2>3, ElsewhereIsDown, ScreenStepKeepsRunning DEF DrillPicker
  <1>4. CASE DrillShow
    <2>1. menu' \in Menus /\ menu'.level = "Sub"
      BY <1>0, <1>4 DEF DrillShow, Menus, SubScreens
    <2> QED BY <1>4, <2>1, ElsewhereIsDown, ScreenStepKeepsRunning DEF DrillShow
  <1>5. CASE OpenIdEditor \/ RequestScan \/ OpenWorkflow
    <2>1. menu' \in Menus /\ menu'.level = "Sub"
      BY <1>0, <1>5 DEF OpenIdEditor, RequestScan, OpenWorkflow, Menus
    <2> QED BY <1>5, <2>1, ElsewhereIsDown, ScreenStepKeepsRunning
            DEF OpenIdEditor, RequestScan, OpenWorkflow
  <1>6. CASE EnterBlePair
    <2>1. ~ble.active
      BY <1>6, ElsewhereIsDown DEF EnterBlePair
    <2>2. ble' \in Services /\ (ble'.window = "Open" => ble'.active)
      <3>1. PICK role \in {"Lume", "Director"} : ble' \in Begun(ble, role)
        BY <1>6 DEF EnterBlePair
      <3> DEFINE up == [ble EXCEPT !.stack = TRUE, !.served = @ \/ ~ble.stack, !.role = role]
                 on == [up EXCEPT !.active = TRUE, !.window = "Open", !.left = WindowUnits,
                                  !.client = FALSE]
      <3>2. up \in Services /\ up.window = ble.window /\ up.active = ble.active
        BY <1>0, <3>1 DEF Services
      <3> HIDE DEF up
      <3>3. on \in Services /\ on.active
        BY <3>2, BleAssumption DEF Services
      <3>4. ble' \in {up, on}
        BY <2>1, <3>1 DEF Begun, up
      <3> QED BY <1>0, <3>2, <3>3, <3>4
    <2>3. menu' \in Menus /\ menu'.level = "Sub" /\ menu'.sub = "BlePair" /\ menu'.mic = menu.mic
      BY <1>0, <1>6 DEF EnterBlePair, Menus, SubScreens
    <2> QED BY <1>0, <1>6, <2>2, <2>3 DEF EnterBlePair, RunningInv, ScreensTyped, NothingLeftRunning
  <1>7. CASE EnterConfigLumes
    <2>1. menu' \in Menus /\ menu'.level = "Sub"
      BY <1>0, <1>7 DEF EnterConfigLumes, Open, Menus, SubScreens
    <2> QED BY <1>7, <2>1, ElsewhereIsDown, ScreenStepKeepsRunning DEF EnterConfigLumes
  <1>8. CASE LiveScan
    <2>1. ble' \in Services /\ ble'.active = ble.active /\ ble'.window = ble.window
      BY <1>0, <1>8 DEF LiveScan, StartScan, Services
    <2> QED BY <1>0, <1>8, <2>1 DEF LiveScan, RunningInv, ScreensTyped, NothingLeftRunning
  <1> QED BY <1>1, <1>2, <1>3, <1>4, <1>5, <1>6, <1>7, <1>8 DEF ButtonA

\* Button B held, which the pairing screen takes for itself.
LEMMA HoldBKeepsRunning == RunningInv /\ HoldB => RunningInv'
  <1> SUFFICES ASSUME RunningInv, HoldB PROVE RunningInv'
    OBVIOUS
  <1>0. menu \in Menus
    BY DEF RunningInv, ScreensTyped
  <1>1. ~ble.active
    BY ElsewhereIsDown DEF HoldB, OnSub, Screen
  <1>2. menu' \in Menus /\ (menu'.level = "Picker" => menu'.picker \in Pickers)
    <2>1. \/ menu' = ToTop
          \/ menu' = [menu EXCEPT !.workflow = FALSE]
          \/ menu' = [menu EXCEPT !.edit = FALSE]
          \/ menu' = [menu EXCEPT !.scan = "Idle"]
          \/ menu.level = "Sub" /\ menu.prev # None
             /\ menu' = [menu EXCEPT !.sub = menu.prev, !.prev = None]
          \/ menu.picker # None
             /\ menu' = [menu EXCEPT !.level = "Picker", !.sub = None,
                                    !.mic = @ /\ menu.sub # "LevelTuning"]
      BY <1>0 DEF HoldB, BackFrom, Menus
    <2> QED BY ZenonT(60), <1>0, <2>1 DEF RunningInv, ScreensTyped, ToTop, Menus, SubScreens
  <1> QED BY <1>1, <1>2, ScreenStepKeepsRunning DEF HoldB, aroundMenu

\* loop_tick(): the Wi-Fi scan, and the poll of the countdown.
LEMMA ConfigTickKeepsRunning == RunningInv /\ ConfigTick => RunningInv'
  <1> SUFFICES ASSUME RunningInv, ConfigTick PROVE RunningInv'
    OBVIOUS
  <1>0. /\ menu \in Menus /\ ble \in Services /\ link \in BOOLEAN
        /\ ble.window = "Open" => ble.active
    BY DEF RunningInv, ScreensTyped
  <1>1. CASE ScanStep
    <2>1. menu' \in Menus /\ menu'.level = "Sub"
      BY <1>0, <1>1 DEF ScanStep, OnSub, Menus
    <2> QED BY <1>1, <2>1, ElsewhereIsDown, ScreenStepKeepsRunning
            DEF ScanStep, OnSub, InConfig, aroundMenu
  <1>2. CASE PollBlePair
    <2>1. /\ ble' \in Services /\ ble'.active = ble.active
          /\ ble'.window = "Open" => ble'.active
      BY <1>0, <1>2 DEF PollBlePair, Ticked, Services
    <2>2. menu' \in Menus /\ menu'.level = "Sub" /\ menu'.sub = "BlePair" /\ menu'.mic = menu.mic
      BY <1>0, <1>2 DEF PollBlePair, OnSub, Menus
    <2> QED BY <1>0, <1>2, <2>1, <2>2
            DEF PollBlePair, aroundMenu, OnSub, RunningInv, ScreensTyped, NothingLeftRunning, InConfig
  <1>3. CASE LeaveBlePair
    BY <1>3, ExitBlePairKeepsRunning DEF LeaveBlePair, OnSub
  <1> QED BY <1>1, <1>2, <1>3 DEF ConfigTick

\* A central, and the window's own time.
LEMMA ServiceKeepsRunning == RunningInv /\ (CentralActs \/ TimePasses) => RunningInv'
  <1> SUFFICES ASSUME RunningInv, CentralActs \/ TimePasses PROVE RunningInv'
    OBVIOUS
  <1>0. /\ menu \in Menus /\ ble \in Services /\ link \in BOOLEAN
        /\ ble.window = "Open" => ble.active
    BY DEF RunningInv, ScreensTyped
  <1>1. /\ ble' \in Services /\ ble'.active = ble.active /\ link' \in BOOLEAN
        /\ ble'.window = "Open" => ble'.active
    <2>1. CASE TimePasses
      <3>1. ble' = [ble EXCEPT !.left = ble.left - 1] /\ ble.left > 0 /\ link' = link
        BY <2>1 DEF TimePasses, Elapse
      <3>2. ble.left - 1 \in Nat
        BY <1>0, <3>1 DEF Services
      <3> QED BY <1>0, <3>1, <3>2 DEF Services
    <2>2. CASE CentralActs
      BY <1>0, <2>2 DEF CentralActs, Central, CentralConnects, CentralLeaves, CentralReads,
                        CentralWrites, CentralControls, Services
    <2> QED BY <2>1, <2>2
  <1>2. UNCHANGED <<menu, mode>>
    BY DEF CentralActs, TimePasses
  <1> QED BY <1>1, <1>2 DEF RunningInv, ScreensTyped, NothingLeftRunning, OnSub, InConfig

\* Modes come and go.
LEMMA ModeStepKeepsRunning ==
    RunningInv /\ (LeaveBoot \/ PickMode \/ BackToMenu \/ PickDmxBridge) => RunningInv'
  <1> SUFFICES ASSUME RunningInv, LeaveBoot \/ PickMode \/ BackToMenu \/ PickDmxBridge
               PROVE  RunningInv'
    OBVIOUS
  <1>1. ~ble.active
    BY ElsewhereIsDown
       DEF LeaveBoot, PickMode, BackToMenu, PickDmxBridge, OnSub, InConfig, Rendering
  <1>2. PICK id : EnterMode(id)
    BY DEF LeaveBoot, PickMode, BackToMenu, PickDmxBridge
  <1> QED BY <1>1, <1>2, EnterModeKeepsRunning

\* Power, which takes RAM with it, and the shows, which touch none of this.
LEMMA PowerKeepsRunning ==
    RunningInv /\ (PowerUp \/ PowerUpCut \/ PowerCut \/ PickShow) => RunningInv'
  <1> SUFFICES ASSUME RunningInv, PowerUp \/ PowerUpCut \/ PowerCut \/ PickShow PROVE RunningInv'
    OBVIOUS
  <1>1. CASE PowerUp
    BY <1>1 DEF PowerUp, RunningInv, ScreensTyped, NothingLeftRunning, OnSub, InConfig
  <1>2. CASE PowerUpCut \/ PickShow
    BY <1>2, UnchangedKeepsRunning DEF PowerUpCut, PickShow
  <1>3. CASE PowerCut
    BY <1>3 DEF PowerCut, BleDown, MenuInit, RunningInv, ScreensTyped, NothingLeftRunning,
                Menus, SubScreens, Services
  <1> QED BY <1>1, <1>2, <1>3

\* At power-up nothing runs.
LEMMA FirstRunning ==
    ASSUME NEW nvs, NEW watched, NEW edits, NEW boots, DeviceInit(nvs, watched, edits, boots)
    PROVE  RunningInv
  <1>1. menu = MenuInit /\ ble = BleDown /\ link = FALSE
    BY DEF DeviceInit
  <1> QED BY <1>1 DEF BleDown, MenuInit, RunningInv, ScreensTyped, NothingLeftRunning, Menus,
                      SubScreens, Services

\* Every step.
LEMMA RunningStep == RunningInv /\ [DeviceNext]_deviceVars => RunningInv'
  <1>1. RunningInv /\ CancelBlePair => RunningInv'
    BY ExitBlePairKeepsRunning DEF CancelBlePair, OnSub
  <1>2. RunningInv /\ UNCHANGED deviceVars => RunningInv'
    BY UnchangedKeepsRunning DEF deviceVars
  <1> QED BY <1>1, <1>2, ButtonAKeepsRunning, HoldBKeepsRunning, ConfigTickKeepsRunning,
             ServiceKeepsRunning, ModeStepKeepsRunning, PowerKeepsRunning DEF DeviceNext

\* Whatever NVS held at first and however many edits and power-ups a device
\* sees: the pairing service is up only under its screen, and the microphone
\* of Level Tuning never outlives Config mode (ConfigMode::exit(),
\* exit_ble_pair()).
THEOREM NothingIsLeftRunning ==
    ASSUME NEW nvs, NEW watched, NEW edits, NEW boots
    PROVE  DeviceInit(nvs, watched, edits, boots) /\ [][DeviceNext]_deviceVars
               => []NothingLeftRunning
  <1>1. RunningInv => NothingLeftRunning
    BY DEF RunningInv
  <1> QED BY <1>1, FirstRunning, RunningStep, PTL

-----------------------------------------------------------------------------
(* The settings: a load returns what the last one did.                     *)

\* The flags by name.
LEMMA FlagNames ==
    Flags = {"ir_en", "ir_int_en", "ir_ext_en", "scr_puls_en", "dir_calm", "slv_repeat",
             "strip_en"}
  BY DEF Flags, FlagDefault

\* A load is a value and what it leaves in NVS.
LEMMA KeptParts == \A v, raw : Kept(v, raw).value = v /\ Kept(v, raw).raw = raw
  BY DEF Kept

\* The settings whose load may write.
Writing == {"dir_calm", "retx_count", "slv_group", "mst_pid"}

\* Any other load leaves NVS alone and rolls nothing.
LEMMA PlainLoad ==
    ASSUME NEW k \in MenuSettings \ Writing, NEW raw, NEW r, NEW q
    PROVE  Load(k, raw, r) = Load(k, raw, q) /\ Load(k, raw, r).raw = raw
  <1>1. \E v : \A x : Load(k, raw, x) = Kept(v, raw)
    <2>1. CASE k \in Flags
      BY <2>1, FlagNames DEF Load, Writing
    <2>2. CASE k \in {"last_mode", "pair_win_s", "friendly_name", "mst_chan", "slv_chan"}
      BY <2>2, FlagNames DEF Load
    <2>3. CASE k \in {"strip_bri", "strip_cnt", "strip_grp", "mst_src_id", "active_show"}
      BY <2>3, FlagNames DEF Load
    <2> QED BY <2>1, <2>2, <2>3 DEF MenuSettings, Writing
  <1> QED BY <1>1 DEF Kept

\* A load that writes pins its value, or repairs it for good.
LEMMA WritingLoad ==
    ASSUME NEW k \in Writing, NEW raw, NEW r \in Rolls, NEW q \in Rolls
    PROVE  Load(k, Load(k, raw, r).raw, q).value = Load(k, raw, r).value
  <1>1. CASE k = "dir_calm"
    <2> DEFINE no == FALSE
    <2>1. Absent # no
      BY PersistenceAssumption
    <2>2. \A w, x : Load(k, w, x) = Kept(Or(w, no), Or(w, no))
      BY <1>1, FlagNames DEF Load, LoadCalm
    <2> HIDE DEF no
    <2> QED BY <2>1, <2>2 DEF Kept, Or
  <1>2. CASE k = "retx_count"
    <2>1. \A w, x : Load(k, w, x) = Kept(ReadRetransmits(w), Or(w, DefaultRetransmits))
      BY <1>2, FlagNames DEF Load, LoadRetransmits
    <2> QED BY <2>1, PersistenceAssumption DEF Kept, ReadRetransmits, Or
  <1>3. CASE k = "slv_group"
    <2>1. \A w, x : Load(k, w, x) = LoadGroup(w, x)
      BY <1>3, FlagNames DEF Load
    <2>2. 1 + (r % 3) \in Nat
      BY PersistenceAssumption
    <2> QED BY <2>1, <2>2, PersistenceAssumption DEF LoadGroup, Kept
  <1>4. CASE k = "mst_pid"
    <2>1. \A w, x : Load(k, w, x) = LoadPerfSourceId(w, x)
      BY <1>4, FlagNames DEF Load
    <2>2. 64 + (r % 191) \in PerformanceIds
      BY PersistenceAssumption DEF PerformanceIds
    <2>3. 64 + (r % 191) # Absent
      BY <2>2, PersistenceAssumption DEF PerformanceIds
    <2> QED BY <2>1, <2>2, <2>3 DEF LoadPerfSourceId, Kept, Or
  <1> QED BY <1>1, <1>2, <1>3, <1>4 DEF Writing

\* Whatever a load returned, the next one returns, whatever that one rolls.
LEMMA LoadIsStable ==
    ASSUME NEW k \in MenuSettings, NEW raw, NEW r \in Rolls, NEW q \in Rolls
    PROVE  Load(k, Load(k, raw, r).raw, q).value = Load(k, raw, r).value
  BY PlainLoad, WritingLoad

-----------------------------------------------------------------------------
(* The disk: NVS, and what was seen of it.                                 *)

Maps(S, f) == f = [k \in S |-> f[k]]

IsDisk(d) ==
    /\ d = [nvs |-> d.nvs, seen |-> d.seen, watched |-> d.watched]
    /\ Maps(StoredKeys, d.nvs) /\ Maps(MenuSettings, d.seen)

\* What was seen of a setting is what any load returns.
Sticks(k, d) == d.seen[k] # Unseen => \A q \in Rolls : Load(k, d.nvs[k], q).value = d.seen[k]

Sound(d) == IsDisk(d) /\ \A k \in MenuSettings \ {"mst_src_id"} : Sticks(k, d)

\* The name older firmware gave its visualisation is gone.
Upgraded(d) == d.nvs["active_vis"] = Absent

\* The keys are those of settings, and of two things no screen loads.
LEMMA MenuIsStored ==
    MenuSettings \subseteq StoredKeys /\ "active_vis" \in StoredKeys \ MenuSettings
  BY FlagNames DEF StoredKeys, MenuSettings

\* Loads keep the disk sound, and change NVS only where a load writes.
LEMMA LoadedIsSound ==
    ASSUME NEW S \in SUBSET MenuSettings, NEW d, Sound(d), NEW r \in Rolls
    PROVE  LET e == Loaded(S, d, r)
           IN  /\ Sound(e) /\ e.watched = d.watched
               /\ e.nvs["active_vis"] = d.nvs["active_vis"]
               /\ \A k \in MenuSettings \ S : e.seen[k] = d.seen[k] /\ e.nvs[k] = d.nvs[k]
               /\ \A k \in MenuSettings \cap S : /\ e.seen[k] = Load(k, d.nvs[k], r).value
                                                 /\ e.nvs[k] = Load(k, d.nvs[k], r).raw
  <1> DEFINE e == Loaded(S, d, r)
             nvs == [k \in StoredKeys |-> IF k \in S THEN Load(k, d.nvs[k], r).raw ELSE d.nvs[k]]
             seen == [k \in MenuSettings |-> IF k \in S THEN Load(k, d.nvs[k], r).value ELSE d.seen[k]]
  <1>1. e = [d EXCEPT !.nvs = nvs, !.seen = seen]
    BY DEF Loaded, Sound, IsDisk
  <1>2. e = [nvs |-> nvs, seen |-> seen, watched |-> d.watched]
    <2> HIDE DEF e, nvs, seen
    <2> QED BY <1>1 DEF Sound, IsDisk
  <1>3. e.nvs = nvs /\ e.seen = seen /\ e.watched = d.watched
    <2> HIDE DEF e, nvs, seen
    <2> QED BY <1>2
  <1>4. \A k \in MenuSettings \ S : e.seen[k] = d.seen[k] /\ e.nvs[k] = d.nvs[k]
    BY <1>3, MenuIsStored
  <1>5. \A k \in MenuSettings \cap S : /\ e.seen[k] = Load(k, d.nvs[k], r).value
                                       /\ e.nvs[k] = Load(k, d.nvs[k], r).raw
    BY <1>3, MenuIsStored
  <1>6. e.nvs["active_vis"] = d.nvs["active_vis"]
    BY <1>3, MenuIsStored
  <1>7. IsDisk(e)
    <2>1. Maps(StoredKeys, nvs) /\ Maps(MenuSettings, seen)
      BY DEF Maps
    <2> HIDE DEF e, nvs, seen
    <2> QED BY <1>2, <1>3, <2>1 DEF IsDisk
  <1> HIDE DEF e
  <1>8. ASSUME NEW k \in MenuSettings \ {"mst_src_id"} PROVE Sticks(k, e)
    <2>1. CASE k \in S
      BY <1>5, <2>1, LoadIsStable DEF Sticks
    <2>2. CASE k \notin S
      BY <1>4, <2>2 DEF Sticks, Sound
    <2> QED BY <2>1, <2>2
  <1> QED BY <1>3, <1>4, <1>5, <1>6, <1>7, <1>8, Zenon DEF Sound, e

\* A disk whose NVS and history became this and that.
Becomes(e, d, nvs, seen) == e = [d EXCEPT !.nvs = nvs, !.seen = seen]

\* Such a disk is a disk, with that NVS and that history.
LEMMA DiskOf ==
    ASSUME NEW d, IsDisk(d), NEW nvs, NEW seen, NEW e, Becomes(e, d, nvs, seen),
           Maps(StoredKeys, nvs), Maps(MenuSettings, seen)
    PROVE  IsDisk(e) /\ e.nvs = nvs /\ e.seen = seen /\ e.watched = d.watched
  <1>1. e = [nvs |-> nvs, seen |-> seen, watched |-> d.watched]
    BY DEF IsDisk, Becomes
  <1> QED BY <1>1 DEF IsDisk

\* What every step of a device that runs leaves: a sound disk, upgraded.
Good(d) == Sound(d) /\ Upgraded(d)

\* A load keeps it so.
LEMMA RereadIsGood ==
    ASSUME NEW S \in SUBSET MenuSettings, NEW d, Good(d), NEW e \in Reread(S, d)
    PROVE  Good(e)
  <1>1. PICK r \in Rolls : e = Loaded(S, d, r)
    BY DEF Reread
  <1>2. Sound(e) /\ e.nvs["active_vis"] = d.nvs["active_vis"]
    BY <1>1, LoadedIsSound DEF Good
  <1> QED BY <1>2 DEF Good, Upgraded

\* A change of one key of NVS that forgets what was seen of it.
LEMMA ChangedIsGood ==
    ASSUME NEW k \in MenuSettings, NEW d, Good(d), NEW e, IsDisk(e),
           e.seen[k] = Unseen, \A x \in StoredKeys \ {k} : e.nvs[x] = d.nvs[x],
           \A x \in MenuSettings \ {k} : e.seen[x] = d.seen[x]
    PROVE  Good(e)
  BY MenuIsStored DEF Good, Sound, Sticks, Upgraded

\* save_*(), and the load that redraws it.
LEMMA StoredIsGood ==
    ASSUME NEW k \in MenuSettings, NEW v, NEW d, Good(d)
    PROVE  /\ Good(Stored(k, v, d)) /\ \A e \in StoredAndShown(k, v, d) : Good(e)
           /\ Stored(k, v, d).watched = d.watched
           /\ \A x \in StoredKeys \ {k} : Stored(k, v, d).nvs[x] = d.nvs[x]
  <1> DEFINE nvs == Save(d.nvs, k, v)
             seen == [d.seen EXCEPT ![k] = Unseen]
             e == Stored(k, v, d)
  <1>0. IsDisk(d)
    BY DEF Good, Sound
  <1>1. Becomes(e, d, nvs, seen)
    BY DEF Stored, Good, Sound, IsDisk, Becomes
  <1>2. Maps(StoredKeys, nvs) /\ \A x \in StoredKeys \ {k} : nvs[x] = d.nvs[x]
    BY DEF Save, Good, Sound, IsDisk, Maps
  <1>3. /\ Maps(MenuSettings, seen)
        /\ seen[k] = Unseen /\ \A x \in MenuSettings \ {k} : seen[x] = d.seen[x]
    BY DEF Good, Sound, IsDisk, Maps
  <1> HIDE DEF nvs, seen, e
  <1>4. IsDisk(e) /\ e.nvs = nvs /\ e.seen = seen /\ e.watched = d.watched
    BY <1>0, <1>1, <1>2, <1>3, DiskOf
  <1>5. Good(e)
    BY <1>2, <1>3, <1>4, ChangedIsGood
  <1>6. \A x \in StoredAndShown(k, v, d) : Good(x)
    BY <1>5, RereadIsGood DEF StoredAndShown, e
  <1> QED BY <1>2, <1>4, <1>5, <1>6 DEF e

\* Whatever a step keeps of the history.
LEMMA SettledIsSound ==
    ASSUME NEW d, Sound(d)
    PROVE  /\ Sound(Settled(d)) /\ Settled(d).nvs = d.nvs
           /\ \A k \in MenuSettings : Settled(d).seen[k] \in {d.seen[k], Unseen}
  <1> DEFINE seen == [k \in MenuSettings |-> IF k = d.watched THEN d.seen[k] ELSE Unseen]
             e == Settled(d)
  <1>0. IsDisk(d) /\ Maps(StoredKeys, d.nvs)
    BY DEF Sound, IsDisk
  <1>1. Becomes(e, d, d.nvs, seen)
    BY DEF Settled, Sound, IsDisk, Becomes
  <1>2. \A k \in MenuSettings : seen[k] \in {d.seen[k], Unseen}
    OBVIOUS
  <1>3. Maps(MenuSettings, seen)
    BY DEF Maps
  <1> HIDE DEF seen, e
  <1>4. IsDisk(e) /\ e.nvs = d.nvs /\ e.seen = seen
    BY <1>0, <1>1, <1>3, DiskOf
  <1>5. Sound(e)
    BY <1>2, <1>4 DEF Sound, Sticks
  <1> QED BY <1>2, <1>4, <1>5 DEF e

\* A setting that changed behind the screens: what was seen of it is forgotten.
LEMMA ForgetIsGood ==
    ASSUME NEW S, NEW d, Good(d)
    PROVE  /\ Good(Forget(S, d)) /\ Forget(S, d).nvs = d.nvs
           /\ \A k \in MenuSettings : Forget(S, d).seen[k] = IF k \in S THEN Unseen ELSE d.seen[k]
  <1> DEFINE seen == [k \in MenuSettings |-> IF k \in S THEN Unseen ELSE d.seen[k]]
             e == Forget(S, d)
  <1>0. IsDisk(d) /\ Maps(StoredKeys, d.nvs)
    BY DEF Good, Sound, IsDisk
  <1>1. Becomes(e, d, d.nvs, seen)
    BY DEF Forget, Good, Sound, IsDisk, Becomes
  <1>2. \A k \in MenuSettings : seen[k] = IF k \in S THEN Unseen ELSE d.seen[k]
    OBVIOUS
  <1>3. Maps(MenuSettings, seen)
    BY DEF Maps
  <1> HIDE DEF seen, e
  <1>4. IsDisk(e) /\ e.nvs = d.nvs /\ e.seen = seen
    BY <1>0, <1>1, <1>3, DiskOf
  <1>5. Good(e)
    BY <1>2, <1>4 DEF Good, Sound, Sticks, Upgraded
  <1> QED BY <1>2, <1>4, <1>5 DEF e

\* A step of a device that runs, whose disk becomes one of good ones.
LEMMA DiskStep ==
    ASSUME NEW ds, \A d \in ds : Good(d), DiskBecomes(ds)
    PROVE  Good(disk')
  BY SettledIsSound DEF DiskBecomes, Good, Upgraded

\* A factory reset.
LEMMA ErasedIsGood == ASSUME NEW d, IsDisk(d) PROVE Good(Erased(d))
  <1>1. /\ Maps(StoredKeys, FreshNvs) /\ FreshNvs["active_vis"] = Absent
        /\ Maps(MenuSettings, NothingSeen) /\ \A k \in MenuSettings : NothingSeen[k] = Unseen
    BY MenuIsStored DEF FreshNvs, NothingSeen, Maps
  <1> DEFINE e == Erased(d)
  <1>2. Becomes(e, d, FreshNvs, NothingSeen)
    BY DEF Erased, Becomes
  <1> HIDE DEF e
  <1>3. IsDisk(e) /\ e.nvs = FreshNvs /\ e.seen = NothingSeen
    BY <1>1, <1>2, DiskOf
  <1> QED BY <1>1, <1>3 DEF Good, Sound, Sticks, Upgraded, e

-----------------------------------------------------------------------------
(* The steps.  Every screen, mode and answer loads and saves settings.     *)

\* What a screen, a mode or an answer loads are settings.
LEMMA KeysAreSettings ==
    /\ StripKeys \subseteq MenuSettings /\ BootFlags \subseteq MenuSettings
    /\ \A screen : Edits(screen) \subseteq MenuSettings /\ Shown(screen) \subseteq MenuSettings
    /\ \A screen : LiveEdits(screen) \subseteq MenuSettings
    /\ \A id, d : KeysOnEnter(id, d) \subseteq MenuSettings
  <1>1. StripKeys \subseteq MenuSettings /\ BootFlags \subseteq MenuSettings
    BY FlagNames DEF StripKeys, BootFlags, MenuSettings
  <1>2. \A screen : Edits(screen) \subseteq MenuSettings
    BY <1>1, FlagNames DEF Edits, EspNowItems, LedStripItems, MenuSettings
  <1>3. \A screen : Shown(screen) \subseteq MenuSettings
    BY <1>2 DEF Shown, MenuSettings
  <1>4. \A screen : LiveEdits(screen) \subseteq MenuSettings
    BY FlagNames DEF LiveEdits, IrItems, MenuSettings
  <1>5. \A id, d : KeysOnEnter(id, d) \subseteq MenuSettings
    <2>1. \A d : BroadcastKeys(d) \subseteq MenuSettings
      BY <1>1 DEF BroadcastKeys, IdKey, MenuSettings
    <2>2. {"slv_chan", "slv_repeat", "slv_group", "active_show"} \subseteq MenuSettings
      BY FlagNames DEF MenuSettings
    <2> QED BY <1>1, <1>3, <2>1, <2>2 DEF KeysOnEnter
  <1> QED BY <1>1, <1>2, <1>3, <1>4, <1>5

\* So is every key a bag of either role stands for.
LEMMA AnsweredAreSettings ==
    \A role : \A k \in DOMAIN NvsKeys(role) : NvsKeys(role)[k] \in MenuSettings
  <1>1. \A k \in DOMAIN LumeKeys : LumeKeys[k] \in MenuSettings
    BY DEF LumeKeys, MenuSettings
  <1>2. \A k \in DOMAIN DirectorKeys : DirectorKeys[k] \in MenuSettings
    BY DEF DirectorKeys, MenuSettings
  <1> QED BY <1>1, <1>2 DEF NvsKeys

\* The disk is sound, and upgraded before anything loads a show from it: the
\* migrations of setup() run before the first mode is entered, and a power-up
\* cut short leaves a device that is off.
SettingsInv ==
    /\ Sound(disk)
    /\ mode # "Off" \/ disk.seen["active_show"] # Unseen => Upgraded(disk)

\* The invariant of the settings follows from a good disk.
LEMMA GoodMakesInv == Good(disk') => SettingsInv'
  BY DEF SettingsInv, Good, Sound, IsDisk, Maps, Sticks, Upgraded

\* An entry a central writes.
LEMMA AppliedIsGood ==
    ASSUME NEW entry, Good(disk)
    PROVE  \A d \in Applied(entry) : Good(d)
  <1>1. CASE entry.key \notin DOMAIN NvsKeys(ble.role)
    BY <1>1 DEF Applied
  <1>2. CASE entry.key \in DOMAIN NvsKeys(ble.role)
    <2> DEFINE k == NvsKeys(ble.role)[entry.key]
               before == [nvs |-> disk.nvs, flagged |-> FALSE]
               nvs == ApplyEntry(before, ble.role, entry).nvs
               e == [disk EXCEPT !.nvs = nvs]
               f == Forget({k}, e)
    <2>1. k \in MenuSettings
      BY <1>2, AnsweredAreSettings
    <2>2. nvs = disk.nvs \/ nvs = Save(disk.nvs, k, entry.value)
      BY <1>2 DEF ApplyEntry
    <2>3. IsDisk(disk)
      BY DEF Good, Sound
    <2>4. /\ Maps(StoredKeys, nvs)
          /\ \A x \in StoredKeys \ {k} : nvs[x] = disk.nvs[x]
      BY <2>1, <2>2, <2>3 DEF IsDisk, Save, Maps
    <2> DEFINE seen == [x \in MenuSettings |-> IF x = k THEN Unseen ELSE disk.seen[x]]
    <2>5. Becomes(f, disk, nvs, seen)
      BY <2>3 DEF Forget, Becomes, IsDisk
    <2>6. Maps(MenuSettings, seen) /\ seen[k] = Unseen
          /\ \A x \in MenuSettings \ {k} : seen[x] = disk.seen[x]
      BY <2>1 DEF Maps
    <2>7. \A d \in Applied(entry) : d \in Reread({k}, f)
      BY <1>2 DEF Applied
    <2> HIDE DEF k, nvs, seen, f
    <2>8. IsDisk(f) /\ f.nvs = nvs /\ f.seen = seen
      BY <2>3, <2>4, <2>5, <2>6, DiskOf
    <2>9. Good(f)
      BY <2>1, <2>4, <2>6, <2>8, ChangedIsGood
    <2> QED BY <2>1, <2>7, <2>9, RereadIsGood
  <1> QED BY <1>1, <1>2

\* A central, at any moment.
LEMMA CentralIsGood == Good(disk) /\ Central => Good(disk')
  <1> SUFFICES ASSUME Good(disk), Central PROVE Good(disk')
    OBVIOUS
  <1>1. CASE CentralReads
    <2> DEFINE keys == {NvsKeys(ble.role)[k] : k \in DOMAIN NvsKeys(ble.role)}
    <2>1. keys \in SUBSET MenuSettings
      BY AnsweredAreSettings
    <2>2. DiskBecomes(Reread(keys, disk))
      BY <1>1 DEF CentralReads
    <2> HIDE DEF keys
    <2> QED BY <2>1, <2>2, RereadIsGood, DiskStep
  <1>2. CASE CentralWrites
    <2>1. PICK e \in Written : DiskBecomes(IF ble.window = "Open" THEN Applied(e) ELSE {disk})
      BY <1>2 DEF CentralWrites
    <2> DEFINE ds == IF ble.window = "Open" THEN Applied(e) ELSE {disk}
    <2>2. \A d \in ds : Good(d)
      BY AppliedIsGood
    <2> HIDE DEF ds
    <2> QED BY <2>1, <2>2, DiskStep DEF ds
  <1>3. CASE CentralConnects \/ CentralLeaves \/ CentralControls
    BY <1>3 DEF CentralConnects, CentralLeaves, CentralControls
  <1> QED BY <1>1, <1>2, <1>3 DEF Central

\* Button A on a screen.
LEMMA ButtonAIsGood == Good(disk) /\ ButtonA => Good(disk')
  <1> SUFFICES ASSUME Good(disk), ButtonA PROVE Good(disk')
    OBVIOUS
  <1> USE KeysAreSettings
  <1>1. CASE Edit
    <2>1. PICK k \in Edits(Screen) : \E d \in Reread({k}, disk) :
             \E v \in NextValues(k, d.seen[k]) : DiskBecomes(StoredAndShown(k, v, d))
      BY <1>1 DEF Edit
    <2>2. k \in MenuSettings
      OBVIOUS
    <2>3. PICK d \in Reread({k}, disk) :
             \E v \in NextValues(k, d.seen[k]) : DiskBecomes(StoredAndShown(k, v, d))
      BY <2>1
    <2>4. PICK v \in NextValues(k, d.seen[k]) : DiskBecomes(StoredAndShown(k, v, d))
      BY <2>3
    <2>5. Good(d)
      BY <2>2, RereadIsGood
    <2> QED BY <2>2, <2>4, <2>5, StoredIsGood, DiskStep
  <1>2. CASE EditLive
    <2>1. PICK k \in LiveEdits(Screen) : DiskBecomes(StoredAndShown(k, ~live[k], disk))
      BY <1>2 DEF EditLive
    <2>2. k \in MenuSettings
      OBVIOUS
    <2> QED BY <2>1, <2>2, StoredIsGood, DiskStep
  <1>3. CASE EditId
    <2>1. PICK d \in Reread({"mst_pid"}, disk) : \E v \in NextValues("mst_pid", d.seen["mst_pid"]) :
             DiskBecomes(StoredAndShown("mst_pid", v, d))
      BY <1>3 DEF EditId
    <2>2. "mst_pid" \in MenuSettings
      BY DEF MenuSettings
    <2>3. PICK v \in NextValues("mst_pid", d.seen["mst_pid"]) :
             DiskBecomes(StoredAndShown("mst_pid", v, d))
      BY <2>1
    <2> QED BY <2>2, <2>3, RereadIsGood, StoredIsGood, DiskStep
  <1>4. CASE DrillTop \/ DrillPicker \/ DrillShow \/ OpenIdEditor
    <2>1. disk' = disk \/ \E S \in SUBSET MenuSettings : DiskBecomes(Reread(S, disk))
      <3>1. {"mst_pid"} \subseteq MenuSettings
        BY DEF MenuSettings
      <3> QED BY <1>4, <3>1 DEF DrillTop, DrillPicker, DrillShow, OpenIdEditor
    <2> QED BY <2>1, RereadIsGood, DiskStep
  <1>5. CASE FactoryReset
    <2>1. Good(Erased(disk))
      BY ErasedIsGood DEF Good, Sound
    <2>2. DiskBecomes(Reread(Shown("System"), Erased(disk)))
      BY <1>5 DEF FactoryReset
    <2> QED BY <2>1, <2>2, RereadIsGood, DiskStep
  <1>6. CASE EnterBlePair
    <2>1. {"pair_win_s"} \in SUBSET MenuSettings /\ {"friendly_name"} \in SUBSET MenuSettings
          /\ "friendly_name" \in MenuSettings
      BY DEF MenuSettings
    <2>2. PICK d \in Reread({"pair_win_s"}, disk) :
             DiskBecomes(IF ble.active THEN {d} ELSE Named(d))
      BY <1>6 DEF EnterBlePair
    <2>3. Good(d)
      BY <2>1, RereadIsGood
    <2>4. ASSUME NEW e \in Named(d) PROVE Good(e)
      <3>1. PICK f \in Reread({"friendly_name"}, d) :
               e \in IF f.seen["friendly_name"] = 0
                     THEN StoredAndShown("friendly_name", 8, f) ELSE {f}
        BY DEF Named
      <3>2. Good(f)
        BY <2>1, <2>3, RereadIsGood
      <3> QED BY <2>1, <3>1, <3>2, StoredIsGood
    <2> DEFINE ds == IF ble.active THEN {d} ELSE Named(d)
    <2>5. \A e \in ds : Good(e)
      BY <2>3, <2>4
    <2> HIDE DEF ds
    <2> QED BY <2>2, <2>5, DiskStep DEF ds
  <1>7. CASE RequestScan \/ OpenWorkflow \/ EnterConfigLumes \/ LiveScan
    BY <1>7 DEF RequestScan, OpenWorkflow, EnterConfigLumes, LiveScan
  <1> QED BY <1>1, <1>2, <1>3, <1>4, <1>5, <1>6, <1>7 DEF ButtonA

\* Button B, and the loop of Config mode.
LEMMA BackIsGood == Good(disk) /\ (HoldB \/ CancelBlePair \/ ConfigTick) => Good(disk')
  <1> SUFFICES ASSUME Good(disk), HoldB \/ CancelBlePair \/ ConfigTick PROVE Good(disk')
    OBVIOUS
  <1>1. disk' = disk \/ \E screen : DiskBecomes(Reread(Shown(screen), disk))
    BY DEF HoldB, CancelBlePair, ConfigTick, ScanStep, PollBlePair, LeaveBlePair, ExitBlePair
  <1> QED BY <1>1, KeysAreSettings, RereadIsGood, DiskStep

\* What a mode that is entered saves and loads.
ReadOnEntry(id) == KeysOnEnter(id, disk) \cup (IF id \in PersistedModes THEN {"last_mode"} ELSE {})
SavedOnEntry(id) == IF id \in PersistedModes THEN Stored("last_mode", id, disk) ELSE disk

\* It saves its own name at most, and loads settings.
LEMMA EntryIsGood ==
    ASSUME NEW id, Good(disk)
    PROVE  /\ ReadOnEntry(id) \in SUBSET MenuSettings /\ Good(SavedOnEntry(id))
           /\ \A k \in StripKeys : SavedOnEntry(id).nvs[k] = disk.nvs[k]
  <1>1. "last_mode" \in MenuSettings \ StripKeys
    BY DEF MenuSettings, StripKeys
  <1>2. ReadOnEntry(id) \in SUBSET MenuSettings
    BY <1>1, KeysAreSettings DEF ReadOnEntry
  <1>3. Good(SavedOnEntry(id)) /\ \A k \in StripKeys : SavedOnEntry(id).nvs[k] = disk.nvs[k]
    BY <1>1, StoredIsGood, MenuIsStored, KeysAreSettings DEF SavedOnEntry
  <1> QED BY <1>2, <1>3

\* So a mode that is entered leaves a good disk.
LEMMA EnterModeIsGood ==
    ASSUME NEW id, Good(disk), EnterMode(id) PROVE Good(disk')
  <1>1. PICK d \in Reread(ReadOnEntry(id), SavedOnEntry(id)) : disk' = Settled(d)
    BY Zenon DEF EnterMode, ReadOnEntry, SavedOnEntry
  <1>2. Good(d)
    BY EntryIsGood, RereadIsGood
  <1> QED BY <1>1, <1>2, SettledIsSound DEF Good, Upgraded

\* The picker of the Director.
LEMMA PickShowIsGood == Good(disk) /\ PickShow => Good(disk')
  <1> SUFFICES ASSUME Good(disk), PickShow PROVE Good(disk')
    OBVIOUS
  <1>1. "active_show" \in MenuSettings /\ {"active_show"} \in SUBSET MenuSettings
    BY DEF MenuSettings
  <1>2. PICK d \in Reread({"active_show"}, disk) : \E s \in Shows \ {d.seen["active_show"]} :
           DiskBecomes(StoredAndShown("active_show", s, d))
    BY DEF PickShow
  <1>3. PICK s \in Shows \ {d.seen["active_show"]} :
           DiskBecomes(StoredAndShown("active_show", s, d))
    BY <1>2
  <1> QED BY <1>1, <1>3, RereadIsGood, StoredIsGood, DiskStep

-----------------------------------------------------------------------------
(* Power-ups.  NVS is migrated before any mode loads a show.               *)

\* What a migration may change, for a disk that has seen no show of older
\* firmware.
Migrates(n, nvs) ==
    /\ Maps(StoredKeys, n)
    /\ \A k \in MenuSettings \ {"active_show", "slv_group", "mst_src_id"} : n[k] = nvs[k]
    /\ nvs["active_vis"] = Absent => n["active_show"] = nvs["active_show"]
    /\ n["active_vis"] \in {nvs["active_vis"], Absent}
    /\ \/ n["slv_group"] = nvs["slv_group"]
       \/ nvs["slv_group"] = Absent /\ \E r \in Rolls : n["slv_group"] = 1 + (r % 3)

\* Every migration, also one a power cut ends early, changes no more, and one
\* that ends upgrades the disk.
LEMMA MigrationChanges ==
    ASSUME NEW nvs, Maps(StoredKeys, nvs)
    PROVE  /\ \A n \in Migrated(nvs) : Migrates(n, nvs) /\ n["active_vis"] = Absent
           /\ \A n \in MigrationCut(nvs) : Migrates(n, nvs)
  <1> USE MenuIsStored
  <1>0. /\ {"active_show", "slv_group", "mst_src_id"} \subseteq StoredKeys
        /\ {"active_show", "slv_group", "mst_src_id"} \subseteq MenuSettings
    BY DEF MenuSettings, StoredKeys
  <1> DEFINE shown == MigrateShow(nvs)
  <1>1. /\ Maps(StoredKeys, shown) /\ shown["active_vis"] = Absent
        /\ \A k \in MenuSettings \ {"active_show"} : shown[k] = nvs[k]
        /\ nvs["active_vis"] = Absent => shown["active_show"] = nvs["active_show"]
    <2>1. CASE nvs["active_vis"] = Absent
      BY <2>1 DEF MigrateShow
    <2>2. CASE nvs["active_vis"] # Absent
      <3> DEFINE show == IF nvs["active_show"] = Absent THEN LegacyShow(nvs["active_vis"])
                         ELSE nvs["active_show"]
      <3>1. shown = [nvs EXCEPT !["active_show"] = show, !["active_vis"] = Absent]
        BY <2>2 DEF MigrateShow
      <3> HIDE DEF shown, show
      <3>2. \A k \in StoredKeys :
               shown[k] = IF k = "active_vis" THEN Absent
                          ELSE IF k = "active_show" THEN show ELSE nvs[k]
        BY <3>1 DEF Maps
      <3>3. Maps(StoredKeys, shown)
        BY <3>1 DEF Maps
      <3> QED BY <2>2, <3>2, <3>3
    <2> QED BY <2>1, <2>2
  <1> HIDE DEF shown
  <1>2. ASSUME NEW g \in RollGroup(shown)
        PROVE  /\ Maps(StoredKeys, g) /\ \A k \in StoredKeys \ {"slv_group"} : g[k] = shown[k]
               /\ \/ g["slv_group"] = shown["slv_group"]
                  \/ shown["slv_group"] = Absent /\ \E r \in Rolls : g["slv_group"] = 1 + (r % 3)
    <2>1. CASE shown["slv_group"] # Absent
      BY <1>1, <2>1 DEF RollGroup
    <2>2. CASE shown["slv_group"] = Absent
      <3>1. PICK r \in Rolls : g = [shown EXCEPT !["slv_group"] = (r % 3) + 1]
        BY <2>2 DEF RollGroup
      <3>2. (r % 3) + 1 = 1 + (r % 3)
        BY PersistenceAssumption
      <3> QED BY <1>0, <1>1, <2>2, <3>1, <3>2 DEF Maps
    <2> QED BY <2>1, <2>2
  <1>3. ASSUME NEW g \in RollGroup(shown) PROVE Migrates(g, nvs) /\ g["active_vis"] = Absent
    BY <1>0, <1>1, <1>2 DEF Migrates
  <1>4. Migrates(nvs, nvs) /\ Migrates(shown, nvs)
    BY <1>0, <1>1 DEF Migrates
  <1>5. ASSUME NEW g \in RollGroup(shown), NEW n \in RollSourceId(g)
        PROVE  Migrates(n, nvs) /\ n["active_vis"] = Absent
    <2>1. /\ Maps(StoredKeys, n) /\ \A k \in StoredKeys \ {"mst_src_id"} : n[k] = g[k]
      BY <1>0, <1>2 DEF RollSourceId, Maps
    <2> QED BY <1>0, <1>3, <2>1 DEF Migrates
  <1> QED BY <1>3, <1>4, <1>5 DEF Migrated, MigrationCut, shown

\* A migration leaves every load that was seen what it was.
LEMMA MigrationIsSound ==
    ASSUME NEW d, Sound(d), d.seen["active_show"] # Unseen => Upgraded(d),
           NEW n, Migrates(n, d.nvs), NEW e, Becomes(e, d, n, d.seen)
    PROVE  Sound(e) /\ e.nvs = n /\ e.seen = d.seen /\ e.watched = d.watched
  <1>1. IsDisk(e) /\ e.nvs = n /\ e.seen = d.seen /\ e.watched = d.watched
    BY DiskOf DEF Sound, IsDisk, Migrates
  <1>2. ASSUME NEW k \in MenuSettings \ {"mst_src_id"} PROVE Sticks(k, e)
    <2>1. CASE e.nvs[k] = d.nvs[k]
      BY <1>1, <2>1 DEF Sound, Sticks
    <2>2. CASE k = "active_show" /\ e.nvs[k] # d.nvs[k]
      BY <1>1, <2>2 DEF Migrates, Upgraded, Sticks
    <2>3. CASE k = "slv_group" /\ e.nvs[k] # d.nvs[k]
      <3>1. d.nvs[k] = Absent
        BY <1>1, <2>3 DEF Migrates
      <3>2. PICK r \in Rolls : e.nvs[k] = 1 + (r % 3)
        BY <1>1, <2>3 DEF Migrates
      <3>3. \A raw, q : Load(k, raw, q) = LoadGroup(raw, q)
        BY <2>3, FlagNames DEF Load
      <3>4. Load(k, d.nvs[k], r).value = 1 + (r % 3)
        BY <3>1, <3>3 DEF LoadGroup, Kept
      <3>5. 1 + (r % 3) # Absent
        BY PersistenceAssumption
      <3>6. \A q : Load(k, e.nvs[k], q).value = 1 + (r % 3)
        BY <3>2, <3>3, <3>5 DEF LoadGroup, Kept
      <3>7. Sticks(k, d)
        BY DEF Sound
      <3> QED BY <1>1, <3>4, <3>6, <3>7 DEF Sticks
    <2> QED BY <1>1, <2>1, <2>2, <2>3 DEF Migrates
  <1> QED BY <1>1, <1>2 DEF Sound

\* The forced defaults of a build take back what was seen of the strip.
LEMMA ForcedIsGood == ASSUME NEW d, Good(d) PROVE Good(Forced(d))
  <1>1. CASE ~StripForced \/ d.nvs["strip_btag"] = Build
    BY <1>1 DEF Forced
  <1>2. CASE ~(~StripForced \/ d.nvs["strip_btag"] = Build)
    <2> DEFINE nvs == ForceStripDefaults(d.nvs, Build)
               seen == [k \in MenuSettings |-> IF k \in StripKeys THEN Unseen ELSE d.seen[k]]
               e == Forced(d)
    <2>0. IsDisk(d)
      BY DEF Good, Sound
    <2>1. Becomes(e, d, nvs, seen)
      BY <1>2, <2>0 DEF Forced, Forget, Becomes, IsDisk
    <2>2. /\ Maps(StoredKeys, nvs)
          /\ \A k \in StoredKeys \ (StripKeys \cup {"strip_btag"}) : nvs[k] = d.nvs[k]
      <3> DEFINE forced == [d.nvs EXCEPT !["strip_en"] = TRUE, !["strip_bri"] = DefaultBrightness,
                               !["strip_grp"] = DefaultStripGroup,
                               !["strip_cnt"] = DefaultStripLength, !["strip_btag"] = Build]
      <3>1. nvs = d.nvs \/ nvs = forced
        BY DEF ForceStripDefaults
      <3>2. Maps(StoredKeys, forced)
        BY <2>0 DEF IsDisk, Maps
      <3>3. \A k \in StoredKeys \ (StripKeys \cup {"strip_btag"}) : forced[k] = d.nvs[k]
        BY <2>0 DEF IsDisk, Maps, StripKeys
      <3> HIDE DEF nvs, forced
      <3> QED BY <2>0, <3>1, <3>2, <3>3 DEF IsDisk
    <2>3. Maps(MenuSettings, seen)
          /\ \A k \in MenuSettings : seen[k] = IF k \in StripKeys THEN Unseen ELSE d.seen[k]
      BY DEF Maps
    <2> HIDE DEF nvs, seen, e
    <2>4. IsDisk(e) /\ e.nvs = nvs /\ e.seen = seen
      BY <2>0, <2>1, <2>2, <2>3, DiskOf
    <2>5. "strip_btag" \notin MenuSettings /\ "active_vis" \in StoredKeys \ (StripKeys \cup {"strip_btag"})
      BY FlagNames, MenuIsStored, KeysAreSettings DEF MenuSettings
    <2>6. Good(e)
      BY <2>2, <2>3, <2>4, <2>5, MenuIsStored DEF Good, Sound, Sticks, Upgraded
    <2> QED BY <2>6 DEF e
  <1> QED BY <1>1, <1>2

\* Power comes, goes, or fails on the way.
LEMMA PowerIsSound == SettingsInv /\ (PowerUp \/ PowerUpCut \/ PowerCut) => SettingsInv'
  <1> SUFFICES ASSUME SettingsInv, PowerUp \/ PowerUpCut \/ PowerCut PROVE SettingsInv'
    OBVIOUS
  <1>0. Sound(disk) /\ (disk.seen["active_show"] # Unseen => Upgraded(disk))
        /\ "active_show" \in MenuSettings
    BY DEF SettingsInv, MenuSettings
  <1>1. CASE PowerUp
    <2>1. PICK d \in Booted(disk) : disk' = Settled(d)
      BY <1>1 DEF PowerUp
    <2>2. PICK b \in Reread(BootFlags, disk) :
             d \in {Forced([b EXCEPT !.nvs = n]) : n \in Migrated(b.nvs)}
      BY DEF Booted
    <2>3. PICK n \in Migrated(b.nvs) : d = Forced([b EXCEPT !.nvs = n])
      BY <2>2
    <2>4. Sound(b) /\ (b.seen["active_show"] # Unseen => Upgraded(b))
      <3>1. PICK r \in Rolls : b = Loaded(BootFlags, disk, r)
        BY DEF Reread
      <3>2. BootFlags \in SUBSET MenuSettings /\ "active_show" \notin BootFlags
        BY KeysAreSettings DEF BootFlags
      <3> DEFINE l == Loaded(BootFlags, disk, r)
      <3>3. /\ Sound(l) /\ l.nvs["active_vis"] = disk.nvs["active_vis"]
            /\ \A k \in MenuSettings \ BootFlags : l.seen[k] = disk.seen[k]
        BY <1>0, <3>2, LoadedIsSound
      <3> HIDE DEF l
      <3>4. /\ Sound(b) /\ b.nvs["active_vis"] = disk.nvs["active_vis"]
            /\ b.seen["active_show"] = disk.seen["active_show"]
        BY <1>0, <3>1, <3>2, <3>3 DEF l
      <3> QED BY <1>0, <3>4 DEF Upgraded
    <2> DEFINE m == [b EXCEPT !.nvs = n]
    <2>5. Becomes(m, b, n, b.seen)
      BY <2>4 DEF Becomes, Sound, IsDisk
    <2>6. Migrates(n, b.nvs) /\ n["active_vis"] = Absent
      BY <2>4, MigrationChanges DEF Sound, IsDisk
    <2> HIDE DEF m
    <2>7. Good(m)
      BY <2>4, <2>5, <2>6, MigrationIsSound DEF Good, Upgraded
    <2>8. Good(d)
      BY <2>3, <2>7, ForcedIsGood DEF m
    <2>9. Good(disk')
      BY <2>1, <2>8, SettledIsSound DEF Good, Upgraded
    <2> QED BY <2>9, GoodMakesInv
  <1>2. CASE PowerUpCut
    <2>1. PICK d \in BootCut(disk) : disk' = Settled(d)
      BY <1>2 DEF PowerUpCut, DiskBecomes
    <2>2. PICK n \in MigrationCut(disk.nvs) : d = [disk EXCEPT !.nvs = n]
      BY DEF BootCut
    <2>3. Becomes(d, disk, n, disk.seen)
      BY <1>0, <2>2 DEF Becomes, Sound, IsDisk
    <2>4. Migrates(n, disk.nvs)
      BY <1>0, MigrationChanges DEF Sound, IsDisk
    <2>5. Sound(d) /\ d.nvs = n /\ d.seen = disk.seen
      BY <1>0, <2>3, <2>4, MigrationIsSound
    <2>6. /\ Sound(disk') /\ disk'.nvs = n
          /\ disk'.seen["active_show"] \in {disk.seen["active_show"], Unseen}
      BY <1>0, <2>1, <2>5, SettledIsSound
    <2>7. mode' = "Off"
      BY <1>2 DEF PowerUpCut
    <2>8. disk.nvs["active_vis"] = Absent => n["active_vis"] = Absent
      BY <2>4 DEF Migrates
    <2> QED BY <1>0, <2>6, <2>7, <2>8
            DEF SettingsInv, Sound, IsDisk, Maps, Sticks, Upgraded
  <1>3. CASE PowerCut
    BY <1>3 DEF PowerCut, SettingsInv, Sound, IsDisk, Maps, Sticks, Upgraded
  <1> QED BY <1>1, <1>2, <1>3

\* Every step keeps the settings sound.
LEMMA SettingsStep == SettingsInv /\ [DeviceNext]_deviceVars => SettingsInv'
  <1> SUFFICES ASSUME SettingsInv, [DeviceNext]_deviceVars PROVE SettingsInv'
    OBVIOUS
  <1>1. mode # "Off" => Good(disk)
    BY DEF SettingsInv, Good
  <1>2. CASE ButtonA
    BY <1>1, <1>2, ButtonAIsGood, GoodMakesInv
       DEF ButtonA, Edit, EditLive, EditId, DrillTop, DrillPicker, DrillShow, FactoryReset,
           OpenIdEditor, RequestScan, OpenWorkflow, EnterBlePair, EnterConfigLumes, LiveScan,
           OnSub, InConfig
  <1>3. CASE HoldB \/ CancelBlePair \/ ConfigTick
    BY <1>1, <1>3, BackIsGood, GoodMakesInv
       DEF HoldB, CancelBlePair, ConfigTick, ScanStep, PollBlePair, LeaveBlePair, OnSub, InConfig
  <1>4. CASE LeaveBoot \/ PickMode \/ BackToMenu \/ PickDmxBridge
    <2>1. mode # "Off"
      BY <1>4 DEF LeaveBoot, PickMode, BackToMenu, PickDmxBridge, OnSub, InConfig, Rendering
    <2>2. PICK id : EnterMode(id)
      BY <1>4 DEF LeaveBoot, PickMode, BackToMenu, PickDmxBridge
    <2> QED BY <1>1, <2>1, <2>2, EnterModeIsGood, GoodMakesInv
  <1>5. CASE PickShow
    BY <1>1, <1>5, PickShowIsGood, GoodMakesInv DEF PickShow
  <1>6. CASE CentralActs
    BY <1>1, <1>6, CentralIsGood, GoodMakesInv DEF CentralActs
  <1>7. CASE TimePasses \/ UNCHANGED deviceVars
    <2>1. UNCHANGED <<disk, mode>>
      BY <1>7 DEF TimePasses, Elapse, deviceVars
    <2> QED BY <2>1 DEF SettingsInv, Sound, IsDisk, Maps, Sticks, Upgraded
  <1> QED BY <1>2, <1>3, <1>4, <1>5, <1>6, <1>7, PowerIsSound DEF DeviceNext

-----------------------------------------------------------------------------
(* The strip's settings, which no load writes.                             *)

\* A load of the strip's settings rolls and writes nothing.
LEMMA StripLoad ==
    ASSUME NEW k \in StripKeys, NEW raw, NEW r, NEW q
    PROVE  Load(k, raw, r) = Load(k, raw, q) /\ Load(k, raw, r).raw = raw
  <1>1. k \in MenuSettings \ Writing
    BY KeysAreSettings DEF StripKeys, Writing
  <1> QED BY <1>1, PlainLoad

\* So loads leave them in NVS, and return what is there.
LEMMA StripUnread ==
    ASSUME NEW S \in SUBSET MenuSettings, NEW d, Sound(d), NEW e \in Reread(S, d),
           NEW k \in StripKeys
    PROVE  /\ e.nvs[k] = d.nvs[k]
           /\ k \in S => \A r : e.seen[k] = Load(k, d.nvs[k], r).value
  <1>1. PICK q \in Rolls : e = Loaded(S, d, q)
    BY DEF Reread
  <1> DEFINE l == Loaded(S, d, q)
  <1>2. /\ \A x \in MenuSettings \ S : l.nvs[x] = d.nvs[x]
        /\ \A x \in MenuSettings \cap S : /\ l.seen[x] = Load(x, d.nvs[x], q).value
                                          /\ l.nvs[x] = Load(x, d.nvs[x], q).raw
    BY ZenonT(60), LoadedIsSound
  <1> HIDE DEF l
  <1>3. k \in MenuSettings
    BY KeysAreSettings
  <1> QED BY <1>1, <1>2, <1>3, StripLoad DEF l

\* A step that keeps the mode, the drivers and the strip's part of NVS.
LEMMA StripStays ==
    ASSUME StripAsStored, UNCHANGED <<mode, live>>, \A k \in StripKeys : disk'.nvs[k] = disk.nvs[k]
    PROVE  StripAsStored'
  BY DEF StripAsStored

\* A mode that renders is entered: it loads and pushes them.
LEMMA EntryPushes ==
    ASSUME SettingsInv, NEW id \in Rendering, EnterMode(id), mode # "Off"
    PROVE  StripAsStored'
  <1>0. Good(disk) /\ StripKeys \subseteq ReadOnEntry(id)
    BY DEF SettingsInv, Good, ReadOnEntry, KeysOnEnter, BroadcastKeys, Rendering
  <1>1. PICK d \in Reread(ReadOnEntry(id), SavedOnEntry(id)) :
           disk' = Settled(d) /\ live' = IF id \in Rendering THEN WithStrip(live, d) ELSE live
    BY Zenon DEF EnterMode, ReadOnEntry, SavedOnEntry
  <1>2. /\ ReadOnEntry(id) \in SUBSET MenuSettings /\ Sound(SavedOnEntry(id))
        /\ \A k \in StripKeys : SavedOnEntry(id).nvs[k] = disk.nvs[k]
    BY <1>0, EntryIsGood DEF Good
  <1>3. Good(d)
    BY <1>0, EntryIsGood, RereadIsGood
  <1>4. ASSUME NEW k \in StripKeys, NEW x \in Loads(k, disk'.nvs[k])
        PROVE  live'[k] = Pushed(k, x.value)
    <2>1. d.nvs[k] = disk.nvs[k] /\ \A r : d.seen[k] = Load(k, disk.nvs[k], r).value
      BY <1>0, <1>2, StripUnread
    <2>2. disk'.nvs[k] = disk.nvs[k]
      BY <1>1, <1>3, <2>1, SettledIsSound DEF Good
    <2>3. PICK q \in Rolls : x = Load(k, disk.nvs[k], q)
      BY <2>2 DEF Loads
    <2>4. live'[k] = Pushed(k, d.seen[k])
      BY <1>1 DEF WithStrip, DriverKeys
    <2> QED BY <2>1, <2>3, <2>4
  <1> QED BY <1>4 DEF StripAsStored

\* Every step.  No window is open while a mode renders, so that nothing a
\* client still writes is stored.
LEMMA StripStep ==
    SettingsInv /\ RunningInv /\ StripAsStored /\ [DeviceNext]_deviceVars => StripAsStored'
  <1> SUFFICES ASSUME SettingsInv, RunningInv, StripAsStored, [DeviceNext]_deviceVars,
                      mode' \in Rendering
               PROVE  StripAsStored'
    BY DEF StripAsStored
  <1>0. "Off" \notin Rendering /\ "Config" \notin Rendering /\ "Boot" \notin Rendering
    BY DEF Rendering
  <1>1. CASE ButtonA \/ HoldB \/ CancelBlePair \/ ConfigTick
    <2>1. mode' = "Config"
      BY <1>1 DEF ButtonA, Edit, EditLive, EditId, DrillTop, DrillPicker, DrillShow, FactoryReset,
           OpenIdEditor, RequestScan, OpenWorkflow, EnterBlePair, EnterConfigLumes, LiveScan,
           HoldB, CancelBlePair, ExitBlePair, ConfigTick, ScanStep, PollBlePair, LeaveBlePair,
           OnSub, InConfig, aroundMenu
    <2> QED BY <1>0, <2>1
  <1>2. CASE LeaveBoot \/ PickMode \/ BackToMenu \/ PickDmxBridge
    <2>1. mode # "Off"
      BY <1>2 DEF LeaveBoot, PickMode, BackToMenu, PickDmxBridge, OnSub, InConfig, Rendering
    <2>2. PICK id : EnterMode(id)
      BY <1>2 DEF LeaveBoot, PickMode, BackToMenu, PickDmxBridge
    <2>3. mode' = id
      BY <2>2 DEF EnterMode
    <2> QED BY <2>1, <2>2, <2>3, EntryPushes
  <1>3. CASE PickShow
    <2>1. Good(disk) /\ "active_show" \in MenuSettings \ StripKeys
          /\ {"active_show"} \in SUBSET MenuSettings
      BY <1>0, <1>3 DEF PickShow, SettingsInv, Good, MenuSettings, StripKeys
    <2>2. PICK d \in Reread({"active_show"}, disk) : \E s \in Shows \ {d.seen["active_show"]} :
             DiskBecomes(StoredAndShown("active_show", s, d))
      BY <1>3 DEF PickShow
    <2>3. PICK s \in Shows \ {d.seen["active_show"]} :
             DiskBecomes(StoredAndShown("active_show", s, d))
      BY <2>2
    <2>4. PICK e \in Reread({"active_show"}, Stored("active_show", s, d)) : disk' = Settled(e)
      BY <2>3 DEF DiskBecomes, StoredAndShown
    <2>5. Good(d) /\ Good(Stored("active_show", s, d)) /\ Good(e)
      BY <2>1, RereadIsGood, StoredIsGood
    <2>6. ASSUME NEW k \in StripKeys PROVE disk'.nvs[k] = disk.nvs[k]
      <3>1. d.nvs[k] = disk.nvs[k]
        BY ZenonT(60), <2>1, StripUnread DEF Good
      <3>2. Stored("active_show", s, d).nvs[k] = d.nvs[k]
        BY <2>1, <2>5, StoredIsGood, MenuIsStored, KeysAreSettings
      <3>3. e.nvs[k] = Stored("active_show", s, d).nvs[k]
        BY ZenonT(60), <2>1, <2>5, StripUnread DEF Good
      <3>4. disk'.nvs = e.nvs
        BY <2>4, <2>5, SettledIsSound DEF Good
      <3> QED BY <3>1, <3>2, <3>3, <3>4
    <2> QED BY <1>3, <2>6, StripStays DEF PickShow
  <1>4. CASE CentralActs
    <2>1. mode \in Rendering /\ mode # "Off" /\ UNCHANGED <<mode, live>> /\ Good(disk)
      BY <1>0, <1>4 DEF CentralActs, Central, CentralConnects, CentralLeaves, CentralReads,
                        CentralWrites, CentralControls, SettingsInv, Good
    <2>2. ble.window # "Open"
      BY <1>0, <2>1 DEF RunningInv, ScreensTyped, NothingLeftRunning, OnSub, InConfig
    <2>3. disk' = disk \/ disk' = Settled(disk)
          \/ DiskBecomes(Reread({NvsKeys(ble.role)[k] : k \in DOMAIN NvsKeys(ble.role)}, disk))
      BY <1>4, <2>2 DEF CentralActs, Central, CentralConnects, CentralLeaves, CentralReads,
                        CentralWrites, CentralControls, DiskBecomes
    <2> DEFINE keys == {NvsKeys(ble.role)[k] : k \in DOMAIN NvsKeys(ble.role)}
    <2>4. keys \in SUBSET MenuSettings
      BY AnsweredAreSettings
    <2>5. CASE DiskBecomes(Reread(keys, disk))
      <3>1. PICK e \in Reread(keys, disk) : disk' = Settled(e)
        BY <2>5 DEF DiskBecomes
      <3> HIDE DEF keys
      <3>2. Good(e) /\ \A k \in StripKeys : e.nvs[k] = disk.nvs[k]
        BY <2>1, <2>4, RereadIsGood, StripUnread DEF Good
      <3> QED BY <2>1, <3>1, <3>2, SettledIsSound, StripStays DEF Good
    <2>6. CASE disk' = disk \/ disk' = Settled(disk)
      BY <2>1, <2>6, SettledIsSound, StripStays DEF Good
    <2> QED BY <2>3, <2>5, <2>6
  <1>5. CASE TimePasses \/ UNCHANGED deviceVars
    <2>1. UNCHANGED <<mode, live, disk>>
      BY <1>5 DEF TimePasses, Elapse, deviceVars
    <2> QED BY <2>1, StripStays
  <1>6. CASE PowerUp \/ PowerUpCut \/ PowerCut
    BY <1>0, <1>6 DEF PowerUp, PowerUpCut, PowerCut
  <1> QED BY <1>1, <1>2, <1>3, <1>4, <1>5, <1>6 DEF DeviceNext

\* At power-up nothing was seen of any setting, whatever NVS holds.
LEMMA FirstSettings ==
    ASSUME NEW Values, NEW nvs \in [StoredKeys -> Values], NEW watched, NEW edits, NEW boots,
           DeviceInit(nvs, watched, edits, boots)
    PROVE  SettingsInv /\ StripAsStored
  <1>1. disk = [nvs |-> nvs, seen |-> NothingSeen, watched |-> watched] /\ mode = "Off"
    BY DEF DeviceInit
  <1>2. Maps(StoredKeys, nvs) /\ Maps(MenuSettings, NothingSeen)
        /\ \A k \in MenuSettings : NothingSeen[k] = Unseen
    BY DEF Maps, NothingSeen
  <1>3. disk.nvs = nvs /\ disk.seen = NothingSeen /\ IsDisk(disk)
    BY <1>1, <1>2 DEF IsDisk
  <1>4. "active_show" \in MenuSettings
    BY DEF MenuSettings
  <1> QED BY <1>1, <1>2, <1>3, <1>4 DEF SettingsInv, Sound, Sticks, StripAsStored, Rendering

\* Whatever an older firmware left in NVS, whatever is rolled, edited, written
\* over BLE, migrated or cut short: what a setting was last shown or answered
\* to be is what its next load returns (persistence.cpp).
THEOREM SettingsAlwaysStick ==
    ASSUME NEW Values, NEW nvs \in [StoredKeys -> Values], NEW watched, NEW edits, NEW boots
    PROVE  DeviceInit(nvs, watched, edits, boots) /\ [][DeviceNext]_deviceVars => []SettingsStick
  <1>1. DeviceInit(nvs, watched, edits, boots) => SettingsInv
    BY FirstSettings
  <1>2. SettingsInv => SettingsStick
    <2> SUFFICES ASSUME SettingsInv, NEW k \in MenuSettings \ {"mst_src_id"},
                        disk.seen[k] # Unseen
                 PROVE  {x.value : x \in Loads(k, disk.nvs[k])} = {disk.seen[k]}
      BY DEF SettingsStick
    <2>1. \A q \in Rolls : Load(k, disk.nvs[k], q).value = disk.seen[k]
      BY DEF SettingsInv, Sound, Sticks
    <2> QED BY <2>1, PersistenceAssumption DEF Loads
  <1> QED BY <1>1, <1>2, SettingsStep, PTL

\* And while a mode renders, the strip driver runs on what is stored
\* (DAL::apply_persisted_strip_settings()).
THEOREM StripRunsAsStored ==
    ASSUME NEW Values, NEW nvs \in [StoredKeys -> Values], NEW watched, NEW edits, NEW boots
    PROVE  DeviceInit(nvs, watched, edits, boots) /\ [][DeviceNext]_deviceVars => []StripAsStored
  <1>1. DeviceInit(nvs, watched, edits, boots) => SettingsInv /\ RunningInv /\ StripAsStored
    BY FirstSettings, FirstRunning
  <1> QED BY <1>1, SettingsStep, RunningStep, StripStep, PTL
=============================================================================
