------------------------------- MODULE Device -------------------------------
(***************************************************************************)
(* One Stick from power-up to power-cut: setup(), the mode machine         *)
(* (src/src/modes/mode_machine.cpp), the boot splash and the menu, and     *)
(* what the runtime modes do to the settings, around Config mode and the   *)
(* BLE service.  Director, Lume and Test are modelled elsewhere.           *)
(***************************************************************************)
EXTENDS ConfigMenu

deviceVars == <<disk, live, ble, link, menu, mode, last, budget>>

\* The start_broadcast() of a mode loads the id its channel calls for.
IdKey(d) ==
    LET channel == ReadDirectorChannel(d.nvs["mst_chan"])
    IN  CASE channel = 1 -> {"mst_src_id"} [] channel = 11 -> {"mst_pid"} [] OTHER -> {}
BroadcastKeys(d) == {"mst_chan", "retx_count"} \cup IdKey(d) \cup StripKeys

Rendering == {"Director", "Lume", "Test", "DmxBridge"}

\* What enter() of a mode loads.
KeysOnEnter(id, d) ==
    CASE id = "Director"            -> BroadcastKeys(d) \cup {"active_show"}
      [] id \in {"Test", "DmxBridge"} -> BroadcastKeys(d)
      [] id = "Lume"                -> {"slv_chan", "slv_repeat", "slv_group"} \cup StripKeys
      [] id = "Config"              -> Shown("Top")
      [] OTHER                      -> {}

\* A plausible bug: only the modes of a Lume push the strip's settings.
EnterModeUnpushed(id) ==
    LET saved == IF id \in PersistedModes THEN Stored("last_mode", id, disk) ELSE disk
        reads == KeysOnEnter(id, disk) \cup (IF id \in PersistedModes THEN {"last_mode"} ELSE {})
        left == IF mode = "Config" THEN ConfigExited(menu) ELSE menu
    IN  /\ mode # id
        /\ mode' = id
        /\ last' = IF id \in PersistedModes THEN id ELSE last
        /\ \E d \in Reread(reads, saved) :
              /\ disk' = Settled(d)
              /\ live' = IF id = "Lume" THEN WithStrip(live, d) ELSE live
        /\ menu' = IF id = "Config" THEN ConfigEntered(left) ELSE left
        /\ ble' = IF mode = "Config" THEN Ended(ble) ELSE ble
        /\ link' \in IF mode = "Config" /\ ble.active THEN Unlinked ELSE {link}
        /\ UNCHANGED budget

\* enter_mode(): exit the old mode, remember the new one, enter it.
EnterMode(id) ==
    LET saved == IF id \in PersistedModes THEN Stored("last_mode", id, disk) ELSE disk
        reads == KeysOnEnter(id, disk) \cup (IF id \in PersistedModes THEN {"last_mode"} ELSE {})
        left == IF mode = "Config" THEN ConfigExited(menu) ELSE menu
    IN  /\ mode # id
        /\ mode' = id
        /\ last' = IF id \in PersistedModes THEN id ELSE last
        /\ \E d \in Reread(reads, saved) :
              /\ disk' = Settled(d)
              /\ live' = IF id \in Rendering THEN WithStrip(live, d) ELSE live
        /\ menu' = IF id = "Config" THEN ConfigEntered(left) ELSE left
        /\ ble' = IF mode = "Config" THEN Ended(ble) ELSE ble
        /\ link' \in IF mode = "Config" /\ ble.active THEN Unlinked ELSE {link}
        /\ UNCHANGED budget

\* The splash: a button leads to the menu, its timeout always to Lume.
LeaveBoot == mode = "Boot" /\ \E id \in {"Menu", "Lume"} : EnterMode(id)

PickMode == mode = "Menu" /\ \E id \in {"Director", "Lume", "Test", "Config"} : EnterMode(id)

\* B held at the top of Config, or in a runtime mode.
BackToMenu ==
    /\ mode \in Rendering \/ (InConfig /\ menu.level = "Top")
    /\ EnterMode("Menu")

\* The last row of the Show lists of Director and of Config.
PickDmxBridge ==
    /\ mode = "Director" \/ OnSub("Show")
    /\ EnterMode("DmxBridge")

\* on_picker_confirm(): another Show.
PickShow ==
    /\ mode = "Director" /\ MayEdit
    /\ \E d \in Reread({"active_show"}, disk) : \E s \in Shows \ {d.seen["active_show"]} :
          DiskBecomes(StoredAndShown("active_show", s, d))
    /\ UNCHANGED <<live, ble, link, menu, mode, last>>

-----------------------------------------------------------------------------
(* Power.  RAM is lost; a cut may fall into setup() too.                   *)

DriversAtReset == [k \in DriverKeys |-> Unseen]

\* ModeMachine::begin()
PowerUp ==
    /\ mode = "Off" /\ budget.boots > 0
    /\ mode' = "Boot"
    /\ \E d \in Booted(disk) :
          /\ disk' = Settled(d)
          /\ last' = d.seen["last_mode"]
          /\ live' = [k \in DriverKeys |-> IF k \in BootFlags THEN d.seen[k] ELSE Unseen]
    /\ budget' = [budget EXCEPT !.boots = @ - 1]
    /\ UNCHANGED <<ble, link, menu>>

PowerUpCut ==
    /\ mode = "Off" /\ budget.boots > 0
    /\ DiskBecomes(BootCut(disk))
    /\ budget' = [budget EXCEPT !.boots = @ - 1]
    /\ UNCHANGED <<live, ble, link, menu, mode, last>>

PowerCut ==
    /\ mode # "Off"
    /\ mode' = "Off"
    /\ live' = DriversAtReset /\ ble' = BleDown /\ link' = FALSE
    /\ menu' = MenuInit /\ last' = None
    /\ UNCHANGED <<disk, budget>>

-----------------------------------------------------------------------------

DeviceInit(nvs, watched, edits, boots) ==
    /\ disk = [nvs |-> nvs, seen |-> NothingSeen, watched |-> watched]
    /\ live = DriversAtReset /\ ble = BleDown /\ link = FALSE
    /\ menu = MenuInit /\ mode = "Off" /\ last = None
    /\ budget = [edits |-> edits, boots |-> boots]

CentralActs == mode # "Off" /\ Central /\ UNCHANGED <<menu, mode, last, budget>>
TimePasses == mode # "Off" /\ Elapse /\ UNCHANGED <<menu, mode, last, budget>>

DeviceNext ==
    \/ ButtonA \/ CancelBlePair \/ HoldB \/ ConfigTick
    \/ LeaveBoot \/ PickMode \/ BackToMenu \/ PickDmxBridge \/ PickShow
    \/ CentralActs \/ TimePasses
    \/ PowerUp \/ PowerUpCut \/ PowerCut

\* The loop runs, also in every pause between two clients, which is as many
\* of its rounds; time passes there; and no central stays for ever.
DeviceFairness ==
    /\ WF_deviceVars(PollBlePair) /\ WF_deviceVars(LeaveBlePair)
    /\ SF_deviceVars(~link /\ PollBlePair) /\ SF_deviceVars(TimePasses)
    /\ WF_deviceVars(CentralLeaves /\ UNCHANGED <<menu, mode, last, budget>>)

-----------------------------------------------------------------------------
(* Properties.                                                             *)

\* What a setting was last shown, answered or set to is what its next load
\* returns, over screens, modes, BLE writes, power cuts and migrations, until a
\* factory reset or a forced default takes it back: the values load_*() rolls
\* or repairs are pinned (persistence.cpp).
SettingsStick ==
    \A k \in MenuSettings \ {"mst_src_id"} :
        disk.seen[k] # Unseen => {x.value : x \in Loads(k, disk.nvs[k])} = {disk.seen[k]}

\* No way out of a screen leaves behind what it started: the pairing service
\* is up only under its screen, and the microphone of Level Tuning never
\* outlives Config mode (ConfigMode::exit(), exit_ble_pair()).
NothingLeftRunning ==
    /\ ble.active => OnSub("BlePair")
    /\ menu.mic => InConfig

\* While a mode renders, the strip driver runs on the stored settings, whatever
\* was edited on the menu or over BLE since the last mode
\* (DAL::apply_persisted_strip_settings()).
StripAsStored ==
    mode \in Rendering =>
        \A k \in StripKeys : \A x \in Loads(k, disk.nvs[k]) : live[k] = Pushed(k, x.value)

\* A pairing window always closes, and takes BLE down with it: by the central,
\* the operator or the timeout, paused as it is while a client is connected
\* (BleService::tick(), ConfigMode::loop_tick()).
WindowEnds == ble.active ~> ~ble.active

\* A window that is open can be used: its service is registered
\* (ble_service.cpp:651-653).
OpenWindowIsServed == ble.active => ble.served

\* The id a Director was first seen to broadcast under on channel 1 is the id
\* it has after every later power-up (persistence.cpp:701-704).
DirectorIdSticks ==
    disk.seen["mst_src_id"] # Unseen =>
        \A x \in Loads("mst_src_id", disk.nvs["mst_src_id"]) : x.value = disk.seen["mst_src_id"]
=============================================================================
