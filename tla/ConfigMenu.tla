----------------------------- MODULE ConfigMenu -----------------------------
(***************************************************************************)
(* Config mode (src/src/modes/config_mode.cpp): its screens, the settings  *)
(* they edit, the microphone of Level Tuning, the Wi-Fi scan and the BLE   *)
(* pairing screen.  A cursor is the choice of what button A acts on; the   *)
(* Config Lumes route, opened and left here, is ConfigChannel's.           *)
(***************************************************************************)
EXTENDS BleService

CONSTANTS None      \* SubMenu::None, no screen

VARIABLES
    menu,       \* [level, picker, sub, prev, mic, edit, scan, workflow, pair, back]
    mode,       \* s_active_mode; "Off" without power
    last,       \* s_last_runtime
    budget      \* bounds: [edits, boots] left

aroundMenu == <<link, live, mode, last>>

MenuReset(m) ==
    [m EXCEPT !.level = "Top", !.picker = None, !.sub = None, !.mic = FALSE,
              !.edit = FALSE, !.scan = "Idle"]
MenuInit == [level |-> "Top", picker |-> None, sub |-> None, prev |-> None, mic |-> FALSE,
             edit |-> FALSE, scan |-> "Idle", workflow |-> FALSE,
             pair |-> "Countdown", back |-> FALSE]

Pickers == {"Connectivity", "Utilities"}
Entries == [Connectivity |-> {"IR", "EspNow", "Dmx", "LedStrip"},
            Utilities |-> {"PixMob", "LevelTuning"}]

\* What button A edits on each screen, and what the screen reads to draw.
EspNowItems == {"mst_chan", "slv_chan", "slv_repeat", "retx_count"}
LedStripItems == StripKeys

Edits(screen) ==
    CASE screen = "Top"      -> {"dir_calm"}
      [] screen = "EspNow"   -> EspNowItems
      [] screen = "LedStrip" -> LedStripItems
      [] screen = "System"   -> {"slv_group"}
      [] screen = "Show"     -> {"active_show"}
      [] OTHER               -> {}

Shown(screen) == Edits(screen) \cup (IF screen = "EspNow" THEN {"mst_pid"} ELSE {})

\* These read the driver's flag, not NVS; the external emitter has its item
\* where there is one.
IrItems == {"ir_en"} \cup (IF HasExternalIr THEN {"ir_int_en", "ir_ext_en"} ELSE {})

LiveEdits(screen) ==
    CASE screen = "IR" -> IrItems [] screen = "Display" -> {"scr_puls_en"} [] OTHER -> {}

InConfig == mode = "Config"
OnSub(s) == InConfig /\ menu.level = "Sub" /\ menu.sub = s
Screen == IF menu.level = "Sub" THEN menu.sub ELSE menu.level

MayEdit == budget.edits > 0 /\ budget' = [budget EXCEPT !.edits = @ - 1]

-----------------------------------------------------------------------------
(* Button A.                                                               *)

\* Load, step, save, and tell the driver.
Edit ==
    /\ InConfig /\ ~(menu.edit \/ menu.scan # "Idle") /\ MayEdit
    /\ \E k \in Edits(Screen) : \E d \in Reread({k}, disk) : \E v \in NextValues(k, d.seen[k]) :
          /\ DiskBecomes(StoredAndShown(k, v, d))
          /\ live' = IF k \in StripKeys THEN [live EXCEPT ![k] = Pushed(k, v)] ELSE live
    /\ UNCHANGED <<ble, link, menu, mode, last>>

EditLive ==
    /\ InConfig /\ MayEdit
    /\ \E k \in LiveEdits(Screen) :
          /\ live' = [live EXCEPT ![k] = ~@]
          /\ DiskBecomes(StoredAndShown(k, ~live[k], disk))
    /\ UNCHANGED <<ble, link, menu, mode, last>>

\* The Director's id, nibble by nibble, on a screen of its own.
EditId ==
    /\ OnSub("EspNow") /\ menu.edit /\ MayEdit
    /\ \E d \in Reread({"mst_pid"}, disk) : \E v \in NextValues("mst_pid", d.seen["mst_pid"]) :
          DiskBecomes(StoredAndShown("mst_pid", v, d))
    /\ UNCHANGED <<ble, menu, aroundMenu>>

Open(screen) == [menu EXCEPT !.level = "Sub", !.sub = screen, !.workflow = FALSE]

DrillTop ==
    /\ InConfig /\ menu.level = "Top"
    /\ \/ /\ \E p \in Pickers : menu' = [menu EXCEPT !.level = "Picker", !.picker = p]
          /\ UNCHANGED disk
       \/ /\ menu' = [Open("System") EXCEPT !.picker = None]
          /\ DiskBecomes(Reread(Shown("System"), disk))
    /\ UNCHANGED <<ble, aroundMenu, budget>>

\* handle_picker(): Level Tuning starts the microphone.
DrillPicker ==
    /\ InConfig /\ menu.level = "Picker"
    /\ \E s \in Entries[menu.picker] :
          /\ menu' = [Open(s) EXCEPT !.mic = @ \/ s = "LevelTuning"]
          /\ DiskBecomes(Reread(Shown(s), disk))
    /\ UNCHANGED <<ble, aroundMenu, budget>>

\* System > Show: System is remembered as the parent.
DrillShow ==
    /\ OnSub("System")
    /\ menu' = [menu EXCEPT !.prev = "System", !.sub = "Show"]
    /\ DiskBecomes(Reread(Shown("Show"), disk))
    /\ UNCHANGED <<ble, aroundMenu, budget>>

FactoryReset ==
    /\ OnSub("System") /\ MayEdit
    /\ DiskBecomes(Reread(Shown("System"), Erased(disk)))
    /\ UNCHANGED <<ble, menu, aroundMenu>>

\* The id editor, and the Wi-Fi scan or a rescan.
OpenIdEditor ==
    /\ OnSub("EspNow") /\ ~menu.edit /\ menu.scan = "Idle"
    /\ menu' = [menu EXCEPT !.edit = TRUE]
    /\ DiskBecomes(Reread({"mst_pid"}, disk))
    /\ UNCHANGED <<ble, aroundMenu, budget>>

RequestScan ==
    /\ OnSub("EspNow") /\ ~menu.edit /\ menu.scan \in {"Idle", "Shown"}
    /\ menu' = [menu EXCEPT !.scan = "Requested"]
    /\ UNCHANGED <<ble, disk, aroundMenu, budget>>

\* A workflow of the PixMob screen; in it A sends a command over IR.
OpenWorkflow ==
    /\ OnSub("PixMob") /\ ~menu.workflow
    /\ menu' = [menu EXCEPT !.workflow = TRUE]
    /\ UNCHANGED <<ble, disk, aroundMenu, budget>>

\* enter_ble_pair(): it lingers on an error when the service does not start.
EnterBlePair ==
    /\ InConfig /\ menu.level = "Top"
    /\ \E d \in Reread({"pair_win_s"}, disk) :
          /\ DiskBecomes(IF ble.active THEN {d} ELSE Named(d))
          /\ ble' \in Begun(ble, IF last = "Lume" THEN "Lume" ELSE "Director")
    /\ menu' = [menu EXCEPT !.level = "Sub", !.sub = "BlePair", !.picker = None, !.prev = None,
                            !.pair = IF ble'.active THEN "Countdown" ELSE "Timeout",
                            !.back = ~ble'.active]
    /\ UNCHANGED <<aroundMenu, budget>>

EnterConfigLumes ==
    /\ InConfig /\ menu.level = "Top"
    /\ menu' = [Open("ConfigLumes") EXCEPT !.picker = None, !.prev = None]
    /\ UNCHANGED <<ble, disk, aroundMenu, budget>>

LiveScan ==
    /\ OnSub("ConfigLumes")
    /\ StartScan
    /\ UNCHANGED <<link, disk, live, menu, mode, last, budget>>

ButtonA == Edit \/ EditLive \/ EditId \/ DrillTop \/ DrillPicker \/ DrillShow \/ FactoryReset
           \/ OpenIdEditor \/ RequestScan \/ OpenWorkflow \/ EnterBlePair \/ EnterConfigLumes
           \/ LiveScan

-----------------------------------------------------------------------------
(* Button B held: one level back.                                          *)

ToTop == [menu EXCEPT !.level = "Top", !.picker = None, !.sub = None]

ExitedBlePair(m) == [m EXCEPT !.level = "Top", !.picker = None, !.sub = None, !.prev = None,
                              !.pair = "Countdown", !.back = FALSE]

\* exit_ble_pair()
ExitBlePair ==
    /\ menu' = ExitedBlePair(menu)
    /\ ble' = Ended(ble) /\ link' \in Unlinked
    /\ DiskBecomes(Reread(Shown("Top"), disk))
    /\ UNCHANGED <<live, mode, last, budget>>

CancelBlePair == OnSub("BlePair") /\ ExitBlePair

\* The order of the tests of on_button_event() below Top and the BLE screen.
BackFrom ==
    IF menu.level # "Sub" THEN ToTop
    ELSE IF menu.sub = "PixMob" /\ menu.workflow THEN [menu EXCEPT !.workflow = FALSE]
    ELSE IF menu.sub = "EspNow" /\ menu.edit THEN [menu EXCEPT !.edit = FALSE]
    ELSE IF menu.sub = "EspNow" /\ menu.scan # "Idle" THEN [menu EXCEPT !.scan = "Idle"]
    ELSE IF menu.sub = "ConfigLumes" THEN ToTop
    ELSE IF menu.prev # None THEN [menu EXCEPT !.sub = menu.prev, !.prev = None]
    ELSE IF menu.picker # None
         THEN [menu EXCEPT !.level = "Picker", !.sub = None, !.mic = @ /\ menu.sub # "LevelTuning"]
    ELSE ToTop

HoldB ==
    /\ InConfig /\ menu.level # "Top" /\ Screen # "BlePair"
    /\ menu' = BackFrom
    /\ DiskBecomes(Reread(Shown(IF BackFrom.level = "Sub" THEN BackFrom.sub ELSE BackFrom.level), disk))
    /\ UNCHANGED <<ble, aroundMenu, budget>>

-----------------------------------------------------------------------------
(* loop_tick()                                                             *)

\* run_scan_if_needed(): the scan itself blocks; its list is shown, or that it failed.
ScanStep ==
    /\ OnSub("EspNow") /\ menu.scan \in {"Requested", "Running"}
    /\ menu' = [menu EXCEPT !.scan = IF @ = "Requested" THEN "Running" ELSE "Shown"]
    /\ UNCHANGED <<ble, disk, aroundMenu, budget>>

\* The countdown screen polls the service; an outcome lingers.
PollBlePair ==
    /\ OnSub("BlePair") /\ menu.pair = "Countdown"
    /\ ble' = Ticked(ble)
    /\ menu' = CASE ble'.window = "Committed" -> [menu EXCEPT !.pair = "Success", !.back = TRUE]
                 [] ble'.window = "Sleeping"  -> [menu EXCEPT !.pair = "Sleeping", !.back = TRUE]
                 [] ble'.window = "Aborted"   -> [menu EXCEPT !.pair = "Timeout", !.back = TRUE]
                 [] OTHER -> menu
    /\ UNCHANGED <<disk, aroundMenu, budget>>

\* ... and returns to the top menu.
LeaveBlePair == OnSub("BlePair") /\ menu.back /\ ExitBlePair

ConfigTick == ScanStep \/ PollBlePair \/ LeaveBlePair

-----------------------------------------------------------------------------
\* ConfigMode::enter() and exit(), as enter_mode() calls them.

ConfigEntered(m) == MenuReset(m)

\* A plausible bug: the microphone is left to the screen that started it.
ConfigExitedListening(m) == [m EXCEPT !.back = FALSE]

ConfigExited(m) == [m EXCEPT !.mic = FALSE, !.back = FALSE]
=============================================================================
