----------------------------- MODULE BleService -----------------------------
(***************************************************************************)
(* The process-wide BLE service (src/src/ble/ble_service.cpp): the pairing *)
(* window of the peripheral, with the callbacks of its characteristics,    *)
(* and the central that connects to it, which is another device's          *)
(* configure_lume() or read_lume_config(), or a phone.  The callbacks run  *)
(* on the NimBLE host task, between any two steps of the main loop.        *)
(***************************************************************************)
EXTENDS Settings

CONSTANTS
    WindowUnits,    \* the length of a window, in units of time
    Written         \* the [key, typed, value] entries a central may write

ASSUME BleAssumption == WindowUnits \in Nat

VARIABLES
    ble,        \* [stack, served, active, window, role, client, left]: s_stack_initialized,
                \*   the GATT service exists, active_, pairing_state_, role_,
                \*   client_connected_, and what is left of the window
    link        \* a central is connected

BleDown == [stack |-> FALSE, served |-> FALSE, active |-> FALSE, window |-> "Closed",
            role |-> "Lume", client |-> FALSE, left |-> 0]

\* begin(): the service is created with the stack, and only then; advertising
\* may fail to start.
Begun(b, role) ==
    IF b.active THEN {b}
    ELSE LET up == [b EXCEPT !.stack = TRUE, !.served = @ \/ ~b.stack, !.role = role]
         IN  {up, [up EXCEPT !.active = TRUE, !.window = "Open", !.left = WindowUnits,
                             !.client = FALSE]}

\* compose_adv_name(): a device without a name saves its default, 8 long.
Named(d) ==
    UNION {IF e.seen["friendly_name"] = 0 THEN StoredAndShown("friendly_name", 8, e) ELSE {e} :
              e \in Reread({"friendly_name"}, d)}

\* A plausible bug: the window is not looked at while a client is expected.
TickedNoTimeout(b) == [b EXCEPT !.client = link /\ b.served]

\* tick(): the poll for a client, and the timeout, paused while there is one.
Ticked(b) ==
    LET polled == [b EXCEPT !.client = link /\ b.served]
    IN  IF ~b.active \/ b.window = "Closed" THEN b
        ELSE IF polled.window = "Open" /\ ~polled.client /\ polled.left = 0
             THEN [polled EXCEPT !.window = "Aborted"]
             ELSE polled

Ended(b) == IF b.active THEN [b EXCEPT !.active = FALSE, !.window = "Closed", !.client = FALSE,
                                     !.left = 0]
            ELSE b

\* The clients end() throws out may linger for a while.
Unlinked == {TRUE, FALSE} \cap {link, FALSE}

\* Time the window counts: none while a client is known to be connected.
Elapse ==
    /\ ble.active /\ ble.window = "Open" /\ ~ble.client /\ ble.left > 0
    /\ ble' = [ble EXCEPT !.left = @ - 1]
    /\ UNCHANGED <<link, disk, live>>

-----------------------------------------------------------------------------
(* The central.                                                            *)

\* acquire_and_connect(): the device must be advertising.
CentralConnects ==
    /\ ble.active /\ ~link
    /\ link' = TRUE
    /\ UNCHANGED <<ble, disk, live>>

\* disconnect(), a lost link, or no service on the peer.
CentralLeaves ==
    /\ link
    /\ link' = FALSE
    /\ UNCHANGED <<ble, disk, live>>

\* The callback that answers a read of the config: gated by nothing, it may
\* pin what it loads.  device_info, status and device_secret touch nothing.
CentralReads ==
    /\ link /\ ble.served
    /\ DiskBecomes(Reread({NvsKeys(ble.role)[k] : k \in DOMAIN NvsKeys(ble.role)}, disk))
    /\ UNCHANGED <<ble, link, live>>

\* A bag of one entry, as apply_config_entry() takes it.
Applied(e) ==
    LET done == ApplyEntry([nvs |-> disk.nvs, flagged |-> FALSE], ble.role, e)
    IN  IF e.key \notin DOMAIN NvsKeys(ble.role) THEN {disk}
        ELSE Reread({NvsKeys(ble.role)[e.key]},
                    Forget({NvsKeys(ble.role)[e.key]}, [disk EXCEPT !.nvs = done.nvs]))

\* The write is acknowledged to the central even when the callback drops it.
CentralWrites ==
    /\ link /\ ble.served
    /\ \E e \in Written : DiskBecomes(IF ble.window = "Open" THEN Applied(e) ELSE {disk})
    /\ UNCHANGED <<ble, link, live>>

\* on_pairing_control_write(): commit, commit and sleep, abort.
CentralControls ==
    /\ link /\ ble.served
    /\ \E to \in {"Committed", "Sleeping", "Aborted"} :
          ble' = IF ble.window = "Open" THEN [ble EXCEPT !.window = to] ELSE ble
    /\ UNCHANGED <<link, disk, live>>

Central == CentralConnects \/ CentralLeaves \/ CentralReads \/ CentralWrites \/ CentralControls

-----------------------------------------------------------------------------

\* start_scan() of this device's own search for others: the stack comes up
\* without the service.  The scan blocks the main loop until it is done.
StartScan == ble' = [ble EXCEPT !.stack = TRUE]
=============================================================================
