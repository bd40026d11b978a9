---------------------------- MODULE ConfigChannel ----------------------------
(***************************************************************************)
(* The configuration channel: the Config Lumes screens of a Director       *)
(* (src/src/modes/config_mode.cpp), its pair register, the sender and the  *)
(* acknowledgement ring (src/src/ble/config_tx.cpp), and the Lumes that    *)
(* receive a CONFIG_WRITE, check it and acknowledge it                     *)
(* (on_recv() of src/src/modes/lume_mode.cpp, src/src/ble/config_rx.cpp).  *)
(* The Director's main task is blocked while it waits for an               *)
(* acknowledgement; its WiFi task fills the ring meanwhile.                *)
(***************************************************************************)
EXTENDS PairRegister, NumonceLru

CONSTANTS
    Lumes,          \* the Lumes in reach
    Director,       \* the source_id of the Director
    NoUid,          \* 0: a device whose NVS was cleared and not yet rebooted
    Settings,       \* the cycle of an edited field, in menu order
    Default,        \* what the paired editor shows without a snapshot
    AckRingSize,    \* kAckRingSize: 8
    MaxWrites,      \* bound: numonces drawn and CONFIG_WRITEs sent
    MaxResets,      \* bound: factory resets and reboots
    None            \* no stash, no wait, an invalid slot, nothing edited

ASSUME ChannelAssumption ==
    /\ AckRingSize \in Nat \ {0}
    /\ {MaxWrites, MaxResets} \subseteq Nat
    /\ NoUid \notin Lumes
    /\ Settings # <<>> /\ Settings \in Seq({Settings[i] : i \in DOMAIN Settings})
    /\ Vacant \notin [src : {Director, NoUid}, seen : Nat, at : Nat]

VARIABLES
    screen,         \* cl_screen_; "Top" outside the route
    route,          \* cl_paired_route_active_
    flash,          \* cl_return_after_ # 0
    picked,         \* cl_paired_selected_
    edited,         \* cl_current_ while an editor uses it: the value shown,
                    \*   the uid and secret read, and whose settings they are
    tx,             \* the broadcast driver: startup_state_
    callback,       \* whose receive callback the radio calls
    register,       \* pair_register(), in RAM
    blob,           \* ... and in NVS
    numonce,        \* "cfg_numonce" in NVS
    director,       \* load_device_uid() of the Director
    ack_ring,       \* s_ack_ring
    ack_head,       \* s_ack_head
    wait,           \* wait_for_ack(): [uid, num, wid, slot]
    captured,       \* cl_captured_uid_
    stash,          \* s_pending_capture_ while s_pending_capture_ready_
    config,         \* per Lume: the setting in its NVS
    secret,         \* per Lume: dev_secret, 0 when it has none
    lru,            \* per Lume: config_numonces_
    air,            \* the frames in the air: each may arrive never, or any number of times
    issued,         \* history: the writes sent
    taken,          \* history: the writes each Lume has applied, in order
    confirmed,      \* history: the writes reported as a success
    standing,       \* history: what became of the last write to a Lume, by either route
    resets          \* bound on resets and reboots

screenVars == <<screen, route, flash, picked, edited>>
radioVars == <<tx, callback>>
registerVars == <<register, blob>>
ackVars == <<ack_ring, ack_head, wait>>
captureVars == <<captured, stash>>
identityVars == <<numonce, director>>
lumeVars == <<config, secret, lru>>
historyVars == <<issued, taken, confirmed, standing, resets>>
airVars == <<lumeVars, air, historyVars>>
behindScreen == <<radioVars, registerVars, ackVars, captureVars, identityVars, airVars>>
vars == <<screenVars, behindScreen>>

Uid(u) == IF secret[u] = 0 THEN NoUid ELSE u
Values == {Settings[i] : i \in DOMAIN Settings}

\* The frames: a CONFIG_WRITE is signed with key, an acknowledgement carries
\* no tag.
WriteFrame(num, uid, key, value, wid) ==
    [type |-> "write", src |-> director, num |-> num, uid |-> uid,
     key |-> key, value |-> value, wid |-> wid]
AckFrame(uid, num) == [type |-> "ack", uid |-> uid, num |-> num]

\* next_led_power(), next_channel_pref(), next_strip_chain() and the others:
\* the entry after this one, or the first when the value is not in the menu.
NextSetting(v) ==
    LET at == {i \in DOMAIN Settings : Settings[i] = v}
    IN  IF at = {} THEN Settings[1]
        ELSE Settings[((CHOOSE i \in at : TRUE) % Len(Settings)) + 1]

Save(reg) == register' = reg /\ blob' = reg

EmptyRing == [i \in 0 .. AckRingSize - 1 |-> None]

Init ==
    /\ screen = "Top" /\ route = FALSE /\ flash = FALSE /\ picked = 0 /\ edited = None
    /\ tx = "Idle" /\ callback = "none"
    /\ register = EmptyRegister /\ blob = EmptyRegister
    /\ ack_ring = EmptyRing /\ ack_head = 0 /\ wait = None
    /\ captured = NoUid /\ stash = None
    /\ numonce = 0 /\ director = Director
    /\ config = [u \in Lumes |-> Settings[1]]
    /\ secret = [u \in Lumes |-> 1]
    /\ lru = [u \in Lumes |-> EmptyLru]
    /\ air = {}
    /\ issued = <<>> /\ taken = [u \in Lumes |-> <<>>] /\ confirmed = {}
    /\ standing = [u \in Lumes |-> "unknown"]
    /\ resets = 0

Show(s) == screen' = s
Flash(s) == screen' = s /\ flash' = TRUE

-----------------------------------------------------------------------------
(* Into the route and out of it.                                           *)

\* enter_config_lumes(): the capture fields are left as they are.
Enter ==
    /\ screen = "Top"
    /\ Show("ModeSelect") /\ route' = FALSE /\ flash' = FALSE /\ picked' = 0
    /\ UNCHANGED <<edited, behindScreen>>

\* exit_config_lumes(): a driver that is still listening is not active and
\* keeps running; an announcement already stashed stays stashed.
ExitRoute ==
    /\ tx' = IF tx = "Active" /\ route THEN "Idle" ELSE tx
    /\ callback' = "none"
    /\ Show("Top") /\ route' = FALSE /\ flash' = FALSE
    /\ edited' = None
    /\ captured' = NoUid
    /\ UNCHANGED <<picked, registerVars, ackVars, stash, identityVars, airVars>>

\* Btn2 held down.
BackOut ==
    /\ screen # "Top" /\ wait = None
    /\ IF screen = "Editing"
       THEN /\ Show("Browsing") /\ edited' = None
            /\ UNCHANGED <<route, flash, picked, behindScreen>>
       ELSE ExitRoute

\* start_espnow_for_config_route(): start_broadcast() returns at once when the
\* driver is already listening; on channel 11 it begins by listening; begin()
\* may fail.  The callback of this route replaces the driver's own.
StartRoute ==
    /\ tx' \in IF tx = "Idle" THEN {"Idle", "Listening", "Active"} ELSE {tx}
    /\ callback' = "config"
    /\ ack_ring' = EmptyRing /\ ack_head' = 0

\* listen_tick(): the driver has settled on its id.
ListenEnds ==
    /\ tx = "Listening" /\ wait = None
    /\ tx' = "Active"
    /\ UNCHANGED <<screenVars, callback, registerVars, ackVars, captureVars, identityVars,
                   airVars>>

\* The flash timer of loop_tick(): it does not ask which screen set it.
FlashEnds ==
    /\ screen # "Top" /\ wait = None
    /\ flash /\ flash' = FALSE
    /\ Show(IF route THEN "PairedBrowsing" ELSE "Browsing")
    /\ edited' = None
    /\ UNCHANGED <<route, picked, behindScreen>>

-----------------------------------------------------------------------------
(* The BLE route: scan, read a Lume's settings, write them back.  A scan,  *)
(* a read and a write block the main task for seconds, longer than any     *)
(* frame is in the air.  Which Lumes a scan discovers is left open.        *)

Scan == Show("Scanning") /\ air' = {}

ChooseLiveScan ==
    /\ screen = "ModeSelect"
    /\ route' = FALSE
    /\ IF tx = "Active" THEN tx' = "Idle" /\ callback' = "none" ELSE UNCHANGED radioVars
    /\ Scan
    /\ UNCHANGED <<flash, picked, edited, registerVars, ackVars, captureVars, identityVars,
                   lumeVars, historyVars>>

Rescan ==
    /\ screen = "Empty"
    /\ Scan
    /\ UNCHANGED <<route, flash, picked, edited, radioVars, registerVars, ackVars,
                   captureVars, identityVars, lumeVars, historyVars>>

ScanDone ==
    /\ \/ screen = "Scanning" /\ screen' \in {"Empty", "Browsing"}
       \/ screen = "Browsing" /\ Show("Empty")
    /\ UNCHANGED <<route, flash, picked, edited, behindScreen>>

\* read_lume_config() and the editor on what it read, or the ReadFailed flash.
ReadOverBle(u) ==
    /\ screen = "Browsing"
    /\ \/ /\ Show("Editing")
          /\ edited' = [value |-> config[u], uid |-> Uid(u), key |-> secret[u], of |-> u]
          /\ UNCHANGED flash
       \/ Flash("ReadFailed") /\ UNCHANGED edited
    /\ UNCHANGED <<route, picked, behindScreen>>

CycleValue ==
    /\ screen \in {"Editing", "PairedEditing"}
    /\ edited' = [edited EXCEPT !.value = NextSetting(@)]
    /\ UNCHANGED <<screen, route, flash, picked, behindScreen>>

\* configure_lume(): the register learns the Lume and what was written; a
\* Lume that reported no uid is not registered.
WroteOverBle ==
    /\ config' = [config EXCEPT ![edited.of] = edited.value]
    /\ Flash("Success")
    /\ IF edited.uid = NoUid
       THEN /\ UNCHANGED registerVars
            /\ standing' = [standing EXCEPT ![edited.of] = "unknown"]
       ELSE /\ Save(UpdateSnapshot(Add(register, Fresh(edited.uid, edited.key)),
                                   edited.uid, edited.value))
            /\ standing' = [standing EXCEPT ![edited.of] = "good"]

\* The connection failed, before the Lume took the settings or after.
FailedOverBle ==
    /\ \/ config' = [config EXCEPT ![edited.of] = edited.value]
       \/ UNCHANGED config
    /\ Flash("Failed")
    /\ standing' = [standing EXCEPT ![edited.of] = "unknown"]
    /\ UNCHANGED registerVars

WriteOverBle ==
    /\ screen = "Editing"
    /\ WroteOverBle \/ FailedOverBle
    /\ edited' = None
    /\ UNCHANGED <<route, picked, radioVars, ackVars, captureVars, identityVars, secret, lru,
                   air, issued, taken, confirmed, resets>>

-----------------------------------------------------------------------------
(* The paired fleet: a registered Lume is written to over ESP-NOW.         *)

ChoosePaired ==
    /\ screen = "ModeSelect"
    /\ route' = TRUE /\ picked' = 0
    /\ StartRoute
    /\ Show(IF register.entries = <<>> THEN "PairedEmpty" ELSE "PairedBrowsing")
    /\ UNCHANGED <<flash, edited, wait, registerVars, captureVars, identityVars, airVars>>

LeavePairedEmpty ==
    /\ \/ screen = "PairedEmpty" /\ Show("ModeSelect")
       \/ screen = "PairedBrowsing" /\ register.entries = <<>> /\ Show("PairedEmpty")
    /\ UNCHANGED <<route, flash, picked, edited, behindScreen>>

PickNext ==
    /\ screen = "PairedBrowsing" /\ register.entries # <<>>
    /\ picked' = (picked + 1) % Len(register.entries)
    /\ UNCHANGED <<screen, route, flash, edited, behindScreen>>

\* A plausible bug: the row number taken for the place in the register.
SelectedEntryUnsorted == register.entries[picked + 1]

\* The entry in the selected row, looked up again when Write is pressed.
SelectedEntry == register.entries[NthSorted(register, picked)]

\* The editor opens on the snapshot, or on defaults.
OpenPaired ==
    /\ screen = "PairedBrowsing" /\ register.entries # <<>>
    /\ LET e == register.entries[NthSorted(register, picked)]
       IN  edited' = [value |-> IF e.snap = NoSnapshot THEN Default ELSE e.snap,
                      uid |-> NoUid, key |-> 0, of |-> e.uid]
    /\ Show("PairedEditing")
    /\ UNCHANGED <<route, flash, picked, behindScreen>>

\* send_config_write() hands the frame to the radio: the numonce is spent, the
\* snapshot is taken whatever becomes of the frame, and the wait begins.
SendWrite(e) ==
    /\ Save(UpdateSnapshot(register, e.uid, edited.value))
    /\ issued' = Append(issued, e.uid)
    /\ air' = air \cup {WriteFrame(numonce + 1, e.uid, e.secret, edited.value,
                                   Len(issued) + 1)}
    /\ wait' = [uid |-> e.uid, num |-> numonce + 1, wid |-> Len(issued) + 1, slot |-> None]
    /\ standing' = [u \in Lumes |-> IF u = e.uid THEN "sent" ELSE standing[u]]
    /\ Show("PairedWriting")
    /\ UNCHANGED <<flash, edited>>

\* ... or cannot: the radio was never brought up, or refuses the frame.
SendRefused ==
    /\ Flash("Failed") /\ edited' = None
    /\ UNCHANGED <<registerVars, issued, air, wait, standing>>

WritePaired ==
    /\ screen = "PairedEditing"
    /\ numonce < MaxWrites /\ Len(issued) < MaxWrites
    /\ numonce' = numonce + 1
    /\ (tx # "Idle" /\ SendWrite(SelectedEntry)) \/ SendRefused
    /\ UNCHANGED <<route, picked, radioVars, ack_ring, ack_head, captureVars, lumeVars,
                   taken, confirmed, director, resets>>

\* A plausible bug: any acknowledgement of this Lume will do.
MatchesAnyOfLume(slot) == slot # None /\ slot.uid = wait.uid

Matches(slot) == slot # None /\ slot.uid = wait.uid /\ slot.num = wait.num

\* wait_for_ack() finds a slot that answers the write ...
AckFound(i) ==
    /\ wait # None /\ wait.slot = None
    /\ Matches(ack_ring[i])
    /\ \A j \in DOMAIN ack_ring : j < i => ~Matches(ack_ring[j])
    /\ wait' = [wait EXCEPT !.slot = i]
    /\ UNCHANGED <<screenVars, radioVars, registerVars, ack_ring, ack_head, captureVars,
                   identityVars, airVars>>

\* ... and invalidates it, whatever the WiFi task has put there since.
AckTaken ==
    /\ wait # None /\ wait.slot # None
    /\ ack_ring' = [ack_ring EXCEPT ![wait.slot] = None]
    /\ confirmed' = confirmed \cup {wait.wid}
    /\ standing' = [u \in Lumes |-> IF u = wait.uid /\ standing[u] = "sent"
                                    THEN "good" ELSE standing[u]]
    /\ wait' = None
    /\ Flash("Success") /\ edited' = None
    /\ UNCHANGED <<route, picked, radioVars, registerVars, ack_head, captureVars,
                   identityVars, lumeVars, air, issued, taken, resets>>

\* 1.5 s without an answer: no copy of the write is in the air any more.
AckTimeout ==
    /\ wait # None /\ wait.slot = None
    /\ wait' = None
    /\ air' = {f \in air : f.type # "write"}
    /\ Flash("PairedUnconfirmed") /\ edited' = None
    /\ UNCHANGED <<route, picked, radioVars, registerVars, ack_ring, ack_head, captureVars,
                   identityVars, lumeVars, historyVars>>

-----------------------------------------------------------------------------
(* Capture: a Lume announces itself, the WiFi task stashes the             *)
(* announcement, the main task registers it.                               *)

ChooseCapture ==
    /\ screen = "ModeSelect"
    /\ route' = TRUE /\ captured' = NoUid
    /\ StartRoute
    /\ Show("CaptureListening")
    /\ UNCHANGED <<flash, picked, edited, wait, registerVars, stash, identityVars, airVars>>

\* tick_config_lumes_capture() with something stashed.
CommitCapture ==
    /\ screen = "CaptureListening" /\ stash # None
    /\ Save(Add(register, Fresh(stash.uid, stash.key)))
    /\ stash' = None
    /\ Flash("CaptureCaptured")
    /\ UNCHANGED <<route, picked, edited, radioVars, ackVars, captured, identityVars,
                   airVars>>

\* A plausible bug: the window closes only once something was captured.
CaptureTimeoutAfterCapture ==
    screen = "CaptureListening" /\ stash = None /\ captured # NoUid /\ ExitRoute

\* The window of 15 s is over with nothing stashed.
CaptureTimeout == screen = "CaptureListening" /\ stash = None /\ ExitRoute

\* Any button cancels the window.
CaptureCancel == screen = "CaptureListening" /\ ExitRoute

CaptureAnother ==
    /\ screen = "CaptureCaptured"
    /\ Show("ModeSelect") /\ captured' = NoUid
    /\ UNCHANGED <<route, flash, picked, edited, radioVars, registerVars, ackVars, stash,
                   identityVars, airVars>>

-----------------------------------------------------------------------------
(* The Director's WiFi task.                                               *)

\* on_config_ack_received(): no lock between this and wait_for_ack().
AckArrives(f) ==
    /\ f.type = "ack" /\ callback = "config"
    /\ ack_ring' = [ack_ring EXCEPT ![ack_head] = [uid |-> f.uid, num |-> f.num]]
    /\ ack_head' = (ack_head + 1) % AckRingSize
    /\ UNCHANGED <<screenVars, wait, radioVars, registerVars, captureVars, identityVars,
                   airVars>>

\* emit_uid_announce() of a Lume in its pairing burst, received.  Only the
\* first announcement of a capture is stashed; those nobody takes are left out.
UidAnnounced(u) ==
    /\ callback = "config" /\ screen = "CaptureListening" /\ captured = NoUid
    /\ captured' = Uid(u)
    /\ stash' = [uid |-> Uid(u), key |-> secret[u]]
    /\ UNCHANGED <<screenVars, radioVars, registerVars, ackVars, identityVars, airVars>>

-----------------------------------------------------------------------------
(* A Lume.                                                                 *)

\* process_config_write() and emit_config_ack(): a write for this Lume passes
\* the replay guard before its tag is checked.
ReceiveWrite(u, f) ==
    /\ f.type = "write" /\ f.uid = Uid(u)
    /\ lru' = [lru EXCEPT ![u] = CheckAndUpdate(@, f.src, f.num)]
    /\ IF IsFresh(lru[u], f.src, f.num) /\ f.key = secret[u]
       THEN /\ config' = [config EXCEPT ![u] = f.value]
            /\ taken' = [taken EXCEPT ![u] = Append(@, f.wid)]
            /\ air' = air \cup {AckFrame(Uid(u), f.num)}
            /\ standing' = IF f.uid = u THEN standing ELSE [standing EXCEPT ![u] = "unknown"]
       ELSE UNCHANGED <<config, taken, air, standing>>
    /\ UNCHANGED <<screenVars, radioVars, registerVars, ackVars, captureVars, identityVars,
                   secret, issued, confirmed, resets>>

-----------------------------------------------------------------------------
(* Factory resets and reboots.  Each takes longer than a frame is in the   *)
(* air.                                                                    *)

\* factory_reset(): NVS is cleared, identity included; nothing reboots.
ResetLume(u) ==
    /\ resets < MaxResets /\ resets' = resets + 1
    /\ secret' = [secret EXCEPT ![u] = 0]
    /\ config' = [config EXCEPT ![u] = Settings[1]]
    /\ standing' = [standing EXCEPT ![u] = "unknown"]
    /\ air' = {}
    /\ UNCHANGED <<screenVars, radioVars, registerVars, ackVars, captureVars, identityVars,
                   lru, issued, taken, confirmed>>

\* ensure_identity(): a missing secret is drawn anew; the guard is RAM.
RebootLume(u) ==
    /\ resets < MaxResets /\ resets' = resets + 1
    /\ secret' = [secret EXCEPT ![u] = IF @ = 0 THEN resets + 2 ELSE @]
    /\ lru' = [lru EXCEPT ![u] = EmptyLru]
    /\ air' = {}
    /\ UNCHANGED <<screenVars, radioVars, registerVars, ackVars, captureVars, identityVars,
                   config, issued, taken, confirmed, standing>>

\* The Director's own reset, from its System screen: the register in RAM stays
\* and is saved again with the next change.
ResetDirector ==
    /\ screen = "Top"
    /\ resets < MaxResets /\ resets' = resets + 1
    /\ numonce' = 0 /\ director' = NoUid /\ blob' = EmptyRegister
    /\ air' = {}
    /\ UNCHANGED <<screenVars, radioVars, register, ackVars, captureVars, lumeVars,
                   issued, taken, confirmed, standing>>

RebootDirector ==
    /\ resets < MaxResets /\ resets' = resets + 1
    /\ Show("Top") /\ route' = FALSE /\ flash' = FALSE /\ picked' = 0 /\ edited' = None
    /\ tx' = "Idle" /\ callback' = "none"
    /\ register' = LoadBlob(blob)
    /\ director' = Director
    /\ ack_ring' = EmptyRing /\ ack_head' = 0 /\ wait' = None
    /\ captured' = NoUid /\ stash' = None
    /\ air' = {}
    /\ UNCHANGED <<blob, numonce, lumeVars, issued, taken, confirmed, standing>>

-----------------------------------------------------------------------------

Waiting == AckTaken \/ AckTimeout \/ \E i \in DOMAIN ack_ring : AckFound(i)

Operator ==
    \/ Enter \/ BackOut \/ ChooseLiveScan \/ Rescan \/ WriteOverBle \/ CycleValue
    \/ ChoosePaired \/ LeavePairedEmpty \/ PickNext \/ OpenPaired \/ WritePaired
    \/ ChooseCapture \/ CaptureCancel \/ CaptureAnother
    \/ \E u \in Lumes : ReadOverBle(u)

MainTask ==
    ListenEnds \/ FlashEnds \/ ScanDone \/ CommitCapture \/ CaptureTimeout \/ Waiting

WiFiTasks ==
    \/ \E f \in air : AckArrives(f) \/ \E u \in Lumes : ReceiveWrite(u, f)
    \/ \E u \in Lumes : UidAnnounced(u)

Faults ==
    \/ ResetDirector \/ RebootDirector
    \/ \E u \in Lumes : ResetLume(u) \/ RebootLume(u)

Next == Operator \/ MainTask \/ WiFiTasks \/ Faults

Spec == Init /\ [][Next]_vars

\* The main task keeps running: loop_tick() looks after the capture window,
\* wait_for_ack() returns.
FairSpec ==
    /\ Spec
    /\ WF_vars(CommitCapture \/ CaptureTimeout)
    /\ WF_vars(Waiting)

-----------------------------------------------------------------------------
(* Properties.                                                             *)

\* Types of the channel's state; who waits for whom.
TypeOK ==
    /\ tx \in {"Idle", "Listening", "Active"}
    /\ callback \in {"none", "config"}
    /\ route \in BOOLEAN /\ flash \in BOOLEAN
    /\ wait # None <=> screen = "PairedWriting"
    /\ edited # None <=> screen \in {"Editing", "PairedEditing", "PairedWriting"}
    /\ ack_head \in DOMAIN ack_ring
    /\ config \in [Lumes -> Values \cup {Default}]
    /\ Registered(register) \subseteq Lumes \cup {NoUid}
    /\ screen \in {"PairedEditing", "PairedWriting"} => picked < Len(register.entries)

\* The write the operator confirms goes to the Lume whose settings the
\* editor shows, though the row is resolved again in a register that pairing
\* and capture reorder (handle_config_lumes(), PairedEditing).
WriteGoesWhereShown ==
    wait # None => wait.uid = edited.of

\* What the paired editor shows of a Lume whose last write was reported a
\* success is what that Lume holds: the snapshot is taken before the
\* acknowledgement, copies of older writes may still be in the air, and the
\* Lume may have been rebooted or written to over BLE since.
SnapshotTrue ==
    \A i \in Places(register) :
        LET e == register.entries[i]
        IN  e.uid \in Lumes /\ e.snap # NoSnapshot
                => (standing[e.uid] = "good" => e.snap = config[e.uid])

\* The channel implements ConfigPromise: lost, repeated and late frames, a
\* burnt numonce, an acknowledgement of an older write or of another Lume, a
\* reset of either side never make a Lume go back to an older write nor the
\* screen report a write that was not applied.
Promise == INSTANCE ConfigPromise
               WITH issued <- issued, taken <- taken, confirmed <- confirmed,
                    Lumes <- Lumes, NoUid <- NoUid
KeepsPromise == Promise!PromiseSpec

\* A capture window and a wait for an acknowledgement both end, whatever
\* arrives meanwhile.
BlockedScreensEnd ==
    screen \in {"CaptureListening", "PairedWriting"}
        ~> screen \notin {"CaptureListening", "PairedWriting"}

\* "Any button returns to ModeSelect so the operator can capture another
\* device or move on" (config_mode.cpp:2466): a running capture ends with a
\* capture, its timeout or a button, not by a timer another screen left
\* behind.
CaptureUndisturbed ==
    [][screen = "CaptureListening" => screen' # "PairedBrowsing"]_vars
=============================================================================
