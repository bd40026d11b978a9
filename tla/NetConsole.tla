----------------------------- MODULE NetConsole -----------------------------
(***************************************************************************)
(* The headless DMX Director's console: net_config.cpp, its USB and its    *)
(* network session, what it keeps in NVS, and the ESP-NOW driver that it   *)
(* stops and starts under the DMX bridge, the only mode of that build.     *)
(*                                                                         *)
(* Everything runs on the main task: a step is one visit of service_usb()  *)
(* or of service_tcp().  A line is the set of the clients that typed it    *)
(* until it ends, when it turns out to be any command.  What a command     *)
(* prints, `show', `help' and `irtest' are left out, and so is the wrap of *)
(* the clock.                                                              *)
(***************************************************************************)
EXTENDS Naturals, FiniteSets

CONSTANTS
    Passwords,          \* passwords that may be set
    NoPassword,
    CommunityIds, PerfIds,   \* Director IDs of channels 1 and 11
    MacId,              \* the one of channel 6
    Addresses,          \* values of ip, mask and gw, and universes
    IdleTimeout,        \* kIdleMs
    Lockout,            \* kLockoutMs
    MaxClients,         \* bound: connections
    MaxCommands         \* bound: commands that change something, and reboots

VARIABLES
    flash,        \* [net, pass, ids]: "noctnet" and the two persisted Director IDs
    cfg,        \* s_cfg
    pass,       \* s_pass
    usb,        \* [host, seen, typed, mon]: was_connected, len > 0
    tcp,        \* [state, client, there, line, mon, idle]
    lockout,    \* s_lockout_until - now
    clients,    \* connections so far
    air,        \* the driver: [state, channel, id]
    commands

netVars == <<flash, cfg, pass, usb, tcp, lockout, clients, air, commands>>

FleetChannels == {1, 6, 11}

FreshUsb(host) == [host |-> host, seen |-> FALSE, typed |-> FALSE, mon |-> FALSE]

ClosedTcp ==
    [state |-> "closed", client |-> 0, there |-> FALSE, line |-> {}, mon |-> FALSE, idle |-> 0]

\* derive_source_id() and the candidate of the listening window.
IdOf(ids, channel) ==
    CASE channel = 1 -> ids.community [] channel = 6 -> MacId [] channel = 11 -> ids.performance

\* start_broadcast() on a stopped driver: it listens first on channel 11, and
\* the radio may refuse.
Started(ids, channel) ==
    {[state |-> IF channel = 11 THEN "listening" ELSE "active",
      channel |-> channel, id |-> IdOf(ids, channel)],
     [state |-> "idle", channel |-> channel, id |-> MacId]}

\* Power: the bridge starts the driver, the first poll loads the rest.
Boot(stored, host) ==
    /\ cfg' = stored.net /\ pass' = stored.pass
    /\ usb' = FreshUsb(host) /\ tcp' = ClosedTcp /\ lockout' = 0
    /\ air' \in Started(stored.ids, stored.net.channel)

NetInit ==
    /\ \E a \in Addresses, p \in Passwords \cup {NoPassword},
          i \in CommunityIds, j \in PerfIds :
          flash = [net |-> [dhcp |-> TRUE, ip |-> a, mask |-> a, gw |-> a, universe |-> a,
                          channel |-> 1],
                 pass |-> p, ids |-> [community |-> i, performance |-> j]]
    /\ cfg = flash.net /\ pass = flash.pass
    /\ usb = FreshUsb(FALSE) /\ tcp = ClosedTcp /\ lockout = 0 /\ clients = 0
    /\ air \in Started(flash.ids, 1)
    /\ commands = 0

-----------------------------------------------------------------------------
(* handle(): one command.                                                  *)

Restarts(ids, channel) == air' \in Started(ids, channel)

\* A plausible bug: the channel waits for `save', as an address does.
SetChannelUnsaved ==
    \E channel \in FleetChannels :
       /\ cfg' = [cfg EXCEPT !.channel = channel]
       /\ Restarts(flash.ids, channel)
       /\ UNCHANGED <<flash, pass>>

\* Saved at once, and applied live.
SetChannel ==
    \E channel \in FleetChannels :
       /\ cfg' = [cfg EXCEPT !.channel = channel]
       /\ flash' = [flash EXCEPT !.net.channel = channel]
       /\ Restarts(flash.ids, channel)
       /\ UNCHANGED pass

WithId(channel, id) ==
    IF channel = 1 THEN [flash.ids EXCEPT !.community = id]
                   ELSE [flash.ids EXCEPT !.performance = id]

\* The channel's own range; channel 6 has none to set.
SetDirId ==
    /\ cfg.channel # 6
    /\ \E id \in IF cfg.channel = 1 THEN CommunityIds ELSE PerfIds :
          LET ids == WithId(cfg.channel, id)
          IN  /\ flash' = [flash EXCEPT !.ids = ids]
              /\ Restarts(ids, cfg.channel)
    /\ UNCHANGED <<cfg, pass>>

\* The address is parsed in place: a bad mask or gateway leaves what came
\* before it overwritten.
ParsedStatic(address, good) ==
    [cfg EXCEPT !.ip = IF good >= 1 THEN address ELSE @,
                !.mask = IF good >= 2 THEN address ELSE @,
                !.gw = IF good = 3 THEN address ELSE @,
                !.dhcp = IF good = 3 THEN FALSE ELSE @]

SetNetwork ==
    /\ \/ cfg' = [cfg EXCEPT !.dhcp = TRUE]
       \/ \E address \in Addresses, good \in 0 .. 3 : cfg' = ParsedStatic(address, good)
       \/ \E universe \in Addresses : cfg' = [cfg EXCEPT !.universe = universe]
    /\ UNCHANGED <<flash, pass, air>>

\* net_config_save()
SaveConfig ==
    /\ flash' = [flash EXCEPT !.net = cfg]
    /\ UNCHANGED <<cfg, pass, air>>

SetPassword ==
    /\ \E p \in Passwords : pass' = p /\ flash' = [flash EXCEPT !.pass = p]
    /\ UNCHANGED <<cfg, air>>

\* A command that leaves the sessions alone.
Configure == SetChannel \/ SetDirId \/ SetNetwork \/ SaveConfig \/ SetPassword

\* netpass off: the client is stopped and its state closed; its line and its
\* live view stay as they are.
ClearPassword ==
    /\ pass' = NoPassword /\ flash' = [flash EXCEPT !.pass = NoPassword]
    /\ UNCHANGED <<cfg, air>>

Silenced(session) == [session EXCEPT !.state = "closed", !.there = FALSE]

Counted == commands < MaxCommands /\ commands' = commands + 1

-----------------------------------------------------------------------------
(* service_usb()                                                           *)

\* A cable is plugged or pulled; a pulled one is seen by the next visit.
UsbCable ==
    /\ usb' = IF usb.host THEN [usb EXCEPT !.host = FALSE, !.seen = FALSE, !.mon = FALSE]
                          ELSE [usb EXCEPT !.host = TRUE]
    /\ UNCHANGED <<flash, cfg, pass, tcp, lockout, clients, air, commands>>

Greeted == IF usb.seen THEN usb ELSE [usb EXCEPT !.seen = TRUE, !.typed = FALSE, !.mon = FALSE]

\* A key stops the live view and is lost; otherwise it goes into the line.
UsbKey ==
    /\ usb.host
    /\ usb' = IF Greeted.mon THEN [Greeted EXCEPT !.mon = FALSE]
                             ELSE [Greeted EXCEPT !.typed = TRUE]
    /\ UNCHANGED <<flash, cfg, pass, tcp, lockout, clients, air, commands>>

UsbLine ==
    /\ usb.host /\ usb.seen /\ usb.typed /\ ~usb.mon
    /\ \/ /\ Configure /\ Counted
          /\ usb' = [usb EXCEPT !.typed = FALSE] /\ UNCHANGED tcp
       \/ /\ ClearPassword /\ Counted
          /\ usb' = [usb EXCEPT !.typed = FALSE] /\ tcp' = Silenced(tcp)
       \/ /\ usb' = [usb EXCEPT !.typed = FALSE, !.mon = TRUE]
          /\ UNCHANGED <<flash, cfg, pass, air, tcp, commands>>
    /\ UNCHANGED <<lockout, clients>>

-----------------------------------------------------------------------------
(* service_tcp(): nothing while no password is set.                        *)

\* A dropped or idle session is torn down before anything else.
Torn ==
    IF tcp.state # "closed" /\ (~tcp.there \/ tcp.idle > IdleTimeout) THEN ClosedTcp ELSE tcp

\* A plausible bug: the line is left to close_tcp() to clear.
WelcomedAsLeft(client) ==
    [tcp EXCEPT !.state = "auth", !.client = client, !.there = TRUE, !.mon = FALSE, !.idle = 0]

Welcomed(client) ==
    [state |-> "auth", client |-> client, there |-> TRUE, line |-> {}, mon |-> FALSE, idle |-> 0]

\* Closed: nobody waits, or a client that is turned away while locked out.
TcpClosed ==
    /\ pass # NoPassword /\ Torn.state = "closed"
    /\ \/ tcp' = Torn /\ tcp # Torn /\ UNCHANGED clients
       \/ /\ clients < MaxClients /\ clients' = clients + 1
          /\ tcp' = IF lockout > 0 THEN Torn ELSE Welcomed(clients + 1)
    /\ UNCHANGED <<flash, cfg, pass, usb, lockout, air, commands>>

Active(state) == pass # NoPassword /\ Torn.state = state

TcpKey ==
    /\ \/ Active("auth") \/ Active("open")
    /\ tcp' = IF tcp.mon THEN [tcp EXCEPT !.mon = FALSE, !.idle = 0]
              ELSE [tcp EXCEPT !.line = @ \cup {tcp.client}, !.idle = 0]
    /\ UNCHANGED <<flash, cfg, pass, usb, lockout, clients, air, commands>>

\* The password line: the session opens, or is closed and the door locked.
TcpPassword ==
    /\ Active("auth") /\ tcp.line # {}
    /\ \/ /\ tcp' = [tcp EXCEPT !.state = "open", !.line = {}, !.idle = 0]
          /\ UNCHANGED lockout
       \/ /\ tcp' = [Silenced(tcp) EXCEPT !.line = {}]
          /\ lockout' = Lockout
    /\ UNCHANGED <<flash, cfg, pass, usb, clients, air, commands>>

TcpLine ==
    /\ Active("open") /\ tcp.line # {} /\ ~tcp.mon
    /\ LET ended == [tcp EXCEPT !.line = {}, !.idle = 0]
       IN  \/ Configure /\ Counted /\ tcp' = ended
           \/ ClearPassword /\ Counted /\ tcp' = Silenced(ended)
           \/ tcp' = [ended EXCEPT !.mon = TRUE] /\ UNCHANGED <<flash, cfg, pass, air, commands>>
    /\ UNCHANGED <<usb, lockout, clients>>

-----------------------------------------------------------------------------
(* The rest of the device and of the world.                                *)

ClientLeaves ==
    /\ tcp.state # "closed" /\ tcp.there
    /\ tcp' = [tcp EXCEPT !.there = FALSE]
    /\ UNCHANGED <<flash, cfg, pass, usb, lockout, clients, air, commands>>

NetClock ==
    /\ lockout' = IF lockout > 0 THEN lockout - 1 ELSE 0
    /\ tcp' = IF tcp.state = "closed" \/ tcp.idle > IdleTimeout THEN tcp
              ELSE [tcp EXCEPT !.idle = @ + 1]
    /\ UNCHANGED <<flash, cfg, pass, usb, clients, air, commands>>

\* listen_tick(): a collision rolls another id and keeps it; silence settles.
ListenStep ==
    /\ air.state = "listening"
    /\ \/ air' = [air EXCEPT !.state = "active"] /\ UNCHANGED flash
       \/ \E id \in PerfIds :
             /\ air' = [air EXCEPT !.id = id]
             /\ flash' = [flash EXCEPT !.ids.performance = id]
    /\ UNCHANGED <<cfg, pass, usb, tcp, lockout, clients, commands>>

\* `reboot', or a power cut at any point.
Reboot ==
    /\ Counted /\ Boot(flash, usb.host)
    /\ UNCHANGED <<flash, clients>>

NetNext ==
    \/ UsbCable \/ UsbKey \/ UsbLine
    \/ TcpClosed \/ TcpKey \/ TcpPassword \/ TcpLine
    \/ ClientLeaves \/ NetClock \/ ListenStep \/ Reboot

NetSpec == NetInit /\ [][NetNext]_netVars

-----------------------------------------------------------------------------
\* A line of the network session is the work of one client: a command is never
\* made of what one client left and what the next one typed, whoever closed the
\* session in between (service_tcp(), clear_password()).
OneClientPerLine ==
    tcp.state # "closed" => tcp.line \subseteq {tcp.client}

\* What is on the air is what the next boot will put on the air: the channel
\* and the Director ID of a running driver are the ones in NVS, through
\* commands of both sessions, a refused start, an id rolled again and power
\* cuts (handle()'s channel and dirid, listen_tick()).
SavedIsLive ==
    /\ cfg.channel = flash.net.channel
    /\ air.state # "idle" =>
          air.channel = flash.net.channel /\ air.id = IdOf(flash.ids, air.channel)
=============================================================================
