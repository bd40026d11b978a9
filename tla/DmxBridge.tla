------------------------------ MODULE DmxBridge ------------------------------
(***************************************************************************)
(* The DMX bridge: dmx_bridge_mode.cpp over the USB-CDC adapter of a Stick *)
(* or the Ethernet adapter of a headless Director.  A console streams      *)
(* universes, and over USB display cues between them; on each pass of the  *)
(* loop the mode drains what has arrived, hands every cue to the radio as  *)
(* it is parsed, and then runs the mappers over the last universe.  The    *)
(* line may lose bytes (its buffer overflows), the loop cuts frames        *)
(* anywhere, packets of others reach the sockets, and the operator leaves  *)
(* and enters the mode.                                                    *)
(*                                                                         *)
(* The mode never looks at what the radio makes of an event, so the model  *)
(* ends at the sink: EspNowBroadcastDriver goes on from there, and Stage   *)
(* with the outputs of this device.  One byte of payload stands for a block*)
(* (see Looks); the cues are numbered.                                     *)
(***************************************************************************)
EXTENDS EthernetDmx, DmxChannelMapper, FiniteSets

CONSTANTS
    Looks,      \* what a byte that stands for a block says: byte -> channels
    Universes,  \* the universes the console may show: one byte per block
    FirstUniverse,  \* the one it shows at first
    MaxLine,    \* bytes the serial buffer holds
    MaxPackets, \* packets the buffer of a socket holds
    MaxCues,    \* bound: display cues of a session
    MaxUpsets   \* bound: changes of look, lost bytes and entries of the mode

ASSUME BridgeAssumption ==
    /\ FirstUniverse \in Universes /\ Universes \subseteq Seq(0 .. 255)
    /\ \A u \in Universes : Len(u) = Len(FirstUniverse)
    /\ Len(FirstUniverse) \in 1 .. MaxChannels
    /\ 0 \in DOMAIN Looks /\ \A byte \in DOMAIN Looks : Looks[byte].trigger \in 0 .. 255
    /\ {MaxLine, MaxPackets, MaxCues, MaxUpsets} \subseteq Nat

VARIABLES
    bridge,     \* [wire, active_, seen]: which adapter was built in; the mode;
                \* seen: last_frame_seen_ms_ is not 0
    parser_,    \* the adapter's parser
    mapper,     \* one mapper per block
    line,       \* the bytes in the serial buffer
    sockets,    \* the packets in the receive buffers of the two sockets
    console,    \* [universe, cues, speaks]: what the console shows and has sent,
                \* and over which protocol
    upset,      \* [count, intact]: intact while no byte of the session was lost
    sent        \* history, per session: [cues, wash, owed]

dmxVars == <<bridge, parser_, mapper, line, sockets, console, upset, sent>>

Blocks == 1 .. Len(FirstUniverse)

\* Bytes that are no look (a frame cut short leaves them in the buffer) are dark.
LookOf(byte) == IF byte \in DOMAIN Looks THEN Looks[byte] ELSE Looks[0]

UniverseFrame(u) ==
    LET len == Len(u) + 1
    IN  <<StartByte, LabelSendDmx, len % 256, len \div 256, 0>> \o u \o <<EndByte>>

\* An ESP-NOW frame: its magic byte and the number of the cue.
Magic == 78
CueFrame(k) == <<StartByte, LabelEspNow, 2, 0, Magic, k, EndByte>>

FreshSession ==
    [cues |-> <<>>, wash |-> [b \in Blocks |-> NoWash], owed |-> [b \in Blocks |-> 1]]

DmxInit ==
    /\ \E w \in {"usb", "ethernet"} : bridge = [wire |-> w, active_ |-> FALSE, seen |-> FALSE]
    /\ parser_ = NewParser
    /\ mapper = [b \in Blocks |-> NewMapper]
    /\ line = <<>>
    /\ sockets = OpenSockets
    /\ \E p \in (IF bridge.wire = "usb" THEN {"artnet"} ELSE Protocols) :
          console = [universe |-> FirstUniverse, cues |-> 0, speaks |-> p]
    /\ upset = [count |-> 0, intact |-> TRUE]
    /\ sent = FreshSession

-----------------------------------------------------------------------------
(* The console and its line.                                               *)

Triggered(byte) == LookOf(byte).trigger >= Threshold

Upset(intact) ==
    /\ upset.count < MaxUpsets
    /\ upset' = [count |-> upset.count + 1, intact |-> intact]

\* The operator of the console goes to another look.
ChangeLook ==
    /\ Upset(upset.intact)
    /\ \E u \in Universes \ {console.universe} :
          /\ console' = [console EXCEPT !.universe = u]
          /\ sent' = [sent EXCEPT !.owed = [b \in Blocks |->
                IF Triggered(u[b]) /\ ~Triggered(console.universe[b])
                THEN @[b] + 1 ELSE @[b]]]
    /\ UNCHANGED <<bridge, parser_, mapper, line, sockets>>

\* Outside the mode the port is the console of the device and nothing is kept.
Arrives(frame) ==
    /\ bridge.active_ /\ bridge.wire = "usb"
    /\ Len(line) + Len(frame) <= MaxLine
    /\ line' = line \o frame

SendUniverse ==
    /\ Arrives(UniverseFrame(console.universe))
    /\ UNCHANGED <<bridge, parser_, mapper, sockets, console, upset, sent>>

SendCue ==
    /\ console.cues < MaxCues
    /\ Arrives(CueFrame(console.cues + 1))
    /\ console' = [console EXCEPT !.cues = @ + 1]
    /\ UNCHANGED <<bridge, parser_, mapper, sockets, upset, sent>>

\* The buffer was full when the next byte came.
LoseByte ==
    /\ Upset(FALSE)
    /\ line # <<>>
    /\ line' = Tail(line)
    /\ UNCHANGED <<bridge, parser_, mapper, sockets, console, sent>>

\* A packet reaches its socket.
Delivered(protocol, packet) ==
    /\ bridge.active_ /\ bridge.wire = "ethernet"
    /\ Len(sockets[protocol]) < MaxPackets
    /\ sockets' = [sockets EXCEPT ![protocol] = Append(@, packet)]
    /\ UNCHANGED <<bridge, parser_, mapper, line, console, sent>>

UniversePacket(u, protocol) ==
    [fault |-> "none", channels |-> u, count |-> IF protocol = "sacn" THEN Len(u) + 1 ELSE Len(u)]

SendPacket ==
    /\ Delivered(console.speaks, UniversePacket(console.universe, console.speaks))
    /\ UNCHANGED upset

\* What else is on the network: packets of other senders, and the console's
\* with a count that is not that of its channels.
StrayPacket ==
    /\ Upset(upset.intact)
    /\ \E protocol \in Protocols, u \in Universes :
          \E fault \in {"universe", IF protocol = "sacn" THEN "start code" ELSE "opcode"} :
             Delivered(protocol, [UniversePacket(u, protocol) EXCEPT !.fault = fault])

MiscountedPacket ==
    /\ Upset(upset.intact)
    /\ \E n \in {0, 1, Len(console.universe) + 2}, more \in {<<>>, <<0>>} :
          Delivered(console.speaks, [fault |-> "none", count |-> n,
                                     channels |-> console.universe \o more])

-----------------------------------------------------------------------------
(* The mode.                                                               *)

\* enter(): the mappers start afresh; the port is reopened empty; the parser
\* keeps the last frame of the session before.
EnterBridge ==
    /\ ~bridge.active_
    /\ Upset(TRUE)
    /\ bridge' = [bridge EXCEPT !.active_ = TRUE, !.seen = FALSE]
    /\ mapper' = [b \in Blocks |-> NewMapper]
    /\ parser_' = ParserReset(parser_)
    /\ line' = <<>>
    /\ sockets' = OpenSockets
    /\ console' = [console EXCEPT !.cues = 0]
    /\ sent' = FreshSession

\* exit(): one end for the washes of all groups, and the port is closed.  The
\* headless Director has no other mode.
ExitBridge ==
    /\ bridge.active_ /\ bridge.wire = "usb"
    /\ bridge' = [bridge EXCEPT !.active_ = FALSE]
    /\ line' = <<>>
    /\ sent' = [sent EXCEPT !.wash = [b \in Blocks |-> NoWash]]
    /\ UNCHANGED <<parser_, mapper, sockets, console, upset>>

\* A plausible bug: a cue is looked for when the drain is over, so that the
\* last frame of a drain wins.
HandedAfterDrain(p) ==
    IF Len(line) = 1 /\ ~LastWasDmxPacket(p) /\ p.last_label = LabelEspNow
    THEN <<p.buf[2]>> ELSE <<>>

\* on_parsed_frame(), called for a frame before the next byte is fed: a cue
\* goes to the radio, a universe waits for the end of the drain.
Handed(p) ==
    IF ~LastWasDmxPacket(p) /\ p.last_label = LabelEspNow THEN <<p.buf[2]>> ELSE <<>>

\* One turn of the loop of poll(): the pass of loop_tick() it belongs to ends
\* with RunMappers, after any number of them.
PollByte ==
    /\ bridge.active_ /\ line # <<>>
    /\ LET p == Fed(parser_, Head(line))
       IN  /\ parser_' = p
           /\ sent' = [sent EXCEPT !.cues =
                 @ \o (IF Completes(parser_, Head(line)) THEN Handed(p) ELSE <<>>)]
    /\ line' = Tail(line)
    /\ bridge' = [bridge EXCEPT !.seen = TRUE]
    /\ UNCHANGED <<mapper, sockets, console, upset>>

\* One turn of a loop of EthernetDmxAdapter::poll(): Art-Net is drained first.
\* There are no cues on this wire.
PollPacket(protocol) ==
    /\ bridge.active_ /\ sockets[protocol] # <<>>
    /\ protocol = "sacn" => sockets["artnet"] = <<>>
    /\ LET channels == ChannelsOf(protocol, Head(sockets[protocol]))
       IN  IF channels = <<>> THEN UNCHANGED <<parser_, bridge>>
           ELSE /\ parser_' = FeedUniverse(parser_, channels)
                /\ bridge' = [bridge EXCEPT !.seen = TRUE]
    /\ sockets' = [sockets EXCEPT ![protocol] = Tail(@)]
    /\ UNCHANGED <<mapper, line, console, upset, sent>>

\* What the mapper of block b does, `units' after its last pass: nothing when
\* the last universe does not reach that far.
MapperStep(b, units) ==
    LET m == Aged(mapper[b], units)
        channels == DmxChannels(parser_)
    IN  IF bridge.seen /\ LastWasDmxPacket(parser_) /\ b <= Len(channels)
        THEN Processed(m, LookOf(channels[b]))
        ELSE [m |-> m, events |-> <<>>]

\* What the sink was told of a kind, by its place among the events of a step.
EventsOf(events, kind) == {i \in DOMAIN events : events[i].kind = kind}

\* The end of a pass of loop_tick(): run_mappers(), whenever data has been
\* seen and the last frame was a universe, new bytes or not.
RunMappers(units) ==
    /\ bridge.active_
    /\ \E steps \in {[b \in Blocks |-> MapperStep(b, units)]} :
          /\ mapper' = [b \in Blocks |-> steps[b].m]
          /\ sent' = [sent EXCEPT
                !.wash = [b \in Blocks |->
                    IF EventsOf(steps[b].events, "wash") = {} THEN @[b]
                    ELSE steps[b].events[CHOOSE i \in EventsOf(steps[b].events, "wash") : TRUE]],
                !.owed = [b \in Blocks |->
                    @[b] - Cardinality(EventsOf(steps[b].events, "pulse"))]]
    /\ UNCHANGED <<bridge, parser_, line, sockets, console, upset>>

DmxNext ==
    \/ ChangeLook
    \/ SendUniverse
    \/ SendCue
    \/ LoseByte
    \/ SendPacket \/ StrayPacket \/ MiscountedPacket
    \/ EnterBridge
    \/ ExitBridge
    \/ PollByte
    \/ \E protocol \in Protocols : PollPacket(protocol)
    \/ \E units \in 0 .. 1 : RunMappers(units)

DmxSpec == DmxInit /\ [][DmxNext]_dmxVars

\* The console streams without a pause; the loop keeps coming round, drains
\* all that has arrived, and time passes.
DmxFairness ==
    /\ WF_dmxVars(SendUniverse) /\ WF_dmxVars(SendPacket)
    /\ WF_dmxVars(PollByte) /\ WF_dmxVars(\E protocol \in Protocols : PollPacket(protocol))
    /\ WF_dmxVars(RunMappers(1))

-----------------------------------------------------------------------------
\* "EVERY frame matters": the cues reach the radio in the order they were
\* sent, none twice, and once the line is drained none is missing, however
\* the loop cuts the stream and whatever universes lie between them.
PassthroughKept ==
    upset.intact =>
        /\ sent.cues = [i \in DOMAIN sent.cues |-> i]
        /\ bridge.active_ /\ line = <<>> /\ parser_.state = "WaitStart" =>
              Len(sent.cues) = console.cues

\* A steady console is followed: in the end the last wash of every block is
\* the one its look asks for, through the debounces, in and out of raw mode,
\* after lost bytes, after a change that came too soon and after packets of
\* others or with a wrong count.
ConsoleFollowed ==
    <>[](bridge.active_ =>
            \A b \in Blocks : sent.wash[b] = WashAsked(LookOf(console.universe[b])))

\* A trigger held high fires once, however often the loop runs the mappers
\* over the same universe or over one that is half replaced: a block fires
\* no oftener than its trigger rose, plus once for the look found on entry.
HeldTriggerFiresOnce ==
    upset.intact => \A b \in Blocks : sent.owed[b] >= 0

\* dmx_channel_mapper.h calls four pulses a second a safety floor: two strobe
\* pulses of a block are MinStrobeInterval apart.  Each change of the rate
\* channel fires at once, so a fader that moves does not keep to it.
SinceStrobe(m) == StrobeInterval(m.rate) - m.deadline

StrobeFloorKept ==
    [][\A b \in Blocks :
          /\ mapper[b].rate # 0
          /\ mapper'[b].rate \notin {0, mapper[b].rate}
          => SinceStrobe(mapper[b]) + 1 >= MinStrobeInterval]_dmxVars
=============================================================================
