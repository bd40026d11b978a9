----------------------------- MODULE EthernetDmx -----------------------------
(***************************************************************************)
(* What the headless DMX Director makes of the bytes it is sent.           *)
(*                                                                         *)
(* The Enttec Pro parser, dmx_input_parser.cpp, eats the serial line byte  *)
(* by byte; a frame is start, label, length (two bytes), payload, end.     *)
(* There is one payload buffer: the next frame is written over the last    *)
(* one while it arrives, and last_label_ and last_payload_len_ describe    *)
(* the last frame until the next one is whole.                             *)
(*                                                                         *)
(* The Ethernet side, src/src/dal/drivers/ethernet_dmx_adapter.cpp, has    *)
(* two sockets.  Each packet it takes is wrapped as an Enttec frame and    *)
(* fed to the same parser.  A packet is [fault, count, channels]: the      *)
(* first check of its header it would fail, or "none"; the channels its    *)
(* header claims; those it has.                                            *)
(***************************************************************************)
EXTENDS Naturals, Sequences

CONSTANTS
    PayloadBufSize,     \* kPayloadBufSize: 600
    MaxChannels         \* kMaxChannels: 512

ASSUME ParserAssumption == PayloadBufSize \in Nat \ {0}

ASSUME EthernetAssumption == MaxChannels \in Nat /\ MaxChannels < PayloadBufSize

StartByte == 126            \* kStartByte, 0x7E
EndByte == 231              \* kEndByte, 0xE7
LabelSendDmx == 6           \* kLabelOutputOnlySendDmx
LabelEspNow == 16           \* kLabelEspNowBroadcast

NewParser ==
    [state |-> "WaitStart", label |-> 0, len |-> 0, read |-> 0,
     last_label |-> 0, last_len |-> 0, buf |-> [i \in 1 .. PayloadBufSize |-> 0]]

\* The current frame is forgotten; last_* and the buffer are not.
Restarted(p, state) == [p EXCEPT !.state = state, !.label = 0, !.len = 0, !.read = 0]

\* reset(): at the start of every session.
ParserReset(p) == Restarted(p, "WaitStart")

\* reset_to_wait_start(): a start byte that breaks a frame begins the next.
Resynced(p, b) == Restarted(p, IF b = StartByte THEN "ReadLabel" ELSE "WaitStart")

LengthRead(p, b) ==
    LET len == p.len + 256 * b
    IN  IF len > PayloadBufSize
        THEN Resynced(p, 0)
        ELSE [p EXCEPT !.len = len, !.read = 0,
                       !.state = IF len = 0 THEN "ReadEnd" ELSE "ReadData"]

DataRead(p, b) ==
    [p EXCEPT !.buf[p.read + 1] = b, !.read = @ + 1,
              !.state = IF p.read + 1 >= p.len THEN "ReadEnd" ELSE "ReadData"]

Completes(p, b) == p.state = "ReadEnd" /\ b = EndByte

\* feed_byte()
Fed(p, b) ==
    CASE p.state = "WaitStart" ->
            IF b = StartByte THEN [p EXCEPT !.state = "ReadLabel"] ELSE p
      [] p.state = "ReadLabel" -> [p EXCEPT !.label = b, !.state = "ReadLenLo"]
      [] p.state = "ReadLenLo" -> [p EXCEPT !.len = b, !.state = "ReadLenHi"]
      [] p.state = "ReadLenHi" -> LengthRead(p, b)
      [] p.state = "ReadData" -> DataRead(p, b)
      [] Completes(p, b) ->
            Restarted([p EXCEPT !.last_label = p.label, !.last_len = p.len], "WaitStart")
      [] OTHER -> Resynced(p, b)

LastWasDmxPacket(p) ==
    p.last_label = LabelSendDmx /\ p.last_len >= 1 /\ p.buf[1] = 0

\* copy_dmx_channels(): what follows the start code, as long as last_len says.
DmxChannels(p) == SubSeq(p.buf, 2, p.last_len)

-----------------------------------------------------------------------------
(* The two sockets.                                                        *)

Protocols == {"artnet", "sacn"}

\* begin(): both sockets open, nothing received, whichever way the address was
\* come by.
OpenSockets == [p \in Protocols |-> <<>>]

\* The header of an Art-Net packet: its length, id, opcode and universe.  A
\* claim of more channels than were received is cut down to those.
ArtnetChannels(packet) ==
    IF packet.fault \in {"short", "id", "opcode", "universe"} THEN <<>>
    ELSE SubSeq(packet.channels, 1,
                IF packet.count > Len(packet.channels) THEN Len(packet.channels) ELSE packet.count)

\* Of an sACN packet: its length, id, universe and DMX start code; its count
\* includes that code.
SacnChannels(packet) ==
    IF packet.fault \in {"short", "id", "universe", "start code"} THEN <<>>
    ELSE SubSeq(packet.channels, 1,
                IF packet.count > Len(packet.channels) THEN Len(packet.channels)
                ELSE IF packet.count > 0 THEN packet.count - 1 ELSE 0)

ChannelsOf(protocol, packet) ==
    IF protocol = "artnet" THEN ArtnetChannels(packet) ELSE SacnChannels(packet)

\* A plausible bug: the length leaves out the start code, so that the last
\* channel stands where the parser looks for the end of the frame.
WrappedShort(channels) ==
    <<StartByte, LabelSendDmx, Len(channels) % 256, Len(channels) \div 256, 0>>
        \o channels \o <<EndByte>>

\* The Enttec frame feed_universe() writes, start code first.
Wrapped(channels) ==
    LET len == Len(channels) + 1
    IN  <<StartByte, LabelSendDmx, len % 256, len \div 256, 0>> \o channels \o <<EndByte>>

\* The parser after the bytes of a frame, one after the other.
FedAll(p, bytes) ==
    LET after[i \in 0 .. Len(bytes)] ==
            IF i = 0 THEN p ELSE CHOOSE q \in {Fed(r, bytes[i]) : r \in {after[i - 1]}} : TRUE
    IN  after[Len(bytes)]

\* feed_universe()
FeedUniverse(p, channels) ==
    FedAll(p, Wrapped(SubSeq(channels, 1,
        IF Len(channels) > MaxChannels THEN MaxChannels ELSE Len(channels))))
=============================================================================
