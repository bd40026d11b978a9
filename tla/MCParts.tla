------------------------------ MODULE MCParts ------------------------------
(***************************************************************************)
(* Five parts that share no state, each checked on its own: the lock and   *)
(* the deduplication ring of a receiver, the DMX bridge, the LED strip and *)
(* the IR relay.                                                           *)
(* A behaviour is a behaviour of the part chosen at its start, beside the  *)
(* initial states of the others.                                           *)
(*                                                                         *)
(* The lock: two performance Directors and a community one on channels 6   *)
(* and 11.  The ring: three entries, copies that lag by one frame, past    *)
(* the wrap of the sequence number.  The bridge: two blocks, looks with a  *)
(* trigger, raw colour, strobe rates; the line holds a universe and the    *)
(* tail of a frame before it, a socket two packets.  The strip: two pixels,*)
(* a pulse with an attack and one of no length, a wash with a time to live *)
(* and one without.                                                        *)
(* The relay, in seconds: a drifting wash, a static one and the all-zero   *)
(* one, a sparkle and a long pulse.                                        *)
(***************************************************************************)
EXTENDS TofuLock, DedupStream, DmxBridge, LedStrip, PixMobIR

CONSTANTS p1, p2, c1

VARIABLE part

MCPerformanceIds == {p1, p2}
MCSourceIds == {p1, p2, c1}

Channels27(master, trigger, rate, wash, raw, raw_enable) ==
    [master |-> master, rate |-> rate, pulse |-> 255, trigger |-> trigger,
     envelope |-> 64, probability |-> 255, wash |-> wash, shape |-> "hold",
     wash_intensity |-> 128, raw |-> raw, raw_enable |-> raw_enable]

\* Dark; a wash and a trigger; raw, dimmed to the floor, with the trigger up;
\* two washes with a strobe.
MCLooks ==
    [byte \in 0 .. 4 |->
        CASE byte = 0 -> Channels27(0, 0, 0, 0, 0, 0)
          [] byte = 1 -> Channels27(255, 200, 0, 40, 0, 0)
          [] byte = 2 -> Channels27(50, 200, 0, 40, 5, 255)
          [] byte = 3 -> Channels27(255, 0, 255, 40, 9, 0)
          [] byte = 4 -> Channels27(255, 0, 128, 90, 9, 0)]

MCFirstUniverse == <<0, 0>>
MCUniverses == {<<0, 0>>, <<1, 0>>, <<2, 1>>, <<3, 4>>, <<4, 0>>}

MCPulses ==
    {[colour |-> "red", attack |-> 1, total |-> 2],
     [colour |-> "blue", attack |-> 0, total |-> 0]}
MCWashes ==
    {[colour |-> "amber", ttl |-> 2, release |-> 1],
     [colour |-> "green", ttl |-> 0, release |-> 0]}

MCIrWashes ==
    {[colour |-> "drift", cycle |-> 40], [colour |-> "static", cycle |-> 0],
     [colour |-> NoLight, cycle |-> 0]}

\* Three entries are just enough for this stream.
ASSUME StreamFits == RingFitsTheStream

-----------------------------------------------------------------------------
PartsInit ==
    /\ part \in {"lock", "ring", "bridge", "strip", "relay"}
    /\ TofuInit /\ StreamInit /\ DmxInit /\ StripInit /\ IrInit
    /\ part # "bridge" => bridge.wire = "usb"

PartsNext ==
    \/ part = "lock" /\ TofuNext /\ UNCHANGED <<part, streamVars, dmxVars, stripVars, irVars>>
    \/ part = "ring" /\ StreamNext /\ UNCHANGED <<part, tofuVars, dmxVars, stripVars, irVars>>
    \/ part = "bridge" /\ DmxNext /\ UNCHANGED <<part, tofuVars, streamVars, stripVars, irVars>>
    \/ part = "strip" /\ StripNext /\ UNCHANGED <<part, tofuVars, streamVars, dmxVars, irVars>>
    \/ /\ part = "relay" /\ IrNext
       /\ UNCHANGED <<part, tofuVars, streamVars, dmxVars, stripVars>>

partsVars == <<part, tofuVars, streamVars, dmxVars, stripVars, irVars>>

PartsSpec == PartsInit /\ [][PartsNext]_partsVars

\* DmxFairness, StripFairness and IrFairness, for the part that runs.
FairParts ==
    /\ PartsSpec
    /\ WF_dmxVars(part = "bridge" /\ SendUniverse)
    /\ WF_dmxVars(part = "bridge" /\ SendPacket)
    /\ WF_dmxVars(part = "bridge" /\ PollByte)
    /\ WF_dmxVars(part = "bridge" /\ \E protocol \in Protocols : PollPacket(protocol))
    /\ WF_dmxVars(part = "bridge" /\ RunMappers(1))
    /\ WF_stripVars(part = "strip" /\ FrameStep)
    /\ WF_stripVars(part = "strip" /\ StripClock)
    /\ WF_irVars(part = "relay" /\ IrMainStep)
    /\ WF_irVars(part = "relay" /\ IrWifiStep)
    /\ WF_irVars(part = "relay" /\ IrClock)
=============================================================================
