------------------------------ MODULE MCBoard ------------------------------
(***************************************************************************)
(* Six parts of a device that share no state, each checked on its own: a   *)
(* behaviour is a behaviour of the part chosen at its start, beside the    *)
(* initial states of the others.                                           *)
(*                                                                         *)
(* The receiver of config writes, with the bags below.  The song: windows  *)
(* of two and five frames, holds and streaks of three and four.  The       *)
(* onsets: two detectors of different refractory times and sensitivities,  *)
(* and a ring as long as the density saturates at, no longer.  The         *)
(* console: two clients and a USB host.  The bag: three properties and a   *)
(* cache of two.  The fan-out: a Stick without a strip and an Atom with it *)
(* switched on and off, frames for one class and for all, for group 0, the *)
(* Lume's, and one beyond a byte, a sticky text and one with a time.       *)
(***************************************************************************)
EXTENDS ConfigReceiver, SongStructure, OnsetDensity, NetConsole, PropertyBag,
        LumeFanOut

VARIABLE part

\* An entry of the right type, and one that is not.
E(k, v) == [key |-> k, typed |-> TRUE, value |-> v]
Mistyped(k, v) == [key |-> k, typed |-> FALSE, value |-> v]

\* The editor's full set with and without a name, values outside their range,
\* a wrong type before good entries, an unknown key and one given twice.
LumeBag(name) ==
    [group |-> 2, led_power |-> 20, channel_pref |-> 6, strip_chain |-> 144,
     strip_group_size |-> 12, pair_win_s |-> 30, friendly_name |-> name]
BagsValue ==
    {ConfigBagOf(LumeBag(24), "Lume", 1000).entries,
     <<Mistyped("group", 3), E("led_power", 120), E("strip_chain", 0), E("unknown", 1),
       E("pair_win_s", 9), E("pair_win_s", 2)>>,
     <<E("channel_pref", 7), E("group", 3)>>}
LengthsValue == {0, 1, 3, 4}
RollsValue == {0}

MCRefractory == [o \in {"kick", "hihat"} |-> IF o = "kick" THEN 3 ELSE 2]
MCFifths == [o \in {"kick", "hihat"} |-> IF o = "kick" THEN 11 ELSE 9]

MCSchema ==
    [k \in {"palette", "target", "cycle"} |->
        CASE k = "palette" -> [low |-> 0, high |-> 1, default |-> 0]
          [] k = "target"  -> [low |-> 0, high |-> 7, default |-> 1]
          [] k = "cycle"   -> [low |-> 2, high |-> 7, default |-> 2]]

HostsValue ==
    {[strip |-> "none", ir |-> TRUE, lcd |-> TRUE],
     [strip |-> "enabled", ir |-> TRUE, lcd |-> FALSE],
     [strip |-> "disabled", ir |-> TRUE, lcd |-> FALSE]}
PulsesValue ==
    {[class |-> Light, group |-> 0, shade |-> "red"],
     [class |-> All, group |-> 258, shade |-> "green"]}
WashesValue == {[class |-> All, group |-> 258], [class |-> Light, group |-> 2]}
TextsValue ==
    {[group |-> 0, name |-> "title", ttl |-> 0], [group |-> 2, name |-> "cue", ttl |-> 1]}

-----------------------------------------------------------------------------
BoardInit ==
    /\ part \in {"receiver", "song", "onsets", "console", "bag", "fanout"}
    /\ ReceiverInit /\ SongInit /\ OnsetInit /\ NetInit /\ BagInit /\ FanInit
    /\ flash.net.ip = "a" /\ flash.ids.performance = 64
    /\ part # "console" => air.state = "active" /\ pass = NoPassword
    /\ part # "fanout" => surfaces.strip = "none"
    /\ part # "bag" => \A k \in Keys : bag_nvs[k] = NoValue

BoardNext ==
    \/ /\ part = "receiver" /\ ReceiverNext
       /\ UNCHANGED <<part, songVars, onsetVars, netVars, bagVars, fanVars>>
    \/ /\ part = "song" /\ SongNext
       /\ UNCHANGED <<part, receiverVars, onsetVars, netVars, bagVars, fanVars>>
    \/ /\ part = "onsets" /\ OnsetNext
       /\ UNCHANGED <<part, receiverVars, songVars, netVars, bagVars, fanVars>>
    \/ /\ part = "console" /\ NetNext
       /\ UNCHANGED <<part, receiverVars, songVars, onsetVars, bagVars, fanVars>>
    \/ /\ part = "bag" /\ BagNext
       /\ UNCHANGED <<part, receiverVars, songVars, onsetVars, netVars, fanVars>>
    \/ /\ part = "fanout" /\ FanNext
       /\ UNCHANGED <<part, receiverVars, songVars, onsetVars, netVars, bagVars>>

boardVars == <<part, receiverVars, songVars, onsetVars, netVars, bagVars, fanVars>>

BoardSpec == BoardInit /\ [][BoardNext]_boardVars
=============================================================================
