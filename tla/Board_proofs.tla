---------------------------- MODULE Board_proofs ----------------------------
(***************************************************************************)
(* What six parts of a device keep that share no state: the console of the *)
(* headless Director, for every set of ids, addresses and passwords and    *)
(* any number of clients; a plugin's property bag, for every schema and    *)
(* cache; the density of onsets, for every window and ring; the fan-out of *)
(* a Lume, for every host and all frames; the sections of a song, for all  *)
(* windows, warm-ups and holds; and the frame codec with the CONFIG_WRITEs *)
(* of a receiver, for every length, every bag and whatever the air does.   *)
(*                                                                         *)
(* SavedIsLive is not inductive: while the driver listens it may roll      *)
(* another id and store it as the performance one, which is the one on the *)
(* air only because a driver listens on no other channel than 11.          *)
(*                                                                         *)
(* What a bag, a song or a payload of any length comes to is shown by      *)
(* IntervalInduction along it, and RecursionExists turns the definition,   *)
(* which says CHOOSE, into the equations it is known by.                   *)
(***************************************************************************)
EXTENDS NetConsole, PropertyBag, OnsetDensity, LumeFanOut, SongStructure, ConfigReceiver,
        FiniteSetTheorems, WellFoundedInduction, TLAPS

-----------------------------------------------------------------------------
(* The console.                                                            *)

Ids == [community : CommunityIds, performance : PerfIds]

Net ==
    [dhcp : BOOLEAN, ip : Addresses, mask : Addresses, gw : Addresses, universe : Addresses,
     channel : FleetChannels]

Stored == [net : Net, pass : Passwords \cup {NoPassword}, ids : Ids]

Airs ==
    [state : {"idle", "listening", "active"}, channel : FleetChannels,
     id : CommunityIds \cup PerfIds \cup {MacId}]

StoreTypes == flash \in Stored /\ cfg \in Net /\ air \in Airs

NetInv ==
    /\ StoreTypes
    /\ SavedIsLive
    /\ air.state = "listening" => air.channel = 11

\* The three that NetInv is about.
storeVars == <<flash, cfg, air>>
-----------------------------------------------------------------------------
\* A driver that start_broadcast() has started is on the channel it was given
\* with the id that is stored for it, and listens on channel 11 only.
LEMMA StartedAsStored ==
    ASSUME NEW ids \in Ids, NEW channel \in FleetChannels, NEW a \in Started(ids, channel)
    PROVE  /\ a \in Airs
           /\ a.state # "idle" => a.channel = channel /\ a.id = IdOf(ids, channel)
           /\ a.state = "listening" => a.channel = 11
<1>1. IdOf(ids, channel) \in CommunityIds \cup PerfIds \cup {MacId}
  BY DEF IdOf, Ids, FleetChannels
<1> QED
  BY <1>1 DEF Started, Airs

\* A restart on what is stored puts on the air what is stored.
LEMMA RestartKeeps ==
    ASSUME flash' \in Stored, cfg' \in Net, cfg'.channel = flash'.net.channel,
           Restarts(flash'.ids, flash'.net.channel)
    PROVE  NetInv'
<1>1. flash'.ids \in Ids /\ flash'.net.channel \in FleetChannels
  BY DEF Stored, Net
<1>2. air' \in Started(flash'.ids, flash'.net.channel)
  BY DEF Restarts
<1>3. /\ air' \in Airs
      /\ air'.state # "idle" =>
            air'.channel = flash'.net.channel /\ air'.id = IdOf(flash'.ids, flash'.net.channel)
      /\ air'.state = "listening" => air'.channel = 11
  BY <1>1, <1>2, StartedAsStored
<1> QED
  BY <1>3 DEF NetInv, StoreTypes, SavedIsLive

\* A new channel is stored before the driver starts on it.
LEMMA SetChannelKeeps == NetInv /\ SetChannel => NetInv'
<1> SUFFICES ASSUME NetInv, SetChannel PROVE NetInv'
  OBVIOUS
<1>1. PICK channel \in FleetChannels :
         /\ cfg' = [cfg EXCEPT !.channel = channel]
         /\ flash' = [flash EXCEPT !.net.channel = channel]
         /\ Restarts(flash.ids, channel)
  BY DEF SetChannel
<1>2. /\ cfg' \in Net /\ cfg'.channel = channel
      /\ flash' \in Stored /\ flash'.net.channel = channel /\ flash'.ids = flash.ids
  BY <1>1 DEF NetInv, StoreTypes, Net, Stored
<1> QED
  BY <1>1, <1>2, RestartKeeps

\* A new Director ID too, under the channel it belongs to.
LEMMA SetDirIdKeeps == NetInv /\ SetDirId => NetInv'
<1> SUFFICES ASSUME NetInv, SetDirId PROVE NetInv'
  OBVIOUS
<1>1. PICK id \in IF cfg.channel = 1 THEN CommunityIds ELSE PerfIds :
         /\ flash' = [flash EXCEPT !.ids = WithId(cfg.channel, id)]
         /\ Restarts(WithId(cfg.channel, id), cfg.channel)
  BY DEF SetDirId
<1>2. WithId(cfg.channel, id) \in Ids
  BY <1>1 DEF WithId, NetInv, StoreTypes, Stored, Ids
<1>3. /\ cfg' = cfg /\ cfg.channel = flash.net.channel
      /\ flash' \in Stored /\ flash'.net = flash.net
      /\ flash'.ids = WithId(cfg.channel, id)
  BY <1>1, <1>2 DEF NetInv, StoreTypes, Stored, SavedIsLive, SetDirId
<1>4. cfg' \in Net /\ cfg'.channel = flash'.net.channel
  BY <1>3 DEF NetInv, StoreTypes
<1>5. Restarts(flash'.ids, flash'.net.channel)
  BY <1>1, <1>3
<1> QED
  BY <1>3, <1>4, <1>5, RestartKeeps

\* A change that touches neither the channels nor the ids nor the driver.
LEMMA SameAirKeeps ==
    ASSUME NetInv, air' = air, flash' \in Stored, cfg' \in Net,
           flash'.ids = flash.ids, flash'.net.channel = flash.net.channel,
           cfg'.channel = cfg.channel
    PROVE  NetInv'
BY DEF NetInv, StoreTypes, SavedIsLive

\* Every command of either session keeps the store and the air together.
LEMMA ConfigureKeeps == NetInv /\ Configure => NetInv'
<1> SUFFICES ASSUME NetInv, Configure PROVE NetInv'
  OBVIOUS
<1>1. CASE SetChannel
  BY <1>1, SetChannelKeeps
<1>2. CASE SetDirId
  BY <1>2, SetDirIdKeeps
<1>3. CASE SetNetwork
  <2>1. cfg' \in Net /\ cfg'.channel = cfg.channel
    BY <1>3 DEF SetNetwork, ParsedStatic, NetInv, StoreTypes, Net
  <2> QED
    BY <1>3, <2>1, SameAirKeeps DEF SetNetwork, NetInv, StoreTypes
<1>4. CASE SaveConfig
  <2>1. flash' \in Stored /\ flash'.net = cfg /\ flash'.ids = flash.ids /\ cfg' = cfg
    BY <1>4 DEF SaveConfig, NetInv, StoreTypes, Stored
  <2> QED
    BY <1>4, <2>1, SameAirKeeps DEF SaveConfig, NetInv, StoreTypes, SavedIsLive
<1>5. CASE SetPassword
  <2>1. flash' \in Stored /\ flash'.net = flash.net /\ flash'.ids = flash.ids
    BY <1>5 DEF SetPassword, NetInv, StoreTypes, Stored
  <2> QED
    BY <1>5, <2>1, SameAirKeeps DEF SetPassword, NetInv, StoreTypes
<1> QED
  BY <1>1, <1>2, <1>3, <1>4, <1>5 DEF Configure

\* And so does the one that ends the network session.
LEMMA ClearPasswordKeeps == NetInv /\ ClearPassword => NetInv'
<1> SUFFICES ASSUME NetInv, ClearPassword PROVE NetInv'
  OBVIOUS
<1>1. flash' \in Stored /\ flash'.net = flash.net /\ flash'.ids = flash.ids
  BY DEF ClearPassword, NetInv, StoreTypes, Stored
<1> QED
  BY <1>1, SameAirKeeps DEF ClearPassword, NetInv, StoreTypes

\* The window closes, or a heard id is replaced and stored.
LEMMA ListenKeeps == NetInv /\ ListenStep => NetInv'
<1> SUFFICES ASSUME NetInv, ListenStep PROVE NetInv'
  OBVIOUS
<1>1. air.channel = 11 /\ flash.net.channel = 11 /\ cfg.channel = 11 /\ cfg' = cfg
  BY DEF ListenStep, NetInv, SavedIsLive
<1>2. CASE air' = [air EXCEPT !.state = "active"] /\ UNCHANGED flash
  BY <1>1, <1>2 DEF NetInv, StoreTypes, SavedIsLive, Airs, ListenStep
<1>3. ASSUME NEW id \in PerfIds, air' = [air EXCEPT !.id = id],
             flash' = [flash EXCEPT !.ids.performance = id]
      PROVE  NetInv'
  <2>1. /\ flash' \in Stored /\ flash'.net = flash.net /\ flash'.ids.performance = id
        /\ air' \in Airs /\ air'.channel = 11 /\ air'.id = id
    BY <1>1, <1>3 DEF NetInv, StoreTypes, Stored, Ids, Airs
  <2>2. IdOf(flash'.ids, 11) = id
    BY <2>1 DEF IdOf
  <2> QED
    BY <1>1, <2>1, <2>2 DEF NetInv, StoreTypes, SavedIsLive
<1> QED
  BY <1>2, <1>3 DEF ListenStep

\* A boot puts on the air what it reads.
LEMMA RebootKeeps == NetInv /\ Reboot => NetInv'
<1> SUFFICES ASSUME NetInv, Reboot PROVE NetInv'
  OBVIOUS
<1>1. flash' = flash /\ cfg' = flash.net /\ Restarts(flash.ids, flash.net.channel)
  BY DEF Reboot, Boot, Restarts
<1>2. flash' \in Stored /\ cfg' \in Net
  BY <1>1 DEF NetInv, StoreTypes, Stored
<1> QED
  BY <1>1, <1>2, RestartKeeps

\* NetInv is an invariant of the console.
LEMMA NetInvInit == NetInit => NetInv
<1> SUFFICES ASSUME NetInit PROVE NetInv
  OBVIOUS
<1>1. /\ flash \in Stored /\ flash.net.channel = 1 /\ cfg = flash.net
      /\ air \in Started(flash.ids, 1)
  BY DEF NetInit, Stored, Net, Ids, FleetChannels
<1>2. flash.ids \in Ids /\ cfg \in Net /\ 1 \in FleetChannels
  BY <1>1 DEF Stored, FleetChannels
<1>3. /\ air \in Airs
      /\ air.state # "idle" => air.channel = 1 /\ air.id = IdOf(flash.ids, 1)
      /\ air.state = "listening" => air.channel = 11
  BY <1>1, <1>2, StartedAsStored
<1> QED
  BY <1>1, <1>2, <1>3 DEF NetInv, StoreTypes, SavedIsLive

\* Every operation leaves what is stored and what is live in step.
LEMMA NetInvStep == NetInv /\ [NetNext]_netVars => NetInv'
<1> SUFFICES ASSUME NetInv, [NetNext]_netVars PROVE NetInv'
  OBVIOUS
<1>1. CASE UNCHANGED storeVars
  BY <1>1 DEF storeVars, NetInv, StoreTypes, SavedIsLive
<1>2. CASE Configure
  BY <1>2, ConfigureKeeps
<1>3. CASE ClearPassword
  BY <1>3, ClearPasswordKeeps
<1>4. CASE ListenStep
  BY <1>4, ListenKeeps
<1>5. CASE Reboot
  BY <1>5, RebootKeeps
<1>6. UsbLine => Configure \/ ClearPassword \/ UNCHANGED storeVars
  BY DEF UsbLine, storeVars
<1>7. TcpLine => Configure \/ ClearPassword \/ UNCHANGED storeVars
  BY DEF TcpLine, storeVars
<1>8. /\ UsbCable => UNCHANGED storeVars
      /\ UsbKey => UNCHANGED storeVars
      /\ TcpClosed => UNCHANGED storeVars
      /\ TcpKey => UNCHANGED storeVars
      /\ TcpPassword => UNCHANGED storeVars
      /\ ClientLeaves => UNCHANGED storeVars
      /\ NetClock => UNCHANGED storeVars
      /\ UNCHANGED netVars => UNCHANGED storeVars
  BY DEF UsbCable, UsbKey, TcpClosed, TcpKey, TcpPassword, ClientLeaves, NetClock,
         storeVars, netVars
<1> QED
  BY <1>1, <1>2, <1>3, <1>4, <1>5, <1>6, <1>7, <1>8 DEF NetNext

\* What is on the air is what the next boot will put there: the channel of the
\* console, the channel in NVS and the driver's agree, and the driver's id is
\* the stored one (handle()'s channel and dirid, listen_tick()).
THEOREM SavedIsLiveInvariant == NetSpec => []SavedIsLive
<1>1. NetInv => SavedIsLive
  BY DEF NetInv
<1> QED
  BY <1>1, NetInvInit, NetInvStep, PTL DEF NetSpec

\* A session that is closed has no line but of one client either: what a
\* later client finds is what close_tcp() or Welcomed leave, never the line.
TcpTyped ==
    tcp = [state |-> tcp.state, client |-> tcp.client, there |-> tcp.there,
           line |-> tcp.line, mon |-> tcp.mon, idle |-> tcp.idle]

LineInv == TcpTyped /\ OneClientPerLine

\* A command is never made of what two clients typed, for any number of
\* clients, whoever closed the session between them.
THEOREM OneClientPerLineInvariant == NetSpec => []OneClientPerLine
<1>1. NetInit => LineInv
  BY DEF NetInit, LineInv, TcpTyped, OneClientPerLine, ClosedTcp
<1>2. LineInv /\ [NetNext]_netVars => LineInv'
  <2> SUFFICES ASSUME LineInv, [NetNext]_netVars PROVE LineInv'
    OBVIOUS
  <2> USE DEF LineInv, TcpTyped, OneClientPerLine
  <2>1. CASE UsbCable
    BY <2>1 DEF UsbCable
  <2>2. CASE UsbKey
    BY <2>2 DEF UsbKey
  <2>3. CASE UsbLine
    <3>1. tcp' = tcp \/ tcp' = Silenced(tcp)
      BY <2>3 DEF UsbLine
    <3> QED
      BY <3>1 DEF Silenced
  <2>4. CASE TcpClosed
    <3>1. tcp' \in {tcp, ClosedTcp} \/ tcp' = Welcomed(clients + 1)
      BY <2>4 DEF TcpClosed, Torn
    <3> QED
      BY <3>1 DEF ClosedTcp, Welcomed
  <2>5. CASE TcpKey
    <3>1. tcp.state # "closed"
      BY <2>5 DEF TcpKey, Active, Torn, ClosedTcp
    <3>2. \/ tcp' = [tcp EXCEPT !.mon = FALSE, !.idle = 0]
          \/ tcp' = [tcp EXCEPT !.line = @ \cup {tcp.client}, !.idle = 0]
      BY <2>5 DEF TcpKey
    <3> QED
      BY <3>1, <3>2
  <2>6. CASE TcpPassword
    <3>1. \/ tcp' = [tcp EXCEPT !.state = "open", !.line = {}, !.idle = 0]
          \/ tcp' = [Silenced(tcp) EXCEPT !.line = {}]
      BY <2>6 DEF TcpPassword
    <3> QED
      BY <3>1 DEF Silenced
  <2>7. CASE TcpLine
    <3> DEFINE ended == [tcp EXCEPT !.line = {}, !.idle = 0]
    <3>1. tcp' = ended \/ tcp' = Silenced(ended) \/ tcp' = [ended EXCEPT !.mon = TRUE]
      BY <2>7 DEF TcpLine
    <3> QED
      BY <3>1 DEF Silenced
  <2>8. CASE ClientLeaves
    BY <2>8 DEF ClientLeaves
  <2>9. CASE NetClock
    <3>1. tcp' = tcp \/ tcp' = [tcp EXCEPT !.idle = @ + 1]
      BY <2>9 DEF NetClock
    <3> QED
      BY <3>1
  <2>10. CASE ListenStep
    BY <2>10 DEF ListenStep
  <2>11. CASE Reboot
    BY <2>11 DEF Reboot, Boot, ClosedTcp
  <2>12. CASE UNCHANGED netVars
    BY <2>12 DEF netVars
  <2> QED
    BY <2>1, <2>2, <2>3, <2>4, <2>5, <2>6, <2>7, <2>8, <2>9, <2>10, <2>11, <2>12 DEF NetNext
<1>3. LineInv => OneClientPerLine
  BY DEF LineInv
<1> QED
  BY <1>1, <1>2, <1>3, PTL DEF NetSpec

-----------------------------------------------------------------------------
(* The property bag.                                                       *)

\* A set of numbers that is not empty has a least one.
LEMMA LeastOne ==
    ASSUME NEW S \in SUBSET Nat, S # {}
    PROVE  Min(S) \in S /\ \A y \in S : Min(S) <= y
<1>1. IsWellFoundedOn(OpToRel(<, Nat), Nat)
  BY NatLessThanWellFounded
<1>2. PICK x \in S : \A y \in S : ~(<<y, x>> \in OpToRel(<, Nat))
  BY <1>1, WFMin, Zenon
<1>3. \A y \in S : ~(y < x)
  BY <1>2, Zenon DEF OpToRel
<1>4. \E z \in S : \A y \in S : z <= y
  BY <1>3
<1> QED
  BY <1>4 DEF Min

\* The entries of the cache have different keys, and each holds what a bag
\* built anew would read.
BagInv ==
    /\ bag_nvs \in [Keys -> Int \cup {NoValue}]
    /\ cache \in Seq([key : Keys, value : Int])
    /\ \A i, j \in 1 .. Len(cache) : cache[i].key = cache[j].key => i = j
    /\ \A i \in 1 .. Len(cache) :
          ClampToBounds(cache[i].key, cache[i].value) = ReadFromNvs(cache[i].key)

\* find_cache_slot() finds a key that is there, and 0 for one that is not.
LEMMA SlotFound ==
    ASSUME cache \in Seq([key : Keys, value : Int]), NEW key
    PROVE  \/ /\ FindCacheSlot(key) \in 1 .. Len(cache)
              /\ cache[FindCacheSlot(key)].key = key
           \/ /\ FindCacheSlot(key) = 0
              /\ \A i \in 1 .. Len(cache) : cache[i].key # key
<1> DEFINE I == {i \in 1 .. Len(cache) : cache[i].key = key}
<1>1. FindCacheSlot(key) = IF I # {} THEN Min(I) ELSE 0
  BY DEF FindCacheSlot, SelectInSeq
<1>2. I \in SUBSET Nat
  OBVIOUS
<1>3. I # {} => Min(I) \in I
  <2> HIDE DEF I
  <2> QED
    BY <1>2, LeastOne
<1> QED
  BY <1>1, <1>3

\* A value that is within its bounds stays as it is.
LEMMA ClampedStays ==
    ASSUME NEW key \in Keys, NEW value \in Int
    PROVE  /\ ClampToBounds(key, value) \in Int
           /\ ClampToBounds(key, ClampToBounds(key, value)) = ClampToBounds(key, value)
BY SchemaAssumption DEF ClampToBounds

\* NVS, or the default, is read within the bounds.
LEMMA ReadWithinBounds ==
    ASSUME BagInv, NEW key \in Keys
    PROVE  ReadFromNvs(key) \in Int /\ ClampToBounds(key, ReadFromNvs(key)) = ReadFromNvs(key)
<1>1. bag_nvs[key] \in Int \cup {NoValue} /\ Schema[key].default \in Int
  BY SchemaAssumption DEF BagInv
<1> QED
  BY <1>1, ClampedStays DEF ReadFromNvs

\* cache_put() puts the entry somewhere, and that is where the key was if it
\* was anywhere.
LEMMA PutOnce ==
    ASSUME BagInv, NEW key \in Keys, NEW value \in Int
    PROVE  LET c == CachePut(key, value)
           IN  /\ c \in Seq([key : Keys, value : Int])
               /\ \E s \in 1 .. Len(c) :
                     /\ c[s] = [key |-> key, value |-> value]
                     /\ \A i \in 1 .. Len(c) \ {s} :
                           i \in 1 .. Len(cache) /\ c[i] = cache[i] /\ cache[i].key # key
<1> DEFINE entry == [key |-> key, value |-> value]
           E == [key : Keys, value : Int]
           at == FindCacheSlot(key)
           c == CachePut(key, value)
           Goal == /\ c \in Seq(E)
                   /\ \E s \in 1 .. Len(c) :
                         /\ c[s] = entry
                         /\ \A i \in 1 .. Len(c) \ {s} :
                               i \in 1 .. Len(cache) /\ c[i] = cache[i] /\ cache[i].key # key
<1>1. entry \in E /\ cache \in Seq(E) /\ CacheSize \in Nat \ {0}
  BY SchemaAssumption DEF BagInv
<1>2. \/ at \in 1 .. Len(cache) /\ cache[at].key = key
      \/ at = 0 /\ \A i \in 1 .. Len(cache) : cache[i].key # key
  BY <1>1, SlotFound
<1>3. c = IF at # 0 THEN [cache EXCEPT ![at] = entry]
          ELSE IF Len(cache) < CacheSize THEN Append(cache, entry)
          ELSE [cache EXCEPT ![1] = entry]
  BY DEF CachePut
<1>4. \A i, j \in 1 .. Len(cache) : cache[i].key = cache[j].key => i = j
  BY DEF BagInv
<1> HIDE DEF entry, E, at, c
<1>5. ASSUME at # 0 PROVE Goal
  <2>1. c = [cache EXCEPT ![at] = entry]
    BY <1>3, <1>5
  <2>2. c \in Seq(E) /\ Len(c) = Len(cache)
    BY <1>1, <1>2, <1>5, <2>1
  <2>3. c[at] = entry /\ at \in 1 .. Len(c)
    BY <1>1, <1>2, <1>5, <2>1, <2>2
  <2>4. \A i \in 1 .. Len(c) \ {at} :
           i \in 1 .. Len(cache) /\ c[i] = cache[i] /\ cache[i].key # key
    BY <1>1, <1>2, <1>4, <1>5, <2>1, <2>2
  <2> QED
    BY <2>2, <2>3, <2>4
<1>6. ASSUME at = 0, Len(cache) < CacheSize PROVE Goal
  <2>1. c = Append(cache, entry)
    BY <1>3, <1>6
  <2>2. c \in Seq(E) /\ Len(c) = Len(cache) + 1
    BY <1>1, <2>1
  <2>3. c[Len(c)] = entry /\ Len(c) \in 1 .. Len(c)
    BY <1>1, <2>1, <2>2
  <2>4. \A i \in 1 .. Len(c) \ {Len(c)} :
           i \in 1 .. Len(cache) /\ c[i] = cache[i] /\ cache[i].key # key
    BY <1>1, <1>2, <1>6, <2>1, <2>2
  <2> QED
    BY <2>2, <2>3, <2>4
<1>7. ASSUME at = 0, ~(Len(cache) < CacheSize) PROVE Goal
  <2>1. c = [cache EXCEPT ![1] = entry]
    BY <1>3, <1>7
  <2>2. c \in Seq(E) /\ Len(c) = Len(cache) /\ 1 \in 1 .. Len(cache)
    BY <1>1, <1>7, <2>1
  <2>3. c[1] = entry
    BY <1>1, <2>1, <2>2
  <2>4. \A i \in 1 .. Len(c) \ {1} :
           i \in 1 .. Len(cache) /\ c[i] = cache[i] /\ cache[i].key # key
    BY <1>1, <1>2, <1>7, <2>1, <2>2
  <2> QED
    BY <2>2, <2>3, <2>4
<1>8. Goal
  BY <1>5, <1>6, <1>7
<1> QED
  BY <1>8 DEF c, E, entry

\* The cache after cache_put() of what NVS holds for the key.
LEMMA PutKeepsInv ==
    ASSUME BagInv, NEW key \in Keys, NEW value \in Int,
           bag_nvs' \in [Keys -> Int \cup {NoValue}],
           \A k \in Keys \ {key} : bag_nvs'[k] = bag_nvs[k],
           cache' = CachePut(key, value),
           ClampToBounds(key, value) = ReadFromNvs(key)'
    PROVE  BagInv'
<1>1. cache' \in Seq([key : Keys, value : Int])
  BY PutOnce
<1>2. PICK s \in 1 .. Len(cache') :
         /\ cache'[s] = [key |-> key, value |-> value]
         /\ \A i \in 1 .. Len(cache') \ {s} :
               i \in 1 .. Len(cache) /\ cache'[i] = cache[i] /\ cache[i].key # key
  BY PutOnce
<1>3. \A i \in 1 .. Len(cache) : cache[i].key \in Keys
  <2> DEFINE E == [key : Keys, value : Int]
  <2>1. cache \in Seq(E)
    BY DEF BagInv
  <2>2. \A i \in 1 .. Len(cache) : cache[i] \in E
    <3> HIDE DEF E
    <3> QED
      BY <2>1
  <2> QED
    BY <2>2
<1>4. \A k \in Keys \ {key} : ReadFromNvs(k)' = ReadFromNvs(k)
  BY DEF ReadFromNvs, ClampToBounds, Keys
<1>5. \A i, j \in 1 .. Len(cache') : cache'[i].key = cache'[j].key => i = j
  BY SMTT(30), <1>2 DEF BagInv
<1>6. ASSUME NEW i \in 1 .. Len(cache')
      PROVE  ClampToBounds(cache'[i].key, cache'[i].value) = ReadFromNvs(cache[i].key)'
  <2>1. CASE i = s
    BY <1>2, <2>1 DEF ReadFromNvs
  <2>2. CASE i # s
    <3>1. cache'[i] = cache[i] /\ i \in 1 .. Len(cache) /\ cache[i].key \in Keys \ {key}
      BY <1>2, <1>3, <2>2
    <3> QED
      BY <1>4, <3>1 DEF BagInv, ReadFromNvs
  <2> QED
    BY <2>1, <2>2
<1> QED
  BY <1>1, <1>5, <1>6 DEF BagInv, ReadFromNvs, ClampToBounds, Keys

\* For every schema, every size of the cache, and whatever NVS held and
\* refuses: get() returns what a bag built anew would read.
THEOREM BagIsTruthful == BagSpec => []BagTellsTruth
<1>1. BagInit => BagInv
  <2> SUFFICES ASSUME BagInit PROVE BagInv
    OBVIOUS
  <2>1. cache = <<>> /\ cache \in Seq([key : Keys, value : Int]) /\ Len(cache) = 0
    BY DEF BagInit
  <2>2. bag_nvs \in [Keys -> Int \cup {NoValue}]
    BY SchemaAssumption DEF BagInit
  <2> QED
    BY <2>1, <2>2 DEF BagInv
<1>2. BagInv /\ [BagNext]_bagVars => BagInv'
  <2> SUFFICES ASSUME BagInv, [BagNext]_bagVars PROVE BagInv'
    OBVIOUS
  <2>1. CASE Get
    <3>1. PICK key \in Keys :
             /\ cache' = IF FindCacheSlot(key) # 0 THEN cache
                         ELSE CachePut(key, ReadFromNvs(key))
             /\ bag_nvs' = bag_nvs
      BY <2>1 DEF Get
    <3>2. CASE cache' = cache
      BY <3>1, <3>2 DEF BagInv, ReadFromNvs, ClampToBounds, Keys
    <3>3. CASE cache' = CachePut(key, ReadFromNvs(key))
      <4>1. bag_nvs' \in [Keys -> Int \cup {NoValue}] /\ ReadFromNvs(key)' = ReadFromNvs(key)
        BY <3>1 DEF BagInv, ReadFromNvs, ClampToBounds, Keys
      <4> QED
        BY <3>1, <3>3, <4>1, ReadWithinBounds, PutKeepsInv
    <3> QED
      BY <3>1, <3>2, <3>3
  <2>2. CASE Set
    <3>1. PICK key \in Keys, value \in PropertyValues, ok \in BOOLEAN :
             /\ bag_nvs' = IF ok THEN [bag_nvs EXCEPT ![key] = ClampToBounds(key, value)]
                           ELSE bag_nvs
             /\ cache' = Cached(key, ClampToBounds(key, value), ok)
      BY <2>2 DEF Set
    <3> DEFINE clamped == ClampToBounds(key, value)
    <3>2. clamped \in Int /\ ClampToBounds(key, clamped) = clamped
      BY ClampedStays, SchemaAssumption
    <3> HIDE DEF clamped
    <3>3. CASE ok
      <4>1. bag_nvs' = [bag_nvs EXCEPT ![key] = clamped] /\ cache' = CachePut(key, clamped)
        BY <3>1, <3>3 DEF Cached, clamped
      <4>2. /\ bag_nvs' \in [Keys -> Int \cup {NoValue}] /\ bag_nvs'[key] = clamped
            /\ \A k \in Keys \ {key} : bag_nvs'[k] = bag_nvs[k]
        BY <3>2, <4>1 DEF BagInv
      <4>3. ReadFromNvs(key)' = ClampToBounds(key, clamped)
        BY <3>2, <4>2, SchemaAssumption DEF ReadFromNvs, ClampToBounds
      <4> QED
        BY <3>2, <4>1, <4>2, <4>3, PutKeepsInv
    <3>4. CASE ~ok
      BY <3>1, <3>4 DEF Cached, BagInv, ReadFromNvs, ClampToBounds, Keys
    <3> QED
      BY <3>3, <3>4
  <2>3. CASE UNCHANGED bagVars
    BY <2>3 DEF bagVars, BagInv, ReadFromNvs, ClampToBounds, Keys
  <2> QED
    BY <2>1, <2>2, <2>3 DEF BagNext
<1>3. BagInv => BagTellsTruth
  <2> SUFFICES ASSUME BagInv, NEW key \in Keys PROVE Got(key) = ReadFromNvs(key)
    BY DEF BagTellsTruth
  <2> QED
    BY SlotFound DEF BagInv, Got
<1> QED
  BY <1>1, <1>2, <1>3, PTL DEF BagSpec

-----------------------------------------------------------------------------
(* Onsets and their density.                                               *)

\* Place i of the ring was written before place j.
Before(i, j) == \/ i < j /\ (j < events.head \/ events.head <= i)
                \/ j < events.head /\ events.head <= i

Ring == DOMAIN events.ring

\* The ring holds the last onsets, each once, and the head is where the
\* oldest is: what has left the ring is older than what is in it.
RingInv ==
    /\ events = [ring |-> events.ring, head |-> events.head]
    /\ events.ring \in Seq(Nat) /\ Len(events.ring) <= DensityRingCap
    /\ events.head \in 1 .. DensityRingCap
    /\ Len(events.ring) < DensityRingCap => events.head = Len(events.ring) + 1
    /\ \A i \in Ring : events.ring[i] \in sounded
    /\ \A i, j \in Ring : Before(i, j) => events.ring[i] < events.ring[j]
    /\ \A t \in sounded : \/ \E i \in Ring : events.ring[i] = t
                          \/ /\ Len(events.ring) = DensityRingCap
                             /\ \A i \in Ring : t < events.ring[i]

OnsetInv ==
    /\ frame_now \in Nat
    /\ sounded \subseteq 1 .. frame_now
    /\ RingInv
    /\ frame_now > 0 => density = DensityOf(events.ring, frame_now)

\* Noted() for an onset later than all before.
LEMMA NotedKeepsRing ==
    ASSUME OnsetInv, events' = Noted(frame_now + 1), sounded' = sounded \cup {frame_now + 1}
    PROVE  RingInv'
<1> DEFINE now == frame_now + 1
           r == events.ring
           h == events.head
           C == DensityRingCap
<1>1. /\ r \in Seq(Nat) /\ Len(r) \in Nat /\ Len(r) <= C /\ C \in Nat \ {0}
      /\ h \in 1 .. C /\ now \in Nat
      /\ Len(r) < C => h = Len(r) + 1
      /\ Ring = 1 .. Len(r)
  BY DensityAssumption DEF OnsetInv, RingInv, Ring
<1>2. \A i \in 1 .. Len(r) : r[i] \in sounded /\ r[i] < now /\ r[i] \in Nat
  BY <1>1 DEF OnsetInv, RingInv
<1>3. \A i, j \in 1 .. Len(r) : Before(i, j) => r[i] < r[j]
  BY <1>1 DEF OnsetInv, RingInv
<1>4. \A t \in sounded : \/ \E i \in 1 .. Len(r) : r[i] = t
                         \/ Len(r) = C /\ \A i \in 1 .. Len(r) : t < r[i]
  BY <1>1 DEF OnsetInv, RingInv
<1>5. \A t \in sounded : t < now /\ t \in Nat
  BY DEF OnsetInv
<1>6. /\ events' = [ring |-> events'.ring, head |-> events'.head]
      /\ events'.ring = IF h > Len(r) THEN Append(r, now) ELSE [r EXCEPT ![h] = now]
      /\ events'.head = IF h = C THEN 1 ELSE h + 1
  BY DEF Noted
<1> DEFINE q == events'.ring
           g == events'.head
<1> HIDE DEF r, h, C, now, q, g
<1>7. g \in 1 .. C
  BY <1>1, <1>6 DEF g
<1>8. CASE h > Len(r)
  <2>1. q = Append(r, now) /\ h = Len(r) + 1 /\ Len(r) < C
    BY <1>1, <1>6, <1>8 DEF q
  <2>2. /\ q \in Seq(Nat) /\ Len(q) = Len(r) + 1
        /\ q[Len(q)] = now
        /\ \A i \in 1 .. Len(r) : q[i] = r[i]
        /\ \A i \in 1 .. Len(q) : i \in 1 .. Len(r) \/ i = Len(q)
    BY <1>1, <2>1
  <2>3. Len(q) < C => g = Len(q) + 1
    BY <1>1, <1>6, <2>1, <2>2 DEF g
  <2>4. \A i \in 1 .. Len(q) : q[i] \in sounded'
    BY <1>2, <2>2 DEF now
  <2>5. ASSUME NEW i \in 1 .. Len(q), NEW j \in 1 .. Len(q), Before(i, j)'
        PROVE  q[i] < q[j]
    <3>1. i < j
      BY <1>1, <1>6, <2>1, <2>2, <2>5 DEF Before, g
    <3>2. i \in 1 .. Len(r)
      BY <1>1, <2>2, <3>1
    <3>3. CASE j = Len(q)
      BY <1>2, <2>2, <3>2, <3>3
    <3>4. CASE j \in 1 .. Len(r)
      <4>1. Before(i, j)
        BY <1>1, <2>1, <3>1, <3>4 DEF Before, h
      <4> QED
        BY <1>3, <2>2, <3>2, <3>4, <4>1
    <3> QED
      BY <2>2, <3>3, <3>4
  <2>6. \A t \in sounded' : \E i \in 1 .. Len(q) : q[i] = t
    <3>1. \A t \in sounded : \E i \in 1 .. Len(r) : r[i] = t
      BY <1>1, <1>4, <2>1
    <3>2. \A i \in 1 .. Len(r) : i \in 1 .. Len(q)
      BY <1>1, <2>2
    <3>3. Len(q) \in 1 .. Len(q)
      BY <1>1, <2>2
    <3> QED
      BY <2>2, <3>1, <3>2, <3>3 DEF now
  <2>7. Len(q) <= C
    BY <1>1, <2>1, <2>2
  <2>8. Ring' = 1 .. Len(q)
    BY <2>2 DEF Ring, q
  <2>9. \A i, j \in Ring' : Before(i, j)' => q[i] < q[j]
    BY <2>5, <2>8
  <2> QED
    BY <1>6, <1>7, <2>2, <2>3, <2>4, <2>6, <2>7, <2>8, <2>9 DEF RingInv, q, g, C
<1>9. CASE h <= Len(r)
  <2>1. q = [r EXCEPT ![h] = now] /\ Len(r) = C /\ h \in 1 .. Len(r)
    BY <1>1, <1>6, <1>9 DEF q
  <2>2. /\ q \in Seq(Nat) /\ Len(q) = C
        /\ q[h] = now
        /\ \A i \in 1 .. Len(r) \ {h} : q[i] = r[i]
        /\ h \in 1 .. Len(q)
    BY <1>1, <2>1
  <2>3. \A i \in 1 .. Len(q) : q[i] \in sounded'
    BY <1>2, <2>1, <2>2 DEF now
  <2>4. ASSUME NEW i \in 1 .. Len(q), NEW j \in 1 .. Len(q), Before(i, j)'
        PROVE  q[i] < q[j]
    <3>1. i # h
      BY <1>1, <1>6, <2>1, <2>2, <2>4 DEF Before, g
    <3>2. CASE j = h
      BY <1>2, <2>1, <2>2, <3>1, <3>2
    <3>3. CASE j # h
      <4>1. Before(i, j)
        BY <1>1, <1>6, <2>1, <2>2, <2>4, <3>1, <3>3 DEF Before, g, h
      <4> QED
        BY <1>3, <2>1, <2>2, <3>1, <3>3, <4>1
    <3> QED
      BY <3>2, <3>3
  <2>5. \A j \in 1 .. Len(r) \ {h} : r[h] < r[j]
    <3> SUFFICES ASSUME NEW j \in 1 .. Len(r) \ {h} PROVE r[h] < r[j]
      OBVIOUS
    <3>1. Before(h, j)
      BY <1>1, <2>1 DEF Before, h
    <3> QED
      BY <1>3, <2>1, <3>1
  <2>6. ASSUME NEW t \in sounded'
        PROVE  \/ \E i \in 1 .. Len(q) : q[i] = t
               \/ \A i \in 1 .. Len(q) : t < q[i]
    <3>1. CASE t = now
      BY <2>2, <3>1
    <3>2. CASE t \in sounded
      <4>1. CASE \E i \in 1 .. Len(r) : i # h /\ r[i] = t
        BY <2>1, <2>2, <4>1
      <4>2. CASE t = r[h]
        BY <1>2, <2>1, <2>2, <2>5, <4>2
      <4>3. CASE \A i \in 1 .. Len(r) : t < r[i]
        BY <1>5, <2>1, <2>2, <3>2, <4>3
      <4> QED
        BY <1>4, <3>2, <4>1, <4>2, <4>3
    <3> QED
      BY <3>1, <3>2 DEF now
  <2>7. Ring' = 1 .. Len(q)
    BY <2>2 DEF Ring, q
  <2>8. \A i, j \in Ring' : Before(i, j)' => q[i] < q[j]
    BY <2>4, <2>7
  <2>9. Len(q) <= C /\ ~(Len(q) < C)
    BY <1>1, <2>2
  <2> QED
    BY <1>6, <1>7, <2>2, <2>3, <2>6, <2>7, <2>8, <2>9 DEF RingInv, q, g, C
<1> QED
  BY <1>1, <1>8, <1>9

\* The least of two numbers.
LEMMA LesserOfTwo ==
    ASSUME NEW a \in Nat, NEW b \in Nat
    PROVE  Min({a, b}) = IF a <= b THEN a ELSE b
BY DEF Min

\* A quotient is as large as the dividend says.
LEMMA QuotientAtLeast ==
    ASSUME NEW a \in Nat, NEW d \in Nat \ {0}, NEW n \in Nat, n * d <= a
    PROVE  a \div d \in Nat /\ a \div d >= n
<1> DEFINE k == a \div d
           r == a % d
<1>1. k \in Nat /\ r \in 0 .. d - 1 /\ a = d * k + r
  OBVIOUS
<1> HIDE DEF k, r
<1>2. ASSUME k < n PROVE FALSE
  <2>1. PICK e \in Nat : n = k + 1 + e
    BY <1>1, <1>2, n - k - 1 \in Nat
  <2>2. n * d = d * k + d + e * d
    BY <1>1, <2>1
  <2>3. e * d \in Nat /\ d * k \in Nat
    BY <1>1, <2>1
  <2> QED
    BY <1>1, <2>2, <2>3
<1> QED
  BY <1>1, <1>2 DEF k

\* As many onsets as the density saturates at read as 255.
LEMMA DensitySaturates ==
    ASSUME NEW x \in Nat, x >= DensityMaxEvents, NEW now \in Nat \ {0}
    PROVE  Scaled(x, now) = 255
<1> DEFINE E == DensityMaxEvents
           W == DensityWindow
           m == Min({now, W})
<1>1. E \in Nat \ {0} /\ W \in Nat \ {0}
  BY DensityAssumption
<1> HIDE DEF E, W
<1>2. m \in Nat \ {0} /\ m <= W
  BY <1>1, LesserOfTwo
<1> HIDE DEF m
<1>3. PICK e \in Nat : x = E + e
  BY <1>1, x - E \in Nat DEF E
<1>4. PICK f \in Nat : W = m + f
  BY <1>1, <1>2, W - m \in Nat
<1>5. x * W = E * m + E * f + e * m + e * f
  BY <1>1, <1>2, <1>3, <1>4
<1>6. E * m \in Nat \ {0} /\ E * f \in Nat /\ e * m \in Nat /\ e * f \in Nat /\ x * W \in Nat
  BY <1>1, <1>2, <1>3, <1>4
<1> DEFINE d == E * m
           a == 255 * x * W
<1>7. a = 255 * (x * W)
  BY <1>1
<1>8. d \in Nat \ {0} /\ a \in Nat /\ 255 * d <= a
  BY <1>5, <1>6, <1>7
<1> HIDE DEF d, a
<1>9. a \div d \in Nat /\ a \div d >= 255
  BY <1>8, QuotientAtLeast
<1>10. Scaled(x, now) = Min({255, a \div d})
  BY DEF Scaled, a, d, m, E, W
<1> QED
  BY <1>9, <1>10, LesserOfTwo

\* What the ring has forgotten does not count: either all onsets in the window
\* are in the ring, or the ring is full of onsets in the window.
LEMMA RingCountsWindow ==
    ASSUME RingInv, NEW now \in Nat \ {0}, sounded \subseteq 1 .. now
    PROVE  DensityOf(events.ring, now)
              = Scaled(Cardinality({t \in sounded : t + DensityWindow >= now}), now)
<1> DEFINE r == events.ring
           C == DensityRingCap
           W == DensityWindow
           A == {i \in Ring : r[i] >= WindowStart(now)}
           B == {t \in sounded : t + W >= now}
<1>1. /\ r \in Seq(Nat) /\ Ring = 1 .. Len(r) /\ Len(r) \in Nat /\ C \in Nat \ {0}
      /\ Len(r) <= C /\ events.head \in 1 .. C /\ W \in Nat \ {0}
  BY DensityAssumption DEF RingInv, Ring
<1>2. \A i \in Ring : r[i] \in sounded /\ r[i] \in Nat
  BY <1>1 DEF RingInv
<1>3. \A i \in Ring : r[i] >= WindowStart(now) <=> r[i] + W >= now
  BY <1>1, <1>2 DEF WindowStart
<1>4. \A i, j \in Ring : r[i] = r[j] => i = j
  <2> SUFFICES ASSUME NEW i \in Ring, NEW j \in Ring, i < j, r[i] = r[j] PROVE FALSE
    BY <1>1
  <2>1. Before(i, j) \/ Before(j, i)
    BY <1>1 DEF Before
  <2> QED
    BY <1>2, <2>1 DEF RingInv
<1>5. IsFiniteSet(A) /\ Cardinality(A) \in Nat
  <2>1. IsFiniteSet(1 .. Len(r))
    BY <1>1, FS_Interval
  <2>2. A \in SUBSET (1 .. Len(r))
    BY <1>1
  <2> HIDE DEF A, r
  <2> QED
    BY <2>1, <2>2, FS_Subset, FS_CardinalityType
<1>6. IsFiniteSet(B) /\ Cardinality(B) \in Nat
  <2>1. IsFiniteSet(1 .. now)
    BY FS_Interval
  <2>2. B \in SUBSET (1 .. now)
    OBVIOUS
  <2> HIDE DEF B
  <2> QED
    BY <2>1, <2>2, FS_Subset, FS_CardinalityType
<1> DEFINE f == [i \in A |-> r[i]]
<1>7. f \in Injection(A, B)
  BY <1>2, <1>3, <1>4 DEF Injection, IsInjective
<1>8. Cardinality(A) <= Cardinality(B)
  <2> HIDE DEF A, B, f
  <2> QED
    BY <1>6, <1>7, FS_Injection
<1>9. DensityOf(r, now) = Scaled(Cardinality(A), now)
  BY DEF DensityOf, Ring
<1>10. CASE \A t \in B : \E i \in Ring : r[i] = t
  <2>1. f \in Surjection(A, B)
    <3>1. \A t \in B : \E i \in A : f[i] = t
      BY <1>3, <1>10
    <3> QED
      BY <1>7, <3>1 DEF Injection, Surjection
  <2>2. Cardinality(A) = Cardinality(B)
    <3> HIDE DEF A, B, f
    <3> QED
      BY <1>6, <1>7, <2>1, FS_Injection
  <2> QED
    BY <1>9, <2>2
<1>11. CASE \E t \in B : ~\E i \in Ring : r[i] = t
  <2>1. PICK t \in B : ~\E i \in Ring : r[i] = t
    BY <1>11
  <2>2. Len(r) = C /\ \A i \in Ring : t < r[i]
    BY <2>1 DEF RingInv
  <2>3. A = 1 .. C
    <3>1. t \in Nat /\ t + W >= now
      <4>1. t \in sounded /\ t + W >= now
        OBVIOUS
      <4>2. t \in 1 .. now
        BY <4>1
      <4> QED
        BY <4>1, <4>2
    <3>2. \A i \in Ring : r[i] + W >= now
      BY <1>1, <1>2, <2>2, <3>1
    <3>3. A = Ring
      BY <1>3, <3>2
    <3> QED
      BY <1>1, <2>2, <3>3
  <2>4. Cardinality(1 .. C) = C
    <3>1. 1 \in Int /\ C \in Int
      BY <1>1
    <3>2. Cardinality(1 .. C) = IF 1 > C THEN 0 ELSE C - 1 + 1
      BY <3>1, FS_Interval, Zenon
    <3> HIDE DEF C
    <3> QED
      BY <1>1, <3>2
  <2>5. Cardinality(A) = C
    BY <2>3, <2>4
  <2> HIDE DEF A, B
  <2>6. Cardinality(A) >= DensityMaxEvents /\ Cardinality(B) >= DensityMaxEvents
    BY <1>6, <1>8, <2>5, DensityAssumption
  <2> QED
    BY <1>5, <1>6, <1>9, <2>6, DensitySaturates DEF B
<1> QED
  BY <1>10, <1>11

\* For every number of detectors, every window and every ring that is no
\* shorter than the density saturates at: the density a show reads is that of
\* everything that sounded in the window.
THEOREM DensityIsTrue == OnsetSpec => []DensityTrue
<1>1. OnsetInit => OnsetInv
  <2> SUFFICES ASSUME OnsetInit PROVE OnsetInv
    OBVIOUS
  <2>1. /\ frame_now = 0 /\ sounded = {} /\ events = [ring |-> <<>>, head |-> 1]
        /\ events.ring = <<>> /\ events.head = 1
    BY DEF OnsetInit
  <2>2. Ring = {} /\ Len(events.ring) = 0 /\ events.ring \in Seq(Nat)
    BY <2>1 DEF Ring
  <2>3. RingInv
    BY <2>1, <2>2, DensityAssumption DEF RingInv
  <2> QED
    BY <2>1, <2>3 DEF OnsetInv
<1>2. OnsetInv /\ [OnsetNext]_onsetVars => OnsetInv'
  <2> SUFFICES ASSUME OnsetInv, [OnsetNext]_onsetVars PROVE OnsetInv'
    OBVIOUS
  <2>1. CASE OnsetFrame
    <3> DEFINE now == frame_now + 1
    <3>1. PICK magnitude \in [Onsets -> Magnitudes] :
             LET any_event == \E o \in Onsets : Fires(o, magnitude[o], now)
                 noted == IF any_event THEN Noted(now) ELSE events
             IN  /\ events' = noted
                 /\ density' = DensityOf(noted.ring, now)
                 /\ frame_now' = now
                 /\ sounded' = IF any_event THEN sounded \cup {now} ELSE sounded
      BY <2>1 DEF OnsetFrame
    <3>2. \/ events' = Noted(now) /\ sounded' = sounded \cup {now}
          \/ events' = events /\ sounded' = sounded
      BY <3>1
    <3>3. frame_now' = now /\ density' = DensityOf(events'.ring, now)
      BY <3>1
    <3>4. now \in Nat \ {0} /\ sounded' \subseteq 1 .. now
      <4>1. frame_now \in Nat /\ sounded \subseteq 1 .. frame_now
        BY DEF OnsetInv
      <4>2. sounded' \subseteq (1 .. frame_now) \cup {now}
        BY <3>2, <4>1
      <4> QED
        BY <4>1, <4>2
    <3>5. RingInv'
      <4>1. CASE events' = Noted(now) /\ sounded' = sounded \cup {now}
        BY <4>1, NotedKeepsRing
      <4>2. CASE events' = events /\ sounded' = sounded
        BY <4>2 DEF OnsetInv, RingInv, Ring, Before
      <4> QED
        BY <3>2, <4>1, <4>2
    <3> QED
      BY <3>3, <3>4, <3>5 DEF OnsetInv, DensityOf, WindowStart, Scaled
  <2>2. CASE UNCHANGED onsetVars
    BY <2>2 DEF onsetVars, OnsetInv, RingInv, Ring, Before,
            DensityOf, WindowStart, Scaled
  <2> QED
    BY <2>1, <2>2 DEF OnsetNext
<1>3. OnsetInv => DensityTrue
  <2> SUFFICES ASSUME OnsetInv, frame_now > 0
               PROVE  density = Scaled(Cardinality({t \in sounded :
                                          t + DensityWindow >= frame_now}), frame_now)
    BY DEF DensityTrue
  <2>1. frame_now \in Nat \ {0} /\ sounded \subseteq 1 .. frame_now /\ RingInv
    BY DEF OnsetInv
  <2> QED
    BY <2>1, RingCountsWindow DEF OnsetInv
<1> QED
  BY <1>1, <1>2, <1>3, PTL DEF OnsetSpec

-----------------------------------------------------------------------------
(* The fan-out of a Lume.                                                  *)

\* A pulse the relay has to air.
IrDue == surfaces.ir /\ surfaces.strip # "enabled" /\ For("ir", newest)

\* The slot holds the newest pulse; until the relay has aired it, the slot is
\* full, or about to be copied, or its copy is on the way to the relay.
FanInv ==
    /\ renders = [b \in {"strip", "ir"} |-> renders[b]]
    /\ renders.ir \in Nat
    /\ newest # NoCue =>
          /\ slot = newest
          /\ renders.strip = IF surfaces.strip = "enabled" /\ For("strip", newest) THEN 1 ELSE 0
          /\ IrDue => \/ renders.ir > 0
                      \/ in_slot
                      \/ fan_pc = "copy"
                      \/ fan_pc \in {"route", "fire"} /\ event = newest

\* What FanInv is about, but for the step of the main task.
cueVars == <<surfaces, in_slot, slot, event, newest, renders>>

\* A step that leaves the cue alone and is none of the three that carry it.
LEMMA CueStays ==
    ASSUME FanInv, UNCHANGED cueVars,
           fan_pc' = fan_pc \/ fan_pc \notin {"copy", "route", "fire"}
    PROVE  FanInv'
BY DEF FanInv, cueVars, IrDue, For

\* The strip has its pulse from the callback and no other, so a pulse in the
\* slot is the relay's: a strip is not served again, and the relay always is.
LEMMA ServedIsRelay ==
    /\ "strip" \notin Served
    /\ slot = newest /\ IrDue => "ir" \in Served
BY DEF Served, Deferred, InCallback, Traits, IrDue, For, Installed, Addressed, All, Light

\* Whatever lands between two steps of the main task, for every set of frames
\* and every host: the strip shows the newest LIGHT_PULSE meant for it once,
\* and the relay airs the newest one meant for bracelets.
THEOREM FanOutShowsNewest == FanSpec => []NewestPulseShown
<1>1. FanInit => FanInv
  BY DEF FanInit, FanInv
<1>2. FanInv /\ [FanNext]_fanVars => FanInv'
  <2> SUFFICES ASSUME FanInv, [FanNext]_fanVars PROVE FanInv'
    OBVIOUS
  <2> USE DEF slotVars, linkVars, textVars, cueVars
  <2>1. ASSUME NEW p \in Pulses, RecvPulse(p) PROVE FanInv'
    <3>1. /\ newest' = p /\ in_slot' = TRUE /\ slot' = p /\ UNCHANGED surfaces
          /\ renders' = [b \in DOMAIN renders |->
                IF b \in Installed /\ InCallback(b) /\ Addressed(b, p) /\ Renders(b)
                THEN 1 ELSE 0]
      BY <2>1 DEF RecvPulse
    <3>2. DOMAIN renders = {"strip", "ir"}
      BY DEF FanInv
    <3>3. /\ renders' = [b \in {"strip", "ir"} |-> renders'[b]]
          /\ renders'.ir \in Nat
          /\ renders'.strip = IF /\ "strip" \in Installed /\ InCallback("strip")
                                 /\ Addressed("strip", p) /\ Renders("strip")
                              THEN 1 ELSE 0
      BY <3>1, <3>2
    <3>4. (/\ "strip" \in Installed /\ InCallback("strip")
           /\ Addressed("strip", p) /\ Renders("strip"))
          <=> surfaces.strip = "enabled" /\ For("strip", p)
      BY DEF Installed, InCallback, Addressed, Renders, For, Traits, All, Light
    <3> QED
      BY <3>1, <3>3, <3>4 DEF FanInv, For
  <2>2. ASSUME NEW p \in Pulses, RecvWashPulse(p) PROVE FanInv'
    BY <2>2, CueStays DEF RecvWashPulse
  <2>3. ASSUME NEW w \in Washes, RecvWash(w) \/ RecvWashEnd(w) PROVE FanInv'
    BY <2>3, CueStays DEF RecvWash, RecvWashEnd
  <2>4. ASSUME NEW t \in Texts, RecvText(t) \/ RecvClear(t.group) PROVE FanInv'
    BY <2>4, CueStays DEF RecvText, RecvClear, DisplayHead
  <2>5. CASE RecvOther
    BY <2>5, CueStays DEF RecvOther, DisplayHead
  <2>6. CASE StartPass \/ ExpireText \/ PaintText \/ EndPaint
    BY <2>6, CueStays DEF StartPass, ExpireText, PaintText, EndPaint, At, Still
  <2>7. CASE TakeSlot
    BY <2>7 DEF TakeSlot, At, Still, FanInv, IrDue, For
  <2>8. CASE CopyEvent
    BY <2>8 DEF CopyEvent, At, Still, FanInv, IrDue, For
  <2>9. CASE RouteEvent
    <3>1. /\ UNCHANGED <<surfaces, newest, in_slot, slot, renders>> /\ fan_pc = "route"
          /\ Served # {} => fan_pc' = "fire" /\ event' = event
      BY <2>9, ServedIsRelay DEF RouteEvent, At, Still
    <3> QED
      BY <3>1, ServedIsRelay DEF FanInv, IrDue, For
  <2>10. CASE FireEvent
    <3>1. /\ UNCHANGED <<surfaces, newest, in_slot, slot>> /\ fan_pc = "fire"
          /\ renders' = IF "ir" \in Installed /\ event = newest
                        THEN [renders EXCEPT !.ir = Bump(@)] ELSE renders
      BY <2>10 DEF FireEvent, At, Still
    <3>2. IrDue => "ir" \in Installed
      BY DEF IrDue, Installed, Traits
    <3>3. Bump(renders.ir) \in Nat /\ Bump(renders.ir) > 0
      BY DEF FanInv, Bump
    <3> QED
      BY <3>1, <3>2, <3>3 DEF FanInv, IrDue, For
  <2>11. CASE RepaintRecovered \/ TestSignal
    BY <2>11, CueStays DEF RepaintRecovered, TestSignal, At, Still
  <2>12. CASE StartFallback \/ LightFallback \/ FadeFallback \/ DimFallback
    BY <2>12, CueStays DEF StartFallback, LightFallback, FadeFallback, DimFallback, At, Still
  <2>13. CASE FanClock
    BY <2>13, CueStays DEF FanClock
  <2>14. CASE UNCHANGED fanVars
    BY <2>14, CueStays DEF fanVars
  <2> QED
    BY <2>1, <2>2, <2>3, <2>4, <2>5, <2>6, <2>7, <2>8, <2>9, <2>10, <2>11, <2>12, <2>13,
       <2>14 DEF FanNext
<1>3. FanInv => NewestPulseShown
  BY DEF FanInv, NewestPulseShown, IrDue
<1> QED
  BY <1>1, <1>2, <1>3, PTL DEF FanSpec

-----------------------------------------------------------------------------
(* Recursion over the numbers up to n, for sums.                           *)

\* A set that holds 0 and with each number up to n its successor holds n.
LEMMA IntervalInduction ==
    ASSUME NEW n \in Nat, NEW T,
           0 \in T, \A i \in 1 .. n : i - 1 \in T => i \in T
    PROVE  n \in T
<1> SUFFICES ASSUME n \notin T
             PROVE  FALSE
  OBVIOUS
<1> DEFINE Missing == {i \in 0 .. n : i \notin T}
<1>1. Missing \subseteq Nat /\ Missing # {}
  OBVIOUS
<1> HIDE DEF Missing
<1>2. PICK i \in Missing : \A j \in Missing : <<j, i>> \notin OpToRel(<, Nat)
  BY <1>1, WFMin, NatLessThanWellFounded, Zenon
<1>3. \A j \in Missing : ~(j < i)
  BY <1>1, <1>2, Zenon DEF OpToRel
<1>4. i \in 0 .. n /\ i \notin T
  BY <1>2 DEF Missing
<1>5. i # 0 /\ i - 1 \in 0 .. n /\ i \in 1 .. n
  BY <1>4
<1>6. i - 1 \in T
  BY <1>3, <1>5 DEF Missing
<1> QED
  BY <1>4, <1>5, <1>6

\* f is what the steps make of a, one after the other.
Follows(f, n, a, step) == f[0] = a /\ \A i \in 1 .. n : f[i] = step[i][f[i - 1]]

\* Steps within a set can be followed from any of its elements.
LEMMA RecursionExists ==
    ASSUME NEW n \in Nat, NEW S, NEW a \in S, NEW step \in [1 .. n -> [S -> S]]
    PROVE  \E f \in [0 .. n -> S] : Follows(f, n, a, step)
<1> USE DEF Follows
<1> DEFINE Upto(k, f) == Follows(f, k, a, step)
           T == {k \in 0 .. n : \E f \in [0 .. n -> S] : Upto(k, f)}
<1>1. 0 \in T
  <2> DEFINE f == [i \in 0 .. n |-> a]
  <2>1. f \in [0 .. n -> S] /\ Upto(0, f) /\ 0 \in 0 .. n
    OBVIOUS
  <2> HIDE DEF f, Follows
  <2> QED
    BY <2>1
<1>2. ASSUME NEW k \in 1 .. n, k - 1 \in T
      PROVE  k \in T
  <2>1. PICK f \in [0 .. n -> S] : Upto(k - 1, f)
    BY <1>2
  <2> DEFINE v == step[k][f[k - 1]]
             g == [i \in 0 .. n |-> IF i = k THEN v ELSE f[i]]
  <2>2. v \in S
    OBVIOUS
  <2> HIDE DEF v
  <2>3. g \in [0 .. n -> S]
    BY <2>2
  <2>4. \A i \in 0 .. n : g[i] = IF i = k THEN v ELSE f[i]
    OBVIOUS
  <2> HIDE DEF g
  <2>5. g[0] = a
    BY <2>1, <2>4
  <2>6. ASSUME NEW i \in 1 .. k
        PROVE  g[i] = step[i][g[i - 1]]
    <3>1. i \in 0 .. n /\ i - 1 \in 0 .. n /\ i - 1 # k /\ (i # k => i \in 1 .. k - 1)
      OBVIOUS
    <3>2. g[i - 1] = f[i - 1]
      BY <2>4, <3>1
    <3>3. CASE i = k
      BY <2>4, <3>1, <3>2, <3>3 DEF v
    <3>4. CASE i # k
      BY <2>1, <2>4, <3>1, <3>2, <3>4
    <3> QED
      BY <3>3, <3>4
  <2>7. Upto(k, g) /\ k \in 0 .. n
    BY <2>5, <2>6
  <2> HIDE DEF Follows
  <2> QED
    BY <2>3, <2>7
<1> HIDE DEF T
<1>3. n \in T
  BY <1>1, <1>2, IntervalInduction, Zenon
<1> QED
  BY <1>3 DEF T

-----------------------------------------------------------------------------
(* The song.                                                               *)

\* A sum of energies is a number.
LEMMA TotalIsNat ==
    ASSUME NEW s \in Seq(Nat)
    PROVE  Total(s) \in Nat
<1> DEFINE n == Len(s)
           Sums(f) == f = [i \in 0 .. n |-> IF i = 0 THEN 0 ELSE f[i - 1] + s[i]]
           sum == CHOOSE f : Sums(f)
<1>1. Total(s) = sum[n]
  BY DEF Total
<1>2. n \in Nat /\ \A i \in 1 .. n : s[i] \in Nat /\ i - 1 \in 0 .. n
  OBVIOUS
<1> HIDE DEF n
<1>3. Sums(sum)
  <2> DEFINE step == [i \in 1 .. n |-> [x \in Nat |-> x + s[i]]]
  <2>1. step \in [1 .. n -> [Nat -> Nat]] /\ 0 \in Nat
    BY <1>2
  <2>2. \A i \in 1 .. n : \A x \in Nat : step[i][x] = x + s[i]
    OBVIOUS
  <2> HIDE DEF step
  <2>3. PICK f \in [0 .. n -> Nat] : Follows(f, n, 0, step)
    BY <1>2, <2>1, RecursionExists
  <2>4. \A i \in 1 .. n : f[i] = f[i - 1] + s[i]
    BY <1>2, <2>2, <2>3 DEF Follows
  <2>5. Sums(f)
    BY <1>2, <2>3, <2>4 DEF Follows
  <2> HIDE DEF Sums
  <2> QED
    BY <2>5
<1> HIDE DEF sum
<1> DEFINE T == {i \in 0 .. n : sum[i] \in Nat}
<1>4. 0 \in T
  BY <1>2, <1>3
<1>5. ASSUME NEW i \in 1 .. n, i - 1 \in T
      PROVE  i \in T
  <2>1. i \in 0 .. n /\ i # 0 /\ sum[i - 1] \in Nat
    BY <1>2, <1>5
  <2>2. sum[i] = sum[i - 1] + s[i] /\ s[i] \in Nat
    BY <1>2, <1>3, <2>1
  <2> QED
    BY <2>1, <2>2
<1> HIDE DEF T
<1>6. n \in T
  BY <1>2, <1>4, <1>5, IntervalInduction, Zenon
<1> QED
  BY <1>1, <1>6 DEF T

\* What the sums tell apart: a frame that is a drop is above the baseline.
LEMMA DropIsAbove ==
    ASSUME NEW recent \in Seq(Nat), IsDrop(recent)
    PROVE  AboveBaseline(recent)
<1> DEFINE short == Latest(recent, ShortWindow)
           x == Total(short) * Len(recent)
           y == Total(recent) * Len(short)
<1>1. short \in Seq(Nat)
  BY SongAssumption DEF Latest
<1>2. Total(short) \in Nat /\ Total(recent) \in Nat
  BY <1>1, TotalIsNat
<1>3. Len(short) \in Nat /\ Len(recent) \in Nat
  BY <1>1
<1>4. x \in Nat /\ y \in Nat
  BY <1>2, <1>3
<1>5. x * 5 > y * 9
  BY DEF IsDrop, MeansCompared
<1>6. x * 1 > y * 1
  BY <1>4, <1>5
<1> QED
  BY <1>6 DEF AboveBaseline, MeansCompared

\* The inductive invariant of SectionsDwell.  What the bass remembers: it may
\* fire a drop only after a dip.  What the section detector counts is no more
\* than what was heard: of the low frames, of the frames since a drop, of the
\* frames that spoke for its candidate.
BassRemembers ==
    /\ bass.recent \in Seq(Nat)
    /\ bass = [recent |-> bass.recent, armed_drop |-> bass.armed_drop,
               armed_breakdown |-> bass.armed_breakdown, age |-> bass.age]
    /\ bass.armed_drop => heard.dipped

SongTypes ==
    /\ song \in [seen : 0 .. SectionWarmup, current : Spoken \cup {"drop", "breakdown"},
                 candidate : Spoken \cup {"drop", "breakdown"},
                 streak : 0 .. TransitionFrames, low : 0 .. SustainFrames, hold : 0 .. DropHold]
    /\ heard.said \in Spoken
    /\ heard.since_drop \in 0 .. DropHold + 1
    /\ heard.low_run \in 0 .. SustainFrames
    /\ heard.said_run \in 0 .. TransitionFrames

CountsAreHeard ==
    /\ song.low <= heard.low_run
    /\ heard.since_drop + song.hold >= DropHold
    /\ song.hold > 0 => song.current = "drop"
    /\ song.streak > 0 => song.candidate = heard.said /\ song.streak <= heard.said_run
    /\ song.streak = 0 => song.candidate = song.current
    /\ song.seen < SectionWarmup => song.streak = 0 /\ song.low = 0

SongInv == BassRemembers /\ SongTypes /\ CountsAreHeard

Dwells ==
    song'.current # song.current =>
      \/ song'.current = "drop" /\ heard'.event = "drop" /\ heard.dipped
      \/ /\ song'.current = "breakdown"
         /\ heard'.low_run = SustainFrames /\ heard'.since_drop > DropHold
      \/ /\ song'.current = heard'.said /\ heard'.said_run = TransitionFrames
         /\ heard'.since_drop > DropHold

\* One frame, taken apart.
LEMMA FrameKeepsSong ==
    ASSUME SongInv, AudioFrameIn
    PROVE  SongInv' /\ Dwells
<1> USE DEF Dwells
<1>1. PICK level \in BassLevels, said \in Spoken, low \in BOOLEAN :
         LET recent == Latest(Append(bass.recent, level), LongWindow)
             after == BassAfter(recent)
         IN  /\ bass' = after.state
             /\ song' = SongAfter(said, low, after.event = "drop")
             /\ heard' = Heard(recent, said, low, after.event)
  BY DEF AudioFrameIn
<1> DEFINE recent == Latest(Append(bass.recent, level), LongWindow)
           fired == BassAfter(recent).event
           dropped == fired = "drop"
<1>2. recent \in Seq(Nat)
  BY SMTT(30), SongAssumption DEF Latest, SongInv, BassRemembers
<1>3. /\ bass' = BassAfter(recent).state
      /\ song' = SongAfter(said, low, dropped)
      /\ heard' = Heard(recent, said, low, fired)
  BY <1>1
<1> HIDE DEF recent
<1>4. dropped => AboveBaseline(recent) /\ bass.armed_drop
  BY <1>2, DropIsAbove DEF BassAfter, EventOf, Rearmed
<1>5. BassRemembers'
  BY <1>2, <1>3 DEF BassAfter, Rearmed, Heard, SongInv, BassRemembers
<1> HIDE DEF fired
<1>6. /\ heard'.event = fired /\ heard'.said = said
      /\ heard'.since_drop = IF dropped THEN 1 ELSE UpTo(heard.since_drop + 1, DropHold + 1)
      /\ heard'.low_run = IF low THEN UpTo(heard.low_run + 1, SustainFrames) ELSE 0
      /\ heard'.said_run =
            IF said = heard.said THEN UpTo(heard.said_run + 1, TransitionFrames) ELSE 1
  BY <1>3 DEF Heard
<1> DEFINE hold == IF dropped THEN DropHold ELSE song.hold
           streak_low == LowStreak(low)
           candidate == IF streak_low >= SustainFrames THEN "breakdown" ELSE said
           next == Weighed(candidate)
<1>7. SongTypes /\ CountsAreHeard /\ heard.dipped \in {heard.dipped}
  BY DEF SongInv
<1>8. /\ song.low <= heard.low_run /\ song.low \in 0 .. SustainFrames
      /\ streak_low \in 0 .. SustainFrames
      /\ streak_low <= heard'.low_run /\ heard'.low_run \in 0 .. SustainFrames
  BY <1>6, <1>7, SongAssumption DEF SongTypes, CountsAreHeard, LowStreak, UpTo
<1>9. /\ heard'.since_drop \in 0 .. DropHold + 1
      /\ dropped => heard'.since_drop = 1
      /\ ~dropped => heard'.since_drop >= heard.since_drop + 1 \/ heard'.since_drop = DropHold + 1
  BY <1>6, <1>7, SongAssumption DEF SongTypes, UpTo
<1>10. /\ heard'.said = said /\ said \in Spoken /\ heard'.said_run \in 0 .. TransitionFrames
       /\ heard'.said_run >= 1
       /\ said = heard.said =>
             \/ heard'.said_run >= heard.said_run + 1
             \/ heard'.said_run = TransitionFrames
  BY <1>6, <1>7, SongAssumption DEF SongTypes, UpTo
<1> HIDE DEF streak_low
<1>11. CASE hold > 0
  <2>1. song' = HeldDrop(hold)
    BY <1>3, <1>11 DEF SongAfter
  <2>2. hold \in 0 .. DropHold /\ Seen \in 0 .. SectionWarmup
    BY <1>7, SongAssumption DEF SongTypes, Seen
  <2>3. SongTypes'
    BY <1>8, <1>9, <1>10, <1>11, <2>1, <2>2, SongAssumption DEF SongTypes, HeldDrop
  <2>4. CountsAreHeard'
    BY <1>7, <1>8, <1>9, <1>11, <2>1, <2>2, SongAssumption DEF CountsAreHeard, SongTypes, HeldDrop
  <2>5. song'.current = "drop" /\ (~dropped => song.current = "drop")
    BY <1>7, <1>11, <2>1 DEF CountsAreHeard, HeldDrop
  <2> QED
    BY <1>4, <1>5, <1>6, <2>3, <2>4, <2>5 DEF SongInv, BassRemembers
<1>12. CASE ~(hold > 0) /\ Seen < SectionWarmup
  <2>1. song' = [song EXCEPT !.seen = Seen, !.hold = 0]
    BY <1>3, <1>12 DEF SongAfter
  <2>2. Seen \in 0 .. SectionWarmup /\ song.seen < SectionWarmup /\ ~dropped /\ song.hold = 0
    BY <1>7, <1>12, SongAssumption DEF SongTypes, Seen
  <2>3. SongTypes' /\ song'.current = song.current
    BY <1>7, <1>8, <1>9, <1>10, <2>1, <2>2 DEF SongTypes
  <2>4. CountsAreHeard'
    BY <1>7, <1>8, <1>9, <2>1, <2>2, SongAssumption DEF CountsAreHeard, SongTypes
  <2> QED
    BY <1>5, <2>3, <2>4 DEF SongInv
<1>13. CASE ~(hold > 0) /\ ~(Seen < SectionWarmup)
  <2>1. song' = [seen |-> Seen, current |-> next.current, candidate |-> next.candidate,
                 streak |-> next.streak, low |-> streak_low, hold |-> 0]
    BY <1>3, <1>13 DEF SongAfter, streak_low
  <2>2. Seen \in 0 .. SectionWarmup /\ ~dropped /\ song.hold = 0
    BY <1>7, <1>13, SongAssumption DEF SongTypes, Seen
  <2>3. heard'.since_drop > DropHold
    BY <1>7, <1>9, <2>2, SongAssumption DEF CountsAreHeard, SongTypes
  <2>4. song.streak > 0 /\ said = song.candidate =>
           heard'.said_run >= song.streak + 1 \/ heard'.said_run = TransitionFrames
    BY <1>7, <1>10 DEF CountsAreHeard, SongTypes
  <2>5. candidate = "breakdown" => heard'.low_run = SustainFrames
    BY <1>8, <1>10, SongAssumption DEF Spoken
  <2>6. candidate \in Spoken \cup {"breakdown"} /\ (candidate # "breakdown" => candidate = said)
    BY <1>10
  <2> HIDE DEF candidate
  <2>7. CASE candidate = song.current
    <3>1. next = [current |-> song.current, candidate |-> song.current, streak |-> 0]
      BY <2>7 DEF Weighed
    <3>2. SongTypes'
      BY <1>7, <1>8, <1>9, <1>10, <2>1, <2>2, <3>1, SongAssumption DEF SongTypes
    <3>3. CountsAreHeard' /\ song'.current = song.current
      BY <1>8, <1>9, <1>13, <2>1, <2>2, <2>3, <3>1, SongAssumption DEF CountsAreHeard
    <3> QED
      BY <1>5, <3>2, <3>3 DEF SongInv
  <2>8. CASE candidate # song.current
    <3> DEFINE again == candidate = song.candidate
               streak == IF again THEN song.streak + 1 ELSE 1
    <3>1. song.streak \in 0 .. TransitionFrames /\ (again => song.streak > 0)
      BY <1>7, <2>8 DEF SongTypes, CountsAreHeard
    <3>2. CASE candidate = "breakdown" \/ (again /\ streak >= TransitionFrames)
      <4>1. next = Committed(candidate)
        BY <2>8, <3>2 DEF Weighed
      <4>2. SongTypes'
        BY <1>8, <1>9, <1>10, <2>1, <2>2, <2>6, <4>1, SongAssumption DEF SongTypes, Committed
      <4>3. CountsAreHeard' /\ song'.current = candidate
        BY <1>8, <1>9, <1>13, <2>1, <2>2, <2>3, <4>1, SongAssumption
           DEF CountsAreHeard, Committed
      <4>4. candidate # "breakdown" => heard'.said_run = TransitionFrames
        BY <1>10, <2>4, <2>6, <3>1, <3>2, SongAssumption
      <4> QED
        BY <1>5, <1>10, <2>3, <2>5, <2>6, <4>2, <4>3, <4>4 DEF SongInv
    <3>3. CASE ~(candidate = "breakdown" \/ (again /\ streak >= TransitionFrames))
      <4>1. next = [current |-> song.current, candidate |-> candidate, streak |-> streak]
        BY <2>8, <3>3 DEF Weighed
      <4>2. streak \in 1 .. TransitionFrames
        BY <3>1, <3>3, SongAssumption
      <4>3. candidate = said /\ streak <= heard'.said_run
        BY <1>10, <2>4, <2>6, <3>1, <3>3, <4>2
      <4> HIDE DEF streak, next
      <4>4. SongTypes'
        BY <1>7, <1>8, <1>9, <1>10, <2>1, <2>2, <2>6, <4>1, <4>2, SongAssumption DEF SongTypes
      <4>5. CountsAreHeard' /\ song'.current = song.current
        BY <1>8, <1>9, <1>10, <1>13, <2>1, <2>2, <2>3, <4>1, <4>2, <4>3, SongAssumption
           DEF CountsAreHeard
      <4> QED
        BY <1>5, <4>4, <4>5 DEF SongInv
    <3> QED
      BY <3>2, <3>3
  <2> QED
    BY <2>7, <2>8
<1> QED
  BY <1>11, <1>12, <1>13

\* No flicker, for every warm-up, window, cooldown and hold: what replaces a
\* section is a drop after a dip, a sustained low or a section spoken for long
\* enough (process() of both detectors).
THEOREM SectionsAlwaysDwell == SongSpec => SectionsDwell
<1>1. SongInit => SongInv
  BY SongAssumption
     DEF SongInit, SongInv, BassRemembers, SongTypes, CountsAreHeard, Spoken
<1>2. SongInv /\ UNCHANGED songVars => SongInv'
  BY DEF SongInv, BassRemembers, SongTypes, CountsAreHeard, songVars
<1>3. SongInv /\ [SongNext]_songVars => [Dwells]_songVars
  BY FrameKeepsSong DEF SongNext
<1>4. SectionsDwell <=> [][Dwells]_songVars
  BY DEF SectionsDwell, Dwells
<1> QED
  BY <1>1, <1>2, <1>3, <1>4, FrameKeepsSong, PTL DEF SongSpec, SongNext

-----------------------------------------------------------------------------
(* The receiver of config writes.                                          *)

\* A bag as its encoder leaves it: the count is that of its entries, and its
\* bytes begin with it.
Tlvs == [count : Nat, entries : Seq(Entries), size : Nat \ {0}]
WholeBag(bag) == bag \in Tlvs /\ bag.count = Len(bag.entries)

\* One more entry, or one that does not fit.
LEMMA AddEntryKeeps ==
    ASSUME NEW bag \in Tlvs, NEW e \in Entries, NEW room
    PROVE  /\ AddEntry(bag, e, room) \in Tlvs
           /\ bag.count = Len(bag.entries) =>
                 AddEntry(bag, e, room).count = Len(AddEntry(bag, e, room).entries)
<1>1. ValueLength(e) \in Nat /\ KeyLength[e.key] \in Nat
  <2>1. e.key \in DOMAIN KeyLength /\ e.value \in Nat
    BY DEF Entries
  <2>2. ValueLength(e) \in Nat
    BY <2>1 DEF ValueLength
  <2>3. KeyLength[e.key] \in Nat
    BY <2>1 DEF KeyLength
  <2> QED
    BY <2>2, <2>3
<1>2. EntrySize(e) \in Nat
  BY <1>1 DEF EntrySize
<1>3. CASE bag.size + EntrySize(e) > room
  BY <1>3 DEF AddEntry
<1>4. CASE ~(bag.size + EntrySize(e) > room)
  <2> DEFINE next == [count |-> bag.count + 1, entries |-> Append(bag.entries, e),
                      size |-> bag.size + EntrySize(e)]
  <2>1. AddEntry(bag, e, room) = next
    BY <1>4 DEF AddEntry
  <2>2. next \in Tlvs
    BY <1>2 DEF Tlvs
  <2>3. bag.count = Len(bag.entries) => next.count = Len(next.entries)
    BY DEF Tlvs
  <2> QED
    BY <2>1, <2>2, <2>3
<1> QED
  BY <1>3, <1>4

\* The encoder counts the entries it has written, and no others.
LEMMA BagIsCounted ==
    ASSUME NEW entries \in Seq(Entries), NEW room
    PROVE  WholeBag(BagOf(entries, room))
<1> DEFINE n == Len(entries)
           Adds(f) == f = [i \in 0 .. n |-> IF i = 0 THEN EmptyTlv
                                            ELSE AddEntry(f[i - 1], entries[i], room)]
           bag == CHOOSE f : Adds(f)
<1>1. BagOf(entries, room) = bag[n]
  BY DEF BagOf
<1>2. n \in Nat /\ \A i \in 1 .. n : entries[i] \in Entries /\ i - 1 \in 0 .. n
  OBVIOUS
<1>3. EmptyTlv \in Tlvs /\ WholeBag(EmptyTlv)
  BY DEF EmptyTlv, Tlvs, WholeBag
<1> HIDE DEF n
<1>4. Adds(bag)
  <2> DEFINE step == [i \in 1 .. n |-> [b \in Tlvs |-> AddEntry(b, entries[i], room)]]
  <2>1. step \in [1 .. n -> [Tlvs -> Tlvs]]
    BY <1>2, AddEntryKeeps
  <2>2. \A i \in 1 .. n : \A b \in Tlvs : step[i][b] = AddEntry(b, entries[i], room)
    OBVIOUS
  <2> HIDE DEF step
  <2>3. PICK f \in [0 .. n -> Tlvs] : Follows(f, n, EmptyTlv, step)
    BY <1>2, <1>3, <2>1, RecursionExists
  <2>4. \A i \in 1 .. n : f[i] = AddEntry(f[i - 1], entries[i], room)
    BY <1>2, <2>2, <2>3 DEF Follows
  <2>5. Adds(f)
    BY <1>2, <2>3, <2>4 DEF Follows
  <2> HIDE DEF Adds
  <2> QED
    BY <2>5
<1> HIDE DEF bag
<1> DEFINE T == {i \in 0 .. n : WholeBag(bag[i])}
<1>5. 0 \in T
  BY <1>2, <1>3, <1>4
<1>6. ASSUME NEW i \in 1 .. n, i - 1 \in T
      PROVE  i \in T
  <2>1. bag[i] = AddEntry(bag[i - 1], entries[i], room)
    BY <1>2, <1>4
  <2>2. WholeBag(bag[i - 1]) /\ entries[i] \in Entries
    BY <1>2, <1>6
  <2>3. WholeBag(bag[i])
    BY <2>1, <2>2, AddEntryKeeps DEF WholeBag
  <2> QED
    BY <1>2, <2>3
<1> HIDE DEF T
<1>7. n \in T
  BY <1>2, <1>5, <1>6, IntervalInduction, Zenon
<1> QED
  BY <1>1, <1>7 DEF T

Settled == [LumeSettings -> Nat \cup {Absent}]
LumeSlot(key) == NvsKeys("Lume")[key]

\* Each key of a Lume has a setting of its own.
LEMMA LumeSlots ==
    /\ DOMAIN NvsKeys("Lume") = {"group", "led_power", "channel_pref", "strip_chain",
                                 "strip_group_size", "pair_win_s", "friendly_name"}
    /\ LumeSlot("group") = "slv_group" /\ LumeSlot("led_power") = "strip_bri"
    /\ LumeSlot("channel_pref") = "slv_chan" /\ LumeSlot("strip_chain") = "strip_cnt"
    /\ LumeSlot("strip_group_size") = "strip_grp" /\ LumeSlot("pair_win_s") = "pair_win_s"
    /\ LumeSlot("friendly_name") = "friendly_name"
BY DEF NvsKeys, LumeKeys, LumeSlot

\* Every save of a Lume's setting stores, and what it stored is what loads.
LEMMA SavedLoads ==
    ASSUME NEW key \in DOMAIN NvsKeys("Lume"), NEW v \in Nat
    PROVE  LET stored == Saved(LumeSlot(key), v)
           IN  /\ stored \in Nat \cup {Absent} /\ stored # Refused
               /\ {l.value : l \in Loads(LumeSlot(key), stored)}
                     = {IF stored = Absent THEN 0 ELSE stored}
<1> DEFINE stored == Saved(LumeSlot(key), v)
           value == IF stored = Absent THEN 0 ELSE stored
<1> SUFFICES /\ stored \in Nat \cup {Absent}
             /\ \A r \in Rolls : Load(LumeSlot(key), stored, r).value = value
  <2>1. ASSUME stored \in Nat \cup {Absent},
               \A r \in Rolls : Load(LumeSlot(key), stored, r).value = value
        PROVE  {l.value : l \in Loads(LumeSlot(key), stored)} = {value}
    <3>1. PICK r \in Rolls : TRUE
      BY PersistenceAssumption
    <3> QED
      BY <2>1, <3>1, Zenon DEF Loads
  <2>2. Refused \notin Nat \cup {Absent}
    BY PersistenceAssumption
  <2> HIDE DEF value
  <2>3. ASSUME stored \in Nat \cup {Absent},
               \A r \in Rolls : Load(LumeSlot(key), stored, r).value = value
        PROVE  stored # Refused
    BY <2>2, <2>3
  <2> HIDE DEF stored
  <2> QED
    BY <2>1, <2>3, Zenon DEF value, stored
<1>1. CASE key = "group"
  <2>1. stored = v
    BY <1>1, LumeSlots DEF Saved, Flags, FlagDefault
  <2>2. \A r \in Rolls : Load(LumeSlot(key), stored, r).value = v
    BY <1>1, <2>1, LumeSlots, PersistenceAssumption DEF Load, LoadGroup, Kept, Flags, FlagDefault
  <2> QED
    BY <2>1, <2>2, PersistenceAssumption
<1>2. CASE key = "led_power"
  <2>1. stored = Clip(0, v, 100)
    BY <1>2, LumeSlots DEF Saved, Flags, FlagDefault
  <2>2. \A r \in Rolls : Load(LumeSlot(key), stored, r).value = ReadBrightness(stored)
    BY <1>2, LumeSlots DEF Load, Kept, Flags, FlagDefault
  <2> QED
    BY <2>1, <2>2, PersistenceAssumption DEF Clip, ReadBrightness, Or
<1>3. CASE key = "channel_pref"
  <2>1. stored = OneOf(LumeChannels, v, 0)
    BY <1>3, LumeSlots DEF Saved, Flags, FlagDefault
  <2>2. \A r \in Rolls : Load(LumeSlot(key), stored, r).value = ReadLumeChannel(stored)
    BY <1>3, LumeSlots DEF Load, Kept, Flags, FlagDefault
  <2> QED
    BY <2>1, <2>2, PersistenceAssumption DEF OneOf, ReadLumeChannel, Or, LumeChannels
<1>4. CASE key = "strip_chain"
  <2>1. stored = StripLength(v)
    BY <1>4, LumeSlots DEF Saved, Flags, FlagDefault
  <2>2. \A r \in Rolls : Load(LumeSlot(key), stored, r).value = ReadStripLength(stored)
    BY <1>4, LumeSlots DEF Load, Kept, Flags, FlagDefault
  <2> QED
    BY <2>1, <2>2, PersistenceAssumption DEF Clip, StripLength, ReadStripLength, Or
<1>5. CASE key = "strip_group_size"
  <2>1. stored = Clip(1, v, 255)
    BY <1>5, LumeSlots DEF Saved, Flags, FlagDefault
  <2>2. \A r \in Rolls : Load(LumeSlot(key), stored, r).value = ReadStripGroup(stored)
    BY <1>5, LumeSlots DEF Load, Kept, Flags, FlagDefault
  <2> QED
    BY <2>1, <2>2, PersistenceAssumption DEF Clip, ReadStripGroup, Or
<1>6. CASE key = "pair_win_s"
  <2>1. stored = Clip(5, v, 255)
    BY <1>6, LumeSlots DEF Saved, Flags, FlagDefault
  <2>2. \A r \in Rolls : Load(LumeSlot(key), stored, r).value = ReadPairWindow(stored)
    BY <1>6, LumeSlots DEF Load, Kept, Flags, FlagDefault
  <2> QED
    BY <2>1, <2>2, PersistenceAssumption DEF Clip, ReadPairWindow, Or
<1>7. CASE key = "friendly_name"
  <2>1. stored = SaveName(v)
    BY <1>7, LumeSlots DEF Saved, Flags, FlagDefault
  <2>2. \A r \in Rolls : Load(LumeSlot(key), stored, r).value = ReadName(stored)
    BY <1>7, LumeSlots DEF Load, Kept, Flags, FlagDefault
  <2> QED
    BY <2>1, <2>2, PersistenceAssumption DEF Clip, SaveName, ReadName, Or
<1> QED
  BY <1>1, <1>2, <1>3, <1>4, <1>5, <1>6, <1>7, LumeSlots

\* Of the first i entries es, each key that is stored holds the last of them.
Told(es, key, i, j) ==
    /\ j \in 1 .. i /\ es[j].key = key /\ es[j].typed
    /\ \A k \in 1 .. i : es[k].key = key /\ es[k].typed => k <= j
HoldsLast(kept, es, i) ==
    \A key \in DOMAIN NvsKeys("Lume") : \A j \in 1 .. i :
        Told(es, key, i, j) => kept[LumeSlot(key)] = Saved(LumeSlot(key), es[j].value)

\* One entry more.
LEMMA ApplyEntryKeeps ==
    ASSUME NEW i \in Nat \ {0}, NEW es \in [1 .. i -> Entries],
           NEW done \in [nvs : Settled, flagged : BOOLEAN]
    PROVE  LET next == ApplyEntry(done, "Lume", es[i])
           IN  /\ next \in [nvs : Settled, flagged : BOOLEAN]
               /\ HoldsLast(done.nvs, es, i - 1) => HoldsLast(next.nvs, es, i)
<1> DEFINE e == es[i]
           next == ApplyEntry(done, "Lume", e)
           known == e.key \in DOMAIN NvsKeys("Lume")
<1>1. e \in Entries /\ e.value \in Nat /\ e.typed \in BOOLEAN /\ i \in 1 .. i
  BY DEF Entries
<1>2. \A j \in 1 .. i : j # i => j \in 1 .. i - 1
  OBVIOUS
<1>3. CASE ~known \/ ~e.typed
  <2>1. next.nvs = done.nvs /\ next \in [nvs : Settled, flagged : BOOLEAN]
    <3>1. CASE ~known
      BY <3>1 DEF ApplyEntry
    <3>2. CASE known /\ ~e.typed
      BY <3>2 DEF ApplyEntry, OutOfRange
    <3> QED
      BY <1>3, <3>1, <3>2
  <2>2. ASSUME HoldsLast(done.nvs, es, i - 1), NEW key \in DOMAIN NvsKeys("Lume"),
               NEW j \in 1 .. i, Told(es, key, i, j)
        PROVE  done.nvs[LumeSlot(key)] = Saved(LumeSlot(key), es[j].value)
    <3>1. j # i
      BY <1>3, <2>2 DEF Told
    <3>2. j \in 1 .. i - 1 /\ Told(es, key, i - 1, j)
      BY <1>2, <2>2, <3>1 DEF Told
    <3> QED
      BY <2>2, <3>2 DEF HoldsLast
  <2> QED
    BY <2>1, <2>2 DEF HoldsLast
<1>4. CASE known /\ e.typed
  <2> DEFINE place == LumeSlot(e.key)
             v == Saved(place, e.value)
  <2>1. v \in Nat \cup {Absent} /\ v # Refused /\ place \in LumeSettings
    BY <1>1, <1>4, SavedLoads, LumeSlots DEF LumeSettings
  <2>2. ~OutOfRange("Lume", e)
    BY <1>4, LumeSlots DEF OutOfRange
  <2>3. next = [done EXCEPT !.nvs = [done.nvs EXCEPT ![place] = v]]
    BY <1>4, <2>1, <2>2 DEF ApplyEntry, Save, LumeSlot
  <2> HIDE DEF v, place
  <2>4. next \in [nvs : Settled, flagged : BOOLEAN]
    BY <2>1, <2>3 DEF Settled
  <2>5. /\ next.nvs[place] = v
        /\ \A s \in LumeSettings : s # place => next.nvs[s] = done.nvs[s]
    BY <2>1, <2>3 DEF Settled
  <2>6. ASSUME HoldsLast(done.nvs, es, i - 1), NEW key \in DOMAIN NvsKeys("Lume"),
               NEW j \in 1 .. i, Told(es, key, i, j)
        PROVE  next.nvs[LumeSlot(key)] = Saved(LumeSlot(key), es[j].value)
    <3>1. CASE j = i
      BY <2>5, <2>6, <3>1 DEF Told, v, place
    <3>2. CASE j # i
      <4>1. j \in 1 .. i - 1 /\ Told(es, key, i - 1, j)
        BY <1>2, <2>6, <3>2 DEF Told
      <4>2. key # e.key
        BY <1>1, <1>2, <1>4, <2>6, <3>2 DEF Told
      <4>3. LumeSlot(key) # place /\ LumeSlot(key) \in LumeSettings
        BY <1>4, <4>2, LumeSlots DEF place, LumeSettings
      <4> QED
        BY <2>5, <2>6, <4>1, <4>3 DEF HoldsLast
    <3> QED
      BY <3>1, <3>2
  <2> QED
    BY <2>4, <2>6 DEF HoldsLast
<1> QED
  BY <1>1, <1>3, <1>4

\* A whole bag.
LEMMA BagIsStored ==
    ASSUME NEW before \in Settled, NEW bag, WholeBag(bag)
    PROVE  /\ WalkEnds(bag) /\ Walked(bag) = bag.entries
           /\ ApplyBag(before, "Lume", bag).nvs \in Settled
           /\ HoldsLast(ApplyBag(before, "Lume", bag).nvs, bag.entries, Len(bag.entries))
<1> DEFINE es == bag.entries
           n == Len(es)
           Dones == [nvs : Settled, flagged : BOOLEAN]
           start == [nvs |-> before, flagged |-> FALSE]
<1>1. /\ es \in Seq(Entries) /\ n \in Nat /\ bag.count = n /\ bag.size \in Nat \ {0}
      /\ start \in Dones
  BY DEF WholeBag, Tlvs
<1>2. WalkEnds(bag) /\ Walked(bag) = es
  BY <1>1 DEF WalkEnds, Walked
<1> DEFINE Applies(f) == f = [i \in 0 .. n |-> IF i = 0 THEN start
                                               ELSE ApplyEntry(f[i - 1], "Lume", es[i])]
           done == CHOOSE f : Applies(f)
<1>3. ApplyBag(before, "Lume", bag) = done[n]
  BY <1>2 DEF ApplyBag
<1>4. \A i \in 1 .. n : /\ es[i] \in Entries /\ i - 1 \in 0 .. n /\ i \in Nat \ {0}
                        /\ [j \in 1 .. i |-> es[j]] \in [1 .. i -> Entries]
  BY <1>1
<1> HIDE DEF n, es, start
<1>5. ASSUME NEW i \in 1 .. n, NEW d \in Dones
      PROVE  /\ ApplyEntry(d, "Lume", es[i]) \in Dones
             /\ HoldsLast(d.nvs, es, i - 1)
                   => HoldsLast(ApplyEntry(d, "Lume", es[i]).nvs, es, i)
  <2> DEFINE some == [j \in 1 .. i |-> es[j]]
  <2>1. some \in [1 .. i -> Entries] /\ i \in Nat \ {0}
    BY <1>4
  <2>2. \A j \in 1 .. i : some[j] = es[j]
    OBVIOUS
  <2>3. i \in 1 .. i /\ \A j \in 1 .. i - 1 : j \in 1 .. i
    BY <2>1
  <2> HIDE DEF some
  <2>4. some[i] = es[i]
    BY <2>2, <2>3
  <2>5. \A a : /\ HoldsLast(a, some, i - 1) <=> HoldsLast(a, es, i - 1)
               /\ HoldsLast(a, some, i) <=> HoldsLast(a, es, i)
    BY <2>2, <2>3 DEF HoldsLast, Told
  <2> QED
    BY <2>1, <2>4, <2>5, ApplyEntryKeeps
<1>6. Applies(done)
  <2> DEFINE step == [i \in 1 .. n |-> [d \in Dones |-> ApplyEntry(d, "Lume", es[i])]]
  <2>1. step \in [1 .. n -> [Dones -> Dones]]
    BY <1>5
  <2>2. \A i \in 1 .. n : \A d \in Dones : step[i][d] = ApplyEntry(d, "Lume", es[i])
    OBVIOUS
  <2> HIDE DEF step, Dones
  <2>3. PICK f \in [0 .. n -> Dones] : Follows(f, n, start, step)
    BY <1>1, <2>1, RecursionExists
  <2>4. \A i \in 1 .. n : f[i] = ApplyEntry(f[i - 1], "Lume", es[i])
    BY <1>4, <2>2, <2>3 DEF Follows
  <2>5. Applies(f)
    BY <1>1, <2>3, <2>4 DEF Follows
  <2> HIDE DEF Applies
  <2> QED
    BY <2>5
<1> HIDE DEF done, Dones
<1> DEFINE T == {i \in 0 .. n : done[i] \in Dones /\ HoldsLast(done[i].nvs, es, i)}
<1>7. 0 \in T
  BY <1>1, <1>6 DEF HoldsLast
<1>8. ASSUME NEW i \in 1 .. n, i - 1 \in T
      PROVE  i \in T
  <2>1. done[i] = ApplyEntry(done[i - 1], "Lume", es[i])
    BY <1>1, <1>4, <1>6
  <2>2. done[i - 1] \in Dones /\ HoldsLast(done[i - 1].nvs, es, i - 1) /\ i \in 0 .. n
    BY <1>1, <1>8
  <2> QED
    BY <1>5, <2>1, <2>2
<1> HIDE DEF T
<1>9. n \in T
  BY <1>1, <1>7, <1>8, IntervalInduction, Zenon
<1>10. done[n] \in Dones /\ HoldsLast(done[n].nvs, es, n)
  BY <1>9 DEF T
<1> QED
  BY <1>2, <1>3, <1>10 DEF es, n, Dones

\* A key that is given is given a last time.
LEMMA LastIsGiven ==
    ASSUME NEW bag, WholeBag(bag), NEW key,
           \E i \in 1 .. Len(bag.entries) : bag.entries[i].key = key /\ bag.entries[i].typed
    PROVE  \E j \in 1 .. Len(bag.entries) :
               Told(bag.entries, key, Len(bag.entries), j) /\ LastOf(bag, key) = bag.entries[j]
<1> DEFINE es == bag.entries
           n == Len(es)
           Gives(i) == es[i].key = key /\ es[i].typed
           T == {i \in 0 .. n : (\E j \in 1 .. i : Gives(j))
                                   => \E j \in 1 .. i : Told(es, key, i, j)}
<1>1. es \in Seq(Entries) /\ n \in Nat /\ DOMAIN es = 1 .. n
  BY DEF WholeBag, Tlvs
<1> HIDE DEF es, n
<1>2. 0 \in T
  BY <1>1
<1>3. ASSUME NEW i \in 1 .. n, i - 1 \in T
      PROVE  i \in T
  <2>1. i \in 0 .. n /\ i \in 1 .. i /\ \A j \in 1 .. i : j <= i /\ (j # i => j \in 1 .. i - 1)
    BY <1>1
  <2>2. \A j \in 1 .. i - 1 : j \in 1 .. i
    BY <1>1
  <2>3. CASE Gives(i)
    BY <2>1, <2>3 DEF Told
  <2>4. CASE ~Gives(i)
    <3>1. \A j \in 1 .. i - 1 : Told(es, key, i - 1, j) => Told(es, key, i, j)
      BY <2>1, <2>2, <2>4 DEF Told
    <3> QED
      BY <1>3, <2>1, <2>2, <2>4, <3>1
  <2> QED
    BY <2>3, <2>4
<1> HIDE DEF T
<1>4. n \in T
  BY <1>1, <1>2, <1>3, IntervalInduction, Zenon
<1>5. \E j \in 1 .. n : Told(es, key, n, j)
  BY <1>4 DEF T, n, es
<1> DEFINE P(i) == /\ es[i].key = key /\ es[i].typed
                   /\ \A j \in DOMAIN es : es[j].key = key /\ es[j].typed => j <= i
<1>6. \A i \in DOMAIN es : P(i) <=> Told(es, key, n, i)
  BY <1>1 DEF Told
<1>7. LastOf(bag, key) = es[CHOOSE i \in DOMAIN es : P(i)]
  BY DEF LastOf, es
<1> HIDE DEF P
<1>8. \E i \in DOMAIN es : P(i)
  BY <1>1, <1>5, <1>6
<1> DEFINE j == CHOOSE i \in DOMAIN es : P(i)
<1>9. j \in DOMAIN es /\ P(j)
  BY <1>8
<1> HIDE DEF j
<1>10. j \in 1 .. n /\ Told(es, key, n, j) /\ LastOf(bag, key) = es[j]
  BY <1>1, <1>6, <1>7, <1>9 DEF j
<1> QED
  BY <1>10 DEF es, n

\* The inductive invariant.  What the Lume keeps are numbers; a write that is
\* on the air as it was sent carries a bag its encoder has counted; and an
\* answer is that of the last step, to a bag that was stored whole.
Written(made) == made.type = "ConfigWrite" => WholeBag(made.write.bag)

Answered(rep, kept) ==
    rep.result = "Accepted" =>
        /\ WholeBag(rep.bag)
        /\ rep.applied_keys = Len(rep.bag.entries)
        /\ HoldsLast(kept, rep.bag.entries, Len(rep.bag.entries))

FrameShaped == frame = [made |-> frame.made, wire |-> frame.wire, intact |-> frame.intact]

\* What a write in the air was made from is a whole bag, and what was acknowledged
\* is in NVS.
ReceiverInv ==
    /\ nvs \in Settled
    /\ FrameShaped
    /\ frame.intact => frame.wire.type = frame.made.type /\ Written(frame.made)
    /\ Answered(reply, nvs)

\* A refusal says nothing of a bag.
LEMMA RefusalsAnswer ==
    ASSUME NEW kept
    PROVE  /\ Answered(NoReply, kept) /\ \A why : why # "Accepted" => Answered(Dropped(why), kept)
           /\ \A why, bag : why # "Accepted" => Answered([Dropped(why) EXCEPT !.bag = bag], kept)
BY DEF Answered, NoReply, Dropped

\* A write that passes the guards.
LEMMA ProcessKeeps ==
    ASSUME ReceiverInv, NEW to, NEW src, NEW num, ProcessConfigWrite(to, src, num),
           frame.wire.type = "ConfigWrite"
    PROVE  nvs' \in Settled /\ Answered(reply', nvs') /\ (nvs' # nvs => reply'.result = "Accepted")
<1> DEFINE bag == frame.made.write.bag
           done == ApplyBag(nvs, "Lume", bag)
           accepted == [result |-> "Accepted", bag |-> bag,
                        status |-> IF done.flagged THEN 130 ELSE 0,
                        applied_keys |-> Len(Walked(bag))]
<1>1. \/ UNCHANGED nvs /\ reply' \in {Dropped("BadTarget"), Dropped("Replay"), Dropped("BadHmac")}
      \/ /\ frame.intact /\ nvs' = done.nvs
         /\ WalkEnds(bag) => reply' = accepted
  BY DEF ProcessConfigWrite
<1>2. CASE UNCHANGED nvs /\ reply' \in {Dropped("BadTarget"), Dropped("Replay"), Dropped("BadHmac")}
  BY <1>2, RefusalsAnswer DEF ReceiverInv
<1>3. CASE /\ frame.intact /\ nvs' = done.nvs
           /\ WalkEnds(bag) => reply' = accepted
  <2>1. WholeBag(bag) /\ nvs \in Settled
    BY <1>3 DEF ReceiverInv, Written
  <2>2. /\ WalkEnds(bag) /\ Walked(bag) = bag.entries /\ done.nvs \in Settled
        /\ HoldsLast(done.nvs, bag.entries, Len(bag.entries))
    BY <2>1, BagIsStored
  <2>3. reply' = accepted
    BY <1>3, <2>2
  <2> HIDE DEF done
  <2>4. Answered(accepted, done.nvs)
    BY <2>1, <2>2 DEF Answered
  <2> QED
    BY <1>3, <2>2, <2>3, <2>4
<1> QED
  BY <1>1, <1>2, <1>3

\* Every step of the receiver.
LEMMA ReceiverKeeps ==
    ASSUME ReceiverInv, [ReceiverNext]_receiverVars
    PROVE  ReceiverInv' /\ (nvs' # nvs => reply'.result = "Accepted")
<1>1. ASSUME NEW type \in Encoded \ {"ConfigWrite"}, NEW n \in Lengths, NEW m \in Lengths,
             EncodeFrame(type, n, m)
      PROVE  ReceiverInv' /\ UNCHANGED nvs
  <2>1. UNCHANGED nvs /\ reply' = NoReply
    BY <1>1 DEF EncodeFrame
  <2>2. CASE Encodes(type, n, m)
    <3>1. frame' = [made |-> Made(type, n, m, None), wire |-> Frame(type, n, m), intact |-> TRUE]
      BY <1>1, <2>2 DEF EncodeFrame
    <3>2. FrameShaped' /\ frame'.wire.type = type /\ frame'.made.type = type
      BY <3>1 DEF Frame, Made, FrameShaped
    <3> QED
      BY <2>1, <3>2, RefusalsAnswer DEF ReceiverInv, Written
  <2>3. CASE ~Encodes(type, n, m)
    <3>1. FrameShaped' /\ ~frame'.intact
      BY <1>1, <2>3 DEF EncodeFrame, Nothing, FrameShaped
    <3> QED
      BY <2>1, <3>1, RefusalsAnswer DEF ReceiverInv
  <2> QED
    BY <2>2, <2>3
<1>2. ASSUME NEW d \in Senders, NEW target \in {Self, Other}, NEW entries \in Bags,
             SendConfigWrite(d, target, entries)
      PROVE  ReceiverInv' /\ UNCHANGED nvs
  <2> DEFINE bag == BagOf(entries, BufferSize)
             made == Made("ConfigWrite", bag.size, 0,
                          [src |-> d, target |-> target, num |-> numonce[d] + 1, bag |-> bag])
  <2>1. UNCHANGED nvs /\ reply' = NoReply
    BY <1>2 DEF SendConfigWrite
  <2>2. CASE bag.size > MaxBagLen
    <3>1. FrameShaped' /\ ~frame'.intact
      BY <1>2, <2>2 DEF SendConfigWrite, Nothing, FrameShaped
    <3> QED
      BY <2>1, <3>1, RefusalsAnswer DEF ReceiverInv
  <2>3. CASE ~(bag.size > MaxBagLen)
    <3>1. frame' = [made |-> made, wire |-> Frame("ConfigWrite", bag.size, 0), intact |-> TRUE]
      BY <1>2, <2>3 DEF SendConfigWrite
    <3>2. WholeBag(bag)
      BY BagIsCounted, ReceiverAssumption
    <3> HIDE DEF bag
    <3>3. /\ frame'.wire.type = "ConfigWrite" /\ frame'.made.type = "ConfigWrite"
          /\ frame'.made.write.bag = bag /\ FrameShaped'
      BY <3>1 DEF Frame, Made, FrameShaped
    <3> QED
      BY <2>1, <3>2, <3>3, RefusalsAnswer DEF ReceiverInv, Written
  <2> QED
    BY <2>2, <2>3
<1>3. CASE Damage
  <2>1. UNCHANGED nvs /\ reply' = NoReply
    BY <1>3 DEF Damage
  <2>2. FrameShaped' /\ ~frame'.intact
    <3>1. PICK f \in Damaged(frame.wire) : frame' = [frame EXCEPT !.wire = f, !.intact = FALSE]
      BY <1>3 DEF Damage
    <3>2. frame' = [made |-> frame.made, wire |-> f, intact |-> FALSE]
      BY <3>1 DEF ReceiverInv, FrameShaped
    <3> QED
      BY <3>2 DEF FrameShaped
  <2> QED
    BY <2>1, <2>2, RefusalsAnswer DEF ReceiverInv
<1>4. CASE Receive
  <2>1. nvs' \in Settled /\ Answered(reply', nvs') /\ (nvs' # nvs => reply'.result = "Accepted")
    <3>1. CASE UNCHANGED nvs /\ reply' \in {Dropped("MalformedFrame"), Dropped("NotForUs")}
      BY <3>1, RefusalsAnswer DEF ReceiverInv
    <3>2. ASSUME NEW to, NEW src, NEW num, ProcessConfigWrite(to, src, num),
                 frame.wire.type = "ConfigWrite"
          PROVE  nvs' \in Settled /\ Answered(reply', nvs')
                    /\ (nvs' # nvs => reply'.result = "Accepted")
      BY <3>2, ProcessKeeps
    <3> QED
      BY <1>4, <3>1, <3>2 DEF Receive
  <2>2. frame' = IF frame.intact THEN frame ELSE Nothing
    BY <1>4 DEF Receive
  <2> QED
    BY <2>1, <2>2 DEF ReceiverInv, Nothing, FrameShaped
<1>5. CASE UNCHANGED receiverVars
  BY <1>5 DEF receiverVars, ReceiverInv, FrameShaped
<1> QED
  BY <1>1, <1>2, <1>3, <1>4, <1>5 DEF ReceiverNext

\* A Lume begins with a group it has rolled and nothing else.
LEMMA ReceiverStarts == ReceiverInit => ReceiverInv
<1> SUFFICES ASSUME ReceiverInit PROVE ReceiverInv
  OBVIOUS
<1>1. FrameShaped /\ ~frame.intact /\ reply = NoReply
  BY DEF ReceiverInit, Nothing, FrameShaped
<1>2. \A r \in Rolls : LoadGroup(Absent, r).raw \in Nat
  <2>1. ASSUME NEW r \in Rolls PROVE 1 + (r % 3) \in Nat
    <3>1. r \in Nat
      BY PersistenceAssumption
    <3> QED
      BY <3>1
  <2>2. \A r : LoadGroup(Absent, r).raw = 1 + (r % 3)
    BY DEF LoadGroup, Kept
  <2> QED
    BY <2>1, <2>2
<1>3. nvs \in Settled
  BY <1>2 DEF ReceiverInit, Settled
<1> QED
  BY <1>1, <1>3, RefusalsAnswer DEF ReceiverInv

\* A bag that is applied at all is applied whole and acknowledged: encoder,
\* signature and walk leave no way to a half-applied bag of which the Director
\* hears nothing, for every bag and every limit (config_rx.cpp's MalformedBag).
THEOREM NothingIsHalfApplied == ReceiverSpec => NothingHalfApplied
<1>1. ReceiverInv /\ [ReceiverNext]_receiverVars
         => ReceiverInv' /\ [nvs' # nvs => reply'.result = "Accepted"]_receiverVars
  BY ReceiverKeeps
<1> QED
  BY <1>1, ReceiverStarts, PTL DEF ReceiverSpec, NothingHalfApplied

\* Of a write that was acknowledged, each key the Lume knows loads as the last
\* value the bag gave for it, clamped as its save clamps it, whatever the bag
\* repeats, mistypes or does not know (config_apply.cpp).
THEOREM AckAlwaysMeansStored == ReceiverSpec => []AckMeansStored
<1>1. ReceiverInv => AckMeansStored
  <2> SUFFICES ASSUME ReceiverInv, reply.result = "Accepted"
               PROVE  /\ \A key \in StoredKeys(reply.bag) :
                            LET stored == Saved(LumeSlot(key), LastOf(reply.bag, key).value)
                            IN  Loaded(key) = {IF stored = Absent THEN 0 ELSE stored}
                      /\ reply.applied_keys = Len(reply.bag.entries)
    BY DEF AckMeansStored, LumeSlot
  <2> DEFINE bag == reply.bag
             es == bag.entries
             n == Len(es)
  <2>1. WholeBag(bag) /\ reply.applied_keys = n /\ HoldsLast(nvs, es, n)
    BY DEF ReceiverInv, Answered
  <2>2. ASSUME NEW key \in StoredKeys(bag)
        PROVE  LET stored == Saved(LumeSlot(key), LastOf(bag, key).value)
               IN  Loaded(key) = {IF stored = Absent THEN 0 ELSE stored}
    <3>1. es \in Seq(Entries) /\ DOMAIN es = 1 .. n
      BY <2>1 DEF WholeBag, Tlvs
    <3>2. /\ key \in DOMAIN NvsKeys("Lume")
          /\ \E i \in 1 .. n : es[i].key = key /\ es[i].typed
      BY <3>1 DEF StoredKeys, ToSet
    <3>3. PICK j \in 1 .. n : Told(es, key, n, j) /\ LastOf(bag, key) = es[j]
      BY <2>1, <3>2, LastIsGiven
    <3>4. es[j].value \in Nat
      <4>1. es[j] \in Entries
        BY <3>1
      <4> QED
        BY <4>1 DEF Entries
    <3>5. nvs[LumeSlot(key)] = Saved(LumeSlot(key), es[j].value)
      BY <2>1, <3>2, <3>3 DEF HoldsLast
    <3>6. Loaded(key) = {l.value : l \in Loads(LumeSlot(key), nvs[LumeSlot(key)])}
      BY DEF Loaded, LumeSlot
    <3> QED
      BY <3>2, <3>3, <3>4, <3>5, <3>6, SavedLoads
  <2> QED
    BY <2>1, <2>2
<1>2. ReceiverInv /\ [ReceiverNext]_receiverVars => ReceiverInv'
  BY ReceiverKeeps
<1> QED
  BY <1>1, <1>2, ReceiverStarts, PTL DEF ReceiverSpec

-----------------------------------------------------------------------------
(* The frame codec.                                                        *)

\* The bytes of fields with these names; a stray one is among them.
BytesOfAny(names) == (names \cup {"trailing"}) \X Nat \X Nat

\* What is behind a sequence is found behind it.
LEMMA JoinedBehind ==
    ASSUME NEW S, NEW x \in Seq(S), NEW y \in Seq(S), NEW j \in 1 .. Len(y)
    PROVE  (x \o y)[Len(x) + j] = y[j]
OBVIOUS

\* off[i] is where the i-th of n sequences ends, and what is to be shown of it.
EndToEnd(S, n, seqs, off) ==
    /\ seqs \in [1 .. n -> Seq(S)] /\ Len(seqs) = n
    /\ off \in [0 .. n -> Nat] /\ off[0] = 0
    /\ \A i \in 1 .. n : off[i] = off[i - 1] + Len(seqs[i])

LaidOut(S, n, seqs, off) ==
    /\ FlattenSeq(seqs) \in Seq(S) /\ Len(FlattenSeq(seqs)) = off[n]
    /\ \A i \in 1 .. n : \A j \in 1 .. Len(seqs[i]) :
          FlattenSeq(seqs)[off[i - 1] + j] = seqs[i][j]

\* Sequences laid end to end: each begins where those before it end.
LEMMA FlattenPlaces ==
    ASSUME NEW S, NEW n \in Nat \ {0}, NEW seqs, NEW off, EndToEnd(S, n, seqs, off)
    PROVE  LaidOut(S, n, seqs, off)
<1> SUFFICES ASSUME seqs \in [1 .. n -> Seq(S)], Len(seqs) = n,
                    off \in [0 .. n -> Nat], off[0] = 0,
                    \A i \in 1 .. n : off[i] = off[i - 1] + Len(seqs[i])
             PROVE  /\ FlattenSeq(seqs) \in Seq(S) /\ Len(FlattenSeq(seqs)) = off[n]
                    /\ \A i \in 1 .. n : \A j \in 1 .. Len(seqs[i]) :
                          FlattenSeq(seqs)[off[i - 1] + j] = seqs[i][j]
  BY DEF EndToEnd, LaidOut
<1> DEFINE Joins(f) == f = [i \in 1 .. n |-> IF i = 1 THEN seqs[i] ELSE f[i - 1] \o seqs[i]]
           flat == CHOOSE f : Joins(f)
<1>1. FlattenSeq(seqs) = flat[n]
  BY DEF FlattenSeq
<1>2. <<>> \in Seq(S) /\ \A i \in 1 .. n : seqs[i] \in Seq(S) /\ i - 1 \in 0 .. n
  OBVIOUS
<1>3. Joins(flat)
  <2> DEFINE step == [i \in 1 .. n |-> [x \in Seq(S) |-> x \o seqs[i]]]
  <2>1. step \in [1 .. n -> [Seq(S) -> Seq(S)]]
    BY <1>2
  <2>2. \A i \in 1 .. n : \A x \in Seq(S) : step[i][x] = x \o seqs[i]
    OBVIOUS
  <2> HIDE DEF step
  <2>3. PICK f \in [0 .. n -> Seq(S)] : Follows(f, n, <<>>, step)
    BY <1>2, <2>1, RecursionExists
  <2>4. \A i \in 1 .. n : f[i] = f[i - 1] \o seqs[i]
    BY <1>2, <2>2, <2>3 DEF Follows
  <2>5. f[1] = seqs[1]
    <3>1. f[0] = <<>>
      BY <2>3 DEF Follows
    <3>2. 1 \in 1 .. n /\ 1 - 1 = 0
      OBVIOUS
    <3>3. f[1] = f[0] \o seqs[1] /\ seqs[1] \in Seq(S)
      BY <1>2, <2>4, <3>2
    <3> QED
      BY <3>1, <3>3
  <2> DEFINE g == [i \in 1 .. n |-> f[i]]
  <2>6. \A i \in 1 .. n : i # 1 => g[i - 1] = f[i - 1]
    OBVIOUS
  <2>7. g = [i \in 1 .. n |-> IF i = 1 THEN seqs[i] ELSE g[i - 1] \o seqs[i]]
    BY <2>4, <2>5, <2>6
  <2>8. Joins(g)
    BY <2>7
  <2> HIDE DEF Joins
  <2> QED
    BY <2>8
<1> HIDE DEF flat
<1> DEFINE Laid(i) == /\ flat[i] \in Seq(S) /\ Len(flat[i]) = off[i]
                      /\ \A k \in 1 .. i : off[k] <= off[i]
                      /\ \A k \in 1 .. i : \A j \in 1 .. Len(seqs[k]) :
                            flat[i][off[k - 1] + j] = seqs[k][j]
           T == {i \in 0 .. n : i # 0 => Laid(i)}
<1>4. \A i \in 1 .. n : Len(seqs[i]) \in Nat /\ off[i] \in Nat /\ off[i - 1] \in Nat
  BY <1>2
<1>5. 0 \in T
  OBVIOUS
<1>6. ASSUME NEW i \in 1 .. n, i - 1 \in T
      PROVE  i \in T
  <2>1. CASE i = 1
    <3>1. flat[1] = seqs[1] /\ 1 \in 1 .. n
      BY <1>3, <2>1
    <3>2. off[1] = Len(seqs[1]) /\ off[1 - 1] = 0
      BY <1>4, <3>1
    <3>3. Laid(1)
      BY <1>2, <1>4, <3>1, <3>2
    <3> HIDE DEF Laid
    <3>4. Laid(i) /\ i \in 0 .. n
      BY <2>1, <3>3
    <3> QED
      BY <3>4
  <2>2. CASE i # 1
    <3> DEFINE k0 == i - 1
    <3>0. k0 \in 1 .. n /\ k0 # 0 /\ k0 \in 0 .. n
      BY <2>2
    <3>1. Laid(k0) /\ flat[i] = flat[k0] \o seqs[i]
      <4>1. Laid(k0)
        BY <1>6, <3>0
      <4>2. flat[i] = flat[k0] \o seqs[i]
        BY <1>3, <2>2
      <4> QED
        BY <4>1, <4>2
    <3>2. off[i] = off[k0] + Len(seqs[i]) /\ Len(seqs[i]) \in Nat /\ seqs[i] \in Seq(S)
      BY <1>2, <1>4
    <3>3. flat[i] \in Seq(S) /\ Len(flat[i]) = off[i]
      BY SMTT(30), <3>1, <3>2
    <3>5. ASSUME NEW k \in 1 .. i
          PROVE  off[k] <= off[i]
      <4>0. k \in 1 .. n /\ (k # i => k \in 1 .. k0)
        OBVIOUS
      <4>1. off[i] \in Nat /\ off[k] \in Nat /\ off[k0] \in Nat
        BY <1>4, <3>0, <4>0
      <4>2. off[k0] <= off[i]
        BY <3>2, <4>1
      <4>3. CASE k = i
        BY <4>1, <4>3
      <4>4. CASE k # i
        <5>1. off[k] <= off[k0]
          BY <3>1, <4>0, <4>4
        <5> QED
          BY SMTT(30), <4>1, <4>2, <5>1
      <4> QED
        BY <4>3, <4>4
    <3>4. ASSUME NEW k \in 1 .. i, NEW j \in 1 .. Len(seqs[k])
          PROVE  flat[i][off[k - 1] + j] = seqs[k][j]
      <4>1. CASE k = i
        <5>1. off[k - 1] = Len(flat[k0]) /\ seqs[k] = seqs[i] /\ flat[k0] \in Seq(S)
          BY <3>1, <4>1
        <5>2. flat[i] = flat[k0] \o seqs[k] /\ seqs[k] \in Seq(S) /\ j \in 1 .. Len(seqs[k])
          BY <3>1, <3>2, <4>1
        <5> QED
          BY SMTT(30), <5>1, <5>2, JoinedBehind
      <4>2. CASE k # i
        <5>1. k \in 1 .. k0 /\ k \in 1 .. n
          BY <4>2
        <5>2. flat[k0][off[k - 1] + j] = seqs[k][j]
          BY <3>1, <5>1
        <5>3. off[k - 1] + j \in 1 .. Len(flat[k0])
          <6> DEFINE x == off[k - 1]
                     l == Len(seqs[k])
                     y == off[k0]
          <6>1. x + l <= y
            BY <3>1, <5>1
          <6>2. x \in Nat /\ l \in Nat /\ y \in Nat /\ Len(flat[k0]) = y /\ j \in 1 .. l
            BY <1>4, <3>0, <3>1, <5>1
          <6> HIDE DEF x, l, y
          <6>3. x + j \in 1 .. y
            BY <6>1, <6>2
          <6> QED
            BY <6>2, <6>3 DEF x
        <5> QED
          BY <1>2, <3>1, <5>2, <5>3
      <4> QED
        BY <4>1, <4>2
    <3> QED
      BY <3>3, <3>4, <3>5
  <2> QED
    BY <2>1, <2>2
<1> HIDE DEF T
<1>7. n \in T
  BY <1>5, <1>6, IntervalInduction, Zenon
<1> QED
  BY <1>1, <1>7 DEF T

IsField(field) ==
    /\ field[2] \in Nat
    /\ Len(field) = 3 => field[3] \in Nat

\* p holds the fields, the i-th behind off[i - 1].
Placed(p, fields, n, off) ==
    /\ off \in [0 .. n -> Nat] /\ off[0] = 0
    /\ \A i \in 1 .. n : off[i] = off[i - 1] + fields[i][2]
    /\ p \in Seq(BytesOfAny({fields[i][1] : i \in 1 .. n})) /\ Len(p) = off[n]
    /\ \A i \in 1 .. n : \A j \in 1 .. fields[i][2] :
          p[off[i - 1] + j] =
              <<fields[i][1], j - 1, IF Len(fields[i]) = 3 THEN fields[i][3] ELSE 0>>

\* The places of the fields of a frame.
LEMMA FieldsArePlaced ==
    ASSUME NEW type, NEW a, NEW b, NEW n \in Nat \ {0}, NEW fields, FieldsOf(type, a, b) = fields,
           DOMAIN fields = 1 .. n, \A i \in 1 .. n : IsField(fields[i])
    PROVE  \E off : Placed(Payload(type, a, b), fields, n, off)
<1> DEFINE seqs == [i \in 1 .. n |-> BytesOf(fields[i])]
           names == {fields[i][1] : i \in 1 .. n}
           Bytes == BytesOfAny(names)
<1>1. Payload(type, a, b) = FlattenSeq(seqs)
  BY DEF Payload
<1>2. ASSUME NEW i \in 1 .. n
      PROVE  /\ BytesOf(fields[i]) \in Seq(Bytes) /\ Len(BytesOf(fields[i])) = fields[i][2]
             /\ \A j \in 1 .. fields[i][2] : BytesOf(fields[i])[j] =
                   <<fields[i][1], j - 1, IF Len(fields[i]) = 3 THEN fields[i][3] ELSE 0>>
  <2> DEFINE name == fields[i][1]
             width == fields[i][2]
             value == IF Len(fields[i]) = 3 THEN fields[i][3] ELSE 0
  <2>1. name \in names /\ width \in Nat /\ value \in Nat
    BY DEF IsField
  <2>2. BytesOf(fields[i]) = [j \in 1 .. width |-> <<name, j - 1, value>>]
    BY DEF BytesOf
  <2> HIDE DEF name, width, value
  <2>3. ASSUME NEW j \in 1 .. width PROVE <<name, j - 1, value>> \in Bytes
    <3>1. j - 1 \in Nat
      BY <2>1
    <3> HIDE DEF names
    <3> QED
      BY <2>1, <3>1 DEF BytesOfAny
  <2>4. BytesOf(fields[i]) \in Seq(Bytes) /\ Len(BytesOf(fields[i])) = width
    <3> HIDE DEF Bytes
    <3>1. BytesOf(fields[i]) \in [1 .. width -> Bytes]
      BY <2>2, <2>3
    <3> QED
      BY <2>1, <3>1
  <2>5. \A j \in 1 .. width : BytesOf(fields[i])[j] = <<name, j - 1, value>>
    BY <2>2
  <2> QED
    BY <2>4, <2>5 DEF name, width, value
<1>3. seqs \in [1 .. n -> Seq(Bytes)] /\ Len(seqs) = n
  BY <1>2
<1>4. \A i \in 1 .. n : seqs[i] = BytesOf(fields[i]) /\ fields[i][2] \in Nat /\ i - 1 \in 0 .. n
  BY DEF IsField
<1> HIDE DEF seqs
<1>5. PICK off \in [0 .. n -> Nat] :
         off[0] = 0 /\ \A i \in 1 .. n : off[i] = off[i - 1] + fields[i][2]
  <2> DEFINE step == [i \in 1 .. n |-> [x \in Nat |-> x + fields[i][2]]]
  <2>1. step \in [1 .. n -> [Nat -> Nat]] /\ 0 \in Nat
    BY <1>4
  <2>2. \A i \in 1 .. n : \A x \in Nat : step[i][x] = x + fields[i][2]
    OBVIOUS
  <2> HIDE DEF step
  <2>3. PICK f \in [0 .. n -> Nat] : Follows(f, n, 0, step)
    BY <2>1, RecursionExists
  <2> QED
    BY <1>4, <2>2, <2>3 DEF Follows
<1>6. \A i \in 1 .. n : off[i] = off[i - 1] + Len(seqs[i])
  BY ZenonT(60), <1>2, <1>4, <1>5
<1>7. /\ FlattenSeq(seqs) \in Seq(Bytes) /\ Len(FlattenSeq(seqs)) = off[n]
      /\ \A i \in 1 .. n : \A j \in 1 .. Len(seqs[i]) :
            FlattenSeq(seqs)[off[i - 1] + j] = seqs[i][j]
  <2> HIDE DEF Bytes
  <2> QED
    <3>1. EndToEnd(Bytes, n, seqs, off)
      BY <1>3, <1>5, <1>6 DEF EndToEnd
    <3>2. LaidOut(Bytes, n, seqs, off)
      BY <3>1, FlattenPlaces, Zenon
    <3> QED
      BY <3>2 DEF LaidOut
<1> DEFINE p == FlattenSeq(seqs)
<1> HIDE DEF p
<1>8. ASSUME NEW i \in 1 .. n, NEW j \in 1 .. fields[i][2]
      PROVE  p[off[i - 1] + j] =
                 <<fields[i][1], j - 1, IF Len(fields[i]) = 3 THEN fields[i][3] ELSE 0>>
  <2>1. j \in 1 .. Len(seqs[i]) /\ seqs[i] = BytesOf(fields[i])
    BY <1>2, <1>4
  <2>2. p[off[i - 1] + j] = BytesOf(fields[i])[j]
    BY <1>7, <2>1 DEF p
  <2> QED
    BY <1>2, <2>2
<1>9. Placed(p, fields, n, off)
  BY <1>5, <1>7, <1>8 DEF Placed, p
<1> QED
  BY <1>1, <1>9 DEF p

\* What a payload is made of.
IsPayload(p) == \E names : p \in Seq(BytesOfAny(names))

\* What the codec owes a frame.
Agrees(type, a, b) ==
    LET f == Frame(type, a, b)
        fields == {field \in ToSet(FieldsOf(type, a, b)) : field[2] > 0}
    IN  /\ IsPayload(f.payload)
        /\ Decode(f).ok
        /\ \A read \in Decode(f).reads : ReadsItself(f, read)
        /\ \A field \in fields : \E read \in Decode(f).reads :
               read[1] = field[1] /\ read[3] = field[2]

\* A frame as it was encoded passes the header.
LEMMA HeaderPasses ==
    ASSUME NEW type \in Encoded, NEW a, NEW b, Len(Payload(type, a, b)) \in Nat
    PROVE  Decode(Frame(type, a, b)) = DecodePayload(Frame(type, a, b))
BY DEF Decode, DecodeHeader, Frame, Encoded

\* It is paid by a decoder that reads the fields at their places.
ReadInPlace(type, a, b, n, fields) ==
    /\ type \in Encoded /\ n \in Nat \ {0}
    /\ FieldsOf(type, a, b) = fields /\ DOMAIN fields = 1 .. n
    /\ \A i \in 1 .. n : IsField(fields[i])
    /\ \A off : Placed(Payload(type, a, b), fields, n, off) =>
          DecodePayload(Frame(type, a, b)) =
              Read({<<fields[i][1], off[i - 1], fields[i][2]>> : i \in 1 .. n})

LEMMA AgreesInPlace ==
    ASSUME NEW type, NEW a, NEW b, NEW n, NEW fields, ReadInPlace(type, a, b, n, fields)
    PROVE  Agrees(type, a, b)
<1> SUFFICES ASSUME type \in Encoded, n \in Nat \ {0},
                    FieldsOf(type, a, b) = fields, DOMAIN fields = 1 .. n,
                    \A i \in 1 .. n : IsField(fields[i]),
                    \A off : Placed(Payload(type, a, b), fields, n, off) =>
                        DecodePayload(Frame(type, a, b)) =
                            Read({<<fields[i][1], off[i - 1], fields[i][2]>> : i \in 1 .. n})
             PROVE  Agrees(type, a, b)
  BY DEF ReadInPlace
<1> DEFINE f == Frame(type, a, b)
<1>0. PICK off : Placed(Payload(type, a, b), fields, n, off)
  BY FieldsArePlaced
<1> DEFINE reads == {<<fields[i][1], off[i - 1], fields[i][2]>> : i \in 1 .. n}
<1>1. f.payload = Payload(type, a, b)
  BY DEF Frame
<1>2. Decode(f).ok /\ Decode(f).reads = reads
  <2>1. DecodePayload(f) = Read(reads)
    BY <1>0
  <2>2. Len(Payload(type, a, b)) \in Nat
    BY <1>0 DEF Placed
  <2>3. Decode(f) = DecodePayload(f)
    BY <2>2, HeaderPasses
  <2> QED
    BY <2>1, <2>3 DEF Read
<1>3. ASSUME NEW read \in reads PROVE ReadsItself(f, read)
  <2>1. PICK i \in 1 .. n : read = <<fields[i][1], off[i - 1], fields[i][2]>>
    OBVIOUS
  <2> SUFFICES ASSUME NEW j \in 1 .. fields[i][2]
               PROVE  /\ f.payload[off[i - 1] + j][1] = fields[i][1]
                      /\ f.payload[off[i - 1] + j][2] = j - 1
    BY <2>1 DEF ReadsItself
  <2> HIDE DEF f
  <2>2. f.payload[off[i - 1] + j] =
            <<fields[i][1], j - 1, IF Len(fields[i]) = 3 THEN fields[i][3] ELSE 0>>
    BY <1>0, <1>1 DEF Placed
  <2> QED
    BY <2>2
<1>4. ASSUME NEW field \in ToSet(fields)
      PROVE  \E read \in reads : read[1] = field[1] /\ read[3] = field[2]
  <2>1. PICK i \in 1 .. n : field = fields[i]
    BY DEF ToSet
  <2>2. <<fields[i][1], off[i - 1], fields[i][2]>> \in reads
    OBVIOUS
  <2> QED
    BY <2>1, <2>2
<1> HIDE DEF f, reads
<1> QED
  BY <1>0, <1>1, <1>2, <1>3, <1>4 DEF Agrees, Placed, IsPayload, f

\* The Director's clock.
LEMMA HeartbeatAgrees == Agrees("Heartbeat", 0, 0)
<1> DEFINE f == EncodeHeartbeat
<1>1. FieldsOf("Heartbeat", 0, 0) = f /\ 3 \in Nat \ {0} /\ "Heartbeat" \in Encoded
  BY DEF FieldsOf, Encoded, Known
<1>2. /\ DOMAIN f = 1 .. 3 /\ f[1] = <<"tick", 4>> /\ f[2] = <<"days_since_2026", 2>>
      /\ f[3] = <<"centiseconds_today", 3>>
  BY DEF EncodeHeartbeat
<1> HIDE DEF f
<1>3. \A i \in 1 .. 3 : IsField(f[i])
  BY <1>2 DEF IsField
<1>0. /\ f[1][2] = 4 /\ f[2][2] = 2 /\ f[3][2] = 3
  BY <1>2
<1>4. ASSUME NEW off, Placed(Payload("Heartbeat", 0, 0), f, 3, off)
      PROVE  DecodePayload(Frame("Heartbeat", 0, 0))
                = Read({<<f[i][1], off[i - 1], f[i][2]>> : i \in 1 .. 3})
  <2>0. off[0] = 0 /\ \A i \in 1 .. 3 : off[i] = off[i - 1] + f[i][2]
    BY <1>4 DEF Placed
  <2>1. /\ off[0] = 0 /\ off[1] = 4 /\ off[2] = 6 /\ off[3] = 9
    BY <1>0, <2>0
  <2>2. Len(Payload("Heartbeat", 0, 0)) = 9
    BY <1>4, <2>1 DEF Placed
  <2>3. {<<f[i][1], off[i - 1], f[i][2]>> : i \in 1 .. 3} = DecodeHeartbeat
    BY <1>2, <2>1 DEF DecodeHeartbeat
  <2> QED
    BY <2>2, <2>3 DEF DecodePayload, Fixed, Frame
<1> QED
  <2>1. ReadInPlace("Heartbeat", 0, 0, 3, f)
    BY <1>1, <1>2, <1>3, <1>4 DEF ReadInPlace
  <2> QED
    BY <2>1, AgreesInPlace

\* A Repeater's report.
LEMMA RepeaterHeartbeatAgrees == Agrees("RepeaterHeartbeat", 0, 0)
<1> DEFINE f == EncodeRepeaterHeartbeat
<1>1. FieldsOf("RepeaterHeartbeat", 0, 0) = f /\ 4 \in Nat \ {0} /\ "RepeaterHeartbeat" \in Encoded
  BY DEF FieldsOf, Encoded, Known
<1>2. /\ DOMAIN f = 1 .. 4 /\ f[1] = <<"uid", 3>> /\ f[2] = <<"channel", 1>>
      /\ f[3] = <<"uptime_s", 2>> /\ f[4] = <<"relayed_count", 4>>
  BY DEF EncodeRepeaterHeartbeat
<1> HIDE DEF f
<1>3. \A i \in 1 .. 4 : IsField(f[i])
  BY <1>2 DEF IsField
<1>0. /\ f[1][2] = 3 /\ f[2][2] = 1 /\ f[3][2] = 2 /\ f[4][2] = 4
  BY <1>2
<1>4. ASSUME NEW off, Placed(Payload("RepeaterHeartbeat", 0, 0), f, 4, off)
      PROVE  DecodePayload(Frame("RepeaterHeartbeat", 0, 0))
                = Read({<<f[i][1], off[i - 1], f[i][2]>> : i \in 1 .. 4})
  <2>0. off[0] = 0 /\ \A i \in 1 .. 4 : off[i] = off[i - 1] + f[i][2]
    BY <1>4 DEF Placed
  <2>1. /\ off[0] = 0 /\ off[1] = 3 /\ off[2] = 4 /\ off[3] = 6 /\ off[4] = 10
    BY <1>0, <2>0
  <2>2. Len(Payload("RepeaterHeartbeat", 0, 0)) = 10
    BY <1>4, <2>1 DEF Placed
  <2>3. {<<f[i][1], off[i - 1], f[i][2]>> : i \in 1 .. 4} = DecodeRepeaterHeartbeat
    BY <1>2, <2>1 DEF DecodeRepeaterHeartbeat
  <2> QED
    BY <2>2, <2>3 DEF DecodePayload, Fixed, Frame
<1> QED
  <2>1. ReadInPlace("RepeaterHeartbeat", 0, 0, 4, f)
    BY <1>1, <1>2, <1>3, <1>4 DEF ReadInPlace
  <2> QED
    BY <2>1, AgreesInPlace

\* A pulse.
LEMMA LightPulseAgrees == Agrees("LightPulse", 0, 0)
<1> DEFINE f == EncodeLightPulse
<1>1. FieldsOf("LightPulse", 0, 0) = f /\ 12 \in Nat \ {0} /\ "LightPulse" \in Encoded
  BY DEF FieldsOf, Encoded, Known
<1>2. /\ DOMAIN f = 1 .. 12 /\ f[1] = <<"target_class", 1>> /\ f[2] = <<"target_group", 2>>
      /\ f[3] = <<"r", 1>> /\ f[4] = <<"g", 1>> /\ f[5] = <<"b", 1>> /\ f[6] = <<"attack", 1>>
      /\ f[7] = <<"sustain", 1>> /\ f[8] = <<"release", 1>> /\ f[9] = <<"chance", 1>>
      /\ f[10] = <<"led_mode", 1>> /\ f[11] = <<"led_modifier1", 1>>
      /\ f[12] = <<"led_modifier2", 1>>
  BY DEF EncodeLightPulse, LedAddress
<1> HIDE DEF f
<1>3. \A i \in 1 .. 12 : IsField(f[i])
  BY <1>2 DEF IsField
<1>0. /\ f[1][2] = 1 /\ f[2][2] = 2 /\ f[3][2] = 1 /\ f[4][2] = 1 /\ f[5][2] = 1 /\ f[6][2] = 1
      /\ f[7][2] = 1 /\ f[8][2] = 1 /\ f[9][2] = 1 /\ f[10][2] = 1 /\ f[11][2] = 1
      /\ f[12][2] = 1
  BY <1>2
<1>4. ASSUME NEW off, Placed(Payload("LightPulse", 0, 0), f, 12, off)
      PROVE  DecodePayload(Frame("LightPulse", 0, 0))
                = Read({<<f[i][1], off[i - 1], f[i][2]>> : i \in 1 .. 12})
  <2>0. off[0] = 0 /\ \A i \in 1 .. 12 : off[i] = off[i - 1] + f[i][2]
    BY <1>4 DEF Placed
  <2>1a. /\ off[0] = 0 /\ off[1] = 1 /\ off[2] = 3 /\ off[3] = 4 /\ off[4] = 5 /\ off[5] = 6
         /\ off[6] = 7
    BY <1>0, <2>0
  <2>1b. /\ off[7] = 8 /\ off[8] = 9 /\ off[9] = 10 /\ off[10] = 11 /\ off[11] = 12
         /\ off[12] = 13
    BY <1>0, <2>0, <2>1a
  <2>2. Len(Payload("LightPulse", 0, 0)) = 13
    BY <1>4, <2>1a, <2>1b DEF Placed
  <2>3. {<<f[i][1], off[i - 1], f[i][2]>> : i \in 1 .. 12} = DecodeLightPulse
    BY <1>2, <2>1a, <2>1b DEF DecodeLightPulse
  <2> QED
    BY <2>2, <2>3 DEF DecodePayload, Fixed, Frame
<1> QED
  <2>1. ReadInPlace("LightPulse", 0, 0, 12, f)
    BY <1>1, <1>2, <1>3, <1>4 DEF ReadInPlace
  <2> QED
    BY <2>1, AgreesInPlace

\* A wash, the longest frame of fixed length.
LEMMA LightWashAgrees == Agrees("LightWash", 0, 0)
<1> DEFINE f == EncodeLightWash
<1>1. FieldsOf("LightWash", 0, 0) = f /\ 17 \in Nat \ {0} /\ "LightWash" \in Encoded
  BY DEF FieldsOf, Encoded, Known
<1>2. /\ DOMAIN f = 1 .. 17 /\ f[1] = <<"target_class", 1>> /\ f[2] = <<"target_group", 2>>
      /\ f[3] = <<"r1", 1>> /\ f[4] = <<"g1", 1>> /\ f[5] = <<"b1", 1>> /\ f[6] = <<"r2", 1>>
      /\ f[7] = <<"g2", 1>> /\ f[8] = <<"b2", 1>> /\ f[9] = <<"attack", 1>>
      /\ f[10] = <<"release", 1>> /\ f[11] = <<"intensity", 1>> /\ f[12] = <<"cycle_ms", 2>>
      /\ f[13] = <<"ttl_seconds", 2>> /\ f[14] = <<"pulse_response", 1>>
      /\ f[15] = <<"led_mode", 1>> /\ f[16] = <<"led_modifier1", 1>>
      /\ f[17] = <<"led_modifier2", 1>>
  BY DEF EncodeLightWash, LedAddress
<1> HIDE DEF f
<1>3. \A i \in 1 .. 17 : IsField(f[i])
  BY <1>2 DEF IsField
<1>0. /\ f[1][2] = 1 /\ f[2][2] = 2 /\ f[3][2] = 1 /\ f[4][2] = 1 /\ f[5][2] = 1 /\ f[6][2] = 1
      /\ f[7][2] = 1 /\ f[8][2] = 1 /\ f[9][2] = 1 /\ f[10][2] = 1 /\ f[11][2] = 1
      /\ f[12][2] = 2 /\ f[13][2] = 2 /\ f[14][2] = 1 /\ f[15][2] = 1 /\ f[16][2] = 1
      /\ f[17][2] = 1
  BY <1>2
<1>4. ASSUME NEW off, Placed(Payload("LightWash", 0, 0), f, 17, off)
      PROVE  DecodePayload(Frame("LightWash", 0, 0))
                = Read({<<f[i][1], off[i - 1], f[i][2]>> : i \in 1 .. 17})
  <2>0. off[0] = 0 /\ \A i \in 1 .. 17 : off[i] = off[i - 1] + f[i][2]
    BY <1>4 DEF Placed
  <2>1a. /\ off[0] = 0 /\ off[1] = 1 /\ off[2] = 3 /\ off[3] = 4 /\ off[4] = 5 /\ off[5] = 6
         /\ off[6] = 7
    BY <1>0, <2>0
  <2>1b. /\ off[7] = 8 /\ off[8] = 9 /\ off[9] = 10 /\ off[10] = 11 /\ off[11] = 12
         /\ off[12] = 14 /\ off[13] = 16
    BY <1>0, <2>0, <2>1a
  <2>1c. /\ off[14] = 17 /\ off[15] = 18 /\ off[16] = 19 /\ off[17] = 20
    BY <1>0, <2>0, <2>1b
  <2>2. Len(Payload("LightWash", 0, 0)) = 20
    BY <1>4, <2>1a, <2>1b, <2>1c DEF Placed
  <2>3. {<<f[i][1], off[i - 1], f[i][2]>> : i \in 1 .. 17} = DecodeLightWash
    BY <1>2, <2>1a, <2>1b, <2>1c DEF DecodeLightWash
  <2> QED
    BY <2>2, <2>3 DEF DecodePayload, Fixed, Frame
<1> QED
  <2>1. ReadInPlace("LightWash", 0, 0, 17, f)
    BY <1>1, <1>2, <1>3, <1>4 DEF ReadInPlace
  <2> QED
    BY <2>1, AgreesInPlace

\* The end of a wash.
LEMMA LightWashEndAgrees == Agrees("LightWashEnd", 0, 0)
<1> DEFINE f == EncodeLightWashEnd
<1>1. FieldsOf("LightWashEnd", 0, 0) = f /\ 6 \in Nat \ {0} /\ "LightWashEnd" \in Encoded
  BY DEF FieldsOf, Encoded, Known
<1>2. /\ DOMAIN f = 1 .. 6 /\ f[1] = <<"target_class", 1>> /\ f[2] = <<"target_group", 2>>
      /\ f[3] = <<"release_time", 1>> /\ f[4] = <<"led_mode", 1>>
      /\ f[5] = <<"led_modifier1", 1>> /\ f[6] = <<"led_modifier2", 1>>
  BY DEF EncodeLightWashEnd, LedAddress
<1> HIDE DEF f
<1>3. \A i \in 1 .. 6 : IsField(f[i])
  BY <1>2 DEF IsField
<1>0. /\ f[1][2] = 1 /\ f[2][2] = 2 /\ f[3][2] = 1 /\ f[4][2] = 1 /\ f[5][2] = 1 /\ f[6][2] = 1
  BY <1>2
<1>4. ASSUME NEW off, Placed(Payload("LightWashEnd", 0, 0), f, 6, off)
      PROVE  DecodePayload(Frame("LightWashEnd", 0, 0))
                = Read({<<f[i][1], off[i - 1], f[i][2]>> : i \in 1 .. 6})
  <2>0. off[0] = 0 /\ \A i \in 1 .. 6 : off[i] = off[i - 1] + f[i][2]
    BY <1>4 DEF Placed
  <2>1. /\ off[0] = 0 /\ off[1] = 1 /\ off[2] = 3 /\ off[3] = 4 /\ off[4] = 5 /\ off[5] = 6
        /\ off[6] = 7
    BY <1>0, <2>0
  <2>2. Len(Payload("LightWashEnd", 0, 0)) = 7
    BY <1>4, <2>1 DEF Placed
  <2>3. {<<f[i][1], off[i - 1], f[i][2]>> : i \in 1 .. 6} = DecodeLightWashEnd
    BY <1>2, <2>1 DEF DecodeLightWashEnd
  <2> QED
    BY <2>2, <2>3 DEF DecodePayload, Fixed, Frame
<1> QED
  <2>1. ReadInPlace("LightWashEnd", 0, 0, 6, f)
    BY <1>1, <1>2, <1>3, <1>4 DEF ReadInPlace
  <2> QED
    BY <2>1, AgreesInPlace

\* A pulse of the wash that runs.
LEMMA LightWashPulseAgrees == Agrees("LightWashPulse", 0, 0)
<1> DEFINE f == EncodeLightWashPulse
<1>1. FieldsOf("LightWashPulse", 0, 0) = f /\ 12 \in Nat \ {0} /\ "LightWashPulse" \in Encoded
  BY DEF FieldsOf, Encoded, Known
<1>2. /\ DOMAIN f = 1 .. 12 /\ f[1] = <<"target_class", 1>> /\ f[2] = <<"target_group", 2>>
      /\ f[3] = <<"r", 1>> /\ f[4] = <<"g", 1>> /\ f[5] = <<"b", 1>> /\ f[6] = <<"attack", 1>>
      /\ f[7] = <<"sustain", 1>> /\ f[8] = <<"release", 1>> /\ f[9] = <<"chance", 1>>
      /\ f[10] = <<"led_mode", 1>> /\ f[11] = <<"led_modifier1", 1>>
      /\ f[12] = <<"led_modifier2", 1>>
  BY DEF EncodeLightWashPulse, LedAddress
<1> HIDE DEF f
<1>3. \A i \in 1 .. 12 : IsField(f[i])
  BY <1>2 DEF IsField
<1>0. /\ f[1][2] = 1 /\ f[2][2] = 2 /\ f[3][2] = 1 /\ f[4][2] = 1 /\ f[5][2] = 1 /\ f[6][2] = 1
      /\ f[7][2] = 1 /\ f[8][2] = 1 /\ f[9][2] = 1 /\ f[10][2] = 1 /\ f[11][2] = 1
      /\ f[12][2] = 1
  BY <1>2
<1>4. ASSUME NEW off, Placed(Payload("LightWashPulse", 0, 0), f, 12, off)
      PROVE  DecodePayload(Frame("LightWashPulse", 0, 0))
                = Read({<<f[i][1], off[i - 1], f[i][2]>> : i \in 1 .. 12})
  <2>0. off[0] = 0 /\ \A i \in 1 .. 12 : off[i] = off[i - 1] + f[i][2]
    BY <1>4 DEF Placed
  <2>1a. /\ off[0] = 0 /\ off[1] = 1 /\ off[2] = 3 /\ off[3] = 4 /\ off[4] = 5 /\ off[5] = 6
         /\ off[6] = 7
    BY <1>0, <2>0
  <2>1b. /\ off[7] = 8 /\ off[8] = 9 /\ off[9] = 10 /\ off[10] = 11 /\ off[11] = 12
         /\ off[12] = 13
    BY <1>0, <2>0, <2>1a
  <2>2. Len(Payload("LightWashPulse", 0, 0)) = 13
    BY <1>4, <2>1a, <2>1b DEF Placed
  <2>3. {<<f[i][1], off[i - 1], f[i][2]>> : i \in 1 .. 12} = DecodeLightWashPulse
    BY <1>2, <2>1a, <2>1b DEF DecodeLightWashPulse
  <2> QED
    BY <2>2, <2>3 DEF DecodePayload, Fixed, Frame
<1> QED
  <2>1. ReadInPlace("LightWashPulse", 0, 0, 12, f)
    BY <1>1, <1>2, <1>3, <1>4 DEF ReadInPlace
  <2> QED
    BY <2>1, AgreesInPlace

\* A cleared screen.
LEMMA ClearScreenAgrees == Agrees("ClearScreen", 0, 0)
<1> DEFINE f == EncodeClearScreen
<1>1. FieldsOf("ClearScreen", 0, 0) = f /\ 3 \in Nat \ {0} /\ "ClearScreen" \in Encoded
  BY DEF FieldsOf, Encoded, Known
<1>2. /\ DOMAIN f = 1 .. 3 /\ f[1] = <<"target_group", 2>> /\ f[2] = <<"clear_text", 1>>
      /\ f[3] = <<"clear_bitmap", 1>>
  BY DEF EncodeClearScreen
<1> HIDE DEF f
<1>3. \A i \in 1 .. 3 : IsField(f[i])
  BY <1>2 DEF IsField
<1>0. /\ f[1][2] = 2 /\ f[2][2] = 1 /\ f[3][2] = 1
  BY <1>2
<1>4. ASSUME NEW off, Placed(Payload("ClearScreen", 0, 0), f, 3, off)
      PROVE  DecodePayload(Frame("ClearScreen", 0, 0))
                = Read({<<f[i][1], off[i - 1], f[i][2]>> : i \in 1 .. 3})
  <2>0. off[0] = 0 /\ \A i \in 1 .. 3 : off[i] = off[i - 1] + f[i][2]
    BY <1>4 DEF Placed
  <2>1. /\ off[0] = 0 /\ off[1] = 2 /\ off[2] = 3 /\ off[3] = 4
    BY <1>0, <2>0
  <2>2. Len(Payload("ClearScreen", 0, 0)) = 4
    BY <1>4, <2>1 DEF Placed
  <2>3. {<<f[i][1], off[i - 1], f[i][2]>> : i \in 1 .. 3} = DecodeClearScreen
    BY <1>2, <2>1 DEF DecodeClearScreen
  <2> QED
    BY <2>2, <2>3 DEF DecodePayload, Fixed, Frame
<1> QED
  <2>1. ReadInPlace("ClearScreen", 0, 0, 3, f)
    BY <1>1, <1>2, <1>3, <1>4 DEF ReadInPlace
  <2> QED
    BY <2>1, AgreesInPlace

\* The answer to a CONFIG_WRITE.
LEMMA ConfigAckAgrees == Agrees("ConfigAck", 0, 0)
<1> DEFINE f == EncodeConfigAck
<1>1. FieldsOf("ConfigAck", 0, 0) = f /\ 4 \in Nat \ {0} /\ "ConfigAck" \in Encoded
  BY DEF FieldsOf, Encoded, Known
<1>2. /\ DOMAIN f = 1 .. 4 /\ f[1] = <<"responder_uid", 4>> /\ f[2] = <<"responder_numonce", 8>>
      /\ f[3] = <<"status", 1>> /\ f[4] = <<"applied_keys", 1>>
  BY DEF EncodeConfigAck
<1> HIDE DEF f
<1>3. \A i \in 1 .. 4 : IsField(f[i])
  BY <1>2 DEF IsField
<1>0. /\ f[1][2] = 4 /\ f[2][2] = 8 /\ f[3][2] = 1 /\ f[4][2] = 1
  BY <1>2
<1>4. ASSUME NEW off, Placed(Payload("ConfigAck", 0, 0), f, 4, off)
      PROVE  DecodePayload(Frame("ConfigAck", 0, 0))
                = Read({<<f[i][1], off[i - 1], f[i][2]>> : i \in 1 .. 4})
  <2>0. off[0] = 0 /\ \A i \in 1 .. 4 : off[i] = off[i - 1] + f[i][2]
    BY <1>4 DEF Placed
  <2>1. /\ off[0] = 0 /\ off[1] = 4 /\ off[2] = 12 /\ off[3] = 13 /\ off[4] = 14
    BY <1>0, <2>0
  <2>2. Len(Payload("ConfigAck", 0, 0)) = 14
    BY <1>4, <2>1 DEF Placed
  <2>3. {<<f[i][1], off[i - 1], f[i][2]>> : i \in 1 .. 4} = DecodeConfigAck
    BY <1>2, <2>1 DEF DecodeConfigAck
  <2> QED
    BY <2>2, <2>3 DEF DecodePayload, Fixed, Frame
<1> QED
  <2>1. ReadInPlace("ConfigAck", 0, 0, 4, f)
    BY <1>1, <1>2, <1>3, <1>4 DEF ReadInPlace
  <2> QED
    BY <2>1, AgreesInPlace

\* The value of a length byte.
LEMMA LengthByte ==
    ASSUME NEW p, NEW fields, NEW n, NEW off, Placed(p, fields, n, off),
           NEW i \in 1 .. n, Len(fields[i]) = 3, fields[i][2] = 1
    PROVE  p[off[i - 1] + 1][3] = fields[i][3]
<1>1. 1 \in 1 .. fields[i][2]
  OBVIOUS
<1>2. p[off[i - 1] + 1] = <<fields[i][1], 1 - 1, IF Len(fields[i]) = 3 THEN fields[i][3] ELSE 0>>
  BY <1>1 DEF Placed
<1> QED
  BY <1>2

\* A text: the second length byte is where the first string ends.
LEMMA TextDisplayAgrees ==
    ASSUME NEW a \in Nat, NEW b \in Nat, a <= MaxHeaderLen, b <= MaxBodyLen
    PROVE  Agrees("TextDisplay", a, b)
<1> DEFINE p == Payload("TextDisplay", a, b)
           f == EncodeTextDisplay(a, b)
<1>0. a \in Nat /\ b \in Nat
  BY LengthsAssumption
<1>1. FieldsOf("TextDisplay", a, b) = f /\ 9 \in Nat \ {0} /\ "TextDisplay" \in Encoded
  BY DEF FieldsOf, Encoded, Known
<1>2. /\ DOMAIN f = 1 .. 9 /\ f[1] = <<"target_group", 2>> /\ f[2] = <<"r", 1>>
      /\ f[3] = <<"g", 1>> /\ f[4] = <<"b", 1>> /\ f[5] = <<"ttl_ms", 2>>
      /\ f[6] = <<"header_len", 1, a>> /\ f[7] = <<"header", a>> /\ f[8] = <<"body_len", 1, b>>
      /\ f[9] = <<"body", b>>
  BY DEF EncodeTextDisplay
<1> HIDE DEF f
<1>3. /\ f[1][2] = 2 /\ f[2][2] = 1 /\ f[3][2] = 1 /\ f[4][2] = 1 /\ f[5][2] = 2 /\ f[6][2] = 1
      /\ f[7][2] = a /\ f[8][2] = 1 /\ f[9][2] = b
  BY <1>2
<1>4. /\ Len(f[6]) = 3 /\ f[6][3] = a /\ Len(f[8]) = 3 /\ f[8][3] = b
  BY <1>2
<1>5. \A i \in 1 .. 9 : IsField(f[i])
  BY <1>0, <1>2 DEF IsField
<1>6. ASSUME NEW off, Placed(p, f, 9, off)
      PROVE  DecodePayload(Frame("TextDisplay", a, b))
                = Read({<<f[i][1], off[i - 1], f[i][2]>> : i \in 1 .. 9})
  <2> DEFINE wire == Frame("TextDisplay", a, b)
  <2>1. off[0] = 0 /\ \A i \in 1 .. 9 : off[i] = off[i - 1] + f[i][2]
    BY <1>6 DEF Placed
  <2>2. /\ off[0] = 0 /\ off[1] = 2 /\ off[2] = 3 /\ off[3] = 4 /\ off[4] = 5 /\ off[5] = 7
        /\ off[6] = 8 /\ off[7] = 8 + a /\ off[8] = 9 + a /\ off[9] = 9 + a + b
    BY <1>0, <1>3, <2>1
  <2>3. Len(p) = 9 + a + b /\ wire.says = Len(p) /\ wire.payload = p /\ wire.type = "TextDisplay"
    BY <1>6, <2>2 DEF Placed, Frame
  <2> HIDE DEF p
  <2>4. ByteAt(wire, 7) = a
    <3>1. 6 \in 1 .. 9 /\ 6 - 1 = 5 /\ Len(f[6]) = 3 /\ f[6][2] = 1
      BY <1>3, <1>4
    <3>2. p[off[5] + 1][3] = f[6][3]
      BY <1>6, <3>1, LengthByte
    <3>3. p[7 + 1][3] = a /\ 7 < Len(p)
      BY <1>0, <1>4, <2>2, <2>3, <3>2
    <3> QED
      BY <2>3, <3>3 DEF ByteAt
  <2>5. ByteAt(wire, 8 + a) = b
    <3>1. 8 \in 1 .. 9 /\ 8 - 1 = 7 /\ Len(f[8]) = 3 /\ f[8][2] = 1
      BY <1>3, <1>4
    <3>2. p[off[7] + 1][3] = f[8][3]
      BY <1>6, <3>1, LengthByte
    <3>3. p[8 + a + 1][3] = b /\ 8 + a < Len(p)
      BY <1>0, <1>4, <2>2, <2>3, <3>2
    <3> QED
      BY <2>3, <3>3 DEF ByteAt
  <2> HIDE DEF wire
  <2>6. DecodePayload(wire) = DecodeTextDisplay(wire)
    BY <2>3 DEF DecodePayload
  <2>7. {<<f[i][1], off[i - 1], f[i][2]>> : i \in 1 .. 9} =
          {<<"target_group", 0, 2>>, <<"r", 2, 1>>, <<"g", 3, 1>>, <<"b", 4, 1>>,
           <<"ttl_ms", 5, 2>>, <<"header_len", 7, 1>>}
             \cup {<<"header", 8, a>>, <<"body_len", 8 + a, 1>>} \cup {<<"body", 9 + a, b>>}
    BY <1>2, <2>2
  <2>8. DecodeTextDisplay(wire) =
          Read({<<"target_group", 0, 2>>, <<"r", 2, 1>>, <<"g", 3, 1>>, <<"b", 4, 1>>,
           <<"ttl_ms", 5, 2>>, <<"header_len", 7, 1>>}
             \cup {<<"header", 8, a>>, <<"body_len", 8 + a, 1>>} \cup {<<"body", 9 + a, b>>})
    <3>1. /\ ~(wire.says < 9) /\ ~(a > MaxHeaderLen) /\ ~(wire.says < 8 + a + 1)
          /\ ~(b > MaxBodyLen) /\ wire.says = 8 + a + 1 + b
      BY <1>0, <2>3, <2>4, <2>5, LengthsAssumption
    <3> QED
      BY <2>4, <2>5, <3>1 DEF DecodeTextDisplay
  <2> QED
    BY <2>6, <2>7, <2>8 DEF wire
<1>7. ReadInPlace("TextDisplay", a, b, 9, f)
  BY <1>1, <1>2, <1>5, <1>6 DEF ReadInPlace
<1> QED
  BY <1>7, AgreesInPlace

\* The header of a bitmap, refused unless it can be drawn.
LEMMA BitmapHeaderAgrees ==
    ASSUME NEW a \in Nat, NEW b \in Nat, Drawable(a, b, b)
    PROVE  Agrees("BitmapHeader", a, b)
<1> DEFINE p == Payload("BitmapHeader", a, b)
           f == EncodeBitmapHeader(a, b)
<1>0. a \in Nat /\ b \in Nat
  BY LengthsAssumption
<1>1. FieldsOf("BitmapHeader", a, b) = f /\ 10 \in Nat \ {0} /\ "BitmapHeader" \in Encoded
  BY DEF FieldsOf, Encoded, Known
<1>2. /\ DOMAIN f = 1 .. 10 /\ f[1] = <<"target_group", 2>> /\ f[2] = <<"width", 1, b>>
      /\ f[3] = <<"height", 1, b>> /\ f[4] = <<"plane_count", 1, a>> /\ f[5] = <<"colours", 24>>
      /\ f[6] = <<"fit", 1>> /\ f[7] = <<"zoom_pct", 1>> /\ f[8] = <<"overwrite", 1>>
      /\ f[9] = <<"checksum", 4>> /\ f[10] = <<"ttl_ms", 2>>
  BY DEF EncodeBitmapHeader
<1> HIDE DEF f
<1>3. /\ f[1][2] = 2 /\ f[2][2] = 1 /\ f[3][2] = 1 /\ f[4][2] = 1 /\ f[5][2] = 24 /\ f[6][2] = 1
      /\ f[7][2] = 1 /\ f[8][2] = 1 /\ f[9][2] = 4 /\ f[10][2] = 2
  BY <1>2
<1>4. /\ Len(f[2]) = 3 /\ f[2][3] = b /\ Len(f[3]) = 3 /\ f[3][3] = b
      /\ Len(f[4]) = 3 /\ f[4][3] = a
  BY <1>2
<1>5. \A i \in 1 .. 10 : IsField(f[i])
  BY <1>0, <1>2 DEF IsField
<1>6. ASSUME NEW off, Placed(p, f, 10, off)
      PROVE  DecodePayload(Frame("BitmapHeader", a, b))
                = Read({<<f[i][1], off[i - 1], f[i][2]>> : i \in 1 .. 10})
  <2> DEFINE wire == Frame("BitmapHeader", a, b)
  <2>1. off[0] = 0 /\ \A i \in 1 .. 10 : off[i] = off[i - 1] + f[i][2]
    BY <1>6 DEF Placed
  <2>2. /\ off[0] = 0 /\ off[1] = 2 /\ off[2] = 3 /\ off[3] = 4 /\ off[4] = 5 /\ off[5] = 29
        /\ off[6] = 30 /\ off[7] = 31 /\ off[8] = 32 /\ off[9] = 36 /\ off[10] = 38
    BY <1>0, <1>3, <2>1
  <2>3. Len(p) = 38 /\ wire.says = Len(p) /\ wire.payload = p /\ wire.type = "BitmapHeader"
    BY <1>6, <2>2 DEF Placed, Frame
  <2> HIDE DEF p
  <2>4. ByteAt(wire, 2) = b
    <3>1. 2 \in 1 .. 10 /\ 2 - 1 = 1 /\ Len(f[2]) = 3 /\ f[2][2] = 1
      BY <1>3, <1>4
    <3>2. p[off[1] + 1][3] = f[2][3]
      BY <1>6, <3>1, LengthByte
    <3>3. p[2 + 1][3] = b /\ 2 < Len(p)
      BY <1>0, <1>4, <2>2, <2>3, <3>2
    <3> QED
      BY <2>3, <3>3 DEF ByteAt
  <2>5. ByteAt(wire, 3) = b
    <3>1. 3 \in 1 .. 10 /\ 3 - 1 = 2 /\ Len(f[3]) = 3 /\ f[3][2] = 1
      BY <1>3, <1>4
    <3>2. p[off[2] + 1][3] = f[3][3]
      BY <1>6, <3>1, LengthByte
    <3>3. p[3 + 1][3] = b /\ 3 < Len(p)
      BY <1>0, <1>4, <2>2, <2>3, <3>2
    <3> QED
      BY <2>3, <3>3 DEF ByteAt
  <2>6. ByteAt(wire, 4) = a
    <3>1. 4 \in 1 .. 10 /\ 4 - 1 = 3 /\ Len(f[4]) = 3 /\ f[4][2] = 1
      BY <1>3, <1>4
    <3>2. p[off[3] + 1][3] = f[4][3]
      BY <1>6, <3>1, LengthByte
    <3>3. p[4 + 1][3] = a /\ 4 < Len(p)
      BY <1>0, <1>4, <2>2, <2>3, <3>2
    <3> QED
      BY <2>3, <3>3 DEF ByteAt
  <2> HIDE DEF wire
  <2>7. DecodePayload(wire) = DecodeBitmapHeader(wire)
    BY <2>3 DEF DecodePayload
  <2>8. {<<f[i][1], off[i - 1], f[i][2]>> : i \in 1 .. 10} =
          {<<"target_group", 0, 2>>, <<"width", 2, 1>>, <<"height", 3, 1>>, <<"plane_count", 4, 1>>}
             \cup {<<"colours", 5, 24>>, <<"fit", 29, 1>>, <<"zoom_pct", 30, 1>>,
                   <<"overwrite", 31, 1>>, <<"checksum", 32, 4>>, <<"ttl_ms", 36, 2>>}
    BY <1>2, <2>2
  <2>9. DecodeBitmapHeader(wire) =
          Read({<<"target_group", 0, 2>>, <<"width", 2, 1>>, <<"height", 3, 1>>,
                <<"plane_count", 4, 1>>}
             \cup {<<"colours", 5, 24>>, <<"fit", 29, 1>>, <<"zoom_pct", 30, 1>>,
                   <<"overwrite", 31, 1>>, <<"checksum", 32, 4>>, <<"ttl_ms", 36, 2>>})
    <3>1. /\ wire.says = 38 /\ Drawable(a, b, b)
      BY <1>0, <2>3, <2>4, <2>5, <2>6, LengthsAssumption DEF Drawable
    <3> QED
      BY <2>4, <2>5, <2>6, <3>1 DEF DecodeBitmapHeader
  <2> QED
    BY <2>7, <2>8, <2>9 DEF wire
<1>7. ReadInPlace("BitmapHeader", a, b, 10, f)
  BY <1>1, <1>2, <1>5, <1>6 DEF ReadInPlace
<1> QED
  BY <1>7, AgreesInPlace

\* A stretch of a plane.
LEMMA BitmapPlaneAgrees ==
    ASSUME NEW a \in Nat, NEW b, a <= MaxDataLen
    PROVE  Agrees("BitmapPlane", a, b)
<1> DEFINE p == Payload("BitmapPlane", a, b)
           f == EncodeBitmapPlane(a)
<1>0. a \in Nat
  BY LengthsAssumption
<1>1. FieldsOf("BitmapPlane", a, b) = f /\ 5 \in Nat \ {0} /\ "BitmapPlane" \in Encoded
  BY DEF FieldsOf, Encoded, Known
<1>2. /\ DOMAIN f = 1 .. 5 /\ f[1] = <<"target_group", 2>> /\ f[2] = <<"plane_index", 1>>
      /\ f[3] = <<"byte_offset", 2>> /\ f[4] = <<"data_len", 1, a>> /\ f[5] = <<"data", a>>
  BY DEF EncodeBitmapPlane
<1> HIDE DEF f
<1>3. /\ f[1][2] = 2 /\ f[2][2] = 1 /\ f[3][2] = 2 /\ f[4][2] = 1 /\ f[5][2] = a
  BY <1>2
<1>4. /\ Len(f[4]) = 3 /\ f[4][3] = a
  BY <1>2
<1>5. \A i \in 1 .. 5 : IsField(f[i])
  BY <1>0, <1>2 DEF IsField
<1>6. ASSUME NEW off, Placed(p, f, 5, off)
      PROVE  DecodePayload(Frame("BitmapPlane", a, b))
                = Read({<<f[i][1], off[i - 1], f[i][2]>> : i \in 1 .. 5})
  <2> DEFINE wire == Frame("BitmapPlane", a, b)
  <2>1. off[0] = 0 /\ \A i \in 1 .. 5 : off[i] = off[i - 1] + f[i][2]
    BY <1>6 DEF Placed
  <2>2. /\ off[0] = 0 /\ off[1] = 2 /\ off[2] = 3 /\ off[3] = 5 /\ off[4] = 6 /\ off[5] = 6 + a
    BY <1>0, <1>3, <2>1
  <2>3. Len(p) = 6 + a /\ wire.says = Len(p) /\ wire.payload = p /\ wire.type = "BitmapPlane"
    BY <1>6, <2>2 DEF Placed, Frame
  <2> HIDE DEF p
  <2>4. ByteAt(wire, 5) = a
    <3>1. 4 \in 1 .. 5 /\ 4 - 1 = 3 /\ Len(f[4]) = 3 /\ f[4][2] = 1
      BY <1>3, <1>4
    <3>2. p[off[3] + 1][3] = f[4][3]
      BY <1>6, <3>1, LengthByte
    <3>3. p[5 + 1][3] = a /\ 5 < Len(p)
      BY <1>0, <1>4, <2>2, <2>3, <3>2
    <3> QED
      BY <2>3, <3>3 DEF ByteAt
  <2> HIDE DEF wire
  <2>5. DecodePayload(wire) = DecodeBitmapPlane(wire)
    BY <2>3 DEF DecodePayload
  <2>6. {<<f[i][1], off[i - 1], f[i][2]>> : i \in 1 .. 5} =
          {<<"target_group", 0, 2>>, <<"plane_index", 2, 1>>, <<"byte_offset", 3, 2>>,
           <<"data_len", 5, 1>>} \cup {<<"data", 6, a>>}
    BY <1>2, <2>2
  <2>7. DecodeBitmapPlane(wire) =
          Read({<<"target_group", 0, 2>>, <<"plane_index", 2, 1>>, <<"byte_offset", 3, 2>>,
           <<"data_len", 5, 1>>} \cup {<<"data", 6, a>>})
    <3>1. /\ ~(wire.says < 6) /\ ~(a > MaxDataLen) /\ wire.says = 6 + a
      BY <1>0, <2>3, <2>4, LengthsAssumption
    <3> QED
      BY <2>4, <3>1 DEF DecodeBitmapPlane
  <2> QED
    BY <2>5, <2>6, <2>7 DEF wire
<1>7. ReadInPlace("BitmapPlane", a, b, 5, f)
  BY <1>1, <1>2, <1>5, <1>6 DEF ReadInPlace
<1> QED
  BY <1>7, AgreesInPlace

\* A beacon, its name cut to what fits.
LEMMA UidAnnounceAgrees ==
    ASSUME NEW a \in Nat, NEW b
    PROVE  Agrees("UidAnnounce", a, b)
<1> DEFINE p == Payload("UidAnnounce", a, b)
           c == Cut(a, MaxNameLen)
           f == EncodeUidAnnounce(c)
<1>0. c \in Nat /\ c <= MaxNameLen
  BY LengthsAssumption DEF Cut
<1>1. FieldsOf("UidAnnounce", a, b) = f /\ 6 \in Nat \ {0} /\ "UidAnnounce" \in Encoded
  BY DEF FieldsOf, Encoded, Known
<1> HIDE DEF c
<1>2. /\ DOMAIN f = 1 .. 6 /\ f[1] = <<"uid", 4>> /\ f[2] = <<"secret", 16>>
      /\ f[3] = <<"role", 1>> /\ f[4] = <<"host", 1>> /\ f[5] = <<"friendly_name_len", 1, c>>
      /\ f[6] = <<"friendly_name", c>>
  BY DEF EncodeUidAnnounce
<1> HIDE DEF f
<1>3. /\ f[1][2] = 4 /\ f[2][2] = 16 /\ f[3][2] = 1 /\ f[4][2] = 1 /\ f[5][2] = 1 /\ f[6][2] = c
  BY <1>2
<1>4. /\ Len(f[5]) = 3 /\ f[5][3] = c
  BY <1>2
<1>5. \A i \in 1 .. 6 : IsField(f[i])
  BY <1>0, <1>2 DEF IsField
<1>6. ASSUME NEW off, Placed(p, f, 6, off)
      PROVE  DecodePayload(Frame("UidAnnounce", a, b))
                = Read({<<f[i][1], off[i - 1], f[i][2]>> : i \in 1 .. 6})
  <2> DEFINE wire == Frame("UidAnnounce", a, b)
  <2>1. off[0] = 0 /\ \A i \in 1 .. 6 : off[i] = off[i - 1] + f[i][2]
    BY <1>6 DEF Placed
  <2>2. /\ off[0] = 0 /\ off[1] = 4 /\ off[2] = 20 /\ off[3] = 21 /\ off[4] = 22 /\ off[5] = 23
        /\ off[6] = 23 + c
    BY <1>0, <1>3, <2>1
  <2>3. Len(p) = 23 + c /\ wire.says = Len(p) /\ wire.payload = p /\ wire.type = "UidAnnounce"
    BY <1>6, <2>2 DEF Placed, Frame
  <2> HIDE DEF p
  <2>4. ByteAt(wire, 22) = c
    <3>1. 5 \in 1 .. 6 /\ 5 - 1 = 4 /\ Len(f[5]) = 3 /\ f[5][2] = 1
      BY <1>3, <1>4
    <3>2. p[off[4] + 1][3] = f[5][3]
      BY <1>6, <3>1, LengthByte
    <3>3. p[22 + 1][3] = c /\ 22 < Len(p)
      BY <1>0, <1>4, <2>2, <2>3, <3>2
    <3> QED
      BY <2>3, <3>3 DEF ByteAt
  <2> HIDE DEF wire
  <2>5. DecodePayload(wire) = DecodeUidAnnounce(wire)
    BY <2>3 DEF DecodePayload
  <2>6. {<<f[i][1], off[i - 1], f[i][2]>> : i \in 1 .. 6} =
          {<<"uid", 0, 4>>, <<"secret", 4, 16>>, <<"role", 20, 1>>, <<"host", 21, 1>>,
           <<"friendly_name_len", 22, 1>>, <<"friendly_name", 23, c>>}
    BY <1>2, <2>2
  <2>7. DecodeUidAnnounce(wire) =
          Read({<<"uid", 0, 4>>, <<"secret", 4, 16>>, <<"role", 20, 1>>, <<"host", 21, 1>>,
           <<"friendly_name_len", 22, 1>>, <<"friendly_name", 23, c>>})
    <3>1. /\ ~(wire.says < 23) /\ ~(wire.says > 23 + MaxNameLen)
          /\ ~(c > MaxNameLen) /\ wire.says = 23 + c
      BY <1>0, <2>3, <2>4, LengthsAssumption
    <3> QED
      BY <2>4, <3>1 DEF DecodeUidAnnounce
  <2> QED
    BY <2>5, <2>6, <2>7 DEF wire
<1>7. ReadInPlace("UidAnnounce", a, b, 6, f)
  BY <1>1, <1>2, <1>5, <1>6 DEF ReadInPlace
<1> QED
  BY <1>7, AgreesInPlace

\* A write, its bag cut to what fits.
LEMMA ConfigWriteAgrees ==
    ASSUME NEW a \in Nat, NEW b
    PROVE  Agrees("ConfigWrite", a, b)
<1> DEFINE p == Payload("ConfigWrite", a, b)
           c == Cut(a, MaxBagLen)
           f == EncodeConfigWrite(c)
<1>0. c \in Nat /\ c <= MaxBagLen
  BY LengthsAssumption DEF Cut
<1>1. FieldsOf("ConfigWrite", a, b) = f /\ 5 \in Nat \ {0} /\ "ConfigWrite" \in Encoded
  BY DEF FieldsOf, Encoded, Known
<1> HIDE DEF c
<1>2. /\ DOMAIN f = 1 .. 5 /\ f[1] = <<"target_uid", 4>> /\ f[2] = <<"numonce", 8>>
      /\ f[3] = <<"bag_len", 1, c>> /\ f[4] = <<"bag_tlv", c>> /\ f[5] = <<"hmac", 8>>
  BY DEF EncodeConfigWrite
<1> HIDE DEF f
<1>3. /\ f[1][2] = 4 /\ f[2][2] = 8 /\ f[3][2] = 1 /\ f[4][2] = c /\ f[5][2] = 8
  BY <1>2
<1>4. /\ Len(f[3]) = 3 /\ f[3][3] = c
  BY <1>2
<1>5. \A i \in 1 .. 5 : IsField(f[i])
  BY <1>0, <1>2 DEF IsField
<1>6. ASSUME NEW off, Placed(p, f, 5, off)
      PROVE  DecodePayload(Frame("ConfigWrite", a, b))
                = Read({<<f[i][1], off[i - 1], f[i][2]>> : i \in 1 .. 5})
  <2> DEFINE wire == Frame("ConfigWrite", a, b)
  <2>1. off[0] = 0 /\ \A i \in 1 .. 5 : off[i] = off[i - 1] + f[i][2]
    BY <1>6 DEF Placed
  <2>2. /\ off[0] = 0 /\ off[1] = 4 /\ off[2] = 12 /\ off[3] = 13 /\ off[4] = 13 + c
        /\ off[5] = 21 + c
    BY <1>0, <1>3, <2>1
  <2>3. Len(p) = 21 + c /\ wire.says = Len(p) /\ wire.payload = p /\ wire.type = "ConfigWrite"
    BY <1>6, <2>2 DEF Placed, Frame
  <2> HIDE DEF p
  <2>4. ByteAt(wire, 12) = c
    <3>1. 3 \in 1 .. 5 /\ 3 - 1 = 2 /\ Len(f[3]) = 3 /\ f[3][2] = 1
      BY <1>3, <1>4
    <3>2. p[off[2] + 1][3] = f[3][3]
      BY <1>6, <3>1, LengthByte
    <3>3. p[12 + 1][3] = c /\ 12 < Len(p)
      BY <1>0, <1>4, <2>2, <2>3, <3>2
    <3> QED
      BY <2>3, <3>3 DEF ByteAt
  <2> HIDE DEF wire
  <2>5. DecodePayload(wire) = DecodeConfigWrite(wire)
    BY <2>3 DEF DecodePayload
  <2>6. {<<f[i][1], off[i - 1], f[i][2]>> : i \in 1 .. 5} =
          {<<"target_uid", 0, 4>>, <<"numonce", 4, 8>>, <<"bag_len", 12, 1>>,
           <<"bag_tlv", 13, c>>, <<"hmac", 13 + c, 8>>}
    BY <1>2, <2>2
  <2>7. DecodeConfigWrite(wire) =
          Read({<<"target_uid", 0, 4>>, <<"numonce", 4, 8>>, <<"bag_len", 12, 1>>,
           <<"bag_tlv", 13, c>>, <<"hmac", 13 + c, 8>>})
    <3>1. /\ ~(wire.says < 21) /\ ~(wire.says > 21 + MaxBagLen)
          /\ ~(c > MaxBagLen) /\ wire.says = 21 + c
      BY <1>0, <2>3, <2>4, LengthsAssumption
    <3> QED
      BY <2>4, <3>1 DEF DecodeConfigWrite
  <2> QED
    BY <2>5, <2>6, <2>7 DEF wire
<1>7. ReadInPlace("ConfigWrite", a, b, 5, f)
  BY <1>1, <1>2, <1>5, <1>6 DEF ReadInPlace
<1> QED
  BY <1>7, AgreesInPlace

\* Every struct an encoder takes is read back as it was written.
LEMMA EncodedAgrees ==
    ASSUME NEW type \in Encoded, NEW n \in Nat, NEW m \in Nat, Encodes(type, n, m),
           type \notin Sized \cup {"ConfigWrite"} => n = 0 /\ m = 0
    PROVE  Agrees(type, n, m)
<1>1. CASE type \in {"Heartbeat", "RepeaterHeartbeat", "LightPulse", "LightWash",
                     "LightWashEnd", "LightWashPulse", "ClearScreen", "ConfigAck"}
  <2>1. n = 0 /\ m = 0
    BY <1>1 DEF Sized
  <2> QED
    BY <1>1, <2>1, HeartbeatAgrees, RepeaterHeartbeatAgrees, LightPulseAgrees, LightWashAgrees,
       LightWashEndAgrees, LightWashPulseAgrees, ClearScreenAgrees, ConfigAckAgrees, Zenon
<1>2. CASE type = "TextDisplay"
  <2>1. n <= MaxHeaderLen /\ m <= MaxBodyLen
    BY <1>2 DEF Encodes
  <2> QED
    BY <1>2, <2>1, TextDisplayAgrees
<1>3. CASE type = "BitmapHeader"
  <2>1. Drawable(n, m, m)
    BY <1>3 DEF Encodes
  <2> QED
    BY <1>3, <2>1, BitmapHeaderAgrees
<1>4. CASE type = "BitmapPlane"
  <2>1. n <= MaxDataLen
    BY <1>4 DEF Encodes
  <2> QED
    BY <1>4, <2>1, BitmapPlaneAgrees
<1>5. CASE type = "UidAnnounce"
  BY <1>5, UidAnnounceAgrees
<1>6. CASE type = "ConfigWrite"
  BY <1>6, ConfigWriteAgrees
<1> QED
  BY <1>1, <1>2, <1>3, <1>4, <1>5, <1>6 DEF Encoded, Known

\* What arrives: as many bytes as the air has left of it.
IsFrame(f) == f.says \in Nat /\ IsPayload(f.payload)

\* A byte is a number, also one that was not received.
LEMMA ByteIsNumber ==
    ASSUME NEW f, IsFrame(f), NEW at \in Nat
    PROVE  ByteAt(f, at) \in Nat
<1>1. PICK names : f.payload \in Seq(BytesOfAny(names))
  BY DEF IsFrame, IsPayload
<1>2. CASE at < Len(f.payload)
  <2>1. f.payload[at + 1] \in BytesOfAny(names)
    BY <1>1, <1>2
  <2>2. f.payload[at + 1][3] \in Nat
    BY <2>1 DEF BytesOfAny
  <2> QED
    BY <1>2, <2>2 DEF ByteAt
<1> QED
  BY <1>2 DEF ByteAt

Within(reads, length) ==
    \A read \in reads : /\ read[2] \in Nat /\ read[3] \in Nat
                        /\ read[2] + read[3] <= length

\* No decoder of variable length trusts a length byte further than the header's
\* length, which the receiver has compared with what arrived.
LEMMA DecodersStay ==
    ASSUME NEW f, IsFrame(f)
    PROVE  /\ Within(DecodeTextDisplay(f).reads, f.says)
           /\ Within(DecodeBitmapHeader(f).reads, f.says)
           /\ Within(DecodeBitmapPlane(f).reads, f.says)
           /\ Within(DecodeUidAnnounce(f).reads, f.says)
           /\ Within(DecodeConfigWrite(f).reads, f.says)
<1>0. f.says \in Nat /\ \A at \in Nat : ByteAt(f, at) \in Nat
  BY ByteIsNumber DEF IsFrame
<1>1. Within(DecodeTextDisplay(f).reads, f.says)
  <2> DEFINE n == ByteAt(f, 7)
             m == ByteAt(f, 8 + n)
             prefix == {<<"target_group", 0, 2>>, <<"r", 2, 1>>, <<"g", 3, 1>>, <<"b", 4, 1>>,
                        <<"ttl_ms", 5, 2>>, <<"header_len", 7, 1>>}
             strings == {<<"header", 8, n>>, <<"body_len", 8 + n, 1>>}
             d == DecodeTextDisplay(f)
  <2>1. n \in Nat /\ m \in Nat
    <3>1. n \in Nat
      BY <1>0
    <3>2. 8 + n \in Nat
      BY <3>1
    <3> QED
      BY <1>0, <3>1, <3>2
  <2>2. \/ d.reads = {}
        \/ d.reads = prefix /\ ~(f.says < 9)
        \/ d.reads = prefix \cup strings /\ ~(f.says < 8 + n + 1)
        \/ d.reads = prefix \cup strings \cup {<<"body", 9 + n, m>>} /\ f.says = 8 + n + 1 + m
    BY DEF DecodeTextDisplay, Read, Mismatch
  <2> HIDE DEF n, m, d
  <2>3. ~(f.says < 9) => Within(prefix, f.says)
    BY <1>0 DEF Within
  <2>4. ~(f.says < 8 + n + 1) => Within(prefix, f.says) /\ Within(strings, f.says)
    BY <1>0, <2>1, <2>3 DEF Within
  <2>5. f.says = 8 + n + 1 + m =>
           /\ Within(prefix, f.says) /\ Within(strings, f.says)
           /\ Within({<<"body", 9 + n, m>>}, f.says)
    BY <1>0, <2>1, <2>4 DEF Within
  <2> HIDE DEF prefix, strings
  <2>6. Within(d.reads, f.says)
    BY <2>2, <2>3, <2>4, <2>5 DEF Within
  <2> QED
    BY <2>6 DEF d
<1>2. Within(DecodeBitmapHeader(f).reads, f.says)
  <2> DEFINE size == {<<"target_group", 0, 2>>, <<"width", 2, 1>>, <<"height", 3, 1>>,
                      <<"plane_count", 4, 1>>}
             rest == {<<"colours", 5, 24>>, <<"fit", 29, 1>>, <<"zoom_pct", 30, 1>>,
                      <<"overwrite", 31, 1>>, <<"checksum", 32, 4>>, <<"ttl_ms", 36, 2>>}
             reads == DecodeBitmapHeader(f).reads
  <2>1. reads = {} \/ (f.says = 38 /\ reads \in {size, size \cup rest})
    BY DEF DecodeBitmapHeader, Read, Mismatch
  <2> HIDE DEF reads
  <2>2. f.says = 38 => Within(size \cup rest, f.says)
    BY DEF Within
  <2> HIDE DEF size, rest
  <2>3. Within(reads, f.says)
    BY <2>1, <2>2 DEF Within
  <2> QED
    BY <2>3 DEF reads
<1>3. Within(DecodeBitmapPlane(f).reads, f.says)
  <2> DEFINE n == ByteAt(f, 5)
             prefix == {<<"target_group", 0, 2>>, <<"plane_index", 2, 1>>,
                        <<"byte_offset", 3, 2>>, <<"data_len", 5, 1>>}
             reads == DecodeBitmapPlane(f).reads
  <2>1. \/ reads = {} \/ (~(f.says < 6) /\ reads = prefix)
        \/ f.says = 6 + n /\ reads = prefix \cup {<<"data", 6, n>>}
    BY DEF DecodeBitmapPlane, Read, Mismatch
  <2>2. n \in Nat
    BY <1>0
  <2> HIDE DEF n, reads
  <2>3. ~(f.says < 6) => Within(prefix, f.says)
    BY <1>0 DEF Within
  <2>4. f.says = 6 + n => Within(prefix \cup {<<"data", 6, n>>}, f.says)
    BY <1>0, <2>2, <2>3 DEF Within
  <2> HIDE DEF prefix
  <2>5. Within(reads, f.says)
    BY <2>1, <2>3, <2>4 DEF Within
  <2> QED
    BY <2>5 DEF reads
<1>4. Within(DecodeUidAnnounce(f).reads, f.says)
  <2> DEFINE n == ByteAt(f, 22)
             all == {<<"uid", 0, 4>>, <<"secret", 4, 16>>, <<"role", 20, 1>>, <<"host", 21, 1>>,
                     <<"friendly_name_len", 22, 1>>, <<"friendly_name", 23, n>>}
             reads == DecodeUidAnnounce(f).reads
  <2>1. \/ reads = {} \/ (~(f.says < 23) /\ reads = {<<"friendly_name_len", 22, 1>>})
        \/ f.says = 23 + n /\ reads = all
    BY DEF DecodeUidAnnounce, Read, Mismatch
  <2>2. n \in Nat
    BY <1>0
  <2> HIDE DEF n, reads
  <2>3. ~(f.says < 23) => Within({<<"friendly_name_len", 22, 1>>}, f.says)
    BY <1>0 DEF Within
  <2>4. f.says = 23 + n => Within(all, f.says)
    BY <1>0, <2>2 DEF Within
  <2> HIDE DEF all
  <2>5. Within(reads, f.says)
    BY <2>1, <2>3, <2>4 DEF Within
  <2> QED
    BY <2>5 DEF reads
<1>5. Within(DecodeConfigWrite(f).reads, f.says)
  <2> DEFINE n == ByteAt(f, 12)
             all == {<<"target_uid", 0, 4>>, <<"numonce", 4, 8>>, <<"bag_len", 12, 1>>,
                     <<"bag_tlv", 13, n>>, <<"hmac", 13 + n, 8>>}
             reads == DecodeConfigWrite(f).reads
  <2>1. \/ reads = {} \/ (~(f.says < 21) /\ reads = {<<"bag_len", 12, 1>>})
        \/ f.says = 21 + n /\ reads = all
    BY DEF DecodeConfigWrite, Read, Mismatch
  <2>2. n \in Nat
    BY <1>0
  <2> HIDE DEF n, reads
  <2>3. ~(f.says < 21) => Within({<<"bag_len", 12, 1>>}, f.says)
    BY <1>0 DEF Within
  <2>4. f.says = 21 + n => Within(all, f.says)
    BY <1>0, <2>2 DEF Within
  <2> HIDE DEF all
  <2>5. Within(reads, f.says)
    BY <2>1, <2>3, <2>4 DEF Within
  <2> QED
    BY <2>5 DEF reads
<1> QED
  BY <1>1, <1>2, <1>3, <1>4, <1>5

\* Whatever arrives, what is read of it has arrived.
LEMMA DecodeStays ==
    ASSUME NEW f, IsFrame(f)
    PROVE  \A read \in Decode(f).reads : read[2] + read[3] <= Len(f.payload)
<1>1. CASE DecodeHeader(f) # "Ok" \/ f.type \notin Encoded
  <2>1. Decode(f).reads = {}
    BY <1>1 DEF Decode, Mismatch
  <2> QED
    BY <2>1
<1>2. CASE DecodeHeader(f) = "Ok" /\ f.type \in Encoded
  <2> DEFINE reads == DecodePayload(f).reads
  <2>1. Decode(f).reads = reads
    BY <1>2 DEF Decode
  <2>2. f.says \in Nat /\ Len(f.payload) \in Nat /\ f.says <= Len(f.payload)
    <3>1. ~(f.says > Len(f.payload))
      BY <1>2 DEF DecodeHeader
    <3>2. f.says \in Nat /\ Len(f.payload) \in Nat
      BY DEF IsFrame, IsPayload
    <3> QED
      BY <3>1, <3>2
  <2>3. ASSUME NEW length, NEW fields, reads = Fixed(f, length, fields).reads,
               length \in Nat, Within(fields, length)
        PROVE  Within(reads, f.says)
    BY <2>3 DEF Fixed, Read, Mismatch, Within
  <2>4. Within(reads, f.says)
    <3>1. CASE f.type \in {"TextDisplay", "BitmapHeader", "BitmapPlane", "UidAnnounce",
                           "ConfigWrite"}
      BY <3>1, DecodersStay DEF DecodePayload
    <3>2. CASE f.type = "Heartbeat"
      <4>1. reads = Fixed(f, 9, DecodeHeartbeat).reads
        BY <3>2 DEF DecodePayload
      <4>2. Within(DecodeHeartbeat, 9)
        BY DEF Within, DecodeHeartbeat
      <4> QED
        BY <2>3, <4>1, <4>2
    <3>3. CASE f.type = "RepeaterHeartbeat"
      <4>1. reads = Fixed(f, 10, DecodeRepeaterHeartbeat).reads
        BY <3>3 DEF DecodePayload
      <4>2. Within(DecodeRepeaterHeartbeat, 10)
        BY DEF Within, DecodeRepeaterHeartbeat
      <4> QED
        BY <2>3, <4>1, <4>2
    <3>4. CASE f.type = "LightPulse"
      <4>1. reads = Fixed(f, 13, DecodeLightPulse).reads
        BY <3>4 DEF DecodePayload
      <4>2. Within(DecodeLightPulse, 13)
        BY DEF Within, DecodeLightPulse
      <4> QED
        BY <2>3, <4>1, <4>2
    <3>5. CASE f.type = "LightWash"
      <4>1. reads = Fixed(f, 20, DecodeLightWash).reads
        BY <3>5 DEF DecodePayload
      <4>2. Within(DecodeLightWash, 20)
        BY DEF Within, DecodeLightWash
      <4> QED
        BY <2>3, <4>1, <4>2
    <3>6. CASE f.type = "LightWashEnd"
      <4>1. reads = Fixed(f, 7, DecodeLightWashEnd).reads
        BY <3>6 DEF DecodePayload
      <4>2. Within(DecodeLightWashEnd, 7)
        BY DEF Within, DecodeLightWashEnd
      <4> QED
        BY <2>3, <4>1, <4>2
    <3>7. CASE f.type = "LightWashPulse"
      <4>1. reads = Fixed(f, 13, DecodeLightWashPulse).reads
        BY <3>7 DEF DecodePayload
      <4>2. Within(DecodeLightWashPulse, 13)
        BY DEF Within, DecodeLightWashPulse
      <4> QED
        BY <2>3, <4>1, <4>2
    <3>8. CASE f.type = "ClearScreen"
      <4>1. reads = Fixed(f, 4, DecodeClearScreen).reads
        BY <3>8 DEF DecodePayload
      <4>2. Within(DecodeClearScreen, 4)
        BY DEF Within, DecodeClearScreen
      <4> QED
        BY <2>3, <4>1, <4>2
    <3>9. CASE f.type = "ConfigAck"
      <4>1. reads = Fixed(f, 14, DecodeConfigAck).reads
        BY <3>9 DEF DecodePayload
      <4>2. Within(DecodeConfigAck, 14)
        BY DEF Within, DecodeConfigAck
      <4> QED
        BY <2>3, <4>1, <4>2
    <3> QED
      BY <1>2, <3>1, <3>2, <3>3, <3>4, <3>5, <3>6, <3>7, <3>8, <3>9 DEF Encoded, Known
  <2> HIDE DEF reads
  <2>5. ASSUME NEW read \in reads PROVE read[2] + read[3] <= Len(f.payload)
    <3>0. read[2] \in Nat /\ read[3] \in Nat /\ read[2] + read[3] <= f.says
      BY <2>4 DEF Within
    <3> QED
      BY <2>2, <3>0
  <2> QED
    BY <2>1, <2>5
<1> QED
  BY <1>1, <1>2
\* The frame on the air is what an encoder made of numbers, or such a frame
\* damaged; of a whole one the codec owes what it owes every encoded frame.
CodecInv ==
    /\ FrameShaped
    /\ frame.wire # None => IsFrame(frame.wire)
    /\ frame.intact =>
          LET made == frame.made
          IN  /\ frame.wire = Frame(made.type, made.n, made.m)
              /\ Agrees(made.type, made.n, made.m)

\* What was encoded is a frame.
LEMMA EncodedIsFrame ==
    ASSUME NEW type, NEW n, NEW m, Agrees(type, n, m)
    PROVE  IsFrame(Frame(type, n, m))
<1>1. IsPayload(Payload(type, n, m))
  BY DEF Agrees, Frame
<1>2. Len(Payload(type, n, m)) \in Nat
  BY <1>1 DEF IsPayload
<1> QED
  BY <1>1, <1>2 DEF IsFrame, Frame

\* Whatever the air makes of a frame is one.
LEMMA DamagedIsFrame ==
    ASSUME NEW type, NEW n, NEW m, IsFrame(Frame(type, n, m)),
           NEW f \in Damaged(Frame(type, n, m))
    PROVE  IsFrame(f)
<1> DEFINE w == Frame(type, n, m)
<1>0. /\ w = [magic |-> TRUE, version |-> TRUE, type |-> type, says |-> w.says,
              payload |-> w.payload, whole |-> TRUE]
      /\ w.says \in Nat
  BY DEF Frame, IsFrame
<1>1. PICK names : w.payload \in Seq(BytesOfAny(names))
  BY DEF IsFrame, IsPayload
<1>2. f \in Damaged(w)
  OBVIOUS
<1> HIDE DEF w
<1> DEFINE Bytes == BytesOfAny(names)
<1>3. CASE /\ f \in {w, [w EXCEPT !.magic = FALSE], [w EXCEPT !.version = FALSE],
                     [w EXCEPT !.whole = FALSE]}
                        \cup {[w EXCEPT !.type = t] : t \in Known \cup {"unassigned"}}
  <2>1. f.says = w.says /\ f.payload = w.payload
    BY <1>0, <1>3
  <2> QED
    BY <1>0, <1>1, <2>1 DEF IsFrame, IsPayload
<1>4. CASE f = [w EXCEPT !.payload = <<>>]
  <2>1. f.says = w.says /\ f.payload = <<>>
    BY <1>0, <1>4
  <2>2. f.payload \in Seq(Bytes)
    BY <2>1
  <2> QED
    BY <1>0, <2>1, <2>2 DEF IsFrame, IsPayload
<1>5. CASE f = [w EXCEPT !.payload = Append(@, <<"trailing", 0, 0>>)]
  <2>1. f.says = w.says /\ f.payload = Append(w.payload, <<"trailing", 0, 0>>)
    BY <1>0, <1>5
  <2>2. <<"trailing", 0, 0>> \in Bytes
    BY DEF BytesOfAny
  <2> HIDE DEF Bytes
  <2>3. f.payload \in Seq(Bytes)
    BY <1>1, <2>1, <2>2 DEF Bytes
  <2> QED
    BY <1>0, <2>1, <2>3 DEF IsFrame, IsPayload, Bytes
<1>6. CASE f \in {[w EXCEPT !.says = s] : s \in Nearby(w.says)}
  <2>1. f.says \in Nat /\ f.payload = w.payload
    BY <1>0, <1>6 DEF Nearby
  <2> QED
    BY <1>1, <2>1 DEF IsFrame, IsPayload
<1>7. CASE f \in {[w EXCEPT !.payload[i][3] = v] : i \in LengthBytes(w), v \in 0 .. 3 \cup {255}}
  <2>1. PICK i \in LengthBytes(w), v \in 0 .. 3 \cup {255} : f = [w EXCEPT !.payload[i][3] = v]
    BY <1>7
  <2>2. f.says = w.says /\ f.payload = [w.payload EXCEPT ![i] = [w.payload[i] EXCEPT ![3] = v]]
    BY <1>0, <2>1
  <2>3. i \in DOMAIN w.payload /\ v \in Nat
    BY DEF LengthBytes
  <2>4. [w.payload[i] EXCEPT ![3] = v] \in Bytes
    <3>1. w.payload[i] \in Bytes
      <4> HIDE DEF Bytes
      <4> QED
        BY <1>1, <2>3 DEF Bytes
    <3>2. PICK b \in (names \cup {"trailing"}), j \in Nat, k \in Nat : w.payload[i] = <<b, j, k>>
      BY <3>1 DEF BytesOfAny
    <3>3. [w.payload[i] EXCEPT ![3] = v] = <<b, j, v>>
      BY <3>2
    <3> QED
      BY <2>3, <3>3 DEF BytesOfAny
  <2> HIDE DEF Bytes
  <2>5. f.payload \in Seq(Bytes)
    <3> DEFINE q == [w.payload[i] EXCEPT ![3] = v]
    <3>1. q \in Bytes
      BY <2>4
    <3> HIDE DEF q
    <3>2. [w.payload EXCEPT ![i] = q] \in Seq(Bytes)
      BY <1>1, <2>3, <3>1 DEF Bytes
    <3> QED
      BY <2>2, <3>2 DEF q
  <2> QED
    BY <1>0, <2>2, <2>5 DEF IsFrame, IsPayload, Bytes
<1>8. CASE w.payload # <<>> /\ f = [w EXCEPT !.payload = Front(@)]
  <2>1. f.says = w.says /\ f.payload = SubSeq(w.payload, 1, Len(w.payload) - 1)
    BY <1>0, <1>8 DEF Front
  <2> HIDE DEF Bytes
  <2>2. f.payload \in Seq(Bytes)
    BY SMTT(30), <1>1, <1>8, <2>1 DEF Bytes
  <2> QED
    BY <1>0, <2>1, <2>2 DEF IsFrame, IsPayload, Bytes
<1> DEFINE Headers == {w, [w EXCEPT !.magic = FALSE], [w EXCEPT !.version = FALSE],
                       [w EXCEPT !.whole = FALSE],
                       [w EXCEPT !.payload = <<>>],
                       [w EXCEPT !.payload = Append(@, <<"trailing", 0, 0>>)]}
           Types == {[w EXCEPT !.type = t] : t \in Known \cup {"unassigned"}}
           Counts == {[w EXCEPT !.says = s] : s \in Nearby(w.says)}
           Values == {[w EXCEPT !.payload[i][3] = v] : i \in LengthBytes(w),
                                                       v \in 0 .. 3 \cup {255}}
           Cuts == IF w.payload = <<>> THEN {} ELSE {[w EXCEPT !.payload = Front(@)]}
<1>9. f \in Headers \cup Types \cup Counts \cup Values \cup Cuts
  BY <1>2 DEF Damaged
<1>10. f \in Headers => IsFrame(f)
  BY <1>3, <1>4, <1>5
<1>11. f \in Types => IsFrame(f)
  BY <1>3
<1>12. f \in Counts => IsFrame(f)
  BY <1>6
<1>13. f \in Values => IsFrame(f)
  BY <1>7
<1>14. f \in Cuts => IsFrame(f)
  BY <1>8
<1> HIDE DEF Headers, Types, Counts, Values, Cuts
<1> QED
  BY <1>9, <1>10, <1>11, <1>12, <1>13, <1>14

\* Each step hands on what the codec owes the frame it puts on the air.
LEMMA CodecKeeps ==
    ASSUME CodecInv, [ReceiverNext]_receiverVars
    PROVE  CodecInv'
<1>0. ASSUME NEW type, NEW n, NEW m, NEW write, Agrees(type, n, m),
             frame' = [made |-> Made(type, n, m, write), wire |-> Frame(type, n, m),
                       intact |-> TRUE]
      PROVE  CodecInv'
  <2>1. IsFrame(Frame(type, n, m))
    BY <1>0, EncodedIsFrame
  <2>2. /\ frame'.wire = Frame(type, n, m) /\ frame'.made.type = type
        /\ frame'.made.n = n /\ frame'.made.m = m
        /\ frame' = [made |-> frame'.made, wire |-> frame'.wire, intact |-> frame'.intact]
    BY <1>0 DEF Made
  <2> QED
    BY <1>0, <2>1, <2>2 DEF CodecInv, FrameShaped
<1>1. CASE frame' = Nothing
  BY <1>1 DEF CodecInv, FrameShaped, Nothing
<1>2. ASSUME NEW type \in Encoded \ {"ConfigWrite"}, NEW n \in Lengths, NEW m \in Lengths,
             type \notin Sized => n = 0 /\ m = 0, EncodeFrame(type, n, m)
      PROVE  CodecInv'
  <2>1. CASE Encodes(type, n, m)
    <3>1. n \in Nat /\ m \in Nat
      BY ReceiverAssumption
    <3>2. Agrees(type, n, m)
      BY <1>2, <2>1, <3>1, EncodedAgrees
    <3>3. frame' = [made |-> Made(type, n, m, None), wire |-> Frame(type, n, m), intact |-> TRUE]
      BY <1>2, <2>1 DEF EncodeFrame
    <3> QED
      BY <1>0, <3>2, <3>3
  <2>2. CASE ~Encodes(type, n, m)
    BY <1>1, <1>2, <2>2 DEF EncodeFrame
  <2> QED
    BY <2>1, <2>2
<1>3. ASSUME NEW d \in Senders, NEW target \in {Self, Other}, NEW entries \in Bags,
             SendConfigWrite(d, target, entries)
      PROVE  CodecInv'
  <2> DEFINE bag == BagOf(entries, BufferSize)
  <2>1. bag.size \in Nat
    <3>1. entries \in Seq(Entries)
      BY ReceiverAssumption
    <3>2. WholeBag(bag)
      BY <3>1, BagIsCounted
    <3> QED
      BY <3>2 DEF WholeBag, Tlvs
  <2>2. Agrees("ConfigWrite", bag.size, 0)
    BY <2>1, ConfigWriteAgrees
  <2>3. CASE frame' # Nothing
    <3>1. PICK write : frame' = [made |-> Made("ConfigWrite", bag.size, 0, write),
                                 wire |-> Frame("ConfigWrite", bag.size, 0), intact |-> TRUE]
      BY <1>3, <2>3 DEF SendConfigWrite
    <3> QED
      BY <1>0, <2>2, <3>1
  <2> QED
    BY <1>1, <2>3
<1>4. CASE Damage
  <2> DEFINE made == frame.made
  <2>1. frame.intact /\ frame.wire = Frame(made.type, made.n, made.m)
          /\ Agrees(made.type, made.n, made.m)
    BY <1>4 DEF Damage, CodecInv
  <2>2. PICK f \in Damaged(frame.wire) : frame' = [frame EXCEPT !.wire = f, !.intact = FALSE]
    BY <1>4 DEF Damage
  <2>3. IsFrame(f)
    BY <2>1, EncodedIsFrame, DamagedIsFrame
  <2>4. frame = [made |-> frame.made, wire |-> frame.wire, intact |-> frame.intact]
    BY DEF CodecInv, FrameShaped
  <2>5. frame' = [made |-> frame.made, wire |-> f, intact |-> FALSE]
    BY <2>2, <2>4
  <2> QED
    BY <2>3, <2>5 DEF CodecInv, FrameShaped
<1>5. CASE Receive
  <2>1. frame' = frame \/ frame' = Nothing
    BY <1>5 DEF Receive
  <2> QED
    BY <1>1, <2>1 DEF CodecInv, FrameShaped
<1>6. CASE UNCHANGED receiverVars
  BY <1>6 DEF receiverVars, CodecInv, FrameShaped
<1> QED
  BY <1>2, <1>3, <1>4, <1>5, <1>6 DEF ReceiverNext

\* Every encoder of frame.cpp and its decoder agree on every offset, width and
\* limit, whatever the lengths, and no decoder reads behind what was received,
\* whatever the air made of the frame.
THEOREM CodecIsSound == ReceiverSpec => []CodecSound
<1>1. ReceiverInit => CodecInv
  BY DEF ReceiverInit, CodecInv, FrameShaped, Nothing
<1>2. CodecInv /\ [ReceiverNext]_receiverVars => CodecInv'
  BY CodecKeeps
<1>3. CodecInv => CodecSound
  <2> SUFFICES ASSUME CodecInv PROVE CodecSound
    OBVIOUS
  <2>1. RoundTrip
    <3> SUFFICES ASSUME frame.intact PROVE RoundTrip
      BY DEF RoundTrip
    <3>1. /\ frame.wire = Frame(frame.made.type, frame.made.n, frame.made.m)
          /\ Agrees(frame.made.type, frame.made.n, frame.made.m)
      BY DEF CodecInv
    <3>2. /\ Decode(frame.wire).ok
          /\ \A read \in Decode(frame.wire).reads : ReadsItself(frame.wire, read)
          /\ \A field \in {field \in ToSet(FieldsOf(frame.made.type, frame.made.n, frame.made.m)) :
                             field[2] > 0} :
                \E read \in Decode(frame.wire).reads :
                    read[1] = field[1] /\ read[3] = field[2]
      BY <3>1 DEF Agrees
    <3> QED
      BY <3>2 DEF RoundTrip
  <2>2. StaysInFrame
    BY DecodeStays, Zenon DEF StaysInFrame, CodecInv
  <2> QED
    BY <2>1, <2>2 DEF CodecSound
<1> QED
  BY <1>1, <1>2, <1>3, PTL DEF ReceiverSpec
=============================================================================
