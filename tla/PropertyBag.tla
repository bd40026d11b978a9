---------------------------- MODULE PropertyBag ----------------------------
(***************************************************************************)
(* One plugin's property bag: property_bag.cpp as built for the device, a  *)
(* namespace of NVS behind a cache of a few entries.  A value is a number; *)
(* a type is the range it is clamped to.  A set() of an unknown key or of  *)
(* the wrong type returns at once.                                         *)
(***************************************************************************)
EXTENDS Integers, Sequences, SequencesExt

CONSTANTS
    Schema,         \* key -> [low, high, default]
    PropertyValues, \* what may be set, or found in NVS from another version
    NoValue,        \* the key is not in NVS
    CacheSize       \* kCacheSize

Keys == DOMAIN Schema

ASSUME SchemaAssumption ==
    /\ \A key \in Keys : /\ {Schema[key].low, Schema[key].high, Schema[key].default} \subseteq Int
                         /\ Schema[key].low <= Schema[key].high
    /\ PropertyValues \subseteq Int /\ NoValue \notin Int
    /\ CacheSize \in Nat \ {0}

VARIABLES
    bag_nvs,    \* key -> value, or NoValue
    cache       \* <<[key, value]>>: the valid entries, in slot order

bagVars == <<bag_nvs, cache>>

\* A bag is built at boot, on what an earlier run of the device stored.
BagInit ==
    /\ bag_nvs \in [Keys -> PropertyValues \cup {NoValue}]
    /\ cache = <<>>

ClampToBounds(key, value) ==
    IF value < Schema[key].low THEN Schema[key].low
    ELSE IF value > Schema[key].high THEN Schema[key].high
    ELSE value

ReadFromNvs(key) ==
    ClampToBounds(key, IF bag_nvs[key] = NoValue THEN Schema[key].default ELSE bag_nvs[key])

FindCacheSlot(key) == SelectInSeq(cache, LAMBDA e : e.key = key)

\* The key's slot, a free one, or slot 0.
CachePut(key, value) ==
    LET entry == [key |-> key, value |-> value]
        slot == FindCacheSlot(key)
    IN  IF slot # 0 THEN [cache EXCEPT ![slot] = entry]
        ELSE IF Len(cache) < CacheSize THEN Append(cache, entry)
        ELSE [cache EXCEPT ![1] = entry]

\* What get() returns.
Got(key) ==
    LET slot == FindCacheSlot(key)
    IN  IF slot # 0 THEN ClampToBounds(key, cache[slot].value) ELSE ReadFromNvs(key)

Get ==
    \E key \in Keys :
       /\ cache' = IF FindCacheSlot(key) # 0 THEN cache ELSE CachePut(key, ReadFromNvs(key))
       /\ UNCHANGED bag_nvs

\* A plausible bug: the cache does not wait for the write.
CachedRegardless(key, value, ok) == CachePut(key, value)

\* The cache follows the write, if NVS took it.
Cached(key, value, ok) == IF ok THEN CachePut(key, value) ELSE cache

Set ==
    \E key \in Keys, value \in PropertyValues, ok \in BOOLEAN :
       LET clamped == ClampToBounds(key, value)
       IN  /\ bag_nvs' = IF ok THEN [bag_nvs EXCEPT ![key] = clamped] ELSE bag_nvs
           /\ cache' = Cached(key, clamped, ok)

BagNext == Get \/ Set

BagSpec == BagInit /\ [][BagNext]_bagVars

\* The bag is a plain map with defaults and bounds: through evictions of its
\* cache and writes that NVS refuses, get() returns what a bag built anew would
\* read (PropertyBag::get(), PropertyBag::set()).
BagTellsTruth == \A key \in Keys : Got(key) = ReadFromNvs(key)
=============================================================================
