----------------------------- MODULE NumonceLru -----------------------------
(***************************************************************************)
(* The replay guard of the configuration channel                           *)
(* (src/src/transport/espnow/numonce_lru.cpp): the highest numonce heard   *)
(* of each of the last kSlots senders.  The guard is a value [tick, slots];*)
(* a slot is [src, seen, at] or Vacant.                                    *)
(***************************************************************************)
EXTENDS Naturals

CONSTANTS
    LruSlots,   \* kSlots: 16
    Vacant      \* a slot with valid = false

ASSUME LruAssumption == LruSlots \in Nat \ {0}

LruIndex == 0 .. LruSlots - 1

EmptyLru == [tick |-> 0, slots |-> [i \in LruIndex |-> Vacant]]

EntryOf(lru, src) == {i \in LruIndex : lru.slots[i] # Vacant /\ lru.slots[i].src = src}
Free(lru) == {i \in LruIndex : lru.slots[i] = Vacant}
LeastOf(S) == CHOOSE i \in S : \A j \in S : i <= j

\* A plausible bug: a sender that is known is trusted.
IsFreshAny(lru, src, numonce) == numonce # 0

\* Accepted is strictly greater than anything heard of this sender; 0 never is.
IsFresh(lru, src, numonce) ==
    /\ numonce # 0
    /\ \A i \in EntryOf(lru, src) : numonce > lru.slots[i].seen

\* The slot a sender is entered in: its own, a vacant one, the one
\* accepted longest ago.
SlotFor(lru, src) ==
    IF EntryOf(lru, src) # {} THEN LeastOf(EntryOf(lru, src))
    ELSE IF Free(lru) # {} THEN LeastOf(Free(lru))
    ELSE LeastOf({i \in LruIndex : \A j \in LruIndex : lru.slots[i].at <= lru.slots[j].at})

\* The guard after check_and_update().  The code's tick_ also counts the
\* numonces it refuses; that changes no comparison of last_accessed and is
\* left out.
CheckAndUpdate(lru, src, numonce) ==
    IF ~IsFresh(lru, src, numonce) THEN lru
    ELSE [tick |-> lru.tick + 1,
          slots |-> [lru.slots EXCEPT ![SlotFor(lru, src)] =
                        [src |-> src, seen |-> numonce, at |-> lru.tick + 1]]]
=============================================================================
