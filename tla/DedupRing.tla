------------------------------ MODULE DedupRing ------------------------------
(***************************************************************************)
(* The deduplication ring of a receiver: the last kDedupRingSize           *)
(* (source_id, sequence_number) pairs it accepted, in arrival order        *)
(* (seen_recently and mark_seen of src/src/modes/lume_mode.cpp; the        *)
(* repeater keeps the same ring).  A Director airs each frame several      *)
(* times and relays air it again, so copies arrive late and out of order;  *)
(* the ring has to catch every one of them and to let every new frame by.  *)
(***************************************************************************)
EXTENDS Naturals, FiniteSetTheorems, TLAPS

CONSTANTS
    DedupRingSize,  \* kDedupRingSize: 16
    NoEntry         \* a slot never written: sequence number 0 matches no frame

ASSUME DedupAssumption == DedupRingSize \in Nat \ {0}

VARIABLES dedup_ring_, dedup_head_

ringVars == <<dedup_ring_, dedup_head_>>

Slots == 0 .. DedupRingSize - 1

EmptyRing ==
    /\ dedup_ring_ = [i \in Slots |-> NoEntry]
    /\ dedup_head_ = 0

\* Sequence number 0 means "sequencing disabled": never a duplicate.
SeenRecently(src, seq) == seq # 0 /\ \E i \in Slots : dedup_ring_[i] = <<src, seq>>

\* A plausible bug: the head that stays where it is.
MarkSeenHeadStuck(src, seq) ==
    IF seq = 0
    THEN UNCHANGED ringVars
    ELSE /\ dedup_ring_' = [dedup_ring_ EXCEPT ![dedup_head_] = <<src, seq>>]
         /\ UNCHANGED dedup_head_

MarkSeen(src, seq) ==
    IF seq = 0
    THEN UNCHANGED ringVars
    ELSE /\ dedup_ring_' = [dedup_ring_ EXCEPT ![dedup_head_] = <<src, seq>>]
         /\ dedup_head_' = (dedup_head_ + 1) % DedupRingSize

-----------------------------------------------------------------------------
(* How much the ring can hold: a set of frames that fits into it.          *)

Holds(e) == \E i \in Slots : dedup_ring_[i] = e

\* The ring holds frames of S, each once, and is filled from slot 0 round.
RingOf(S) ==
    /\ dedup_ring_ \in [Slots -> S \cup {NoEntry}]
    /\ dedup_head_ \in Slots
    /\ \/ \A i \in Slots : dedup_ring_[i] # NoEntry
       \/ \A i \in Slots : dedup_ring_[i] # NoEntry <=> i < dedup_head_
    /\ \A i, j \in Slots :
          dedup_ring_[i] = dedup_ring_[j] /\ dedup_ring_[i] # NoEntry => i = j

\* The ring of enter().
LEMMA EmptyRingOf ==
    ASSUME NEW S
    PROVE  /\ EmptyRing => RingOf(S)
           /\ dedup_ring_' = [i \in Slots |-> NoEntry] /\ dedup_head_' = 0 => RingOf(S)'
BY DedupAssumption DEF EmptyRing, RingOf, Slots

\* A frame that is not in the ring finds a free slot: the ring cannot be full
\* of others, for they and the frame would be more than S has.
LEMMA HeadIsFree ==
    ASSUME NEW S, IsFiniteSet(S), Cardinality(S) <= DedupRingSize,
           RingOf(S), NEW e \in S, ~Holds(e)
    PROVE  dedup_ring_[dedup_head_] = NoEntry
<1> SUFFICES ASSUME dedup_ring_[dedup_head_] # NoEntry
             PROVE  FALSE
  OBVIOUS
<1> USE DedupAssumption DEF RingOf, Slots
<1>1. \A i \in Slots : dedup_ring_[i] # NoEntry
  OBVIOUS
<1>2. dedup_ring_ \in [Slots -> S \ {e}]
  BY <1>1 DEF Holds
<1>3. IsFiniteSet(Slots) /\ Cardinality(Slots) = DedupRingSize
  BY FS_Interval
<1>4. IsFiniteSet(S \ {e}) /\ Cardinality(S \ {e}) = Cardinality(S) - 1
  BY FS_RemoveElement
<1>5. Cardinality(S) \in Nat
  BY FS_CardinalityType
<1>6. Cardinality(S \ {e}) < Cardinality(Slots)
  BY <1>3, <1>4, <1>5
<1>7. \E i, j \in Slots : i # j /\ dedup_ring_[i] = dedup_ring_[j]
  BY <1>2, <1>3, <1>4, <1>6, FS_PigeonHole
<1> QED
  BY <1>1, <1>7

\* mark_seen() on a ring that S fits into forgets nothing.
LEMMA MarkSeenKeeps ==
    ASSUME NEW S, IsFiniteSet(S), Cardinality(S) <= DedupRingSize, NoEntry \notin S,
           RingOf(S), NEW src, NEW seq, seq # 0, <<src, seq>> \in S,
           ~SeenRecently(src, seq), MarkSeen(src, seq)
    PROVE  /\ RingOf(S)'
           /\ Holds(<<src, seq>>)'
           /\ \A e \in S : Holds(e) => Holds(e)'
<1> DEFINE new == <<src, seq>>
<1> USE DedupAssumption DEF RingOf, Slots
<1>1. /\ dedup_ring_' = [dedup_ring_ EXCEPT ![dedup_head_] = new]
      /\ dedup_head_' = (dedup_head_ + 1) % DedupRingSize
  BY DEF MarkSeen
<1>2. ~Holds(new)
  BY DEF SeenRecently, Holds
<1>3. dedup_ring_[dedup_head_] = NoEntry
  BY <1>2, HeadIsFree
<1>4. \A i \in Slots : dedup_ring_[i] # NoEntry <=> i < dedup_head_
  BY <1>3
<1>5. dedup_head_' = IF dedup_head_ = DedupRingSize - 1 THEN 0 ELSE dedup_head_ + 1
  BY SMTT(30), <1>1
<1>6. dedup_ring_' \in [Slots -> S \cup {NoEntry}] /\ dedup_head_' \in Slots
  BY <1>1, <1>5
<1>7. \/ (\A i \in Slots : dedup_ring_[i] # NoEntry)'
      \/ (\A i \in Slots : dedup_ring_[i] # NoEntry <=> i < dedup_head_)'
  <2>1. \A i \in Slots : dedup_ring_'[i] = IF i = dedup_head_ THEN new ELSE dedup_ring_[i]
    BY <1>1
  <2>2. new # NoEntry
    OBVIOUS
  <2>3. \A i \in Slots : dedup_ring_'[i] # NoEntry <=> i <= dedup_head_
    BY <1>4, <2>1, <2>2
  <2>4. CASE dedup_head_ = DedupRingSize - 1
    BY <2>3, <2>4
  <2>5. CASE dedup_head_ # DedupRingSize - 1
    BY <1>5, <2>3, <2>5
  <2> QED
    BY <2>4, <2>5
<1>8. (\A i, j \in Slots : dedup_ring_[i] = dedup_ring_[j] /\ dedup_ring_[i] # NoEntry => i = j)'
  <2>1. \A i \in Slots : dedup_ring_'[i] = IF i = dedup_head_ THEN new ELSE dedup_ring_[i]
    BY <1>1
  <2>2. \A i \in Slots : dedup_ring_[i] # new
    BY <1>2 DEF Holds
  <2>3. \A i, j \in Slots : dedup_ring_[i] = dedup_ring_[j] /\ dedup_ring_[i] # NoEntry => i = j
    OBVIOUS
  <2> QED
    BY <2>1, <2>2, <2>3
<1>9. Holds(new)' /\ \A e \in S : Holds(e) => Holds(e)'
  BY <1>1, <1>3 DEF Holds
<1> QED
  BY <1>6, <1>7, <1>8, <1>9
=============================================================================
