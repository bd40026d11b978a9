---------------------------- MODULE Parts_proofs ----------------------------
(***************************************************************************)
(* What five parts keep that share no state: the lock of a receiver, for   *)
(* every set of sources and channels and every timeout; its deduplication  *)
(* ring, for every size that fits the stream; the LED strip, for every     *)
(* length and every pulse; the IR relay, for every wash; and the Director's *)
(* stage, for every Show, palette and section of its music.                *)
(***************************************************************************)
EXTENDS TofuLock, DedupStream, LedStrip, PixMobIR, DirectorMode, TLAPS

-----------------------------------------------------------------------------
(* The lock.                                                               *)

\* The age computed from a stale `now' never exceeds the true age: the fact
\* the saturating subtraction is there for.
LEMMA AgeAtNowBound ==
    ASSUME NEW age \in Nat, TofuTypeOK
    PROVE  AgeAtNow(age) \in Nat /\ AgeAtNow(age) <= age
BY TofuAssumption DEF AgeAtNow, TofuTypeOK

\* The constants the ages are compared with are numbers.
LEMMA LockAgeMaxNat == LockAgeMax \in Nat /\ MaxLag \in Nat /\ Timeout \in Nat
BY TofuAssumption DEF LockAgeMax

\* Losing the lock leaves the lock's three fields in their types.
LEMMA UnlockTypes ==
    Unlock => /\ has_lock_' \in BOOLEAN
              /\ locked_id_' \in SourceIds \cup {NoSource}
              /\ lock_age' \in 0 .. LockAgeMax
<1> SUFFICES ASSUME Unlock
             PROVE  /\ has_lock_' \in BOOLEAN
                    /\ locked_id_' \in SourceIds \cup {NoSource}
                    /\ lock_age' \in 0 .. LockAgeMax
  OBVIOUS
<1>1. has_lock_' \in BOOLEAN /\ locked_id_' \in SourceIds \cup {NoSource}
  BY Zenon DEF Unlock
<1>2. lock_age' \in 0 .. LockAgeMax
  BY LockAgeMaxNat DEF Unlock
<1> QED
  BY <1>1, <1>2

\* The state components stay in their types.
THEOREM TofuTypeCorrect == TofuSpec => []TofuTypeOK
<1>1. TofuInit => TofuTypeOK
  <2> SUFFICES ASSUME TofuInit
               PROVE  TofuTypeOK
    OBVIOUS
  <2>1. /\ has_lock_ \in BOOLEAN
        /\ {locked_id_, incumbent} \subseteq SourceIds \cup {NoSource}
    BY DEF TofuInit
  <2>2. {lock_age, silence} \subseteq 0 .. LockAgeMax /\ lag \in 0 .. MaxLag
    BY LockAgeMaxNat DEF TofuInit
  <2> QED
    BY <2>1, <2>2 DEF TofuTypeOK
<1>2. TofuTypeOK /\ [TofuNext]_tofuVars => TofuTypeOK'
  <2> SUFFICES ASSUME TofuTypeOK, [TofuNext]_tofuVars
               PROVE  TofuTypeOK'
    OBVIOUS
  <2> USE TofuAssumption, LockAgeMaxNat DEF TofuTypeOK
  <2>1. ASSUME NEW src \in SourceIds \cup {BroadcastId}, NEW ch \in Channels,
               Admit(src, ch), UNCHANGED lag
        PROVE  TofuTypeOK'
    BY <2>1 DEF Admit, Admits, Eligible
  <2>2. CASE TofuTick /\ UNCHANGED lag
    BY <2>2, UnlockTypes DEF TofuTick, lockVars, historyVars
  <2>3. CASE TofuClear /\ UNCHANGED lag
    BY <2>3, UnlockTypes DEF TofuClear
  <2>4. CASE CaptureNow
    BY <2>4 DEF CaptureNow, lockVars, historyVars
  <2>5. CASE TofuClock
    BY <2>5 DEF TofuClock, Saturate
  <2>6. CASE UNCHANGED tofuVars
    BY <2>6 DEF tofuVars
  <2> QED
    BY <2>1, <2>2, <2>3, <2>4, <2>5, <2>6 DEF TofuNext
<1> QED
  BY <1>1, <1>2, PTL DEF TofuSpec

\* The inductive step of LockTracksIncumbent, one case per action.
LEMMA LockTracksIncumbentStep ==
    TofuTypeOK /\ LockTracksIncumbent /\ [TofuNext]_tofuVars => LockTracksIncumbent'
<1> SUFFICES ASSUME TofuTypeOK, LockTracksIncumbent, [TofuNext]_tofuVars
             PROVE  LockTracksIncumbent'
  OBVIOUS
<1> USE TofuAssumption DEF LockTracksIncumbent
<1>1. ASSUME NEW src \in SourceIds \cup {BroadcastId}, NEW ch \in Channels,
             Admit(src, ch), UNCHANGED lag
      PROVE  LockTracksIncumbent'
  BY <1>1 DEF Admit, Admits, Eligible
<1>2. CASE TofuTick /\ UNCHANGED lag
  <2>1. CASE Expired
    \* The lock expires: the age seen through `now' is at most the silence.
    <3>1. lock_age \in Nat /\ silence = lock_age
      BY <2>1 DEF Expired, TofuTypeOK, LockAgeMax
    <3>2. silence >= Timeout
      BY <2>1, <3>1, AgeAtNowBound DEF Expired
    <3> QED
      BY <1>2, <2>1, <3>2 DEF TofuTick, Unlock, historyVars
  <2>2. CASE ~Expired
    BY <1>2, <2>2 DEF TofuTick, lockVars, historyVars
  <2> QED
    BY <2>1, <2>2
<1>3. CASE TofuClear /\ UNCHANGED lag
  BY <1>3 DEF TofuClear, Unlock
<1>4. CASE CaptureNow
  BY <1>4 DEF CaptureNow, lockVars, historyVars
<1>5. CASE TofuClock
  BY <1>5 DEF TofuClock, Saturate, TofuTypeOK, LockAgeMax
<1>6. CASE UNCHANGED tofuVars
  BY <1>6 DEF tofuVars
<1> QED
  BY <1>1, <1>2, <1>3, <1>4, <1>5, <1>6 DEF TofuNext

\* A held lock is the lock of the last admitted source, and a lock is lost
\* only to silence that lasted the timeout.
THEOREM LockTracksIncumbentInvariant == TofuSpec => []LockTracksIncumbent
<1>1. TofuInit => LockTracksIncumbent
  BY DEF TofuInit, LockTracksIncumbent
<1> QED
  BY <1>1, LockTracksIncumbentStep, TofuTypeCorrect, PTL DEF TofuSpec

\* A Lume never alternates between two Directors that are both alive.
THEOREM HandoverTheorem == TofuSpec => HandoverOnlyAfterSilence
<1> DEFINE Handover ==
        (incumbent # NoSource /\ incumbent' \notin {NoSource, incumbent})
            => silence >= Timeout
<1>1. TofuTypeOK /\ LockTracksIncumbent /\ [TofuNext]_tofuVars => [Handover]_tofuVars
  <2> SUFFICES ASSUME LockTracksIncumbent, [TofuNext]_tofuVars
               PROVE  [Handover]_tofuVars
    OBVIOUS
  <2>1. ASSUME NEW src \in SourceIds \cup {BroadcastId}, NEW ch \in Channels,
               Admit(src, ch)
        PROVE  Handover
    \* A different source passes admit() only while no lock is held.
    BY <2>1 DEF Admit, Admits, LockTracksIncumbent
  <2>2. CASE TofuTick \/ CaptureNow \/ TofuClock
    BY <2>2 DEF TofuTick, CaptureNow, TofuClock, historyVars
  <2>3. CASE TofuClear
    BY <2>3 DEF TofuClear
  <2> QED
    BY <2>1, <2>2, <2>3 DEF TofuNext
<1> QED
  BY <1>1, TofuTypeCorrect, LockTracksIncumbentInvariant, PTL
     DEF TofuSpec, HandoverOnlyAfterSilence

-----------------------------------------------------------------------------
(* The deduplication ring: first, numbers on a ring.                       *)

\* Numbers that are equal modulo m are m apart at least.
LEMMA EqualModuloApart ==
    ASSUME NEW m \in Nat \ {0}, NEW a \in Nat, NEW b \in Nat, a < b, a % m = b % m
    PROVE  b - a >= m
<1> DEFINE p == a \div m
           q == b \div m
<1>1. p \in Nat /\ q \in Nat /\ a = m * p + (a % m) /\ b = m * q + (b % m)
  OBVIOUS
<1>2. a % m \in Nat
  OBVIOUS
<1> HIDE DEF p, q
<1>3. b - a = m * q - m * p
  BY <1>1, <1>2
<1>4. b - a = m * (q - p)
  BY <1>1, <1>3
<1>5. q - p >= 1
  BY <1>1, <1>4
<1> QED
  BY <1>1, <1>4, <1>5

\* Blocks of w numbers do not overlap.
LEMMA BlocksApart ==
    ASSUME NEW w \in Nat, NEW b \in Nat, NEW c \in Nat, b < c
    PROVE  b * w + w <= c * w
<1>1. PICK d \in Nat : c = b + 1 + d
  BY c - b - 1 \in Nat
<1>2. c * w = b * w + w + d * w
  BY <1>1
<1>3. d * w >= 0
  BY <1>1
<1>4. b * w \in Nat /\ c * w \in Nat /\ d * w \in Nat
  BY <1>1
<1> QED
  BY <1>2, <1>3, <1>4

\* The remainder is the one number below m that is left over.
LEMMA RemainderUnique ==
    ASSUME NEW m \in Nat \ {0}, NEW q \in Nat, NEW r \in 0 .. m - 1
    PROVE  (m * q + r) % m = r
<1> DEFINE x == m * q + r
           p == x \div m
           s == x % m
<1>0. m * q \in Nat
  OBVIOUS
<1>1. x \in Nat
  BY <1>0
<1>2. p \in Nat /\ s \in 0 .. m - 1 /\ x = m * p + s
  BY <1>1
<1>3. m * q + r = m * p + s
  BY <1>2
<1> HIDE DEF x, p, s
<1>4. ~(p < q)
  <2> SUFFICES ASSUME p < q PROVE FALSE
    OBVIOUS
  <2>1. PICK d \in Nat : q = p + 1 + d
    BY <1>2, q - p - 1 \in Nat
  <2>2. m * q = m * p + m + m * d
    BY <1>2, <2>1
  <2>3. m * d \in Nat /\ m * p \in Nat
    BY <1>2, <2>1
  <2> QED
    BY <1>0, <1>2, <1>3, <2>2, <2>3
<1>5. ~(q < p)
  <2> SUFFICES ASSUME q < p PROVE FALSE
    OBVIOUS
  <2>1. PICK d \in Nat : p = q + 1 + d
    BY <1>2, p - q - 1 \in Nat
  <2>2. m * p = m * q + m + m * d
    BY <1>2, <2>1
  <2>3. m * d \in Nat /\ m * p \in Nat
    BY <1>2, <2>1
  <2> QED
    BY <1>0, <1>2, <1>3, <2>2, <2>3
<1>6. p = q
  BY <1>2, <1>4, <1>5
<1>7. s = r
  BY <1>0, <1>2, <1>3, <1>6
<1> QED
  BY <1>7 DEF s, x

\* A step round a ring of m places, and a whole turn.
LEMMA RoundTheRing ==
    ASSUME NEW m \in Nat \ {0}, NEW a \in Nat
    PROVE  /\ a % m \in 0 .. m - 1
           /\ ((a % m) + 1) % m = (a + 1) % m
           /\ (a + m) % m = a % m
<1> DEFINE p == a \div m
           r == a % m
<1>1. p \in Nat /\ r \in 0 .. m - 1 /\ a = m * p + r
  OBVIOUS
<1> HIDE DEF p, r
<1>2. a + m = m * (p + 1) + r /\ p + 1 \in Nat
  BY <1>1
<1>3. (a + m) % m = r
  BY <1>1, <1>2, RemainderUnique
<1>4. (r + 1) % m = (a + 1) % m
  <2>1. CASE r + 1 < m
    <3>1. a + 1 = m * p + (r + 1) /\ r + 1 \in 0 .. m - 1
      BY <1>1, <2>1
    <3>2. (a + 1) % m = r + 1
      BY <1>1, <3>1, RemainderUnique
    <3> QED
      BY <3>1, <3>2
  <2>2. CASE r + 1 = m
    <3>1. a + 1 = m * (p + 1) + 0 /\ 0 \in 0 .. m - 1
      BY <1>1, <2>2
    <3>2. (a + 1) % m = 0
      BY <1>2, <3>1, RemainderUnique
    <3> QED
      BY <2>2, <3>2
  <2> QED
    BY <1>1, <2>1, <2>2
<1> QED
  BY <1>1, <1>3, <1>4 DEF r

\* Places on a ring of m that are less than a turn apart are different.
\* Two frames with the same number on the wire are SeqMod frames apart.
LEMMA SameNumberFarApart ==
    ASSUME NEW j \in Frames, NEW k \in Frames, j < k, WireSeq(j) = WireSeq(k)
    PROVE  k - j >= SeqMod
<1>1. j - 1 \in Nat /\ k - 1 \in Nat /\ j - 1 < k - 1 /\ SeqMod \in Nat \ {0}
  BY StreamAssumption DEF Frames
<1>2. (j - 1) % SeqMod \in Nat /\ (k - 1) % SeqMod \in Nat
  BY <1>1
<1>3. (j - 1) % SeqMod = (k - 1) % SeqMod
  BY <1>2 DEF WireSeq
<1>4. (k - 1) - (j - 1) >= SeqMod
  BY <1>1, <1>3, EqualModuloApart
<1> QED
  BY <1>1, <1>4 DEF Frames

\* A number on the wire is never 0.
LEMMA WireSeqRange == \A k \in Frames : WireSeq(k) \in 1 .. SeqMod
BY StreamAssumption DEF WireSeq, Frames

-----------------------------------------------------------------------------
\* The journal: order[1], order[2], ..., order[n] are the frames heard, as
\* their first copies came in.
InOrder(n, order) ==
    /\ n \in Nat
    /\ order \in [1 .. n -> Frames]
    /\ \A p, q \in 1 .. n : order[p] = order[q] => p = q
    /\ heard = {order[p] : p \in 1 .. n}
    /\ \A p \in 1 .. n : order[p] <= newest
    /\ \A p, q \in 1 .. n : p < q => order[p] < order[q] + Spread

\* The ring holds the last DedupRingSize frames of the journal, nothing else.
RingTail(n, order) ==
    /\ dedup_head_ = n % DedupRingSize
    /\ dedup_ring_ \in [Slots -> ({Director} \X (1 .. SeqMod)) \cup {NoEntry}]
    /\ \A p \in 1 .. n : p + DedupRingSize > n
          => dedup_ring_[(p - 1) % DedupRingSize] = <<Director, WireSeq(order[p])>>
    /\ \A i \in Slots : dedup_ring_[i] # NoEntry
          => \E p \in 1 .. n : p + DedupRingSize > n /\ i = (p - 1) % DedupRingSize

Journal ==
    \E n \in Nat : \E order \in [1 .. n -> Frames] : InOrder(n, order) /\ RingTail(n, order)

\* Of MaxLoss + 1 frames in a row that are out of the air, one was heard.
Gone(k) == k \in Frames /\ k + Spread <= newest
LossBounded ==
    \A k \in Frames : Gone(k) => \E i \in k .. k + MaxLoss : i \in heard \/ ~Gone(i)

StreamInv ==
    /\ newest \in Nat
    /\ accepted \in [Frames -> 0 .. 2]
    /\ Journal
    /\ LossBounded
    /\ HeardOnce

\* The constants, as numbers.
LEMMA StreamConstants ==
    /\ {SeqMod, Spread, DedupRingSize} \subseteq Nat \ {0}
    /\ {MaxLoss, MaxFrames} \subseteq Nat
    /\ Frames \subseteq Nat \ {0}
    /\ NoEntry \notin {Director} \X (1 .. SeqMod)
BY StreamAssumption, DedupAssumption DEF Frames

\* How many numbers an interval has.
LEMMA IntervalSize ==
    ASSUME NEW a \in Int, NEW b \in Int
    PROVE  IsFiniteSet(a .. b) /\ Cardinality(a .. b) = IF b < a THEN 0 ELSE b - a + 1
BY FS_Interval

\* Not twice: between a frame that was heard and is still in the air, and
\* now, at most 2 * Spread - 2 others were heard, so the ring still has it.
LEMMA HeardIsSeen ==
    ASSUME RingFitsTheStream, newest \in Nat, NEW n \in Nat, NEW order \in [1 .. n -> Frames],
           InOrder(n, order), RingTail(n, order), NEW k \in InFlight, k \in heard
    PROVE  SeenRecently(Director, WireSeq(k))
<1> USE StreamConstants
<1>1. PICK p \in 1 .. n : order[p] = k
  BY DEF InOrder
<1> DEFINE Follow == (p + 1) .. n
           Window == k - Spread + 1 .. k + Spread - 1
           Near == Window \ {k}
<1>2. k \in Nat /\ newest < k + Spread /\ k \in Frames /\ p \in Nat
  BY DEF InFlight
<1>3. \A q \in Follow : q \in 1 .. n /\ p < q /\ order[q] \in Near
  <2> SUFFICES ASSUME NEW q \in Follow
               PROVE  q \in 1 .. n /\ p < q /\ order[q] \in Near
    OBVIOUS
  <2>1. q \in 1 .. n /\ p < q /\ p # q
    BY <1>2
  <2>2. order[q] <= newest /\ order[p] < order[q] + Spread /\ order[q] # order[p]
    BY <2>1 DEF InOrder
  <2>3. order[q] \in Nat
    BY <2>1
  <2> QED
    BY SMTT(30), <1>1, <1>2, <2>1, <2>2, <2>3
<1>4. IsFiniteSet(Follow) /\ Cardinality(Follow) = IF n < p + 1 THEN 0 ELSE n - p
  <2>1. p + 1 \in Int /\ n \in Int
    OBVIOUS
  <2>2. /\ IsFiniteSet(Follow)
        /\ Cardinality(Follow) = IF n < p + 1 THEN 0 ELSE n - (p + 1) + 1
    BY <2>1, IntervalSize, Zenon
  <2> HIDE DEF Follow
  <2> QED
    BY <2>1, <2>2
<1>5. IsFiniteSet(Near) /\ Cardinality(Near) = 2 * Spread - 2
  <2>1. IsFiniteSet(Window) /\ Cardinality(Window) = 2 * Spread - 1
    <3>1. k - Spread + 1 \in Int /\ k + Spread - 1 \in Int
      BY <1>2
    <3>2. /\ IsFiniteSet(Window)
          /\ Cardinality(Window) = IF k + Spread - 1 < k - Spread + 1 THEN 0
                                   ELSE (k + Spread - 1) - (k - Spread + 1) + 1
      BY <3>1, IntervalSize, Zenon
    <3> HIDE DEF Window
    <3> QED
      BY <1>2, <3>2
  <2>2. k \in Window
    BY <1>2
  <2> HIDE DEF Window
  <2>3. IsFiniteSet(Near) /\ Cardinality(Near) = Cardinality(Window) - 1
    BY <2>1, <2>2, FS_RemoveElement
  <2> QED
    BY <2>1, <2>3
<1>6. Cardinality(Follow) <= Cardinality(Near)
  <2> DEFINE f == [q \in Follow |-> order[q]]
  <2>1. f \in [Follow -> Near]
    BY <1>3
  <2>2. \A q, r \in Follow : f[q] = f[r] => q = r
    BY <1>3 DEF InOrder
  <2>3. Cardinality(Follow) \in Nat /\ Cardinality(Near) \in Nat
    BY <1>4, <1>5, FS_CardinalityType
  <2> HIDE DEF Follow, Near, f
  <2> QED
    BY <1>4, <1>5, <2>1, <2>2, <2>3, FS_PigeonHole
<1>7. p + DedupRingSize > n
  <2>1. Cardinality(Near) < DedupRingSize
    BY <1>5 DEF RingFitsTheStream
  <2> HIDE DEF Follow, Near
  <2> QED
    BY <1>2, <1>4, <1>5, <1>6, <2>1
<1>8. (p - 1) % DedupRingSize \in Slots
  BY <1>2, RoundTheRing, p - 1 \in Nat DEF Slots
<1>9. dedup_ring_[(p - 1) % DedupRingSize] = <<Director, WireSeq(k)>>
  BY <1>1, <1>7 DEF RingTail
<1>10. WireSeq(k) # 0
  BY <1>2, WireSeqRange
<1> QED
  BY <1>8, <1>9, <1>10 DEF SeenRecently

\* Not never: the entry of an older frame with the same number has been
\* pushed out by the frames heard since.
LEMMA UnheardIsNew ==
    ASSUME RingFitsTheStream, newest \in Nat, NEW n \in Nat, NEW order \in [1 .. n -> Frames],
           InOrder(n, order), RingTail(n, order), LossBounded, NEW k \in InFlight, k \notin heard
    PROVE  ~SeenRecently(Director, WireSeq(k))
<1> SUFFICES ASSUME SeenRecently(Director, WireSeq(k))
             PROVE  FALSE
  OBVIOUS
<1> USE StreamConstants
<1>1. k \in Frames /\ k \in Nat /\ k <= newest /\ newest < k + Spread
  BY DEF InFlight
<1>2. PICK i \in Slots : dedup_ring_[i] = <<Director, WireSeq(k)>>
  BY DEF SeenRecently
<1>3. dedup_ring_[i] # NoEntry
  BY <1>1, <1>2, WireSeqRange
<1>4. PICK p \in 1 .. n : p + DedupRingSize > n /\ i = (p - 1) % DedupRingSize
  BY <1>3 DEF RingTail
<1> DEFINE j == order[p]
<1>5. dedup_ring_[i] = <<Director, WireSeq(j)>>
  BY <1>4 DEF RingTail
<1>6. j \in Frames /\ j \in Nat /\ j \in heard /\ j <= newest /\ j # k /\ WireSeq(j) = WireSeq(k)
  <2>1. j \in Frames /\ j \in heard /\ j <= newest
    BY DEF InOrder
  <2>2. WireSeq(j) = WireSeq(k)
    BY <1>2, <1>5
  <2> HIDE DEF j
  <2> QED
    BY <2>1, <2>2
<1> HIDE DEF j
<1> DEFINE w == MaxLoss + 1
<1>7. /\ w \in Nat \ {0} /\ w = MaxLoss + 1
      /\ DedupRingSize * w + 2 * Spread <= SeqMod + 1
      /\ DedupRingSize * w \in Nat
  BY DEF RingFitsTheStream
<1> HIDE DEF w
<1>8. DedupRingSize * w >= 1
  BY <1>7
<1>9. j < k /\ k - j >= SeqMod
  <2>1. CASE k < j
    <3>1. j - k >= SeqMod
      BY <1>1, <1>6, <2>1, SameNumberFarApart
    <3>2. SeqMod < Spread
      BY <1>1, <1>6, <3>1
    <3> QED
      BY <1>7, <1>8, <3>2
  <2>2. CASE j < k
    BY <1>1, <1>6, <2>2, SameNumberFarApart
  <2> QED
    BY <1>1, <1>6, <2>1, <2>2
<1> DEFINE Start(b) == j + Spread + b * w
           Blocks == 0 .. DedupRingSize - 1
           Follow == (p + 1) .. n
           Hit(b, q) == order[q] \in Start(b) .. Start(b) + MaxLoss
<1>10. \A b \in Blocks : b * w \in Nat /\ b * w + w <= DedupRingSize * w
  <2> SUFFICES ASSUME NEW b \in Blocks
               PROVE  b * w \in Nat /\ b * w + w <= DedupRingSize * w
    OBVIOUS
  <2>1. b \in Nat /\ b < DedupRingSize /\ DedupRingSize \in Nat /\ w \in Nat
    BY <1>7
  <2>2. b * w \in Nat
    BY <2>1
  <2> QED
    BY <2>1, <2>2, BlocksApart
<1>11. \A b \in Blocks : \E q \in Follow : Hit(b, q)
  <2> SUFFICES ASSUME NEW b \in Blocks
               PROVE  \E q \in Follow : Hit(b, q)
    OBVIOUS
  <2>1. Start(b) \in Nat /\ Start(b) >= j + Spread /\ Start(b) + MaxLoss + Spread <= k
    <3> DEFINE c == b * w
               d == DedupRingSize * w
    <3>1. c \in Nat /\ d \in Nat /\ c + w <= d /\ d + 2 * Spread <= SeqMod + 1
      BY <1>7, <1>10
    <3>2. Start(b) = j + Spread + c
      OBVIOUS
    <3>3. SeqMod \in Nat /\ Spread \in Nat /\ MaxLoss \in Nat /\ w = MaxLoss + 1
      BY <1>7
    <3>4. j \in Nat /\ k \in Nat /\ SeqMod <= k - j
      BY <1>1, <1>6, <1>9
    <3> HIDE DEF c, d, Start
    <3> QED
      BY <3>1, <3>2, <3>3, <3>4
  <2> HIDE DEF Start
  <2>2. \A x \in Start(b) .. Start(b) + MaxLoss : Gone(x)
    BY SMTT(30), <1>1, <1>6, <2>1 DEF Gone, Frames
  <2>3. Start(b) \in Frames /\ Gone(Start(b))
    BY SMTT(30), <2>1, <2>2 DEF Gone
  <2>4. PICK x \in Start(b) .. Start(b) + MaxLoss : x \in heard
    BY <2>2, <2>3 DEF LossBounded
  <2>5. PICK q \in 1 .. n : order[q] = x
    BY <2>4 DEF InOrder
  <2>6. x >= j + Spread /\ x \in Nat
    BY <1>6, <2>1
  <2>7. ~(q < p) /\ q # p
    BY <1>6, <2>5, <2>6 DEF InOrder, j
  <2> QED
    BY <2>5, <2>7
<1>12. \A b, c \in Blocks : b < c => Start(b) + MaxLoss < Start(c)
  <2> SUFFICES ASSUME NEW b \in Blocks, NEW c \in Blocks, b < c
               PROVE  Start(b) + MaxLoss < Start(c)
    OBVIOUS
  <2>1. b \in Nat /\ c \in Nat /\ w \in Nat
    BY <1>7
  <2>2. b * w + w <= c * w
    BY <2>1, BlocksApart
  <2>3. b * w \in Nat /\ c * w \in Nat
    BY <1>10
  <2> DEFINE x == b * w
             y == c * w
  <2>4. x \in Nat /\ y \in Nat /\ x + w <= y
    BY <2>2, <2>3
  <2>5. Start(b) = j + Spread + x /\ Start(c) = j + Spread + y
    OBVIOUS
  <2>6. w = MaxLoss + 1 /\ MaxLoss \in Nat /\ Spread \in Nat
    BY <1>7
  <2> HIDE DEF x, y, Start
  <2> QED
    BY <1>6, <2>4, <2>5, <2>6
<1>13. \A b \in Blocks : Start(b) \in Nat
  BY <1>6, <1>10
<1> HIDE DEF Start
<1>14. \A q \in Follow : order[q] \in Nat
  <2>1. \A q \in Follow : q \in 1 .. n
    BY <1>4
  <2> QED
    BY <2>1
<1>15. \A b, c \in Blocks, q \in Follow : Hit(b, q) /\ Hit(c, q) => b = c
  <2> SUFFICES ASSUME NEW b \in Blocks, NEW c \in Blocks, NEW q \in Follow,
                      b < c, Hit(b, q), Hit(c, q)
               PROVE  FALSE
    OBVIOUS
  <2> QED
    BY <1>12, <1>13, <1>14
<1>16. IsFiniteSet(Follow) /\ Cardinality(Follow) = IF n < p + 1 THEN 0 ELSE n - p
  <2>1. p + 1 \in Int /\ n \in Int
    OBVIOUS
  <2>2. /\ IsFiniteSet(Follow)
        /\ Cardinality(Follow) = IF n < p + 1 THEN 0 ELSE n - (p + 1) + 1
    BY <2>1, IntervalSize, Zenon
  <2> HIDE DEF Follow
  <2> QED
    BY <2>1, <2>2
<1>17. IsFiniteSet(Blocks) /\ Cardinality(Blocks) = DedupRingSize
  <2>1. 0 \in Int /\ DedupRingSize - 1 \in Int
    OBVIOUS
  <2>2. /\ IsFiniteSet(Blocks)
        /\ Cardinality(Blocks)
              = IF DedupRingSize - 1 < 0 THEN 0 ELSE (DedupRingSize - 1) - 0 + 1
    BY <2>1, IntervalSize, Zenon
  <2> HIDE DEF Blocks
  <2> QED
    BY <2>2
<1>18. Cardinality(Follow) < Cardinality(Blocks)
  BY <1>4, <1>16, <1>17
<1> HIDE DEF Hit, Blocks, Follow
<1> DEFINE f == [b \in Blocks |-> CHOOSE q \in Follow : Hit(b, q)]
<1>19. f \in [Blocks -> Follow] /\ \A b \in Blocks : Hit(b, f[b])
  BY <1>11
<1> HIDE DEF f
<1>20. PICK b \in Blocks, c \in Blocks : b # c /\ f[b] = f[c]
  BY <1>16, <1>17, <1>18, <1>19, FS_PigeonHole
<1> QED
  BY <1>15, <1>19, <1>20

\* The first copy of frame k goes to the end of the journal.
LEMMA JournalGrows ==
    ASSUME newest \in Nat, NEW n \in Nat, NEW order \in [1 .. n -> Frames],
           InOrder(n, order), RingTail(n, order), NEW k \in InFlight, k \notin heard,
           heard' = heard \cup {k}, newest' = newest, MarkSeen(Director, WireSeq(k))
    PROVE  Journal'
<1> USE StreamConstants
<1>1. k \in Frames /\ k \in Nat /\ k <= newest /\ newest < k + Spread /\ Spread \in Nat \ {0}
  BY DEF InFlight
<1> DEFINE N == DedupRingSize
           m == n + 1
           longer == [p \in 1 .. m |-> IF p = m THEN k ELSE order[p]]
<1>2. m \in Nat /\ longer \in [1 .. m -> Frames]
  BY <1>1
<1>3. /\ longer[m] = k /\ m \in 1 .. m
      /\ \A p \in 1 .. n : longer[p] = order[p] /\ p \in 1 .. m /\ p < m
      /\ \A p \in 1 .. m : p \in 1 .. n \/ p = m
  OBVIOUS
<1> HIDE DEF longer
<1>4. InOrder(m, longer)'
  <2>1. \A p \in 1 .. n : order[p] \in heard /\ order[p] # k /\ order[p] <= newest
                          /\ order[p] \in Nat
    BY DEF InOrder
  <2>2. \A p, q \in 1 .. m : longer[p] = longer[q] => p = q
    BY <1>3, <2>1 DEF InOrder
  <2>3. heard' = {longer[p] : p \in 1 .. m}
    BY <1>3 DEF InOrder
  <2>4. \A p \in 1 .. m : longer[p] <= newest'
    BY <1>1, <1>3, <2>1
  <2>5. \A p, q \in 1 .. m : p < q => longer[p] < longer[q] + Spread
    <3> SUFFICES ASSUME NEW p \in 1 .. m, NEW q \in 1 .. m, p < q
                 PROVE  longer[p] < longer[q] + Spread
      OBVIOUS
    <3>1. p \in 1 .. n
      BY <1>3
    <3>2. CASE q = m
      BY <1>1, <1>3, <2>1, <3>1, <3>2
    <3>3. CASE q \in 1 .. n
      BY <1>3, <3>1, <3>3 DEF InOrder
    <3> QED
      BY <1>3, <3>2, <3>3
  <2> QED
    BY <1>2, <2>2, <2>3, <2>4, <2>5 DEF InOrder
<1>5. /\ dedup_head_ = n % N
      /\ dedup_ring_' = [dedup_ring_ EXCEPT ![dedup_head_] = <<Director, WireSeq(k)>>]
      /\ dedup_head_' = (dedup_head_ + 1) % N
  BY <1>1, WireSeqRange DEF MarkSeen, RingTail
<1>6. dedup_head_ \in Slots /\ dedup_head_' = m % N
  BY <1>5, RoundTheRing DEF Slots
<1>7. \A p \in 1 .. n : /\ (p - 1) % N \in Slots
                        /\ p + N > m => (p - 1) % N # dedup_head_
                        /\ p + N = m => (p - 1) % N = dedup_head_
  <2> SUFFICES ASSUME NEW p \in 1 .. n
               PROVE  /\ (p - 1) % N \in Slots
                      /\ p + N > m => (p - 1) % N # dedup_head_
                      /\ p + N = m => (p - 1) % N = dedup_head_
    OBVIOUS
  <2> DEFINE a == p - 1
  <2>1. a \in Nat /\ a < n /\ N \in Nat \ {0}
    OBVIOUS
  <2>2. a % N \in Slots
    BY <2>1, RoundTheRing DEF Slots
  <2>3. ASSUME a + N > n PROVE a % N # n % N
    <3> HIDE DEF a, N
    <3>1. ASSUME a % N = n % N PROVE n - a >= N
      BY <2>1, <3>1, EqualModuloApart
    <3> QED
      BY <2>1, <2>3, <3>1
  <2>4. ASSUME a + N = n PROVE a % N = n % N
    <3> HIDE DEF a, N
    <3> QED
      BY <2>1, <2>4, RoundTheRing
  <2>5. (p + N > m <=> a + N > n) /\ (p + N = m <=> a + N = n)
    OBVIOUS
  <2> HIDE DEF N
  <2> QED
    BY <1>5, <2>2, <2>3, <2>4, <2>5
<1>8. RingTail(m, longer)'
  <2>1. dedup_ring_' \in [Slots -> ({Director} \X (1 .. SeqMod)) \cup {NoEntry}]
    BY <1>1, <1>5, WireSeqRange DEF RingTail
  <2>2. ASSUME NEW p \in 1 .. m, p + N > m
        PROVE  dedup_ring_'[(p - 1) % N] = <<Director, WireSeq(longer[p])>>
    <3>1. CASE p = m
      <4>1. (p - 1) % N = dedup_head_
        BY <1>5, <3>1
      <4> QED
        BY <1>3, <1>5, <1>6, <3>1, <4>1 DEF RingTail
    <3>2. CASE p \in 1 .. n
      <4>1. p + N > n
        BY <2>2
      <4>2. dedup_ring_[(p - 1) % N] = <<Director, WireSeq(order[p])>>
        BY <3>2, <4>1 DEF RingTail
      <4>3. (p - 1) % N \in Slots /\ (p - 1) % N # dedup_head_
        BY <1>7, <2>2, <3>2
      <4> QED
        BY <1>3, <1>5, <3>2, <4>2, <4>3 DEF RingTail
    <3> QED
      BY <1>3, <3>1, <3>2
  <2>3. ASSUME NEW i \in Slots, dedup_ring_'[i] # NoEntry
        PROVE  \E p \in 1 .. m : p + N > m /\ i = (p - 1) % N
    <3>1. CASE i = dedup_head_
      <4>1. m + N > m /\ m - 1 = n
        OBVIOUS
      <4> QED
        BY <1>3, <1>5, <3>1, <4>1
    <3>2. CASE i # dedup_head_
      <4>1. dedup_ring_[i] # NoEntry
        BY <1>5, <2>3, <3>2 DEF RingTail
      <4>2. PICK p \in 1 .. n : p + N > n /\ i = (p - 1) % N
        BY <4>1 DEF RingTail
      <4>3. p + N # m
        BY <1>7, <3>2, <4>2
      <4>4. p + N > m
        <5>1. p \in Nat /\ n \in Nat /\ N \in Nat
          OBVIOUS
        <5> HIDE DEF N
        <5> QED
          BY <4>2, <4>3, <5>1
      <4> QED
        BY <1>3, <4>2, <4>4
    <3> QED
      BY <3>1, <3>2
  <2> QED
    BY <1>6, <2>1, <2>2, <2>3 DEF RingTail, Slots, WireSeq
<1> HIDE DEF m
<1> QED
  BY <1>2, <1>4, <1>8, Zenon DEF Journal

\* The journal is what it was when nothing was heard.
LEMMA JournalStays ==
    ASSUME Journal, newest \in Nat, newest' \in Nat, newest <= newest',
           UNCHANGED <<dedup_ring_, dedup_head_, heard>>
    PROVE  Journal'
<1>0. PICK n \in Nat : \E order \in [1 .. n -> Frames] : InOrder(n, order) /\ RingTail(n, order)
  BY DEF Journal
<1>1. PICK order \in [1 .. n -> Frames] : InOrder(n, order) /\ RingTail(n, order)
  BY <1>0
<1>2. RingTail(n, order)'
  BY <1>1 DEF RingTail, Slots, WireSeq
<1>3. \A p \in 1 .. n : order[p] <= newest'
  <2>1. \A p \in 1 .. n : order[p] \in Nat /\ order[p] <= newest
    BY <1>1, StreamConstants DEF InOrder
  <2> QED
    BY <2>1
<1>4. InOrder(n, order)'
  BY <1>1, <1>3 DEF InOrder, Frames
<1> QED
  BY <1>2, <1>4, Zenon DEF Journal

\* A frame that is heard is let through once, for every size of the ring,
\* every modulus and every bound on the stream, if the ring fits the stream.
THEOREM StreamHeardOnce ==
    ASSUME RingFitsTheStream
    PROVE  StreamSpec => []HeardOnce
<1>1. StreamInit => StreamInv
  <2> SUFFICES ASSUME StreamInit PROVE StreamInv
    OBVIOUS
  <2> USE StreamConstants DEF StreamInit, EmptyRing
  <2>1. newest \in Nat /\ accepted \in [Frames -> 0 .. 2] /\ HeardOnce
    BY DEF HeardOnce
  <2>2. LossBounded
    BY DEF LossBounded, Gone
  <2>3. Journal
    <3> DEFINE none == [p \in 1 .. 0 |-> 1]
    <3>1. 0 \in Nat /\ none \in [1 .. 0 -> Frames]
      OBVIOUS
    <3>2. InOrder(0, none)
      BY <3>1 DEF InOrder
    <3>3. RingTail(0, none)
      BY <3>1 DEF RingTail, Slots
    <3> QED
      BY <3>1, <3>2, <3>3 DEF Journal
  <2> QED
    BY <2>1, <2>2, <2>3 DEF StreamInv
<1>2. StreamInv /\ [StreamNext]_streamVars => StreamInv'
  <2> SUFFICES ASSUME StreamInv, [StreamNext]_streamVars PROVE StreamInv'
    OBVIOUS
  <2> USE StreamConstants DEF StreamInv
  <2>1. CASE Send
    <3>1. /\ newest' \in Nat /\ newest <= newest'
          /\ UNCHANGED <<dedup_ring_, dedup_head_, heard, accepted>>
      BY <2>1 DEF Send
    <3>2. Journal'
      BY <3>1, JournalStays
    <3>3. LossBounded'
      BY <2>1, <3>1 DEF Send, LossBounded, Gone, Frames
    <3> QED
      BY <3>1, <3>2, <3>3 DEF HeardOnce, Frames
  <2>2. ASSUME NEW k \in Frames, Arrive(k) PROVE StreamInv'
    <3> USE <2>2
    <3>1. k \in InFlight /\ newest' = newest /\ heard' = heard \cup {k}
      BY DEF Arrive
    <3>2. LossBounded'
      BY <3>1 DEF LossBounded, Gone, Frames
    <3>0. PICK n \in Nat :
             \E order \in [1 .. n -> Frames] : InOrder(n, order) /\ RingTail(n, order)
      BY DEF Journal
    <3>3. PICK order \in [1 .. n -> Frames] : InOrder(n, order) /\ RingTail(n, order)
      BY <3>0
    <3>4. CASE k \in heard
      <4>1. SeenRecently(Director, WireSeq(k))
        BY <3>1, <3>3, <3>4, HeardIsSeen
      <4>2. UNCHANGED <<dedup_ring_, dedup_head_, accepted>> /\ heard' = heard
        BY <3>1, <3>4, <4>1 DEF Arrive
      <4>3. Journal'
        BY <3>1, <4>2, JournalStays
      <4> QED
        BY <3>1, <3>2, <4>2, <4>3 DEF HeardOnce, Frames
    <3>5. CASE k \notin heard
      <4>1. ~SeenRecently(Director, WireSeq(k))
        BY <3>1, <3>3, <3>5, UnheardIsNew
      <4>2. /\ MarkSeen(Director, WireSeq(k))
            /\ accepted' = [accepted EXCEPT ![k] = IF @ < 2 THEN @ + 1 ELSE 2]
        BY <4>1 DEF Arrive
      <4>3. Journal'
        BY <3>1, <3>3, <3>5, <4>2, JournalGrows
      <4>4. accepted[k] = 0
        BY <3>5 DEF HeardOnce
      <4>5. accepted' = [accepted EXCEPT ![k] = 1]
        BY <4>2, <4>4
      <4>6. HeardOnce' /\ accepted' \in [Frames -> 0 .. 2]
        BY <3>1, <4>5 DEF HeardOnce, Frames
      <4> QED
        BY <3>1, <3>2, <4>3, <4>6
    <3> QED
      BY <3>4, <3>5
  <2>3. CASE UNCHANGED streamVars
    <3>1. UNCHANGED <<dedup_ring_, dedup_head_, newest, heard, accepted>>
      BY <2>3 DEF streamVars
    <3>2. Journal'
      BY <3>1, JournalStays
    <3> QED
      BY <3>1, <3>2 DEF HeardOnce, LossBounded, Gone, Frames
  <2> QED
    BY <2>1, <2>2, <2>3 DEF StreamNext
<1>3. StreamInv => HeardOnce
  BY DEF StreamInv
<1> QED
  BY <1>1, <1>2, <1>3, PTL DEF StreamSpec

-----------------------------------------------------------------------------
(* The strip: a pulse and the frame that has to light it.                  *)

\* A pixel that was hit between two frames: its pulse is not over, by the
\* clock of the strip and by the `now' of the frame, which began later; and a
\* frame that walks the pixels has that very pulse in hand.
UnseenInv ==
    /\ unseen \subseteq Pixels
    /\ \A p \in unseen :
          /\ stamp[p] \in 0 .. pulse_.total - 1
          /\ render.pc # "idle" => render.lag <= stamp[p]
    /\ render.pc = "pixel" /\ unseen # {} => render.pulse = pulse_

StripTypes ==
    /\ pulse_.total \in 0 .. AgeMax
    /\ stamp \in [Pixels -> Int]
    /\ render = [pc |-> render.pc, lag |-> render.lag, pixel |-> render.pixel,
                 base |-> render.base, pulse |-> render.pulse]
    /\ render.lag \in Nat

StripInv == StripTypes /\ UnseenInv

\* No pulse is longer than the largest age.
LEMMA AgeMaxBounds ==
    /\ AgeMax \in Nat /\ PulseFloor \in 1 .. AgeMax
    /\ \A p \in Pulses : p.total \in 0 .. AgeMax
<1> DEFINE top == CHOOSE e \in Ends : \A f \in Ends : f <= e
<1>1. top \in Ends /\ \A f \in Ends : f <= top
  BY EndsAssumption
<1>2. AgeMax = MaxFrameLag + top
  BY DEF AgeMax
<1>3. PulseFloor \in Ends /\ \A p \in Pulses : p.total \in Ends
  BY DEF Ends
<1> HIDE DEF top
<1>4. \A f \in Ends : f \in 0 .. AgeMax
  BY <1>1, <1>2, EndsAssumption, StripAssumption
<1> QED
  BY <1>1, <1>2, <1>3, <1>4, EndsAssumption, StripAssumption

\* A pulse of no length gets the floor.
LEMMA FlooredPulse == \A p \in Pulses : Floored(p).total \in 1 .. AgeMax
BY AgeMaxBounds, StripAssumption DEF Floored

\* A pulse that hits a pixel between two frames is not dropped, for every
\* strip, every pulse and every order of the calls and the steps of a frame:
\* the pixel keeps its stamp until a frame has lit it, its time is up or
\* another pulse has come.
THEOREM StripDropsNothing == StripSpec => []NothingDroppedBetweenFrames
<1>1. StripInit => StripInv
  BY AgeMaxBounds DEF StripInit, StripInv, StripTypes, UnseenInv, Idle, NoPulse, Never
<1>2. StripInv /\ [StripNext]_stripVars => StripInv'
  <2> SUFFICES ASSUME StripInv, [StripNext]_stripVars PROVE StripInv'
    OBVIOUS
  <2> USE StripAssumption, AgeMaxBounds DEF StripInv, StripTypes
  <2>1. CASE SendPulse
    <3>1. PICK p \in Pulses, hits \in SUBSET Walk :
             /\ pulse_' = Floored(p)
             /\ stamp' = [q \in Pixels |-> IF q \in hits THEN 0 ELSE stamp[q]]
             /\ unseen' = IF render.pc = "idle" THEN hits ELSE {}
      BY <2>1 DEF SendPulse
    <3>2. UNCHANGED render /\ pulse_'.total \in 1 .. AgeMax
      BY <2>1, <3>1, FlooredPulse DEF SendPulse
    <3>3. unseen' \subseteq hits /\ hits \subseteq Pixels
      BY <3>1 DEF Walk
    <3>4. UnseenInv'
      BY <3>1, <3>2, <3>3 DEF UnseenInv, Pixels
    <3> QED
      BY <3>1, <3>2, <3>4 DEF Pixels
  <2>2. CASE SendWash
    BY <2>2 DEF SendWash, UnseenInv, Pixels
  <2>3. CASE SendWashEnd
    BY <2>3 DEF SendWashEnd, UnseenInv, Pixels
  <2>4. CASE SetEnabled
    BY <2>4 DEF SetEnabled, UnseenInv, Pixels
  <2>5. CASE SetOverlay
    BY <2>5 DEF SetOverlay, UnseenInv, Pixels
  <2>6. CASE SetPixelCount
    BY <2>6 DEF SetPixelCount, UnseenInv, Pixels, Never
  <2>7. CASE FrameStep
    <3>1. CASE FrameBegins
      BY <3>1 DEF FrameBegins, UnseenInv, Pixels, Idle
    <3>2. CASE FrameReadsWash
      BY <3>2 DEF FrameReadsWash, UnseenInv, Pixels
    <3>3. CASE FrameEndsWash
      BY <3>3 DEF FrameEndsWash, UnseenInv, Pixels
    <3>4. CASE FrameReadsPulse
      BY <3>4 DEF FrameReadsPulse, UnseenInv, Pixels
    <3>5. CASE FramePixel
      <4>1. /\ stamp' \in {stamp, [stamp EXCEPT ![render.pixel] = Never]}
            /\ Over(render.pixel) \/ stamp' = stamp
            /\ unseen' \subseteq unseen
            /\ UNCHANGED pulse_
            /\ render.pc = "pixel"
        BY <3>5 DEF FramePixel
      <4>2. /\ render'.pulse = render.pulse /\ render'.lag = render.lag
            /\ render' = [pc |-> render'.pc, lag |-> render'.lag, pixel |-> render'.pixel,
                          base |-> render'.base, pulse |-> render'.pulse]
        BY <3>5 DEF FramePixel
      <4>3. \A p \in unseen : p \in Pixels /\ ~Over(p)
        BY <4>1 DEF UnseenInv, Over, Elapsed
      <4>4. \A p \in unseen : stamp'[p] = stamp[p]
        BY <4>1, <4>3
      <4>5. UnseenInv'
        BY <4>1, <4>2, <4>4 DEF UnseenInv, Pixels
      <4>6. stamp' \in [Pixels -> Int]
        BY <4>1 DEF Pixels, Never
      <4> QED
        BY <4>1, <4>2, <4>5, <4>6 DEF Pixels
    <3>6. CASE FrameShows
      BY <3>6 DEF FrameShows, UnseenInv, Pixels, Idle
    <3> QED
      BY <2>7, <3>1, <3>2, <3>3, <3>4, <3>5, <3>6 DEF FrameStep
  <2>8. CASE StripClock
    <3>1. /\ stamp' = [p \in Pixels |-> Older(stamp[p])]
          /\ unseen' = {p \in unseen : stamp[p] + 1 < pulse_.total}
          /\ UNCHANGED pulse_
          /\ render' = IF render.pc = "idle" THEN render ELSE [render EXCEPT !.lag = @ + 1]
      BY <2>8 DEF StripClock
    <3>2. \A p \in unseen' :
             /\ p \in unseen /\ p \in Pixels
             /\ stamp'[p] = stamp[p] + 1 /\ stamp[p] + 1 < pulse_.total
      BY <3>1 DEF UnseenInv, Older, Never
    <3>3. /\ render'.pc = render.pc /\ render'.pulse = render.pulse
          /\ render'.lag \in {render.lag, render.lag + 1}
          /\ render' = [pc |-> render'.pc, lag |-> render'.lag, pixel |-> render'.pixel,
                        base |-> render'.base, pulse |-> render'.pulse]
      BY <3>1
    <3>4. UnseenInv'
      <4>1. ASSUME NEW p \in unseen'
            PROVE  /\ stamp'[p] \in 0 .. pulse_'.total - 1
                   /\ render'.pc # "idle" => render'.lag <= stamp'[p]
        <5>1. /\ stamp[p] \in Nat /\ stamp'[p] = stamp[p] + 1 /\ stamp[p] + 1 < pulse_.total
              /\ render.pc # "idle" => render.lag <= stamp[p]
          BY <3>2 DEF UnseenInv
        <5> QED
          BY <3>1, <3>3, <5>1
      <4>2. unseen' \subseteq Pixels /\ unseen' \subseteq unseen
        BY <3>2
      <4>3. render'.pc = "pixel" /\ unseen' # {} => render'.pulse = pulse_'
        BY <3>1, <3>3, <4>2 DEF UnseenInv
      <4> QED
        BY <4>1, <4>2, <4>3 DEF UnseenInv, Pixels
    <3>5. stamp' \in [Pixels -> Int]
      BY <3>1 DEF Older, Never, Pixels
    <3> QED
      BY <3>1, <3>3, <3>4, <3>5 DEF Pixels
  <2>9. CASE UNCHANGED stripVars
    BY <2>9 DEF stripVars, UnseenInv, Pixels
  <2> QED
    BY <2>1, <2>2, <2>3, <2>4, <2>5, <2>6, <2>7, <2>8, <2>9 DEF StripNext
<1>3. StripInv => NothingDroppedBetweenFrames
  BY DEF StripInv, StripTypes, UnseenInv, NothingDroppedBetweenFrames, Never
<1> QED
  BY <1>1, <1>2, <1>3, PTL DEF StripSpec

-----------------------------------------------------------------------------
(* The IR relay: the drift and its divisor.                                *)

\* The slot, the main task's copy of it and the WiFi task's wash are records
\* of their shape, and the cycles in them are numbers.
IrTypes ==
    /\ ir_slot = [active |-> ir_slot.active, colour |-> ir_slot.colour,
                  cycle |-> ir_slot.cycle, interval |-> ir_slot.interval,
                  next |-> ir_slot.next]
    /\ ir_slot.cycle \in Nat
    /\ ir_main = [pc |-> ir_main.pc, why |-> ir_main.why, cycle |-> ir_main.cycle,
                  colour |-> ir_main.colour, envelope |-> ir_main.envelope]
    /\ ir_main.cycle \in Nat /\ ir_main.why \in {"refresh", "sparkle"}
    /\ ir_wifi = [pc |-> ir_wifi.pc, wash |-> ir_wifi.wash]
    /\ ir_wifi.wash.cycle \in Nat

IrInv == IrTypes /\ NoDivideByZero

\* Whatever the WiFi task writes between the test of the cycle and the
\* division, for every wash and every bound on the refreshes: the main task
\* divides by the copy it tested.
THEOREM RelayNeverDividesByZero == IrSpec => []NoDivideByZero
<1>1. IrInit => IrInv
  BY DEF IrInit, IrInv, IrTypes, NoDivideByZero, MainIdle, WifiIdle
<1>2. IrInv /\ [IrNext]_irVars => IrInv'
  <2> SUFFICES ASSUME IrInv, [IrNext]_irVars PROVE IrInv'
    OBVIOUS
  <2> USE IrAssumption DEF IrInv, IrTypes, NoDivideByZero, Divisor
  <2>1. CASE IrWashArrives
    <3>1. PICK w \in IrWashes :
             IF w.colour = NoLight
             THEN UNCHANGED ir_slot /\ ir_wifi' = [pc |-> "clear", wash |-> w]
             ELSE /\ ir_slot' = [ir_slot EXCEPT !.active = TRUE, !.colour = w.colour]
                  /\ ir_wifi' = [pc |-> "cycle", wash |-> w]
      BY <2>1, Zenon DEF IrWashArrives
    <3>2. w.cycle \in Nat /\ UNCHANGED ir_main
      BY <2>1 DEF IrWashArrives
    <3>3. CASE w.colour = NoLight
      BY <3>1, <3>2, <3>3
    <3>4. CASE w.colour # NoLight
      <4>1. ir_slot' = [active |-> TRUE, colour |-> w.colour, cycle |-> ir_slot.cycle,
                        interval |-> ir_slot.interval, next |-> ir_slot.next]
        BY <3>1, <3>4
      <4>2. ir_wifi' = [pc |-> "cycle", wash |-> w]
        BY <3>1, <3>4
      <4> QED
        BY <3>2, <4>1, <4>2
    <3> QED
      BY <3>3, <3>4
  <2>2. CASE IrEndArrives
    BY <2>2 DEF IrEndArrives, WifiIdle
  <2>3. CASE IrWashPulse
    BY <2>3 DEF IrWashPulse
  <2>4. CASE IrPulse
    <3>1. UNCHANGED <<ir_slot, ir_wifi>>
      BY <2>4 DEF IrPulse
    <3>2. PICK time \in Envelopes :
             \/ ir_main' = ir_main
             \/ ir_main' = [MainIdle EXCEPT !.pc = "test", !.why = "sparkle", !.envelope = time]
      BY <2>4 DEF IrPulse
    <3>3. ir_main' = ir_main
          \/ ir_main' = [pc |-> "test", why |-> "sparkle", cycle |-> 0, colour |-> NoLight,
                         envelope |-> time]
      BY <3>2 DEF MainIdle
    <3> QED
      BY <3>1, <3>3
  <2>5. CASE IrMainStep
    <3>1. CASE IrTick
      BY <3>1 DEF IrTick, MainIdle
    <3>2. CASE IrTestsDrift
      BY <3>2 DEF IrTestsDrift
    <3>3. CASE IrReadsCycle
      <4>1. /\ ir_main' = [ir_main EXCEPT !.cycle = ir_slot.cycle,
                          !.pc = IF ir_slot.cycle = 0 THEN ir_main.why ELSE "divide"]
            /\ UNCHANGED <<ir_slot, ir_wifi>>
        BY <3>3 DEF IrReadsCycle
      <4>2. CASE ir_slot.cycle = 0
        BY <4>1, <4>2
      <4>3. CASE ir_slot.cycle # 0
        <5>1. ir_main' = [pc |-> "divide", why |-> ir_main.why, cycle |-> ir_slot.cycle,
                          colour |-> ir_main.colour, envelope |-> ir_main.envelope]
          BY <4>1, <4>3
        <5>2. ir_slot.cycle > 0
          BY <4>3
        <5> QED
          BY <4>1, <5>1, <5>2
      <4> QED
        BY <4>2, <4>3
    <3>4. CASE IrDivides
      BY <3>4 DEF IrDivides
    <3>5. CASE IrRefreshes
      BY <3>5 DEF IrRefreshes
    <3>6. CASE IrRearms
      BY <3>6 DEF IrRearms, MainIdle
    <3>7. CASE IrSparkles
      BY <3>7 DEF IrSparkles, MainIdle
    <3>8. CASE IrRecovers
      BY <3>8 DEF IrRecovers, MainIdle
    <3> QED
      BY <2>5, <3>1, <3>2, <3>3, <3>4, <3>5, <3>6, <3>7, <3>8 DEF IrMainStep
  <2>6. CASE IrWifiStep
    <3>1. CASE IrWashCycle
      BY <3>1 DEF IrWashCycle
    <3>2. CASE IrWashNext
      BY <3>2 DEF IrWashNext
    <3>3. CASE IrWashFires
      BY <3>3 DEF IrWashFires
    <3>4. CASE IrEndClears
      BY <3>4 DEF IrEndClears, Cleared
    <3> QED
      BY <2>6, <3>1, <3>2, <3>3, <3>4 DEF IrWifiStep
  <2>7. CASE IrClock
    BY <2>7 DEF IrClock
  <2>8. CASE UNCHANGED irVars
    BY <2>8 DEF irVars
  <2> QED
    BY <2>1, <2>2, <2>3, <2>4, <2>5, <2>6, <2>7, <2>8 DEF IrNext
<1>3. IrInv => NoDivideByZero
  BY DEF IrInv
<1> QED
  BY <1>1, <1>2, <1>3, PTL DEF IrSpec

-----------------------------------------------------------------------------
(* The Director's own strip, and the wash of a manual drop.                *)

\* A DAL and a Bass & Drift are records of these parts, and of no others.
IsDal(d) ==
    d = [radio |-> d.radio, air |-> d.air, table |-> d.table, fleet |-> d.fleet, ir |-> d.ir,
         strip |-> d.strip]

IsDrift(s) ==
    s = [drop |-> s.drop, prev |-> s.prev, section |-> s.section, recompute |-> s.recompute,
         palette |-> s.palette, group |-> s.group, locked |-> s.locked, responds |-> s.responds]

\* A wash goes to the strip whether the radio takes it or not.
LEMMA WashReachesStrip ==
    ASSUME NEW d, IsDal(d), NEW t, NEW w
    PROVE  IsDal(RenderWash(d, t, w)) /\ RenderWash(d, t, w).strip = w
  <1> DEFINE sent == IF Accepts(d)
                     THEN [d EXCEPT !.air = FALSE, !.table = Recorded(@, t, w), !.fleet[t] = w]
                     ELSE d
  <1>1. IsDal(sent)
    BY DEF IsDal
  <1>2. RenderWash(d, t, w) = [sent EXCEPT !.ir[t] = w, !.strip = w]
    BY DEF RenderWash
  <1> HIDE DEF sent
  <1> QED BY <1>1, <1>2 DEF IsDal

\* So does its end.
LEMMA WashEndReachesStrip ==
    ASSUME NEW d, IsDal(d), NEW t
    PROVE  IsDal(RenderWashEnd(d, t)) /\ RenderWashEnd(d, t).strip = NoWash
  <1> DEFINE sent == IF Accepts(d)
                     THEN [d EXCEPT !.air = FALSE, !.table = ClearedOf(@, t), !.fleet[t] = NoWash]
                     ELSE d
  <1>1. IsDal(sent)
    BY DEF IsDal
  <1>2. RenderWashEnd(d, t) = [sent EXCEPT !.ir[t] = NoWash, !.strip = NoWash]
    BY DEF RenderWashEnd
  <1> HIDE DEF sent
  <1> QED BY <1>1, <1>2 DEF IsDal

\* Pulses, refreshes and time leave the strip's wash alone.
LEMMA PulseLeavesStrip ==
    ASSUME NEW d, IsDal(d) PROVE IsDal(RenderFx(d)) /\ RenderFx(d).strip = d.strip
  BY DEF IsDal, RenderFx

\* So do the refreshes that are due, and the time up to the next.
LEMMA RefreshLeavesStrip ==
    ASSUME NEW d, IsDal(d)
    PROVE  /\ IsDal(Refreshed(d)) /\ Refreshed(d).strip = d.strip
           /\ IsDal(Later(d)) /\ Later(d).strip = d.strip
  <1> DEFINE first == CHOOSE i \in Due(d) : \A j \in Due(d) : i <= j
             fleet == [d.fleet EXCEPT ![d.table[first].target] = d.table[first].wash]
             table == [d.table EXCEPT ![first].age = 0]
             older == [i \in DOMAIN d.table |->
                          [d.table[i] EXCEPT !.age = IF @ < RefreshPeriod + 1 THEN @ + 1 ELSE @]]
  <1>1. Refreshed(d) = [d EXCEPT !.air = FALSE, !.fleet = fleet, !.table = table]
    BY DEF Refreshed, IsDal
  <1>2. Later(d) = [d EXCEPT !.air = TRUE, !.table = older]
    BY DEF Later, IsDal
  <1> HIDE DEF first, fleet, table, older
  <1> QED BY <1>1, <1>2 DEF IsDal

-----------------------------------------------------------------------------
(* Calls of the show, on a stage: the show and the DAL.                    *)

OnStage(stage) == IsDrift(stage.show) /\ IsDal(stage.dal)

\* A Bass & Drift stays one whatever a part of it becomes.
LEMMA DriftKeepsParts ==
    ASSUME NEW s, IsDrift(s), NEW x
    PROVE  /\ IsDrift([s EXCEPT !.recompute = x]) /\ [s EXCEPT !.recompute = x].drop = s.drop
           /\ [s EXCEPT !.recompute = x].section = s.section
           /\ IsDrift([s EXCEPT !.section = x]) /\ [s EXCEPT !.section = x].section = x
           /\ IsDrift([s EXCEPT !.prev = x]) /\ IsDrift([s EXCEPT !.drop = x])
  <1>1. IsDrift([s EXCEPT !.recompute = x]) /\ IsDrift([s EXCEPT !.section = x])
    BY DEF IsDrift
  <1>2. IsDrift([s EXCEPT !.prev = x]) /\ IsDrift([s EXCEPT !.drop = x])
    BY DEF IsDrift
  <1>3. /\ [s EXCEPT !.recompute = x].drop = s.drop
        /\ [s EXCEPT !.recompute = x].section = s.section
        /\ [s EXCEPT !.section = x].section = x
    BY DEF IsDrift
  <1> QED BY <1>1, <1>2, <1>3

\* Nothing but the wash, its speed, group and palette depends on an emission.
LEMMA EmissionShowsSection ==
    ASSUME NEW s, NEW d, IsDrift(s), IsDal(d)
    PROVE  /\ OnStage(DriftEmits(s, d))
           /\ DriftEmits(s, d).dal.strip.section = s.section
           /\ DriftEmits(s, d).show.drop = s.drop
           /\ DriftEmits(s, d).show.section = s.section
  <1>1. DriftEmits(s, d) = [show |-> [s EXCEPT !.recompute = FALSE],
                            dal |-> RenderWash(d, s.group, WashOf(s))]
    BY DEF DriftEmits, Stage
  <1>2. /\ IsDal(RenderWash(d, s.group, WashOf(s)))
        /\ RenderWash(d, s.group, WashOf(s)).strip.section = s.section
    BY WashReachesStrip DEF WashOf
  <1>3. /\ IsDrift([s EXCEPT !.recompute = FALSE])
        /\ [s EXCEPT !.recompute = FALSE].drop = s.drop
        /\ [s EXCEPT !.recompute = FALSE].section = s.section
    BY DriftKeepsParts, Zenon
  <1>4. /\ DriftEmits(s, d).show = [s EXCEPT !.recompute = FALSE]
        /\ DriftEmits(s, d).dal = RenderWash(d, s.group, WashOf(s))
    BY <1>1
  <1> QED BY <1>2, <1>3, <1>4, Zenon DEF OnStage

\* A pulse changes neither the show nor the strip.
LEMMA PulseLeavesStage ==
    ASSUME NEW s, NEW d, IsDrift(s), IsDal(d)
    PROVE  LET after == DriftPulses(Stage(s, d))
           IN  OnStage(after) /\ after.show = s /\ after.dal.strip = d.strip
  <1>1. DriftPulses(Stage(s, d)) = [show |-> s, dal |-> RenderFx(d)]
    BY DEF DriftPulses, Stage
  <1> QED BY <1>1, PulseLeavesStrip DEF OnStage

\* A beat, and a section that is noted.
LEMMA BeatStays ==
    ASSUME NEW s, NEW d, IsDrift(s), IsDal(d), NEW still, NEW moved
    PROVE  LET after == DriftBeat(s, d, still, moved)
           IN  /\ OnStage(after)
               /\ s.drop => after.show = s /\ after.dal.strip = d.strip
  <1>1. CASE still
    BY <1>1 DEF DriftBeat, Stage, OnStage
  <1>2. CASE ~still /\ ~Recomputes(s, moved)
    BY <1>2, PulseLeavesStage DEF DriftBeat
  <1>3. CASE ~still /\ Recomputes(s, moved)
    <2> DEFINE e == DriftEmits(s, d)
    <2>1. OnStage(e) /\ e = Stage(e.show, e.dal)
      BY EmissionShowsSection DEF DriftEmits, Stage
    <2>2. DriftBeat(s, d, still, moved) = DriftPulses(e)
      BY <1>3 DEF DriftBeat
    <2> HIDE DEF e
    <2>3. OnStage(DriftPulses(Stage(e.show, e.dal)))
      BY <2>1, PulseLeavesStage DEF OnStage
    <2>4. ~s.drop
      BY <1>3 DEF Recomputes
    <2> QED BY <2>1, <2>2, <2>3, <2>4, Zenon
  <1> QED BY <1>1, <1>2, <1>3

\* A new section leaves the stage sound, and a Show that is dark dark.
LEMMA SectionStays ==
    ASSUME NEW s, NEW d, IsDrift(s), IsDal(d), NEW section
    PROVE  LET after == DriftSection(s, d, section)
           IN  /\ OnStage(after)
               /\ s.drop => after.dal.strip = d.strip
  <1> DEFINE noted == [s EXCEPT !.section = section]
  <1>1. IsDrift(noted) /\ IsDrift([noted EXCEPT !.prev = section])
    BY DriftKeepsParts
  <1>2. DriftSection(s, d, section) =
            IF s.drop THEN Stage([noted EXCEPT !.prev = section], d)
            ELSE IF ~s.responds THEN Stage(noted, d)
            ELSE DriftEmits(noted, d)
    BY DEF DriftSection
  <1> HIDE DEF noted
  <1> QED BY <1>1, <1>2, EmissionShowsSection DEF Stage, OnStage

\* Confirm, Cycle and an edit.
LEMMA ConfirmShowsDrop ==
    ASSUME NEW s, NEW d, IsDrift(s), IsDal(d)
    PROVE  /\ OnStage(DriftConfirm(s, d)) /\ DriftConfirm(s, d).dal.strip.section = "drop"
           /\ OnStage(DriftCycle(s, d)) /\ DriftCycle(s, d).dal = d
  <1> DEFINE forced == [s EXCEPT !.prev = s.section, !.drop = TRUE, !.section = "drop"]
             e == DriftEmits(forced, d)
  <1>1. IsDrift(forced) /\ forced.section = "drop"
    <2> DEFINE one == [s EXCEPT !.prev = s.section]
               two == [one EXCEPT !.drop = TRUE]
    <2>1. IsDrift(one)
      BY DriftKeepsParts
    <2>2. forced = [two EXCEPT !.section = "drop"]
      OBVIOUS
    <2> HIDE DEF forced, one
    <2>3. IsDrift(two)
      BY <2>1, DriftKeepsParts, Zenon
    <2> HIDE DEF two
    <2> QED BY <2>2, <2>3, DriftKeepsParts
  <1>2. DriftConfirm(s, d) = DriftPulses(e)
    BY DEF DriftConfirm
  <1> HIDE DEF forced
  <1>3. OnStage(e) /\ e = Stage(e.show, e.dal) /\ e.dal.strip.section = "drop"
    BY <1>1, EmissionShowsSection DEF DriftEmits, Stage
  <1> HIDE DEF e
  <1>4. IsDrift(NextPalette(s))
    BY DEF NextPalette, IsDrift
  <1> QED BY <1>2, <1>3, <1>4, PulseLeavesStage DEF OnStage, DriftCycle, Stage

\* A plugin edited on the Show's screen leaves the stage sound.
LEMMA EditStays ==
    ASSUME NEW s, NEW d, IsDrift(s), IsDal(d),
           NEW key \in {"palette_set", "wash_speed", "target_group", "respond_to_sections"}
    PROVE  OnStage(DriftEdit(s, d, key))
  <1>1. /\ IsDrift(NextPalette(s)) /\ IsDrift([s EXCEPT !.locked = ~@])
        /\ IsDrift([s EXCEPT !.group = (@ + 1) % Cardinality(Targets)])
        /\ IsDrift([s EXCEPT !.responds = ~@])
    BY DEF NextPalette, IsDrift
  <1> QED BY <1>1, EmissionShowsSection DEF DriftEdit, Stage, OnStage

-----------------------------------------------------------------------------
(* The mode.                                                               *)

StageInv == IsDal(dal) /\ IsDrift(drift) /\ show_id \in ShowIds /\ StripReleased

\* A show is entered and left on a stage; only a wash lights the strip.
LEMMA EnteredOnStage ==
    ASSUME NEW id \in ShowIds, NEW s, NEW d, IsDrift(s), IsDal(d)
    PROVE  /\ OnStage(ShowEnter(id, Stage(s, d)))
           /\ id = "pulse" => ShowEnter(id, Stage(s, d)).dal = d
  <1>1. CASE id = "drift"
    <2> DEFINE fresh == [s EXCEPT !.drop = FALSE, !.prev = "verse", !.section = "verse"]
               one == [s EXCEPT !.drop = FALSE]
               two == [one EXCEPT !.prev = "verse"]
    <2>1. fresh = [two EXCEPT !.section = "verse"]
      OBVIOUS
    <2>2. ShowEnter(id, Stage(s, d)) = DriftEmits(fresh, d)
      BY <1>1 DEF ShowEnter, DriftEnter, Stage
    <2>3. IsDrift(one)
      BY DriftKeepsParts, Zenon
    <2> HIDE DEF fresh, one
    <2>4. IsDrift(two)
      BY <2>3, DriftKeepsParts
    <2> HIDE DEF two
    <2>5. IsDrift(fresh)
      BY <2>1, <2>4, DriftKeepsParts
    <2> QED BY <1>1, <2>2, <2>5, EmissionShowsSection
  <1>2. CASE id = "wash_demo"
    <2>1. ShowEnter(id, Stage(s, d)) = [show |-> s, dal |-> RenderWash(d, 0, DemoWash("verse"))]
      BY <1>2 DEF ShowEnter, Stage
    <2> QED BY <1>2, <2>1, WashReachesStrip DEF OnStage
  <1>3. CASE id = "pulse"
    BY <1>3 DEF ShowEnter, Stage, OnStage
  <1> QED BY <1>1, <1>2, <1>3, ShowsAssumption

\* A Show that is left leaves the strip without a wash.
LEMMA LeftDark ==
    ASSUME StageInv
    PROVE  IsDal(ShowExit(show_id)) /\ ShowExit(show_id).strip = NoWash
  <1>1. CASE show_id = "drift"
    BY <1>1, WashEndReachesStrip DEF ShowExit, DriftExit, StageInv
  <1>2. CASE show_id = "wash_demo"
    BY <1>2, WashEndReachesStrip DEF ShowExit, StageInv
  <1>3. CASE show_id = "pulse"
    BY <1>3 DEF ShowExit, StageInv, StripReleased
  <1> QED BY <1>1, <1>2, <1>3, ShowsAssumption DEF StageInv

\* What DropHeld asks of one step.
DropStep ==
    mode = "director" /\ mode' = "director" /\ show_id = "drift" /\ show_id' = "drift"
    /\ drift.drop /\ drift'.drop /\ dal.strip.section = "drop"
    => dal'.strip.section = "drop" \/ overlay = "settings"

\* Entering and leaving the mode, and changing its show.
LEMMA EntriesStay ==
    StageInv /\ (Enter \/ PickerBack \/ PickerConfirm) => StageInv' /\ DropStep
  <1> SUFFICES ASSUME StageInv, Enter \/ PickerBack \/ PickerConfirm PROVE StageInv' /\ DropStep
    OBVIOUS
  <1>1. CASE Enter
    <2> DEFINE entered == ShowEnter(show_id, Stage(drift, dal))
    <2>1. OnStage(entered) /\ (show_id = "pulse" => entered.dal = dal)
      BY EnteredOnStage DEF StageInv
    <2>2. /\ drift' = [entered EXCEPT !.dal.radio = "listening"].show
          /\ dal' = [entered EXCEPT !.dal.radio = "listening"].dal
      BY <1>1 DEF Enter, Becomes
    <2>3. entered = [show |-> entered.show, dal |-> entered.dal]
      BY ShowsAssumption DEF StageInv, ShowEnter, DriftEnter, DriftEmits, Stage
    <2> HIDE DEF entered
    <2>4. drift' = entered.show /\ dal' = [entered.dal EXCEPT !.radio = "listening"]
      BY <2>2, <2>3
    <2>5. IsDal(dal') /\ dal'.strip = entered.dal.strip
      BY <2>1, <2>4 DEF OnStage, IsDal
    <2> QED BY <1>1, <2>1, <2>4, <2>5 DEF Enter, OnStage, StageInv, StripReleased, DropStep,
                                          IsDal, IsDrift
  <1>2. CASE PickerBack
    <2>1. dal' = [ShowExit(show_id) EXCEPT !.radio = "idle"] /\ drift' = drift /\ show_id' = show_id
          /\ mode' = "menu"
      BY <1>2 DEF PickerBack
    <2>2. IsDal(dal') /\ dal'.strip = NoWash
      BY <2>1, LeftDark DEF IsDal
    <2> QED BY <2>1, <2>2 DEF StageInv, StripReleased, DropStep, IsDal, IsDrift
  <1>3. CASE PickerConfirm
    <2>1. PICK id \in ShowIds \ {show_id} :
             show_id' = id /\ Becomes(ShowEnter(id, Stage(drift, ShowExit(show_id))))
      BY <1>3 DEF PickerConfirm
    <2> DEFINE entered == ShowEnter(id, Stage(drift, ShowExit(show_id)))
    <2>2. OnStage(entered) /\ (id = "pulse" => entered.dal.strip = NoWash)
      BY LeftDark, EnteredOnStage DEF StageInv
    <2>3. drift' = entered.show /\ dal' = entered.dal
      BY <2>1 DEF Becomes
    <2> HIDE DEF entered
    <2>4. IsDrift(drift') /\ IsDal(dal') /\ (show_id' = "pulse" => dal'.strip = NoWash)
      BY <2>1, <2>2, <2>3 DEF OnStage
    <2>5. show_id' \in ShowIds /\ show_id' # show_id /\ mode' = "director"
      BY <1>3, <2>1 DEF PickerConfirm
    <2> QED BY <2>4, <2>5 DEF StageInv, StripReleased, DropStep, IsDal, IsDrift
  <1> QED BY <1>1, <1>2, <1>3

\* A frame of audio: a beat, then a section if it is new.
LEMMA AudioStays == StageInv /\ AudioFrame => StageInv' /\ DropStep
  <1> SUFFICES ASSUME StageInv, AudioFrame PROVE StageInv' /\ DropStep
    OBVIOUS
  <1>0. IsDal(dal) /\ IsDrift(drift) /\ show_id \in ShowIds
        /\ (show_id = "pulse" => dal.strip = NoWash)
    BY DEF StageInv, StripReleased
  <1>1. mode = "director" /\ mode' = "director" /\ show_id' = show_id
    BY DEF AudioFrame
  <1>2. PICK beat \in BOOLEAN, moved \in BOOLEAN, section \in Sections :
           LET beaten == IF beat THEN ShowBeat(moved) ELSE Stage(drift, dal)
               fresh == ~delivered.yes \/ delivered.section # section
           IN  Becomes(IF fresh THEN ShowSection(beaten, section) ELSE beaten)
    BY Zenon DEF AudioFrame
  <1> DEFINE beaten == IF beat THEN ShowBeat(moved) ELSE Stage(drift, dal)
             told == ShowSection(beaten, section)
  <1>3. Becomes(told) \/ Becomes(beaten)
    BY <1>2
  <1>4. /\ OnStage(beaten) /\ beaten = Stage(beaten.show, beaten.dal)
        /\ show_id = "pulse" => beaten.dal.strip = dal.strip
        /\ show_id = "drift" /\ drift.drop => beaten.show = drift /\ beaten.dal.strip = dal.strip
    <2>1. CASE ~beat
      BY <1>0, <2>1 DEF Stage, OnStage
    <2>2. CASE beat /\ show_id = "drift"
      <3>1. beaten = DriftBeat(drift, dal, paused, moved)
        BY <2>2 DEF ShowBeat
      <3>2. DriftBeat(drift, dal, paused, moved)
                = [show |-> DriftBeat(drift, dal, paused, moved).show,
                   dal |-> DriftBeat(drift, dal, paused, moved).dal]
        BY DEF DriftBeat, DriftPulses, DriftEmits, Stage
      <3> QED BY <1>0, <2>2, <3>1, <3>2, BeatStays DEF Stage
    <2>3. CASE beat /\ show_id = "wash_demo"
      <3>1. beaten = Stage(drift, RenderFx(dal))
        BY <2>3 DEF ShowBeat
      <3> QED BY <1>0, <2>3, <3>1, PulseLeavesStrip DEF Stage, OnStage
    <2>4. CASE beat /\ show_id = "pulse"
      <3>1. beaten = Stage(drift, Pulsed)
        BY <2>4 DEF ShowBeat
      <3> QED BY <1>0, <2>4, <3>1, PulseLeavesStrip DEF Stage, OnStage, Pulsed
    <2> QED BY <1>0, <2>1, <2>2, <2>3, <2>4, ShowsAssumption
  <1> HIDE DEF beaten
  <1>5. /\ OnStage(told)
        /\ show_id = "pulse" => told.dal.strip = dal.strip
        /\ show_id = "drift" /\ drift.drop => told.dal.strip = dal.strip
    <2>1. CASE show_id = "drift"
      <3>1. told = DriftSection(beaten.show, beaten.dal, section)
        BY <2>1 DEF ShowSection
      <3>2. IsDrift(beaten.show) /\ IsDal(beaten.dal)
        BY <1>4 DEF OnStage
      <3>3. OnStage(told) /\ (beaten.show.drop => told.dal.strip = beaten.dal.strip)
        BY <3>1, <3>2, SectionStays
      <3> QED BY <1>4, <2>1, <3>3, Zenon
    <2>2. CASE show_id = "wash_demo"
      <3>1. told = Stage(beaten.show, RenderWash(beaten.dal, 0, DemoWash(section)))
        BY <2>2 DEF ShowSection
      <3> QED BY <1>4, <2>2, <3>1, WashReachesStrip DEF Stage, OnStage
    <2>3. CASE show_id = "pulse"
      BY <1>4, <2>3 DEF ShowSection
    <2> QED BY <1>0, <2>1, <2>2, <2>3, ShowsAssumption
  <1> HIDE DEF told
  <1>6. /\ IsDrift(drift') /\ IsDal(dal')
        /\ show_id = "pulse" => dal'.strip = dal.strip
        /\ show_id = "drift" /\ drift.drop => dal'.strip = dal.strip
    BY <1>3, <1>4, <1>5 DEF Becomes, OnStage
  <1> QED BY <1>0, <1>1, <1>6 DEF StageInv, StripReleased, DropStep, IsDal, IsDrift

\* The buttons that reach the show, and its settings.
LEMMA ButtonsStay ==
    StageInv /\ (ShowInput \/ SettingsConfirm) => StageInv' /\ DropStep
  <1> SUFFICES ASSUME StageInv, ShowInput \/ SettingsConfirm PROVE StageInv' /\ DropStep
    OBVIOUS
  <1>0. IsDal(dal) /\ IsDrift(drift) /\ show_id \in ShowIds
    BY DEF StageInv
  <1>1. mode = "director" /\ mode' = "director" /\ show_id = "drift" /\ show_id' = "drift"
    BY DEF ShowInput, SettingsConfirm
  <1>2. CASE ShowInput
    <2>1. Becomes(DriftConfirm(drift, dal)) \/ Becomes(DriftCycle(drift, dal))
      BY <1>2 DEF ShowInput
    <2>2. IsDrift(drift') /\ IsDal(dal') /\ (dal'.strip.section = "drop" \/ dal' = dal)
      BY <1>0, <2>1, ConfirmShowsDrop DEF Becomes, OnStage
    <2> QED BY <1>0, <1>1, <2>2 DEF StageInv, StripReleased, DropStep, IsDal, IsDrift
  <1>3. CASE SettingsConfirm
    <2>1. IsDrift(drift') /\ IsDal(dal') /\ overlay = "settings"
      BY <1>0, <1>3, EditStays DEF SettingsConfirm, Becomes, OnStage
    <2> QED BY <1>0, <1>1, <2>1 DEF StageInv, StripReleased, DropStep, IsDal, IsDrift
  <1> QED BY <1>2, <1>3

\* The rest leaves the strip's wash, the show and the mode alone.
LEMMA RestStays ==
    StageInv /\ (Listened \/ LoopTick \/ Tick \/ TogglePause \/ ToggleOverlay \/ LumeRestarts
                 \/ UNCHANGED stageVars)
        => StageInv' /\ DropStep
  <1> SUFFICES ASSUME StageInv,
                      Listened \/ LoopTick \/ Tick \/ TogglePause \/ ToggleOverlay
                      \/ LumeRestarts \/ UNCHANGED stageVars
               PROVE  StageInv' /\ DropStep
    OBVIOUS
  <1>0. IsDal(dal) /\ IsDrift(drift) /\ show_id \in ShowIds /\ StripReleased
    BY DEF StageInv
  <1>1. mode' = mode /\ show_id' = show_id
    BY DEF Listened, LoopTick, Tick, TogglePause, ToggleOverlay, LumeRestarts, stageVars
  <1>2. IsDrift(drift')
    <2>1. drift' = drift \/ drift' = [drift EXCEPT !.recompute = TRUE]
      BY DEF Listened, LoopTick, Tick, TogglePause, ToggleOverlay, LumeRestarts, stageVars
    <2> QED BY <1>0, <2>1, DriftKeepsParts, Zenon
  <1>3. IsDal(dal') /\ dal'.strip = dal.strip
    <2>1. CASE Listened
      BY <1>0, <2>1 DEF Listened, IsDal
    <2>2. CASE LoopTick \/ Tick
      BY <1>0, <2>2, RefreshLeavesStrip DEF LoopTick, Tick
    <2>3. CASE LumeRestarts
      <3>1. PICK t \in Targets : dal' = [dal EXCEPT !.fleet[t] = NoWash]
        BY <2>3 DEF LumeRestarts
      <3> QED BY <1>0, <3>1 DEF IsDal
    <2>4. CASE TogglePause \/ ToggleOverlay \/ UNCHANGED stageVars
      BY <1>0, <2>4 DEF TogglePause, ToggleOverlay, stageVars
    <2> QED BY <2>1, <2>2, <2>3, <2>4
  <1> QED BY <1>0, <1>1, <1>2, <1>3 DEF StageInv, StripReleased, DropStep, IsDal, IsDrift

\* Every step keeps the stage, and holds a drop.
LEMMA StageInvStep == StageInv /\ [DirectorNext]_stageVars => StageInv' /\ DropStep
  BY EntriesStay, AudioStays, ButtonsStay, RestStays DEF DirectorNext

\* So the stage is sound for ever.
LEMMA StageInvHolds == DirectorSpec => []StageInv
  <1>1. DirectorInit => StageInv
    BY DEF DirectorInit, StageInv, StripReleased, FreshDal, FreshDrift, IsDal, IsDrift
  <1> QED BY <1>1, StageInvStep, PTL DEF DirectorSpec

\* For every set of targets, shows and palettes: in the menu, and under a show
\* that holds no wash, the Director's own strip is dark, though the radio may
\* have refused the end of the last wash (DirectorMode::exit(),
\* on_picker_confirm(), DAL::render_wash_end()).
THEOREM StripIsReleased == DirectorSpec => []StripReleased
  <1>1. StageInv => StripReleased
    BY DEF StageInv
  <1> QED BY <1>1, StageInvHolds, PTL

\* While a manual drop lasts, its wash stays on the strip through beats,
\* sections and buttons; only an edit of the settings takes it off
\* (BassAndDriftShow::on_beat_detected(), on_section_change()).
THEOREM DropIsHeld == DirectorSpec => DropHeld
  <1>1. StageInv /\ [DirectorNext]_stageVars => [DropStep]_stageVars
    BY StageInvStep
  <1> QED BY <1>1, StageInvHolds, PTL DEF DirectorSpec, DropHeld, DropStep

=============================================================================
