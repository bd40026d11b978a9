------------------------ MODULE ConfigChannel_proofs ------------------------
(***************************************************************************)
(* Proofs about the configuration channel, for any set of Lumes, any ring, *)
(* register and guard sizes: a write goes to the Lume whose settings are   *)
(* shown, a snapshot called good is what the Lume holds, and the channel   *)
(* implements ConfigPromise.                                               *)
(*                                                                         *)
(* None of the three is inductive.  IInv adds what they rest on: which     *)
(* screens belong to which route, so that no write is in the air on a      *)
(* screen of the BLE route (ScreenInv); what an open editor holds          *)
(* (EditInv); that writes in the air are ordered alike by numonce and by   *)
(* number (AirInv); that every answer to the write waited for comes from a *)
(* Lume that took it (WaitInv); that a Lume's replay guard refuses every   *)
(* write no newer than one it took (TakenInv); and what the standing of a  *)
(* write says of register, air and Lume (SnapInv).                         *)
(***************************************************************************)
EXTENDS ConfigChannel, FiniteSetTheorems, TLAPS

-----------------------------------------------------------------------------
(* Types                                                                   *)

Address == Lumes \cup {NoUid}
Shown == Values \cup {Default}
Entries == [uid : Address, secret : Nat, captured_at : Nat, snap : Shown \cup {NoSnapshot}]
Registers == [entries : Seq(Entries), next : Nat]
GuardSlots == [src : {Director, NoUid}, seen : Nat, at : Nat]
Guards == [tick : Nat, slots : [LruIndex -> GuardSlots \cup {Vacant}]]
Edits == [value : Shown, uid : Address, key : Nat, of : Address]
WriteFrames == [type : {"write"}, src : {Director, NoUid}, num : Nat, uid : Address,
                key : Nat, value : Shown, wid : Nat]
AckFrames == [type : {"ack"}, uid : Address, num : Nat]
RingIndex == 0 .. AckRingSize - 1
Waits == [uid : Address, num : Nat, wid : Nat, slot : RingIndex \cup {None}]

RegisterTypes ==
    /\ register \in Registers
    /\ \A i, j \in Places(register) :
          register.entries[i].uid = register.entries[j].uid => i = j
    /\ Len(register.entries) <= RegisterMax
    /\ blob \in {register, EmptyRegister}
    /\ picked \in Nat
    /\ picked = 0 \/ picked < Len(register.entries)

LumeTypes ==
    /\ config \in [Lumes -> Shown]
    /\ secret \in [Lumes -> Nat]
    /\ lru \in [Lumes -> Guards]
    /\ taken \in [Lumes -> Seq(Nat)]
    /\ standing \in [Lumes -> {"unknown", "sent", "good"}]

RadioTypes ==
    /\ air \subseteq WriteFrames \cup AckFrames
    /\ ack_ring \in [RingIndex -> [uid : Address, num : Nat] \cup {None}]
    /\ ack_head \in RingIndex
    /\ stash # None => stash \in [uid : Address, key : Nat]
    /\ wait # None => wait \in Waits
    /\ numonce \in Nat /\ resets \in Nat
    /\ director \in {Director, NoUid}
    /\ issued \in Seq(Address)

Types == RegisterTypes /\ LumeTypes /\ RadioTypes

-----------------------------------------------------------------------------
(* The inductive invariant                                                 *)

\* The screens of the paired route and those of the BLE route.
PairedScreens ==
    {"PairedEmpty", "PairedBrowsing", "PairedEditing", "PairedWriting",
     "PairedUnconfirmed", "CaptureListening", "CaptureCaptured"}
LiveScreens == {"Scanning", "Empty", "Browsing", "Editing"}

\* The CONFIG_WRITEs in the air.
AirWrites == {f \in air : f.type = "write"}

\* A wait blocks its screen; no screen of the BLE route finds a CONFIG_WRITE in
\* the air, the scan having outlasted it.
ScreenInv ==
    /\ wait # None => screen = "PairedWriting"
    /\ screen \in PairedScreens => route
    /\ screen \in LiveScreens \cup {"Top"} => ~route
    /\ screen = "ModeSelect" /\ ~route => ~flash
    /\ ~route /\ screen \notin {"Top", "ModeSelect"} => AirWrites = {}
\* The BLE editor holds what it read of a Lume; the row the paired editor
\* was opened on still shows the same Lume.
EditInv ==
    /\ screen = "Editing" =>
          edited \in Edits /\ edited.of \in Lumes /\ edited.uid \in {edited.of, NoUid}
    /\ screen = "PairedEditing" =>
          /\ register.entries # <<>>
          /\ edited \in Edits
          /\ edited.of = SelectedEntry.uid
    /\ wait # None => edited \in Edits /\ wait.uid = edited.of

\* No numonce in the air or, on this route, in the ring is one not yet drawn;
\* the writes in the air bear this Director's id and are ordered alike by
\* numonce and by number.
AirInv ==
    /\ \A f \in air : f.num <= numonce
    /\ \A f \in AirWrites :
          f.src = director /\ f.wid \in 1 .. Len(issued) /\ issued[f.wid] = f.uid
    /\ \A f, g \in AirWrites : f.wid <= g.wid <=> f.num <= g.num
    /\ route => \A i \in RingIndex : ack_ring[i] # None => ack_ring[i].num <= numonce

\* The writes in a Lume's record, in whatever order.
Took(s) == {s[i] : i \in DOMAIN s}

\* Some Lume has taken write w.
Applied(w) == \E u \in Lumes : w \in Took(taken[u])

\* The write waited for is the latest; whatever answers it comes from a Lume
\* that has taken it, and so does the slot wait_for_ack() has found, though the
\* WiFi task may have written another answer into it since.
WaitInv ==
    wait # None =>
        /\ wait.num = numonce /\ wait.wid = Len(issued) /\ wait.wid > 0
        /\ issued[wait.wid] = wait.uid
        /\ \A f \in AirWrites : f.num = wait.num => f.wid = wait.wid
        /\ \A f \in AirWrites : f.wid = wait.wid => f.value = edited.value
        /\ \A f \in air :
              f.type = "ack" /\ f.num = wait.num /\ f.uid = wait.uid => Applied(wait.wid)
        /\ \A i \in RingIndex : Matches(ack_ring[i]) => Applied(wait.wid)
        /\ wait.slot # None => Applied(wait.wid)

\* A Lume took only writes addressed to it, and refuses those no newer.
TakenInv ==
    \A u \in Lumes : \A w \in Took(taken[u]) :
        /\ w \in 1 .. Len(issued) /\ issued[w] \in {u, NoUid}
        /\ \A f \in AirWrites : f.wid <= w => ~IsFresh(lru[u], director, f.num)

\* A Lume's last write was confirmed: its snapshot is its setting, and no write
\* in the air is news to it.
SnapGood(u) ==
    /\ \A i \in Places(register) :
          LET e == register.entries[i]
          IN  e.uid = u /\ e.snap # NoSnapshot => e.snap = config[u]
    /\ \A f \in AirWrites : f.uid = u => \E w \in Took(taken[u]) : f.wid <= w

\* It is still waited for: the snapshot is what was sent, and once the Lume has
\* taken the write it holds that.
SnapSent ==
    /\ \A i \in Places(register) :
          register.entries[i].uid = wait.uid => register.entries[i].snap = edited.value
    /\ wait.wid \in Took(taken[wait.uid]) => config[wait.uid] = edited.value

SnapInv ==
    /\ \A u \in Lumes : standing[u] = "good" => SnapGood(u)
    /\ wait # None /\ wait.uid \in Lumes /\ standing[wait.uid] = "sent" => SnapSent
-----------------------------------------------------------------------------
(* Records of writes, minima, the menu rows of the register, the replay guard                 *)

\* A record that grows holds the new write besides those it held.
LEMMA TookAppend ==
    ASSUME NEW s \in Seq(Nat), NEW w \in Nat
    PROVE  Took(Append(s, w)) = Took(s) \cup {w}
<1> DEFINE n == Len(s)
           t == Append(s, w)
<1>1. n \in Nat /\ DOMAIN s = 1 .. n /\ DOMAIN t = 1 .. n + 1
  OBVIOUS
<1>2. t[n + 1] = w /\ \A i \in 1 .. n : t[i] = s[i]
  OBVIOUS
<1> HIDE DEF n, t
<1>3. Took(t) \subseteq Took(s) \cup {w}
  <2>1. \A i \in 1 .. n + 1 : i = n + 1 \/ i \in 1 .. n
    BY <1>1
  <2> QED
    BY <1>1, <1>2, <2>1 DEF Took
<1>4. Took(s) \cup {w} \subseteq Took(t)
  <2>1. n + 1 \in 1 .. n + 1 /\ \A i \in 1 .. n : i \in 1 .. n + 1
    BY <1>1
  <2> QED
    BY <1>1, <1>2, <2>1 DEF Took
<1> QED
  BY <1>3, <1>4 DEF t

\* Only numbers of writes are in a record.
LEMMA TookNumbers ==
    ASSUME NEW s \in Seq(Nat)
    PROVE  Took(s) \subseteq Nat
BY DEF Took

\* A fresh Lume has taken nothing.
LEMMA TookNothing == Took(<<>>) = {}
BY DEF Took

\* What a Lume's taking a write does to the records.
LEMMA RecordGrows ==
    ASSUME LumeTypes, NEW u \in Lumes, NEW w \in Nat,
           taken' = [taken EXCEPT ![u] = Append(@, w)]
    PROVE  /\ Took(taken'[u]) = Took(taken[u]) \cup {w}
           /\ \A v \in Lumes \ {u} : taken'[v] = taken[v]
<1>1. taken[u] \in Seq(Nat) /\ taken'[u] = Append(taken[u], w)
  BY DEF LumeTypes
<1>2. Took(taken'[u]) = Took(taken[u]) \cup {w}
  BY <1>1, TookAppend
<1> QED
  BY <1>2 DEF LumeTypes

\* What LeastOf chooses is there.
LEMMA NatSetHasLeast ==
    ASSUME NEW S \in SUBSET Nat, S # {}
    PROVE  \E i \in S : \A j \in S : i <= j
<1>1. PICK i \in S : \A j \in S : <<j, i>> \notin OpToRel(<, Nat)
  BY WFMin, NatLessThanWellFounded, Zenon
<1>2. \A j \in S : ~(j < i)
  BY <1>1, Zenon DEF OpToRel
<1> QED
  BY <1>2

\* Ranks are different numbers below n, so each of them is some entry's.
LEMMA EveryRankIsTaken ==
    ASSUME NEW n \in Nat, NEW at \in [1 .. n -> Nat], NEW k \in 0 .. n - 1
    PROVE  \E i \in 1 .. n :
              k = Cardinality({j \in (1 .. n) \ {i} :
                                  \/ at[j] > at[i]
                                  \/ at[j] = at[i] /\ j < i})
<1> DEFINE N == 1 .. n
           Before(j, i) == \/ at[j] > at[i]
                           \/ at[j] = at[i] /\ j < i
           Above(i) == {j \in N \ {i} : Before(j, i)}
           rank == [i \in N |-> Cardinality(Above(i))]
<1>1. IsFiniteSet(N) /\ Cardinality(N) = n
  BY FS_Interval
<1>2. ASSUME NEW i \in N
      PROVE  IsFiniteSet(Above(i)) /\ Cardinality(Above(i)) \in 0 .. n - 1
  <2>1. Above(i) \in SUBSET (N \ {i})
    OBVIOUS
  <2>2. IsFiniteSet(N \ {i}) /\ Cardinality(N \ {i}) = n - 1
    BY <1>1, FS_RemoveElement
  <2> HIDE DEF N, Above
  <2>3. IsFiniteSet(Above(i)) /\ Cardinality(Above(i)) <= n - 1
    BY <2>1, <2>2, FS_Subset
  <2>4. Cardinality(Above(i)) \in Nat
    BY <2>3, FS_CardinalityType
  <2> QED
    BY <2>3, <2>4
<1>3. ASSUME NEW i \in N, NEW j \in N, Before(i, j)
      PROVE  rank[i] < rank[j]
  <2>1. Above(i) \in SUBSET Above(j) /\ Above(i) # Above(j)
    <3>1. \A l \in Above(i) : Before(l, j) /\ l # j
      BY <1>3
    <3>2. i \in Above(j) /\ i \notin Above(i)
      BY <1>3
    <3> QED
      BY <3>1, <3>2
  <2>2. IsFiniteSet(Above(j)) /\ IsFiniteSet(Above(i))
    BY <1>2
  <2>3. Cardinality(Above(i)) \in Nat /\ Cardinality(Above(j)) \in Nat
    BY <2>2, FS_CardinalityType
  <2>4. rank[i] = Cardinality(Above(i)) /\ rank[j] = Cardinality(Above(j))
    OBVIOUS
  <2> HIDE DEF Above, rank
  <2>5. /\ Cardinality(Above(i)) <= Cardinality(Above(j))
        /\ Cardinality(Above(i)) # Cardinality(Above(j))
    BY <2>1, <2>2, FS_Subset
  <2> QED
    BY <2>3, <2>4, <2>5
<1>4. ASSUME NEW i \in N, NEW j \in N, i # j
      PROVE  rank[i] # rank[j]
  <2>1. Before(i, j) \/ Before(j, i)
    BY <1>4
  <2>2. rank[i] \in 0 .. n - 1 /\ rank[j] \in 0 .. n - 1
    BY <1>2
  <2> HIDE DEF Before, rank
  <2> QED
    BY <1>3, <2>1, <2>2
<1>5. rank \in [N -> 0 .. n - 1]
  BY <1>2
<1> HIDE DEF rank, N
<1>6. rank \in Injection(N, 0 .. n - 1)
  BY <1>4, <1>5 DEF Injection, IsInjective
<1>7. n - 1 \in Int /\ 0 \in Int
  OBVIOUS
<1>8. IsFiniteSet(0 .. n - 1) /\ Cardinality(0 .. n - 1) = n
  <2>1. /\ IsFiniteSet(0 .. n - 1)
        /\ Cardinality(0 .. n - 1) = IF 0 > n - 1 THEN 0 ELSE (n - 1) - 0 + 1
    BY <1>7, FS_Interval, Zenon
  <2> QED
    BY <2>1
<1>9. rank \in Surjection(N, 0 .. n - 1)
  BY <1>1, <1>6, <1>8, FS_Injection
<1>10. PICK i \in N : rank[i] = k
  BY <1>9 DEF Surjection
<1> QED
  BY <1>10 DEF rank, N

\* Each row of the menu shows an entry of the register.
LEMMA NthSortedIsPlace ==
    ASSUME NEW reg \in Registers, NEW k \in Nat, k < Len(reg.entries)
    PROVE  NthSorted(reg, k) \in Places(reg)
<1> DEFINE n == Len(reg.entries)
           at == [i \in 1 .. n |-> reg.entries[i].captured_at]
<1>1. n \in Nat /\ reg.entries \in Seq(Entries)
  BY DEF Registers
<1>2. at \in [1 .. n -> Nat]
  <2>1. \A i \in 1 .. n : reg.entries[i] \in Entries
    BY <1>1
  <2> QED
    BY <2>1 DEF Entries
<1>3. \A i \in 1 .. n : RankAbove(reg, i) =
          Cardinality({j \in (1 .. n) \ {i} :
                          \/ at[j] > at[i]
                          \/ at[j] = at[i] /\ j < i})
  <2> TAKE i \in 1 .. n
  <2>1. {j \in Places(reg) \ {i} :
              \/ reg.entries[j].captured_at > reg.entries[i].captured_at
              \/ reg.entries[j].captured_at = reg.entries[i].captured_at /\ j < i}
        = {j \in (1 .. n) \ {i} :
              \/ at[j] > at[i]
              \/ at[j] = at[i] /\ j < i}
    BY DEF Places
  <2> QED
    BY <2>1 DEF RankAbove
<1>4. k \in 0 .. n - 1
  BY <1>1
<1> HIDE DEF n, at
<1>5. PICK i \in 1 .. n : k = Cardinality({j \in (1 .. n) \ {i} :
                                          \/ at[j] > at[i]
                                          \/ at[j] = at[i] /\ j < i})
  BY <1>1, <1>2, <1>4, EveryRankIsTaken
<1>6. RankAbove(reg, i) = k
  BY <1>3, <1>5
<1> QED
  BY <1>6 DEF NthSorted, Places, n

\* A Director's id, before and after its NVS was cleared.
Senders == {Director, NoUid}

\* LeastOf() picks a member.
LEMMA LeastOfIn ==
    ASSUME NEW S \in SUBSET Nat, S # {}
    PROVE  LeastOf(S) \in S
BY NatSetHasLeast DEF LeastOf

\* The guard always finds a slot for a sender.
LEMMA SlotForIsIndex ==
    ASSUME NEW guard \in Guards, NEW src
    PROVE  SlotFor(guard, src) \in LruIndex
<1> DEFINE idle == {i \in LruIndex : \A j \in LruIndex : guard.slots[i].at <= guard.slots[j].at}
<1>1. LruIndex \in SUBSET Nat /\ 0 \in LruIndex
  BY LruAssumption DEF LruIndex
<1>2. CASE EntryOf(guard, src) # {}
  <2>1. EntryOf(guard, src) \in SUBSET LruIndex
    BY DEF EntryOf
  <2>2. LeastOf(EntryOf(guard, src)) \in EntryOf(guard, src)
    BY <1>1, <1>2, <2>1, LeastOfIn
  <2> QED
    BY <1>2, <2>1, <2>2 DEF SlotFor
<1>3. CASE EntryOf(guard, src) = {} /\ Free(guard) # {}
  <2>1. Free(guard) \in SUBSET LruIndex
    BY DEF Free
  <2>2. LeastOf(Free(guard)) \in Free(guard)
    BY <1>1, <1>3, <2>1, LeastOfIn
  <2> QED
    BY <1>3, <2>1, <2>2 DEF SlotFor
<1>4. CASE EntryOf(guard, src) = {} /\ Free(guard) = {}
  <2>1. \A i \in LruIndex : guard.slots[i] \in GuardSlots
    BY <1>4 DEF Free, Guards
  <2>2. \A i \in LruIndex : guard.slots[i].at \in Nat
    BY <2>1 DEF GuardSlots
  <2> DEFINE ats == {guard.slots[i].at : i \in LruIndex}
  <2>3. ats \in SUBSET Nat /\ ats # {}
    BY <1>1, <2>2
  <2>4. PICK a \in ats : \A b \in ats : a <= b
    BY <2>3, NatSetHasLeast
  <2>5. idle # {}
    BY <2>4
  <2>6. LeastOf(idle) \in idle
    <3>1. idle \in SUBSET Nat
      BY <1>1
    <3> HIDE DEF idle
    <3> QED
      BY <2>5, <3>1, LeastOfIn
  <2> QED
    BY <1>4, <2>6 DEF SlotFor
<1> QED
  BY <1>2, <1>3, <1>4

\* check_and_update() returns a guard.
LEMMA GuardTypes ==
    ASSUME NEW guard \in Guards, NEW src \in Senders, NEW num \in Nat
    PROVE  CheckAndUpdate(guard, src, num) \in Guards
<1>1. [src |-> src, seen |-> num, at |-> guard.tick + 1] \in GuardSlots
  BY DEF Guards, GuardSlots, Senders
<1> DEFINE at == SlotFor(guard, src)
           slot == [src |-> src, seen |-> num, at |-> guard.tick + 1]
           slots == [guard.slots EXCEPT ![at] = slot]
<1>2. slots \in [LruIndex -> GuardSlots \cup {Vacant}]
  <2>1. slot \in GuardSlots \cup {Vacant}
    BY <1>1
  <2>2. guard.slots \in [LruIndex -> GuardSlots \cup {Vacant}]
    BY DEF Guards
  <2> HIDE DEF slot, at
  <2> QED
    BY <2>1, <2>2
<1>4. guard.tick + 1 \in Nat
  BY DEF Guards
<1>3. CheckAndUpdate(guard, src, num) \in {guard, [tick |-> guard.tick + 1, slots |-> slots]}
  BY DEF CheckAndUpdate
<1> HIDE DEF slots
<1> QED
  BY <1>2, <1>3, <1>4 DEF Guards

\* A numonce that was accepted, or one below it, is refused from then on.
LEMMA GuardLearns ==
    ASSUME NEW guard \in Guards, NEW src \in Senders, NEW num \in Nat, IsFresh(guard, src, num),
           NEW old \in Nat, old <= num
    PROVE  ~IsFresh(CheckAndUpdate(guard, src, num), src, old)
<1> DEFINE at == SlotFor(guard, src)
           slot == [src |-> src, seen |-> num, at |-> guard.tick + 1]
           after == CheckAndUpdate(guard, src, num)
<1>1. at \in LruIndex
  BY SlotForIsIndex
<1>2. after.slots = [guard.slots EXCEPT ![at] = slot]
  BY DEF CheckAndUpdate
<1>3. after.slots[at] = slot
  BY <1>1, <1>2 DEF Guards
<1>4. slot # Vacant /\ slot.src = src /\ slot.seen = num
  BY ChannelAssumption DEF Guards, Senders
<1>5. at \in EntryOf(after, src) /\ ~(old > after.slots[at].seen)
  BY <1>1, <1>3, <1>4 DEF EntryOf
<1> QED
  BY <1>5 DEF IsFresh

\* What the guard has refused it goes on refusing.
LEMMA GuardRemembers ==
    ASSUME NEW guard \in Guards, NEW src \in Senders, NEW num \in Nat, NEW old \in Nat,
           ~IsFresh(guard, src, old)
    PROVE  ~IsFresh(CheckAndUpdate(guard, src, num), src, old)
<1>1. CASE ~IsFresh(guard, src, num)
  BY <1>1 DEF CheckAndUpdate
<1>2. CASE IsFresh(guard, src, num)
  <2>1. old = 0 \/ \E i \in EntryOf(guard, src) : ~(old > guard.slots[i].seen)
    BY DEF IsFresh
  <2>2. \A i \in EntryOf(guard, src) : guard.slots[i].seen \in Nat /\ num > guard.slots[i].seen
    <3> TAKE i \in EntryOf(guard, src)
    <3>1. guard.slots[i] \in GuardSlots
      BY DEF EntryOf, Guards
    <3> QED
      BY <1>2, <3>1 DEF IsFresh, GuardSlots
  <2>3. old <= num
    BY <2>1, <2>2
  <2> QED
    BY <1>2, <2>3, GuardLearns
<1> QED
  BY <1>1, <1>2

-----------------------------------------------------------------------------
(* The register                                                            *)

\* No Lume is in the register twice.
DistinctUids(reg) ==
    \A i, j \in Places(reg) : reg.entries[i].uid = reg.entries[j].uid => i = j

\* What the type of a register says of its places.
LEMMA RegisterEntries ==
    ASSUME NEW reg \in Registers
    PROVE  /\ reg.entries \in Seq(Entries) /\ reg.next \in Nat
           /\ Len(reg.entries) \in Nat
           /\ Places(reg) = 1 .. Len(reg.entries) /\ Places(reg) = DOMAIN reg.entries
           /\ \A i \in Places(reg) : reg.entries[i] \in Entries
BY DEF Registers, Places

\* A registered uid is found at its place.
LEMMA PlaceOfIs ==
    ASSUME NEW reg, NEW uid \in Registered(reg)
    PROVE  PlaceOf(reg, uid) \in Places(reg) /\ reg.entries[PlaceOf(reg, uid)].uid = uid
BY DEF Registered, PlaceOf

\* A place is given another entry of the type: one lemma for Add,
\* AddNew and UpdateSnapshot.
LEMMA ReplacedEntry ==
    ASSUME NEW reg \in Registers, NEW at, NEW entry \in Entries, NEW next \in Nat
    PROVE  LET new == [entries |-> [reg.entries EXCEPT ![at] = entry], next |-> next]
           IN  /\ new \in Registers
               /\ Places(new) = Places(reg)
               /\ Len(new.entries) = Len(reg.entries)
               /\ \A i \in Places(reg) : new.entries[i] = IF i = at THEN entry ELSE reg.entries[i]
<1> DEFINE new == [entries |-> [reg.entries EXCEPT ![at] = entry], next |-> next]
<1>1. reg.entries \in Seq(Entries)
  BY DEF Registers
<1>2. /\ new.entries \in Seq(Entries)
      /\ Len(new.entries) = Len(reg.entries)
      /\ \A i \in DOMAIN reg.entries : new.entries[i] = IF i = at THEN entry ELSE reg.entries[i]
  <2> DEFINE s == reg.entries
             t == [s EXCEPT ![at] = entry]
  <2>1. s \in Seq(Entries) /\ Len(s) \in Nat /\ DOMAIN s = 1 .. Len(s)
    BY <1>1
  <2>2. s \in [1 .. Len(s) -> Entries]
    BY <2>1
  <2>3. t \in [1 .. Len(s) -> Entries] /\ DOMAIN t = 1 .. Len(s)
    BY <2>2
  <2>4. \A i \in DOMAIN s : t[i] = IF i = at THEN entry ELSE s[i]
    OBVIOUS
  <2> HIDE DEF s, t
  <2>5. t \in Seq(Entries) /\ Len(t) = Len(s)
    BY <2>1, <2>3
  <2> QED
    BY <2>4, <2>5 DEF s, t
<1>3. new \in Registers
  BY <1>2 DEF Registers
<1> QED
  BY <1>1, <1>2, <1>3 DEF Places

\* add() of a Lume never written to: its entry is new or has lost its
\* snapshot, every other entry was there before, no uid comes twice.
LEMMA AddFresh ==
    ASSUME NEW reg \in Registers, DistinctUids(reg), NEW uid \in Address, NEW key \in Nat
    PROVE  LET new == Add(reg, Fresh(uid, key))
           IN  /\ new \in Registers
               /\ DistinctUids(new)
               /\ Len(new.entries) >= Len(reg.entries)
               /\ Len(reg.entries) <= RegisterMax => Len(new.entries) <= RegisterMax
               /\ \A i \in Places(new) :
                     \/ new.entries[i].uid = uid /\ new.entries[i].snap = NoSnapshot
                     \/ \E j \in Places(reg) : new.entries[i] = reg.entries[j]
<1> DEFINE in == Fresh(uid, key)
           new == Add(reg, in)
<1>1. /\ reg.entries \in Seq(Entries) /\ reg.next \in Nat /\ Len(reg.entries) \in Nat
      /\ Places(reg) = 1 .. Len(reg.entries)
      /\ \A i \in Places(reg) : reg.entries[i] \in Entries
  BY RegisterEntries
<1>2. ASSUME NEW n \in Nat
      PROVE  /\ [in EXCEPT !.captured_at = n] \in Entries
             /\ [in EXCEPT !.captured_at = n].uid = uid
             /\ [in EXCEPT !.captured_at = n].snap = NoSnapshot
  BY DEF Fresh, Entries
<1>3. NextSequence(reg.next) \in Nat
  BY <1>1, RegisterAssumption DEF NextSequence
<1>4. in.uid = uid
  BY DEF Fresh
<1>5. CASE uid \in Registered(reg)
  <2> DEFINE at == PlaceOf(reg, uid)
             entry == [in EXCEPT !.captured_at = reg.entries[at].captured_at]
  <2>1. at \in Places(reg) /\ reg.entries[at].uid = uid
    BY <1>5, PlaceOfIs
  <2>2. reg.entries[at].captured_at \in Nat
    BY <1>1, <2>1 DEF Entries
  <2>3. entry \in Entries /\ entry.uid = uid /\ entry.snap = NoSnapshot
    BY <1>2, <2>2
  <2>4. new = [reg EXCEPT !.entries[at] = entry]
    BY <1>4, <1>5 DEF Add
  <2> HIDE DEF entry, at
  <2>5. new = [entries |-> [reg.entries EXCEPT ![at] = entry], next |-> reg.next]
    BY <2>4 DEF Registers
  <2> HIDE DEF new
  <2>6. /\ new \in Registers /\ Places(new) = Places(reg) /\ Len(new.entries) = Len(reg.entries)
        /\ \A i \in Places(reg) : new.entries[i] = IF i = at THEN entry ELSE reg.entries[i]
    <3>1. reg.next \in Nat
      BY <1>1
    <3> QED
      BY <2>3, <2>5, <3>1, ReplacedEntry
  <2>7. DistinctUids(new)
    BY <2>1, <2>3, <2>6 DEF DistinctUids
  <2>8. Len(new.entries) >= Len(reg.entries)
    BY <1>1, <2>6
  <2> QED
    BY <2>3, <2>6, <2>7, <2>8 DEF new
<1>6. CASE uid \notin Registered(reg)
  <2> DEFINE entry == [in EXCEPT !.captured_at = reg.next]
  <2>1. entry \in Entries /\ entry.uid = uid /\ entry.snap = NoSnapshot
    BY <1>1, <1>2
  <2>2. \A i \in Places(reg) : reg.entries[i].uid # uid
    BY <1>6 DEF Registered
  <2>3. new = AddNew(reg, in)
    BY <1>4, <1>6 DEF Add
  <2>4. CASE Len(reg.entries) < RegisterMax
    <3>1. new = [entries |-> Append(reg.entries, entry), next |-> NextSequence(reg.next)]
      BY <2>3, <2>4 DEF AddNew
    <3> HIDE DEF new, entry
    <3>2. /\ new.entries \in Seq(Entries) /\ Len(new.entries) = Len(reg.entries) + 1
          /\ \A i \in Places(reg) : new.entries[i] = reg.entries[i]
          /\ new.entries[Len(reg.entries) + 1] = entry
      BY <1>1, <2>1, <3>1
    <3>3. new \in Registers
      BY <1>3, <3>1, <3>2 DEF Registers
    <3>4. Places(new) = Places(reg) \cup {Len(reg.entries) + 1}
      BY <1>1, <3>2 DEF Places
    <3>5. DistinctUids(new)
      BY <2>1, <2>2, <3>2, <3>4 DEF DistinctUids
    <3>6. Len(new.entries) >= Len(reg.entries) /\ Len(new.entries) <= RegisterMax
      BY <1>1, <2>4, <3>2, RegisterAssumption
    <3> QED
      BY <2>1, <3>2, <3>3, <3>4, <3>5, <3>6 DEF new
  <2>5. CASE ~(Len(reg.entries) < RegisterMax)
    <3> DEFINE at == Oldest(reg)
    <3>1. new = [entries |-> [reg.entries EXCEPT ![at] = entry], next |-> NextSequence(reg.next)]
      BY <2>3, <2>5 DEF AddNew
    <3> HIDE DEF new, entry, at
    <3>2. /\ new \in Registers /\ Places(new) = Places(reg) /\ Len(new.entries) = Len(reg.entries)
          /\ \A i \in Places(reg) : new.entries[i] = IF i = at THEN entry ELSE reg.entries[i]
      BY <1>3, <2>1, <3>1, ReplacedEntry
    <3>3. DistinctUids(new)
      BY <2>1, <2>2, <3>2 DEF DistinctUids
    <3>4. Len(new.entries) >= Len(reg.entries)
      BY <1>1, <3>2
    <3> QED
      BY <2>1, <3>2, <3>3, <3>4 DEF new
  <2> QED
    BY <2>4, <2>5
<1> QED
  BY <1>5, <1>6

\* update_snapshot(): the entry of uid has the snapshot, nothing else moves.
LEMMA SnapshotUpdated ==
    ASSUME NEW reg \in Registers, DistinctUids(reg), NEW uid, NEW value \in Shown
    PROVE  LET new == UpdateSnapshot(reg, uid, value)
           IN  /\ new \in Registers
               /\ DistinctUids(new)
               /\ Places(new) = Places(reg) /\ Len(new.entries) = Len(reg.entries)
               /\ \A i \in Places(reg) :
                     IF reg.entries[i].uid = uid
                     THEN new.entries[i].uid = uid /\ new.entries[i].snap = value
                     ELSE new.entries[i] = reg.entries[i]
<1> DEFINE new == UpdateSnapshot(reg, uid, value)
           at == PlaceOf(reg, uid)
           entry == [reg.entries[at] EXCEPT !.snap = value]
<1>1. /\ reg.entries \in Seq(Entries) /\ reg.next \in Nat
      /\ \A i \in Places(reg) : reg.entries[i] \in Entries
  BY RegisterEntries
<1>2. CASE uid \in Registered(reg)
  <2>1. at \in Places(reg) /\ reg.entries[at].uid = uid
    BY <1>2, PlaceOfIs
  <2>2. entry \in Entries /\ entry.uid = uid /\ entry.snap = value
    BY <1>1, <2>1 DEF Entries
  <2>3. NextSequence(reg.next) \in Nat
    BY <1>1, RegisterAssumption DEF NextSequence
  <2>4. new = [entries |-> [reg.entries EXCEPT ![at] = entry], next |-> NextSequence(reg.next)]
    BY <1>2 DEF UpdateSnapshot
  <2> HIDE DEF new, entry, at
  <2>5. /\ new \in Registers /\ Places(new) = Places(reg) /\ Len(new.entries) = Len(reg.entries)
        /\ \A i \in Places(reg) : new.entries[i] = IF i = at THEN entry ELSE reg.entries[i]
    BY <2>2, <2>3, <2>4, ReplacedEntry
  <2>6. \A i \in Places(reg) : reg.entries[i].uid = uid <=> i = at
    BY <2>1 DEF DistinctUids
  <2>7. DistinctUids(new)
    BY <2>1, <2>2, <2>5 DEF DistinctUids
  <2> QED
    BY <2>2, <2>5, <2>6, <2>7 DEF new
<1>3. CASE uid \notin Registered(reg)
  <2>1. new = reg
    BY <1>3 DEF UpdateSnapshot
  <2>2. \A i \in Places(reg) : reg.entries[i].uid # uid
    BY <1>3 DEF Registered
  <2> QED
    BY <2>1, <2>2
<1> QED
  BY <1>2, <1>3

-----------------------------------------------------------------------------
(* Which actions move what.                                                *)

USE DEF vars, screenVars, radioVars, registerVars, ackVars, captureVars, identityVars,
        lumeVars, historyVars, airVars, behindScreen

\* The register, in RAM and in NVS, and the row shown of it.
LEMMA RegisterMoves ==
    ASSUME [Next]_vars
    PROVE  \/ UNCHANGED <<register, blob, picked>>
           \/ Enter \/ WriteOverBle \/ ChoosePaired \/ PickNext \/ WritePaired
           \/ CommitCapture \/ ResetDirector \/ RebootDirector
BY DEF Next, Operator, MainTask, WiFiTasks, Faults, Waiting, BackOut, ExitRoute,
       ChooseLiveScan, Rescan, CycleValue, LeavePairedEmpty, OpenPaired, ChooseCapture,
       CaptureCancel, CaptureAnother, ReadOverBle, ListenEnds, FlashEnds, ScanDone,
       CaptureTimeout, AckTaken, AckTimeout, AckFound, AckArrives, ReceiveWrite,
       UidAnnounced, ResetLume, RebootLume

\* The Lumes, and what became of the last write to each.
LEMMA LumesMove ==
    ASSUME [Next]_vars
    PROVE  \/ UNCHANGED <<config, secret, lru, taken, standing>>
           \/ WriteOverBle \/ WritePaired \/ AckTaken
           \/ \E u \in Lumes : ResetLume(u) \/ RebootLume(u) \/ \E f \in air : ReceiveWrite(u, f)
BY DEF Next, Operator, MainTask, WiFiTasks, Faults, Waiting, Enter, BackOut, ExitRoute,
       ChooseLiveScan, Rescan, CycleValue, ChoosePaired, LeavePairedEmpty, PickNext,
       OpenPaired, ChooseCapture, CaptureCancel, CaptureAnother, ReadOverBle, ListenEnds,
       FlashEnds, ScanDone, CommitCapture, CaptureTimeout, AckTimeout, AckFound,
       AckArrives, UidAnnounced, ResetDirector, RebootDirector

\* The radio: frames in the air, the acknowledgement ring, the wait and the
\* counters behind it.
LEMMA RadioMoves ==
    ASSUME [Next]_vars
    PROVE  \/ UNCHANGED <<air, ack_ring, ack_head, wait, numonce, director, issued>>
           \/ ChooseLiveScan \/ Rescan \/ ChoosePaired \/ ChooseCapture \/ WritePaired
           \/ AckTaken \/ AckTimeout \/ ResetDirector \/ RebootDirector
           \/ \E i \in DOMAIN ack_ring : AckFound(i)
           \/ \E f \in air : AckArrives(f) \/ \E u \in Lumes : ReceiveWrite(u, f)
           \/ \E u \in Lumes : ResetLume(u) \/ RebootLume(u)
BY DEF Next, Operator, MainTask, WiFiTasks, Faults, Waiting, Enter, BackOut, ExitRoute,
       CycleValue, LeavePairedEmpty, PickNext, OpenPaired, CaptureCancel, CaptureAnother,
       ReadOverBle, ListenEnds, FlashEnds, ScanDone, CommitCapture, CaptureTimeout,
       WriteOverBle, UidAnnounced

\* The stash and the count of resets.
LEMMA StashMoves ==
    ASSUME [Next]_vars
    PROVE  \/ UNCHANGED <<stash, resets>>
           \/ CommitCapture \/ ResetDirector \/ RebootDirector
           \/ \E u \in Lumes : UidAnnounced(u) \/ ResetLume(u) \/ RebootLume(u)
BY DEF Next, Operator, MainTask, WiFiTasks, Faults, Waiting, Enter, BackOut, ExitRoute,
       CycleValue, LeavePairedEmpty, PickNext, OpenPaired, CaptureCancel, CaptureAnother,
       ReadOverBle, ListenEnds, FlashEnds, ScanDone, CaptureTimeout, ChooseLiveScan, Rescan,
       ChoosePaired, ChooseCapture, WritePaired, AckTaken, AckTimeout, AckFound,
       AckArrives, ReceiveWrite, WriteOverBle

-----------------------------------------------------------------------------
(* The initial states                                                      *)

IInv ==
    /\ Types
    /\ ScreenInv
    /\ EditInv
    /\ AirInv
    /\ WaitInv
    /\ TakenInv
    /\ SnapInv

\* The register of a new Director.
LEMMA EmptyRegisterIs ==
    EmptyRegister \in Registers /\ DistinctUids(EmptyRegister) /\ Places(EmptyRegister) = {}
<1>1. <<>> \in Seq(Entries) /\ Len(<<>>) = 0
  OBVIOUS
<1>2. Places(EmptyRegister) = {}
  BY DEF Places, EmptyRegister
<1> QED
  BY <1>1, <1>2 DEF Registers, EmptyRegister, DistinctUids

\* Cycling a field stays within its menu.
LEMMA MenuTypes ==
    /\ Settings[1] \in Shown
    /\ \A v : NextSetting(v) \in Shown
<1>1. Settings # <<>> /\ Settings \in Seq(Values) /\ Len(Settings) \in Nat
  BY ChannelAssumption DEF Values
<1>2. Len(Settings) > 0 /\ DOMAIN Settings = 1 .. Len(Settings)
  BY <1>1
<1>3. Settings[1] \in Values
  BY <1>2 DEF Values
<1>4. ASSUME NEW v PROVE NextSetting(v) \in Values
  <2> DEFINE at == {i \in DOMAIN Settings : Settings[i] = v}
             place == CHOOSE i \in at : TRUE
  <2>1. CASE at = {}
    BY <1>3, <2>1 DEF NextSetting
  <2>2. CASE at # {}
    <3>1. place \in DOMAIN Settings
      BY <2>2
    <3> HIDE DEF place
    <3>2. (place % Len(Settings)) + 1 \in DOMAIN Settings
      BY <1>1, <1>2, <3>1
    <3>3. NextSetting(v) = Settings[(place % Len(Settings)) + 1]
      BY <2>2 DEF NextSetting, place
    <3> QED
      BY <3>2, <3>3 DEF Values
  <2> QED
    BY <2>1, <2>2
<1> QED
  BY <1>3, <1>4 DEF Shown

\* The initial states.
LEMMA InitHolds ==
    ASSUME Init
    PROVE  IInv
<1>1. RegisterTypes
  <2>1. Len(EmptyRegister.entries) = 0
    BY DEF EmptyRegister
  <2> QED
    BY <2>1, EmptyRegisterIs, RegisterAssumption DEF Init, RegisterTypes, DistinctUids
<1>2. EmptyLru \in Guards
  BY DEF EmptyLru, Guards
<1>3. LumeTypes
  BY <1>2, MenuTypes DEF Init, LumeTypes
<1>4. RadioTypes
  BY ChannelAssumption DEF Init, RadioTypes, EmptyRing, RingIndex
<1>5. ScreenInv /\ EditInv /\ AirInv /\ WaitInv
  BY ChannelAssumption DEF Init, ScreenInv, EditInv, AirInv, WaitInv, AirWrites, PairedScreens,
     LiveScreens
<1>6. TakenInv /\ SnapInv
  BY TookNothing DEF Init, TakenInv, SnapInv
<1> QED
  BY <1>1, <1>3, <1>4, <1>5, <1>6 DEF IInv, Types

-----------------------------------------------------------------------------
(* Types are kept                                                          *)

\* The row the operator has picked shows an entry.
LEMMA PickedIsPlace ==
    ASSUME RegisterTypes, register.entries # <<>>
    PROVE  NthSorted(register, picked) \in Places(register)
<1>1. Len(register.entries) \in Nat /\ register.entries \in Seq(Entries)
  BY DEF RegisterTypes, Registers
<1>2. Len(register.entries) > 0
  BY <1>1
<1> QED
  BY <1>1, <1>2, NthSortedIsPlace DEF RegisterTypes

\* ... and so Write resolves it to an entry of the register.
LEMMA SelectedIsEntry ==
    ASSUME RegisterTypes, register.entries # <<>>
    PROVE  /\ SelectedEntry \in Entries
           /\ SelectedEntry.uid \in Address /\ SelectedEntry.secret \in Nat
           /\ \E i \in Places(register) : SelectedEntry = register.entries[i]
<1>1. NthSorted(register, picked) \in Places(register)
  BY PickedIsPlace
<1>2. \A i \in Places(register) : register.entries[i] \in Entries
  BY RegisterEntries DEF RegisterTypes
<1>3. SelectedEntry \in Entries /\ \E i \in Places(register) : SelectedEntry = register.entries[i]
  BY <1>1, <1>2 DEF SelectedEntry
<1> QED
  BY <1>3 DEF Entries

\* The register, in RAM and in NVS, keeps its type, its size and distinct uids;
\* the row stays within it.
LEMMA RegisterTypesKept ==
    ASSUME IInv, [Next]_vars
    PROVE  RegisterTypes'
<1> USE DEF IInv, Types, RegisterTypes
<1>0. DistinctUids(register) /\ register \in Registers /\ Len(register.entries) \in Nat
  BY RegisterEntries DEF DistinctUids
<1>1. CASE UNCHANGED <<register, blob, picked>>
  BY <1>1 DEF Places
<1>2. CASE Enter
  BY <1>2 DEF Enter, Places
<1>3. CASE WriteOverBle
  <2>1. CASE UNCHANGED registerVars
    BY <1>3, <2>1 DEF WriteOverBle, Places
  <2>2. CASE WroteOverBle /\ edited.uid # NoUid
    <3> DEFINE added == Add(register, Fresh(edited.uid, edited.key))
               new == UpdateSnapshot(added, edited.uid, edited.value)
    <3>1. edited.uid \in Address /\ edited.key \in Nat /\ edited.value \in Shown
      BY <1>3 DEF WriteOverBle, EditInv, Edits
    <3>2. /\ added \in Registers /\ DistinctUids(added)
          /\ Len(added.entries) >= Len(register.entries) /\ Len(added.entries) <= RegisterMax
      BY <1>0, <3>1, AddFresh
    <3> HIDE DEF added
    <3>3. new \in Registers /\ DistinctUids(new) /\ Len(new.entries) = Len(added.entries)
      BY <3>1, <3>2, SnapshotUpdated
    <3>4. register' = new /\ blob' = new /\ picked' = picked
      BY <1>3, <2>2 DEF WriteOverBle, WroteOverBle, Save, added
    <3>5. Len(added.entries) \in Nat
      BY <3>2, RegisterEntries
    <3> HIDE DEF new
    <3> QED
      BY <1>0, <3>2, <3>3, <3>4, <3>5 DEF DistinctUids
  <2> QED
    BY <1>3, <2>1, <2>2 DEF WriteOverBle, WroteOverBle, FailedOverBle
<1>4. CASE ChoosePaired
  BY <1>4 DEF ChoosePaired, Places
<1>5. CASE PickNext
  <2>1. /\ (picked + 1) % Len(register.entries) \in Nat
        /\ (picked + 1) % Len(register.entries) < Len(register.entries)
    <3> DEFINE n == Len(register.entries)
               k == picked + 1
    <3>1. n \in Nat /\ n > 0 /\ k \in Nat
      BY <1>0, <1>5 DEF PickNext, Registers
    <3> HIDE DEF n, k, IInv, Types, RegisterTypes
    <3>2. k % n \in Nat /\ k % n < n
      BY <3>1
    <3> QED
      BY <3>2 DEF n, k
  <2>2. picked' = (picked + 1) % Len(register.entries) /\ register' = register /\ blob' = blob
    BY <1>5 DEF PickNext
  <2>3. picked' \in Nat /\ picked' < Len(register.entries)
    BY <2>1, <2>2, Zenon
  <2> QED
    BY <2>2, <2>3 DEF Places
<1>6. CASE WritePaired
  <2>1. CASE UNCHANGED registerVars
    BY <1>6, <2>1 DEF WritePaired, Places
  <2>2. CASE SendWrite(SelectedEntry)
    <3> DEFINE new == UpdateSnapshot(register, SelectedEntry.uid, edited.value)
    <3>1. edited.value \in Shown
      BY <1>6 DEF WritePaired, EditInv, Edits
    <3>2. new \in Registers /\ DistinctUids(new) /\ Len(new.entries) = Len(register.entries)
      BY <1>0, <3>1, SnapshotUpdated
    <3>3. register' = new /\ blob' = new /\ picked' = picked
      BY <1>6, <2>2 DEF WritePaired, SendWrite, Save
    <3> HIDE DEF new
    <3> QED
      BY <1>0, <3>2, <3>3 DEF DistinctUids
  <2> QED
    BY <1>6, <2>1, <2>2 DEF WritePaired, SendRefused
<1>7. CASE CommitCapture
  <2> DEFINE new == Add(register, Fresh(stash.uid, stash.key))
  <2>1. stash.uid \in Address /\ stash.key \in Nat
    BY <1>7 DEF CommitCapture, RadioTypes
  <2>2. /\ new \in Registers /\ DistinctUids(new)
        /\ Len(new.entries) >= Len(register.entries) /\ Len(new.entries) <= RegisterMax
    BY <1>0, <2>1, AddFresh
  <2>3. register' = new /\ blob' = new /\ picked' = picked
    BY <1>7 DEF CommitCapture, Save
  <2>4. Len(new.entries) \in Nat
    BY <2>2, RegisterEntries
  <2> HIDE DEF new
  <2> QED
    BY <1>0, <2>2, <2>3, <2>4 DEF DistinctUids
<1>8. CASE ResetDirector
  BY <1>8 DEF ResetDirector, Places
<1>9. CASE RebootDirector
  <2>1. Len(EmptyRegister.entries) = 0
    BY DEF EmptyRegister
  <2>2. blob' = blob /\ register' = blob /\ picked' = 0
    BY <1>9, <2>1, RegisterAssumption DEF RebootDirector, LoadBlob
  <2>3. blob \in Registers /\ DistinctUids(blob) /\ Len(blob.entries) <= RegisterMax
    BY <1>0, <2>1, EmptyRegisterIs, RegisterAssumption
  <2> QED
    BY <2>2, <2>3 DEF DistinctUids
<1> QED
  BY <1>1, <1>2, <1>3, <1>4, <1>5, <1>6, <1>7, <1>8, <1>9, RegisterMoves

\* What the Lumes keep has its type.
LEMMA LumeTypesKept ==
    ASSUME IInv, [Next]_vars
    PROVE  LumeTypes'
<1> USE DEF IInv, Types, LumeTypes
<1>1. CASE UNCHANGED <<config, secret, lru, taken, standing>>
  BY <1>1
<1>2. CASE WriteOverBle
  <2>1. edited.value \in Shown
    BY <1>2 DEF WriteOverBle, EditInv, Edits
  <2> QED
    BY <1>2, <2>1 DEF WriteOverBle, WroteOverBle, FailedOverBle
<1>3. CASE WritePaired
  BY <1>3 DEF WritePaired, SendWrite, SendRefused
<1>4. CASE AckTaken
  BY <1>4 DEF AckTaken
<1>5. ASSUME NEW u \in Lumes, NEW f \in air, ReceiveWrite(u, f)
      PROVE  LumeTypes'
  <2>1. f \in WriteFrames
    BY <1>5 DEF RadioTypes, ReceiveWrite, AckFrames
  <2>2. f.src \in Senders /\ f.num \in Nat /\ f.value \in Shown /\ f.wid \in Nat
    BY <2>1 DEF WriteFrames, Senders
  <2>3. CheckAndUpdate(lru[u], f.src, f.num) \in Guards
    BY <2>2, GuardTypes
  <2>4. lru' \in [Lumes -> Guards] /\ UNCHANGED secret
    BY <1>5, <2>3 DEF ReceiveWrite
  <2>5. \A v \in Lumes : Append(taken[v], f.wid) \in Seq(Nat)
    BY <2>2
  <2>6. taken' \in [Lumes -> Seq(Nat)]
    BY <1>5, <2>5 DEF ReceiveWrite
  <2>7. /\ config' \in [Lumes -> Shown]
        /\ standing' \in [Lumes -> {"unknown", "sent", "good"}]
    BY <1>5, <2>2 DEF ReceiveWrite
  <2> QED
    BY <2>4, <2>6, <2>7
<1>6. ASSUME NEW u \in Lumes, ResetLume(u)
      PROVE  LumeTypes'
  BY <1>6, MenuTypes DEF ResetLume
<1>7. ASSUME NEW u \in Lumes, RebootLume(u)
      PROVE  LumeTypes'
  <2>1. EmptyLru \in Guards
    BY DEF EmptyLru, Guards
  <2> QED
    BY <1>7, <2>1 DEF RebootLume, RadioTypes
<1> QED
  BY <1>1, <1>2, <1>3, <1>4, <1>5, <1>6, <1>7, LumesMove

\* A cleared ring is a ring.
LEMMA RingTypes ==
    /\ EmptyRing \in [RingIndex -> [uid : Address, num : Nat] \cup {None}]
    /\ 0 \in RingIndex
BY ChannelAssumption DEF EmptyRing, RingIndex

\* The frames, the ring, the wait and the counters keep their types.
LEMMA RadioTypesKept ==
    ASSUME IInv, [Next]_vars
    PROVE  RadioTypes'
<1> DEFINE Fields ==
      /\ air \subseteq WriteFrames \cup AckFrames
      /\ ack_ring \in [RingIndex -> [uid : Address, num : Nat] \cup {None}]
      /\ ack_head \in RingIndex
      /\ wait # None => wait \in Waits
      /\ numonce \in Nat
      /\ director \in {Director, NoUid}
      /\ issued \in Seq(Address)
<1> USE DEF IInv, Types, RadioTypes
<1>1. (stash # None => stash \in [uid : Address, key : Nat])' /\ resets' \in Nat
  <2>1. ASSUME NEW u \in Lumes, UidAnnounced(u)
        PROVE  (stash # None => stash \in [uid : Address, key : Nat])' /\ resets' \in Nat
    BY <2>1 DEF UidAnnounced, Uid, Address, LumeTypes
  <2>2. CASE UNCHANGED <<stash, resets>>
    BY <2>2
  <2>3. CASE CommitCapture \/ ResetDirector \/ RebootDirector
    BY <2>3 DEF CommitCapture, ResetDirector, RebootDirector
  <2>4. ASSUME NEW u \in Lumes, ResetLume(u) \/ RebootLume(u)
        PROVE  (stash # None => stash \in [uid : Address, key : Nat])' /\ resets' \in Nat
    BY <2>4 DEF ResetLume, RebootLume
  <2> QED
    BY <2>1, <2>2, <2>3, <2>4, StashMoves
<1> USE DEF IInv, Types, RadioTypes
<1>0. Fields
  OBVIOUS
<1> HIDE DEF IInv, Types, RadioTypes
<1>2. ASSUME UNCHANGED <<air, ack_ring, ack_head, wait, numonce, director, issued>>
      PROVE  Fields'
  BY <1>0, <1>2
<1>3. ASSUME ChooseLiveScan \/ Rescan
      PROVE  Fields'
  BY <1>0, <1>3 DEF ChooseLiveScan, Rescan, Scan
<1>4. ASSUME ChoosePaired \/ ChooseCapture
      PROVE  Fields'
  BY <1>0, <1>4, RingTypes DEF ChoosePaired, ChooseCapture, StartRoute
<1>5. ASSUME WritePaired
      PROVE  Fields'
  <2> DEFINE e == SelectedEntry
             f == WriteFrame(numonce + 1, e.uid, e.secret, edited.value, Len(issued) + 1)
  <2>1. numonce' = numonce + 1 /\ UNCHANGED <<ack_ring, ack_head, director>>
    BY <1>5 DEF WritePaired
  <2>2. ASSUME SendRefused PROVE Fields'
    BY <1>0, <2>1, <2>2 DEF SendRefused
  <2>3. ASSUME SendWrite(e) PROVE Fields'
    <3>1. e.uid \in Address /\ e.secret \in Nat /\ edited.value \in Shown
      BY <1>5, SelectedIsEntry DEF WritePaired, EditInv, Edits, IInv, Types
    <3>2. Len(issued) + 1 \in Nat /\ numonce + 1 \in Nat
      BY <1>0
    <3> HIDE DEF e
    <3>3. f \in WriteFrames
      BY <1>0, <3>1, <3>2 DEF WriteFrame, WriteFrames, Senders
    <3> HIDE DEF f
    <3>4. air' = air \cup {f} /\ issued' = Append(issued, e.uid)
          /\ wait' = [uid |-> e.uid, num |-> numonce + 1, wid |-> Len(issued) + 1, slot |-> None]
      BY <2>3 DEF SendWrite, f
    <3>5. air' \subseteq WriteFrames \cup AckFrames /\ issued' \in Seq(Address) /\ wait' \in Waits
      BY <1>0, <3>1, <3>2, <3>3, <3>4 DEF Waits
    <3> QED
      BY <1>0, <2>1, <3>2, <3>5
  <2> QED
    BY <1>5, <2>2, <2>3 DEF WritePaired
<1>6. ASSUME AckTaken
      PROVE  Fields'
  BY <1>0, <1>6 DEF AckTaken
<1>7. ASSUME AckTimeout
      PROVE  Fields'
  BY <1>0, <1>7 DEF AckTimeout
<1>8. ASSUME NEW i \in DOMAIN ack_ring, AckFound(i)
      PROVE  Fields'
  BY <1>0, <1>8 DEF AckFound, Waits
<1>9. ASSUME NEW f \in air, AckArrives(f)
      PROVE  Fields'
  <2>1. f.uid \in Address /\ f.num \in Nat
    BY <1>0, <1>9 DEF AckArrives, AckFrames, WriteFrames
  <2>2. (ack_head + 1) % AckRingSize \in RingIndex
    BY <1>0, ChannelAssumption DEF RingIndex
  <2> QED
    BY <1>0, <1>9, <2>1, <2>2 DEF AckArrives
<1>10. ASSUME NEW u \in Lumes, NEW f \in air, ReceiveWrite(u, f)
       PROVE  Fields'
  <2>1. AckFrame(Uid(u), f.num) \in AckFrames
    BY <1>0 DEF AckFrames, AckFrame, WriteFrames, Uid, Address
  <2> QED
    BY <1>0, <1>10, <2>1 DEF ReceiveWrite
<1>11. ASSUME ResetDirector \/ RebootDirector
      PROVE  Fields'
  BY <1>0, <1>11, RingTypes DEF ResetDirector, RebootDirector
<1>12. ASSUME NEW u \in Lumes, ResetLume(u) \/ RebootLume(u)
       PROVE  Fields'
  BY <1>0, <1>12 DEF ResetLume, RebootLume
<1>13. Fields'
  <2> HIDE DEF Fields
  <2> QED
    BY <1>2, <1>3, <1>4, <1>5, <1>6, <1>7, <1>8, <1>9, <1>10, <1>11, <1>12, RadioMoves
<1> QED
  BY <1>1, <1>13 DEF RadioTypes

\* Types are kept.
LEMMA TypesKept ==
    ASSUME IInv, [Next]_vars
    PROVE  Types'
BY RegisterTypesKept, LumeTypesKept, RadioTypesKept DEF Types

-----------------------------------------------------------------------------
(* Screens, editors and the frames in the air                              *)

\* Screens change as the menus say, and only the operator and the main task
\* change them.
LEMMA ScreenKept ==
    ASSUME IInv, [Next]_vars
    PROVE  ScreenInv'
<1> USE DEF ScreenInv, PairedScreens, LiveScreens, AirWrites
<1>0. ScreenInv
  BY DEF IInv
<1>1. CASE UNCHANGED vars
  BY <1>0, <1>1
<1>2. CASE Enter \/ BackOut \/ CaptureTimeout \/ CaptureCancel \/ RebootDirector \/ ResetDirector
  BY <1>0, <1>2 DEF Enter, BackOut, ExitRoute, CaptureTimeout, CaptureCancel,
     RebootDirector, ResetDirector, Show
<1>3. CASE \/ ChooseLiveScan \/ Rescan \/ ScanDone \/ ChoosePaired
           \/ ChooseCapture \/ CaptureAnother \/ LeavePairedEmpty
  BY <1>0, <1>3 DEF ChooseLiveScan, Rescan, Scan, ScanDone, ChoosePaired, ChooseCapture,
     CaptureAnother, LeavePairedEmpty, Show
<1>4. CASE WriteOverBle \/ CycleValue \/ PickNext \/ OpenPaired \/ FlashEnds \/ CommitCapture
  BY <1>0, <1>4 DEF WriteOverBle, WroteOverBle, FailedOverBle, Flash, CycleValue, PickNext,
     OpenPaired, FlashEnds, CommitCapture, Show
<1>5. CASE WritePaired
  BY <1>0, <1>5 DEF WritePaired, SendWrite, SendRefused, Show, Flash
<1>6. CASE AckTaken \/ AckTimeout \/ ListenEnds \/ \E i \in DOMAIN ack_ring : AckFound(i)
  BY <1>0, <1>6 DEF AckTaken, AckTimeout, AckFound, ListenEnds, Flash
<1>7. ASSUME NEW u \in Lumes, ReadOverBle(u) \/ UidAnnounced(u) \/ ResetLume(u) \/ RebootLume(u)
      PROVE  ScreenInv'
  BY <1>0, <1>7 DEF ReadOverBle, UidAnnounced, ResetLume, RebootLume, Show, Flash
<1>8. ASSUME NEW f \in air, AckArrives(f) \/ \E u \in Lumes : ReceiveWrite(u, f)
      PROVE  ScreenInv'
  BY <1>0, <1>8 DEF AckArrives, ReceiveWrite, AckFrame
<1> HIDE DEF ScreenInv
<1> QED
  BY <1>1, <1>2, <1>3, <1>4, <1>5, <1>6, <1>7, <1>8
     DEF Next, Operator, MainTask, WiFiTasks, Faults, Waiting

\* An editor is left alone until it is closed: the register changes only on
\* other screens.
LEMMA EditKept ==
    ASSUME IInv, [Next]_vars
    PROVE  EditInv'
<1> USE DEF EditInv
<1>0. ScreenInv /\ EditInv /\ Types
  BY DEF IInv
<1>00. wait # None => screen = "PairedWriting"
  BY <1>0 DEF ScreenInv
<1>1. CASE UNCHANGED <<screen, edited, wait, register, picked>>
  BY <1>0, <1>1 DEF SelectedEntry
<1>2. CASE Enter \/ BackOut \/ CaptureTimeout \/ CaptureCancel \/ RebootDirector \/ ResetDirector
  BY <1>0, <1>00, <1>2 DEF Enter, BackOut, ExitRoute, CaptureTimeout, CaptureCancel,
     RebootDirector, ResetDirector, Show
<1>3. CASE \/ ChooseLiveScan \/ Rescan \/ ScanDone \/ ChoosePaired
           \/ ChooseCapture \/ CaptureAnother \/ LeavePairedEmpty
  BY <1>0, <1>00, <1>3 DEF ChooseLiveScan, Rescan, Scan, ScanDone, ChoosePaired, ChooseCapture,
     CaptureAnother, LeavePairedEmpty, Show
<1>4. CASE WriteOverBle \/ PickNext \/ FlashEnds \/ CommitCapture
  BY <1>0, <1>00, <1>4 DEF WriteOverBle, WroteOverBle, FailedOverBle, Flash, PickNext,
     FlashEnds, CommitCapture, Show
<1>5. CASE CycleValue
  <2>1. edited \in Edits
    BY <1>0, <1>5 DEF CycleValue
  <2>2. edited' \in Edits /\ edited'.of = edited.of /\ edited'.uid = edited.uid
    BY <1>5, <2>1, MenuTypes DEF CycleValue, Edits
  <2> QED
    BY <1>0, <1>00, <1>5, <2>2 DEF CycleValue, SelectedEntry
<1>6. CASE OpenPaired
  <2> DEFINE e == SelectedEntry
  <2>1. e \in Entries
    BY <1>0, <1>6, SelectedIsEntry DEF OpenPaired, Types
  <2>2. /\ edited' = [value |-> IF e.snap = NoSnapshot THEN Default ELSE e.snap,
                      uid |-> NoUid, key |-> 0, of |-> e.uid]
        /\ screen' = "PairedEditing" /\ UNCHANGED <<register, picked, wait>>
        /\ screen = "PairedBrowsing" /\ register.entries # <<>>
    BY <1>6 DEF OpenPaired, SelectedEntry, Show
  <2>3. SelectedEntry' = e
    BY <2>2 DEF SelectedEntry
  <2> HIDE DEF e
  <2>4. edited' \in Edits /\ edited'.of = e.uid
    BY <2>1, <2>2 DEF Edits, Entries, Address, Shown
  <2> QED
    BY <1>0, <1>00, <2>2, <2>3, <2>4
<1>7. CASE WritePaired
  <2>1. CASE SendRefused
    BY <1>0, <1>00, <1>7, <2>1 DEF WritePaired, SendRefused, Flash
  <2>2. CASE SendWrite(SelectedEntry)
    BY <1>0, <1>7, <2>2 DEF WritePaired, SendWrite, Show
  <2> QED
    BY <1>7, <2>1, <2>2 DEF WritePaired
<1>8. CASE AckTaken \/ AckTimeout
  BY <1>0, <1>00, <1>8 DEF AckTaken, AckTimeout, Flash
<1>9. ASSUME NEW i \in DOMAIN ack_ring, AckFound(i)
      PROVE  EditInv'
  BY <1>0, <1>9 DEF AckFound, Types, RadioTypes, Waits, SelectedEntry
<1>10. ASSUME NEW u \in Lumes, ReadOverBle(u)
       PROVE  EditInv'
  <2>1. config[u] \in Shown /\ Uid(u) \in {u, NoUid} /\ secret[u] \in Nat
    BY <1>0 DEF Types, LumeTypes, Uid
  <2>2. u \in Address /\ Uid(u) \in Address
    BY <2>1 DEF Address
  <2> QED
    BY <1>00, <1>0, <1>10, <2>1, <2>2 DEF ReadOverBle, Show, Flash, Edits
<1>11. CASE ListenEnds
  BY <1>0, <1>11 DEF ListenEnds, SelectedEntry
<1>12. ASSUME NEW u \in Lumes, UidAnnounced(u) \/ ResetLume(u) \/ RebootLume(u)
       PROVE  EditInv'
  BY <1>0, <1>12 DEF UidAnnounced, ResetLume, RebootLume, SelectedEntry
<1>13. ASSUME NEW f \in air, AckArrives(f) \/ \E u \in Lumes : ReceiveWrite(u, f)
       PROVE  EditInv'
  BY <1>0, <1>13 DEF AckArrives, ReceiveWrite, SelectedEntry
<1> HIDE DEF EditInv
<1> QED
  BY <1>1, <1>2, <1>3, <1>4, <1>5, <1>6, <1>7, <1>8, <1>9, <1>10, <1>11, <1>12, <1>13
     DEF Next, Operator, MainTask, WiFiTasks, Faults, Waiting

\* Each write takes the next number and the next numonce; a Director whose NVS
\* is cleared begins anew, with nothing in the air.
LEMMA AirKept ==
    ASSUME IInv, [Next]_vars
    PROVE  AirInv'
<1> USE DEF AirInv, AirWrites
<1>0. AirInv /\ RadioTypes
  BY DEF IInv, Types
<1>1. CASE UNCHANGED <<air, ack_ring, numonce, director, issued>> /\ (route' => route)
  BY <1>0, <1>1
<1>2. CASE ChooseLiveScan \/ Rescan \/ AckTimeout
  BY <1>0, <1>2 DEF ChooseLiveScan, Rescan, Scan, AckTimeout
<1>3. CASE ChoosePaired \/ ChooseCapture
  BY <1>0, <1>3 DEF ChoosePaired, ChooseCapture, StartRoute, EmptyRing, RingIndex
<1>4. CASE WritePaired
  <2>1. numonce' = numonce + 1 /\ UNCHANGED <<ack_ring, director, route>>
    BY <1>4 DEF WritePaired
  <2>2. \A f \in air : f.num \in Nat /\ (f.type = "write" => f.wid \in Nat)
    BY <1>0 DEF RadioTypes, WriteFrames, AckFrames
  <2>3. \A i \in RingIndex : ack_ring[i] # None => ack_ring[i].num \in Nat
    BY <1>0 DEF RadioTypes
  <2>4. numonce \in Nat
    BY <1>0 DEF RadioTypes
  <2>5. CASE SendRefused
    <3>1. UNCHANGED <<issued, air>>
      BY <2>5 DEF SendRefused
    <3> QED
      BY <1>0, <2>1, <2>2, <2>3, <2>4, <3>1
  <2>6. CASE SendWrite(SelectedEntry)
    <3> DEFINE e == SelectedEntry
               n == Len(issued) + 1
               g == WriteFrame(numonce + 1, e.uid, e.secret, edited.value, n)
    <3>1. /\ air' = air \cup {g}
          /\ g.type = "write" /\ g.src = director /\ g.num = numonce + 1
          /\ g.uid = e.uid /\ g.wid = n
      BY <2>6 DEF SendWrite, WriteFrame
    <3> HIDE DEF g
    <3>2. issued' = Append(issued, e.uid)
      BY <2>6 DEF SendWrite
    <3>3. /\ Len(issued') = n /\ n \in Nat /\ issued'[n] = e.uid
          /\ \A w \in 1 .. Len(issued) : issued'[w] = issued[w]
      BY <1>0, <3>2 DEF RadioTypes
    <3> HIDE DEF e
    <3>4. \A f \in air' : f.num <= numonce'
      BY <1>0, <2>1, <2>2, <2>4, <3>1
    <3>5. \A f \in air' : f.type = "write" =>
             f.src = director' /\ f.wid \in 1 .. Len(issued') /\ issued'[f.wid] = f.uid
      <4>1. \A f \in air : f.type = "write" =>
             f.src = director' /\ f.wid \in 1 .. Len(issued') /\ issued'[f.wid] = f.uid
        BY <1>0, <2>1, <2>2, <3>3
      <4>2. g.src = director' /\ g.wid \in 1 .. Len(issued') /\ issued'[g.wid] = g.uid
        BY <1>0, <2>1, <3>1, <3>3 DEF RadioTypes
      <4> QED
        BY <3>1, <4>1, <4>2
    <3>6. \A f, h \in AirWrites' : f.wid <= h.wid <=> f.num <= h.num
      <4>1. \A f \in AirWrites : f.num \in Nat /\ f.wid \in Nat /\ f.num < g.num /\ f.wid < g.wid
        BY <1>0, <2>2, <2>4, <3>1, <3>3 DEF RadioTypes
      <4>2. AirWrites' = AirWrites \cup {g}
        BY <3>1
      <4>3. g.num \in Nat /\ g.wid \in Nat
        BY <2>4, <3>1, <3>3
      <4> HIDE DEF AirWrites
      <4> QED
        BY <1>0, <4>1, <4>2, <4>3
    <3> QED
      BY <1>0, <2>1, <2>3, <2>4, <3>4, <3>5, <3>6
  <2> QED
    BY <1>4, <2>5, <2>6 DEF WritePaired
<1>5. CASE AckTaken
  BY <1>0, <1>5 DEF AckTaken, RadioTypes
<1>6. ASSUME NEW f \in air, AckArrives(f)
      PROVE  AirInv'
  BY <1>0, <1>6 DEF AckArrives, RadioTypes, RingIndex
<1>7. ASSUME NEW f \in air, NEW u \in Lumes, ReceiveWrite(u, f)
      PROVE  AirInv'
  BY <1>0, <1>7 DEF ReceiveWrite, AckFrame
<1>8. CASE ResetDirector
  BY <1>0, <1>8 DEF ResetDirector, IInv, ScreenInv, LiveScreens
<1>9. CASE RebootDirector
  BY <1>0, <1>9 DEF RebootDirector
<1>10. ASSUME NEW u \in Lumes, ResetLume(u) \/ RebootLume(u)
       PROVE  AirInv'
  BY <1>0, <1>10 DEF ResetLume, RebootLume
<1>11. ASSUME NEW i \in DOMAIN ack_ring, AckFound(i)
       PROVE  AirInv'
  BY <1>0, <1>11 DEF AckFound
<1>12. (route' => route) \/ ChoosePaired \/ ChooseCapture
  BY DEF Next, Operator, MainTask, WiFiTasks, Faults, Waiting, Enter, BackOut, ExitRoute,
     CycleValue, LeavePairedEmpty, PickNext, OpenPaired, CaptureCancel, CaptureAnother,
     ReadOverBle, ListenEnds, FlashEnds, ScanDone, CommitCapture, CaptureTimeout,
     WriteOverBle, UidAnnounced, ChooseLiveScan, Rescan, WritePaired, AckTaken, AckTimeout,
     AckFound, AckArrives, ReceiveWrite, ResetDirector, RebootDirector, ResetLume, RebootLume
<1> HIDE DEF AirInv
<1> QED
  BY <1>1, <1>2, <1>3, <1>4, <1>5, <1>6, <1>7, <1>8, <1>9, <1>10, <1>11, <1>12, RadioMoves

-----------------------------------------------------------------------------
(* A wait and the write it is for                                          *)

\* While the main task waits, nothing else touches the editor.
LEMMA EditorWaits ==
    ASSUME IInv, [Next]_vars, wait # None
    PROVE  wait' = None \/ UNCHANGED edited
<1>1. screen = "PairedWriting"
  BY DEF IInv, ScreenInv
<1> QED
  BY <1>1 DEF Next, Operator, MainTask, WiFiTasks, Faults, Waiting, Enter, BackOut, ExitRoute,
     CycleValue, LeavePairedEmpty, PickNext, OpenPaired, CaptureCancel, CaptureAnother,
     ReadOverBle, ListenEnds, FlashEnds, ScanDone, CommitCapture, CaptureTimeout,
     WriteOverBle, UidAnnounced, ChooseLiveScan, Rescan, WritePaired, AckTaken, AckTimeout,
     AckFound, AckArrives, ReceiveWrite, ResetDirector, RebootDirector, ResetLume, RebootLume,
     ChoosePaired, ChooseCapture

\* An answer that matches is one of a Lume that took the write.
LEMMA WaitKept ==
    ASSUME IInv, [Next]_vars
    PROVE  WaitInv'
<1> USE DEF WaitInv, AirWrites
<1>0. WaitInv /\ AirInv /\ ScreenInv /\ EditInv /\ RadioTypes /\ LumeTypes /\ TakenInv
  BY DEF IInv, Types
<1>00. wait # None => screen = "PairedWriting"
  BY <1>0 DEF ScreenInv
<1>1. CASE UNCHANGED <<wait, numonce, issued, air, edited, taken, ack_ring>>
  BY <1>0, <1>1 DEF Applied, Matches
\* Where nobody waits, nobody begins to: WritePaired is the only beginning.
<1>2. CASE wait' = None
  BY <1>2
<1>3. CASE WritePaired
  <2>1. CASE SendRefused
    BY <1>00, <1>3, <2>1 DEF WritePaired, SendRefused
  <2>2. CASE SendWrite(SelectedEntry)
    <3> DEFINE e == SelectedEntry
               n == Len(issued) + 1
               g == WriteFrame(numonce + 1, e.uid, e.secret, edited.value, n)
    <3>1. /\ air' = air \cup {g}
          /\ g.type = "write" /\ g.num = numonce + 1
          /\ g.value = edited.value /\ g.wid = n
          /\ issued' = Append(issued, e.uid)
          /\ wait' = [uid |-> e.uid, num |-> numonce + 1, wid |-> n, slot |-> None]
      BY <2>2 DEF SendWrite, WriteFrame
    <3> HIDE DEF g, e
    <3>2. numonce' = numonce + 1 /\ UNCHANGED <<ack_ring, taken, edited>> /\ numonce \in Nat
      BY <1>0, <1>3, <2>2 DEF WritePaired, SendWrite, RadioTypes
    <3>3. Len(issued') = n /\ n \in Nat /\ n > 0 /\ issued'[n] = e.uid
      BY <1>0, <3>1 DEF RadioTypes
    <3>4. wait'.uid = e.uid /\ wait'.num = numonce + 1 /\ wait'.wid = n /\ wait'.slot = None
      BY <3>1
    <3>5. \A f \in air : f.num \in Nat /\ f.num # numonce + 1
      BY <1>0, <3>2 DEF AirInv, RadioTypes, WriteFrames, AckFrames
    <3>6. \A f \in AirWrites : f.wid # n
      BY <1>0 DEF AirInv, RadioTypes
    <3>7. \A i \in RingIndex : ack_ring[i] # None => ack_ring[i].num # numonce + 1
      <4>1. route
        BY <1>0, <1>3 DEF WritePaired, ScreenInv, PairedScreens
      <4>2. \A i \in RingIndex :
               ack_ring[i] # None => ack_ring[i].num \in Nat /\ ack_ring[i].num <= numonce
        BY <1>0, <4>1 DEF AirInv, RadioTypes
      <4> QED
        BY <3>2, <4>2
    <3>8. \A i \in RingIndex : ~Matches(ack_ring[i])'
      BY <3>2, <3>4, <3>7 DEF Matches
    <3> QED
      BY <3>1, <3>2, <3>3, <3>4, <3>5, <3>6, <3>8
  <2> QED
    BY <1>3, <2>1, <2>2 DEF WritePaired
<1>4. ASSUME NEW i \in DOMAIN ack_ring, AckFound(i)
      PROVE  WaitInv'
  <2>1. wait # None /\ wait \in Waits /\ DOMAIN ack_ring = RingIndex
    BY <1>0, <1>4 DEF AckFound, RadioTypes
  <2>2. wait'.uid = wait.uid /\ wait'.num = wait.num /\ wait'.wid = wait.wid
    BY <1>4, <2>1 DEF AckFound, Waits
  <2>3. Applied(wait.wid)
    BY <1>0, <1>4, <2>1 DEF AckFound
  <2> QED
    BY <1>0, <1>4, <2>1, <2>2, <2>3 DEF AckFound, Applied, Matches
<1>5. ASSUME NEW f \in air, AckArrives(f)
      PROVE  WaitInv'
  <2>1. UNCHANGED <<wait, numonce, issued, air, edited, taken>>
    BY <1>5 DEF AckArrives
  <2>2. /\ ack_ring' = [ack_ring EXCEPT ![ack_head] = [uid |-> f.uid, num |-> f.num]]
        /\ f.type = "ack"
    BY <1>5 DEF AckArrives
  <2>3. \A i \in RingIndex : ack_ring'[i] \in {ack_ring[i], [uid |-> f.uid, num |-> f.num]}
    BY <1>0, <2>2 DEF RadioTypes
  <2>4. ASSUME wait # None, NEW i \in RingIndex, Matches(ack_ring[i])'
        PROVE  Applied(wait.wid)
    BY <1>0, <2>1, <2>2, <2>3, <2>4 DEF Matches
  <2> QED
    BY <1>0, <2>1, <2>4 DEF Applied
<1>6. ASSUME NEW u \in Lumes, NEW f \in air, ReceiveWrite(u, f)
      PROVE  WaitInv'
  <2>1. UNCHANGED <<wait, numonce, issued, edited, ack_ring>>
    BY <1>6 DEF ReceiveWrite
  <2>2. CASE UNCHANGED <<taken, air>>
    BY <1>0, <2>1, <2>2 DEF Applied, Matches
  <2>3. CASE /\ taken' = [taken EXCEPT ![u] = Append(@, f.wid)]
             /\ air' = air \cup {AckFrame(Uid(u), f.num)}
    <3>1. AirWrites' = AirWrites /\ f \in AirWrites /\ f.uid = Uid(u)
      BY <1>6, <2>3 DEF AckFrame, ReceiveWrite
    <3>2. Applied(f.wid)' /\ \A w : Applied(w) => Applied(w)'
      <4>1. f.wid \in Nat
        BY <1>0, <3>1 DEF AirInv
      <4> QED
        BY <1>0, <2>3, <4>1, RecordGrows DEF Applied
    <3>3. ASSUME wait # None, NEW g \in air', g.type = "ack", g.num = wait.num, g.uid = wait.uid
          PROVE  Applied(wait.wid)'
      <4>1. CASE g \in air
        BY <1>0, <2>1, <3>2, <3>3, <4>1 DEF Applied
      <4>2. CASE g = AckFrame(Uid(u), f.num)
        <5>1. f.num = wait.num
          BY <3>3, <4>2 DEF AckFrame
        <5>2. f.wid = wait.wid
          BY <1>0, <3>1, <3>3, <5>1
        <5> QED
          BY <2>1, <3>2, <5>2 DEF Applied
      <4> QED
        BY <2>3, <4>1, <4>2
    <3> HIDE DEF AirWrites
    <3> QED
      BY <1>0, <2>1, <3>1, <3>2, <3>3 DEF Matches
  <2> QED
    BY <1>6, <2>2, <2>3 DEF ReceiveWrite
<1>7. CASE AckTaken \/ AckTimeout \/ RebootDirector
  BY <1>7 DEF AckTaken, AckTimeout, RebootDirector
<1>8. CASE wait = None /\ UNCHANGED wait
  BY <1>8
<1>9. ASSUME NEW u \in Lumes, ResetLume(u) \/ RebootLume(u)
      PROVE  WaitInv'
  BY <1>0, <1>9 DEF ResetLume, RebootLume, Applied, Matches
<1>10. CASE ChooseLiveScan \/ Rescan \/ ChoosePaired \/ ChooseCapture \/ ResetDirector
  BY <1>00, <1>10 DEF ChooseLiveScan, Rescan, ChoosePaired, ChooseCapture, ResetDirector, Scan
<1>11. \/ UNCHANGED <<taken>>
       \/ \E u \in Lumes : ResetLume(u) \/ RebootLume(u) \/ \E f \in air : ReceiveWrite(u, f)
  BY LumesMove DEF WriteOverBle, WritePaired, AckTaken
<1>12. wait # None => wait' = None \/ UNCHANGED edited
  BY EditorWaits
<1> HIDE DEF WaitInv
<1> QED
  BY <1>1, <1>2, <1>3, <1>4, <1>5, <1>6, <1>7, <1>8, <1>9, <1>10, <1>11, <1>12, RadioMoves

-----------------------------------------------------------------------------
(* What the Lumes have taken                                               *)

\* A write a Lume accepts is addressed to it and newer than all it took.
LEMMA AcceptedIsNewest ==
    ASSUME IInv, NEW u \in Lumes, NEW f \in air, ReceiveWrite(u, f),
           IsFresh(lru[u], f.src, f.num)
    PROVE  /\ f \in AirWrites /\ f.wid \in 1 .. Len(issued)
           /\ issued[f.wid] \in {u, NoUid}
           /\ \A w \in Took(taken[u]) : w \in Nat /\ w < f.wid
<1>1. AirInv /\ TakenInv /\ LumeTypes /\ RadioTypes
  BY DEF IInv, Types
<1>2. f \in AirWrites /\ f.uid \in {u, NoUid}
  BY DEF ReceiveWrite, AirWrites, Uid
<1>3. f.src = director /\ f.wid \in 1 .. Len(issued) /\ issued[f.wid] = f.uid
  BY <1>1, <1>2 DEF AirInv
<1>4. ASSUME NEW w \in Took(taken[u])
      PROVE  w \in Nat /\ w < f.wid
  <2>1. w \in Nat
    BY <1>1, <1>4, TookNumbers DEF LumeTypes
  <2>2. ~(f.wid <= w)
    BY <1>1, <1>2, <1>3 DEF TakenInv
  <2> QED
    BY <1>3, <2>1, <2>2
<1> QED
  BY <1>2, <1>3, <1>4

\* A Lume that takes a write makes its guard refuse it and all before it.
LEMMA TakenKept ==
    ASSUME IInv, [Next]_vars
    PROVE  TakenInv'
<1> USE DEF TakenInv
<1>0. TakenInv /\ AirInv /\ RadioTypes /\ LumeTypes
  BY DEF IInv, Types
<1>1. CASE UNCHANGED <<taken, issued, lru, director>> /\ AirWrites' \subseteq AirWrites
  BY <1>0, <1>1
<1>2. CASE UNCHANGED <<taken, issued>> /\ AirWrites' = {}
  BY <1>0, <1>2
<1>3. CASE WritePaired
  <2>1. UNCHANGED <<taken, lru, director>>
    BY <1>3 DEF WritePaired
  <2>2. CASE SendRefused
    BY <1>0, <2>1, <2>2 DEF SendRefused, AirWrites
  <2>3. CASE SendWrite(SelectedEntry)
    <3> DEFINE e == SelectedEntry
               n == Len(issued) + 1
               g == WriteFrame(numonce + 1, e.uid, e.secret, edited.value, n)
    <3>1. air' = air \cup {g} /\ g.type = "write" /\ g.wid = n /\ issued' = Append(issued, e.uid)
      BY <2>3 DEF SendWrite, WriteFrame
    <3> HIDE DEF g, e
    <3>2. AirWrites' = AirWrites \cup {g}
      BY <3>1 DEF AirWrites
    <3>3. Len(issued') = n /\ n \in Nat /\ \A w \in 1 .. Len(issued) : issued'[w] = issued[w]
      BY <1>0, <3>1 DEF RadioTypes
    <3>4. \A w \in 1 .. Len(issued) : w \in 1 .. n /\ ~(g.wid <= w)
      BY <1>0, <3>1 DEF RadioTypes
    <3> QED
      BY <1>0, <2>1, <3>2, <3>3, <3>4
  <2> QED
    BY <1>3, <2>2, <2>3 DEF WritePaired
<1>4. ASSUME NEW u \in Lumes, NEW f \in air, ReceiveWrite(u, f)
      PROVE  TakenInv'
  <2>1. /\ UNCHANGED <<issued, director>>
        /\ f \in AirWrites
        /\ lru' = [lru EXCEPT ![u] = CheckAndUpdate(@, f.src, f.num)]
    BY <1>4 DEF ReceiveWrite, AirWrites
  <2>2. AirWrites' = AirWrites
    BY <1>4 DEF ReceiveWrite, AirWrites, AckFrame
  <2>3. \A g \in AirWrites : g.num \in Nat /\ g.wid \in Nat /\ g.src = director
    BY <1>0 DEF RadioTypes, AirInv, WriteFrames, AckFrames, AirWrites
  <2>4. lru[u] \in Guards /\ director \in Senders
    BY <1>0 DEF LumeTypes, RadioTypes, Senders
  <2>5. \A g \in AirWrites :
           ~IsFresh(lru[u], director, g.num) => ~IsFresh(lru'[u], director, g.num)
    <3>1. lru'[u] = CheckAndUpdate(lru[u], director, f.num)
      BY <1>0, <2>1, <2>3 DEF LumeTypes
    <3> QED
      BY <2>1, <2>3, <2>4, <3>1, GuardRemembers
  <2>6. \A v \in Lumes \ {u} : lru'[v] = lru[v] /\ taken'[v] = taken[v]
    BY <1>0, <1>4 DEF ReceiveWrite, LumeTypes
  <2>7. CASE taken' = taken
    BY <1>0, <2>1, <2>2, <2>5, <2>6, <2>7
  <2>8. CASE IsFresh(lru[u], f.src, f.num) /\ taken' = [taken EXCEPT ![u] = Append(@, f.wid)]
    <3>1. Took(taken'[u]) = Took(taken[u]) \cup {f.wid}
      BY <1>0, <2>1, <2>3, <2>8, RecordGrows
    <3>2. f.wid \in 1 .. Len(issued) /\ issued[f.wid] \in {u, NoUid}
      BY <1>4, <2>8, AcceptedIsNewest
    <3>3. ASSUME NEW g \in AirWrites, g.wid <= f.wid
          PROVE  ~IsFresh(lru'[u], director, g.num)
      <4>1. g.num <= f.num
        BY <1>0, <2>1, <3>3 DEF AirInv
      <4>2. lru'[u] = CheckAndUpdate(lru[u], director, f.num)
        BY <1>0, <2>1, <2>3 DEF LumeTypes
      <4> QED
        BY <2>1, <2>3, <2>4, <2>8, <4>1, <4>2, GuardLearns
    <3> QED
      BY <1>0, <2>1, <2>2, <2>5, <2>6, <3>1, <3>2, <3>3
  <2> QED
    BY <1>4, <2>7, <2>8 DEF ReceiveWrite
<1>5. CASE ChooseLiveScan \/ Rescan \/ ResetDirector \/ RebootDirector
  BY <1>2, <1>5 DEF ChooseLiveScan, Rescan, Scan, ResetDirector, RebootDirector, AirWrites
<1>6. CASE AckTimeout \/ ChoosePaired \/ ChooseCapture \/ AckTaken
  BY <1>1, <1>6 DEF AckTimeout, ChoosePaired, ChooseCapture, StartRoute, AckTaken, AirWrites
<1>7. ASSUME NEW u \in Lumes, ResetLume(u) \/ RebootLume(u)
      PROVE  TakenInv'
  BY <1>2, <1>7 DEF ResetLume, RebootLume, AirWrites
<1>8. ASSUME NEW f \in air, AckArrives(f)
      PROVE  TakenInv'
  BY <1>1, <1>8 DEF AckArrives, AirWrites
<1>9. ASSUME NEW i \in DOMAIN ack_ring, AckFound(i)
      PROVE  TakenInv'
  BY <1>1, <1>9 DEF AckFound, AirWrites
<1>10. CASE WriteOverBle
  BY <1>1, <1>10 DEF WriteOverBle, AirWrites
<1>11. UNCHANGED air => AirWrites' \subseteq AirWrites
  BY DEF AirWrites
<1> HIDE DEF TakenInv
<1> QED
  BY <1>1, <1>3, <1>4, <1>5, <1>6, <1>7, <1>8, <1>9, <1>10, <1>11, RadioMoves, LumesMove

-----------------------------------------------------------------------------
(* Snapshots and what the Lumes hold                                       *)

\* Snapshots follow what the Lumes hold.
LEMMA SnapKept ==
    ASSUME IInv, [Next]_vars
    PROVE  SnapInv'
<1> USE DEF SnapInv, SnapGood, SnapSent
<1>0. /\ SnapInv /\ WaitInv /\ AirInv /\ EditInv /\ ScreenInv /\ TakenInv
      /\ RegisterTypes /\ RadioTypes /\ LumeTypes
  BY DEF IInv, Types
<1>00. wait # None => screen = "PairedWriting"
  BY <1>0 DEF ScreenInv
<1>01. register \in Registers /\ DistinctUids(register)
  BY <1>0 DEF RegisterTypes, DistinctUids
<1>1. CASE /\ UNCHANGED <<register, config, taken, standing>>
           /\ AirWrites' \subseteq AirWrites
           /\ wait' = None \/ UNCHANGED wait
  <2>1. wait # None => wait' = None \/ UNCHANGED edited
    BY EditorWaits
  <2> QED
    BY <1>0, <1>1, <2>1 DEF Places
<1>2. CASE WriteOverBle
  <2>1. wait = None /\ UNCHANGED <<wait, taken, air>> /\ AirWrites = {} /\ edited \in Edits
        /\ edited.of \in Lumes /\ edited.uid \in {edited.of, NoUid}
    BY <1>0, <1>00, <1>2 DEF WriteOverBle, ScreenInv, EditInv, LiveScreens
  <2>2. AirWrites' = {}
    BY <2>1 DEF AirWrites
  <2>3. CASE UNCHANGED register /\ standing' = [standing EXCEPT ![edited.of] = "unknown"]
             /\ config' \in {config, [config EXCEPT ![edited.of] = edited.value]}
    BY <1>0, <2>1, <2>2, <2>3 DEF LumeTypes, Places
  <2>4. CASE WroteOverBle /\ edited.uid # NoUid
    <3> DEFINE added == Add(register, Fresh(edited.uid, edited.key))
               new == UpdateSnapshot(added, edited.uid, edited.value)
    <3>1. /\ edited.uid \in Address /\ edited.uid = edited.of
          /\ edited.key \in Nat /\ edited.value \in Shown
      BY <2>1, <2>4 DEF Edits
    <3>2. /\ added \in Registers /\ DistinctUids(added)
          /\ \A i \in Places(added) :
                \/ added.entries[i].uid = edited.of
                \/ \E j \in Places(register) : added.entries[i] = register.entries[j]
      BY <1>01, <3>1, AddFresh
    <3> HIDE DEF added
    <3>3. /\ Places(new) = Places(added)
          /\ \A i \in Places(added) :
                IF added.entries[i].uid = edited.of
                THEN new.entries[i].uid = edited.of /\ new.entries[i].snap = edited.value
                ELSE new.entries[i] = added.entries[i]
      BY <3>1, <3>2, SnapshotUpdated
    <3> HIDE DEF new
    <3>4. register' = new
      BY <2>4 DEF WroteOverBle, Save, new, added
    <3>5. standing' = [standing EXCEPT ![edited.of] = "good"]
          /\ config' = [config EXCEPT ![edited.of] = edited.value]
      BY <2>4 DEF WroteOverBle
    <3>6. Places(register)' = Places(new)
      BY <3>4 DEF Places
    <3>7. \A i \in Places(register)' :
             LET e == register'.entries[i]
             IN  \/ e.uid = edited.of /\ e.snap = edited.value
                 \/ e.uid # edited.of /\ \E j \in Places(register) : e = register.entries[j]
      BY <3>2, <3>3, <3>4, <3>6
    <3>8. \A v \in Lumes : config'[v] = IF v = edited.of THEN edited.value ELSE config[v]
      BY <1>0, <3>5 DEF LumeTypes
    <3>9. \A v \in Lumes \ {edited.of} : (standing[v] = "good")' => standing[v] = "good"
      BY <1>0, <3>5 DEF LumeTypes
    <3>10. ASSUME NEW v \in Lumes, (standing[v] = "good")'
           PROVE  SnapGood(v)'
      <4>1. v = edited.of \/ SnapGood(v)
        BY <1>0, <3>9, <3>10
      <4> QED
        BY <2>2, <3>7, <3>8, <4>1
    <3> QED
      BY <2>1, <3>10
  <2> QED
    BY <1>2, <2>3, <2>4 DEF WriteOverBle, WroteOverBle, FailedOverBle
<1>3. CASE WritePaired
  <2>1. UNCHANGED <<taken, config>>
    BY <1>3 DEF WritePaired
  <2>2. CASE SendRefused
    BY <1>0, <1>00, <1>1, <1>3, <2>1, <2>2 DEF WritePaired, SendRefused, AirWrites
  <2>3. CASE SendWrite(SelectedEntry)
    <3> DEFINE e == SelectedEntry
               n == Len(issued) + 1
               g == WriteFrame(numonce + 1, e.uid, e.secret, edited.value, n)
               new == UpdateSnapshot(register, e.uid, edited.value)
    <3>1. /\ air' = air \cup {g} /\ g.type = "write" /\ g.uid = e.uid
          /\ wait' = [uid |-> e.uid, num |-> numonce + 1, wid |-> n, slot |-> None]
          /\ standing' = [u \in Lumes |-> IF u = e.uid THEN "sent" ELSE standing[u]]
          /\ register' = new /\ UNCHANGED edited
      BY <2>3 DEF SendWrite, WriteFrame, Save
    <3>2. edited.value \in Shown
      BY <1>0, <1>3 DEF WritePaired, EditInv, Edits
    <3> HIDE DEF g, e
    <3>3. /\ Places(new) = Places(register)
          /\ \A i \in Places(register) :
                IF register.entries[i].uid = e.uid
                THEN new.entries[i].uid = e.uid /\ new.entries[i].snap = edited.value
                ELSE new.entries[i] = register.entries[i]
      BY <1>01, <3>2, SnapshotUpdated
    <3> HIDE DEF new
    <3>4. Places(register)' = Places(register)
      BY <3>1, <3>3 DEF Places
    <3>5. AirWrites' = AirWrites \cup {g}
      BY <3>1 DEF AirWrites
    <3>6. ASSUME NEW u \in Lumes, (standing[u] = "good")'
          PROVE  SnapGood(u)'
      <4>1. u # e.uid /\ standing[u] = "good"
        BY <3>1, <3>6
      <4> QED
        BY <1>0, <2>1, <3>1, <3>3, <3>4, <3>5, <4>1
    <3>7. ASSUME wait'.uid \in Lumes
          PROVE  SnapSent'
      <4>1. wait'.uid = e.uid /\ wait'.wid = n
        BY <3>1
      <4>2. \A u \in Lumes : n \notin Took(taken[u])
        BY <1>0 DEF TakenInv, RadioTypes
      <4> QED
        BY <2>1, <3>1, <3>3, <3>4, <3>7, <4>1, <4>2
    <3> QED
      BY <3>6, <3>7
  <2> QED
    BY <1>3, <2>2, <2>3 DEF WritePaired
<1>4. CASE AckTaken
  <2>1. wait # None /\ wait' = None /\ UNCHANGED <<register, config, taken, air>>
        /\ standing' = [u \in Lumes |-> IF u = wait.uid /\ standing[u] = "sent"
                                        THEN "good" ELSE standing[u]]
    BY <1>4 DEF AckTaken
  <2>2. AirWrites' = AirWrites
    BY <2>1 DEF AirWrites
  <2>3. ASSUME wait.uid \in Lumes, standing[wait.uid] = "sent"
        PROVE  SnapGood(wait.uid)
    <3>1. SnapSent
      BY <1>0, <2>1, <2>3
    <3>2. wait.wid \in Took(taken[wait.uid])
      <4>1. PICK u \in Lumes : wait.wid \in Took(taken[u])
        BY <1>0, <1>4 DEF WaitInv, AckTaken, Applied
      <4>2. issued[wait.wid] = wait.uid /\ issued[wait.wid] \in {u, NoUid}
        BY <1>0, <2>1, <4>1 DEF WaitInv, TakenInv
      <4> QED
        BY <2>3, <4>1, <4>2, ChannelAssumption
    <3>3. \A f \in AirWrites : f.wid <= wait.wid
      BY <1>0, <2>1 DEF AirInv, WaitInv
    <3> QED
      BY <3>1, <3>2, <3>3
  <2>4. ASSUME NEW u \in Lumes, (standing[u] = "good")'
        PROVE  SnapGood(u)
    BY <1>0, <2>1, <2>3, <2>4
  <2> QED
    BY <2>1, <2>2, <2>4 DEF Places
<1>5. CASE CommitCapture
  <2> DEFINE new == Add(register, Fresh(stash.uid, stash.key))
  <2>1. stash.uid \in Address /\ stash.key \in Nat
    BY <1>0, <1>5 DEF CommitCapture, RadioTypes
  <2>2. \A i \in Places(new) :
           \/ new.entries[i].snap = NoSnapshot
           \/ \E j \in Places(register) : new.entries[i] = register.entries[j]
    BY <1>01, <2>1, AddFresh
  <2> HIDE DEF new
  <2>3. register' = new /\ Places(register)' = Places(new)
    BY <1>5 DEF CommitCapture, Save, new, Places
  <2>4. wait = None /\ UNCHANGED <<wait, config, taken, standing, air>> /\ AirWrites' = AirWrites
    BY <1>00, <1>5 DEF CommitCapture, AirWrites
  <2> QED
    BY <1>0, <2>2, <2>3, <2>4
<1>6. ASSUME NEW u \in Lumes, NEW f \in air, ReceiveWrite(u, f)
      PROVE  SnapInv'
  <2>1. UNCHANGED <<register, wait, edited, issued>> /\ AirWrites' = AirWrites
    BY <1>6 DEF ReceiveWrite, AirWrites, AckFrame
  <2>2. Places(register)' = Places(register)
    BY <2>1 DEF Places
  <2>3. CASE UNCHANGED <<config, taken, standing>>
    BY <1>1, <2>1, <2>3
  <2>4. CASE /\ IsFresh(lru[u], f.src, f.num)
             /\ config' = [config EXCEPT ![u] = f.value]
             /\ taken' = [taken EXCEPT ![u] = Append(@, f.wid)]
             /\ standing' = IF f.uid = u THEN standing ELSE [standing EXCEPT ![u] = "unknown"]
    <3>1. /\ f \in AirWrites /\ f.wid \in 1 .. Len(issued)
          /\ \A w \in Took(taken[u]) : w \in Nat /\ w < f.wid
      BY <1>6, <2>4, AcceptedIsNewest
    <3>2. standing'[u] # "good"
      <4>1. CASE f.uid = u
        <5>1. ASSUME standing[u] = "good" PROVE FALSE
          <6>1. PICK w \in Took(taken[u]) : f.wid <= w
            BY <1>0, <3>1, <4>1, <5>1
          <6> QED
            BY <3>1, <6>1
        <5> QED
          BY <2>4, <4>1, <5>1
      <4>2. CASE f.uid # u
        BY <1>0, <2>4, <4>2 DEF LumeTypes
      <4> QED
        BY <4>1, <4>2
    <3>3. \A v \in Lumes \ {u} :
             config'[v] = config[v] /\ taken'[v] = taken[v] /\ standing'[v] = standing[v]
      BY <1>0, <2>4 DEF LumeTypes
    <3>4. config'[u] = f.value /\ Took(taken'[u]) = Took(taken[u]) \cup {f.wid}
      <4>1. f.wid \in Nat
        BY <3>1
      <4> QED
        BY <1>0, <2>4, <4>1, RecordGrows DEF LumeTypes
    <3>5. \A v \in Lumes : (standing[v] = "good")' => SnapGood(v)'
      BY <1>0, <2>1, <2>2, <3>2, <3>3
    <3>6. ASSUME (wait # None /\ wait.uid \in Lumes /\ standing[wait.uid] = "sent")'
          PROVE  SnapSent'
      <4>1. CASE wait.uid # u
        BY <1>0, <2>1, <2>2, <3>3, <3>6, <4>1
      <4>2. CASE wait.uid = u
        <5>1. standing[u] = "sent"
          BY <1>0, <2>1, <2>4, <3>6, <4>2 DEF LumeTypes
        <5>2. SnapSent
          BY <1>0, <2>1, <3>6, <4>2, <5>1
        <5>3. wait.wid = Len(issued) /\ (f.wid = wait.wid => f.value = edited.value)
          BY <1>0, <2>1, <3>1, <3>6 DEF WaitInv
        <5>4. wait.wid \notin Took(taken[u])
          BY <3>1, <5>3
        <5> QED
          BY <2>1, <2>2, <3>4, <4>2, <5>2, <5>3, <5>4
      <4> QED
        BY <4>1, <4>2
    <3> QED
      BY <3>5, <3>6
  <2> QED
    BY <1>6, <2>3, <2>4 DEF ReceiveWrite
<1>7. ASSUME NEW u \in Lumes, ResetLume(u)
      PROVE  SnapInv'
  <2>1. /\ UNCHANGED <<register, wait, edited, taken>> /\ AirWrites' = {}
        /\ config' = [config EXCEPT ![u] = Settings[1]]
        /\ standing' = [standing EXCEPT ![u] = "unknown"]
    BY <1>7 DEF ResetLume, AirWrites
  <2>2. \A v \in Lumes \ {u} : config'[v] = config[v] /\ standing'[v] = standing[v]
    BY <1>0, <2>1 DEF LumeTypes
  <2>3. standing'[u] = "unknown"
    BY <1>0, <2>1 DEF LumeTypes
  <2>4. ASSUME NEW v \in Lumes, (standing[v] = "good")'
        PROVE  SnapGood(v)'
    BY <1>0, <2>1, <2>2, <2>3, <2>4 DEF Places
  <2>5. ASSUME (wait # None /\ wait.uid \in Lumes /\ standing[wait.uid] = "sent")'
        PROVE  SnapSent'
    BY <1>0, <2>1, <2>2, <2>3, <2>5 DEF Places
  <2> QED
    BY <2>4, <2>5
<1>8. CASE RebootDirector
  <2>1. wait' = None /\ AirWrites' = {} /\ UNCHANGED <<config, taken, standing>>
    BY <1>8 DEF RebootDirector, AirWrites
  <2>2. register' \in {register, EmptyRegister}
    BY <1>0, <1>8 DEF RebootDirector, LoadBlob, RegisterTypes
  <2> QED
    BY <1>0, <2>1, <2>2, EmptyRegisterIs DEF Places
<1>9. ASSUME NEW u \in Lumes, RebootLume(u)
      PROVE  SnapInv'
  BY <1>1, <1>9 DEF RebootLume, AirWrites
<1>10. CASE ChooseLiveScan \/ Rescan \/ AckTimeout \/ ResetDirector
  BY <1>1, <1>10 DEF ChooseLiveScan, Rescan, Scan, AckTimeout, ResetDirector, AirWrites
<1>11. CASE Enter \/ ChoosePaired \/ PickNext \/ ChooseCapture
  BY <1>1, <1>11 DEF Enter, ChoosePaired, PickNext, ChooseCapture, AirWrites
<1>12. ASSUME NEW i \in DOMAIN ack_ring, AckFound(i)
       PROVE  SnapInv'
  <2>1. UNCHANGED <<register, config, taken, standing, edited, air>> /\ AirWrites' = AirWrites
    BY <1>12 DEF AckFound, AirWrites
  <2>2. wait # None /\ wait'.uid = wait.uid /\ wait'.wid = wait.wid
    BY <1>0, <1>12 DEF AckFound, RadioTypes, Waits
  <2> QED
    BY <1>0, <2>1, <2>2 DEF Places
<1>13. ASSUME NEW f \in air, AckArrives(f)
       PROVE  SnapInv'
  BY <1>1, <1>13 DEF AckArrives, AirWrites
<1>14. UNCHANGED air => AirWrites' \subseteq AirWrites
  BY DEF AirWrites
<1> HIDE DEF SnapInv
<1> QED
  BY <1>1, <1>2, <1>3, <1>4, <1>5, <1>6, <1>7, <1>8, <1>9, <1>10, <1>11, <1>12, <1>13, <1>14,
     RegisterMoves, LumesMove, RadioMoves

-----------------------------------------------------------------------------
(* The theorems                                                            *)

\* Every step keeps the invariant.
LEMMA StepKeepsIInv ==
    ASSUME IInv, [Next]_vars
    PROVE  IInv'
BY TypesKept, ScreenKept, EditKept, AirKept, WaitKept, TakenKept, SnapKept DEF IInv

\* The invariant behind the channel's properties holds in every reachable state.
THEOREM ChannelInvariant == Spec => []IInv
BY InitHolds, StepKeepsIInv, PTL DEF Spec

\* Whatever the operator's menus, pairing and capture do to the register, a
\* write is sent to the Lume the editor shows (WritePaired, OpenPaired).
THEOREM ChannelWritesWhereShown == Spec => []WriteGoesWhereShown
<1>1. IInv => WriteGoesWhereShown
  BY DEF IInv, EditInv, WriteGoesWhereShown
<1> QED
  BY <1>1, ChannelInvariant, PTL

\* A snapshot the Director calls good is what the Lume holds (AckTaken,
\* WroteOverBle, ReceiveWrite).
THEOREM ChannelSnapshotsTrue == Spec => []SnapshotTrue
<1>1. IInv => SnapshotTrue
  BY DEF IInv, SnapInv, SnapGood, SnapshotTrue
<1> QED
  BY <1>1, ChannelInvariant, PTL

\* Sending a write is Issue, accepting one is Take, reporting it is Confirm;
\* every other step leaves the promise's state alone.
LEMMA PromiseStep ==
    ASSUME IInv, [Next]_vars
    PROVE  [Promise!PromiseNext]_(Promise!promiseVars)
<1> USE DEF Promise!promiseVars
<1>0. WaitInv /\ EditInv /\ RadioTypes /\ LumeTypes /\ RegisterTypes /\ AirInv
  BY DEF IInv, Types
<1>1. CASE UNCHANGED <<issued, taken, confirmed>>
  BY <1>1
<1>2. CASE WritePaired
  <2>1. SelectedEntry.uid \in Lumes \cup {NoUid}
    BY <1>0, <1>2, SelectedIsEntry DEF WritePaired, EditInv, Address
  <2>2. CASE SendRefused
    BY <1>1, <1>2, <2>2 DEF WritePaired, SendRefused
  <2>3. CASE SendWrite(SelectedEntry)
    <3>1. Promise!Issue(SelectedEntry.uid)
      BY <1>2, <2>3 DEF WritePaired, SendWrite, Promise!Issue
    <3> QED
      BY <2>1, <3>1 DEF Promise!PromiseNext
  <2> QED
    BY <1>2, <2>2, <2>3 DEF WritePaired
<1>3. CASE AckTaken
  <2>1. /\ wait.wid \in Promise!Writes
        /\ \E u \in Lumes : \E i \in DOMAIN taken[u] : taken[u][i] = wait.wid
    BY <1>0, <1>3 DEF AckTaken, WaitInv, Applied, Took, Promise!Writes, RadioTypes
  <2>2. Promise!Confirm(wait.wid)
    BY <1>3, <2>1 DEF AckTaken, Promise!Confirm
  <2> QED
    BY <2>1, <2>2 DEF Promise!PromiseNext
<1>4. ASSUME NEW u \in Lumes, NEW f \in air, ReceiveWrite(u, f)
      PROVE  [Promise!PromiseNext]_(Promise!promiseVars)
  <2>1. CASE UNCHANGED taken
    BY <1>4, <2>1 DEF ReceiveWrite
  <2>2. CASE IsFresh(lru[u], f.src, f.num) /\ taken' = [taken EXCEPT ![u] = Append(@, f.wid)]
    <3>1. /\ f.wid \in 1 .. Len(issued) /\ issued[f.wid] \in {u, NoUid}
          /\ \A w \in Took(taken[u]) : w < f.wid
      BY <1>4, <2>2, AcceptedIsNewest
    <3>2. \A i \in DOMAIN taken[u] : taken[u][i] < f.wid
      BY <3>1 DEF Took
    <3>3. Promise!Take(u, f.wid)
      BY <1>4, <2>2, <3>1, <3>2 DEF ReceiveWrite, Promise!Take
    <3> QED
      BY <3>1, <3>3 DEF Promise!PromiseNext, Promise!Writes
  <2> QED
    BY <1>4, <2>1, <2>2 DEF ReceiveWrite
<1>5. \/ UNCHANGED <<issued, taken, confirmed>>
      \/ WritePaired \/ AckTaken
      \/ \E u \in Lumes, f \in air : ReceiveWrite(u, f)
  BY DEF Next, Operator, MainTask, WiFiTasks, Faults, Waiting, Enter, BackOut, ExitRoute,
     CycleValue, LeavePairedEmpty, PickNext, OpenPaired, CaptureCancel, CaptureAnother,
     ReadOverBle, ListenEnds, FlashEnds, ScanDone, CommitCapture, CaptureTimeout,
     WriteOverBle, UidAnnounced, ChooseLiveScan, Rescan, AckTimeout, ChoosePaired,
     ChooseCapture, AckFound, AckArrives, ResetDirector, RebootDirector, ResetLume, RebootLume
<1> QED
  BY <1>1, <1>2, <1>3, <1>4, <1>5

\* The channel implements the promise.
THEOREM ChannelKeepsPromise == Spec => KeepsPromise
<1>1. Init => Promise!PromiseInit
  BY DEF Init, Promise!PromiseInit
<1> QED
  BY <1>1, PromiseStep, ChannelInvariant, PTL DEF Spec, KeepsPromise, Promise!PromiseSpec
=============================================================================
