---------------------------- MODULE PairRegister ----------------------------
(***************************************************************************)
(* The pair register of a Director (src/src/ble/pair_register.cpp): the    *)
(* Lumes it knows, with the secret each was captured with and the settings *)
(* last written to it.  The register is a value [entries, next]; every     *)
(* operation returns the new value, which the code then saves whole.       *)
(* An entry's name, role, host and last_configured_at are not kept here:   *)
(* nothing depends on them.                                                *)
(***************************************************************************)
EXTENDS Naturals, Sequences, FiniteSets

CONSTANTS
    RegisterMax,    \* kMaxEntries: 20
    SequenceCap,    \* where next_sequence_() stops counting: 0xFFFFFFF0
    NoSnapshot      \* snap_valid = 0

ASSUME RegisterAssumption ==
    /\ RegisterMax \in Nat \ {0}
    /\ SequenceCap \in Nat \ {0}

EmptyRegister == [entries |-> <<>>, next |-> 1]

NextSequence(n) == IF n < SequenceCap THEN n + 1 ELSE n

Places(reg) == 1 .. Len(reg.entries)
Registered(reg) == {reg.entries[i].uid : i \in Places(reg)}
PlaceOf(reg, uid) == CHOOSE i \in Places(reg) : reg.entries[i].uid = uid

\* Of the entries with the smallest captured_at, the first.
Oldest(reg) ==
    CHOOSE i \in Places(reg) : \A j \in Places(reg) \ {i} :
        \/ reg.entries[i].captured_at < reg.entries[j].captured_at
        \/ reg.entries[i].captured_at = reg.entries[j].captured_at /\ i < j

\* A Lume as BLE or a UID_ANNOUNCE shows it: never written to.
Fresh(uid, secret) ==
    [uid |-> uid, secret |-> secret, captured_at |-> 0, snap |-> NoSnapshot]

\* A new uid.
AddNew(reg, in) ==
    LET entry == [in EXCEPT !.captured_at = reg.next]
    IN  [entries |-> IF Len(reg.entries) < RegisterMax THEN Append(reg.entries, entry)
                     ELSE [reg.entries EXCEPT ![Oldest(reg)] = entry],
         next |-> NextSequence(reg.next)]

\* A known uid keeps its place and its captured_at and loses its snapshot
\* with the rest; a new one takes the next place or, in a full register, the
\* place of the entry captured first.
Add(reg, in) ==
    IF in.uid \in Registered(reg)
    THEN LET i == PlaceOf(reg, in.uid)
         IN  [reg EXCEPT !.entries[i] = [in EXCEPT !.captured_at = reg.entries[i].captured_at]]
    ELSE AddNew(reg, in)

\* The entries by captured_at, the newest first; k counts from 0.
RankAbove(reg, i) ==
    Cardinality({j \in Places(reg) \ {i} :
        \/ reg.entries[j].captured_at > reg.entries[i].captured_at
        \/ reg.entries[j].captured_at = reg.entries[i].captured_at /\ j < i})

NthSorted(reg, k) == CHOOSE i \in Places(reg) : RankAbove(reg, i) = k

UpdateSnapshot(reg, uid, values) ==
    IF uid \in Registered(reg)
    THEN LET i == PlaceOf(reg, uid)
         IN  [entries |-> [reg.entries EXCEPT ![i].snap = values],
              next |-> NextSequence(reg.next)]
    ELSE reg

\* The blob is read back only when it is whole: version 2, a count within
\* the limit, all of the entries.
LoadBlob(blob) == IF Len(blob.entries) <= RegisterMax THEN blob ELSE EmptyRegister
=============================================================================
