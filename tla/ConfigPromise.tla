---------------------------- MODULE ConfigPromise ----------------------------
(***************************************************************************)
(* What the configuration channel promises, without screens, radios,       *)
(* secrets or numonces: writes are issued one after the other, each to an  *)
(* address, which is a Lume's own or the one all Lumes without an identity *)
(* share; a Lume takes a write at most once and never one older than the   *)
(* last it took; the operator is told "Success" only of a write that a     *)
(* Lume has taken.                                                         *)
(***************************************************************************)
EXTENDS Naturals, Sequences

CONSTANTS
    Lumes,
    NoUid       \* the address of a Lume whose identity was cleared

VARIABLES
    issued,     \* the address each write was issued to, in order
    taken,      \* the writes each Lume took, in order
    confirmed   \* the writes reported as a success

promiseVars == <<issued, taken, confirmed>>

Writes == 1 .. Len(issued)

PromiseInit ==
    /\ issued = <<>>
    /\ taken = [u \in Lumes |-> <<>>]
    /\ confirmed = {}

Issue(address) ==
    /\ issued' = Append(issued, address)
    /\ UNCHANGED <<taken, confirmed>>

Take(u, w) ==
    /\ issued[w] \in {u, NoUid}
    /\ \A i \in DOMAIN taken[u] : taken[u][i] < w
    /\ taken' = [taken EXCEPT ![u] = Append(@, w)]
    /\ UNCHANGED <<issued, confirmed>>

Confirm(w) ==
    /\ \E u \in Lumes : \E i \in DOMAIN taken[u] : taken[u][i] = w
    /\ confirmed' = confirmed \cup {w}
    /\ UNCHANGED <<issued, taken>>

PromiseNext ==
    \/ \E address \in Lumes \cup {NoUid} : Issue(address)
    \/ \E w \in Writes : Confirm(w) \/ \E u \in Lumes : Take(u, w)

PromiseSpec == PromiseInit /\ [][PromiseNext]_promiseVars
=============================================================================
