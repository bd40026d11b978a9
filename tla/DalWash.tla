------------------------------ MODULE DalWash ------------------------------
(***************************************************************************)
(* The routing of washes and pulses by the DAL of a Director: dal.cpp, as  *)
(* operators on a record                                                   *)
(*                                                                         *)
(*   radio    startup_state_ of the broadcast driver                       *)
(*   air      the gap since the last frame is long enough for another      *)
(*   table    s_active_washes, with the age of last_broadcast_ms           *)
(*   fleet    the wash each target's Lumes show                            *)
(*   ir       the wash slots of the IR driver                              *)
(*   strip    the wash of the Director's own strip                         *)
(*                                                                         *)
(* A wash goes on the air if the driver takes it, and to the bracelets and *)
(* the strip whether it does or not.  The emitters are enabled.  A pulse   *)
(* leaves no trace but the airtime it takes.                               *)
(***************************************************************************)
EXTENDS Naturals

CONSTANTS
    Targets,        \* groups a show aims at, each of class 0
    MaxActiveWashes,
    RefreshPeriod   \* kWashRefreshPeriodMs, in ticks

ASSUME DalAssumption ==
    /\ MaxActiveWashes \in Nat \ {0}
    /\ RefreshPeriod \in Nat \ {0}

NoWash == [palette |-> "none", section |-> "none"]

FreeSlot == [occupied |-> FALSE, target |-> 0, wash |-> NoWash, age |-> 0]

FreshDal ==
    [radio |-> "idle", air |-> TRUE,
     table |-> [i \in 1 .. MaxActiveWashes |-> FreeSlot],
     fleet |-> [t \in Targets |-> NoWash],
     ir |-> [t \in Targets |-> NoWash],
     strip |-> NoWash]

\* active_, and airtime_cap_ready(), which a frame that is taken resets.
Accepts(dal) == dal.radio = "active" /\ dal.air

\* find_active_wash_slot(), as a set of at most one.
SlotsOf(table, target) == {i \in DOMAIN table : table[i].occupied /\ table[i].target = target}

\* The first slot that is free or, if none is, the one broadcast longest ago.
SlotToTake(table) ==
    LET free == {i \in DOMAIN table : ~table[i].occupied}
        older(i, j) == table[i].age > table[j].age \/ (table[i].age = table[j].age /\ i <= j)
    IN  IF free # {} THEN CHOOSE i \in free : \A j \in free : i <= j
        ELSE CHOOSE i \in DOMAIN table : \A j \in DOMAIN table : older(i, j)

Recorded(table, target, wash) ==
    LET own == SlotsOf(table, target)
        slot == IF own # {} THEN CHOOSE i \in own : TRUE ELSE SlotToTake(table)
    IN  [table EXCEPT ![slot] = [occupied |-> TRUE, target |-> target, wash |-> wash, age |-> 0]]

ClearedOf(table, target) ==
    [i \in DOMAIN table |->
        IF i \in SlotsOf(table, target) THEN [table[i] EXCEPT !.occupied = FALSE] ELSE table[i]]

RenderFx(dal) == [dal EXCEPT !.air = @ /\ ~Accepts(dal)]

RenderWash(dal, target, wash) ==
    LET sent == IF Accepts(dal)
                THEN [dal EXCEPT !.air = FALSE,
                                 !.table = Recorded(@, target, wash),
                                 !.fleet[target] = wash]
                ELSE dal
    IN  [sent EXCEPT !.ir[target] = wash, !.strip = wash]

\* A plausible bug: a frame the radio does not take ends the call.
RenderWashEndIfSent(dal, target) ==
    IF Accepts(dal)
    THEN [dal EXCEPT !.air = FALSE, !.table = ClearedOf(@, target),
                     !.fleet[target] = NoWash, !.ir[target] = NoWash, !.strip = NoWash]
    ELSE dal

RenderWashEnd(dal, target) ==
    LET sent == IF Accepts(dal)
                THEN [dal EXCEPT !.air = FALSE,
                                 !.table = ClearedOf(@, target),
                                 !.fleet[target] = NoWash]
                ELSE dal
    IN  [sent EXCEPT !.ir[target] = NoWash, !.strip = NoWash]

Due(dal) == {i \in DOMAIN dal.table : dal.table[i].occupied /\ dal.table[i].age >= RefreshPeriod}

\* A plausible bug: the slots the driver had no airtime for are stamped too.
RefreshedStampsAll(dal) ==
    LET first == CHOOSE i \in Due(dal) : \A j \in Due(dal) : i <= j
    IN  [dal EXCEPT !.air = FALSE,
                    !.fleet[dal.table[first].target] = dal.table[first].wash,
                    !.table = [i \in DOMAIN dal.table |->
                                  IF i \in Due(dal) THEN [dal.table[i] EXCEPT !.age = 0]
                                  ELSE dal.table[i]]]

\* refresh_active_washes(), when the driver has airtime: it is enough for the
\* first of the washes that are due.
Refreshed(dal) ==
    LET first == CHOOSE i \in Due(dal) : \A j \in Due(dal) : i <= j
    IN  [dal EXCEPT !.air = FALSE,
                    !.fleet[dal.table[first].target] = dal.table[first].wash,
                    !.table[first].age = 0]

\* Time passes: the gap is over, and a broadcast is older.
Later(dal) ==
    [dal EXCEPT !.air = TRUE,
                !.table = [i \in DOMAIN dal.table |->
                              [dal.table[i] EXCEPT !.age = IF @ < RefreshPeriod + 1 THEN @ + 1 ELSE @]]]

=============================================================================
