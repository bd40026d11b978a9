----------------------------- MODULE ConfigBag -----------------------------
(***************************************************************************)
(* Property bags: the TLV codec (src/src/ble/property_bag_tlv.cpp) and     *)
(* apply_config_entry() (src/src/ble/config_apply.cpp), which stores a bag *)
(* in NVS entry by entry.  An entry is [key, typed, value]: typed says     *)
(* that it has the type and the width its key calls for; a name's value is *)
(* its length.  A bag is what its bytes say, [count, entries].             *)
(***************************************************************************)
EXTENDS Persistence, Sequences, SequencesExt

\* Of each role, and the last two of both.
LumeKeys ==
    [group |-> "slv_group", led_power |-> "strip_bri", channel_pref |-> "slv_chan",
     strip_chain |-> "strip_cnt", strip_group_size |-> "strip_grp",
     pair_win_s |-> "pair_win_s", friendly_name |-> "friendly_name"]
DirectorKeys ==
    [dir_sid_perf |-> "mst_pid", retx_count |-> "retx_count",
     pair_win_s |-> "pair_win_s", friendly_name |-> "friendly_name"]

NvsKeys(role) == IF role = "Director" THEN DirectorKeys ELSE LumeKeys

KeyLength ==
    [group |-> 5, led_power |-> 9, channel_pref |-> 12, strip_chain |-> 11,
     strip_group_size |-> 16, dir_sid_perf |-> 12, retx_count |-> 10, pair_win_s |-> 10,
     friendly_name |-> 13, unknown |-> 3]

ValueLength(e) ==
    CASE e.key = "strip_chain" -> 2 [] e.key = "friendly_name" -> e.value [] OTHER -> 1

EntrySize(e) == 1 + KeyLength[e.key] + 1 + 1 + ValueLength(e)

\* TlvEncoder: byte 0 counts the entries.  One that does not fit is refused
\* and the next is tried.
EmptyTlv == [count |-> 0, entries |-> <<>>, size |-> 1]

\* A plausible bug: an entry is counted before it is known to fit.
AddEntryCounted(bag, e, room) ==
    IF bag.size + EntrySize(e) > room THEN [bag EXCEPT !.count = @ + 1]
    ELSE [count |-> bag.count + 1, entries |-> Append(bag.entries, e),
          size |-> bag.size + EntrySize(e)]

AddEntry(bag, e, room) ==
    IF bag.size + EntrySize(e) > room THEN bag
    ELSE [count |-> bag.count + 1, entries |-> Append(bag.entries, e),
          size |-> bag.size + EntrySize(e)]

BagOf(entries, room) ==
    LET bag[i \in 0 .. Len(entries)] ==
            IF i = 0 THEN EmptyTlv ELSE AddEntry(bag[i - 1], entries[i], room)
    IN  bag[Len(entries)]

\* decode_property_bag(): the entries the callback is given, and whether the
\* walk came to its end; those walked before a malformed one stay applied.
Walked(bag) == SubSeq(bag.entries, 1, IF bag.count < Len(bag.entries) THEN bag.count
                                      ELSE Len(bag.entries))
WalkEnds(bag) == bag.size > 0 /\ bag.count <= Len(bag.entries)

\* apply_config_entry(): a value of the wrong type is flagged and the walk
\* goes on; an unknown key is accepted.
OutOfRange(role, e) ==
    /\ e.key \in DOMAIN NvsKeys(role)
    /\ ~e.typed \/ (e.key = "dir_sid_perf" /\ e.value \notin PerformanceIds)

\* A plausible bug: the strip's group size is stored as the Lume's group.
ApplyEntryMixedUp(done, role, e) ==
    IF e.key \notin DOMAIN NvsKeys(role) THEN done
    ELSE IF OutOfRange(role, e) THEN [done EXCEPT !.flagged = TRUE]
    ELSE [done EXCEPT !.nvs = Save(@, IF e.key = "strip_group_size" THEN "slv_group"
                                      ELSE NvsKeys(role)[e.key], e.value)]

ApplyEntry(done, role, e) ==
    IF e.key \notin DOMAIN NvsKeys(role) THEN done
    ELSE IF OutOfRange(role, e) THEN [done EXCEPT !.flagged = TRUE]
    ELSE [done EXCEPT !.nvs = Save(@, NvsKeys(role)[e.key], e.value)]

\* The whole bag: NVS afterwards, and value_out_of_range.
ApplyBag(nvs, role, bag) ==
    LET done[i \in 0 .. Len(Walked(bag))] ==
            IF i = 0 THEN [nvs |-> nvs, flagged |-> FALSE]
            ELSE ApplyEntry(done[i - 1], role, Walked(bag)[i])
    IN  done[Len(Walked(bag))]

\* serialise_config_bag(), and the bag of the Config Lumes editor: every key
\* of the role in order, the name only when there is one.
LumeOrder == <<"group", "led_power", "channel_pref", "strip_chain", "strip_group_size",
               "pair_win_s", "friendly_name">>
DirectorOrder == <<"dir_sid_perf", "retx_count", "pair_win_s", "friendly_name">>

ConfigBagOf(values, role, room) ==
    LET order == IF role = "Director" THEN DirectorOrder ELSE LumeOrder
        keys == SelectSeq(order, LAMBDA k : k # "friendly_name" \/ values[k] # 0)
    IN  BagOf([i \in DOMAIN keys |-> [key |-> keys[i], typed |-> TRUE, value |-> values[keys[i]]]],
              room)
=============================================================================
