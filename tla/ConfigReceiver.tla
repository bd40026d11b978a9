--------------------------- MODULE ConfigReceiver ---------------------------
(***************************************************************************)
(* A frame from an encoder through the air into the decoder of a Lume, and *)
(* a CONFIG_WRITE on into its NVS: build_signed_config_write()             *)
(* (src/src/ble/config_tx.cpp), process_config_write()                     *)
(* (src/src/ble/config_rx.cpp) and on_recv() of                            *)
(* src/src/modes/lume_mode.cpp, over the frame codec, the replay guard and *)
(* the property bags.  A frame may arrive damaged, twice or never.         *)
(***************************************************************************)
EXTENDS FrameCodec, NumonceLru, ConfigBag

CONSTANTS
    Senders,        \* the Directors' source_ids
    Self, Other,    \* the uid of this Lume, and of another
    Lengths,        \* what an encoder is given for a length
    Bags,           \* the entries a Director may want to write
    BufferSize,     \* of the editor that builds the bag: 240
    MaxNumonce,     \* bound: numonces drawn
    None

Entries == [key : DOMAIN KeyLength, typed : BOOLEAN, value : Nat]

ASSUME ReceiverAssumption ==
    /\ {BufferSize, MaxNumonce} \subseteq Nat
    /\ Lengths \subseteq Nat
    /\ \A entries \in Bags : entries \in Seq(Entries)

VARIABLES
    frame,      \* the frame on the air, as it will arrive, and what it was made from
    numonce,    \* per Director: "cfg_numonce"
    nvs,        \* of the Lume
    lru,        \* its config_numonces_
    reply       \* what it made of the last frame

receiverVars == <<frame, numonce, nvs, lru, reply>>

Nothing == [made |-> None, wire |-> None, intact |-> FALSE]
NoReply == [result |-> "none", bag |-> EmptyTlv, status |-> 0, applied_keys |-> 0]
Dropped(why) == [NoReply EXCEPT !.result = why]

\* The encoder's struct: a type, its lengths and, for a write, its contents.
Made(type, n, m, write) == [type |-> type, n |-> n, m |-> m, write |-> write]

\* The types whose layout depends on the struct.
Sized == {"TextDisplay", "BitmapHeader", "BitmapPlane", "UidAnnounce"}

LumeSettings == {"slv_group", "strip_bri", "slv_chan", "strip_cnt", "strip_grp",
                 "pair_win_s", "friendly_name"}

ReceiverInit ==
    /\ frame = Nothing /\ reply = NoReply
    /\ numonce = [d \in Senders |-> 0]
    /\ nvs \in {[k \in LumeSettings |-> IF k = "slv_group" THEN g ELSE Absent] :
                   g \in {LoadGroup(Absent, r).raw : r \in Rolls}}
    /\ lru = EmptyLru

\* Any encoder but that of a CONFIG_WRITE.  Bound: these frames, of which the
\* state below keeps nothing, are followed until the first write.
EncodeFrame(type, n, m) ==
    /\ \A d \in Senders : numonce[d] = 0
    /\ frame' = IF Encodes(type, n, m)
                THEN [made |-> Made(type, n, m, None), wire |-> Frame(type, n, m), intact |-> TRUE]
                ELSE Nothing
    /\ reply' = NoReply
    /\ UNCHANGED <<numonce, nvs, lru>>

\* build_signed_config_write(): a bag that is too long is not sent, and its
\* numonce is spent.
SendConfigWrite(d, target, entries) ==
    LET bag == BagOf(entries, BufferSize)
    IN  /\ numonce[d] < MaxNumonce
        /\ numonce' = [numonce EXCEPT ![d] = @ + 1]
        /\ frame' = IF bag.size > MaxBagLen THEN Nothing
                    ELSE [made |-> Made("ConfigWrite", bag.size, 0,
                                        [src |-> d, target |-> target, num |-> numonce[d] + 1,
                                         bag |-> bag]),
                          wire |-> Frame("ConfigWrite", bag.size, 0),
                          intact |-> TRUE]
        /\ reply' = NoReply
        /\ UNCHANGED <<nvs, lru>>

\* What the air, or a sender with another firmware, may make of a frame: a
\* header it does not know, another type or length, fewer bytes or more,
\* another value in any byte.
LengthBytes(f) == {i \in DOMAIN f.payload : f.payload[i][3] # 0}
Nearby(v) == {0, v - 1, v + 1, 255} \cap Nat

Damaged(f) ==
    {f, [f EXCEPT !.magic = FALSE], [f EXCEPT !.version = FALSE], [f EXCEPT !.whole = FALSE],
     [f EXCEPT !.payload = <<>>], [f EXCEPT !.payload = Append(@, <<"trailing", 0, 0>>)]}
        \cup {[f EXCEPT !.type = t] : t \in Known \cup {"unassigned"}}
        \cup {[f EXCEPT !.says = s] : s \in Nearby(f.says)}
        \cup {[f EXCEPT !.payload[i][3] = v] : i \in LengthBytes(f), v \in 0 .. 3 \cup {255}}
        \cup (IF f.payload = <<>> THEN {} ELSE {[f EXCEPT !.payload = Front(@)]})

Damage ==
    /\ frame.intact
    /\ frame' \in {[frame EXCEPT !.wire = f, !.intact = FALSE] : f \in Damaged(frame.wire)}
    /\ reply' = NoReply
    /\ UNCHANGED <<numonce, nvs, lru>>

\* process_config_write() behind the decoder, and on_recv()'s answer: the
\* target, the numonce, which is taken before the tag is tested, the tag and
\* then the bag.  to, src and num are read from the frame.
ProcessConfigWrite(to, src, num) ==
    LET bag == frame.made.write.bag
        done == ApplyBag(nvs, "Lume", bag)
    IN  IF to # Self THEN reply' = Dropped("BadTarget") /\ UNCHANGED <<nvs, lru>>
        ELSE /\ lru' = CheckAndUpdate(lru, src, num)
             /\ IF ~IsFresh(lru, src, num) THEN reply' = Dropped("Replay") /\ UNCHANGED nvs
                ELSE IF ~frame.intact THEN reply' = Dropped("BadHmac") /\ UNCHANGED nvs
                ELSE /\ nvs' = done.nvs
                     /\ reply' = IF WalkEnds(bag)
                                 THEN [result |-> "Accepted", bag |-> bag,
                                       status |-> IF done.flagged THEN 130 ELSE 0,
                                       applied_keys |-> Len(Walked(bag))]
                                 ELSE [Dropped("MalformedBag") EXCEPT !.bag = bag]

\* The contents of a damaged frame may read as anything; a whole one may
\* arrive again.
Receive ==
    /\ frame.wire # None
    /\ IF ~Decode(frame.wire).ok THEN reply' = Dropped("MalformedFrame") /\ UNCHANGED <<nvs, lru>>
       ELSE IF frame.wire.type # "ConfigWrite"
       THEN reply' = Dropped("NotForUs") /\ UNCHANGED <<nvs, lru>>
       ELSE IF frame.intact
       THEN LET w == frame.made.write IN ProcessConfigWrite(w.target, w.src, w.num)
       ELSE \E to \in {Self, Other}, src \in Senders, num \in 0 .. MaxNumonce :
                ProcessConfigWrite(to, src, num)
    /\ frame' = IF frame.intact THEN frame ELSE Nothing
    /\ UNCHANGED numonce

ReceiverNext ==
    \/ \E type \in Encoded \ {"ConfigWrite"}, n \in Lengths, m \in Lengths :
           /\ type \notin Sized => n = 0 /\ m = 0
           /\ EncodeFrame(type, n, m)
    \/ \E d \in Senders, target \in {Self, Other}, entries \in Bags :
           SendConfigWrite(d, target, entries)
    \/ Damage \/ Receive

ReceiverSpec == ReceiverInit /\ [][ReceiverNext]_receiverVars

-----------------------------------------------------------------------------

\* A frame that arrives as it was encoded is decoded, and every field of it is
\* read from the bytes its encoder wrote it to, whatever the lengths: no
\* encoder and decoder of frame.cpp disagree on an offset, a width or a limit.
RoundTrip ==
    frame.intact =>
        LET d == Decode(frame.wire)
            fields == {field \in ToSet(FieldsOf(frame.made.type, frame.made.n, frame.made.m)) :
                           field[2] > 0}
        IN  /\ d.ok
            /\ \A read \in d.reads : ReadsItself(frame.wire, read)
            /\ \A field \in fields : \E read \in d.reads :
                   read[1] = field[1] /\ read[3] = field[2]

\* Whatever arrives, no decoder of frame.cpp reads a byte behind the last one
\* that was received.
StaysInFrame ==
    frame.wire # None =>
        \A read \in Decode(frame.wire).reads : read[2] + read[3] <= Len(frame.wire.payload)

\* The codec of frame.cpp: encoders and decoders agree, and neither a short nor a
\* damaged frame leads a decoder out of what was received.
CodecSound == RoundTrip /\ StaysInFrame

\* A bag that is applied at all is applied whole and acknowledged: encoder,
\* signature and walk leave no way to a half-applied bag of which the Director
\* hears nothing (config_rx.cpp returns MalformedBag in the middle of a walk).
NothingHalfApplied == [][nvs' # nvs => reply'.result = "Accepted"]_receiverVars

\* The last value a bag gives for a key.
LastOf(bag, key) ==
    bag.entries[CHOOSE i \in DOMAIN bag.entries :
                    /\ bag.entries[i].key = key /\ bag.entries[i].typed
                    /\ \A j \in DOMAIN bag.entries :
                           bag.entries[j].key = key /\ bag.entries[j].typed => j <= i]

\* The keys of a bag this Lume stores, and what it will load for them.
StoredKeys(bag) == {e.key : e \in {f \in ToSet(bag.entries) :
                                       f.typed /\ f.key \in DOMAIN NvsKeys("Lume")}}
Loaded(key) == {l.value : l \in Loads(NvsKeys("Lume")[key], nvs[NvsKeys("Lume")[key]])}

\* Of a write that was acknowledged, each key the Lume knows loads as the last
\* value the bag gave for it, clamped as its save_*() clamps it, and the count
\* is that of the bag.
AckMeansStored ==
    /\ reply.result = "Accepted" =>
           \A key \in StoredKeys(reply.bag) :
               LET stored == Saved(NvsKeys("Lume")[key], LastOf(reply.bag, key).value)
               IN  Loaded(key) = {IF stored = Absent THEN 0 ELSE stored}
    /\ reply.result = "Accepted" /\ reply.bag.count = Len(reply.bag.entries)
           => reply.applied_keys = Len(reply.bag.entries)

\* frame.h:528 of a CONFIG_ACK: status "0x00 = applied, 0x82 =
\* value-out-of-range on at least one key": after a status of 0 every key loads
\* as the value that was written.
AckStatusTruthful ==
    reply.result = "Accepted" /\ reply.status = 0 =>
        \A key \in StoredKeys(reply.bag) : Loaded(key) = {LastOf(reply.bag, key).value}
=============================================================================
