----------------------------- MODULE FrameCodec -----------------------------
(***************************************************************************)
(* The ESP-NOW frame codec (src/src/transport/espnow/frame.cpp): what each *)
(* encoder lays down after the 9-byte header, and where each decoder looks *)
(* for it.  A payload is a sequence of bytes <<field, i, value>>: byte i,  *)
(* the lowest first, of a field; only a length byte has a value that       *)
(* matters.  The encoders and the decoders are written separately, as in   *)
(* the code: that they agree is a property.                                *)
(***************************************************************************)
EXTENDS Integers, Sequences, SequencesExt, FiniteSets

CONSTANTS
    MaxHeaderLen,   \* kTextDisplayMaxHeaderLen: 64
    MaxBodyLen,     \* kTextDisplayMaxBodyLen: 128
    MaxDataLen,     \* kBitmapPlaneMaxDataLen: 235
    MaxNameLen,     \* kUidAnnounceMaxFriendlyNameLen: 20
    MaxBagLen,      \* kConfigWriteMaxBagLen: 220
    MaxPlanes,      \* kBitmapMaxPlanes: 8
    MaxDimension    \* kBitmapMaxDimension: 64

ASSUME LengthsAssumption ==
    {MaxHeaderLen, MaxBodyLen, MaxDataLen, MaxNameLen, MaxBagLen, MaxPlanes, MaxDimension}
        \subseteq Nat

-----------------------------------------------------------------------------
(* Encoders: the fields in the order they are written, as <<name, width>>. *)
(* A byte the decoder tests is <<name, 1, value>>.  n and m are the        *)
(* lengths, or the planes and the dimensions, the caller's struct holds.   *)

EncodeHeartbeat == << <<"tick", 4>>, <<"days_since_2026", 2>>, <<"centiseconds_today", 3>> >>

EncodeRepeaterHeartbeat ==
    << <<"uid", 3>>, <<"channel", 1>>, <<"uptime_s", 2>>, <<"relayed_count", 4>> >>

LedAddress == << <<"led_mode", 1>>, <<"led_modifier1", 1>>, <<"led_modifier2", 1>> >>

EncodeLightPulse ==
    << <<"target_class", 1>>, <<"target_group", 2>>, <<"r", 1>>, <<"g", 1>>, <<"b", 1>>,
       <<"attack", 1>>, <<"sustain", 1>>, <<"release", 1>>, <<"chance", 1>> >> \o LedAddress

EncodeLightWash ==
    << <<"target_class", 1>>, <<"target_group", 2>>, <<"r1", 1>>, <<"g1", 1>>, <<"b1", 1>>,
       <<"r2", 1>>, <<"g2", 1>>, <<"b2", 1>>, <<"attack", 1>>, <<"release", 1>>,
       <<"intensity", 1>>, <<"cycle_ms", 2>>, <<"ttl_seconds", 2>>,
       <<"pulse_response", 1>> >> \o LedAddress

EncodeLightWashEnd ==
    << <<"target_class", 1>>, <<"target_group", 2>>, <<"release_time", 1>> >> \o LedAddress

EncodeLightWashPulse ==
    << <<"target_class", 1>>, <<"target_group", 2>>, <<"r", 1>>, <<"g", 1>>, <<"b", 1>>,
       <<"attack", 1>>, <<"sustain", 1>>, <<"release", 1>>, <<"chance", 1>> >> \o LedAddress

\* A plausible bug: both lengths before both strings.
EncodeTextDisplayLengthsFirst(n, m) ==
    << <<"target_group", 2>>, <<"r", 1>>, <<"g", 1>>, <<"b", 1>>, <<"ttl_ms", 2>>,
       <<"header_len", 1, n>>, <<"body_len", 1, m>>, <<"header", n>>, <<"body", m>> >>

EncodeTextDisplay(n, m) ==
    << <<"target_group", 2>>, <<"r", 1>>, <<"g", 1>>, <<"b", 1>>, <<"ttl_ms", 2>>,
       <<"header_len", 1, n>>, <<"header", n>>, <<"body_len", 1, m>>, <<"body", m>> >>

EncodeBitmapHeader(n, m) ==
    << <<"target_group", 2>>, <<"width", 1, m>>, <<"height", 1, m>>, <<"plane_count", 1, n>>,
       <<"colours", 24>>, <<"fit", 1>>, <<"zoom_pct", 1>>, <<"overwrite", 1>>,
       <<"checksum", 4>>, <<"ttl_ms", 2>> >>

EncodeBitmapPlane(n) ==
    << <<"target_group", 2>>, <<"plane_index", 1>>, <<"byte_offset", 2>>,
       <<"data_len", 1, n>>, <<"data", n>> >>

EncodeClearScreen == << <<"target_group", 2>>, <<"clear_text", 1>>, <<"clear_bitmap", 1>> >>

EncodeUidAnnounce(n) ==
    << <<"uid", 4>>, <<"secret", 16>>, <<"role", 1>>, <<"host", 1>>,
       <<"friendly_name_len", 1, n>>, <<"friendly_name", n>> >>

EncodeConfigWrite(n) ==
    << <<"target_uid", 4>>, <<"numonce", 8>>, <<"bag_len", 1, n>>, <<"bag_tlv", n>>,
       <<"hmac", 8>> >>

EncodeConfigAck ==
    << <<"responder_uid", 4>>, <<"responder_numonce", 8>>, <<"status", 1>>,
       <<"applied_keys", 1>> >>

Known == {"Heartbeat", "RepeaterHeartbeat", "LightPulse", "LightWash", "LightWashEnd",
          "LightWashPulse", "TextDisplay", "BitmapHeader", "BitmapPlane", "ClearScreen",
          "UidAnnounce", "ConfigWrite", "ConfigAck", "Extension"}
Encoded == Known \ {"Extension"}

\* A bag or a name that is too long is cut by the encoder.
Cut(n, max) == IF n > max THEN max ELSE n

FieldsOf(type, n, m) ==
    CASE type = "Heartbeat"         -> EncodeHeartbeat
      [] type = "RepeaterHeartbeat" -> EncodeRepeaterHeartbeat
      [] type = "LightPulse"        -> EncodeLightPulse
      [] type = "LightWash"         -> EncodeLightWash
      [] type = "LightWashEnd"      -> EncodeLightWashEnd
      [] type = "LightWashPulse"    -> EncodeLightWashPulse
      [] type = "TextDisplay"       -> EncodeTextDisplay(n, m)
      [] type = "BitmapHeader"      -> EncodeBitmapHeader(n, m)
      [] type = "BitmapPlane"       -> EncodeBitmapPlane(n)
      [] type = "ClearScreen"       -> EncodeClearScreen
      [] type = "UidAnnounce"       -> EncodeUidAnnounce(Cut(n, MaxNameLen))
      [] type = "ConfigWrite"       -> EncodeConfigWrite(Cut(n, MaxBagLen))
      [] type = "ConfigAck"         -> EncodeConfigAck

Drawable(planes, width, height) ==
    planes \in 1 .. MaxPlanes /\ width \in 1 .. MaxDimension /\ height \in 1 .. MaxDimension

\* Texts and bitmaps are refused instead.
Encodes(type, n, m) ==
    /\ type = "TextDisplay" => n <= MaxHeaderLen /\ m <= MaxBodyLen
    /\ type = "BitmapPlane" => n <= MaxDataLen
    /\ type = "BitmapHeader" => Drawable(n, m, m)

BytesOf(field) ==
    [i \in 1 .. field[2] |-> <<field[1], i - 1, IF Len(field) = 3 THEN field[3] ELSE 0>>]

Payload(type, n, m) == FlattenSeq([i \in DOMAIN FieldsOf(type, n, m) |->
                                      BytesOf(FieldsOf(type, n, m)[i])])

\* The frame: its type and length bytes, and the payload as it travels.
Frame(type, n, m) ==
    [magic |-> TRUE, version |-> TRUE, type |-> type,
     says |-> Len(Payload(type, n, m)), payload |-> Payload(type, n, m), whole |-> TRUE]

-----------------------------------------------------------------------------
(* Decoders: the fields they read, as <<name, offset, width>>, and the     *)
(* verdict.                                                                *)

Read(reads) == [ok |-> TRUE, reads |-> reads]
Mismatch(reads) == [ok |-> FALSE, reads |-> reads]

\* The decoders of fixed length.
DecodeHeartbeat == {<<"tick", 0, 4>>, <<"days_since_2026", 4, 2>>, <<"centiseconds_today", 6, 3>>}

DecodeRepeaterHeartbeat ==
    {<<"uid", 0, 3>>, <<"channel", 3, 1>>, <<"uptime_s", 4, 2>>, <<"relayed_count", 6, 4>>}

DecodeLightPulse ==
    {<<"target_class", 0, 1>>, <<"target_group", 1, 2>>, <<"r", 3, 1>>, <<"g", 4, 1>>,
     <<"b", 5, 1>>, <<"attack", 6, 1>>, <<"sustain", 7, 1>>, <<"release", 8, 1>>,
     <<"chance", 9, 1>>, <<"led_mode", 10, 1>>, <<"led_modifier1", 11, 1>>,
     <<"led_modifier2", 12, 1>>}

DecodeLightWash ==
    {<<"target_class", 0, 1>>, <<"target_group", 1, 2>>, <<"r1", 3, 1>>, <<"g1", 4, 1>>,
     <<"b1", 5, 1>>, <<"r2", 6, 1>>, <<"g2", 7, 1>>, <<"b2", 8, 1>>, <<"attack", 9, 1>>,
     <<"release", 10, 1>>, <<"intensity", 11, 1>>, <<"cycle_ms", 12, 2>>,
     <<"ttl_seconds", 14, 2>>, <<"pulse_response", 16, 1>>, <<"led_mode", 17, 1>>,
     <<"led_modifier1", 18, 1>>, <<"led_modifier2", 19, 1>>}

DecodeLightWashEnd ==
    {<<"target_class", 0, 1>>, <<"target_group", 1, 2>>, <<"release_time", 3, 1>>,
     <<"led_mode", 4, 1>>, <<"led_modifier1", 5, 1>>, <<"led_modifier2", 6, 1>>}

DecodeLightWashPulse ==
    {<<"target_class", 0, 1>>, <<"target_group", 1, 2>>, <<"r", 3, 1>>, <<"g", 4, 1>>,
     <<"b", 5, 1>>, <<"attack", 6, 1>>, <<"sustain", 7, 1>>, <<"release", 8, 1>>,
     <<"chance", 9, 1>>, <<"led_mode", 10, 1>>, <<"led_modifier1", 11, 1>>,
     <<"led_modifier2", 12, 1>>}

DecodeClearScreen == {<<"target_group", 0, 2>>, <<"clear_text", 2, 1>>, <<"clear_bitmap", 3, 1>>}

DecodeConfigAck ==
    {<<"responder_uid", 0, 4>>, <<"responder_numonce", 4, 8>>, <<"status", 12, 1>>,
     <<"applied_keys", 13, 1>>}

\* A length byte, where the decoder finds it.
ByteAt(f, at) == IF at < Len(f.payload) THEN f.payload[at + 1][3] ELSE 0

DecodeTextDisplay(f) ==
    LET prefix == {<<"target_group", 0, 2>>, <<"r", 2, 1>>, <<"g", 3, 1>>, <<"b", 4, 1>>,
                   <<"ttl_ms", 5, 2>>, <<"header_len", 7, 1>>}
        n == ByteAt(f, 7)
        m == ByteAt(f, 8 + n)
        strings == {<<"header", 8, n>>, <<"body_len", 8 + n, 1>>}
    IN  IF f.says < 9 THEN Mismatch({})
        ELSE IF n > MaxHeaderLen \/ f.says < 8 + n + 1 THEN Mismatch(prefix)
        ELSE IF m > MaxBodyLen \/ f.says # 8 + n + 1 + m THEN Mismatch(prefix \cup strings)
        ELSE Read(prefix \cup strings \cup {<<"body", 9 + n, m>>})

DecodeBitmapHeader(f) ==
    LET size == {<<"target_group", 0, 2>>, <<"width", 2, 1>>, <<"height", 3, 1>>,
                 <<"plane_count", 4, 1>>}
    IN  IF f.says # 38 THEN Mismatch({})
        ELSE IF ~Drawable(ByteAt(f, 4), ByteAt(f, 2), ByteAt(f, 3)) THEN Mismatch(size)
        ELSE Read(size \cup {<<"colours", 5, 24>>, <<"fit", 29, 1>>, <<"zoom_pct", 30, 1>>,
                             <<"overwrite", 31, 1>>, <<"checksum", 32, 4>>, <<"ttl_ms", 36, 2>>})

DecodeBitmapPlane(f) ==
    LET prefix == {<<"target_group", 0, 2>>, <<"plane_index", 2, 1>>, <<"byte_offset", 3, 2>>,
                   <<"data_len", 5, 1>>}
        n == ByteAt(f, 5)
    IN  IF f.says < 6 THEN Mismatch({})
        ELSE IF n > MaxDataLen \/ f.says # 6 + n THEN Mismatch(prefix)
        ELSE Read(prefix \cup {<<"data", 6, n>>})

DecodeUidAnnounce(f) ==
    LET n == ByteAt(f, 22)
    IN  IF f.says < 23 \/ f.says > 23 + MaxNameLen THEN Mismatch({})
        ELSE IF n > MaxNameLen \/ f.says # 23 + n
             THEN Mismatch({<<"friendly_name_len", 22, 1>>})
        ELSE Read({<<"uid", 0, 4>>, <<"secret", 4, 16>>, <<"role", 20, 1>>, <<"host", 21, 1>>,
                   <<"friendly_name_len", 22, 1>>, <<"friendly_name", 23, n>>})

DecodeConfigWrite(f) ==
    LET n == ByteAt(f, 12)
    IN  IF f.says < 21 \/ f.says > 21 + MaxBagLen THEN Mismatch({})
        ELSE IF n > MaxBagLen \/ f.says # 21 + n THEN Mismatch({<<"bag_len", 12, 1>>})
        ELSE Read({<<"target_uid", 0, 4>>, <<"numonce", 4, 8>>, <<"bag_len", 12, 1>>,
                   <<"bag_tlv", 13, n>>, <<"hmac", 13 + n, 8>>})

Fixed(f, length, fields) == IF f.says # length THEN Mismatch({}) ELSE Read(fields)

DecodePayload(f) ==
    CASE f.type = "Heartbeat"         -> Fixed(f, 9, DecodeHeartbeat)
      [] f.type = "RepeaterHeartbeat" -> Fixed(f, 10, DecodeRepeaterHeartbeat)
      [] f.type = "LightPulse"        -> Fixed(f, 13, DecodeLightPulse)
      [] f.type = "LightWash"         -> Fixed(f, 20, DecodeLightWash)
      [] f.type = "LightWashEnd"      -> Fixed(f, 7, DecodeLightWashEnd)
      [] f.type = "LightWashPulse"    -> Fixed(f, 13, DecodeLightWashPulse)
      [] f.type = "TextDisplay"       -> DecodeTextDisplay(f)
      [] f.type = "BitmapHeader"      -> DecodeBitmapHeader(f)
      [] f.type = "BitmapPlane"       -> DecodeBitmapPlane(f)
      [] f.type = "ClearScreen"       -> Fixed(f, 4, DecodeClearScreen)
      [] f.type = "UidAnnounce"       -> DecodeUidAnnounce(f)
      [] f.type = "ConfigWrite"       -> DecodeConfigWrite(f)
      [] f.type = "ConfigAck"         -> Fixed(f, 14, DecodeConfigAck)

\* decode_header(): the payload must have arrived as far as its length says;
\* more may have.
DecodeHeader(f) ==
    IF ~f.whole THEN "BufferTooShort"
    ELSE IF ~f.magic THEN "InvalidMagic"
    ELSE IF ~f.version THEN "InvalidProtocolVersion"
    ELSE IF f.type \notin Known THEN "InvalidMessageType"
    ELSE IF f.says > Len(f.payload) THEN "BufferTooShort"
    ELSE "Ok"

\* on_recv() of a receiver that wants the type: nothing is decoded behind a
\* header that is refused, nor an Extension frame.
Decode(f) ==
    IF DecodeHeader(f) # "Ok" \/ f.type \notin Encoded THEN Mismatch({}) ELSE DecodePayload(f)

-----------------------------------------------------------------------------

\* What a decoder takes for a field is all and only that field's bytes.
ReadsItself(f, read) ==
    \A i \in 1 .. read[3] : LET b == f.payload[read[2] + i]
                            IN  b[1] = read[1] /\ b[2] = i - 1
=============================================================================
