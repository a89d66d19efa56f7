------------------------------ MODULE PbEncode ------------------------------
(***************************************************************************)
(* nanopb's encoder (pb_encode.c) and the callback of sensor_handler.c as  *)
(* far as sems_SensorDataList uses them, down to the bytes; SensorHandler  *)
(* has the same code down to the order in which two updates interleave.    *)
(* A stream is what was written and how much it takes.                     *)
(***************************************************************************)
EXTENDS PbDecode

\* What the provers need to know of powers.
ASSUME PowerAssumption ==
    /\ 128 ^ 0 = 1
    /\ \A n \in 1..Groups(DoubleBits) : 128 ^ n = 128 * 128 ^ (n - 1)
    /\ 128 <= 2 ^ WordBits /\ 2 ^ WordBits <= 128 ^ Groups(WordBits) /\ 2 ^ WordBits <= 2 ^ DoubleBits

\* PB_OSTREAM_SIZING counts and never fills: SizeMax is more than any message needs.
Stream(max_size) == [bytes |-> <<>>, max |-> max_size, ok |-> TRUE]
Sizing           == Stream(SizeMax)

\* pb_write: what does not fit is not written, and the encoding fails.
Write(s, bytes) ==
    IF ~s.ok \/ Len(s.bytes) + Len(bytes) > s.max THEN [s EXCEPT !.ok = FALSE]
    ELSE [s EXCEPT !.bytes = @ \o bytes]

\* Mutated: the last byte says that there is another.
UnendedVarint(value) ==
    [i \in 1..Min({n \in 1..Groups(DoubleBits) : value < 128 ^ n}) |->
        ((value \div 128 ^ (i - 1)) % 128) + 128]

\* Seven bits to a byte, the lowest first, the top bit set on all but the last.
EncodeVarint(value) ==
    LET size == Min({n \in 1..Groups(DoubleBits) : value < 128 ^ n})
    IN  [i \in 1..size |-> ((value \div 128 ^ (i - 1)) % 128) + (IF i < size THEN 128 ELSE 0)]

WireType == [uvarint |-> PB_WT.varint, bytes |-> PB_WT.string, submessage |-> PB_WT.string]

EncodeTag(s, field) == Write(s, EncodeVarint(field.tag * 8 + WireType[field.ltype]))

EncodeString(s, bytes) == Write(Write(s, EncodeVarint(Len(bytes))), bytes)

\* sems_SensorData_fields and sems_SensorDataList_fields.
SensorDataFields == <<[tag |-> 1, ltype |-> "uvarint"], [tag |-> 2, ltype |-> "bytes"]>>
ListField        == [tag |-> 1, ltype |-> "submessage"]

\* pb_enc_uvarint, and pb_enc_bytes, which tests the size against what the message holds.
EncUvarint(s, value) == Write(s, EncodeVarint(value))
EncBytes(s, bytes)   == IF Len(bytes) > DataMax THEN [s EXCEPT !.ok = FALSE] ELSE EncodeString(s, bytes)

\* encode_basic_field of a required field: its tag, then its value.
EncodeField(s, field, value) ==
    IF field.ltype = "uvarint" THEN EncUvarint(EncodeTag(s, field), value)
                               ELSE EncBytes(EncodeTag(s, field), value)

\* pb_encode of a sems_SensorData.
EncodeMessage(s, m) ==
    EncodeField(EncodeField(s, SensorDataFields[1], m.type), SensorDataFields[2], m.data)

\* The message is encoded once to count it and once to write it, into no more than was counted.
EncodeSubmessage(s, m) ==
    LET sized   == EncodeMessage(Sizing, m)
        t       == Write(s, EncodeVarint(Len(sized.bytes)))
        written == EncodeMessage(Stream(Len(sized.bytes)), m)
    IN  IF ~sized.ok \/ ~t.ok \/ Len(t.bytes) + Len(sized.bytes) > t.max THEN [t EXCEPT !.ok = FALSE]
        ELSE [t EXCEPT !.bytes = @ \o written.bytes, !.ok = written.ok]

\* encode_sensordata, for lists that fit.
EncodeList(s, messages) ==
    LET Encoded[n \in 0..Len(messages)] ==
            IF n = 0 THEN s ELSE EncodeSubmessage(EncodeTag(Encoded[n - 1], ListField), messages[n])
    IN  Encoded[Len(messages)]

-----------------------------------------------------------------------------
(* The reference: what a decoder makes of the bytes.                        *)

DecodedMessage(bytes) ==
    LET type_tag == Tag(bytes)
        type     == Unsigned(type_tag.rest)
        data_tag == Tag(type.rest)
        data     == Bytes(data_tag.rest)
    IN  IF /\ type_tag.ok /\ type_tag.tag = 1 /\ type.ok
           /\ data_tag.ok /\ data_tag.tag = 2 /\ data.ok /\ data.rest = <<>>
        THEN {[type |-> type.value, data |-> data.value]} ELSE {}

\* The messages of the list, or nothing if the bytes are not a list.
DecodedList(bytes) ==
    LET Failed == [rest |-> <<>>, list |-> {}]
        Round[n \in 0..Len(bytes)] ==
            IF n = 0 THEN [rest |-> bytes, list |-> {<<>>}]
            ELSE LET before == Round[n - 1]
                     tag    == Tag(before.rest)
                     body   == SkipString(tag.rest)
                 IN  IF tag.eof THEN before
                     ELSE IF ~tag.ok \/ tag.tag # 1 \/ tag.wire_type # PB_WT.string \/ ~body.ok THEN Failed
                     ELSE [rest |-> body.rest,
                           list |-> {Append(l, m) : l \in before.list, m \in DecodedMessage(body.value)}]
    IN  Round[Len(bytes)].list

=============================================================================
