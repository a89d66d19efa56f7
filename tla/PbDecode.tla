------------------------------ MODULE PbDecode ------------------------------
(***************************************************************************)
(* nanopb's decoder (pb_decode.c, pb_common.c) as far as sems_ActionData   *)
(* uses it.  A stream is the sequence of the bytes left; an operator that  *)
(* reads returns what pb_decode.c returns, the value and the bytes left.   *)
(* A message runs in one interrupt and shares nothing: no step is torn.    *)
(***************************************************************************)
EXTENDS Naturals, Sequences, FiniteSetsExt

CONSTANTS
    WordBits,     \* width of uint32_t
    DoubleBits,   \* width of uint64_t
    SizeMax,      \* PB_SIZE_MAX
    DataMax       \* what sems_ActionData_data_t holds

Byte == 0..255

\* The powers are for the provers, which have no rules for them.
ASSUME WidthAssumption ==
    /\ {WordBits, DoubleBits, SizeMax, DataMax} \subseteq Nat \ {0}
    /\ {2 ^ WordBits, 2 ^ DoubleBits} \subseteq Nat \ {0}
    /\ WordBits <= DoubleBits /\ DataMax <= SizeMax /\ SizeMax < 2 ^ WordBits

Ok(value, rest) == [ok |-> TRUE, value |-> value, rest |-> rest]
Error(rest)     == [ok |-> FALSE, value |-> 0, rest |-> rest]
Drop(s, n)      == SubSeq(s, n + 1, Len(s))

\* pb_read and pb_readbyte, whose source is a buffer: nothing is read past its end.
Read(s, count) == IF Len(s) < count THEN Error(s) ELSE Ok(SubSeq(s, 1, count), Drop(s, count))

More(b) == b >= 128

\* The bytes of a varint, seven bits each; 0 if the stream ends first.
VarintLength(s) ==
    LET ends == {i \in DOMAIN s : ~More(s[i])} IN IF ends = {} THEN 0 ELSE Min(ends)

Groups(width) == (width + 6) \div 7

\* What the first n bytes stand for, the last the highest.
VarintValue(s, n) ==
    LET Value[i \in 0..n] == IF i = 0 THEN 0 ELSE 128 * Value[i - 1] + (s[n + 1 - i] % 128) IN Value[n]

\* The bits that do not fit are dropped, but a byte whose bits would all be dropped is an
\* error; what was read before an error is gone.
Varint(s, width) ==
    LET n == VarintLength(s)
    IN  IF n \in 1..Groups(width) THEN Ok(VarintValue(s, n) % 2 ^ width, Drop(s, n))
        ELSE Error(Drop(s, Min({Groups(width), Len(s)})))

VarintWord(s)   == Varint(s, WordBits)
VarintDouble(s) == Varint(s, DoubleBits)

\* A varint that is skipped may have any length.
SkipVarint(s) ==
    LET n == VarintLength(s) IN IF n = 0 THEN Error(<<>>) ELSE Ok(0, Drop(s, n))

SkipString(s) == LET size == VarintWord(s) IN IF size.ok THEN Read(size.rest, size.value) ELSE size

PB_WT == [varint |-> 0, fixed64 |-> 1, string |-> 2, fixed32 |-> 5]

SkipField(s, wire_type) ==
    CASE wire_type = PB_WT.varint  -> SkipVarint(s)
      [] wire_type = PB_WT.fixed64 -> Read(s, 8)
      [] wire_type = PB_WT.string  -> SkipString(s)
      [] wire_type = PB_WT.fixed32 -> Read(s, 4)
      [] OTHER         -> Error(s)

\* The tag of the next field.  A tag of 0 ends the message; so does an error that leaves no
\* byte, whether the stream ended inside the tag or just after one that is too long.
Tag(s) ==
    LET temp == VarintWord(s) IN
    [ok |-> temp.ok /\ temp.value # 0,
     eof |-> (~temp.ok /\ temp.rest = <<>>) \/ (temp.ok /\ temp.value = 0),
     tag |-> temp.value \div 8, wire_type |-> temp.value % 8, rest |-> temp.rest]

\* sems_ActionData_fields.
ActionFields == {[tag |-> 1, name |-> "id"], [tag |-> 2, name |-> "cmd"],
                 [tag |-> 3, name |-> "data"], [tag |-> 4, name |-> "state"]}
RequiredFields == {"id", "cmd"}

\* pb_field_iter_find: the search wraps around, so the order of the fields is free.
Find(tag) == {f \in ActionFields : f.tag = tag}

\* pb_message_set_to_defaults.
Defaults == [id |-> 0, cmd |-> 0, state |-> 0, has_data |-> FALSE, has_state |-> FALSE,
             size |-> 0, bytes |-> [i \in 0..DataMax |-> 0]]

\* pb_dec_uvarint: an integer that does not fit is an error.
Unsigned(s) ==
    LET v == VarintDouble(s) IN
    IF v.ok /\ v.value >= 2 ^ WordBits THEN Error(v.rest) ELSE v

\* Mutated: the length is not compared with what the message holds.
BytesUnchecked(s) == SkipString(s)

\* pb_dec_bytes.
Bytes(s) ==
    LET size == VarintWord(s) IN
    IF ~size.ok \/ size.value > SizeMax \/ size.value > DataMax THEN Error(size.rest)
    ELSE Read(size.rest, size.value)

\* decode_static_field: the wire type of a field that is known is not looked at.
Field(s, name) == IF name = "data" THEN Bytes(s) ELSE Unsigned(s)

\* A repeated field overwrites what it holds; bytes past its size keep older ones.
Store(m, name, value) ==
    CASE name = "data" ->
            [m EXCEPT !.has_data = TRUE, !.size = Len(value),
                      !.bytes = [i \in 0..DataMax |->
                                    IF i < Len(value) THEN value[i + 1] ELSE m.bytes[i]]]
      [] name = "state" -> [m EXCEPT !.has_state = TRUE, !.state = value]
      [] OTHER -> [m EXCEPT ![name] = value]

=============================================================================
