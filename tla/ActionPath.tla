----------------------------- MODULE ActionPath -----------------------------
(***************************************************************************)
(* From a write of the action characteristic to the IR actuator:           *)
(* ble_action_service.c decodes the message, main.c's ble_action_handler   *)
(* makes IR data of it, and the raw or the NEC encoder makes durations.    *)
(* Everything runs in the BLE interrupt; the actuator sends meanwhile and  *)
(* refuses what comes too early.                                           *)
(***************************************************************************)
EXTENDS ActionFormat, SequencesExt

CONSTANTS
    Packets,            \* what a central writes: sequences of pieces
    Cuts,               \* how many of its last bytes are missing
    RawId, NecId,       \* 0x5000 and 0x5001
    SEMS_IR_BUFFER_LEN,
    Repeats             \* repeat counts of a NEC frame that main sends

\* A frame fits the buffer, and so does the data of a message, one duration for two bytes; an
\* index of the buffer is an int8_t.  The powers are for the provers, which have no rules for them.
ASSUME ActionAssumption ==
    /\ \A p \in Packets : p \in Seq(ToSet(p)) /\ \A k \in DOMAIN p : IsPiece(p[k])
    /\ Cuts \subseteq Nat /\ Repeats \subseteq Nat
    /\ SEMS_IR_BUFFER_LEN \in 68..128 /\ DataMax <= SEMS_IR_BUFFER_LEN
    /\ 2 ^ 0 = 1 /\ \A i \in 1..7 : 2 ^ i = 2 * 2 ^ (i - 1)

VARIABLES
    booted,       \* what main has done: "sems_init", "handler", "sems_ble_start"
    packet,       \* history: the pieces of the last write
    cut,          \* history: the bytes its end lacks
    phase,        \* of on_write
    stream, message, seen,
    rounds,       \* history: how often the decoder's loop went round
    busy,         \* the actuator's m_busy
    sent          \* the durations given to the carrier

vars == <<booted, packet, cut, phase, stream, message, seen, rounds, busy, sent>>

-----------------------------------------------------------------------------
(* The encoders.                                                            *)

\* Two bytes make a duration, the high byte first; an odd last byte is dropped.
RawDurations(m) == [k \in 1..(m.size \div 2) |-> m.bytes[2 * k - 2] * 256 + m.bytes[2 * k - 1]]

Bit(b, i) == (b \div 2 ^ i) % 2
Complement(b) == 255 - b

\* The word of a NEC frame: address, its complement, command, its complement, each with its
\* low bit first.
NecBits(address, command) ==
    [k \in 0..31 |-> Bit(<<address, Complement(address), command, Complement(command)>>[(k \div 8) + 1],
                         k % 8)]

\* Mutated: a one is a short space, as a zero is.
ShortSpace(bit) == 560

\* A bit is a mark and a space; the length of the space is its value.
Space(bit) == IF bit = 1 THEN 1690 ELSE 560

NecFrame(address, command) ==
    LET bits == NecBits(address, command)
        Ones == {k \in 0..31 : bits[k] = 1}
        \* total_us takes a one for 2250 us and a zero for 1120.
        total_us == 13500 + Cardinality(Ones) * 2250 + (32 - Cardinality(Ones)) * 1120 + 560
    IN  [n \in 1..68 |->
            CASE n = 1 -> 9000 [] n = 2 -> 4500
              [] n = 67 -> 560 [] n = 68 -> 110000 - total_us
              [] OTHER -> IF n % 2 = 1 THEN 560 ELSE Space(bits[(n - 3) \div 2])]

RepeatFits(index) == index < SEMS_IR_BUFFER_LEN - 4

\* The repeats that follow a frame, or an error if one finds no room.
NecEncode(address, command, repeat) ==
    LET frame == NecFrame(address, command)
        Again(n) == <<9000, 2250, 560, 98190>>[((n - 69) % 4) + 1]
    IN  [ok |-> \A i \in 0..(repeat - 1) : RepeatFits(68 + 4 * i),
         durations |-> [n \in 1..(68 + 4 * repeat) |-> IF n <= 68 THEN frame[n] ELSE Again(n)]]

-----------------------------------------------------------------------------
Init ==
    /\ booted = "sems_init"
    /\ packet = <<>> /\ cut = 0
    /\ phase = "idle"
    /\ stream = <<>> /\ message = Defaults /\ seen = {} /\ rounds = 0
    /\ busy = FALSE /\ sent = <<>>

\* main: the handler is set before advertising starts, and nobody connects before that.
Boot ==
    /\ \/ booted = "sems_init" /\ booted' = "handler"
       \/ booted = "handler" /\ booted' = "sems_ble_start"
    /\ UNCHANGED <<packet, cut, phase, stream, message, seen, rounds, busy, sent>>

PiecesBytes(p) == FlattenSeq([k \in DOMAIN p |-> p[k].bytes])

\* A write of the action characteristic; pb_decode begins.
OnWrite(p, c) ==
    /\ booted = "sems_ble_start" /\ phase = "idle"
    /\ c <= Len(PiecesBytes(p))
    /\ packet' = p /\ cut' = c
    /\ stream' = SubSeq(PiecesBytes(p), 1, Len(PiecesBytes(p)) - c)
    /\ message' = Defaults /\ seen' = {} /\ rounds' = 0
    /\ phase' = "decoding"
    /\ UNCHANGED <<booted, busy, sent>>

\* The write is done with: a message that failed to decode goes nowhere.
Done ==
    /\ phase' = "idle" /\ packet' = <<>> /\ cut' = 0
    /\ stream' = <<>> /\ message' = Defaults /\ seen' = {} /\ rounds' = 0

\* One round of pb_decode_noinit's loop: a field that is known,
DecodeField ==
    LET t == Tag(stream) IN
    /\ phase = "decoding" /\ stream # <<>> /\ t.ok
    /\ \E f \in Find(t.tag) : LET r == Field(t.rest, f.name) IN
        /\ seen' = seen \cup ({f.name} \cap RequiredFields)
        /\ IF r.ok THEN /\ stream' = r.rest
                        /\ message' = Store(message, f.name, r.value)
                        /\ UNCHANGED phase
                   ELSE phase' = "refused" /\ UNCHANGED <<stream, message>>
    /\ rounds' = rounds + 1
    /\ UNCHANGED <<booted, packet, cut, busy, sent>>

\* Mutated: a field that is not known is left to the next round.
SkipTagOnly ==
    LET t == Tag(stream) IN
    /\ phase = "decoding" /\ stream # <<>> /\ t.ok
    /\ Find(t.tag) = {}
    /\ phase' = IF SkipField(t.rest, t.wire_type).ok THEN "decoding" ELSE "refused"
    /\ UNCHANGED stream
    /\ rounds' = rounds + 1
    /\ UNCHANGED <<booted, packet, cut, message, seen, busy, sent>>

\* one that is not,
SkipUnknown ==
    LET t == Tag(stream) IN
    /\ phase = "decoding" /\ stream # <<>> /\ t.ok
    /\ Find(t.tag) = {}
    /\ LET r == SkipField(t.rest, t.wire_type) IN
        IF r.ok THEN stream' = r.rest /\ UNCHANGED phase
                ELSE phase' = "refused" /\ UNCHANGED stream
    /\ rounds' = rounds + 1
    /\ UNCHANGED <<booted, packet, cut, message, seen, busy, sent>>

\* Mutated: the message is taken whatever fields it has.
DecodeEndsUnchecked ==
    /\ phase = "decoding"
    /\ stream = <<>> \/ Tag(stream).eof
    /\ phase' = "decoded"
    /\ UNCHANGED <<booted, packet, cut, stream, message, seen, rounds, busy, sent>>

\* or the end of the message, which has to have the required fields.
DecodeEnds ==
    /\ phase = "decoding"
    /\ stream = <<>> \/ Tag(stream).eof
    /\ phase' = IF seen = RequiredFields THEN "decoded" ELSE "refused"
    /\ UNCHANGED <<booted, packet, cut, stream, message, seen, rounds, busy, sent>>

BadTag ==
    /\ phase = "decoding" /\ stream # <<>>
    /\ ~Tag(stream).ok /\ ~Tag(stream).eof
    /\ phase' = "refused"
    /\ UNCHANGED <<booted, packet, cut, stream, message, seen, rounds, busy, sent>>

\* sems_actuator_execute: an actuator that sends refuses; main.c logs it or ignores it.  One
\* that gets no durations stays busy (IrActuator).
Execute(durations) ==
    IF busy THEN UNCHANGED <<busy, sent>>
    ELSE busy' = TRUE /\ sent' = durations

HasData == message.has_data /\ message.size > 0

HandleRaw ==
    /\ phase = "decoded" /\ message.id = RawId /\ HasData
    /\ Execute(RawDurations(message))
    /\ phase' = "handled"
    /\ UNCHANGED <<booted, packet, cut, stream, message, seen, rounds>>

\* A message of one byte takes what the buffer holds for its command.
HandleNec ==
    /\ phase = "decoded" /\ message.id = NecId /\ HasData
    /\ Execute(NecEncode(message.bytes[0], message.bytes[1], 0).durations)
    /\ phase' = "handled"
    /\ UNCHANGED <<booted, packet, cut, stream, message, seen, rounds>>

HandleOther ==
    /\ phase = "decoded" /\ (message.id \notin {RawId, NecId} \/ ~HasData)
    /\ phase' = "handled"
    /\ UNCHANGED <<booted, packet, cut, stream, message, seen, rounds, busy, sent>>

WriteReturns ==
    /\ phase \in {"refused", "handled"}
    /\ Done
    /\ UNCHANGED <<booted, busy, sent>>

\* main sends a frame with repeats through the actuator.
SendNec(r) ==
    /\ phase = "idle" /\ ~busy
    /\ LET e == NecEncode(0, 0, r) IN
        /\ busy' = TRUE
        /\ sent' = IF e.ok THEN e.durations ELSE <<>>
    /\ UNCHANGED <<booted, packet, cut, phase, stream, message, seen, rounds>>

\* The counter interrupt has sent the last duration.
SendEnds ==
    /\ busy /\ sent # <<>>
    /\ busy' = FALSE /\ sent' = <<>>
    /\ UNCHANGED <<booted, packet, cut, phase, stream, message, seen, rounds>>

Decode == DecodeField \/ SkipUnknown \/ DecodeEnds \/ BadTag
Handle == HandleRaw \/ HandleNec \/ HandleOther

Next ==
    \/ Boot \/ Decode \/ Handle \/ WriteReturns \/ SendEnds
    \/ phase = "idle" /\ \E p \in Packets, c \in Cuts : OnWrite(p, c)
    \/ \E r \in Repeats : SendNec(r)

Spec == Init /\ [][Next]_vars

-----------------------------------------------------------------------------
\* Types of the variables of on_write and of the decoder it runs; and every frame fits the actuator's
\* buffer, and its index an int8_t, whatever the repeat count.
TypeOK ==
    /\ booted \in {"sems_init", "handler", "sems_ble_start"}
    /\ cut \in Cuts \cup {0}
    /\ phase \in {"idle", "decoding", "decoded", "refused", "handled"}
    /\ stream \in Seq(Byte)
    /\ message \in [id : Nat, cmd : Nat, state : Nat, has_data : BOOLEAN, has_state : BOOLEAN,
                     size : 0..DataMax, bytes : [0..DataMax -> Byte]]
    /\ seen \subseteq RequiredFields /\ rounds \in Nat
    /\ busy \in BOOLEAN
    /\ DOMAIN sent = 1..Len(sent) /\ \A k \in DOMAIN sent : sent[k] \in Nat
    /\ Len(sent) <= SEMS_IR_BUFFER_LEN /\ Len(sent) < 128

\* What was written: the pieces that arrived whole, up to one that ends the message, and
\* whether the last bytes are part of another piece, past its tag.
Length == Len(PiecesBytes(packet)) - cut
Whole  == Max({k \in 0..Len(packet) : Len(PiecesBytes(SubSeq(packet, 1, k))) <= Length})
Ends   == {k \in 1..Whole : packet[k].name = "end"}
Fields == 1..(IF Ends = {} THEN Whole ELSE Min(Ends) - 1)
Torn   == /\ Ends = {} /\ Whole < Len(packet)
          /\ Length - Len(PiecesBytes(SubSeq(packet, 1, Whole))) >= packet[Whole + 1].tag
Arrived(name) == {k \in Fields : packet[k].name = name}
LastValue(name) == packet[Max(Arrived(name))].value

\* What is to be accepted: no field is malformed, an id and a cmd are among them, none is torn.
WellFormed ==
    /\ \A k \in Fields : packet[k].name # "malformed"
    /\ \A name \in RequiredFields : Arrived(name) # {}
    /\ ~Torn

\* The message holds the last value of each of its fields, and says which it has.
LastValues ==
    /\ message.id = LastValue("id") /\ message.cmd = LastValue("cmd")
    /\ message.has_state = (Arrived("state") # {})
    /\ message.has_state => message.state = LastValue("state")
    /\ message.has_data = (Arrived("data") # {})
    /\ message.has_data => SubSeq([i \in 1..DataMax |-> message.bytes[i - 1]], 1, message.size)
                              = LastValue("data")

\* The decoder accepts exactly the writes whose fields arrived whole, are well formed and
\* include an id and a cmd, however they are ordered, repeated, mixed with fields it does not
\* know or cut off between fields (or inside a tag, which reads as the end); and the message
\* holds the last value of each field.
DecodesWhatArrived ==
    /\ phase \in {"decoded", "handled", "refused"} => ((phase # "refused") <=> WellFormed)
    /\ phase \in {"decoded", "handled"} => LastValues

\* A NEC receiver tells a one from a zero by the length of the space.
Hears(d, n) == IF d[2 * n + 4] > 1000 THEN 1 ELSE 0
HeardByte(d, j) ==
    LET bit(i) == Hears(d, 8 * j + i)
    IN  bit(0) + 2 * bit(1) + 4 * bit(2) + 8 * bit(3)
        + 16 * bit(4) + 32 * bit(5) + 64 * bit(6) + 128 * bit(7)
Duration(d) ==
    LET Total[n \in 0..Len(d)] == IF n = 0 THEN 0 ELSE Total[n - 1] + d[n] IN Total[Len(d)]

\* What a receiver hears of an action is what the central wrote: the raw durations, or a NEC frame of
\* 110 ms with the address and the command and their complements.
HearsWhatWasWritten(durations) ==
    LET data == LastValue("data") IN
    \/ /\ message.id = RawId
       /\ durations = [k \in 1..(Len(data) \div 2) |-> 256 * data[2 * k - 1] + data[2 * k]]
    \/ /\ message.id = NecId
       /\ HeardByte(durations, 0) = data[1] /\ HeardByte(durations, 1) = 255 - data[1]
       /\ Len(data) > 1 => HeardByte(durations, 2) = data[2]
       /\ HeardByte(durations, 3) = 255 - HeardByte(durations, 2)
       /\ Duration(durations) = 110000

\* An action that is handled changes nothing, as one does that comes while another is sent, or what
\* a receiver hears of it is what the central wrote.
SendsWhatWasWritten ==
    [][phase' = "handled" /\ phase # "handled" =>
        sent' = sent \/ (~busy /\ HearsWhatWasWritten(sent'))]_vars

\* The interrupt that decodes ends, whatever is written: each round of the decoder's loop takes a
\* byte at least, so no field is read again and again.
RoundsBounded == phase = "decoding" => rounds + Len(stream) <= Length

=============================================================================
