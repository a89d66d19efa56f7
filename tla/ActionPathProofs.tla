-------------------------- MODULE ActionPathProofs --------------------------
(***************************************************************************)
(* What happens to a write of the action characteristic, whatever a        *)
(* central writes: the types of the decoder and of what the actuator gets, *)
(* that the interrupt that decodes ends, that the decoder accepts what     *)
(* arrived and nothing else, and that a receiver hears what was written.   *)
(***************************************************************************)
EXTENDS ActionPath, PbProofs

-----------------------------------------------------------------------------
(* Packets.                                                                 *)

\* One sequence after another: such a function there is.
LEMMA FlattenDefined ==
    ASSUME NEW n \in Nat, NEW seqs
    PROVE  \E f : f = [i \in 1..n |-> IF i = 1 THEN seqs[i] ELSE f[i - 1] \o seqs[i]]
<1> DEFINE Defines(f, k) == f = [i \in 1..k |-> IF i = 1 THEN seqs[i] ELSE f[i - 1] \o seqs[i]]
           S == {k \in Nat : \E f : Defines(f, k)}
<1>1. 0 \in S
  <2> DEFINE f == [i \in 1..0 |-> 0]
  <2>1. Defines(f, 0)
    OBVIOUS
  <2> QED BY <2>1
<1>2. ASSUME NEW k \in Nat, k \in S PROVE k + 1 \in S
  <2>1. PICK f : Defines(f, k)
    BY <1>2
  <2> DEFINE g == [i \in 1..k + 1 |-> IF i = 1 THEN seqs[i] ELSE f[i - 1] \o seqs[i]]
  <2>2. ASSUME NEW i \in 1..k + 1
        PROVE  g[i] = IF i = 1 THEN seqs[i] ELSE g[i - 1] \o seqs[i]
    <3>1. \A j \in 1..k : g[j] = f[j]
      <4>1. \A j \in 1..k : f[j] = IF j = 1 THEN seqs[j] ELSE f[j - 1] \o seqs[j]
        BY <2>1
      <4>2. \A j \in 1..k + 1 : g[j] = IF j = 1 THEN seqs[j] ELSE f[j - 1] \o seqs[j]
        BY Zenon
      <4>3. \A j \in 1..k : j \in 1..k + 1
        OBVIOUS
      <4> HIDE DEF g
      <4> QED BY <4>1, <4>2, <4>3
    <3>2. i # 1 => i - 1 \in 1..k
      OBVIOUS
    <3>3. g[i] = IF i = 1 THEN seqs[i] ELSE f[i - 1] \o seqs[i]
      OBVIOUS
    <3> HIDE DEF g
    <3> QED BY <3>1, <3>2, <3>3
  <2>3. Defines(g, k + 1)
    BY <2>2
  <2> HIDE DEF g, Defines
  <2>4. k + 1 \in Nat
    OBVIOUS
  <2> QED BY <2>3, <2>4, Zenon
<1> HIDE DEF S
<1>3. \A k \in Nat : k \in S
  BY <1>1, <1>2, SetInduction
<1> QED BY <1>3 DEF S

\* What sequences make, one after another.
LEMMA FlattenType ==
    ASSUME NEW T, NEW seqs \in Seq(Seq(T))
    PROVE  FlattenSeq(seqs) \in Seq(T)
<1> DEFINE n == Len(seqs)
           flatten[i \in 1..n] == IF i = 1 THEN seqs[i] ELSE flatten[i - 1] \o seqs[i]
<1>1. n \in Nat /\ \A i \in 1..n : seqs[i] \in Seq(T)
  BY LenProperties, ElementOfSeq
<1>2. CASE n = 0
  <2>1. FlattenSeq(seqs) = seqs /\ seqs = <<>>
    BY <1>2 DEF FlattenSeq
  <2> QED BY <2>1
<1>3. CASE n # 0
  <2>1. flatten = [i \in 1..n |-> IF i = 1 THEN seqs[i] ELSE flatten[i - 1] \o seqs[i]]
    BY <1>1, FlattenDefined
  <2>2. FlattenSeq(seqs) = flatten[n]
    BY <1>3 DEF FlattenSeq
  <2> HIDE DEF flatten
  <2> DEFINE S == {k \in Nat : k + 1 \in 1..n => flatten[k + 1] \in Seq(T)}
  <2>3. 0 \in S
    BY <1>1, <2>1
  <2>4. ASSUME NEW k \in Nat, k \in S PROVE k + 1 \in S
    <3> SUFFICES ASSUME (k + 1) + 1 \in 1..n PROVE flatten[(k + 1) + 1] \in Seq(T)
      OBVIOUS
    <3>1. flatten[(k + 1) + 1] = flatten[k + 1] \o seqs[(k + 1) + 1]
      <4>1. \A i \in 1..n : flatten[i] = IF i = 1 THEN seqs[i] ELSE flatten[i - 1] \o seqs[i]
        BY <2>1, Zenon
      <4>2. (k + 1) + 1 # 1 /\ ((k + 1) + 1) - 1 = k + 1
        OBVIOUS
      <4> QED BY <4>1, <4>2
    <3>2. flatten[k + 1] \in Seq(T) /\ seqs[(k + 1) + 1] \in Seq(T)
      BY <1>1, <2>4
    <3> QED BY <3>1, <3>2, ConcatProperties
  <2> HIDE DEF S
  <2>5. \A k \in Nat : k \in S
    BY <2>3, <2>4, SetInduction
  <2>6. n - 1 \in Nat /\ (n - 1) + 1 = n /\ n \in 1..n
    BY <1>1, <1>3
  <2> QED BY <2>2, <2>5, <2>6 DEF S
<1> QED BY <1>2, <1>3

\* The numbers of ActionAssumption.
LEMMA Limits ==
    /\ Cuts \subseteq Nat /\ Repeats \subseteq Nat
    /\ DataMax \in Nat /\ SEMS_IR_BUFFER_LEN \in 68..128 /\ DataMax <= SEMS_IR_BUFFER_LEN
<1>1. DataMax \in Nat
  BY WidthAssumption
<1> QED BY <1>1, ActionAssumption, Zenon

\* What a central writes is bytes.
LEMMA PacketBytes ==
    ASSUME NEW p \in Packets \cup {<<>>}
    PROVE  PiecesBytes(p) \in Seq(Byte) /\ Len(PiecesBytes(p)) \in Nat
<1>1. [k \in DOMAIN p |-> p[k].bytes] \in Seq(Seq(Byte))
  <2>1. CASE p \in Packets
    <3>1. p \in Seq(ToSet(p)) /\ \A k \in DOMAIN p : p[k].bytes \in Seq(Byte)
      BY <2>1, ActionAssumption DEF IsPiece
    <3>2. DOMAIN p = 1..Len(p) /\ Len(p) \in Nat
      BY <3>1, LenProperties
    <3> QED BY <3>1, <3>2, IsASeq
  <2>2. CASE p = <<>>
    <3>1. [k \in DOMAIN p |-> p[k].bytes] = <<>>
      BY <2>2
    <3> QED BY <3>1
  <2> QED BY <2>1, <2>2
<1> QED BY <1>1, FlattenType, LenProperties DEF PiecesBytes

-----------------------------------------------------------------------------
(* What the actuator gets.                                                  *)

\* The durations of a signal that the actuator can take.
Sendable(d) ==
    /\ DOMAIN d = 1..Len(d) /\ \A k \in DOMAIN d : d[k] \in Nat
    /\ Len(d) <= SEMS_IR_BUFFER_LEN /\ Len(d) < 128

\* Durations are given by a function of their places.
LEMMA SendableFunction ==
    ASSUME NEW n \in Nat, NEW d \in [1..n -> Nat], n <= SEMS_IR_BUFFER_LEN, n < 128
    PROVE  Sendable(d)
<1>1. DOMAIN d = 1..n /\ Len(d) = n
  OBVIOUS
<1> QED BY <1>1 DEF Sendable

\* Two bytes make a duration.
LEMMA RawSendable ==
    ASSUME NEW m, m.size \in 0..DataMax, m.bytes \in [0..DataMax -> Byte]
    PROVE  Sendable(RawDurations(m))
<1> DEFINE n == m.size \div 2
<1>1. n \in Nat /\ 2 * n <= DataMax /\ n <= SEMS_IR_BUFFER_LEN /\ n < 128
  BY Limits
<1>2. ASSUME NEW k \in 1..n PROVE m.bytes[2 * k - 2] * 256 + m.bytes[2 * k - 1] \in Nat
  <2>1. DataMax \in Nat
    BY WidthAssumption
  <2>2. k \in Nat /\ k >= 1 /\ 2 * k <= DataMax
    <3> HIDE DEF n
    <3> QED BY <1>1, <2>1
  <2>3. 2 * k - 2 \in 0..DataMax /\ 2 * k - 1 \in 0..DataMax
    BY <2>1, <2>2
  <2> DEFINE b == m.bytes
  <2>4. b \in [0..DataMax -> Byte]
    OBVIOUS
  <2> HIDE DEF b
  <2>5. b[2 * k - 2] \in Byte /\ b[2 * k - 1] \in Byte
    BY <2>3, <2>4
  <2>6. \A x, y \in Byte : x * 256 + y \in Nat
    BY DEF Byte
  <2>7. b[2 * k - 2] * 256 + b[2 * k - 1] \in Nat
    BY <2>5, <2>6
  <2> QED BY <2>7 DEF b
<1>3. RawDurations(m) \in [1..n -> Nat]
  BY <1>2 DEF RawDurations
<1> HIDE DEF n
<1> QED BY <1>1, <1>3, SendableFunction

\* A frame has 68 durations, and lasts no longer than 110 ms.
LEMMA FrameType ==
    ASSUME NEW address \in Byte, NEW command \in Byte
    PROVE  NecFrame(address, command) \in [1..68 -> Nat]
<1> DEFINE bits == NecBits(address, command)
           Ones == {k \in 0..31 : bits[k] = 1}
           total_us == 13500 + Cardinality(Ones) * 2250 + (32 - Cardinality(Ones)) * 1120 + 560
           D(n) == CASE n = 1 -> 9000 [] n = 2 -> 4500
                     [] n = 67 -> 560 [] n = 68 -> 110000 - total_us
                     [] OTHER -> IF n % 2 = 1 THEN 560 ELSE Space(bits[(n - 3) \div 2])
<1>1. NecFrame(address, command) = [n \in 1..68 |-> D(n)]
  BY DEF NecFrame
<1> HIDE DEF bits
<1>2. Cardinality(Ones) \in Nat /\ Cardinality(Ones) <= 32
  <2>1. IsFiniteSet(0..31) /\ Cardinality(0..31) = 32
    <3>1. 0 \in Int /\ 31 \in Int
      OBVIOUS
    <3>2. IsFiniteSet(0..31) /\ Cardinality(0..31) = IF 0 > 31 THEN 0 ELSE 31 - 0 + 1
      BY <3>1, FS_Interval, Zenon
    <3> DEFINE I == 0..31
    <3> HIDE DEF I
    <3>3. Cardinality(I) = 32
      BY <3>2 DEF I
    <3> QED BY <3>2, <3>3, Zenon DEF I
  <2>2. Ones \in SUBSET (0..31)
    OBVIOUS
  <2> HIDE DEF Ones
  <2> QED BY <2>1, <2>2, FS_Subset, FS_CardinalityType
<1> HIDE DEF Ones
<1>3. 110000 - total_us \in Nat
  <2> DEFINE c == Cardinality(Ones)
  <2>1. c \in Nat /\ c <= 32
    BY <1>2
  <2> HIDE DEF c
  <2>2. 110000 - (13500 + c * 2250 + (32 - c) * 1120 + 560) \in Nat
    BY <2>1
  <2> QED BY <2>2 DEF c
<1> HIDE DEF total_us
<1>4. \A bit : Space(bit) \in Nat
  BY DEF Space
<1>5. ASSUME NEW n \in 1..68 PROVE D(n) \in Nat
  BY <1>3, <1>4
<1> HIDE DEF D
<1> QED BY <1>1, <1>5

\* A frame with its repeats fits the buffer if the encoder says so.
LEMMA EncodeSendable ==
    ASSUME NEW address \in Byte, NEW command \in Byte, NEW repeat \in Nat,
           NecEncode(address, command, repeat).ok
    PROVE  Sendable(NecEncode(address, command, repeat).durations)
<1> DEFINE frame == NecFrame(address, command)
           m == 68 + 4 * repeat
           Again(n) == <<9000, 2250, 560, 98190>>[((n - 69) % 4) + 1]
           d == [n \in 1..m |-> IF n <= 68 THEN frame[n] ELSE Again(n)]
<1>1. /\ NecEncode(address, command, repeat).durations = d
      /\ \A i \in 0..(repeat - 1) : RepeatFits(68 + 4 * i)
  BY DEF NecEncode
<1>2. m \in Nat /\ m <= SEMS_IR_BUFFER_LEN /\ m < 128
  <2>1. SEMS_IR_BUFFER_LEN \in 68..128
    BY Limits
  <2>2. CASE repeat = 0
    BY <2>1, <2>2
  <2>3. CASE repeat # 0
    <3>1. repeat - 1 \in 0..(repeat - 1)
      BY <2>3
    <3>2. RepeatFits(68 + 4 * (repeat - 1))
      BY <1>1, <3>1
    <3> QED BY <2>1, <3>2 DEF RepeatFits
  <2> QED BY <2>2, <2>3
<1>3. frame \in [1..68 -> Nat]
  BY FrameType
<1>4. ASSUME NEW n \in 1..m PROVE (IF n <= 68 THEN frame[n] ELSE Again(n)) \in Nat
  <2>1. n <= 68 => frame[n] \in Nat
    <3> HIDE DEF frame
    <3> QED BY <1>3
  <2>2. n > 68 => Again(n) \in Nat
    <3>1. n > 68 => ((n - 69) % 4) + 1 \in 1..4
      OBVIOUS
    <3>2. \A k \in 1..4 : <<9000, 2250, 560, 98190>>[k] \in Nat
      OBVIOUS
    <3> QED BY <3>1, <3>2
  <2> HIDE DEF frame, Again
  <2> QED BY <1>2, <2>1, <2>2
<1>5. d \in [1..m -> Nat]
  <2> HIDE DEF frame, Again, m
  <2> QED BY <1>4
<1> HIDE DEF d, m
<1> QED BY <1>1, <1>2, <1>5, SendableFunction

\* A frame without repeats always fits.
LEMMA FrameFits ==
    ASSUME NEW address \in Byte, NEW command \in Byte
    PROVE  Sendable(NecEncode(address, command, 0).durations)
<1>1. NecEncode(address, command, 0).ok
  BY DEF NecEncode
<1> QED BY <1>1, EncodeSendable

\* Nothing to send is a signal as well.
LEMMA NothingSendable == Sendable(<<>>)
<1>1. SEMS_IR_BUFFER_LEN \in 68..128
  BY Limits
<1> QED BY <1>1 DEF Sendable

-----------------------------------------------------------------------------
(* The message.                                                             *)

Messages == [id : Nat, cmd : Nat, state : Nat, has_data : BOOLEAN, has_state : BOOLEAN,
             size : 0..DataMax, bytes : [0..DataMax -> Byte]]

\* The message that the decoder begins with.
LEMMA DefaultsType == Defaults \in Messages
<1>1. DataMax \in Nat
  BY WidthAssumption
<1> QED BY <1>1 DEF Defaults, Messages, Byte

\* A field that was read is stored where its type belongs.
LEMMA StoreType ==
    ASSUME NEW m \in Messages, NEW name \in {"id", "cmd", "data", "state"}, NEW value,
           IF name = "data" THEN value \in Seq(Byte) /\ Len(value) \in 0..DataMax ELSE value \in Nat
    PROVE  Store(m, name, value) \in Messages
<1>1. DataMax \in Nat
  BY WidthAssumption
<1>2. CASE name = "data"
  <2> DEFINE bytes == [i \in 0..DataMax |-> IF i < Len(value) THEN value[i + 1] ELSE m.bytes[i]]
  <2>1. Store(m, name, value) = [m EXCEPT !.has_data = TRUE, !.size = Len(value), !.bytes = bytes]
    BY <1>2 DEF Store
  <2>2. ASSUME NEW i \in 0..DataMax
        PROVE  (IF i < Len(value) THEN value[i + 1] ELSE m.bytes[i]) \in Byte
    <3>1. \A k \in 1..Len(value) : value[k] \in Byte
      BY <1>2, ElementOfSeq
    <3>2. i < Len(value) => i + 1 \in 1..Len(value)
      BY <1>1, <1>2
    <3>3. m.bytes[i] \in Byte
      BY DEF Messages
    <3> QED BY <3>1, <3>2, <3>3
  <2>3. bytes \in [0..DataMax -> Byte]
    BY <2>2
  <2> HIDE DEF bytes
  <2> QED BY <1>2, <2>1, <2>3 DEF Messages
<1>3. CASE name = "state"
  BY <1>3 DEF Store, Messages
<1>4. CASE name \in {"id", "cmd"}
  BY <1>4 DEF Store, Messages
<1> QED BY <1>2, <1>3, <1>4

-----------------------------------------------------------------------------
(* The invariant.  The bound of the rounds needs to know that what was       *)
(* written is bytes, and that each round takes some of them.                *)

IInv == TypeOK /\ packet \in Packets \cup {<<>>} /\ RoundsBounded

\* The types, by their names.
Types ==
    /\ booted \in {"sems_init", "handler", "sems_ble_start"}
    /\ cut \in Cuts \cup {0}
    /\ phase \in {"idle", "decoding", "decoded", "refused", "handled"}
    /\ stream \in Seq(Byte) /\ message \in Messages
    /\ seen \subseteq RequiredFields /\ rounds \in Nat
    /\ busy \in BOOLEAN /\ Sendable(sent)

\* What the types say of the actuator, and of the message.
LEMMA TypeParts == TypeOK <=> Types
BY Zenon DEF TypeOK, Types, Messages, Sendable

\* A signal that stays is as good as it was.
LEMMA SentStays == Sendable(sent) /\ UNCHANGED sent => Sendable(sent)'
BY DEF Sendable

\* It holds when the node starts.
LEMMA InitInv == Init => IInv
<1> SUFFICES ASSUME Init PROVE IInv
  OBVIOUS
<1>1. Defaults \in Messages /\ Sendable(<<>>)
  BY DefaultsType, NothingSendable
<1>2. sent = <<>> /\ message = Defaults /\ Sendable(sent)
  <2>1. sent = <<>> /\ message = Defaults
    BY DEF Init
  <2> QED BY <1>1, <2>1, Zenon
<1>3. Types
  <2>1. message \in Messages
    BY <1>1, <1>2, Zenon
  <2>2. /\ booted \in {"sems_init", "handler", "sems_ble_start"} /\ cut \in Cuts \cup {0}
        /\ phase \in {"idle", "decoding", "decoded", "refused", "handled"}
        /\ stream \in Seq(Byte) /\ seen \subseteq RequiredFields /\ rounds \in Nat
    <3>1. stream = <<>>
      BY DEF Init
    <3>2. stream \in Seq(Byte)
      BY <3>1
    <3> QED BY <3>2 DEF Init
  <2>3. busy \in BOOLEAN
    BY DEF Init
  <2> QED BY <1>2, <2>1, <2>2, <2>3, Zenon DEF Types
<1>4. TypeOK
  BY <1>3, TypeParts
<1> QED BY <1>4 DEF IInv, Init, RoundsBounded

\* A write, whatever was written, gives the decoder bytes.
LEMMA WriteStep ==
    ASSUME IInv, NEW p \in Packets, NEW c \in Cuts, OnWrite(p, c)
    PROVE  IInv'
<1> DEFINE L == Len(PiecesBytes(p))
<1>1. PiecesBytes(p) \in Seq(Byte) /\ L \in Nat /\ c \in Nat
  BY PacketBytes, Limits
<1>2. c <= L /\ stream' = SubSeq(PiecesBytes(p), 1, L - c) /\ packet' = p /\ cut' = c
  BY DEF OnWrite
<1>3. L - c \in 0..L
  BY <1>1, <1>2
<1>4. stream' \in Seq(Byte) /\ Len(stream') = L - c
  BY <1>1, <1>2, <1>3, FirstBytes
<1>5. Defaults \in Messages
  BY DefaultsType
<1>6. TypeOK'
  <2>1. Types
    BY TypeParts DEF IInv
  <2>2. Types'
    BY <1>4, <1>5, <2>1, SentStays DEF OnWrite, Types
  <2> QED BY <2>2, TypeParts, PTL
<1>7. RoundsBounded'
  <2>1. rounds' = 0 /\ Length' = L - c
    BY <1>2 DEF OnWrite, Length
  <2> HIDE DEF L
  <2>2. rounds' + Len(stream') <= Length'
    BY <1>1, <1>3, <1>4, <2>1
  <2> QED BY <2>2 DEF RoundsBounded
<1> QED BY <1>2, <1>6, <1>7 DEF IInv

\* A round of the decoder that takes a byte keeps the bound.
LEMMA RoundTaken ==
    ASSUME IInv, phase = "decoding", rounds' = rounds + 1, UNCHANGED <<packet, cut>>,
           stream' \in Seq(Byte), Len(stream') < Len(stream)
    PROVE  RoundsBounded'
<1>1. /\ Len(stream) \in Nat /\ Len(stream') \in Nat /\ rounds \in Nat
      /\ cut \in Nat /\ Len(PiecesBytes(packet)) \in Nat
  <2>1. stream \in Seq(Byte) /\ rounds \in Nat /\ cut \in Nat /\ packet \in Packets \cup {<<>>}
    BY Limits DEF IInv, TypeOK
  <2>2. Len(PiecesBytes(packet)) \in Nat
    BY <2>1, PacketBytes
  <2> QED BY <2>1, <2>2, LenProperties
<1>2. Length' = Length /\ Length \in Int
  BY <1>1 DEF Length
<1>3. rounds + Len(stream) <= Length
  BY DEF IInv, RoundsBounded
<1> QED BY <1>1, <1>2, <1>3 DEF RoundsBounded

\* A field that is known.
LEMMA FieldStep ==
    ASSUME IInv, DecodeField
    PROVE  IInv'
<1> DEFINE t == Tag(stream)
<1>1. stream \in Seq(Byte) /\ message \in Messages /\ Len(stream) \in Nat
  BY TypeParts, LenProperties DEF IInv, Types
<1>2. /\ t.ok /\ t.rest \in Seq(Byte) /\ Len(t.rest) < Len(stream) /\ Len(t.rest) \in Nat
  BY <1>1, TagType, LenProperties DEF DecodeField
<1>3. PICK f \in Find(t.tag) :
        /\ seen' = seen \cup ({f.name} \cap RequiredFields)
        /\ IF Field(t.rest, f.name).ok
           THEN /\ stream' = Field(t.rest, f.name).rest
                /\ message' = Store(message, f.name, Field(t.rest, f.name).value)
                /\ phase' = phase
           ELSE phase' = "refused" /\ stream' = stream /\ message' = message
  BY DEF DecodeField
<1> DEFINE r == Field(t.rest, f.name)
<1> HIDE DEF t
<1>4. f.name \in {"id", "cmd", "data", "state"}
  BY DEF Find, ActionFields
<1>5. /\ r.ok \in BOOLEAN /\ r.rest \in Seq(Byte) /\ Len(r.rest) <= Len(t.rest)
      /\ r.ok => IF f.name = "data" THEN r.value \in Seq(Byte) /\ Len(r.value) \in 0..DataMax
                 ELSE r.value \in Nat
  BY <1>2, FieldType
<1>6. r.ok => Store(message, f.name, r.value) \in Messages
  <2> HIDE DEF r
  <2> QED BY <1>1, <1>4, <1>5, StoreType, Zenon
<1>7. /\ phase = "decoding" /\ rounds' = rounds + 1
      /\ UNCHANGED <<booted, packet, cut, busy, sent>>
  BY DEF DecodeField
<1>8. /\ stream' \in Seq(Byte) /\ message' \in Messages /\ seen' \subseteq RequiredFields
      /\ phase' \in {"decoding", "refused"}
      /\ phase' = "decoding" => Len(stream') < Len(stream)
  <2>1. Len(r.rest) \in Nat
    BY <1>5, LenProperties
  <2>2. Len(r.rest) < Len(stream)
    <3> HIDE DEF r
    <3> QED BY <1>1, <1>2, <1>5, <2>1
  <2>3. seen \subseteq RequiredFields
    BY TypeParts DEF IInv, Types
  <2> HIDE DEF r
  <2>4. CASE r.ok
    BY <1>3, <1>5, <1>6, <1>7, <2>2, <2>3, <2>4 DEF r
  <2>5. CASE ~r.ok
    BY <1>1, <1>3, <1>7, <2>3, <2>5 DEF r
  <2> QED BY <2>4, <2>5
<1>9. rounds' \in Nat
  BY <1>7 DEF IInv, TypeOK
<1>10. TypeOK'
  <2>1. Types
    BY TypeParts DEF IInv
  <2>2. Types'
    BY <1>7, <1>8, <1>9, <2>1, SentStays DEF Types
  <2> QED BY <2>2, TypeParts, PTL
<1>11. RoundsBounded'
  BY <1>7, <1>8, RoundTaken DEF RoundsBounded
<1> QED BY <1>7, <1>10, <1>11 DEF IInv

\* A field that is not known.
LEMMA SkipStep ==
    ASSUME IInv, SkipUnknown
    PROVE  IInv'
<1> DEFINE t == Tag(stream)
           r == SkipField(t.rest, t.wire_type)
<1>1. stream \in Seq(Byte) /\ Len(stream) \in Nat
  BY LenProperties DEF IInv, TypeOK
<1>2. /\ t.rest \in Seq(Byte) /\ t.wire_type \in Nat /\ Len(t.rest) \in Nat
      /\ Len(t.rest) < Len(stream)
  BY <1>1, TagType, LenProperties DEF SkipUnknown
<1>3. /\ phase = "decoding" /\ rounds' = rounds + 1
      /\ IF r.ok THEN stream' = r.rest /\ phase' = phase ELSE phase' = "refused" /\ stream' = stream
      /\ UNCHANGED <<booted, packet, cut, message, seen, busy, sent>>
  BY DEF SkipUnknown
<1> HIDE DEF t
<1>4. r.ok \in BOOLEAN /\ r.rest \in Seq(Byte) /\ Len(r.rest) <= Len(t.rest) /\ Len(r.rest) \in Nat
  BY <1>2, SkipFieldType, LenProperties
<1> HIDE DEF r
<1>5. Len(r.rest) < Len(stream)
  BY <1>1, <1>2, <1>4
<1>6. /\ stream' \in Seq(Byte) /\ phase' \in {"decoding", "refused"}
      /\ phase' = "decoding" => Len(stream') < Len(stream)
  BY <1>1, <1>3, <1>4, <1>5
<1>7. rounds' \in Nat
  BY <1>3 DEF IInv, TypeOK
<1>8. TypeOK'
  <2>1. Types
    BY TypeParts DEF IInv
  <2>2. Types'
    BY <1>3, <1>6, <1>7, <2>1, SentStays DEF Types
  <2> QED BY <2>2, TypeParts, PTL
<1>9. RoundsBounded'
  BY <1>3, <1>6, RoundTaken DEF RoundsBounded
<1> QED BY <1>3, <1>8, <1>9 DEF IInv

\* The actuator takes a signal, or refuses it.
LEMMA ExecuteStep ==
    ASSUME IInv, NEW durations, Sendable(durations), Execute(durations)
    PROVE  busy' \in BOOLEAN /\ Sendable(sent)'
<1>1. busy \in BOOLEAN /\ Sendable(sent)
  BY TypeParts DEF IInv, Types
<1>2. (busy' = busy /\ sent' = sent) \/ (busy' = TRUE /\ sent' = durations)
  BY DEF Execute
<1>3. CASE busy' = busy /\ sent' = sent
  BY <1>1, <1>3 DEF Sendable
<1>4. CASE busy' = TRUE /\ sent' = durations
  BY <1>4 DEF Sendable
<1> QED BY <1>2, <1>3, <1>4

\* A step that leaves the decoder alone and ends no decoding keeps the invariant if the actuator
\* gets a signal that it can take.
LEMMA ActuatorStep ==
    ASSUME IInv, UNCHANGED <<packet, cut, stream, message, seen, rounds>>,
           booted' \in {"sems_init", "handler", "sems_ble_start"},
           phase' \in {"idle", "decoded", "refused", "handled"},
           busy' \in BOOLEAN, Sendable(sent)'
    PROVE  IInv'
<1>1. TypeOK'
  <2>1. Types
    BY TypeParts DEF IInv
  <2>2. Types'
    BY <2>1, SentStays DEF Types
  <2> QED BY <2>2, TypeParts, PTL
<1> QED BY <1>1 DEF IInv, RoundsBounded

\* No step gives the decoder or the actuator anything else.
LEMMA NextInv ==
    ASSUME IInv, [Next]_vars
    PROVE  IInv'
<1>1. /\ booted \in {"sems_init", "handler", "sems_ble_start"} /\ busy \in BOOLEAN
      /\ phase \in {"idle", "decoding", "decoded", "refused", "handled"}
      /\ Sendable(sent) /\ message \in Messages
  BY TypeParts DEF IInv, Types
<1>2. CASE Boot
  <2>1. booted' \in {"sems_init", "handler", "sems_ble_start"}
    BY <1>2 DEF Boot
  <2>2. UNCHANGED <<packet, cut, phase, stream, message, seen, rounds, busy, sent>>
    BY <1>2 DEF Boot
  <2>3. TypeOK'
    <3>1. Types
      BY TypeParts DEF IInv
    <3>2. Types'
      BY <2>1, <2>2, <1>1, <3>1, SentStays DEF Types
    <3> QED BY <3>2, TypeParts, PTL
  <2> QED BY <2>2, <2>3 DEF IInv, RoundsBounded, Length
<1>3. CASE DecodeField
  BY <1>3, FieldStep
<1>4. CASE SkipUnknown
  BY <1>4, SkipStep
<1>5. CASE DecodeEnds
  <2>1. UNCHANGED sent => (Sendable(sent) => Sendable(sent)')
    BY DEF Sendable
  <2> QED BY <1>1, <1>5, <2>1, ActuatorStep DEF DecodeEnds
<1>6. CASE BadTag
  <2>1. UNCHANGED sent => (Sendable(sent) => Sendable(sent)')
    BY DEF Sendable
  <2> QED BY <1>1, <1>6, <2>1, ActuatorStep DEF BadTag
<1>7. CASE HandleRaw
  <2>1. message.size \in 0..DataMax /\ message.bytes \in [0..DataMax -> Byte]
    BY <1>1 DEF Messages
  <2>2. Sendable(RawDurations(message))
    BY <2>1, RawSendable
  <2>3. Execute(RawDurations(message))
    BY <1>7 DEF HandleRaw
  <2>4. busy' \in BOOLEAN /\ Sendable(sent)'
    BY <2>2, <2>3, ExecuteStep
  <2> QED BY <1>1, <1>7, <2>4, ActuatorStep DEF HandleRaw
<1>8. CASE HandleNec
  <2> DEFINE d == NecEncode(message.bytes[0], message.bytes[1], 0).durations
  <2>1. message.bytes[0] \in Byte /\ message.bytes[1] \in Byte
    <3>1. 0 \in 0..DataMax /\ 1 \in 0..DataMax
      BY WidthAssumption
    <3> QED BY <1>1, <3>1 DEF Messages
  <2>2. Sendable(d)
    BY <2>1, FrameFits
  <2>3. Execute(d)
    BY <1>8 DEF HandleNec
  <2> HIDE DEF d
  <2>4. busy' \in BOOLEAN /\ Sendable(sent)'
    BY <2>2, <2>3, ExecuteStep
  <2> QED BY <1>1, <1>8, <2>4, ActuatorStep DEF HandleNec
<1>9. CASE HandleOther
  <2>1. UNCHANGED sent => (Sendable(sent) => Sendable(sent)')
    BY DEF Sendable
  <2> QED BY <1>1, <1>9, <2>1, ActuatorStep DEF HandleOther
<1>10. CASE WriteReturns
  <2>1. /\ stream' = <<>> /\ message' = Defaults /\ seen' = {} /\ rounds' = 0
        /\ packet' = <<>> /\ cut' = 0 /\ phase' = "idle" /\ UNCHANGED <<booted, busy, sent>>
    BY <1>10 DEF WriteReturns, Done
  <2>2. stream' \in Seq(Byte) /\ message' \in Messages
    BY <2>1, DefaultsType
  <2>3. Sendable(sent)'
    BY <1>1, <2>1 DEF Sendable
  <2>4. TypeOK'
    <3>1. Types
      BY TypeParts DEF IInv
    <3>2. Types'
      BY <1>1, <2>1, <2>2, <2>3, <3>1, SentStays DEF Types
    <3> QED BY <3>2, TypeParts, PTL
  <2> QED BY <2>1, <2>4 DEF IInv, RoundsBounded
<1>11. ASSUME NEW p \in Packets, NEW c \in Cuts, OnWrite(p, c) PROVE IInv'
  BY <1>11, WriteStep
<1>12. ASSUME NEW r \in Repeats, SendNec(r) PROVE IInv'
  <2> DEFINE e == NecEncode(0, 0, r)
  <2>1. 0 \in Byte /\ r \in Nat
    BY Limits DEF Byte
  <2>2. e.ok => Sendable(e.durations)
    BY <2>1, EncodeSendable
  <2>3. /\ busy' = TRUE /\ sent' = (IF e.ok THEN e.durations ELSE <<>>) /\ phase = "idle"
        /\ UNCHANGED <<booted, packet, cut, phase, stream, message, seen, rounds>>
    BY <1>12 DEF SendNec
  <2> HIDE DEF e
  <2>4. Sendable(sent)'
    BY <2>2, <2>3, NothingSendable DEF Sendable
  <2> QED BY <1>1, <2>3, <2>4, ActuatorStep
<1>13. CASE SendEnds
  <2>1. /\ busy' = FALSE /\ sent' = <<>>
        /\ UNCHANGED <<booted, packet, cut, phase, stream, message, seen, rounds>>
    BY <1>13 DEF SendEnds
  <2>2. Sendable(sent)'
    BY <2>1, NothingSendable DEF Sendable
  <2>3. TypeOK'
    <3>1. Types
      BY TypeParts DEF IInv
    <3>2. Types'
      BY <1>1, <2>1, <2>2, <3>1, SentStays DEF Types
    <3> QED BY <3>2, TypeParts, PTL
  <2> QED BY <2>1, <2>3 DEF IInv, RoundsBounded, Length
<1>14. CASE UNCHANGED vars
  <2>1. TypeOK'
    BY <1>14 DEF IInv, TypeOK, vars
  <2> QED BY <1>14, <2>1 DEF IInv, RoundsBounded, Length, vars
<1> QED
  BY <1>2, <1>3, <1>4, <1>5, <1>6, <1>7, <1>8, <1>9, <1>10, <1>11, <1>12, <1>13, <1>14
  DEF Next, Decode, Handle

\* The invariant holds of every behaviour.
LEMMA Inductive == Spec => []IInv
<1>1. Init => IInv
  BY InitInv
<1>2. IInv /\ [Next]_vars => IInv'
  BY NextInv
<1> QED BY <1>1, <1>2, PTL DEF Spec

-----------------------------------------------------------------------------
\* Whatever is written and wherever it is cut off, the message holds what its fields can hold, and
\* no frame, with whatever repeat count, is longer than the actuator's buffer or than its index counts.
THEOREM ActionTypeCorrect == Spec => []TypeOK
<1>1. IInv => TypeOK
  BY DEF IInv
<1> QED BY <1>1, Inductive, PTL

\* The decoder's loop goes round at most once for each byte of the write: the interrupt ends.
THEOREM DecoderEnds == Spec => []RoundsBounded
<1>1. IInv => RoundsBounded
  BY DEF IInv
<1> QED BY <1>1, Inductive, PTL

-----------------------------------------------------------------------------
(* What the decoder makes of a piece, or of as much of it as there is.      *)

\* As far as both go, the bytes are the same: s is some of the bytes b, or begins with them.
Agrees(s, b) == \A i \in 1..Len(s) : i \in 1..Len(b) => s[i] = b[i]

\* What is left of a stream, byte by byte.
LEMMA DropsTo ==
    ASSUME NEW s \in Seq(Byte), NEW n \in 0..Len(s)
    PROVE  /\ Drop(s, n) \in Seq(Byte) /\ Len(Drop(s, n)) = Len(s) - n /\ Len(s) \in Nat
           /\ \A i \in 1..Len(s) - n : Drop(s, n)[i] = s[n + i]
<1>1. Drop(s, n) \in Seq(Byte) /\ Len(Drop(s, n)) = Len(s) - n /\ Len(s) \in Nat
  BY DropBytes, LenProperties
<1>2. ASSUME NEW i \in 1..Len(s) - n PROVE Drop(s, n)[i] = s[n + i]
  <2>1. \A k \in n + 1..Len(s) : s[k] \in Byte
    BY <1>1, ElementOfSeq
  <2>2. \A k \in 1..Len(s) - (n + 1) + 1 : SubSeq(s, n + 1, Len(s))[k] = s[n + 1 + k - 1]
    BY <1>1, <2>1, SubSeqProperties
  <2>3. i \in 1..Len(s) - (n + 1) + 1 /\ n + 1 + i - 1 = n + i
    BY <1>1
  <2> QED BY <2>2, <2>3 DEF Drop
<1> QED BY <1>1, <1>2

\* A byte further.
LEMMA DropDrop ==
    ASSUME NEW s \in Seq(Byte), NEW m \in 0..Len(s), NEW n \in 0..Len(s) - m
    PROVE  Drop(Drop(s, m), n) = Drop(s, m + n) /\ m + n \in 0..Len(s)
<1> DEFINE a == Drop(s, m)
           x == Drop(a, n)
           y == Drop(s, m + n)
<1>1. /\ a \in Seq(Byte) /\ Len(a) = Len(s) - m /\ Len(s) \in Nat
      /\ \A i \in 1..Len(s) - m : a[i] = s[m + i]
  BY DropsTo
<1>2. m + n \in 0..Len(s) /\ n \in 0..Len(a)
  BY <1>1
<1> HIDE DEF a
<1>3. /\ x \in Seq(Byte) /\ Len(x) = Len(a) - n /\ \A i \in 1..Len(a) - n : x[i] = a[n + i]
  BY <1>1, <1>2, DropsTo
<1>4. /\ y \in Seq(Byte) /\ Len(y) = Len(s) - (m + n)
      /\ \A i \in 1..Len(s) - (m + n) : y[i] = s[m + n + i]
  BY <1>2, DropsTo
<1> HIDE DEF x, y
<1>5. Len(x) = Len(y)
  BY <1>1, <1>2, <1>3, <1>4
<1>6. \A i \in 1..Len(x) : x[i] = y[i]
  <2> SUFFICES ASSUME NEW i \in 1..Len(x) PROVE x[i] = y[i]
    OBVIOUS
  <2>1. i \in 1..Len(a) - n /\ i \in 1..Len(s) - (m + n) /\ n + i \in 1..Len(s) - m /\ m + (n + i) = m + n + i
    BY <1>1, <1>2, <1>3, <1>4, <1>5
  <2> QED BY <1>1, <1>3, <1>4, <2>1
<1>7. x = y
  BY <1>3, <1>4, <1>5, <1>6, SeqEqual
<1> QED BY <1>2, <1>7 DEF x, y, a

\* What agrees goes on agreeing.
LEMMA AgreesFurther ==
    ASSUME NEW s \in Seq(Byte), NEW b \in Seq(Byte), Agrees(s, b), NEW n \in 0..Len(b), n <= Len(s)
    PROVE  /\ Drop(s, n) \in Seq(Byte) /\ Drop(b, n) \in Seq(Byte) /\ Agrees(Drop(s, n), Drop(b, n))
           /\ Len(Drop(s, n)) = Len(s) - n /\ Len(Drop(b, n)) = Len(b) - n
           /\ Len(s) \in Nat /\ Len(b) \in Nat
<1>1. n \in 0..Len(s) /\ Len(s) \in Nat /\ Len(b) \in Nat
  BY LenProperties
<1> DEFINE x == Drop(s, n)
           y == Drop(b, n)
<1>2. x \in Seq(Byte) /\ Len(x) = Len(s) - n /\ \A i \in 1..Len(s) - n : x[i] = s[n + i]
  BY <1>1, DropsTo
<1>3. y \in Seq(Byte) /\ Len(y) = Len(b) - n /\ \A i \in 1..Len(b) - n : y[i] = b[n + i]
  BY DropsTo
<1> HIDE DEF x, y
<1>4. ASSUME NEW i \in 1..Len(x), i \in 1..Len(y) PROVE x[i] = y[i]
  <2>1. i \in 1..Len(s) - n /\ i \in 1..Len(b) - n /\ n + i \in 1..Len(s) /\ n + i \in 1..Len(b)
    BY <1>1, <1>2, <1>3, <1>4
  <2>2. s[n + i] = b[n + i]
    BY <2>1 DEF Agrees
  <2> QED BY <1>2, <1>3, <2>1, <2>2
<1>5. Agrees(x, y)
  BY <1>4 DEF Agrees
<1> QED BY <1>1, <1>2, <1>3, <1>5 DEF x, y

\* The same bytes stand for the same.
LEMMA SameValue ==
    ASSUME NEW s \in Seq(Byte), NEW b \in Seq(Byte), NEW n \in Nat, n <= Len(s), n <= Len(b), Agrees(s, b)
    PROVE  VarintValue(s, n) = VarintValue(b, n)
<1>1. Len(s) \in Nat /\ Len(b) \in Nat /\ n \in 0..Len(s) /\ n \in 0..Len(b)
  BY LenProperties
<1>2. PICK f \in [0..n -> Nat] :
        /\ f[0] = 0 /\ \A i \in 1..n : f[i] = 128 * f[i - 1] + (s[n + 1 - i] % 128)
        /\ VarintValue(s, n) = f[n]
  BY <1>1, VarintValueSteps
<1>3. PICK g \in [0..n -> Nat] :
        /\ g[0] = 0 /\ \A i \in 1..n : g[i] = 128 * g[i - 1] + (b[n + 1 - i] % 128)
        /\ VarintValue(b, n) = g[n]
  BY <1>1, VarintValueSteps
<1> DEFINE S == {k \in Nat : k <= n => f[k] = g[k]}
<1>4. 0 \in S
  BY <1>2, <1>3
<1>5. ASSUME NEW k \in Nat, k \in S PROVE k + 1 \in S
  <2> SUFFICES ASSUME k + 1 <= n PROVE f[k + 1] = g[k + 1]
    OBVIOUS
  <2>1. k + 1 \in 1..n /\ (k + 1) - 1 = k /\ n + 1 - (k + 1) \in 1..n
    BY <1>1
  <2>2. s[n + 1 - (k + 1)] = b[n + 1 - (k + 1)]
    <3>1. n + 1 - (k + 1) \in 1..Len(s) /\ n + 1 - (k + 1) \in 1..Len(b)
      BY <1>1, <2>1
    <3> QED BY <3>1 DEF Agrees
  <2>3. f[k] = g[k]
    BY <1>5
  <2> QED BY <1>2, <1>3, <2>1, <2>2, <2>3
<1> HIDE DEF S
<1>6. n \in S
  BY <1>4, <1>5, SetInduction
<1> QED BY <1>2, <1>3, <1>6 DEF S

\* A varint ends where it is to, if the stream goes that far.
LEMMA VarintIn ==
    ASSUME NEW s \in Seq(Byte), NEW b \in Seq(Byte), Agrees(s, b),
           NEW n \in 1..Len(b), IsVarint(SubSeq(b, 1, n))
    PROVE  VarintLength(s) = IF n <= Len(s) THEN n ELSE 0
<1> DEFINE v == SubSeq(b, 1, n)
<1>1. Len(s) \in Nat /\ Len(b) \in Nat /\ DOMAIN s = 1..Len(s) /\ n \in Nat
  BY LenProperties
<1>2. Len(v) = n /\ \A i \in 1..n : v[i] = b[i]
  <2>1. n \in 0..Len(b) /\ \A i \in 1..n : b[i] \in Byte
    BY <1>1, ElementOfSeq
  <2>2. Len(v) = n
    BY <2>1, FirstBytes
  <2>3. \A i \in 1..n - 1 + 1 : v[i] = b[1 + i - 1]
    BY <1>1, <2>1, SubSeqProperties
  <2>4. n - 1 + 1 = n /\ \A i \in 1..n : 1 + i - 1 = i
    BY <1>1
  <2> QED BY <2>2, <2>3, <2>4
<1> HIDE DEF v
<1>3. ~More(b[n]) /\ \A i \in 1..n - 1 : More(b[i])
  <2>1. ~More(v[n]) /\ \A i \in 1..n - 1 : More(v[i])
    BY <1>2 DEF IsVarint, v
  <2>2. n \in 1..n /\ \A i \in 1..n - 1 : i \in 1..n
    BY <1>1
  <2> QED BY <1>2, <2>1, <2>2
<1>4. CASE n <= Len(s)
  <2>1. n \in 1..Len(s) /\ s[n] = b[n] /\ \A i \in 1..n - 1 : s[i] = b[i]
    BY <1>1, <1>4 DEF Agrees
  <2>2. ~More(s[n]) /\ \A i \in 1..n - 1 : More(s[i])
    BY <1>3, <2>1
  <2>3. VarintLength(s) = n
    BY <2>1, <2>2, VarintEnds
  <2> QED BY <1>4, <2>3
<1>5. CASE ~(n <= Len(s))
  <2>1. \A i \in DOMAIN s : More(s[i])
    <3> SUFFICES ASSUME NEW i \in DOMAIN s PROVE More(s[i])
      OBVIOUS
    <3>1. i \in 1..Len(s) /\ i \in 1..Len(b) /\ i \in 1..n - 1
      BY <1>1, <1>5
    <3> QED BY <1>3, <3>1 DEF Agrees
  <2>2. {i \in DOMAIN s : ~More(s[i])} = {}
    BY <2>1
  <2> QED BY <1>5, <2>2 DEF VarintLength
<1> QED BY <1>4, <1>5

\* A number is read if it is there, and is an error that takes all there is if it is not.
LEMMA NumberRead ==
    ASSUME NEW s \in Seq(Byte), NEW b \in Seq(Byte), Agrees(s, b), NEW width \in {WordBits, DoubleBits},
           NEW n, Number(b, n, width)
    PROVE  /\ n \in 1..Len(b)
           /\ n <= Len(s) => Varint(s, width) = Ok(VarintValue(b, n) % 2 ^ width, Drop(s, n))
           /\ Len(s) < n => ~Varint(s, width).ok /\ Varint(s, width).rest = <<>>
<1>1. n \in 1..Len(b) /\ n <= Groups(width) /\ IsVarint(SubSeq(b, 1, n))
  BY DEF Number
<1>2. VarintLength(s) = IF n <= Len(s) THEN n ELSE 0
  BY <1>1, VarintIn
<1>3. Len(s) \in Nat /\ Len(b) \in Nat /\ n \in Nat \ {0} /\ Groups(width) \in Nat
  BY <1>1, LenProperties, GroupCounts
<1>4. ASSUME n <= Len(s) PROVE Varint(s, width) = Ok(VarintValue(b, n) % 2 ^ width, Drop(s, n))
  <2>1. VarintLength(s) = n /\ n \in 1..Groups(width)
    BY <1>1, <1>2, <1>3, <1>4
  <2>2. VarintValue(s, n) = VarintValue(b, n)
    BY <1>1, <1>3, <1>4, SameValue
  <2> QED BY <2>1, <2>2, Zenon DEF Varint
<1>5. ASSUME Len(s) < n PROVE ~Varint(s, width).ok /\ Varint(s, width).rest = <<>>
  <2> DEFINE g == Groups(width)
             m == Min({g, Len(s)})
  <2>1. VarintLength(s) = 0 /\ 0 \notin 1..g
    BY <1>2, <1>3, <1>5
  <2>2. Varint(s, width) = Error(Drop(s, m))
    BY <2>1, Zenon DEF Varint
  <2> HIDE DEF g
  <2>3. m = Len(s)
    <3>1. m \in {g, Len(s)} /\ m <= Len(s) /\ Len(s) < g
      BY <1>1, <1>3, <1>5, MinOfTwo DEF g
    <3> HIDE DEF m
    <3> QED BY <1>3, <3>1 DEF g
  <2>4. Drop(s, Len(s)) = <<>>
    <3>1. Len(s) \in 0..Len(s)
      BY <1>3
    <3>2. Drop(s, Len(s)) \in Seq(Byte) /\ Len(Drop(s, Len(s))) = 0
      BY <1>3, <3>1, DropBytes
    <3> QED BY <3>2, EmptySeq
  <2> HIDE DEF m
  <2> QED BY <2>2, <2>3, <2>4 DEF Error
<1> QED BY <1>1, <1>4, <1>5

\* A varint that is too long is an error, however much of it there is; it takes as much as a varint may have.
LEMMA TooLongRead ==
    ASSUME NEW s \in Seq(Byte), NEW b \in Seq(Byte), Agrees(s, b), NEW width \in {WordBits, DoubleBits},
           TooLong(b, width)
    PROVE  ~Varint(s, width).ok /\ (Varint(s, width).rest = <<>> <=> Len(s) <= Groups(width))
<1> DEFINE g == Groups(width)
           m == Min({g, Len(s)})
           n == VarintLength(s)
<1>1. g <= Len(b) /\ \A i \in 1..g : More(b[i])
  BY DEF TooLong
<1>2. g \in Nat \ {0} /\ Len(s) \in Nat /\ Len(b) \in Nat /\ DOMAIN s = 1..Len(s)
  BY GroupCounts, LenProperties
<1> HIDE DEF g
<1>3. n \notin 1..g
  <2> SUFFICES ASSUME n \in 1..g PROVE FALSE
    OBVIOUS
  <2> DEFINE ends == {i \in DOMAIN s : ~More(s[i])}
  <2>1. ends # {} /\ n = Min(ends)
    BY <1>2 DEF VarintLength
  <2>2. ends \subseteq Nat
    BY <1>2
  <2>3. n \in ends
    <3> HIDE DEF ends
    <3> QED BY <2>1, <2>2, MinNumber
  <2> HIDE DEF n
  <2>4. n \in 1..Len(s) /\ ~More(s[n])
    BY <1>2, <2>3
  <2>5. n \in 1..Len(b) /\ s[n] = b[n]
    BY <1>1, <1>2, <2>4 DEF Agrees
  <2> QED BY <1>1, <2>4, <2>5
<1>4. Varint(s, width) = Error(Drop(s, m))
  BY <1>3, Zenon DEF Varint, g
<1>5. m \in {g, Len(s)} /\ m <= g /\ m <= Len(s)
  BY <1>2, MinOfTwo
<1> HIDE DEF m
<1>6. m \in 0..Len(s) /\ (m = Len(s) => Len(s) <= g) /\ (Len(s) <= g => m = Len(s))
  <2>1. g \in Nat /\ Len(s) \in Nat /\ m <= g /\ m <= Len(s)
    BY <1>2, <1>5
  <2>2. m = g \/ m = Len(s)
    BY <1>5
  <2> HIDE DEF n
  <2>3. m \in Nat
    BY <2>1, <2>2
  <2>4. m \in 0..Len(s)
    BY <2>1, <2>3
  <2>5. m = Len(s) => Len(s) <= g
    BY <2>1
  <2>6. Len(s) <= g => m = Len(s)
    BY <2>1, <2>2
  <2> QED BY <2>4, <2>5, <2>6
<1>7. Drop(s, m) \in Seq(Byte) /\ Len(Drop(s, m)) = Len(s) - m
  BY <1>6, DropBytes
<1>8. Drop(s, m) = <<>> <=> m = Len(s)
  <2> DEFINE d == Drop(s, m)
  <2> HIDE DEF d
  <2>1. d \in Seq(Byte) /\ Len(d) = Len(s) - m
    BY <1>7 DEF d
  <2>2. (d = <<>> => Len(d) = 0) /\ (Len(d) = 0 => d = <<>>)
    BY <2>1, EmptySeq
  <2>3. d = <<>> => m = Len(s)
    <3> DEFINE k == Len(s)
    <3>1. k \in Nat /\ m \in 0..k
      BY <1>2, <1>6
    <3> HIDE DEF k
    <3>2. k - m = 0 => m = k
      BY <3>1
    <3>3. Len(s) - m = 0 => m = Len(s)
      BY <3>2 DEF k
    <3> QED BY <2>1, <2>2, <3>3
  <2>4. m = Len(s) => d = <<>>
    <3>1. Len(s) - Len(s) = 0
      BY <1>2
    <3> QED BY <2>1, <2>2, <3>1
  <2> QED BY <2>3, <2>4 DEF d
<1> QED BY <1>4, <1>6, <1>8 DEF Error, g

\* What comes after a piece's tag.
LEMMA PieceParts ==
    ASSUME NEW x, IsPiece(x)
    PROVE  /\ x.bytes \in Seq(Byte) /\ Len(x.bytes) \in Nat /\ x.tag \in 1..Len(x.bytes)
           /\ Body(x) \in Seq(Byte) /\ Len(Body(x)) = Len(x.bytes) - x.tag /\ Key(x) \in Nat
<1>1. x.bytes \in Seq(Byte) /\ x.tag \in 1..Len(x.bytes) /\ Len(x.bytes) \in Nat /\ x.tag \in 0..Len(x.bytes)
  BY LenProperties DEF IsPiece
<1>2. Body(x) \in Seq(Byte) /\ Len(Body(x)) = Len(x.bytes) - x.tag
  BY <1>1, DropBytes DEF Body
<1>3. VarintValue(x.bytes, x.tag) \in Nat
  BY <1>1, VarintValueType
<1>4. Key(x) \in Nat
  BY <1>3, WidthAssumption DEF Key
<1> QED BY <1>1, <1>2, <1>4

\* The tag: one that is cut off reads as the end of the message, one that is too long is an error.
LEMMA TagRead ==
    ASSUME NEW x, IsPiece(x), NEW s \in Seq(Byte), Agrees(s, x.bytes)
    PROVE  /\ Len(s) < x.tag => ~Tag(s).ok /\ Tag(s).eof
           /\ x.tag <= Len(s) /\ IsLongTag(x) => ~Tag(s).ok /\ ~Tag(s).eof
           /\ x.tag <= Len(s) /\ Number(x.bytes, x.tag, WordBits) =>
                /\ Tag(s).ok <=> Key(x) # 0
                /\ Tag(s).eof <=> Key(x) = 0
                /\ Tag(s).tag = Key(x) \div 8 /\ Tag(s).wire_type = Key(x) % 8 /\ Tag(s).rest = Drop(s, x.tag)
<1> DEFINE temp == Varint(s, WordBits)
<1>1. x.bytes \in Seq(Byte) /\ Len(x.bytes) \in Nat /\ x.tag \in 1..Len(x.bytes) /\ Len(s) \in Nat /\ Key(x) \in Nat
  BY PieceParts, LenProperties
<1>2. /\ Tag(s).ok = (temp.ok /\ temp.value # 0)
      /\ Tag(s).eof = ((~temp.ok /\ temp.rest = <<>>) \/ (temp.ok /\ temp.value = 0))
      /\ Tag(s).tag = temp.value \div 8 /\ Tag(s).wire_type = temp.value % 8 /\ Tag(s).rest = temp.rest
  BY Zenon DEF Tag, VarintWord
<1>3. ASSUME IsLongTag(x)
      PROVE  ~temp.ok /\ (temp.rest = <<>> <=> Len(s) < x.tag)
  <2>1. ~temp.ok /\ (temp.rest = <<>> <=> Len(s) <= Groups(WordBits))
    BY <1>1, <1>3, TooLongRead DEF IsLongTag
  <2>2. x.tag = Groups(WordBits) + 1 /\ Groups(WordBits) \in Nat
    BY <1>3, GroupCounts DEF IsLongTag
  <2> HIDE DEF temp
  <2>3. Len(s) <= Groups(WordBits) <=> Len(s) < x.tag
    BY <1>1, <2>2
  <2> QED BY <2>1, <2>3
<1>4. ASSUME Number(x.bytes, x.tag, WordBits)
      PROVE  /\ x.tag <= Len(s) => temp = Ok(Key(x), Drop(s, x.tag))
             /\ Len(s) < x.tag => ~temp.ok /\ temp.rest = <<>>
  BY <1>1, <1>4, NumberRead DEF Key
<1>5. IsLongTag(x) \/ Number(x.bytes, x.tag, WordBits)
  BY DEF IsPiece
<1> HIDE DEF temp
<1>6. ASSUME Len(s) < x.tag PROVE ~Tag(s).ok /\ Tag(s).eof
  BY <1>2, <1>3, <1>4, <1>5, <1>6
<1>7. ASSUME x.tag <= Len(s), IsLongTag(x) PROVE ~Tag(s).ok /\ ~Tag(s).eof
  <2>1. ~(Len(s) < x.tag)
    BY <1>1, <1>7
  <2> QED BY <1>2, <1>3, <1>7, <2>1
<1>8. ASSUME x.tag <= Len(s), Number(x.bytes, x.tag, WordBits)
      PROVE  /\ Tag(s).ok <=> Key(x) # 0
             /\ Tag(s).eof <=> Key(x) = 0
             /\ Tag(s).tag = Key(x) \div 8 /\ Tag(s).wire_type = Key(x) % 8 /\ Tag(s).rest = Drop(s, x.tag)
  <2>1. temp.ok = TRUE /\ temp.value = Key(x) /\ temp.rest = Drop(s, x.tag)
    BY <1>4, <1>8 DEF Ok
  <2> QED BY <1>2, <2>1
<1> QED BY <1>6, <1>7, <1>8

\* A string that is there is read; one that is not is an error.
LEMMA SizedRead ==
    ASSUME NEW s \in Seq(Byte), NEW b \in Seq(Byte), Agrees(s, b), NEW n, Number(b, n, WordBits),
           NEW size, size = VarintValue(b, n) % 2 ^ WordBits, size = Len(b) - n
    PROVE  /\ Len(b) <= Len(s) =>
                LET word == VarintWord(s) IN
                /\ word = Ok(size, Drop(s, n)) /\ Read(word.rest, size) = Ok(Drop(b, n), Drop(s, Len(b)))
           /\ Len(s) < Len(b) =>
                LET word == VarintWord(s) IN
                word.ok => word.value = size /\ ~Read(word.rest, size).ok
<1>1. /\ n \in 1..Len(b)
      /\ n <= Len(s) => VarintWord(s) = Ok(size, Drop(s, n))
      /\ Len(s) < n => ~VarintWord(s).ok
  BY NumberRead DEF VarintWord
<1>2. Len(s) \in Nat /\ Len(b) \in Nat /\ n \in Nat
  BY <1>1, LenProperties
<1>3. ASSUME n <= Len(s)
      PROVE  /\ Drop(s, n) \in Seq(Byte) /\ Len(Drop(s, n)) = Len(s) - n
             /\ Drop(b, n) \in Seq(Byte) /\ Len(Drop(b, n)) = size /\ Agrees(Drop(s, n), Drop(b, n))
  <2>1. n \in 0..Len(b)
    BY <1>1, <1>2
  <2> QED BY <1>3, <2>1, AgreesFurther
<1>4. ASSUME Len(b) <= Len(s)
      PROVE  VarintWord(s) = Ok(size, Drop(s, n)) /\ Read(Drop(s, n), size) = Ok(Drop(b, n), Drop(s, Len(b)))
  <2> DEFINE d == Drop(s, n)
             e == Drop(b, n)
             f == SubSeq(d, 1, size)
  <2>0. n <= Len(s)
    BY <1>1, <1>2, <1>4
  <2>1. d \in Seq(Byte) /\ Len(d) = Len(s) - n /\ e \in Seq(Byte) /\ Len(e) = size /\ Agrees(d, e)
    BY <1>3, <2>0
  <2> HIDE DEF d, e
  <2>2. size \in 0..Len(d) /\ n + size = Len(b) /\ n \in 0..Len(s) /\ size \in 0..Len(s) - n
    BY <1>1, <1>2, <1>4, <2>1
  <2>3. f \in Seq(Byte) /\ Len(f) = size
    BY <2>1, <2>2, FirstBytes
  <2>4. \A i \in 1..size : f[i] = e[i]
    <3>1. \A i \in 1..size : d[i] \in Byte
      <4>1. \A i \in 1..Len(d) : d[i] \in Byte
        BY <2>1, ElementOfSeq
      <4> QED BY <2>1, <2>2, <4>1
    <3>2. \A i \in 1..size - 1 + 1 : f[i] = d[1 + i - 1]
      <4>1. 1 \in Int /\ size \in Int
        BY <2>2
      <4> QED BY <3>1, <4>1, SubSeqProperties
    <3>3. ASSUME NEW i \in 1..size PROVE f[i] = e[i]
      <4>1. i \in 1..size - 1 + 1 /\ 1 + i - 1 = i /\ i \in 1..Len(d) /\ i \in 1..Len(e)
        BY <2>1, <2>2
      <4> HIDE DEF f
      <4> QED BY <2>1, <3>2, <4>1 DEF Agrees
    <3> QED BY <3>3
  <2> HIDE DEF f
  <2>5. f = e
    BY <2>1, <2>3, <2>4, SeqEqual
  <2>6. Drop(d, size) = Drop(s, Len(b))
    BY <2>2, DropDrop DEF d
  <2>7. ~(Len(d) < size)
    BY <2>1, <2>2
  <2>8. Read(d, size) = Ok(f, Drop(d, size))
    BY <2>7, Zenon DEF Read, f
  <2> QED BY <1>1, <2>0, <2>5, <2>6, <2>8 DEF d, e
<1>5. ASSUME Len(s) < Len(b), VarintWord(s).ok
      PROVE  VarintWord(s).value = size /\ ~Read(VarintWord(s).rest, size).ok
  <2>1. n <= Len(s)
    BY <1>1, <1>2, <1>5
  <2>2. VarintWord(s).value = size /\ VarintWord(s).rest = Drop(s, n)
    BY <1>1, <2>1 DEF Ok
  <2>3. Len(Drop(s, n)) < size
    BY <1>2, <1>3, <1>5, <2>1
  <2> QED BY <2>2, <2>3 DEF Read, Error
<1> QED BY <1>4, <1>5 DEF Ok

\* The fields of the message, by their numbers.
LEMMA FieldNumbers ==
    ASSUME NEW n \in Nat
    PROVE  /\ \A f \in Find(n) : f.name \in {"id", "cmd", "data", "state"} /\ Known[f.name] = n /\ n \in 1..4
           /\ n \in 1..4 => \E f \in Find(n) : Known[f.name] = n
           /\ n \notin 1..4 => Find(n) = {}
<1>1. /\ Known["id"] = 1 /\ Known["cmd"] = 2 /\ Known["data"] = 3 /\ Known["state"] = 4
  BY DEF Known
<1>2. ASSUME NEW f \in Find(n)
      PROVE  f.name \in {"id", "cmd", "data", "state"} /\ Known[f.name] = n /\ n \in 1..4
  BY <1>1, <1>2 DEF Find, ActionFields
<1>3. ASSUME n \in 1..4 PROVE \E f \in Find(n) : Known[f.name] = n
  <2>1. \E f \in ActionFields : f.tag = n /\ Known[f.name] = n
    <3>1. CASE n = 1
      BY <1>1, <3>1 DEF ActionFields
    <3>2. CASE n = 2
      BY <1>1, <3>2 DEF ActionFields
    <3>3. CASE n = 3
      BY <1>1, <3>3 DEF ActionFields
    <3>4. CASE n = 4
      BY <1>1, <3>4 DEF ActionFields
    <3> QED BY <1>3, <3>1, <3>2, <3>3, <3>4
  <2> QED BY <2>1 DEF Find
<1> QED BY <1>2, <1>3

\* An integer.
LEMMA IntegerRead ==
    ASSUME NEW x, IsPiece(x), IsInteger(x), NEW s \in Seq(Byte), Agrees(s, Body(x))
    PROVE  /\ Len(Body(x)) <= Len(s) => Unsigned(s) = Ok(x.value, Drop(s, Len(Body(x))))
           /\ Len(s) < Len(Body(x)) => ~Unsigned(s).ok
<1> DEFINE b == Body(x)
           v == Varint(s, DoubleBits)
<1>1. b \in Seq(Byte)
  BY PieceParts
<1>2. /\ Number(b, Len(b), DoubleBits)
      /\ x.value = VarintValue(b, Len(b)) % 2 ^ DoubleBits /\ x.value < 2 ^ WordBits
  BY DEF IsInteger
<1>3. /\ Len(b) <= Len(s) => v = Ok(x.value, Drop(s, Len(b)))
      /\ Len(s) < Len(b) => ~v.ok
  BY <1>1, <1>2, NumberRead
<1>4. Unsigned(s) = IF v.ok /\ v.value >= 2 ^ WordBits THEN Error(v.rest) ELSE v
  BY Zenon DEF Unsigned, VarintDouble
<1> HIDE DEF v
<1>5. ASSUME Len(b) <= Len(s) PROVE Unsigned(s) = Ok(x.value, Drop(s, Len(b)))
  <2>1. v = Ok(x.value, Drop(s, Len(b)))
    BY <1>3, <1>5
  <2>2. v.value = x.value
    BY <2>1 DEF Ok
  <2>3. x.value \in Nat
    <3>1. 1 <= Len(b) /\ Len(b) \in Nat
      BY <1>1, <1>2, LenProperties DEF Number
    <3>2. VarintValue(b, Len(b)) \in Nat
      <4>1. Len(b) \in 0..Len(b)
        BY <3>1
      <4> QED BY <1>1, <4>1, VarintValueType
    <3> QED BY <1>2, <3>2, WidthAssumption
  <2>4. ~(v.value >= 2 ^ WordBits)
    BY <1>2, <2>2, <2>3, WidthAssumption
  <2> QED BY <1>4, <2>1, <2>4
<1>6. ASSUME Len(s) < Len(b) PROVE ~Unsigned(s).ok
  BY <1>3, <1>4, <1>6
<1> QED BY <1>5, <1>6

\* Data.
LEMMA DataRead ==
    ASSUME NEW x, IsPiece(x), IsData(x), NEW s \in Seq(Byte), Agrees(s, Body(x))
    PROVE  /\ Len(Body(x)) <= Len(s) => Bytes(s) = Ok(x.value, Drop(s, Len(Body(x))))
           /\ Len(s) < Len(Body(x)) => ~Bytes(s).ok
<1> DEFINE b == Body(x)
           word == VarintWord(s)
           size == Len(x.value)
<1>1. b \in Seq(Byte) /\ Len(b) \in Nat
  BY PieceParts, LenProperties
<1>2. PICK n \in 1..Len(b) : /\ Number(b, n, WordBits) /\ x.value = Drop(b, n)
                             /\ VarintValue(b, n) % 2 ^ WordBits = size
  BY DEF IsData
<1>3. size \in Nat /\ size <= DataMax /\ size <= SizeMax /\ size = Len(b) - n
  <2>1. n \in 0..Len(b)
    BY <1>1
  <2>2. Len(Drop(b, n)) = Len(b) - n
    BY <1>1, <2>1, DropBytes
  <2>3. size \in Nat /\ size <= DataMax
    BY LenProperties DEF IsData
  <2> QED BY <1>2, <2>2, <2>3, WidthAssumption
<1> HIDE DEF b, size
<1>4. /\ Len(b) <= Len(s) =>
            word = Ok(size, Drop(s, n)) /\ Read(word.rest, size) = Ok(x.value, Drop(s, Len(b)))
      /\ Len(s) < Len(b) => (word.ok => word.value = size /\ ~Read(word.rest, size).ok)
  BY <1>1, <1>2, <1>3, SizedRead DEF b
<1>5. Bytes(s) = IF ~word.ok \/ word.value > SizeMax \/ word.value > DataMax THEN Error(word.rest)
                 ELSE Read(word.rest, word.value)
  BY Zenon DEF Bytes
<1> HIDE DEF word
<1>6. ASSUME Len(b) <= Len(s) PROVE Bytes(s) = Ok(x.value, Drop(s, Len(b)))
  <2>1. word.ok = TRUE /\ word.value = size /\ Read(word.rest, size) = Ok(x.value, Drop(s, Len(b)))
    BY <1>4, <1>6 DEF Ok
  <2>2. ~(size > SizeMax) /\ ~(size > DataMax)
    BY <1>3, WidthAssumption
  <2> QED BY <1>5, <2>1, <2>2
<1>7. ASSUME Len(s) < Len(b) PROVE ~Bytes(s).ok
  <2>1. CASE ~word.ok
    BY <1>5, <2>1 DEF Error
  <2>2. CASE word.ok
    <3>1. word.value = size /\ ~Read(word.rest, size).ok
      BY <1>4, <1>7, <2>2
    <3>2. ~(size > SizeMax) /\ ~(size > DataMax)
      BY <1>3, WidthAssumption
    <3> QED BY <1>5, <2>2, <3>1, <3>2
  <2> QED BY <2>1, <2>2
<1> QED BY <1>6, <1>7 DEF b

\* A field that is not the message's.
LEMMA UnknownRead ==
    ASSUME NEW x, IsPiece(x), IsUnknown(x), NEW s \in Seq(Byte), Agrees(s, Body(x))
    PROVE  /\ Len(Body(x)) <= Len(s) =>
                SkipField(s, Key(x) % 8).ok /\ SkipField(s, Key(x) % 8).rest = Drop(s, Len(Body(x)))
           /\ Len(s) < Len(Body(x)) => ~SkipField(s, Key(x) % 8).ok
<1> DEFINE b == Body(x)
           w == Key(x) % 8
<1>1. b \in Seq(Byte) /\ Len(b) \in Nat /\ Len(s) \in Nat
  BY PieceParts, LenProperties
<1>2. PB_WT.varint = 0 /\ PB_WT.fixed64 = 1 /\ PB_WT.string = 2 /\ PB_WT.fixed32 = 5
  BY DEF PB_WT
<1>3. /\ w = 0 => SkipField(s, w) = SkipVarint(s)
      /\ w = 1 => SkipField(s, w) = Read(s, 8)
      /\ w = 2 => SkipField(s, w) = SkipString(s)
      /\ w = 5 => SkipField(s, w) = Read(s, 4)
  <2> HIDE DEF w
  <2> QED BY <1>2 DEF SkipField
<1>4. \/ w = 0 /\ IsVarint(b)
      \/ w = 1 /\ Len(b) = 8
      \/ w = 5 /\ Len(b) = 4
      \/ w = 2 /\ \E n \in 1..Len(b) : /\ Number(b, n, WordBits)
                                       /\ VarintValue(b, n) % 2 ^ WordBits = Len(b) - n
  BY DEF IsUnknown
<1> DEFINE Good(r) == /\ Len(b) <= Len(s) => r.ok /\ r.rest = Drop(s, Len(b))
                      /\ Len(s) < Len(b) => ~r.ok
<1> HIDE DEF b, w
<1>5. \A k \in Nat : Len(b) = k => Good(Read(s, k))
  <2> SUFFICES ASSUME NEW k \in Nat, Len(b) = k PROVE Good(Read(s, k))
    OBVIOUS
  <2>1. CASE Len(s) < k
    BY <1>1, <2>1 DEF Read, Error
  <2>2. CASE ~(Len(s) < k)
    BY <1>1, <2>2 DEF Read, Ok
  <2> QED BY <2>1, <2>2
<1>6. CASE w = 0 /\ IsVarint(b)
  <2>1. Len(b) \in 1..Len(b) /\ SubSeq(b, 1, Len(b)) = b
    <3>1. b # <<>>
      BY <1>6 DEF IsVarint
    <3> QED BY <1>1, <3>1, EmptySeq, SubSeqFull
  <2>2. VarintLength(s) = IF Len(b) <= Len(s) THEN Len(b) ELSE 0
    BY <1>1, <1>6, <2>1, VarintIn DEF b
  <2> DEFINE n == VarintLength(s)
  <2>3. SkipVarint(s) = IF n = 0 THEN Error(<<>>) ELSE Ok(0, Drop(s, n))
    BY Zenon DEF SkipVarint
  <2>4. Good(SkipVarint(s))
    <3>1. Len(b) # 0
      BY <1>1, <2>1
    <3> HIDE DEF n
    <3>2. n = IF Len(b) <= Len(s) THEN Len(b) ELSE 0
      BY <2>2 DEF n
    <3>3. CASE Len(b) <= Len(s)
      BY <1>1, <2>3, <3>1, <3>2, <3>3 DEF Ok
    <3>4. CASE ~(Len(b) <= Len(s))
      BY <1>1, <2>3, <3>2, <3>4 DEF Error
    <3> QED BY <3>3, <3>4
  <2> QED BY <1>3, <1>6, <2>4 DEF w, b
<1>7. CASE w = 1 /\ Len(b) = 8
  BY <1>3, <1>5, <1>7 DEF w, b
<1>8. CASE w = 5 /\ Len(b) = 4
  BY <1>3, <1>5, <1>8 DEF w, b
<1>9. CASE w = 2 /\ \E n \in 1..Len(b) : /\ Number(b, n, WordBits)
                                         /\ VarintValue(b, n) % 2 ^ WordBits = Len(b) - n
  <2>1. PICK n \in 1..Len(b) : Number(b, n, WordBits) /\ VarintValue(b, n) % 2 ^ WordBits = Len(b) - n
    BY <1>9
  <2> DEFINE word == VarintWord(s)
             size == Len(b) - n
  <2>2. /\ Len(b) <= Len(s) =>
            word = Ok(size, Drop(s, n)) /\ Read(word.rest, size) = Ok(Drop(b, n), Drop(s, Len(b)))
        /\ Len(s) < Len(b) => (word.ok => word.value = size /\ ~Read(word.rest, size).ok)
    BY <1>1, <2>1, SizedRead DEF b
  <2>3. SkipString(s) = IF word.ok THEN Read(word.rest, word.value) ELSE word
    BY Zenon DEF SkipString
  <2> HIDE DEF word, size
  <2>4. Good(SkipString(s))
    <3>1. ASSUME Len(b) <= Len(s) PROVE SkipString(s).ok /\ SkipString(s).rest = Drop(s, Len(b))
      <4>1. word.ok = TRUE /\ word.value = size /\ Read(word.rest, size) = Ok(Drop(b, n), Drop(s, Len(b)))
        BY <2>2, <3>1 DEF Ok
      <4>2. SkipString(s) = Ok(Drop(b, n), Drop(s, Len(b)))
        BY <2>3, <4>1
      <4> QED BY <4>2 DEF Ok
    <3>2. ASSUME Len(s) < Len(b) PROVE ~SkipString(s).ok
      BY <2>2, <2>3, <3>2
    <3> QED BY <3>1, <3>2
  <2> QED BY <1>3, <1>9, <2>4 DEF w, b
<1> QED BY <1>4, <1>6, <1>7, <1>8, <1>9

\* What is malformed is an error, however much of it there is.
LEMMA MalformedRead ==
    ASSUME NEW x, IsPiece(x), IsMalformed(x), NEW s \in Seq(Byte), Agrees(s, Body(x))
    PROVE  /\ Key(x) \div 8 \in {1, 2, 4} => ~Unsigned(s).ok
           /\ Key(x) \div 8 = 3 => ~Bytes(s).ok
           /\ Key(x) \div 8 \notin 1..4 => ~SkipField(s, Key(x) % 8).ok
<1> DEFINE b == Body(x)
           word == Varint(s, WordBits)
           double == Varint(s, DoubleBits)
<1>1. b \in Seq(Byte) /\ Len(b) \in Nat /\ Len(s) \in Nat
  BY PieceParts, LenProperties
<1>2. Unsigned(s) = IF double.ok /\ double.value >= 2 ^ WordBits THEN Error(double.rest) ELSE double
  BY Zenon DEF Unsigned, VarintDouble
<1>3. Bytes(s) = IF ~word.ok \/ word.value > SizeMax \/ word.value > DataMax THEN Error(word.rest)
                 ELSE Read(word.rest, word.value)
  BY Zenon DEF Bytes, VarintWord
<1>4. (TooLong(b, DoubleBits) => ~double.ok) /\ (TooLong(b, WordBits) => ~word.ok)
  BY <1>1, TooLongRead
<1>5. ASSUME NEW n, Number(b, n, DoubleBits), VarintValue(b, n) % 2 ^ DoubleBits >= 2 ^ WordBits
      PROVE  double.ok => double.value >= 2 ^ WordBits
  <2>1. /\ n \in 1..Len(b)
        /\ n <= Len(s) => double = Ok(VarintValue(b, n) % 2 ^ DoubleBits, Drop(s, n))
        /\ Len(s) < n => ~double.ok
    BY <1>1, <1>5, NumberRead
  <2> HIDE DEF double
  <2> QED BY <1>1, <1>5, <2>1 DEF Ok
<1>6. ASSUME NEW n, Number(b, n, WordBits), VarintValue(b, n) % 2 ^ WordBits > DataMax
      PROVE  word.ok => word.value > DataMax
  <2>1. /\ n \in 1..Len(b)
        /\ n <= Len(s) => word = Ok(VarintValue(b, n) % 2 ^ WordBits, Drop(s, n))
        /\ Len(s) < n => ~word.ok
    BY <1>1, <1>6, NumberRead
  <2> HIDE DEF word
  <2> QED BY <1>1, <1>6, <2>1 DEF Ok
<1> DEFINE k == Key(x) \div 8
           w == Key(x) % 8
<1>7. /\ k \in {1, 2, 4} =>
            \/ TooLong(b, DoubleBits)
            \/ \E n \in 1..Len(b) : /\ Number(b, n, DoubleBits)
                                    /\ VarintValue(b, n) % 2 ^ DoubleBits >= 2 ^ WordBits
      /\ k = 3 =>
            \/ TooLong(b, WordBits)
            \/ \E n \in 1..Len(b) : Number(b, n, WordBits) /\ VarintValue(b, n) % 2 ^ WordBits > DataMax
      /\ k \notin 1..4 =>
            \/ w \notin {0, 1, 2, 5}
            \/ w = 2 /\ TooLong(b, WordBits)
  <2> HIDE DEF word, double
  <2> DEFINE P1 == \/ TooLong(b, DoubleBits)
                   \/ \E n \in 1..Len(b) : /\ Number(b, n, DoubleBits)
                                           /\ VarintValue(b, n) % 2 ^ DoubleBits >= 2 ^ WordBits
             P2 == \/ TooLong(b, WordBits)
                   \/ \E n \in 1..Len(b) : Number(b, n, WordBits) /\ VarintValue(b, n) % 2 ^ WordBits > DataMax
             P3 == \/ w \notin {0, 1, 2, 5}
                   \/ w = 2 /\ TooLong(b, WordBits)
  <2>1. (k \in {1, 2, 4} /\ P1) \/ (k = 3 /\ P2) \/ (k \notin 1..4 /\ P3)
    BY DEF IsMalformed
  <2>2. ~(k \in {1, 2, 4} /\ k = 3) /\ (k \in {1, 2, 4} => k \in 1..4) /\ (k = 3 => k \in 1..4)
    BY SMT
  <2> HIDE DEF P1, P2, P3, k
  <2>3. (k \in {1, 2, 4} => P1) /\ (k = 3 => P2) /\ (k \notin 1..4 => P3)
    BY <2>1, <2>2
  <2> QED BY <2>3 DEF P1, P2, P3
<1> HIDE DEF b, word, double, k, w
<1>8. ASSUME k \in {1, 2, 4} PROVE ~Unsigned(s).ok
  <2>1. TooLong(b, DoubleBits) \/ \E n \in 1..Len(b) : /\ Number(b, n, DoubleBits)
                                                       /\ VarintValue(b, n) % 2 ^ DoubleBits >= 2 ^ WordBits
    BY <1>7, <1>8
  <2>2. double.ok => double.value >= 2 ^ WordBits
    BY <1>4, <1>5, <2>1
  <2> QED BY <1>2, <2>2 DEF Error
<1>9. ASSUME k = 3 PROVE ~Bytes(s).ok
  <2>1. TooLong(b, WordBits) \/ \E n \in 1..Len(b) : Number(b, n, WordBits) /\ VarintValue(b, n) % 2 ^ WordBits > DataMax
    BY <1>7, <1>9
  <2>2. word.ok => word.value > DataMax
    BY <1>4, <1>6, <2>1
  <2> QED BY <1>3, <2>2 DEF Error
<1>10. ASSUME k \notin 1..4 PROVE ~SkipField(s, w).ok
  <2>1. w \notin {0, 1, 2, 5} \/ (w = 2 /\ TooLong(b, WordBits))
    BY <1>7, <1>10
  <2>2. CASE w \notin {0, 1, 2, 5}
    BY <2>2 DEF SkipField, PB_WT, Error
  <2>3. CASE w = 2 /\ TooLong(b, WordBits)
    <3>1. SkipString(s) = IF word.ok THEN Read(word.rest, word.value) ELSE word
      BY Zenon DEF SkipString, VarintWord, word
    <3>2. SkipField(s, w) = SkipString(s)
      BY <2>3 DEF SkipField, PB_WT
    <3> QED BY <1>4, <2>3, <3>1, <3>2
  <2> QED BY <2>1, <2>2, <2>3
<1> QED BY <1>8, <1>9, <1>10 DEF k, w

-----------------------------------------------------------------------------
(* Where the pieces of a packet begin.                                      *)

\* One sequence more.
LEMMA FlattenOneMore ==
    ASSUME NEW T, NEW s \in Seq(Seq(T)), NEW t \in Seq(Seq(T)),
           Len(t) = Len(s) + 1, \A i \in 1..Len(s) : t[i] = s[i]
    PROVE  FlattenSeq(t) = FlattenSeq(s) \o t[Len(t)]
<1> DEFINE n == Len(s)
           flatten[i \in 1..n] == IF i = 1 THEN s[i] ELSE flatten[i - 1] \o s[i]
           longer[i \in 1..n + 1] == IF i = 1 THEN t[i] ELSE longer[i - 1] \o t[i]
<1>1. n \in Nat /\ Len(t) = n + 1
  BY LenProperties
<1>2. longer = [i \in 1..n + 1 |-> IF i = 1 THEN t[i] ELSE longer[i - 1] \o t[i]]
  <2>1. n + 1 \in Nat
    BY <1>1
  <2> QED BY <2>1, FlattenDefined
<1>3. FlattenSeq(t) = longer[n + 1]
  <2>1. Len(t) # 0
    BY <1>1
  <2> DEFINE same[i \in 1..Len(t)] == IF i = 1 THEN t[i] ELSE same[i - 1] \o t[i]
  <2>2. FlattenSeq(t) = same[Len(t)]
    BY <2>1 DEF FlattenSeq
  <2> QED BY <1>1, <2>2
<1>4. CASE n = 0
  <2>1. s = <<>> /\ FlattenSeq(s) = <<>>
    <3>1. s = <<>>
      BY <1>4, EmptySeq
    <3> QED BY <1>4, <3>1 DEF FlattenSeq
  <2>2. longer[1] = t[1]
    <3>1. 1 \in 1..n + 1
      BY <1>4
    <3> HIDE DEF longer
    <3> QED BY <1>2, <3>1
  <2>3. t[1] \in Seq(T)
    BY <1>1, <1>4, ElementOfSeq
  <2>4. <<>> \o t[1] = t[1]
    BY <2>3, ConcatEmptySeq
  <2> HIDE DEF longer
  <2> QED BY <1>1, <1>3, <1>4, <2>1, <2>2, <2>4
<1>5. CASE n # 0
  <2>1. flatten = [i \in 1..n |-> IF i = 1 THEN s[i] ELSE flatten[i - 1] \o s[i]]
    BY <1>1, FlattenDefined
  <2>2. FlattenSeq(s) = flatten[n]
    BY <1>5 DEF FlattenSeq
  <2> HIDE DEF flatten, longer
  <2> DEFINE S == {k \in Nat : k + 1 \in 1..n => longer[k + 1] = flatten[k + 1]}
  <2>3. \A i \in 1..n : flatten[i] = IF i = 1 THEN s[i] ELSE flatten[i - 1] \o s[i]
    BY <2>1, Zenon
  <2>4. \A i \in 1..n + 1 : longer[i] = IF i = 1 THEN t[i] ELSE longer[i - 1] \o t[i]
    BY <1>2, Zenon
  <2>5. 0 \in S
    BY <1>1, <2>3, <2>4
  <2>6. ASSUME NEW k \in Nat, k \in S PROVE k + 1 \in S
    <3> SUFFICES ASSUME (k + 1) + 1 \in 1..n PROVE longer[(k + 1) + 1] = flatten[(k + 1) + 1]
      OBVIOUS
    <3>1. (k + 1) + 1 # 1 /\ ((k + 1) + 1) - 1 = k + 1 /\ (k + 1) + 1 \in 1..n + 1 /\ k + 1 \in 1..n
      BY <1>1
    <3>2. longer[k + 1] = flatten[k + 1] /\ t[(k + 1) + 1] = s[(k + 1) + 1]
      BY <2>6, <3>1
    <3>3. flatten[(k + 1) + 1] = flatten[k + 1] \o s[(k + 1) + 1]
      BY <2>3, <3>1
    <3>4. longer[(k + 1) + 1] = longer[k + 1] \o t[(k + 1) + 1]
      BY <2>4, <3>1
    <3> QED BY <3>2, <3>3, <3>4
  <2> HIDE DEF S
  <2>7. \A k \in Nat : k \in S
    BY <2>5, <2>6, SetInduction
  <2>8. n - 1 \in Nat /\ (n - 1) + 1 = n /\ n \in 1..n /\ n + 1 \in 1..n + 1 /\ n + 1 # 1 /\ (n + 1) - 1 = n
    BY <1>1, <1>5
  <2>9. longer[n] = flatten[n]
    BY <2>7, <2>8 DEF S
  <2>10. longer[n + 1] = longer[n] \o t[n + 1]
    BY <2>4, <2>8
  <2> QED BY <1>1, <1>3, <2>2, <2>9, <2>10
<1> QED BY <1>4, <1>5

\* The bytes before the piece after the k-th.
Before(p, k) == Len(PiecesBytes(SubSeq(p, 1, k)))

\* A packet is a sequence of pieces, and so is the beginning of one.
LEMMA PacketSeq ==
    ASSUME NEW p \in Packets
    PROVE  /\ p \in Seq(ToSet(p)) /\ Len(p) \in Nat /\ DOMAIN p = 1..Len(p)
           /\ \A k \in 1..Len(p) : IsPiece(p[k])
           /\ \A k \in 0..Len(p) : /\ Len(SubSeq(p, 1, k)) = k /\ SubSeq(p, 1, k) \in Seq(ToSet(p))
                                   /\ \A i \in 1..k : SubSeq(p, 1, k)[i] = p[i]
<1>1. p \in Seq(ToSet(p)) /\ Len(p) \in Nat /\ DOMAIN p = 1..Len(p)
  BY LenProperties, ActionAssumption
<1>2. \A k \in 1..Len(p) : IsPiece(p[k])
  BY <1>1, ActionAssumption
<1>3. ASSUME NEW k \in 0..Len(p)
      PROVE  /\ Len(SubSeq(p, 1, k)) = k /\ SubSeq(p, 1, k) \in Seq(ToSet(p))
             /\ \A i \in 1..k : SubSeq(p, 1, k)[i] = p[i]
  <2> DEFINE T == ToSet(p)
             q == SubSeq(p, 1, k)
  <2> HIDE DEF T
  <2>1. \A i \in 1..k : p[i] \in T
    <3>1. \A i \in 1..Len(p) : p[i] \in T
      BY <1>1, ElementOfSeq DEF T
    <3> QED BY <1>1, <3>1
  <2>2. /\ q \in Seq(T) /\ Len(q) = IF 1 <= k THEN k - 1 + 1 ELSE 0
        /\ \A i \in 1..k - 1 + 1 : q[i] = p[1 + i - 1]
    <3>1. 1 \in Int /\ k \in Int
      BY <1>1
    <3> QED BY <2>1, <3>1, SubSeqProperties
  <2> HIDE DEF q
  <2>3. k - 1 + 1 = k /\ (IF 1 <= k THEN k - 1 + 1 ELSE 0) = k /\ \A i \in 1..k : 1 + i - 1 = i
    BY <1>1
  <2> QED BY <2>2, <2>3 DEF q, T
<1> QED BY <1>1, <1>2, <1>3

\* A piece more is its bytes more.
LEMMA NextBytes ==
    ASSUME NEW p \in Packets
    PROVE  /\ PiecesBytes(SubSeq(p, 1, 0)) = <<>> /\ SubSeq(p, 1, Len(p)) = p
           /\ \A k \in 0..Len(p) : PiecesBytes(SubSeq(p, 1, k)) \in Seq(Byte)
           /\ \A k \in 1..Len(p) :
                PiecesBytes(SubSeq(p, 1, k)) = PiecesBytes(SubSeq(p, 1, k - 1)) \o p[k].bytes
<1> DEFINE B(k) == [j \in DOMAIN SubSeq(p, 1, k) |-> SubSeq(p, 1, k)[j].bytes]
<1>1. /\ p \in Seq(ToSet(p)) /\ Len(p) \in Nat
      /\ \A k \in 1..Len(p) : p[k].bytes \in Seq(Byte)
  BY PacketSeq, PieceParts
<1>2. ASSUME NEW k \in 0..Len(p)
      PROVE  B(k) \in Seq(Seq(Byte)) /\ Len(B(k)) = k /\ \A j \in 1..k : B(k)[j] = p[j].bytes
  <2> DEFINE q == SubSeq(p, 1, k)
  <2>1. Len(q) = k /\ q \in Seq(ToSet(p)) /\ \A i \in 1..k : q[i] = p[i]
    BY PacketSeq
  <2>2. DOMAIN q = 1..k /\ k \in Nat
    BY <1>1, <2>1, LenProperties
  <2> HIDE DEF q
  <2>3. [j \in DOMAIN q |-> q[j].bytes] = [j \in 1..k |-> p[j].bytes]
    BY <2>1, <2>2
  <2>4. B(k) = [j \in 1..k |-> p[j].bytes]
    BY <2>3 DEF q
  <2>5. \A j \in 1..k : p[j].bytes \in Seq(Byte)
    BY <1>1, <2>2
  <2> HIDE DEF B
  <2>6. B(k) \in Seq(Seq(Byte))
    BY <2>2, <2>4, <2>5, IsASeq
  <2>7. DOMAIN B(k) = 1..k /\ DOMAIN B(k) = 1..Len(B(k))
    BY <2>4, <2>6, LenProperties
  <2>8. Len(B(k)) = k
    BY <2>2, <2>6, <2>7, LenProperties
  <2> QED BY <2>4, <2>6, <2>8
<1>3. \A k : PiecesBytes(SubSeq(p, 1, k)) = FlattenSeq(B(k))
  BY DEF PiecesBytes
<1> HIDE DEF B
<1>4. \A k \in 0..Len(p) : PiecesBytes(SubSeq(p, 1, k)) \in Seq(Byte)
  BY <1>2, <1>3, FlattenType
<1>5. PiecesBytes(SubSeq(p, 1, 0)) = <<>>
  <2>1. 0 \in 0..Len(p)
    BY <1>1
  <2>2. B(0) \in Seq(Seq(Byte)) /\ Len(B(0)) = 0
    BY <1>2, <2>1
  <2>3. B(0) = <<>>
    BY <2>2, EmptySeq
  <2>4. FlattenSeq(B(0)) = B(0)
    BY <2>2 DEF FlattenSeq
  <2> QED BY <1>3, <2>3, <2>4
<1>6. SubSeq(p, 1, Len(p)) = p
  BY <1>1, SubSeqFull
<1>7. ASSUME NEW k \in 1..Len(p)
      PROVE  PiecesBytes(SubSeq(p, 1, k)) = PiecesBytes(SubSeq(p, 1, k - 1)) \o p[k].bytes
  <2>1. k \in 0..Len(p) /\ k - 1 \in 0..Len(p) /\ k = (k - 1) + 1 /\ k \in 1..k
        /\ \A j \in 1..k - 1 : j \in 1..k
    BY <1>1
  <2> DEFINE s == B(k - 1)
             t == B(k)
  <2>2. s \in Seq(Seq(Byte)) /\ Len(s) = k - 1 /\ \A j \in 1..k - 1 : s[j] = p[j].bytes
    BY <1>2, <2>1
  <2>3. t \in Seq(Seq(Byte)) /\ Len(t) = k /\ \A j \in 1..k : t[j] = p[j].bytes
    BY <1>2, <2>1
  <2> HIDE DEF s, t
  <2>4. Len(t) = Len(s) + 1 /\ \A i \in 1..Len(s) : t[i] = s[i]
    BY <2>1, <2>2, <2>3
  <2>5. FlattenSeq(t) = FlattenSeq(s) \o t[Len(t)]
    BY <2>2, <2>3, <2>4, FlattenOneMore
  <2> QED BY <1>3, <2>1, <2>3, <2>5 DEF s, t
<1> QED BY <1>4, <1>5, <1>6, <1>7

\* Where a piece is.
LEMMA Offsets ==
    ASSUME NEW p \in Packets
    PROVE  /\ Before(p, 0) = 0 /\ Before(p, Len(p)) = Len(PiecesBytes(p))
           /\ \A k \in 0..Len(p) : Before(p, k) \in Nat
           /\ \A k \in 1..Len(p) : Before(p, k) = Before(p, k - 1) + Len(p[k].bytes)
           /\ \A j, k \in 0..Len(p) : /\ j <= k => Before(p, j) <= Before(p, k)
                                      /\ j < k => Before(p, j) < Before(p, k)
           /\ \A k \in 1..Len(p) : \A i \in 1..Len(p[k].bytes) :
                PiecesBytes(p)[Before(p, k - 1) + i] = p[k].bytes[i]
<1> DEFINE P(k) == PiecesBytes(SubSeq(p, 1, k))
           O(k) == Before(p, k)
           n == Len(p)
<1>1. n \in Nat /\ \A k \in 1..n : /\ p[k].bytes \in Seq(Byte) /\ Len(p[k].bytes) \in Nat
                                   /\ p[k].tag \in 1..Len(p[k].bytes)
  BY PacketSeq, PieceParts
<1>2. /\ P(0) = <<>> /\ P(n) = PiecesBytes(p)
      /\ \A k \in 0..n : P(k) \in Seq(Byte)
      /\ \A k \in 1..n : P(k) = P(k - 1) \o p[k].bytes
  BY NextBytes
<1>3. \A k : O(k) = Len(P(k))
  BY DEF Before
<1> HIDE DEF P, O, n
<1>4. O(0) = 0 /\ O(n) = Len(PiecesBytes(p)) /\ \A k \in 0..n : O(k) \in Nat
  BY <1>2, <1>3, LenProperties, EmptySeq
<1>5. ASSUME NEW k \in 1..n
      PROVE  /\ O(k) = O(k - 1) + Len(p[k].bytes) /\ Len(p[k].bytes) \in Nat \ {0}
             /\ O(k) \in Nat /\ O(k - 1) \in Nat /\ O(k - 1) < O(k)
             /\ \A i \in 1..O(k - 1) : P(k)[i] = P(k - 1)[i]
             /\ \A i \in 1..Len(p[k].bytes) : P(k)[O(k - 1) + i] = p[k].bytes[i]
  <2>1. k \in 0..n /\ k - 1 \in 0..n
    BY <1>1
  <2> DEFINE a == P(k - 1)
             b == p[k].bytes
  <2>2. a \in Seq(Byte) /\ b \in Seq(Byte) /\ Len(b) \in Nat \ {0} /\ P(k) = a \o b
    <3>1. a \in Seq(Byte) /\ b \in Seq(Byte) /\ P(k) = a \o b
      BY <1>1, <1>2, <2>1
    <3>2. Len(b) \in Nat /\ p[k].tag \in 1..Len(b)
      BY <1>1
    <3>3. Len(b) # 0
      BY <3>2
    <3> QED BY <3>1, <3>2, <3>3
  <2>3. Len(a) = O(k - 1) /\ Len(P(k)) = O(k)
    BY <1>3
  <2> HIDE DEF a, b
  <2>4. /\ Len(a \o b) = Len(a) + Len(b) /\ Len(a) \in Nat
        /\ \A i \in 1..Len(a) + Len(b) : (a \o b)[i] = IF i <= Len(a) THEN a[i] ELSE b[i - Len(a)]
    BY <2>2, ConcatProperties, LenProperties
  <2>5. \A i \in 1..Len(a) : (a \o b)[i] = a[i]
    BY <2>2, <2>4
  <2>6. ASSUME NEW i \in 1..Len(b) PROVE (a \o b)[Len(a) + i] = b[i]
    <3>1. Len(a) + i \in 1..Len(a) + Len(b) /\ ~(Len(a) + i <= Len(a)) /\ Len(a) + i - Len(a) = i
      BY <2>2, <2>4
    <3> QED BY <2>4, <3>1
  <2>7. O(k) = O(k - 1) + Len(b) /\ O(k) \in Nat /\ O(k - 1) \in Nat /\ O(k - 1) < O(k)
    BY <2>2, <2>3, <2>4
  <2> QED BY <2>2, <2>3, <2>5, <2>6, <2>7 DEF a, b
<1>6. ASSUME NEW j \in 0..n
      PROVE  \A k \in 0..n : j <= k => O(j) <= O(k) /\ \A i \in 1..O(j) : P(k)[i] = P(j)[i]
  <2> DEFINE S == {k \in Nat : k <= n /\ j <= k => O(j) <= O(k) /\ \A i \in 1..O(j) : P(k)[i] = P(j)[i]}
  <2>1. 0 \in S
    BY <1>1, <1>4
  <2>2. ASSUME NEW k \in Nat, k \in S PROVE k + 1 \in S
    <3> SUFFICES ASSUME k + 1 <= n, j <= k + 1
                 PROVE  O(j) <= O(k + 1) /\ \A i \in 1..O(j) : P(k + 1)[i] = P(j)[i]
      OBVIOUS
    <3>1. O(j) \in Nat /\ O(k + 1) \in Nat /\ O(k) \in Nat
      <4>1. k + 1 \in 0..n /\ k \in 0..n
        BY <1>1
      <4> QED BY <1>4, <4>1
    <3>2. CASE j = k + 1
      BY <3>1, <3>2
    <3>3. CASE j # k + 1
      <4>1. j <= k /\ k <= n /\ k + 1 \in 1..n /\ (k + 1) - 1 = k
        BY <1>1, <3>3
      <4>2. O(j) <= O(k) /\ \A i \in 1..O(j) : P(k)[i] = P(j)[i]
        BY <2>2, <4>1
      <4>3. O(k) < O(k + 1) /\ \A i \in 1..O(k) : P(k + 1)[i] = P(k)[i]
        BY <1>5, <4>1
      <4>4. \A i \in 1..O(j) : i \in 1..O(k)
        BY <3>1, <4>2
      <4> QED BY <3>1, <4>2, <4>3, <4>4
    <3> QED BY <3>2, <3>3
  <2> HIDE DEF S
  <2>3. \A k \in Nat : k \in S
    BY <2>1, <2>2, SetInduction
  <2>4. \A k \in 0..n : k \in Nat /\ k <= n
    BY <1>1
  <2> QED BY <2>3, <2>4 DEF S
<1>7. ASSUME NEW j \in 0..n, NEW k \in 0..n, j < k PROVE O(j) < O(k)
  <2>1. j + 1 \in 1..n /\ j + 1 \in 0..n /\ j + 1 <= k /\ (j + 1) - 1 = j
    BY <1>1, <1>7
  <2>2. O(j) < O(j + 1)
    BY <1>5, <2>1
  <2>3. O(j + 1) <= O(k)
    BY <1>6, <2>1
  <2>4. O(j) \in Nat /\ O(j + 1) \in Nat /\ O(k) \in Nat
    BY <1>4, <2>1
  <2> QED BY <2>2, <2>3, <2>4
<1>8. ASSUME NEW k \in 1..n, NEW i \in 1..Len(p[k].bytes)
      PROVE  PiecesBytes(p)[O(k - 1) + i] = p[k].bytes[i]
  <2>1. k \in 0..n /\ n \in 0..n /\ k <= n
    BY <1>1
  <2>2. P(k)[O(k - 1) + i] = p[k].bytes[i] /\ O(k) = O(k - 1) + Len(p[k].bytes) /\ O(k - 1) \in Nat
    BY <1>5
  <2>3. O(k - 1) + i \in 1..O(k)
    BY <1>1, <2>2
  <2>4. P(n)[O(k - 1) + i] = P(k)[O(k - 1) + i]
    BY <1>6, <2>1, <2>3
  <2> QED BY <1>2, <2>2, <2>4
<1>9. \A k \in 1..n : O(k) = O(k - 1) + Len(p[k].bytes)
  BY <1>5
<1>10. \A j, k \in 0..n : (j <= k => O(j) <= O(k)) /\ (j < k => O(j) < O(k))
  BY <1>6, <1>7
<1> QED BY <1>4, <1>8, <1>9, <1>10 DEF O, n

-----------------------------------------------------------------------------
(* What arrived.                                                            *)

\* The greatest of some numbers, none of which is more than n.
LEMMA MaxNumber ==
    ASSUME NEW n \in Nat, NEW T, T \subseteq 0..n, T # {}
    PROVE  Max(T) \in T /\ \A y \in T : y <= Max(T)
<1> DEFINE U == {n - y : y \in T}
<1>1. U \subseteq Nat /\ U # {}
  <2>1. \A y \in T : y \in 0..n /\ n - y \in Nat
    OBVIOUS
  <2> QED BY <2>1
<1>2. PICK u \in U : \A y \in U : u <= y
  BY <1>1, LeastNumber
<1>3. PICK x \in T : u = n - x
  BY <1>2
<1>4. \A y \in T : x >= y
  <2> SUFFICES ASSUME NEW y \in T PROVE x >= y
    OBVIOUS
  <2>1. u <= n - y /\ x \in 0..n /\ y \in 0..n
    BY <1>2
  <2> QED BY <1>3, <2>1
<1>5. Max(T) \in T /\ \A y \in T : Max(T) >= y
  BY <1>4, Zenon DEF Max
<1>6. \A y \in T : Max(T) >= y => y <= Max(T)
  <2> DEFINE m == Max(T)
  <2>1. m \in 0..n
    BY <1>5
  <2> HIDE DEF m
  <2>2. \A y \in T : m >= y => y <= m
    BY <2>1
  <2> QED BY <2>2 DEF m
<1> QED BY <1>5, <1>6

\* What arrived of the packet.
Written == SubSeq(PiecesBytes(packet), 1, Length)

\* The packet in hand, and how much of it there is.
InHand == packet \in Packets /\ Length \in 0..Len(PiecesBytes(packet))

\* Of the pieces after n of them that arrived, the next is not whole, or is none.
LEMMA WholeIs ==
    ASSUME InHand, NEW n \in 0..Len(packet), Before(packet, n) <= Length,
           n < Len(packet) => Length < Before(packet, n + 1)
    PROVE  Whole = n
<1> DEFINE S == {k \in 0..Len(packet) : Before(packet, k) <= Length}
<1>1. /\ Len(packet) \in Nat /\ Length \in Nat
      /\ \A k \in 0..Len(packet) : Before(packet, k) \in Nat
      /\ \A j, k \in 0..Len(packet) : j <= k => Before(packet, j) <= Before(packet, k)
  BY Offsets, PacketSeq, PacketBytes DEF InHand
<1>2. n \in S
  OBVIOUS
<1>3. \A k \in S : k <= n
  <2> SUFFICES ASSUME NEW k \in S, n < k PROVE FALSE
    BY <1>1
  <2>1. k \in 0..Len(packet) /\ n + 1 \in 0..Len(packet) /\ n < Len(packet) /\ n + 1 <= k
    BY <1>1
  <2>2. Before(packet, n + 1) <= Before(packet, k) /\ Length < Before(packet, n + 1) /\ Before(packet, k) <= Length
    BY <1>1, <2>1
  <2>3. Before(packet, n + 1) \in Nat /\ Before(packet, k) \in Nat
    BY <1>1, <2>1
  <2> QED BY <1>1, <2>2, <2>3
<1>4. Whole = Max(S)
  BY DEF Whole, Before
<1>5. S \subseteq 0..Len(packet)
  OBVIOUS
<1> HIDE DEF S
<1>6. Max(S) \in S /\ n <= Max(S)
  BY <1>1, <1>2, <1>5, MaxNumber
<1> DEFINE m == Max(S)
<1>7. m \in 0..Len(packet) /\ m <= n /\ n <= m
  BY <1>3, <1>5, <1>6
<1> HIDE DEF m
<1>8. m = n
  BY <1>1, <1>7
<1> QED BY <1>4, <1>8 DEF m

\* Pieces that arrived are among those that did.
LEMMA WholeAtLeast ==
    ASSUME InHand, NEW n \in 0..Len(packet), Before(packet, n) <= Length
    PROVE  Whole \in n..Len(packet) /\ Before(packet, Whole) <= Length
<1> DEFINE S == {k \in 0..Len(packet) : Before(packet, k) <= Length}
<1>1. Len(packet) \in Nat
  BY PacketSeq DEF InHand
<1>2. n \in S /\ S \subseteq 0..Len(packet)
  OBVIOUS
<1>3. Whole = Max(S)
  BY DEF Whole, Before
<1>4. Max(S) \in S /\ n <= Max(S)
  <2> HIDE DEF S
  <2> QED BY <1>1, <1>2, MaxNumber
<1>5. Whole \in S /\ n <= Whole
  BY <1>3, <1>4, Zenon
<1> QED BY <1>1, <1>5

\* The pieces that the decoder has read, one in each round.
Consumed ==
    /\ rounds \in 0..Len(packet) /\ Before(packet, rounds) <= Length
    /\ stream = Drop(Written, Before(packet, rounds))
    /\ \A k \in 1..rounds : packet[k].name \notin {"end", "malformed"}

\* Where the decoder stops.
LEMMA FieldsAtEnd ==
    ASSUME InHand, Consumed,
           \/ rounds = Len(packet)
           \/ /\ rounds < Len(packet)
              /\ \/ Length < Before(packet, rounds) + packet[rounds + 1].tag
                 \/ packet[rounds + 1].name = "end" /\ Before(packet, rounds + 1) <= Length
    PROVE  Fields = 1..rounds /\ ~Torn
<1> DEFINE n == rounds
           x == packet[n + 1]
<1>1. /\ Len(packet) \in Nat /\ Length \in Nat /\ n \in 0..Len(packet) /\ Before(packet, n) <= Length
      /\ \A k \in 0..Len(packet) : Before(packet, k) \in Nat
      /\ \A k \in 1..Len(packet) : Before(packet, k) = Before(packet, k - 1) + Len(packet[k].bytes)
      /\ Before(packet, Len(packet)) = Len(PiecesBytes(packet))
      /\ Length <= Len(PiecesBytes(packet))
  BY Offsets, PacketSeq, PacketBytes DEF InHand, Consumed
<1>2. \A k \in 1..n : packet[k].name # "end"
  BY DEF Consumed
<1>3. ASSUME n < Len(packet)
      PROVE  /\ n + 1 \in 1..Len(packet) /\ Before(packet, n + 1) = Before(packet, n) + Len(x.bytes)
             /\ x.tag \in 1..Len(x.bytes) /\ Len(x.bytes) \in Nat
             /\ Before(packet, n) \in Nat /\ Before(packet, n + 1) \in Nat
  <2>1. n + 1 \in 1..Len(packet) /\ (n + 1) - 1 = n /\ n + 1 \in 0..Len(packet)
    BY <1>1, <1>3
  <2>2. IsPiece(x)
    BY <2>1, PacketSeq DEF InHand
  <2> QED BY <1>1, <2>1, <2>2, PieceParts
<1>4. ASSUME n = Len(packet) \/ (n < Len(packet) /\ Length < Before(packet, n) + x.tag)
      PROVE  Fields = 1..n /\ ~Torn
  <2>1. n < Len(packet) => Length < Before(packet, n + 1)
    <3> SUFFICES ASSUME n < Len(packet) PROVE Length < Before(packet, n + 1)
      OBVIOUS
    <3>1. Length < Before(packet, n) + x.tag
      BY <1>1, <1>4
    <3> QED BY <1>1, <1>3, <3>1
  <2>2. Whole = n
    BY <1>1, <2>1, WholeIs
  <2>3. Ends = {}
    BY <1>2, <2>2 DEF Ends
  <2>4. Fields = 1..n
    BY <2>2, <2>3 DEF Fields
  <2>5. ~Torn
    <3> SUFFICES ASSUME n < Len(packet), Length - Before(packet, n) >= x.tag PROVE FALSE
      BY <2>2, <2>3 DEF Torn, Before
    <3>1. Length < Before(packet, n) + x.tag
      BY <1>1, <1>4
    <3> QED BY <1>1, <1>3, <3>1
  <2> QED BY <2>4, <2>5
<1>5. ASSUME n < Len(packet), x.name = "end", Before(packet, n + 1) <= Length
      PROVE  Fields = 1..n /\ ~Torn
  <2>1. n + 1 \in 0..Len(packet)
    BY <1>1, <1>5
  <2>2. Whole \in n + 1..Len(packet)
    BY <1>5, <2>1, WholeAtLeast
  <2>3. n + 1 \in Ends /\ Ends \subseteq Nat
    BY <1>1, <1>5, <2>2 DEF Ends
  <2>4. \A k \in Ends : n + 1 <= k
    <3> SUFFICES ASSUME NEW k \in Ends, k < n + 1 PROVE FALSE
      BY <1>1, <2>3
    <3>1. k \in 1..Whole /\ packet[k].name = "end"
      BY DEF Ends
    <3>2. k \in 1..n
      BY <1>1, <2>2, <3>1
    <3> QED BY <1>2, <3>1, <3>2
  <2>5. Min(Ends) = n + 1
    <3>1. Min(Ends) \in Ends /\ Min(Ends) <= n + 1
      BY <2>3, MinNumber
    <3> DEFINE m == Min(Ends)
    <3>2. m \in Nat /\ m <= n + 1 /\ n + 1 <= m
      BY <2>3, <2>4, <3>1
    <3> HIDE DEF m
    <3>3. m = n + 1
      BY <1>1, <3>2
    <3> QED BY <3>3 DEF m
  <2>6. Fields = 1..(n + 1) - 1 /\ (n + 1) - 1 = n
    BY <1>1, <2>3, <2>5 DEF Fields
  <2>7. ~Torn
    BY <2>3 DEF Torn
  <2> QED BY <2>6, <2>7
<1> QED BY <1>4, <1>5

\* Where the decoder gives up.
LEMMA RefusedRightly ==
    ASSUME InHand, Consumed, rounds < Len(packet),
           Before(packet, rounds) + packet[rounds + 1].tag <= Length,
           packet[rounds + 1].name # "end",
           packet[rounds + 1].name = "malformed" \/ Length < Before(packet, rounds + 1)
    PROVE  ~WellFormed
<1> DEFINE n == rounds
           x == packet[n + 1]
<1>1. /\ Len(packet) \in Nat /\ Length \in Nat /\ n \in 0..Len(packet) /\ Before(packet, n) <= Length
      /\ \A k \in 0..Len(packet) : Before(packet, k) \in Nat
  BY Offsets, PacketSeq, PacketBytes DEF InHand, Consumed
<1>2. \A k \in 1..n : packet[k].name # "end"
  BY DEF Consumed
<1>3. n + 1 \in 1..Len(packet) /\ n + 1 \in 0..Len(packet)
  BY <1>1
<1>4. x.tag \in Nat
  <2>1. IsPiece(x)
    BY <1>3, PacketSeq DEF InHand
  <2>2. x.tag \in 1..Len(x.bytes)
    BY <2>1, PieceParts
  <2> QED BY <2>2
<1>5. CASE Length < Before(packet, n + 1)
  <2>1. Whole = n
    BY <1>1, <1>5, WholeIs
  <2>2. Ends = {}
    BY <1>2, <2>1 DEF Ends
  <2>3. Length - Before(packet, n) >= x.tag
    BY <1>1, <1>4
  <2>4. Torn
    BY <2>1, <2>2, <2>3 DEF Torn, Before
  <2> QED BY <2>4 DEF WellFormed
<1>6. CASE ~(Length < Before(packet, n + 1))
  <2>1. x.name = "malformed" /\ Before(packet, n + 1) <= Length
    BY <1>1, <1>3, <1>6
  <2>2. Whole \in n + 1..Len(packet)
    BY <1>3, <2>1, WholeAtLeast
  <2>3. \A k \in Ends : k \in Nat /\ n + 1 < k
    <3> SUFFICES ASSUME NEW k \in Ends, ~(k \in Nat /\ n + 1 < k) PROVE FALSE
      OBVIOUS
    <3>1. k \in 1..Whole /\ packet[k].name = "end"
      BY DEF Ends
    <3>2. k \in 1..n \/ k = n + 1
      BY <1>1, <2>2, <3>1
    <3> QED BY <1>2, <2>1, <3>1, <3>2
  <2>4. n + 1 \in Fields
    <3>1. CASE Ends = {}
      BY <1>1, <2>2, <3>1 DEF Fields
    <3>2. CASE Ends # {}
      <4>1. Ends \subseteq Nat
        BY <2>3
      <4>2. Min(Ends) \in Ends
        BY <3>2, <4>1, MinNumber
      <4> DEFINE m == Min(Ends)
      <4>3. m \in Nat /\ n + 1 < m
        BY <2>3, <4>2
      <4> HIDE DEF m
      <4>4. n + 1 \in 1..m - 1
        BY <1>1, <4>3
      <4> QED BY <3>2, <4>4 DEF Fields, m
    <3> QED BY <3>1, <3>2
  <2> QED BY <2>1, <2>4 DEF WellFormed
<1> QED BY <1>5, <1>6

-----------------------------------------------------------------------------
(* The rounds of the decoder.                                               *)

\* The next piece is at the head of the stream, or as much of it as arrived.
LEMMA PieceAhead ==
    ASSUME InHand, Consumed, stream # <<>>
    PROVE  LET x == packet[rounds + 1] IN
           /\ rounds < Len(packet) /\ rounds + 1 \in 1..Len(packet) /\ IsPiece(x)
           /\ stream \in Seq(Byte) /\ Len(stream) = Length - Before(packet, rounds) /\ Agrees(stream, x.bytes)
           /\ Before(packet, rounds + 1) = Before(packet, rounds) + Len(x.bytes)
           /\ Before(packet, rounds) \in Nat /\ Length \in Nat
<1> DEFINE n == rounds
           x == packet[n + 1]
           o == Before(packet, n)
           all == PiecesBytes(packet)
           w == Written
<1>1. /\ Len(packet) \in Nat /\ Length \in 0..Len(all) /\ Len(all) \in Nat /\ all \in Seq(Byte)
      /\ n \in 0..Len(packet) /\ o \in Nat /\ o <= Length
      /\ Before(packet, Len(packet)) = Len(all)
      /\ \A k \in 1..Len(packet) : Before(packet, k) = Before(packet, k - 1) + Len(packet[k].bytes)
      /\ \A k \in 1..Len(packet) : \A i \in 1..Len(packet[k].bytes) :
            all[Before(packet, k - 1) + i] = packet[k].bytes[i]
  BY Offsets, PacketSeq, PacketBytes DEF InHand, Consumed
<1>2. w \in Seq(Byte) /\ Len(w) = Length /\ \A i \in 1..Length : w[i] = all[i]
  <2>1. w \in Seq(Byte) /\ Len(w) = Length
    BY <1>1, FirstBytes DEF Written
  <2>2. \A i \in 1..Length : all[i] \in Byte
    <3>1. \A i \in 1..Len(all) : all[i] \in Byte
      BY <1>1, ElementOfSeq
    <3> QED BY <1>1, <3>1
  <2>3. \A i \in 1..Length - 1 + 1 : w[i] = all[1 + i - 1]
    <3>1. Length \in Int /\ 1 \in Int
      BY <1>1
    <3> HIDE DEF all
    <3> QED BY <2>2, <3>1, SubSeqProperties DEF Written, all
  <2>4. Length - 1 + 1 = Length /\ \A i \in 1..Length : 1 + i - 1 = i
    BY <1>1
  <2> HIDE DEF w, all
  <2> QED BY <2>1, <2>3, <2>4
<1> HIDE DEF w, all
<1>3. o \in 0..Len(w) /\ stream = Drop(w, o)
  BY <1>1, <1>2 DEF Consumed, w
<1>4. stream \in Seq(Byte) /\ Len(stream) = Length - o /\ \A i \in 1..Length - o : stream[i] = w[o + i]
  BY <1>2, <1>3, DropsTo
<1>5. n < Len(packet)
  <2>1. Len(stream) # 0
    BY <1>4, EmptySeq
  <2>2. CASE n = Len(packet)
    <3>1. o = Len(all)
      BY <1>1, <2>2
    <3> QED BY <1>1, <1>4, <2>1, <3>1
  <2> QED BY <1>1, <2>2
<1>6. n + 1 \in 1..Len(packet) /\ (n + 1) - 1 = n
  BY <1>1, <1>5
<1>7. IsPiece(x) /\ x.bytes \in Seq(Byte) /\ Len(x.bytes) \in Nat
  BY <1>6, PacketSeq, PieceParts DEF InHand
<1>8. \A i \in 1..Len(x.bytes) : all[o + i] = x.bytes[i]
  BY <1>1, <1>6
<1>9. Agrees(stream, x.bytes)
  <2> SUFFICES ASSUME NEW i \in 1..Len(stream), i \in 1..Len(x.bytes) PROVE stream[i] = x.bytes[i]
    BY DEF Agrees
  <2> HIDE DEF o, x
  <2>1. i \in 1..Length - o /\ o + i \in 1..Length
    BY <1>1, <1>4
  <2> QED BY <1>2, <1>4, <1>8, <2>1
<1>10. Before(packet, n + 1) = o + Len(x.bytes)
  BY <1>1, <1>6
<1> QED BY <1>1, <1>4, <1>5, <1>6, <1>7, <1>9, <1>10

\* A round that takes a piece goes on with the next.
LEMMA PieceTaken ==
    ASSUME InHand, Consumed, stream # <<>>, UNCHANGED <<packet, cut>>, rounds' = rounds + 1,
           LET x == packet[rounds + 1] IN
           /\ x.name \notin {"end", "malformed"} /\ Len(x.bytes) <= Len(stream)
           /\ stream' = Drop(Drop(stream, x.tag), Len(Body(x)))
    PROVE  InHand' /\ Consumed'
<1> DEFINE n == rounds
           x == packet[n + 1]
           o == Before(packet, n)
           w == Written
<1>1. /\ n < Len(packet) /\ n + 1 \in 1..Len(packet) /\ IsPiece(x)
      /\ Len(stream) = Length - o /\ stream \in Seq(Byte)
      /\ Before(packet, n + 1) = o + Len(x.bytes) /\ o \in Nat /\ Length \in Nat
  BY PieceAhead
<1>2. /\ Len(x.bytes) \in Nat /\ x.tag \in 1..Len(x.bytes) /\ Len(Body(x)) = Len(x.bytes) - x.tag
  BY <1>1, PieceParts
<1>3. /\ Length' = Length /\ Written' = Written /\ InHand'
      /\ \A k : Before(packet, k)' = Before(packet, k')
  BY DEF Length, Written, InHand, Before
<1>4. w \in Seq(Byte) /\ Len(w) = Length
  BY PacketBytes, FirstBytes DEF Written, InHand
<1>5. stream = Drop(w, o) /\ o <= Length /\ n \in 0..Len(packet) /\ Len(packet) \in Nat
  BY PacketSeq DEF Consumed, InHand
<1>6. x.name \notin {"end", "malformed"} /\ Len(x.bytes) <= Len(stream)
      /\ stream' = Drop(Drop(stream, x.tag), Len(Body(x)))
  OBVIOUS
<1> HIDE DEF w, o
<1>7. stream' = Drop(w, o + Len(x.bytes)) /\ o + Len(x.bytes) <= Length
  <2> DEFINE l == Len(x.bytes)
  <2>1. l \in Nat /\ x.tag \in 0..l /\ l <= Length - o
    BY <1>1, <1>2, <1>6
  <2>2. o \in 0..Len(w) /\ l \in 0..Len(w) - o
    BY <1>1, <1>4, <1>5, <2>1
  <2>3. x.tag \in 0..Len(stream) /\ Len(Body(x)) \in 0..Len(stream) - x.tag /\ x.tag + Len(Body(x)) = l
    BY <1>1, <1>2, <2>1
  <2>4. Drop(Drop(stream, x.tag), Len(Body(x))) = Drop(stream, l)
    BY <1>1, <2>3, DropDrop
  <2>5. Drop(Drop(w, o), l) = Drop(w, o + l)
    BY <1>4, <2>2, DropDrop
  <2> HIDE DEF l
  <2>6. o + l <= Length
    BY <1>1, <1>5, <2>1
  <2> QED BY <1>5, <1>6, <2>4, <2>5, <2>6 DEF l
<1>8. \A k \in 1..n + 1 : packet[k].name \notin {"end", "malformed"}
  <2> SUFFICES ASSUME NEW k \in 1..n + 1 PROVE packet[k].name \notin {"end", "malformed"}
    OBVIOUS
  <2>1. k \in 1..n \/ k = n + 1
    BY <1>5
  <2> QED BY <1>6, <2>1 DEF Consumed
<1>9. n + 1 \in 0..Len(packet) /\ Before(packet, n + 1) <= Length
  BY <1>1, <1>7
<1>10. Before(packet, rounds)' = Before(packet, n + 1)
  BY DEF Before
<1>11. packet' = packet /\ rounds' = n + 1
  OBVIOUS
<1>12. Consumed'
  BY <1>1, <1>3, <1>7, <1>8, <1>9, <1>10, <1>11 DEF Consumed, w
<1> QED BY <1>3, <1>12

-----------------------------------------------------------------------------
(* The message holds the last values.                                       *)

Got(name) == \E k \in 1..rounds : packet[k].name = name

\* The k-th piece is the last of its name so far.
LastOf(name, k) ==
    k \in 1..rounds /\ packet[k].name = name /\ \A j \in k + 1..rounds : packet[j].name # name

\* The message has the data.
HasBytes(m, v) == m.size = Len(v) /\ \A i \in 1..Len(v) : m.bytes[i - 1] = v[i]

Stored ==
    /\ seen = {name \in RequiredFields : Got(name)}
    /\ message.has_state = Got("state") /\ message.has_data = Got("data")
    /\ \A k \in 1..rounds :
        /\ LastOf("id", k) => message.id = packet[k].value
        /\ LastOf("cmd", k) => message.cmd = packet[k].value
        /\ LastOf("state", k) => message.state = packet[k].value
        /\ LastOf("data", k) => packet[k].value \in Seq(Byte) /\ HasBytes(message, packet[k].value)

\* Of a name, the next piece is the last if it has it, and is not if it has not.
LEMMA NextLast ==
    ASSUME rounds \in Nat, rounds' = rounds + 1, packet' = packet, NEW name
    PROVE  /\ Got(name)' <=> (Got(name) \/ packet[rounds + 1].name = name)
           /\ \A k \in 1..rounds + 1 : LastOf(name, k)' =>
                IF packet[rounds + 1].name = name THEN k = rounds + 1 ELSE k \in 1..rounds /\ LastOf(name, k)
<1> DEFINE n == rounds
<1>1. n \in Nat /\ rounds' = n + 1 /\ packet' = packet
  OBVIOUS
<1>2. \A k \in 1..n + 1 : k \in 1..n \/ k = n + 1
  OBVIOUS
<1>3. \A k \in 1..n : k \in 1..n + 1
  OBVIOUS
<1>4. n + 1 \in 1..n + 1
  OBVIOUS
<1>5. Got(name)' <=> \E k \in 1..n + 1 : packet[k].name = name
  BY <1>1 DEF Got
<1>6. Got(name)' <=> (Got(name) \/ packet[n + 1].name = name)
  BY <1>2, <1>3, <1>4, <1>5 DEF Got
<1>7. ASSUME NEW k \in 1..n + 1, LastOf(name, k)'
      PROVE  IF packet[n + 1].name = name THEN k = n + 1 ELSE k \in 1..n /\ LastOf(name, k)
  <2>1. packet[k].name = name /\ \A j \in k + 1..n + 1 : packet[j].name # name
    BY <1>1, <1>7 DEF LastOf
  <2>2. CASE packet[n + 1].name = name
    <3>1. ~(n + 1 \in k + 1..n + 1)
      BY <2>1, <2>2
    <3>2. k = n + 1
      BY <1>1, <3>1
    <3> QED BY <2>2, <3>2
  <2>3. CASE packet[n + 1].name # name
    <3>1. k # n + 1
      BY <2>1, <2>3
    <3>2. k \in 1..n
      BY <1>2, <3>1
    <3>3. \A j \in k + 1..n : j \in k + 1..n + 1
      BY <3>2
    <3> QED BY <2>1, <2>3, <3>2, <3>3 DEF LastOf
  <2> QED BY <2>2, <2>3
<1> QED BY <1>6, <1>7

\* A field that is stored.
LEMMA FieldStored ==
    ASSUME message \in Messages, rounds \in Nat, Stored, rounds' = rounds + 1, packet' = packet,
           LET x == packet[rounds + 1] IN
           /\ x.name \in {"id", "cmd", "state", "data"}
           /\ x.name = "data" => x.value \in Seq(Byte) /\ Len(x.value) <= DataMax
           /\ seen' = seen \cup ({x.name} \cap RequiredFields)
           /\ message' = Store(message, x.name, x.value)
    PROVE  Stored'
<1> DEFINE x == packet[rounds + 1]
           v == x.value
<1>0. /\ x.name \in {"id", "cmd", "state", "data"}
      /\ x.name = "data" => v \in Seq(Byte) /\ Len(v) <= DataMax
      /\ seen' = seen \cup ({x.name} \cap RequiredFields)
      /\ message' = Store(message, x.name, v) /\ packet' = packet /\ rounds' = rounds + 1
  OBVIOUS
<1>1. \A name : /\ Got(name)' <=> (Got(name) \/ x.name = name)
                /\ \A k \in 1..rounds + 1 : LastOf(name, k)' =>
                    IF x.name = name THEN k = rounds + 1 ELSE k \in 1..rounds /\ LastOf(name, k)
  BY NextLast
<1>2. message \in [id : Nat, cmd : Nat, state : Nat, has_data : BOOLEAN, has_state : BOOLEAN,
                   size : 0..DataMax, bytes : [0..DataMax -> Byte]]
  BY DEF Messages
<1> HIDE DEF x, v
<1>3. seen' = {name \in RequiredFields : Got(name)'}
  <2>1. seen = {name \in RequiredFields : Got(name)}
    BY DEF Stored
  <2>2. ASSUME NEW name PROVE name \in seen' <=> name \in RequiredFields /\ Got(name)'
    BY <1>0, <1>1, <2>1
  <2> QED BY <2>2
<1>4. /\ x.name # "data" => message'.has_data = message.has_data /\ message'.size = message.size
                             /\ message'.bytes = message.bytes
      /\ x.name # "state" => message'.has_state = message.has_state /\ message'.state = message.state
      /\ x.name # "id" => message'.id = message.id
      /\ x.name # "cmd" => message'.cmd = message.cmd
      /\ x.name = "id" => message'.id = v
      /\ x.name = "cmd" => message'.cmd = v
      /\ x.name = "state" => message'.state = v /\ message'.has_state = TRUE
      /\ x.name = "data" => message'.has_data = TRUE /\ HasBytes(message', v)
  <2>1. CASE x.name = "id"
    <3>1. message' = [message EXCEPT !["id"] = v]
      BY <1>0, <2>1 DEF Store
    <3> QED BY <1>2, <2>1, <3>1
  <2>2. CASE x.name = "cmd"
    <3>1. message' = [message EXCEPT !["cmd"] = v]
      BY <1>0, <2>2 DEF Store
    <3> QED BY <1>2, <2>2, <3>1
  <2>3. CASE x.name = "state"
    <3>1. message' = [message EXCEPT !.has_state = TRUE, !.state = v]
      BY <1>0, <2>3 DEF Store
    <3> QED BY <1>2, <2>3, <3>1
  <2>4. CASE x.name = "data"
    <3> DEFINE bytes == [i \in 0..DataMax |-> IF i < Len(v) THEN v[i + 1] ELSE message.bytes[i]]
    <3>1. message' = [message EXCEPT !.has_data = TRUE, !.size = Len(v), !.bytes = bytes]
      BY <1>0, <2>4 DEF Store
    <3>2. \A i \in 1..Len(v) : bytes[i - 1] = v[i]
      <4>1. Len(v) \in Nat /\ DataMax \in Nat /\ Len(v) <= DataMax
        BY <1>0, <2>4, LenProperties, WidthAssumption
      <4>2. \A i \in 1..Len(v) : i - 1 \in 0..DataMax /\ i - 1 < Len(v) /\ (i - 1) + 1 = i
        BY <4>1
      <4> QED BY <4>2
    <3> HIDE DEF bytes
    <3>3. /\ message'.has_data = TRUE /\ message'.size = Len(v) /\ message'.bytes = bytes
          /\ message'.has_state = message.has_state /\ message'.state = message.state
          /\ message'.id = message.id /\ message'.cmd = message.cmd
      BY <1>2, <3>1
    <3> QED BY <2>4, <3>2, <3>3 DEF HasBytes
  <2> QED BY <1>0, <2>1, <2>2, <2>3, <2>4
<1>5. message'.has_state = Got("state")' /\ message'.has_data = Got("data")'
  <2>1. message.has_state = Got("state") /\ message.has_data = Got("data")
    BY DEF Stored
  <2>2. Got("state")' <=> (Got("state") \/ x.name = "state")
    BY <1>1
  <2>3. Got("data")' <=> (Got("data") \/ x.name = "data")
    BY <1>1
  <2>4. Got("state") \in BOOLEAN /\ Got("data") \in BOOLEAN /\ Got("state")' \in BOOLEAN /\ Got("data")' \in BOOLEAN
    BY DEF Got
  <2>5. message'.has_state = Got("state")'
    BY <1>4, <2>1, <2>2, <2>4
  <2>6. message'.has_data = Got("data")'
    BY <1>4, <2>1, <2>3, <2>4
  <2> QED BY <2>5, <2>6
<1>6. ASSUME NEW k \in 1..rounds + 1
      PROVE  /\ LastOf("id", k)' => message'.id = packet[k].value
             /\ LastOf("cmd", k)' => message'.cmd = packet[k].value
             /\ LastOf("state", k)' => message'.state = packet[k].value
             /\ LastOf("data", k)' => packet[k].value \in Seq(Byte) /\ HasBytes(message', packet[k].value)
  <2>1. k \in 1..rounds =>
          /\ LastOf("id", k) => message.id = packet[k].value
          /\ LastOf("cmd", k) => message.cmd = packet[k].value
          /\ LastOf("state", k) => message.state = packet[k].value
          /\ LastOf("data", k) => packet[k].value \in Seq(Byte) /\ HasBytes(message, packet[k].value)
    BY DEF Stored
  <2>2. k = rounds + 1 => packet[k].value = v
    BY DEF v, x
  <2>3. LastOf("id", k)' => message'.id = packet[k].value
    BY <1>1, <1>4, <2>1, <2>2
  <2>4. LastOf("cmd", k)' => message'.cmd = packet[k].value
    BY <1>1, <1>4, <2>1, <2>2
  <2>5. LastOf("state", k)' => message'.state = packet[k].value
    BY <1>1, <1>4, <2>1, <2>2
  <2>6. LastOf("data", k)' => packet[k].value \in Seq(Byte) /\ HasBytes(message', packet[k].value)
    <3> SUFFICES ASSUME LastOf("data", k)' PROVE packet[k].value \in Seq(Byte) /\ HasBytes(message', packet[k].value)
      OBVIOUS
    <3>1. IF x.name = "data" THEN k = rounds + 1 ELSE k \in 1..rounds /\ LastOf("data", k)
      BY <1>1
    <3>2. CASE x.name = "data"
      <4>1. packet[k].value = v
        BY <2>2, <3>1, <3>2
      <4> QED BY <1>0, <1>4, <3>2, <4>1
    <3>3. CASE x.name # "data"
      <4>1. packet[k].value \in Seq(Byte) /\ HasBytes(message, packet[k].value)
        BY <2>1, <3>1, <3>3
      <4>2. message'.size = message.size /\ message'.bytes = message.bytes
        BY <1>4, <3>3
      <4> QED BY <4>1, <4>2 DEF HasBytes
    <3> QED BY <3>2, <3>3
  <2> QED BY <2>3, <2>4, <2>5, <2>6
<1> QED BY <1>0, <1>3, <1>5, <1>6 DEF Stored

\* One that is skipped.
LEMMA SkippedStored ==
    ASSUME rounds \in Nat, Stored, rounds' = rounds + 1, packet' = packet,
           packet[rounds + 1].name \notin {"id", "cmd", "state", "data"}, UNCHANGED <<seen, message>>
    PROVE  Stored'
<1> DEFINE x == packet[rounds + 1]
<1>0. seen' = seen /\ message' = message /\ packet' = packet /\ rounds' = rounds + 1
  OBVIOUS
<1>1. \A name : /\ Got(name)' <=> (Got(name) \/ x.name = name)
                /\ \A k \in 1..rounds + 1 : LastOf(name, k)' =>
                    IF x.name = name THEN k = rounds + 1 ELSE k \in 1..rounds /\ LastOf(name, k)
  BY NextLast
<1>2. x.name \notin {"id", "cmd", "state", "data"}
  OBVIOUS
<1> HIDE DEF x
<1>3. \A name \in {"id", "cmd", "state", "data"} :
        /\ Got(name)' <=> Got(name)
        /\ \A k \in 1..rounds + 1 : LastOf(name, k)' => k \in 1..rounds /\ LastOf(name, k)
  BY <1>1, <1>2
<1>4. seen' = {name \in RequiredFields : Got(name)'}
  <2>1. seen = {name \in RequiredFields : Got(name)}
    BY DEF Stored
  <2>2. ASSUME NEW name PROVE name \in seen' <=> name \in RequiredFields /\ Got(name)'
    BY <1>0, <1>3, <2>1 DEF RequiredFields
  <2> QED BY <2>2
<1>5. message'.has_state = Got("state")' /\ message'.has_data = Got("data")'
  <2>1. message.has_state = Got("state") /\ message.has_data = Got("data")
    BY DEF Stored
  <2>2. (Got("state")' <=> Got("state")) /\ (Got("data")' <=> Got("data"))
    BY <1>3
  <2>3. Got("state") \in BOOLEAN /\ Got("data") \in BOOLEAN /\ Got("state")' \in BOOLEAN /\ Got("data")' \in BOOLEAN
    BY DEF Got
  <2>4. (Got("state") = Got("state")') /\ (Got("data") = Got("data")')
    BY <2>2, <2>3
  <2> QED BY <1>0, <2>1, <2>4
<1>6. ASSUME NEW k \in 1..rounds + 1
      PROVE  /\ LastOf("id", k)' => message'.id = packet[k].value
             /\ LastOf("cmd", k)' => message'.cmd = packet[k].value
             /\ LastOf("state", k)' => message'.state = packet[k].value
             /\ LastOf("data", k)' => packet[k].value \in Seq(Byte) /\ HasBytes(message', packet[k].value)
  BY <1>0, <1>3 DEF Stored
<1> QED BY <1>0, <1>4, <1>5, <1>6 DEF Stored

\* The data that the message has, as a sequence.
LEMMA MessageData ==
    ASSUME message \in Messages
    PROVE  LET f == SubSeq([i \in 1..DataMax |-> message.bytes[i - 1]], 1, message.size) IN
           /\ f \in Seq(Byte) /\ Len(f) = message.size /\ message.size \in 0..DataMax
           /\ \A i \in 1..Len(f) : f[i] = message.bytes[i - 1]
<1> DEFINE s == [i \in 1..DataMax |-> message.bytes[i - 1]]
           f == SubSeq(s, 1, message.size)
<1>1. DataMax \in Nat /\ message.size \in 0..DataMax /\ message.bytes \in [0..DataMax -> Byte]
  BY WidthAssumption DEF Messages
<1>2. \A i \in 1..DataMax : message.bytes[i - 1] \in Byte
  BY <1>1
<1>3. s \in Seq(Byte) /\ Len(s) = DataMax /\ \A i \in 1..DataMax : s[i] = message.bytes[i - 1]
  <2>1. s \in Seq(Byte)
    BY <1>1, <1>2, IsASeq
  <2>2. DOMAIN s = 1..DataMax /\ DOMAIN s = 1..Len(s) /\ Len(s) \in Nat
    BY <2>1, LenProperties
  <2> QED BY <1>1, <2>1, <2>2
<1> HIDE DEF s
<1>4. f \in Seq(Byte) /\ Len(f) = message.size
  BY <1>1, <1>3, FirstBytes
<1>5. \A i \in 1..message.size : f[i] = s[i]
  <2>1. \A i \in 1..message.size : s[i] \in Byte
    BY <1>1, <1>2, <1>3
  <2>2. \A i \in 1..message.size - 1 + 1 : f[i] = s[1 + i - 1]
    <3>1. 1 \in Int /\ message.size \in Int
      BY <1>1
    <3> QED BY <2>1, <3>1, SubSeqProperties
  <2>3. message.size - 1 + 1 = message.size /\ \A i \in 1..message.size : 1 + i - 1 = i
    BY <1>1
  <2> HIDE DEF f
  <2> QED BY <2>2, <2>3
<1> HIDE DEF f
<1>6. ASSUME NEW i \in 1..Len(f) PROVE f[i] = message.bytes[i - 1]
  <2>1. i \in 1..message.size /\ i \in 1..DataMax
    BY <1>1, <1>4
  <2> QED BY <1>3, <1>5, <2>1
<1> QED BY <1>1, <1>4, <1>6 DEF f, s

\* At the end of the message, what was seen says whether it is well formed, and the message what it holds.
LEMMA Judged ==
    ASSUME InHand, Consumed, Stored, message \in Messages, Fields = 1..rounds, ~Torn
    PROVE  (WellFormed <=> seen = RequiredFields) /\ (seen = RequiredFields => LastValues)
<1> DEFINE n == rounds
<1>1. n \in Nat
  BY PacketSeq DEF Consumed, InHand
<1>2. \A name : Arrived(name) = {k \in 1..n : packet[k].name = name} /\ (Arrived(name) # {} <=> Got(name))
  BY DEF Arrived, Got
<1>3. ASSUME NEW name, Got(name)
      PROVE  Max(Arrived(name)) \in 1..n /\ LastOf(name, Max(Arrived(name)))
  <2> DEFINE S == Arrived(name)
             m == Max(S)
  <2>1. S = {k \in 1..n : packet[k].name = name} /\ S # {}
    BY <1>2, <1>3
  <2>2. S \subseteq 0..n
    BY <1>1, <2>1
  <2> HIDE DEF S
  <2>3. m \in S /\ \A y \in S : y <= m
    BY <1>1, <2>1, <2>2, MaxNumber
  <2> HIDE DEF m
  <2>4. m \in 1..n /\ packet[m].name = name
    BY <2>1, <2>3
  <2>5. \A j \in m + 1..n : packet[j].name # name
    <3> SUFFICES ASSUME NEW j \in m + 1..n, packet[j].name = name PROVE FALSE
      OBVIOUS
    <3>1. j \in 1..n /\ ~(j <= m)
      BY <1>1, <2>4
    <3> QED BY <2>1, <2>3, <3>1
  <2> QED BY <2>4, <2>5 DEF LastOf, m, S
<1>4. WellFormed <=> seen = RequiredFields
  <2>1. seen = {name \in RequiredFields : Got(name)}
    BY DEF Stored
  <2>2. seen = RequiredFields <=> \A name \in RequiredFields : Got(name)
    BY <2>1
  <2>3. \A k \in Fields : packet[k].name # "malformed"
    BY DEF Consumed
  <2> QED BY <1>2, <2>2, <2>3 DEF WellFormed
<1>5. ASSUME seen = RequiredFields PROVE LastValues
  <2>1. Got("id") /\ Got("cmd")
    <3>1. \A name \in RequiredFields : Got(name)
      BY <1>5 DEF Stored
    <3> QED BY <3>1 DEF RequiredFields
  <2>2. message.id = LastValue("id") /\ message.cmd = LastValue("cmd")
    BY <1>3, <2>1 DEF Stored, LastValue
  <2>3. message.has_state = (Arrived("state") # {}) /\ message.has_data = (Arrived("data") # {})
    <3>1. message.has_state = Got("state") /\ message.has_data = Got("data")
      BY DEF Stored
    <3>2. (Arrived("state") # {}) = Got("state") /\ (Arrived("data") # {}) = Got("data")
      BY <1>2 DEF Got
    <3> QED BY <3>1, <3>2
  <2>4. Got("state") => message.state = LastValue("state")
    BY <1>3 DEF Stored, LastValue
  <2>5. ASSUME Got("data")
        PROVE  SubSeq([i \in 1..DataMax |-> message.bytes[i - 1]], 1, message.size) = LastValue("data")
    <3> DEFINE v == LastValue("data")
               f == SubSeq([i \in 1..DataMax |-> message.bytes[i - 1]], 1, message.size)
    <3>1. v \in Seq(Byte) /\ HasBytes(message, v)
      BY <1>3, <2>5 DEF Stored, LastValue
    <3>2. /\ f \in Seq(Byte) /\ Len(f) = message.size
          /\ \A i \in 1..Len(f) : f[i] = message.bytes[i - 1]
      BY MessageData
    <3>3. message.size = Len(v) /\ \A i \in 1..Len(v) : message.bytes[i - 1] = v[i]
      BY <3>1 DEF HasBytes
    <3> HIDE DEF v, f
    <3>4. Len(f) = Len(v) /\ \A i \in 1..Len(f) : f[i] = v[i]
      BY <3>2, <3>3
    <3>5. f = v
      BY <3>1, <3>2, <3>4, SeqEqual
    <3> QED BY <3>5 DEF f, v
  <2>6. (message.has_state => Got("state")) /\ (message.has_data => Got("data"))
    BY <1>2, <2>3
  <2> QED BY <2>2, <2>3, <2>4, <2>5, <2>6 DEF LastValues
<1> QED BY <1>4, <1>5

\* What arrived does not change while it is dealt with.
LEMMA VerdictStays ==
    ASSUME UNCHANGED <<packet, cut>>
    PROVE  /\ WellFormed' <=> WellFormed
           /\ InHand' <=> InHand
           /\ message' = message /\ LastValues => LastValues'
<1>1. packet' = packet /\ cut' = cut
  OBVIOUS
<1>2. Length' = Length /\ (InHand' <=> InHand)
  BY <1>1 DEF Length, InHand
<1>3. Whole' = Whole
  BY <1>1, <1>2 DEF Whole
<1>4. Ends' = Ends
  BY <1>1, <1>3 DEF Ends
<1>5. Fields' = Fields
  BY <1>3, <1>4 DEF Fields
<1>6. Torn' <=> Torn
  BY <1>1, <1>2, <1>3, <1>4 DEF Torn
<1>7. WellFormed' <=> WellFormed
  BY <1>1, <1>5, <1>6 DEF WellFormed, Arrived
<1>8. message' = message /\ LastValues => LastValues'
  BY <1>1, <1>5 DEF LastValues, LastValue, Arrived
<1> QED BY <1>2, <1>7, <1>8

-----------------------------------------------------------------------------
(* The invariant of the decoder: while it decodes, each of its rounds has    *)
(* taken one whole piece of what arrived, and the message holds the last     *)
(* values of those; when it is done, it has decided rightly.                *)

DecodeInv ==
    /\ phase = "decoding" => InHand /\ Consumed /\ Stored
    /\ DecodesWhatArrived

\* A write begins at the first piece, with nothing stored.
LEMMA WriteDecodes ==
    ASSUME NEW p \in Packets, NEW c \in Cuts, OnWrite(p, c)
    PROVE  DecodeInv'
<1> DEFINE all == PiecesBytes(p)
           L == Len(all) - c
<1>1. /\ packet' = p /\ cut' = c /\ c <= Len(all) /\ stream' = SubSeq(all, 1, L)
      /\ message' = Defaults /\ seen' = {} /\ rounds' = 0 /\ phase' = "decoding"
  BY DEF OnWrite
<1>2. all \in Seq(Byte) /\ Len(all) \in Nat /\ c \in Nat
  BY PacketBytes, Limits
<1>3. L \in 0..Len(all) /\ Length' = L /\ Written' = SubSeq(all, 1, L)
  BY <1>1, <1>2 DEF Length, Written
<1>4. InHand'
  BY <1>1, <1>3 DEF InHand
<1>5. stream' = Drop(Written', 0)
  <2> DEFINE w == SubSeq(all, 1, L)
  <2>1. w \in Seq(Byte)
    BY <1>2, <1>3, FirstBytes
  <2> HIDE DEF w
  <2>2. Drop(w, 0) = w
    BY <2>1, SubSeqFull DEF Drop
  <2> QED BY <1>1, <1>3, <2>2 DEF w
<1>6. Consumed'
  <2>1. Before(p, 0) = 0 /\ Len(p) \in Nat
    BY Offsets, PacketSeq
  <2>2. Before(packet, rounds)' = 0
    BY <1>1, <2>1 DEF Before
  <2> HIDE DEF L, all
  <2>3. 0 <= L
    BY <1>2, <1>3
  <2> QED BY <1>1, <1>3, <1>5, <2>1, <2>2, <2>3 DEF Consumed
<1>7. Stored'
  <2>1. \A k : k \notin 1..0
    OBVIOUS
  <2>2. \A name : ~Got(name)'
    BY <1>1, <2>1 DEF Got
  <2>3. message'.has_state = FALSE /\ message'.has_data = FALSE
    BY <1>1 DEF Defaults
  <2>4. Got("state")' = FALSE /\ Got("data")' = FALSE
    BY <1>1, <2>1 DEF Got
  <2> QED BY <1>1, <2>1, <2>2, <2>3, <2>4 DEF Stored
<1>8. DecodesWhatArrived'
  BY <1>1 DEF DecodesWhatArrived
<1> QED BY <1>4, <1>6, <1>7, <1>8 DEF DecodeInv

\* A piece whose tag was read: its field and what follows.
LEMMA TagAhead ==
    ASSUME InHand, Consumed, stream # <<>>, Tag(stream).ok
    PROVE  LET x == packet[rounds + 1]
               s == Tag(stream).rest
           IN  /\ Tag(stream).tag = Key(x) \div 8 /\ Tag(stream).wire_type = Key(x) % 8
               /\ s = Drop(stream, x.tag) /\ s \in Seq(Byte) /\ Agrees(s, Body(x))
               /\ Before(packet, rounds) + x.tag <= Length
               /\ (Len(Body(x)) <= Len(s) => Len(x.bytes) <= Len(stream))
               /\ (~(Len(Body(x)) <= Len(s)) => Len(s) < Len(Body(x)) /\ Length < Before(packet, rounds + 1))
               /\ IsInteger(x) \/ IsData(x) \/ IsUnknown(x) \/ IsMalformed(x)
<1> DEFINE x == packet[rounds + 1]
           t == Tag(stream)
           o == Before(packet, rounds)
<1>1. /\ IsPiece(x) /\ stream \in Seq(Byte) /\ Len(stream) = Length - o /\ Agrees(stream, x.bytes)
      /\ Before(packet, rounds + 1) = o + Len(x.bytes) /\ o \in Nat /\ Length \in Nat
  BY PieceAhead
<1>2. /\ x.bytes \in Seq(Byte) /\ Len(x.bytes) \in Nat /\ x.tag \in 1..Len(x.bytes)
      /\ Body(x) \in Seq(Byte) /\ Len(Body(x)) = Len(x.bytes) - x.tag
  BY <1>1, PieceParts
<1>3. /\ Len(stream) < x.tag => ~t.ok
      /\ x.tag <= Len(stream) /\ IsLongTag(x) => ~t.ok
      /\ x.tag <= Len(stream) /\ Number(x.bytes, x.tag, WordBits) =>
            /\ t.ok <=> Key(x) # 0
            /\ t.tag = Key(x) \div 8 /\ t.wire_type = Key(x) % 8 /\ t.rest = Drop(stream, x.tag)
  <2> HIDE DEF x
  <2> QED BY <1>1, TagRead
<1>4. t.ok
  OBVIOUS
<1> HIDE DEF x, t, o
<1>5. x.tag <= Len(stream) /\ Len(stream) \in Nat
  <2>1. Len(stream) \in Nat
    BY <1>1, LenProperties
  <2> QED BY <1>2, <1>3, <1>4, <2>1
<1>6. ~IsLongTag(x)
  BY <1>3, <1>4, <1>5
<1>7. /\ Number(x.bytes, x.tag, WordBits)
      /\ IsInteger(x) \/ IsData(x) \/ IsUnknown(x) \/ IsEnd(x) \/ IsMalformed(x)
  BY <1>1, <1>6 DEF IsPiece
<1>8. Key(x) # 0 /\ t.tag = Key(x) \div 8 /\ t.wire_type = Key(x) % 8 /\ t.rest = Drop(stream, x.tag)
  BY <1>3, <1>4, <1>5, <1>7
<1>9. ~IsEnd(x)
  BY <1>8 DEF IsEnd
<1>10. /\ t.rest \in Seq(Byte) /\ Agrees(t.rest, Body(x)) /\ Len(t.rest) = Len(stream) - x.tag
  <2>1. x.tag \in 0..Len(x.bytes)
    BY <1>2
  <2>2. Body(x) = Drop(x.bytes, x.tag)
    BY DEF Body
  <2> DEFINE b == x.bytes
             n == x.tag
  <2>3. b \in Seq(Byte) /\ stream \in Seq(Byte) /\ Agrees(stream, b) /\ n \in 0..Len(b) /\ n <= Len(stream)
    BY <1>1, <1>2, <1>5, <2>1
  <2> HIDE DEF b, n
  <2>4. Drop(stream, n) \in Seq(Byte) /\ Agrees(Drop(stream, n), Drop(b, n)) /\ Len(Drop(stream, n)) = Len(stream) - n
    BY <2>3, AgreesFurther
  <2> QED BY <1>8, <2>2, <2>4 DEF b, n
<1>11. o + x.tag <= Length
  BY <1>1, <1>2, <1>5
<1>12. /\ (Len(Body(x)) <= Len(t.rest) => Len(x.bytes) <= Len(stream))
       /\ (~(Len(Body(x)) <= Len(t.rest)) =>
            Len(t.rest) < Len(Body(x)) /\ Length < Before(packet, rounds + 1))
  <2> DEFINE a == Len(Body(x))
             b == Len(t.rest)
             l == Len(x.bytes)
             s == Len(stream)
  <2>1. l \in Nat /\ s \in Nat /\ x.tag \in 1..l /\ a = l - x.tag /\ b = s - x.tag /\ s = Length - o
        /\ Before(packet, rounds + 1) = o + l /\ o \in Nat /\ Length \in Nat
    BY <1>1, <1>2, <1>5, <1>10
  <2> HIDE DEF a, b, l, s
  <2>2. /\ (a <= b => l <= s)
        /\ (~(a <= b) => b < a /\ Length < Before(packet, rounds + 1))
    BY <2>1
  <2> QED BY <2>2 DEF a, b, l, s
<1> QED BY <1>7, <1>8, <1>9, <1>10, <1>11, <1>12 DEF x, t, o

\* A write that is refused for its next piece is refused rightly.
LEMMA RefuseStep ==
    ASSUME phase' = "refused", UNCHANGED <<packet, cut>>, InHand, Consumed, rounds < Len(packet),
           LET x == packet[rounds + 1] IN
           /\ Before(packet, rounds) + x.tag <= Length /\ x.name # "end"
           /\ x.name = "malformed" \/ Length < Before(packet, rounds + 1)
    PROVE  DecodeInv'
<1>1. ~WellFormed
  BY RefusedRightly
<1>2. ~WellFormed'
  BY <1>1, VerdictStays
<1> QED BY <1>2 DEF DecodeInv, DecodesWhatArrived

\* A round that reads a field takes the piece that is that field, or refuses what is not one.
LEMMA FieldDecodes ==
    ASSUME IInv, DecodeInv, DecodeField
    PROVE  DecodeInv'
<1> DEFINE t == Tag(stream)
           x == packet[rounds + 1]
           b == Body(x)
<1>1. /\ phase = "decoding" /\ stream # <<>> /\ t.ok /\ InHand /\ Consumed /\ Stored
      /\ rounds' = rounds + 1 /\ UNCHANGED <<packet, cut>>
      /\ message \in Messages /\ rounds \in Nat
  <2>1. Types
    BY TypeParts DEF IInv
  <2> QED BY <2>1 DEF DecodeInv, DecodeField, Types
<1>2. PICK f \in Find(t.tag) :
        /\ seen' = seen \cup ({f.name} \cap RequiredFields)
        /\ IF Field(t.rest, f.name).ok
           THEN /\ stream' = Field(t.rest, f.name).rest
                /\ message' = Store(message, f.name, Field(t.rest, f.name).value)
                /\ phase' = phase
           ELSE phase' = "refused" /\ stream' = stream /\ message' = message
  BY DEF DecodeField
<1> DEFINE r == Field(t.rest, f.name)
<1>3. /\ t.tag = Key(x) \div 8 /\ t.wire_type = Key(x) % 8
      /\ t.rest = Drop(stream, x.tag) /\ t.rest \in Seq(Byte) /\ Agrees(t.rest, b)
      /\ Before(packet, rounds) + x.tag <= Length
      /\ Len(b) <= Len(t.rest) => Len(x.bytes) <= Len(stream)
      /\ ~(Len(b) <= Len(t.rest)) => Len(t.rest) < Len(b) /\ Length < Before(packet, rounds + 1)
      /\ IsInteger(x) \/ IsData(x) \/ IsUnknown(x) \/ IsMalformed(x)
  BY <1>1, TagAhead
<1>4. /\ rounds < Len(packet) /\ IsPiece(x) /\ Key(x) \in Nat
  BY <1>1, PieceAhead, PieceParts
<1>5. /\ f.name \in {"id", "cmd", "data", "state"} /\ Known[f.name] = t.tag /\ t.tag \in 1..4
  <2>1. t.tag \in Nat
    BY <1>3, <1>4
  <2> HIDE DEF t
  <2> QED BY <2>1, FieldNumbers
<1>6. /\ Known["id"] = 1 /\ Known["cmd"] = 2 /\ Known["data"] = 3 /\ Known["state"] = 4
  BY DEF Known
<1>7. Field(t.rest, "data") = Bytes(t.rest)
      /\ \A name \in {"id", "cmd", "state"} : Field(t.rest, name) = Unsigned(t.rest)
  BY DEF Field
<1> HIDE DEF x, b, t, r
<1>8. ASSUME ~r.ok, x.name # "end", x.name = "malformed" \/ Length < Before(packet, rounds + 1)
      PROVE  DecodeInv'
  BY <1>1, <1>2, <1>3, <1>4, <1>8, RefuseStep DEF x, r
<1>9. ASSUME x.name = f.name, x.name = "data" => x.value \in Seq(Byte) /\ Len(x.value) <= DataMax,
             Len(b) <= Len(t.rest) => r = Ok(x.value, Drop(t.rest, Len(b))),
             Len(t.rest) < Len(b) => ~r.ok
      PROVE  DecodeInv'
  <2>1. CASE Len(b) <= Len(t.rest)
    <3>1. r.ok /\ r.value = x.value /\ r.rest = Drop(t.rest, Len(b))
      BY <1>9, <2>1 DEF Ok
    <3>2. /\ stream' = Drop(Drop(stream, x.tag), Len(b)) /\ message' = Store(message, x.name, x.value)
          /\ phase' = "decoding" /\ seen' = seen \cup ({x.name} \cap RequiredFields)
      BY <1>1, <1>2, <1>3, <1>9, <3>1 DEF r
    <3>3. InHand' /\ Consumed'
      BY <1>1, <1>3, <1>5, <1>9, <2>1, <3>2, PieceTaken DEF x, b
    <3>4. Stored'
      BY <1>1, <1>5, <1>9, <3>2, FieldStored DEF x
    <3> QED BY <3>2, <3>3, <3>4 DEF DecodeInv, DecodesWhatArrived
  <2>2. CASE ~(Len(b) <= Len(t.rest))
    BY <1>3, <1>5, <1>8, <1>9, <2>2
  <2> QED BY <2>1, <2>2
<1>10. CASE IsInteger(x)
  <2>1. x.name \in {"id", "cmd", "state"} /\ Known[x.name] = t.tag
    BY <1>3, <1>10 DEF IsInteger
  <2>2. x.name = f.name
    BY <1>5, <1>6, <2>1
  <2>3. r = Unsigned(t.rest)
    BY <1>7, <2>1, <2>2 DEF r
  <2>4. /\ Len(b) <= Len(t.rest) => Unsigned(t.rest) = Ok(x.value, Drop(t.rest, Len(b)))
        /\ Len(t.rest) < Len(b) => ~Unsigned(t.rest).ok
    BY <1>3, <1>4, <1>10, IntegerRead DEF b
  <2> QED BY <1>9, <2>1, <2>2, <2>3, <2>4
<1>11. CASE IsData(x)
  <2>1. x.name = "data" /\ Known["data"] = t.tag /\ x.value \in Seq(Byte) /\ Len(x.value) <= DataMax
    BY <1>3, <1>6, <1>11 DEF IsData, Known
  <2>2. x.name = f.name
    BY <1>5, <1>6, <2>1
  <2>3. r = Bytes(t.rest)
    BY <1>7, <2>1, <2>2 DEF r
  <2>4. /\ Len(b) <= Len(t.rest) => Bytes(t.rest) = Ok(x.value, Drop(t.rest, Len(b)))
        /\ Len(t.rest) < Len(b) => ~Bytes(t.rest).ok
    BY <1>3, <1>4, <1>11, DataRead DEF b
  <2> QED BY <1>9, <2>1, <2>2, <2>3, <2>4
<1>12. CASE IsUnknown(x)
  BY <1>3, <1>5, <1>12 DEF IsUnknown
<1>13. CASE IsMalformed(x)
  <2>1. /\ Key(x) \div 8 \in {1, 2, 4} => ~Unsigned(t.rest).ok
        /\ Key(x) \div 8 = 3 => ~Bytes(t.rest).ok
    BY <1>3, <1>4, <1>13, MalformedRead DEF b
  <2>2. ~r.ok
    <3>1. CASE f.name = "data"
      BY <1>3, <1>5, <1>6, <1>7, <2>1, <3>1 DEF r
    <3>2. CASE f.name \in {"id", "cmd", "state"}
      BY <1>3, <1>5, <1>6, <1>7, <2>1, <3>2 DEF r
    <3> QED BY <1>5, <3>1, <3>2
  <2>3. x.name = "malformed"
    BY <1>13 DEF IsMalformed
  <2> QED BY <1>8, <2>2, <2>3
<1> QED BY <1>3, <1>10, <1>11, <1>12, <1>13

\* So does one that skips a field.
LEMMA SkipDecodes ==
    ASSUME IInv, DecodeInv, SkipUnknown
    PROVE  DecodeInv'
<1> DEFINE t == Tag(stream)
           r == SkipField(t.rest, t.wire_type)
           x == packet[rounds + 1]
           b == Body(x)
<1>1. /\ phase = "decoding" /\ stream # <<>> /\ t.ok /\ InHand /\ Consumed /\ Stored
      /\ rounds' = rounds + 1 /\ UNCHANGED <<packet, cut, message, seen>> /\ rounds \in Nat
      /\ Find(t.tag) = {}
      /\ IF r.ok THEN stream' = r.rest /\ phase' = phase ELSE phase' = "refused" /\ stream' = stream
  BY DEF DecodeInv, SkipUnknown, IInv, TypeOK
<1>2. /\ t.tag = Key(x) \div 8 /\ t.wire_type = Key(x) % 8
      /\ t.rest = Drop(stream, x.tag) /\ t.rest \in Seq(Byte) /\ Agrees(t.rest, b)
      /\ Before(packet, rounds) + x.tag <= Length
      /\ Len(b) <= Len(t.rest) => Len(x.bytes) <= Len(stream)
      /\ ~(Len(b) <= Len(t.rest)) => Len(t.rest) < Len(b) /\ Length < Before(packet, rounds + 1)
      /\ IsInteger(x) \/ IsData(x) \/ IsUnknown(x) \/ IsMalformed(x)
  BY <1>1, TagAhead
<1>3. /\ rounds < Len(packet) /\ IsPiece(x) /\ Key(x) \in Nat
  BY <1>1, PieceAhead, PieceParts
<1>4. Key(x) \div 8 \notin 1..4
  <2>1. t.tag \in Nat
    BY <1>2, <1>3
  <2>2. t.tag \in 1..4 => Find(t.tag) # {}
    <3> HIDE DEF t
    <3> QED BY <2>1, FieldNumbers
  <2> QED BY <1>1, <1>2, <2>2
<1> HIDE DEF x, b, t
<1>5. r = SkipField(t.rest, Key(x) % 8)
  BY <1>2
<1> HIDE DEF r
<1>6. ASSUME ~r.ok, x.name # "end", x.name = "malformed" \/ Length < Before(packet, rounds + 1)
      PROVE  DecodeInv'
  BY <1>1, <1>2, <1>3, <1>6, RefuseStep DEF x
<1>7. CASE IsUnknown(x)
  <2>1. /\ Len(b) <= Len(t.rest) => r.ok /\ r.rest = Drop(t.rest, Len(b))
        /\ Len(t.rest) < Len(b) => ~r.ok
    BY <1>2, <1>3, <1>5, <1>7, UnknownRead DEF b
  <2>2. x.name = "unknown"
    BY <1>7 DEF IsUnknown
  <2>3. CASE Len(b) <= Len(t.rest)
    <3>1. stream' = Drop(Drop(stream, x.tag), Len(b)) /\ phase' = "decoding"
      BY <1>1, <1>2, <2>1, <2>3
    <3>2. InHand' /\ Consumed'
      BY <1>1, <1>2, <2>2, <2>3, <3>1, PieceTaken DEF x, b
    <3>3. Stored'
      BY <1>1, <2>2, SkippedStored DEF x
    <3> QED BY <3>1, <3>2, <3>3 DEF DecodeInv, DecodesWhatArrived
  <2>4. CASE ~(Len(b) <= Len(t.rest))
    BY <1>2, <1>6, <2>1, <2>2, <2>4
  <2> QED BY <2>3, <2>4
<1>8. CASE IsMalformed(x)
  <2>1. ~r.ok
    BY <1>2, <1>3, <1>4, <1>5, <1>8, MalformedRead DEF b
  <2>2. x.name = "malformed"
    BY <1>8 DEF IsMalformed
  <2> QED BY <1>6, <2>1, <2>2
<1>9. CASE IsInteger(x) \/ IsData(x)
  BY <1>4, <1>9 DEF IsInteger, IsData, Known
<1> QED BY <1>2, <1>7, <1>8, <1>9

\* The decoder is at the end of the message where it has no byte left, too few for a tag, or a tag of 0.
LEMMA EndsDecode ==
    ASSUME IInv, DecodeInv, DecodeEnds
    PROVE  DecodeInv'
<1> DEFINE x == packet[rounds + 1]
           o == Before(packet, rounds)
<1>1. /\ phase = "decoding" /\ InHand /\ Consumed /\ Stored /\ message \in Messages /\ rounds \in Nat
      /\ stream = <<>> \/ Tag(stream).eof
      /\ phase' = IF seen = RequiredFields THEN "decoded" ELSE "refused"
      /\ UNCHANGED <<packet, cut, message>>
  <2>1. Types
    BY TypeParts DEF IInv
  <2> QED BY <2>1 DEF DecodeInv, DecodeEnds, Types
<1>2. /\ rounds = Len(packet)
      \/ /\ rounds < Len(packet)
         /\ \/ Length < Before(packet, rounds) + packet[rounds + 1].tag
            \/ packet[rounds + 1].name = "end" /\ Before(packet, rounds + 1) <= Length
  <2>1. rounds \in 0..Len(packet) /\ o <= Length /\ stream = Drop(Written, o) /\ Len(packet) \in Nat
    BY <1>1, PacketSeq DEF Consumed, InHand
  <2>2. CASE rounds = Len(packet)
    BY <2>2
  <2>3. CASE rounds # Len(packet)
    <3>1. rounds + 1 \in 1..Len(packet) /\ rounds < Len(packet)
      BY <2>1, <2>3
    <3>2. /\ Len(PiecesBytes(packet)) \in Nat /\ PiecesBytes(packet) \in Seq(Byte)
          /\ Length \in 0..Len(PiecesBytes(packet)) /\ o \in Nat
      BY <1>1, <2>1, Offsets, PacketBytes DEF InHand
    <3>3. IsPiece(x)
      BY <1>1, <3>1, PacketSeq DEF InHand
    <3>4. x.tag \in 1..Len(x.bytes) /\ Len(x.bytes) \in Nat
      BY <3>3, PieceParts
    <3>5. CASE stream = <<>>
      <4>1. Len(stream) = Length - o
        <5> DEFINE w == Written
        <5>1. w \in Seq(Byte) /\ Len(w) = Length
          BY <3>2, FirstBytes DEF Written
        <5> HIDE DEF w
        <5>2. o \in 0..Len(w)
          BY <2>1, <3>2, <5>1
        <5> QED BY <2>1, <5>1, <5>2, DropBytes DEF w
      <4>2. Length - o = 0
        BY <3>5, <4>1
      <4>3. Length < o + x.tag
        BY <3>2, <3>4, <4>2
      <4> QED BY <3>1, <4>3
    <3>6. CASE stream # <<>>
      <4>1. /\ stream \in Seq(Byte) /\ Len(stream) = Length - o /\ Agrees(stream, x.bytes)
            /\ Before(packet, rounds + 1) = o + Len(x.bytes)
        BY <1>1, <3>6, PieceAhead
      <4>2. CASE Len(stream) < x.tag
        <5>1. Length < o + x.tag
          BY <3>2, <3>4, <4>1, <4>2
        <5> QED BY <3>1, <5>1
      <4>3. CASE ~(Len(stream) < x.tag)
        <5> HIDE DEF x, o
        <5>1. x.tag <= Len(stream) /\ Len(stream) \in Nat
          BY <3>4, <4>1, <4>3, LenProperties
        <5>2. /\ x.tag <= Len(stream) /\ IsLongTag(x) => ~Tag(stream).ok /\ ~Tag(stream).eof
              /\ x.tag <= Len(stream) /\ Number(x.bytes, x.tag, WordBits) =>
                    (Tag(stream).eof <=> Key(x) = 0)
          BY <3>3, <4>1, TagRead
        <5>3. Tag(stream).eof
          BY <1>1, <3>6
        <5>4. ~IsLongTag(x)
          BY <5>1, <5>2, <5>3
        <5>5. Number(x.bytes, x.tag, WordBits)
              /\ (IsInteger(x) \/ IsData(x) \/ IsUnknown(x) \/ IsEnd(x) \/ IsMalformed(x))
          BY <3>3, <5>4 DEF IsPiece
        <5>6. Key(x) = 0
          BY <5>1, <5>2, <5>3, <5>5
        <5>7. IsEnd(x)
          <6>1. 0 \div 8 = 0
            OBVIOUS
          <6> QED BY <5>5, <5>6, <6>1 DEF IsInteger, IsData, IsUnknown, IsMalformed, Known
        <5>8. x.name = "end" /\ Len(Body(x)) = 0
          BY <5>7 DEF IsEnd
        <5>9. Len(x.bytes) = x.tag
          BY <3>3, <3>4, <5>8, PieceParts
        <5>10. Before(packet, rounds + 1) <= Length
          BY <3>2, <3>4, <4>1, <5>1, <5>9
        <5> QED BY <3>1, <5>8, <5>10 DEF x
      <4> QED BY <4>2, <4>3
    <3> QED BY <3>5, <3>6
  <2> QED BY <2>2, <2>3
<1>3. Fields = 1..rounds /\ ~Torn
  BY <1>1, <1>2, FieldsAtEnd
<1>4. (WellFormed <=> seen = RequiredFields) /\ (seen = RequiredFields => LastValues)
  BY <1>1, <1>3, Judged
<1>5. (WellFormed' <=> WellFormed) /\ (LastValues => LastValues')
  BY <1>1, VerdictStays
<1> QED BY <1>1, <1>4, <1>5 DEF DecodeInv, DecodesWhatArrived

\* A tag that cannot be read is of no piece that is a field.
LEMMA TagRefused ==
    ASSUME IInv, DecodeInv, BadTag
    PROVE  DecodeInv'
<1> DEFINE x == packet[rounds + 1]
           o == Before(packet, rounds)
<1>1. /\ phase = "decoding" /\ InHand /\ Consumed /\ stream # <<>>
      /\ ~Tag(stream).ok /\ ~Tag(stream).eof /\ phase' = "refused" /\ UNCHANGED <<packet, cut>>
  BY DEF DecodeInv, BadTag
<1>2. /\ rounds < Len(packet) /\ IsPiece(x) /\ stream \in Seq(Byte) /\ Len(stream) = Length - o
      /\ Agrees(stream, x.bytes) /\ o \in Nat /\ Length \in Nat
  BY <1>1, PieceAhead
<1>3. x.tag \in 1..Len(x.bytes) /\ Len(x.bytes) \in Nat
  BY <1>2, PieceParts
<1> HIDE DEF x, o
<1>4. /\ Len(stream) < x.tag => Tag(stream).eof
      /\ x.tag <= Len(stream) /\ Number(x.bytes, x.tag, WordBits) =>
            /\ Tag(stream).ok <=> Key(x) # 0
            /\ Tag(stream).eof <=> Key(x) = 0
  BY <1>2, TagRead
<1>5. x.tag <= Len(stream) /\ Len(stream) \in Nat
  <2>1. Len(stream) \in Nat
    BY <1>2, LenProperties
  <2> QED BY <1>1, <1>3, <1>4, <2>1
<1>6. ~Number(x.bytes, x.tag, WordBits)
  BY <1>1, <1>4, <1>5
<1>7. x.name = "malformed"
  BY <1>2, <1>6 DEF IsPiece, IsLongTag
<1>8. o + x.tag <= Length
  BY <1>2, <1>3, <1>5
<1> QED BY <1>1, <1>2, <1>7, <1>8, RefuseStep DEF x, o

\* What is done with a message, or without one, leaves what was decoded.
LEMMA VerdictKept ==
    ASSUME DecodeInv, UNCHANGED <<packet, cut, stream, message, seen, rounds>>,
           \/ phase' = phase
           \/ phase = "decoded" /\ phase' = "handled"
    PROVE  DecodeInv'
<1>1. (WellFormed' <=> WellFormed) /\ (LastValues => LastValues') /\ (InHand => InHand')
  BY VerdictStays
<1>2. Consumed => Consumed'
  <2>1. packet' = packet /\ cut' = cut
    OBVIOUS
  <2>2. Length' = Length
    BY <2>1 DEF Length
  <2> QED BY <2>1, <2>2 DEF Consumed, Written
<1>3. Stored => Stored'
  <2>1. \A name : (Got(name)' <=> Got(name)) /\ \A k : LastOf(name, k)' <=> LastOf(name, k)
    BY DEF Got, LastOf
  <2>2. Got("state")' = Got("state") /\ Got("data")' = Got("data")
    BY DEF Got
  <2> QED BY <2>1, <2>2 DEF Stored
<1> QED BY <1>1, <1>2, <1>3 DEF DecodeInv, DecodesWhatArrived

\* The decoder's invariant holds of every behaviour.
LEMMA DecodeInductive == Spec => []DecodeInv
<1>1. Init => DecodeInv
  BY DEF Init, DecodeInv, DecodesWhatArrived
<1>2. ASSUME IInv, DecodeInv, [Next]_vars PROVE DecodeInv'
  <2>1. CASE Boot
    BY <1>2, <2>1, VerdictKept DEF Boot
  <2>2. CASE DecodeField
    BY <1>2, <2>2, FieldDecodes
  <2>3. CASE SkipUnknown
    BY <1>2, <2>3, SkipDecodes
  <2>4. CASE DecodeEnds
    BY <1>2, <2>4, EndsDecode
  <2>5. CASE BadTag
    BY <1>2, <2>5, TagRefused
  <2>6. CASE HandleRaw
    BY <1>2, <2>6, VerdictKept DEF HandleRaw
  <2>7. CASE HandleNec
    BY <1>2, <2>7, VerdictKept DEF HandleNec
  <2>8. CASE HandleOther
    BY <1>2, <2>8, VerdictKept DEF HandleOther
  <2>9. CASE WriteReturns
    BY <2>9 DEF WriteReturns, Done, DecodeInv, DecodesWhatArrived
  <2>10. ASSUME NEW p \in Packets, NEW c \in Cuts, OnWrite(p, c) PROVE DecodeInv'
    BY <2>10, WriteDecodes
  <2>11. ASSUME NEW r \in Repeats, SendNec(r) PROVE DecodeInv'
    BY <1>2, <2>11, VerdictKept DEF SendNec
  <2>12. CASE SendEnds
    BY <1>2, <2>12, VerdictKept DEF SendEnds
  <2>13. CASE UNCHANGED vars
    BY <1>2, <2>13, VerdictKept DEF vars
  <2> QED
    BY <1>2, <2>1, <2>2, <2>3, <2>4, <2>5, <2>6, <2>7, <2>8, <2>9, <2>10, <2>11, <2>12, <2>13
    DEF Next, Decode, Handle
<1>3. IInv /\ DecodeInv /\ [Next]_vars => DecodeInv'
  BY <1>2
<1> QED BY <1>1, <1>3, Inductive, PTL DEF Spec

\* Whatever pieces a central writes and wherever the write is cut off, the decoder accepts it exactly
\* where its fields arrived whole, are well formed and include an id and a cmd, and then the message
\* holds the last value of each field.
THEOREM DecoderIsRight == Spec => []DecodesWhatArrived
<1>1. DecodeInv => DecodesWhatArrived
  BY DEF DecodeInv
<1> QED BY <1>1, DecodeInductive, PTL

-----------------------------------------------------------------------------
(* What a receiver hears.                                                   *)

\* A byte is the sum of its bits.
LEMMA BitsOfByte ==
    ASSUME NEW b \in Byte
    PROVE  /\ Bit(b, 0) + 2 * Bit(b, 1) + 4 * Bit(b, 2) + 8 * Bit(b, 3)
              + 16 * Bit(b, 4) + 32 * Bit(b, 5) + 64 * Bit(b, 6) + 128 * Bit(b, 7) = b
           /\ \A i \in 0..7 : Bit(b, i) \in {0, 1}
<1>1. /\ 2 ^ 0 = 1 /\ 2 ^ 1 = 2 /\ 2 ^ 2 = 4 /\ 2 ^ 3 = 8
      /\ 2 ^ 4 = 16 /\ 2 ^ 5 = 32 /\ 2 ^ 6 = 64 /\ 2 ^ 7 = 128
  <2>1. 2 ^ 0 = 1 /\ \A i \in 1..7 : 2 ^ i = 2 * 2 ^ (i - 1)
    BY ActionAssumption
  <2>2. 2 ^ 1 = 2
    BY <2>1
  <2>3. 2 ^ 2 = 4
    BY <2>1, <2>2
  <2>4. 2 ^ 3 = 8
    BY <2>1, <2>3
  <2>5. 2 ^ 4 = 16
    BY <2>1, <2>4
  <2>6. 2 ^ 5 = 32
    BY <2>1, <2>5
  <2>7. 2 ^ 6 = 64
    BY <2>1, <2>6
  <2>8. 2 ^ 7 = 128
    BY <2>1, <2>7
  <2> QED BY <2>1, <2>2, <2>3, <2>4, <2>5, <2>6, <2>7, <2>8
<1>2. /\ Bit(b, 0) = b % 2 /\ Bit(b, 1) = (b \div 2) % 2
      /\ Bit(b, 2) = (b \div 4) % 2 /\ Bit(b, 3) = (b \div 8) % 2
      /\ Bit(b, 4) = (b \div 16) % 2 /\ Bit(b, 5) = (b \div 32) % 2
      /\ Bit(b, 6) = (b \div 64) % 2 /\ Bit(b, 7) = (b \div 128) % 2
  <2>1. b \div 1 = b
    BY DEF Byte
  <2> QED BY <1>1, <2>1 DEF Bit
<1>3. b \in Nat /\ b \in 0..255
  BY DEF Byte
<1>4. /\ b % 2 = b - 2 * (b \div 2) /\ (b \div 2) % 2 = (b \div 2) - 2 * (b \div 4)
      /\ (b \div 4) % 2 = (b \div 4) - 2 * (b \div 8) /\ (b \div 8) % 2 = (b \div 8) - 2 * (b \div 16)
      /\ (b \div 16) % 2 = (b \div 16) - 2 * (b \div 32) /\ (b \div 32) % 2 = (b \div 32) - 2 * (b \div 64)
      /\ (b \div 64) % 2 = (b \div 64) - 2 * (b \div 128) /\ (b \div 128) % 2 = (b \div 128) - 2 * 0
  <2>1. b % 2 = b - 2 * (b \div 2)
    BY <1>3
  <2>2. (b \div 2) % 2 = (b \div 2) - 2 * (b \div 4)
    BY <1>3
  <2>3. (b \div 4) % 2 = (b \div 4) - 2 * (b \div 8)
    BY <1>3
  <2>4. (b \div 8) % 2 = (b \div 8) - 2 * (b \div 16)
    BY <1>3
  <2>5. (b \div 16) % 2 = (b \div 16) - 2 * (b \div 32)
    BY <1>3
  <2>6. (b \div 32) % 2 = (b \div 32) - 2 * (b \div 64)
    BY <1>3
  <2>7. (b \div 64) % 2 = (b \div 64) - 2 * (b \div 128)
    BY <1>3
  <2>8. (b \div 128) % 2 = (b \div 128) - 2 * 0
    BY <1>3
  <2> QED BY <2>1, <2>2, <2>3, <2>4, <2>5, <2>6, <2>7, <2>8, Zenon
<1>5. /\ b \div 2 \in Nat /\ b \div 4 \in Nat /\ b \div 8 \in Nat /\ b \div 16 \in Nat
      /\ b \div 32 \in Nat /\ b \div 64 \in Nat /\ b \div 128 \in Nat
  BY <1>3
<1>6. \A i \in 0..7 : Bit(b, i) \in {0, 1}
  <2>1. \A n \in Nat : n % 2 \in {0, 1}
    OBVIOUS
  <2> SUFFICES ASSUME NEW i \in 0..7 PROVE Bit(b, i) \in {0, 1}
    OBVIOUS
  <2>2. i = 0 \/ i = 1 \/ i = 2 \/ i = 3 \/ i = 4 \/ i = 5 \/ i = 6 \/ i = 7
    OBVIOUS
  <2>3. /\ Bit(b, 0) \in {0, 1} /\ Bit(b, 1) \in {0, 1} /\ Bit(b, 2) \in {0, 1} /\ Bit(b, 3) \in {0, 1}
        /\ Bit(b, 4) \in {0, 1} /\ Bit(b, 5) \in {0, 1} /\ Bit(b, 6) \in {0, 1} /\ Bit(b, 7) \in {0, 1}
    BY <1>2, <1>3, <1>5, <2>1
  <2> QED BY <2>2, <2>3, Zenon
<1> DEFINE q(i) == CASE i = 1 -> b \div 2 [] i = 2 -> b \div 4 [] i = 3 -> b \div 8 [] i = 4 -> b \div 16
                     [] i = 5 -> b \div 32 [] i = 6 -> b \div 64 [] OTHER -> b \div 128
<1>7. /\ q(1) = b \div 2 /\ q(2) = b \div 4 /\ q(3) = b \div 8 /\ q(4) = b \div 16
      /\ q(5) = b \div 32 /\ q(6) = b \div 64 /\ q(7) = b \div 128
  OBVIOUS
<1> HIDE DEF q
<1>8. /\ q(1) \in Nat /\ q(2) \in Nat /\ q(3) \in Nat /\ q(4) \in Nat
      /\ q(5) \in Nat /\ q(6) \in Nat /\ q(7) \in Nat
  BY <1>5, <1>7, Zenon
<1>9. /\ Bit(b, 0) = b - 2 * q(1) /\ Bit(b, 1) = q(1) - 2 * q(2) /\ Bit(b, 2) = q(2) - 2 * q(3)
       /\ Bit(b, 3) = q(3) - 2 * q(4) /\ Bit(b, 4) = q(4) - 2 * q(5) /\ Bit(b, 5) = q(5) - 2 * q(6)
       /\ Bit(b, 6) = q(6) - 2 * q(7) /\ Bit(b, 7) = q(7) - 2 * 0
  BY <1>2, <1>4, <1>7, Zenon
<1>10. Bit(b, 0) + 2 * Bit(b, 1) + 4 * Bit(b, 2) + 8 * Bit(b, 3)
       + 16 * Bit(b, 4) + 32 * Bit(b, 5) + 64 * Bit(b, 6) + 128 * Bit(b, 7) = b
  BY <1>3, <1>8, <1>9
<1> QED BY <1>6, <1>10

\* The durations of a frame: two of its start, two of each bit, two of its end.
LEMMA FrameHolds ==
    ASSUME NEW address \in Byte, NEW command \in Byte,
           NEW d, d = NecEncode(address, command, 0).durations,
           NEW bits, bits = NecBits(address, command),
           NEW c, c = Cardinality({k \in 0..31 : bits[k] = 1})
    PROVE  /\ d \in [1..68 -> Nat] /\ d[1] = 9000 /\ d[2] = 4500 /\ d[67] = 560
           /\ d[68] = 110000 - (13500 + c * 2250 + (32 - c) * 1120 + 560)
           /\ \A k \in 0..31 : d[2 * k + 3] = 560 /\ d[2 * k + 4] = Space(bits[k])
<1> DEFINE frame == NecFrame(address, command)
           Again(n) == <<9000, 2250, 560, 98190>>[((n - 69) % 4) + 1]
           total_us == 13500 + c * 2250 + (32 - c) * 1120 + 560
           D(n) == CASE n = 1 -> 9000 [] n = 2 -> 4500
                     [] n = 67 -> 560 [] n = 68 -> 110000 - total_us
                     [] OTHER -> IF n % 2 = 1 THEN 560 ELSE Space(bits[(n - 3) \div 2])
<1>1. frame = [n \in 1..68 |-> D(n)] /\ frame \in [1..68 -> Nat]
  BY FrameType DEF NecFrame
<1>2. d = [n \in 1..(68 + 4 * 0) |-> IF n <= 68 THEN frame[n] ELSE Again(n)]
  BY DEF NecEncode
<1> HIDE DEF frame
<1>3. d = frame
  <2> HIDE DEF Again, D
  <2>1. \A n \in 1..68 : (IF n <= 68 THEN frame[n] ELSE Again(n)) = frame[n]
    OBVIOUS
  <2>2. 1..(68 + 4 * 0) = 1..68
    OBVIOUS
  <2>3. \A n \in 1..68 : d[n] = frame[n]
    BY <1>2, <2>1, <2>2
  <2>4. d = [n \in 1..68 |-> d[n]] /\ frame = [n \in 1..68 |-> frame[n]]
    BY <1>1, <1>2, <2>2
  <2> QED BY <2>3, <2>4
<1> HIDE DEF total_us
<1>4. D(1) = 9000 /\ D(2) = 4500 /\ D(67) = 560 /\ D(68) = 110000 - total_us
  OBVIOUS
<1>5. \A k \in 0..31 : D(2 * k + 3) = 560 /\ D(2 * k + 4) = Space(bits[k])
  <2> SUFFICES ASSUME NEW k \in 0..31 PROVE D(2 * k + 3) = 560 /\ D(2 * k + 4) = Space(bits[k])
    OBVIOUS
  <2> DEFINE m == 2 * k + 3
             n == 2 * k + 4
  <2>1. /\ m \notin {1, 2, 68} /\ m % 2 = 1
        /\ n \notin {1, 2, 67, 68} /\ ~(n % 2 = 1) /\ (n - 3) \div 2 = k
    OBVIOUS
  <2> HIDE DEF m, n
  <2>2. D(m) = 560
    BY <2>1
  <2>3. D(n) = Space(bits[k])
    BY <2>1
  <2> QED BY <2>2, <2>3 DEF m, n
<1>6. \A n \in 1..68 : d[n] = D(n)
  <2> HIDE DEF D
  <2> QED BY <1>1, <1>3
<1> HIDE DEF D
<1>7. \A k \in 0..31 : d[2 * k + 3] = 560 /\ d[2 * k + 4] = Space(bits[k])
  <2>1. \A k \in 0..31 : 2 * k + 3 \in 1..68 /\ 2 * k + 4 \in 1..68
    OBVIOUS
  <2> QED BY <1>5, <1>6, <2>1
<1>8. d[1] = 9000 /\ d[2] = 4500 /\ d[67] = 560 /\ d[68] = 110000 - total_us
  BY <1>4, <1>6
<1> QED BY <1>1, <1>3, <1>7, <1>8 DEF total_us

\* Sums of numbers, one after another: such a function there is.
LEMMA SumsDefined ==
    ASSUME NEW n \in Nat, NEW d
    PROVE  \E f : f = [i \in 0..n |-> IF i = 0 THEN 0 ELSE f[i - 1] + d[i]]
<1> DEFINE Defines(f, k) == f = [i \in 0..k |-> IF i = 0 THEN 0 ELSE f[i - 1] + d[i]]
           S == {k \in Nat : \E f : Defines(f, k)}
<1>1. 0 \in S
  <2> DEFINE f == [i \in 0..0 |-> 0]
  <2>1. Defines(f, 0)
    OBVIOUS
  <2> QED BY <2>1
<1>2. ASSUME NEW k \in Nat, k \in S PROVE k + 1 \in S
  <2>1. PICK f : Defines(f, k)
    BY <1>2
  <2> DEFINE g == [i \in 0..k + 1 |-> IF i = k + 1 THEN f[k] + d[k + 1] ELSE f[i]]
  <2>2. ASSUME NEW i \in 0..k + 1
        PROVE  g[i] = IF i = 0 THEN 0 ELSE g[i - 1] + d[i]
    <3>1. CASE i = k + 1
      BY <3>1
    <3>2. CASE i = 0
      BY <2>1, <3>2
    <3>3. CASE i \in 1..k
      BY <2>1, <3>3
    <3> QED BY <3>1, <3>2, <3>3
  <2>3. Defines(g, k + 1)
    BY <2>2
  <2> HIDE DEF g, Defines
  <2>4. k + 1 \in Nat
    OBVIOUS
  <2> QED BY <2>3, <2>4, Zenon
<1> HIDE DEF S
<1>3. \A k \in Nat : k \in S
  BY <1>1, <1>2, SetInduction
<1> QED BY <1>3 DEF S

\* How long a signal takes, duration by duration.
LEMMA DurationSums ==
    ASSUME NEW n \in Nat, NEW d \in [1..n -> Nat]
    PROVE  \E f : /\ f[0] = 0 /\ \A i \in 1..n : f[i] = f[i - 1] + d[i]
                  /\ Duration(d) = f[n]
<1> DEFINE Total[i \in 0..Len(d)] == IF i = 0 THEN 0 ELSE Total[i - 1] + d[i]
<1>1. Len(d) = n
  BY LenProperties
<1>2. Total = [i \in 0..Len(d) |-> IF i = 0 THEN 0 ELSE Total[i - 1] + d[i]]
  <2>1. \E f : f = [i \in 0..n |-> IF i = 0 THEN 0 ELSE f[i - 1] + d[i]]
    BY SumsDefined
  <2> QED BY <1>1, <2>1
<1>3. Duration(d) = Total[Len(d)]
  BY DEF Duration
<1> HIDE DEF Total
<1>4. Total[0] = 0 /\ \A i \in 1..n : Total[i] = Total[i - 1] + d[i]
  BY <1>1, <1>2
<1> QED BY <1>1, <1>3, <1>4

\* As many bits of the first of them are one as are of those before, and this one.
LEMMA OnesSoFar ==
    ASSUME NEW bits, NEW n \in Nat, n <= 32
    PROVE  LET C(m) == Cardinality({k \in 0..(m - 1) : bits[k] = 1}) IN
           /\ C(0) = 0 /\ C(n) \in Nat
           /\ n > 0 => C(n) = C(n - 1) + IF bits[n - 1] = 1 THEN 1 ELSE 0
<1> DEFINE S(m) == {k \in 0..(m - 1) : bits[k] = 1}
<1>1. S(0) = {} /\ Cardinality(S(0)) = 0
  <2>1. S(0) = {}
    OBVIOUS
  <2> QED BY <2>1, FS_EmptySet
<1>2. ASSUME NEW m \in Int PROVE IsFiniteSet(S(m)) /\ Cardinality(S(m)) \in Nat
  <2> DEFINE I == 0..(m - 1)
  <2>1. 0 \in Int /\ m - 1 \in Int
    OBVIOUS
  <2>2. IsFiniteSet(I)
    BY <2>1, FS_Interval
  <2>3. S(m) \in SUBSET I
    OBVIOUS
  <2> HIDE DEF I, S
  <2> QED BY <2>2, <2>3, FS_Subset, FS_CardinalityType
<1>3. ASSUME n > 0
      PROVE  Cardinality(S(n)) = Cardinality(S(n - 1)) + IF bits[n - 1] = 1 THEN 1 ELSE 0
  <2>1. n - 1 \in Nat /\ n - 1 \notin S(n - 1) /\ n - 1 \in Int
    BY <1>3
  <2>2. IsFiniteSet(S(n - 1)) /\ Cardinality(S(n - 1)) \in Nat
    BY <1>2, <2>1
  <2>3. CASE bits[n - 1] = 1
    <3>1. S(n) = S(n - 1) \cup {n - 1}
      BY <1>3, <2>3
    <3> HIDE DEF S
    <3>2. Cardinality(S(n - 1) \cup {n - 1}) = Cardinality(S(n - 1)) + 1
      BY <2>1, <2>2, FS_AddElement
    <3> QED BY <2>3, <3>1, <3>2
  <2>4. CASE bits[n - 1] # 1
    <3>1. S(n) = S(n - 1)
      <4>1. \A k : k \in 0..(n - 1) <=> (k \in 0..((n - 1) - 1) \/ k = n - 1)
        BY <1>3
      <4> QED BY <2>4, <4>1
    <3> HIDE DEF S
    <3> QED BY <2>2, <2>4, <3>1
  <2> QED BY <2>3, <2>4
<1>4. Cardinality(S(n)) \in Nat
  <2> HIDE DEF S
  <2>1. n \in Int
    OBVIOUS
  <2> QED BY <1>2, <2>1
<1> QED BY <1>1, <1>3, <1>4

\* A frame takes 110 ms, whatever it says.
LEMMA FrameLasts ==
    ASSUME NEW address \in Byte, NEW command \in Byte
    PROVE  Duration(NecEncode(address, command, 0).durations) = 110000
<1>1. PICK d, bits, c :
        /\ d = NecEncode(address, command, 0).durations /\ bits = NecBits(address, command)
        /\ c = Cardinality({k \in 0..31 : bits[k] = 1})
  OBVIOUS
<1>2. /\ d \in [1..68 -> Nat] /\ d[1] = 9000 /\ d[2] = 4500 /\ d[67] = 560
      /\ d[68] = 110000 - (13500 + c * 2250 + (32 - c) * 1120 + 560)
      /\ \A k \in 0..31 : d[2 * k + 3] = 560 /\ d[2 * k + 4] = Space(bits[k])
  BY <1>1, FrameHolds
<1> DEFINE C(m) == Cardinality({k \in 0..(m - 1) : bits[k] = 1})
<1>3. PICK f : f[0] = 0 /\ (\A i \in 1..68 : f[i] = f[i - 1] + d[i]) /\ Duration(d) = f[68]
  <2>1. 68 \in Nat
    OBVIOUS
  <2>2. \E f : f[0] = 0 /\ (\A i \in 1..68 : f[i] = f[i - 1] + d[i]) /\ Duration(d) = f[68]
    <3>1. d \in [1..68 -> Nat]
      BY <1>2
    <3> QED BY <2>1, <3>1, DurationSums
  <2> QED BY <2>2
<1>4. C(0) = 0 /\ \A m \in Nat : m <= 32 => C(m) \in Nat
                  /\ (m > 0 => C(m) = C(m - 1) + IF bits[m - 1] = 1 THEN 1 ELSE 0)
  <2>1. 0 \in Nat /\ 0 <= 32
    OBVIOUS
  <2>2. C(0) = 0
    BY <2>1, OnesSoFar
  <2>3. ASSUME NEW m \in Nat, m <= 32
        PROVE  C(m) \in Nat /\ (m > 0 => C(m) = C(m - 1) + IF bits[m - 1] = 1 THEN 1 ELSE 0)
    BY <2>3, OnesSoFar
  <2> QED BY <2>2, <2>3
<1> HIDE DEF C
<1> DEFINE S == {m \in Nat : m <= 32 => f[2 * m + 2] = 13500 + C(m) * 2250 + (m - C(m)) * 1120}
<1>5. 0 \in S
  <2>1. f[1] = f[0] + d[1] /\ f[2] = f[1] + d[2]
    <3>1. 1 \in 1..68 /\ 2 \in 1..68 /\ 1 - 1 = 0 /\ 2 - 1 = 1
      OBVIOUS
    <3> QED BY <1>3, <3>1
  <2>2. f[2] = 13500
    BY <1>2, <1>3, <2>1
  <2>3. f[2 * 0 + 2] = 13500 + C(0) * 2250 + (0 - C(0)) * 1120
    <3>1. C(0) = 0 /\ 2 * 0 + 2 = 2
      BY <1>4
    <3>2. 13500 + 0 * 2250 + (0 - 0) * 1120 = 13500
      OBVIOUS
    <3> HIDE DEF S
    <3> QED BY <2>2, <3>1, <3>2
  <2> QED BY <2>3
<1>6. ASSUME NEW m \in Nat, m \in S PROVE m + 1 \in S
  <2> SUFFICES ASSUME m + 1 <= 32
               PROVE  f[2 * (m + 1) + 2] = 13500 + C(m + 1) * 2250 + ((m + 1) - C(m + 1)) * 1120
    OBVIOUS
  <2>1. m \in 0..31 /\ m <= 32 /\ m + 1 \in Nat /\ m + 1 > 0 /\ (m + 1) - 1 = m
    OBVIOUS
  <2>2. f[2 * m + 2] = 13500 + C(m) * 2250 + (m - C(m)) * 1120
    BY <1>6, <2>1
  <2>3. f[2 * m + 3] = f[2 * m + 2] + 560 /\ f[2 * m + 4] = f[2 * m + 3] + Space(bits[m])
    <3>1. 2 * m + 3 \in 1..68 /\ 2 * m + 4 \in 1..68 /\ (2 * m + 3) - 1 = 2 * m + 2 /\ (2 * m + 4) - 1 = 2 * m + 3
      BY <2>1
    <3> QED BY <1>2, <1>3, <2>1, <3>1
  <2>4. C(m) \in Nat /\ C(m + 1) = C(m) + IF bits[m] = 1 THEN 1 ELSE 0
    BY <1>4, <2>1
  <2>5. 2 * (m + 1) + 2 = 2 * m + 4
    OBVIOUS
  <2> HIDE DEF S
  <2> DEFINE x == C(m)
             y == C(m + 1)
  <2>6. CASE bits[m] = 1
    <3>1. y = x + 1 /\ Space(bits[m]) = 1690 /\ x \in Nat
      BY <2>4, <2>6 DEF Space
    <3>2. f[2 * m + 4] = 13500 + x * 2250 + (m - x) * 1120 + 560 + 1690
      BY <2>2, <2>3, <3>1
    <3> HIDE DEF x, y
    <3>3. 13500 + x * 2250 + (m - x) * 1120 + 560 + 1690 = 13500 + y * 2250 + ((m + 1) - y) * 1120
      BY <3>1
    <3> QED BY <2>5, <3>2, <3>3 DEF y
  <2>7. CASE bits[m] # 1
    <3>1. y = x /\ Space(bits[m]) = 560 /\ x \in Nat
      BY <2>4, <2>7 DEF Space
    <3>2. f[2 * m + 4] = 13500 + x * 2250 + (m - x) * 1120 + 560 + 560
      BY <2>2, <2>3, <3>1
    <3> HIDE DEF x, y
    <3>3. 13500 + x * 2250 + (m - x) * 1120 + 560 + 560 = 13500 + y * 2250 + ((m + 1) - y) * 1120
      BY <3>1
    <3> QED BY <2>5, <3>2, <3>3 DEF y
  <2> QED BY <2>6, <2>7
<1>7. f[66] = 13500 + c * 2250 + (32 - c) * 1120 /\ c \in Nat
  <2>1. \A m \in Nat : m \in S
    <3> HIDE DEF S
    <3> QED BY <1>5, <1>6, SetInduction
  <2>2. 32 \in Nat /\ 32 <= 32 /\ 2 * 32 + 2 = 66
    OBVIOUS
  <2>3. f[2 * 32 + 2] = 13500 + C(32) * 2250 + (32 - C(32)) * 1120
    BY <2>1, <2>2
  <2>4. c = C(32)
    <3>1. 32 - 1 = 31
      OBVIOUS
    <3> QED BY <1>1, <3>1 DEF C
  <2>5. C(32) \in Nat
    BY <1>4, <2>2
  <2> QED BY <2>2, <2>3, <2>4, <2>5
<1>8. f[67] = f[66] + d[67] /\ f[68] = f[67] + d[68]
  <2>1. 67 \in 1..68 /\ 68 \in 1..68 /\ 67 - 1 = 66 /\ 68 - 1 = 67
    OBVIOUS
  <2> QED BY <1>3, <2>1
<1>9. f[68] = 110000
  <2>1. d[68] \in Nat
    BY <1>2
  <2> QED BY <1>2, <1>7, <1>8
<1> QED BY <1>1, <1>3, <1>9

\* A receiver hears the four bytes of a frame.
LEMMA FrameHeard ==
    ASSUME NEW address \in Byte, NEW command \in Byte,
           NEW d, d = NecEncode(address, command, 0).durations
    PROVE  /\ HeardByte(d, 0) = address /\ HeardByte(d, 1) = 255 - address
           /\ HeardByte(d, 2) = command /\ HeardByte(d, 3) = 255 - command
<1> DEFINE bytes == <<address, Complement(address), command, Complement(command)>>
<1>1. /\ bytes[1] = address /\ bytes[2] = 255 - address /\ bytes[3] = command /\ bytes[4] = 255 - command
      /\ \A j \in 1..4 : bytes[j] \in Byte
  BY DEF Complement, Byte
<1>2. PICK bits, c : bits = NecBits(address, command) /\ c = Cardinality({k \in 0..31 : bits[k] = 1})
  OBVIOUS
<1>3. \A k \in 0..31 : d[2 * k + 4] = Space(bits[k])
  BY <1>2, FrameHolds
<1>4. \A k \in 0..31 : bits[k] = Bit(bytes[(k \div 8) + 1], k % 8)
  BY <1>2 DEF NecBits
<1> HIDE DEF bytes
<1>5. ASSUME NEW j \in 0..3 PROVE HeardByte(d, j) = bytes[j + 1]
  <2> DEFINE b == bytes[j + 1]
  <2>1. b \in Byte
    <3>1. j + 1 \in 1..4
      OBVIOUS
    <3> QED BY <1>1, <3>1
  <2>2. ASSUME NEW i \in 0..7 PROVE Hears(d, 8 * j + i) = Bit(b, i)
    <3>1. 8 * j + i \in 0..31 /\ (8 * j + i) \div 8 = j /\ (8 * j + i) % 8 = i
      OBVIOUS
    <3> DEFINE k == 8 * j + i
    <3>2. bits[k] = Bit(b, i)
      BY <1>4, <3>1
    <3>3. Bit(b, i) \in {0, 1}
      BY <2>1, BitsOfByte
    <3>4. d[2 * k + 4] = Space(bits[k])
      BY <1>3, <3>1
    <3> HIDE DEF k, b
    <3>5. Hears(d, k) = Bit(b, i)
      BY <3>2, <3>3, <3>4 DEF Hears, Space
    <3> QED BY <3>5 DEF k
  <2> HIDE DEF b
  <2>3. HeardByte(d, j) = Bit(b, 0) + 2 * Bit(b, 1) + 4 * Bit(b, 2) + 8 * Bit(b, 3)
                          + 16 * Bit(b, 4) + 32 * Bit(b, 5) + 64 * Bit(b, 6) + 128 * Bit(b, 7)
    <3>1. /\ 0 \in 0..7 /\ 1 \in 0..7 /\ 2 \in 0..7 /\ 3 \in 0..7
          /\ 4 \in 0..7 /\ 5 \in 0..7 /\ 6 \in 0..7 /\ 7 \in 0..7
      OBVIOUS
    <3>2. /\ Hears(d, 8 * j + 0) = Bit(b, 0) /\ Hears(d, 8 * j + 1) = Bit(b, 1)
          /\ Hears(d, 8 * j + 2) = Bit(b, 2) /\ Hears(d, 8 * j + 3) = Bit(b, 3)
          /\ Hears(d, 8 * j + 4) = Bit(b, 4) /\ Hears(d, 8 * j + 5) = Bit(b, 5)
          /\ Hears(d, 8 * j + 6) = Bit(b, 6) /\ Hears(d, 8 * j + 7) = Bit(b, 7)
      BY <2>2, <3>1, Zenon
    <3> QED BY <3>2, Zenon DEF HeardByte
  <2>4. HeardByte(d, j) = b
    BY <2>1, <2>3, BitsOfByte
  <2> QED BY <2>4 DEF b
<1>6. /\ HeardByte(d, 0) = bytes[1] /\ HeardByte(d, 1) = bytes[2]
      /\ HeardByte(d, 2) = bytes[3] /\ HeardByte(d, 3) = bytes[4]
  <2>1. /\ 0 \in 0..3 /\ 1 \in 0..3 /\ 2 \in 0..3 /\ 3 \in 0..3
        /\ 0 + 1 = 1 /\ 1 + 1 = 2 /\ 2 + 1 = 3 /\ 3 + 1 = 4
    OBVIOUS
  <2>2. HeardByte(d, 0) = bytes[0 + 1] /\ HeardByte(d, 1) = bytes[1 + 1]
        /\ HeardByte(d, 2) = bytes[2 + 1] /\ HeardByte(d, 3) = bytes[3 + 1]
    BY <1>5, <2>1, Zenon
  <2> QED BY <2>1, <2>2, Zenon
<1> QED BY <1>1, <1>6, Zenon

\* Where the message has data, it is what was written.
LEMMA DataHeld ==
    ASSUME message \in Messages, LastValues, message.has_data
    PROVE  LET data == LastValue("data") IN
           /\ Len(data) = message.size /\ message.size \in 0..DataMax
           /\ \A i \in 1..Len(data) : data[i] = message.bytes[i - 1] /\ data[i] \in Byte
<1> DEFINE f == SubSeq([i \in 1..DataMax |-> message.bytes[i - 1]], 1, message.size)
<1>1. LastValue("data") = f
  BY DEF LastValues
<1>2. /\ f \in Seq(Byte) /\ Len(f) = message.size /\ message.size \in 0..DataMax
      /\ \A i \in 1..Len(f) : f[i] = message.bytes[i - 1]
  BY MessageData
<1>3. \A i \in 1..Len(f) : f[i] \in Byte
  <2> HIDE DEF f
  <2> QED BY <1>2, LenProperties, ElementOfSeq
<1> HIDE DEF f
<1> QED BY <1>1, <1>2, <1>3

\* What the actuator is given of a raw message is what was written.
LEMMA RawWritten ==
    ASSUME message \in Messages, LastValues, message.has_data
    PROVE  LET data == LastValue("data") IN
           RawDurations(message) = [k \in 1..(Len(data) \div 2) |-> 256 * data[2 * k - 1] + data[2 * k]]
<1> DEFINE data == LastValue("data")
           n == message.size
<1>1. /\ Len(data) = n /\ n \in Nat
      /\ \A i \in 1..n : data[i] = message.bytes[i - 1] /\ data[i] \in Byte
  BY DataHeld
<1> HIDE DEF data
<1>2. ASSUME NEW k \in 1..(n \div 2)
      PROVE  message.bytes[2 * k - 2] * 256 + message.bytes[2 * k - 1] = 256 * data[2 * k - 1] + data[2 * k]
  <2>1. 2 * k - 1 \in 1..n /\ 2 * k \in 1..n /\ (2 * k - 1) - 1 = 2 * k - 2
    BY <1>1
  <2> DEFINE x == data[2 * k - 1]
             y == data[2 * k]
  <2>2. /\ x = message.bytes[2 * k - 2] /\ y = message.bytes[2 * k - 1] /\ x \in Byte /\ y \in Byte
    BY <1>1, <2>1
  <2> HIDE DEF x, y
  <2>3. x * 256 + y = 256 * x + y
    BY <2>2 DEF Byte
  <2> QED BY <2>2, <2>3 DEF x, y
<1>3. RawDurations(message) = [k \in 1..(n \div 2) |-> message.bytes[2 * k - 2] * 256 + message.bytes[2 * k - 1]]
  BY DEF RawDurations
<1>4. RawDurations(message) = [k \in 1..(n \div 2) |-> 256 * data[2 * k - 1] + data[2 * k]]
  <2> HIDE DEF n
  <2> QED BY <1>2, <1>3, Zenon
<1> QED BY <1>1, <1>4 DEF data

-----------------------------------------------------------------------------
\* What a receiver hears of an action that is handled is what the central wrote: the raw durations, or a
\* frame of 110 ms with the address and the command and their complements; or the actuator sends on.
THEOREM ActuatorSendsWhatWasWritten == Spec => SendsWhatWasWritten
<1> DEFINE P == phase' = "handled" /\ phase # "handled" =>
                sent' = sent \/ (~busy /\ HearsWhatWasWritten(sent'))
<1>1. ASSUME IInv, DecodeInv, HandleRaw PROVE P
  <2>1. /\ phase = "decoded" /\ message.id = RawId /\ message.has_data
        /\ Execute(RawDurations(message))
    BY <1>1 DEF HandleRaw, HasData
  <2>2. message \in Messages /\ LastValues
    <3>1. Types
      BY <1>1, TypeParts DEF IInv
    <3> QED BY <1>1, <2>1, <3>1 DEF Types, DecodeInv, DecodesWhatArrived
  <2>3. sent' = sent \/ (~busy /\ sent' = RawDurations(message))
    BY <2>1 DEF Execute
  <2> DEFINE v == LastValue("data")
             d == [k \in 1..(Len(v) \div 2) |-> 256 * v[2 * k - 1] + v[2 * k]]
  <2>4. RawDurations(message) = d
    BY <2>1, <2>2, RawWritten
  <2> HIDE DEF d
  <2>5. sent' = sent \/ (~busy /\ message.id = RawId /\ sent' = d)
    BY <2>1, <2>3, <2>4, Zenon
  <2>6. message.id = RawId => HearsWhatWasWritten(d)
    BY DEF d, HearsWhatWasWritten
  <2> QED BY <2>5, <2>6
<1>2. ASSUME IInv, DecodeInv, HandleNec PROVE P
  <2> DEFINE a == message.bytes[0]
             c == message.bytes[1]
             v == LastValue("data")
  <2>1. /\ phase = "decoded" /\ message.id = NecId /\ message.has_data /\ message.size > 0
        /\ Execute(NecEncode(a, c, 0).durations)
    BY <1>2 DEF HandleNec, HasData
  <2>2. message \in Messages /\ LastValues
    <3>1. Types
      BY <1>2, TypeParts DEF IInv
    <3> QED BY <1>2, <2>1, <3>1 DEF Types, DecodeInv, DecodesWhatArrived
  <2>3. a \in Byte /\ c \in Byte
    <3>1. 0 \in 0..DataMax /\ 1 \in 0..DataMax
      BY WidthAssumption
    <3> QED BY <2>2, <3>1 DEF Messages
  <2>4. v[1] = a /\ (Len(v) > 1 => v[2] = c)
    <3>1. /\ Len(v) = message.size /\ message.size \in Nat
          /\ \A i \in 1..Len(v) : v[i] = message.bytes[i - 1]
      BY <2>1, <2>2, DataHeld
    <3> HIDE DEF v
    <3>2. 1 \in 1..Len(v) /\ (Len(v) > 1 => 2 \in 1..Len(v)) /\ 1 - 1 = 0 /\ 2 - 1 = 1
      BY <2>1, <3>1
    <3> QED BY <3>1, <3>2
  <2>5. sent' = sent \/ (~busy /\ sent' = NecEncode(a, c, 0).durations)
    BY <2>1 DEF Execute
  <2> HIDE DEF a, c, v
  <2>6. sent' = NecEncode(a, c, 0).durations =>
            /\ HeardByte(sent', 0) = a /\ HeardByte(sent', 1) = 255 - a /\ HeardByte(sent', 2) = c
            /\ HeardByte(sent', 3) = 255 - c /\ Duration(sent') = 110000
    BY <2>3, FrameHeard, FrameLasts
  <2>7. CASE sent' = sent
    BY <2>7
  <2>8. CASE ~busy /\ sent' = NecEncode(a, c, 0).durations
    <3>1. /\ ~busy /\ message.id = NecId
          /\ HeardByte(sent', 0) = v[1] /\ HeardByte(sent', 1) = 255 - v[1]
          /\ Len(v) > 1 => HeardByte(sent', 2) = v[2]
          /\ HeardByte(sent', 3) = 255 - HeardByte(sent', 2)
          /\ Duration(sent') = 110000
      BY <2>1, <2>4, <2>6, <2>8
    <3>2. HearsWhatWasWritten(sent')
      BY <3>1 DEF v, HearsWhatWasWritten
    <3> QED BY <3>1, <3>2
  <2> QED BY <2>5, <2>7, <2>8
<1>3. ASSUME IInv, DecodeInv, [Next]_vars PROVE P
  <2> SUFFICES ASSUME phase' = "handled", phase # "handled" PROVE P
    OBVIOUS
  <2> HIDE DEF P
  <2>1. CASE HandleRaw
    BY <1>1, <1>3, <2>1
  <2>2. CASE HandleNec
    BY <1>2, <1>3, <2>2
  <2>3. CASE HandleOther
    BY <2>3 DEF HandleOther, P
  <2>4. CASE ~Handle
    BY <1>3, <2>4 DEF Next, Decode, Handle, Boot, DecodeField, SkipUnknown, DecodeEnds, BadTag,
                      WriteReturns, Done, SendEnds, OnWrite, SendNec, vars
  <2> QED BY <2>1, <2>2, <2>3, <2>4 DEF Handle
<1>4. IInv /\ DecodeInv /\ [Next]_vars => [P]_vars
  BY <1>3
<1> QED BY <1>4, Inductive, DecodeInductive, PTL DEF Spec, SendsWhatWasWritten

=============================================================================
