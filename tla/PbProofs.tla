------------------------------ MODULE PbProofs ------------------------------
(***************************************************************************)
(* Lemmas about nanopb's decoder and encoder: what each of their operators *)
(* returns of any stream.  The library's rules of induction are about      *)
(* operators and cannot be used; SetInduction, about sets, follows from    *)
(* WFMin and does for the recursive functions of both.                     *)
(***************************************************************************)
EXTENDS PbEncode, SequenceTheorems, FiniteSetTheorems, WellFoundedInduction, TLAPS

-----------------------------------------------------------------------------
(* Induction.                                                               *)

\* A set of numbers that is not empty has a least one.
LEMMA LeastNumber ==
    ASSUME NEW T, T \subseteq Nat, T # {}
    PROVE  \E x \in T : \A y \in T : x <= y
<1> DEFINE R == OpToRel(<, Nat)
<1>1. IsWellFoundedOn(R, Nat)
  BY NatLessThanWellFounded
<1>2. \A x, y \in Nat : <<y, x>> \in R <=> y < x
  BY DEF OpToRel
<1> HIDE DEF R
<1>3. PICK x \in T : \A y \in T : ~(<<y, x>> \in R)
  BY <1>1, WFMin, Zenon
<1>4. \A y \in T : x \in Nat /\ y \in Nat
  OBVIOUS
<1>5. \A y \in T : ~(y < x)
  BY <1>2, <1>3, <1>4, Zenon
<1> QED BY <1>4, <1>5

\* A set with 0, and with the successor of each number it has, has every number.
LEMMA SetInduction ==
    ASSUME NEW S, 0 \in S, \A n \in Nat : n \in S => n + 1 \in S
    PROVE  \A n \in Nat : n \in S
<1> SUFFICES ASSUME Nat \ S # {} PROVE FALSE
  OBVIOUS
<1>1. PICK x \in Nat \ S : \A y \in Nat \ S : x <= y
  BY LeastNumber
<1>2. x # 0
  OBVIOUS
<1>3. x - 1 \in Nat /\ ~(x <= x - 1) /\ (x - 1) + 1 = x
  BY <1>2
<1> QED BY <1>1, <1>3

\* Min is the least number of a set.
LEMMA MinNumber ==
    ASSUME NEW T, T \subseteq Nat, T # {}
    PROVE  Min(T) \in T /\ \A y \in T : Min(T) <= y
BY LeastNumber DEF Min

\* The least of two numbers is one of them, and no more than either.
LEMMA MinOfTwo ==
    ASSUME NEW a \in Nat, NEW b \in Nat
    PROVE  Min({a, b}) \in {a, b} /\ Min({a, b}) <= a /\ Min({a, b}) <= b
BY MinNumber

-----------------------------------------------------------------------------
(* Bytes.                                                                   *)

\* What is left when bytes are taken away.
LEMMA DropBytes ==
    ASSUME NEW s \in Seq(Byte), NEW n \in 0..Len(s)
    PROVE  Drop(s, n) \in Seq(Byte) /\ Len(Drop(s, n)) = Len(s) - n
<1> DEFINE L == Len(s)
<1>1. L \in Nat /\ n \in 0..L /\ \A i \in 1..L : s[i] \in Byte
  BY LenProperties, ElementOfSeq
<1> HIDE DEF L
<1>2. \A i \in n + 1..L : s[i] \in Byte
  BY <1>1
<1>3. /\ SubSeq(s, n + 1, L) \in Seq(Byte)
      /\ Len(SubSeq(s, n + 1, L)) = IF n + 1 <= L THEN L - (n + 1) + 1 ELSE 0
  BY <1>1, <1>2, SubSeqProperties DEF L
<1>4. (IF n + 1 <= L THEN L - (n + 1) + 1 ELSE 0) = L - n
  BY <1>1
<1>5. Len(SubSeq(s, n + 1, L)) = L - n
  BY <1>3, <1>4
<1> QED BY <1>3, <1>5, Zenon DEF Drop, L

\* The first bytes.
LEMMA FirstBytes ==
    ASSUME NEW s \in Seq(Byte), NEW n \in 0..Len(s)
    PROVE  SubSeq(s, 1, n) \in Seq(Byte) /\ Len(SubSeq(s, 1, n)) = n
<1> DEFINE L == Len(s)
<1>1. L \in Nat /\ DOMAIN s = 1..L /\ \A i \in 1..L : s[i] \in Byte
  BY LenProperties, ElementOfSeq
<1> HIDE DEF L
<1>2. n \in Nat /\ \A i \in 1..n : s[i] \in Byte
  BY <1>1 DEF L
<1>3. /\ SubSeq(s, 1, n) \in Seq(Byte)
      /\ Len(SubSeq(s, 1, n)) = IF 1 <= n THEN n - 1 + 1 ELSE 0
  BY <1>2, SubSeqProperties
<1> QED BY <1>2, <1>3

\* pb_read gives as many bytes as it was asked for, and takes them from the stream.
LEMMA ReadBytes ==
    ASSUME NEW s \in Seq(Byte), NEW count \in Nat
    PROVE  /\ Read(s, count).rest \in Seq(Byte) /\ Len(Read(s, count).rest) <= Len(s)
           /\ Read(s, count).ok \in BOOLEAN
           /\ Read(s, count).ok =>
                /\ Read(s, count).value \in Seq(Byte) /\ Len(Read(s, count).value) = count
                /\ Len(Read(s, count).rest) = Len(s) - count
<1>1. Len(s) \in Nat
  BY LenProperties
<1>2. CASE Len(s) < count
  BY <1>1, <1>2 DEF Read, Error
<1>3. CASE ~(Len(s) < count)
  <2>1. count \in 0..Len(s)
    BY <1>1, <1>3
  <2>2. Read(s, count) = Ok(SubSeq(s, 1, count), Drop(s, count))
    BY <1>3 DEF Read
  <2>3. Len(s) - count <= Len(s)
    BY <1>1
  <2> QED BY <2>1, <2>2, <2>3, DropBytes, FirstBytes DEF Ok
<1> QED BY <1>2, <1>3

-----------------------------------------------------------------------------
(* Varints.                                                                 *)

\* A varint that ends, ends in the stream.
LEMMA VarintInStream ==
    ASSUME NEW s \in Seq(Byte)
    PROVE  VarintLength(s) \in 0..Len(s)
<1> DEFINE ends == {i \in DOMAIN s : ~More(s[i])}
<1>1. Len(s) \in Nat /\ DOMAIN s = 1..Len(s)
  BY LenProperties
<1>2. VarintLength(s) = IF ends = {} THEN 0 ELSE Min(ends)
  BY DEF VarintLength
<1>3. ends \subseteq 1..Len(s) /\ ends \subseteq Nat
  BY <1>1
<1> HIDE DEF ends
<1>4. ends # {} => Min(ends) \in 1..Len(s)
  BY <1>3, MinNumber
<1> QED BY <1>1, <1>2, <1>4

\* Seven bits after seven bits: such a function there is.
LEMMA SevenBitsDefined ==
    ASSUME NEW n \in Nat, NEW bits
    PROVE  \E f : f = [i \in 0..n |-> IF i = 0 THEN 0 ELSE 128 * f[i - 1] + bits[i]]
<1> DEFINE Defines(f, k) == f = [i \in 0..k |-> IF i = 0 THEN 0 ELSE 128 * f[i - 1] + bits[i]]
           S == {k \in Nat : \E f : Defines(f, k)}
<1>1. 0 \in S
  <2> DEFINE f == [i \in 0..0 |-> 0]
  <2>1. Defines(f, 0)
    OBVIOUS
  <2> QED BY <2>1
<1>2. ASSUME NEW k \in Nat, k \in S PROVE k + 1 \in S
  <2>1. PICK f : Defines(f, k)
    BY <1>2
  <2> DEFINE g == [i \in 0..k + 1 |-> IF i = k + 1 THEN 128 * f[k] + bits[k + 1] ELSE f[i]]
  <2>2. ASSUME NEW i \in 0..k + 1
        PROVE  g[i] = IF i = 0 THEN 0 ELSE 128 * g[i - 1] + bits[i]
    <3>1. CASE i = k + 1
      BY <3>1
    <3>2. CASE i = 0
      BY <2>1, <3>2
    <3>3. CASE i \in 1..k
      BY <2>1, <3>3
    <3> QED BY <3>1, <3>2, <3>3
  <2>3. Defines(g, k + 1)
    BY <2>2
  <2> HIDE DEF g, Defines
  <2>4. k + 1 \in Nat
    OBVIOUS
  <2> QED BY <2>3, <2>4, Zenon
<1> HIDE DEF S
<1>3. \A k \in Nat : k \in S
  BY <1>1, <1>2, SetInduction
<1> QED BY <1>3 DEF S

\* The groups of a varint, one after another, the last the highest.
LEMMA VarintValueSteps ==
    ASSUME NEW s \in Seq(Byte), NEW n \in 0..Len(s)
    PROVE  \E f \in [0..n -> Nat] :
            /\ f[0] = 0 /\ \A i \in 1..n : f[i] = 128 * f[i - 1] + (s[n + 1 - i] % 128)
            /\ VarintValue(s, n) = f[n]
<1> DEFINE bits == [i \in 1..n |-> s[n + 1 - i] % 128]
           Value[i \in 0..n] == IF i = 0 THEN 0 ELSE 128 * Value[i - 1] + (s[n + 1 - i] % 128)
<1>1. n \in Nat /\ \A i \in 1..n : s[n + 1 - i] % 128 \in Nat
  <2>1. Len(s) \in Nat /\ \A i \in 1..Len(s) : s[i] \in Byte
    BY LenProperties, ElementOfSeq
  <2>2. ASSUME NEW i \in 1..n PROVE s[n + 1 - i] % 128 \in Nat
    <3>1. n + 1 - i \in 1..Len(s)
      BY <2>1
    <3> HIDE DEF bits
    <3>2. \A b \in Byte : b % 128 \in Nat
      BY DEF Byte
    <3> QED BY <2>1, <3>1, <3>2
  <2> QED BY <2>1, <2>2
<1>2. Value = [i \in 0..n |-> IF i = 0 THEN 0 ELSE 128 * Value[i - 1] + (s[n + 1 - i] % 128)]
  <2>1. PICK f : f = [i \in 0..n |-> IF i = 0 THEN 0 ELSE 128 * f[i - 1] + bits[i]]
    BY <1>1, SevenBitsDefined
  <2>2. f = [i \in 0..n |-> IF i = 0 THEN 0 ELSE 128 * f[i - 1] + (s[n + 1 - i] % 128)]
    <3>1. \A i \in 0..n : (IF i = 0 THEN 0 ELSE 128 * f[i - 1] + bits[i])
                           = (IF i = 0 THEN 0 ELSE 128 * f[i - 1] + (s[n + 1 - i] % 128))
      BY <1>1
    <3> HIDE DEF bits
    <3>2. \A i \in 0..n : f[i] = IF i = 0 THEN 0 ELSE 128 * f[i - 1] + (s[n + 1 - i] % 128)
      BY <2>1, <3>1
    <3>3. f = [i \in 0..n |-> f[i]]
      BY <2>1
    <3> QED BY <3>2, <3>3
  <2> QED BY <2>2
<1>3. VarintValue(s, n) = Value[n]
  BY DEF VarintValue
<1> HIDE DEF Value
<1> DEFINE S == {k \in Nat : k <= n => Value[k] \in Nat}
<1>4. 0 \in S
  BY <1>1, <1>2
<1>5. ASSUME NEW k \in Nat, k \in S PROVE k + 1 \in S
  <2> SUFFICES ASSUME k + 1 <= n PROVE Value[k + 1] \in Nat
    OBVIOUS
  <2>1. Value[k + 1] = 128 * Value[(k + 1) - 1] + (s[n + 1 - (k + 1)] % 128)
    BY <1>1, <1>2
  <2>2. Value[k] \in Nat /\ (k + 1) - 1 = k
    BY <1>1, <1>5
  <2>3. s[n + 1 - (k + 1)] % 128 \in Nat
    BY <1>1
  <2> QED BY <2>1, <2>2, <2>3
<1> HIDE DEF S
<1>6. \A k \in Nat : k \in S
  BY <1>4, <1>5, SetInduction
<1>7. \A k \in 0..n : Value[k] \in Nat
  BY <1>1, <1>6 DEF S
<1>8. Value \in [0..n -> Nat]
  BY <1>2, <1>7
<1>9. Value[0] = 0 /\ \A i \in 1..n : Value[i] = 128 * Value[i - 1] + (s[n + 1 - i] % 128)
  BY <1>1, <1>2
<1> QED BY <1>3, <1>8, <1>9, Zenon

\* What a varint stands for is a number.
LEMMA VarintValueType ==
    ASSUME NEW s \in Seq(Byte), NEW n \in 0..Len(s)
    PROVE  VarintValue(s, n) \in Nat
<1>1. PICK f \in [0..n -> Nat] : VarintValue(s, n) = f[n]
  BY VarintValueSteps
<1>2. n \in 0..n
  BY LenProperties
<1> QED BY <1>1, <1>2

\* A varint read takes a byte or more, and a varint that cannot be read takes what it looked at.
LEMMA VarintType ==
    ASSUME NEW s \in Seq(Byte), NEW width \in {WordBits, DoubleBits}
    PROVE  /\ Varint(s, width).ok \in BOOLEAN
           /\ Varint(s, width).value \in Nat
           /\ Varint(s, width).rest \in Seq(Byte) /\ Len(Varint(s, width).rest) <= Len(s)
           /\ Varint(s, width).ok => Len(Varint(s, width).rest) < Len(s)
<1> DEFINE n == VarintLength(s)
           m == Min({Groups(width), Len(s)})
<1>1. n \in 0..Len(s) /\ Len(s) \in Nat /\ VarintValue(s, n) \in Nat
  BY VarintInStream, VarintValueType, LenProperties
<1>2. CASE n \in 1..Groups(width)
  <2>1. Varint(s, width) = Ok(VarintValue(s, n) % 2 ^ width, Drop(s, n))
    BY <1>2 DEF Varint
  <2>2. VarintValue(s, n) % 2 ^ width \in Nat
    BY <1>1, WidthAssumption
  <2>3. Drop(s, n) \in Seq(Byte) /\ Len(Drop(s, n)) = Len(s) - n
    BY <1>1, DropBytes
  <2>4. n >= 1
    BY <1>1, <1>2
  <2> HIDE DEF n
  <2> QED BY <1>1, <2>1, <2>2, <2>3, <2>4 DEF Ok
<1>3. CASE n \notin 1..Groups(width)
  <2>1. Varint(s, width) = Error(Drop(s, m))
    BY <1>3 DEF Varint
  <2>2. Groups(width) \in Nat
    BY WidthAssumption DEF Groups
  <2>3. m \in 0..Len(s)
    <3>1. m \in {Groups(width), Len(s)} /\ m <= Len(s)
      BY <1>1, <2>2, MinNumber
    <3> QED BY <1>1, <2>2, <3>1
  <2>4. Drop(s, m) \in Seq(Byte) /\ Len(Drop(s, m)) <= Len(s)
    <3> HIDE DEF m
    <3> QED BY <1>1, <2>3, DropBytes
  <2> QED BY <2>1, <2>4 DEF Error
<1> QED BY <1>2, <1>3

-----------------------------------------------------------------------------
(* Fields.                                                                  *)

\* A tag that can be read takes a byte or more.
LEMMA TagType ==
    ASSUME NEW s \in Seq(Byte)
    PROVE  /\ Tag(s).ok \in BOOLEAN /\ Tag(s).tag \in Nat /\ Tag(s).wire_type \in Nat
           /\ Tag(s).rest \in Seq(Byte) /\ Len(Tag(s).rest) <= Len(s)
           /\ Tag(s).ok => Len(Tag(s).rest) < Len(s)
<1> DEFINE temp == Varint(s, WordBits)
<1>1. /\ temp.ok \in BOOLEAN /\ temp.value \in Nat
      /\ temp.rest \in Seq(Byte) /\ Len(temp.rest) <= Len(s)
      /\ temp.ok => Len(temp.rest) < Len(s)
  BY VarintType
<1>2. temp.value \div 8 \in Nat /\ temp.value % 8 \in Nat
  BY <1>1
<1> HIDE DEF temp
<1> QED BY <1>1, <1>2 DEF Tag, VarintWord, temp

\* A field that is skipped takes what is left, or some of it.
LEMMA SkipFieldType ==
    ASSUME NEW s \in Seq(Byte), NEW wire_type \in Nat
    PROVE  /\ SkipField(s, wire_type).ok \in BOOLEAN
           /\ SkipField(s, wire_type).rest \in Seq(Byte) /\ Len(SkipField(s, wire_type).rest) <= Len(s)
<1>1. Len(s) \in Nat
  BY LenProperties
<1>2. /\ SkipVarint(s).ok \in BOOLEAN
      /\ SkipVarint(s).rest \in Seq(Byte) /\ Len(SkipVarint(s).rest) <= Len(s)
  <2> DEFINE n == VarintLength(s)
  <2>1. n \in 0..Len(s)
    BY VarintInStream
  <2>2. Drop(s, n) \in Seq(Byte) /\ Len(Drop(s, n)) <= Len(s)
    BY <1>1, <2>1, DropBytes
  <2>3. <<>> \in Seq(Byte) /\ Len(<<>>) <= Len(s)
    BY <1>1
  <2> HIDE DEF n
  <2> QED BY <2>2, <2>3 DEF SkipVarint, Ok, Error, n
<1>3. /\ SkipString(s).ok \in BOOLEAN
      /\ SkipString(s).rest \in Seq(Byte) /\ Len(SkipString(s).rest) <= Len(s)
  <2> DEFINE size == Varint(s, WordBits)
  <2>1. /\ size.ok \in BOOLEAN /\ size.value \in Nat
        /\ size.rest \in Seq(Byte) /\ Len(size.rest) <= Len(s)
    BY VarintType
  <2> HIDE DEF size
  <2>2. /\ Read(size.rest, size.value).ok \in BOOLEAN
        /\ Read(size.rest, size.value).rest \in Seq(Byte)
        /\ Len(Read(size.rest, size.value).rest) <= Len(size.rest)
    BY <2>1, ReadBytes
  <2>3. Len(size.rest) \in Nat /\ Len(Read(size.rest, size.value).rest) \in Nat
    BY <2>1, <2>2, LenProperties
  <2>4. Len(Read(size.rest, size.value).rest) <= Len(s)
    BY <1>1, <2>1, <2>2, <2>3
  <2> QED BY <2>1, <2>2, <2>4 DEF SkipString, VarintWord, size
<1>4. \A count \in Nat : /\ Read(s, count).ok \in BOOLEAN
                         /\ Read(s, count).rest \in Seq(Byte) /\ Len(Read(s, count).rest) <= Len(s)
  BY ReadBytes
<1>5. SkipField(s, wire_type) \in {SkipVarint(s), Read(s, 8), SkipString(s), Read(s, 4), Error(s)}
  BY DEF SkipField
<1>6. Error(s).ok \in BOOLEAN /\ Error(s).rest = s /\ Len(s) <= Len(s)
  BY <1>1 DEF Error
<1> QED BY <1>2, <1>3, <1>4, <1>5, <1>6

\* A field that can be read takes what is left, or some of it, and its value fits the message.
LEMMA FieldType ==
    ASSUME NEW s \in Seq(Byte), NEW name
    PROVE  /\ Field(s, name).ok \in BOOLEAN
           /\ Field(s, name).rest \in Seq(Byte) /\ Len(Field(s, name).rest) <= Len(s)
           /\ Field(s, name).ok =>
                IF name = "data" THEN Field(s, name).value \in Seq(Byte) /\ Len(Field(s, name).value) \in 0..DataMax
                ELSE Field(s, name).value \in Nat
<1>1. Len(s) \in Nat
  BY LenProperties
<1>2. CASE name = "data"
  <2> DEFINE size == Varint(s, WordBits)
  <2>1. /\ size.ok \in BOOLEAN /\ size.value \in Nat
        /\ size.rest \in Seq(Byte) /\ Len(size.rest) <= Len(s)
    BY VarintType
  <2>2. Field(s, name) = IF ~size.ok \/ size.value > SizeMax \/ size.value > DataMax THEN Error(size.rest)
                         ELSE Read(size.rest, size.value)
    BY <1>2, Zenon DEF Field, Bytes, VarintWord
  <2> HIDE DEF size
  <2>3. CASE ~size.ok \/ size.value > SizeMax \/ size.value > DataMax
    <3>1. Field(s, name) = Error(size.rest)
      BY <2>2, <2>3
    <3> QED BY <2>1, <3>1 DEF Error
  <2>4. CASE ~(~size.ok \/ size.value > SizeMax \/ size.value > DataMax)
    <3> DEFINE r == Read(size.rest, size.value)
    <3>1. /\ r.ok \in BOOLEAN /\ r.rest \in Seq(Byte) /\ Len(r.rest) <= Len(size.rest)
          /\ r.ok => r.value \in Seq(Byte) /\ Len(r.value) = size.value
      BY <2>1, ReadBytes
    <3>2. size.value \in 0..DataMax
      BY <2>1, <2>4, WidthAssumption
    <3>3. Field(s, name) = r
      BY <2>2, <2>4
    <3> HIDE DEF r
    <3>4. Len(r.rest) <= Len(s)
      <4>1. Len(r.rest) \in Nat /\ Len(size.rest) \in Nat
        BY <2>1, <3>1, LenProperties
      <4> QED BY <1>1, <2>1, <3>1, <4>1
    <3> QED BY <1>2, <3>1, <3>2, <3>3, <3>4
  <2> QED BY <2>3, <2>4
<1>3. CASE name # "data"
  <2> DEFINE v == Varint(s, DoubleBits)
  <2>1. /\ v.ok \in BOOLEAN /\ v.value \in Nat /\ v.rest \in Seq(Byte) /\ Len(v.rest) <= Len(s)
    BY VarintType
  <2>2. Field(s, name) = IF v.ok /\ v.value >= 2 ^ WordBits THEN Error(v.rest) ELSE v
    BY <1>3 DEF Field, Unsigned, VarintDouble
  <2> HIDE DEF v
  <2>3. CASE v.ok /\ v.value >= 2 ^ WordBits
    <3>1. Field(s, name) = Error(v.rest)
      BY <2>2, <2>3
    <3> QED BY <2>1, <3>1 DEF Error
  <2>4. CASE ~(v.ok /\ v.value >= 2 ^ WordBits)
    <3>1. Field(s, name) = v
      BY <2>2, <2>4
    <3> QED BY <1>3, <2>1, <3>1
  <2> QED BY <2>3, <2>4
<1> QED BY <1>2, <1>3

-----------------------------------------------------------------------------
(* The encoder.                                                             *)

\* What can be written so far into a stream that holds so much.
Streams(max) == {s \in [bytes : Seq(Byte), max : {max}, ok : BOOLEAN] : Len(s.bytes) <= max}

\* The values that a varint can stand for.
Encodable == {v \in Nat : v < 128 ^ Groups(DoubleBits)}

SensorData == [type : 0..2 ^ WordBits - 1, data : Seq(Byte)]

\* The powers of 128 are numbers.
LEMMA Powers == \A n \in 0..Groups(DoubleBits) : 128 ^ n \in Nat \ {0}
<1> DEFINE G == Groups(DoubleBits)
           S == {n \in Nat : n <= G => 128 ^ n \in Nat \ {0}}
<1>1. G \in Nat
  BY WidthAssumption DEF Groups
<1>2. 128 ^ 0 = 1 /\ \A n \in 1..G : 128 ^ n = 128 * 128 ^ (n - 1)
  BY PowerAssumption
<1> HIDE DEF G
<1>3. 0 \in S
  BY <1>2
<1>4. ASSUME NEW n \in Nat, n \in S PROVE n + 1 \in S
  <2> SUFFICES ASSUME n + 1 <= G PROVE 128 ^ (n + 1) \in Nat \ {0}
    OBVIOUS
  <2>1. 128 ^ n \in Nat \ {0}
    BY <1>1, <1>4
  <2>2. n + 1 \in 1..G /\ (n + 1) - 1 = n
    BY <1>1
  <2>3. 128 ^ (n + 1) = 128 * 128 ^ n
    BY <1>2, <2>2
  <2> DEFINE p == 128 ^ n
  <2>4. p \in Nat \ {0} /\ 128 ^ (n + 1) = 128 * p
    BY <2>1, <2>3
  <2> HIDE DEF p
  <2> QED BY <2>4
<1> HIDE DEF S
<1>5. \A n \in Nat : n \in S
  BY <1>3, <1>4, SetInduction
<1> QED BY <1>1, <1>5 DEF S, G

\* A larger factor, a larger product.
LEMMA LargerProduct ==
    ASSUME NEW a \in Int, NEW b \in Int, NEW n \in Nat, a <= b
    PROVE  n * a \in Int /\ n * b \in Int /\ n * a <= n * b
OBVIOUS

\* There is one way to divide.
LEMMA Quotient ==
    ASSUME NEW n \in Nat \ {0}, NEW q \in Nat, NEW r \in 0..n - 1
    PROVE  (n * q + r) \div n = q /\ (n * q + r) % n = r
<1> DEFINE a == n * q + r
           x == a \div n
           y == a % n
<1>1. n * q \in Nat /\ a \in Nat
  OBVIOUS
<1>2. x \in Int /\ y \in 0..n - 1 /\ a = n * x + y
  <2> HIDE DEF a
  <2>1. a \div n \in Int
    BY <1>1
  <2>2. a % n \in 0..n - 1
    BY <1>1
  <2>3. a = n * (a \div n) + (a % n)
    BY <1>1
  <2> QED BY <2>1, <2>2, <2>3
<1>3. n * x + y = n * q + r
  BY <1>2
<1> HIDE DEF a, x, y
<1>4. ~(x + 1 <= q)
  <2> SUFFICES ASSUME x + 1 <= q PROVE FALSE
    OBVIOUS
  <2>1. n * (x + 1) <= n * q /\ n * (x + 1) \in Int /\ n * x \in Int
    BY <1>2, LargerProduct
  <2>2. n * (x + 1) = n * x + n
    BY <1>2
  <2> QED BY <1>1, <1>2, <1>3, <2>1, <2>2
<1>5. ~(q + 1 <= x)
  <2> SUFFICES ASSUME q + 1 <= x PROVE FALSE
    OBVIOUS
  <2>1. n * (q + 1) <= n * x /\ n * (q + 1) \in Int /\ n * x \in Int
    BY <1>2, LargerProduct
  <2>2. n * (q + 1) = n * q + n
    OBVIOUS
  <2> QED BY <1>1, <1>2, <1>3, <2>1, <2>2
<1>6. x = q
  BY <1>2, <1>4, <1>5
<1>7. y = r
  BY <1>1, <1>2, <1>3, <1>6
<1> QED BY <1>6, <1>7 DEF a, x, y

\* Seven bits further up.
LEMMA NextGroup ==
    ASSUME NEW v \in Nat, NEW p \in Nat \ {0}
    PROVE  /\ v \div p \in Nat /\ v \div (128 * p) \in Nat
           /\ v \div p = 128 * (v \div (128 * p)) + ((v \div p) % 128)
<1> DEFINE q == v \div p
           r == v % p
           a == q \div 128
           b == q % 128
<1>1. q \in Nat /\ r \in 0..p - 1 /\ v = p * q + r
  <2>1. v \div p \in Nat
    OBVIOUS
  <2>2. v % p \in 0..p - 1
    OBVIOUS
  <2>3. v = p * (v \div p) + (v % p)
    OBVIOUS
  <2> QED BY <2>1, <2>2, <2>3
<1> HIDE DEF q, r
<1>2. a \in Nat /\ b \in 0..127 /\ q = 128 * a + b
  BY <1>1
<1> HIDE DEF a, b
<1>3. v = (128 * p) * a + (p * b + r)
  <2> DEFINE x == (128 * p) * a
             y == p * b
  <2>1. p * (128 * a + b) = x + y
    BY <1>2
  <2>2. x \in Int /\ y \in Int
    BY <1>2
  <2> HIDE DEF x, y
  <2>3. v = x + y + r
    BY <1>1, <1>2, <2>1
  <2>4. v = x + (y + r)
    BY <1>1, <2>2, <2>3
  <2> QED BY <2>4 DEF x, y
<1>4. p * b + r \in 0..128 * p - 1
  <2>1. p * b <= p * 127 /\ p * 0 <= p * b /\ p * b \in Int
    BY <1>2, LargerProduct
  <2> QED BY <1>1, <2>1
<1>5. 128 * p \in Nat \ {0}
  OBVIOUS
<1>6. v \div (128 * p) = a
  <2> DEFINE n == 128 * p
             c == p * b + r
  <2>1. n \in Nat \ {0} /\ c \in 0..n - 1 /\ v = n * a + c
    BY <1>3, <1>4, <1>5
  <2> HIDE DEF n, c
  <2>2. v \div n = a
    BY <1>2, <2>1, Quotient
  <2> QED BY <2>2 DEF n
<1> QED BY <1>1, <1>2, <1>6 DEF q, b

\* A larger power is no smaller.
LEMMA PowersGrow ==
    \A n \in 0..Groups(DoubleBits) : \A k \in 0..n : 128 ^ k <= 128 ^ n
<1> DEFINE G == Groups(DoubleBits)
           S == {n \in Nat : n <= G => \A k \in 0..n : 128 ^ k <= 128 ^ n}
<1>1. G \in Nat
  BY WidthAssumption DEF Groups
<1>2. \A n \in 1..G : 128 ^ n = 128 * 128 ^ (n - 1)
  BY PowerAssumption
<1>3. \A n \in 0..G : 128 ^ n \in Nat \ {0}
  BY Powers
<1> HIDE DEF G
<1>4. 0 \in S
  <2>1. 0 \in 0..G /\ 0..0 = {0}
    BY <1>1
  <2> DEFINE p == 128 ^ 0
  <2>2. p \in Nat
    BY <1>3, <2>1
  <2> HIDE DEF p
  <2>3. \A k \in 0..0 : 128 ^ k = p
    BY <2>1 DEF p
  <2>4. \A k \in 0..0 : 128 ^ k <= p
    BY <2>2, <2>3
  <2> QED BY <2>4 DEF p
<1>5. ASSUME NEW n \in Nat, n \in S PROVE n + 1 \in S
  <2> SUFFICES ASSUME n + 1 <= G, NEW k \in 0..n + 1 PROVE 128 ^ k <= 128 ^ (n + 1)
    OBVIOUS
  <2>1. n \in 0..G /\ n + 1 \in 1..G /\ n + 1 \in 0..G /\ (n + 1) - 1 = n
    BY <1>1
  <2> DEFINE p == 128 ^ n
             r == 128 ^ (n + 1)
             q == 128 ^ k
  <2>2. p \in Nat \ {0} /\ r = 128 * p /\ r \in Nat
    BY <1>2, <1>3, <2>1
  <2>3. k = n + 1 => q = r
    OBVIOUS
  <2>4. k \in 0..n => q <= p /\ q \in Nat
    BY <1>3, <1>1, <1>5, <2>1
  <2> HIDE DEF p, q, r
  <2>5. q <= r
    BY <2>2, <2>3, <2>4
  <2> QED BY <2>5 DEF q, r
<1> HIDE DEF S
<1>6. \A n \in Nat : n \in S
  BY <1>4, <1>5, SetInduction
<1> QED BY <1>1, <1>6 DEF S, G

\* The longest varint of a word, and of a double word.
LEMMA GroupCounts ==
    /\ Groups(WordBits) \in Nat \ {0} /\ Groups(DoubleBits) \in Nat \ {0}
    /\ Groups(WordBits) <= Groups(DoubleBits)
<1>1. \A a \in Nat \ {0} : (a + 6) \div 7 \in Nat \ {0}
  OBVIOUS
<1>2. \A a, b \in Nat : a <= b => (a + 6) \div 7 <= (b + 6) \div 7
  OBVIOUS
<1> QED BY <1>1, <1>2, WidthAssumption DEF Groups

\* A tag, a length and an integer of 32 bits can be encoded.
LEMMA EncodableValues == 0..2 ^ WordBits - 1 \subseteq Encodable /\ 0..127 \subseteq Encodable
<1> DEFINE p == 128 ^ Groups(DoubleBits)
           w == 2 ^ WordBits
<1>1. Groups(DoubleBits) \in Nat \ {0}
  BY WidthAssumption DEF Groups
<1>2. p \in Nat /\ p >= 128
  <2> DEFINE q == 128 ^ (Groups(DoubleBits) - 1)
  <2>1. q \in Nat \ {0}
    <3>1. Groups(DoubleBits) - 1 \in 0..Groups(DoubleBits)
      BY <1>1
    <3> QED BY <3>1, Powers
  <2>2. p = 128 * q
    <3>1. Groups(DoubleBits) \in 1..Groups(DoubleBits)
      BY <1>1
    <3> QED BY <3>1, PowerAssumption
  <2> HIDE DEF p, q
  <2> QED BY <2>1, <2>2
<1>3. w \in Nat /\ w <= p
  <2> DEFINE g == 128 ^ Groups(WordBits)
  <2>1. w \in Nat /\ w <= g
    BY PowerAssumption, WidthAssumption
  <2>2. Groups(WordBits) \in 0..Groups(DoubleBits) /\ Groups(DoubleBits) \in 0..Groups(DoubleBits)
    BY GroupCounts
  <2>3. g \in Nat /\ g <= p
    BY <2>2, Powers, PowersGrow
  <2> HIDE DEF g, p, w
  <2> QED BY <1>2, <2>1, <2>3
<1> HIDE DEF p, w
<1>4. \A v \in 0..w - 1 : v \in Nat /\ v < p
  BY <1>2, <1>3
<1>5. \A v \in 0..127 : v \in Nat /\ v < p
  BY <1>2
<1> QED BY <1>4, <1>5, Zenon DEF Encodable, p, w

\* A varint is bytes.
LEMMA EncodeVarintType ==
    ASSUME NEW value \in Encodable
    PROVE  EncodeVarint(value) \in Seq(Byte)
<1> DEFINE sizes == {n \in 1..Groups(DoubleBits) : value < 128 ^ n}
           size == Min(sizes)
           D(i) == ((value \div 128 ^ (i - 1)) % 128) + (IF i < size THEN 128 ELSE 0)
<1>1. Groups(DoubleBits) \in Nat \ {0}
  BY WidthAssumption DEF Groups
<1>2. Groups(DoubleBits) \in sizes /\ sizes \subseteq Nat
  BY <1>1 DEF Encodable
<1>3. size \in 1..Groups(DoubleBits)
  <2>1. size \in sizes
    <3> HIDE DEF sizes
    <3> QED BY <1>2, MinNumber
  <2> QED BY <2>1
<1> HIDE DEF sizes
<1>4. EncodeVarint(value) = [i \in 1..size |-> D(i)]
  BY DEF EncodeVarint, sizes
<1> HIDE DEF size
<1>5. ASSUME NEW i \in 1..size PROVE D(i) \in Byte
  <2> DEFINE p == 128 ^ (i - 1)
  <2>1. p \in Nat \ {0}
    <3>1. i - 1 \in 0..Groups(DoubleBits)
      BY <1>1, <1>3
    <3> QED BY <3>1, Powers
  <2>2. value \in Nat
    BY DEF Encodable
  <2> HIDE DEF p
  <2>3. (value \div p) % 128 \in 0..127
    BY <2>1, <2>2
  <2>4. ((value \div p) % 128) + (IF i < size THEN 128 ELSE 0) \in 0..255
    BY <2>3
  <2> QED BY <2>4 DEF p, Byte
<1> HIDE DEF D
<1>6. size \in Nat
  BY <1>1, <1>3
<1> QED BY <1>4, <1>5, <1>6, SeqDef

\* pb_write never writes past the end of a stream.
LEMMA WriteType ==
    ASSUME NEW max \in Nat, NEW s \in Streams(max), NEW bytes \in Seq(Byte)
    PROVE  Write(s, bytes) \in Streams(max)
<1>1. /\ s.bytes \in Seq(Byte) /\ s.max = max /\ s.ok \in BOOLEAN /\ Len(s.bytes) <= max
      /\ s \in [bytes : Seq(Byte), max : {max}, ok : BOOLEAN]
  BY DEF Streams
<1>2. CASE ~s.ok \/ Len(s.bytes) + Len(bytes) > s.max
  <2>1. Write(s, bytes) = [s EXCEPT !.ok = FALSE]
    BY <1>2 DEF Write
  <2> QED BY <1>1, <2>1 DEF Streams
<1>3. CASE ~(~s.ok \/ Len(s.bytes) + Len(bytes) > s.max)
  <2>1. Write(s, bytes) = [s EXCEPT !.bytes = s.bytes \o bytes]
    BY <1>3 DEF Write
  <2>2. s.bytes \o bytes \in Seq(Byte) /\ Len(s.bytes \o bytes) = Len(s.bytes) + Len(bytes)
    BY <1>1, ConcatProperties
  <2>3. Len(s.bytes) \in Nat /\ Len(bytes) \in Nat
    BY <1>1, LenProperties
  <2>4. Len(s.bytes \o bytes) <= max
    BY <1>1, <1>3, <2>2, <2>3
  <2> QED BY <1>1, <2>1, <2>2, <2>4 DEF Streams
<1> QED BY <1>2, <1>3

\* A stream that has failed is a stream.
LEMMA FailedType ==
    ASSUME NEW max, NEW s \in Streams(max)
    PROVE  [s EXCEPT !.ok = FALSE] \in Streams(max)
BY DEF Streams

\* A tag of the fields there are,
LEMMA EncodeTagType ==
    ASSUME NEW max \in Nat, NEW s \in Streams(max),
           NEW field \in {SensorDataFields[1], SensorDataFields[2], ListField}
    PROVE  EncodeTag(s, field) \in Streams(max)
<1>1. field.tag * 8 + WireType[field.ltype] \in 0..127
  BY DEF SensorDataFields, ListField, WireType, PB_WT
<1> DEFINE value == field.tag * 8 + WireType[field.ltype]
<1> HIDE DEF value
<1>2. value \in Encodable
  BY <1>1, EncodableValues DEF value
<1>3. EncodeVarint(value) \in Seq(Byte)
  BY <1>2, EncodeVarintType
<1>4. Write(s, EncodeVarint(value)) \in Streams(max)
  BY <1>3, WriteType
<1> QED BY <1>4 DEF EncodeTag, value

\* a string,
LEMMA EncodeStringType ==
    ASSUME NEW max \in Nat, NEW s \in Streams(max), NEW bytes \in Seq(Byte), Len(bytes) <= SizeMax
    PROVE  EncodeString(s, bytes) \in Streams(max)
<1>1. Len(bytes) \in 0..2 ^ WordBits - 1
  BY WidthAssumption, LenProperties
<1>2. EncodeVarint(Len(bytes)) \in Seq(Byte)
  BY <1>1, EncodableValues, EncodeVarintType
<1>3. Write(s, EncodeVarint(Len(bytes))) \in Streams(max)
  BY <1>2, WriteType
<1> QED BY <1>3, WriteType DEF EncodeString

\* and the fields of a message stay in the stream.
LEMMA EncodeMessageType ==
    ASSUME NEW max \in Nat, NEW s \in Streams(max), NEW m \in SensorData
    PROVE  EncodeMessage(s, m) \in Streams(max)
<1>1. m.type \in 0..2 ^ WordBits - 1 /\ m.data \in Seq(Byte)
  BY DEF SensorData
<1> DEFINE t == EncodeField(s, SensorDataFields[1], m.type)
<1>2. t \in Streams(max)
  <2>1. EncodeTag(s, SensorDataFields[1]) \in Streams(max)
    BY EncodeTagType
  <2>2. EncodeVarint(m.type) \in Seq(Byte)
    BY <1>1, EncodableValues, EncodeVarintType
  <2>3. t = Write(EncodeTag(s, SensorDataFields[1]), EncodeVarint(m.type))
    <3>1. SensorDataFields[1].ltype = "uvarint"
      BY DEF SensorDataFields
    <3> QED BY <3>1 DEF EncodeField, EncUvarint
  <2> QED BY <2>1, <2>2, <2>3, WriteType
<1> HIDE DEF t
<1>3. EncodeField(t, SensorDataFields[2], m.data) \in Streams(max)
  <2> DEFINE u == EncodeTag(t, SensorDataFields[2])
  <2>1. u \in Streams(max)
    BY <1>2, EncodeTagType
  <2>2. EncodeField(t, SensorDataFields[2], m.data) = EncBytes(u, m.data)
    <3>1. SensorDataFields[2].ltype # "uvarint"
      BY DEF SensorDataFields
    <3> QED BY <3>1 DEF EncodeField
  <2> HIDE DEF u
  <2>3. CASE Len(m.data) > DataMax
    <3>1. EncBytes(u, m.data) = [u EXCEPT !.ok = FALSE]
      BY <2>3 DEF EncBytes
    <3> QED BY <2>1, <2>2, <3>1, FailedType
  <2>4. CASE ~(Len(m.data) > DataMax)
    <3>1. EncBytes(u, m.data) = EncodeString(u, m.data)
      BY <2>4 DEF EncBytes
    <3>2. Len(m.data) <= SizeMax
      BY <1>1, <2>4, LenProperties, WidthAssumption
    <3> QED BY <1>1, <2>1, <2>2, <3>1, <3>2, EncodeStringType
  <2> QED BY <2>3, <2>4
<1> QED BY <1>3 DEF EncodeMessage, t

\* An empty stream.
LEMMA StreamType == ASSUME NEW max \in Nat PROVE Stream(max) \in Streams(max)
BY EmptySeq DEF Stream, Streams

\* A submessage is never longer than it was counted to be: so it stays in the stream as well.
LEMMA EncodeSubmessageType ==
    ASSUME NEW max \in Nat, NEW s \in Streams(max), NEW m \in SensorData
    PROVE  EncodeSubmessage(s, m) \in Streams(max)
<1> DEFINE sized == EncodeMessage(Sizing, m)
           size == Len(sized.bytes)
           t == Write(s, EncodeVarint(size))
           written == EncodeMessage(Stream(size), m)
<1>1. sized \in Streams(SizeMax)
  <2>1. SizeMax \in Nat
    BY WidthAssumption
  <2>2. Sizing \in Streams(SizeMax)
    BY <2>1, StreamType DEF Sizing
  <2> QED BY <2>1, <2>2, EncodeMessageType
<1>2. size \in Nat /\ size <= SizeMax
  <2>1. sized.bytes \in Seq(Byte) /\ Len(sized.bytes) <= SizeMax
    <3> HIDE DEF sized
    <3> QED BY <1>1 DEF Streams
  <2> QED BY <2>1, LenProperties
<1>3. EncodeSubmessage(s, m) =
        IF ~sized.ok \/ ~t.ok \/ Len(t.bytes) + size > t.max THEN [t EXCEPT !.ok = FALSE]
        ELSE [t EXCEPT !.bytes = t.bytes \o written.bytes, !.ok = written.ok]
  BY DEF EncodeSubmessage
<1> HIDE DEF size
<1>4. t \in Streams(max)
  <2>1. size \in 0..2 ^ WordBits - 1
    BY <1>2, WidthAssumption
  <2>2. EncodeVarint(size) \in Seq(Byte)
    BY <2>1, EncodableValues, EncodeVarintType
  <2> QED BY <2>2, WriteType
<1>5. written \in Streams(size)
  <2>1. Stream(size) \in Streams(size)
    BY <1>2, StreamType
  <2> QED BY <1>2, <2>1, EncodeMessageType
<1> HIDE DEF sized, t, written
<1>6. /\ t.bytes \in Seq(Byte) /\ t.max = max /\ t \in [bytes : Seq(Byte), max : {max}, ok : BOOLEAN]
      /\ written.bytes \in Seq(Byte) /\ Len(written.bytes) <= size /\ written.ok \in BOOLEAN
  BY <1>4, <1>5 DEF Streams
<1>7. CASE ~sized.ok \/ ~t.ok \/ Len(t.bytes) + size > t.max
  BY <1>3, <1>4, <1>7, FailedType
<1>8. CASE ~(~sized.ok \/ ~t.ok \/ Len(t.bytes) + size > t.max)
  <2>1. EncodeSubmessage(s, m) = [t EXCEPT !.bytes = t.bytes \o written.bytes, !.ok = written.ok]
    BY <1>3, <1>8
  <2>2. /\ t.bytes \o written.bytes \in Seq(Byte)
        /\ Len(t.bytes \o written.bytes) = Len(t.bytes) + Len(written.bytes)
    BY <1>6, ConcatProperties
  <2>3. Len(t.bytes) \in Nat /\ Len(written.bytes) \in Nat
    BY <1>6, LenProperties
  <2>4. Len(t.bytes \o written.bytes) <= max
    BY <1>2, <1>6, <1>8, <2>2, <2>3
  <2> QED BY <1>6, <2>1, <2>2, <2>4 DEF Streams
<1> QED BY <1>7, <1>8

-----------------------------------------------------------------------------
(* The list.                                                                *)

\* One step after another, from a first value on, in a set that each step stays in.
Steps(f, n, T, base, Step) ==
    f \in [0..n -> T] /\ f[0] = base /\ \A i \in 1..n : f[i] = Step[i][f[i - 1]]

\* Such a function there is.
LEMMA StepsDefined ==
    ASSUME NEW T, NEW base \in T, NEW n \in Nat, NEW Step \in [1..n -> [T -> T]]
    PROVE  \E f : Steps(f, n, T, base, Step)
<1> DEFINE Defines(f, k) == /\ f \in [0..k -> T] /\ f[0] = base
                            /\ \A i \in 1..k : f[i] = Step[i][f[i - 1]]
           S == {k \in Nat : k <= n => \E f : Defines(f, k)}
<1>1. 0 \in S
  <2> DEFINE f == [i \in 0..0 |-> base]
  <2>1. Defines(f, 0)
    OBVIOUS
  <2> HIDE DEF f, Defines
  <2> QED BY <2>1
<1>2. ASSUME NEW k \in Nat, k \in S PROVE k + 1 \in S
  <2> SUFFICES ASSUME k + 1 <= n PROVE \E f : Defines(f, k + 1)
    OBVIOUS
  <2>1. PICK f : Defines(f, k)
    BY <1>2
  <2> DEFINE g == [i \in 0..k + 1 |-> IF i = k + 1 THEN Step[k + 1][f[k]] ELSE f[i]]
  <2>2. f[k] \in T /\ k + 1 \in 1..n /\ Step[k + 1] \in [T -> T]
    BY <2>1
  <2>3. g \in [0..k + 1 -> T]
    <3>1. Step[k + 1][f[k]] \in T
      BY <2>2
    <3>2. \A i \in 0..k + 1 : i # k + 1 => i \in 0..k
      OBVIOUS
    <3>3. \A i \in 0..k : f[i] \in T
      BY <2>1
    <3> QED BY <3>1, <3>2, <3>3
  <2>4. g[0] = base
    BY <2>1
  <2>5. ASSUME NEW i \in 1..k + 1 PROVE g[i] = Step[i][g[i - 1]]
    <3>1. i - 1 \in 0..k + 1 /\ i - 1 # k + 1 /\ i \in 0..k + 1
      OBVIOUS
    <3>2. g[i - 1] = f[i - 1]
      BY <3>1
    <3>3. CASE i = k + 1
      BY <3>1, <3>2, <3>3
    <3>4. CASE i # k + 1
      <4>1. i \in 1..k
        BY <3>4
      <4>2. f[i] = Step[i][f[i - 1]]
        BY <2>1, <4>1
      <4>3. g[i] = f[i]
        BY <3>1, <3>4
      <4> QED BY <3>2, <4>2, <4>3
    <3> QED BY <3>3, <3>4
  <2> HIDE DEF g
  <2>6. Defines(g, k + 1)
    BY <2>3, <2>4, <2>5
  <2> HIDE DEF Defines
  <2> QED BY <2>6
<1> HIDE DEF S
<1>3. \A k \in Nat : k \in S
  BY <1>1, <1>2, SetInduction
<1>4. \E f : Defines(f, n)
  BY <1>3 DEF S
<1> QED BY <1>4, Zenon DEF Steps

\* The streams in which the messages are encoded, one after another.
LEMMA EncodeListSteps ==
    ASSUME NEW max \in Nat, NEW s \in Streams(max), NEW messages \in Seq(SensorData)
    PROVE  \E f \in [0..Len(messages) -> Streams(max)] :
            /\ f[0] = s
            /\ \A n \in 1..Len(messages) : f[n] = EncodeSubmessage(EncodeTag(f[n - 1], ListField), messages[n])
            /\ EncodeList(s, messages) = f[Len(messages)]
<1> DEFINE L == Len(messages)
           Next1(t, i) == EncodeSubmessage(EncodeTag(t, ListField), messages[i])
           Defines(f) == f = [n \in 0..L |-> IF n = 0 THEN s ELSE Next1(f[n - 1], n)]
           Encoded == CHOOSE f : Defines(f)
<1>1. L \in Nat /\ \A i \in 1..L : messages[i] \in SensorData
  BY LenProperties, ElementOfSeq
<1>2. EncodeList(s, messages) = Encoded[L]
  BY DEF EncodeList
<1> HIDE DEF L
<1>3. ASSUME NEW t \in Streams(max), NEW i \in 1..L PROVE Next1(t, i) \in Streams(max)
  <2>1. EncodeTag(t, ListField) \in Streams(max)
    BY EncodeTagType
  <2> QED BY <1>1, <2>1, EncodeSubmessageType
<1> HIDE DEF Next1
<1>4. \E f : Defines(f)
  <2> DEFINE Step == [i \in 1..L |-> [t \in Streams(max) |-> Next1(t, i)]]
  <2>1. Step \in [1..L -> [Streams(max) -> Streams(max)]]
    BY <1>3
  <2>2. \A i \in 1..L : \A t \in Streams(max) : Step[i][t] = Next1(t, i)
    OBVIOUS
  <2> HIDE DEF Step
  <2>3. PICK f \in [0..L -> Streams(max)] : f[0] = s /\ \A i \in 1..L : f[i] = Step[i][f[i - 1]]
    <3>1. \E f : Steps(f, L, Streams(max), s, Step)
      BY <1>1, <2>1, StepsDefined, Zenon
    <3> QED BY <3>1, Zenon DEF Steps
  <2>4. \A i \in 1..L : i - 1 \in 0..L
    BY <1>1
  <2>5. \A i \in 1..L : f[i] = Next1(f[i - 1], i)
    BY <2>2, <2>3, <2>4
  <2>6. \A n \in 0..L : f[n] = IF n = 0 THEN s ELSE Next1(f[n - 1], n)
    <3>1. \A n \in 0..L : n = 0 \/ n \in 1..L
      BY <1>1
    <3> QED BY <2>3, <2>5, <3>1
  <2>7. Defines(f)
    BY <2>3, <2>6
  <2> HIDE DEF Defines
  <2> QED BY <2>7
<1>5. Defines(Encoded)
  <2> HIDE DEF Defines
  <2> QED BY <1>4
<1>6. \A n \in 0..L : Encoded[n] = IF n = 0 THEN s ELSE Next1(Encoded[n - 1], n)
  <2> HIDE DEF Encoded
  <2> QED BY <1>5, Zenon
<1> HIDE DEF Encoded
<1> DEFINE S == {n \in Nat : n <= L => Encoded[n] \in Streams(max)}
<1>7. 0 \in S
  BY <1>1, <1>6
<1>8. ASSUME NEW n \in Nat, n \in S PROVE n + 1 \in S
  <2> SUFFICES ASSUME n + 1 <= L PROVE Encoded[n + 1] \in Streams(max)
    OBVIOUS
  <2>1. n + 1 \in 0..L /\ n + 1 # 0 /\ (n + 1) - 1 = n /\ n + 1 \in 1..L
    BY <1>1
  <2>2. Encoded[n + 1] = Next1(Encoded[n], n + 1)
    BY <1>6, <2>1
  <2>3. Encoded[n] \in Streams(max)
    BY <1>1, <1>8
  <2> QED BY <1>3, <2>1, <2>2, <2>3
<1> HIDE DEF S
<1>9. \A n \in Nat : n \in S
  BY <1>7, <1>8, SetInduction
<1>10. \A n \in 0..L : Encoded[n] \in Streams(max)
  BY <1>1, <1>9 DEF S
<1>11. Encoded = [n \in 0..L |-> IF n = 0 THEN s ELSE Next1(Encoded[n - 1], n)]
  BY <1>5
<1>12. Encoded \in [0..L -> Streams(max)]
  BY <1>10, <1>11
<1>13. Encoded[0] = s
  BY <1>1, <1>6
<1>14. \A n \in 1..L : Encoded[n] = EncodeSubmessage(EncodeTag(Encoded[n - 1], ListField), messages[n])
  <2>1. \A n \in 1..L : n \in 0..L /\ n # 0
    BY <1>1
  <2> QED BY <1>6, <2>1 DEF Next1
<1> HIDE DEF Defines
<1> QED BY <1>2, <1>12, <1>13, <1>14 DEF L

\* However many messages there are, the list stays in its stream: nothing is written past the end.
LEMMA EncodeListType ==
    ASSUME NEW max \in Nat, NEW s \in Streams(max), NEW messages \in Seq(SensorData)
    PROVE  EncodeList(s, messages) \in Streams(max)
<1>1. PICK f \in [0..Len(messages) -> Streams(max)] : EncodeList(s, messages) = f[Len(messages)]
  BY EncodeListSteps
<1>2. Len(messages) \in 0..Len(messages)
  BY LenProperties
<1> QED BY <1>1, <1>2

-----------------------------------------------------------------------------
(* What is written is read again: varints.                                  *)

\* The bytes of a varint of a word: each has seven bits of it, and all but the last say that there is more.
LEMMA VarintBytes ==
    ASSUME NEW v \in 0..2 ^ WordBits - 1
    PROVE  \E n \in 1..Groups(WordBits) :
            /\ EncodeVarint(v) \in Seq(Byte) /\ Len(EncodeVarint(v)) = n /\ v < 128 ^ n
            /\ \A i \in 1..n : /\ EncodeVarint(v)[i] % 128 = (v \div 128 ^ (i - 1)) % 128
                               /\ More(EncodeVarint(v)[i]) <=> i < n
<1> DEFINE G == Groups(DoubleBits)
           sizes == {n \in 1..G : v < 128 ^ n}
           size == Min(sizes)
           D(i) == ((v \div 128 ^ (i - 1)) % 128) + (IF i < size THEN 128 ELSE 0)
           e == EncodeVarint(v)
<1>1. Groups(WordBits) \in 1..G /\ G \in Nat
  BY GroupCounts
<1>2. v \in Nat /\ v < 128 ^ Groups(WordBits)
  <2> DEFINE w == 2 ^ WordBits
             p == 128 ^ Groups(WordBits)
  <2>1. w \in Nat /\ w <= p
    BY WidthAssumption, PowerAssumption, Zenon
  <2>2. p \in Nat
    <3>1. Groups(WordBits) \in 0..Groups(DoubleBits)
      BY GroupCounts
    <3> QED BY <3>1, Powers
  <2>3. v \in 0..w - 1
    OBVIOUS
  <2> HIDE DEF w, p
  <2>4. v \in Nat /\ v < p
    BY <2>1, <2>2, <2>3
  <2> QED BY <2>4 DEF p
<1>3. Groups(WordBits) \in sizes /\ sizes \subseteq Nat
  BY <1>1, <1>2
<1>4. size \in sizes /\ size <= Groups(WordBits)
  <2> HIDE DEF sizes
  <2> QED BY <1>3, MinNumber
<1>5. size \in 1..Groups(WordBits) /\ size \in Nat /\ v < 128 ^ size /\ size <= G
  BY <1>1, <1>4
<1> HIDE DEF sizes
<1>6. e = [i \in 1..size |-> D(i)]
  BY DEF EncodeVarint, sizes
<1>7. e \in Seq(Byte)
  <2>1. v \in Encodable
    BY EncodableValues
  <2> QED BY <2>1, EncodeVarintType
<1> HIDE DEF size
<1>8. Len(e) = size
  <2> HIDE DEF D
  <2>1. DOMAIN e = 1..size
    BY <1>6
  <2> HIDE DEF e
  <2>2. Len(e) \in Nat /\ DOMAIN e = 1..Len(e)
    BY <1>7, LenProperties
  <2> QED BY <1>5, <2>1, <2>2
<1>9. ASSUME NEW i \in 1..size
      PROVE  e[i] % 128 = (v \div 128 ^ (i - 1)) % 128 /\ (More(e[i]) <=> i < size)
  <2> DEFINE p == 128 ^ (i - 1)
             q == v \div p
  <2>1. p \in Nat \ {0}
    <3>1. i - 1 \in 0..G
      BY <1>1, <1>5
    <3> QED BY <3>1, Powers
  <2>2. e[i] = (q % 128) + (IF i < size THEN 128 ELSE 0)
    BY <1>6
  <2> HIDE DEF e, p
  <2>3. q \in Nat
    BY <1>2, <2>1
  <2> HIDE DEF q
  <2>4. q % 128 \in 0..127
    BY <2>3
  <2>5. e[i] % 128 = q % 128
    BY <2>2, <2>3, <2>4
  <2>6. e[i] >= 128 <=> i < size
    BY <2>2, <2>4
  <2> QED BY <2>5, <2>6 DEF More, p, q
<1> HIDE DEF e
<1> QED BY <1>5, <1>7, <1>8, <1>9 DEF e

\* Where a varint ends: at the first byte that says so.
LEMMA VarintEnds ==
    ASSUME NEW s \in Seq(Byte), NEW n \in 1..Len(s), ~More(s[n]), \A i \in 1..n - 1 : More(s[i])
    PROVE  VarintLength(s) = n
<1> DEFINE ends == {i \in DOMAIN s : ~More(s[i])}
<1>1. Len(s) \in Nat /\ DOMAIN s = 1..Len(s) /\ n \in Nat
  BY LenProperties
<1>2. n \in ends /\ ends \subseteq Nat
  BY <1>1
<1>3. \A i \in ends : n <= i
  BY <1>1
<1>4. VarintLength(s) = Min(ends)
  BY <1>2 DEF VarintLength
<1> HIDE DEF ends
<1> DEFINE m == Min(ends)
<1>5. m \in ends /\ m <= n
  BY <1>2, MinNumber
<1> HIDE DEF m
<1>6. m \in Nat /\ n <= m
  BY <1>2, <1>3, <1>5
<1>7. m = n
  BY <1>1, <1>5, <1>6
<1> QED BY <1>4, <1>7 DEF m

\* Bytes and what follows them.
LEMMA Followed ==
    ASSUME NEW a \in Seq(Byte), NEW b \in Seq(Byte)
    PROVE  /\ a \o b \in Seq(Byte) /\ Len(a \o b) = Len(a) + Len(b) /\ Len(a) \in Nat /\ Len(b) \in Nat
           /\ \A i \in 1..Len(a) : (a \o b)[i] = a[i]
           /\ Drop(a \o b, Len(a)) = b /\ SubSeq(a \o b, 1, Len(a)) = a
<1> DEFINE s == a \o b
<1>1. /\ s \in Seq(Byte) /\ Len(s) = Len(a) + Len(b) /\ Len(a) \in Nat /\ Len(b) \in Nat
      /\ \A i \in 1..Len(a) + Len(b) : s[i] = IF i <= Len(a) THEN a[i] ELSE b[i - Len(a)]
  BY ConcatProperties, LenProperties
<1>2. \A i \in 1..Len(a) : s[i] = a[i]
  BY <1>1
<1>3. SubSeq(s, 1, Len(a)) = a
  <2>1. SubSeq(s, 1, Len(a)) \in Seq(Byte) /\ Len(SubSeq(s, 1, Len(a))) = Len(a)
    <3>1. Len(a) \in 0..Len(s)
      BY <1>1
    <3> HIDE DEF s
    <3> QED BY <1>1, <3>1, FirstBytes
  <2>2. \A i \in 1..Len(a) : SubSeq(s, 1, Len(a))[i] = a[i]
    <3> HIDE DEF s
    <3>1. \A i \in 1..Len(a) : s[i] \in Byte
      BY <1>1, ElementOfSeq
    <3>2. \A i \in 1..Len(a) - 1 + 1 : SubSeq(s, 1, Len(a))[i] = s[1 + i - 1]
      BY <1>1, <3>1, SubSeqProperties
    <3> QED BY <1>1, <1>2, <3>2
  <2> HIDE DEF s
  <2> QED BY <2>1, <2>2, SeqEqual
<1>4. Drop(s, Len(a)) = b
  <2>1. Drop(s, Len(a)) \in Seq(Byte) /\ Len(Drop(s, Len(a))) = Len(b)
    <3>1. Len(a) \in 0..Len(s) /\ Len(s) - Len(a) = Len(b)
      BY <1>1
    <3> HIDE DEF s
    <3> QED BY <1>1, <3>1, DropBytes
  <2>2. \A i \in 1..Len(b) : Drop(s, Len(a))[i] = b[i]
    <3> HIDE DEF s
    <3>1. \A i \in Len(a) + 1..Len(s) : s[i] \in Byte
      BY <1>1, ElementOfSeq
    <3>2. \A i \in 1..Len(b) : SubSeq(s, Len(a) + 1, Len(s))[i] = s[Len(a) + 1 + i - 1]
      BY <1>1, <3>1, SubSeqProperties
    <3>3. \A i \in 1..Len(b) : s[Len(a) + 1 + i - 1] = b[i]
      BY <1>1
    <3> QED BY <3>2, <3>3 DEF Drop
  <2> HIDE DEF s
  <2> QED BY <2>1, <2>2, SeqEqual
<1> QED BY <1>1, <1>2, <1>3, <1>4

\* A varint that is read is the bytes up to its end, whatever follows.
LEMMA VarintOf ==
    ASSUME NEW b \in Seq(Byte), NEW t \in Seq(Byte), NEW width \in {WordBits, DoubleBits},
           Len(b) \in 1..Groups(width), ~More(b[Len(b)]), \A i \in 1..Len(b) - 1 : More(b[i])
    PROVE  /\ VarintLength(b \o t) = Len(b)
           /\ Varint(b \o t, width) = Ok(VarintValue(b \o t, Len(b)) % 2 ^ width, t)
<1> DEFINE s == b \o t
           n == Len(b)
<1>1. /\ s \in Seq(Byte) /\ Len(s) = n + Len(t) /\ n \in Nat /\ Len(t) \in Nat
      /\ Drop(s, n) = t /\ \A i \in 1..n : s[i] = b[i]
  BY Followed
<1>2. n \in 1..Groups(width)
  OBVIOUS
<1>3. ~More(s[n]) /\ \A i \in 1..n - 1 : More(s[i])
  BY <1>1, <1>2
<1>4. n \in 1..Len(s)
  BY <1>1, <1>2
<1> HIDE DEF s, n
<1>5. VarintLength(s) = n
  BY <1>1, <1>3, <1>4, VarintEnds
<1>6. Varint(s, width) = Ok(VarintValue(s, n) % 2 ^ width, Drop(s, n))
  BY <1>2, <1>5 DEF Varint
<1> QED BY <1>1, <1>5, <1>6 DEF s, n

\* What is encoded is decoded again, whatever follows it.
LEMMA VarintRoundTrip ==
    ASSUME NEW v \in 0..2 ^ WordBits - 1, NEW t \in Seq(Byte), NEW width \in {WordBits, DoubleBits}
    PROVE  Varint(EncodeVarint(v) \o t, width) = Ok(v, t)
<1> DEFINE e == EncodeVarint(v)
           s == e \o t
<1>1. PICK n \in 1..Groups(WordBits) :
        /\ e \in Seq(Byte) /\ Len(e) = n /\ v < 128 ^ n
        /\ \A i \in 1..n : e[i] % 128 = (v \div 128 ^ (i - 1)) % 128 /\ (More(e[i]) <=> i < n)
  BY VarintBytes
<1>2. n \in Nat \ {0} /\ n <= Groups(width) /\ n <= Groups(DoubleBits) /\ Groups(DoubleBits) \in Nat
  BY GroupCounts
<1>3. v \in Nat /\ v < 2 ^ width
  <2> DEFINE w == 2 ^ WordBits
             d == 2 ^ width
  <2>1. w \in Nat /\ d \in Nat /\ w <= d
    <3>1. 2 ^ WordBits \in Nat /\ 2 ^ DoubleBits \in Nat
      BY WidthAssumption
    <3>2. 2 ^ WordBits <= 2 ^ DoubleBits /\ 2 ^ WordBits <= 2 ^ WordBits
      BY <3>1, PowerAssumption
    <3> QED BY <3>1, <3>2
  <2>2. v \in 0..w - 1
    OBVIOUS
  <2> HIDE DEF w, d
  <2>3. v \in Nat /\ v < d
    BY <2>1, <2>2
  <2> QED BY <2>3 DEF d
<1> HIDE DEF e
<1>4. Varint(s, width) = Ok(VarintValue(s, n) % 2 ^ width, t)
  <2>1. Len(e) \in 1..Groups(width) /\ ~More(e[Len(e)]) /\ \A i \in 1..Len(e) - 1 : More(e[i])
    BY <1>1, <1>2, GroupCounts
  <2> QED BY <1>1, <2>1, VarintOf
<1>5. /\ s \in Seq(Byte) /\ Len(s) = n + Len(t) /\ Len(t) \in Nat
      /\ \A i \in 1..n : s[i] = e[i]
  BY <1>1, Followed
<1> HIDE DEF s
<1>6. VarintValue(s, n) = v
  <2>1. n \in 0..Len(s)
    BY <1>2, <1>5
  <2>2. PICK f \in [0..n -> Nat] :
          /\ f[0] = 0 /\ \A i \in 1..n : f[i] = 128 * f[i - 1] + (s[n + 1 - i] % 128)
          /\ VarintValue(s, n) = f[n]
    BY <1>5, <2>1, VarintValueSteps
  <2> DEFINE S == {k \in Nat : k <= n => f[k] = v \div 128 ^ (n - k)}
  <2>3. 0 \in S
    <3> DEFINE p == 128 ^ n
    <3>1. p \in Nat \ {0} /\ v < p
      <4>1. n \in 0..Groups(DoubleBits)
        BY <1>2
      <4> QED BY <1>1, <4>1, Powers
    <3> HIDE DEF p
    <3>2. v \div p = 0
      BY <1>3, <3>1
    <3>3. n - 0 = n
      BY <1>2
    <3> QED BY <2>2, <3>2, <3>3 DEF p
  <2>4. ASSUME NEW k \in Nat, k \in S PROVE k + 1 \in S
    <3> SUFFICES ASSUME k + 1 <= n PROVE f[k + 1] = v \div 128 ^ (n - (k + 1))
      OBVIOUS
    <3> DEFINE p == 128 ^ (n - (k + 1))
               j == n - k
    <3>1. j \in 1..n /\ j - 1 = n - (k + 1) /\ n + 1 - (k + 1) = j /\ j \in 1..Groups(DoubleBits)
      BY <1>2
    <3>2. p \in Nat \ {0} /\ 128 ^ j = 128 * p
      <4>1. j - 1 \in 0..Groups(DoubleBits)
        BY <1>2, <3>1
      <4>2. 128 ^ (j - 1) = p
        BY <3>1
      <4>3. 128 ^ j = 128 * 128 ^ (j - 1)
        BY <3>1, PowerAssumption
      <4> QED BY <4>1, <4>2, <4>3, Powers
    <3>3. f[k] = v \div (128 * p)
      <4>1. f[k] = v \div 128 ^ j
        BY <1>2, <2>4
      <4> QED BY <3>2, <4>1
    <3>4. f[k + 1] = 128 * f[k] + (s[j] % 128)
      <4>1. k + 1 \in 1..n /\ (k + 1) - 1 = k
        BY <1>2
      <4> QED BY <2>2, <3>1, <4>1
    <3>5. s[j] % 128 = (v \div p) % 128
      BY <1>1, <1>5, <3>1
    <3> HIDE DEF p, j
    <3>6. v \div p = 128 * (v \div (128 * p)) + ((v \div p) % 128)
      BY <1>3, <3>2, NextGroup
    <3>7. f[k + 1] = v \div p
      BY <3>3, <3>4, <3>5, <3>6
    <3> QED BY <3>7 DEF p
  <2> HIDE DEF S
  <2>5. n \in S
    BY <1>2, <2>3, <2>4, SetInduction
  <2>6. f[n] = v \div 128 ^ (n - n)
    BY <1>2, <2>5 DEF S
  <2>7. 128 ^ (n - n) = 1
    BY <1>2, PowerAssumption
  <2>8. v \div 1 = v
    BY <1>3
  <2> QED BY <2>2, <2>6, <2>7, <2>8
<1>7. v % 2 ^ width = v
  <2> DEFINE d == 2 ^ width
  <2>1. d \in Nat /\ v < d
    BY <1>3, WidthAssumption
  <2> HIDE DEF d
  <2>2. v % d = v
    BY <1>3, <2>1
  <2> QED BY <2>2 DEF d
<1> QED BY <1>4, <1>6, <1>7 DEF s, e

-----------------------------------------------------------------------------
(* Tags, integers, strings and messages.                                    *)

\* What precedes bytes can be taken away.
LEMMA SamePrefix ==
    ASSUME NEW a \in Seq(Byte), NEW b \in Seq(Byte), NEW c \in Seq(Byte), a \o b = a \o c
    PROVE  b = c
<1>1. Drop(a \o b, Len(a)) = b /\ Drop(a \o c, Len(a)) = c
  BY Followed
<1> QED BY <1>1

\* Bytes are read as they are.
LEMMA ReadWhole ==
    ASSUME NEW a \in Seq(Byte), NEW t \in Seq(Byte)
    PROVE  Read(a \o t, Len(a)) = Ok(a, t)
<1> DEFINE s == a \o t
<1>1. /\ s \in Seq(Byte) /\ Len(s) = Len(a) + Len(t) /\ Len(a) \in Nat /\ Len(t) \in Nat
      /\ Drop(s, Len(a)) = t /\ SubSeq(s, 1, Len(a)) = a
  BY Followed
<1> HIDE DEF s
<1>2. ~(Len(s) < Len(a))
  BY <1>1
<1> QED BY <1>1, <1>2 DEF Read, s

\* A number of seven bits is a word.
LEMMA SmallWords == 0..127 \subseteq 0..2 ^ WordBits - 1
<1> DEFINE w == 2 ^ WordBits
<1>1. w \in Nat /\ 128 <= w
  BY WidthAssumption, PowerAssumption
<1> HIDE DEF w
<1>2. 0..127 \subseteq 0..w - 1
  BY <1>1
<1> QED BY <1>2 DEF w

\* A tag that is not 0,
LEMMA TagRoundTrip ==
    ASSUME NEW v \in 0..2 ^ WordBits - 1, v # 0, NEW t \in Seq(Byte)
    PROVE  Tag(EncodeVarint(v) \o t) =
            [ok |-> TRUE, eof |-> FALSE, tag |-> v \div 8, wire_type |-> v % 8, rest |-> t]
<1>1. VarintWord(EncodeVarint(v) \o t) = Ok(v, t)
  BY VarintRoundTrip DEF VarintWord
<1> DEFINE temp == VarintWord(EncodeVarint(v) \o t)
<1>2. temp.ok = TRUE /\ temp.value = v /\ temp.rest = t
  BY <1>1 DEF Ok
<1>3. Tag(EncodeVarint(v) \o t) =
        [ok |-> temp.ok /\ temp.value # 0,
         eof |-> (~temp.ok /\ temp.rest = <<>>) \/ (temp.ok /\ temp.value = 0),
         tag |-> temp.value \div 8, wire_type |-> temp.value % 8, rest |-> temp.rest]
  BY Zenon DEF Tag
<1> HIDE DEF temp
<1>4. (temp.ok /\ temp.value # 0) = TRUE
  BY <1>2
<1>5. ((~temp.ok /\ temp.rest = <<>>) \/ (temp.ok /\ temp.value = 0)) = FALSE
  BY <1>2
<1> QED BY <1>2, <1>3, <1>4, <1>5, Zenon

\* an integer of a word,
LEMMA UnsignedRoundTrip ==
    ASSUME NEW v \in 0..2 ^ WordBits - 1, NEW t \in Seq(Byte)
    PROVE  Unsigned(EncodeVarint(v) \o t) = Ok(v, t)
<1>1. VarintDouble(EncodeVarint(v) \o t) = Ok(v, t)
  BY VarintRoundTrip DEF VarintDouble
<1>2. ~(v >= 2 ^ WordBits)
  <2> DEFINE w == 2 ^ WordBits
  <2>1. w \in Nat /\ v \in 0..w - 1
    BY WidthAssumption
  <2> HIDE DEF w
  <2>2. ~(v >= w)
    BY <2>1
  <2> QED BY <2>2 DEF w
<1> QED BY <1>1, <1>2 DEF Unsigned, Ok

\* and a string, that is skipped or is the data of a message.
LEMMA StringRoundTrip ==
    ASSUME NEW a \in Seq(Byte), Len(a) \in 0..2 ^ WordBits - 1, NEW t \in Seq(Byte)
    PROVE  /\ SkipString(EncodeVarint(Len(a)) \o (a \o t)) = Ok(a, t)
           /\ Len(a) <= DataMax => Bytes(EncodeVarint(Len(a)) \o (a \o t)) = Ok(a, t)
<1>1. a \o t \in Seq(Byte) /\ Len(a) \in Nat
  BY Followed
<1>2. VarintWord(EncodeVarint(Len(a)) \o (a \o t)) = Ok(Len(a), a \o t)
  BY <1>1, VarintRoundTrip DEF VarintWord
<1>3. Read(a \o t, Len(a)) = Ok(a, t)
  BY ReadWhole
<1>4. Len(a) <= DataMax => ~(Len(a) > SizeMax) /\ ~(Len(a) > DataMax)
  BY <1>1, WidthAssumption
<1> DEFINE s == EncodeVarint(Len(a)) \o (a \o t)
           size == VarintWord(s)
<1>5. size.ok = TRUE /\ size.value = Len(a) /\ size.rest = a \o t
  BY <1>2 DEF Ok
<1>6. SkipString(s) = IF size.ok THEN Read(size.rest, size.value) ELSE size
  BY Zenon DEF SkipString
<1>7. Bytes(s) = IF ~size.ok \/ size.value > SizeMax \/ size.value > DataMax THEN Error(size.rest)
                 ELSE Read(size.rest, size.value)
  BY Zenon DEF Bytes
<1> HIDE DEF s, size
<1>8. SkipString(s) = Ok(a, t)
  BY <1>3, <1>5, <1>6
<1>9. Len(a) <= DataMax => Bytes(s) = Ok(a, t)
  BY <1>3, <1>4, <1>5, <1>7
<1> QED BY <1>8, <1>9 DEF s

\* The bytes of a message, and its entry in the list.
MessageBytes(m) ==
    EncodeVarint(8) \o (EncodeVarint(m.type) \o (EncodeVarint(18) \o (EncodeVarint(Len(m.data)) \o m.data)))

Entry(m) == EncodeVarint(10) \o (EncodeVarint(Len(MessageBytes(m))) \o MessageBytes(m))

\* Messages that fit.
Fits(m) == m \in SensorData /\ Len(m.data) <= DataMax /\ Len(MessageBytes(m)) <= SizeMax

\* They are bytes, one or more.
LEMMA MessageBytesType ==
    ASSUME NEW m \in SensorData, Len(m.data) <= DataMax
    PROVE  /\ MessageBytes(m) \in Seq(Byte)
           /\ EncodeVarint(Len(m.data)) \in Seq(Byte) /\ EncodeVarint(m.type) \in Seq(Byte)
           /\ EncodeVarint(8) \in Seq(Byte) /\ EncodeVarint(18) \in Seq(Byte) /\ m.data \in Seq(Byte)
           /\ Len(m.data) \in 0..2 ^ WordBits - 1 /\ m.type \in 0..2 ^ WordBits - 1
<1>1. m.type \in 0..2 ^ WordBits - 1 /\ m.data \in Seq(Byte)
  BY DEF SensorData
<1>2. Len(m.data) \in 0..2 ^ WordBits - 1
  BY <1>1, WidthAssumption, LenProperties
<1>3. \A v \in 0..2 ^ WordBits - 1 : EncodeVarint(v) \in Seq(Byte)
  BY EncodableValues, EncodeVarintType
<1>4. EncodeVarint(8) \in Seq(Byte) /\ EncodeVarint(18) \in Seq(Byte)
  <2>1. 8 \in 0..127 /\ 18 \in 0..127
    OBVIOUS
  <2> QED BY <1>3, <2>1, SmallWords
<1>5. EncodeVarint(Len(m.data)) \in Seq(Byte) /\ EncodeVarint(m.type) \in Seq(Byte)
  BY <1>1, <1>2, <1>3
<1>6. EncodeVarint(Len(m.data)) \o m.data \in Seq(Byte)
  BY <1>1, <1>5, Followed
<1>7. EncodeVarint(18) \o (EncodeVarint(Len(m.data)) \o m.data) \in Seq(Byte)
  BY <1>4, <1>6, Followed
<1>8. EncodeVarint(m.type) \o (EncodeVarint(18) \o (EncodeVarint(Len(m.data)) \o m.data)) \in Seq(Byte)
  BY <1>5, <1>7, Followed
<1>9. MessageBytes(m) \in Seq(Byte)
  BY <1>4, <1>8, Followed DEF MessageBytes
<1> QED BY <1>1, <1>2, <1>4, <1>5, <1>9

\* A message that was encoded is decoded again.
LEMMA MessageRoundTrip ==
    ASSUME NEW m, Fits(m)
    PROVE  DecodedMessage(MessageBytes(m)) = {m}
<1>1. m \in SensorData /\ Len(m.data) <= DataMax
  BY DEF Fits
<1> DEFINE data == EncodeVarint(Len(m.data)) \o m.data
           tagged == EncodeVarint(18) \o data
           typed == EncodeVarint(m.type) \o tagged
           d == m.data
           e == EncodeVarint(Len(m.data))
<1>2. /\ e \in Seq(Byte) /\ EncodeVarint(m.type) \in Seq(Byte) /\ EncodeVarint(18) \in Seq(Byte)
      /\ d \in Seq(Byte) /\ Len(d) \in 0..2 ^ WordBits - 1 /\ m.type \in 0..2 ^ WordBits - 1
  BY <1>1, MessageBytesType
<1>3. data \in Seq(Byte) /\ <<>> \in Seq(Byte) /\ data = e \o (d \o <<>>)
  BY <1>2, Followed, EmptySeq, ConcatEmptySeq
<1>4. tagged \in Seq(Byte)
  <2> HIDE DEF data
  <2> QED BY <1>2, <1>3, Followed
<1>5. typed \in Seq(Byte)
  <2> HIDE DEF tagged
  <2> QED BY <1>2, <1>4, Followed
<1>6. 8 \in 0..2 ^ WordBits - 1 /\ 18 \in 0..2 ^ WordBits - 1
  <2>1. 8 \in 0..127 /\ 18 \in 0..127
    OBVIOUS
  <2> QED BY <2>1, SmallWords
<1>7. Tag(MessageBytes(m)) = [ok |-> TRUE, eof |-> FALSE, tag |-> 1, wire_type |-> 0, rest |-> typed]
  <2>1. MessageBytes(m) = EncodeVarint(8) \o typed
    BY DEF MessageBytes
  <2> HIDE DEF typed
  <2>2. 8 # 0 /\ 8 \div 8 = 1 /\ 8 % 8 = 0
    OBVIOUS
  <2>3. Tag(EncodeVarint(8) \o typed) =
          [ok |-> TRUE, eof |-> FALSE, tag |-> 8 \div 8, wire_type |-> 8 % 8, rest |-> typed]
    BY <1>5, <1>6, <2>2, TagRoundTrip
  <2> QED BY <2>1, <2>2, <2>3
<1>8. Unsigned(typed) = Ok(m.type, tagged)
  <2> HIDE DEF tagged
  <2> QED BY <1>2, <1>4, UnsignedRoundTrip
<1>9. Tag(tagged) = [ok |-> TRUE, eof |-> FALSE, tag |-> 2, wire_type |-> 2, rest |-> data]
  <2> HIDE DEF data
  <2>1. 18 # 0 /\ 18 \div 8 = 2 /\ 18 % 8 = 2
    OBVIOUS
  <2>2. Tag(EncodeVarint(18) \o data) =
          [ok |-> TRUE, eof |-> FALSE, tag |-> 18 \div 8, wire_type |-> 18 % 8, rest |-> data]
    BY <1>3, <1>6, <2>1, TagRoundTrip
  <2> QED BY <2>1, <2>2
<1>10. Bytes(data) = Ok(d, <<>>)
  BY <1>1, <1>2, <1>3, StringRoundTrip
<1> HIDE DEF data, tagged, typed
<1>11. DecodedMessage(MessageBytes(m)) = {[type |-> m.type, data |-> d]}
  BY <1>7, <1>8, <1>9, <1>10 DEF DecodedMessage, Ok
<1>12. m = [type |-> m.type, data |-> d]
  BY <1>1 DEF SensorData
<1> QED BY <1>11, <1>12

\* Bytes after bytes, in any order of joining.
LEMMA Regrouped ==
    ASSUME NEW a \in Seq(Byte), NEW b \in Seq(Byte), NEW c \in Seq(Byte)
    PROVE  (a \o b) \o c = a \o (b \o c)
<1> DEFINE x == (a \o b) \o c
           y == a \o (b \o c)
<1>1. /\ a \o b \in Seq(Byte) /\ Len(a \o b) = Len(a) + Len(b)
      /\ \A i \in 1..Len(a) + Len(b) : (a \o b)[i] = IF i <= Len(a) THEN a[i] ELSE b[i - Len(a)]
  BY ConcatProperties
<1>2. /\ b \o c \in Seq(Byte) /\ Len(b \o c) = Len(b) + Len(c)
      /\ \A i \in 1..Len(b) + Len(c) : (b \o c)[i] = IF i <= Len(b) THEN b[i] ELSE c[i - Len(b)]
  BY ConcatProperties
<1>3. /\ x \in Seq(Byte) /\ Len(x) = Len(a \o b) + Len(c)
      /\ \A i \in 1..Len(a \o b) + Len(c) : x[i] = IF i <= Len(a \o b) THEN (a \o b)[i] ELSE c[i - Len(a \o b)]
  <2> DEFINE d == a \o b
  <2> HIDE DEF d
  <2>1. /\ d \o c \in Seq(Byte) /\ Len(d \o c) = Len(d) + Len(c)
        /\ \A i \in 1..Len(d) + Len(c) : (d \o c)[i] = IF i <= Len(d) THEN d[i] ELSE c[i - Len(d)]
    BY <1>1, ConcatProperties DEF d
  <2> QED BY <2>1 DEF d
<1>4. /\ y \in Seq(Byte) /\ Len(y) = Len(a) + Len(b \o c)
      /\ \A i \in 1..Len(a) + Len(b \o c) : y[i] = IF i <= Len(a) THEN a[i] ELSE (b \o c)[i - Len(a)]
  <2> DEFINE d == b \o c
  <2> HIDE DEF d
  <2>1. /\ a \o d \in Seq(Byte) /\ Len(a \o d) = Len(a) + Len(d)
        /\ \A i \in 1..Len(a) + Len(d) : (a \o d)[i] = IF i <= Len(a) THEN a[i] ELSE d[i - Len(a)]
    BY <1>2, ConcatProperties DEF d
  <2> QED BY <2>1 DEF d
<1>5. Len(a) \in Nat /\ Len(b) \in Nat /\ Len(c) \in Nat
  BY LenProperties
<1> DEFINE ab == a \o b
           bc == b \o c
<1> HIDE DEF x, y, ab, bc
<1>6. Len(x) = Len(y)
  BY <1>1, <1>2, <1>3, <1>4, <1>5 DEF ab, bc
<1>7. ASSUME NEW i \in 1..Len(x) PROVE x[i] = y[i]
  <2>1. i \in 1..Len(a) + Len(b) + Len(c) /\ Len(a) + Len(b) + Len(c) \in Nat
    BY <1>1, <1>3, <1>5
  <2>2. CASE i <= Len(a)
    BY <1>1, <1>2, <1>3, <1>4, <1>5, <2>1, <2>2
  <2>3. CASE Len(a) < i /\ i <= Len(a) + Len(b)
    <3>1. /\ i \in 1..Len(a) + Len(b) /\ i \in 1..Len(ab) + Len(c) /\ i <= Len(ab) /\ ~(i <= Len(a))
          /\ i \in 1..Len(a) + Len(bc) /\ i - Len(a) \in 1..Len(b) + Len(c) /\ i - Len(a) <= Len(b)
      BY <1>1, <1>2, <1>5, <2>1, <2>3 DEF ab, bc
    <3>2. x[i] = b[i - Len(a)]
      BY <1>1, <1>3, <3>1 DEF ab
    <3>3. y[i] = b[i - Len(a)]
      BY <1>2, <1>4, <3>1 DEF bc
    <3> QED BY <3>2, <3>3
  <2>4. CASE Len(a) + Len(b) < i
    <3>1. /\ i \in 1..Len(ab) + Len(c) /\ ~(i <= Len(ab)) /\ ~(i <= Len(a))
          /\ i \in 1..Len(a) + Len(bc) /\ i - Len(a) \in 1..Len(b) + Len(c) /\ ~(i - Len(a) <= Len(b))
          /\ i - Len(ab) = (i - Len(a)) - Len(b)
      BY <1>1, <1>2, <1>5, <2>1, <2>4 DEF ab, bc
    <3>2. x[i] = c[i - Len(ab)]
      BY <1>3, <3>1 DEF ab
    <3>3. y[i] = c[(i - Len(a)) - Len(b)]
      BY <1>2, <1>4, <3>1 DEF bc
    <3> QED BY <3>1, <3>2, <3>3
  <2> QED BY <1>5, <2>1, <2>2, <2>3, <2>4
<1>8. x = y
  BY <1>3, <1>4, <1>6, <1>7, SeqEqual
<1> QED BY <1>8 DEF x, y

\* What was written in full follows what was there.
LEMMA WrittenInFull ==
    ASSUME NEW s, NEW bytes, NEW max, s \in Streams(max), Write(s, bytes).ok
    PROVE  s.ok /\ Write(s, bytes).bytes = s.bytes \o bytes
<1>1. /\ s \in [bytes : Seq(Byte), max : {max}, ok : BOOLEAN]
  BY DEF Streams
<1>2. CASE ~s.ok \/ Len(s.bytes) + Len(bytes) > s.max
  <2>1. Write(s, bytes) = [s EXCEPT !.ok = FALSE]
    BY <1>2 DEF Write
  <2> QED BY <1>1, <2>1
<1>3. CASE ~(~s.ok \/ Len(s.bytes) + Len(bytes) > s.max)
  <2>1. Write(s, bytes) = [s EXCEPT !.bytes = s.bytes \o bytes]
    BY <1>3 DEF Write
  <2> QED BY <1>1, <1>3, <2>1
<1> QED BY <1>2, <1>3

\* A message that was written in full is its bytes.
LEMMA MessageWritten ==
    ASSUME NEW max \in Nat, NEW s \in Streams(max), NEW m \in SensorData, EncodeMessage(s, m).ok
    PROVE  s.ok /\ Len(m.data) <= DataMax /\ EncodeMessage(s, m).bytes = s.bytes \o MessageBytes(m)
<1>1. m.type \in 0..2 ^ WordBits - 1 /\ m.data \in Seq(Byte) /\ Len(m.data) \in Nat
  BY LenProperties DEF SensorData
<1>2. \A v \in 0..2 ^ WordBits - 1 : EncodeVarint(v) \in Seq(Byte)
  BY EncodableValues, EncodeVarintType
<1> DEFINE s1 == Write(s, EncodeVarint(8))
           s2 == Write(s1, EncodeVarint(m.type))
           s3 == Write(s2, EncodeVarint(18))
           s4 == Write(s3, EncodeVarint(Len(m.data)))
           s5 == Write(s4, m.data)
<1>3. EncodeMessage(s, m) = IF Len(m.data) > DataMax THEN [s3 EXCEPT !.ok = FALSE] ELSE s5
  <2>1. /\ SensorDataFields[1].ltype = "uvarint" /\ SensorDataFields[2].ltype = "bytes"
        /\ SensorDataFields[1].tag = 1 /\ SensorDataFields[2].tag = 2
        /\ WireType["uvarint"] = 0 /\ WireType["bytes"] = 2
    BY DEF SensorDataFields, WireType, PB_WT
  <2>2. 1 * 8 + 0 = 8 /\ 2 * 8 + 2 = 18
    OBVIOUS
  <2>3. \A t : EncodeTag(t, SensorDataFields[1]) = Write(t, EncodeVarint(8))
    BY <2>1, <2>2 DEF EncodeTag
  <2>4. \A t : EncodeTag(t, SensorDataFields[2]) = Write(t, EncodeVarint(18))
    BY <2>1, <2>2 DEF EncodeTag
  <2>5. EncodeField(s, SensorDataFields[1], m.type) = s2
    BY <2>1, <2>3 DEF EncodeField, EncUvarint
  <2>6. EncodeField(s2, SensorDataFields[2], m.data) = EncBytes(s3, m.data)
    <3>1. "bytes" # "uvarint"
      OBVIOUS
    <3> HIDE DEF s2
    <3> QED BY <2>1, <2>4, <3>1 DEF EncodeField
  <2>7. EncodeMessage(s, m) = EncBytes(s3, m.data)
    <3> HIDE DEF s2, s3
    <3> QED BY <2>5, <2>6 DEF EncodeMessage
  <2> QED BY <2>7, Zenon DEF EncBytes, EncodeString
<1>4. 8 \in 0..2 ^ WordBits - 1 /\ 18 \in 0..2 ^ WordBits - 1
  <2>1. 8 \in 0..127 /\ 18 \in 0..127
    OBVIOUS
  <2> QED BY <2>1, SmallWords
<1>5. s1 \in Streams(max)
  BY <1>2, <1>4, WriteType
<1>6. s2 \in Streams(max)
  <2> HIDE DEF s1
  <2> QED BY <1>1, <1>2, <1>5, WriteType
<1>7. s3 \in Streams(max)
  <2> HIDE DEF s2
  <2> QED BY <1>2, <1>4, <1>6, WriteType
<1>8. Len(m.data) <= DataMax
  <2> SUFFICES ASSUME Len(m.data) > DataMax PROVE FALSE
    BY <1>1, WidthAssumption
  <2>1. EncodeMessage(s, m) = [s3 EXCEPT !.ok = FALSE]
    BY <1>3
  <2>2. s3 \in [bytes : Seq(Byte), max : {max}, ok : BOOLEAN]
    BY <1>7 DEF Streams
  <2> HIDE DEF s3
  <2> QED BY <2>1, <2>2
<1>9. Len(m.data) \in 0..2 ^ WordBits - 1
  BY <1>1, <1>8, WidthAssumption
<1>10. s4 \in Streams(max)
  <2> HIDE DEF s3
  <2> QED BY <1>2, <1>7, <1>9, WriteType
<1>11. EncodeMessage(s, m) = s5
  BY <1>1, <1>3, <1>8, WidthAssumption
<1> DEFINE e1 == EncodeVarint(8)
           e2 == EncodeVarint(m.type)
           e3 == EncodeVarint(18)
           e4 == EncodeVarint(Len(m.data))
           e5 == m.data
<1>12. e1 \in Seq(Byte) /\ e2 \in Seq(Byte) /\ e3 \in Seq(Byte) /\ e4 \in Seq(Byte) /\ e5 \in Seq(Byte)
  BY <1>1, <1>2, <1>4, <1>9
<1>13. s4.ok /\ s5.bytes = s4.bytes \o e5
  <2> HIDE DEF s4
  <2> QED BY <1>10, <1>11, WrittenInFull
<1>14. s3.ok /\ s4.bytes = s3.bytes \o e4
  <2> HIDE DEF s3
  <2> QED BY <1>7, <1>13, WrittenInFull
<1>15. s2.ok /\ s3.bytes = s2.bytes \o e3
  <2> HIDE DEF s2
  <2> QED BY <1>6, <1>14, WrittenInFull
<1>16. s1.ok /\ s2.bytes = s1.bytes \o e2
  <2> HIDE DEF s1
  <2> QED BY <1>5, <1>15, WrittenInFull
<1>17. s.ok /\ s1.bytes = s.bytes \o e1
  BY <1>16, WrittenInFull
<1>18. s.bytes \in Seq(Byte)
  BY DEF Streams
<1>19. MessageBytes(m) = e1 \o (e2 \o (e3 \o (e4 \o e5)))
  BY DEF MessageBytes
<1> DEFINE b == s.bytes
<1>20. s5.bytes = (((((b \o e1) \o e2) \o e3) \o e4) \o e5)
  BY <1>13, <1>14, <1>15, <1>16, <1>17, Zenon
<1> HIDE DEF e1, e2, e3, e4, e5, b, s1, s2, s3, s4, s5
<1>21. (((((b \o e1) \o e2) \o e3) \o e4) \o e5) = b \o (e1 \o (e2 \o (e3 \o (e4 \o e5))))
  <2>0. b \in Seq(Byte)
    BY <1>18 DEF b
  <2>1. b \o e1 \in Seq(Byte)
    BY <1>12, <2>0, ConcatProperties
  <2>2. (b \o e1) \o e2 \in Seq(Byte)
    BY <1>12, <2>1, ConcatProperties
  <2>3. ((b \o e1) \o e2) \o e3 \in Seq(Byte)
    BY <1>12, <2>2, ConcatProperties
  <2>4. e4 \o e5 \in Seq(Byte)
    BY <1>12, ConcatProperties
  <2>5. e3 \o (e4 \o e5) \in Seq(Byte)
    BY <1>12, <2>4, ConcatProperties
  <2>6. e2 \o (e3 \o (e4 \o e5)) \in Seq(Byte)
    BY <1>12, <2>5, ConcatProperties
  <2>7. (((((b \o e1) \o e2) \o e3) \o e4) \o e5) = ((((b \o e1) \o e2) \o e3) \o (e4 \o e5))
    BY <1>12, <2>3, Regrouped
  <2>8. @ = ((b \o e1) \o e2) \o (e3 \o (e4 \o e5))
    BY <1>12, <2>2, <2>4, Regrouped
  <2>9. @ = (b \o e1) \o (e2 \o (e3 \o (e4 \o e5)))
    BY <1>12, <2>1, <2>5, Regrouped
  <2>10. @ = b \o (e1 \o (e2 \o (e3 \o (e4 \o e5))))
    BY <1>12, <2>0, <2>6, Regrouped
  <2> QED BY <2>7, <2>8, <2>9, <2>10
<1>22. EncodeMessage(s, m).bytes = s.bytes \o MessageBytes(m)
  BY <1>11, <1>19, <1>20, <1>21 DEF b
<1> QED BY <1>8, <1>17, <1>22

\* A message that was written into the list is its entry, and it fits.
LEMMA EntryWritten ==
    ASSUME NEW max \in Nat, NEW s \in Streams(max), NEW m \in SensorData,
           EncodeSubmessage(EncodeTag(s, ListField), m).ok
    PROVE  /\ s.ok /\ Fits(m) /\ Entry(m) \in Seq(Byte) /\ Len(Entry(m)) >= 1
           /\ EncodeSubmessage(EncodeTag(s, ListField), m).bytes = s.bytes \o Entry(m)
<1> DEFINE tagged == EncodeTag(s, ListField)
           sized == EncodeMessage(Sizing, m)
           size == Len(sized.bytes)
           t == Write(tagged, EncodeVarint(size))
           written == EncodeMessage(Stream(size), m)
           r == EncodeSubmessage(tagged, m)
<1>1. tagged = Write(s, EncodeVarint(10))
  <2>1. ListField.tag = 1 /\ ListField.ltype = "submessage" /\ WireType["submessage"] = 2
    BY DEF ListField, WireType, PB_WT
  <2>2. 1 * 8 + 2 = 10
    OBVIOUS
  <2> QED BY <2>1, <2>2 DEF EncodeTag
<1>2. tagged \in Streams(max)
  BY EncodeTagType
<1>3. sized \in Streams(SizeMax) /\ Sizing \in Streams(SizeMax) /\ SizeMax \in Nat
  <2>1. SizeMax \in Nat
    BY WidthAssumption
  <2>2. Sizing \in Streams(SizeMax)
    BY <2>1, StreamType DEF Sizing
  <2> QED BY <2>1, <2>2, EncodeMessageType
<1>4. size \in Nat /\ size <= SizeMax
  <2>1. sized.bytes \in Seq(Byte) /\ Len(sized.bytes) <= SizeMax
    <3> HIDE DEF sized
    <3> QED BY <1>3 DEF Streams
  <2> QED BY <2>1, LenProperties
<1>5. r = IF ~sized.ok \/ ~t.ok \/ Len(t.bytes) + size > t.max THEN [t EXCEPT !.ok = FALSE]
          ELSE [t EXCEPT !.bytes = t.bytes \o written.bytes, !.ok = written.ok]
  <2> HIDE DEF tagged
  <2> QED BY DEF EncodeSubmessage
<1> HIDE DEF size
<1>6. \A v \in 0..2 ^ WordBits - 1 : EncodeVarint(v) \in Seq(Byte)
  BY EncodableValues, EncodeVarintType
<1>7. size \in 0..2 ^ WordBits - 1 /\ 10 \in 0..2 ^ WordBits - 1
  <2>1. 10 \in 0..127
    OBVIOUS
  <2> QED BY <1>4, <2>1, SmallWords, WidthAssumption
<1>8. t \in Streams(max)
  <2> HIDE DEF tagged
  <2> QED BY <1>2, <1>6, <1>7, WriteType
<1>9. Stream(size) \in Streams(size)
  BY <1>4, StreamType
<1>10. written \in Streams(size)
  BY <1>4, <1>9, EncodeMessageType
<1>11. r.ok
  OBVIOUS
<1> HIDE DEF r
<1>12. /\ sized.ok /\ t.ok /\ written.ok
       /\ r.bytes = t.bytes \o written.bytes
  <2>1. t \in [bytes : Seq(Byte), max : {max}, ok : BOOLEAN]
    BY <1>8 DEF Streams
  <2> HIDE DEF t, sized, written
  <2>2. [t EXCEPT !.ok = FALSE].ok = FALSE
    BY <2>1
  <2>3. ~(~sized.ok \/ ~t.ok \/ Len(t.bytes) + size > t.max)
    BY <1>5, <1>11, <2>2, Zenon
  <2>4. r = [t EXCEPT !.bytes = t.bytes \o written.bytes, !.ok = written.ok]
    BY <1>5, <2>3, Zenon
  <2>5. r.ok = written.ok /\ r.bytes = t.bytes \o written.bytes
    BY <2>1, <2>4
  <2> QED BY <1>11, <2>3, <2>5
<1> DEFINE b == MessageBytes(m)
<1>13. /\ Len(m.data) <= DataMax /\ sized.bytes = b
  <2>1. Len(m.data) <= DataMax /\ sized.bytes = Sizing.bytes \o b
    BY <1>3, <1>12, MessageWritten
  <2>2. Sizing.bytes = <<>>
    BY DEF Sizing, Stream
  <2> HIDE DEF sized, b
  <2>3. b \in Seq(Byte)
    BY <2>1, MessageBytesType DEF b
  <2> QED BY <2>1, <2>2, <2>3, ConcatEmptySeq
<1>14. written.bytes = b
  <2>1. written.bytes = Stream(size).bytes \o b
    BY <1>4, <1>9, <1>12, MessageWritten
  <2>2. Stream(size).bytes = <<>>
    BY DEF Stream
  <2>3. b \in Seq(Byte)
    BY <1>13, MessageBytesType
  <2> HIDE DEF written, b
  <2> QED BY <2>1, <2>2, <2>3, ConcatEmptySeq
<1>15. size = Len(b)
  BY <1>13 DEF size
<1>16. tagged.ok /\ t.bytes = tagged.bytes \o EncodeVarint(size)
  <2> HIDE DEF tagged
  <2> QED BY <1>2, <1>12, WrittenInFull
<1>17. s.ok /\ tagged.bytes = s.bytes \o EncodeVarint(10)
  BY <1>1, <1>16, WrittenInFull
<1> DEFINE c == s.bytes
           e1 == EncodeVarint(10)
           e2 == EncodeVarint(size)
<1>18. r.bytes = ((c \o e1) \o e2) \o b
  BY <1>12, <1>14, <1>16, <1>17, Zenon
<1>19. Entry(m) = e1 \o (e2 \o b)
  BY <1>15 DEF Entry
<1>20. c \in Seq(Byte) /\ e1 \in Seq(Byte) /\ e2 \in Seq(Byte) /\ b \in Seq(Byte)
  BY <1>6, <1>7, <1>13, MessageBytesType DEF Streams
<1>21. Len(e1) >= 1
  <2>1. PICK n \in 1..Groups(WordBits) : Len(e1) = n
    BY <1>7, VarintBytes
  <2> QED BY <2>1, GroupCounts
<1>22. Fits(m)
  BY <1>4, <1>13, <1>15 DEF Fits
<1> HIDE DEF c, e1, e2, b, tagged, sized, t, written
<1>23. ((c \o e1) \o e2) \o b = c \o (e1 \o (e2 \o b))
  <2>1. c \o e1 \in Seq(Byte) /\ e2 \o b \in Seq(Byte)
    BY <1>20, ConcatProperties
  <2>2. ((c \o e1) \o e2) \o b = (c \o e1) \o (e2 \o b)
    <3> DEFINE d == c \o e1
    <3> HIDE DEF d
    <3>1. d \in Seq(Byte)
      BY <2>1 DEF d
    <3>2. (d \o e2) \o b = d \o (e2 \o b)
      BY <1>20, <3>1, Regrouped
    <3> QED BY <3>2 DEF d
  <2>3. (c \o e1) \o (e2 \o b) = c \o (e1 \o (e2 \o b))
    <3> DEFINE d == e2 \o b
    <3> HIDE DEF d
    <3>1. d \in Seq(Byte)
      BY <2>1 DEF d
    <3>2. (c \o e1) \o d = c \o (e1 \o d)
      BY <1>20, <3>1, Regrouped
    <3> QED BY <3>2 DEF d
  <2> QED BY <2>2, <2>3
<1>24. e1 \o (e2 \o b) \in Seq(Byte) /\ Len(e1 \o (e2 \o b)) >= 1
  <2>1. e2 \o b \in Seq(Byte) /\ Len(e2 \o b) \in Nat
    BY <1>20, ConcatProperties, LenProperties
  <2>2. e1 \o (e2 \o b) \in Seq(Byte) /\ Len(e1 \o (e2 \o b)) = Len(e1) + Len(e2 \o b)
    BY <1>20, <2>1, ConcatProperties
  <2>3. Len(e1) \in Nat
    BY <1>20, LenProperties
  <2> QED BY <1>21, <2>1, <2>2, <2>3
<1>25. r.bytes = s.bytes \o Entry(m)
  BY <1>18, <1>19, <1>23 DEF c
<1>26. Entry(m) \in Seq(Byte) /\ Len(Entry(m)) >= 1
  BY <1>19, <1>24
<1> QED BY <1>17, <1>22, <1>25, <1>26 DEF r, tagged

-----------------------------------------------------------------------------
(* A list that was written is read again.                                   *)

\* A round of a decoder of the list.
NextRound(before) ==
    LET tag  == Tag(before.rest)
        body == SkipString(tag.rest)
    IN  IF tag.eof THEN before
        ELSE IF ~tag.ok \/ tag.tag # 1 \/ tag.wire_type # PB_WT.string \/ ~body.ok
             THEN [rest |-> <<>>, list |-> {}]
        ELSE [rest |-> body.rest,
              list |-> {Append(l, m) : l \in before.list, m \in DecodedMessage(body.value)}]

\* The next entry is decoded, and is gone.
LEMMA NextEntry ==
    ASSUME NEW one, Fits(one), NEW r \in Seq(Byte), NEW sofar
    PROVE  NextRound([rest |-> Entry(one) \o r, list |-> {sofar}]) = [rest |-> r, list |-> {Append(sofar, one)}]
<1> DEFINE e1 == EncodeVarint(10)
           b == MessageBytes(one)
           e2 == EncodeVarint(Len(b))
           before == [rest |-> Entry(one) \o r, list |-> {sofar}]
           tag == Tag(before.rest)
           body == SkipString(tag.rest)
<1>1. one \in SensorData /\ Len(one.data) <= DataMax /\ Len(b) <= SizeMax
  BY DEF Fits
<1>2. b \in Seq(Byte) /\ Len(b) \in Nat
  BY <1>1, MessageBytesType, LenProperties
<1>3. Len(b) \in 0..2 ^ WordBits - 1 /\ 10 \in 0..2 ^ WordBits - 1
  <2>1. 10 \in 0..127
    OBVIOUS
  <2> DEFINE n == Len(b)
             w == 2 ^ WordBits
  <2>2. n \in Nat /\ w \in Nat /\ SizeMax \in Nat /\ n <= SizeMax /\ SizeMax < w
    BY <1>1, <1>2, WidthAssumption
  <2> HIDE DEF n, w
  <2>3. n \in 0..w - 1
    BY <2>2
  <2> QED BY <2>1, <2>3, SmallWords DEF n, w
<1>4. e1 \in Seq(Byte) /\ e2 \in Seq(Byte)
  <2> HIDE DEF b
  <2> QED BY <1>3, EncodableValues, EncodeVarintType
<1>5. Entry(one) = e1 \o (e2 \o b)
  BY DEF Entry
<1>6. before.rest = Entry(one) \o r /\ before.list = {sofar}
  OBVIOUS
<1>7. tag = [ok |-> TRUE, eof |-> FALSE, tag |-> 1, wire_type |-> 2, rest |-> e2 \o (b \o r)]
  <2> DEFINE t == e2 \o (b \o r)
  <2> HIDE DEF b, e2, before
  <2>1. b \o r \in Seq(Byte) /\ e2 \o b \in Seq(Byte)
    BY <1>2, <1>4, ConcatProperties
  <2>2. t \in Seq(Byte)
    BY <1>4, <2>1, ConcatProperties
  <2>3. (e2 \o b) \o r = t
    BY <1>2, <1>4, Regrouped
  <2>4. (e1 \o (e2 \o b)) \o r = e1 \o ((e2 \o b) \o r)
    <3> DEFINE d == e2 \o b
    <3> HIDE DEF d, e1
    <3>1. d \in Seq(Byte)
      BY <2>1 DEF d
    <3>2. (e1 \o d) \o r = e1 \o (d \o r)
      BY <1>4, <3>1, Regrouped
    <3> QED BY <3>2 DEF d
  <2>5. before.rest = e1 \o t
    BY <1>5, <1>6, <2>3, <2>4
  <2>6. 10 # 0 /\ 10 \div 8 = 1 /\ 10 % 8 = 2
    OBVIOUS
  <2> HIDE DEF t
  <2>7. Tag(EncodeVarint(10) \o t) =
          [ok |-> TRUE, eof |-> FALSE, tag |-> 10 \div 8, wire_type |-> 10 % 8, rest |-> t]
    BY <1>3, <2>2, <2>6, TagRoundTrip
  <2> QED BY <2>5, <2>6, <2>7 DEF t
<1>8. body = Ok(b, r)
  <2>1. tag.rest = e2 \o (b \o r)
    <3> HIDE DEF tag
    <3> QED BY <1>7
  <2> HIDE DEF tag, b
  <2>2. SkipString(e2 \o (b \o r)) = Ok(b, r)
    BY <1>2, <1>3, StringRoundTrip
  <2> QED BY <2>1, <2>2
<1>9. DecodedMessage(b) = {one}
  BY MessageRoundTrip
<1> DEFINE lists == {Append(l, m) : l \in before.list, m \in DecodedMessage(body.value)}
<1>10. NextRound(before) =
        IF tag.eof THEN before
        ELSE IF ~tag.ok \/ tag.tag # 1 \/ tag.wire_type # PB_WT.string \/ ~body.ok
             THEN [rest |-> <<>>, list |-> {}]
        ELSE [rest |-> body.rest, list |-> lists]
  BY DEF NextRound
<1> HIDE DEF tag, body, before, b
<1>11. ~tag.eof /\ tag.ok /\ tag.tag = 1 /\ tag.wire_type = PB_WT.string
  BY <1>7 DEF PB_WT
<1>12. body.ok /\ body.rest = r /\ DecodedMessage(body.value) = {one}
  BY <1>8, <1>9 DEF Ok
<1>13. lists = {Append(sofar, one)}
  BY <1>6, <1>12
<1> HIDE DEF lists
<1>14. NextRound(before) = [rest |-> body.rest, list |-> lists]
  BY <1>10, <1>11, <1>12, Zenon
<1>15. NextRound(before) = [rest |-> r, list |-> {Append(sofar, one)}]
  BY <1>12, <1>13, <1>14
<1> QED BY <1>15 DEF before

\* Nothing is left to decode.
LEMMA NoEntry ==
    ASSUME NEW list
    PROVE  NextRound([rest |-> <<>>, list |-> list]) = [rest |-> <<>>, list |-> list]
<1> DEFINE before == [rest |-> <<>>, list |-> list]
<1>1. Tag(<<>>).eof
  <2>1. <<>> \in Seq(Byte) /\ Len(<<>>) = 0
    BY EmptySeq
  <2>2. VarintLength(<<>>) = 0
    <3>1. VarintLength(<<>>) \in 0..Len(<<>>)
      BY <2>1, VarintInStream
    <3> QED BY <2>1, <3>1
  <2> DEFINE w == Varint(<<>>, WordBits)
             g == Min({Groups(WordBits), Len(<<>>)})
  <2>3. w = Error(Drop(<<>>, g))
    <3>1. VarintLength(<<>>) \notin 1..Groups(WordBits)
      BY <2>2, GroupCounts
    <3> QED BY <3>1 DEF Varint
  <2>4. w.rest \in Seq(Byte) /\ Len(w.rest) <= Len(<<>>) /\ ~w.ok
    <3>1. w.rest \in Seq(Byte) /\ Len(w.rest) <= Len(<<>>)
      BY <2>1, VarintType
    <3> HIDE DEF w
    <3> QED BY <2>3, <3>1 DEF Error
  <2> HIDE DEF w
  <2>5. w.rest = <<>>
    <3>1. w.rest # <<>> => Len(w.rest) \in Nat \ {0}
      BY <2>4, EmptySeq
    <3> QED BY <2>1, <2>4, <3>1
  <2> QED BY <2>4, <2>5 DEF Tag, VarintWord, w
<1>2. before.rest = <<>>
  OBVIOUS
<1> HIDE DEF before
<1>3. NextRound(before) = before
  BY <1>1, <1>2 DEF NextRound
<1> QED BY <1>3 DEF before

\* The rounds of the decoder, one after another.
LEMMA DecodedListSteps ==
    ASSUME NEW bytes \in Seq(Byte), NEW f,
           f[0] = [rest |-> bytes, list |-> {<<>>}], f = [n \in 0..Len(bytes) |-> f[n]],
           \A n \in 1..Len(bytes) : f[n] = NextRound(f[n - 1])
    PROVE  DecodedList(bytes) = f[Len(bytes)].list
<1> DEFINE N == Len(bytes)
           First == [rest |-> bytes, list |-> {<<>>}]
           Defines(g) == g = [n \in 0..N |-> IF n = 0 THEN First ELSE NextRound(g[n - 1])]
           Round == CHOOSE g : Defines(g)
<1>1. N \in Nat
  BY LenProperties
<1>2. DecodedList(bytes) = Round[N].list
  BY DEF DecodedList, NextRound
<1> HIDE DEF N, First
<1>3. Defines(f)
  <2>1. \A n \in 0..N : f[n] = IF n = 0 THEN First ELSE NextRound(f[n - 1])
    <3> SUFFICES ASSUME NEW n \in 0..N PROVE f[n] = IF n = 0 THEN First ELSE NextRound(f[n - 1])
      OBVIOUS
    <3>1. f[0] = First
      BY DEF First
    <3>2. n # 0 => n \in 1..Len(bytes)
      BY <1>1 DEF N
    <3>3. n # 0 => f[n] = NextRound(f[n - 1])
      BY <3>2
    <3> QED BY <3>1, <3>3
  <2> QED BY <2>1 DEF N
<1>4. Defines(Round)
  <2> HIDE DEF Defines
  <2> QED BY <1>3
<1>5. \A n \in 0..N : Round[n] = IF n = 0 THEN First ELSE NextRound(Round[n - 1])
  <2> HIDE DEF Round
  <2> QED BY <1>4, Zenon
<1> HIDE DEF Round, Defines
<1> DEFINE S == {n \in Nat : n <= N => Round[n] = f[n]}
<1>6. 0 \in S
  <2>1. Round[0] = First
    BY <1>1, <1>5
  <2>2. f[0] = First
    BY DEF First
  <2> QED BY <2>1, <2>2
<1>7. ASSUME NEW n \in Nat, n \in S PROVE n + 1 \in S
  <2> SUFFICES ASSUME n + 1 <= N PROVE Round[n + 1] = f[n + 1]
    OBVIOUS
  <2>1. n + 1 \in 0..N /\ n + 1 \in 1..N /\ n + 1 # 0 /\ (n + 1) - 1 = n /\ n <= N
    BY <1>1
  <2>2. Round[n] = f[n]
    BY <1>7, <2>1
  <2>3. Round[n + 1] = NextRound(Round[n])
    BY <1>5, <2>1
  <2>4. f[n + 1] = NextRound(f[n])
    BY <2>1 DEF N
  <2> QED BY <2>2, <2>3, <2>4
<1> HIDE DEF S
<1>8. N \in S
  BY <1>1, <1>6, <1>7, SetInduction
<1>9. Round[N] = f[N]
  BY <1>1, <1>8 DEF S
<1> QED BY <1>2, <1>9 DEF N

\* A list that was encoded in full is decoded again: the same messages, in their order.
LEMMA ListRoundTrip ==
    ASSUME NEW max \in Nat, NEW messages \in Seq(SensorData), EncodeList(Stream(max), messages).ok
    PROVE  DecodedList(EncodeList(Stream(max), messages).bytes) = {messages}
<1> DEFINE L == Len(messages)
           bytes == EncodeList(Stream(max), messages).bytes
           N == Len(bytes)
<1>1. L \in Nat /\ \A n \in 1..L : messages[n] \in SensorData
  BY LenProperties, ElementOfSeq
<1>2. Stream(max) \in Streams(max) /\ Stream(max).bytes = <<>>
  BY StreamType DEF Stream
<1>3. PICK E \in [0..L -> Streams(max)] :
        /\ E[0] = Stream(max)
        /\ \A n \in 1..L : E[n] = EncodeSubmessage(EncodeTag(E[n - 1], ListField), messages[n])
        /\ EncodeList(Stream(max), messages) = E[L]
  BY <1>2, EncodeListSteps
<1> HIDE DEF L
<1>4. \A n \in 0..L : E[n].bytes \in Seq(Byte) /\ Len(E[n].bytes) \in Nat
  <2>1. \A n \in 0..L : E[n] \in Streams(max)
    BY <1>3
  <2>2. \A n \in 0..L : E[n].bytes \in Seq(Byte)
    BY <2>1 DEF Streams
  <2> QED BY <2>2, LenProperties
<1>5. bytes = E[L].bytes /\ E[L].ok
  BY <1>3
<1> HIDE DEF bytes
<1>6. ASSUME NEW n \in 1..L, E[n].ok
      PROVE  /\ E[n - 1].ok /\ Fits(messages[n]) /\ Entry(messages[n]) \in Seq(Byte)
             /\ Len(Entry(messages[n])) >= 1 /\ E[n].bytes = E[n - 1].bytes \o Entry(messages[n])
  <2>1. n - 1 \in 0..L /\ messages[n] \in SensorData
    BY <1>1
  <2>2. E[n - 1] \in Streams(max)
    BY <1>3, <2>1
  <2>3. E[n] = EncodeSubmessage(EncodeTag(E[n - 1], ListField), messages[n])
    BY <1>3
  <2> DEFINE s == E[n - 1]
             m == messages[n]
  <2> HIDE DEF s, m
  <2>4. s \in Streams(max) /\ m \in SensorData /\ EncodeSubmessage(EncodeTag(s, ListField), m).ok
    BY <1>6, <2>1, <2>2, <2>3, Zenon DEF s, m
  <2>5. /\ s.ok /\ Fits(m) /\ Entry(m) \in Seq(Byte) /\ Len(Entry(m)) >= 1
        /\ EncodeSubmessage(EncodeTag(s, ListField), m).bytes = s.bytes \o Entry(m)
    BY <2>4, EntryWritten, Zenon
  <2> QED BY <2>3, <2>5, Zenon DEF s, m
  \* What is left after n messages.
<1> DEFINE R(n) == Drop(bytes, Len(E[n].bytes))
           Before(n) == E[n].ok /\ R(n) \in Seq(Byte) /\ bytes = E[n].bytes \o R(n)
           S == {k \in Nat : k <= L => Before(L - k)}
<1>7. 0 \in S
  <2>1. L - 0 = L /\ L \in 0..L
    BY <1>1
  <2>2. bytes \in Seq(Byte) /\ <<>> \in Seq(Byte) /\ bytes = E[L].bytes \o <<>>
    BY <1>4, <1>5, <2>1, EmptySeq, ConcatEmptySeq
  <2>3. R(L) = <<>>
    <3> DEFINE a == E[L].bytes
    <3>1. a \in Seq(Byte) /\ bytes = a \o <<>>
      BY <1>4, <2>1, <2>2
    <3> HIDE DEF a
    <3>2. Drop(a \o <<>>, Len(a)) = <<>>
      BY <2>2, <3>1, Followed
    <3> QED BY <3>1, <3>2 DEF a
  <2> QED BY <1>5, <2>1, <2>2, <2>3
<1>8. ASSUME NEW k \in Nat, k \in S PROVE k + 1 \in S
  <2> HIDE DEF Before
  <2> SUFFICES ASSUME k + 1 <= L PROVE Before(L - (k + 1))
    OBVIOUS
  <2> DEFINE n == L - k
  <2>1. n \in 1..L /\ n \in 0..L /\ n - 1 \in 0..L /\ n - 1 = L - (k + 1)
    BY <1>1
  <2>2. Before(n)
    <3>1. k <= L
      BY <1>1
    <3> QED BY <1>8, <3>1
  <2> HIDE DEF n
  <2> DEFINE a == E[n - 1].bytes
             e == Entry(messages[n])
             r == R(n)
  <2>3. E[n - 1].ok /\ a \in Seq(Byte) /\ e \in Seq(Byte) /\ r \in Seq(Byte) /\ bytes = (a \o e) \o r
    BY <1>4, <1>6, <2>1, <2>2 DEF Before
  <2> HIDE DEF a, e, r
  <2>4. bytes = a \o (e \o r) /\ e \o r \in Seq(Byte)
    BY <2>3, Regrouped, ConcatProperties
  <2>5. Drop(bytes, Len(a)) = e \o r
    <3> DEFINE b == e \o r
    <3>1. b \in Seq(Byte) /\ bytes = a \o b
      BY <2>4
    <3> HIDE DEF b
    <3>2. Drop(a \o b, Len(a)) = b
      BY <2>3, <3>1, Followed
    <3> QED BY <3>1, <3>2 DEF b
  <2>6. R(n - 1) = e \o r
    BY <2>5 DEF a
  <2>7. Before(n - 1)
    BY <2>3, <2>4, <2>6 DEF a, Before
  <2> QED BY <2>1, <2>7
<1> HIDE DEF S
<1>9. \A n \in 0..L : Before(n)
  <2>1. \A k \in Nat : k \in S
    BY <1>7, <1>8, SetInduction
  <2> SUFFICES ASSUME NEW n \in 0..L PROVE Before(n)
    OBVIOUS
  <2>2. L - n \in Nat /\ L - n <= L /\ L - (L - n) = n
    BY <1>1
  <2>3. L - n \in S
    BY <2>1, <2>2
  <2>4. Before(L - (L - n))
    BY <2>2, <2>3 DEF S
  <2> HIDE DEF Before
  <2> QED BY <2>2, <2>4
<1>10. ASSUME NEW n \in 1..L
       PROVE  Fits(messages[n]) /\ R(n - 1) = Entry(messages[n]) \o R(n) /\ R(n) \in Seq(Byte)
  <2>1. n \in 0..L /\ n - 1 \in 0..L
    BY <1>1
  <2> DEFINE a == E[n - 1].bytes
             e == Entry(messages[n])
             r == R(n)
             q == R(n - 1)
  <2>2. /\ a \in Seq(Byte) /\ e \in Seq(Byte) /\ r \in Seq(Byte) /\ q \in Seq(Byte)
        /\ bytes = (a \o e) \o r /\ bytes = a \o q /\ Fits(messages[n])
    BY <1>4, <1>6, <1>9, <2>1
  <2> HIDE DEF a, e, r, q
  <2>3. a \o q = a \o (e \o r) /\ e \o r \in Seq(Byte)
    BY <2>2, Regrouped, ConcatProperties
  <2>4. q = e \o r
    <3> DEFINE b == e \o r
    <3> HIDE DEF b
    <3>1. a \o q = a \o b /\ b \in Seq(Byte)
      BY <2>3 DEF b
    <3>2. q = b
      BY <2>2, <3>1, SamePrefix
    <3> QED BY <3>2 DEF b
  <2> QED BY <2>2, <2>4 DEF e, r, q
<1>11. R(0) = bytes /\ R(L) = <<>> /\ bytes \in Seq(Byte) /\ N \in Nat
  <2>1. 0 \in 0..L /\ L \in 0..L
    BY <1>1
  <2>2. bytes \in Seq(Byte)
    BY <1>4, <1>5, <2>1
  <2>3. <<>> \o R(0) = R(0)
    <3>1. R(0) \in Seq(Byte)
      BY <1>9, <2>1
    <3> HIDE DEF R
    <3> QED BY <3>1, ConcatEmptySeq
  <2>4. bytes = <<>> \o R(0)
    BY <1>2, <1>3, <1>9, <2>1
  <2>5. bytes \o R(L) = bytes /\ R(L) \in Seq(Byte)
    BY <1>5, <1>9, <2>1
  <2>6. R(L) = <<>>
    <3> HIDE DEF R
    <3> QED BY <2>2, <2>5, ConcatEqualIffEmpty
  <2>7. R(0) = bytes
    BY <2>3, <2>4
  <2> QED BY <2>2, <2>6, <2>7, LenProperties
<1>12. L <= N
  <2> DEFINE T == {n \in Nat : n <= L => Len(E[n].bytes) >= n}
  <2>1. 0 \in T
    BY <1>1, <1>4
  <2>2. ASSUME NEW n \in Nat, n \in T PROVE n + 1 \in T
    <3> SUFFICES ASSUME n + 1 <= L PROVE Len(E[n + 1].bytes) >= n + 1
      OBVIOUS
    <3>1. n + 1 \in 1..L /\ n + 1 \in 0..L /\ n \in 0..L /\ (n + 1) - 1 = n
      BY <1>1
    <3> DEFINE a == E[n].bytes
               e == Entry(messages[n + 1])
    <3>2. /\ a \in Seq(Byte) /\ e \in Seq(Byte) /\ Len(e) >= 1 /\ Len(a) >= n
          /\ E[n + 1].bytes = a \o e
      <4>1. E[n + 1].ok /\ a \in Seq(Byte)
        BY <1>4, <1>9, <3>1 DEF Before
      <4>2. e \in Seq(Byte) /\ Len(e) >= 1 /\ E[n + 1].bytes = a \o e
        BY <1>6, <3>1, <4>1
      <4>3. Len(a) >= n
        BY <1>1, <2>2, <3>1
      <4> QED BY <4>1, <4>2, <4>3
    <3> HIDE DEF a, e
    <3>3. Len(a \o e) = Len(a) + Len(e) /\ Len(a) \in Nat /\ Len(e) \in Nat
      BY <3>2, ConcatProperties, LenProperties
    <3> QED BY <3>2, <3>3
  <2> HIDE DEF T
  <2>3. L \in T
    BY <1>1, <2>1, <2>2, SetInduction
  <2> QED BY <1>1, <1>5, <2>3 DEF T
<1> HIDE DEF R, Before
  \* The rounds of the decoder.
<1> DEFINE f == [n \in 0..N |-> IF n <= L THEN [rest |-> R(n), list |-> {SubSeq(messages, 1, n)}]
                                ELSE [rest |-> <<>>, list |-> {messages}]]
<1> HIDE DEF N
<1>13. f[0] = [rest |-> bytes, list |-> {<<>>}]
  <2>1. 0 \in 0..N /\ 0 <= L
    BY <1>1, <1>11
  <2>2. SubSeq(messages, 1, 0) = <<>>
    BY SubSeqEmpty
  <2> QED BY <1>11, <2>1, <2>2
<1>14. SubSeq(messages, 1, L) = messages
  BY SubSeqFull DEF L
<1>15. ASSUME NEW n \in 1..N PROVE f[n] = NextRound(f[n - 1])
  <2>1. n \in 0..N /\ n - 1 \in 0..N
    BY <1>11
  <2>2. CASE n <= L
    <3>1. n \in 1..L /\ n - 1 <= L
      BY <1>1, <1>11, <2>2
    <3> DEFINE before == SubSeq(messages, 1, n - 1)
    <3>2. Append(before, messages[n]) = SubSeq(messages, 1, n)
      <4>1. SubSeq(messages, 1, n) = before \o <<messages[n]>>
        <5>1. 1 \in 1..Len(messages) /\ n \in 1..Len(messages)
          BY <1>1, <3>1 DEF L
        <5> QED BY <5>1, SubSeqRecursiveSecond
      <4>2. before \in Seq(SensorData) /\ messages[n] \in SensorData
        <5>1. \A i \in 1..n - 1 : messages[i] \in SensorData
          BY <1>1, <3>1
        <5>2. 1 \in Int /\ n - 1 \in Int
          BY <3>1
        <5> QED BY <1>1, <3>1, <5>1, <5>2, SubSeqProperties
      <4> HIDE DEF before
      <4>3. Append(before, messages[n]) = before \o <<messages[n]>>
        BY <4>2, AppendIsConcat
      <4> QED BY <4>1, <4>3
    <3>3. f[n - 1] = [rest |-> Entry(messages[n]) \o R(n), list |-> {before}]
      BY <1>10, <2>1, <3>1
    <3>4. f[n] = [rest |-> R(n), list |-> {Append(before, messages[n])}]
      BY <2>1, <2>2, <3>2
    <3> DEFINE one == messages[n]
               r == R(n)
    <3>5. Fits(one) /\ r \in Seq(Byte)
      BY <1>10, <3>1
    <3>6. f[n - 1] = [rest |-> Entry(one) \o r, list |-> {before}]
      BY <3>3
    <3> HIDE DEF f, before, one, r
    <3>7. NextRound(f[n - 1]) = [rest |-> r, list |-> {Append(before, one)}]
      BY <3>5, <3>6, NextEntry
    <3> QED BY <3>4, <3>7 DEF one, r
  <2>3. CASE ~(n <= L)
    <3>1. f[n] = [rest |-> <<>>, list |-> {messages}]
      BY <2>1, <2>3
    <3>2. n - 1 = L \/ ~(n - 1 <= L)
      BY <1>1, <1>11, <2>3
    <3>3. f[n - 1] = [rest |-> <<>>, list |-> {messages}]
      <4>1. CASE n - 1 = L
        <5>1. L <= L
          BY <1>1
        <5> QED BY <1>11, <1>14, <2>1, <4>1, <5>1
      <4>2. CASE ~(n - 1 <= L)
        BY <2>1, <4>2
      <4> QED BY <3>2, <4>1, <4>2
    <3> HIDE DEF f
    <3> QED BY <3>1, <3>3, NoEntry
  <2> QED BY <2>2, <2>3
<1>16. f[N].list = {messages}
  <2>1. N \in 0..N
    BY <1>11
  <2>2. CASE N <= L
    <3>1. N = L
      BY <1>1, <1>11, <1>12, <2>2
    <3> QED BY <1>14, <2>1, <2>2, <3>1
  <2>3. CASE ~(N <= L)
    BY <2>1, <2>3
  <2> QED BY <2>2, <2>3
<1>17. f = [n \in 0..N |-> f[n]]
  OBVIOUS
<1> HIDE DEF f
<1>18. DecodedList(bytes) = f[N].list
  BY <1>11, <1>13, <1>15, <1>17, DecodedListSteps DEF N
<1> QED BY <1>16, <1>18 DEF bytes

\* Four bytes that are 0 are a list of no message.
LEMMA ZerosRoundTrip == DecodedList(<<0, 0, 0, 0>>) = {<<>>}
<1> DEFINE b == <<0, 0, 0, 0>>
           one == [rest |-> b, list |-> {<<>>}]
           f == [n \in 0..Len(b) |-> one]
<1>1. b \in Seq(Byte) /\ Len(b) = 4 /\ \A i \in 1..4 : b[i] = 0
  BY DEF Byte
<1> HIDE DEF b
<1>2. VarintLength(b) = 1
  <2>1. 1 \in 1..Len(b) /\ ~More(b[1]) /\ \A i \in 1..1 - 1 : More(b[i])
    BY <1>1 DEF More
  <2> QED BY <1>1, <2>1, VarintEnds
<1>3. VarintValue(b, 1) = 0
  <2>1. 1 \in 0..Len(b)
    BY <1>1
  <2>2. PICK g \in [0..1 -> Nat] :
          /\ g[0] = 0 /\ \A i \in 1..1 : g[i] = 128 * g[i - 1] + (b[1 + 1 - i] % 128)
          /\ VarintValue(b, 1) = g[1]
    BY <1>1, <2>1, VarintValueSteps
  <2>3. g[1] = 128 * g[1 - 1] + (b[1 + 1 - 1] % 128)
    BY <2>2
  <2> QED BY <1>1, <2>2, <2>3
<1>4. Tag(b).eof
  <2> DEFINE w == Varint(b, WordBits)
  <2>1. w = Ok(VarintValue(b, 1) % 2 ^ WordBits, Drop(b, 1))
    <3>1. 1 \in 1..Groups(WordBits)
      BY GroupCounts
    <3> QED BY <1>2, <3>1 DEF Varint
  <2>2. VarintValue(b, 1) % 2 ^ WordBits = 0
    <3> DEFINE d == 2 ^ WordBits
    <3>1. d \in Nat \ {0}
      BY WidthAssumption
    <3> HIDE DEF d
    <3>2. 0 % d = 0
      BY <3>1
    <3> QED BY <1>3, <3>2 DEF d
  <2>3. w.ok /\ w.value = 0
    BY <2>1, <2>2 DEF Ok
  <2> HIDE DEF w
  <2> QED BY <2>3 DEF Tag, VarintWord, w
<1>5. NextRound(one) = one
  <2>1. one.rest = b
    OBVIOUS
  <2> HIDE DEF one
  <2> QED BY <1>4, <2>1 DEF NextRound
<1>6. f[0] = one /\ f[Len(b)].list = {<<>>} /\ f = [n \in 0..Len(b) |-> f[n]]
  BY <1>1
<1>7. \A n \in 1..Len(b) : f[n] = NextRound(f[n - 1])
  <2> SUFFICES ASSUME NEW n \in 1..Len(b) PROVE f[n] = NextRound(f[n - 1])
    OBVIOUS
  <2>1. n \in 0..Len(b) /\ n - 1 \in 0..Len(b)
    BY <1>1
  <2>2. f[n] = one /\ f[n - 1] = one
    BY <2>1
  <2> HIDE DEF f, one
  <2> QED BY <1>5, <2>2
<1>8. f[0] = [rest |-> b, list |-> {<<>>}]
  BY <1>6
<1> HIDE DEF f, one
<1>9. DecodedList(b) = f[Len(b)].list
  BY <1>1, <1>6, <1>7, <1>8, DecodedListSteps
<1> QED BY <1>6, <1>9 DEF b

=============================================================================
