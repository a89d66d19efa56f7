---------------------------- MODULE ActionFormat ----------------------------
(***************************************************************************)
(* What a central writes, by the format of the message and not by the      *)
(* decoder: a write is a sequence of pieces, each of which is its bytes,   *)
(* how many of them are its tag, and the field that it is, with its value. *)
(***************************************************************************)
EXTENDS PbDecode

\* One byte after another says that there is another, up to the last.
IsVarint(b) == b # <<>> /\ ~More(b[Len(b)]) /\ \A i \in 1..Len(b) - 1 : More(b[i])

\* It says so for longer than a number of that width takes.
TooLong(b, width) == Groups(width) <= Len(b) /\ \A i \in 1..Groups(width) : More(b[i])

\* The first n bytes are a number.
Number(b, n, width) == n \in 1..Len(b) /\ n <= Groups(width) /\ IsVarint(SubSeq(b, 1, n))

\* The number of a field and its wire type, as the tag has them; what follows the tag.
Key(x)  == VarintValue(x.bytes, x.tag) % 2 ^ WordBits
Body(x) == Drop(x.bytes, x.tag)
Known   == [id |-> 1, cmd |-> 2, data |-> 3, state |-> 4]

IsInteger(x) ==
    LET b == Body(x) IN
    /\ x.name \in {"id", "cmd", "state"} /\ Key(x) \div 8 = Known[x.name]
    /\ Number(b, Len(b), DoubleBits)
    /\ x.value = VarintValue(b, Len(b)) % 2 ^ DoubleBits /\ x.value < 2 ^ WordBits

IsData(x) ==
    LET b == Body(x) IN
    /\ x.name = "data" /\ Key(x) \div 8 = Known.data
    /\ x.value \in Seq(Byte) /\ Len(x.value) <= DataMax
    /\ \E n \in 1..Len(b) : /\ Number(b, n, WordBits) /\ x.value = Drop(b, n)
                            /\ VarintValue(b, n) % 2 ^ WordBits = Len(x.value)

\* Of a field that the message does not have, only where it ends matters.
IsUnknown(x) ==
    LET b == Body(x) IN
    /\ x.name = "unknown" /\ Key(x) # 0 /\ Key(x) \div 8 \notin 1..4
    /\ \/ Key(x) % 8 = 0 /\ IsVarint(b)
       \/ Key(x) % 8 = 1 /\ Len(b) = 8
       \/ Key(x) % 8 = 5 /\ Len(b) = 4
       \/ /\ Key(x) % 8 = 2
          /\ \E n \in 1..Len(b) : /\ Number(b, n, WordBits)
                                  /\ VarintValue(b, n) % 2 ^ WordBits = Len(b) - n

IsEnd(x) == x.name = "end" /\ Key(x) = 0 /\ Body(x) = <<>>

\* An integer that is too large, data that is too long, a varint that is, and a wire type that there is not.
IsMalformed(x) ==
    LET b == Body(x) IN
    /\ x.name = "malformed" /\ Key(x) # 0
    /\ \/ /\ Key(x) \div 8 \in {1, 2, 4}
          /\ \/ TooLong(b, DoubleBits)
             \/ \E n \in 1..Len(b) : /\ Number(b, n, DoubleBits)
                                     /\ VarintValue(b, n) % 2 ^ DoubleBits >= 2 ^ WordBits
       \/ /\ Key(x) \div 8 = 3
          /\ \/ TooLong(b, WordBits)
             \/ \E n \in 1..Len(b) : Number(b, n, WordBits) /\ VarintValue(b, n) % 2 ^ WordBits > DataMax
       \/ /\ Key(x) \div 8 \notin 1..4
          /\ \/ Key(x) % 8 \notin {0, 1, 2, 5}
             \/ Key(x) % 8 = 2 /\ TooLong(b, WordBits)

\* A tag that is too long is malformed, and is the one byte longer that shows it.
IsLongTag(x) == x.name = "malformed" /\ x.tag = Groups(WordBits) + 1 /\ TooLong(x.bytes, WordBits)

IsPiece(x) ==
    /\ x.bytes \in Seq(Byte) /\ x.tag \in 1..Len(x.bytes)
    /\ \/ IsLongTag(x)
       \/ /\ Number(x.bytes, x.tag, WordBits)
          /\ IsInteger(x) \/ IsData(x) \/ IsUnknown(x) \/ IsEnd(x) \/ IsMalformed(x)

=============================================================================
