---------------------------- MODULE MCActionPath ----------------------------
(* An instance of ActionPath for TLC. *)
EXTENDS ActionPath

Piece(bytes, tag, name, value) == [bytes |-> bytes, tag |-> tag, name |-> name, value |-> value]
Good(bytes, name, value) == Piece(bytes, 1, name, value)
Unknown(bytes, tag) == Piece(bytes, tag, "unknown", 0)
Malformed(bytes, tag) == Piece(bytes, tag, "malformed", 0)

\* With words of 10 bits, a varint of a word has at most two bytes, of a double word three.
Commands == {Good(<<8, 80>>, "id", 80), Good(<<8, 209, 128, 0>>, "id", 81), Good(<<16, 1>>, "cmd", 1)}

Data == {Good(<<26, 4, 1, 44, 2, 8>>, "data", <<1, 44, 2, 8>>),
         Good(<<26, 3, 0, 255, 9>>, "data", <<0, 255, 9>>),
         Good(<<26, 129, 0, 7>>, "data", <<7>>),
         Good(<<26, 0>>, "data", <<>>)}

\* The second has the wire type of a 32-bit field, and is read as a varint all the same.
States == {Good(<<32, 130, 1>>, "state", 130), Good(<<37, 5>>, "state", 5)}

Others == {Unknown(<<40, 129, 129, 129, 129, 1>>, 1), Unknown(<<45, 8, 8, 8, 8>>, 1),
           Unknown(<<42, 2, 0, 16>>, 1), Unknown(<<128, 1, 0>>, 2),
           Unknown(<<41, 1, 2, 3, 4, 5, 6, 7, 8>>, 1),
           Piece(<<0>>, 1, "end", 0)}

\* An id that is too large, data that is too long, a varint that is (in a value, in a tag),
\* and a wire type that there is not.
Wrong == {Malformed(<<8, 128, 8>>, 1), Malformed(<<26, 5, 1, 2, 3, 4, 5>>, 1),
          Malformed(<<32, 128, 128, 128, 0>>, 1), Malformed(<<136, 128, 0>>, 3),
          Malformed(<<43>>, 1)}

Pieces == Commands \cup Data \cup States \cup Others \cup Wrong

\* Any two pieces, and an id, a cmd and data with any piece between or after them.
MCPackets == SeqOf(Pieces, 2)
                \cup UNION {{InsertAt(<<id, cmd, d>>, k, x) : k \in 1..4, x \in Pieces} :
                              id \in {x \in Commands : x.name = "id"},
                              cmd \in {x \in Commands : x.name = "cmd"}, d \in Data}

=============================================================================
