------------------------------ MODULE Bitfield ------------------------------
(***************************************************************************)
(* The bitfield, code/src/bitfield.cpp: bits packed into bytes, the first  *)
(* one in the most significant place.  A byte has Width bits (8 in the     *)
(* code); a bitfield is its number of bits and its bytes.                  *)
(***************************************************************************)
EXTENDS Integers, Sequences, FiniteSets, SequencesExt

CONSTANT Width

ASSUME WidthAssumption == Width \in Nat \ {0}

\* The bytes that hold n bits.
BytesFor(n) == (n + Width - 1) \div Width

\* Bit number k of a byte, 0 being the least significant one.
BitOf(byte, k) == (byte \div 2 ^ k) % 2

\* The bits that are set in a byte, and the byte with these bits.
BitsOf(byte) == {k \in 0 .. Width - 1 : BitOf(byte, k) = 1}
ByteOf(bits) == MapThenSumSet(LAMBDA k : 2 ^ k, bits)

\* Mutant: the padding keeps what came from the wire.
ClearPadding_Kept(n, bytes) == bytes

\* The mask 0xFF << (8 - n % 8) on the last byte.
ClearPadding(n, bytes) ==
    IF n % Width = 0 \/ bytes = <<>> THEN bytes
    ELSE [bytes EXCEPT ![Len(bytes)] =
             ByteOf({k \in BitsOf(@) : k >= Width - (n % Width)})]

\* The constructor from wire bytes: missing bytes are zero, excess ones are
\* dropped.
FromBytes(wire, n) ==
    [num_bits |-> n,
     bytes |-> ClearPadding(n, [k \in 1 .. BytesFor(n) |->
                                   IF k <= Len(wire) THEN wire[k] ELSE 0])]

\* The constructor of an empty bitfield.
Empty(n) == FromBytes(<<>>, n)

ByteIndex(i) == (i \div Width) + 1

BitOffset(i) == Width - 1 - (i % Width)

has(bf, i) == i < bf.num_bits /\ BitOf(bf.bytes[ByteIndex(i)], BitOffset(i)) = 1

set(bf, i, val) ==
    IF i >= bf.num_bits THEN bf
    ELSE [bf EXCEPT !.bytes[ByteIndex(i)] =
             ByteOf(IF val THEN BitsOf(@) \cup {BitOffset(i)}
                    ELSE BitsOf(@) \ {BitOffset(i)})]

\* All set bits of all bytes, those of the padding included.
count(bf) == FoldLeft(LAMBDA n, byte : n + Cardinality(BitsOf(byte)), 0, bf.bytes)

\* operator&: byte by byte, up to the shorter one.
Intersect(a, b) ==
    LET n == IF a.num_bits < b.num_bits THEN a.num_bits ELSE b.num_bits
    IN [num_bits |-> n,
        bytes |-> [k \in 1 .. BytesFor(n) |->
                      ByteOf(BitsOf(a.bytes[k]) \cap BitsOf(b.bytes[k]))]]
=============================================================================
