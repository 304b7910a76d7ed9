----------------------------- MODULE BitBuffer -----------------------------
(***************************************************************************)
(* Bit_Buffer (src/nodelib/base/Bit_Buffer.h): fields of any number of     *)
(* bits packed one after another, the lowest bit of a number first, with   *)
(* strings on byte boundaries.  A buffer is the sequence of the bits       *)
(* written so far and the position of the next bit to read.                *)
(*                                                                         *)
(* Sizes are scaled: a byte has ByteBits bits (8 in the code) and a word,  *)
(* the code's unsigned int, WordBits (32).  Memory management (enlarge,    *)
(* set_capability) is left out: a buffer is as long as it has to be.       *)
(***************************************************************************)
EXTENDS Integers, Sequences

CONSTANTS ByteBits, WordBits

ASSUME BitBufferAssumption ==
    /\ ByteBits \in Nat \ {0}
    /\ WordBits \in {2 * ByteBits, 4 * ByteBits}

EmptyBits == [bits |-> << >>, pos |-> 0]

\* set_ary: a received array of whole bytes; reading starts at its first bit.
\* No field reads the bits that fill a byte: they are zeroes here.
ToByte(n) == IF n % ByteBits = 0 THEN n ELSE n + (ByteBits - (n % ByteBits))
Padded(bits) ==
    [k \in 1..ToByte(Len(bits)) |-> IF k <= Len(bits) THEN bits[k] ELSE 0]
set_ary(bits) == [bits |-> Padded(bits), pos |-> 0]

read_bits_available(b) == Len(b.bits) - b.pos

Put(b, bits) == [b EXCEPT !.bits = @ \o bits]

LowBits(i, n) == [k \in 1..n |-> (i \div 2^(k - 1)) % 2]
WordAtMost(n) == IF n > WordBits THEN WordBits ELSE n

write_flag(b, flag) == Put(b, <<IF flag THEN 1 ELSE 0>>)
write_uint(b, i, n) == Put(b, LowBits(i, WordAtMost(n)))

\* A sign bit, then the magnitude in one bit less.
write_int(b, i, n) ==
    IF n = 0 THEN b
    ELSE write_uint(write_flag(b, i < 0), IF i < 0 THEN -i ELSE i, n - 1)

\* Two words of the two's complement, the high one first.
write_int64(b, i) ==
    LET u == i % 2^(2 * WordBits)
    IN  write_uint(write_uint(b, u \div 2^WordBits, WordBits), u % 2^WordBits, WordBits)

\* The rest of the current byte is given up; the characters end with a zero.
write_str(b, s) ==
    LET Byte(c) == LowBits(c, ByteBits)
        Chars[k \in 0..Len(s)] == IF k = 0 THEN << >> ELSE Chars[k - 1] \o Byte(s[k])
    IN  Put([b EXCEPT !.bits = Padded(@)], Chars[Len(s)] \o Byte(0))

----------------------------------------------------------------------------
\* A read returns the value and the buffer with its position moved on.
Number(b, n) ==
    LET Sum[k \in 0..n] ==
            IF k = 0 THEN 0 ELSE Sum[k - 1] + 2^(k - 1) * b.bits[b.pos + k]
    IN  Sum[n]

Got(v, b, n) == [val |-> v, buf |-> [b EXCEPT !.pos = @ + n]]

read_flag(b) == Got(b.bits[b.pos + 1] = 1, b, 1)
read_uint(b, n) == Got(Number(b, WordAtMost(n)), b, WordAtMost(n))

read_int(b, n) ==
    IF n = 0 THEN Got(0, b, 0)
    ELSE LET Magnitude(sign) ==
                 [read_uint(sign.buf, n - 1) EXCEPT !.val = IF sign.val THEN -@ ELSE @]
         IN  Magnitude(read_flag(b))

read_uint64(b) ==
    LET Low(high) == [read_uint(high.buf, WordBits) EXCEPT !.val = high.val * 2^WordBits + @]
    IN  Low(read_uint(b, WordBits))

read_int64(b) ==
    [read_uint64(b) EXCEPT !.val =
        IF @ >= 2^(2 * WordBits - 1) THEN @ - 2^(2 * WordBits) ELSE @]

\* From the next byte to the zero, or to the end of the buffer without one.
read_str(b) ==
    LET from == ToByte(b.pos)
        Char(k) == Number([b EXCEPT !.pos = from + (k - 1) * ByteBits], ByteBits)
        count == (Len(b.bits) - from) \div ByteBits
        Length[k \in 0..count] ==
            IF k = count \/ Char(k + 1) = 0 THEN k ELSE Length[k + 1]
        n == Length[0]
    IN  [val |-> [k \in 1..n |-> Char(k)],
         buf |-> [b EXCEPT !.pos = from + (IF n < count THEN n + 1 ELSE n) * ByteBits]]
============================================================================
