---------------------------- MODULE ByteBuffer ------------------------------
(***************************************************************************)
(* Byte_Buffer (src/nodelib/base/Byte_Buffer.h): an array of bytes with a  *)
(* read and a write index, some room in front (InitOffset, 16 in the code) *)
(* and room that grows (InitSize, 2048, to begin with).  Every message of  *)
(* the program is written to, sent from, received in and read from one.    *)
(*                                                                         *)
(* A field of w bytes that holds v is the bytes <<v, 1>>, ..., <<v, w>>:   *)
(* the code is built for little-endian hosts and copies fields unchanged.  *)
(* Indices are the code's, from 0: cell i of buffer_ is bytes[i + 1].      *)
(***************************************************************************)
EXTENDS Integers, Sequences

CONSTANTS InitOffset, InitSize

ASSUME ByteBufferAssumption == InitOffset \in Nat /\ InitSize \in Nat

Nothing == << >>                      \* what a failed read gives
Unset == <<0, 0>>               \* a byte nobody has written
Unused(n) == [i \in 1..n |-> Unset]

Fresh == [use_times |-> 0, init_offset |-> InitOffset, read_index |-> InitOffset,
          write_index |-> InitOffset, bytes |-> Unused(InitOffset + InitSize)]

MaxUseTimes == 1

readable_bytes(b) == b.write_index - b.read_index

\* The bytes between two indices.
Between(b, from, to) == [i \in 1..(to - from) |-> b.bytes[from + i]]
Contents(b) == Between(b, b.read_index, b.write_index)

\* writable_bytes() + more < len.  The difference is a size_t: beyond the end
\* of the array it wraps to a huge number.
Lacks(b, more, len) ==
    /\ b.write_index <= Len(b.bytes)
    /\ Len(b.bytes) - b.write_index + more < len

\* Indices that make no sense are logged, and set.
set_read_idx(b, ridx) == [b EXCEPT !.read_index = ridx]
set_write_idx(b, widx) == [b EXCEPT !.write_index = widx]

\* Mutant of MoveDown: the indices move and the bytes stay.
MoveDownIndicesOnly(b) ==
    [b EXCEPT !.read_index = b.init_offset,
              !.write_index = b.init_offset + readable_bytes(b)]

\* The content moves down to the offset, over what was read before.
MoveDown(b) ==
    [b EXCEPT !.read_index = b.init_offset,
              !.write_index = b.init_offset + readable_bytes(b),
              !.bytes = [i \in DOMAIN @ |->
                  IF i - b.init_offset \in 1..readable_bytes(b)
                  THEN @[i - b.init_offset + b.read_index] ELSE @[i]]]

Resize(b, size) ==
    [b EXCEPT !.bytes = [i \in 1..size |-> IF i \in DOMAIN @ THEN @[i] ELSE Unset]]

make_space(b, len) ==
    IF b.read_index < b.init_offset
    THEN Resize([b EXCEPT !.init_offset = b.read_index], b.write_index + len)
    ELSE IF Lacks(b, b.read_index - b.init_offset, len)
         THEN Resize(b, b.write_index + len)
         ELSE MoveDown(b)

ensure_writable_bytes(b, len) == IF Lacks(b, 0, len) THEN make_space(b, len) ELSE b

\* copy(data, len), which every write ends in.
copy(b, data) ==
    LET e == ensure_writable_bytes(b, Len(data))
    IN [e EXCEPT !.write_index = @ + Len(data),
                 !.bytes = [i \in DOMAIN @ |->
                     IF i - e.write_index \in 1..Len(data)
                     THEN data[i - e.write_index] ELSE @[i]]]

verify_read(b, s) == b.read_index + s <= b.write_index /\ b.write_index <= Len(b.bytes)

Foremost(b, s) == Between(b, b.read_index, b.read_index + s)
Advance(b, s) == [b EXCEPT !.read_index = @ + s]

\* peek_int8 ... peek_bool, read_int8 ... read_bool: fields of s bytes.
peek(b, s) == IF verify_read(b, s) THEN Foremost(b, s) ELSE Nothing
read_number(b, s) ==
    IF verify_read(b, s) THEN [buf |-> Advance(b, s), out |-> Foremost(b, s)]
                         ELSE [buf |-> b, out |-> Nothing]
read_double(b) == read_number(b, 8)
read_bool(b) == read_number(b, 1)

copy_out(b, len) == [buf |-> Advance(b, len), out |-> Foremost(b, len)]

Field(v, w) == [i \in 1..w |-> <<v, i>>]

\* write_int8 ... write_uint64, and the operators << that call them.
write_number(b, v, w) == copy(b, Field(v, w))
write_double(b, v) == write_number(b, v, 8)
write_bool(b, v) == write_number(b, v, 1)

\* A string is two bytes of length and its characters.
StringBytes(str) == Field(Len(str), 2) \o str
write_string(b, str) == copy(write_number(b, Len(str), 2), str)

\* The length is consumed even if the characters are not all there.
read_string(b) ==
    LET len == read_number(b, 2)
        n == len.out[1][1]
    IN IF len.out = Nothing THEN len
       ELSE IF ~verify_read(len.buf, n) THEN [buf |-> len.buf, out |-> Nothing]
       ELSE [buf |-> Advance(len.buf, n), out |-> Foremost(len.buf, n)]

Emptied(b) == set_write_idx(set_read_idx(b, b.init_offset), b.init_offset)

\* A new array, in which ensure_writable_bytes still uses the old indices.
recycle_space(b) ==
    IF b.use_times < MaxUseTimes THEN b
    ELSE [Emptied(ensure_writable_bytes(
              [b EXCEPT !.bytes = Unused(b.init_offset + InitSize)], b.init_offset))
          EXCEPT !.use_times = 0]

reset(b) ==
    Emptied(ensure_writable_bytes(recycle_space([b EXCEPT !.use_times = @ + 1]),
                                  b.init_offset))
=============================================================================
