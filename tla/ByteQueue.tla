----------------------------- MODULE ByteQueue ------------------------------
(***************************************************************************)
(* What a Byte_Buffer promises to those who use it: a queue of bytes.      *)
(* What is written is appended, what is read is taken off the front, a     *)
(* read of more than there is takes nothing, and whatever a buffer does    *)
(* about its memory is invisible.                                          *)
(***************************************************************************)
EXTENDS Naturals, Sequences

CONSTANTS
    Buffers,
    Writes     \* what one write appends: a set of sequences of bytes

VARIABLES
    queue,   \* queue[b]: the bytes in buffer b, the next one to be read first
    out      \* what the latest read gave: bytes, or nothing when it failed

vars == <<queue, out>>

Init == queue = [b \in Buffers |-> << >>] /\ out = << >>

Written(b, s) == queue' = [queue EXCEPT ![b] = @ \o s] /\ out' = << >>

Put(b) == \E s \in Writes : Written(b, s)

\* The buffer's bytes, once more behind another's.
PutAll(b, c) == Written(b, queue[c])

Drop(b, n) == queue' = [queue EXCEPT ![b] = SubSeq(@, n + 1, Len(@))]

Take(b) == \E n \in 0..Len(queue[b]) :
    Drop(b, n) /\ out' = SubSeq(queue[b], 1, n)

Look(b) == \E n \in 0..Len(queue[b]) :
    /\ out' = SubSeq(queue[b], 1, n)
    /\ UNCHANGED queue

\* A string comes after two bytes with its length, which are dropped; if the
\* string is not there yet, they alone.
TakeString(b) == \E n \in 2..Len(queue[b]) :
    Drop(b, n) /\ out' = SubSeq(queue[b], 3, n)

LoseLength(b) == Len(queue[b]) >= 2 /\ Drop(b, 2) /\ out' = << >>

Clear(b) == queue' = [queue EXCEPT ![b] = << >>] /\ out' = << >>

Exchange(b, c) ==
    /\ queue' = [queue EXCEPT ![b] = queue[c], ![c] = queue[b]]
    /\ out' = << >>

Next == \E b \in Buffers :
    \/ Put(b) \/ Take(b) \/ Look(b) \/ TakeString(b) \/ LoseLength(b) \/ Clear(b)
    \/ \E c \in Buffers : PutAll(b, c) \/ Exchange(b, c)

Spec == Init /\ [][Next]_vars
=============================================================================
