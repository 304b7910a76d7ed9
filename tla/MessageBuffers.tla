--------------------------- MODULE MessageBuffers ---------------------------
(***************************************************************************)
(* Byte_Buffers in use.  Some are written, read, copied and swapped in any *)
(* order: they implement ByteQueue.  One more pair carries a message with  *)
(* its head from a process to another: write_head and write_len there,     *)
(* Svc_Tcp::handle_pack and read_head here.                                *)
(***************************************************************************)
EXTENDS ByteBuffer

CONSTANTS
    Buffers,
    Numbers,      \* values of the fields of one and of two bytes
    Strings,      \* contents of the strings written
    MaxBytes,     \* bound: most bytes an array grows to
    Ids,          \* message ids and session ids
    Bodies,       \* contents of the messages sent
    RpcLimit      \* an RPC head has room for lengths below this (2^13 in the code)

\* What is written is some bytes, one after the other.
IsSequence(s) == s \in Seq({s[i] : i \in DOMAIN s})

ASSUME MessageAssumption ==
    /\ RpcLimit \in Nat /\ MaxBytes \in Nat
    /\ \A s \in Strings \cup Bodies : IsSequence(s)

VARIABLES
    buf,          \* the buffers
    out,          \* what the latest operation read
    message,      \* the message under way: what its head says, and its body
    stage,        \* "none", "written", "sent", "unpacked", "read", or "lost"
    carrier,      \* the buffer it is in
    msg_head      \* what read_head made of its head

buffer_vars == <<buf, out>>
message_vars == <<message, stage, carrier, msg_head>>
vars == <<buffer_vars, message_vars>>

\* Msg_Head::reset
NoHead == [eid |-> 0, cid |-> 0, protocol |-> 0, pkg_type |-> 0, client_msg |-> 0,
           msg_id |-> 0, msg_type |-> 0, sid |-> 0]

BufferTypeOK ==
    \A b \in Buffers :
        /\ buf[b].init_offset = InitOffset /\ buf[b].use_times = 0
        /\ InitOffset <= buf[b].read_index
        /\ buf[b].read_index <= buf[b].write_index
        /\ buf[b].write_index <= Len(buf[b].bytes)

Init ==
    /\ buf = [b \in Buffers |-> Fresh] /\ out = Nothing
    /\ message = [head |-> NoHead, body |-> << >>] /\ stage = "none" /\ carrier = Fresh /\ msg_head = NoHead

(***************************************************************************)
(* The buffers.                                                            *)
(***************************************************************************)
Becomes(b, new) == buf' = [buf EXCEPT ![b] = new] /\ Len(new.bytes) <= MaxBytes

WriteNumber(b) == \E v \in Numbers, w \in {1, 2} :
    Becomes(b, write_number(buf[b], v, w)) /\ out' = Nothing

WriteString(b) == \E str \in Strings :
    Becomes(b, write_string(buf[b], str)) /\ out' = Nothing

Gives(b, r) == Becomes(b, r.buf) /\ out' = r.out

ReadNumber(b) == \E w \in {1, 2} : Gives(b, read_number(buf[b], w))

\* The caller knows that a string comes next.
ReadString(b) ==
    /\ verify_read(buf[b], 2)
    /\ Foremost(buf[b], 2) \in {Field(n, 2) : n \in 0..MaxBytes}
    /\ Gives(b, read_string(buf[b]))

Peek(b) == \E w \in {1, 2} : out' = peek(buf[b], w) /\ UNCHANGED buf

CopyOut(b) == \E n \in 1..readable_bytes(buf[b]) : Gives(b, copy_out(buf[b], n))

Reset(b) == Becomes(b, reset(buf[b])) /\ out' = Nothing

\* copy(Byte_Buffer *)
CopyBuffer(b, c) == Becomes(b, copy(buf[b], Contents(buf[c]))) /\ out' = Nothing

Swap(b, c) ==
    /\ buf' = [buf EXCEPT ![b] = buf[c], ![c] = buf[b]]
    /\ out' = Nothing

UseBuffers ==
    /\ \E b \in Buffers :
          \/ WriteNumber(b) \/ WriteString(b) \/ ReadNumber(b) \/ ReadString(b)
          \/ Peek(b) \/ CopyOut(b) \/ Reset(b)
          \/ \E c \in Buffers \ {b} : CopyBuffer(b, c) \/ Swap(b, c)
    /\ UNCHANGED message_vars

(***************************************************************************)
(* The message.  The head is the kind and length of the package, in two or *)
(* four bytes, the message id, and for messages between servers the kind   *)
(* of message and the session.  Http and WebSocket messages have none.     *)
(***************************************************************************)
TcpHead(msg_type, id, sid) ==
    [NoHead EXCEPT !.protocol = "TCP", !.msg_id = id, !.msg_type = msg_type, !.sid = sid]

LenSize(pkg_type) == IF pkg_type = "RPC_PKG" THEN 2 ELSE 4

\* Mutant of PkgType: the room for the rest of the head is forgotten.
PkgTypeOfBody(body) == IF Len(body) < RpcLimit THEN "RPC_PKG" ELSE "TYPE_PKG"

\* msg_id, msg_type and sid take six bytes: what is left is for the body.
PkgType(body) == IF Len(body) < RpcLimit - 6 THEN "RPC_PKG" ELSE "TYPE_PKG"

\* MAKE_RPC_PKG_HEADER, MAKE_TYPE_PKG_HEADER
PkgHeader(pkg_type, len) ==
    [pkg_type |-> pkg_type, len |-> IF pkg_type = "RPC_PKG" THEN len % RpcLimit ELSE len]

write_head(b, head) ==
    LET h == write_number(write_number(b, 0, LenSize(head.pkg_type)), head.msg_id, 1)
    IN IF head.msg_type = "TCP_S2C" THEN h
       ELSE write_number(write_number(h, head.msg_type, 1), head.sid, 4)

\* Written over the zeroes of write_head, once the length is known.
write_len(b, head) ==
    LET n == LenSize(head.pkg_type)
    IN set_write_idx(write_number(set_write_idx(b, b.read_index),
                                  PkgHeader(head.pkg_type, readable_bytes(b) - n), n),
                     b.write_index)

\* Node_Manager::send_msg
send_msg(head, body) ==
    LET h == [head EXCEPT !.pkg_type = PkgType(body)]
    IN write_len(copy(write_head(Fresh, h), body), h)

\* A client's program is not of this code; no head of its own has a session.
client_send(id, body) ==
    LET h == [TcpHead("TCP_S2C", id, 0) EXCEPT !.pkg_type = PkgType(body)]
    IN write_len(copy(write_head(Fresh, h), body), h)

ServerWrites == \E id \in Ids, sid \in Ids, body \in Bodies :
    LET head == TcpHead("NODE_MSG", id, sid)
    IN /\ stage = "none" /\ stage' = "written"
       /\ message' = [head |-> head, body |-> body]
       /\ carrier' = send_msg(head, body) /\ UNCHANGED msg_head

ClientWrites == \E id \in Ids, body \in Bodies :
    /\ stage = "none" /\ stage' = "written"
    /\ message' = [head |-> [TcpHead("TCP_C2S", id, 0) EXCEPT !.client_msg = 1],
                   body |-> body]
    /\ carrier' = client_send(id, body) /\ UNCHANGED msg_head

\* Over the network: eid and cid come before the bytes, and the first bytes of
\* the next message may come after them.
Cross == \E eid \in {1, 2}, cid \in {1, 2}, next \in {<< >>, Field(0, 2)} :
    /\ stage = "written" /\ stage' = "sent"
    /\ carrier' = copy(write_number(write_number(reset(Fresh), eid, 4), cid, 4),
                       Contents(carrier) \o next)
    /\ message' = [message EXCEPT !.head.eid = eid, !.head.cid = cid,
                                  !.head.pkg_type = PkgType(message.body)]
    /\ UNCHANGED msg_head

\* pkg_type << 4 | TCP and client_msg, over the first two bytes of the head.
Marks(header) ==
    Field([protocol |-> "TCP", pkg_type |-> header.pkg_type], 1)
        \o Field(message.head.client_msg, 1)

\* Svc_Tcp::handle_pack, once enough of the package is there: alone in its
\* buffer it is marked in place, followed by others it is copied.
HandlePack ==
    LET ids == Advance(carrier, 8)
        header == Foremost(ids, 1)[1][1]
        n == LenSize(header.pkg_type)
        data_len == readable_bytes(ids) - n
    IN /\ stage = "sent"
       /\ \/ /\ data_len = header.len
             /\ carrier' = set_read_idx(
                    set_write_idx(copy(set_write_idx(ids, ids.read_index), Marks(header)),
                                  carrier.write_index),
                    carrier.read_index)
             /\ stage' = "unpacked"
          \/ /\ data_len > header.len /\ header.len # 0
             /\ carrier' = copy(copy(copy(reset(Fresh), Foremost(carrier, 8)),
                                     Marks(header) \o [i \in 1..(n - 2) |-> <<0, i>>]),
                                Foremost(Advance(ids, n), header.len))
             /\ stage' = "unpacked"
          \/ /\ data_len < header.len \/ header.len = 0
             /\ stage' = "lost" /\ UNCHANGED carrier
       /\ UNCHANGED <<message, msg_head>>

\* The field of w bytes at the read position after skipping n bytes.
FieldAt(b, n, w) == read_number(Advance(b, n), w).out[1][1]

\* A TYPE_PKG head has two more bytes of length, which mean nothing by now.
ReadHead ==
    LET marks == FieldAt(carrier, 8, 1)
        rest == Advance(carrier, 10 + LenSize(marks.pkg_type) - 2)
        head == [NoHead EXCEPT
                    !.eid = FieldAt(carrier, 0, 4), !.cid = FieldAt(carrier, 4, 4),
                    !.protocol = marks.protocol, !.pkg_type = marks.pkg_type,
                    !.client_msg = FieldAt(carrier, 9, 1), !.msg_id = FieldAt(rest, 0, 1)]
    IN /\ stage = "unpacked" /\ stage' = "read"
       /\ IF head.client_msg = 1
          THEN /\ msg_head' = [head EXCEPT !.msg_type = "TCP_C2S"]
               /\ carrier' = Advance(rest, 1)
          ELSE /\ msg_head' = [head EXCEPT !.msg_type = FieldAt(rest, 1, 1), !.sid = FieldAt(rest, 2, 4)]
               /\ carrier' = Advance(rest, 6)
       /\ UNCHANGED message

\* Gate_Manager::transmit_msg: a client's message goes on under its session.
Transmit == \E sid \in Ids :
    LET head == [msg_head EXCEPT !.msg_type = "NODE_C2S", !.sid = sid]
    IN /\ stage = "read" /\ msg_head.msg_type = "TCP_C2S"
       /\ message' = [message EXCEPT !.head = [head EXCEPT !.client_msg = 0]]
       /\ carrier' = send_msg(head, Contents(carrier))
       /\ stage' = "written" /\ UNCHANGED msg_head

\* The message is used and its buffer goes back to the pool.
Recycle ==
    /\ stage = "read" /\ stage' = "none"
    /\ carrier' = Fresh /\ msg_head' = NoHead
    /\ message' = [head |-> NoHead, body |-> << >>]

CarryMessages ==
    /\ \/ ServerWrites \/ ClientWrites \/ Cross \/ HandlePack
       \/ ReadHead \/ Transmit \/ Recycle
    /\ UNCHANGED buffer_vars

Next == UseBuffers \/ CarryMessages
Spec == Init /\ [][Next]_vars

(***************************************************************************)
(* Properties                                                              *)
(***************************************************************************)

Contained == [b \in Buffers |-> Contents(buf[b])]

\* Whatever a buffer does about its room (growing, moving its content down,
\* starting anew), its users see a queue of bytes: what is read is what was
\* written and not read before, in order.
Queue == INSTANCE ByteQueue WITH
    queue <- Contained,
    Writes <- {Field(v, w) : v \in Numbers, w \in {1, 2}} \cup {StringBytes(s) : s \in Strings}

IsByteQueue == Queue!Spec

\* read_head finds what the sender's head said, behind the marks that replace
\* the length, and leaves the body: for both kinds of package, alone or
\* followed by another, at the limit of the lengths, and again behind a gate.
MessageArrives ==
    /\ stage # "lost"
    /\ stage = "read" => msg_head = message.head /\ Contents(carrier) = message.body
=============================================================================
