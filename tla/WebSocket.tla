----------------------------- MODULE WebSocket ------------------------------
(***************************************************************************)
(* A connection of protocol WEBSOCKET: Svc_Websocket.  The first buffer is *)
(* the handshake, whatever it holds; then handle_pack cuts the stream into *)
(* frames and joins buffers that hold a part of one.                       *)
(*                                                                         *)
(* A byte is a number; the handshake is four things as large as no byte:   *)
(* two halves of its first line, the line with the key, and the empty      *)
(* line.  A buffer begins with the eid and the cid, one number each.       *)
(***************************************************************************)
EXTENDS Integers, Sequences, SequencesExt

CONSTANTS
    Payloads,      \* what the client may send in a frame
    MaskingKeys,   \* the masking keys it uses: four bytes, or << >> for no mask
    MaxFramesSent, \* bound: how many frames it sends
    MaxFrameReads, \* bound: how many reads the stream comes in
    WriteSizes,    \* how much a call of write takes
    MaxWritten,    \* bound: no more calls once this much was written
    ByteRange,     \* a byte is less than this: 256
    ExtLength,     \* the length that announces an extended one: 126
    HalfRange,     \* an int16_t is less than this: 32768
    max_pack_size, \* 60 * 1024
    ByteXor(_, _)  \* the operator ^ on two bytes

Octet == 0 .. ByteRange - 1

ASSUME WebSocketAssumption ==
    /\ ByteRange \in Nat /\ ExtLength \in Nat /\ ExtLength + 1 < ByteRange \div 2
    /\ HalfRange \in Nat /\ ExtLength <= HalfRange
    /\ max_pack_size \in Nat /\ ExtLength <= max_pack_size
    /\ Payloads \subseteq Seq(Octet)
    /\ MaskingKeys \subseteq {<< >>} \cup [1 .. 4 -> Octet]
    /\ \A a, b \in Octet : ByteXor(a, b) \in Octet /\ ByteXor(ByteXor(a, b), b) = a

VARIABLES
    ws_sent,       \* the frames the client sent: [payload, key]
    ws_wire,       \* what of its stream was not read yet
    reads,         \* reads so far
    hs_whole,      \* the handshake came in a read of its own
    connected,     \* connected_
    accepted,      \* the client got the answer to its key
    ws_recv_list,  \* recv_buffer_list_
    ws_handed,     \* the payloads posted
    ws_closed,
    ws_send_list,  \* send_buffer_list_: what the script has to say
    ws_socket      \* the bytes write took
wsVars == <<ws_sent, ws_wire, reads, hs_whole, connected, accepted, ws_recv_list, ws_handed,
            ws_closed, ws_send_list, ws_socket>>

Line1 == 1001
Line2 == 1002
KeyLine == 1003
EmptyLine == 1004
Handshake == <<Line1, Line2, KeyLine, EmptyLine>>
Eid == 1005
Cid == 1006

FinText == 129                      \* FRAME_FINAL << 7 | OPCODE_TEXT
OPCODE_CLOSE == 8
MaskBit == ByteRange \div 2
NoKey == <<0, 0, 0, 0>>

Mask(payload, key) ==
    IF key = << >> THEN payload
    ELSE [ i \in DOMAIN payload |-> ByteXor(payload[i], key[((i - 1) % 4) + 1]) ]

\* A frame as the client's RFC has it: an extended length has its high byte first.
FrameBytes(f) ==
    LET n == Len(f.payload)
        bit == IF f.key = << >> THEN 0 ELSE MaskBit
    IN  <<FinText>>
        \o (IF n < ExtLength THEN <<bit + n>>
            ELSE <<bit + ExtLength, n \div ByteRange, n % ByteRange>>)
        \o f.key \o Mask(f.payload, f.key)

-----------------------------------------------------------------------------
(* handle_pack: the state of a call is [list, key, out, close, stop]; a buffer read so   *)
(* far and put back (set_read_idx(rd_idx_orig)) is one not touched.                      *)

DropFirst(s, n) == SubSeq(s, n + 1, Len(s))

\* A plausible slip: the eid and the cid of the second buffer stay between the two.
MergeWithHead(c) ==
    IF Len(c.list) < 2 THEN [c EXCEPT !.stop = TRUE]
    ELSE [c EXCEPT !.list = <<c.list[1] \o c.list[2]>> \o DropFirst(c.list, 2)]
\* merge_first_second: the second buffer behind the first, without its eid and cid.
merge_first_second(c) ==
    IF Len(c.list) < 2 THEN [c EXCEPT !.stop = TRUE]
    ELSE [c EXCEPT !.list = <<c.list[1] \o DropFirst(c.list[2], 2)>> \o DropFirst(c.list, 2)]

Refuse(c) == [c EXCEPT !.list = Tail(@), !.close = TRUE, !.stop = TRUE]

\* get_frame_buffer: the length is passed as an int16_t.
get_frame_buffer(length, key, data) ==
    IF length >= HalfRange THEN << >> ELSE Mask(SubSeq(data, 1, length), key)

\* The frame at the front was taken: what is behind it gets the eid and the cid again.
Taken(c, length, key, data) ==
    LET payload == get_frame_buffer(length, key, data)
        rest == DropFirst(data, Len(payload))
    IN  [c EXCEPT !.out = Append(@, payload), !.key = key,
                  !.list = IF Len(data) = length THEN Tail(@)
                           ELSE <<<<Eid, Cid>> \o rest>> \o Tail(@)]

\* One turn of the loop, on the bytes "b" behind the eid and the cid.
FrameTurn(c) ==
    LET b == DropFirst(c.list[1], 2)
        short == b[2] % MaskBit
        extended == short = ExtLength
        at == IF extended THEN 4 ELSE 2
        length == IF extended THEN b[3] + b[4] * ByteRange ELSE short
        masked == b[2] \div MaskBit = 1
        head == at + (IF masked THEN 4 ELSE 0)
        data == DropFirst(b, head)
        key == IF masked THEN SubSeq(b, at + 1, at + 4) ELSE c.key
    IN  IF c.stop                                       THEN c
        ELSE IF c.list = << >>                          THEN [c EXCEPT !.stop = TRUE]
        ELSE IF b = << >>                               THEN Refuse(c)
        ELSE IF Len(b) = 1                              THEN merge_first_second(c)
        ELSE IF b[1] % 16 = OPCODE_CLOSE                THEN Refuse(c)
        ELSE IF short = ExtLength + 1                   THEN Refuse(c)
        ELSE IF Len(b) < at                             THEN merge_first_second(c)
        ELSE IF Len(b) < head                           THEN merge_first_second(c)
        ELSE IF length = 0 \/ length > max_pack_size    THEN Refuse(c)
        ELSE IF Len(data) < length THEN merge_first_second([c EXCEPT !.key = key])
        ELSE Taken(c, length, key, data)

handle_pack(list) ==
    LET turns == 2 * (Len(list) + Len(FlattenSeq(list)))
        after[n \in 0 .. turns] ==
            IF n = 0 THEN [list |-> list, key |-> NoKey, out |-> << >>, close |-> FALSE,
                           stop |-> FALSE]
            ELSE FrameTurn(after[n - 1])
    IN  after[turns]

-----------------------------------------------------------------------------
(* The handshake.  The eid and the cid of the buffer were read before. *)

HasLineEnd(b) == \E i \in DOMAIN b : b[i] # Line1
HandshakeRest(b) ==
    IF \E i \in DOMAIN b : b[i] = EmptyLine
    THEN DropFirst(b, CHOOSE i \in DOMAIN b : b[i] = EmptyLine) ELSE b

\* What is left of the first buffer: it is given back when nothing is, and has lost its
\* eid and cid when something is.
handshake(list) ==
    LET b == DropFirst(list[1], 2)
        rest == HandshakeRest(b)
    IN  [ list |-> (IF rest = << >> THEN << >> ELSE <<rest>>) \o Tail(list),
          connected |-> HasLineEnd(b),
          accepted |-> \E i \in DOMAIN b : b[i] = KeyLine ]

-----------------------------------------------------------------------------
wsInit ==
    /\ ws_sent = << >> /\ ws_wire = Handshake /\ reads = 0 /\ hs_whole = FALSE
    /\ connected = FALSE /\ accepted = FALSE /\ ws_recv_list = << >>
    /\ ws_handed = << >> /\ ws_closed = FALSE
    /\ ws_send_list = << >> /\ ws_socket = << >>

\* A client sends frames once it got the answer, as the protocol has it.
Send ==
    /\ accepted /\ Len(ws_sent) < MaxFramesSent
    /\ \E p \in Payloads, k \in MaskingKeys :
           /\ ws_sent' = Append(ws_sent, [payload |-> p, key |-> k])
           /\ ws_wire' = ws_wire \o FrameBytes([payload |-> p, key |-> k])
    /\ UNCHANGED <<reads, hs_whole, connected, accepted, ws_recv_list, ws_handed, ws_closed,
                   ws_send_list, ws_socket>>

\* Svc::handle_input reads n bytes into a buffer, and handle_pack gets the list.
Receive(n) ==
    /\ ~ws_closed /\ reads < MaxFrameReads /\ n <= Len(ws_wire)
    /\ LET list == Append(ws_recv_list, <<Eid, Cid>> \o SubSeq(ws_wire, 1, n))
           h == handshake(list)
           c == handle_pack(list)
       IN  IF ~connected
           THEN /\ ws_recv_list' = h.list /\ connected' = h.connected
                /\ accepted' = (h.connected /\ h.accepted)
                /\ hs_whole' = (reads = 0 /\ SubSeq(ws_wire, 1, n) = Handshake)
                /\ UNCHANGED <<ws_handed, ws_closed>>
           ELSE /\ ws_recv_list' = c.list /\ ws_closed' = c.close
                /\ ws_handed' = ws_handed \o c.out
                /\ UNCHANGED <<connected, accepted, hs_whole>>
    /\ ws_wire' = DropFirst(ws_wire, n)
    /\ reads' = reads + 1
    /\ UNCHANGED <<ws_sent, ws_send_list, ws_socket>>

\* The script answers once, with what it was told last.
Reply ==
    /\ ws_handed # << >> /\ ws_send_list = << >> /\ ws_socket = << >>
    /\ ws_send_list' = <<ws_handed[Len(ws_handed)]>>
    /\ UNCHANGED <<ws_sent, ws_wire, reads, hs_whole, connected, accepted, ws_recv_list,
                   ws_handed, ws_closed, ws_socket>>

\* make_frame_buffer: no mask, and above what 16 bits hold no length at all.
make_frame_buffer(p) ==
    LET n == Len(p)
    IN  <<FinText>>
        \o (IF n < ExtLength THEN <<n>>
            ELSE IF n < ByteRange * ByteRange - 1 THEN <<ExtLength, n % ByteRange, n \div ByteRange>>
            ELSE << >>)
        \o p

\* handle_send: the frame is made and written from its start; write takes "part" bytes,
\* or all of them.
wsHandle_send(part) ==
    /\ ~ws_closed /\ ws_send_list # << >> /\ Len(ws_socket) < MaxWritten
    /\ LET frame == make_frame_buffer(Head(ws_send_list))
           n == IF part < Len(frame) THEN part ELSE Len(frame)
       IN  /\ ws_socket' = ws_socket \o SubSeq(frame, 1, n)
           /\ ws_send_list' = IF n = Len(frame) THEN Tail(ws_send_list) ELSE ws_send_list
    /\ UNCHANGED <<ws_sent, ws_wire, reads, hs_whole, connected, accepted, ws_recv_list,
                   ws_handed, ws_closed>>

wsNext ==
    \/ Send \/ Reply
    \/ \E n \in 1 .. Len(ws_wire) : Receive(n)
    \/ \E part \in WriteSizes : wsHandle_send(part)

wsSpec == wsInit /\ [][wsNext]_wsVars

-----------------------------------------------------------------------------
Plain(f) == f.key # << >> /\ Len(f.payload) \in 1 .. ExtLength - 1

\* As long as the client masks its frames, keeps them short and waits for the answer to
\* its handshake, every payload reaches the script, once, in order, unmasked, and with
\* nothing held back, whatever the reads cut and joined.
FramesUnderstood ==
    (hs_whole /\ \A i \in DOMAIN ws_sent : Plain(ws_sent[i])) =>
        /\ ~ws_closed
        /\ Len(ws_handed) <= Len(ws_sent)
        /\ \A i \in DOMAIN ws_handed : ws_handed[i] = ws_sent[i].payload
        /\ ws_wire = << >> => Len(ws_handed) = Len(ws_sent)

\* Violated by extended lengths (read_uint16 takes the low byte first, RFC 6455 has the
\* high byte first), by a frame without a mask behind one that had one, and by a
\* handshake that comes in two reads.
AllFramesUnderstood ==
    (ws_wire = << >> /\ Len(ws_sent) > 0) =>
        /\ Len(ws_handed) = Len(ws_sent) /\ \A i \in DOMAIN ws_handed : ws_handed[i] = ws_sent[i].payload
=============================================================================
