------------------------------- MODULE SvcSend -------------------------------
(***************************************************************************)
(* The way of a message out of a process: Svc_Handler::push_send_buffer on *)
(* the threads that send (the V8 thread, a gate's plugin thread), and      *)
(* handle_send on the network thread, which its 10 ms timer calls for a    *)
(* connection whose send_data_ is set.  One connection; its buffer list    *)
(* locks each of its operations, the flags send_data_ and closed_ are      *)
(* plain variables that all threads read and write.                        *)
(*                                                                         *)
(* A frame is what one push puts in the list, FrameLen bytes of it; the    *)
(* headers that Svc_Http and Svc_Websocket wrap around a message count as  *)
(* part of its frame.                                                      *)
(***************************************************************************)
EXTENDS Integers, Sequences, FiniteSets, SequencesExt

CONSTANTS
    Sender,      \* the threads that send on the connection
    Protocols,   \* the protocols of the endpoint: "tcp" gathers frames and
                 \* resumes them, "frame" is HTTP and WebSocket: one write
                 \* per frame
    Client,      \* Svc::client_: the peer is a game client
    MaxList,     \* max_list_size_ of the handler
    IovMax,      \* IOV_MAX, the most buffers one writev takes
    FrameLen,    \* length of a frame in bytes
    MaxFrames,   \* bound: most frames pushed in all
    MaxWire      \* bound: most bytes written in all

ASSUME SendAssumption ==
    /\ Protocols \subseteq {"tcp", "frame"} /\ Client \in BOOLEAN
    /\ MaxList \in Nat \ {0} /\ IovMax \in Nat \ {0}
    /\ FrameLen \in Nat \ {0} /\ MaxFrames \in Nat /\ MaxWire \in Nat
    /\ IsFiniteSet(Sender)

VARIABLES
    protocol,   \* which handler create_handler has given the connection
    send_list,  \* send_buffer_list_: [frame, read_idx] for every buffer
    send_data,  \* Svc::send_data_
    closed,     \* Svc::closed_
    drops,      \* how often this connection was put on the drop list
    sender,     \* where each sending thread is
    net,        \* where the network thread is
    gathered,   \* network thread: how many buffers the last write was given
    written,    \* and how many bytes of them it took
    wire,       \* the bytes the socket has taken: <<frame, position>>
    pushed      \* history: how many frames the list has taken

svc_vars == <<send_list, send_data, closed, drops>>
net_vars == <<net, gathered, written>>
vars == <<protocol, svc_vars, sender, net_vars, wire, pushed>>

SenderPc == {"idle", "open", "room", "full", "pushed", "closing", "closed"}
NetPc == {"idle", "called", "loop", "written", "error", "closing", "closed",
          "clear"}

TypeOK ==
    /\ protocol \in Protocols
    /\ send_list \in Seq([frame : 1 .. MaxFrames, read_idx : 0 .. FrameLen - 1])
    /\ send_data \in BOOLEAN /\ closed \in BOOLEAN
    /\ drops \in 0 .. Cardinality(Sender) + 1
    /\ sender \in [Sender -> SenderPc] /\ net \in NetPc
    /\ gathered \in 0 .. IovMax /\ written \in 0 .. IovMax * FrameLen
    /\ wire \in Seq((1 .. MaxFrames) \X (1 .. FrameLen))
    /\ pushed \in 0 .. MaxFrames

Init ==
    /\ protocol \in Protocols
    /\ send_list = <<>> /\ send_data = FALSE
    /\ closed = FALSE /\ drops = 0
    /\ sender = [s \in Sender |-> "idle"]
    /\ net = "idle" /\ gathered = 0 /\ written = 0
    /\ wire = <<>> /\ pushed = 0

-----------------------------------------------------------------------------
GoTo(s, pc) == sender' = [sender EXCEPT ![s] = pc]

(***************************************************************************)
(* Sending thread, push_send_buffer of Svc: closed_ is tested first.       *)
(***************************************************************************)
BeginPush(s) ==
    /\ sender[s] = "idle" /\ ~closed
    /\ pushed + Cardinality({t \in Sender : sender[t] \in {"open", "room"}})
          < MaxFrames
    /\ GoTo(s, "open")
    /\ UNCHANGED <<svc_vars, net_vars, wire, pushed>>

\* Mutant of TestSize: off by one at the limit.
TestSizeOffByOne(s) ==
    /\ sender[s] = "open"
    /\ GoTo(s, IF Client /\ Len(send_list) > MaxList THEN "full" ELSE "room")
    /\ UNCHANGED <<svc_vars, net_vars, wire, pushed>>

(***************************************************************************)
(* Then the handler asks for the list's size, in a lock of its own.        *)
(***************************************************************************)
TestSize(s) ==
    /\ sender[s] = "open"
    /\ GoTo(s, IF Client /\ Len(send_list) >= MaxList THEN "full" ELSE "room")
    /\ UNCHANGED <<svc_vars, net_vars, wire, pushed>>

PushBack(s) ==
    /\ sender[s] = "room"
    /\ send_list' = Append(send_list, [frame |-> pushed + 1, read_idx |-> 0])
    /\ pushed' = pushed + 1
    /\ GoTo(s, "pushed")
    /\ UNCHANGED <<send_data, closed, drops, net_vars, wire>>

SetSendData(s) ==
    /\ sender[s] = "pushed"
    /\ send_data' = TRUE
    /\ GoTo(s, "idle")
    /\ UNCHANGED <<send_list, closed, drops, net_vars, wire, pushed>>

\* Mutant of SenderTestClosed: closed_ is set before it is tested.
SenderSetsClosedFirst(s) ==
    /\ sender[s] = "full"
    /\ closed' = TRUE
    /\ GoTo(s, "idle")
    /\ UNCHANGED <<send_list, send_data, drops, net_vars, wire, pushed>>

(***************************************************************************)
(* A full list closes the connection: handle_close tests closed_, sets it, *)
(* and queues the drop.                                                    *)
(***************************************************************************)
SenderTestClosed(s) ==
    /\ sender[s] = "full"
    /\ GoTo(s, IF closed THEN "idle" ELSE "closing")
    /\ UNCHANGED <<svc_vars, net_vars, wire, pushed>>

SenderClose(s) ==
    /\ sender[s] = "closing"
    /\ closed' = TRUE
    /\ GoTo(s, "closed")
    /\ UNCHANGED <<send_list, send_data, drops, net_vars, wire, pushed>>

SenderQueuesDrop(s) ==
    /\ sender[s] = "closed"
    /\ drops' = drops + 1
    /\ GoTo(s, "idle")
    /\ UNCHANGED <<send_list, send_data, closed, net_vars, wire, pushed>>

-----------------------------------------------------------------------------
(***************************************************************************)
(* Network thread, handle_timeout: an open connection with send_data_ set. *)
(***************************************************************************)
TimeoutSends ==
    /\ net = "idle" /\ ~closed /\ send_data
    /\ net' = "called"
    /\ UNCHANGED <<svc_vars, sender, gathered, written, wire, pushed>>

(***************************************************************************)
(* handle_send tests closed_ again; -1 clears the flag like 0 does.        *)
(***************************************************************************)
HandleSend ==
    /\ net = "called"
    /\ net' = IF closed THEN "clear" ELSE "loop"
    /\ UNCHANGED <<svc_vars, sender, gathered, written, wire, pushed>>

ListEmpty ==
    /\ net = "loop" /\ send_list = <<>>
    /\ net' = "clear"
    /\ UNCHANGED <<svc_vars, sender, gathered, written, wire, pushed>>

Unsent(buf) ==
    [k \in 1 .. FrameLen - buf.read_idx |-> <<buf.frame, buf.read_idx + k>>]

Bytes(bufs) == FlattenSeq([i \in DOMAIN bufs |-> Unsent(bufs[i])])

(***************************************************************************)
(* What one system call is given: the first IOV_MAX buffers (Svc_Tcp), or  *)
(* the first one, always from its beginning (Svc_Http, Svc_Websocket).     *)
(***************************************************************************)
Iov == IF protocol = "tcp"
         THEN SubSeq(send_list, 1, IF Len(send_list) < IovMax
                                     THEN Len(send_list) ELSE IovMax)
         ELSE <<Head(send_list)>>

(***************************************************************************)
(* The socket takes some of the bytes.                                     *)
(***************************************************************************)
Write ==
    /\ net = "loop" /\ send_list # <<>>
    /\ gathered' = Len(Iov)
    /\ \E n \in 1 .. Len(Bytes(Iov)) :
          /\ Len(wire) + n <= MaxWire
          /\ wire' = wire \o SubSeq(Bytes(Iov), 1, n)
          /\ written' = n
    /\ net' = "written"
    /\ UNCHANGED <<svc_vars, sender, pushed>>

(***************************************************************************)
(* The socket takes none: handle_send returns 1 and the flag stays.        *)
(***************************************************************************)
WouldBlock ==
    /\ net = "loop" /\ send_list # <<>>
    /\ net' = "idle"
    /\ UNCHANGED <<svc_vars, sender, gathered, written, wire, pushed>>

WriteFails ==
    /\ net = "loop" /\ send_list # <<>>
    /\ net' = "error"
    /\ UNCHANGED <<svc_vars, sender, gathered, written, wire, pushed>>

Gathered == SubSeq(send_list, 1, gathered)

\* Mutant of PopWrittenTcp: the offset into the first unfinished buffer is lost.
PopWrittenTcpNoOffset ==
    /\ net = "written" /\ protocol = "tcp"
    /\ LET count == Cardinality({i \in 1 .. gathered :
                            Len(Bytes(SubSeq(Gathered, 1, i))) <= written})
       IN  /\ send_list' = SubSeq(send_list, count + 1, Len(send_list))
           /\ net' = IF count = gathered THEN "loop" ELSE "idle"
    /\ gathered' = 0 /\ written' = 0
    /\ UNCHANGED <<send_data, closed, drops, sender, wire, pushed>>

(***************************************************************************)
(* Svc_Tcp after a write: the buffers it covers leave the list, the next   *)
(* one remembers how far it got.  Frames pushed meanwhile are behind them. *)
(* After a write of everything the loop goes on, else handle_send returns. *)
(***************************************************************************)
PopWrittenTcp ==
    /\ net = "written" /\ protocol = "tcp"
    /\ LET count == Cardinality({i \in 1 .. gathered :
                            Len(Bytes(SubSeq(Gathered, 1, i))) <= written})
           offset == written - Len(Bytes(SubSeq(Gathered, 1, count)))
           rest == SubSeq(send_list, count + 1, Len(send_list))
       IN  /\ send_list' = IF offset = 0 THEN rest
                             ELSE [rest EXCEPT ![1].read_idx = @ + offset]
           /\ net' = IF count = gathered THEN "loop" ELSE "idle"
    /\ gathered' = 0 /\ written' = 0
    /\ UNCHANGED <<send_data, closed, drops, sender, wire, pushed>>

\* Mutant of PopWrittenFrame: a frame leaves the list after any write.
PopWrittenFrameAlways ==
    /\ net = "written" /\ protocol = "frame"
    /\ send_list' = Tail(send_list) /\ net' = "loop"
    /\ gathered' = 0 /\ written' = 0
    /\ UNCHANGED <<send_data, closed, drops, sender, wire, pushed>>

(***************************************************************************)
(* Svc_Http and Svc_Websocket: a frame written in part stays as it was.    *)
(***************************************************************************)
PopWrittenFrame ==
    /\ net = "written" /\ protocol = "frame"
    /\ \/ /\ written = FrameLen
          /\ send_list' = Tail(send_list) /\ net' = "loop"
       \/ /\ written < FrameLen
          /\ UNCHANGED send_list /\ net' = "idle"
    /\ gathered' = 0 /\ written' = 0
    /\ UNCHANGED <<send_data, closed, drops, sender, wire, pushed>>

(***************************************************************************)
(* handle_close on the network thread, after which the flag is cleared.    *)
(***************************************************************************)
NetTestClosed ==
    /\ net = "error"
    /\ net' = IF closed THEN "clear" ELSE "closing"
    /\ UNCHANGED <<svc_vars, sender, gathered, written, wire, pushed>>

NetClose ==
    /\ net = "closing"
    /\ closed' = TRUE
    /\ net' = "closed"
    /\ UNCHANGED <<send_list, send_data, drops, sender, gathered, written, wire,
                   pushed>>

NetQueuesDrop ==
    /\ net = "closed"
    /\ drops' = drops + 1
    /\ net' = "clear"
    /\ UNCHANGED <<send_list, send_data, closed, sender, gathered, written, wire,
                   pushed>>

(***************************************************************************)
(* handle_timeout on a result of 0 or less.                                *)
(***************************************************************************)
ClearSendData ==
    /\ net = "clear"
    /\ send_data' = FALSE
    /\ net' = "idle"
    /\ UNCHANGED <<send_list, closed, drops, sender, gathered, written, wire, pushed>>

Next ==
    /\ \/ \E s \in Sender : \/ BeginPush(s) \/ TestSize(s) \/ PushBack(s)
                            \/ SetSendData(s) \/ SenderTestClosed(s)
                            \/ SenderClose(s) \/ SenderQueuesDrop(s)
       \/ TimeoutSends \/ HandleSend \/ ListEmpty
       \/ Write \/ WouldBlock \/ WriteFails
       \/ PopWrittenTcp \/ PopWrittenFrame
       \/ NetTestClosed \/ NetClose \/ NetQueuesDrop \/ ClearSendData
    /\ UNCHANGED protocol

Spec == Init /\ [][Next]_vars

-----------------------------------------------------------------------------
(***************************************************************************)
(* The bytes of all frames in the order in which the list took them.       *)
(***************************************************************************)
Stream == Bytes([f \in 1 .. pushed |-> [frame |-> f, read_idx |-> 0]])

(***************************************************************************)
(* Whatever the socket takes per call, and whatever is pushed meanwhile,   *)
(* the bytes on the wire and the bytes still in the list make up the       *)
(* stream: no byte is lost, repeated or reordered (Svc_Tcp::handle_send,   *)
(* Buffer_List::pop_front).  Between a write and its pop the written bytes *)
(* are in both places.                                                     *)
(***************************************************************************)
NothingLostOrRepeated ==
    protocol = "tcp" =>
        LET unsent == Bytes(send_list)
        IN  wire \o SubSeq(unsent, written + 1, Len(unsent)) = Stream

(***************************************************************************)
(* The test of the list's size and the push are separate steps, so every   *)
(* sending thread but one can push past the limit, and no more than that   *)
(* (push_send_buffer).                                                     *)
(***************************************************************************)
ListBounded ==
    Client => Len(send_list) <= MaxList + Cardinality(Sender) - 1

(***************************************************************************)
(* Several threads may race to close a connection.  One of them queues the *)
(* drop: a closed connection is queued, or a thread is about to queue it;  *)
(* and none queues it for a connection still open (handle_close).          *)
(***************************************************************************)
ClosedIsQueued ==
    closed <=> \/ drops > 0
               \/ net = "closed"
               \/ \E s \in Sender : sender[s] = "closed"

(***************************************************************************)
(* With one write per frame, a frame leaves the list only when the wire    *)
(* has all its bytes in one piece, whatever fragments of it went before    *)
(* (Svc_Http::handle_send, Svc_Websocket::handle_send).                    *)
(***************************************************************************)
FramesLeaveWhole ==
    protocol = "frame" =>
        LET listed == {send_list[i].frame : i \in DOMAIN send_list}
            whole(f) == Unsent([frame |-> f, read_idx |-> 0])
        IN  \A f \in 1 .. pushed :
                \/ f \in listed
                \/ \E i \in 1 .. Len(wire) :
                       IsPrefix(whole(f), SubSeq(wire, i, Len(wire)))

(***************************************************************************)
(* Svc::send_data_ tells whether there is data to send: when no thread is  *)
(* at work on the connection, frames in its list imply the flag.  Without  *)
(* it the network's timer passes the connection over (handle_timeout).     *)
(***************************************************************************)
SendDataMeansData ==
    (net = "idle" /\ ~closed /\ \A s \in Sender : sender[s] = "idle")
        => (send_list # <<>> => send_data)

(***************************************************************************)
(* What the peer has read so far is a prefix of the frames sent, whole     *)
(* frames first: a frame written in part is resumed where it stopped.      *)
(***************************************************************************)
WireIsPrefix == IsPrefix(wire, Stream)
=============================================================================
