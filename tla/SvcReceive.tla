----------------------------- MODULE SvcReceive ------------------------------
(***************************************************************************)
(* The way of a package into a process: Svc::handle_input reads whatever   *)
(* the socket has, Svc_Tcp::handle_pack cuts it into packages and joins    *)
(* what was split.  Both run on the network thread, in one call.           *)
(*                                                                         *)
(* A package has a header of two bytes (RPC_PKG) or four (TYPE_PKG) that   *)
(* announces its kind and the length of its data.  A byte is known by the  *)
(* package it belongs to and its place in it; a buffer is the sequence of  *)
(* its readable bytes, the eid and cid in front of them left out.          *)
(***************************************************************************)
EXTENDS Integers, Sequences, SequencesExt

CONSTANTS
    Kinds,        \* the kinds of package the peer sends: "rpc", "type", or
                  \* "none" for header flags that are neither
    Lengths,      \* the lengths its headers announce
    MaxPack,      \* max_pack_size_ of the handler
    MaxPackages   \* bound: most packages the peer sends

ASSUME ReceiveAssumption ==
    /\ Kinds \subseteq {"rpc", "type", "none"}
    /\ Lengths \subseteq Nat /\ MaxPack \in Nat /\ MaxPackages \in Nat

VARIABLES
    sent,        \* the packages the peer has sent: [kind, len]
    peer_shut,   \* the peer has closed its end
    received,    \* how many bytes of its stream handle_input has kept
    recv_list,   \* recv_buffer_list_
    receive_closed,      \* Svc::closed_
    delivered    \* what post_buffer has passed on to the V8 thread

receive_vars == <<sent, peer_shut, received, recv_list, receive_closed, delivered>>

HeaderSize(kind) == IF kind = "type" THEN 4 ELSE 2

Package == [kind : Kinds, len : Lengths]

PackageBytes(i) ==
    [k \in 1 .. HeaderSize(sent[i].kind) + sent[i].len |-> <<i, k>>]

(***************************************************************************)
(* All the peer has sent, as the socket carries it.                        *)
(***************************************************************************)
Arriving == FlattenSeq([i \in DOMAIN sent |-> PackageBytes(i)])

IsBuffer(buf) == \A k \in DOMAIN buf : buf[k] \in (1 .. Len(sent)) \X (Nat \ {0})

receiveTypeOK ==
    /\ sent \in Seq(Package) /\ Len(sent) <= MaxPackages
    /\ peer_shut \in BOOLEAN /\ receive_closed \in BOOLEAN
    /\ received \in 0 .. Len(Arriving)
    /\ \A i \in DOMAIN recv_list : IsBuffer(recv_list[i])
    /\ \A i \in DOMAIN delivered : IsBuffer(delivered[i])

receiveInit ==
    /\ sent = <<>> /\ peer_shut = FALSE
    /\ received = 0
    /\ recv_list = <<>>
    /\ receive_closed = FALSE
    /\ delivered = <<>>

-----------------------------------------------------------------------------
(***************************************************************************)
(* The length found in the header at the front of a buffer of two bytes or *)
(* more; 0 when the flags are neither kind's.  peek_uint32 leaves its      *)
(* result at 0 when the buffer holds less than four bytes.                 *)
(***************************************************************************)
PeekLength(buf) ==
    LET p == sent[buf[1][1]]
    IN  CASE p.kind = "rpc"                     -> p.len
          [] p.kind = "type" /\ Len(buf) >= 4   -> p.len
          [] p.kind = "type" /\ Len(buf) < 4    -> 0
          [] p.kind = "none"                    -> 0

\* Mutant of Merge: the second buffer is put in front of the first.
MergeSwapped(s) ==
    IF Len(s.list) < 2 THEN [s EXCEPT !.stop = TRUE]
    ELSE [s EXCEPT !.list = <<s.list[2] \o s.list[1]>> \o SubSeq(s.list, 3, Len(s.list))]

(***************************************************************************)
(* merge_first_second: without a second buffer the loop returns.           *)
(***************************************************************************)
Merge(s) ==
    IF Len(s.list) < 2 THEN [s EXCEPT !.stop = TRUE]
    ELSE [s EXCEPT !.list = <<s.list[1] \o s.list[2]>> \o SubSeq(s.list, 3, Len(s.list))]

Invalid(s) == [s EXCEPT !.list = Tail(s.list), !.close = TRUE, !.stop = TRUE]

(***************************************************************************)
(* The front buffer holds a package of this size, and perhaps more.        *)
(***************************************************************************)
Cut(s, size) ==
    LET front == Head(s.list)
    IN  [s EXCEPT !.out = Append(@, SubSeq(front, 1, size)),
                  !.list = IF Len(front) = size THEN Tail(s.list)
                           ELSE <<SubSeq(front, size + 1, Len(front))>> \o Tail(s.list)]

\* Mutant of UnpackTurn: off by one at max_pack_size_.
UnpackTurnStrict(s) ==
    LET front == Head(s.list)
        len == PeekLength(front)
        size == HeaderSize(sent[front[1][1]].kind) + len
    IN  IF s.stop                               THEN s
        ELSE IF s.list = <<>>                   THEN [s EXCEPT !.stop = TRUE]
        ELSE IF front = <<>>                    THEN Invalid(s)
        ELSE IF Len(front) = 1                  THEN Merge(s)
        ELSE IF len = 0 \/ len >= MaxPack       THEN Invalid(s)
        ELSE IF Len(front) < size               THEN Merge(s)
        ELSE                                         Cut(s, size)

(***************************************************************************)
(* One turn of the loop of handle_pack.                                    *)
(***************************************************************************)
UnpackTurn(s) ==
    LET front == Head(s.list)
        len == PeekLength(front)
        size == HeaderSize(sent[front[1][1]].kind) + len
    IN  IF s.stop                               THEN s
        ELSE IF s.list = <<>>                   THEN [s EXCEPT !.stop = TRUE]
        ELSE IF front = <<>>                    THEN Invalid(s)
        ELSE IF Len(front) = 1                  THEN Merge(s)
        ELSE IF len = 0 \/ len > MaxPack        THEN Invalid(s)
        ELSE IF Len(front) < size               THEN Merge(s)
        ELSE                                         Cut(s, size)

(***************************************************************************)
(* handle_pack on a list of buffers.  Each turn takes a buffer or at least *)
(* two bytes away, so the turns are bounded by both together.              *)
(***************************************************************************)
HandlePack(list) ==
    LET turns == Len(list) + Len(FlattenSeq(list)) + 1
        after[n \in 0 .. turns] ==
            IF n = 0 THEN [list |-> list, out |-> <<>>, close |-> FALSE, stop |-> FALSE]
            ELSE UnpackTurn(after[n - 1])
    IN  after[turns]

-----------------------------------------------------------------------------
PeerSends ==
    /\ ~peer_shut /\ Len(sent) < MaxPackages
    /\ \E p \in Package : sent' = Append(sent, p)
    /\ UNCHANGED <<peer_shut, received, recv_list, receive_closed, delivered>>

PeerShuts ==
    /\ ~peer_shut
    /\ peer_shut' = TRUE
    /\ UNCHANGED <<sent, received, recv_list, receive_closed, delivered>>

(***************************************************************************)
(* handle_input reads until the socket has no more for now, pushes the     *)
(* buffer and unpacks; what was unpacked is posted even when handle_pack   *)
(* has closed the connection.                                              *)
(***************************************************************************)
HandleInput ==
    /\ ~receive_closed
    /\ \E n \in 1 .. Len(Arriving) - received :
          LET chunk == SubSeq(Arriving, received + 1, received + n)
              result == HandlePack(Append(recv_list, chunk))
          IN  /\ received' = received + n
              /\ recv_list' = result.list
              /\ receive_closed' = result.close
              /\ delivered' = delivered \o result.out
    /\ UNCHANGED <<sent, peer_shut>>

(***************************************************************************)
(* handle_input meets the end of the stream, or an error: what this call   *)
(* has read goes back to the pool and the connection is closed.                    *)
(***************************************************************************)
HandleInputEof ==
    /\ ~receive_closed /\ peer_shut
    /\ receive_closed' = TRUE
    /\ UNCHANGED <<sent, peer_shut, received, recv_list, delivered>>

receiveNext == PeerSends \/ PeerShuts \/ HandleInput \/ HandleInputEof

receiveSpec == receiveInit /\ [][receiveNext]_receive_vars

-----------------------------------------------------------------------------
IsValid(p) == p.kind # "none" /\ p.len \in 1 .. MaxPack

(***************************************************************************)
(* The reference: the packages before the first invalid one, as far as     *)
(* they have been received in full.                                        *)
(***************************************************************************)
Whole(i) ==
    /\ \A j \in 1 .. i : IsValid(sent[j])
    /\ Len(FlattenSeq([j \in 1 .. i |-> PackageBytes(j)])) <= received

Expected == [i \in {i \in DOMAIN sent : Whole(i)} |-> PackageBytes(i)]

(***************************************************************************)
(* However the socket splits and joins the peer's stream, the packages     *)
(* posted are the peer's, whole, in order, none twice and none joined with *)
(* the next (handle_pack).  Nothing is held back: as long as the           *)
(* connection is open, what has been received in full has been posted, so  *)
(* that a request never waits for the peer's next one.                     *)
(***************************************************************************)
PackagesIntact ==
    /\ IsPrefix(delivered, [i \in DOMAIN sent |-> PackageBytes(i)])
    /\ ~receive_closed => delivered = Expected

(***************************************************************************)
(* Where every header has two bytes, the loop waits for one that comes in  *)
(* two parts: a peer that sends valid packages keeps its connection,       *)
(* however they are split, up to a length of max_pack_size_ (handle_pack). *)
(***************************************************************************)
RpcStaysOpen ==
    receive_closed => \/ peer_shut
              \/ \E i \in DOMAIN sent : sent[i].kind # "rpc" \/ ~IsValid(sent[i])

(***************************************************************************)
(* A connection is closed on an invalid package only: while the peer is    *)
(* connected and has sent valid packages, it stays open (handle_pack).     *)
(***************************************************************************)
ValidStaysOpen ==
    receive_closed => peer_shut \/ \E i \in DOMAIN sent : ~IsValid(sent[i])
=============================================================================
