----------------------------- MODULE SvcIOProofs ------------------------------
(***************************************************************************)
(* What the two ways of a Svc promise.  Out, for every number of senders,  *)
(* every limit, any length of frames and either protocol: the list stays   *)
(* within its limit, a closed connection is queued, TCP carries the bytes  *)
(* of all frames in order, and with one write per frame a frame leaves the *)
(* list only when it is on the wire.  In, for any kinds and lengths of     *)
(* packages and any limit: however the stream is split, the packages are   *)
(* posted whole and in order, and none is held back.  The same for the     *)
(* masked frames of a WebSocket, for every payload and key.                *)
(*                                                                         *)
(* The limit is no inductive invariant: a thread past the size test has    *)
(* not pushed yet.  RoomReserved counts these threads with the list.  The  *)
(* statements on bytes, out and in, rest on how FlattenSeq joins the bytes *)
(* of buffers, which is an induction over the list; those on reads rest on *)
(* the loop of handle_pack, an induction over its turns.                   *)
(***************************************************************************)
EXTENDS SvcSend, SvcReceive, WebSocket, FiniteSetTheorems, SequenceTheorems, WellFoundedInduction, TLAPS

InRoom == {s \in Sender : sender[s] = "room"}

RoomReserved ==
    Client => Len(send_list) + Cardinality(InRoom)
                 <= MaxList + Cardinality(Sender) - 1

IInv ==
    /\ \E S : send_list \in Seq(S)
    /\ gathered \in Nat
    /\ sender \in [Sender -> SenderPc]
    /\ RoomReserved

(***************************************************************************)
(* Arithmetic of the two finite sets.                                      *)
(***************************************************************************)
LEMMA InRoomCounts ==
    /\ IsFiniteSet(InRoom)
    /\ Cardinality(InRoom) \in Nat /\ Cardinality(Sender) \in Nat
    /\ Cardinality(InRoom) <= Cardinality(Sender)
<1>1. IsFiniteSet(Sender)
  BY SendAssumption
<1>2. InRoom \subseteq Sender
  BY DEF InRoom
<1> QED
  BY <1>1, <1>2, FS_Subset, FS_CardinalityType

(***************************************************************************)
(* A pop takes buffers from the front: the rest is a sequence no longer    *)
(* than the list was.                                                      *)
(***************************************************************************)
LEMMA RestIsShorter ==
    ASSUME NEW S, NEW list \in Seq(S), NEW count \in Nat
    PROVE  /\ SubSeq(list, count + 1, Len(list)) \in Seq(S)
           /\ Len(SubSeq(list, count + 1, Len(list))) \in Nat
           /\ Len(SubSeq(list, count + 1, Len(list))) <= Len(list)
<1>1. Len(list) \in Nat
  BY LenProperties
<1>2. CASE count + 1 <= Len(list)
  BY <1>1, <1>2, SubSeqProperties
<1>3. CASE ~(count + 1 <= Len(list))
  <2>1. SubSeq(list, count + 1, Len(list)) = << >>
    BY <1>1, <1>3
  <2> QED
    BY <1>1, <2>1
<1> QED
  BY <1>2, <1>3

(***************************************************************************)
(* A new read_idx in a buffer changes no length.                           *)
(***************************************************************************)
LEMMA ExceptKeepsLength ==
    ASSUME NEW S, NEW list \in Seq(S), NEW buffer
    PROVE  /\ \E T : [list EXCEPT ![1] = buffer] \in Seq(T)
           /\ Len([list EXCEPT ![1] = buffer]) = Len(list)
<1> DEFINE T == S \cup {buffer}
<1>1. list \in Seq(T) /\ Len(list) \in Nat
  <2>1. Len(list) \in Nat /\ list \in [1 .. Len(list) -> S]
    BY LenProperties
  <2>2. list \in [1 .. Len(list) -> T]
    BY <2>1
  <2> QED
    BY <2>1, <2>2, IsASeq
<1>2. [list EXCEPT ![1] = buffer] \in [1 .. Len(list) -> T]
  <2>1. list \in [1 .. Len(list) -> T]
    BY <1>1, LenProperties
  <2> QED
    BY <2>1
<1>3. [list EXCEPT ![1] = buffer] \in Seq(T)
  BY <1>1, <1>2, IsASeq
<1>4. DOMAIN [list EXCEPT ![1] = buffer] = 1 .. Len(list)
  BY <1>2
<1> QED
  BY <1>1, <1>3, <1>4, LenProperties

-----------------------------------------------------------------------------
LEMMA InitHolds == Init => IInv
<1> SUFFICES ASSUME Init PROVE IInv
  OBVIOUS
<1>1. send_list \in Seq({})
  BY DEF Init
<1>2. sender \in [Sender -> SenderPc]
  BY DEF Init, SenderPc
<1>3. InRoom = {}
  BY DEF Init, InRoom
<1>4. Cardinality(InRoom) = 0
  BY <1>3, FS_EmptySet
<1>5. Len(send_list) = 0
  BY DEF Init
<1>6. RoomReserved
  BY <1>4, <1>5, InRoomCounts, SendAssumption DEF RoomReserved
<1> QED
  BY <1>1, <1>2, <1>6 DEF Init, IInv

(***************************************************************************)
(* Steps that leave the list and the set of threads past the test alone.   *)
(***************************************************************************)
LEMMA Untouched ==
    ASSUME IInv, send_list' = send_list, gathered' \in Nat,
           sender' \in [Sender -> SenderPc], InRoom' = InRoom
    PROVE  IInv'
<1>1. \E S : send_list' \in Seq(S)
  BY DEF IInv
<1>2. RoomReserved'
  BY DEF IInv, RoomReserved
<1> QED
  BY <1>1, <1>2 DEF IInv

(***************************************************************************)
(* A thread that moves between two places other than "room" leaves the     *)
(* set alone.                                                              *)
(***************************************************************************)
LEMMA MoveOutsideRoom ==
    ASSUME IInv, NEW s \in Sender, NEW pc \in SenderPc \ {"room"},
           sender[s] # "room", GoTo(s, pc)
    PROVE  sender' \in [Sender -> SenderPc] /\ InRoom' = InRoom
<1>1. sender \in [Sender -> SenderPc]
  BY DEF IInv
<1>2. sender' = [sender EXCEPT ![s] = pc]
  BY DEF GoTo
<1>3. \A t \in Sender : sender'[t] = "room" <=> sender[t] = "room"
  BY <1>1, <1>2
<1> QED
  BY <1>1, <1>2, <1>3 DEF InRoom

LEMMA TestSizePreserves ==
    ASSUME IInv, NEW s \in Sender, TestSize(s)
    PROVE  IInv'
<1>1. CASE Client /\ Len(send_list) >= MaxList
  <2>1. GoTo(s, "full") /\ sender[s] # "room" /\ send_list' = send_list
        /\ gathered' = gathered
    BY <1>1 DEF TestSize, svc_vars, net_vars
  <2>2. "full" \in SenderPc \ {"room"}
    BY DEF SenderPc
  <2>3. sender' \in [Sender -> SenderPc] /\ InRoom' = InRoom
    BY <2>1, <2>2, MoveOutsideRoom
  <2> QED
    BY <2>1, <2>3, Untouched DEF IInv
<1>2. CASE ~(Client /\ Len(send_list) >= MaxList)
  <2>1. /\ sender' = [sender EXCEPT ![s] = "room"]
        /\ sender[s] = "open" /\ send_list' = send_list /\ gathered' = gathered
    BY <1>2 DEF TestSize, GoTo, svc_vars, net_vars
  <2>2. sender' \in [Sender -> SenderPc]
    BY <2>1 DEF IInv, SenderPc
  <2>3. InRoom' = InRoom \cup {s} /\ s \notin InRoom
    BY <2>1 DEF IInv, InRoom
  <2>4. Cardinality(InRoom \cup {s}) = Cardinality(InRoom) + 1
    BY <2>3, InRoomCounts, FS_AddElement
  <2>5. Cardinality(InRoom \cup {s}) <= Cardinality(Sender)
    <3>1. InRoom \cup {s} \subseteq Sender
      BY DEF InRoom
    <3> QED
      BY <3>1, SendAssumption, FS_Subset
  <2>6. Len(send_list) \in Nat
    BY LenProperties DEF IInv
  <2>7. RoomReserved'
    <3>1. Cardinality(InRoom') = Cardinality(InRoom) + 1
      BY <2>3, <2>4
    <3>2. Client => Len(send_list) <= MaxList - 1
      BY <1>2, <2>6, SendAssumption
    <3>3. Client => Len(send_list) + Cardinality(InRoom')
                       <= MaxList + Cardinality(Sender) - 1
      BY <2>4, <2>5, <2>6, <3>1, <3>2, InRoomCounts, SendAssumption
    <3> QED
      BY <2>1, <3>3 DEF RoomReserved
  <2> QED
    BY <2>1, <2>2, <2>7 DEF IInv
<1> QED
  BY <1>1, <1>2

LEMMA PushBackPreserves ==
    ASSUME IInv, NEW s \in Sender, PushBack(s)
    PROVE  IInv'
<1> DEFINE buffer == [frame |-> pushed + 1, read_idx |-> 0]
<1>1. /\ sender' = [sender EXCEPT ![s] = "pushed"]
      /\ sender[s] = "room"
      /\ send_list' = Append(send_list, buffer) /\ gathered' = gathered
  BY DEF PushBack, GoTo, net_vars
<1>2. sender' \in [Sender -> SenderPc]
  BY <1>1 DEF IInv, SenderPc
<1>3. PICK S : send_list \in Seq(S)
  BY DEF IInv
<1> HIDE DEF buffer
<1>4. /\ send_list' \in Seq(S \cup {buffer})
      /\ Len(send_list') = Len(send_list) + 1 /\ Len(send_list) \in Nat
  <2>1. Len(send_list) \in Nat /\ send_list \in [1 .. Len(send_list) -> S]
    BY <1>3, LenProperties
  <2>2. send_list \in Seq(S \cup {buffer})
    <3>1. send_list \in [1 .. Len(send_list) -> S \cup {buffer}]
      BY <2>1
    <3> QED
      BY <2>1, <3>1, IsASeq
  <2> QED
    BY <1>1, <2>1, <2>2, AppendProperties
<1>5. InRoom' = InRoom \ {s} /\ s \in InRoom
  BY <1>1 DEF IInv, InRoom
<1>6. Cardinality(InRoom') = Cardinality(InRoom) - 1
  BY <1>5, InRoomCounts, FS_RemoveElement
<1>7. RoomReserved'
  BY <1>4, <1>6, InRoomCounts, SendAssumption DEF IInv, RoomReserved
<1> QED
  BY <1>1, <1>2, <1>4, <1>7 DEF IInv

(***************************************************************************)
(* Any step of the network thread that replaces the list by one no longer. *)
(***************************************************************************)
LEMMA ShorterListPreserves ==
    ASSUME IInv, NEW S, send_list' \in Seq(S),
           Len(send_list') <= Len(send_list),
           sender' = sender, gathered' \in Nat
    PROVE  IInv'
<1>1. InRoom' = InRoom
  BY DEF InRoom
<1>2. Len(send_list) \in Nat /\ Len(send_list') \in Nat
  BY LenProperties DEF IInv
<1>3. RoomReserved'
  BY <1>1, <1>2, InRoomCounts, SendAssumption DEF IInv, RoomReserved
<1> QED
  BY <1>3 DEF IInv

LEMMA PopWrittenTcpPreserves == ASSUME IInv, PopWrittenTcp PROVE IInv'
<1> DEFINE
      covered == {i \in 1 .. gathered :
                    Len(Bytes(SubSeq(Gathered, 1, i))) <= written}
      count == Cardinality(covered)
      offset == written - Len(Bytes(SubSeq(Gathered, 1, count)))
      rest == SubSeq(send_list, count + 1, Len(send_list))
<1>1. PICK S : send_list \in Seq(S)
  BY DEF IInv
<1>2. count \in Nat
  <2>1. IsFiniteSet(1 .. gathered)
    BY FS_Interval DEF IInv
  <2>2. covered \subseteq 1 .. gathered
    OBVIOUS
  <2> HIDE DEF covered
  <2> QED
    BY <2>1, <2>2, FS_Subset, FS_CardinalityType
<1>3. /\ send_list' = IF offset = 0 THEN rest
                        ELSE [rest EXCEPT ![1].read_idx = @ + offset]
      /\ sender' = sender /\ gathered' = 0
  BY DEF PopWrittenTcp
<1> HIDE DEF covered, count
<1>4. rest \in Seq(S) /\ Len(rest) \in Nat /\ Len(rest) <= Len(send_list)
  BY <1>1, <1>2, RestIsShorter
<1> HIDE DEF offset, rest
<1>5. \E T : send_list' \in Seq(T) /\ Len(send_list') = Len(rest)
  <2>1. CASE offset = 0
    BY <1>3, <1>4, <2>1
  <2>2. CASE offset # 0
    <3>1. send_list' = [rest EXCEPT ![1] = [rest[1] EXCEPT !.read_idx = @ + offset]]
      BY <1>3, <2>2
    <3> QED
      BY <1>4, <3>1, ExceptKeepsLength
  <2> QED
    BY <2>1, <2>2
<1> QED
  BY <1>3, <1>4, <1>5, ShorterListPreserves

LEMMA PopWrittenFramePreserves == ASSUME IInv, PopWrittenFrame PROVE IInv'
<1>1. sender' = sender /\ gathered' = 0
  BY DEF PopWrittenFrame
<1>2. PICK S : send_list \in Seq(S)
  BY DEF IInv
<1>3. CASE send_list' = send_list
  <2>1. Len(send_list') <= Len(send_list)
    BY <1>2, <1>3, LenProperties
  <2> QED
    BY <1>1, <1>2, <1>3, <2>1, ShorterListPreserves
<1>4. CASE send_list' = Tail(send_list)
  <2>1. Tail(send_list) = SubSeq(send_list, 1 + 1, Len(send_list))
    BY <1>2
  <2>2. send_list' \in Seq(S) /\ Len(send_list') <= Len(send_list)
    BY <1>2, <1>4, <2>1, RestIsShorter
  <2> QED
    BY <1>1, <2>2, ShorterListPreserves
<1> QED
  BY <1>3, <1>4 DEF PopWrittenFrame

LEMMA WritePreserves == ASSUME IInv, Write PROVE IInv'
<1>1. send_list' = send_list /\ sender' = sender /\ gathered' = Len(Iov)
  BY DEF Write, svc_vars
<1>2. PICK S : send_list \in Seq(S)
  BY DEF IInv
<1>3. Len(send_list) \in Nat /\ send_list # << >>
  BY <1>2, LenProperties DEF Write
<1>4. Len(Iov) \in Nat
  <2>1. CASE protocol = "tcp"
    <3> DEFINE n == IF Len(send_list) < IovMax THEN Len(send_list) ELSE IovMax
    <3>1. n \in Nat /\ n <= Len(send_list)
      BY <1>3, SendAssumption
    <3>2. Iov = SubSeq(send_list, 1, n)
      BY <2>1 DEF Iov
    <3> HIDE DEF n
    <3>3. CASE n = 0
      BY <3>2, <3>3
    <3>4. CASE n # 0
      <4>1. SubSeq(send_list, 1, n) \in Seq(S)
        BY <1>2, <3>1, <3>4, SubSeqProperties
      <4> QED
        BY <3>2, <4>1, LenProperties
    <3> QED
      BY <3>3, <3>4
  <2>2. CASE protocol # "tcp"
    BY <2>2 DEF Iov
  <2> QED
    BY <2>1, <2>2
<1>5. InRoom' = InRoom
  BY <1>1 DEF InRoom
<1> QED
  BY <1>1, <1>4, <1>5, Untouched DEF IInv

-----------------------------------------------------------------------------
LEMMA NextHolds == IInv /\ [Next]_vars => IInv'
<1> SUFFICES ASSUME IInv, [Next]_vars PROVE IInv'
  OBVIOUS
<1>1. ASSUME NEW s \in Sender, TestSize(s) PROVE IInv'
  BY <1>1, TestSizePreserves
<1>2. ASSUME NEW s \in Sender, PushBack(s) PROVE IInv'
  BY <1>2, PushBackPreserves
<1>3. ASSUME NEW s \in Sender,
             BeginPush(s) \/ SetSendData(s) \/ SenderTestClosed(s)
               \/ SenderClose(s) \/ SenderQueuesDrop(s)
      PROVE  IInv'
  <2>1. /\ send_list' = send_list /\ gathered' = gathered
        /\ sender[s] # "room"
        /\ \E pc \in SenderPc \ {"room"} : GoTo(s, pc)
    BY <1>3 DEF BeginPush, SetSendData, SenderTestClosed, SenderClose,
                SenderQueuesDrop, svc_vars, net_vars, SenderPc
  <2>2. sender' \in [Sender -> SenderPc] /\ InRoom' = InRoom
    BY <2>1, MoveOutsideRoom
  <2> QED
    BY <2>1, <2>2, Untouched DEF IInv
<1>4. CASE PopWrittenTcp
  BY <1>4, PopWrittenTcpPreserves
<1>5. CASE PopWrittenFrame
  BY <1>5, PopWrittenFramePreserves
<1>6. CASE Write
  BY <1>6, WritePreserves
<1>7. CASE \/ TimeoutSends \/ HandleSend \/ ListEmpty \/ WouldBlock
           \/ WriteFails \/ NetTestClosed \/ NetClose \/ NetQueuesDrop
           \/ ClearSendData \/ UNCHANGED vars
  <2>1. send_list' = send_list /\ gathered' = gathered /\ sender' = sender
    BY <1>7 DEF TimeoutSends, HandleSend, ListEmpty, WouldBlock, WriteFails,
                NetTestClosed, NetClose, NetQueuesDrop, ClearSendData, vars,
                svc_vars, net_vars
  <2>2. InRoom' = InRoom
    BY <2>1 DEF InRoom
  <2> QED
    BY <2>1, <2>2, Untouched DEF IInv
<1> QED
  BY <1>1, <1>2, <1>3, <1>4, <1>5, <1>6, <1>7 DEF Next

LEMMA IInvImplies == IInv => ListBounded
<1> SUFFICES ASSUME IInv, Client
             PROVE  Len(send_list) <= MaxList + Cardinality(Sender) - 1
  BY DEF ListBounded
<1>1. Len(send_list) \in Nat
  BY LenProperties DEF IInv
<1> QED
  BY <1>1, InRoomCounts, SendAssumption DEF IInv, RoomReserved

(***************************************************************************)
(* However many threads send on a client's connection and however their    *)
(* size tests and pushes interleave, its send list never holds more than   *)
(* the limit and one frame for each further thread.                        *)
(***************************************************************************)
THEOREM SendListBounded == Spec => []ListBounded
<1>1. Init => IInv
  BY InitHolds
<1>2. IInv /\ [Next]_vars => IInv'
  BY NextHolds
<1>3. IInv => ListBounded
  BY IInvImplies
<1> QED
  BY <1>1, <1>2, <1>3, PTL DEF Spec
-----------------------------------------------------------------------------
(***************************************************************************)
(* ClosedIsQueued is inductive once the counter and the threads' places    *)
(* have their types.                                                       *)
(***************************************************************************)
CInv ==
    /\ drops \in Nat
    /\ closed \in BOOLEAN
    /\ sender \in [Sender -> SenderPc]
    /\ ClosedIsQueued

(***************************************************************************)
(* A step that touches neither flag nor counter, and takes no thread to or *)
(* from the place between closed_ = true and the drop list.                *)
(***************************************************************************)
LEMMA NoOneCloses ==
    ASSUME CInv, drops' = drops, closed' = closed,
           sender' \in [Sender -> SenderPc],
           (net' = "closed") <=> (net = "closed"),
           \A s \in Sender : sender'[s] = "closed" <=> sender[s] = "closed"
    PROVE  CInv'
BY DEF CInv, ClosedIsQueued

LEMMA SenderStepKeepsClosed ==
    ASSUME CInv, NEW s \in Sender,
           BeginPush(s) \/ TestSize(s) \/ PushBack(s) \/ SetSendData(s)
             \/ SenderTestClosed(s)
    PROVE  CInv'
<1>1. /\ drops' = drops /\ closed' = closed /\ net' = net
      /\ sender[s] # "closed"
      /\ \E pc \in SenderPc \ {"closed"} : GoTo(s, pc)
  BY DEF BeginPush, TestSize, PushBack, SetSendData, SenderTestClosed,
         svc_vars, net_vars, SenderPc
<1>2. /\ sender' \in [Sender -> SenderPc]
      /\ \A t \in Sender : sender'[t] = "closed" <=> sender[t] = "closed"
  BY <1>1 DEF CInv, GoTo
<1> QED
  BY <1>1, <1>2, NoOneCloses

LEMMA SenderClosePreserves ==
    ASSUME CInv, NEW s \in Sender, SenderClose(s)
    PROVE  CInv'
<1>1. /\ closed' = TRUE /\ drops' = drops
      /\ sender' = [sender EXCEPT ![s] = "closed"]
  BY DEF SenderClose, GoTo
<1>2. sender' \in [Sender -> SenderPc] /\ sender'[s] = "closed"
  BY <1>1 DEF CInv, SenderPc
<1> QED
  BY <1>1, <1>2 DEF CInv, ClosedIsQueued

LEMMA SenderQueuesDropPreserves ==
    ASSUME CInv, NEW s \in Sender, SenderQueuesDrop(s)
    PROVE  CInv'
<1>1. /\ closed' = closed /\ drops' = drops + 1 /\ sender[s] = "closed"
      /\ sender' = [sender EXCEPT ![s] = "idle"]
  BY DEF SenderQueuesDrop, GoTo
<1>2. sender' \in [Sender -> SenderPc]
  BY <1>1 DEF CInv, SenderPc
<1>3. closed
  BY <1>1 DEF CInv, ClosedIsQueued
<1>4. drops' \in Nat /\ drops' > 0
  BY <1>1 DEF CInv
<1> QED
  BY <1>1, <1>2, <1>3, <1>4 DEF CInv, ClosedIsQueued

LEMMA NetworkStepKeepsClosed ==
    ASSUME CInv,
           \/ TimeoutSends \/ HandleSend \/ ListEmpty \/ Write \/ WouldBlock
           \/ WriteFails \/ PopWrittenTcp \/ PopWrittenFrame \/ NetTestClosed
           \/ ClearSendData \/ UNCHANGED vars
    PROVE  CInv'
<1>1. /\ drops' = drops /\ closed' = closed /\ sender' = sender
      /\ (net' = "closed") <=> (net = "closed")
  BY DEF TimeoutSends, HandleSend, ListEmpty, Write, WouldBlock, WriteFails,
         PopWrittenTcp, PopWrittenFrame, NetTestClosed, ClearSendData, vars,
         svc_vars, net_vars
<1> QED
  BY <1>1, NoOneCloses DEF CInv

LEMMA NetClosePreserves == ASSUME CInv, NetClose PROVE CInv'
BY DEF CInv, NetClose, ClosedIsQueued

LEMMA NetQueuesDropPreserves == ASSUME CInv, NetQueuesDrop PROVE CInv'
<1>1. /\ closed' = closed /\ drops' = drops + 1 /\ net = "closed"
      /\ sender' = sender
  BY DEF NetQueuesDrop
<1>2. closed
  BY <1>1 DEF CInv, ClosedIsQueued
<1>3. drops' \in Nat /\ drops' > 0
  BY <1>1 DEF CInv
<1> QED
  BY <1>1, <1>2, <1>3 DEF CInv, ClosedIsQueued

(***************************************************************************)
(* However the sending threads and the network thread race to close a      *)
(* connection, a closed one is on its drop list, or a thread is about to   *)
(* put it there, and an open one never is (Svc_Handler::handle_close).     *)
(***************************************************************************)
THEOREM ClosedIsAlwaysQueued == Spec => []ClosedIsQueued
<1>1. Init => CInv
  <2>1. Init => drops \in Nat /\ ~(drops > 0)
    BY DEF Init
  <2>2. Init => /\ closed \in BOOLEAN /\ ~closed /\ net # "closed"
                /\ sender \in [Sender -> SenderPc]
                /\ \A s \in Sender : sender[s] # "closed"
    BY DEF Init, SenderPc
  <2> QED
    BY <2>1, <2>2 DEF CInv, ClosedIsQueued
<1>2. CInv /\ [Next]_vars => CInv'
  BY SenderStepKeepsClosed, SenderClosePreserves, SenderQueuesDropPreserves,
     NetworkStepKeepsClosed, NetClosePreserves, NetQueuesDropPreserves
     DEF Next
<1>3. CInv => ClosedIsQueued
  BY DEF CInv
<1> QED
  BY <1>1, <1>2, <1>3, PTL DEF Spec
-----------------------------------------------------------------------------
(***************************************************************************)
(* Induction, with the statement as a set: the intervals 0 .. n are finite *)
(* sets, and finite sets are well-founded by inclusion.                    *)
(***************************************************************************)
LEMMA NatMin ==
  ASSUME NEW T, T \subseteq Nat, T # {}
  PROVE  \E n \in T : \A m \in T : n <= m
<1> DEFINE F == {0 .. n : n \in T}
           R == StrictSubsetOrdering(Nat)
           S == FiniteSubsetsOf(Nat)
<1>1. IsWellFoundedOn(R, S)
  BY FS_StrictSubsetOrderingWellFounded
<1>2. F \subseteq S /\ F # {}
  <2>1. \A n \in T : 0 .. n \in SUBSET Nat /\ IsFiniteSet(0 .. n)
    BY FS_Interval
  <2> QED
    BY <2>1 DEF FiniteSubsetsOf
<1>3. \A n, m \in T : m < n => <<0 .. m, 0 .. n>> \in R
  BY DEF StrictSubsetOrdering
<1> HIDE DEF R, S
<1>4. PICK x \in F : \A y \in F : ~ (<<y, x>> \in R)
  <2> HIDE DEF F
  <2> QED
    BY <1>1, <1>2, WFMin
<1>5. PICK n \in T : x = 0 .. n
  OBVIOUS
<1>6. \A m \in T : 0 .. m \in F
  OBVIOUS
<1>7. \A m \in T : ~ (m < n)
  <2> HIDE DEF F
  <2> QED
    BY <1>3, <1>4, <1>5, <1>6
<1> QED
  BY <1>7

LEMMA Induction ==
  ASSUME NEW I, 0 \in I, \A n \in Nat : n \in I => n + 1 \in I
  PROVE  Nat \subseteq I
<1> SUFFICES ASSUME Nat \ I # {} PROVE FALSE
  OBVIOUS
<1>1. PICK n \in Nat \ I : \A m \in Nat \ I : n <= m
  BY NatMin
<1>2. n - 1 \in Nat /\ n - 1 \notin Nat \ I
  BY <1>1
<1> QED
  BY <1>2

-----------------------------------------------------------------------------
(***************************************************************************)
(* The function that FlattenSeq defines by recursion: f[i] joins the first *)
(* i members of q.  It exists, and there is one.                           *)
(***************************************************************************)
Flattens(f, q) == f = [i \in 1 .. Len(q) |-> IF i = 1 THEN q[i] ELSE f[i - 1] \o q[i]]

LEMMA FlattenIs ==
  ASSUME NEW q, Len(q) # 0, \E f : Flattens(f, q)
  PROVE  \E f : Flattens(f, q) /\ FlattenSeq(q) = f[Len(q)]
<1> DEFINE f == CHOOSE f : Flattens(f, q)
<1>1. Flattens(f, q)
  OBVIOUS
<1>2. FlattenSeq(q) = f[Len(q)]
  BY DEF FlattenSeq, Flattens
<1> QED
  BY <1>1, <1>2

LEMMA FlattenExists ==
    ASSUME NEW S, NEW q \in Seq(Seq(S))
    PROVE  \E f \in [1 .. Len(q) -> Seq(S)] : Flattens(f, q)
<1> DEFINE I == {n \in Nat : \A r \in Seq(Seq(S)) :
                    Len(r) = n => \E f \in [1 .. n -> Seq(S)] : Flattens(f, r)}
<1>1. 0 \in I
  <2> SUFFICES ASSUME NEW r \in Seq(Seq(S)), Len(r) = 0
               PROVE  \E f \in [1 .. 0 -> Seq(S)] : Flattens(f, r)
    OBVIOUS
  <2> DEFINE f == [i \in 1 .. 0 |-> IF i = 1 THEN r[i] ELSE << >>]
  <2>1. f \in [1 .. 0 -> Seq(S)] /\ Flattens(f, r)
    BY DEF Flattens
  <2> QED
    BY <2>1
<1>2. ASSUME NEW n \in I
      PROVE  n + 1 \in I
  <2> SUFFICES ASSUME NEW r \in Seq(Seq(S)), Len(r) = n + 1
               PROVE  \E f \in [1 .. n + 1 -> Seq(S)] : Flattens(f, r)
    OBVIOUS
  <2> DEFINE front == [i \in 1 .. n |-> r[i]]
  <2>1. front \in Seq(Seq(S)) /\ Len(front) = n
    OBVIOUS
  <2>2. PICK g \in [1 .. n -> Seq(S)] : Flattens(g, front)
    BY <2>1
  <2> DEFINE f == [i \in 1 .. n + 1 |-> IF i = 1 THEN r[1] ELSE
                                          IF i <= n THEN g[i] ELSE g[n] \o r[i]]
  <2>a. \A i \in 1 .. n + 1 : f[i] = IF i = 1 THEN r[1] ELSE
                                       IF i <= n THEN g[i] ELSE g[n] \o r[i]
    OBVIOUS
  <2>3. f \in [1 .. n + 1 -> Seq(S)]
    <3>1. \A i \in 1 .. n + 1 : f[i] \in Seq(S)
      <4> SUFFICES ASSUME NEW i \in 1 .. n + 1 PROVE f[i] \in Seq(S)
        OBVIOUS
      <4>1. r[i] \in Seq(S) /\ r[1] \in Seq(S)
        BY ElementOfSeq
      <4>2. i # 1 => g[n] \in Seq(S)
        OBVIOUS
      <4> QED
        BY <4>1, <4>2, ConcatProperties
    <3> QED
      BY <3>1
  <2>4. \A i \in 1 .. n : g[i] = IF i = 1 THEN r[1] ELSE g[i - 1] \o r[i]
    <3> HIDE DEF I
    <3>1. \A i \in 1 .. n : g[i] = IF i = 1 THEN front[i] ELSE g[i - 1] \o front[i]
      BY <2>1, <2>2, Zenon DEF Flattens
    <3> QED
      BY <3>1
  <2>5. \A i \in 1 .. n + 1 : f[i] = IF i = 1 THEN r[i] ELSE f[i - 1] \o r[i]
    <3> SUFFICES ASSUME NEW i \in 1 .. n + 1, i # 1
                 PROVE  f[i] = f[i - 1] \o r[i]
      OBVIOUS
    <3>1. i - 1 \in 1 .. n /\ 1 \in 1 .. n /\ i - 1 <= n
      OBVIOUS
    <3>2. g[1] = r[1]
      BY <2>4, <3>1
    <3>3. f[i - 1] = g[i - 1]
      BY <3>1, <3>2
    <3>4. CASE i <= n
      <4>1. f[i] = g[i] /\ i \in 1 .. n
        BY <3>4
      <4>2. g[i] = g[i - 1] \o r[i]
        BY <2>4, <4>1
      <4> QED
        BY <3>3, <4>1, <4>2, Zenon
    <3>5. CASE i = n + 1
      <4>1. f[i] = g[n] \o r[i] /\ i - 1 = n
        <5>1. i \in 1 .. n + 1 /\ i # 1 /\ ~(i <= n) /\ i - 1 = n
          BY <3>5
        <5> HIDE DEF f
        <5> QED
          BY <5>1, <2>a, Zenon
      <4> QED
        BY <3>3, <4>1, Zenon
    <3>6. i <= n \/ i = n + 1
      OBVIOUS
    <3> HIDE DEF f
    <3> QED
      BY <3>4, <3>5, <3>6, Zenon
  <2>6. Flattens(f, r)
    <3>1. f = [i \in 1 .. n + 1 |-> f[i]]
      OBVIOUS
    <3> HIDE DEF f
    <3> QED
      BY <2>5, <3>1 DEF Flattens
  <2> QED
    BY <2>3, <2>6
<1> HIDE DEF I
<1>3. Nat \subseteq I
  BY <1>1, <1>2, Induction
<1> QED
  BY <1>3, LenProperties DEF I

LEMMA FlattenUnique ==
    ASSUME NEW q, Len(q) \in Nat, NEW f, Flattens(f, q), NEW g, Flattens(g, q)
    PROVE  f = g
<1>1. /\ \A i \in 1 .. Len(q) : f[i] = IF i = 1 THEN q[i] ELSE f[i - 1] \o q[i]
      /\ \A i \in 1 .. Len(q) : g[i] = IF i = 1 THEN q[i] ELSE g[i - 1] \o q[i]
  BY Zenon DEF Flattens
<1> DEFINE I == {n \in Nat : n \in 1 .. Len(q) => f[n] = g[n]}
<1>2. 0 \in I
  OBVIOUS
<1>3. ASSUME NEW n \in I
      PROVE  n + 1 \in I
  <2> SUFFICES ASSUME n + 1 \in 1 .. Len(q)
               PROVE  f[n + 1] = g[n + 1]
    OBVIOUS
  <2>1. CASE n = 0
    BY <1>1, <2>1
  <2>2. CASE n # 0
    <3>1. f[n] = g[n] /\ n + 1 # 1 /\ (n + 1) - 1 = n
      BY <2>2
    <3> QED
      BY <1>1, <3>1
  <2> QED
    BY <2>1, <2>2
<1> HIDE DEF I
<1>4. Nat \subseteq I
  BY <1>2, <1>3, Induction
<1>5. \A i \in 1 .. Len(q) : f[i] = g[i]
  BY <1>4 DEF I
<1> QED
  BY <1>5 DEF Flattens

(***************************************************************************)
(* A further member comes at the end.                                      *)
(***************************************************************************)
LEMMA FlattenAppend ==
    ASSUME NEW S, NEW q \in Seq(Seq(S)), NEW x \in Seq(S)
    PROVE  /\ FlattenSeq(q) \in Seq(S)
           /\ FlattenSeq(Append(q, x)) = FlattenSeq(q) \o x
<1>1. Append(q, x) \in Seq(Seq(S)) /\ Len(q) \in Nat /\ Len(Append(q, x)) = Len(q) + 1
  BY AppendProperties, LenProperties
<1>2. PICK f \in [1 .. Len(q) -> Seq(S)] : Flattens(f, q)
  BY FlattenExists
<1>3. PICK g \in [1 .. Len(q) + 1 -> Seq(S)] : Flattens(g, Append(q, x))
  BY <1>1, FlattenExists
<1>4. FlattenSeq(Append(q, x)) = g[Len(q) + 1]
  <2>1. PICK h : Flattens(h, Append(q, x)) /\ FlattenSeq(Append(q, x)) = h[Len(Append(q, x))]
    <3>1. Len(Append(q, x)) # 0
      BY <1>1
    <3> QED
      BY <1>3, <3>1, FlattenIs, Zenon
  <2>2. h = g
    <3>1. Len(Append(q, x)) \in Nat
      BY <1>1
    <3> QED
      BY <1>3, <2>1, <3>1, FlattenUnique, Zenon
  <2> QED
    BY <1>1, <2>1, <2>2
<1>5. \A i \in 1 .. Len(q) + 1 :
         g[i] = IF i = 1 THEN Append(q, x)[i] ELSE g[i - 1] \o Append(q, x)[i]
  BY <1>1, <1>3, Zenon DEF Flattens
<1>6. CASE Len(q) = 0
  <2>1. FlattenSeq(q) = q /\ q = << >>
    BY <1>6, EmptySeq DEF FlattenSeq
  <2>2. g[1] = x
    BY <1>5, <1>6
  <2> QED
    BY <1>4, <1>6, <2>1, <2>2, ConcatEmptySeq
<1>7. CASE Len(q) # 0
  <2>1. FlattenSeq(q) = f[Len(q)]
    BY <1>1, <1>2, <1>7, FlattenIs, FlattenUnique
  <2> DEFINE h == [i \in 1 .. Len(q) |-> g[i]]
  <2>2. \A i \in 1 .. Len(q) : h[i] = IF i = 1 THEN q[i] ELSE h[i - 1] \o q[i]
    <3> SUFFICES ASSUME NEW i \in 1 .. Len(q)
                 PROVE  h[i] = IF i = 1 THEN q[i] ELSE h[i - 1] \o q[i]
      OBVIOUS
    <3>1. Append(q, x)[i] = q[i] /\ i \in 1 .. Len(q) + 1
      BY <1>1
    <3>2. g[i] = IF i = 1 THEN q[i] ELSE g[i - 1] \o q[i]
      BY <1>5, <3>1
    <3>3. i # 1 => h[i - 1] = g[i - 1]
      BY <1>1
    <3> QED
      BY <3>2, <3>3
  <2>3. Flattens(h, q)
    <3>1. h = [i \in 1 .. Len(q) |-> h[i]]
      OBVIOUS
    <3> HIDE DEF h
    <3> QED
      BY <2>2, <3>1 DEF Flattens
  <2>4. h = f
    BY <1>1, <1>2, <2>3, FlattenUnique
  <2>5. g[Len(q)] = f[Len(q)]
    <3>1. h[Len(q)] = g[Len(q)]
      BY <1>1, <1>7
    <3> QED
      BY <2>4, <3>1
  <2>6. g[Len(q) + 1] = g[Len(q)] \o x
    <3>1. Append(q, x)[Len(q) + 1] = x
      BY AppendProperties
    <3>2. Len(q) + 1 \in 1 .. Len(q) + 1 /\ Len(q) + 1 # 1 /\ (Len(q) + 1) - 1 = Len(q)
      BY <1>1, <1>7
    <3> QED
      BY <1>5, <3>1, <3>2
  <2>7. f[Len(q)] \in Seq(S)
    <3>1. Len(q) \in 1 .. Len(q)
      BY <1>1, <1>7
    <3> QED
      BY <1>2, <3>1
  <2> QED
    BY <1>4, <2>1, <2>5, <2>6, <2>7
<1> QED
  BY <1>6, <1>7

(***************************************************************************)
(* Two sequences of sequences, one behind the other.                       *)
(***************************************************************************)
LEMMA FlattenConcat ==
    ASSUME NEW S, NEW q \in Seq(Seq(S)), NEW r \in Seq(Seq(S))
    PROVE  FlattenSeq(q \o r) = FlattenSeq(q) \o FlattenSeq(r)
<1> DEFINE I == {n \in Nat : \A p \in Seq(Seq(S)) :
                    Len(p) = n => FlattenSeq(q \o p) = FlattenSeq(q) \o FlattenSeq(p)}
<1>1. 0 \in I
  <2>1. FlattenSeq(<< >>) = << >>
    BY DEF FlattenSeq
  <2>2. q \o << >> = q /\ FlattenSeq(q) \o << >> = FlattenSeq(q)
    BY FlattenAppend, ConcatEmptySeq
  <2>3. \A p \in Seq(Seq(S)) : Len(p) = 0 => p = << >>
    BY EmptySeq
  <2> QED
    BY <2>1, <2>2, <2>3
<1>2. ASSUME NEW n \in I
      PROVE  n + 1 \in I
  <2> SUFFICES ASSUME NEW p \in Seq(Seq(S)), Len(p) = n + 1
               PROVE  FlattenSeq(q \o p) = FlattenSeq(q) \o FlattenSeq(p)
    OBVIOUS
  <2> DEFINE front == [i \in 1 .. n |-> p[i]]
             x == p[n + 1]
  <2>1. front \in Seq(Seq(S)) /\ Len(front) = n /\ x \in Seq(S)
    BY ElementOfSeq
  <2>2. p = Append(front, x)
    OBVIOUS
  <2>3. FlattenSeq(q \o front) = FlattenSeq(q) \o FlattenSeq(front)
    BY <2>1
  <2> HIDE DEF front, x, I
  <2>4. q \o p = Append(q \o front, x) /\ q \o front \in Seq(Seq(S))
    <3>1. q \o front \in Seq(Seq(S)) /\ <<x>> \in Seq(Seq(S))
      BY <2>1, ConcatProperties
    <3>2. p = front \o <<x>> /\ Append(q \o front, x) = (q \o front) \o <<x>>
      BY <2>1, <2>2, <3>1, AppendIsConcat
    <3>3. q \o (front \o <<x>>) = (q \o front) \o <<x>>
      <4>1. PICK T : T = Seq(S)
        OBVIOUS
      <4>2. PICK a \in Seq(T), b \in Seq(T), c \in Seq(T) : a = q /\ b = front /\ c = <<x>>
        BY <2>1, <3>1, <4>1
      <4>3. (a \o b) \o c = a \o (b \o c)
        BY SMTT(30)
      <4> QED
        BY <4>2, <4>3
    <3> QED
      BY <3>1, <3>2, <3>3
  <2>5. /\ FlattenSeq(q \o p) = FlattenSeq(q \o front) \o x
        /\ FlattenSeq(p) = FlattenSeq(front) \o x
        /\ FlattenSeq(q) \in Seq(S) /\ FlattenSeq(front) \in Seq(S)
    BY <2>1, <2>2, <2>4, FlattenAppend
  <2>6. (FlattenSeq(q) \o FlattenSeq(front)) \o x = FlattenSeq(q) \o (FlattenSeq(front) \o x)
    <3>1. PICK a \in Seq(S), b \in Seq(S), c \in Seq(S) :
             a = FlattenSeq(q) /\ b = FlattenSeq(front) /\ c = x
      BY <2>1, <2>5
    <3>2. (a \o b) \o c = a \o (b \o c)
      OBVIOUS
    <3> QED
      BY <3>1, <3>2
  <2> QED
    BY <2>3, <2>5, <2>6
<1> HIDE DEF I
<1>3. Nat \subseteq I
  BY <1>1, <1>2, Induction
<1> QED
  BY <1>3, LenProperties DEF I

-----------------------------------------------------------------------------
(***************************************************************************)
(* The bytes of the buffers, as the list holds them.                       *)
(***************************************************************************)
Buf == [frame : Nat, read_idx : 0 .. FrameLen - 1]
Byte == Nat \X Nat

LEMMA UnsentIs ==
    ASSUME NEW b \in Buf
    PROVE  /\ Unsent(b) \in Seq(Byte)
           /\ Len(Unsent(b)) = FrameLen - b.read_idx /\ Len(Unsent(b)) \in Nat \ {0}
<1>1. b.frame \in Nat /\ b.read_idx \in 0 .. FrameLen - 1 /\ FrameLen \in Nat
  BY SendAssumption DEF Buf
<1>2. PICK n \in Nat \ {0} : n = FrameLen - b.read_idx
  BY <1>1
<1>3. \A k \in 1 .. n : <<b.frame, b.read_idx + k>> \in Byte
  BY <1>1 DEF Byte
<1>4. Unsent(b) = [k \in 1 .. n |-> <<b.frame, b.read_idx + k>>]
  BY <1>2 DEF Unsent
<1>5. Unsent(b) \in [1 .. n -> Byte]
  BY <1>3, <1>4
<1> QED
  BY <1>2, <1>5

Unsents(bufs) == [i \in DOMAIN bufs |-> Unsent(bufs[i])]

LEMMA UnsentsAre ==
    ASSUME NEW p \in Seq(Buf)
    PROVE  /\ Unsents(p) \in Seq(Seq(Byte)) /\ Len(Unsents(p)) = Len(p)
           /\ Bytes(p) = FlattenSeq(Unsents(p))
<1>1. \A i \in 1 .. Len(p) : Unsent(p[i]) \in Seq(Byte)
  BY ElementOfSeq, UnsentIs
<1>2. Unsents(p) \in [1 .. Len(p) -> Seq(Byte)] /\ Len(p) \in Nat
  BY <1>1 DEF Unsents
<1>3. Bytes(p) = FlattenSeq(Unsents(p))
  BY DEF Bytes, Unsents
<1> QED
  BY <1>2, <1>3

LEMMA BytesConcat ==
    ASSUME NEW p \in Seq(Buf), NEW q \in Seq(Buf)
    PROVE  Bytes(p) \in Seq(Byte) /\ Bytes(p \o q) = Bytes(p) \o Bytes(q)
<1>1. p \o q \in Seq(Buf)
  BY ConcatProperties
<1>2. PICK u \in Seq(Seq(Byte)), v \in Seq(Seq(Byte)), w \in Seq(Seq(Byte)) :
         /\ u = Unsents(p) /\ v = Unsents(q) /\ w = Unsents(p \o q)
         /\ Len(u) = Len(p) /\ Len(v) = Len(q) /\ Len(w) = Len(p \o q)
  BY <1>1, UnsentsAre
<1>3. w = u \o v
  <2>1. /\ Len(p \o q) = Len(p) + Len(q) /\ Len(p) \in Nat /\ Len(q) \in Nat
        /\ \A i \in 1 .. Len(p) + Len(q) :
              (p \o q)[i] = IF i <= Len(p) THEN p[i] ELSE q[i - Len(p)]
    BY ConcatProperties, LenProperties
  <2>2. /\ \A i \in 1 .. Len(p) : u[i] = Unsent(p[i])
        /\ \A i \in 1 .. Len(q) : v[i] = Unsent(q[i])
        /\ \A i \in 1 .. Len(p) + Len(q) : w[i] = Unsent((p \o q)[i])
    BY <1>1, <1>2, <2>1, LenProperties DEF Unsents
  <2>3. /\ u \o v \in Seq(Seq(Byte)) /\ Len(u \o v) = Len(p) + Len(q)
        /\ \A i \in 1 .. Len(p) + Len(q) :
              (u \o v)[i] = IF i <= Len(p) THEN u[i] ELSE v[i - Len(p)]
    BY <1>2, ConcatProperties
  <2>4. ASSUME NEW i \in 1 .. Len(p) + Len(q)
        PROVE  w[i] = (u \o v)[i]
    <3>1. CASE i <= Len(p)
      <4>1. i \in 1 .. Len(p)
        BY <2>1, <3>1
      <4> QED
        BY <2>1, <2>2, <2>3, <3>1, <4>1
    <3>2. CASE ~(i <= Len(p))
      <4>1. i - Len(p) \in 1 .. Len(q)
        BY <2>1, <3>2
      <4> QED
        BY <2>1, <2>2, <2>3, <3>2, <4>1
    <3> QED
      BY <3>1, <3>2
  <2>5. Len(w) = Len(p) + Len(q) /\ Len(w) = Len(u \o v)
    BY <1>2, <2>1, <2>3
  <2> QED
    BY <2>3, <2>4, <2>5, SeqEqual
<1>4. /\ Bytes(p) = FlattenSeq(u) /\ Bytes(q) = FlattenSeq(v)
      /\ Bytes(p \o q) = FlattenSeq(w)
  BY <1>1, <1>2, UnsentsAre
<1>5. FlattenSeq(u) \in Seq(Byte) /\ FlattenSeq(u \o v) = FlattenSeq(u) \o FlattenSeq(v)
  <2>1. << >> \in Seq(Byte)
    OBVIOUS
  <2> QED
    BY <2>1, FlattenAppend, FlattenConcat
<1> QED
  BY <1>3, <1>4, <1>5

LEMMA BytesNone == Bytes(<< >>) = << >>
<1>1. Unsents(<< >>) = << >>
  BY DEF Unsents
<1>2. FlattenSeq(<< >>) = << >>
  BY DEF FlattenSeq
<1>3. Bytes(<< >>) = FlattenSeq(Unsents(<< >>))
  BY DEF Bytes, Unsents
<1> QED
  BY <1>1, <1>2, <1>3

LEMMA BytesOne ==
    ASSUME NEW b \in Buf
    PROVE  Bytes(<<b>>) = Unsent(b)
<1>1. PICK u \in Seq(Byte) : u = Unsent(b)
  BY UnsentIs
<1>2. Unsents(<<b>>) = Append(<< >>, u) /\ << >> \in Seq(Seq(Byte))
  BY <1>1 DEF Unsents
<1>3. FlattenSeq(<< >>) = << >>
  BY DEF FlattenSeq
<1>4. FlattenSeq(Append(<< >>, u)) = << >> \o u
  BY <1>2, <1>3, FlattenAppend
<1>5. << >> \o u = u
  BY ConcatEmptySeq
<1>6. Bytes(<<b>>) = FlattenSeq(Unsents(<<b>>))
  BY DEF Bytes, Unsents
<1> QED
  BY <1>1, <1>2, <1>4, <1>5, <1>6

(***************************************************************************)
(* What is behind position n of a sequence; a sequence cut in two; and     *)
(* what is behind position n of a concatenation.                           *)
(***************************************************************************)
LEMMA After ==
    ASSUME NEW S, NEW q \in Seq(S), NEW n \in 0 .. Len(q)
    PROVE  /\ SubSeq(q, n + 1, Len(q)) \in Seq(S)
           /\ Len(SubSeq(q, n + 1, Len(q))) = Len(q) - n /\ Len(q) - n \in Nat
           /\ \A i \in 1 .. Len(q) - n : SubSeq(q, n + 1, Len(q))[i] = q[n + i]
<1>1. Len(q) \in Nat /\ \A i \in 1 .. Len(q) : q[i] \in S
  BY LenProperties, ElementOfSeq
<1>2. \A i \in n + 1 .. Len(q) : q[i] \in S
  BY <1>1
<1>3. n + 1 \in Int /\ Len(q) \in Int /\ Len(q) - (n + 1) + 1 = Len(q) - n
  BY <1>1
<1>4. /\ SubSeq(q, n + 1, Len(q)) \in Seq(S)
      /\ Len(SubSeq(q, n + 1, Len(q))) = Len(q) - n
  <2>1. /\ SubSeq(q, n + 1, Len(q)) \in Seq(S)
        /\ Len(SubSeq(q, n + 1, Len(q))) =
             IF n + 1 <= Len(q) THEN Len(q) - (n + 1) + 1 ELSE 0
    BY <1>2, <1>3, SubSeqProperties
  <2>2. (IF n + 1 <= Len(q) THEN Len(q) - (n + 1) + 1 ELSE 0) = Len(q) - n
    BY <1>1
  <2> QED
    BY <2>1, <2>2
<1>5. \A i \in 1 .. Len(q) - n : SubSeq(q, n + 1, Len(q))[i] = q[(n + 1) + i - 1]
  BY <1>2, <1>3, SubSeqProperties
<1> QED
  BY <1>1, <1>4, <1>5

LEMMA Halves ==
    ASSUME NEW S, NEW q \in Seq(S), NEW n \in 0 .. Len(q)
    PROVE  /\ SubSeq(q, 1, n) \in Seq(S) /\ Len(SubSeq(q, 1, n)) = n
           /\ SubSeq(q, 1, n) \o SubSeq(q, n + 1, Len(q)) = q
<1>1. Len(q) \in Nat /\ \A i \in 1 .. Len(q) : q[i] \in S
  BY LenProperties, ElementOfSeq
<1>2. PICK d : d = SubSeq(q, 1, n)
  OBVIOUS
<1>3. PICK e : e = SubSeq(q, n + 1, Len(q))
  OBVIOUS
<1>4. d \in Seq(S) /\ Len(d) = n /\ \A i \in 1 .. n : d[i] = q[i]
  BY <1>1, <1>2, SubSeqProperties
<1>5. e \in Seq(S) /\ Len(e) = Len(q) - n /\ \A i \in 1 .. Len(q) - n : e[i] = q[n + i]
  BY <1>3, After
<1>6. d \o e \in Seq(S) /\ Len(d \o e) = Len(q)
  BY <1>1, <1>4, <1>5, ConcatProperties
<1>7. ASSUME NEW i \in 1 .. Len(q)
      PROVE  (d \o e)[i] = q[i]
  <2>1. i \in 1 .. Len(d) + Len(e)
    BY <1>1, <1>4, <1>5
  <2>2. (d \o e)[i] = IF i <= n THEN d[i] ELSE e[i - n]
    BY <1>4, <1>5, <2>1, ConcatProperties
  <2>3. CASE i <= n
    BY <1>4, <2>2, <2>3
  <2>4. CASE ~(i <= n)
    <3>1. i - n \in 1 .. Len(q) - n /\ n + (i - n) = i
      BY <1>1, <2>4
    <3> QED
      BY <1>5, <2>2, <2>4, <3>1
  <2> QED
    BY <2>3, <2>4
<1>8. d \o e = q
  BY <1>6, <1>7, SeqEqual
<1> QED
  BY <1>2, <1>3, <1>4, <1>5, <1>8

LEMMA CutConcat ==
    ASSUME NEW S, NEW a \in Seq(S), NEW b \in Seq(S), NEW n \in 0 .. Len(a)
    PROVE  /\ Len(a \o b) = Len(a) + Len(b) /\ a \o b \in Seq(S)
           /\ SubSeq(a \o b, n + 1, Len(a \o b)) = SubSeq(a, n + 1, Len(a)) \o b
<1>0. Len(a) \in Nat /\ Len(b) \in Nat
  BY LenProperties
<1>1. /\ a \o b \in Seq(S) /\ Len(a \o b) = Len(a) + Len(b)
      /\ \A i \in 1 .. Len(a) + Len(b) :
            (a \o b)[i] = IF i <= Len(a) THEN a[i] ELSE b[i - Len(a)]
  BY ConcatProperties
<1>2. PICK c : c = a \o b
  OBVIOUS
<1>3. PICK e : e = SubSeq(a, n + 1, Len(a))
  OBVIOUS
<1>4. PICK r : r = SubSeq(c, n + 1, Len(c))
  OBVIOUS
<1>5. /\ e \in Seq(S) /\ Len(e) = Len(a) - n
      /\ \A i \in 1 .. Len(a) - n : e[i] = a[n + i]
  BY <1>3, After
<1>6. /\ r \in Seq(S) /\ Len(r) = Len(c) - n
      /\ \A i \in 1 .. Len(c) - n : r[i] = c[n + i]
  <2>1. c \in Seq(S) /\ n \in 0 .. Len(c)
    BY <1>0, <1>1, <1>2
  <2> QED
    BY <1>4, <2>1, After
<1>7. e \o b \in Seq(S) /\ Len(e \o b) = Len(r)
  <2>1. e \o b \in Seq(S) /\ Len(e \o b) = Len(e) + Len(b)
    BY <1>5, ConcatProperties
  <2> QED
    BY <1>0, <1>1, <1>2, <1>5, <1>6, <2>1
<1>8. ASSUME NEW i \in 1 .. Len(r)
      PROVE  r[i] = (e \o b)[i]
  <2>1. r[i] = c[n + i] /\ n + i \in 1 .. Len(a) + Len(b)
    BY <1>0, <1>1, <1>2, <1>6
  <2>2. c[n + i] = IF n + i <= Len(a) THEN a[n + i] ELSE b[n + i - Len(a)]
    BY <1>1, <1>2, <2>1
  <2>3. i \in 1 .. Len(e) + Len(b)
    BY <1>0, <1>1, <1>2, <1>5, <1>6
  <2>4. (e \o b)[i] = IF i <= Len(e) THEN e[i] ELSE b[i - Len(e)]
    BY <1>5, <2>3, ConcatProperties
  <2>5. CASE i <= Len(e)
    <3>1. i \in 1 .. Len(a) - n /\ n + i <= Len(a)
      BY <1>0, <1>5, <2>5
    <3> QED
      BY <1>5, <2>1, <2>2, <2>4, <2>5, <3>1
  <2>6. CASE ~(i <= Len(e))
    <3>1. ~(n + i <= Len(a)) /\ n + i - Len(a) = i - Len(e)
      BY <1>0, <1>5, <2>6
    <3> QED
      BY <2>1, <2>2, <2>4, <2>6, <3>1
  <2> QED
    BY <2>5, <2>6
<1>9. r = e \o b
  BY <1>6, <1>7, <1>8, SeqEqual
<1> QED
  BY <1>1, <1>2, <1>3, <1>4, <1>9

LEMMA CutBeyond ==
    ASSUME NEW S, NEW a \in Seq(S), NEW b \in Seq(S), NEW n \in 0 .. Len(b)
    PROVE  SubSeq(a \o b, Len(a) + n + 1, Len(a \o b)) = SubSeq(b, n + 1, Len(b))
<1>1. /\ a \o b \in Seq(S) /\ Len(a \o b) = Len(a) + Len(b)
      /\ Len(a) \in Nat /\ Len(b) \in Nat
      /\ \A i \in 1 .. Len(a) + Len(b) :
            (a \o b)[i] = IF i <= Len(a) THEN a[i] ELSE b[i - Len(a)]
  BY ConcatProperties, LenProperties
<1>2. PICK c : c = a \o b
  OBVIOUS
<1>3. PICK m : m = Len(a) + n
  OBVIOUS
<1>4. c \in Seq(S) /\ m \in 0 .. Len(c)
  BY <1>1, <1>2, <1>3
<1>5. PICK r : r = SubSeq(c, m + 1, Len(c))
  OBVIOUS
<1>6. PICK e : e = SubSeq(b, n + 1, Len(b))
  OBVIOUS
<1>7. r \in Seq(S) /\ Len(r) = Len(c) - m /\ \A i \in 1 .. Len(c) - m : r[i] = c[m + i]
  BY <1>4, <1>5, After
<1>8. e \in Seq(S) /\ Len(e) = Len(b) - n /\ \A i \in 1 .. Len(b) - n : e[i] = b[n + i]
  BY <1>6, After
<1>9. Len(c) - m = Len(b) - n
  BY <1>1, <1>2, <1>3
<1>10. ASSUME NEW i \in 1 .. Len(e)
       PROVE  r[i] = e[i]
  <2>1. PICK j \in 1 .. Len(a) + Len(b) : j = m + i /\ ~(j <= Len(a))
    <3>1. m + i \in 1 .. Len(a) + Len(b) /\ ~(m + i <= Len(a))
      BY <1>1, <1>3, <1>8
    <3> QED
      BY <3>1
  <2>2. PICK k \in 1 .. Len(b) : k = n + i /\ k = j - Len(a)
    BY <1>1, <1>3, <1>8, <2>1
  <2>3. c[j] = b[k]
    BY <1>1, <1>2, <2>1, <2>2
  <2>4. r[i] = c[j] /\ e[i] = b[k]
    <3>1. i \in 1 .. Len(b) - n /\ i \in 1 .. Len(c) - m
      BY <1>8, <1>9
    <3> QED
      BY <1>7, <1>8, <2>1, <2>2, <3>1
  <2> QED
    BY <2>3, <2>4
<1>11. r = e
  BY <1>7, <1>8, <1>9, <1>10, SeqEqual
<1> QED
  BY <1>2, <1>3, <1>5, <1>6, <1>11

(***************************************************************************)
(* What the first n buffers of a list hold comes first.                    *)
(***************************************************************************)
LEMMA BytesCut ==
    ASSUME NEW list \in Seq(Buf), NEW n \in 0 .. Len(list)
    PROVE  /\ SubSeq(list, 1, n) \in Seq(Buf) /\ SubSeq(list, n + 1, Len(list)) \in Seq(Buf)
           /\ Bytes(SubSeq(list, 1, n)) \in Seq(Byte)
           /\ Bytes(SubSeq(list, n + 1, Len(list))) \in Seq(Byte)
           /\ Bytes(list) = Bytes(SubSeq(list, 1, n)) \o Bytes(SubSeq(list, n + 1, Len(list)))
<1>1. PICK a : a = SubSeq(list, 1, n)
  OBVIOUS
<1>2. PICK b : b = SubSeq(list, n + 1, Len(list))
  OBVIOUS
<1>3. a \in Seq(Buf) /\ b \in Seq(Buf) /\ a \o b = list
  BY <1>1, <1>2, After, Halves
<1>4. Bytes(a) \in Seq(Byte) /\ Bytes(b) \in Seq(Byte) /\ Bytes(a \o b) = Bytes(a) \o Bytes(b)
  BY <1>3, BytesConcat
<1> QED
  BY <1>1, <1>2, <1>3, <1>4

(***************************************************************************)
(* More buffers hold more bytes.                                           *)
(***************************************************************************)
Held(list, n) == Len(Bytes(SubSeq(list, 1, n)))

LEMMA HeldGrows ==
    ASSUME NEW list \in Seq(Buf)
    PROVE  /\ \A n \in 0 .. Len(list) : Held(list, n) \in Nat
           /\ Held(list, 0) = 0
           /\ \A n \in 0 .. Len(list) : \A m \in 0 .. n : Held(list, m) <= Held(list, n)
           /\ \A n \in 1 .. Len(list) :
                 Held(list, n) = Held(list, n - 1) + Len(Unsent(list[n]))
<1>1. \A n \in 0 .. Len(list) : Held(list, n) \in Nat
  BY BytesCut, LenProperties DEF Held
<1>2. Held(list, 0) = 0
  <2>1. SubSeq(list, 1, 0) = << >>
    BY SubSeqEmpty
  <2>2. Bytes(SubSeq(list, 1, 0)) = << >>
    BY <2>1, BytesNone, Zenon
  <2>3. Held(list, 0) = Len(<< >>)
    BY <2>2, Zenon DEF Held
  <2> QED
    BY <2>3
<1>3. ASSUME NEW n \in 0 .. Len(list), NEW m \in 0 .. n
      PROVE  /\ Held(list, m) <= Held(list, n)
             /\ m = n - 1 => Held(list, n) = Held(list, m) + Len(Unsent(list[n]))
  <2>1. PICK front \in Seq(Buf) : front = SubSeq(list, 1, n)
    BY BytesCut
  <2>2. Len(front) = n /\ \A i \in 1 .. n : front[i] = list[i]
    <3>1. Len(front) = n
      BY <2>1, Halves
    <3>2. \A i \in 1 .. n : list[i] \in Buf
      BY ElementOfSeq
    <3> QED
      BY <2>1, <3>1, <3>2, SubSeqProperties
  <2>3. PICK a : a = SubSeq(front, 1, m)
    OBVIOUS
  <2>4. PICK b : b = SubSeq(front, m + 1, Len(front))
    OBVIOUS
  <2>5. /\ Bytes(a) \in Seq(Byte) /\ Bytes(b) \in Seq(Byte) /\ a \in Seq(Buf) /\ b \in Seq(Buf)
        /\ Bytes(front) = Bytes(a) \o Bytes(b)
    BY <2>2, <2>3, <2>4, BytesCut
  <2>6. Len(Bytes(front)) = Len(Bytes(a)) + Len(Bytes(b))
    BY <2>5, ConcatProperties
  <2>7. a = SubSeq(list, 1, m)
    BY <2>2, <2>3 
  <2>8. Held(list, n) = Held(list, m) + Len(Bytes(b))
    BY <2>1, <2>6, <2>7 DEF Held
  <2>9. Held(list, m) \in Nat /\ Len(Bytes(b)) \in Nat
    BY <1>1, <2>5, LenProperties
  <2>10. m = n - 1 => b = <<list[n]>> /\ list[n] \in Buf
    <3> SUFFICES ASSUME m = n - 1
                 PROVE  b = <<list[n]>> /\ list[n] \in Buf
      OBVIOUS
    <3>1. m \in 0 .. Len(front) /\ Len(front) - m = 1 /\ m + 1 = n
      BY <2>2
    <3>2. Len(b) = Len(front) - m /\ \A i \in 1 .. Len(front) - m : b[i] = front[m + i]
      BY <2>4, <3>1, After
    <3>3. Len(b) = 1 /\ b[1] = front[n]
      BY <3>1, <3>2
    <3>4. list[n] \in Buf
      BY ElementOfSeq
    <3> QED
      BY <2>2, <2>5, <3>3, <3>4
  <2> QED
    BY <2>8, <2>9, <2>10, BytesOne
<1> QED
  <2>1. \A n \in 1 .. Len(list) : Held(list, n) = Held(list, n - 1) + Len(Unsent(list[n]))
    <3> SUFFICES ASSUME NEW n \in 1 .. Len(list)
                 PROVE  Held(list, n) = Held(list, n - 1) + Len(Unsent(list[n]))
      OBVIOUS
    <3>1. n \in 0 .. Len(list) /\ n - 1 \in 0 .. n
      OBVIOUS
    <3> QED
      BY <1>3, <3>1
  <2> QED
    BY <1>1, <1>2, <1>3, <2>1

(***************************************************************************)
(* The first k buffers and offset bytes of the next are taken off a list.  *)
(***************************************************************************)
TakeOff(list, k, offset) ==
    LET rest == SubSeq(list, k + 1, Len(list))
    IN  IF offset = 0 THEN rest ELSE [rest EXCEPT ![1].read_idx = @ + offset]

LEMMA UnsentLater ==
    ASSUME NEW b \in Buf, NEW offset \in Nat, offset < Len(Unsent(b)),
           NEW later, later = [b EXCEPT !.read_idx = @ + offset]
    PROVE  /\ later \in Buf
           /\ Unsent(later) = SubSeq(Unsent(b), offset + 1, Len(Unsent(b)))
<1>1. /\ b.frame \in Nat /\ b.read_idx \in 0 .. FrameLen - 1 /\ FrameLen \in Nat
      /\ later.frame = b.frame /\ later.read_idx = b.read_idx + offset
  BY SendAssumption DEF Buf
<1>2. Unsent(b) \in Seq(Byte) /\ Len(Unsent(b)) = FrameLen - b.read_idx
  BY UnsentIs
<1>3. later \in Buf
  BY <1>1, <1>2 DEF Buf
<1>4. Unsent(later) \in Seq(Byte) /\ Len(Unsent(later)) = FrameLen - later.read_idx
  BY <1>3, UnsentIs
<1>5. PICK u : u = Unsent(b)
  OBVIOUS
<1>6. PICK v : v = Unsent(later)
  OBVIOUS
<1>7. PICK w : w = SubSeq(u, offset + 1, Len(u))
  OBVIOUS
<1>8. w \in Seq(Byte) /\ Len(w) = Len(u) - offset
      /\ \A i \in 1 .. Len(u) - offset : w[i] = u[offset + i]
  <2>1. u \in Seq(Byte) /\ offset \in 0 .. Len(u)
    BY <1>1, <1>2, <1>5
  <2> QED
    BY <1>7, <2>1, After
<1>9. Len(v) = Len(w) /\ Len(v) \in Nat
  BY <1>1, <1>2, <1>4, <1>5, <1>6, <1>8
<1>10. ASSUME NEW i \in 1 .. Len(v)
       PROVE  v[i] = w[i]
  <2>1. v[i] = <<b.frame, b.read_idx + offset + i>>
    <3>1. i \in 1 .. FrameLen - later.read_idx
      BY <1>4, <1>6
    <3>2. v[i] = <<later.frame, later.read_idx + i>>
      BY <1>6, <3>1 DEF Unsent
    <3> QED
      BY <1>1, <3>2
  <2>2. PICK j \in 1 .. FrameLen - b.read_idx : j = offset + i
    <3>1. offset + i \in 1 .. FrameLen - b.read_idx
      BY <1>1, <1>4, <1>6, SMTT(30)
    <3> QED
      BY <3>1
  <2>3. u[j] = <<b.frame, b.read_idx + j>>
    BY <1>5 DEF Unsent
  <2>4. w[i] = u[j]
    BY <1>8, <1>9, <2>2
  <2>5. b.read_idx + j = b.read_idx + offset + i
    BY <1>1, <2>2
  <2> QED
    BY <2>1, <2>3, <2>4, <2>5
<1>11. v = w
  BY <1>4, <1>6, <1>8, <1>9, <1>10, SeqEqual
<1> QED
  BY <1>3, <1>5, <1>6, <1>7, <1>11

LEMMA TakenOff ==
    ASSUME NEW list \in Seq(Buf), NEW k \in 0 .. Len(list), NEW offset \in Nat,
           offset # 0 => k < Len(list) /\ offset < Len(Unsent(list[k + 1]))
    PROVE  /\ TakeOff(list, k, offset) \in Seq(Buf)
           /\ Bytes(TakeOff(list, k, offset)) =
                SubSeq(Bytes(list), Held(list, k) + offset + 1, Len(Bytes(list)))
<1>1. PICK a : a = SubSeq(list, 1, k)
  OBVIOUS
<1>2. PICK rest : rest = SubSeq(list, k + 1, Len(list))
  OBVIOUS
<1>3. /\ a \in Seq(Buf) /\ rest \in Seq(Buf)
      /\ Bytes(a) \in Seq(Byte) /\ Bytes(rest) \in Seq(Byte)
      /\ Bytes(list) = Bytes(a) \o Bytes(rest) /\ Held(list, k) = Len(Bytes(a))
  BY <1>1, <1>2, BytesCut DEF Held
<1>4. CASE offset = 0
  <2>1. TakeOff(list, k, offset) = rest
    BY <1>2, <1>4 DEF TakeOff
  <2>2. SubSeq(Bytes(a) \o Bytes(rest), Len(Bytes(a)) + 0 + 1, Len(Bytes(a) \o Bytes(rest)))
          = SubSeq(Bytes(rest), 0 + 1, Len(Bytes(rest)))
    <3>1. 0 \in 0 .. Len(Bytes(rest))
      BY <1>3, LenProperties
    <3> QED
      BY <1>3, <3>1, CutBeyond
  <2>3. SubSeq(Bytes(rest), 1, Len(Bytes(rest))) = Bytes(rest)
    BY <1>3, SubSeqFull
  <2> QED
    BY <1>3, <1>4, <2>1, <2>2, <2>3
<1>5. CASE offset # 0
  <2>1. PICK b \in Buf : b = list[k + 1]
    BY <1>5, ElementOfSeq
  <2>2. rest # << >> /\ rest[1] = b /\ Head(rest) = b
    <3>1. Len(rest) = Len(list) - k /\ \A i \in 1 .. Len(list) - k : rest[i] = list[k + i]
      BY <1>2, After
    <3>2. 1 \in 1 .. Len(list) - k
      BY <1>5
    <3> QED
      BY <1>3, <2>1, <3>1, <3>2
  <2>3. PICK later : later = [b EXCEPT !.read_idx = @ + offset]
    OBVIOUS
  <2>4. /\ later \in Buf
        /\ Unsent(later) = SubSeq(Unsent(b), offset + 1, Len(Unsent(b)))
    BY <1>5, <2>1, <2>3, UnsentLater
  <2>5. PICK t \in Seq(Buf) : t = Tail(rest)
    BY <1>3, <2>2, HeadTailProperties
  <2>6. rest = <<b>> \o t /\ <<b>> \in Seq(Buf) /\ <<later>> \in Seq(Buf)
    BY <1>3, <2>2, <2>4, <2>5
  <2>7. TakeOff(list, k, offset) = <<later>> \o t
    <3>1. TakeOff(list, k, offset) = [rest EXCEPT ![1] = later]
      BY <1>2, <1>5, <2>2, <2>3 DEF TakeOff
    <3>2. [rest EXCEPT ![1] = later] = <<later>> \o t
      BY <1>3, <2>2, <2>4, <2>5, SMTT(30)
    <3> QED
      BY <3>1, <3>2
  <2>8. /\ Bytes(<<later>> \o t) = Unsent(later) \o Bytes(t)
        /\ Bytes(rest) = Unsent(b) \o Bytes(t)
        /\ Bytes(t) \in Seq(Byte) /\ Unsent(b) \in Seq(Byte)
    <3>1. Bytes(<<later>>) = Unsent(later) /\ Bytes(<<b>>) = Unsent(b)
      BY <2>4, BytesOne
    <3> QED
      BY <2>5, <2>6, <3>1, BytesConcat, UnsentIs
  <2>9. offset \in 0 .. Len(Unsent(b)) /\ offset \in 0 .. Len(Bytes(rest))
    <3>1. Len(Bytes(rest)) = Len(Unsent(b)) + Len(Bytes(t)) /\ Len(Bytes(t)) \in Nat
      BY <2>8, ConcatProperties, LenProperties
    <3>2. Len(Unsent(b)) \in Nat
      BY UnsentIs
    <3> QED
      BY <1>5, <2>1, <3>1, <3>2
  <2>10. SubSeq(Bytes(list), Held(list, k) + offset + 1, Len(Bytes(list)))
           = SubSeq(Bytes(rest), offset + 1, Len(Bytes(rest)))
    BY <1>3, <2>9, CutBeyond, SMTT(30)
  <2>11. SubSeq(Bytes(rest), offset + 1, Len(Bytes(rest)))
           = SubSeq(Unsent(b), offset + 1, Len(Unsent(b))) \o Bytes(t)
    <3>1. PICK u, v : u = Unsent(b) /\ v = Bytes(t)
      OBVIOUS
    <3>2. u \in Seq(Byte) /\ v \in Seq(Byte) /\ offset \in 0 .. Len(u) /\ Bytes(rest) = u \o v
      BY <2>8, <2>9, <3>1
    <3>3. SubSeq(u \o v, offset + 1, Len(u \o v)) = SubSeq(u, offset + 1, Len(u)) \o v
      BY ONLY <3>2, CutConcat
    <3> QED
      BY <3>1, <3>2, <3>3
  <2>12. TakeOff(list, k, offset) \in Seq(Buf)
    BY <2>5, <2>6, <2>7, ConcatProperties
  <2> QED
    BY <2>4, <2>7, <2>8, <2>10, <2>11, <2>12
<1> QED
  BY <1>4, <1>5

(***************************************************************************)
(* How many of the first g buffers n written bytes cover.                  *)
(***************************************************************************)
LEMMA Covered ==
    ASSUME NEW list \in Seq(Buf), NEW g \in 0 .. Len(list), NEW n \in 0 .. Held(list, g),
           NEW k, k = Cardinality({i \in 1 .. g : Held(list, i) <= n})
    PROVE  /\ k \in 0 .. g /\ n - Held(list, k) \in Nat
           /\ n - Held(list, k) # 0 => /\ k < Len(list)
                                       /\ n - Held(list, k) < Len(Unsent(list[k + 1]))
<1> DEFINE over == {j \in 1 .. g : ~(Held(list, j) <= n)}
<1>1. /\ \A j \in 0 .. Len(list) : Held(list, j) \in Nat
      /\ Held(list, 0) = 0
      /\ \A j \in 0 .. Len(list) : \A m \in 0 .. j : Held(list, m) <= Held(list, j)
      /\ \A j \in 1 .. Len(list) : Held(list, j) = Held(list, j - 1) + Len(Unsent(list[j]))
  BY HeldGrows
<1>2. PICK m \in 0 .. g : /\ \A j \in 1 .. g : Held(list, j) <= n <=> j <= m
                          /\ m # g => m + 1 \in over
  <2>1. CASE over = {}
    <3>1. g \in 0 .. g /\ \A j \in 1 .. g : Held(list, j) <= n <=> j <= g
      BY <2>1
    <3> QED
      BY <3>1
  <2>2. CASE over # {}
    <3>1. PICK f \in over : \A j \in over : f <= j
      <4>1. over \subseteq Nat
        OBVIOUS
      <4> HIDE DEF over
      <4> QED
        BY <2>2, <4>1, NatMin
    <3>2. PICK m \in 0 .. g : m = f - 1 /\ m + 1 = f
      OBVIOUS
    <3>3. ASSUME NEW j \in 1 .. g
          PROVE  Held(list, j) <= n <=> j <= m
      <4>1. j < f => Held(list, j) <= n
        BY <3>1
      <4>2. ~(j < f) => ~(Held(list, j) <= n)
        <5>1. ~(j < f) => Held(list, f) <= Held(list, j)
          <6>1. j \in 0 .. Len(list) /\ (~(j < f) => f \in 0 .. j)
            <7>1. Len(list) \in Nat
              BY LenProperties
            <7> QED
              BY <7>1
          <6> QED
            BY <1>1, <6>1
        <5>2. Held(list, f) \in Nat /\ Held(list, j) \in Nat /\ n \in Int
          BY <1>1
        <5> QED
          BY <5>1, <5>2
      <4> QED
        BY <3>2, <4>1, <4>2
    <3> QED
      BY <3>2, <3>3
  <2> QED
    BY <2>1, <2>2
<1>3. {i \in 1 .. g : Held(list, i) <= n} = 1 .. m
  BY <1>2
<1>4. Cardinality(1 .. m) = m
  BY FS_Interval
<1>5. k = m
  BY <1>3, <1>4
<1>6. Held(list, m) <= n
  BY <1>1, <1>2
<1>7. Held(list, m) \in Nat /\ n \in Nat
  BY <1>1
<1>8. CASE m = g
  BY <1>5, <1>6, <1>7, <1>8
<1>9. CASE m # g
  <2>1. m + 1 \in 1 .. g /\ m + 1 \in 1 .. Len(list) /\ ~(Held(list, m + 1) <= n)
    BY <1>2, <1>9
  <2>2. Held(list, m + 1) = Held(list, m) + Len(Unsent(list[m + 1]))
    BY <1>1, <2>1
  <2>3. Len(Unsent(list[m + 1])) \in Nat
    BY <2>1, ElementOfSeq, UnsentIs
  <2> QED
    BY <1>5, <1>6, <1>7, <2>1, <2>2, <2>3
<1> QED
  BY <1>8, <1>9

-----------------------------------------------------------------------------
(***************************************************************************)
(* Between a write and its pop the written bytes are those of the first    *)
(* gathered buffers; at any other time none are written.                   *)
(***************************************************************************)
UnderWay ==
    IF net = "written"
      THEN gathered \in 1 .. Len(send_list) /\ written \in 1 .. Held(send_list, gathered)
      ELSE written = 0

(***************************************************************************)
(* With one write per frame every buffer is unread, and what a write took  *)
(* is at the end of the wire.                                              *)
(***************************************************************************)
FromStart ==
    protocol = "frame" =>
        /\ \A i \in DOMAIN send_list : send_list[i].read_idx = 0
        /\ net = "written" =>
              /\ gathered = 1
              /\ \E a \in Seq(Byte) : wire = a \o SubSeq(Unsent(send_list[1]), 1, written)

WholeFrame(f) == Unsent([frame |-> f, read_idx |-> 0])
Listed(f) == \E i \in DOMAIN send_list : send_list[i].frame = f
Carried(f) == \E a \in Seq(Byte), b \in Seq(Byte) : wire = (a \o WholeFrame(f)) \o b

LeftWhole == protocol = "frame" => \A f \in 1 .. pushed : Listed(f) \/ Carried(f)

WInv ==
    /\ send_list \in Seq(Buf) /\ wire \in Seq(Byte) /\ pushed \in Nat
    /\ UnderWay /\ FromStart /\ LeftWhole /\ NothingLostOrRepeated

\* A write's bytes are all in the list.
LEMMA WrittenFits ==
    ASSUME WInv
    PROVE  /\ written \in 0 .. Len(Bytes(send_list)) /\ Bytes(send_list) \in Seq(Byte)
           /\ net = "written" => Held(send_list, gathered) <= Len(Bytes(send_list))
<1>1. Bytes(send_list) \in Seq(Byte) /\ Len(Bytes(send_list)) \in Nat
  BY BytesConcat, LenProperties DEF WInv
<1>2. CASE net = "written"
  <2>1. gathered \in 0 .. Len(send_list) /\ Len(send_list) \in 0 .. Len(send_list)
    BY <1>2, LenProperties DEF WInv, UnderWay
  <2>2. Held(send_list, gathered) <= Held(send_list, Len(send_list))
    BY <2>1, HeldGrows DEF WInv
  <2>3. Held(send_list, Len(send_list)) = Len(Bytes(send_list))
    BY SubSeqFull DEF WInv, Held
  <2>4. Held(send_list, gathered) \in Nat
    BY <2>1, HeldGrows DEF WInv
  <2> QED
    BY <1>1, <1>2, <2>2, <2>3, <2>4 DEF WInv, UnderWay
<1>3. CASE net # "written"
  BY <1>1, <1>3 DEF WInv, UnderWay
<1> QED
  BY <1>2, <1>3

LEMMA WInvInit == Init => WInv
<1> SUFFICES ASSUME Init PROVE WInv
  OBVIOUS
<1>1. send_list = << >> /\ wire = << >> /\ pushed = 0 /\ net = "idle" /\ written = 0
  BY DEF Init
<1>2. send_list \in Seq(Buf) /\ wire \in Seq(Byte)
  BY <1>1
<1>3. NothingLostOrRepeated
  <2>1. [f \in 1 .. pushed |-> [frame |-> f, read_idx |-> 0]] = << >>
    BY <1>1
  <2>2. Stream = << >>
    BY <2>1, BytesNone, Zenon DEF Stream
  <2>3. Bytes(send_list) = << >>
    BY <1>1, BytesNone, Zenon
  <2> QED
    BY <1>1, <2>2, <2>3 DEF NothingLostOrRepeated
<1> QED
  BY <1>1, <1>2, <1>3 DEF WInv, UnderWay, FromStart, LeftWhole

(***************************************************************************)
(* Steps that neither push, write nor pop.                                 *)
(***************************************************************************)
LEMMA NothingMoves ==
    ASSUME WInv,
           UNCHANGED <<protocol, send_list, wire, pushed, gathered, written>>,
           (net' = "written") <=> (net = "written")
    PROVE  WInv'
<1>1. UnderWay'
  BY DEF WInv, UnderWay, Held, Bytes, Unsent
<1>2. FromStart'
  BY DEF WInv, FromStart
<1>3. LeftWhole'
  BY DEF WInv, LeftWhole, Listed, Carried
<1>4. NothingLostOrRepeated'
  BY DEF WInv, NothingLostOrRepeated, Stream
<1> QED
  BY <1>1, <1>2, <1>3, <1>4 DEF WInv

(***************************************************************************)
(* The stream with a further frame.                                        *)
(***************************************************************************)
FrameList(n) == [f \in 1 .. n |-> [frame |-> f, read_idx |-> 0]]

LEMMA StreamGrows ==
    ASSUME NEW n \in Nat, NEW b, b = [frame |-> n + 1, read_idx |-> 0]
    PROVE  /\ b \in Buf /\ FrameList(n) \in Seq(Buf)
           /\ Bytes(FrameList(n)) \in Seq(Byte)
           /\ Bytes(FrameList(n + 1)) = Bytes(FrameList(n)) \o Unsent(b)
<1>1. FrameLen \in Nat \ {0}
  BY SendAssumption
<1>2. \A f \in Nat : [frame |-> f, read_idx |-> 0] \in Buf
  BY <1>1 DEF Buf
<1>3. b \in Buf /\ <<b>> \in Seq(Buf)
  BY <1>2
<1>4. FrameList(n) \in Seq(Buf) /\ Len(FrameList(n)) = n
  <2>1. FrameList(n) \in [1 .. n -> Buf]
    BY <1>2 DEF FrameList
  <2> QED
    BY <2>1
<1>5. FrameList(n + 1) = FrameList(n) \o <<b>>
  <2>1. FrameList(n) \o <<b>> \in Seq(Buf) /\ Len(FrameList(n) \o <<b>>) = n + 1
    BY <1>3, <1>4, ConcatProperties
  <2>2. FrameList(n + 1) \in Seq(Buf) /\ Len(FrameList(n + 1)) = n + 1
    <3>1. FrameList(n + 1) \in [1 .. n + 1 -> Buf]
      BY <1>2 DEF FrameList
    <3> QED
      BY <3>1
  <2>3. ASSUME NEW f \in 1 .. n + 1
        PROVE  FrameList(n + 1)[f] = (FrameList(n) \o <<b>>)[f]
    <3>1. FrameList(n + 1)[f] = [frame |-> f, read_idx |-> 0]
      BY DEF FrameList
    <3>2. CASE f <= n
      <4>1. FrameList(n)[f] = [frame |-> f, read_idx |-> 0]
        BY <3>2 DEF FrameList
      <4>2. (FrameList(n) \o <<b>>)[f] = FrameList(n)[f]
        BY <1>3, <1>4, <3>2, ConcatProperties
      <4> QED
        BY <3>1, <4>1, <4>2
    <3>3. CASE f = n + 1
      <4>1. (FrameList(n) \o <<b>>)[f] = b
        BY <1>3, <1>4, <3>3, ConcatProperties
      <4> QED
        BY <3>1, <3>3, <4>1
    <3>4. f <= n \/ f = n + 1
      OBVIOUS
    <3> QED
      BY <3>2, <3>3, <3>4, Zenon
  <2> QED
    BY <2>1, <2>2, <2>3, SeqEqual
<1>6. /\ Bytes(FrameList(n)) \in Seq(Byte)
      /\ Bytes(FrameList(n) \o <<b>>) = Bytes(FrameList(n)) \o Bytes(<<b>>)
  BY <1>3, <1>4, BytesConcat
<1>7. Bytes(<<b>>) = Unsent(b)
  BY <1>3, BytesOne
<1> QED
  BY <1>3, <1>4, <1>5, <1>6, <1>7

LEMMA PushBackKeepsBytes ==
    ASSUME WInv, NEW s \in Sender, PushBack(s), protocol' = protocol
    PROVE  WInv'
<1>1. PICK b : b = [frame |-> pushed + 1, read_idx |-> 0]
  OBVIOUS
<1>2. /\ send_list' = Append(send_list, b) /\ pushed' = pushed + 1
      /\ wire' = wire /\ net' = net /\ gathered' = gathered /\ written' = written
  BY <1>1 DEF PushBack, net_vars
<1>3. b \in Buf /\ pushed \in Nat /\ send_list \in Seq(Buf) /\ wire \in Seq(Byte)
  BY <1>1, StreamGrows DEF WInv
<1>4. /\ send_list' \in Seq(Buf) /\ Len(send_list') = Len(send_list) + 1
      /\ \A i \in 1 .. Len(send_list) : send_list'[i] = send_list[i]
      /\ send_list'[Len(send_list) + 1] = b /\ Len(send_list) \in Nat
  BY <1>2, <1>3, AppendProperties, LenProperties
<1>5. UnderWay'
  <2>1. CASE net = "written"
    <3>1. gathered \in 1 .. Len(send_list) /\ gathered \in 1 .. Len(send_list')
      BY <1>4, <2>1 DEF WInv, UnderWay
    <3>2. SubSeq(send_list', 1, gathered) = SubSeq(send_list, 1, gathered)
      <4>1. send_list' = send_list \o <<b>> /\ <<b>> \in Seq(Buf)
        BY <1>2, <1>3, AppendIsConcat
      <4>2. 1 \in 1 .. Len(send_list)
        BY <1>4, <3>1
      <4> QED
        BY <1>3, <3>1, <4>1, <4>2, SubSeqOfConcat1
    <3>3. Held(send_list', gathered) = Held(send_list, gathered)
      BY <3>2, Zenon DEF Held
    <3> QED
      BY <1>2, <2>1, <3>1, <3>3 DEF WInv, UnderWay, Held, Bytes, Unsent
  <2>2. CASE net # "written"
    BY <1>2, <2>2 DEF WInv, UnderWay
  <2> QED
    BY <2>1, <2>2
<1>6. FromStart'
  <2> SUFFICES ASSUME protocol = "frame"
               PROVE  /\ \A i \in DOMAIN send_list' : send_list'[i].read_idx = 0
                      /\ net = "written" =>
                          /\ gathered = 1
                          /\ \E a \in Seq(Byte) :
                                wire = a \o SubSeq(Unsent(send_list'[1]), 1, written)
    BY <1>2 DEF FromStart
  <2>1. \A i \in DOMAIN send_list' : send_list'[i].read_idx = 0
    <3> SUFFICES ASSUME NEW i \in 1 .. Len(send_list) + 1
                 PROVE  send_list'[i].read_idx = 0
      BY <1>4
    <3>1. CASE i <= Len(send_list)
      BY <1>3, <1>4, <3>1 DEF WInv, FromStart
    <3>2. CASE i = Len(send_list) + 1
      BY <1>1, <1>4, <3>2
    <3> QED
      BY <1>4, <3>1, <3>2
  <2>2. ASSUME net = "written"
        PROVE  /\ gathered = 1
               /\ \E a \in Seq(Byte) :
                     wire = a \o SubSeq(Unsent(send_list'[1]), 1, written)
    <3>1. 1 \in 1 .. Len(send_list)
      BY <1>4, <2>2 DEF WInv, UnderWay
    <3>2. send_list'[1] = send_list[1]
      BY <1>4, <3>1
    <3> QED
      BY <2>2, <3>2 DEF WInv, FromStart
  <2> QED
    BY <2>1, <2>2
<1>7. LeftWhole'
  <2> SUFFICES ASSUME protocol = "frame", NEW f \in 1 .. pushed + 1
               PROVE  Listed(f)' \/ Carried(f)'
    BY <1>2 DEF LeftWhole
  <2>1. CASE f = pushed + 1
    <3>1. Len(send_list) + 1 \in DOMAIN send_list'
      BY <1>4
    <3> QED
      BY <1>1, <1>4, <2>1, <3>1 DEF Listed
  <2>2. CASE f \in 1 .. pushed
    <3>1. Carried(f) => Carried(f)'
      BY <1>2 DEF Carried
    <3>2. Listed(f) => Listed(f)'
      BY <1>3, <1>4 DEF Listed
    <3> QED
      BY <2>2, <3>1, <3>2 DEF WInv, LeftWhole
  <2> QED
    BY <1>3, <2>1, <2>2
<1>8. NothingLostOrRepeated'
  <2> SUFFICES ASSUME protocol = "tcp"
               PROVE  wire \o SubSeq(Bytes(send_list)', written + 1, Len(Bytes(send_list)'))
                        = Stream'
    BY <1>2 DEF NothingLostOrRepeated
  <2>1. PICK u \in Seq(Byte) : u = Unsent(b)
    BY <1>3, UnsentIs
  <2>2. PICK e \in Seq(Byte) : e = Bytes(send_list)
    BY WrittenFits
  <2>3. Bytes(send_list)' = e \o u
    <3>1. send_list' = send_list \o <<b>> /\ <<b>> \in Seq(Buf)
      BY <1>2, <1>3, AppendIsConcat
    <3>2. Bytes(send_list \o <<b>>) = Bytes(send_list) \o Bytes(<<b>>)
      BY <1>3, <3>1, BytesConcat
    <3>3. Bytes(send_list)' = Bytes(send_list \o <<b>>)
      BY <3>1 DEF Bytes
    <3> QED
      BY <1>3, <2>1, <2>2, <3>2, <3>3, BytesOne
  <2>4. Stream = Bytes(FrameList(pushed)) /\ Stream' = Bytes(FrameList(pushed + 1))
    BY <1>2 DEF Stream, FrameList, Bytes
  <2>5. Stream' = Stream \o u
    BY <1>1, <1>3, <2>1, <2>4, StreamGrows
  <2>6. written \in 0 .. Len(e)
    BY <2>2, WrittenFits
  <2>7. PICK d \in Seq(Byte) : d = SubSeq(e, written + 1, Len(e))
    BY <2>6, After
  <2>8. SubSeq(e \o u, written + 1, Len(e \o u)) = d \o u
    <3>1. SubSeq(e \o u, written + 1, Len(e \o u)) = SubSeq(e, written + 1, Len(e)) \o u
      BY <2>6, CutConcat
    <3> QED
      BY <2>7, <3>1
  <2>9. wire \o d = Stream
    BY <2>2, <2>7 DEF WInv, NothingLostOrRepeated
  <2>10. PICK w \in Seq(Byte) : w = wire
    BY <1>3
  <2>11. w \o (d \o u) = (w \o d) \o u
    OBVIOUS
  <2> QED
    BY <2>3, <2>5, <2>8, <2>9, <2>10, <2>11
<1> QED
  BY <1>2, <1>3, <1>4, <1>5, <1>6, <1>7, <1>8 DEF WInv

LEMMA JoinBytes ==
    ASSUME NEW a \in Seq(Byte), NEW b \in Seq(Byte), NEW c \in Seq(Byte)
    PROVE  (a \o b) \o c = a \o (b \o c) /\ b \o c \in Seq(Byte)
OBVIOUS

\* Written with an operator the provers need not look into.
Join(a, b) == a \o b

LEMMA JoinThree ==
    ASSUME NEW a \in Seq(Byte), NEW b \in Seq(Byte), NEW c \in Seq(Byte)
    PROVE  Join(Join(a, b), c) = Join(a, Join(b, c))
BY JoinBytes DEF Join

LEMMA JoinFour ==
    ASSUME NEW a \in Seq(Byte), NEW b \in Seq(Byte), NEW c \in Seq(Byte), NEW d \in Seq(Byte)
    PROVE  Join(Join(a, b), Join(c, d)) = Join(a, Join(Join(b, c), d))
<1>1. PICK x \in Seq(Byte) : x = c \o d
  BY JoinBytes
<1>2. (a \o b) \o x = a \o (b \o x)
  BY SMTT(30)
<1>3. (b \o c) \o d = b \o (c \o d)
  BY SMTT(30)
<1> QED
  BY <1>1, <1>2, <1>3 DEF Join

(***************************************************************************)
(* The buffers of one write, and their bytes.                              *)
(***************************************************************************)
LEMMA IovIs ==
    ASSUME WInv, send_list # << >>, protocol \in {"tcp", "frame"}
    PROVE  \E g \in 1 .. Len(send_list) :
              /\ Len(Iov) = g /\ Iov = SubSeq(send_list, 1, g)
              /\ protocol = "frame" => g = 1
<1>1. Len(send_list) \in Nat \ {0} /\ send_list \in Seq(Buf)
  BY LenProperties, EmptySeq DEF WInv
<1>2. CASE protocol = "tcp"
  <2>1. PICK g : g = IF Len(send_list) < IovMax THEN Len(send_list) ELSE IovMax
    OBVIOUS
  <2>2. g \in 1 .. Len(send_list)
    BY <1>1, <2>1, SendAssumption
  <2>3. Iov = SubSeq(send_list, 1, g)
    BY <1>2, <2>1 DEF Iov
  <2>4. Len(SubSeq(send_list, 1, g)) = g
    BY <1>1, <2>2, Halves
  <2> QED
    BY <1>2, <2>2, <2>3, <2>4
<1>3. CASE protocol = "frame"
  <2>1. Iov = <<Head(send_list)>>
    BY <1>3 DEF Iov
  <2>2. <<Head(send_list)>> = SubSeq(send_list, 1, 1) /\ 1 \in 1 .. Len(send_list)
    BY <1>1
  <2> QED
    BY <2>1, <2>2
<1> QED
  BY <1>2, <1>3

LEMMA WriteKeepsBytes ==
    ASSUME WInv, Write, protocol' = protocol, protocol \in {"tcp", "frame"}
    PROVE  WInv'
<1>1. PICK g \in 1 .. Len(send_list) :
         /\ Len(Iov) = g /\ Iov = SubSeq(send_list, 1, g)
         /\ protocol = "frame" => g = 1
  BY IovIs DEF Write
<1>2. PICK a \in Seq(Byte) : a = Bytes(Iov)
  <2>1. g \in 0 .. Len(send_list)
    BY <1>1
  <2> QED
    BY <1>1, <2>1, BytesCut DEF WInv
<1>3. PICK n \in 1 .. Len(a) : wire' = wire \o SubSeq(a, 1, n) /\ written' = n
  BY <1>2 DEF Write
<1>4. /\ send_list' = send_list /\ pushed' = pushed /\ net' = "written" /\ gathered' = g
      /\ written = 0
  BY <1>1 DEF Write, svc_vars, WInv, UnderWay
<1>5. PICK d \in Seq(Byte), e \in Seq(Byte) :
         d = SubSeq(a, 1, n) /\ e = SubSeq(a, n + 1, Len(a)) /\ d \o e = a
  <2>1. n \in 0 .. Len(a)
    OBVIOUS
  <2>2. SubSeq(a, 1, n) \in Seq(Byte) /\ SubSeq(a, n + 1, Len(a)) \in Seq(Byte)
    BY <2>1, After, Halves
  <2>3. SubSeq(a, 1, n) \o SubSeq(a, n + 1, Len(a)) = a
    BY <2>1, Halves
  <2> QED
    BY <2>2, <2>3
<1>6. wire' \in Seq(Byte) /\ wire \in Seq(Byte)
  BY <1>3, <1>5, ConcatProperties DEF WInv
<1>7. UnderWay'
  <2>1. Held(send_list, g) = Len(a)
    BY <1>1, <1>2 DEF Held
  <2>2. Held(send_list, g)' = Held(send_list, g)
    BY <1>4 DEF Held, Bytes, Unsent
  <2> QED
    BY <1>3, <1>4, <2>1, <2>2 DEF UnderWay, Held, Bytes, Unsent
<1>8. FromStart'
  <2> SUFFICES ASSUME protocol = "frame"
               PROVE  \E c \in Seq(Byte) : wire' = c \o SubSeq(Unsent(send_list[1]), 1, n)
    BY <1>1, <1>3, <1>4 DEF WInv, FromStart
  <2>1. send_list[1] \in Buf
    BY <1>1, ElementOfSeq DEF WInv
  <2>2. Iov = <<send_list[1]>>
    BY <1>1 DEF WInv, Iov
  <2>3. Bytes(Iov) = Unsent(send_list[1])
    BY <2>1, <2>2, BytesOne
  <2> QED
    BY <1>2, <1>3, <1>6, <2>3
<1>9. LeftWhole'
  <2> SUFFICES ASSUME protocol = "frame", NEW f \in 1 .. pushed, Carried(f)
               PROVE  Carried(f)'
    BY <1>4 DEF WInv, LeftWhole, Listed
  <2>1. PICK x \in Seq(Byte), y \in Seq(Byte) : wire = (x \o WholeFrame(f)) \o y
    BY DEF Carried
  <2>2. PICK v \in Seq(Byte) : v = WholeFrame(f)
    <3>1. [frame |-> f, read_idx |-> 0] \in Buf
      BY SendAssumption DEF Buf, WInv
    <3> QED
      BY <3>1, UnsentIs DEF WholeFrame
  <2>3. ((x \o v) \o y) \o d = (x \o v) \o (y \o d) /\ y \o d \in Seq(Byte)
    <3>1. PICK z \in Seq(Byte) : z = x \o v
      BY ConcatProperties
    <3>2. (z \o y) \o d = z \o (y \o d) /\ y \o d \in Seq(Byte)
      BY JoinBytes
    <3> QED
      BY <3>1, <3>2
  <2>4. wire' = (x \o WholeFrame(f)) \o (y \o d)
    BY <1>3, <1>5, <2>1, <2>2, <2>3
  <2> QED
    BY <2>3, <2>4 DEF Carried, WholeFrame, Unsent
<1>10. NothingLostOrRepeated'
  <2> SUFFICES ASSUME protocol = "tcp"
               PROVE  wire' \o SubSeq(Bytes(send_list), n + 1, Len(Bytes(send_list))) = Stream
    BY <1>3, <1>4 DEF NothingLostOrRepeated, Stream, Bytes, Unsent
  <2>1. PICK r \in Seq(Byte) : /\ r = Bytes(SubSeq(send_list, g + 1, Len(send_list)))
                               /\ Bytes(send_list) = a \o r
    <3>1. g \in 0 .. Len(send_list)
      BY <1>1
    <3>2. Bytes(SubSeq(send_list, g + 1, Len(send_list))) \in Seq(Byte)
      BY <3>1, BytesCut DEF WInv
    <3>3. Bytes(send_list) = Bytes(SubSeq(send_list, 1, g))
                               \o Bytes(SubSeq(send_list, g + 1, Len(send_list)))
      BY <3>1, BytesCut DEF WInv
    <3> QED
      BY <1>1, <1>2, <3>2, <3>3
  <2>2. SubSeq(a \o r, n + 1, Len(a \o r)) = e \o r
    <3>1. n \in 0 .. Len(a)
      OBVIOUS
    <3>2. SubSeq(a \o r, n + 1, Len(a \o r)) = SubSeq(a, n + 1, Len(a)) \o r
      BY <3>1, CutConcat
    <3> QED
      BY <1>5, <3>2
  <2>3. PICK w \in Seq(Byte) : w = wire
    BY <1>6
  <2>4. (w \o d) \o (e \o r) = w \o ((d \o e) \o r)
    <3>1. Join(Join(w, d), Join(e, r)) = Join(w, Join(Join(d, e), r))
      BY JoinFour
    <3> QED
      BY <3>1 DEF Join
  <2>5. wire \o (a \o r) = Stream
    <3>1. SubSeq(a \o r, 0 + 1, Len(a \o r)) = a \o r
      BY SubSeqFull, ConcatProperties
    <3> QED
      BY <1>4, <2>1, <3>1 DEF WInv, NothingLostOrRepeated
  <2> QED
    BY <1>3, <1>5, <2>1, <2>2, <2>3, <2>4, <2>5
<1> QED
  BY <1>4, <1>6, <1>7, <1>8, <1>9, <1>10 DEF WInv

LEMMA PopWrittenTcpKeepsBytes ==
    ASSUME WInv, PopWrittenTcp, protocol' = protocol
    PROVE  WInv'
<1>1. /\ net = "written" /\ protocol = "tcp" /\ net' # "written" /\ written' = 0
      /\ wire' = wire /\ pushed' = pushed
      /\ gathered \in 1 .. Len(send_list) /\ written \in 1 .. Held(send_list, gathered)
      /\ send_list \in Seq(Buf) /\ Len(send_list) \in Nat
  BY LenProperties DEF PopWrittenTcp, WInv, UnderWay
<1>2. PICK k : k = Cardinality({i \in 1 .. gathered : Held(send_list, i) <= written})
  OBVIOUS
<1>3. PICK offset : offset = written - Held(send_list, k)
  OBVIOUS
<1>4. /\ k \in 0 .. gathered /\ offset \in Nat
      /\ offset # 0 => k < Len(send_list) /\ offset < Len(Unsent(send_list[k + 1]))
  <2>1. gathered \in 0 .. Len(send_list) /\ written \in 0 .. Held(send_list, gathered)
    BY <1>1
  <2> QED
    BY <1>1, <1>2, <1>3, <2>1, Covered
<1>5. \A i \in 0 .. gathered : SubSeq(Gathered, 1, i) = SubSeq(send_list, 1, i)
  BY <1>1 DEF Gathered
<1>6. send_list' = TakeOff(send_list, k, offset)
  <2>1. \A i \in 0 .. gathered : Len(Bytes(SubSeq(Gathered, 1, i))) = Held(send_list, i)
    BY <1>5 DEF Held
  <2>2. {i \in 1 .. gathered : Len(Bytes(SubSeq(Gathered, 1, i))) <= written}
          = {i \in 1 .. gathered : Held(send_list, i) <= written}
    BY <1>1, <2>1
  <2>3. k = Cardinality({i \in 1 .. gathered : Len(Bytes(SubSeq(Gathered, 1, i))) <= written})
    BY <1>2, <2>2
  <2>4. offset = written - Len(Bytes(SubSeq(Gathered, 1, k)))
    BY <1>3, <1>4, <2>1
  <2> QED
    BY <2>3, <2>4 DEF PopWrittenTcp, TakeOff
<1>7. /\ TakeOff(send_list, k, offset) \in Seq(Buf)
      /\ Bytes(TakeOff(send_list, k, offset)) =
           SubSeq(Bytes(send_list), Held(send_list, k) + offset + 1, Len(Bytes(send_list)))
  <2>1. k \in 0 .. Len(send_list)
    BY <1>1, <1>4
  <2> QED
    BY <1>1, <1>4, <2>1, TakenOff
<1>8. NothingLostOrRepeated'
  <2>1. Held(send_list, k) \in Nat /\ Held(send_list, k) + offset = written
    <3>1. Held(send_list, k) \in Nat
      BY <1>1, <1>4, HeldGrows
    <3> QED
      BY <1>1, <1>3, <3>1
  <2>2. PICK rest \in Seq(Byte) :
           rest = SubSeq(Bytes(send_list), written + 1, Len(Bytes(send_list)))
    BY WrittenFits, After
  <2>3. Bytes(send_list)' = rest
    <3>1. Bytes(send_list)' = Bytes(TakeOff(send_list, k, offset))
      BY <1>6 DEF Bytes
    <3> QED
      BY <1>7, <2>1, <2>2, <3>1
  <2>4. wire \o rest = Stream
    BY <1>1, <2>2 DEF WInv, NothingLostOrRepeated
  <2>5. SubSeq(rest, 0 + 1, Len(rest)) = rest
    BY SubSeqFull
  <2>6. Stream' = Stream
    BY <1>1 DEF Stream, Bytes, Unsent
  <2> QED
    BY <1>1, <2>3, <2>4, <2>5, <2>6 DEF NothingLostOrRepeated
<1>9. UnderWay' /\ FromStart' /\ LeftWhole'
  BY <1>1 DEF UnderWay, FromStart, LeftWhole
<1> QED
  BY <1>1, <1>6, <1>7, <1>8, <1>9 DEF WInv

LEMMA PopWrittenFrameKeepsBytes ==
    ASSUME WInv, PopWrittenFrame, protocol' = protocol
    PROVE  WInv'
<1>1. /\ net = "written" /\ protocol = "frame" /\ net' # "written" /\ written' = 0
      /\ wire' = wire /\ pushed' = pushed /\ gathered = 1
      /\ 1 \in 1 .. Len(send_list) /\ written \in 1 .. Held(send_list, 1)
      /\ send_list \in Seq(Buf) /\ Len(send_list) \in Nat /\ pushed \in Nat
  BY LenProperties DEF PopWrittenFrame, WInv, UnderWay, FromStart
<1>2. CASE written < FrameLen
  <2>1. send_list' = send_list
    BY <1>2, SendAssumption DEF PopWrittenFrame
  <2> QED
    BY <1>1, <2>1 DEF WInv, UnderWay, FromStart, LeftWhole, Listed, Carried,
                      NothingLostOrRepeated
<1>3. CASE written = FrameLen
  <2>1. send_list' = Tail(send_list)
    BY <1>3, SendAssumption DEF PopWrittenFrame
  <2>2. /\ send_list' \in Seq(Buf) /\ Len(send_list') = Len(send_list) - 1
        /\ \A i \in 1 .. Len(send_list) - 1 : send_list'[i] = send_list[i + 1]
    BY <1>1, <2>1
  <2>3. FromStart'
    <3>1. \A i \in 1 .. Len(send_list) - 1 : send_list[i + 1].read_idx = 0
      BY <1>1 DEF WInv, FromStart
    <3> QED
      BY <1>1, <2>2, <3>1 DEF FromStart
  <2>4. PICK head \in Buf : head = send_list[1] /\ head.read_idx = 0
    BY <1>1, ElementOfSeq DEF WInv, FromStart
  <2>5. Unsent(head) = WholeFrame(head.frame)
    BY <2>4 DEF WholeFrame, Unsent
  <2>6. PICK v \in Seq(Byte) : v = Unsent(head) /\ Len(v) = FrameLen
    BY <2>4, UnsentIs, SendAssumption
  <2>7. PICK a \in Seq(Byte) : wire = a \o v
    <3>1. PICK a \in Seq(Byte) : wire = a \o SubSeq(v, 1, written)
      BY <1>1, <2>4, <2>6 DEF WInv, FromStart
    <3>2. SubSeq(v, 1, written) = v
      BY <1>3, <2>6, SubSeqFull
    <3> QED
      BY <3>1, <3>2
  <2>8. Carried(head.frame)
    <3>1. wire = (a \o v) \o << >> /\ << >> \in Seq(Byte)
      BY <2>7
    <3> QED
      BY <2>5, <2>6, <3>1 DEF Carried
  <2>9. ASSUME NEW f \in 1 .. pushed
        PROVE  Listed(f)' \/ Carried(f)'
    <3>1. Carried(f) => Carried(f)'
      BY <1>1 DEF Carried, WholeFrame, Unsent
    <3>2. ASSUME Listed(f)
          PROVE  Listed(f)' \/ Carried(f)
      <4>1. PICK i \in 1 .. Len(send_list) : send_list[i].frame = f
        BY <1>1, <3>2 DEF Listed
      <4>2. CASE i = 1
        BY <2>4, <2>8, <4>1, <4>2
      <4>3. CASE i # 1
        <5>1. i - 1 \in 1 .. Len(send_list) - 1 /\ (i - 1) + 1 = i
          BY <1>1, <4>3
        <5>2. PICK j \in 1 .. Len(send_list) - 1 : j + 1 = i
          BY <5>1
        <5>3. send_list'[j] = send_list[i] /\ j \in DOMAIN send_list'
          BY <1>1, <2>2, <5>2
        <5> QED
          BY <4>1, <5>3 DEF Listed
      <4> QED
        BY <4>2, <4>3
    <3> QED
      BY <1>1, <3>1, <3>2 DEF WInv, LeftWhole
  <2>10. LeftWhole'
    BY <1>1, <2>9 DEF LeftWhole
  <2> QED
    BY <1>1, <2>2, <2>3, <2>10 DEF WInv, UnderWay, NothingLostOrRepeated
<1> QED
  BY <1>2, <1>3 DEF PopWrittenFrame

-----------------------------------------------------------------------------
(***************************************************************************)
(* A frame that the wire carries is in it from some position on.           *)
(***************************************************************************)
LEMMA WInvImplies == WInv => NothingLostOrRepeated /\ FramesLeaveWhole
<1> SUFFICES ASSUME WInv, protocol = "frame", NEW f \in 1 .. pushed, Carried(f)
             PROVE  \E i \in 1 .. Len(wire) :
                       IsPrefix(Unsent([frame |-> f, read_idx |-> 0]),
                                SubSeq(wire, i, Len(wire)))
  BY DEF WInv, FramesLeaveWhole, LeftWhole, Listed
<1>1. PICK v : v = WholeFrame(f)
  OBVIOUS
<1>2. v \in Seq(Byte) /\ Len(v) \in Nat \ {0} /\ v = Unsent([frame |-> f, read_idx |-> 0])
  <2>1. [frame |-> f, read_idx |-> 0] \in Buf
    BY SendAssumption DEF Buf, WInv
  <2> QED
    BY <1>1, <2>1, UnsentIs DEF WholeFrame
<1>3. PICK a \in Seq(Byte), b \in Seq(Byte) : wire = (a \o v) \o b
  BY <1>1 DEF Carried
<1>4. PICK c \in Seq(Byte) : c = v \o b
  BY <1>2, ConcatProperties
<1>5. wire = a \o c
  <2>1. Join(Join(a, v), b) = Join(a, Join(v, b))
    BY <1>2, JoinThree
  <2>2. (a \o v) \o b = a \o (v \o b)
    BY <2>1 DEF Join
  <2> QED
    BY <1>3, <1>4, <2>2
<1>6. Len(a) \in Nat /\ Len(b) \in Nat /\ Len(c) = Len(v) + Len(b)
  BY <1>2, <1>4, ConcatProperties, LenProperties
<1>7. Len(wire) = Len(a) + Len(c)
  BY <1>5, ConcatProperties
<1>8. PICK i \in 1 .. Len(wire) : i = Len(a) + 1
  BY <1>2, <1>6, <1>7
<1>9. SubSeq(wire, i, Len(wire)) = c
  <2>1. 0 \in 0 .. Len(c)
    BY <1>2, <1>6
  <2>2. SubSeq(a \o c, Len(a) + 0 + 1, Len(a \o c)) = SubSeq(c, 0 + 1, Len(c))
    BY <2>1, CutBeyond
  <2>3. SubSeq(c, 1, Len(c)) = c
    BY SubSeqFull
  <2>4. Len(a) + 0 + 1 = i /\ 0 + 1 = 1
    BY <1>6, <1>8
  <2> QED
    BY <1>5, <2>2, <2>3, <2>4, Zenon
<1>10. SubSeq(c, 1, Len(v)) = SubSeq(v, 1, Len(v))
  BY <1>2, <1>4, SubSeqOfConcat1
<1>11. IsPrefix(v, c)
  BY <1>2, <1>6, <1>10 DEF IsPrefix
<1> QED
  BY <1>2, <1>8, <1>9, <1>11

Protocol == protocol \in {"tcp", "frame"}

LEMMA WInvNext == Protocol /\ WInv /\ [Next]_vars => Protocol' /\ WInv'
<1> SUFFICES ASSUME Protocol, WInv, [Next]_vars
             PROVE  Protocol' /\ WInv'
  OBVIOUS
<1>1. protocol' = protocol /\ Protocol'
  BY DEF Next, vars, Protocol
<1>2. ASSUME NEW s \in Sender, PushBack(s) PROVE WInv'
  BY <1>1, <1>2, PushBackKeepsBytes
<1>3. ASSUME NEW s \in Sender,
             BeginPush(s) \/ TestSize(s) \/ SetSendData(s) \/ SenderTestClosed(s)
               \/ SenderClose(s) \/ SenderQueuesDrop(s)
      PROVE  WInv'
  <2>1. /\ UNCHANGED <<protocol, send_list, wire, pushed, gathered, written>>
        /\ ((net' = "written") <=> (net = "written"))
    BY <1>1, <1>3 DEF BeginPush, TestSize, SetSendData, SenderTestClosed, SenderClose,
                      SenderQueuesDrop, svc_vars, net_vars
  <2> QED
    BY <2>1, NothingMoves
<1>4. CASE PopWrittenTcp
  BY <1>1, <1>4, PopWrittenTcpKeepsBytes
<1>5. CASE PopWrittenFrame
  BY <1>1, <1>5, PopWrittenFrameKeepsBytes
<1>6. CASE Write
  BY <1>1, <1>6, WriteKeepsBytes DEF Protocol
<1>7. CASE \/ TimeoutSends \/ HandleSend \/ ListEmpty \/ WouldBlock
           \/ WriteFails \/ NetTestClosed \/ NetClose \/ NetQueuesDrop
           \/ ClearSendData \/ UNCHANGED vars
  <2>1. /\ UNCHANGED <<protocol, send_list, wire, pushed, gathered, written>>
        /\ (net' = "written") <=> (net = "written")
    BY <1>1, <1>7 DEF TimeoutSends, HandleSend, ListEmpty, WouldBlock, WriteFails,
                NetTestClosed, NetClose, NetQueuesDrop, ClearSendData, vars,
                svc_vars, net_vars
  <2> QED
    BY <1>1, <2>1, NothingMoves
<1> QED
  BY <1>1, <1>2, <1>3, <1>4, <1>5, <1>6, <1>7 DEF Next

LEMMA WInvAlways == Spec => [](NothingLostOrRepeated /\ FramesLeaveWhole)
<1>1. Init => Protocol /\ WInv
  BY WInvInit, SendAssumption DEF Init, Protocol
<1>2. Protocol /\ WInv /\ [Next]_vars => (Protocol /\ WInv)'
  BY WInvNext
<1>3. Protocol /\ WInv => NothingLostOrRepeated /\ FramesLeaveWhole
  BY WInvImplies
<1> QED
  BY <1>1, <1>2, <1>3, PTL DEF Spec

(***************************************************************************)
(* Over TCP, for frames of any length, any limit of buffers per write, and *)
(* however little of them the socket takes: the bytes on the wire and the  *)
(* unwritten rest of the list are the frames in the order of their pushes  *)
(* (Svc_Tcp::handle_send).                                                 *)
(***************************************************************************)
THEOREM BytesNeverLostOrRepeated == Spec => []NothingLostOrRepeated
BY WInvAlways, PTL

(***************************************************************************)
(* With one write per frame, a frame of any length is off the list only    *)
(* when the wire carries it in one piece (Svc_Http and Svc_Websocket).     *)
(***************************************************************************)
THEOREM FramesAlwaysLeaveWhole == Spec => []FramesLeaveWhole
BY WInvAlways, PTL

-----------------------------------------------------------------------------
(***************************************************************************)
(* The first member of a sequence of sequences, and the rest.              *)
(***************************************************************************)
LEMMA FrontAndRest ==
    ASSUME NEW S, NEW q \in Seq(S), q # << >>
    PROVE  /\ Head(q) \in S /\ Head(q) = q[1] /\ Tail(q) \in Seq(S)
           /\ Len(q) \in Nat \ {0} /\ Len(Tail(q)) = Len(q) - 1
           /\ \A i \in 1 .. Len(q) - 1 : Tail(q)[i] = q[i + 1]
           /\ q = <<Head(q)>> \o Tail(q)
<1>1. Len(q) \in Nat \ {0}
  BY EmptySeq, LenProperties
<1>2. /\ Head(q) = q[1] /\ Head(q) \in S /\ Tail(q) \in Seq(S)
      /\ Len(Tail(q)) = Len(q) - 1 /\ \A i \in 1 .. Len(q) - 1 : Tail(q)[i] = q[i + 1]
  BY <1>1, HeadTailProperties, ElementOfSeq
<1>3. PICK h, t : h = Head(q) /\ t = Tail(q)
  OBVIOUS
<1>4. /\ <<h>> \o t \in Seq(S) /\ Len(<<h>> \o t) = Len(q)
      /\ \A i \in 1 .. Len(q) : (<<h>> \o t)[i] = q[i]
  <2>1. <<h>> \in Seq(S) /\ Len(<<h>>) = 1 /\ <<h>>[1] = h
    BY <1>2, <1>3
  <2>2. /\ <<h>> \o t \in Seq(S) /\ Len(<<h>> \o t) = 1 + (Len(q) - 1)
        /\ \A i \in 1 .. 1 + (Len(q) - 1) :
              (<<h>> \o t)[i] = IF i <= 1 THEN <<h>>[i] ELSE t[i - 1]
    BY <1>2, <1>3, <2>1, ConcatProperties
  <2>3. 1 + (Len(q) - 1) = Len(q)
    BY <1>1
  <2>4. ASSUME NEW i \in 1 .. Len(q)
        PROVE  (<<h>> \o t)[i] = q[i]
    <3>1. CASE i = 1
      BY <1>2, <1>3, <2>1, <2>2, <2>3, <3>1
    <3>2. CASE i # 1
      <4>1. i - 1 \in 1 .. Len(q) - 1 /\ ~(i <= 1) /\ (i - 1) + 1 = i
        BY <3>2
      <4> QED
        BY <1>2, <1>3, <2>2, <2>3, <4>1
    <3> QED
      BY <3>1, <3>2
  <2> QED
    BY <2>2, <2>3, <2>4
<1>5. <<h>> \o t = q
  BY <1>4, SeqEqual
<1> QED
  BY <1>1, <1>2, <1>3, <1>5

LEMMA FlattenNone == FlattenSeq(<< >>) = << >>
BY DEF FlattenSeq

LEMMA FlattenOne ==
    ASSUME NEW S, NEW x \in Seq(S)
    PROVE  FlattenSeq(<<x>>) = x
<1>1. << >> \in Seq(Seq(S)) /\ Append(<< >>, x) = <<x>>
  OBVIOUS
<1>2. FlattenSeq(Append(<< >>, x)) = FlattenSeq(<< >>) \o x
  BY <1>1, FlattenAppend
<1> QED
  BY <1>1, <1>2, FlattenNone, ConcatEmptySeq

LEMMA FlattenFront ==
    ASSUME NEW S, NEW q \in Seq(Seq(S)), q # << >>
    PROVE  /\ FlattenSeq(q) = Head(q) \o FlattenSeq(Tail(q))
           /\ Head(q) \in Seq(S) /\ FlattenSeq(Tail(q)) \in Seq(S) /\ FlattenSeq(q) \in Seq(S)
<1>1. PICK h, t : h = Head(q) /\ t = Tail(q)
  OBVIOUS
<1>2. h \in Seq(S) /\ t \in Seq(Seq(S)) /\ q = <<h>> \o t /\ <<h>> \in Seq(Seq(S))
  BY <1>1, FrontAndRest
<1>3. FlattenSeq(<<h>> \o t) = FlattenSeq(<<h>>) \o FlattenSeq(t)
  BY <1>2, FlattenConcat
<1>4. FlattenSeq(t) \in Seq(S) /\ FlattenSeq(q) \in Seq(S) /\ FlattenSeq(<<h>>) = h
  BY <1>2, FlattenAppend, FlattenOne
<1> QED
  BY <1>1, <1>2, <1>3, <1>4

(***************************************************************************)
(* Two sequences that go on to be the same: the shorter one is the         *)
(* beginning of the longer one, and what is left of that goes on as well.  *)
(***************************************************************************)
LEMMA Overlap ==
    ASSUME NEW S, NEW a \in Seq(S), NEW b \in Seq(S), NEW x \in Seq(S), NEW y \in Seq(S),
           a \o x = b \o y, Len(b) <= Len(a)
    PROVE  /\ SubSeq(a, 1, Len(b)) = b
           /\ SubSeq(a, Len(b) + 1, Len(a)) \o x = y
<1>1. Len(b) \in 0 .. Len(a) /\ Len(a) \in Nat /\ Len(b) \in Nat
  BY LenProperties
<1>2. PICK n \in 0 .. Len(a) : n = Len(b)
  BY <1>1
<1>3. PICK c, e : c = a \o x /\ e = SubSeq(a, n + 1, Len(a))
  OBVIOUS
<1>4. SubSeq(c, n + 1, Len(c)) = e \o x
  BY <1>2, <1>3, CutConcat
<1>5. SubSeq(c, n + 1, Len(c)) = y
  <2>1. 0 \in 0 .. Len(y) /\ Len(b) + 0 + 1 = n + 1 /\ 0 + 1 = 1
    BY <1>1, <1>2, LenProperties
  <2>2. SubSeq(b \o y, Len(b) + 0 + 1, Len(b \o y)) = SubSeq(y, 0 + 1, Len(y))
    BY <2>1, CutBeyond
  <2>3. SubSeq(y, 1, Len(y)) = y
    <3>1. /\ SubSeq(y, 1, 0) = << >> /\ SubSeq(y, 0 + 1, Len(y)) \in Seq(S)
          /\ SubSeq(y, 1, 0) \o SubSeq(y, 0 + 1, Len(y)) = y
      <4>1. SubSeq(y, 1, 0) \in Seq(S) /\ Len(SubSeq(y, 1, 0)) = 0
            /\ SubSeq(y, 1, 0) \o SubSeq(y, 0 + 1, Len(y)) = y
        BY <2>1, Halves
      <4> QED
        BY <2>1, <4>1, After, EmptySeq
    <3>2. SubSeq(y, 1, 0) \o SubSeq(y, 0 + 1, Len(y)) = SubSeq(y, 0 + 1, Len(y))
      BY <3>1, ConcatEmptySeq
    <3> QED
      BY <2>1, <3>1, <3>2
  <2> QED
    BY <1>3, <2>1, <2>2, <2>3
<1>6. SubSeq(a, 1, n) = b
  <2>1. PICK f : f = SubSeq(a, 1, n)
    OBVIOUS
  <2>2. f \in Seq(S) /\ Len(f) = n /\ f \o e = a /\ e \in Seq(S)
    <3>1. /\ SubSeq(a, 1, n) \in Seq(S) /\ Len(SubSeq(a, 1, n)) = n
          /\ SubSeq(a, 1, n) \o SubSeq(a, n + 1, Len(a)) = a
      BY Halves
    <3>2. SubSeq(a, n + 1, Len(a)) \in Seq(S)
      BY After
    <3> QED
      BY <1>3, <2>1, <3>1, <3>2
  <2>3. ASSUME NEW i \in 1 .. n
        PROVE  f[i] = b[i]
    <3>1. i \in 1 .. Len(a) /\ i \in 1 .. Len(a) + Len(x) /\ i \in 1 .. Len(b) + Len(y)
          /\ i \in 1 .. Len(f) + Len(e) /\ i <= Len(a) /\ i <= Len(b) /\ i <= Len(f)
      BY <1>1, <1>2, <2>2, LenProperties
    <3>2. (a \o x)[i] = a[i]
      BY <3>1, ConcatProperties
    <3>3. (b \o y)[i] = b[i]
      BY <3>1, ConcatProperties
    <3>4. (f \o e)[i] = f[i]
      BY <2>2, <3>1, ConcatProperties
    <3> QED
      BY <2>2, <3>2, <3>3, <3>4
  <2> QED
    BY <1>1, <1>2, <2>1, <2>2, <2>3, SeqEqual
<1> QED
  BY <1>2, <1>3, <1>4, <1>5, <1>6

-----------------------------------------------------------------------------
(***************************************************************************)
(* Lists of buffers without empty ones: the first two joined, and the      *)
(* first one shortened from the front.                                     *)
(***************************************************************************)
Filled(list) == \A i \in DOMAIN list : list[i] # << >>

FrontJoined(list) == <<list[1] \o list[2]>> \o SubSeq(list, 3, Len(list))

FrontCut(list, n) ==
    IF Len(Head(list)) = n THEN Tail(list)
    ELSE <<SubSeq(Head(list), n + 1, Len(Head(list)))>> \o Tail(list)

\* A list with a buffer in front of it.
LEMMA InFront ==
    ASSUME NEW S, NEW b \in Seq(S), NEW r \in Seq(Seq(S)), b # << >>, Filled(r)
    PROVE  /\ <<b>> \o r \in Seq(Seq(S)) /\ Filled(<<b>> \o r)
           /\ Len(<<b>> \o r) = Len(r) + 1
           /\ FlattenSeq(<<b>> \o r) = b \o FlattenSeq(r)
<1>1. PICK T : T = Seq(S)
  OBVIOUS
<1>2. b \in T /\ r \in Seq(T) /\ Len(r) \in Nat /\ DOMAIN r = 1 .. Len(r)
  BY <1>1, LenProperties
<1>3. /\ <<b>> \in Seq(T) /\ Len(<<b>>) = 1 /\ <<b>>[1] = b
  BY <1>2
<1>4. /\ <<b>> \o r \in Seq(T) /\ Len(<<b>> \o r) = Len(r) + 1
      /\ \A i \in 1 .. Len(r) + 1 : (<<b>> \o r)[i] = IF i <= 1 THEN <<b>>[i] ELSE r[i - 1]
  <2>1. /\ <<b>> \o r \in Seq(T) /\ Len(<<b>> \o r) = 1 + Len(r)
        /\ \A i \in 1 .. 1 + Len(r) : (<<b>> \o r)[i] = IF i <= 1 THEN <<b>>[i] ELSE r[i - 1]
    BY <1>2, <1>3, ConcatProperties
  <2>2. 1 + Len(r) = Len(r) + 1
    BY <1>2
  <2> QED
    BY <2>1, <2>2
<1>5. PICK new : new = <<b>> \o r
  OBVIOUS
<1>6. ASSUME NEW i \in DOMAIN new
      PROVE  new[i] # << >>
  <2>1. DOMAIN new = 1 .. Len(new)
    BY <1>4, <1>5, LenProperties
  <2>2. i \in 1 .. Len(r) + 1
    BY <1>4, <1>5, <2>1
  <2>3. CASE i = 1
    BY <1>3, <1>4, <1>5, <2>2, <2>3
  <2>4. CASE i # 1
    <3>1. i - 1 \in 1 .. Len(r) /\ ~(i <= 1)
      BY <1>2, <2>2, <2>4
    <3> QED
      BY <1>2, <1>4, <1>5, <2>2, <3>1 DEF Filled
  <2> QED
    BY <2>3, <2>4
<1>7. FlattenSeq(<<b>> \o r) = b \o FlattenSeq(r)
  <2>1. FlattenSeq(<<b>> \o r) = FlattenSeq(<<b>>) \o FlattenSeq(r)
    BY <1>1, <1>3, FlattenConcat
  <2> QED
    BY <2>1, FlattenOne
<1> QED
  BY <1>1, <1>4, <1>5, <1>6, <1>7 DEF Filled

\* The list without its first buffer.
LEMMA Behind ==
    ASSUME NEW S, NEW list \in Seq(Seq(S)), Filled(list), list # << >>
    PROVE  /\ Head(list) \in Seq(S) /\ Head(list) # << >> /\ Len(Head(list)) \in Nat \ {0}
           /\ Head(list) = list[1]
           /\ Tail(list) \in Seq(Seq(S)) /\ Filled(Tail(list))
           /\ Len(list) \in Nat \ {0} /\ Len(Tail(list)) = Len(list) - 1
           /\ FlattenSeq(list) = Head(list) \o FlattenSeq(Tail(list))
           /\ FlattenSeq(Tail(list)) \in Seq(S)
           /\ Len(FlattenSeq(Tail(list))) \in Nat
           /\ Len(FlattenSeq(list)) = Len(Head(list)) + Len(FlattenSeq(Tail(list)))
<1>1. PICK h, r : h = Head(list) /\ r = Tail(list)
  OBVIOUS
<1>2. /\ h \in Seq(S) /\ h = list[1] /\ r \in Seq(Seq(S)) /\ Len(list) \in Nat \ {0}
      /\ Len(r) = Len(list) - 1 /\ \A i \in 1 .. Len(list) - 1 : r[i] = list[i + 1]
  BY <1>1, FrontAndRest
<1>3. DOMAIN list = 1 .. Len(list) /\ DOMAIN r = 1 .. Len(list) - 1
  BY <1>2, LenProperties
<1>4. h # << >>
  <2>1. 1 \in DOMAIN list
    BY <1>2, <1>3
  <2> QED
    BY <1>2, <2>1 DEF Filled
<1>5. Filled(r)
  <2> SUFFICES ASSUME NEW i \in DOMAIN r
               PROVE  r[i] # << >>
    BY DEF Filled
  <2>1. i \in 1 .. Len(list) - 1 /\ i + 1 \in DOMAIN list
    BY <1>2, <1>3
  <2> QED
    BY <1>2, <2>1 DEF Filled
<1>6. /\ FlattenSeq(list) = h \o FlattenSeq(r) /\ FlattenSeq(r) \in Seq(S)
  BY <1>1, FlattenFront
<1>7. Len(h) \in Nat \ {0}
  BY <1>2, <1>4, EmptySeq, LenProperties
<1>8. /\ Len(FlattenSeq(r)) \in Nat
      /\ Len(h \o FlattenSeq(r)) = Len(h) + Len(FlattenSeq(r))
  BY <1>2, <1>6, ConcatProperties, LenProperties
<1> QED
  BY <1>1, <1>2, <1>4, <1>5, <1>6, <1>7, <1>8

LEMMA JoinFront ==
    ASSUME NEW S, NEW list \in Seq(Seq(S)), Filled(list), list # << >>, Len(list) >= 2
    PROVE  /\ FrontJoined(list) \in Seq(Seq(S)) /\ Filled(FrontJoined(list))
           /\ Len(FrontJoined(list)) = Len(list) - 1
           /\ FlattenSeq(FrontJoined(list)) = FlattenSeq(list)
<1>1. PICK h, r : h = Head(list) /\ r = Tail(list)
  OBVIOUS
<1>2. /\ h \in Seq(S) /\ h # << >> /\ Len(h) \in Nat \ {0} /\ h = list[1]
      /\ r \in Seq(Seq(S)) /\ Filled(r) /\ Len(list) \in Nat /\ Len(r) = Len(list) - 1
      /\ FlattenSeq(list) = h \o FlattenSeq(r)
  BY <1>1, Behind
<1>3. r # << >>
  BY <1>2
<1>4. PICK k, q : k = Head(r) /\ q = Tail(r)
  OBVIOUS
<1>5. /\ k \in Seq(S) /\ Len(k) \in Nat \ {0} /\ k = r[1]
      /\ q \in Seq(Seq(S)) /\ Filled(q) /\ Len(q) = Len(r) - 1
      /\ FlattenSeq(r) = k \o FlattenSeq(q) /\ FlattenSeq(q) \in Seq(S)
  BY <1>2, <1>3, <1>4, Behind
<1>6. \A i \in 1 .. Len(list) - 1 : r[i] = list[i + 1]
  BY <1>1, FrontAndRest
<1>7. \A i \in 1 .. Len(r) - 1 : q[i] = r[i + 1]
  BY <1>2, <1>3, <1>4, FrontAndRest
<1>8. k = list[2]
  <2>1. 1 \in 1 .. Len(list) - 1 /\ 1 + 1 = 2
    BY <1>2
  <2> QED
    BY <1>5, <1>6, <2>1
<1>9. SubSeq(list, 3, Len(list)) = q
  <2>1. PICK T : T = Seq(S)
    OBVIOUS
  <2>2. PICK n \in 0 .. Len(list) : n = 2
    BY <1>2
  <2>3. PICK p : p = SubSeq(list, n + 1, Len(list))
    OBVIOUS
  <2>4. /\ p \in Seq(T) /\ Len(p) = Len(list) - n
        /\ \A i \in 1 .. Len(list) - n : p[i] = list[n + i]
    BY <2>1, <2>3, After
  <2>5. Len(p) = Len(q) /\ Len(q) = Len(list) - 2
    BY <1>2, <1>5, <2>2, <2>4
  <2>6. ASSUME NEW i \in 1 .. Len(q)
        PROVE  p[i] = q[i]
    <3>1. /\ i \in 1 .. Len(list) - n /\ i \in 1 .. Len(r) - 1
          /\ i + 1 \in 1 .. Len(list) - 1 /\ (i + 1) + 1 = n + i
      BY <1>2, <1>5, <2>2, <2>5
    <3> QED
      BY <1>6, <1>7, <2>4, <3>1
  <2>7. p = q
    BY <1>5, <2>1, <2>4, <2>5, <2>6, SeqEqual
  <2>8. n + 1 = 3
    BY <2>2
  <2> QED
    BY <2>3, <2>7, <2>8
<1>10. PICK m, n : m = Len(h) /\ n = Len(k)
  OBVIOUS
<1>11. PICK b : b = h \o k
  OBVIOUS
<1>12. b \in Seq(S) /\ b # << >>
  <2>1. b \in Seq(S) /\ Len(b) = m + n
    BY <1>2, <1>5, <1>10, <1>11, ConcatProperties
  <2>2. m \in Nat \ {0} /\ n \in Nat \ {0}
    BY <1>2, <1>5, <1>10
  <2>3. m + n # 0
    BY <2>2
  <2> QED
    BY <2>1, <2>3
<1>13. FrontJoined(list) = <<b>> \o q
  BY <1>2, <1>8, <1>9, <1>11 DEF FrontJoined
<1>14. /\ <<b>> \o q \in Seq(Seq(S)) /\ Filled(<<b>> \o q) /\ Len(<<b>> \o q) = Len(q) + 1
       /\ FlattenSeq(<<b>> \o q) = b \o FlattenSeq(q)
  BY <1>5, <1>12, InFront
<1>15. b \o FlattenSeq(q) = h \o (k \o FlattenSeq(q))
  <2>1. PICK f \in Seq(S) : f = FlattenSeq(q)
    BY <1>5
  <2>2. h \in Seq(S) /\ k \in Seq(S) /\ f \in Seq(S)
    BY <1>2, <1>5, <2>1
  <2>3. (h \o k) \o f = h \o (k \o f)
    BY ONLY <2>2, ConcatAssociative, SMTT(60)
  <2> QED
    BY <1>11, <2>1, <2>3
<1>16. Len(q) + 1 = Len(list) - 1
  BY <1>2, <1>5
<1> QED
  BY <1>2, <1>5, <1>13, <1>14, <1>15, <1>16

LEMMA CutFront ==
    ASSUME NEW S, NEW list \in Seq(Seq(S)), Filled(list), list # << >>,
           NEW n \in 0 .. Len(Head(list))
    PROVE  /\ FrontCut(list, n) \in Seq(Seq(S)) /\ Filled(FrontCut(list, n))
           /\ Len(FrontCut(list, n)) \in Nat /\ Len(FrontCut(list, n)) <= Len(list)
           /\ FlattenSeq(FrontCut(list, n))
                = SubSeq(Head(list), n + 1, Len(Head(list))) \o FlattenSeq(Tail(list))
           /\ Len(FlattenSeq(FrontCut(list, n))) = Len(FlattenSeq(list)) - n
<1>1. PICK h, r, e : /\ h = Head(list) /\ r = Tail(list)
                     /\ e = SubSeq(h, n + 1, Len(h))
  OBVIOUS
<1>2. /\ h \in Seq(S) /\ Len(h) \in Nat \ {0}
      /\ r \in Seq(Seq(S)) /\ Filled(r) /\ Len(list) \in Nat /\ Len(r) = Len(list) - 1
      /\ FlattenSeq(r) \in Seq(S) /\ Len(FlattenSeq(r)) \in Nat
      /\ Len(FlattenSeq(list)) = Len(h) + Len(FlattenSeq(r))
  BY <1>1, Behind
<1>3. e \in Seq(S) /\ Len(e) = Len(h) - n
  BY <1>1, <1>2, After
<1>4. PICK i, j : i = Len(h) /\ j = Len(FlattenSeq(r))
  OBVIOUS
<1>5. Len(e \o FlattenSeq(r)) = Len(FlattenSeq(list)) - n
  <2>1. Len(e \o FlattenSeq(r)) = Len(e) + j
    BY <1>2, <1>3, <1>4, ConcatProperties
  <2>2. Len(e) = i - n /\ Len(FlattenSeq(list)) = i + j /\ i \in Nat /\ j \in Nat /\ n \in Int
    BY <1>1, <1>2, <1>3, <1>4
  <2>3. (i - n) + j = (i + j) - n
    BY <2>2
  <2> QED
    BY <2>1, <2>2, <2>3
<1>6. CASE Len(h) = n
  <2>1. e = << >>
    BY <1>2, <1>3, <1>6, EmptySeq
  <2>2. e \o FlattenSeq(r) = FlattenSeq(r)
    BY <1>2, <2>1, ConcatEmptySeq
  <2>3. FrontCut(list, n) = r
    BY <1>1, <1>6 DEF FrontCut
  <2>4. Len(r) \in Nat /\ Len(r) <= Len(list)
    BY <1>2, LenProperties
  <2> QED
    BY <1>1, <1>2, <1>5, <2>2, <2>3, <2>4
<1>7. CASE Len(h) # n
  <2>1. e # << >>
    <3>1. Len(e) # 0
      BY <1>1, <1>2, <1>3, <1>7
    <3> QED
      BY <3>1
  <2>2. FrontCut(list, n) = <<e>> \o r
    BY <1>1, <1>7 DEF FrontCut
  <2>3. /\ <<e>> \o r \in Seq(Seq(S)) /\ Filled(<<e>> \o r) /\ Len(<<e>> \o r) = Len(r) + 1
        /\ FlattenSeq(<<e>> \o r) = e \o FlattenSeq(r)
    BY <1>2, <1>3, <2>1, InFront
  <2>4. Len(r) + 1 \in Nat /\ Len(r) + 1 <= Len(list)
    BY <1>2, LenProperties
  <2> QED
    BY <1>1, <1>5, <2>2, <2>3, <2>4
<1> QED
  BY <1>6, <1>7

LEMMA AppendFilled ==
    ASSUME NEW S, NEW list \in Seq(Seq(S)), Filled(list), NEW b \in Seq(S), Len(b) # 0
    PROVE  Filled(Append(list, b))
<1>1. PICK T, new : T = Seq(S) /\ new = Append(list, b)
  OBVIOUS
<1>2. /\ new \in Seq(T) /\ Len(new) = Len(list) + 1 /\ Len(list) \in Nat
      /\ DOMAIN new = 1 .. Len(list) + 1 /\ DOMAIN list = 1 .. Len(list)
      /\ \A i \in 1 .. Len(list) : new[i] = list[i]
      /\ new[Len(list) + 1] = b
  BY <1>1, AppendProperties, LenProperties
<1>3. b # << >>
  OBVIOUS
<1>4. ASSUME NEW i \in DOMAIN new
      PROVE  new[i] # << >>
  <2>1. i \in 1 .. Len(list) \/ i = Len(list) + 1
    BY <1>2
  <2> QED
    BY <1>2, <1>3, <2>1 DEF Filled
<1> QED
  BY <1>1, <1>4 DEF Filled


-----------------------------------------------------------------------------
(***************************************************************************)
(* The stream: the packages the peer has sent, and those from d + 1 on.    *)
(***************************************************************************)
RByte == Nat \X Nat
Packages == [i \in DOMAIN sent |-> PackageBytes(i)]
From(d) == SubSeq(Packages, d + 1, Len(Packages))
Size(i) == HeaderSize(sent[i].kind) + sent[i].len
Sent == sent \in Seq(Package)

LEMMA PackageIs ==
    ASSUME Sent, NEW i \in DOMAIN sent
    PROVE  /\ sent[i].kind \in Kinds /\ sent[i].len \in Nat /\ i \in Nat
           /\ Size(i) \in Nat /\ Size(i) >= 2
           /\ sent[i].kind = "type" => Size(i) >= 4
           /\ PackageBytes(i) \in Seq(RByte) /\ Len(PackageBytes(i)) = Size(i)
           /\ PackageBytes(i)[1] = <<i, 1>>
<1>1. DOMAIN sent = 1 .. Len(sent) /\ Len(sent) \in Nat /\ sent[i] \in Package
  BY LenProperties, ElementOfSeq DEF Sent
<1>2. sent[i].kind \in Kinds /\ sent[i].len \in Nat /\ i \in Nat
  <2>1. sent[i] \in [kind : Kinds, len : Lengths] /\ Lengths \subseteq Nat
    BY <1>1, ReceiveAssumption DEF Package
  <2>2. sent[i].kind \in Kinds /\ sent[i].len \in Lengths
    BY <2>1
  <2>3. sent[i].len \in Nat
    BY <2>1, <2>2
  <2>4. i \in Nat
    BY <1>1
  <2> QED
    BY <2>2, <2>3, <2>4
<1>3. /\ Size(i) \in Nat /\ Size(i) >= 2
      /\ sent[i].kind = "type" => Size(i) >= 4
  BY <1>2 DEF Size, HeaderSize
<1>4. PackageBytes(i) = [k \in 1 .. Size(i) |-> <<i, k>>]
  BY DEF PackageBytes, Size
<1>5. \A k \in 1 .. Size(i) : <<i, k>> \in RByte
  BY <1>2, <1>3 DEF RByte
<1> HIDE DEF RByte
<1>6. PackageBytes(i) \in Seq(RByte) /\ Len(PackageBytes(i)) = Size(i)
  BY <1>3, <1>4, <1>5
<1>7. PackageBytes(i)[1] = <<i, 1>>
  BY <1>3, <1>4
<1> QED
  BY <1>2, <1>3, <1>6, <1>7

LEMMA PackagesAre ==
    ASSUME Sent
    PROVE  /\ Packages \in Seq(Seq(RByte)) /\ Len(Packages) = Len(sent) /\ Len(sent) \in Nat
           /\ DOMAIN sent = 1 .. Len(sent)
           /\ \A i \in 1 .. Len(sent) : Packages[i] = PackageBytes(i)
           /\ Arriving = FlattenSeq(Packages) /\ Arriving \in Seq(RByte)
<1>1. DOMAIN sent = 1 .. Len(sent) /\ Len(sent) \in Nat
  BY LenProperties DEF Sent
<1>2. \A i \in 1 .. Len(sent) : PackageBytes(i) \in Seq(RByte)
  BY <1>1, PackageIs
<1> HIDE DEF RByte
<1>3. Packages \in Seq(Seq(RByte)) /\ Len(Packages) = Len(sent)
  BY <1>1, <1>2 DEF Packages
<1>4. Arriving = FlattenSeq(Packages)
  BY DEF Arriving, Packages
<1> QED
  BY <1>1, <1>3, <1>4, FlattenAppend DEF Packages

LEMMA NextPackage ==
    ASSUME Sent, NEW d \in 0 .. Len(sent)
    PROVE  /\ From(d) \in Seq(Seq(RByte))
           /\ FlattenSeq(From(d)) \in Seq(RByte)
           /\ d = Len(sent) => FlattenSeq(From(d)) = << >>
           /\ d < Len(sent) =>
                /\ d + 1 \in DOMAIN sent /\ d + 1 \in 0 .. Len(sent)
                /\ FlattenSeq(From(d)) = PackageBytes(d + 1) \o FlattenSeq(From(d + 1))
                /\ FlattenSeq(From(d + 1)) \in Seq(RByte)
<1> HIDE DEF RByte
<1>1. PICK p : p = Packages
  OBVIOUS
<1>2. /\ p \in Seq(Seq(RByte)) /\ Len(p) = Len(sent) /\ Len(sent) \in Nat
      /\ DOMAIN sent = 1 .. Len(sent) /\ \A i \in 1 .. Len(sent) : p[i] = PackageBytes(i)
  BY <1>1, PackagesAre
<1>3. \A n \in 0 .. Len(p) :
         /\ SubSeq(p, n + 1, Len(p)) \in Seq(Seq(RByte))
         /\ Len(SubSeq(p, n + 1, Len(p))) = Len(p) - n
         /\ \A i \in 1 .. Len(p) - n : SubSeq(p, n + 1, Len(p))[i] = p[n + i]
  BY <1>2, After
<1>4. \A n \in 0 .. Len(p) : From(n) = SubSeq(p, n + 1, Len(p))
  BY <1>1 DEF From
<1>5. From(d) \in Seq(Seq(RByte)) /\ FlattenSeq(From(d)) \in Seq(RByte)
  <2>1. d \in 0 .. Len(p)
    BY <1>2
  <2>2. From(d) \in Seq(Seq(RByte))
    BY <1>3, <1>4, <2>1
  <2> QED
    BY <2>2, FlattenAppend
<1>6. d = Len(sent) => FlattenSeq(From(d)) = << >>
  <2>1. d = Len(sent) => Len(From(d)) = 0
    BY <1>2, <1>3, <1>4
  <2> QED
    BY <1>5, <2>1, EmptySeq, FlattenNone
<1>7. ASSUME d < Len(sent)
      PROVE  /\ d + 1 \in DOMAIN sent /\ d + 1 \in 0 .. Len(sent)
             /\ FlattenSeq(From(d)) = PackageBytes(d + 1) \o FlattenSeq(From(d + 1))
             /\ FlattenSeq(From(d + 1)) \in Seq(RByte)
  <2>1. d + 1 \in 1 .. Len(sent) /\ d + 1 \in 0 .. Len(p) /\ d \in 0 .. Len(p)
    BY <1>2, <1>7
  <2>2. PICK f, g : f = From(d) /\ g = From(d + 1)
    OBVIOUS
  <2>3. /\ f \in Seq(Seq(RByte)) /\ Len(f) = Len(p) - d
        /\ \A i \in 1 .. Len(p) - d : f[i] = p[d + i]
    BY <1>3, <1>4, <2>1, <2>2
  <2>4. /\ g \in Seq(Seq(RByte)) /\ Len(g) = Len(p) - (d + 1)
        /\ \A i \in 1 .. Len(p) - (d + 1) : g[i] = p[(d + 1) + i]
    BY <1>3, <1>4, <2>1, <2>2
  <2>5. f # << >>
    BY <1>2, <2>1, <2>3
  <2>6. Head(f) = PackageBytes(d + 1)
    <3>1. 1 \in 1 .. Len(p) - d
      BY <1>2, <2>1
    <3> QED
      BY <1>2, <2>1, <2>3, <2>5, <3>1, FrontAndRest
  <2>7. Tail(f) = g
    <3>1. /\ Tail(f) \in Seq(Seq(RByte)) /\ Len(Tail(f)) = Len(f) - 1
          /\ \A i \in 1 .. Len(f) - 1 : Tail(f)[i] = f[i + 1]
      BY <2>3, <2>5, FrontAndRest
    <3>2. Len(f) - 1 = Len(g)
      BY <1>2, <2>1, <2>3, <2>4
    <3>3. ASSUME NEW i \in 1 .. Len(g)
          PROVE  Tail(f)[i] = g[i]
      <4>1. i + 1 \in 1 .. Len(p) - d /\ d + (i + 1) = (d + 1) + i /\ i \in 1 .. Len(f) - 1
            /\ i \in 1 .. Len(p) - (d + 1)
        BY <1>2, <2>1, <2>3, <2>4
      <4>2. Tail(f)[i] = f[i + 1] /\ f[i + 1] = p[d + (i + 1)] /\ g[i] = p[(d + 1) + i]
        BY <2>3, <2>4, <3>1, <4>1
      <4> QED
        BY <4>1, <4>2
    <3> QED
      BY <2>4, <3>1, <3>2, <3>3, SeqEqual
  <2> QED
    BY <1>2, <2>1, <2>2, <2>3, <2>4, <2>5, <2>6, <2>7, FlattenFront, FlattenAppend
<1> QED
  BY <1>5, <1>6, <1>7

-----------------------------------------------------------------------------
(***************************************************************************)
(* The loop of handle_pack.  It has posted the packages up to d, all of    *)
(* them valid; as long as it has not closed the connection, the buffers in *)
(* the list and what has not arrived yet are the packages from there on,   *)
(* and it stops only when the next one is not there in full.  It closes    *)
(* the connection only when a package is invalid, or not an RPC package.   *)
(***************************************************************************)
Turn == [list : Seq(Seq(RByte)), out : Seq(Seq(RByte)), close : BOOLEAN, stop : BOOLEAN]

Posted(out, d) ==
    /\ d \in 0 .. Len(sent)
    /\ out = SubSeq(Packages, 1, d)
    /\ \A i \in 1 .. d : IsValid(sent[i])

Pending(list, ahead, d) ==
    /\ list \in Seq(Seq(RByte)) /\ Filled(list)
    /\ FlattenSeq(list) \o ahead = FlattenSeq(From(d))

AllPosted(list, d) == d < Len(sent) => Len(FlattenSeq(list)) < Size(d + 1)

SomeBad == \E i \in DOMAIN sent : sent[i].kind # "rpc" \/ ~IsValid(sent[i])

Stands(s, before, ahead) ==
    \E d \in 0 .. Len(sent) :
        /\ Posted(before \o s.out, d)
        /\ IF s.close THEN s.stop /\ SomeBad
           ELSE Pending(s.list, ahead, d) /\ (s.stop => AllPosted(s.list, d))

Left(s) == Len(s.list) + Len(FlattenSeq(s.list))

LEMMA LeftIs ==
    ASSUME NEW s \in Turn
    PROVE  Left(s) \in Nat
<1> HIDE DEF RByte
<1>1. s.list \in Seq(Seq(RByte))
  BY DEF Turn
<1>2. FlattenSeq(s.list) \in Seq(RByte)
  BY <1>1, FlattenAppend
<1>3. Len(s.list) \in Nat /\ Len(FlattenSeq(s.list)) \in Nat
  BY <1>1, <1>2, LenProperties
<1>4. PICK i \in Nat, j \in Nat : i = Len(s.list) /\ j = Len(FlattenSeq(s.list))
  BY <1>3
<1>5. i + j \in Nat
  OBVIOUS
<1> QED
  BY <1>4, <1>5 DEF Left

\* The first buffer begins with the next package.
LEMMA FrontIs ==
    ASSUME Sent, NEW list, NEW ahead \in Seq(RByte), NEW d \in 0 .. Len(sent),
           Pending(list, ahead, d), list # << >>
    PROVE  /\ d < Len(sent) /\ d + 1 \in DOMAIN sent
           /\ Head(list) \in Seq(RByte) /\ Len(Head(list)) \in Nat \ {0}
           /\ Head(list)[1] = <<d + 1, 1>>
<1> HIDE DEF RByte
<1>1. PICK h, r : h = Head(list) /\ r = FlattenSeq(Tail(list))
  OBVIOUS
<1>2. h \in Seq(RByte) /\ h # << >> /\ r \in Seq(RByte) /\ FlattenSeq(list) = h \o r
  <2>1. h = list[1] /\ 1 \in DOMAIN list
    <3>1. list \in Seq(Seq(RByte))
      BY DEF Pending
    <3>2. Len(list) \in Nat \ {0} /\ Head(list) = list[1]
      BY <3>1, FrontAndRest
    <3> QED
      BY <1>1, <3>1, <3>2
  <2> QED
    BY <1>1, <2>1, FlattenFront DEF Pending, Filled
<1>3. Len(h) \in Nat \ {0}
  BY <1>2, EmptySeq, LenProperties
<1>4. PICK y \in Seq(RByte) : y = FlattenSeq(From(d)) /\ (h \o r) \o ahead = y
  BY <1>2, NextPackage DEF Pending
<1>5. Len(y) >= 1 /\ y[1] = h[1]
  <2>1. h \o r \in Seq(RByte) /\ Len(h \o r) = Len(h) + Len(r) /\ (h \o r)[1] = h[1]
    BY <1>2, <1>3, ConcatProperties, LenProperties
  <2>2. Len(y) = Len(h \o r) + Len(ahead) /\ y[1] = (h \o r)[1]
    BY <1>2, <1>3, <1>4, <2>1, ConcatProperties, LenProperties
  <2> QED
    BY <1>2, <1>3, <2>1, <2>2, LenProperties
<1>6. d < Len(sent)
  <2>1. d = Len(sent) => y = << >>
    BY <1>4, NextPackage
  <2>2. Len(sent) \in Nat
    BY PackagesAre
  <2> QED
    BY <1>5, <2>1, <2>2
<1>7. /\ d + 1 \in DOMAIN sent /\ FlattenSeq(From(d + 1)) \in Seq(RByte)
      /\ y = PackageBytes(d + 1) \o FlattenSeq(From(d + 1))
  BY <1>4, <1>6, NextPackage
<1>8. y[1] = <<d + 1, 1>>
  <2>1. PackageBytes(d + 1) \in Seq(RByte) /\ Len(PackageBytes(d + 1)) \in Nat
        /\ Len(PackageBytes(d + 1)) >= 2 /\ PackageBytes(d + 1)[1] = <<d + 1, 1>>
    BY <1>7, PackageIs
  <2> QED
    BY <1>7, <2>1, ConcatProperties, LenProperties
<1> QED
  BY <1>1, <1>2, <1>3, <1>5, <1>6, <1>7, <1>8

(***************************************************************************)
(* The turns of the loop: the front buffer is too short and is joined with *)
(* the second, or the next package is cut off, or the connection is closed.*)
(***************************************************************************)
LEMMA MergeKeeps ==
    ASSUME Sent, NEW s \in Turn, NEW before, NEW ahead \in Seq(RByte), NEW d \in 0 .. Len(sent),
           Posted(before \o s.out, d), ~s.close, ~s.stop, Pending(s.list, ahead, d),
           s.list # << >>, Len(Head(s.list)) < Size(d + 1)
    PROVE  /\ Merge(s) \in Turn /\ Stands(Merge(s), before, ahead)
           /\ Merge(s).stop \/ Left(Merge(s)) < Left(s)
<1> HIDE DEF RByte
<1>1. PICK list : list = s.list
  OBVIOUS
<1>2. /\ list \in Seq(Seq(RByte)) /\ Filled(list) /\ list # << >> /\ Len(list) \in Nat \ {0}
      /\ FlattenSeq(list) \in Seq(RByte) /\ Len(FlattenSeq(list)) \in Nat
      /\ FlattenSeq(list) \o ahead = FlattenSeq(From(d))
  <2>1. /\ list \in Seq(Seq(RByte)) /\ Filled(list) /\ list # << >>
        /\ FlattenSeq(list) \o ahead = FlattenSeq(From(d))
    BY <1>1 DEF Pending
  <2>2. Len(list) \in Nat \ {0}
    BY <2>1, Behind
  <2>3. FlattenSeq(list) \in Seq(RByte)
    BY <2>1, FlattenAppend
  <2> QED
    BY <2>1, <2>2, <2>3, LenProperties
<1>3. CASE Len(list) < 2
  <2>1. Merge(s) = [s EXCEPT !.stop = TRUE]
    BY <1>1, <1>3 DEF Merge
  <2>2. Merge(s) \in Turn /\ Merge(s).stop /\ ~Merge(s).close
        /\ Merge(s).list = list /\ Merge(s).out = s.out
    BY <1>1, <2>1 DEF Turn
  <2>3. Len(FlattenSeq(list)) = Len(Head(list))
    <3>1. PICK h, r : h = Head(list) /\ r = Tail(list)
      OBVIOUS
    <3>2. h \in Seq(RByte) /\ r \in Seq(Seq(RByte)) /\ Len(r) = Len(list) - 1
          /\ FlattenSeq(list) = h \o FlattenSeq(r)
      BY <1>2, <3>1, Behind
    <3>3. Len(r) = 0
      BY <1>2, <1>3, <3>2
    <3>4. FlattenSeq(r) = << >>
      BY <3>2, <3>3, EmptySeq, FlattenNone
    <3>5. FlattenSeq(list) = h
      BY <3>2, <3>4, ConcatEmptySeq
    <3> QED
      BY <3>1, <3>5
  <2>4. AllPosted(list, d)
    BY <1>1, <2>3 DEF AllPosted
  <2>5. Pending(list, ahead, d)
    BY <1>1
  <2> QED
    BY <2>2, <2>4, <2>5 DEF Stands
<1>4. CASE ~(Len(list) < 2)
  <2>1. PICK new : new = FrontJoined(list)
    OBVIOUS
  <2>2. Len(list) >= 2
    BY <1>2, <1>4
  <2>3. /\ new \in Seq(Seq(RByte)) /\ Filled(new) /\ Len(new) = Len(list) - 1
        /\ FlattenSeq(new) = FlattenSeq(list)
    BY <1>2, <2>1, <2>2, JoinFront
  <2>4. Merge(s) = [s EXCEPT !.list = new]
    BY <1>1, <1>4, <2>1 DEF Merge, FrontJoined
  <2>5. /\ Merge(s) \in Turn /\ ~Merge(s).stop /\ ~Merge(s).close
        /\ Merge(s).list = new /\ Merge(s).out = s.out
    BY <2>3, <2>4 DEF Turn
  <2>6. Pending(new, ahead, d)
    BY <1>2, <2>3 DEF Pending
  <2>7. Left(Merge(s)) < Left(s)
    <3>1. Left(Merge(s)) = Len(new) + Len(FlattenSeq(new))
          /\ Left(s) = Len(list) + Len(FlattenSeq(list))
      BY <1>1, <2>5 DEF Left
    <3>2. PICK i, j : i = Len(list) /\ j = Len(FlattenSeq(list)) /\ i \in Nat /\ j \in Nat
      BY <1>2
    <3>3. Left(Merge(s)) = (i - 1) + j /\ Left(s) = i + j
      BY <2>3, <3>1, <3>2
    <3> QED
      BY <3>2, <3>3
  <2> QED
    BY <2>5, <2>6, <2>7 DEF Stands
<1> QED
  BY <1>3, <1>4

LEMMA PostedNext ==
    ASSUME Sent, NEW d \in 0 .. Len(sent), NEW before \in Seq(Seq(RByte)),
           NEW out \in Seq(Seq(RByte)), Posted(before \o out, d), d + 1 \in DOMAIN sent,
           IsValid(sent[d + 1])
    PROVE  Posted(before \o Append(out, PackageBytes(d + 1)), d + 1)
<1> HIDE DEF RByte
<1>1. PICK p, b, T : p = Packages /\ b = PackageBytes(d + 1) /\ T = Seq(RByte)
  OBVIOUS
<1>2. /\ p \in Seq(T) /\ Len(p) = Len(sent) /\ Len(sent) \in Nat
      /\ DOMAIN sent = 1 .. Len(sent) /\ \A i \in 1 .. Len(sent) : p[i] = PackageBytes(i)
      /\ b \in T
  BY <1>1, PackagesAre, PackageIs
<1>3. before \o out = SubSeq(p, 1, d) /\ \A i \in 1 .. d : IsValid(sent[i])
  BY <1>1 DEF Posted
<1>4. before \o Append(out, b) = Append(before \o out, b)
  <2>1. before \in Seq(T) /\ out \in Seq(T)
    BY <1>1
  <2> QED
    BY <1>2, <2>1, SMTT(60)
<1>5. d + 1 \in 1 .. Len(p) /\ d \in 0 .. Len(p) /\ d + 1 \in 0 .. Len(p)
  BY <1>2
<1>6. SubSeq(p, 1, d + 1) = Append(SubSeq(p, 1, d), b)
  <2>1. PICK x, z : x = SubSeq(p, 1, d) /\ z = SubSeq(p, 1, d + 1)
    OBVIOUS
  <2>2. /\ x \in Seq(T) /\ Len(x) = d /\ \A i \in 1 .. d : x[i] = p[i]
    BY <1>2, <1>5, <2>1
  <2>3. /\ z \in Seq(T) /\ Len(z) = d + 1 /\ \A i \in 1 .. d + 1 : z[i] = p[i]
    BY <1>2, <1>5, <2>1
  <2>4. PICK y : y = Append(x, b)
    OBVIOUS
  <2>5. /\ y \in Seq(T) /\ Len(y) = d + 1 /\ \A i \in 1 .. d : y[i] = x[i]
        /\ y[d + 1] = b
    BY <1>2, <2>2, <2>4, AppendProperties
  <2>6. p[d + 1] = b
    BY <1>1, <1>2
  <2>7. ASSUME NEW i \in 1 .. d + 1
        PROVE  z[i] = y[i]
    <3>1. CASE i = d + 1
      BY <2>3, <2>5, <2>6, <3>1
    <3>2. CASE i # d + 1
      <4>1. i \in 1 .. d
        BY <3>2
      <4> QED
        BY <2>2, <2>3, <2>5, <4>1
    <3> QED
      BY <3>1, <3>2
  <2> QED
    BY <2>1, <2>3, <2>4, <2>5, <2>7, SeqEqual
<1>7. \A i \in 1 .. d + 1 : IsValid(sent[i])
  <2>1. \A i \in 1 .. d + 1 : i \in 1 .. d \/ i = d + 1
    OBVIOUS
  <2> QED
    BY <1>3, <2>1
<1>8. d + 1 \in 0 .. Len(sent)
  BY <1>2, <1>5
<1> QED
  BY <1>1, <1>3, <1>4, <1>6, <1>7, <1>8 DEF Posted

LEMMA CutKeeps ==
    ASSUME Sent, NEW s \in Turn, NEW before \in Seq(Seq(RByte)), NEW ahead \in Seq(RByte),
           NEW d \in 0 .. Len(sent),
           Posted(before \o s.out, d), ~s.close, ~s.stop, Pending(s.list, ahead, d),
           s.list # << >>, IsValid(sent[d + 1]), Size(d + 1) <= Len(Head(s.list))
    PROVE  LET t == Cut(s, Size(d + 1))
           IN  /\ t \in Turn /\ Stands(t, before, ahead)
               /\ t.stop \/ Left(t) < Left(s)
<1> HIDE DEF RByte
<1>1. PICK list : list = s.list
  OBVIOUS
<1>2. /\ list \in Seq(Seq(RByte)) /\ Filled(list) /\ list # << >>
      /\ FlattenSeq(list) \o ahead = FlattenSeq(From(d))
  BY <1>1 DEF Pending
<1>3. PICK h, f : h = Head(list) /\ f = FlattenSeq(Tail(list))
  OBVIOUS
<1>4. /\ h \in Seq(RByte) /\ f \in Seq(RByte) /\ Len(h) \in Nat /\ Len(list) \in Nat
      /\ FlattenSeq(list) = h \o f
  BY <1>2, <1>3, Behind
<1>5. d < Len(sent) /\ d + 1 \in DOMAIN sent
  BY <1>1, FrontIs
<1>6. PICK b, y, n : b = PackageBytes(d + 1) /\ y = FlattenSeq(From(d + 1)) /\ n = Len(b)
  OBVIOUS
<1>7. /\ b \in Seq(RByte) /\ n = Size(d + 1) /\ n \in Nat /\ n >= 2
      /\ y \in Seq(RByte) /\ d + 1 \in 0 .. Len(sent)
      /\ FlattenSeq(From(d)) = b \o y
  BY <1>5, <1>6, PackageIs, NextPackage
<1>8. n \in 0 .. Len(h)
  BY <1>1, <1>3, <1>4, <1>7
<1>9. PICK e, x : e = SubSeq(h, n + 1, Len(h)) /\ x = f \o ahead
  OBVIOUS
<1>10. e \in Seq(RByte) /\ x \in Seq(RByte)
  BY <1>4, <1>8, <1>9, After, ConcatProperties
<1>11. SubSeq(h, 1, n) = b /\ e \o x = y
  <2>1. h \o x = b \o y
    <3>1. (h \o f) \o ahead = h \o (f \o ahead)
      BY ONLY <1>4, ahead \in Seq(RByte), ConcatAssociative, SMTT(60)
    <3> QED
      BY <1>2, <1>4, <1>7, <1>9, <3>1, Zenon
  <2>2. Len(b) <= Len(h)
    BY <1>6, <1>8
  <2>3. SubSeq(h, 1, Len(b)) = b /\ SubSeq(h, Len(b) + 1, Len(h)) \o x = y
    BY <1>4, <1>7, <1>10, <2>1, <2>2, Overlap
  <2> QED
    BY <1>6, <1>9, <2>3
<1>12. PICK new : new = FrontCut(list, n)
  OBVIOUS
<1>13. /\ new \in Seq(Seq(RByte)) /\ Filled(new) /\ Len(new) \in Nat /\ Len(new) <= Len(list)
       /\ FlattenSeq(new) = e \o f
       /\ Len(FlattenSeq(new)) = Len(FlattenSeq(list)) - n
  BY <1>2, <1>3, <1>8, <1>9, <1>12, CutFront
<1>14. PICK t : t = Cut(s, Size(d + 1))
  OBVIOUS
<1>15. t = [s EXCEPT !.out = Append(@, b), !.list = new]
  BY <1>1, <1>3, <1>7, <1>11, <1>12, <1>14 DEF Cut, FrontCut
<1>16. /\ t \in Turn /\ ~t.stop /\ ~t.close /\ t.list = new /\ t.out = Append(s.out, b)
  <2>1. s.out \in Seq(Seq(RByte))
    BY DEF Turn
  <2>2. Append(s.out, b) \in Seq(Seq(RByte))
    BY <1>7, <2>1, AppendProperties
  <2>3. PICK o : o = Append(s.out, b)
    OBVIOUS
  <2>4. t = [s EXCEPT !.out = o, !.list = new]
    BY <1>15, <2>3
  <2>5. /\ t \in Turn /\ ~t.stop /\ ~t.close /\ t.list = new /\ t.out = o
    BY <1>13, <2>2, <2>3, <2>4 DEF Turn
  <2> QED
    BY <2>3, <2>5
<1>17. Pending(new, ahead, d + 1)
  <2>1. (e \o f) \o ahead = y
    <3>1. (e \o f) \o ahead = e \o (f \o ahead)
      <4>1. e \in Seq(RByte) /\ f \in Seq(RByte) /\ ahead \in Seq(RByte)
        BY <1>4, <1>10
      <4> QED
        BY ONLY <4>1, ConcatAssociative, SMTT(60)
    <3> QED
      BY <1>9, <1>11, <3>1, Zenon
  <2> QED
    BY <1>6, <1>13, <2>1 DEF Pending
<1>18. Posted(before \o t.out, d + 1)
  <2>1. s.out \in Seq(Seq(RByte))
    BY DEF Turn
  <2> QED
    BY <1>5, <1>6, <1>16, <2>1, PostedNext
<1>19. Left(t) < Left(s)
  <2>1. Left(t) = Len(new) + Len(FlattenSeq(new)) /\ Left(s) = Len(list) + Len(FlattenSeq(list))
    BY <1>1, <1>16 DEF Left
  <2>2. PICK i, j, k : i = Len(list) /\ j = Len(FlattenSeq(list)) /\ k = Len(new)
    OBVIOUS
  <2>3. i \in Nat /\ j \in Nat /\ k \in Nat /\ k <= i
    <3>1. FlattenSeq(list) \in Seq(RByte)
      BY <1>2, FlattenAppend
    <3> QED
      BY <1>4, <1>13, <2>2, <3>1, LenProperties
  <2>4. Left(t) = k + (j - n) /\ Left(s) = i + j
    BY <1>13, <2>1, <2>2
  <2> QED
    BY <1>7, <2>3, <2>4, SMTT(60)
<1> QED
  BY <1>7, <1>14, <1>16, <1>17, <1>18, <1>19 DEF Stands

LEMMA TurnKeeps ==
    ASSUME Sent, NEW s \in Turn, NEW before \in Seq(Seq(RByte)), NEW ahead \in Seq(RByte),
           Stands(s, before, ahead), ~s.stop
    PROVE  /\ UnpackTurn(s) \in Turn /\ Stands(UnpackTurn(s), before, ahead)
           /\ UnpackTurn(s).stop \/ Left(UnpackTurn(s)) < Left(s)
<1> HIDE DEF RByte
<1>1. PICK d \in 0 .. Len(sent) :
         Posted(before \o s.out, d) /\ Pending(s.list, ahead, d) /\ ~s.close
  BY DEF Stands
<1>2. PICK t : t = UnpackTurn(s)
  OBVIOUS
<1>3. CASE s.list = << >>
  <2>1. t = [s EXCEPT !.stop = TRUE]
    BY <1>2, <1>3 DEF UnpackTurn
  <2>2. t \in Turn /\ t.stop /\ ~t.close /\ t.list = s.list /\ t.out = s.out
    BY <1>1, <2>1 DEF Turn
  <2>3. AllPosted(s.list, d)
    <3>1. ASSUME d < Len(sent)
          PROVE  0 < Size(d + 1)
      BY <3>1, NextPackage, PackageIs
    <3>2. Len(FlattenSeq(s.list)) = 0
      BY <1>3, FlattenNone
    <3> QED
      BY <3>1, <3>2 DEF AllPosted
  <2> QED
    BY <1>1, <1>2, <2>2, <2>3 DEF Stands
<1>4. CASE s.list # << >>
  <2>1. PICK front, i, len, size :
           /\ front = Head(s.list) /\ i = d + 1
           /\ len = PeekLength(front) /\ size = HeaderSize(sent[front[1][1]].kind) + len
    OBVIOUS
  <2>2. /\ d < Len(sent) /\ i \in DOMAIN sent /\ front \in Seq(RByte)
        /\ Len(front) \in Nat \ {0} /\ front[1] = <<i, 1>>
    BY <1>1, <1>4, <2>1, FrontIs
  <2>3. /\ sent[i].kind \in Kinds /\ sent[i].len \in Nat /\ Size(i) \in Nat /\ Size(i) >= 2
    BY <2>2, PackageIs
  <2>4. front # << >> /\ front[1][1] = i
    BY <2>2
  <2>5. /\ sent[i].kind \in {"rpc", "type", "none"}
        /\ len = IF sent[i].kind = "rpc" \/ (sent[i].kind = "type" /\ Len(front) >= 4)
                 THEN sent[i].len ELSE 0
    <3>1. sent[i].kind \in {"rpc", "type", "none"}
      BY <2>3, ReceiveAssumption
    <3>2. ~(Len(front) < 4) <=> Len(front) >= 4
      BY <2>2
    <3> QED
      BY <2>1, <2>4, <3>1, <3>2 DEF PeekLength
  <2>6. MaxPack \in Nat
    BY ReceiveAssumption
  <2>7. CASE Len(front) = 1
    <3>1. t = Merge(s)
      BY <1>2, <1>4, <2>1, <2>4, <2>7 DEF UnpackTurn
    <3>2. Len(Head(s.list)) < Size(d + 1)
      <4>1. PICK z, y : z = Size(d + 1) /\ y = Len(Head(s.list))
        OBVIOUS
      <4>2. z \in Nat /\ z >= 2 /\ y = 1
        BY <2>1, <2>3, <2>7, <4>1
      <4>3. y < z
        BY <4>2
      <4> QED
        BY <4>1, <4>3
    <3> QED
      BY <1>1, <1>2, <1>4, <3>1, <3>2, MergeKeeps
  <2>8. CASE Len(front) # 1 /\ (len = 0 \/ len > MaxPack)
    <3>1. t = Invalid(s)
      BY <1>2, <1>4, <2>1, <2>4, <2>8 DEF UnpackTurn
    <3>2. s.list \in Seq(Seq(RByte)) /\ Tail(s.list) \in Seq(Seq(RByte))
      <4>1. s.list \in Seq(Seq(RByte))
        BY DEF Turn
      <4> QED
        BY <1>4, <4>1, FrontAndRest
    <3>3. t \in Turn /\ t.stop /\ t.close /\ t.out = s.out
      BY <3>1, <3>2 DEF Turn, Invalid
    <3>4. SomeBad
      <4>1. sent[i].kind = "rpc" => ~(sent[i].len \in 1 .. MaxPack)
        BY <2>3, <2>5, <2>6, <2>8
      <4> QED
        BY <2>2, <4>1 DEF SomeBad, IsValid
    <3> QED
      BY <1>1, <1>2, <3>3, <3>4 DEF Stands
  <2>9. CASE Len(front) # 1 /\ len # 0 /\ ~(len > MaxPack)
    <3>1. len = sent[i].len /\ sent[i].kind # "none" /\ len \in 1 .. MaxPack
      BY <2>3, <2>5, <2>6, <2>9
    <3>2. IsValid(sent[i]) /\ size = Size(i)
      BY <2>1, <2>4, <3>1 DEF IsValid, Size
    <3>3. CASE Len(front) < size
      <4>1. t = Merge(s)
        BY <1>2, <1>4, <2>1, <2>4, <2>9, <3>3 DEF UnpackTurn
      <4>2. Len(Head(s.list)) < Size(d + 1)
        BY <2>1, <3>2, <3>3
      <4> QED
        BY <1>1, <1>2, <1>4, <4>1, <4>2, MergeKeeps
    <3>4. CASE ~(Len(front) < size)
      <4>1. t = Cut(s, Size(d + 1))
        BY <1>2, <1>4, <2>1, <2>4, <2>9, <3>2, <3>4 DEF UnpackTurn
      <4>2. Size(d + 1) <= Len(Head(s.list)) /\ IsValid(sent[d + 1])
        BY <2>1, <2>2, <2>3, <3>2, <3>4
      <4> QED
        BY <1>1, <1>2, <1>4, <4>1, <4>2, CutKeeps
    <3> QED
      BY <3>3, <3>4
  <2> QED
    BY <2>7, <2>8, <2>9
<1> QED
  BY <1>3, <1>4

-----------------------------------------------------------------------------
(***************************************************************************)
(* handle_pack as a whole.  Its turns exist, and as each but the last      *)
(* takes a buffer or a byte away, it has stopped after as many turns.      *)
(***************************************************************************)
Start(list) == [list |-> list, out |-> << >>, close |-> FALSE, stop |-> FALSE]

Turns(f, list, n) ==
    f = [k \in 0 .. n |-> IF k = 0 THEN Start(list) ELSE UnpackTurn(f[k - 1])]

LEMMA TurnsExist ==
    ASSUME NEW list, NEW n \in Nat
    PROVE  \E f : Turns(f, list, n)
<1> DEFINE I == {m \in Nat : \E f : Turns(f, list, m)}
<1>1. 0 \in I
  <2>1. PICK f : f = [k \in 0 .. 0 |-> Start(list)]
    OBVIOUS
  <2>2. \A k \in 0 .. 0 : k = 0
    OBVIOUS
  <2>3. f = [k \in 0 .. 0 |-> IF k = 0 THEN Start(list) ELSE UnpackTurn(f[k - 1])]
    BY <2>1, <2>2
  <2> QED
    BY <2>3 DEF Turns
<1>2. ASSUME NEW m \in Nat, m \in I
      PROVE  m + 1 \in I
  <2>1. PICK f : Turns(f, list, m)
    BY <1>2
  <2>2. PICK g : g = [k \in 0 .. m + 1 |-> IF k = m + 1 THEN UnpackTurn(f[m]) ELSE f[k]]
    OBVIOUS
  <2>3. ASSUME NEW k \in 0 .. m + 1
        PROVE  g[k] = IF k = 0 THEN Start(list) ELSE UnpackTurn(g[k - 1])
    <3>1. CASE k = 0
      <4>1. 0 \in 0 .. m /\ 0 # m + 1
        OBVIOUS
      <4> QED
        BY <2>1, <2>2, <3>1, <4>1 DEF Turns
    <3>2. CASE k # 0 /\ k # m + 1
      <4>1. k \in 0 .. m /\ k - 1 \in 0 .. m + 1 /\ k - 1 # m + 1
        BY <3>2
      <4> QED
        BY <2>1, <2>2, <3>2, <4>1 DEF Turns
    <3>3. CASE k = m + 1
      <4>1. k - 1 = m /\ m \in 0 .. m + 1 /\ m # m + 1 /\ k # 0
        BY <3>3
      <4> QED
        BY <2>2, <3>3, <4>1
    <3> QED
      BY <3>1, <3>2, <3>3
  <2>4. Turns(g, list, m + 1)
    BY <2>2, <2>3 DEF Turns
  <2> QED
    BY <2>4
<1> HIDE DEF I
<1>3. Nat \subseteq I
  BY <1>1, <1>2, Induction
<1> QED
  BY <1>3 DEF I

LEMMA HandlePackTurns ==
    ASSUME NEW list, NEW n, n = Len(list) + Len(FlattenSeq(list)) + 1,
           \E f : Turns(f, list, n)
    PROVE  \E f : Turns(f, list, n) /\ HandlePack(list) = f[n]
<1> DEFINE g == CHOOSE f : Turns(f, list, n)
<1>1. Turns(g, list, n)
  OBVIOUS
<1>2. HandlePack(list) = g[n]
  BY DEF HandlePack, Turns, Start
<1> QED
  BY <1>1, <1>2

LEMMA HandlePackKeeps ==
    ASSUME Sent, NEW before \in Seq(Seq(RByte)), NEW ahead \in Seq(RByte),
           NEW d \in 0 .. Len(sent), Posted(before, d), NEW list, Pending(list, ahead, d)
    PROVE  /\ HandlePack(list) \in Turn /\ HandlePack(list).stop
           /\ Stands(HandlePack(list), before, ahead)
<1> HIDE DEF RByte
<1>1. /\ list \in Seq(Seq(RByte)) /\ Len(list) \in Nat /\ Len(FlattenSeq(list)) \in Nat
  <2>1. list \in Seq(Seq(RByte))
    BY DEF Pending
  <2>2. FlattenSeq(list) \in Seq(RByte)
    BY <2>1, FlattenAppend
  <2> QED
    BY <2>1, <2>2, LenProperties
<1>2. PICK m : m = Len(list) + Len(FlattenSeq(list))
  OBVIOUS
<1>3. m \in Nat /\ m + 1 \in Nat
  BY <1>1, <1>2
<1>4. PICK f : Turns(f, list, m + 1) /\ HandlePack(list) = f[m + 1]
  BY <1>2, <1>3, TurnsExist, HandlePackTurns
<1>5. \A k \in 0 .. m + 1 : f[k] = IF k = 0 THEN Start(list) ELSE UnpackTurn(f[k - 1])
  BY <1>4 DEF Turns
<1> DEFINE Good(s) == s \in Turn /\ Stands(s, before, ahead)
           I == {k \in Nat : k <= m + 1 =>
                    Good(f[k]) /\ (f[k].stop \/ Left(f[k]) + k <= m)}
<1>6. 0 \in I
  <2>1. f[0] = Start(list)
    BY <1>3, <1>5
  <2>2. Start(list) \in Turn
    BY <1>1 DEF Start, Turn
  <2>3. Stands(Start(list), before, ahead)
    <3>1. before \o << >> = before
      BY ConcatEmptySeq
    <3> QED
      BY <3>1 DEF Stands, Start
  <2>4. Left(Start(list)) + 0 <= m
    BY <1>2, <1>3 DEF Left, Start
  <2> QED
    BY <2>1, <2>2, <2>3, <2>4
<1>7. ASSUME NEW k \in Nat, k \in I
      PROVE  k + 1 \in I
  <2> SUFFICES ASSUME k + 1 <= m + 1
               PROVE  Good(f[k + 1]) /\ (f[k + 1].stop \/ Left(f[k + 1]) + (k + 1) <= m)
    OBVIOUS
  <2>1. Good(f[k]) /\ (f[k].stop \/ Left(f[k]) + k <= m)
    BY <1>3, <1>7
  <2>2. f[k + 1] = UnpackTurn(f[k])
    <3>1. k + 1 \in 0 .. m + 1 /\ k + 1 # 0 /\ (k + 1) - 1 = k
      BY <1>3
    <3> QED
      BY <1>5, <3>1
  <2>3. PICK s, t : s = f[k] /\ t = f[k + 1]
    OBVIOUS
  <2>4. s \in Turn /\ Stands(s, before, ahead) /\ t = UnpackTurn(s)
    BY <2>1, <2>2, <2>3
  <2>5. CASE s.stop
    <3>1. t = s
      BY <2>4, <2>5 DEF UnpackTurn
    <3> QED
      BY <2>3, <2>4, <2>5, <3>1
  <2>6. CASE ~s.stop
    <3>1. t \in Turn /\ Stands(t, before, ahead) /\ (t.stop \/ Left(t) < Left(s))
      BY <2>4, <2>6, TurnKeeps
    <3>2. Left(s) \in Nat /\ Left(t) \in Nat
      BY <2>4, <3>1, LeftIs
    <3>3. t.stop \/ Left(t) + (k + 1) <= m
      BY <1>3, <2>1, <2>3, <2>6, <3>1, <3>2
    <3> QED
      BY <2>3, <3>1, <3>3
  <2> QED
    BY <2>5, <2>6
<1>8. m + 1 \in I
  <2> HIDE DEF I
  <2>1. Nat \subseteq I
    BY <1>6, <1>7, Induction
  <2> QED
    BY <1>3, <2>1
<1>9. f[m + 1] \in Turn /\ Stands(f[m + 1], before, ahead)
      /\ (f[m + 1].stop \/ Left(f[m + 1]) + (m + 1) <= m)
  BY <1>3, <1>8
<1>10. Left(f[m + 1]) \in Nat
  BY <1>9, LeftIs
<1>11. f[m + 1].stop
  BY <1>3, <1>9, <1>10
<1> QED
  BY <1>4, <1>9, <1>11

-----------------------------------------------------------------------------
(***************************************************************************)
(* The same facts as one predicate, to be primed.                          *)
(***************************************************************************)
Shape ==
    /\ Packages \in Seq(Seq(RByte)) /\ Len(Packages) = Len(sent)
    /\ \A i \in 1 .. Len(sent) :
          /\ Packages[i] = PackageBytes(i) /\ Packages[i] \in Seq(RByte)
          /\ Size(i) \in Nat /\ Size(i) >= 2
    /\ Arriving = FlattenSeq(Packages) /\ Arriving \in Seq(RByte)

LEMMA ShapeIs == Sent => Shape
<1> HIDE DEF RByte
<1> SUFFICES ASSUME Sent
             PROVE  Shape
  OBVIOUS
<1>1. \A i \in 1 .. Len(sent) :
         PackageBytes(i) \in Seq(RByte) /\ Size(i) \in Nat /\ Size(i) >= 2
  BY PackagesAre, PackageIs
<1> QED
  BY <1>1, PackagesAre DEF Shape

LEMMA Longer ==
    ASSUME NEW S, NEW p \in Seq(S), NEW q \in Seq(S), NEW b \in S,
           Len(q) = Len(p) + 1, \A i \in 1 .. Len(p) : q[i] = p[i], q[Len(p) + 1] = b
    PROVE  q = Append(p, b) /\ q = p \o <<b>>
<1>1. PICK r : r = Append(p, b)
  OBVIOUS
<1>2. /\ r \in Seq(S) /\ Len(r) = Len(p) + 1 /\ Len(p) \in Nat
      /\ \A i \in 1 .. Len(p) : r[i] = p[i]
      /\ r[Len(p) + 1] = b
  BY <1>1, AppendProperties, LenProperties
<1>3. ASSUME NEW i \in 1 .. Len(q)
      PROVE  q[i] = r[i]
  <2>1. i \in 1 .. Len(p) \/ i = Len(p) + 1
    BY <1>2
  <2> QED
    BY <1>2, <2>1
<1>4. q = r
  BY <1>2, <1>3, SeqEqual
<1>5. Append(p, b) = p \o <<b>>
  OBVIOUS
<1> QED
  BY <1>1, <1>4, <1>5

LEMMA SameFront ==
    ASSUME NEW S, NEW p \in Seq(S), NEW q \in Seq(S), NEW d \in 0 .. Len(p),
           Len(p) <= Len(q), \A i \in 1 .. Len(p) : q[i] = p[i]
    PROVE  SubSeq(q, 1, d) = SubSeq(p, 1, d)
<1>1. PICK x, y : x = SubSeq(q, 1, d) /\ y = SubSeq(p, 1, d)
  OBVIOUS
<1>2. Len(p) \in Nat /\ Len(q) \in Nat /\ d \in 0 .. Len(q)
  BY LenProperties
<1>3. x \in Seq(S) /\ Len(x) = d /\ \A i \in 1 .. d : x[i] = q[i]
  BY <1>1, <1>2
<1>4. y \in Seq(S) /\ Len(y) = d /\ \A i \in 1 .. d : y[i] = p[i]
  BY <1>1, <1>2
<1>5. \A i \in 1 .. d : x[i] = y[i]
  BY <1>2, <1>3, <1>4
<1> QED
  BY <1>1, <1>3, <1>4, <1>5, SeqEqual

LEMMA Middle ==
    ASSUME NEW S, NEW q \in Seq(S), NEW m \in Nat, NEW n \in Nat, m + n <= Len(q)
    PROVE  /\ SubSeq(q, m + 1, m + n) \in Seq(S) /\ Len(SubSeq(q, m + 1, m + n)) = n
           /\ SubSeq(q, (m + n) + 1, Len(q)) \in Seq(S)
           /\ SubSeq(q, m + 1, Len(q))
                = SubSeq(q, m + 1, m + n) \o SubSeq(q, (m + n) + 1, Len(q))
<1>1. Len(q) \in Nat /\ m \in 0 .. Len(q) /\ m + n \in 0 .. Len(q) /\ m + n \in Nat
  BY LenProperties
<1>2. PICK a, b, c, k, j :
         /\ a = SubSeq(q, m + 1, m + n) /\ b = SubSeq(q, k + 1, Len(q))
         /\ c = SubSeq(q, m + 1, Len(q)) /\ k = m + n /\ j = Len(q) - m
  OBVIOUS
<1>3. a \in Seq(S) /\ Len(a) = n /\ \A i \in 1 .. n : a[i] = q[m + i]
  <2>1. \A i \in m + 1 .. m + n : q[i] \in S
    BY <1>1, ElementOfSeq
  <2> QED
    BY <1>1, <1>2, <2>1
<1>4. b \in Seq(S) /\ Len(b) = Len(q) - k /\ \A i \in 1 .. Len(q) - k : b[i] = q[k + i]
  BY <1>1, <1>2, After
<1>5. c \in Seq(S) /\ Len(c) = j /\ \A i \in 1 .. j : c[i] = q[m + i]
  BY <1>1, <1>2, After
<1>6. /\ a \o b \in Seq(S) /\ Len(a \o b) = n + (Len(q) - k)
      /\ \A i \in 1 .. n + (Len(q) - k) : (a \o b)[i] = IF i <= n THEN a[i] ELSE b[i - n]
  <2>1. /\ a \o b \in Seq(S) /\ Len(a \o b) = Len(a) + Len(b)
        /\ \A i \in 1 .. Len(a) + Len(b) :
              (a \o b)[i] = IF i <= Len(a) THEN a[i] ELSE b[i - Len(a)]
    BY <1>3, <1>4, ConcatProperties
  <2>2. Len(a) = n /\ Len(b) = Len(q) - k
    BY <1>3, <1>4
  <2> QED
    BY <2>1, <2>2
<1>7. n + (Len(q) - k) = j
  BY <1>1, <1>2
<1>8. ASSUME NEW i \in 1 .. j
      PROVE  c[i] = (a \o b)[i]
  <2>1. CASE i <= n
    <3>1. i \in 1 .. n
      BY <1>1, <1>2, <2>1
    <3>2. (a \o b)[i] = a[i]
      BY <1>6, <1>7, <2>1
    <3> QED
      BY <1>3, <1>5, <3>1, <3>2
  <2>2. CASE ~(i <= n)
    <3>1. i - n \in 1 .. Len(q) - k /\ k + (i - n) = m + i
      BY <1>1, <1>2, <2>2
    <3> QED
      BY <1>4, <1>5, <1>6, <1>7, <2>2, <3>1
  <2> QED
    BY <2>1, <2>2
<1>9. c = a \o b
  BY <1>5, <1>6, <1>7, <1>8, SeqEqual
<1> QED
  BY <1>2, <1>3, <1>4, <1>9

-----------------------------------------------------------------------------
(***************************************************************************)
(* The inductive invariant: what has been posted is the packages up to     *)
(* some d, and while the connection is open the buffers and what has not   *)
(* been read yet are the packages from there on.                           *)
(***************************************************************************)
Ahead == SubSeq(Arriving, received + 1, Len(Arriving))

Kept(d) == ~receive_closed => Pending(recv_list, Ahead, d) /\ AllPosted(recv_list, d)

rcvTyped ==
    /\ Sent /\ peer_shut \in BOOLEAN /\ receive_closed \in BOOLEAN
    /\ received \in 0 .. Len(Arriving) /\ delivered \in Seq(Seq(RByte))

rcvIInv ==
    /\ rcvTyped /\ RpcStaysOpen
    /\ \E d \in 0 .. Len(sent) : Posted(delivered, d) /\ Kept(d)

LEMMA ReceiveStarts == receiveInit => rcvIInv
<1> HIDE DEF RByte
<1> SUFFICES ASSUME receiveInit
             PROVE  rcvIInv
  OBVIOUS
<1>1. sent = << >> /\ Sent /\ Len(sent) = 0
  BY DEF receiveInit, Sent
<1>2. /\ Packages \in Seq(Seq(RByte)) /\ Len(Packages) = 0
      /\ Arriving = FlattenSeq(Packages) /\ Arriving \in Seq(RByte)
  BY <1>1, PackagesAre
<1>3. Packages = << >> /\ Arriving = << >>
  BY <1>2, EmptySeq, FlattenNone
<1>4. Ahead = << >>
  <2>1. 0 \in 0 .. Len(Arriving) /\ Len(Arriving) = 0
    BY <1>3
  <2>2. SubSeq(Arriving, 0 + 1, Len(Arriving)) \in Seq(RByte)
        /\ Len(SubSeq(Arriving, 0 + 1, Len(Arriving))) = Len(Arriving) - 0
    BY <1>2, <2>1, After
  <2>3. Ahead = SubSeq(Arriving, 0 + 1, Len(Arriving))
    BY DEF Ahead, receiveInit
  <2> QED
    BY <2>1, <2>2, <2>3, EmptySeq
<1>5. rcvTyped
  <2>1. received = 0 /\ peer_shut = FALSE /\ receive_closed = FALSE /\ delivered = << >>
    BY DEF receiveInit
  <2>2. received \in 0 .. Len(Arriving)
    <3>1. Len(Arriving) = 0
      BY <1>3
    <3> QED
      BY <2>1, <3>1
  <2>3. delivered \in Seq(Seq(RByte))
    BY <2>1
  <2> QED
    BY <1>1, <2>1, <2>2, <2>3 DEF rcvTyped
<1>6. Posted(delivered, 0)
  <2>1. SubSeq(Packages, 1, 0) = << >>
    BY <1>3
  <2> QED
    BY <1>1, <2>1 DEF Posted, receiveInit
<1>7. Pending(recv_list, Ahead, 0)
  <2>1. recv_list = << >> /\ recv_list \in Seq(Seq(RByte)) /\ Filled(recv_list)
    BY DEF receiveInit, Filled
  <2>2. FlattenSeq(From(0)) = << >>
    BY <1>1, NextPackage
  <2>3. FlattenSeq(recv_list) \o Ahead = << >>
    BY <1>4, <2>1, FlattenNone
  <2> QED
    BY <2>1, <2>2, <2>3 DEF Pending
<1>8. Kept(0) /\ 0 \in 0 .. Len(sent)
  BY <1>1, <1>7 DEF Kept, AllPosted
<1>9. RpcStaysOpen
  BY DEF receiveInit, RpcStaysOpen
<1> QED
  BY <1>5, <1>6, <1>8, <1>9 DEF rcvIInv

-----------------------------------------------------------------------------
(***************************************************************************)
(* One more package.                                                       *)
(***************************************************************************)
LEMMA PeerSendsKeeps == rcvIInv /\ PeerSends => rcvIInv'
<1> HIDE DEF RByte
<1> SUFFICES ASSUME rcvIInv, PeerSends
             PROVE  rcvIInv'
  OBVIOUS
<1>1. PICK d \in 0 .. Len(sent) : Posted(delivered, d) /\ Kept(d)
  BY DEF rcvIInv
<1>2. PICK new \in Package : sent' = Append(sent, new)
  BY DEF PeerSends
<1>3. /\ peer_shut' = peer_shut /\ received' = received /\ recv_list' = recv_list
      /\ receive_closed' = receive_closed /\ delivered' = delivered
  BY DEF PeerSends
<1>4. /\ Sent /\ Len(sent) \in Nat /\ DOMAIN sent = 1 .. Len(sent)
      /\ Packages \in Seq(Seq(RByte)) /\ Len(Packages) = Len(sent)
      /\ \A i \in 1 .. Len(sent) : Packages[i] = PackageBytes(i)
      /\ Arriving = FlattenSeq(Packages) /\ Arriving \in Seq(RByte)
  BY PackagesAre DEF rcvIInv, rcvTyped
<1>5. /\ Sent' /\ Len(sent') = Len(sent) + 1 /\ DOMAIN sent' = 1 .. Len(sent) + 1
      /\ \A i \in 1 .. Len(sent) : sent'[i] = sent[i]
  <2>1. sent \in Seq(Package)
    BY <1>4 DEF Sent
  <2>2. /\ sent' \in Seq(Package) /\ Len(sent') = Len(sent) + 1
        /\ \A i \in 1 .. Len(sent) : sent'[i] = sent[i]
    BY <1>2, <2>1, AppendProperties
  <2>3. DOMAIN sent' = 1 .. Len(sent) + 1
    BY <2>2, LenProperties
  <2> QED
    BY <2>2, <2>3 DEF Sent
<1>6. Shape'
  <2>1. Sent => Shape
    BY ShapeIs
  <2>2. Sent' => Shape'
    BY ShapeIs, PTL
  <2> QED
    BY <1>5, <2>2
<1>7. /\ Packages' \in Seq(Seq(RByte)) /\ Len(Packages') = Len(sent) + 1
      /\ \A i \in 1 .. Len(sent) + 1 :
            /\ Packages'[i] = PackageBytes(i)' /\ Packages'[i] \in Seq(RByte)
            /\ Size(i)' \in Nat /\ Size(i)' >= 2
      /\ Arriving' = FlattenSeq(Packages') /\ Arriving' \in Seq(RByte)
  BY <1>5, <1>6 DEF Shape
<1>8. \A i \in 1 .. Len(sent) : /\ PackageBytes(i)' = PackageBytes(i) /\ Size(i)' = Size(i)
                                 /\ IsValid(sent'[i]) = IsValid(sent[i])
  BY <1>5 DEF PackageBytes, Size
<1>9. PICK p, q, n, b : /\ p = Packages /\ q = Packages' /\ n = Len(sent)
                        /\ b = Packages'[n + 1]
  OBVIOUS
<1>10. /\ p \in Seq(Seq(RByte)) /\ Len(p) = n /\ n \in Nat /\ b \in Seq(RByte)
       /\ q \in Seq(Seq(RByte)) /\ Len(q) = n + 1 /\ \A i \in 1 .. n : q[i] = p[i]
       /\ q[n + 1] = b /\ d \in 0 .. n
  <2>1. \A i \in 1 .. n : i \in 1 .. n + 1
    BY <1>4, <1>9
  <2>2. n + 1 \in 1 .. n + 1
    BY <1>4, <1>9
  <2>3. \A i \in 1 .. n : q[i] = p[i]
    BY <1>4, <1>7, <1>8, <1>9, <2>1
  <2> QED
    BY <1>4, <1>7, <1>9, <2>2, <2>3
<1>11. q = Append(p, b) /\ q = p \o <<b>>
  BY <1>10, Longer, SMTT(60)
<1>12. Arriving' = Arriving \o b /\ Len(Arriving') = Len(Arriving) + Len(b)
       /\ Len(Arriving) \in Nat /\ Len(b) \in Nat
  <2>1. Arriving' = Arriving \o b
    <3>1. FlattenSeq(Append(p, b)) = FlattenSeq(p) \o b
      BY <1>10, FlattenAppend
    <3>2. Arriving = FlattenSeq(p) /\ Arriving' = FlattenSeq(Append(p, b))
      BY <1>4, <1>7, <1>9, <1>11
    <3> QED
      BY <3>1, <3>2
  <2> QED
    BY <1>4, <1>10, <2>1, ConcatProperties, LenProperties
<1>13. received \in 0 .. Len(Arriving)
  BY DEF rcvIInv, rcvTyped
<1>14. rcvTyped'
  <2>1. received' \in 0 .. Len(Arriving')
    BY <1>3, <1>12, <1>13
  <2>2. /\ peer_shut \in BOOLEAN /\ receive_closed \in BOOLEAN
        /\ delivered \in Seq(Seq(RByte))
    BY DEF rcvIInv, rcvTyped
  <2> QED
    BY <1>3, <1>5, <2>1, <2>2 DEF rcvTyped
<1>15. Ahead' = Ahead \o b /\ Ahead \in Seq(RByte)
  <2>1. SubSeq(Arriving \o b, received + 1, Len(Arriving \o b))
          = SubSeq(Arriving, received + 1, Len(Arriving)) \o b
    <3>1. Arriving \in Seq(RByte) /\ b \in Seq(RByte)
      BY <1>4, <1>10
    <3> QED
      BY ONLY <1>13, <3>1, CutConcat
  <2> QED
    BY <1>3, <1>4, <1>12, <1>13, <2>1, After DEF Ahead
<1>16. /\ FlattenSeq(From(d)') = FlattenSeq(From(d)) \o b
       /\ FlattenSeq(From(d)) \in Seq(RByte) /\ From(d) \in Seq(Seq(RByte))
  <2>1. From(d) = SubSeq(p, d + 1, Len(p)) /\ From(d)' = SubSeq(q, d + 1, Len(q))
    BY <1>9 DEF From
  <2>2. From(d) \in Seq(Seq(RByte)) /\ FlattenSeq(From(d)) \in Seq(RByte)
    BY <1>4, NextPackage
  <2>3. <<b>> \in Seq(Seq(RByte)) /\ FlattenSeq(<<b>>) = b
    BY <1>10, FlattenOne
  <2>4. SubSeq(q, d + 1, Len(q)) = SubSeq(p, d + 1, Len(p)) \o <<b>>
    BY <1>10, <1>11, <2>3, CutConcat, SMTT(30)
  <2>5. FlattenSeq(From(d) \o <<b>>) = FlattenSeq(From(d)) \o FlattenSeq(<<b>>)
    BY <2>2, <2>3, FlattenConcat
  <2> QED
    BY <2>1, <2>2, <2>3, <2>4, <2>5
<1>17. Posted(delivered, d)'
  <2>1. SubSeq(q, 1, d) = SubSeq(p, 1, d)
    BY <1>10, SameFront
  <2>2. delivered = SubSeq(p, 1, d) /\ \A i \in 1 .. d : IsValid(sent[i])
    BY <1>1, <1>9 DEF Posted
  <2>3. \A i \in 1 .. d : IsValid(sent'[i])
    <3>1. \A i \in 1 .. d : i \in 1 .. Len(sent)
      BY <1>9, <1>10
    <3> QED
      BY <1>8, <2>2, <3>1
  <2>4. d \in 0 .. Len(sent')
    BY <1>5, <1>9, <1>10
  <2> QED
    BY <1>3, <1>9, <2>1, <2>2, <2>3, <2>4 DEF Posted
<1>18. Kept(d)'
  <2> SUFFICES ASSUME ~receive_closed'
               PROVE  Pending(recv_list, Ahead, d)' /\ AllPosted(recv_list, d)'
    BY DEF Kept
  <2>1. PICK list, f, a, y : /\ list = recv_list /\ f = FlattenSeq(recv_list)
                             /\ a = Ahead /\ y = FlattenSeq(From(d))
    OBVIOUS
  <2>2. /\ list \in Seq(Seq(RByte)) /\ Filled(list) /\ f \o a = y
        /\ d < Len(sent) => Len(f) < Size(d + 1)
    BY <1>1, <1>3, <2>1 DEF Kept, Pending, AllPosted
  <2>3. f \in Seq(RByte) /\ a \in Seq(RByte) /\ y \in Seq(RByte) /\ b \in Seq(RByte)
    BY <1>10, <1>15, <1>16, <2>1, <2>2, FlattenAppend
  <2>4. f \o (a \o b) = y \o b
    <3>1. (f \o a) \o b = f \o (a \o b)
      BY ONLY <2>3, ConcatAssociative, SMTT(60)
    <3> QED
      BY <2>2, <3>1, Zenon
  <2>5. Pending(recv_list, Ahead, d)'
    BY <1>3, <1>15, <1>16, <2>1, <2>2, <2>4 DEF Pending
  <2>6. AllPosted(recv_list, d)'
    <3>1. CASE d < Len(sent)
      <4>1. Size(d + 1)' = Size(d + 1)
        <5>1. d + 1 \in 1 .. Len(sent)
          BY <1>9, <1>10, <3>1
        <5> QED
          BY <1>8, <5>1
      <4> QED
        BY <1>3, <2>1, <2>2, <3>1, <4>1 DEF AllPosted
    <3>2. CASE d = Len(sent)
      <4>1. Size(d + 1)' >= 2 /\ Size(d + 1)' \in Nat
        <5>1. d + 1 \in 1 .. Len(sent) + 1
          BY <1>4, <3>2
        <5> QED
          BY <1>7, <5>1
      <4>2. y = << >>
        BY <1>4, <2>1, <3>2, NextPackage
      <4>3. Len(f) = 0
        <5>1. Len(f) + Len(a) = 0 /\ Len(f) \in Nat /\ Len(a) \in Nat
          BY <2>2, <2>3, <4>2, ConcatProperties, LenProperties
        <5> QED
          BY <5>1
      <4>4. Len(f) < Size(d + 1)'
        BY <4>1, <4>3
      <4> QED
        BY <1>3, <2>1, <4>4 DEF AllPosted
    <3> QED
      BY <1>9, <1>10, <3>1, <3>2
  <2> QED
    BY <2>5, <2>6
<1>19. RpcStaysOpen'
  <2>1. SomeBad => SomeBad'
    <3> SUFFICES ASSUME NEW i \in 1 .. Len(sent), sent[i].kind # "rpc" \/ ~IsValid(sent[i])
                 PROVE  SomeBad'
      BY <1>4 DEF SomeBad
    <3>1. i \in 1 .. Len(sent) + 1
      BY <1>4
    <3> QED
      BY <1>5, <1>8, <3>1 DEF SomeBad
  <2> QED
    BY <1>3, <2>1 DEF rcvIInv, RpcStaysOpen, SomeBad
<1> QED
  <2>1. d \in 0 .. Len(sent')
    BY <1>5, <1>9, <1>10
  <2> QED
    BY <1>14, <1>17, <1>18, <1>19, <2>1 DEF rcvIInv

-----------------------------------------------------------------------------
(***************************************************************************)
(* A read: the new buffer is the beginning of what had not been read.      *)
(***************************************************************************)
LEMMA HandleInputKeeps == rcvIInv /\ HandleInput => rcvIInv'
<1> HIDE DEF RByte
<1> SUFFICES ASSUME rcvIInv, HandleInput
             PROVE  rcvIInv'
  OBVIOUS
<1>1. PICK d \in 0 .. Len(sent) : Posted(delivered, d) /\ Kept(d)
  BY DEF rcvIInv
<1>2. ~receive_closed /\ sent' = sent /\ peer_shut' = peer_shut
  BY DEF HandleInput
<1>3. PICK n \in 1 .. Len(Arriving) - received :
         LET chunk == SubSeq(Arriving, received + 1, received + n)
             result == HandlePack(Append(recv_list, chunk))
         IN  /\ received' = received + n
             /\ recv_list' = result.list
             /\ receive_closed' = result.close
             /\ delivered' = delivered \o result.out
  BY DEF HandleInput
<1>4. PICK chunk, list, t : /\ chunk = SubSeq(Arriving, received + 1, received + n)
                            /\ list = Append(recv_list, chunk) /\ t = HandlePack(list)
  OBVIOUS
<1>5. /\ received' = received + n /\ recv_list' = t.list
      /\ receive_closed' = t.close /\ delivered' = delivered \o t.out
  BY <1>3, <1>4
<1>6. /\ Sent /\ peer_shut \in BOOLEAN /\ received \in 0 .. Len(Arriving)
      /\ delivered \in Seq(Seq(RByte))
      /\ Arriving \in Seq(RByte) /\ Len(Arriving) \in Nat
  <2>1. Sent /\ peer_shut \in BOOLEAN /\ received \in 0 .. Len(Arriving)
        /\ delivered \in Seq(Seq(RByte))
    BY DEF rcvIInv, rcvTyped
  <2> QED
    BY <2>1, PackagesAre, LenProperties
<1>7. /\ Packages' = Packages /\ Arriving' = Arriving /\ SomeBad' = SomeBad
      /\ \A k : From(k)' = From(k) /\ Size(k)' = Size(k)
  BY <1>2 DEF Packages, Arriving, PackageBytes, SomeBad, From, Size
<1>8. PICK ahead : ahead = Ahead'
  OBVIOUS
<1>9. /\ ahead \in Seq(RByte) /\ chunk \in Seq(RByte) /\ Len(chunk) = n
      /\ Ahead = chunk \o ahead
  <2>1. received \in Nat /\ n \in Nat /\ received + n <= Len(Arriving)
    BY <1>6
  <2>2. /\ SubSeq(Arriving, received + 1, received + n) \in Seq(RByte)
        /\ Len(SubSeq(Arriving, received + 1, received + n)) = n
        /\ SubSeq(Arriving, (received + n) + 1, Len(Arriving)) \in Seq(RByte)
        /\ SubSeq(Arriving, received + 1, Len(Arriving))
             = SubSeq(Arriving, received + 1, received + n)
               \o SubSeq(Arriving, (received + n) + 1, Len(Arriving))
    <3>1. Arriving \in Seq(RByte)
      BY <1>6
    <3> QED
      BY ONLY <2>1, <3>1, Middle
  <2>3. ahead = SubSeq(Arriving, (received + n) + 1, Len(Arriving))
    BY <1>5, <1>7, <1>8 DEF Ahead
  <2> QED
    BY <1>4, <2>2, <2>3 DEF Ahead
<1>10. Pending(list, ahead, d)
  <2>1. PICK l, f, y : /\ l = recv_list /\ f = FlattenSeq(recv_list)
                       /\ y = FlattenSeq(From(d))
    OBVIOUS
  <2>2. l \in Seq(Seq(RByte)) /\ Filled(l) /\ f \o Ahead = y
    BY <1>1, <1>2, <2>1 DEF Kept, Pending
  <2>3. list \in Seq(Seq(RByte)) /\ FlattenSeq(list) = f \o chunk /\ f \in Seq(RByte)
    BY <1>4, <1>9, <2>1, <2>2, FlattenAppend, AppendProperties
  <2>4. Filled(list)
    <3>1. Len(chunk) # 0
      BY <1>6, <1>9
    <3>2. list = Append(l, chunk)
      BY <1>4, <2>1
    <3> QED
      BY <1>9, <2>2, <3>1, <3>2, AppendFilled
  <2>5. (f \o chunk) \o ahead = y
    <3>1. f \in Seq(RByte) /\ chunk \in Seq(RByte) /\ ahead \in Seq(RByte)
      BY <1>9, <2>3
    <3>2. (f \o chunk) \o ahead = f \o (chunk \o ahead)
      BY ONLY <3>1, ConcatAssociative, SMTT(60)
    <3> QED
      BY <1>9, <2>2, <3>2, Zenon
  <2> QED
    BY <2>1, <2>3, <2>4, <2>5 DEF Pending
<1>11. t \in Turn /\ t.stop /\ Stands(t, delivered, ahead)
  BY <1>1, <1>4, <1>6, <1>9, <1>10, HandlePackKeeps
<1>12. PICK e \in 0 .. Len(sent) :
          /\ Posted(delivered \o t.out, e)
          /\ IF t.close THEN SomeBad
             ELSE Pending(t.list, ahead, e) /\ AllPosted(t.list, e)
  BY <1>11 DEF Stands
<1>13. Posted(delivered, e)'
  BY <1>2, <1>5, <1>7, <1>12 DEF Posted
<1>14. Kept(e)'
  BY <1>2, <1>5, <1>7, <1>8, <1>12 DEF Kept, Pending, AllPosted
<1>15. rcvTyped'
  <2>1. t.out \in Seq(Seq(RByte)) /\ t.close \in BOOLEAN
    BY <1>11 DEF Turn
  <2>2. delivered \o t.out \in Seq(Seq(RByte))
    BY <1>6, <2>1, ConcatProperties
  <2>3. received + n \in 0 .. Len(Arriving)
    BY <1>6
  <2>4. Sent'
    BY <1>2, <1>6 DEF Sent
  <2> QED
    BY <1>2, <1>5, <1>6, <1>7, <2>1, <2>2, <2>3, <2>4 DEF rcvTyped
<1>16. RpcStaysOpen'
  <2>1. t.close => SomeBad
    BY <1>12
  <2> QED
    BY <1>2, <1>5, <2>1 DEF RpcStaysOpen, SomeBad
<1> QED
  BY <1>2, <1>13, <1>14, <1>15, <1>16 DEF rcvIInv

LEMMA ClosesKeep == rcvIInv /\ (PeerShuts \/ HandleInputEof \/ UNCHANGED receive_vars) => rcvIInv'
<1> HIDE DEF RByte
<1> SUFFICES ASSUME rcvIInv, PeerShuts \/ HandleInputEof \/ UNCHANGED receive_vars
             PROVE  rcvIInv'
  OBVIOUS
<1>1. PICK d \in 0 .. Len(sent) : Posted(delivered, d) /\ Kept(d)
  BY DEF rcvIInv
<1>2. /\ sent' = sent /\ received' = received /\ recv_list' = recv_list
      /\ delivered' = delivered
  BY DEF PeerShuts, HandleInputEof, receive_vars
<1>3. /\ Packages' = Packages /\ Arriving' = Arriving /\ SomeBad' = SomeBad
      /\ \A k : From(k)' = From(k) /\ Size(k)' = Size(k)
  BY <1>2 DEF Packages, Arriving, PackageBytes, SomeBad, From, Size
<1>4. /\ peer_shut' \in BOOLEAN /\ receive_closed' \in BOOLEAN
      /\ receive_closed => receive_closed'
      /\ receive_closed' /\ ~receive_closed => peer_shut'
      /\ peer_shut => peer_shut'
  <2>1. peer_shut \in BOOLEAN /\ receive_closed \in BOOLEAN
    BY DEF rcvIInv, rcvTyped
  <2>2. CASE PeerShuts
    BY <2>1, <2>2 DEF PeerShuts
  <2>3. CASE HandleInputEof
    BY <2>1, <2>3 DEF HandleInputEof
  <2>4. CASE UNCHANGED receive_vars
    BY <2>1, <2>4 DEF receive_vars
  <2> QED
    BY <2>2, <2>3, <2>4
<1>5. Posted(delivered, d)' /\ Kept(d)'
  BY <1>1, <1>2, <1>3, <1>4 DEF Posted, Kept, Pending, AllPosted, Ahead
<1>6. rcvTyped'
  BY <1>2, <1>3, <1>4 DEF rcvIInv, rcvTyped, Sent
<1>7. RpcStaysOpen'
  BY <1>2, <1>4 DEF rcvIInv, RpcStaysOpen
<1> QED
  BY <1>2, <1>5, <1>6, <1>7 DEF rcvIInv

-----------------------------------------------------------------------------
(***************************************************************************)
(* What the invariant says of the reference.  The bytes still to come grow *)
(* fewer from package to package, so those of the first i have arrived if  *)
(* and only if i is at most d.                                             *)
(***************************************************************************)
Rest(i) == Len(FlattenSeq(From(i)))

LEMMA RestShrinks ==
    ASSUME Sent, NEW i \in 0 .. Len(sent), NEW j \in 0 .. Len(sent), i <= j
    PROVE  Rest(i) \in Nat /\ Rest(j) \in Nat /\ Rest(j) <= Rest(i)
<1> HIDE DEF RByte
<1>1. Len(sent) \in Nat
  BY PackagesAre
<1>2. \A k \in 0 .. Len(sent) : Rest(k) \in Nat
  BY NextPackage, LenProperties DEF Rest
<1>3. ASSUME NEW k \in 0 .. Len(sent), k < Len(sent)
      PROVE  Rest(k + 1) <= Rest(k)
  <2>1. PICK b, y : b = PackageBytes(k + 1) /\ y = FlattenSeq(From(k + 1))
    OBVIOUS
  <2>2. /\ y \in Seq(RByte) /\ FlattenSeq(From(k)) = b \o y
        /\ b \in Seq(RByte)
    BY <1>3, <2>1, NextPackage, PackageIs
  <2>3. Len(b \o y) = Len(b) + Len(y) /\ Len(b) \in Nat /\ Len(y) \in Nat
    BY <2>2, ConcatProperties, LenProperties
  <2>4. Len(y) <= Len(b) + Len(y)
    BY <2>3
  <2> QED
    BY <2>1, <2>2, <2>3, <2>4 DEF Rest
<1> DEFINE I == {m \in Nat : i + m <= Len(sent) => Rest(i + m) <= Rest(i)}
<1>4. 0 \in I
  <2>1. i + 0 = i /\ Rest(i) <= Rest(i)
    BY <1>2
  <2> QED
    BY <2>1
<1>5. ASSUME NEW m \in Nat, m \in I
      PROVE  m + 1 \in I
  <2> SUFFICES ASSUME i + (m + 1) <= Len(sent)
               PROVE  Rest(i + (m + 1)) <= Rest(i)
    OBVIOUS
  <2>1. PICK k \in 0 .. Len(sent) : k = i + m /\ k < Len(sent) /\ k + 1 = i + (m + 1)
    BY <1>1
  <2>2. Rest(k) <= Rest(i)
    BY <1>5, <2>1
  <2>3. Rest(k + 1) <= Rest(k)
    BY <1>3, <2>1
  <2>4. Rest(k) \in Nat /\ Rest(i) \in Nat /\ Rest(k + 1) \in Nat
    <3>1. k + 1 \in 0 .. Len(sent)
      BY <1>1, <2>1
    <3> QED
      BY <1>2, <3>1
  <2>5. Rest(k + 1) <= Rest(i)
    BY <2>2, <2>3, <2>4
  <2> QED
    BY <2>1, <2>5
<1> HIDE DEF I
<1>6. Nat \subseteq I
  BY <1>4, <1>5, Induction
<1>7. j - i \in Nat /\ i + (j - i) = j
  BY <1>1
<1>8. Rest(j) <= Rest(i)
  BY <1>1, <1>6, <1>7 DEF I
<1> QED
  BY <1>2, <1>8

LEMMA ArrivedIs ==
    ASSUME Sent, NEW i \in 0 .. Len(sent)
    PROVE  /\ Len(FlattenSeq([j \in 1 .. i |-> PackageBytes(j)])) = Len(Arriving) - Rest(i)
           /\ [j \in 1 .. i |-> PackageBytes(j)] = SubSeq(Packages, 1, i)
           /\ Len(Arriving) \in Nat
<1> HIDE DEF RByte
<1>1. PICK p, T : p = Packages /\ T = Seq(RByte)
  OBVIOUS
<1>2. /\ p \in Seq(T) /\ Len(p) = Len(sent) /\ Len(sent) \in Nat
      /\ \A k \in 1 .. Len(sent) : p[k] = PackageBytes(k) /\ p[k] \in T
      /\ Arriving = FlattenSeq(p) /\ Arriving \in T
  BY <1>1, ShapeIs, PackagesAre DEF Shape
<1>3. PICK a, b : a = SubSeq(p, 1, i) /\ b = SubSeq(p, i + 1, Len(p))
  OBVIOUS
<1>4. a \in Seq(T) /\ Len(a) = i /\ b \in Seq(T) /\ a \o b = p
  BY <1>2, <1>3, Halves, After
<1>5. [j \in 1 .. i |-> PackageBytes(j)] = a
  <2>1. PICK c : c = [j \in 1 .. i |-> PackageBytes(j)]
    OBVIOUS
  <2>2. \A j \in 1 .. i : j \in 1 .. Len(sent)
    BY <1>2
  <2>3. c \in Seq(T) /\ Len(c) = i
    BY <1>2, <2>1, <2>2
  <2>4. \A j \in 1 .. i : a[j] = p[j]
    BY <1>2, <1>3
  <2>5. \A j \in 1 .. i : c[j] = a[j]
    BY <1>2, <2>1, <2>2, <2>4
  <2> QED
    BY <1>4, <2>1, <2>3, <2>5, SeqEqual
<1>6. PICK x, y : x = FlattenSeq(a) /\ y = FlattenSeq(b)
  OBVIOUS
<1>7. /\ x \in Seq(RByte) /\ y \in Seq(RByte) /\ Arriving = x \o y
  BY <1>1, <1>2, <1>4, <1>6, FlattenAppend, FlattenConcat
<1>8. Len(x \o y) = Len(x) + Len(y) /\ Len(x) \in Nat /\ Len(y) \in Nat
  BY <1>7, ConcatProperties, LenProperties
<1>9. Rest(i) = Len(y)
  BY <1>1, <1>3, <1>6 DEF Rest, From
<1>10. Len(x) = (Len(x) + Len(y)) - Len(y) /\ Len(x) + Len(y) \in Nat
  BY <1>8
<1> QED
  BY <1>1, <1>3, <1>5, <1>6, <1>7, <1>8, <1>9, <1>10

LEMMA InvariantSuffices == rcvIInv => PackagesIntact /\ RpcStaysOpen
<1> HIDE DEF RByte
<1> SUFFICES ASSUME rcvIInv
             PROVE  PackagesIntact
  BY DEF rcvIInv
<1>1. PICK d \in 0 .. Len(sent) : Posted(delivered, d) /\ Kept(d)
  BY DEF rcvIInv
<1>2. /\ Sent /\ received \in 0 .. Len(Arriving)
  BY DEF rcvIInv, rcvTyped
<1>3. /\ Packages \in Seq(Seq(RByte)) /\ Len(Packages) = Len(sent) /\ Len(sent) \in Nat
      /\ DOMAIN sent = 1 .. Len(sent) /\ Arriving \in Seq(RByte)
  BY <1>2, PackagesAre
<1>4. delivered = SubSeq(Packages, 1, d) /\ \A i \in 1 .. d : IsValid(sent[i])
  BY <1>1 DEF Posted
<1>5. IsPrefix(delivered, Packages)
  <2>1. PICK p, q : p = Packages /\ q = SubSeq(p, 1, d)
    OBVIOUS
  <2>2. q \in Seq(Seq(RByte)) /\ Len(q) = d /\ Len(p) = Len(sent)
    BY <1>3, <2>1, Halves
  <2>3. SubSeq(q, 1, d) = q
    BY <2>2
  <2>4. Len(q) <= Len(p) /\ SubSeq(q, 1, Len(q)) = SubSeq(p, 1, Len(q))
    BY <1>3, <2>1, <2>2, <2>3
  <2>5. q = delivered
    BY <1>4, <2>1
  <2> QED
    BY <2>1, <2>4, <2>5 DEF IsPrefix
<1>6. ASSUME ~receive_closed
      PROVE  delivered = Expected
  <2>1. /\ Pending(recv_list, Ahead, d) /\ AllPosted(recv_list, d)
    BY <1>1, <1>6 DEF Kept
  <2>2. PICK f, r, all : f = Len(FlattenSeq(recv_list)) /\ r = received /\ all = Len(Arriving)
    OBVIOUS
  <2>3. Rest(d) = f + (all - r) /\ f \in Nat /\ all \in Nat /\ r \in 0 .. all
    <3>1. PICK u, v : u = FlattenSeq(recv_list) /\ v = Ahead
      OBVIOUS
    <3>2. u \in Seq(RByte)
      BY <2>1, <3>1, FlattenAppend DEF Pending
    <3>3. v \in Seq(RByte) /\ Len(v) = all - r
      BY <1>2, <1>3, <2>2, <3>1, After DEF Ahead
    <3>4. FlattenSeq(From(d)) = u \o v
      BY <2>1, <3>1 DEF Pending
    <3>5. Len(u \o v) = Len(u) + Len(v) /\ Len(u) \in Nat
      BY <3>2, <3>3, ConcatProperties, LenProperties
    <3> QED
      BY <1>2, <1>3, <2>2, <3>1, <3>3, <3>4, <3>5, LenProperties DEF Rest
  <2>4. ASSUME NEW i \in 1 .. d
        PROVE  Whole(i)
    <3>1. i \in 0 .. Len(sent) /\ i <= d /\ \A j \in 1 .. i : j \in 1 .. d
      BY <1>3
    <3>2. Rest(i) \in Nat /\ Rest(d) \in Nat /\ Rest(d) <= Rest(i)
      BY <1>2, <3>1, RestShrinks
    <3>3. Len(FlattenSeq([j \in 1 .. i |-> PackageBytes(j)])) = all - Rest(i)
      BY <1>2, <2>2, <3>1, ArrivedIs
    <3>4. all - Rest(i) <= r
      BY <2>3, <3>2
    <3> QED
      BY <1>4, <2>2, <3>1, <3>3, <3>4 DEF Whole
  <2>5. ASSUME NEW i \in d + 1 .. Len(sent)
        PROVE  ~Whole(i)
    <3>1. /\ i \in 0 .. Len(sent) /\ d < Len(sent) /\ d + 1 \in 0 .. Len(sent) /\ d + 1 <= i
      BY <1>3
    <3>2. Rest(i) \in Nat /\ Rest(d + 1) \in Nat /\ Rest(i) <= Rest(d + 1)
      BY <1>2, <3>1, RestShrinks
    <3>3. Rest(d) = Size(d + 1) + Rest(d + 1) /\ Size(d + 1) \in Nat
      <4>1. PICK b, y : b = PackageBytes(d + 1) /\ y = FlattenSeq(From(d + 1))
        OBVIOUS
      <4>2. /\ y \in Seq(RByte) /\ b \in Seq(RByte) /\ Len(b) = Size(d + 1)
            /\ Size(d + 1) \in Nat /\ FlattenSeq(From(d)) = b \o y
        BY <1>2, <3>1, <4>1, NextPackage, PackageIs
      <4>3. Len(b \o y) = Len(b) + Len(y)
        BY <4>2, ConcatProperties
      <4> QED
        BY <4>1, <4>2, <4>3 DEF Rest
    <3>4. f < Size(d + 1)
      BY <2>1, <2>2, <3>1 DEF AllPosted
    <3>5. Len(FlattenSeq([j \in 1 .. i |-> PackageBytes(j)])) = all - Rest(i)
      BY <1>2, <2>2, <3>1, ArrivedIs
    <3>6. PICK k, l, m : k = Size(d + 1) /\ l = Rest(d + 1) /\ m = Rest(i)
      OBVIOUS
    <3>7. k \in Nat /\ l \in Nat /\ m \in Nat /\ m <= l /\ k + l = f + (all - r) /\ f < k
      BY <2>3, <3>2, <3>3, <3>4, <3>6
    <3>8. ~(all - m <= r)
      BY <2>3, <3>7
    <3> QED
      BY <2>2, <3>5, <3>6, <3>8 DEF Whole
  <2>6. {i \in DOMAIN sent : Whole(i)} = 1 .. d
    <3>1. \A i \in DOMAIN sent : i \in 1 .. d \/ i \in d + 1 .. Len(sent)
      BY <1>3
    <3>2. \A i \in 1 .. d : i \in DOMAIN sent
      BY <1>3
    <3> QED
      BY <2>4, <2>5, <3>1, <3>2
  <2> QED
    BY <1>2, <1>4, <2>6, ArrivedIs DEF Expected
<1> QED
  BY <1>5, <1>6 DEF PackagesIntact, Packages

(***************************************************************************)
(* However the peer's stream is split on its way, what post_buffer passes  *)
(* on is the peer's packages, whole and in order, and as long as the       *)
(* connection is open, all that have arrived in full (handle_pack).        *)
(***************************************************************************)
THEOREM PackagesAlwaysIntact == receiveSpec => []PackagesIntact
<1> HIDE DEF RByte
<1>1. receiveInit => rcvIInv
  BY ReceiveStarts
<1>2. rcvIInv /\ [receiveNext]_receive_vars => rcvIInv'
  BY PeerSendsKeeps, HandleInputKeeps, ClosesKeep DEF receiveNext
<1>3. rcvIInv => PackagesIntact
  BY InvariantSuffices
<1> QED
  BY <1>1, <1>2, <1>3, PTL DEF receiveSpec

(***************************************************************************)
(* A peer that sends RPC packages of legal lengths only keeps its          *)
(* connection until it shuts its end (handle_pack).                        *)
(***************************************************************************)
THEOREM RpcAlwaysStaysOpen == receiveSpec => []RpcStaysOpen
<1>1. receiveInit => rcvIInv
  BY ReceiveStarts
<1>2. rcvIInv /\ [receiveNext]_receive_vars => rcvIInv'
  BY PeerSendsKeeps, HandleInputKeeps, ClosesKeep DEF receiveNext
<1>3. rcvIInv => RpcStaysOpen
  BY InvariantSuffices
<1> QED
  BY <1>1, <1>2, <1>3, PTL DEF receiveSpec

-----------------------------------------------------------------------------
(***************************************************************************)
(* WebSocket: the frames are cut from a stream as the packages are.  What  *)
(* a line of byte sequences holds from the place d + 1 on, and how it goes *)
(* on when the line grows.                                                 *)
(***************************************************************************)
LEMMA NextInLine ==
    ASSUME NEW S, NEW p \in Seq(Seq(S)), NEW d \in 0 .. Len(p)
    PROVE  /\ FlattenSeq(SubSeq(p, d + 1, Len(p))) \in Seq(S)
           /\ d = Len(p) => FlattenSeq(SubSeq(p, d + 1, Len(p))) = << >>
           /\ d < Len(p) =>
                /\ d + 1 \in 1 .. Len(p) /\ p[d + 1] \in Seq(S)
                /\ FlattenSeq(SubSeq(p, d + 1, Len(p)))
                     = p[d + 1] \o FlattenSeq(SubSeq(p, (d + 1) + 1, Len(p)))
<1>1. PICK T : T = Seq(S)
  OBVIOUS
<1>2. p \in Seq(T) /\ Len(p) \in Nat /\ d \in 0 .. Len(p)
  BY <1>1, LenProperties
<1>3. PICK f : f = SubSeq(p, d + 1, Len(p))
  OBVIOUS
<1>4. f \in Seq(T) /\ Len(f) = Len(p) - d /\ \A i \in 1 .. Len(p) - d : f[i] = p[d + i]
  BY <1>2, <1>3, After
<1>5. FlattenSeq(f) \in Seq(S)
  BY <1>1, <1>4, FlattenAppend
<1>6. ASSUME d = Len(p)
      PROVE  FlattenSeq(f) = << >>
  <2>1. Len(f) = 0
    BY <1>2, <1>4, <1>6
  <2> QED
    BY <1>4, <2>1, EmptySeq, FlattenNone
<1>7. ASSUME d < Len(p)
      PROVE  /\ d + 1 \in 1 .. Len(p) /\ p[d + 1] \in Seq(S)
             /\ FlattenSeq(f) = p[d + 1] \o FlattenSeq(SubSeq(p, (d + 1) + 1, Len(p)))
  <2>1. d + 1 \in 1 .. Len(p) /\ d + 1 \in 0 .. Len(p) /\ 1 \in 1 .. Len(p) - d
    BY <1>2, <1>7
  <2>2. p[d + 1] \in Seq(S)
    BY <1>1, <1>2, <2>1, ElementOfSeq
  <2>3. PICK e, g : e = d + 1 /\ g = SubSeq(p, e + 1, Len(p))
    OBVIOUS
  <2>4. g \in Seq(T) /\ Len(g) = Len(p) - e /\ \A i \in 1 .. Len(p) - e : g[i] = p[e + i]
    BY <1>2, <2>1, <2>3, After
  <2>5. f # << >>
    BY <1>4, <2>1
  <2>6. /\ Head(f) = f[1] /\ Tail(f) \in Seq(T) /\ Len(Tail(f)) = Len(f) - 1
        /\ \A i \in 1 .. Len(f) - 1 : Tail(f)[i] = f[i + 1]
    BY <1>4, <2>5, FrontAndRest
  <2>7. Head(f) = p[d + 1]
    BY <1>4, <2>1, <2>6
  <2>8. Len(f) - 1 = Len(g)
    BY <1>2, <1>4, <2>3, <2>4
  <2>9. ASSUME NEW i \in 1 .. Len(g)
        PROVE  Tail(f)[i] = g[i]
    <3>1. i + 1 \in 1 .. Len(p) - d /\ d + (i + 1) = e + i /\ i \in 1 .. Len(f) - 1
          /\ i \in 1 .. Len(p) - e
      BY <1>2, <2>3, <2>4, <2>8
    <3> QED
      BY <1>4, <2>4, <2>6, <3>1
  <2>10. Tail(f) = g
    BY <2>4, <2>6, <2>8, <2>9, SeqEqual
  <2>11. FlattenSeq(f) = Head(f) \o FlattenSeq(Tail(f))
    BY <1>1, <1>4, <2>5, FlattenFront
  <2> QED
    BY <2>1, <2>2, <2>3, <2>7, <2>10, <2>11
<1> QED
  BY <1>3, <1>5, <1>6, <1>7

LEMMA LineGrows ==
    ASSUME NEW S, NEW p \in Seq(Seq(S)), NEW b \in Seq(S), NEW q, q = Append(p, b),
           NEW d \in 0 .. Len(p)
    PROVE  FlattenSeq(SubSeq(q, d + 1, Len(q))) = FlattenSeq(SubSeq(p, d + 1, Len(p))) \o b
<1>1. PICK T : T = Seq(S)
  OBVIOUS
<1>2. p \in Seq(T) /\ b \in T /\ Len(p) \in Nat
  BY <1>1, LenProperties
<1>3. /\ q \in Seq(T) /\ Len(q) = Len(p) + 1
      /\ \A i \in 1 .. Len(p) : q[i] = p[i]
      /\ q[Len(p) + 1] = b
  BY <1>2, AppendProperties
<1>4. PICK f, g : f = SubSeq(p, d + 1, Len(p)) /\ g = SubSeq(q, d + 1, Len(q))
  OBVIOUS
<1>5. f \in Seq(T) /\ Len(f) = Len(p) - d /\ \A i \in 1 .. Len(p) - d : f[i] = p[d + i]
  BY <1>2, <1>4, After
<1>6. d \in 0 .. Len(q)
  BY <1>2, <1>3
<1>7. g \in Seq(T) /\ Len(g) = Len(q) - d /\ \A i \in 1 .. Len(q) - d : g[i] = q[d + i]
  BY <1>3, <1>4, <1>6, After
<1>8. g = Append(f, b)
  <2>1. Len(g) = Len(f) + 1
    BY <1>2, <1>3, <1>5, <1>7
  <2>2. ASSUME NEW i \in 1 .. Len(f)
        PROVE  g[i] = f[i]
    <3>1. i \in 1 .. Len(p) - d /\ i \in 1 .. Len(q) - d /\ d + i \in 1 .. Len(p)
      BY <1>2, <1>3, <1>5
    <3> QED
      BY <1>3, <1>5, <1>7, <3>1
  <2>3. g[Len(f) + 1] = b
    <3>1. Len(f) + 1 \in 1 .. Len(q) - d /\ d + (Len(f) + 1) = Len(p) + 1
      BY <1>2, <1>3, <1>5
    <3> QED
      BY <1>3, <1>7, <3>1
  <2> QED
    BY <1>2, <1>5, <1>7, <2>1, <2>2, <2>3, Longer, SMTT(60)
<1>9. FlattenSeq(Append(f, b)) = FlattenSeq(f) \o b
  BY <1>1, <1>5, FlattenAppend
<1> QED
  BY <1>4, <1>8, <1>9

(***************************************************************************)
(* A short frame with a mask, byte by byte.                                *)
(***************************************************************************)
FrameRecord == [payload : Payloads, key : MaskingKeys]

IsFrame(f, b, n) ==
    /\ n \in 1 .. ExtLength - 1 /\ n = Len(f.payload)
    /\ f.payload \in Seq(Octet) /\ f.key \in [1 .. 4 -> Octet]
    /\ b = FrameBytes(f) /\ b \in Seq(Nat) /\ Len(b) = n + 6
    /\ b[1] = 129 /\ b[2] = MaskBit + n
    /\ \A i \in 1 .. 4 : b[i + 2] = f.key[i]
    /\ \A i \in 1 .. n : b[i + 6] = ByteXor(f.payload[i], f.key[((i - 1) % 4) + 1])

LEMMA OctetsAre == Octet \subseteq Nat /\ MaskBit \in Nat /\ ExtLength \in Nat
<1>1. ByteRange \div 2 \in Nat
  BY WebSocketAssumption
<1> QED
  BY <1>1, WebSocketAssumption DEF Octet, MaskBit

\* The key's place for every byte of a payload.
LEMMA KeyPlace == \A i \in Nat \ {0} : ((i - 1) % 4) + 1 \in 1 .. 4
OBVIOUS

LEMMA FrameIs ==
    ASSUME NEW f \in FrameRecord, Plain(f)
    PROVE  IsFrame(f, FrameBytes(f), Len(f.payload))
<1>1. /\ f.payload \in Payloads /\ f.key \in MaskingKeys
      /\ f.key # << >> /\ Len(f.payload) \in 1 .. ExtLength - 1
  BY DEF FrameRecord, Plain
<1>2. f.payload \in Seq(Octet) /\ f.key \in [1 .. 4 -> Octet]
  BY <1>1, WebSocketAssumption
<1>3. PICK n, k, m, p : n = Len(f.payload) /\ k = f.key /\ m = Mask(f.payload, f.key) /\ p = f.payload
  OBVIOUS
<1>4. /\ n \in 1 .. ExtLength - 1 /\ n \in Nat /\ ExtLength \in Nat /\ n < ExtLength
      /\ MaskBit + n \in Nat /\ p \in Seq(Octet) /\ Len(p) = n /\ k \in [1 .. 4 -> Octet]
      /\ DOMAIN p = 1 .. n
  BY <1>1, <1>2, <1>3, OctetsAre, LenProperties, SMTT(60)
<1>5. k \in Seq(Nat) /\ Len(k) = 4
  <2>1. PICK j \in Nat : j = 4
    OBVIOUS
  <2>2. k \in [1 .. j -> Nat]
    BY <1>4, <2>1, OctetsAre
  <2>3. k \in Seq(Nat) /\ Len(k) = j
    BY <2>2
  <2> QED
    BY <2>1, <2>3
<1>6. /\ m \in Seq(Nat) /\ Len(m) = n
      /\ \A i \in 1 .. n : m[i] = ByteXor(p[i], k[((i - 1) % 4) + 1])
  <2>1. m = [i \in 1 .. n |-> ByteXor(p[i], k[((i - 1) % 4) + 1])]
    BY <1>1, <1>3, <1>4 DEF Mask
  <2>2. ASSUME NEW i \in 1 .. n
        PROVE  ByteXor(p[i], k[((i - 1) % 4) + 1]) \in Nat
    <3>1. p[i] \in Octet
      BY <1>4, ElementOfSeq
    <3>2. i \in Nat \ {0}
      BY <1>4
    <3>3. k[((i - 1) % 4) + 1] \in Octet
      BY <1>4, <3>2, KeyPlace
    <3> QED
      BY <3>1, <3>3, OctetsAre, WebSocketAssumption
  <2>3. m \in [1 .. n -> Nat]
    BY <2>1, <2>2
  <2> QED
    BY <1>4, <2>1, <2>3
<1>7. FrameBytes(f) = ((<<129>> \o <<MaskBit + n>>) \o k) \o m
  BY <1>1, <1>3, <1>4 DEF FrameBytes, FinText
<1>8. PICK h : h = <<129>> \o <<MaskBit + n>>
  OBVIOUS
<1>9. h \in Seq(Nat) /\ Len(h) = 2 /\ h[1] = 129 /\ h[2] = MaskBit + n
  BY <1>4, <1>8
<1>10. PICK g : g = h \o k
  OBVIOUS
<1>11. /\ g \in Seq(Nat) /\ Len(g) = 6
       /\ \A i \in 1 .. 6 : g[i] = IF i <= 2 THEN h[i] ELSE k[i - 2]
  <2>1. /\ g \in Seq(Nat) /\ Len(g) = Len(h) + Len(k)
        /\ \A i \in 1 .. Len(h) + Len(k) : g[i] = IF i <= Len(h) THEN h[i] ELSE k[i - Len(h)]
    <3>1. h \in Seq(Nat) /\ k \in Seq(Nat)
      BY <1>5, <1>9
    <3> QED
      BY ONLY <3>1, <1>10, ConcatProperties
  <2>2. Len(h) = 2 /\ Len(h) + Len(k) = 6
    BY <1>5, <1>9
  <2> QED
    BY <2>1, <2>2
<1>12. PICK b : b = g \o m
  OBVIOUS
<1>13. /\ b \in Seq(Nat) /\ Len(b) = 6 + n
       /\ \A i \in 1 .. 6 + n : b[i] = IF i <= 6 THEN g[i] ELSE m[i - 6]
  <2>1. /\ b \in Seq(Nat) /\ Len(b) = Len(g) + Len(m)
        /\ \A i \in 1 .. Len(g) + Len(m) : b[i] = IF i <= Len(g) THEN g[i] ELSE m[i - Len(g)]
    BY <1>6, <1>11, <1>12, ConcatProperties
  <2> QED
    BY <1>6, <1>11, <2>1
<1>14. b = FrameBytes(f) /\ Len(b) = n + 6
  BY <1>4, <1>7, <1>8, <1>10, <1>12, <1>13
<1>15. b[1] = 129 /\ b[2] = MaskBit + n
  BY <1>4, <1>9, <1>11, <1>13
<1>16. ASSUME NEW i \in 1 .. 4
       PROVE  b[i + 2] = k[i]
  <2>1. i + 2 \in 1 .. 6 + n /\ i + 2 \in 1 .. 6 /\ i + 2 <= 6 /\ ~(i + 2 <= 2) /\ (i + 2) - 2 = i
    BY <1>4
  <2> QED
    BY <1>11, <1>13, <2>1
<1>17. ASSUME NEW i \in 1 .. n
       PROVE  b[i + 6] = ByteXor(p[i], k[((i - 1) % 4) + 1])
  <2>1. i + 6 \in 1 .. 6 + n /\ ~(i + 6 <= 6) /\ (i + 6) - 6 = i
    BY <1>4
  <2> QED
    BY <1>6, <1>13, <2>1
<1>18. IsFrame(f, b, n)
  BY <1>2, <1>3, <1>4, <1>13, <1>14, <1>15, <1>16, <1>17 DEF IsFrame
<1> QED
  BY <1>3, <1>14, <1>18

-----------------------------------------------------------------------------
(***************************************************************************)
(* The frames "s" as the stream carries them, and those from d + 1 on.     *)
(***************************************************************************)
AllPlain(s) == s \in Seq(FrameRecord) /\ \A i \in DOMAIN s : Plain(s[i])
StreamOf(s) == [i \in DOMAIN s |-> FrameBytes(s[i])]
Unread(s, d) == FlattenSeq(SubSeq(StreamOf(s), d + 1, Len(StreamOf(s))))

LEMMA FramesAre ==
    ASSUME NEW s, AllPlain(s)
    PROVE  /\ StreamOf(s) \in Seq(Seq(Nat)) /\ Len(StreamOf(s)) = Len(s) /\ Len(s) \in Nat
           /\ DOMAIN s = 1 .. Len(s)
           /\ \A i \in 1 .. Len(s) :
                 /\ StreamOf(s)[i] = FrameBytes(s[i]) /\ FrameBytes(s[i]) \in Seq(Nat)
                 /\ s[i] \in FrameRecord /\ IsFrame(s[i], FrameBytes(s[i]), Len(s[i].payload))
<1>1. /\ s \in Seq(FrameRecord) /\ Len(s) \in Nat /\ DOMAIN s = 1 .. Len(s)
      /\ \A i \in 1 .. Len(s) : Plain(s[i])
  BY LenProperties DEF AllPlain
<1>2. ASSUME NEW i \in 1 .. Len(s)
      PROVE  s[i] \in FrameRecord /\ IsFrame(s[i], FrameBytes(s[i]), Len(s[i].payload))
  <2>1. s[i] \in FrameRecord
    BY <1>1, ElementOfSeq
  <2> QED
    BY <1>1, <2>1, FrameIs
<1>3. \A i \in 1 .. Len(s) : FrameBytes(s[i]) \in Seq(Nat)
  BY <1>2 DEF IsFrame
<1>4. PICK T, n : T = Seq(Nat) /\ n = Len(s)
  OBVIOUS
<1>5. StreamOf(s) \in [1 .. n -> T] /\ \A i \in 1 .. n : StreamOf(s)[i] = FrameBytes(s[i])
  BY <1>1, <1>3, <1>4 DEF StreamOf
<1>6. StreamOf(s) \in Seq(T) /\ Len(StreamOf(s)) = n
  BY <1>1, <1>4, <1>5
<1> QED
  BY <1>1, <1>2, <1>3, <1>4, <1>5, <1>6

LEMMA NextFrame ==
    ASSUME NEW s, AllPlain(s), NEW d \in 0 .. Len(s)
    PROVE  /\ Unread(s, d) \in Seq(Nat)
           /\ d = Len(s) => Unread(s, d) = << >>
           /\ d < Len(s) =>
                /\ d + 1 \in 1 .. Len(s) /\ d + 1 \in 0 .. Len(s)
                /\ IsFrame(s[d + 1], FrameBytes(s[d + 1]), Len(s[d + 1].payload))
                /\ Unread(s, d) = FrameBytes(s[d + 1]) \o Unread(s, d + 1)
                /\ Unread(s, d + 1) \in Seq(Nat)
<1>1. PICK p : p = StreamOf(s)
  OBVIOUS
<1>2. /\ p \in Seq(Seq(Nat)) /\ Len(p) = Len(s) /\ Len(s) \in Nat
      /\ \A i \in 1 .. Len(s) :
            p[i] = FrameBytes(s[i]) /\ IsFrame(s[i], FrameBytes(s[i]), Len(s[i].payload))
  BY <1>1, FramesAre
<1>3. d \in 0 .. Len(p) /\ (d < Len(s) => d + 1 \in 0 .. Len(p) /\ d + 1 \in 1 .. Len(s))
  BY <1>2
<1>4. /\ Unread(s, d) = FlattenSeq(SubSeq(p, d + 1, Len(p)))
      /\ Unread(s, d + 1) = FlattenSeq(SubSeq(p, (d + 1) + 1, Len(p)))
  BY <1>1 DEF Unread
<1>5. Unread(s, d) \in Seq(Nat)
  BY <1>2, <1>3, <1>4, NextInLine
<1>6. d = Len(s) => Unread(s, d) = << >>
  BY <1>2, <1>3, <1>4, NextInLine
<1>7. ASSUME d < Len(s)
      PROVE  Unread(s, d) = FrameBytes(s[d + 1]) \o Unread(s, d + 1)
  <2>1. /\ FlattenSeq(SubSeq(p, d + 1, Len(p)))
             = p[d + 1] \o FlattenSeq(SubSeq(p, (d + 1) + 1, Len(p)))
    BY <1>2, <1>3, <1>7, NextInLine
  <2> QED
    BY <1>2, <1>3, <1>4, <1>7, <2>1
<1>8. d < Len(s) => Unread(s, d + 1) \in Seq(Nat)
  BY <1>2, <1>3, <1>4, NextInLine
<1> QED
  BY <1>2, <1>3, <1>5, <1>6, <1>7, <1>8

(***************************************************************************)
(* A buffer: the eid and the cid in front of bytes of the stream.          *)
(***************************************************************************)
Headed(p) == <<Eid, Cid>> \o p
Buffered(p) == IF p = << >> THEN << >> ELSE <<Headed(p)>>

LEMMA HeadedIs ==
    ASSUME NEW p \in Seq(Nat)
    PROVE  /\ Headed(p) \in Seq(Nat) /\ Len(Headed(p)) = Len(p) + 2 /\ Len(p) \in Nat
           /\ DropFirst(Headed(p), 2) = p
<1>1. PICK e : e = <<Eid, Cid>>
  OBVIOUS
<1>2. e \in Seq(Nat) /\ Len(e) = 2
  BY <1>1 DEF Eid, Cid
<1>3. /\ e \o p \in Seq(Nat) /\ Len(e \o p) = Len(e) + Len(p) /\ Len(p) \in Nat
  BY <1>2, ConcatProperties, LenProperties
<1>4. SubSeq(e \o p, Len(e) + 0 + 1, Len(e \o p)) = SubSeq(p, 0 + 1, Len(p))
  BY <1>2, <1>3, CutBeyond
<1>5. SubSeq(p, 0 + 1, Len(p)) = p
  <2>1. PICK n : n = Len(p)
    OBVIOUS
  <2>2. n \in Nat /\ 0 \in 0 .. Len(p)
    BY <1>3, <2>1
  <2>3. PICK q : q = SubSeq(p, 0 + 1, Len(p))
    OBVIOUS
  <2>4. q \in Seq(Nat) /\ Len(q) = Len(p) - 0 /\ \A i \in 1 .. Len(p) - 0 : q[i] = p[0 + i]
    BY <2>2, <2>3, After
  <2>5. Len(q) = Len(p) /\ \A i \in 1 .. Len(q) : q[i] = p[i]
    BY <1>3, <2>4
  <2>6. q = p
    BY <2>4, <2>5, SeqEqual
  <2> QED
    BY <2>3, <2>6
<1>6. Headed(p) = e \o p
  BY <1>1 DEF Headed
<1>7. 2 + 1 = Len(e) + 0 + 1 /\ Len(e) + Len(p) = Len(p) + 2
  BY <1>2, <1>3
<1>8. DropFirst(Headed(p), 2) = p
  BY <1>4, <1>5, <1>6, <1>7 DEF DropFirst
<1> QED
  BY <1>3, <1>6, <1>7, <1>8

LEMMA HeadedJoin ==
    ASSUME NEW p \in Seq(Nat), NEW q \in Seq(Nat)
    PROVE  Headed(p) \o DropFirst(Headed(q), 2) = Headed(p \o q)
<1>1. PICK e : e = <<Eid, Cid>>
  OBVIOUS
<1>2. e \in Seq(Nat)
  BY <1>1 DEF Eid, Cid
<1>3. (e \o p) \o q = e \o (p \o q)
  BY ONLY <1>2, p \in Seq(Nat), q \in Seq(Nat), ConcatAssociative, SMTT(60)
<1>4. DropFirst(Headed(q), 2) = q
  BY HeadedIs
<1> QED
  BY <1>1, <1>3, <1>4 DEF Headed

LEMMA MaskBitOf ==
    ASSUME NEW m \in Nat, NEW n \in Nat, n < m
    PROVE  (m + n) % m = n /\ (m + n) \div m = 1
<1>1. m > 0
  OBVIOUS
<1> QED
  BY <1>1

-----------------------------------------------------------------------------
(***************************************************************************)
(* One turn of the loop, on the bytes p behind the eid and the cid of the  *)
(* front buffer: they are the beginning of the frame f, or more than it.   *)
(***************************************************************************)
WsCall == [list : Seq(Seq(Nat)), key : Seq(Nat), out : Seq(Seq(Nat)), close : BOOLEAN, stop : BOOLEAN]

Begins(p, b) ==
    p \in Seq(Nat) /\ p # << >> /\ \A i \in 1 .. Len(p) : i <= Len(b) => p[i] = b[i]

LEMMA BeginsWith ==
    ASSUME NEW p \in Seq(Nat), p # << >>, NEW x \in Seq(Nat), NEW b \in Seq(Nat),
           NEW y \in Seq(Nat), p \o x = b \o y
    PROVE  Begins(p, b)
<1>1. Len(p) \in Nat /\ Len(x) \in Nat /\ Len(b) \in Nat /\ Len(y) \in Nat
  BY LenProperties
<1>2. /\ Len(p \o x) = Len(p) + Len(x)
      /\ \A i \in 1 .. Len(p) + Len(x) : (p \o x)[i] = IF i <= Len(p) THEN p[i] ELSE x[i - Len(p)]
  BY ConcatProperties
<1>3. /\ Len(b \o y) = Len(b) + Len(y)
      /\ \A i \in 1 .. Len(b) + Len(y) : (b \o y)[i] = IF i <= Len(b) THEN b[i] ELSE y[i - Len(b)]
  BY ConcatProperties
<1>4. ASSUME NEW i \in 1 .. Len(p), i <= Len(b)
      PROVE  p[i] = b[i]
  <2>1. i \in 1 .. Len(p) + Len(x) /\ i \in 1 .. Len(b) + Len(y) /\ i <= Len(p)
    BY <1>1, <1>4
  <2> QED
    BY <1>2, <1>3, <1>4, <2>1
<1> QED
  BY <1>4 DEF Begins

LEMMA FrontOf ==
    ASSUME NEW c \in WsCall, c.list # << >>, NEW p \in Seq(Nat), p # << >>, c.list[1] = Headed(p)
    PROVE  DropFirst(c.list[1], 2) = p /\ Len(p) \in Nat \ {0}
<1>1. Len(p) \in Nat \ {0}
  BY EmptySeq, LenProperties
<1> QED
  BY <1>1, HeadedIs

\* The first two bytes of a frame, as the loop reads them.
LEMMA TwoBytes ==
    ASSUME NEW f, NEW b, NEW n, IsFrame(f, b, n)
    PROVE  /\ b[1] % 16 # OPCODE_CLOSE /\ b[2] % MaskBit = n /\ b[2] \div MaskBit = 1
           /\ n # ExtLength /\ n # ExtLength + 1 /\ n \in Nat \ {0} /\ Len(b) = n + 6
           /\ ~(n > max_pack_size) /\ ~(n >= HalfRange)
<1>1. /\ n \in 1 .. ExtLength - 1 /\ ExtLength \in Nat /\ MaskBit \in Nat
      /\ b[1] = 129 /\ b[2] = MaskBit + n /\ Len(b) = n + 6
  BY OctetsAre DEF IsFrame
<1>2. n \in Nat /\ n < MaskBit
  <2>1. ExtLength + 1 < MaskBit
    BY WebSocketAssumption DEF MaskBit
  <2> QED
    BY <1>1, <2>1
<1>3. b[2] % MaskBit = n /\ b[2] \div MaskBit = 1
  BY <1>1, <1>2, MaskBitOf
<1>4. b[1] % 16 # OPCODE_CLOSE
  BY <1>1 DEF OPCODE_CLOSE
<1>5. ~(n > max_pack_size) /\ ~(n >= HalfRange)
  BY <1>1, WebSocketAssumption
<1> QED
  BY <1>1, <1>3, <1>4, <1>5

LEMMA TurnOn ==
    ASSUME NEW c, ~c.stop, c.list # << >>, NEW p, DropFirst(c.list[1], 2) = p, p # << >>,
           Len(p) \in Nat, ~(Len(p) < 6), NEW n \in Nat \ {0}, p[1] % 16 # OPCODE_CLOSE,
           p[2] % MaskBit = n, p[2] \div MaskBit = 1, n # ExtLength, n # ExtLength + 1,
           ~(n > max_pack_size)
    PROVE  FrameTurn(c) = IF Len(DropFirst(p, 6)) < n
                          THEN merge_first_second([c EXCEPT !.key = SubSeq(p, 3, 6)])
                          ELSE Taken(c, n, SubSeq(p, 3, 6), DropFirst(p, 6))
<1>1. Len(p) # 1 /\ ~(Len(p) < 2) /\ n # 0 /\ 2 + 4 = 6 /\ 2 + 1 = 3
  OBVIOUS
<1> QED
  BY ONLY <1>1, ~c.stop, c.list # << >>, DropFirst(c.list[1], 2) = p, p # << >>,
          ~(Len(p) < 6), p[1] % 16 # OPCODE_CLOSE, p[2] % MaskBit = n, p[2] \div MaskBit = 1,
          n # ExtLength, n # ExtLength + 1, ~(n > max_pack_size), Zenon DEF FrameTurn

LEMMA TurnShort ==
    ASSUME NEW c \in WsCall, ~c.stop, c.list # << >>, NEW f, NEW b, NEW n, IsFrame(f, b, n),
           NEW p \in Seq(Nat), Begins(p, b), c.list[1] = Headed(p), Len(p) < n + 6
    PROVE  \E k \in Seq(Nat) : FrameTurn(c) = merge_first_second([c EXCEPT !.key = k])
<1>1. DropFirst(c.list[1], 2) = p /\ Len(p) \in Nat \ {0} /\ p # << >>
  BY FrontOf DEF Begins
<1>2. /\ b[1] % 16 # OPCODE_CLOSE /\ b[2] % MaskBit = n /\ b[2] \div MaskBit = 1
      /\ n # ExtLength /\ n # ExtLength + 1 /\ n \in Nat \ {0} /\ Len(b) = n + 6
      /\ ~(n > max_pack_size) /\ ~(n >= HalfRange)
  BY TwoBytes
<1>3. c.key \in Seq(Nat) /\ [c EXCEPT !.key = c.key] = c
  BY DEF WsCall
<1>4. CASE Len(p) = 1
  <2>1. FrameTurn(c) = merge_first_second(c)
    BY <1>1, <1>4 DEF FrameTurn
  <2> QED
    BY <1>3, <2>1
<1>5. CASE Len(p) # 1
  <2>1. p[1] = b[1] /\ p[2] = b[2]
    <3>1. PICK i, j : i = Len(p) /\ j = Len(b)
      OBVIOUS
    <3>2. i \in Nat \ {0} /\ i # 1 /\ n \in Nat /\ j = n + 6
      BY <1>1, <1>2, <1>5, <3>1
    <3>3. 1 \in 1 .. i /\ 2 \in 1 .. i /\ 1 <= j /\ 2 <= j
      BY <3>2
    <3> QED
      BY <3>1, <3>3 DEF Begins
  <2>2. CASE Len(p) < 6
    <3>1. FrameTurn(c) = merge_first_second(c)
      BY <1>1, <1>2, <1>5, <2>1, <2>2 DEF FrameTurn
    <3> QED
      BY <1>3, <3>1
  <2>3. CASE ~(Len(p) < 6)
    <3>1. PICK k, e : k = SubSeq(p, 3, 6) /\ e = DropFirst(p, 6)
      OBVIOUS
    <3>2. k \in Seq(Nat)
      <4>1. \A i \in 3 .. 6 : p[i] \in Nat
        BY <1>1, <2>3, ElementOfSeq
      <4> QED
        BY <3>1, <4>1
    <3>3. Len(e) < n
      <4>1. PICK m : m = 6
        OBVIOUS
      <4>2. m \in 0 .. Len(p) /\ e = SubSeq(p, m + 1, Len(p))
        BY <1>1, <2>3, <3>1, <4>1 DEF DropFirst
      <4>3. Len(e) = Len(p) - m
        BY <4>2, After
      <4> QED
        BY <1>1, <1>2, <4>1, <4>3
    <3>4. FrameTurn(c) = merge_first_second([c EXCEPT !.key = k])
      BY <1>1, <1>2, <1>5, <2>1, <2>3, <3>1, <3>3, TurnOn
    <3> QED
      BY <3>2, <3>4
  <2> QED
    BY <2>2, <2>3
<1> QED
  BY <1>4, <1>5

LEMMA PayloadIs ==
    ASSUME NEW f, NEW b, NEW n, IsFrame(f, b, n)
    PROVE  f.payload \in Seq(Nat)
<1>1. PICK w : w = f.payload
  OBVIOUS
<1>2. w \in [1 .. n -> Octet] /\ n \in Nat
  <2>1. w \in Seq(Octet) /\ n = Len(w)
    BY <1>1 DEF IsFrame
  <2> QED
    BY ONLY <2>1
<1>3. w \in [1 .. n -> Nat] /\ n \in Nat
  BY <1>2, OctetsAre
<1>4. w \in Seq(Nat)
  BY ONLY <1>3
<1> QED
  BY <1>1, <1>4

\* A frame is there in full, and unmasking gives its payload back.
WholeIn(p, b, n) == SubSeq(p, 1, n + 6) = b /\ Len(p) >= n + 6
UnmasksTo(payload, p, n) ==
    /\ Len(DropFirst(p, 6)) = Len(p) - 6
    /\ SubSeq(p, 3, 6) \in Seq(Nat)
    /\ get_frame_buffer(n, SubSeq(p, 3, 6), DropFirst(p, 6)) = payload
    /\ payload \in Seq(Nat) /\ Len(payload) = n

LEMMA Unmasked ==
    ASSUME NEW f, NEW b, NEW n, IsFrame(f, b, n), NEW p \in Seq(Nat), WholeIn(p, b, n)
    PROVE  UnmasksTo(f.payload, p, n)
<1> USE DEF WholeIn, UnmasksTo
<1>1. /\ n \in Nat \ {0} /\ n = Len(f.payload) /\ f.payload \in Seq(Octet)
      /\ f.key \in [1 .. 4 -> Octet] /\ Len(b) = n + 6 /\ Len(p) \in Nat
  BY TwoBytes, LenProperties DEF IsFrame
<1>2. PICK e, k, x, w : /\ e = DropFirst(p, 6) /\ k = SubSeq(p, 3, 6) /\ x = SubSeq(e, 1, n)
                        /\ w = f.payload
  OBVIOUS
<1>3. e \in Seq(Nat) /\ Len(e) = Len(p) - 6 /\ \A i \in 1 .. Len(p) - 6 : e[i] = p[i + 6]
  <2>1. PICK m : m = 6
    OBVIOUS
  <2>2. m \in 0 .. Len(p) /\ e = SubSeq(p, m + 1, Len(p))
    BY <1>1, <1>2, <2>1 DEF DropFirst
  <2>3. e \in Seq(Nat) /\ Len(e) = Len(p) - m /\ \A i \in 1 .. Len(p) - m : e[i] = p[m + i]
    BY <2>2, After
  <2>4. \A i \in 1 .. Len(p) - m : m + i = i + 6
    BY <1>1, <2>1
  <2> QED
    BY <2>1, <2>3, <2>4
<1>4. \A i \in 1 .. n + 6 : p[i] = b[i]
  BY <1>1, ElementOfSeq
<1>5. /\ k \in Seq(Nat) /\ Len(k) = 4 /\ \A i \in 1 .. 4 : k[i] = f.key[i]
  <2>1. \A i \in 3 .. 6 : p[i] \in Nat
    BY <1>1, ElementOfSeq, SMTT(60)
  <2>2. k \in Seq(Nat) /\ Len(k) = 4 /\ \A i \in 1 .. 4 : k[i] = p[i + 2]
    BY <1>1, <1>2, <2>1
  <2>3. \A i \in 1 .. 4 : i + 2 \in 1 .. n + 6
    BY <1>1
  <2>4. \A i \in 1 .. 4 : b[i + 2] = f.key[i]
    BY DEF IsFrame
  <2>5. ASSUME NEW i \in 1 .. 4
        PROVE  k[i] = f.key[i]
    BY <1>4, <2>2, <2>3, <2>4
  <2> QED
    BY <2>2, <2>5
<1>6. x \in Seq(Nat) /\ Len(x) = n /\ \A i \in 1 .. n : x[i] = e[i]
  <2>1. n \in 0 .. Len(e)
    BY <1>1, <1>3
  <2>2. x \in Seq(Nat) /\ Len(x) = n
    BY <1>2, <1>3, <2>1, Halves
  <2> QED
    BY <1>2, <1>3, <2>1, <2>2
<1>7. \A i \in 1 .. n : x[i] = ByteXor(w[i], k[((i - 1) % 4) + 1])
  <2> SUFFICES ASSUME NEW i \in 1 .. n
               PROVE  x[i] = ByteXor(w[i], k[((i - 1) % 4) + 1])
    OBVIOUS
  <2>1. i \in Nat \ {0} /\ i \in 1 .. Len(p) - 6 /\ i + 6 \in 1 .. n + 6
    BY <1>1, SMTT(60)
  <2>2. x[i] = b[i + 6]
    BY <1>3, <1>4, <1>6, <2>1
  <2>3. ((i - 1) % 4) + 1 \in 1 .. 4
    BY <2>1, KeyPlace
  <2>4. k[((i - 1) % 4) + 1] = f.key[((i - 1) % 4) + 1]
    BY <1>5, <2>3
  <2>5. b[i + 6] = ByteXor(f.payload[i], f.key[((i - 1) % 4) + 1])
    BY DEF IsFrame
  <2> QED
    BY <1>2, <2>2, <2>4, <2>5
<1>8. Mask(x, k) = [i \in 1 .. n |-> ByteXor(x[i], k[((i - 1) % 4) + 1])]
  <2>1. k # << >> /\ DOMAIN x = 1 .. n
    <3>1. k # << >>
      <4>1. k \in Seq(Nat) /\ Len(k) # 0
        BY <1>5
      <4> QED
        BY ONLY <4>1, EmptySeq
    <3> QED
      BY <1>6, <3>1, LenProperties
  <2> QED
    BY <2>1 DEF Mask
<1>9. \A i \in 1 .. n : ByteXor(x[i], k[((i - 1) % 4) + 1]) = w[i]
  <2> SUFFICES ASSUME NEW i \in 1 .. n
               PROVE  ByteXor(x[i], k[((i - 1) % 4) + 1]) = w[i]
    OBVIOUS
  <2>1. w[i] \in Octet
    BY <1>1, <1>2, ElementOfSeq
  <2>2. i \in Nat \ {0}
    BY <1>1
  <2>3. ((i - 1) % 4) + 1 \in 1 .. 4
    BY <2>2, KeyPlace
  <2>4. k[((i - 1) % 4) + 1] \in Octet
    BY <1>1, <1>5, <2>3
  <2> QED
    BY <1>7, <2>1, <2>4, WebSocketAssumption
<1>10. Mask(x, k) = w
  <2>1. w \in Seq(Octet) /\ Len(w) = n /\ DOMAIN w = 1 .. n
    BY <1>1, <1>2, LenProperties
  <2>2. Mask(x, k) = [i \in 1 .. n |-> w[i]]
    BY <1>8, <1>9
  <2>3. w = [i \in 1 .. n |-> w[i]]
    BY <2>1
  <2> QED
    BY <2>2, <2>3
<1>11. get_frame_buffer(n, k, e) = w
  <2>1. ~(n >= HalfRange)
    BY TwoBytes
  <2> QED
    BY <1>2, <1>10, <2>1 DEF get_frame_buffer
<1> QED
  BY <1>1, <1>2, <1>3, <1>5, <1>11, PayloadIs

LEMMA TurnWhole ==
    ASSUME NEW c \in WsCall, ~c.stop, NEW f, NEW b, NEW n, IsFrame(f, b, n),
           NEW p \in Seq(Nat), Begins(p, b), c.list = <<Headed(p)>>, Len(p) >= n + 6,
           SubSeq(p, 1, n + 6) = b
    PROVE  /\ FrameTurn(c) \in WsCall
           /\ FrameTurn(c).out = Append(c.out, f.payload)
           /\ FrameTurn(c).list = Buffered(SubSeq(p, (n + 6) + 1, Len(p)))
           /\ ~FrameTurn(c).stop /\ FrameTurn(c).close = c.close
<1>1. c.list # << >> /\ c.list[1] = Headed(p) /\ Tail(c.list) = << >>
  <2>1. c.list[1] = Headed(p) /\ c.list # << >>
    OBVIOUS
  <2>2. Tail(c.list) = << >>
    <3>1. PICK h : h = Headed(p)
      OBVIOUS
    <3>2. Tail(<<h>>) = << >>
      OBVIOUS
    <3> QED
      BY <3>1, <3>2
  <2> QED
    BY <2>1, <2>2
<1>2. DropFirst(c.list[1], 2) = p /\ Len(p) \in Nat \ {0} /\ p # << >>
  BY <1>1, FrontOf DEF Begins
<1>3. /\ b[1] % 16 # OPCODE_CLOSE /\ b[2] % MaskBit = n /\ b[2] \div MaskBit = 1
      /\ n # ExtLength /\ n # ExtLength + 1 /\ n \in Nat \ {0} /\ Len(b) = n + 6
      /\ ~(n > max_pack_size) /\ ~(n >= HalfRange)
  BY TwoBytes
<1>4. PICK i : i = Len(p)
  OBVIOUS
<1>5. i \in Nat /\ i >= n + 6 /\ n \in Nat \ {0} /\ ~(i < 6) /\ i - 6 >= n
  BY <1>2, <1>3, <1>4
<1>6. p[1] = b[1] /\ p[2] = b[2]
  <2>1. 1 \in 1 .. i /\ 2 \in 1 .. i /\ 1 <= n + 6 /\ 2 <= n + 6
    BY <1>5
  <2> QED
    BY <1>3, <1>4, <2>1 DEF Begins
<1>7. PICK k, e, w : k = SubSeq(p, 3, 6) /\ e = DropFirst(p, 6) /\ w = f.payload
  OBVIOUS
<1>8. /\ Len(e) = i - 6 /\ k \in Seq(Nat) /\ get_frame_buffer(n, k, e) = w
      /\ w \in Seq(Nat) /\ Len(w) = n
  <2>1. WholeIn(p, b, n)
    BY DEF WholeIn
  <2>2. UnmasksTo(f.payload, p, n)
    BY <2>1, Unmasked
  <2> QED
    BY <1>4, <1>7, <2>2 DEF UnmasksTo
<1>9. ~(Len(e) < n)
  BY <1>5, <1>8
<1>10. FrameTurn(c) = Taken(c, n, k, e)
  <2>1. ~(Len(p) < 6) /\ Len(p) \in Nat /\ n \in Nat \ {0}
    BY <1>4, <1>5
  <2>2. p[1] % 16 # OPCODE_CLOSE /\ p[2] % MaskBit = n /\ p[2] \div MaskBit = 1
    BY <1>3, <1>6
  <2>3. FrameTurn(c) = IF Len(DropFirst(p, 6)) < n
                       THEN merge_first_second([c EXCEPT !.key = SubSeq(p, 3, 6)])
                       ELSE Taken(c, n, SubSeq(p, 3, 6), DropFirst(p, 6))
    BY <1>1, <1>2, <1>3, <2>1, <2>2, TurnOn
  <2> QED
    BY <1>7, <1>9, <2>3
<1>11. PICK r : r = SubSeq(p, (n + 6) + 1, Len(p))
  OBVIOUS
<1>12. r \in Seq(Nat) /\ Len(r) = i - (n + 6)
  <2>1. PICK m : m = n + 6
    OBVIOUS
  <2>2. m \in 0 .. Len(p)
    BY <1>4, <1>5, <2>1
  <2> QED
    BY <1>4, <1>11, <2>1, <2>2, After
<1>13. DropFirst(e, n) = r
  <2>1. PICK m : m = 6
    OBVIOUS
  <2>2. m \in 0 .. Len(p) /\ e = SubSeq(p, m + 1, Len(p))
    BY <1>4, <1>5, <1>7, <2>1 DEF DropFirst
  <2>3. e \in Seq(Nat) /\ Len(e) = Len(p) - m /\ \A j \in 1 .. Len(p) - m : e[j] = p[m + j]
    BY <2>2, After
  <2>4. PICK q : q = DropFirst(e, n)
    OBVIOUS
  <2>5. n \in 0 .. Len(e)
    BY <1>5, <1>8
  <2>6. q \in Seq(Nat) /\ Len(q) = Len(e) - n /\ \A j \in 1 .. Len(e) - n : q[j] = e[n + j]
    BY <2>3, <2>4, <2>5, After DEF DropFirst
  <2>7. PICK o : o = n + 6
    OBVIOUS
  <2>8. o \in 0 .. Len(p)
    BY <1>4, <1>5, <2>7
  <2>9. \A j \in 1 .. Len(p) - o : r[j] = p[o + j]
    BY <1>11, <2>7, <2>8, After
  <2>10. Len(q) = Len(r)
    BY <1>5, <1>8, <1>12, <2>6
  <2>11. ASSUME NEW j \in 1 .. Len(q)
         PROVE  q[j] = r[j]
    <3>1. /\ j \in 1 .. Len(e) - n /\ n + j \in 1 .. Len(p) - m /\ j \in 1 .. Len(p) - o
          /\ m + (n + j) = o + j
      BY <1>4, <1>5, <1>8, <2>1, <2>6, <2>7
    <3> QED
      BY <2>3, <2>6, <2>9, <3>1
  <2> QED
    BY <1>12, <2>4, <2>6, <2>10, <2>11, SeqEqual
<1>14. Buffered(r) = IF Len(e) = n THEN << >> ELSE <<<<Eid, Cid>> \o r>>
  <2>1. r = << >> <=> Len(e) = n
    <3>1. r = << >> <=> Len(r) = 0
      BY <1>12, EmptySeq
    <3>2. Len(r) = 0 <=> Len(e) = n
      BY <1>5, <1>8, <1>12
    <3> QED
      BY <3>1, <3>2
  <2> QED
    BY <2>1 DEF Buffered, Headed
<1>15. PICK new : new = Buffered(r)
  OBVIOUS
<1>16. new \in Seq(Seq(Nat))
  <2>1. Headed(r) \in Seq(Nat)
    BY <1>12, HeadedIs
  <2>2. PICK h : h = Headed(r)
    OBVIOUS
  <2>3. <<h>> \in Seq(Seq(Nat)) /\ << >> \in Seq(Seq(Nat))
    BY <2>1, <2>2
  <2> QED
    BY <1>15, <2>2, <2>3 DEF Buffered
<1>17. Taken(c, n, k, e) = [c EXCEPT !.out = Append(@, w), !.key = k, !.list = new]
  <2>1. (IF Len(e) = n THEN Tail(c.list) ELSE <<<<Eid, Cid>> \o DropFirst(e, Len(w))>> \o Tail(c.list)) = new
    <3>1. DropFirst(e, Len(w)) = r
      BY <1>8, <1>13
    <3>2. PICK h : h = <<Eid, Cid>> \o r
      OBVIOUS
    <3>3. <<h>> \o << >> = <<h>>
      OBVIOUS
    <3> QED
      BY <1>1, <1>14, <1>15, <3>1, <3>2, <3>3
  <2> QED
    BY <1>8, <2>1 DEF Taken
<1>18. PICK o : o = Append(c.out, w)
  OBVIOUS
<1>19. o \in Seq(Seq(Nat))
  <2>1. c.out \in Seq(Seq(Nat))
    BY DEF WsCall
  <2> QED
    BY <1>8, <1>18, <2>1, AppendProperties
<1>20. FrameTurn(c) = [c EXCEPT !.out = o, !.key = k, !.list = new]
  BY <1>10, <1>17, <1>18
<1>21. /\ FrameTurn(c) \in WsCall /\ FrameTurn(c).out = o /\ FrameTurn(c).list = new
       /\ FrameTurn(c).stop = c.stop /\ FrameTurn(c).close = c.close
  BY <1>8, <1>16, <1>19, <1>20 DEF WsCall
<1> QED
  BY <1>7, <1>11, <1>15, <1>18, <1>21

(***************************************************************************)
(* Joining the two buffers of the list, or stopping when there is one.     *)
(***************************************************************************)
LEMMA JoinOne ==
    ASSUME NEW c \in WsCall, NEW h, c.list = <<h>>, NEW k \in Seq(Nat),
           NEW t, t = merge_first_second([c EXCEPT !.key = k])
    PROVE  t \in WsCall /\ t.list = c.list /\ t.out = c.out /\ t.close = c.close /\ t.stop
<1>1. PICK s : s = [c EXCEPT !.key = k]
  OBVIOUS
<1>2. s \in WsCall /\ s.list = c.list /\ s.out = c.out /\ s.close = c.close
  BY <1>1 DEF WsCall
<1>3. Len(s.list) < 2
  BY <1>2
<1>4. t = [s EXCEPT !.stop = TRUE]
  BY <1>1, <1>3 DEF merge_first_second
<1> QED
  BY <1>2, <1>4 DEF WsCall

JoinedTo(t, c, z) ==
    /\ t \in WsCall /\ t.list = <<Headed(z)>>
    /\ t.out = c.out /\ t.close = c.close /\ t.stop = c.stop

LEMMA JoinTwo ==
    ASSUME NEW c \in WsCall, NEW p \in Seq(Nat), NEW q \in Seq(Nat),
           c.list = <<Headed(p), Headed(q)>>, NEW k \in Seq(Nat),
           NEW t, t = merge_first_second([c EXCEPT !.key = k])
    PROVE  JoinedTo(t, c, p \o q)
<1>1. PICK s, g, h : s = [c EXCEPT !.key = k] /\ g = Headed(p) /\ h = Headed(q)
  OBVIOUS
<1>2. s \in WsCall /\ s.list = <<g, h>> /\ s.out = c.out /\ s.close = c.close /\ s.stop = c.stop
  BY <1>1 DEF WsCall
<1>3. /\ ~(Len(<<g, h>>) < 2) /\ <<g, h>>[1] = g /\ <<g, h>>[2] = h
      /\ SubSeq(<<g, h>>, 2 + 1, Len(<<g, h>>)) = << >>
  OBVIOUS
<1>4. PICK j : j = g \o DropFirst(h, 2)
  OBVIOUS
<1>5. <<j>> \o << >> = <<j>>
  OBVIOUS
<1>6. t = [s EXCEPT !.list = <<j>>]
  <2>1. DropFirst(s.list, 2) = << >>
    BY <1>2, <1>3 DEF DropFirst
  <2>2. ~(Len(s.list) < 2) /\ s.list[1] = g /\ s.list[2] = h
    BY <1>2, <1>3
  <2>3. t = [s EXCEPT !.list = <<s.list[1] \o DropFirst(s.list[2], 2)>> \o DropFirst(s.list, 2)]
    BY <1>1, <2>2 DEF merge_first_second
  <2> QED
    BY <1>4, <1>5, <2>1, <2>2, <2>3
<1>7. j = Headed(p \o q)
  BY <1>1, <1>4, HeadedJoin
<1>8. j \in Seq(Nat)
  <2>1. p \o q \in Seq(Nat)
    BY ConcatProperties
  <2> QED
    BY <1>7, <2>1, HeadedIs
<1>9. <<j>> \in Seq(Seq(Nat))
  BY <1>8
<1>10. /\ t \in WsCall /\ t.list = <<Headed(p \o q)>>
       /\ t.out = c.out /\ t.close = c.close /\ t.stop = c.stop
  BY <1>2, <1>6, <1>7, <1>9 DEF WsCall
<1> QED
  BY <1>10 DEF JoinedTo

-----------------------------------------------------------------------------
(***************************************************************************)
(* The loop of handle_pack.  It has posted the payloads of the frames up   *)
(* to d and has refused nothing; the buffer of the list, or the two, and   *)
(* what has not been read are the frames from there on.  It stops only     *)
(* when the next frame is not there in full.                               *)
(***************************************************************************)
PayloadsTo(s, d) == [i \in 1 .. d |-> s[i].payload]

Short(s, d, p) == d < Len(s) => Len(p) < Len(FrameBytes(s[d + 1]))

One(s, list, ahead, d, p) ==
    p \in Seq(Nat) /\ list = Buffered(p) /\ p \o ahead = Unread(s, d)

Two(s, list, ahead, d, p, q) ==
    /\ p \in Seq(Nat) /\ p # << >> /\ q \in Seq(Nat) /\ q # << >>
    /\ list = <<Headed(p), Headed(q)>> /\ p \o (q \o ahead) = Unread(s, d) /\ Short(s, d, p)

WsStands(s, c, before, ahead) ==
    /\ ~c.close
    /\ \E d \in 0 .. Len(s) :
          /\ before \o c.out = PayloadsTo(s, d)
          /\ \/ \E p : One(s, c.list, ahead, d, p) /\ (c.stop => Short(s, d, p))
             \/ ~c.stop /\ \E p, q : Two(s, c.list, ahead, d, p, q)

WsLeft(list) ==
    IF list = << >> THEN 0
    ELSE Len(list[1]) + (IF Len(list) < 2 THEN 1 ELSE Len(list[2]) + 2)

LEMMA OneLeft ==
    ASSUME NEW p \in Seq(Nat)
    PROVE  /\ Len(p) \in Nat
           /\ p = << >> => WsLeft(Buffered(p)) = 0
           /\ p # << >> => WsLeft(Buffered(p)) = Len(p) + 3
<1>1. Len(Headed(p)) = Len(p) + 2 /\ Len(p) \in Nat
  BY HeadedIs
<1>2. PICK h : h = Headed(p)
  OBVIOUS
<1>3. Len(<<h>>) < 2 /\ <<h>>[1] = h /\ <<h>> # << >>
  OBVIOUS
<1>4. WsLeft(<<h>>) = Len(h) + 1
  BY <1>3 DEF WsLeft
<1>5. p # << >> => Buffered(p) = <<h>>
  BY <1>2 DEF Buffered
<1>6. Len(h) + 1 = Len(p) + 3
  BY <1>1, <1>2
<1>7. p = << >> => WsLeft(Buffered(p)) = 0
  BY DEF WsLeft, Buffered
<1> QED
  BY <1>1, <1>4, <1>5, <1>6, <1>7

LEMMA TwoLeft ==
    ASSUME NEW p \in Seq(Nat), NEW q \in Seq(Nat)
    PROVE  WsLeft(<<Headed(p), Headed(q)>>) = Len(p) + Len(q) + 6
<1>1. /\ Len(Headed(p)) = Len(p) + 2 /\ Len(p) \in Nat
      /\ Len(Headed(q)) = Len(q) + 2 /\ Len(q) \in Nat
  BY HeadedIs
<1>2. PICK g, h : g = Headed(p) /\ h = Headed(q)
  OBVIOUS
<1>3. /\ ~(Len(<<g, h>>) < 2) /\ <<g, h>>[1] = g /\ <<g, h>>[2] = h /\ <<g, h>> # << >>
  OBVIOUS
<1>4. WsLeft(<<g, h>>) = Len(g) + (Len(h) + 2)
  BY <1>3 DEF WsLeft
<1>5. Len(g) + (Len(h) + 2) = Len(p) + Len(q) + 6
  <2>1. PICK i \in Nat, j \in Nat : i = Len(p) /\ j = Len(q)
    BY <1>1
  <2>2. Len(g) = i + 2 /\ Len(h) = j + 2
    BY <1>1, <1>2, <2>1
  <2>3. (i + 2) + ((j + 2) + 2) = i + j + 6
    OBVIOUS
  <2> QED
    BY <2>1, <2>2, <2>3
<1> QED
  BY <1>2, <1>4, <1>5

LEMMA WsLeftIs ==
    ASSUME NEW c \in WsCall
    PROVE  WsLeft(c.list) \in Int /\ WsLeft(c.list) >= 0
<1>1. PICK list, T : list = c.list /\ T = Seq(Nat)
  OBVIOUS
<1>2. list \in Seq(T)
  BY <1>1 DEF WsCall
<1>3. CASE list = << >>
  BY <1>1, <1>3 DEF WsLeft
<1>4. CASE list # << >>
  <2>1. Len(list) \in Nat \ {0} /\ \A i \in 1 .. Len(list) : list[i] \in T
    BY <1>2, <1>4, EmptySeq, ElementOfSeq
  <2>2. 1 \in 1 .. Len(list) /\ (~(Len(list) < 2) => 2 \in 1 .. Len(list))
    BY <2>1
  <2>3. Len(list[1]) \in Nat /\ (~(Len(list) < 2) => Len(list[2]) \in Nat)
    BY <1>1, <2>1, <2>2, LenProperties
  <2>4. PICK i, j : i = Len(list[1]) /\ j = (IF Len(list) < 2 THEN 1 ELSE Len(list[2]) + 2)
    OBVIOUS
  <2>5. i \in Nat /\ j \in Nat
    BY <2>3, <2>4
  <2>6. WsLeft(list) = i + j
    BY <1>4, <2>4 DEF WsLeft
  <2> QED
    BY <1>1, <2>5, <2>6
<1> QED
  BY <1>3, <1>4

LEMMA OneMorePayload ==
    ASSUME NEW s, AllPlain(s), NEW d \in 0 .. Len(s), d < Len(s), NEW before \in Seq(Seq(Nat)),
           NEW out \in Seq(Seq(Nat)), before \o out = PayloadsTo(s, d)
    PROVE  before \o Append(out, s[d + 1].payload) = PayloadsTo(s, d + 1)
<1>1. PICK T, w : T = Seq(Nat) /\ w = s[d + 1].payload
  OBVIOUS
<1>2. Len(s) \in Nat /\ d \in Nat /\ d + 1 \in 1 .. Len(s)
  BY FramesAre
<1>3. \A i \in 1 .. Len(s) : s[i].payload \in T
  BY <1>1, FramesAre, PayloadIs
<1>4. before \in Seq(T) /\ out \in Seq(T) /\ w \in T
  BY <1>1, <1>2, <1>3
<1>5. before \o Append(out, w) = Append(before \o out, w)
  BY <1>4, SMTT(60)
<1>6. PICK x, z : x = PayloadsTo(s, d) /\ z = PayloadsTo(s, d + 1)
  OBVIOUS
<1>7. x \in Seq(T) /\ Len(x) = d /\ \A i \in 1 .. d : x[i] = s[i].payload
  <2>1. x = [i \in 1 .. d |-> s[i].payload]
    BY <1>6 DEF PayloadsTo
  <2>2. \A i \in 1 .. d : s[i].payload \in T
    BY <1>2, <1>3
  <2> QED
    BY <1>2, <2>1, <2>2
<1>8. z \in Seq(T) /\ Len(z) = d + 1 /\ \A i \in 1 .. d + 1 : z[i] = s[i].payload
  <2>1. z = [i \in 1 .. d + 1 |-> s[i].payload]
    BY <1>6 DEF PayloadsTo
  <2>2. \A i \in 1 .. d + 1 : s[i].payload \in T
    BY <1>2, <1>3
  <2> QED
    BY <1>2, <2>1, <2>2
<1>9. z = Append(x, w)
  <2>1. Len(z) = Len(x) + 1 /\ z[Len(x) + 1] = w
    BY <1>1, <1>2, <1>7, <1>8
  <2>2. \A i \in 1 .. Len(x) : z[i] = x[i]
    <3>1. ASSUME NEW i \in 1 .. d
          PROVE  z[i] = x[i]
      <4>1. i \in 1 .. d + 1
        BY <1>2
      <4> QED
        BY <1>7, <1>8, <4>1
    <3> QED
      BY <1>7, <3>1
  <2> QED
    BY <1>4, <1>7, <1>8, <2>1, <2>2, Longer
<1> QED
  BY <1>1, <1>5, <1>6, <1>9

LEMMA FrameTurnKeeps ==
    ASSUME NEW s, AllPlain(s), NEW c \in WsCall, ~c.stop, NEW before \in Seq(Seq(Nat)),
           NEW ahead \in Seq(Nat), WsStands(s, c, before, ahead)
    PROVE  /\ FrameTurn(c) \in WsCall /\ WsStands(s, FrameTurn(c), before, ahead)
           /\ FrameTurn(c).stop \/ WsLeft(FrameTurn(c).list) < WsLeft(c.list)
<1>1. PICK d \in 0 .. Len(s) :
         /\ before \o c.out = PayloadsTo(s, d)
         /\ \/ \E p : One(s, c.list, ahead, d, p)
            \/ \E p, q : Two(s, c.list, ahead, d, p, q)
  BY DEF WsStands
<1>2. ~c.close
  BY DEF WsStands
<1>3. PICK t : t = FrameTurn(c)
  OBVIOUS
<1>4. ASSUME NEW p, One(s, c.list, ahead, d, p), p = << >>
      PROVE  t \in WsCall /\ WsStands(s, t, before, ahead) /\ t.stop
  <2>1. c.list = << >>
    BY <1>4 DEF One, Buffered
  <2>2. t = [c EXCEPT !.stop = TRUE]
    BY <1>3, <2>1 DEF FrameTurn
  <2>3. t \in WsCall /\ t.stop /\ t.close = c.close /\ t.list = c.list /\ t.out = c.out
    BY <2>2 DEF WsCall
  <2>4. Short(s, d, p)
    <3>1. Len(p) = 0
      BY <1>4
    <3>2. ASSUME d < Len(s)
          PROVE  0 < Len(FrameBytes(s[d + 1]))
      BY <3>2, NextFrame, TwoBytes
    <3> QED
      BY <3>1, <3>2 DEF Short
  <2> QED
    BY <1>1, <1>2, <1>4, <2>3, <2>4 DEF WsStands
<1>5. ASSUME NEW p \in Seq(Nat), p # << >>, NEW x \in Seq(Nat), p \o x = Unread(s, d)
      PROVE  /\ d < Len(s) /\ d + 1 \in 1 .. Len(s) /\ d + 1 \in 0 .. Len(s)
             /\ IsFrame(s[d + 1], FrameBytes(s[d + 1]), Len(s[d + 1].payload))
             /\ FrameBytes(s[d + 1]) \in Seq(Nat) /\ Unread(s, d + 1) \in Seq(Nat)
             /\ Unread(s, d) = FrameBytes(s[d + 1]) \o Unread(s, d + 1)
             /\ Begins(p, FrameBytes(s[d + 1]))
  <2>1. d < Len(s)
    <3>1. Len(s) \in Nat /\ d \in 0 .. Len(s)
      BY FramesAre
    <3>2. Len(p) \in Nat \ {0} /\ Len(x) \in Nat /\ Len(p \o x) = Len(p) + Len(x)
      BY <1>5, EmptySeq, ConcatProperties, LenProperties
    <3>3. d = Len(s) => Len(p \o x) = 0
      BY <1>5, NextFrame, EmptySeq
    <3> QED
      BY <3>1, <3>2, <3>3
  <2>2. /\ d + 1 \in 1 .. Len(s) /\ d + 1 \in 0 .. Len(s)
        /\ IsFrame(s[d + 1], FrameBytes(s[d + 1]), Len(s[d + 1].payload))
        /\ Unread(s, d) = FrameBytes(s[d + 1]) \o Unread(s, d + 1)
        /\ Unread(s, d + 1) \in Seq(Nat)
    BY <2>1, NextFrame
  <2>3. FrameBytes(s[d + 1]) \in Seq(Nat)
    BY <2>2 DEF IsFrame
  <2>4. Begins(p, FrameBytes(s[d + 1]))
    BY <1>5, <2>2, <2>3, BeginsWith
  <2> QED
    BY <2>1, <2>2, <2>3, <2>4
<1>6. ASSUME NEW p, One(s, c.list, ahead, d, p), p # << >>
      PROVE  /\ t \in WsCall /\ WsStands(s, t, before, ahead)
             /\ t.stop \/ WsLeft(t.list) < WsLeft(c.list)
  <2>1. p \in Seq(Nat) /\ c.list = Buffered(p) /\ p \o ahead = Unread(s, d)
    BY <1>6 DEF One
  <2>2. PICK f, b, n, y : /\ f = s[d + 1] /\ b = FrameBytes(f) /\ n = Len(f.payload)
                          /\ y = Unread(s, d + 1)
    OBVIOUS
  <2>3. /\ d < Len(s) /\ d + 1 \in 1 .. Len(s) /\ d + 1 \in 0 .. Len(s) /\ IsFrame(f, b, n)
        /\ b \in Seq(Nat) /\ y \in Seq(Nat) /\ p \o ahead = b \o y /\ Begins(p, b)
    BY <1>5, <1>6, <2>1, <2>2
  <2>4. Len(b) = n + 6 /\ n \in Nat
    BY <2>3, TwoBytes
  <2>5. PICK h : h = Headed(p)
    OBVIOUS
  <2>6. c.list = <<h>> /\ c.list # << >> /\ c.list[1] = h
    BY <1>6, <2>1, <2>5 DEF Buffered
  <2>7. CASE Len(p) < n + 6
    <3>1. PICK k \in Seq(Nat) : t = merge_first_second([c EXCEPT !.key = k])
      BY <1>3, <2>1, <2>3, <2>5, <2>6, <2>7, TurnShort
    <3>2. t \in WsCall /\ t.list = c.list /\ t.out = c.out /\ t.close = c.close /\ t.stop
      BY <2>6, <3>1, JoinOne, ZenonT(60)
    <3>3. Short(s, d, p)
      BY <2>2, <2>4, <2>7 DEF Short
    <3> QED
      BY <1>1, <1>2, <1>6, <3>2, <3>3 DEF WsStands
  <2>8. CASE ~(Len(p) < n + 6)
    <3>1. Len(p) >= n + 6 /\ Len(b) <= Len(p) /\ Len(p) \in Nat
      BY <2>1, <2>4, <2>8, OneLeft
    <3>2. PICK m : m = Len(b)
      OBVIOUS
    <3>3. PICK r : r = SubSeq(p, m + 1, Len(p))
      OBVIOUS
    <3>4. SubSeq(p, 1, m) = b /\ r \o ahead = y
      BY <2>1, <2>3, <3>1, <3>2, <3>3, Overlap
    <3>5. m = n + 6 /\ SubSeq(p, 1, n + 6) = b /\ r = SubSeq(p, (n + 6) + 1, Len(p))
      BY <2>4, <3>2, <3>3, <3>4
    <3>6. r \in Seq(Nat) /\ Len(r) = Len(p) - m
      <4>1. m \in 0 .. Len(p)
        BY <2>4, <3>1, <3>2
      <4> QED
        BY <2>1, <3>3, <4>1, After
    <3>7. /\ t \in WsCall /\ t.out = Append(c.out, f.payload) /\ t.list = Buffered(r)
          /\ ~t.stop /\ t.close = c.close
      <4>1. c \in WsCall /\ ~c.stop /\ c.list = <<Headed(p)>> /\ p \in Seq(Nat)
        BY <2>1, <2>5, <2>6
      <4>2. IsFrame(f, b, n) /\ Begins(p, b) /\ Len(p) >= n + 6 /\ SubSeq(p, 1, n + 6) = b
        BY <2>3, <3>1, <3>5
      <4>3. /\ FrameTurn(c) \in WsCall
            /\ FrameTurn(c).out = Append(c.out, f.payload)
            /\ FrameTurn(c).list = Buffered(SubSeq(p, (n + 6) + 1, Len(p)))
            /\ ~FrameTurn(c).stop /\ FrameTurn(c).close = c.close
        BY ONLY <4>1, <4>2, TurnWhole
      <4> QED
        BY <1>3, <3>5, <4>3
    <3>8. before \o t.out = PayloadsTo(s, d + 1)
      <4>1. c.out \in Seq(Seq(Nat))
        BY DEF WsCall
      <4> QED
        BY <1>1, <2>2, <2>3, <3>7, <4>1, OneMorePayload
    <3>9. One(s, t.list, ahead, d + 1, r)
      BY <2>2, <3>4, <3>6, <3>7 DEF One
    <3>10. WsLeft(t.list) < WsLeft(c.list)
      <4>1. WsLeft(c.list) = Len(p) + 3 /\ Len(p) \in Nat
        BY <1>6, <2>1, OneLeft
      <4>2. WsLeft(t.list) = 0 \/ WsLeft(t.list) = (Len(p) - m) + 3
        BY <3>6, <3>7, OneLeft
      <4> QED
        BY <2>4, <3>2, <4>1, <4>2
    <3> QED
      BY <1>2, <2>3, <3>7, <3>8, <3>9, <3>10 DEF WsStands
  <2> QED
    BY <2>7, <2>8
<1>7. ASSUME NEW p, NEW q, Two(s, c.list, ahead, d, p, q)
      PROVE  /\ t \in WsCall /\ WsStands(s, t, before, ahead)
             /\ WsLeft(t.list) < WsLeft(c.list)
  <2>1. /\ p \in Seq(Nat) /\ p # << >> /\ q \in Seq(Nat) /\ q # << >>
        /\ c.list = <<Headed(p), Headed(q)>> /\ p \o (q \o ahead) = Unread(s, d)
        /\ Short(s, d, p)
    BY <1>7 DEF Two
  <2>2. PICK x : x = q \o ahead
    OBVIOUS
  <2>3. x \in Seq(Nat)
    BY <2>1, <2>2, ConcatProperties
  <2>4. PICK f, b, n : f = s[d + 1] /\ b = FrameBytes(f) /\ n = Len(f.payload)
    OBVIOUS
  <2>5. d < Len(s) /\ IsFrame(f, b, n) /\ Begins(p, b)
    BY <1>5, <2>1, <2>2, <2>3, <2>4
  <2>6. Len(p) < n + 6
    BY <2>1, <2>4, <2>5, TwoBytes DEF Short
  <2>7. PICK g, h : g = Headed(p) /\ h = Headed(q)
    OBVIOUS
  <2>8. c.list # << >> /\ c.list[1] = g
    BY <2>1, <2>7
  <2>9. PICK k \in Seq(Nat) : t = merge_first_second([c EXCEPT !.key = k])
    BY <1>3, <2>1, <2>5, <2>6, <2>7, <2>8, TurnShort
  <2>10. /\ t \in WsCall /\ t.list = <<Headed(p \o q)>>
         /\ t.out = c.out /\ t.close = c.close /\ t.stop = c.stop
    <3>1. c \in WsCall /\ p \in Seq(Nat) /\ q \in Seq(Nat) /\ c.list = <<Headed(p), Headed(q)>>
      BY <2>1
    <3>2. t = merge_first_second([c EXCEPT !.key = k])
      BY <2>9
    <3>3. JoinedTo(t, c, p \o q)
      BY ONLY <3>1, <3>2, k \in Seq(Nat), JoinTwo
    <3> QED
      BY <3>3 DEF JoinedTo
  <2>11. PICK z, i, j : z = p \o q /\ i = Len(p) /\ j = Len(q)
    OBVIOUS
  <2>12. z \in Seq(Nat) /\ Len(z) = i + j /\ i \in Nat \ {0} /\ j \in Nat \ {0}
    BY <2>1, <2>11, ConcatProperties, EmptySeq, LenProperties
  <2>13. z # << >>
    <3>1. Len(z) # 0
      BY <2>12
    <3> QED
      BY <3>1
  <2>14. t.list = Buffered(z)
    BY <2>10, <2>11, <2>13 DEF Buffered
  <2>15. z \o ahead = Unread(s, d)
    <3>1. (p \o q) \o ahead = p \o (q \o ahead)
      <4>1. p \in Seq(Nat) /\ q \in Seq(Nat) /\ ahead \in Seq(Nat)
        BY <2>1
      <4> QED
        BY ONLY <4>1, ConcatAssociative, SMTT(60)
    <3> QED
      BY <2>1, <2>11, <3>1
  <2>16. One(s, t.list, ahead, d, z)
    BY <2>12, <2>14, <2>15 DEF One
  <2>17. WsLeft(t.list) < WsLeft(c.list)
    <3>1. WsLeft(t.list) = (i + j) + 3
      BY <2>12, <2>13, <2>14, OneLeft
    <3>2. WsLeft(c.list) = i + j + 6
      BY <2>1, <2>11, TwoLeft
    <3> QED
      BY <2>12, <3>1, <3>2
  <2> QED
    BY <1>1, <1>2, <2>10, <2>16, <2>17 DEF WsStands
<1> QED
  BY <1>1, <1>3, <1>4, <1>6, <1>7

-----------------------------------------------------------------------------
(***************************************************************************)
(* handle_pack of Svc_Websocket as a whole, as for the packages.           *)
(***************************************************************************)
WsStart(list) ==
    [list |-> list, key |-> NoKey, out |-> << >>, close |-> FALSE, stop |-> FALSE]

WsTurns(f, list, n) ==
    f = [k \in 0 .. n |-> IF k = 0 THEN WsStart(list) ELSE FrameTurn(f[k - 1])]

LEMMA WsTurnsExist ==
    ASSUME NEW list, NEW n \in Nat
    PROVE  \E f : WsTurns(f, list, n)
<1> DEFINE I == {m \in Nat : \E f : WsTurns(f, list, m)}
<1>1. 0 \in I
  <2>1. PICK f : f = [k \in 0 .. 0 |-> WsStart(list)]
    OBVIOUS
  <2>2. \A k \in 0 .. 0 : k = 0
    OBVIOUS
  <2>3. f = [k \in 0 .. 0 |-> IF k = 0 THEN WsStart(list) ELSE FrameTurn(f[k - 1])]
    BY <2>1, <2>2
  <2> QED
    BY <2>3 DEF WsTurns
<1>2. ASSUME NEW m \in Nat, m \in I
      PROVE  m + 1 \in I
  <2>1. PICK f : WsTurns(f, list, m)
    BY <1>2
  <2>2. PICK g : g = [k \in 0 .. m + 1 |-> IF k = m + 1 THEN FrameTurn(f[m]) ELSE f[k]]
    OBVIOUS
  <2>3. ASSUME NEW k \in 0 .. m + 1
        PROVE  g[k] = IF k = 0 THEN WsStart(list) ELSE FrameTurn(g[k - 1])
    <3>1. CASE k = 0
      <4>1. 0 \in 0 .. m /\ 0 # m + 1
        OBVIOUS
      <4> QED
        BY <2>1, <2>2, <3>1, <4>1 DEF WsTurns
    <3>2. CASE k # 0 /\ k # m + 1
      <4>1. k \in 0 .. m /\ k - 1 \in 0 .. m + 1 /\ k - 1 # m + 1
        BY <3>2
      <4> QED
        BY <2>1, <2>2, <3>2, <4>1 DEF WsTurns
    <3>3. CASE k = m + 1
      <4>1. k - 1 = m /\ m \in 0 .. m + 1 /\ m # m + 1 /\ k # 0
        BY <3>3
      <4> QED
        BY <2>2, <3>3, <4>1
    <3> QED
      BY <3>1, <3>2, <3>3
  <2>4. WsTurns(g, list, m + 1)
    BY <2>2, <2>3 DEF WsTurns
  <2> QED
    BY <2>4
<1> HIDE DEF I
<1>3. Nat \subseteq I
  BY <1>1, <1>2, Induction
<1> QED
  BY <1>3 DEF I

LEMMA WsHandlePackTurns ==
    ASSUME NEW list, NEW n, n = 2 * (Len(list) + Len(FlattenSeq(list))),
           \E f : WsTurns(f, list, n)
    PROVE  \E f : WsTurns(f, list, n) /\ handle_pack(list) = f[n]
<1> DEFINE g == CHOOSE f : WsTurns(f, list, n)
<1>1. WsTurns(g, list, n)
  OBVIOUS
<1>2. handle_pack(list) = g[n]
  BY DEF handle_pack, WsTurns, WsStart
<1> QED
  BY <1>1, <1>2

\* Twice the buffers and the bytes of the list are turns enough.
LEMMA EnoughTurns ==
    ASSUME NEW p \in Seq(Nat), NEW q \in Seq(Nat), q # << >>, NEW list,
           \/ p = << >> /\ list = <<Headed(q)>>
           \/ p # << >> /\ list = <<Headed(p), Headed(q)>>
    PROVE  /\ list \in Seq(Seq(Nat))
           /\ Len(list) \in Nat /\ Len(FlattenSeq(list)) \in Nat /\ WsLeft(list) \in Nat
           /\ WsLeft(list) < 2 * (Len(list) + Len(FlattenSeq(list)))
<1>1. PICK g, h, T : g = Headed(p) /\ h = Headed(q) /\ T = Seq(Nat)
  OBVIOUS
<1>2. /\ g \in T /\ Len(g) = Len(p) + 2 /\ Len(p) \in Nat
      /\ h \in T /\ Len(h) = Len(q) + 2 /\ Len(q) \in Nat
  BY <1>1, HeadedIs
<1>3. <<h>> \in Seq(T) /\ <<g>> \in Seq(T) /\ <<g, h>> \in Seq(T) /\ <<g, h>> = Append(<<g>>, h)
  BY <1>2
<1>4. Len(<<h>>) = 1 /\ Len(<<g, h>>) = 2
  OBVIOUS
<1>5. CASE p = << >> /\ list = <<Headed(q)>>
  <2>1. FlattenSeq(list) = h
    BY <1>1, <1>2, <1>5, FlattenOne
  <2>2. list = Buffered(q)
    BY <1>5 DEF Buffered
  <2>3. WsLeft(list) = Len(q) + 3
    BY <2>2, OneLeft
  <2>4. Len(list) = 1 /\ list \in Seq(T)
    BY <1>1, <1>3, <1>4, <1>5
  <2>5. PICK j \in Nat : j = Len(q)
    BY <1>2
  <2>6. Len(FlattenSeq(list)) = j + 2 /\ WsLeft(list) = j + 3
    BY <1>2, <2>1, <2>3, <2>5
  <2> QED
    BY <1>1, <2>4, <2>5, <2>6
<1>6. CASE p # << >> /\ list = <<Headed(p), Headed(q)>>
  <2>1. FlattenSeq(list) = g \o h
    <3>1. FlattenSeq(Append(<<g>>, h)) = FlattenSeq(<<g>>) \o h
      BY <1>1, <1>2, <1>3, FlattenAppend
    <3>2. FlattenSeq(<<g>>) = g
      BY <1>1, <1>2, FlattenOne
    <3> QED
      BY <1>1, <1>3, <1>6, <3>1, <3>2
  <2>2. Len(g \o h) = Len(g) + Len(h)
    BY <1>1, <1>2, ConcatProperties
  <2>3. WsLeft(list) = Len(p) + Len(q) + 6
    BY <1>6, TwoLeft
  <2>4. Len(list) = 2 /\ list \in Seq(T)
    BY <1>1, <1>3, <1>4, <1>6
  <2>5. PICK i \in Nat, j \in Nat : i = Len(p) /\ j = Len(q)
    BY <1>2
  <2>6. /\ Len(FlattenSeq(list)) = (i + 2) + (j + 2) /\ WsLeft(list) = i + j + 6
    BY <1>2, <2>1, <2>2, <2>3, <2>5
  <2> QED
    BY <1>1, <2>4, <2>5, <2>6
<1> QED
  BY <1>5, <1>6

LEMMA WsHandlePackKeeps ==
    ASSUME NEW s, AllPlain(s), NEW d \in 0 .. Len(s), NEW before \in Seq(Seq(Nat)),
           before = PayloadsTo(s, d), NEW ahead \in Seq(Nat), NEW list,
           NEW p \in Seq(Nat), NEW q \in Seq(Nat), q # << >>,
           \/ p = << >> /\ list = <<Headed(q)>>
           \/ p # << >> /\ list = <<Headed(p), Headed(q)>>,
           p \o (q \o ahead) = Unread(s, d), Short(s, d, p)
    PROVE  /\ handle_pack(list) \in WsCall /\ handle_pack(list).stop
           /\ WsStands(s, handle_pack(list), before, ahead)
<1>1. /\ list \in Seq(Seq(Nat))
      /\ Len(list) \in Nat /\ Len(FlattenSeq(list)) \in Nat /\ WsLeft(list) \in Nat
      /\ WsLeft(list) < 2 * (Len(list) + Len(FlattenSeq(list)))
  BY EnoughTurns
<1>2. PICK m : m = 2 * (Len(list) + Len(FlattenSeq(list)))
  OBVIOUS
<1>3. m \in Nat /\ WsLeft(list) < m
  BY <1>1, <1>2
<1>4. PICK f : WsTurns(f, list, m) /\ handle_pack(list) = f[m]
  BY <1>2, <1>3, WsTurnsExist, WsHandlePackTurns
<1>5. \A k \in 0 .. m : f[k] = IF k = 0 THEN WsStart(list) ELSE FrameTurn(f[k - 1])
  BY <1>4 DEF WsTurns
<1>6. PICK left : left = WsLeft(list)
  OBVIOUS
<1> DEFINE Good(c) == c \in WsCall /\ WsStands(s, c, before, ahead)
           I == {k \in Nat : k <= m =>
                    Good(f[k]) /\ (f[k].stop \/ (WsLeft(f[k].list) \in Int /\ WsLeft(f[k].list) + k <= left))}
<1>7. 0 \in I
  <2>1. f[0] = WsStart(list)
    BY <1>3, <1>5, SMTT(60)
  <2>2. WsStart(list) \in WsCall
    <3>1. NoKey \in Seq(Nat)
      BY DEF NoKey
    <3> QED
      BY <1>1, <3>1 DEF WsStart, WsCall
  <2>3. PICK c : c = WsStart(list)
    OBVIOUS
  <2>4. c.list = list /\ c.out = << >> /\ ~c.close /\ ~c.stop
    BY <2>3 DEF WsStart
  <2>5. before \o c.out = PayloadsTo(s, d)
    BY <2>4, ConcatEmptySeq
  <2>6. (\E x : One(s, list, ahead, d, x)) \/ (\E x, y : Two(s, list, ahead, d, x, y))
    <3>1. CASE p = << >> /\ list = <<Headed(q)>>
      <4>1. q \o ahead \in Seq(Nat)
        BY ConcatProperties
      <4>2. << >> \o (q \o ahead) = q \o ahead
        BY <4>1, ConcatEmptySeq
      <4>3. list = Buffered(q)
        BY <3>1 DEF Buffered
      <4>4. q \o ahead = Unread(s, d)
        BY <3>1, <4>2
      <4> QED
        BY <4>3, <4>4 DEF One
    <3>2. CASE p # << >> /\ list = <<Headed(p), Headed(q)>>
      BY <3>2 DEF Two
    <3> QED
      BY <3>1, <3>2
  <2>7. WsStands(s, c, before, ahead)
    BY <2>4, <2>5, <2>6 DEF WsStands
  <2>8. WsLeft(c.list) \in Int /\ WsLeft(c.list) + 0 <= left
    BY <1>1, <1>6, <2>4
  <2> QED
    BY <2>1, <2>2, <2>3, <2>7, <2>8
<1>8. ASSUME NEW k \in Nat, k \in I
      PROVE  k + 1 \in I
  <2> SUFFICES ASSUME k + 1 <= m
               PROVE  /\ Good(f[k + 1])
                      /\ \/ f[k + 1].stop
                         \/ WsLeft(f[k + 1].list) \in Int /\ WsLeft(f[k + 1].list) + (k + 1) <= left
    OBVIOUS
  <2>1. Good(f[k]) /\ (f[k].stop \/ (WsLeft(f[k].list) \in Int /\ WsLeft(f[k].list) + k <= left))
    BY <1>3, <1>8
  <2>2. f[k + 1] = FrameTurn(f[k])
    <3>1. k + 1 \in 0 .. m /\ k + 1 # 0 /\ (k + 1) - 1 = k
      BY <1>3
    <3> QED
      BY <1>5, <3>1
  <2>3. PICK c, t : c = f[k] /\ t = f[k + 1]
    OBVIOUS
  <2>4. c \in WsCall /\ WsStands(s, c, before, ahead) /\ t = FrameTurn(c)
    BY <2>1, <2>2, <2>3
  <2>5. CASE c.stop
    <3>1. t = c
      BY <2>4, <2>5 DEF FrameTurn
    <3> QED
      BY <2>3, <2>4, <2>5, <3>1
  <2>6. CASE ~c.stop
    <3>1. t \in WsCall /\ WsStands(s, t, before, ahead)
          /\ (t.stop \/ WsLeft(t.list) < WsLeft(c.list))
      BY <2>4, <2>6, FrameTurnKeeps
    <3>2. WsLeft(t.list) \in Int
      BY <3>1, WsLeftIs
    <3>3. t.stop \/ WsLeft(t.list) + (k + 1) <= left
      BY <1>1, <1>6, <2>1, <2>3, <2>6, <3>1, <3>2, SMTT(60)
    <3> QED
      BY <2>3, <3>1, <3>2, <3>3
  <2> QED
    BY <2>5, <2>6
<1>9. m \in I
  <2> HIDE DEF I
  <2>1. Nat \subseteq I
    BY <1>7, <1>8, Induction
  <2> QED
    BY <1>3, <2>1
<1>10. /\ f[m] \in WsCall /\ WsStands(s, f[m], before, ahead)
       /\ (f[m].stop \/ (WsLeft(f[m].list) \in Int /\ WsLeft(f[m].list) + m <= left))
  BY <1>3, <1>9
<1>11. WsLeft(f[m].list) \in Int /\ WsLeft(f[m].list) >= 0
  BY <1>10, WsLeftIs
<1>12. f[m].stop
  BY <1>1, <1>3, <1>6, <1>10, <1>11
<1> QED
  BY <1>4, <1>10, <1>12

-----------------------------------------------------------------------------
(***************************************************************************)
(* The inductive invariant.  Before the first read the connection is as it *)
(* began.  From then on, if the handshake came in a read of its own and    *)
(* the frames are short and masked, the payloads of the frames up to some  *)
(* d were posted, and the one buffer that may be left, with p in it, and   *)
(* what was not read are the frames from there on, the next one not whole. *)
(***************************************************************************)
BeforeHandshake ==
    /\ ws_wire = Handshake /\ ws_sent = << >> /\ ws_recv_list = << >> /\ ws_handed = << >>
    /\ ~connected /\ ~accepted /\ ~ws_closed /\ ~hs_whole

UpTo(s, coming, list, handed, d, p) ==
    /\ d \in 0 .. Len(s) /\ handed = PayloadsTo(s, d)
    /\ One(s, list, coming, d, p) /\ Short(s, d, p)

KeptUp ==
    /\ connected /\ ~ws_closed /\ ws_wire \in Seq(Nat) /\ ws_handed \in Seq(Seq(Nat))
    /\ \E d, p : UpTo(ws_sent, ws_wire, ws_recv_list, ws_handed, d, p)

wsIInv ==
    /\ reads \in Nat /\ ws_sent \in Seq(FrameRecord)
    /\ reads = 0 => BeforeHandshake
    /\ hs_whole /\ AllPlain(ws_sent) => KeptUp

LEMMA NothingSent == Unread(<< >>, 0) = << >> /\ AllPlain(<< >>) /\ PayloadsTo(<< >>, 0) = << >>
<1>1. AllPlain(<< >>)
  BY DEF AllPlain
<1>2. 0 \in 0 .. Len(<< >>) /\ Len(<< >>) = 0
  OBVIOUS
<1>3. Unread(<< >>, 0) = << >>
  BY <1>1, <1>2, NextFrame
<1>4. PayloadsTo(<< >>, 0) = << >>
  BY DEF PayloadsTo
<1> QED
  BY <1>1, <1>3, <1>4

LEMMA wsStarts == wsInit => wsIInv
<1> SUFFICES ASSUME wsInit
             PROVE  wsIInv
  OBVIOUS
<1>1. reads \in Nat /\ BeforeHandshake /\ ~hs_whole
  BY DEF wsInit, BeforeHandshake
<1>2. ws_sent \in Seq(FrameRecord)
  BY DEF wsInit
<1> QED
  BY <1>1, <1>2 DEF wsIInv

LEMMA PlainBefore ==
    ASSUME NEW s \in Seq(FrameRecord), NEW f \in FrameRecord, NEW z, z = Append(s, f), AllPlain(z)
    PROVE  AllPlain(s)
<1>1. /\ z \in Seq(FrameRecord) /\ Len(z) = Len(s) + 1 /\ Len(s) \in Nat
      /\ \A i \in 1 .. Len(s) : z[i] = s[i]
  BY AppendProperties, LenProperties
<1>2. DOMAIN z = 1 .. Len(z) /\ DOMAIN s = 1 .. Len(s)
  BY <1>1, LenProperties
<1>3. ASSUME NEW i \in DOMAIN s
      PROVE  Plain(s[i])
  <2>1. i \in 1 .. Len(s) /\ i \in DOMAIN z
    BY <1>1, <1>2
  <2> QED
    BY <1>1, <2>1 DEF AllPlain
<1> QED
  BY <1>3 DEF AllPlain

\* One more frame behind those on their way.
LEMMA OneMoreFrame ==
    ASSUME NEW s \in Seq(FrameRecord), NEW f \in FrameRecord, NEW z, z = Append(s, f), AllPlain(z),
           NEW coming \in Seq(Nat), NEW list, NEW handed, NEW d, NEW p,
           UpTo(s, coming, list, handed, d, p)
    PROVE  /\ FrameBytes(f) \in Seq(Nat)
           /\ UpTo(z, coming \o FrameBytes(f), list, handed, d, p)
<1>1. /\ z \in Seq(FrameRecord) /\ Len(z) = Len(s) + 1 /\ Len(s) \in Nat
      /\ \A i \in 1 .. Len(s) : z[i] = s[i]
      /\ z[Len(s) + 1] = f
  BY AppendProperties, LenProperties
<1>2. AllPlain(s)
  BY PlainBefore
<1>3. PICK b : b = FrameBytes(f)
  OBVIOUS
<1>4. b \in Seq(Nat) /\ Len(b) \in Nat \ {0}
  <2>1. Len(s) + 1 \in 1 .. Len(z)
    BY <1>1
  <2>2. b \in Seq(Nat) /\ IsFrame(f, b, Len(f.payload))
    BY <1>1, <1>3, <2>1, FramesAre
  <2> QED
    BY <2>2, TwoBytes
<1>5. /\ d \in 0 .. Len(s) /\ handed = PayloadsTo(s, d) /\ p \in Seq(Nat)
      /\ list = Buffered(p) /\ p \o coming = Unread(s, d) /\ Short(s, d, p)
  BY <1>2 DEF UpTo, One
<1>6. d \in 0 .. Len(z)
  BY <1>1, <1>5
<1>7. handed = PayloadsTo(z, d)
  <2>1. \A i \in 1 .. d : z[i] = s[i]
    BY <1>1, <1>5
  <2> QED
    BY <1>5, <2>1 DEF PayloadsTo
<1>8. Unread(z, d) = Unread(s, d) \o b
  <2>1. PICK x, y : x = StreamOf(s) /\ y = StreamOf(z)
    OBVIOUS
  <2>2. /\ x \in Seq(Seq(Nat)) /\ Len(x) = Len(s)
        /\ \A i \in 1 .. Len(s) : x[i] = FrameBytes(s[i])
    BY <1>2, <2>1, FramesAre
  <2>3. /\ y \in Seq(Seq(Nat)) /\ Len(y) = Len(z)
        /\ \A i \in 1 .. Len(z) : y[i] = FrameBytes(z[i])
    BY <2>1, FramesAre
  <2>4. y = Append(x, b)
    <3>1. PICK T : T = Seq(Nat)
      OBVIOUS
    <3>2. x \in Seq(T) /\ y \in Seq(T) /\ b \in T /\ Len(y) = Len(x) + 1
      BY <1>1, <1>4, <2>2, <2>3, <3>1
    <3>3. ASSUME NEW i \in 1 .. Len(x)
          PROVE  y[i] = x[i]
      <4>1. i \in 1 .. Len(s) /\ i \in 1 .. Len(z)
        BY <1>1, <2>2
      <4> QED
        BY <1>1, <2>2, <2>3, <4>1
    <3>4. y[Len(x) + 1] = b
      <4>1. Len(x) + 1 = Len(s) + 1 /\ Len(s) + 1 \in 1 .. Len(z)
        BY <1>1, <2>2
      <4> QED
        BY <1>1, <1>3, <2>3, <4>1
    <3> QED
      BY <3>2, <3>3, <3>4, Longer
  <2>5. d \in 0 .. Len(x)
    BY <1>5, <2>2
  <2>6. FlattenSeq(SubSeq(y, d + 1, Len(y))) = FlattenSeq(SubSeq(x, d + 1, Len(x))) \o b
    BY <1>4, <2>2, <2>4, <2>5, LineGrows
  <2> QED
    BY <2>1, <2>6 DEF Unread
<1>9. p \o (coming \o b) = Unread(z, d)
  <2>1. (p \o coming) \o b = p \o (coming \o b)
    <3>1. p \in Seq(Nat) /\ coming \in Seq(Nat) /\ b \in Seq(Nat)
      BY <1>4, <1>5
    <3> QED
      BY ONLY <3>1, ConcatAssociative, SMTT(60)
  <2> QED
    BY <1>5, <1>8, <2>1
<1>10. Short(z, d, p)
  <2> SUFFICES ASSUME d < Len(z)
               PROVE  Len(p) < Len(FrameBytes(z[d + 1]))
    BY DEF Short
  <2>1. CASE d < Len(s)
    <3>1. z[d + 1] = s[d + 1]
      BY <1>1, <1>5, <2>1
    <3> QED
      BY <1>5, <2>1, <3>1 DEF Short
  <2>2. CASE ~(d < Len(s))
    <3>1. d = Len(s) /\ z[d + 1] = f
      BY <1>1, <1>5, <2>2
    <3>2. Unread(s, d) = << >>
      BY <1>2, <1>5, <3>1, NextFrame
    <3>3. Len(p) + Len(coming) = 0 /\ Len(p) \in Nat /\ Len(coming) \in Nat
      <4>1. Len(p \o coming) = Len(p) + Len(coming)
        BY <1>5, ConcatProperties
      <4>2. Len(p \o coming) = 0
        BY <1>5, <3>2
      <4> QED
        BY <1>5, <4>1, <4>2, LenProperties
    <3> QED
      BY <1>3, <1>4, <3>1, <3>3
  <2> QED
    BY <2>1, <2>2
<1>11. UpTo(z, coming \o b, list, handed, d, p)
  BY <1>5, <1>6, <1>7, <1>9, <1>10 DEF UpTo, One
<1> QED
  BY <1>3, <1>4, <1>11

LEMMA wsSendKeeps == ASSUME wsIInv, Send PROVE wsIInv'
<1>1. PICK f \in FrameRecord :
         ws_sent' = Append(ws_sent, f) /\ ws_wire' = ws_wire \o FrameBytes(f)
  BY DEF Send, FrameRecord
<1>2. /\ UNCHANGED <<reads, hs_whole, connected, ws_recv_list, ws_handed, ws_closed>>
      /\ accepted
  BY DEF Send
<1>3. reads \in Nat /\ ws_sent \in Seq(FrameRecord) /\ (reads = 0 => BeforeHandshake)
  BY DEF wsIInv
<1>4. reads' \in Nat /\ reads' # 0
  BY <1>2, <1>3 DEF BeforeHandshake
<1>5. PICK z : z = ws_sent'
  OBVIOUS
<1>6. z = Append(ws_sent, f) /\ z \in Seq(FrameRecord)
  BY <1>1, <1>3, <1>5, AppendProperties
<1>7. ASSUME hs_whole, AllPlain(z)
      PROVE  KeptUp'
  <2>1. AllPlain(ws_sent) => KeptUp
    BY <1>7 DEF wsIInv
  <2>2. AllPlain(ws_sent)
    BY <1>3, <1>6, <1>7, PlainBefore
  <2>3. /\ connected /\ ~ws_closed /\ ws_wire \in Seq(Nat) /\ ws_handed \in Seq(Seq(Nat))
        /\ \E d, p : UpTo(ws_sent, ws_wire, ws_recv_list, ws_handed, d, p)
    BY <2>1, <2>2 DEF KeptUp
  <2>4. PICK d, p : UpTo(ws_sent, ws_wire, ws_recv_list, ws_handed, d, p)
    BY <2>3
  <2>5. /\ FrameBytes(f) \in Seq(Nat)
        /\ UpTo(z, ws_wire \o FrameBytes(f), ws_recv_list, ws_handed, d, p)
    BY <1>3, <1>6, <1>7, <2>3, <2>4, OneMoreFrame
  <2>6. ws_wire \o FrameBytes(f) \in Seq(Nat)
    BY <2>3, <2>5, ConcatProperties
  <2> QED
    BY <1>1, <1>2, <1>5, <2>3, <2>5, <2>6 DEF KeptUp
<1> QED
  BY <1>2, <1>4, <1>5, <1>6, <1>7 DEF wsIInv

\* The handshake in a read of its own leaves nothing behind.
LEMMA HandshakeAlone ==
    ASSUME NEW n \in 1 .. Len(Handshake), SubSeq(Handshake, 1, n) = Handshake
    PROVE  /\ handshake(Append(<< >>, <<Eid, Cid>> \o SubSeq(Handshake, 1, n))).list = << >>
           /\ handshake(Append(<< >>, <<Eid, Cid>> \o SubSeq(Handshake, 1, n))).connected
           /\ DropFirst(Handshake, n) = << >>
<1>1. PICK w : w = Handshake
  OBVIOUS
<1>2. /\ w \in Seq(Nat) /\ Len(w) = 4 /\ DOMAIN w = 1 .. 4
      /\ w[1] = Line1 /\ w[2] = Line2 /\ w[3] = KeyLine /\ w[4] = EmptyLine
  BY <1>1 DEF Handshake, Line1, Line2, KeyLine, EmptyLine
<1>3. n = 4
  <2>1. n \in 0 .. Len(w) /\ n \in 1 .. 4
    BY <1>1, <1>2
  <2>2. Len(SubSeq(w, 1, n)) = n
    BY <1>2, <2>1, Halves
  <2> QED
    BY <1>1, <1>2, <2>2
<1>4. DropFirst(w, 4) = << >>
  <2>1. PICK m : m = 4
    OBVIOUS
  <2>2. m \in 0 .. Len(w)
    BY <1>2, <2>1
  <2>3. SubSeq(w, m + 1, Len(w)) \in Seq(Nat) /\ Len(SubSeq(w, m + 1, Len(w))) = Len(w) - m
    BY <1>2, <2>2, After
  <2>4. SubSeq(w, m + 1, Len(w)) = << >>
    BY <1>2, <2>1, <2>3, EmptySeq
  <2> QED
    BY <2>1, <2>4 DEF DropFirst
<1>5. PICK list : list = Append(<< >>, <<Eid, Cid>> \o SubSeq(Handshake, 1, n))
  OBVIOUS
<1>6. list = <<Headed(w)>>
  <2>1. PICK h : h = Headed(w)
    OBVIOUS
  <2>2. Append(<< >>, h) = <<h>>
    OBVIOUS
  <2>3. list = Append(<< >>, h)
    BY <1>1, <1>5, <2>1 DEF Headed
  <2> QED
    BY <2>1, <2>2, <2>3
<1>7. DropFirst(list[1], 2) = w /\ Tail(list) = << >>
  <2>1. PICK h : h = Headed(w)
    OBVIOUS
  <2>2. <<h>>[1] = h /\ Tail(<<h>>) = << >>
    OBVIOUS
  <2>3. DropFirst(h, 2) = w
    BY <1>2, <2>1, HeadedIs
  <2> QED
    BY <1>6, <2>1, <2>2, <2>3
<1>8. HandshakeRest(w) = << >>
  <2>1. \A i \in DOMAIN w : w[i] = EmptyLine <=> i = 4
    BY <1>2 DEF Line1, Line2, KeyLine, EmptyLine
  <2>2. 4 \in DOMAIN w
    BY <1>2
  <2>3. (CHOOSE i \in DOMAIN w : w[i] = EmptyLine) = 4
    BY <2>1, <2>2
  <2> QED
    BY <1>4, <2>1, <2>2, <2>3 DEF HandshakeRest
<1>9. HasLineEnd(w)
  <2>1. 2 \in DOMAIN w /\ w[2] # Line1
    BY <1>2 DEF Line1, Line2
  <2> QED
    BY <2>1 DEF HasLineEnd
<1>10. << >> \o << >> = << >>
  OBVIOUS
<1>11. handshake(list).list = << >> /\ handshake(list).connected
  BY <1>7, <1>8, <1>9, <1>10 DEF handshake
<1> QED
  BY <1>1, <1>3, <1>4, <1>5, <1>11

\* A read goes on from where the last one ended.
LEMMA ReadKeeps ==
    ASSUME NEW s, AllPlain(s), NEW coming \in Seq(Nat), NEW list, NEW handed \in Seq(Seq(Nat)),
           NEW d, NEW p, UpTo(s, coming, list, handed, d, p), NEW n \in 1 .. Len(coming),
           NEW c, c = handle_pack(Append(list, <<Eid, Cid>> \o SubSeq(coming, 1, n)))
    PROVE  /\ ~c.close /\ handed \o c.out \in Seq(Seq(Nat)) /\ DropFirst(coming, n) \in Seq(Nat)
           /\ \E e, r : UpTo(s, DropFirst(coming, n), c.list, handed \o c.out, e, r)
<1>1. PICK q, ahead : q = SubSeq(coming, 1, n) /\ ahead = DropFirst(coming, n)
  OBVIOUS
<1>2. n \in 0 .. Len(coming) /\ n \in Nat \ {0}
  BY LenProperties
<1>3. q \in Seq(Nat) /\ Len(q) = n /\ ahead \in Seq(Nat) /\ q \o ahead = coming
  BY <1>1, <1>2, Halves, After DEF DropFirst
<1>4. q # << >>
  BY <1>2, <1>3, EmptySeq
<1>5. /\ d \in 0 .. Len(s) /\ handed = PayloadsTo(s, d) /\ p \in Seq(Nat)
      /\ list = Buffered(p) /\ p \o coming = Unread(s, d) /\ Short(s, d, p)
  BY DEF UpTo, One
<1>6. PICK new : new = Append(list, Headed(q))
  OBVIOUS
<1>7. \/ p = << >> /\ new = <<Headed(q)>>
      \/ p # << >> /\ new = <<Headed(p), Headed(q)>>
  <2>1. PICK g, h, T : g = Headed(p) /\ h = Headed(q) /\ T = Seq(Nat)
    OBVIOUS
  <2>2. g \in T /\ h \in T
    BY <1>3, <1>5, <2>1, HeadedIs
  <2>3. Append(<< >>, h) = <<h>>
    BY <2>2
  <2>4. <<g>> \in Seq(T) /\ <<g, h>> \in Seq(T) /\ <<g, h>> = Append(<<g>>, h)
    BY <2>2
  <2> QED
    BY <1>5, <1>6, <2>1, <2>3, <2>4 DEF Buffered
<1>8. p \o (q \o ahead) = Unread(s, d)
  BY <1>3, <1>5
<1>9. c = handle_pack(new)
  BY <1>1, <1>6 DEF Headed
<1>10. /\ handle_pack(new) \in WsCall /\ handle_pack(new).stop
       /\ WsStands(s, handle_pack(new), handed, ahead)
  BY <1>3, <1>4, <1>5, <1>7, <1>8, WsHandlePackKeeps
<1>11. c \in WsCall /\ c.stop /\ WsStands(s, c, handed, ahead)
  BY <1>9, <1>10
<1>12. ~c.close /\ \E e, r : UpTo(s, ahead, c.list, handed \o c.out, e, r)
  BY <1>11 DEF WsStands, UpTo
<1>13. handed \o c.out \in Seq(Seq(Nat))
  <2>1. c.out \in Seq(Seq(Nat))
    BY <1>11 DEF WsCall
  <2>2. PICK T, o : T = Seq(Nat) /\ o = c.out
    OBVIOUS
  <2>3. handed \in Seq(T) /\ o \in Seq(T)
    BY <2>1, <2>2
  <2>4. handed \o o \in Seq(T)
    BY ONLY <2>3, ConcatProperties
  <2> QED
    BY <2>2, <2>4
<1> QED
  BY <1>1, <1>3, <1>12, <1>13

LEMMA wsReceiveKeeps == ASSUME wsIInv, NEW n \in 1 .. Len(ws_wire), Receive(n) PROVE wsIInv'
<1>1. reads \in Nat /\ ws_sent \in Seq(FrameRecord) /\ (reads = 0 => BeforeHandshake)
  BY DEF wsIInv
<1>2. ws_sent' = ws_sent /\ ws_wire' = DropFirst(ws_wire, n) /\ reads' = reads + 1
  BY DEF Receive
<1>3. reads' \in Nat /\ reads' # 0
  BY <1>1, <1>2
<1>4. ASSUME hs_whole', AllPlain(ws_sent)
      PROVE  KeptUp'
  <2>1. CASE ~connected
    <3>1. PICK h : h = handshake(Append(ws_recv_list, <<Eid, Cid>> \o SubSeq(ws_wire, 1, n)))
      OBVIOUS
    <3>2. /\ ws_recv_list' = h.list /\ connected' = h.connected
          /\ hs_whole' = (reads = 0 /\ SubSeq(ws_wire, 1, n) = Handshake)
          /\ ws_handed' = ws_handed /\ ws_closed' = ws_closed
      BY <2>1, <3>1 DEF Receive
    <3>3. BeforeHandshake /\ SubSeq(ws_wire, 1, n) = Handshake
      BY <1>1, <1>4, <3>2
    <3>4. /\ ws_wire = Handshake /\ ws_sent = << >> /\ ws_recv_list = << >> /\ ws_handed = << >>
          /\ ~ws_closed
      BY <3>3 DEF BeforeHandshake
    <3>5. h.list = << >> /\ h.connected /\ ws_wire' = << >>
      BY <1>2, <3>1, <3>3, <3>4, HandshakeAlone
    <3>6. UpTo(<< >>, << >>, << >>, << >>, 0, << >>)
      <4>1. Short(<< >>, 0, << >>)
        BY DEF Short
      <4>2. << >> \o << >> = << >> /\ 0 \in 0 .. Len(<< >>) /\ << >> \in Seq(Nat)
        OBVIOUS
      <4> QED
        BY <4>1, <4>2, NothingSent DEF UpTo, One, Buffered
    <3>7. << >> \in Seq(Nat) /\ << >> \in Seq(Seq(Nat))
      OBVIOUS
    <3> QED
      BY <1>2, <3>2, <3>4, <3>5, <3>6, <3>7 DEF KeptUp
  <2>2. CASE connected
    <3>1. PICK c : c = handle_pack(Append(ws_recv_list, <<Eid, Cid>> \o SubSeq(ws_wire, 1, n)))
      OBVIOUS
    <3>2. /\ ws_recv_list' = c.list /\ ws_closed' = c.close /\ ws_handed' = ws_handed \o c.out
          /\ connected' = connected /\ hs_whole' = hs_whole
      BY <2>2, <3>1 DEF Receive
    <3>3. KeptUp
      BY <1>4, <3>2 DEF wsIInv
    <3>4. PICK d, p : UpTo(ws_sent, ws_wire, ws_recv_list, ws_handed, d, p)
      BY <3>3 DEF KeptUp
    <3>5. ws_wire \in Seq(Nat) /\ ws_handed \in Seq(Seq(Nat))
      BY <3>3 DEF KeptUp
    <3>6. /\ ~c.close /\ ws_handed \o c.out \in Seq(Seq(Nat)) /\ DropFirst(ws_wire, n) \in Seq(Nat)
          /\ \E e, r : UpTo(ws_sent, DropFirst(ws_wire, n), c.list, ws_handed \o c.out, e, r)
      BY <1>4, <3>1, <3>4, <3>5, ReadKeeps
    <3> QED
      BY <1>2, <2>2, <3>2, <3>6 DEF KeptUp
  <2> QED
    BY <2>1, <2>2
<1> QED
  BY <1>1, <1>2, <1>3, <1>4 DEF wsIInv

LEMMA wsRestKeeps ==
    ASSUME wsIInv,
           UNCHANGED <<ws_sent, ws_wire, reads, hs_whole, connected, accepted, ws_recv_list,
                       ws_handed, ws_closed>>
    PROVE  wsIInv'
<1>1. BeforeHandshake' = BeforeHandshake
  BY DEF BeforeHandshake
<1>2. KeptUp => KeptUp'
  BY DEF KeptUp
<1> QED
  BY <1>1, <1>2 DEF wsIInv

LEMMA wsNextKeeps == wsIInv /\ [wsNext]_wsVars => wsIInv'
<1> SUFFICES ASSUME wsIInv, [wsNext]_wsVars
             PROVE  wsIInv'
  OBVIOUS
<1>1. CASE Send
  BY <1>1, wsSendKeeps
<1>2. CASE Reply
  BY <1>2, wsRestKeeps DEF Reply
<1>3. CASE \E n \in 1 .. Len(ws_wire) : Receive(n)
  BY <1>3, wsReceiveKeeps
<1>4. CASE \E part \in WriteSizes : wsHandle_send(part)
  BY <1>4, wsRestKeeps DEF wsHandle_send
<1>5. CASE UNCHANGED wsVars
  BY <1>5, wsRestKeeps DEF wsVars
<1> QED
  BY <1>1, <1>2, <1>3, <1>4, <1>5 DEF wsNext

LEMMA wsInvariantSuffices == wsIInv => FramesUnderstood
<1> SUFFICES ASSUME wsIInv, hs_whole, \A i \in DOMAIN ws_sent : Plain(ws_sent[i])
             PROVE  /\ ~ws_closed
                    /\ Len(ws_handed) <= Len(ws_sent)
                    /\ \A i \in DOMAIN ws_handed : ws_handed[i] = ws_sent[i].payload
                    /\ ws_wire = << >> => Len(ws_handed) = Len(ws_sent)
  BY DEF FramesUnderstood
<1>1. AllPlain(ws_sent) /\ KeptUp
  BY DEF wsIInv, AllPlain
<1>2. PICK d, p : UpTo(ws_sent, ws_wire, ws_recv_list, ws_handed, d, p)
  BY <1>1 DEF KeptUp
<1>3. /\ d \in 0 .. Len(ws_sent) /\ ws_handed = PayloadsTo(ws_sent, d) /\ p \in Seq(Nat)
      /\ p \o ws_wire = Unread(ws_sent, d) /\ Short(ws_sent, d, p)
  BY <1>2 DEF UpTo, One
<1>4. Len(ws_sent) \in Nat
  BY <1>1, FramesAre
<1>5. ~ws_closed /\ ws_handed \in Seq(Seq(Nat))
  BY <1>1 DEF KeptUp
<1>6. DOMAIN ws_handed = 1 .. d /\ \A i \in 1 .. d : ws_handed[i] = ws_sent[i].payload
  BY <1>3 DEF PayloadsTo
<1>7. Len(ws_handed) = d
  BY <1>3, <1>4, <1>5, <1>6, LenProperties
<1>8. ASSUME ws_wire = << >>
      PROVE  d = Len(ws_sent)
  <2>1. p = Unread(ws_sent, d)
    BY <1>3, <1>8, ConcatEmptySeq
  <2> SUFFICES ASSUME d < Len(ws_sent)
               PROVE  FALSE
    BY <1>3, <1>4
  <2>2. PICK b, y : b = FrameBytes(ws_sent[d + 1]) /\ y = Unread(ws_sent, d + 1)
    OBVIOUS
  <2>3. p = b \o y /\ b \in Seq(Nat) /\ y \in Seq(Nat)
    BY <1>1, <1>3, <2>1, <2>2, NextFrame DEF IsFrame
  <2>4. Len(p) = Len(b) + Len(y) /\ Len(b) \in Nat /\ Len(y) \in Nat
    BY <2>3, ConcatProperties, LenProperties
  <2>5. Len(p) < Len(b)
    BY <1>3, <2>2 DEF Short
  <2> QED
    BY <2>4, <2>5
<1> QED
  BY <1>3, <1>4, <1>5, <1>6, <1>7, <1>8

(***************************************************************************)
(* For every payload and key of bytes and any number of frames: as long as *)
(* the client waits for the answer to its handshake, masks its frames and  *)
(* keeps them short, every payload is posted once, in order, unmasked, and *)
(* nothing is held back, whatever the reads cut and joined                 *)
(* (Svc_Websocket::handle_pack).                                           *)
(***************************************************************************)
THEOREM FramesAlwaysUnderstood == wsSpec => []FramesUnderstood
<1>1. wsInit => wsIInv
  BY wsStarts
<1>2. wsIInv /\ [wsNext]_wsVars => wsIInv'
  BY wsNextKeeps
<1>3. wsIInv => FramesUnderstood
  BY wsInvariantSuffices
<1> QED
  BY <1>1, <1>2, <1>3, PTL DEF wsSpec

=============================================================================
