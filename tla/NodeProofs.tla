----------------------------- MODULE NodeProofs -----------------------------
(***************************************************************************)
(* Proofs about a node among others, in two parts.  Its threads never wait *)
(* for each other in a circle, for any number of connectors, messages and  *)
(* processes that end.  The buffers of its messages are queues of bytes,   *)
(* and every message arrives as it was sent, for any contents.             *)
(***************************************************************************)
EXTENDS Deployment, MessageBuffers, FiniteSetTheorems, SequenceTheorems,
        WellFoundedInduction, TLAPS

\* The newest connection of a connector.
Newest(e) == Len(ended[e])

\* e is to be connected anew; the first of the queue no more once it is registered.
Queued(e) ==
    \E i \in 1..Len(drop_eid_list) :
        drop_eid_list[i] = e /\ ~(v8.pc = "registered" /\ i = 1)

\* An endpoint waits once; the one being connected is the first, by its newest connection.
QueueInv ==
    /\ \A i, j \in 1..Len(drop_eid_list) : drop_eid_list[i] = drop_eid_list[j] => i = j
    /\ v8.pc \in {"drop_eid", "add_io", "registered"} => drop_eid_list # <<>>
    /\ v8.pc \in {"add_io", "registered"} => v8.cid = Newest(drop_eid_list[1])

\* The connection whose fd its network thread is about to close.
Releasing(e) == IF net[e].pc = "release" THEN {net[e].cid} ELSE {}

\* While a connector is queued its network thread has no connection to serve.
QueuedIdle(e) ==
    Queued(e) => /\ pending_io[e] \subseteq Releasing(e)
                 /\ reg_network[e] \subseteq closed[e]
                 /\ drop_list[e] = <<>>
                 /\ net[e].pc \in {"loop", "timer", "release"}

\* Otherwise there is at most the newest, ...
OnlyNewest(e) ==
    /\ ready[e] \subseteq pending_io[e]
    /\ ~Queued(e) => pending_io[e] \subseteq Releasing(e) \cup {Newest(e)}
    /\ reg_network[e] \ closed[e] \subseteq {Newest(e)}

\* ... which is dropped once.
DroppedOnce(e) ==
    /\ drop_list[e] # <<>> => /\ drop_list[e] = <<Newest(e)>>
                              /\ Newest(e) \in closed[e]
                              /\ net[e].pc \in {"loop", "timer", "input"}
    /\ net[e].pc = "input" => net[e].cid = Newest(e)
    /\ net[e].pc = "post_drop" => /\ net[e].cid = Newest(e)
                                  /\ Newest(e) \in closed[e]
                                  /\ drop_list[e] = <<>>

\* Before its first connection a connector has nothing at all.
Unconnected(e) ==
    (v8.pc = "init" /\ link_cid[e] = -1) =>
        /\ ~Queued(e) /\ pending_io[e] = {} /\ reg_network[e] = {}
        /\ drop_list[e] = <<>> /\ net[e].pc \in {"loop", "timer"}

LinkInv(e) == QueuedIdle(e) /\ OnlyNewest(e) /\ DroppedOnce(e) /\ Unconnected(e)

\* Inductive, and it implies NoCircularWait (InvImplies).
IInv == linkTypeOK /\ QueueInv /\ \A e \in Connectors : LinkInv(e)

-----------------------------------------------------------------------------
(* A process that ends ends its connections, and their number stays. *)
LEMMA AllEnd ==
    ASSUME NEW s \in Seq(BOOLEAN)
    PROVE  /\ [c \in DOMAIN s |-> TRUE] \in Seq(BOOLEAN)
           /\ Len([c \in DOMAIN s |-> TRUE]) = Len(s)
<1> DEFINE t == [c \in 1..Len(s) |-> TRUE]
<1>1. Len(s) \in Nat /\ DOMAIN s = 1..Len(s)
  OBVIOUS
<1>2. t \in Seq(BOOLEAN) /\ Len(t) = Len(s)
  BY <1>1
<1> QED
  BY <1>1, <1>2

LEMMA BooleansAreSeq ==
    ASSUME NEW n \in Nat, NEW t \in [1..n -> BOOLEAN]
    PROVE  t \in Seq(BOOLEAN) /\ Len(t) = n
OBVIOUS

LEMMA OneEnds ==
    ASSUME NEW s \in Seq(BOOLEAN), NEW c
    PROVE  /\ [s EXCEPT ![c] = TRUE] \in Seq(BOOLEAN)
           /\ Len([s EXCEPT ![c] = TRUE]) = Len(s)
<1> DEFINE t == [i \in 1..Len(s) |-> IF i = c THEN TRUE ELSE s[i]]
<1>1. Len(s) \in Nat /\ DOMAIN s = 1..Len(s) /\ \A i \in 1..Len(s) : s[i] \in BOOLEAN
  OBVIOUS
<1>a. \A i \in 1..Len(s) : (IF i = c THEN TRUE ELSE s[i]) \in BOOLEAN
  BY <1>1, Zenon
<1>b. t \in [1..Len(s) -> BOOLEAN]
  BY <1>a
<1>2. t \in Seq(BOOLEAN) /\ Len(t) = Len(s)
  BY <1>1, <1>b, BooleansAreSeq
<1>3. [s EXCEPT ![c] = TRUE] = t
  BY <1>1
<1> QED
  BY <1>2, <1>3

(* The queue of endpoints. *)
LEMMA QueueGrows ==
    ASSUME NEW s \in Seq(Connectors), NEW e \in Connectors
    PROVE  /\ Append(s, e) \in Seq(Connectors) /\ Len(Append(s, e)) = Len(s) + 1
           /\ \A i \in 1..Len(s) : Append(s, e)[i] = s[i]
           /\ Append(s, e)[Len(s) + 1] = e
OBVIOUS

LEMMA QueueShrinks ==
    ASSUME NEW s \in Seq(Connectors), s # <<>>
    PROVE  /\ Tail(s) \in Seq(Connectors) /\ Len(Tail(s)) = Len(s) - 1 /\ Len(s) \in Nat \ {0}
           /\ \A i \in 1..Len(Tail(s)) : Tail(s)[i] = s[i + 1]
           /\ Head(s) = s[1] /\ Head(s) \in Connectors
OBVIOUS

(* While the V8 thread adds an endpoint to its reactor, that endpoint is    *)
(* queued, and its network thread has no message to hand over.              *)
LEMMA InvImplies == IInv => NoCircularWait
<1> SUFFICES ASSUME IInv, NEW e \in Connectors, v8.pc = "add_io", Head(drop_eid_list) = e
             PROVE  net[e].pc # "post_msg"
  BY DEF NoCircularWait
<1>1. drop_eid_list # <<>> /\ drop_eid_list \in Seq(Connectors)
  BY DEF IInv, QueueInv, linkTypeOK
<1>2. 1 \in 1..Len(drop_eid_list) /\ drop_eid_list[1] = e
  BY <1>1, QueueShrinks
<1>3. Queued(e)
  BY <1>2 DEF Queued
<1> QED
  BY <1>3 DEF IInv, LinkInv, QueuedIdle

(***************************************************************************)
(* A connector of which nothing changes but what the server did.           *)
(***************************************************************************)
Same(e) ==
    /\ Newest(e)' = Newest(e) /\ closed'[e] = closed[e] /\ pending_io'[e] = pending_io[e]
    /\ reg_network'[e] = reg_network[e] /\ drop_list'[e] = drop_list[e] /\ net'[e] = net[e]
    /\ Queued(e)' = Queued(e)

(* A step of one connector leaves the others' invariant. *)
LEMMA SameKeeps ==
    ASSUME NEW e, LinkInv(e), Same(e), ready'[e] \subseteq pending_io[e],
           (v8.pc = "init" /\ link_cid[e] = -1)' => (v8.pc = "init" /\ link_cid[e] = -1)
    PROVE  LinkInv(e)'
BY DEF LinkInv, Same, QueuedIdle, OnlyNewest, DroppedOnce, Unconnected, Releasing

(* The network threads leave the queue alone, but for PostDrop. *)
LEMMA QueueKept ==
    ASSUME QueueInv, drop_eid_list \in Seq(Connectors), UNCHANGED <<drop_eid_list, v8>>,
           \A f \in Connectors : Newest(f)' = Newest(f)
    PROVE  QueueInv' /\ \A f \in Connectors : Queued(f)' = Queued(f)
BY DEF QueueInv, Queued

-----------------------------------------------------------------------------
(* The network threads, step by step. *)
LEMMA SetsOfCids ==
    ASSUME NEW f \in [Connectors -> SUBSET Nat], NEW e \in Connectors, NEW c \in Nat
    PROVE  Add(f, e, c) \in [Connectors -> SUBSET Nat] /\ Without(f, e, c) \in [Connectors -> SUBSET Nat]
BY DEF Add, Without

LEMMA CloseTypes ==
    ASSUME linkTypeOK, NEW e \in Connectors, NEW c \in Nat, HandleClose(e, c)
    PROVE  closed' \in [Connectors -> SUBSET Nat] /\ drop_list' \in [Connectors -> Seq(Nat)]
<1>1. Add(closed, e, c) \in [Connectors -> SUBSET Nat]
  BY SetsOfCids DEF linkTypeOK
<1>2. Append(drop_list[e], c) \in Seq(Nat)
  BY DEF linkTypeOK
<1> QED
  BY <1>1, <1>2 DEF linkTypeOK, HandleClose

LEMMA PollKeeps ==
    ASSUME IInv, NEW e \in Connectors, Poll(e)
    PROVE  IInv'
<1>1. linkTypeOK'
  <2>1. ready' \in [Connectors -> SUBSET Nat]
    BY DEF IInv, linkTypeOK, Poll, Without
  <2>2. net' \in [Connectors -> [pc : NetPc, cid : Nat]]
    BY DEF IInv, linkTypeOK, Poll, At, NetPc
  <2> QED
    BY <2>1, <2>2 DEF IInv, linkTypeOK, Poll, queue_vars
<1>2. \A f \in Connectors : Newest(f)' = Newest(f)
  BY DEF Poll, Newest
<1>3. QueueInv' /\ \A f \in Connectors : Queued(f)' = Queued(f)
  <2>1. QueueInv /\ drop_eid_list \in Seq(Connectors) /\ UNCHANGED <<drop_eid_list, v8>>
    BY DEF IInv, linkTypeOK, Poll, queue_vars
  <2> QED
    BY <1>2, <2>1, QueueKept
<1>4. ASSUME NEW f \in Connectors, f # e PROVE LinkInv(f)'
  <2>1. Same(f)
    BY <1>2, <1>3, <1>4 DEF IInv, linkTypeOK, Poll, Same
  <2> QED
    BY <1>4, <2>1, SameKeeps DEF IInv, linkTypeOK, Poll, LinkInv, OnlyNewest, Without
<1>5. LinkInv(e)'
  <2>1. QueuedIdle(e)'
    BY <1>3 DEF IInv, linkTypeOK, Poll, LinkInv, QueuedIdle, OnlyNewest, Without, At, Releasing
  <2>2. OnlyNewest(e)'
    BY <1>2, <1>3 DEF IInv, linkTypeOK, Poll, LinkInv, QueuedIdle, OnlyNewest, Without, At, Releasing
  <2>3. DroppedOnce(e)'
    BY <1>2, <1>3 DEF IInv, linkTypeOK, Poll, LinkInv, QueuedIdle, OnlyNewest, DroppedOnce, Without,
                      At, Releasing
  <2>4. Unconnected(e)'
    BY <1>3 DEF IInv, linkTypeOK, Poll, LinkInv, OnlyNewest, Unconnected, Without, At, Releasing
  <2> QED
    BY <2>1, <2>2, <2>3, <2>4 DEF LinkInv
<1> QED
  BY <1>1, <1>3, <1>4, <1>5 DEF IInv

LEMMA TakeDropKeeps ==
    ASSUME IInv, NEW e \in Connectors, TakeDrop(e)
    PROVE  IInv'
<1>1. linkTypeOK'
  <2> DEFINE c == Head(drop_list[e])
  <2>1. c \in Nat /\ Tail(drop_list[e]) \in Seq(Nat)
    BY DEF IInv, linkTypeOK, TakeDrop
  <2>2. /\ Add(closed, e, c) \in [Connectors -> SUBSET Nat]
        /\ Without(pending_io, e, c) \in [Connectors -> SUBSET Nat]
        /\ Without(ready, e, c) \in [Connectors -> SUBSET Nat]
        /\ Without(reg_network, e, c) \in [Connectors -> SUBSET Nat]
    BY <2>1, SetsOfCids DEF IInv, linkTypeOK
  <2>3. net' \in [Connectors -> [pc : NetPc, cid : Nat]]
    BY <2>1 DEF IInv, linkTypeOK, TakeDrop, At, NetPc
  <2>4. drop_list' \in [Connectors -> Seq(Nat)]
    BY <2>1 DEF IInv, linkTypeOK, TakeDrop
  <2>5. /\ closed' \in [Connectors -> SUBSET Nat] /\ pending_io' \in [Connectors -> SUBSET Nat]
        /\ ready' \in [Connectors -> SUBSET Nat] /\ reg_network' \in [Connectors -> SUBSET Nat]
    BY <2>2 DEF IInv, linkTypeOK, TakeDrop
  <2> QED
    BY <2>3, <2>4, <2>5 DEF IInv, linkTypeOK, TakeDrop, queue_vars
<1>2. \A f \in Connectors : Newest(f)' = Newest(f)
  BY DEF TakeDrop, Newest
<1>3. QueueInv' /\ \A f \in Connectors : Queued(f)' = Queued(f)
  <2>1. QueueInv /\ drop_eid_list \in Seq(Connectors) /\ UNCHANGED <<drop_eid_list, v8>>
    BY DEF IInv, linkTypeOK, TakeDrop, queue_vars
  <2> QED
    BY <1>2, <2>1, QueueKept
<1>4. ASSUME NEW f \in Connectors, f # e PROVE LinkInv(f)'
  <2>1. Same(f)
    BY <1>2, <1>3, <1>4 DEF IInv, linkTypeOK, TakeDrop, HandleClose, Add, Without, Same
  <2>2. ready'[f] \subseteq pending_io[f] /\ UNCHANGED <<v8, link_cid>>
    BY <1>4 DEF IInv, linkTypeOK, TakeDrop, LinkInv, OnlyNewest, Without
  <2> QED
    BY <1>4, <2>1, <2>2, SameKeeps DEF IInv
<1>5. LinkInv(e)'
  <2>0. LinkInv(e) /\ (Newest(e)' = Newest(e)) /\ (Queued(e)' = Queued(e)) /\ Newest(e) \in Nat
    BY <1>2, <1>3 DEF IInv, linkTypeOK, Newest
  <2>1. QueuedIdle(e)'
    BY <2>0 DEF IInv, linkTypeOK, TakeDrop, LinkInv, QueuedIdle, OnlyNewest, DroppedOnce,
                Unconnected, Releasing, Add, Without, At, HandleClose, svc_vars
  <2>2. OnlyNewest(e)'
    BY <2>0 DEF IInv, linkTypeOK, TakeDrop, LinkInv, QueuedIdle, OnlyNewest, DroppedOnce,
                Unconnected, Releasing, Add, Without, At, HandleClose, svc_vars
  <2>3. DroppedOnce(e)'
    BY <2>0, SMTT(30) DEF IInv, linkTypeOK, TakeDrop, LinkInv, QueuedIdle, OnlyNewest, DroppedOnce,
                Unconnected, Releasing, Add, Without, At, HandleClose, svc_vars
  <2>4. Unconnected(e)'
    BY <2>0 DEF IInv, linkTypeOK, TakeDrop, LinkInv, QueuedIdle, OnlyNewest, DroppedOnce,
                Unconnected, Releasing, Add, Without, At, HandleClose, svc_vars
  <2> QED
    BY <2>1, <2>2, <2>3, <2>4 DEF LinkInv
<1> QED
  BY <1>1, <1>3, <1>4, <1>5 DEF IInv

LEMMA VisitSvcsKeeps ==
    ASSUME IInv, NEW e \in Connectors, VisitSvcs(e)
    PROVE  IInv'
<1>1. linkTypeOK'
  <2>1. closed' \in [Connectors -> SUBSET Nat] /\ drop_list' \in [Connectors -> Seq(Nat)]
    BY CloseTypes DEF IInv, linkTypeOK, VisitSvcs
  <2>2. net' \in [Connectors -> [pc : NetPc, cid : Nat]]
    BY DEF IInv, linkTypeOK, VisitSvcs, At, NetPc
  <2> QED
    BY <2>1, <2>2 DEF IInv, linkTypeOK, VisitSvcs, queue_vars
<1>2. \A f \in Connectors : Newest(f)' = Newest(f)
  BY DEF VisitSvcs, Newest
<1>3. QueueInv' /\ \A f \in Connectors : Queued(f)' = Queued(f)
  <2>1. QueueInv /\ drop_eid_list \in Seq(Connectors) /\ UNCHANGED <<drop_eid_list, v8>>
    BY DEF IInv, linkTypeOK, VisitSvcs, queue_vars
  <2> QED
    BY <1>2, <2>1, QueueKept
<1>4. ASSUME NEW f \in Connectors, f # e PROVE LinkInv(f)'
  <2>1. Same(f)
    BY <1>2, <1>3, <1>4 DEF IInv, linkTypeOK, VisitSvcs, HandleClose, Add, Without, Same
  <2>2. ready'[f] \subseteq pending_io[f] /\ UNCHANGED <<v8, link_cid>>
    BY <1>4 DEF IInv, linkTypeOK, VisitSvcs, LinkInv, OnlyNewest, Without
  <2> QED
    BY <1>4, <2>1, <2>2, SameKeeps DEF IInv
<1>5. LinkInv(e)'
  <2>0. LinkInv(e) /\ (Newest(e)' = Newest(e)) /\ (Queued(e)' = Queued(e)) /\ Newest(e) \in Nat
    BY <1>2, <1>3 DEF IInv, linkTypeOK, Newest
  <2>1. QueuedIdle(e)'
    BY <2>0 DEF IInv, linkTypeOK, VisitSvcs, LinkInv, QueuedIdle, OnlyNewest, DroppedOnce,
                Unconnected, Releasing, Add, Without, At, HandleClose, svc_vars
  <2>2. OnlyNewest(e)'
    BY <2>0 DEF IInv, linkTypeOK, VisitSvcs, LinkInv, QueuedIdle, OnlyNewest, DroppedOnce,
                Unconnected, Releasing, Add, Without, At, HandleClose, svc_vars
  <2>3. DroppedOnce(e)'
    BY <2>0 DEF IInv, linkTypeOK, VisitSvcs, LinkInv, QueuedIdle, OnlyNewest, DroppedOnce,
                Unconnected, Releasing, Add, Without, At, HandleClose, svc_vars
  <2>4. Unconnected(e)'
    BY <2>0 DEF IInv, linkTypeOK, VisitSvcs, LinkInv, QueuedIdle, OnlyNewest, DroppedOnce,
                Unconnected, Releasing, Add, Without, At, HandleClose, svc_vars
  <2> QED
    BY <2>1, <2>2, <2>3, <2>4 DEF LinkInv
<1> QED
  BY <1>1, <1>3, <1>4, <1>5 DEF IInv

LEMMA HandleInputKeeps ==
    ASSUME IInv, NEW e \in Connectors, HandleInput(e)
    PROVE  IInv'
<1>1. linkTypeOK'
  <2>1. net[e].cid \in Nat
    BY DEF IInv, linkTypeOK
  <2>2. closed' \in [Connectors -> SUBSET Nat] /\ drop_list' \in [Connectors -> Seq(Nat)]
    BY <2>1, CloseTypes DEF IInv, linkTypeOK, HandleInput
  <2>3. Without(unread, e, net[e].cid) \in [Connectors -> SUBSET Nat]
    BY <2>1, SetsOfCids DEF IInv, linkTypeOK
  <2>4. unread' \in [Connectors -> SUBSET Nat]
    BY <2>3 DEF IInv, linkTypeOK, HandleInput
  <2>5. net' \in [Connectors -> [pc : NetPc, cid : Nat]]
    <3>1. At("loop", 0) \in [pc : NetPc, cid : Nat]
      BY DEF At, NetPc
    <3>2. [net[e] EXCEPT !.pc = "post_msg"] \in [pc : NetPc, cid : Nat]
      BY DEF IInv, linkTypeOK, NetPc
    <3> QED
      BY <3>1, <3>2 DEF IInv, linkTypeOK, HandleInput
  <2> QED
    BY <2>2, <2>4, <2>5 DEF IInv, linkTypeOK, HandleInput, queue_vars
<1>2. \A f \in Connectors : Newest(f)' = Newest(f)
  BY DEF HandleInput, Newest
<1>3. QueueInv' /\ \A f \in Connectors : Queued(f)' = Queued(f)
  <2>1. QueueInv /\ drop_eid_list \in Seq(Connectors) /\ UNCHANGED <<drop_eid_list, v8>>
    BY DEF IInv, linkTypeOK, HandleInput, queue_vars
  <2> QED
    BY <1>2, <2>1, QueueKept
<1>4. ASSUME NEW f \in Connectors, f # e PROVE LinkInv(f)'
  <2>1. Same(f)
    BY <1>2, <1>3, <1>4 DEF IInv, linkTypeOK, HandleInput, HandleClose, Add, Without, Same
  <2>2. ready'[f] \subseteq pending_io[f] /\ UNCHANGED <<v8, link_cid>>
    BY <1>4 DEF IInv, linkTypeOK, HandleInput, LinkInv, OnlyNewest, Without
  <2> QED
    BY <1>4, <2>1, <2>2, SameKeeps DEF IInv
<1>5. LinkInv(e)'
  <2>0. LinkInv(e) /\ (Newest(e)' = Newest(e)) /\ (Queued(e)' = Queued(e)) /\ Newest(e) \in Nat
    BY <1>2, <1>3 DEF IInv, linkTypeOK, Newest
  <2>1. QueuedIdle(e)'
    BY <2>0 DEF IInv, linkTypeOK, HandleInput, LinkInv, QueuedIdle, OnlyNewest, DroppedOnce,
                Unconnected, Releasing, Add, Without, At, HandleClose, svc_vars
  <2>2. OnlyNewest(e)'
    BY <2>0 DEF IInv, linkTypeOK, HandleInput, LinkInv, QueuedIdle, OnlyNewest, DroppedOnce,
                Unconnected, Releasing, Add, Without, At, HandleClose, svc_vars
  <2>3. DroppedOnce(e)'
    BY <2>0 DEF IInv, linkTypeOK, HandleInput, LinkInv, QueuedIdle, OnlyNewest, DroppedOnce,
                Unconnected, Releasing, Add, Without, At, HandleClose, svc_vars
  <2>4. Unconnected(e)'
    BY <2>0 DEF IInv, linkTypeOK, HandleInput, LinkInv, QueuedIdle, OnlyNewest, DroppedOnce,
                Unconnected, Releasing, Add, Without, At, HandleClose, svc_vars
  <2> QED
    BY <2>1, <2>2, <2>3, <2>4 DEF LinkInv
<1> QED
  BY <1>1, <1>3, <1>4, <1>5 DEF IInv

LEMMA PushSvcKeeps ==
    ASSUME IInv, NEW e \in Connectors, PushSvc(e)
    PROVE  IInv'
<1>1. linkTypeOK'
  <2> DEFINE c == net[e].cid
  <2>1. c \in Nat
    BY DEF IInv, linkTypeOK
  <2>2. /\ Without(svc_list, e, c) \in [Connectors -> SUBSET Nat]
        /\ Without(pending_io, e, c) \in [Connectors -> SUBSET Nat]
        /\ Without(ready, e, c) \in [Connectors -> SUBSET Nat]
    BY <2>1, SetsOfCids DEF IInv, linkTypeOK
  <2>3. ended[e] \in Seq(BOOLEAN)
    BY DEF IInv, linkTypeOK
  <2>4. [ended[e] EXCEPT ![c] = TRUE] \in Seq(BOOLEAN)
    BY <2>3, OneEnds
  <2>5. ended' \in [Connectors -> Seq(BOOLEAN)]
    BY <2>4 DEF IInv, linkTypeOK, PushSvc
  <2>6. net' \in [Connectors -> [pc : NetPc, cid : Nat]]
    BY DEF IInv, linkTypeOK, PushSvc, At, NetPc
  <2> QED
    BY <2>2, <2>5, <2>6 DEF IInv, linkTypeOK, PushSvc, queue_vars
<1>2. \A f \in Connectors : Newest(f)' = Newest(f)
  <2>1. ended[e] \in Seq(BOOLEAN)
    BY DEF IInv, linkTypeOK
  <2>2. Len([ended[e] EXCEPT ![net[e].cid] = TRUE]) = Len(ended[e])
    BY <2>1, OneEnds
  <2> QED
    BY <2>2 DEF IInv, linkTypeOK, PushSvc, Newest
<1>3. QueueInv' /\ \A f \in Connectors : Queued(f)' = Queued(f)
  <2>1. QueueInv /\ drop_eid_list \in Seq(Connectors) /\ UNCHANGED <<drop_eid_list, v8>>
    BY DEF IInv, linkTypeOK, PushSvc, queue_vars
  <2> QED
    BY <1>2, <2>1, QueueKept
<1>4. ASSUME NEW f \in Connectors, f # e PROVE LinkInv(f)'
  <2>1. Same(f)
    BY <1>2, <1>3, <1>4 DEF IInv, linkTypeOK, PushSvc, Without, Same
  <2>2. ready'[f] \subseteq pending_io[f] /\ UNCHANGED <<v8, link_cid>>
    BY <1>4 DEF IInv, linkTypeOK, PushSvc, LinkInv, OnlyNewest, Without
  <2> QED
    BY <1>4, <2>1, <2>2, SameKeeps DEF IInv
<1>5. LinkInv(e)'
  <2>0. LinkInv(e) /\ (Newest(e)' = Newest(e)) /\ Newest(e) \in Nat
    BY <1>2 DEF IInv, linkTypeOK, Newest
  <2>1. QueuedIdle(e)'
    BY <1>3, <2>0 DEF IInv, linkTypeOK, PushSvc, LinkInv, QueuedIdle, OnlyNewest, DroppedOnce,
                      Unconnected, Releasing, Add, Without, At, svc_vars
  <2>2. OnlyNewest(e)'
    BY <1>3, <2>0 DEF IInv, linkTypeOK, PushSvc, LinkInv, QueuedIdle, OnlyNewest, DroppedOnce,
                      Unconnected, Releasing, Add, Without, At, svc_vars
  <2>3. DroppedOnce(e)'
    BY <1>3, <2>0 DEF IInv, linkTypeOK, PushSvc, LinkInv, QueuedIdle, OnlyNewest, DroppedOnce,
                      Unconnected, Releasing, Add, Without, At, svc_vars
  <2>4. Unconnected(e)'
    BY <1>3, <2>0 DEF IInv, linkTypeOK, PushSvc, LinkInv, QueuedIdle, OnlyNewest, DroppedOnce,
                      Unconnected, Releasing, Add, Without, At, svc_vars
  <2> QED
    BY <2>1, <2>2, <2>3, <2>4 DEF LinkInv
<1> QED
  BY <1>1, <1>3, <1>4, <1>5 DEF IInv

(* A push wakes the V8 thread, which has taken nothing out of its queues then. *)
LEMMA SignalKept ==
    ASSUME v8 \in [pc : V8Pc, cid : Nat], NotifyFree, Signal
    PROVE  /\ v8' \in [pc : V8Pc, cid : Nat]
           /\ v8.pc \notin {"drop_eid", "add_io", "registered"}
           /\ v8'.pc \notin {"drop_eid", "add_io", "registered"}
           /\ v8'.pc = "init" <=> v8.pc = "init"
BY DEF NotifyFree, Signal, At, V8Pc

LEMMA PostMsgKeeps ==
    ASSUME IInv, NEW e \in Connectors, PostMsg(e)
    PROVE  IInv'
<1>0. /\ v8' \in [pc : V8Pc, cid : Nat]
      /\ v8.pc \notin {"drop_eid", "add_io", "registered"}
      /\ v8'.pc \notin {"drop_eid", "add_io", "registered"}
      /\ v8'.pc = "init" <=> v8.pc = "init"
  BY SignalKept DEF IInv, linkTypeOK, PostMsg
<1>1. linkTypeOK'
  <2>1. net' \in [Connectors -> [pc : NetPc, cid : Nat]]
    BY DEF IInv, linkTypeOK, PostMsg, At, NetPc
  <2> QED
    BY <1>0, <2>1 DEF IInv, linkTypeOK, PostMsg, svc_vars
<1>2. \A f \in Connectors : Newest(f)' = Newest(f)
  BY DEF PostMsg, Newest, svc_vars
<1>3. QueueInv' /\ \A f \in Connectors : Queued(f)' = Queued(f)
  BY <1>0, <1>2 DEF IInv, PostMsg, QueueInv, Queued
<1>4. ASSUME NEW f \in Connectors, f # e PROVE LinkInv(f)'
  <2>1. Same(f)
    BY <1>2, <1>3, <1>4 DEF IInv, linkTypeOK, PostMsg, svc_vars, Same
  <2>2. ready'[f] \subseteq pending_io[f] /\ link_cid' = link_cid /\ (v8'.pc = "init" <=> v8.pc = "init")
    BY <1>0, <1>4 DEF IInv, linkTypeOK, PostMsg, LinkInv, OnlyNewest, svc_vars
  <2> QED
    BY <1>4, <2>1, <2>2, SameKeeps DEF IInv
<1>5. LinkInv(e)'
  <2>0. LinkInv(e) /\ (Newest(e)' = Newest(e)) /\ Newest(e) \in Nat
    BY <1>2 DEF IInv, linkTypeOK, Newest
  <2>1. QueuedIdle(e)'
    BY <1>0, <1>3, <2>0 DEF IInv, linkTypeOK, PostMsg, LinkInv, QueuedIdle, OnlyNewest, DroppedOnce,
                            Unconnected, Releasing, Add, Without, At, svc_vars
  <2>2. OnlyNewest(e)'
    BY <1>0, <1>3, <2>0 DEF IInv, linkTypeOK, PostMsg, LinkInv, QueuedIdle, OnlyNewest, DroppedOnce,
                            Unconnected, Releasing, Add, Without, At, svc_vars
  <2>3. DroppedOnce(e)'
    BY <1>0, <1>3, <2>0 DEF IInv, linkTypeOK, PostMsg, LinkInv, QueuedIdle, OnlyNewest, DroppedOnce,
                            Unconnected, Releasing, Add, Without, At, svc_vars
  <2>4. Unconnected(e)'
    BY <1>0, <1>3, <2>0 DEF IInv, linkTypeOK, PostMsg, LinkInv, QueuedIdle, OnlyNewest, DroppedOnce,
                            Unconnected, Releasing, Add, Without, At, svc_vars
  <2> QED
    BY <2>1, <2>2, <2>3, <2>4 DEF LinkInv
<1> QED
  BY <1>1, <1>3, <1>4, <1>5 DEF IInv

LEMMA PostDropKeeps ==
    ASSUME IInv, NEW e \in Connectors, PostDrop(e)
    PROVE  IInv'
<1>0. /\ v8' \in [pc : V8Pc, cid : Nat]
      /\ v8.pc \notin {"drop_eid", "add_io", "registered"}
      /\ v8'.pc \notin {"drop_eid", "add_io", "registered"}
      /\ v8'.pc = "init" <=> v8.pc = "init"
  BY SignalKept DEF IInv, linkTypeOK, PostDrop
<1>1. linkTypeOK'
  <2>1. net' \in [Connectors -> [pc : NetPc, cid : Nat]]
    BY DEF IInv, linkTypeOK, PostDrop, At, NetPc
  <2>2. drop_eid_list' \in Seq(Connectors)
    BY QueueGrows DEF IInv, linkTypeOK, PostDrop
  <2> QED
    BY <1>0, <2>1, <2>2 DEF IInv, linkTypeOK, PostDrop, svc_vars
<1>2. \A f \in Connectors : Newest(f)' = Newest(f)
  BY DEF PostDrop, Newest, svc_vars
<1>3. /\ QueueInv'
      /\ \A f \in Connectors \ {e} : Queued(f)' = Queued(f)
      /\ Queued(e)' /\ ~Queued(e)
  <2>1. ~Queued(e)
    BY DEF IInv, LinkInv, QueuedIdle, PostDrop
  <2>2. \A i \in 1..Len(drop_eid_list) : drop_eid_list[i] # e
    BY <1>0, <2>1 DEF Queued
  <2>3. drop_eid_list \in Seq(Connectors) /\ drop_eid_list' = Append(drop_eid_list, e)
    BY DEF IInv, linkTypeOK, PostDrop
  <2>4. /\ Len(drop_eid_list) \in Nat /\ Len(drop_eid_list') = Len(drop_eid_list) + 1
        /\ \A i \in 1..Len(drop_eid_list) : drop_eid_list'[i] = drop_eid_list[i]
        /\ drop_eid_list'[Len(drop_eid_list) + 1] = e
    BY <2>3, QueueGrows
  <2>5. \A f \in Connectors \ {e} : Queued(f)' = Queued(f)
    BY <1>0, <2>4 DEF Queued
  <2>6. Queued(e)'
    BY <1>0, <2>4 DEF Queued
  <2>7. QueueInv'
    BY <1>0, <2>2, <2>4 DEF IInv, QueueInv
  <2> QED
    BY <2>1, <2>5, <2>6, <2>7
<1>4. ASSUME NEW f \in Connectors, f # e PROVE LinkInv(f)'
  <2>1. Same(f)
    BY <1>2, <1>3, <1>4 DEF IInv, linkTypeOK, PostDrop, svc_vars, Same
  <2>2. ready'[f] \subseteq pending_io[f] /\ link_cid' = link_cid /\ (v8'.pc = "init" <=> v8.pc = "init")
    BY <1>0, <1>4 DEF IInv, linkTypeOK, PostDrop, LinkInv, OnlyNewest, svc_vars
  <2> QED
    BY <1>4, <2>1, <2>2, SameKeeps DEF IInv
<1>5. LinkInv(e)'
  <2>0. LinkInv(e) /\ (Newest(e)' = Newest(e)) /\ Newest(e) \in Nat
    BY <1>2 DEF IInv, linkTypeOK, Newest
  <2>1. QueuedIdle(e)'
    BY <1>0, <1>3, <2>0 DEF IInv, linkTypeOK, PostDrop, LinkInv, QueuedIdle, OnlyNewest,
                            DroppedOnce, Unconnected, Releasing, Add, Without, At, svc_vars
  <2>2. OnlyNewest(e)'
    BY <1>0, <1>3, <2>0 DEF IInv, linkTypeOK, PostDrop, LinkInv, QueuedIdle, OnlyNewest,
                            DroppedOnce, Unconnected, Releasing, Add, Without, At, svc_vars
  <2>3. DroppedOnce(e)'
    BY <1>0, <1>3, <2>0 DEF IInv, linkTypeOK, PostDrop, LinkInv, QueuedIdle, OnlyNewest,
                            DroppedOnce, Unconnected, Releasing, Add, Without, At, svc_vars
  <2>4. Unconnected(e)'
    BY <1>0, <1>3, <2>0 DEF IInv, linkTypeOK, PostDrop, LinkInv, QueuedIdle, OnlyNewest,
                            DroppedOnce, Unconnected, Releasing, Add, Without, At, svc_vars
  <2> QED
    BY <2>1, <2>2, <2>3, <2>4 DEF LinkInv
<1> QED
  BY <1>1, <1>3, <1>4, <1>5 DEF IInv

-----------------------------------------------------------------------------
(* The V8 thread, in the steps that only move it on. *)
LEMMA MovesOnKeeps ==
    ASSUME IInv, UNCHANGED <<listening, svc_vars, drop_list, net, drop_eid_list, sent>>,
           link_cid' \in [Connectors -> Int], buffer_list' \in Nat, v8' \in [pc : V8Pc, cid : Nat],
           v8.pc # "registered", v8'.pc \notin {"init", "add_io", "registered"},
           v8'.pc = "drop_eid" => drop_eid_list # <<>>
    PROVE  IInv'
<1>1. linkTypeOK'
  BY DEF IInv, linkTypeOK, svc_vars
<1>2. QueueInv' /\ \A f \in Connectors : Queued(f)' = Queued(f)
  BY DEF IInv, QueueInv, Queued
<1>3. ASSUME NEW f \in Connectors PROVE LinkInv(f)'
  <2>1. Same(f) /\ ready'[f] \subseteq pending_io[f]
    BY <1>2, <1>3 DEF IInv, LinkInv, OnlyNewest, Same, Newest, svc_vars
  <2> QED
    BY <1>3, <2>1, SameKeeps DEF IInv
<1> QED
  BY <1>1, <1>2, <1>3 DEF IInv

LEMMA ThreadCreatedKeeps == ASSUME IInv, ThreadCreated PROVE IInv'
<1>1. v8' \in [pc : V8Pc, cid : Nat] /\ v8'.pc = "out" /\ v8.pc = "init"
  BY DEF ThreadCreated, At, V8Pc
<1> QED
  BY <1>1, MovesOnKeeps DEF IInv, linkTypeOK, ThreadCreated, queue_vars

LEMMA RoundStartsKeeps == ASSUME IInv, RoundStarts PROVE IInv'
<1>1. /\ v8' \in [pc : V8Pc, cid : Nat] /\ v8.pc = "out"
      /\ v8'.pc \in {"drop_eid", "buffer", "waits"} /\ (v8'.pc = "drop_eid" => drop_eid_list # <<>>)
  BY DEF RoundStarts, At, V8Pc
<1> QED
  BY <1>1, MovesOnKeeps DEF IInv, linkTypeOK, RoundStarts, queue_vars

LEMMA ConnectFailsKeeps == ASSUME IInv, ConnectFails PROVE IInv'
<1>1. v8' \in [pc : V8Pc, cid : Nat] /\ v8'.pc = "buffer" /\ v8.pc = "drop_eid"
  BY DEF ConnectFails, At, V8Pc
<1>2. link_cid' \in [Connectors -> Int]
  <2>1. PICK e : e = Head(drop_eid_list)
    OBVIOUS
  <2>2. e \in Connectors /\ link_cid' = [link_cid EXCEPT ![e] = -1]
    BY <2>1, QueueShrinks DEF IInv, linkTypeOK, QueueInv, ConnectFails
  <2> QED
    BY <2>2 DEF IInv, linkTypeOK
<1> QED
  BY <1>1, <1>2, MovesOnKeeps DEF IInv, linkTypeOK, ConnectFails, queue_vars

LEMMA ProcessBufferKeeps == ASSUME IInv, ProcessBuffer PROVE IInv'
<1>1. v8' \in [pc : V8Pc, cid : Nat] /\ v8'.pc = "out" /\ v8.pc = "buffer"
  BY DEF ProcessBuffer, At, V8Pc
<1>2. buffer_list' \in Nat
  BY DEF IInv, linkTypeOK, ProcessBuffer
<1> QED
  BY <1>1, <1>2, MovesOnKeeps DEF IInv, linkTypeOK, ProcessBuffer

(* A connection more. *)
LEMMA OneMore ==
    ASSUME linkTypeOK, NEW e \in Connectors, Connected(e)
    PROVE  /\ ended' \in [Connectors -> Seq(BOOLEAN)] /\ svc_list' \in [Connectors -> SUBSET Nat]
           /\ Newest(e) \in Nat /\ NextCid(e) = Newest(e) + 1 /\ NextCid(e) \in Nat \ {0}
           /\ Newest(e)' = NextCid(e)
           /\ \A f \in Connectors \ {e} : Newest(f)' = Newest(f)
<1>1. ended[e] \in Seq(BOOLEAN)
  BY DEF linkTypeOK
<1>2. Append(ended[e], FALSE) \in Seq(BOOLEAN) /\ Len(Append(ended[e], FALSE)) = Len(ended[e]) + 1
  BY <1>1
<1>3. NextCid(e) \in Nat \ {0} /\ Len(ended[e]) \in Nat
  BY <1>1 DEF NextCid
<1>4. svc_list' \in [Connectors -> SUBSET Nat]
  BY <1>3, SetsOfCids DEF linkTypeOK, Connected
<1> QED
  BY <1>2, <1>3, <1>4 DEF linkTypeOK, Connected, Newest, NextCid

LEMMA InitConnectsKeeps ==
    ASSUME IInv, NEW e \in Connectors, InitConnects(e)
    PROVE  IInv'
<1>0. linkTypeOK /\ Connected(e)
  BY DEF IInv, InitConnects
<1>1. /\ ended' \in [Connectors -> Seq(BOOLEAN)] /\ svc_list' \in [Connectors -> SUBSET Nat]
      /\ NextCid(e) = Newest(e) + 1 /\ NextCid(e) \in Nat \ {0} /\ Newest(e)' = NextCid(e)
      /\ \A f \in Connectors \ {e} : Newest(f)' = Newest(f)
  BY <1>0, OneMore
<1>2. linkTypeOK'
  <2>1. /\ Add(pending_io, e, NextCid(e)) \in [Connectors -> SUBSET Nat]
        /\ Add(reg_network, e, NextCid(e)) \in [Connectors -> SUBSET Nat]
    BY <1>1, SetsOfCids DEF IInv, linkTypeOK
  <2>2. link_cid' \in [Connectors -> Int]
    BY <1>1 DEF IInv, linkTypeOK, InitConnects
  <2> QED
    BY <1>1, <2>1, <2>2 DEF IInv, linkTypeOK, InitConnects, queue_vars
<1>3. QueueInv' /\ \A f \in Connectors : Queued(f)' = Queued(f)
  BY DEF IInv, QueueInv, Queued, InitConnects, queue_vars
<1>4. ASSUME NEW f \in Connectors, f # e PROVE LinkInv(f)'
  <2>1. Same(f)
    BY <1>1, <1>3, <1>4 DEF IInv, linkTypeOK, InitConnects, Add, Same
  <2>2. /\ ready'[f] \subseteq pending_io[f]
        /\ (v8.pc = "init" /\ link_cid[f] = -1)' => (v8.pc = "init" /\ link_cid[f] = -1)
    BY <1>4 DEF IInv, linkTypeOK, InitConnects, LinkInv, OnlyNewest
  <2> QED
    BY <1>4, <2>1, <2>2, SameKeeps DEF IInv
<1>5. LinkInv(e)'
  <2>1. /\ LinkInv(e) /\ ~Queued(e) /\ pending_io[e] = {} /\ reg_network[e] = {}
        /\ drop_list[e] = <<>> /\ net[e].pc \in {"loop", "timer"}
    BY DEF IInv, LinkInv, Unconnected, InitConnects
  <2>2. /\ pending_io'[e] = {Newest(e)'} /\ reg_network'[e] = {Newest(e)'} /\ ready'[e] = {}
        /\ drop_list' = drop_list /\ net' = net /\ link_cid'[e] # -1 /\ ~Queued(e)'
    BY <1>1, <1>3, <2>1 DEF IInv, linkTypeOK, InitConnects, Add, LinkInv, OnlyNewest
  <2> QED
    BY <2>1, <2>2 DEF LinkInv, QueuedIdle, OnlyNewest, DroppedOnce, Unconnected
<1> QED
  BY <1>2, <1>3, <1>4, <1>5 DEF IInv

LEMMA ConnectServerKeeps == ASSUME IInv, ConnectServer PROVE IInv'
<1>p. PICK e : e = Head(drop_eid_list)
  OBVIOUS
<1>0. /\ drop_eid_list \in Seq(Connectors) /\ drop_eid_list # <<>> /\ v8.pc = "drop_eid"
      /\ e \in Connectors /\ e = drop_eid_list[1] /\ Len(drop_eid_list) \in Nat \ {0}
  <2>1. drop_eid_list \in Seq(Connectors) /\ drop_eid_list # <<>> /\ v8.pc = "drop_eid"
    BY <1>p DEF IInv, linkTypeOK, QueueInv, ConnectServer
  <2> QED
    BY <1>p, <2>1, QueueShrinks
<1>1. linkTypeOK /\ Connected(e)
  BY <1>p DEF IInv, ConnectServer
<1>2. /\ ended' \in [Connectors -> Seq(BOOLEAN)] /\ svc_list' \in [Connectors -> SUBSET Nat]
      /\ NextCid(e) \in Nat \ {0} /\ Newest(e)' = NextCid(e)
      /\ \A f \in Connectors \ {e} : Newest(f)' = Newest(f)
  BY <1>p, <1>0, <1>1, OneMore
<1>3. v8' \in [pc : V8Pc, cid : Nat] /\ v8'.pc = "add_io" /\ v8'.cid = NextCid(e)
  BY <1>p, <1>2 DEF ConnectServer, At, V8Pc
<1>4. linkTypeOK'
  BY <1>p, <1>2, <1>3 DEF IInv, linkTypeOK, ConnectServer, queue_vars
<1>5. QueueInv' /\ \A f \in Connectors : Queued(f)' = Queued(f)
  BY <1>p, <1>0, <1>2, <1>3 DEF IInv, QueueInv, Queued, ConnectServer, queue_vars
<1>6. ASSUME NEW f \in Connectors, f # e PROVE LinkInv(f)'
  <2>1. Same(f)
    BY <1>p, <1>2, <1>5, <1>6 DEF ConnectServer, Same
  <2>2. ready'[f] \subseteq pending_io[f] /\ v8'.pc # "init"
    BY <1>p, <1>3, <1>6 DEF IInv, ConnectServer, LinkInv, OnlyNewest
  <2> QED
    BY <1>p, <1>6, <2>1, <2>2, SameKeeps DEF IInv
<1>7. LinkInv(e)'
  <2>1. LinkInv(e) /\ Queued(e) /\ Queued(e)'
    BY <1>p, <1>0, <1>5 DEF IInv, Queued
  <2>2. /\ UNCHANGED <<pending_io, reg_network, ready, closed, drop_list, net>> /\ v8'.pc # "init"
    BY <1>p, <1>3 DEF ConnectServer
  <2> QED
    BY <1>p, <2>1, <2>2 DEF LinkInv, QueuedIdle, OnlyNewest, DroppedOnce, Unconnected, Releasing
<1> QED
  BY <1>p, <1>4, <1>5, <1>6, <1>7 DEF IInv

(* The endpoint at the head of the queue, and no other. *)
LEMMA HeadQueued ==
    ASSUME IInv, v8.pc \in {"add_io", "registered"}, NEW e, e = Head(drop_eid_list)
    PROVE  /\ drop_eid_list \in Seq(Connectors) /\ drop_eid_list # <<>> /\ e \in Connectors
           /\ e = drop_eid_list[1] /\ Len(drop_eid_list) \in Nat \ {0}
           /\ \A i \in 1..Len(drop_eid_list) : drop_eid_list[i] = e => i = 1
           /\ v8.cid = Newest(e) /\ v8.cid \in Nat
<1>1. drop_eid_list \in Seq(Connectors) /\ drop_eid_list # <<>>
  BY DEF IInv, linkTypeOK, QueueInv
<1>2. e \in Connectors /\ e = drop_eid_list[1] /\ Len(drop_eid_list) \in Nat \ {0}
  BY <1>1, QueueShrinks
<1>3. v8.cid = Newest(e) /\ v8.cid \in Nat
  BY <1>1, <1>2 DEF IInv, linkTypeOK, QueueInv, Newest
<1>4. \A i \in 1..Len(drop_eid_list) : drop_eid_list[i] = e => i = 1
  <2>1. 1 \in 1..Len(drop_eid_list)
    BY <1>2
  <2> QED
    BY <1>2, <2>1 DEF IInv, QueueInv
<1> QED
  BY <1>1, <1>2, <1>3, <1>4

LEMMA AddIoKeeps == ASSUME IInv, AddIo PROVE IInv'
<1>p. PICK e : e = Head(drop_eid_list)
  OBVIOUS
<1>0. /\ v8.pc = "add_io" /\ drop_eid_list \in Seq(Connectors) /\ drop_eid_list # <<>>
      /\ e \in Connectors /\ e = drop_eid_list[1] /\ Len(drop_eid_list) \in Nat \ {0}
      /\ \A i \in 1..Len(drop_eid_list) : drop_eid_list[i] = e => i = 1
      /\ v8.cid = Newest(e) /\ v8.cid \in Nat
  BY <1>p, HeadQueued DEF AddIo
<1>1. v8' \in [pc : V8Pc, cid : Nat] /\ v8'.pc = "registered" /\ v8'.cid = v8.cid
  BY <1>p DEF IInv, linkTypeOK, AddIo, V8Pc
<1>2. \A f \in Connectors : Newest(f)' = Newest(f)
  BY <1>p DEF AddIo, Newest
<1>3. linkTypeOK'
  <2>1. /\ Add(pending_io, e, v8.cid) \in [Connectors -> SUBSET Nat]
        /\ Add(ready, e, v8.cid) \in [Connectors -> SUBSET Nat]
    BY <1>p, <1>0, SetsOfCids DEF IInv, linkTypeOK
  <2> QED
    BY <1>p, <1>1, <2>1 DEF IInv, linkTypeOK, AddIo, queue_vars
<1>4. /\ QueueInv' /\ Queued(e) /\ ~Queued(e)'
      /\ \A f \in Connectors \ {e} : Queued(f)' = Queued(f)
  BY <1>p, <1>0, <1>1, <1>2 DEF IInv, QueueInv, Queued, AddIo, queue_vars
<1>5. ASSUME NEW f \in Connectors, f # e PROVE LinkInv(f)'
  <2>1. Same(f)
    BY <1>p, <1>2, <1>4, <1>5 DEF IInv, linkTypeOK, AddIo, Add, Same
  <2>2. ready'[f] \subseteq pending_io[f] /\ v8'.pc # "init"
    BY <1>p, <1>1, <1>5 DEF IInv, linkTypeOK, AddIo, Add, LinkInv, OnlyNewest
  <2> QED
    BY <1>p, <1>5, <2>1, <2>2, SameKeeps DEF IInv
<1>6. LinkInv(e)'
  <2>1. LinkInv(e) /\ Newest(e)' = Newest(e) /\ v8'.pc # "init"
    BY <1>p, <1>0, <1>1, <1>2 DEF IInv
  <2>2. /\ pending_io'[e] = pending_io[e] \cup {Newest(e)} /\ ready'[e] \subseteq ready[e] \cup {Newest(e)}
        /\ UNCHANGED <<reg_network, closed, drop_list, net>>
    BY <1>p, <1>0 DEF IInv, linkTypeOK, AddIo, Add
  <2> QED
    BY <1>p, <1>4, <2>1, <2>2 DEF LinkInv, QueuedIdle, OnlyNewest, DroppedOnce, Unconnected, Releasing
<1> QED
  BY <1>p, <1>3, <1>4, <1>5, <1>6 DEF IInv

LEMMA IntroduceKeeps == ASSUME IInv, Introduce PROVE IInv'
<1>p. PICK e : e = Head(drop_eid_list)
  OBVIOUS
<1>0. /\ v8.pc = "registered" /\ drop_eid_list \in Seq(Connectors) /\ drop_eid_list # <<>>
      /\ e \in Connectors /\ e = drop_eid_list[1] /\ Len(drop_eid_list) \in Nat \ {0}
      /\ \A i \in 1..Len(drop_eid_list) : drop_eid_list[i] = e => i = 1
      /\ v8.cid = Newest(e) /\ v8.cid \in Nat
  BY <1>p, HeadQueued DEF Introduce
<1>1. v8' \in [pc : V8Pc, cid : Nat] /\ v8'.pc = "buffer"
  BY <1>p DEF Introduce, At, V8Pc
<1>2. \A f \in Connectors : Newest(f)' = Newest(f)
  BY <1>p DEF Introduce, Newest
<1>3. /\ drop_eid_list' \in Seq(Connectors) /\ Len(drop_eid_list') = Len(drop_eid_list) - 1
      /\ \A i \in 1..Len(drop_eid_list') : drop_eid_list'[i] = drop_eid_list[i + 1]
  BY <1>p, <1>0, QueueShrinks DEF Introduce
<1>4. linkTypeOK'
  <2>1. Add(reg_network, e, v8.cid) \in [Connectors -> SUBSET Nat]
    BY <1>p, <1>0, SetsOfCids DEF IInv, linkTypeOK
  <2>2. link_cid' \in [Connectors -> Int]
    BY <1>p, <1>0 DEF IInv, linkTypeOK, Introduce
  <2> QED
    BY <1>p, <1>1, <1>3, <2>1, <2>2 DEF IInv, linkTypeOK, Introduce
<1>5. /\ QueueInv' /\ ~Queued(e) /\ ~Queued(e)'
      /\ \A f \in Connectors \ {e} : Queued(f)' = Queued(f)
  <2>1. \A i \in 1..Len(drop_eid_list') : i + 1 \in 1..Len(drop_eid_list) /\ i + 1 # 1
    BY <1>p, <1>0, <1>3
  <2>2. QueueInv'
    BY <1>p, <1>0, <1>1, <1>3, <2>1 DEF IInv, QueueInv
  <2>3. ~Queued(e) /\ ~Queued(e)'
    BY <1>p, <1>0, <1>3, <2>1 DEF Queued
  <2>4. ASSUME NEW f \in Connectors, f # e PROVE Queued(f)' = Queued(f)
    <3>1. ASSUME NEW i \in 1..Len(drop_eid_list), drop_eid_list[i] = f
          PROVE  i - 1 \in 1..Len(drop_eid_list') /\ drop_eid_list'[i - 1] = f
      BY <1>p, <1>0, <1>3, <2>4, <3>1
    <3> QED
      BY <1>p, <1>0, <1>1, <1>3, <2>1, <2>4, <3>1 DEF Queued
  <2> QED
    BY <1>p, <2>2, <2>3, <2>4
<1>6. ASSUME NEW f \in Connectors, f # e PROVE LinkInv(f)'
  <2>1. Same(f)
    BY <1>p, <1>2, <1>5, <1>6 DEF IInv, linkTypeOK, Introduce, Add, Same
  <2>2. ready'[f] \subseteq pending_io[f] /\ v8'.pc # "init"
    BY <1>p, <1>1, <1>6 DEF IInv, linkTypeOK, Introduce, LinkInv, OnlyNewest
  <2> QED
    BY <1>p, <1>6, <2>1, <2>2, SameKeeps DEF IInv
<1>7. LinkInv(e)'
  <2>1. LinkInv(e) /\ Newest(e)' = Newest(e) /\ v8'.pc # "init"
    BY <1>p, <1>0, <1>1, <1>2 DEF IInv
  <2>2. /\ reg_network'[e] = reg_network[e] \cup {Newest(e)}
        /\ UNCHANGED <<pending_io, ready, closed, drop_list, net>>
    BY <1>p, <1>0 DEF IInv, linkTypeOK, Introduce, Add
  <2> QED
    BY <1>p, <1>5, <2>1, <2>2 DEF LinkInv, QueuedIdle, OnlyNewest, DroppedOnce, Unconnected, Releasing
<1> QED
  BY <1>p, <1>4, <1>5, <1>6, <1>7 DEF IInv

-----------------------------------------------------------------------------
(* The servers *)
LEMMA ServerKeeps ==
    ASSUME IInv, UNCHANGED <<closed, pending_io, reg_network, link_cid, drop_list, net, v8, drop_eid_list>>,
           linkTypeOK', \A f \in Connectors : Newest(f)' = Newest(f),
           \A f \in Connectors : ready'[f] \subseteq pending_io[f]
    PROVE  IInv'
<1>1. QueueInv' /\ \A f \in Connectors : Queued(f)' = Queued(f)
  BY QueueKept DEF IInv, linkTypeOK
<1>2. ASSUME NEW f \in Connectors PROVE LinkInv(f)'
  <2>1. Same(f)
    BY <1>1, <1>2 DEF Same
  <2> QED
    BY <1>2, <2>1, SameKeeps DEF IInv
<1> QED
  BY <1>1, <1>2 DEF IInv

LEMMA ServerListensKeeps ==
    ASSUME IInv, NEW e \in Connectors, ServerListens(e)
    PROVE  IInv'
<1>1. linkTypeOK'
  BY DEF IInv, linkTypeOK, ServerListens, svc_vars, queue_vars
<1>2. /\ UNCHANGED <<closed, pending_io, reg_network, link_cid, drop_list, net, v8, drop_eid_list>>
      /\ \A f \in Connectors : Newest(f)' = Newest(f) /\ ready'[f] \subseteq pending_io[f]
  BY DEF IInv, LinkInv, OnlyNewest, ServerListens, svc_vars, queue_vars, Newest
<1> QED
  BY <1>1, <1>2, ServerKeeps

LEMMA ServerEndsKeeps ==
    ASSUME IInv, NEW e \in Connectors, ServerEnds(e)
    PROVE  IInv'
<1> DEFINE all == [c \in DOMAIN ended[e] |-> TRUE]
<1>1. ended[e] \in Seq(BOOLEAN) /\ ended' = [ended EXCEPT ![e] = all]
  BY DEF IInv, linkTypeOK, ServerEnds
<1>2. all \in Seq(BOOLEAN) /\ Len(all) = Len(ended[e])
  BY <1>1, AllEnd
<1> HIDE DEF all
<1>3. ready' \in [Connectors -> SUBSET Nat] /\ \A f \in Connectors : ready'[f] \subseteq pending_io[f]
  BY DEF IInv, linkTypeOK, LinkInv, OnlyNewest, ServerEnds
<1>4. ended' \in [Connectors -> Seq(BOOLEAN)] /\ \A f \in Connectors : Newest(f)' = Newest(f)
  BY <1>1, <1>2 DEF IInv, linkTypeOK, Newest
<1>5. linkTypeOK'
  BY <1>3, <1>4 DEF IInv, linkTypeOK, ServerEnds, queue_vars
<1> QED
  BY <1>3, <1>4, <1>5, ServerKeeps DEF ServerEnds, queue_vars

LEMMA ServerSendsKeeps ==
    ASSUME IInv, NEW e \in Connectors, NEW c \in svc_list[e], ServerSends(e, c)
    PROVE  IInv'
<1>1. c \in Nat
  BY DEF IInv, linkTypeOK
<1>2. Add(ready, e, c) \in [Connectors -> SUBSET Nat] /\ Add(unread, e, c) \in [Connectors -> SUBSET Nat]
  BY <1>1, SetsOfCids DEF IInv, linkTypeOK
<1>3. ready' \in [Connectors -> SUBSET Nat] /\ unread' \in [Connectors -> SUBSET Nat]
  BY <1>2 DEF IInv, linkTypeOK, ServerSends
<1>4. sent' \in Nat
  BY DEF IInv, linkTypeOK, ServerSends
<1>5. linkTypeOK'
  BY <1>3, <1>4 DEF IInv, linkTypeOK, ServerSends, queue_vars
<1>6. \A f \in Connectors : Newest(f)' = Newest(f) /\ ready'[f] \subseteq pending_io[f]
  BY DEF IInv, linkTypeOK, LinkInv, OnlyNewest, ServerSends, Newest, Add
<1> QED
  BY <1>5, <1>6, ServerKeeps DEF ServerSends, queue_vars

-----------------------------------------------------------------------------
(* The start, steps that change no link, and every step. *)
LEMMA InitInv == deployInit => IInv
<1> SUFFICES ASSUME deployInit PROVE IInv
  OBVIOUS
<1>1. linkTypeOK
  BY DEF deployInit, linkInit, linkTypeOK, At, NetPc, V8Pc
<1>2. QueueInv /\ \A e \in Connectors : ~Queued(e)
  BY DEF deployInit, linkInit, QueueInv, Queued, At
<1>3. ASSUME NEW e \in Connectors PROVE LinkInv(e)
  BY <1>2, <1>3 DEF deployInit, linkInit, LinkInv, QueuedIdle, OnlyNewest, DroppedOnce, Unconnected,
                    Releasing, At
<1> QED
  BY <1>1, <1>2, <1>3 DEF IInv

LEMMA LinksUnchanged == ASSUME IInv, UNCHANGED link_vars PROVE IInv'
<1>1. linkTypeOK'
  BY DEF IInv, linkTypeOK, link_vars, svc_vars, queue_vars
<1>2. \A f \in Connectors : Newest(f)' = Newest(f) /\ ready'[f] \subseteq pending_io[f]
  BY DEF IInv, LinkInv, OnlyNewest, Newest, link_vars, svc_vars
<1> QED
  BY <1>1, <1>2, ServerKeeps DEF link_vars, svc_vars, queue_vars

LEMMA NextInv == IInv /\ [deployNext]_deploy_vars => IInv'
<1> SUFFICES ASSUME IInv, [deployNext]_deploy_vars PROVE IInv'
  OBVIOUS
<1>1. CASE UNCHANGED link_vars
  BY <1>1, LinksUnchanged
<1>2. ASSUME NEW p \in DOMAIN process, Ends(p) PROVE IInv'
  BY <1>2, LinksUnchanged, ServerEndsKeeps DEF Ends
<1>3. ASSUME NEW e \in Connectors, Started(e) PROVE IInv'
  BY <1>3, ServerListensKeeps DEF Started
<1>4. ASSUME NEW e \in Connectors, NEW c \in svc_list[e], ServerSends(e, c) PROVE IInv'
  BY <1>4, ServerSendsKeeps
<1>5. ASSUME NEW e \in Connectors, NetworkRuns(e) PROVE IInv'
  BY <1>5, TakeDropKeeps, PostDropKeeps, PushSvcKeeps, VisitSvcsKeeps, PollKeeps, HandleInputKeeps,
     PostMsgKeeps
     DEF NetworkRuns
<1>6. ASSUME NodeStarts PROVE IInv'
  BY <1>6, InitConnectsKeeps, ThreadCreatedKeeps DEF NodeStarts
<1>7. ASSUME V8Runs PROVE IInv'
  BY <1>7, RoundStartsKeeps, ConnectFailsKeeps, ConnectServerKeeps, AddIoKeeps, IntroduceKeeps,
     ProcessBufferKeeps
     DEF V8Runs
<1> QED
  BY <1>1, <1>2, <1>3, <1>4, <1>5, <1>6, <1>7 DEF deployNext, deploy_vars

(***************************************************************************)
(* No network thread that holds its reactor's lock waits for the V8        *)
(* thread's while that waits for the reactor's (watcher_loop, push_buffer, *)
(* add_io).                                                                *)
(***************************************************************************)
THEOREM NeverCircularWait == deploySpec => []NoCircularWait
<1>1. deploySpec => []IInv
  BY InitInv, NextInv, PTL DEF deploySpec
<1> QED
  BY <1>1, InvImplies, PTL

-----------------------------------------------------------------------------
(***************************************************************************)
(* Byte buffers.  First functions on 1..n, as sequences.                   *)
(***************************************************************************)
LEMMA FunctionIsSequence ==
    ASSUME NEW S, NEW n \in Nat, NEW f \in [1 .. n -> S]
    PROVE  f \in Seq(S) /\ Len(f) = n
<1> DEFINE m == Len(f)
<1>1. f \in Seq(S)
  BY SeqDef
<1>2. m \in Nat /\ DOMAIN f = 1 .. m /\ DOMAIN f = 1 .. n
  BY <1>1, LenProperties
<1>3. \A k \in Nat : k \in 1 .. m <=> k \in 1 .. n
  BY <1>2
<1> HIDE DEF m
<1>4. (n # 0 => n <= m) /\ (m # 0 => m <= n)
  <2>1. (n \in 1 .. n <=> n # 0) /\ (m \in 1 .. m <=> m # 0)
    BY <1>2
  <2> QED
    BY <1>2, <1>3, <2>1
<1>5. m = n
  BY <1>2, <1>4
<1> QED
  BY <1>1, <1>5 DEF m

(***************************************************************************)
(* A buffer over cells S, and one whose indices are in order.  The offset  *)
(* of every buffer that is used is the initial one.                        *)
(***************************************************************************)
BufferOf(S) == [use_times : Nat, init_offset : Nat, read_index : Nat,
                write_index : Nat, bytes : Seq(S)]

InOrder(b, S) ==
    /\ b \in BufferOf(S)
    /\ b.init_offset = InitOffset
    /\ InitOffset <= b.read_index
    /\ b.read_index <= b.write_index
    /\ b.write_index <= Len(b.bytes)

LEMMA BetweenBytes ==
    ASSUME NEW S, NEW d \in Seq(S), NEW from \in Nat, NEW to \in Nat,
           from <= to, to <= Len(d),
           NEW c, c = [i \in 1 .. (to - from) |-> d[from + i]]
    PROVE  /\ c \in Seq(S)
           /\ Len(c) = to - from
           /\ \A i \in 1 .. (to - from) : c[i] = d[from + i]
<1>1. Len(d) \in Nat /\ d \in [1 .. Len(d) -> S]
  BY LenProperties
<1>2. \A i \in 1 .. (to - from) : from + i \in 1 .. Len(d)
  BY <1>1
<1>3. to - from \in Nat /\ c \in [1 .. (to - from) -> S]
  BY <1>1, <1>2
<1>4. c \in Seq(S) /\ Len(c) = to - from
  BY <1>3, FunctionIsSequence
<1> QED
  BY <1>4

LEMMA ContentsBytes ==
    ASSUME NEW S, NEW b, InOrder(b, S)
    PROVE  /\ Contents(b) \in Seq(S)
           /\ Len(Contents(b)) = readable_bytes(b)
           /\ readable_bytes(b) \in Nat
           /\ \A i \in 1 .. readable_bytes(b) : Contents(b)[i] = b.bytes[b.read_index + i]
<1>1. /\ b.read_index \in Nat /\ b.write_index \in Nat /\ b.bytes \in Seq(S)
      /\ b.read_index <= b.write_index /\ b.write_index <= Len(b.bytes)
  BY DEF InOrder, BufferOf
<1>2. b.write_index - b.read_index \in Nat
  BY <1>1
<1> DEFINE c == Between(b, b.read_index, b.write_index)
<1>3. c = [i \in 1 .. (b.write_index - b.read_index) |-> b.bytes[b.read_index + i]]
  BY DEF Between
<1> HIDE DEF c
<1>4. /\ c \in Seq(S) /\ Len(c) = b.write_index - b.read_index
      /\ \A i \in 1 .. (b.write_index - b.read_index) : c[i] = b.bytes[b.read_index + i]
  <2>1. c \in Seq(S)
    BY <1>1, <1>3, BetweenBytes
  <2>2. Len(c) = b.write_index - b.read_index
    BY <1>1, <1>3, BetweenBytes
  <2>3. \A i \in 1 .. (b.write_index - b.read_index) : c[i] = b.bytes[b.read_index + i]
    BY <1>1, <1>3, BetweenBytes
  <2> QED
    BY <2>1, <2>2, <2>3
<1> QED
  BY <1>2, <1>4 DEF c, Contents, readable_bytes

(***************************************************************************)
(* Equal contents: as many bytes, and the same at every place.             *)
(***************************************************************************)
LEMMA SameContents ==
    ASSUME NEW S, NEW b, InOrder(b, S), NEW c, InOrder(c, S),
           readable_bytes(b) = readable_bytes(c),
           \A i \in 1 .. readable_bytes(b) :
               b.bytes[b.read_index + i] = c.bytes[c.read_index + i]
    PROVE  Contents(b) = Contents(c)
<1>1. /\ Contents(b) \in Seq(S) /\ Len(Contents(b)) = readable_bytes(b)
      /\ \A i \in 1 .. readable_bytes(b) : Contents(b)[i] = b.bytes[b.read_index + i]
  BY ContentsBytes
<1>2. /\ Contents(c) \in Seq(S) /\ Len(Contents(c)) = readable_bytes(c)
      /\ \A i \in 1 .. readable_bytes(c) : Contents(c)[i] = c.bytes[c.read_index + i]
  BY ContentsBytes
<1> QED
  BY <1>1, <1>2, SeqEqual

(***************************************************************************)
(* The two ways to make space.                                             *)
(***************************************************************************)
LEMMA ResizeKeeps ==
    ASSUME NEW S, Unset \in S, NEW b, InOrder(b, S),
           NEW size \in Nat, Len(b.bytes) <= size
    PROVE  /\ InOrder(Resize(b, size), S)
           /\ Contents(Resize(b, size)) = Contents(b)
           /\ Resize(b, size).write_index = b.write_index
           /\ Len(Resize(b, size).bytes) = size
           /\ Resize(b, size).use_times = b.use_times
<1> DEFINE f == [i \in 1 .. size |-> IF i \in DOMAIN b.bytes THEN b.bytes[i] ELSE Unset]
           r == Resize(b, size)
<1>1. /\ b \in BufferOf(S) /\ b.bytes \in Seq(S) /\ Len(b.bytes) \in Nat
      /\ DOMAIN b.bytes = 1 .. Len(b.bytes) /\ b.bytes \in [1 .. Len(b.bytes) -> S]
      /\ b.read_index \in Nat /\ b.write_index \in Nat
      /\ b.read_index <= b.write_index /\ b.write_index <= Len(b.bytes)
  BY LenProperties DEF InOrder, BufferOf
<1>2. f \in [1 .. size -> S]
  BY <1>1
<1>3. \A i \in 1 .. Len(b.bytes) : f[i] = b.bytes[i]
  BY <1>1
<1>4. r = [b EXCEPT !.bytes = f]
  BY DEF Resize
<1> HIDE DEF f, r
<1>5. f \in Seq(S) /\ Len(f) = size
  BY <1>2, FunctionIsSequence
<1>6. /\ r \in BufferOf(S) /\ r.bytes = f
      /\ r.read_index = b.read_index /\ r.write_index = b.write_index
      /\ r.init_offset = b.init_offset /\ r.use_times = b.use_times
  BY <1>1, <1>4, <1>5 DEF BufferOf
<1>7. InOrder(r, S)
  BY <1>1, <1>5, <1>6 DEF InOrder
<1>8. Contents(r) = Contents(b)
  <2>1. \A i \in 1 .. readable_bytes(r) : b.read_index + i \in 1 .. Len(b.bytes)
    BY <1>1, <1>6 DEF readable_bytes
  <2>2. readable_bytes(r) = readable_bytes(b)
    BY <1>6 DEF readable_bytes
  <2> QED
    BY <1>3, <1>6, <1>7, <2>1, <2>2, SameContents
<1> QED
  BY <1>5, <1>6, <1>7, <1>8 DEF r

LEMMA MoveDownKeeps ==
    ASSUME NEW S, NEW b, InOrder(b, S)
    PROVE  /\ InOrder(MoveDown(b), S)
           /\ Contents(MoveDown(b)) = Contents(b)
           /\ MoveDown(b).write_index = InitOffset + readable_bytes(b)
           /\ Len(MoveDown(b).bytes) = Len(b.bytes)
           /\ MoveDown(b).use_times = b.use_times
<1> DEFINE n == Len(b.bytes)  k == b.write_index - b.read_index
           f == [i \in DOMAIN b.bytes |->
                    IF i - InitOffset \in 1 .. k
                    THEN b.bytes[i - InitOffset + b.read_index] ELSE b.bytes[i]]
           r == MoveDown(b)
<1>1. /\ b \in BufferOf(S) /\ b.bytes \in Seq(S) /\ n \in Nat
      /\ DOMAIN b.bytes = 1 .. n /\ b.bytes \in [1 .. n -> S]
      /\ b.read_index \in Nat /\ b.write_index \in Nat /\ InitOffset \in Nat
      /\ b.init_offset = InitOffset
      /\ InitOffset <= b.read_index
      /\ b.read_index <= b.write_index /\ b.write_index <= n
  BY LenProperties DEF InOrder, BufferOf
<1>2. k \in Nat /\ k = readable_bytes(b)
  BY <1>1 DEF readable_bytes
<1>3. r = [b EXCEPT !.read_index = InitOffset, !.write_index = InitOffset + k,
                    !.bytes = f]
  BY <1>1, <1>2 DEF MoveDown
<1>4. f \in [1 .. n -> S]
  <2>1. \A i \in 1 .. n : i - InitOffset \in 1 .. k =>
                             i - InitOffset + b.read_index \in 1 .. n
    BY <1>1
  <2> QED
    BY <1>1, <2>1
<1>5. \A i \in 1 .. k : f[InitOffset + i] = b.bytes[b.read_index + i]
  <2> SUFFICES ASSUME NEW i \in 1 .. k PROVE f[InitOffset + i] = b.bytes[b.read_index + i]
    OBVIOUS
  <2>1. InitOffset + i \in 1 .. n /\ (InitOffset + i) - InitOffset = i
        /\ i + b.read_index = b.read_index + i
    BY <1>1
  <2> QED
    BY <1>1, <2>1
<1> HIDE DEF f, r, n, k
<1>6. f \in Seq(S) /\ Len(f) = n
  BY <1>1, <1>4, FunctionIsSequence
<1>7. /\ r \in BufferOf(S) /\ r.bytes = f
      /\ r.read_index = InitOffset /\ r.write_index = InitOffset + k
      /\ r.init_offset = b.init_offset /\ r.use_times = b.use_times
  <2>1. InitOffset + k \in Nat
    BY <1>1, <1>2
  <2> QED
    BY <1>1, <1>3, <1>6, <2>1 DEF BufferOf
<1>8. InitOffset + k <= n
  BY <1>1, <1>2 DEF n, k
<1>9. InOrder(r, S)
  BY <1>1, <1>2, <1>6, <1>7, <1>8 DEF InOrder
<1>10. readable_bytes(r) = k
  BY <1>1, <1>2, <1>7 DEF readable_bytes
<1>11. Contents(r) = Contents(b)
  BY <1>2, <1>5, <1>7, <1>9, <1>10, SameContents
<1> QED
  BY <1>2, <1>6, <1>7, <1>9, <1>11 DEF r, n

(***************************************************************************)
(* ensure_writable_bytes leaves the contents and makes the space.          *)
(***************************************************************************)
LEMMA EnsureMakesSpace ==
    ASSUME NEW S, Unset \in S, NEW b, InOrder(b, S), NEW len \in Nat
    PROVE  /\ InOrder(ensure_writable_bytes(b, len), S)
           /\ Contents(ensure_writable_bytes(b, len)) = Contents(b)
           /\ ensure_writable_bytes(b, len).write_index + len
                <= Len(ensure_writable_bytes(b, len).bytes)
           /\ ensure_writable_bytes(b, len).use_times = b.use_times
<1> DEFINE n == Len(b.bytes)  w == b.write_index  r == b.read_index
<1>1. /\ n \in Nat /\ r \in Nat /\ w \in Nat /\ InitOffset \in Nat
      /\ b.init_offset = InitOffset
      /\ InitOffset <= r /\ r <= w /\ w <= n
  BY LenProperties DEF InOrder, BufferOf
<1>2. Lacks(b, 0, len) <=> n - w < len
  BY <1>1 DEF Lacks
<1>3. Lacks(b, b.read_index - b.init_offset, len) <=> (n - w) + (r - InitOffset) < len
  BY <1>1 DEF Lacks
<1>4. CASE n - w >= len
  <2>1. ensure_writable_bytes(b, len) = b
    BY <1>1, <1>2, <1>4 DEF ensure_writable_bytes
  <2>2. w + len <= n
    BY <1>1, <1>4
  <2> QED
    BY <2>1, <2>2
<1>5. CASE n - w < len /\ (n - w) + (r - InitOffset) < len
  <2>1. ensure_writable_bytes(b, len) = Resize(b, w + len)
    BY <1>1, <1>2, <1>3, <1>5 DEF ensure_writable_bytes, make_space
  <2>2. w + len \in Nat /\ n <= w + len
    BY <1>1, <1>5
  <2> QED
    BY <1>1, <2>1, <2>2, ResizeKeeps
<1>6. CASE n - w < len /\ (n - w) + (r - InitOffset) >= len
  <2>1. ensure_writable_bytes(b, len) = MoveDown(b)
    BY <1>1, <1>2, <1>3, <1>6 DEF ensure_writable_bytes, make_space
  <2>2. InitOffset + (w - r) + len <= n
    BY <1>1, <1>6
  <2> QED
    BY <1>1, <2>1, <2>2, MoveDownKeeps DEF readable_bytes
<1> QED
  BY <1>1, <1>4, <1>5, <1>6

(***************************************************************************)
(* A write appends its bytes.                                              *)
(***************************************************************************)
LEMMA CopyAppends ==
    ASSUME NEW S, Unset \in S, NEW b, InOrder(b, S), NEW data \in Seq(S)
    PROVE  /\ InOrder(copy(b, data), S)
           /\ Contents(copy(b, data)) = Contents(b) \o data
           /\ copy(b, data).use_times = b.use_times
<1> DEFINE e == ensure_writable_bytes(b, Len(data))  n == Len(data)  w == e.write_index
           f == [i \in DOMAIN e.bytes |->
                    IF i - w \in 1 .. n THEN data[i - w] ELSE e.bytes[i]]
           r == copy(b, data)
           k == w - e.read_index
<1>1. /\ n \in Nat /\ data \in [1 .. n -> S]
      /\ InOrder(e, S) /\ Contents(e) = Contents(b) /\ w + n <= Len(e.bytes)
      /\ e.use_times = b.use_times
  BY LenProperties, EnsureMakesSpace
<1>2. r = [e EXCEPT !.write_index = w + n, !.bytes = f]
  BY DEF copy
<1> HIDE DEF e, n, r
<1>3. /\ e \in BufferOf(S) /\ e.bytes \in Seq(S) /\ Len(e.bytes) \in Nat
      /\ DOMAIN e.bytes = 1 .. Len(e.bytes) /\ e.bytes \in [1 .. Len(e.bytes) -> S]
      /\ e.read_index \in Nat /\ w \in Nat /\ k \in Nat
      /\ e.read_index <= w /\ w <= Len(e.bytes)
  BY <1>1, LenProperties DEF InOrder, BufferOf
<1> HIDE DEF w
<1>4. f \in [1 .. Len(e.bytes) -> S]
  BY <1>1, <1>3
<1>5. /\ \A i \in 1 .. w : f[i] = e.bytes[i]
      /\ \A i \in 1 .. n : f[w + i] = data[i]
  <2>1. ASSUME NEW i \in 1 .. w PROVE f[i] = e.bytes[i]
    <3>1. i \in 1 .. Len(e.bytes) /\ i - w \notin 1 .. n
      BY <1>1, <1>3
    <3> QED
      BY <1>3, <3>1
  <2>2. ASSUME NEW i \in 1 .. n PROVE f[w + i] = data[i]
    <3>1. w + i \in 1 .. Len(e.bytes) /\ (w + i) - w = i
      BY <1>1, <1>3
    <3> QED
      BY <1>3, <3>1
  <2> QED
    BY <2>1, <2>2
<1> HIDE DEF f, k
<1>6. f \in Seq(S) /\ Len(f) = Len(e.bytes)
  BY <1>3, <1>4, FunctionIsSequence
<1>7. /\ r \in BufferOf(S) /\ r.bytes = f
      /\ r.read_index = e.read_index /\ r.write_index = w + n
      /\ r.init_offset = e.init_offset /\ r.use_times = e.use_times
  <2>1. w + n \in Nat
    BY <1>1, <1>3
  <2> QED
    BY <1>2, <1>3, <1>6, <2>1 DEF BufferOf
<1>8. InOrder(r, S)
  BY <1>1, <1>3, <1>6, <1>7 DEF InOrder
<1>9. readable_bytes(r) = k + n /\ readable_bytes(e) = k
  BY <1>1, <1>3, <1>7 DEF readable_bytes, k, w
<1>10. /\ Contents(r) \in Seq(S) /\ Len(Contents(r)) = k + n
       /\ \A i \in 1 .. (k + n) : Contents(r)[i] = f[e.read_index + i]
  BY <1>7, <1>8, <1>9, ContentsBytes
<1>11. /\ Contents(e) \in Seq(S) /\ Len(Contents(e)) = k
       /\ \A i \in 1 .. k : Contents(e)[i] = e.bytes[e.read_index + i]
  BY <1>1, <1>9, ContentsBytes
<1>12. /\ Contents(e) \o data \in Seq(S) /\ Len(Contents(e) \o data) = k + n
       /\ \A i \in 1 .. (k + n) : (Contents(e) \o data)[i] =
               (IF i <= k THEN Contents(e)[i] ELSE data[i - k])
  <2>1. data \in Seq(S) /\ Len(data) = n
    BY DEF n
  <2> QED
    BY <1>11, <2>1, ConcatProperties
<1>13. ASSUME NEW i \in 1 .. (k + n)
       PROVE  Contents(r)[i] = (Contents(e) \o data)[i]
  <2>1. CASE i <= k
    <3>1. i \in 1 .. k /\ e.read_index + i \in 1 .. w
      BY <1>3, <2>1 DEF k
    <3> QED
      BY <1>5, <1>10, <1>11, <1>12, <2>1, <3>1
  <2>2. CASE ~ (i <= k)
    <3>1. i - k \in 1 .. n /\ e.read_index + i = w + (i - k)
      <4>1. /\ w \in Nat /\ e.read_index \in Nat /\ n \in Nat
            /\ k = w - e.read_index /\ k \in Nat
        BY <1>1, <1>3 DEF k
      <4>2. i \in Int /\ i <= k + n /\ i > k
        BY <2>2, <4>1
      <4>3. i - k \in 1 .. n
        <5>1. i - k \in Int /\ i - k <= n /\ i - k >= 1
          BY <4>1, <4>2
        <5> QED
          BY <4>1, <5>1
      <4>4. w = e.read_index + k
        BY <4>1
      <4>5. e.read_index + i = w + (i - k)
        BY <4>1, <4>2, <4>4
      <4> QED
        BY <4>3, <4>5
    <3> QED
      BY <1>5, <1>10, <1>12, <2>2, <3>1
  <2> QED
    BY <2>1, <2>2
<1>14. Contents(r) = Contents(e) \o data
  BY <1>10, <1>12, <1>13, SeqEqual
<1> QED
  BY <1>1, <1>7, <1>8, <1>14 DEF r, e, n

(***************************************************************************)
(* A read that is allowed takes the first bytes.                           *)
(***************************************************************************)
LEMMA ReadsFront ==
    ASSUME NEW S, NEW b, InOrder(b, S), NEW s \in Nat
    PROVE  /\ verify_read(b, s) <=> s <= readable_bytes(b)
           /\ s <= readable_bytes(b) =>
                /\ InOrder(Advance(b, s), S)
                /\ Foremost(b, s) = SubSeq(Contents(b), 1, s)
                /\ Contents(Advance(b, s)) = SubSeq(Contents(b), s + 1, Len(Contents(b)))
                /\ Advance(b, s).bytes = b.bytes
                /\ Advance(b, s).use_times = b.use_times
                /\ readable_bytes(Advance(b, s)) = readable_bytes(b) - s
<1> DEFINE c == Contents(b)  n == readable_bytes(b)  a == Advance(b, s)
<1>1. /\ b \in BufferOf(S) /\ b.bytes \in Seq(S) /\ Len(b.bytes) \in Nat
      /\ b.read_index \in Nat /\ b.write_index \in Nat /\ InitOffset \in Nat
      /\ b.init_offset = InitOffset /\ InitOffset <= b.read_index
      /\ b.read_index <= b.write_index /\ b.write_index <= Len(b.bytes)
      /\ n = b.write_index - b.read_index
  BY LenProperties DEF InOrder, BufferOf, readable_bytes
<1>2. /\ c \in Seq(S) /\ Len(c) = n /\ n \in Nat
      /\ \A i \in 1 .. n : c[i] = b.bytes[b.read_index + i]
  BY ContentsBytes
<1>3. verify_read(b, s) <=> s <= n
  BY <1>1 DEF verify_read
<1>4. SUFFICES ASSUME s <= n
               PROVE  /\ InOrder(a, S)
                      /\ Foremost(b, s) = SubSeq(c, 1, s)
                      /\ Contents(a) = SubSeq(c, s + 1, Len(c))
                      /\ a.bytes = b.bytes
                      /\ a.use_times = b.use_times
                      /\ readable_bytes(a) = n - s
  BY <1>3
<1> HIDE DEF c, n
<1>5. /\ a \in BufferOf(S) /\ a.bytes = b.bytes
      /\ a.read_index = b.read_index + s /\ a.write_index = b.write_index
      /\ a.init_offset = b.init_offset /\ a.use_times = b.use_times
  <2>1. b.read_index + s \in Nat
    BY <1>1
  <2> QED
    BY <1>1, <2>1 DEF Advance, BufferOf
<1> HIDE DEF a
<1>6. InOrder(a, S)
  BY <1>1, <1>4, <1>5 DEF InOrder
<1>7. Foremost(b, s) = SubSeq(c, 1, s)
  <2> DEFINE f == Foremost(b, s)
  <2>1. b.read_index + s \in Nat /\ b.read_index + s <= Len(b.bytes)
        /\ (b.read_index + s) - b.read_index = s
    BY <1>1, <1>4
  <2>2. f \in Seq(S) /\ Len(f) = s /\ \A i \in 1 .. s : f[i] = b.bytes[b.read_index + i]
    <3> DEFINE e == b.read_index + s
    <3>1. f = [i \in 1 .. (e - b.read_index) |-> b.bytes[b.read_index + i]]
      BY DEF Foremost, Between
    <3>2. e \in Nat /\ b.read_index <= e /\ e <= Len(b.bytes) /\ e - b.read_index = s
      BY <1>1, <2>1
    <3> HIDE DEF e, f
    <3>3. f \in Seq(S)
      <4>1. b.bytes \in Seq(S) /\ b.read_index \in Nat
        BY <1>1
      <4> QED
        BY <3>1, <3>2, <4>1, BetweenBytes
    <3>4. Len(f) = e - b.read_index
      BY <1>1, <3>1, <3>2, BetweenBytes
    <3>5. \A i \in 1 .. (e - b.read_index) : f[i] = b.bytes[b.read_index + i]
      BY <1>1, <3>1, <3>2, BetweenBytes
    <3> QED
      BY <3>2, <3>3, <3>4, <3>5
  <2>3. \A i \in 1 .. s : c[i] \in S /\ i \in 1 .. n
    BY <1>2, <1>4, ElementOfSeq
  <2>4. /\ SubSeq(c, 1, s) \in Seq(S) /\ Len(SubSeq(c, 1, s)) = s
        /\ \A i \in 1 .. s : SubSeq(c, 1, s)[i] = c[i]
    BY <2>3, SubSeqProperties
  <2> HIDE DEF f
  <2>5. f = SubSeq(c, 1, s)
    BY <1>2, <2>2, <2>3, <2>4, SeqEqual
  <2> QED
    BY <2>5 DEF f
<1>8. readable_bytes(a) = n - s
  BY <1>1, <1>5 DEF readable_bytes
<1>9. Contents(a) = SubSeq(c, s + 1, Len(c))
  <2>1. /\ Contents(a) \in Seq(S) /\ Len(Contents(a)) = n - s /\ n - s \in Nat
        /\ \A i \in 1 .. (n - s) : Contents(a)[i] = b.bytes[(b.read_index + s) + i]
    BY <1>5, <1>6, <1>8, ContentsBytes
  <2>2. \A i \in (s + 1) .. n : c[i] \in S /\ i \in 1 .. n
    BY <1>2, ElementOfSeq
  <2>3. /\ SubSeq(c, s + 1, n) \in Seq(S) /\ Len(SubSeq(c, s + 1, n)) = n - s
        /\ \A i \in 1 .. (n - s) : SubSeq(c, s + 1, n)[i] = c[s + i]
    <3>1. /\ SubSeq(c, s + 1, n) \in Seq(S)
          /\ Len(SubSeq(c, s + 1, n)) = (IF s + 1 <= n THEN n - (s + 1) + 1 ELSE 0)
          /\ \A i \in 1 .. (n - (s + 1) + 1) : SubSeq(c, s + 1, n)[i] = c[(s + 1) + i - 1]
      BY <1>2, <2>2, SubSeqProperties
    <3>2. (n - (s + 1)) + 1 = n - s /\ (s + 1 <= n \/ n - s = 0)
      BY <1>2, <1>4
    <3>3. \A i \in 1 .. (n - s) : (s + 1) + i - 1 = s + i
      BY <1>2
    <3> QED
      BY <3>1, <3>2, <3>3
  <2>4. ASSUME NEW i \in 1 .. (n - s)
        PROVE  Contents(a)[i] = SubSeq(c, s + 1, n)[i]
    <3>1. s + i \in 1 .. n /\ (b.read_index + s) + i = b.read_index + (s + i)
      BY <1>1, <1>2, <1>4
    <3> QED
      BY <1>2, <2>1, <2>3, <3>1
  <2>5. Contents(a) = SubSeq(c, s + 1, n)
    BY <2>1, <2>3, <2>4, SeqEqual
  <2> QED
    BY <1>2, <2>5
<1> QED
  BY <1>5, <1>6, <1>7, <1>8, <1>9

LEMMA ForemostBytes ==
    ASSUME NEW S, NEW b, InOrder(b, S), NEW s \in Nat, s <= readable_bytes(b)
    PROVE  Foremost(b, s) = SubSeq(Contents(b), 1, s)
  BY ReadsFront

LEMMA AdvanceInOrder ==
    ASSUME NEW S, NEW b, InOrder(b, S), NEW s \in Nat, s <= readable_bytes(b)
    PROVE  InOrder(Advance(b, s), S) /\ Advance(b, s).use_times = b.use_times
  BY ReadsFront

LEMMA AdvanceBytes ==
    ASSUME NEW S, NEW b, InOrder(b, S), NEW s \in Nat, s <= readable_bytes(b)
    PROVE  Contents(Advance(b, s)) = SubSeq(Contents(b), s + 1, Len(Contents(b)))
  BY ReadsFront

LEMMA AdvanceReadable ==
    ASSUME NEW S, NEW b, InOrder(b, S), NEW s \in Nat, s <= readable_bytes(b)
    PROVE  readable_bytes(Advance(b, s)) = readable_bytes(b) - s
  BY ReadsFront

(***************************************************************************)
(* A buffer whose indices are set to its offset is empty, and so is one    *)
(* that was reset.  recycle_space takes a new array under the old indices, *)
(* which may lie beyond its end, and they are set only then.               *)
(***************************************************************************)
LEMMA EmptiedIsEmpty ==
    ASSUME NEW S, NEW b \in BufferOf(S), b.init_offset = InitOffset,
           InitOffset <= Len(b.bytes)
    PROVE  /\ InOrder(Emptied(b), S) /\ Contents(Emptied(b)) = << >>
           /\ Emptied(b).use_times = b.use_times
           /\ Emptied(b).bytes = b.bytes
<1> DEFINE e == Emptied(b)
<1>1. /\ e \in BufferOf(S) /\ e.init_offset = InitOffset /\ e.use_times = b.use_times
      /\ e.read_index = InitOffset /\ e.write_index = InitOffset /\ e.bytes = b.bytes
      /\ InitOffset \in Nat
  BY ByteBufferAssumption DEF Emptied, set_write_idx, set_read_idx, BufferOf
<1> HIDE DEF e
<1>2. InOrder(e, S)
  BY <1>1 DEF InOrder
<1>3. readable_bytes(e) = 0
  BY <1>1 DEF readable_bytes
<1>4. Contents(e) = << >>
  BY <1>2, <1>3, ContentsBytes, EmptySeq
<1> QED
  BY <1>1, <1>2, <1>4 DEF e

LEMMA UnusedBytes ==
    ASSUME NEW S, Unset \in S, NEW n \in Nat
    PROVE  Unused(n) \in Seq(S) /\ Len(Unused(n)) = n
<1> DEFINE f == [i \in 1 .. n |-> Unset]
<1>1. f \in [1 .. n -> S]
  OBVIOUS
<1> HIDE DEF f
<1>2. f \in Seq(S) /\ Len(f) = n
  BY <1>1, FunctionIsSequence
<1> QED
  BY <1>2 DEF f, Unused

LEMMA ResetEmpties ==
    ASSUME NEW S, Unset \in S, NEW b, InOrder(b, S), b.use_times = 0
    PROVE  InOrder(reset(b), S) /\ Contents(reset(b)) = << >> /\ reset(b).use_times = 0
<1> DEFINE n == InitOffset + InitSize
           old == [b EXCEPT !.use_times = @ + 1]
           new == [old EXCEPT !.bytes = Unused(old.init_offset + InitSize)]
           e == ensure_writable_bytes(new, old.init_offset)
           r == recycle_space(old)
<1>1. /\ b \in BufferOf(S) /\ b.init_offset = InitOffset
      /\ InitOffset \in Nat /\ InitSize \in Nat /\ n \in Nat /\ InitOffset <= n
      /\ InitOffset <= b.read_index /\ b.read_index <= b.write_index
      /\ b.read_index \in Nat /\ b.write_index \in Nat
  BY ByteBufferAssumption DEF InOrder, BufferOf
<1>2. Unused(n) \in Seq(S) /\ Len(Unused(n)) = n
  BY <1>1, UnusedBytes
<1>3. /\ old \in BufferOf(S) /\ old.init_offset = InitOffset /\ old.use_times = 1
      /\ old.read_index = b.read_index /\ old.write_index = b.write_index
  BY <1>1 DEF BufferOf
<1> HIDE DEF old
<1>4. /\ new \in BufferOf(S) /\ new.init_offset = InitOffset /\ new.bytes = Unused(n)
      /\ new.read_index = b.read_index /\ new.write_index = b.write_index
  <2>1. new = [old EXCEPT !.bytes = Unused(n)]
    BY <1>3
  <2> HIDE DEF new
  <2> QED
    BY <1>2, <1>3, <2>1 DEF BufferOf
<1>5. r = [Emptied(e) EXCEPT !.use_times = 0]
  BY <1>3 DEF recycle_space, MaxUseTimes
<1>6. e = ensure_writable_bytes(new, InitOffset)
  BY <1>3
<1> HIDE DEF new, e, r, n
<1>7. e \in BufferOf(S) /\ e.init_offset = InitOffset /\ InitOffset <= Len(e.bytes)
  <2>1. CASE new.write_index <= n
    <3>1. InOrder(new, S)
      BY <1>1, <1>2, <1>4, <2>1 DEF InOrder
    <3>2. InOrder(e, S)
      BY <1>1, <1>6, <3>1, EnsureMakesSpace
    <3>3. Len(e.bytes) \in Nat
      BY <3>2, LenProperties DEF InOrder, BufferOf
    <3> QED
      BY <1>1, <3>2, <3>3 DEF InOrder, BufferOf
  <2>2. CASE ~ (new.write_index <= n)
    <3>1. ~ Lacks(new, 0, InitOffset)
      BY <1>2, <1>4, <2>2 DEF Lacks
    <3>2. e = new
      BY <1>6, <3>1 DEF ensure_writable_bytes
    <3> QED
      BY <1>1, <1>2, <1>4, <3>2
  <2> QED
    BY <2>1, <2>2
<1>8. /\ InOrder(Emptied(e), S) /\ Contents(Emptied(e)) = << >>
      /\ Emptied(e).bytes = e.bytes
  BY <1>7, EmptiedIsEmpty
<1>9. /\ r \in BufferOf(S) /\ r.init_offset = InitOffset /\ r.use_times = 0
      /\ r.read_index = Emptied(e).read_index /\ r.write_index = Emptied(e).write_index
      /\ r.bytes = Emptied(e).bytes
  BY <1>5, <1>8 DEF InOrder, BufferOf
<1>10. InOrder(r, S)
  BY <1>8, <1>9 DEF InOrder
<1> DEFINE f == ensure_writable_bytes(r, b.init_offset)
<1>11. InOrder(f, S) /\ f.use_times = 0
  BY <1>1, <1>9, <1>10, EnsureMakesSpace
<1>12. reset(b) = Emptied(f)
  BY DEF reset, r, old
<1> HIDE DEF f
<1>13. f \in BufferOf(S) /\ f.init_offset = InitOffset /\ InitOffset <= Len(f.bytes)
  <2>1. /\ f \in BufferOf(S) /\ f.init_offset = InitOffset /\ InitOffset <= f.read_index
        /\ f.read_index <= f.write_index /\ f.write_index <= Len(f.bytes)
        /\ f.read_index \in Nat /\ f.write_index \in Nat /\ f.bytes \in Seq(S)
    BY <1>11 DEF InOrder, BufferOf
  <2>2. Len(f.bytes) \in Nat
    BY <2>1, LenProperties
  <2> QED
    BY <1>1, <2>1, <2>2
<1> QED
  BY <1>11, <1>12, <1>13, EmptiedIsEmpty

-----------------------------------------------------------------------------
(***************************************************************************)
(* Buffers are byte queues.                                                *)
(***************************************************************************)
Cell == {Unset} \cup {<<v, i>> : v \in Numbers \cup Nat, i \in Nat}
               \cup UNION {{s[i] : i \in DOMAIN s} : s \in Strings}

BuffersInOrder ==
    /\ buf \in [Buffers -> BufferOf(Cell)]
    /\ \A b \in Buffers : InOrder(buf[b], Cell) /\ buf[b].use_times = 0

LEMMA UnsetIsCell == Unset \in Cell
  BY DEF Cell

LEMMA FieldBytes ==
    ASSUME NEW v \in Numbers \cup Nat, NEW w \in Nat
    PROVE  /\ Field(v, w) \in Seq(Cell) /\ Len(Field(v, w)) = w
           /\ \A i \in 1 .. w : Field(v, w)[i] = <<v, i>>
<1> DEFINE f == [i \in 1 .. w |-> <<v, i>>]
<1>1. \A i \in 1 .. w : <<v, i>> \in Cell
  BY DEF Cell
<1>2. f \in [1 .. w -> Cell]
  BY <1>1
<1>3. \A i \in 1 .. w : f[i] = <<v, i>>
  OBVIOUS
<1> HIDE DEF f
<1>4. f \in Seq(Cell) /\ Len(f) = w
  BY <1>2, FunctionIsSequence
<1> QED
  BY <1>3, <1>4 DEF f, Field

LEMMA StringIsCells ==
    ASSUME NEW s \in Strings
    PROVE  s \in Seq(Cell) /\ Len(s) \in Nat
<1>1. s \in Seq({s[i] : i \in DOMAIN s})
  BY MessageAssumption DEF IsSequence
<1>2. {s[i] : i \in DOMAIN s} \subseteq Cell
  BY DEF Cell
<1>3. s \in Seq(Cell)
  BY <1>1, <1>2, SeqMonotonic
<1> QED
  BY <1>3, LenProperties

(***************************************************************************)
(* A part of what is left of a sequence.                                   *)
(***************************************************************************)
LEMMA SubSeqOfRest ==
    ASSUME NEW S, NEW q \in Seq(S), NEW a \in 0 .. Len(q),
           NEW i \in Nat \ {0}, NEW j \in 0 .. (Len(q) - a), i <= j + 1
    PROVE  SubSeq(SubSeq(q, a + 1, Len(q)), i, j) = SubSeq(q, a + i, a + j)
<1> DEFINE n == Len(q)  r == SubSeq(q, a + 1, n)
<1>1. n \in Nat /\ \A k \in 1 .. n : q[k] \in S
  BY LenProperties, ElementOfSeq
<1>2. /\ r \in Seq(S) /\ Len(r) = n - a
      /\ \A k \in 1 .. (n - a) : r[k] = q[a + k]
  <2>1. \A k \in (a + 1) .. n : q[k] \in S
    BY <1>1
  <2>2. /\ r \in Seq(S) /\ Len(r) = (IF a + 1 <= n THEN n - (a + 1) + 1 ELSE 0)
        /\ \A k \in 1 .. (n - (a + 1) + 1) : r[k] = q[(a + 1) + k - 1]
    <3> HIDE DEF n
    <3> QED
      BY <1>1, <2>1, SubSeqProperties
  <2>3. n - (a + 1) + 1 = n - a /\ (a + 1 <= n \/ n - a = 0)
    BY <1>1
  <2>4. \A k \in 1 .. (n - a) : (a + 1) + k - 1 = a + k
    BY <1>1
  <2> HIDE DEF n, r
  <2> QED
    BY <2>2, <2>3, <2>4
<1>3. a \in Nat /\ a <= n /\ j \in Nat /\ j <= n - a
  BY <1>1
<1> HIDE DEF n, r
<1> DEFINE s == SubSeq(r, i, j)  t == SubSeq(q, a + i, a + j)
           m == IF i <= j THEN (j - i) + 1 ELSE 0
<1>4. m \in Nat /\ m = (j - i) + 1
  BY <1>3
<1>5. /\ s \in Seq(S) /\ Len(s) = m
      /\ \A k \in 1 .. m : s[k] = r[(i + k) - 1]
  <2>1. \A k \in i .. j : k \in 1 .. (n - a) /\ k \in 1 .. Len(r) /\ r[k] \in S
    <3>1. \A k \in i .. j : k \in 1 .. (n - a) /\ k \in 1 .. Len(r)
      BY <1>1, <1>2, <1>3
    <3> QED
      BY <1>2, <3>1, ElementOfSeq
  <2>2. i \in Int /\ j \in Int
    BY <1>3
  <2> QED
    BY <1>4, <2>1, <2>2, SubSeqProperties
<1>6. /\ t \in Seq(S) /\ Len(t) = m
      /\ \A k \in 1 .. m : t[k] = q[((a + i) + k) - 1]
  <2>1. \A k \in (a + i) .. (a + j) : k \in 1 .. n
    BY <1>1, <1>3
  <2>2. a + i \in Int /\ a + j \in Int /\ ((a + j) - (a + i)) + 1 = (j - i) + 1
        /\ (a + i <= a + j <=> i <= j)
    BY <1>3
  <2>3. \A k \in (a + i) .. (a + j) : q[k] \in S
    BY <1>1, <2>1
  <2>4. /\ t \in Seq(S)
        /\ Len(t) = (IF a + i <= a + j THEN ((a + j) - (a + i)) + 1 ELSE 0)
        /\ \A k \in 1 .. (((a + j) - (a + i)) + 1) : t[k] = q[((a + i) + k) - 1]
    <3> DEFINE x == a + i  y == a + j
    <3>1. x \in Int /\ y \in Int /\ (\A k \in x .. y : q[k] \in S) /\ t = SubSeq(q, x, y)
      BY <2>2, <2>3
    <3> HIDE DEF x, y, t
    <3>2. /\ t \in Seq(S)
          /\ Len(t) = (IF x <= y THEN (y - x) + 1 ELSE 0)
          /\ \A k \in 1 .. ((y - x) + 1) : t[k] = q[(x + k) - 1]
      BY <3>1, SubSeqProperties
    <3> QED
      BY <3>2 DEF x, y
  <2> HIDE DEF t
  <2> QED
    BY <1>4, <2>2, <2>4
<1> HIDE DEF m, s, t
<1>7. ASSUME NEW k \in 1 .. m PROVE s[k] = t[k]
  <2>1. (i + k) - 1 \in 1 .. (n - a) /\ ((a + i) + k) - 1 = a + ((i + k) - 1)
    BY <1>1, <1>3, <1>4
  <2> QED
    BY <1>2, <1>5, <1>6, <2>1
<1>8. s = t
  BY <1>4, <1>5, <1>6, <1>7, SeqEqual
<1> QED
  BY <1>8 DEF s, t, r, n

(***************************************************************************)
(* One buffer becomes another in order: the others keep theirs, and the    *)
(* queues change only there.                                               *)
(***************************************************************************)
LEMMA BecomesKeeps ==
    ASSUME BuffersInOrder, NEW b \in Buffers, NEW new,
           InOrder(new, Cell), new.use_times = 0, Becomes(b, new)
    PROVE  /\ BuffersInOrder'
           /\ Contained' = [Contained EXCEPT ![b] = Contents(new)]
<1>1. buf' = [buf EXCEPT ![b] = new] /\ buf \in [Buffers -> BufferOf(Cell)]
  BY DEF Becomes, BuffersInOrder
<1>2. new \in BufferOf(Cell)
  BY DEF InOrder
<1>3. \A c \in Buffers : buf'[c] = (IF c = b THEN new ELSE buf[c])
  BY <1>1
<1>4. BuffersInOrder'
  <2>1. buf' \in [Buffers -> BufferOf(Cell)]
    BY <1>1, <1>2
  <2>2. \A c \in Buffers : InOrder(buf'[c], Cell) /\ buf'[c].use_times = 0
    BY <1>3 DEF BuffersInOrder
  <2> QED
    BY <2>1, <2>2 DEF BuffersInOrder
<1>5. Contained' = [c \in Buffers |-> Contents(buf'[c])]
  BY DEF Contained
<1>6. \A c \in Buffers : Contents(buf'[c]) = (IF c = b THEN Contents(new) ELSE Contents(buf[c]))
  BY <1>3
<1>7. Contained' = [Contained EXCEPT ![b] = Contents(new)]
  BY <1>5, <1>6 DEF Contained
<1> QED
  BY <1>4, <1>7

(***************************************************************************)
(* What is known of one buffer of the pool.                                *)
(***************************************************************************)
LEMMA OneBuffer ==
    ASSUME BuffersInOrder, NEW b \in Buffers
    PROVE  /\ InOrder(buf[b], Cell) /\ buf[b].use_times = 0 /\ Unset \in Cell
           /\ Contained[b] = Contents(buf[b])
           /\ Contained[b] \in Seq(Cell)
           /\ Len(Contained[b]) = readable_bytes(buf[b])
           /\ readable_bytes(buf[b]) \in Nat
<1>1. InOrder(buf[b], Cell) /\ buf[b].use_times = 0
  BY DEF BuffersInOrder
<1>2. Contained[b] = Contents(buf[b])
  BY DEF Contained
<1> QED
  BY <1>1, <1>2, UnsetIsCell, ContentsBytes

(***************************************************************************)
(* The steps of the buffers are steps of the queues.                       *)
(***************************************************************************)
LEMMA CopyIsWritten ==
    ASSUME BuffersInOrder, NEW b \in Buffers, NEW data \in Seq(Cell),
           Becomes(b, copy(buf[b], data)), out' = Nothing
    PROVE  BuffersInOrder' /\ Queue!Written(b, data)
<1>1. InOrder(buf[b], Cell) /\ buf[b].use_times = 0 /\ Contained[b] = Contents(buf[b])
  BY OneBuffer
<1> DEFINE c == copy(buf[b], data)
<1>2. InOrder(c, Cell) /\ Contents(c) = Contained[b] \o data /\ c.use_times = 0
  BY <1>1, UnsetIsCell, CopyAppends
<1> HIDE DEF c
<1>3. Becomes(b, c)
  BY DEF c
<1>4. BuffersInOrder' /\ Contained' = [Contained EXCEPT ![b] = Contained[b] \o data]
  BY <1>2, <1>3, BecomesKeeps
<1>5. Contained' = [Contained EXCEPT ![b] = @ \o data] /\ out' = <<>>
  BY <1>4 DEF Nothing
<1> QED
  BY <1>4, <1>5 DEF Queue!Written

LEMMA WriteNumberIsPut ==
    ASSUME BuffersInOrder, NEW b \in Buffers, WriteNumber(b)
    PROVE  BuffersInOrder' /\ Queue!Put(b)
<1>1. PICK v \in Numbers, w \in {1, 2} :
         Becomes(b, write_number(buf[b], v, w)) /\ out' = Nothing
  BY DEF WriteNumber
<1>2. Field(v, w) \in Seq(Cell)
  BY FieldBytes
<1>3. BuffersInOrder' /\ Queue!Written(b, Field(v, w))
  BY <1>1, <1>2, CopyIsWritten DEF write_number
<1> QED
  BY <1>3 DEF Queue!Put

LEMMA WriteStringIsPut ==
    ASSUME BuffersInOrder, NEW b \in Buffers, WriteString(b)
    PROVE  BuffersInOrder' /\ Queue!Put(b)
<1>1. PICK str \in Strings : Becomes(b, write_string(buf[b], str)) /\ out' = Nothing
  BY DEF WriteString
<1> DEFINE n == Field(Len(str), 2)
           c == copy(buf[b], n)
           d == copy(c, str)
<1>2. str \in Seq(Cell) /\ n \in Seq(Cell)
  BY StringIsCells, FieldBytes
<1>3. d = write_string(buf[b], str) /\ n \o str = StringBytes(str)
  BY DEF write_string, write_number, StringBytes
<1>4. InOrder(buf[b], Cell) /\ buf[b].use_times = 0 /\ Contained[b] = Contents(buf[b])
      /\ Contained[b] \in Seq(Cell)
  BY OneBuffer
<1> HIDE DEF n
<1>5. InOrder(c, Cell) /\ Contents(c) = Contained[b] \o n /\ c.use_times = 0
  BY <1>2, <1>4, UnsetIsCell, CopyAppends
<1> HIDE DEF c
<1>6. InOrder(d, Cell) /\ Contents(d) = (Contained[b] \o n) \o str /\ d.use_times = 0
  BY <1>2, <1>5, UnsetIsCell, CopyAppends
<1>7. (Contained[b] \o n) \o str = Contained[b] \o StringBytes(str)
  <2> DEFINE q == Contained[b]
  <2>1. q \in Seq(Cell) /\ n \in Seq(Cell) /\ str \in Seq(Cell)
    BY <1>2, <1>4
  <2> HIDE DEF q
  <2>2. (q \o n) \o str = q \o (n \o str)
    BY <2>1, ConcatAssociative
  <2> QED
    BY <1>3, <2>2 DEF q
<1> HIDE DEF d
<1>8. Becomes(b, d) /\ out' = <<>>
  BY <1>1, <1>3 DEF Nothing
<1>9. BuffersInOrder' /\ Contained' = [Contained EXCEPT ![b] = Contained[b] \o StringBytes(str)]
  BY <1>6, <1>7, <1>8, BecomesKeeps
<1>10. Queue!Written(b, StringBytes(str))
  BY <1>8, <1>9 DEF Queue!Written
<1> QED
  BY <1>9, <1>10 DEF Queue!Put

\* Taking the first n bytes, which a read and a copy out both do.
LEMMA AdvanceIsTake ==
    ASSUME BuffersInOrder, NEW b \in Buffers, NEW n \in Nat, n <= readable_bytes(buf[b]),
           Becomes(b, Advance(buf[b], n)), out' = Foremost(buf[b], n)
    PROVE  BuffersInOrder' /\ Queue!Take(b)
<1> DEFINE q == Contained[b]  a == Advance(buf[b], n)
<1>1. /\ InOrder(buf[b], Cell) /\ buf[b].use_times = 0 /\ q = Contents(buf[b])
      /\ Len(q) = readable_bytes(buf[b]) /\ Len(q) \in Nat
  BY OneBuffer
<1>2. /\ InOrder(a, Cell) /\ a.use_times = 0
      /\ Contents(a) = SubSeq(q, n + 1, Len(q))
      /\ Foremost(buf[b], n) = SubSeq(q, 1, n)
  <2>1. InOrder(a, Cell) /\ a.use_times = 0
    BY <1>1, AdvanceInOrder
  <2>2. Contents(a) = SubSeq(q, n + 1, Len(q))
    BY <1>1, AdvanceBytes
  <2>3. Foremost(buf[b], n) = SubSeq(q, 1, n)
    BY <1>1, ForemostBytes
  <2> QED
    BY <2>1, <2>2, <2>3
<1> HIDE DEF a
<1>3. Becomes(b, a)
  BY DEF a
<1>4. BuffersInOrder' /\ Contained' = [Contained EXCEPT ![b] = SubSeq(q, n + 1, Len(q))]
  BY <1>2, <1>3, BecomesKeeps
<1>5. Queue!Drop(b, n)
  BY <1>4 DEF Queue!Drop
<1>6. n \in 0 .. Len(q) /\ out' = SubSeq(q, 1, n)
  BY <1>1, <1>2
<1> QED
  BY <1>4, <1>5, <1>6 DEF Queue!Take

\* A look at the first n bytes; a read that fails looks at none.
LEMMA LookIsLook ==
    ASSUME BuffersInOrder, NEW b \in Buffers, NEW n \in Nat, n <= readable_bytes(buf[b]),
           buf' = buf, out' = Foremost(buf[b], n)
    PROVE  BuffersInOrder' /\ Queue!Look(b)
<1> DEFINE q == Contained[b]
<1>1. /\ InOrder(buf[b], Cell) /\ q = Contents(buf[b])
      /\ Len(q) = readable_bytes(buf[b]) /\ Len(q) \in Nat
  BY OneBuffer
<1>2. Foremost(buf[b], n) = SubSeq(q, 1, n)
  BY <1>1, ForemostBytes
<1>3. BuffersInOrder' /\ Contained' = Contained
  BY DEF BuffersInOrder, Contained
<1>4. n \in 0 .. Len(q) /\ out' = SubSeq(q, 1, n)
  BY <1>1, <1>2
<1> QED
  BY <1>3, <1>4 DEF Queue!Look

LEMMA NothingIsForemost ==
    ASSUME BuffersInOrder, NEW b \in Buffers
    PROVE  Nothing = Foremost(buf[b], 0)
<1>1. InOrder(buf[b], Cell) /\ Contents(buf[b]) \in Seq(Cell) /\ readable_bytes(buf[b]) \in Nat
  BY OneBuffer
<1>2. Foremost(buf[b], 0) = SubSeq(Contents(buf[b]), 1, 0)
  BY <1>1, ReadsFront
<1> QED
  BY <1>2 DEF Nothing

\* A buffer that becomes itself.
LEMMA BecomesItself ==
    ASSUME BuffersInOrder, NEW b \in Buffers, Becomes(b, buf[b])
    PROVE  buf' = buf
  BY DEF Becomes, BuffersInOrder

LEMMA ReadNumberIsTake ==
    ASSUME BuffersInOrder, NEW b \in Buffers, ReadNumber(b)
    PROVE  BuffersInOrder' /\ (Queue!Take(b) \/ Queue!Look(b))
<1>1. PICK w \in {1, 2} : Gives(b, read_number(buf[b], w))
  BY DEF ReadNumber
<1>2. InOrder(buf[b], Cell) /\ readable_bytes(buf[b]) \in Nat /\ w \in Nat
  BY OneBuffer
<1>3. CASE verify_read(buf[b], w)
  <2>1. Becomes(b, Advance(buf[b], w)) /\ out' = Foremost(buf[b], w)
    BY <1>1, <1>3 DEF Gives, read_number
  <2>2. w <= readable_bytes(buf[b])
    BY <1>2, <1>3, ReadsFront
  <2> QED
    BY <1>2, <2>1, <2>2, AdvanceIsTake
<1>4. CASE ~ verify_read(buf[b], w)
  <2>1. Becomes(b, buf[b]) /\ out' = Nothing
    BY <1>1, <1>4 DEF Gives, read_number
  <2>2. buf' = buf /\ out' = Foremost(buf[b], 0)
    BY <2>1, BecomesItself, NothingIsForemost
  <2>3. 0 \in Nat /\ 0 <= readable_bytes(buf[b])
    BY <1>2
  <2> QED
    BY <2>2, <2>3, LookIsLook
<1> QED
  BY <1>3, <1>4

LEMMA PeekIsLook ==
    ASSUME BuffersInOrder, NEW b \in Buffers, Peek(b)
    PROVE  BuffersInOrder' /\ Queue!Look(b)
<1>1. PICK w \in {1, 2} : out' = peek(buf[b], w) /\ buf' = buf
  BY DEF Peek
<1>2. InOrder(buf[b], Cell) /\ readable_bytes(buf[b]) \in Nat /\ w \in Nat
  BY OneBuffer
<1>3. CASE verify_read(buf[b], w)
  <2>1. w <= readable_bytes(buf[b]) /\ out' = Foremost(buf[b], w)
    BY <1>1, <1>2, <1>3, ReadsFront DEF peek
  <2> QED
    BY <1>1, <1>2, <2>1, LookIsLook
<1>4. CASE ~ verify_read(buf[b], w)
  <2>1. out' = Foremost(buf[b], 0)
    BY <1>1, <1>4, NothingIsForemost DEF peek
  <2>2. 0 \in Nat /\ 0 <= readable_bytes(buf[b])
    BY <1>2
  <2> QED
    BY <1>1, <2>1, <2>2, LookIsLook
<1> QED
  BY <1>3, <1>4

LEMMA CopyOutIsTake ==
    ASSUME BuffersInOrder, NEW b \in Buffers, CopyOut(b)
    PROVE  BuffersInOrder' /\ Queue!Take(b)
<1>1. PICK n \in 1 .. readable_bytes(buf[b]) : Gives(b, copy_out(buf[b], n))
  BY DEF CopyOut
<1>2. readable_bytes(buf[b]) \in Nat
  BY OneBuffer
<1>3. n \in Nat /\ n <= readable_bytes(buf[b])
  BY <1>2
<1>4. Becomes(b, Advance(buf[b], n)) /\ out' = Foremost(buf[b], n)
  BY <1>1 DEF Gives, copy_out
<1> QED
  BY <1>3, <1>4, AdvanceIsTake

\* A string is its length and what it says, or its length alone.
LEMMA ReadStringIsTaken ==
    ASSUME BuffersInOrder, NEW b \in Buffers, ReadString(b)
    PROVE  BuffersInOrder' /\ (Queue!TakeString(b) \/ Queue!LoseLength(b))
<1> DEFINE q == Contained[b]  l == Len(Contained[b])  rest == Advance(buf[b], 2)
           r == read_string(buf[b])
<1>1. /\ InOrder(buf[b], Cell) /\ buf[b].use_times = 0 /\ q = Contents(buf[b])
      /\ l = readable_bytes(buf[b]) /\ l \in Nat /\ q \in Seq(Cell)
  BY OneBuffer
<1>2. PICK n \in 0 .. MaxBytes : Foremost(buf[b], 2) = Field(n, 2)
  BY DEF ReadString
<1>3. verify_read(buf[b], 2) /\ Gives(b, r) /\ n \in Nat
  BY MessageAssumption DEF ReadString
<1>4. 2 <= l
  BY <1>1, <1>3, ReadsFront
<1>5. /\ InOrder(rest, Cell) /\ rest.use_times = 0 /\ readable_bytes(rest) = l - 2
      /\ Contents(rest) = SubSeq(q, 3, l)
  <2>1. InOrder(rest, Cell) /\ rest.use_times = 0
    BY <1>1, <1>4, AdvanceInOrder
  <2>2. readable_bytes(rest) = l - 2
    BY <1>1, <1>4, AdvanceReadable
  <2>3. Contents(rest) = SubSeq(q, 2 + 1, l)
    BY <1>1, <1>4, AdvanceBytes
  <2> QED
    BY <2>1, <2>2, <2>3
<1>6. Field(n, 2) # Nothing /\ Field(n, 2)[1][1] = n
  <2>1. /\ Field(n, 2) \in Seq(Cell) /\ Len(Field(n, 2)) = 2
        /\ \A i \in 1 .. 2 : Field(n, 2)[i] = <<n, i>>
    BY <1>3, FieldBytes
  <2>2. Field(n, 2)[1] = <<n, 1>>
    BY <2>1
  <2> QED
    BY <2>1, <2>2, EmptySeq DEF Nothing
<1>7. r = (IF ~ verify_read(rest, n) THEN [buf |-> rest, out |-> Nothing]
           ELSE [buf |-> Advance(rest, n), out |-> Foremost(rest, n)])
  <2>1. read_number(buf[b], 2) = [buf |-> rest, out |-> Field(n, 2)]
    BY <1>2, <1>3 DEF read_number
  <2> HIDE DEF rest
  <2> QED
    BY <1>6, <2>1 DEF read_string
<1> HIDE DEF r, rest, l
<1>8. CASE ~ verify_read(rest, n)
  <2>1. Becomes(b, rest) /\ out' = <<>>
    BY <1>3, <1>7, <1>8 DEF Gives, Nothing
  <2>2. BuffersInOrder' /\ Contained' = [Contained EXCEPT ![b] = SubSeq(q, 3, l)]
    BY <1>5, <2>1, BecomesKeeps
  <2>3. Queue!Drop(b, 2)
    <3>1. 2 + 1 = 3
      OBVIOUS
    <3> QED
      BY <2>2, <3>1 DEF Queue!Drop, l
  <2> QED
    BY <1>4, <2>1, <2>2, <2>3 DEF Queue!LoseLength, l
<1>9. CASE verify_read(rest, n)
  <2> DEFINE a == Advance(rest, n)
  <2>1. Becomes(b, a) /\ out' = Foremost(rest, n)
    BY <1>3, <1>7, <1>9 DEF Gives
  <2>2. n <= l - 2
    BY <1>3, <1>5, <1>9, ReadsFront
  <2>3. Len(Contents(rest)) = l - 2
    BY <1>5, ContentsBytes
  <2>4. /\ InOrder(a, Cell) /\ a.use_times = 0
        /\ Contents(a) = SubSeq(Contents(rest), n + 1, l - 2)
        /\ Foremost(rest, n) = SubSeq(Contents(rest), 1, n)
    BY <1>3, <1>5, <2>2, <2>3, AdvanceInOrder, AdvanceBytes, ForemostBytes
  <2> HIDE DEF a
  <2>5. Contents(a) = SubSeq(q, (n + 2) + 1, l)
    <3>1. SubSeq(SubSeq(q, 2 + 1, l), n + 1, l - 2) = SubSeq(q, 2 + (n + 1), 2 + (l - 2))
      <4>1. /\ 2 \in 0 .. Len(q) /\ n + 1 \in Nat \ {0} /\ l - 2 \in 0 .. (Len(q) - 2)
            /\ n + 1 <= (l - 2) + 1 /\ l = Len(q)
        BY <1>1, <1>3, <1>4, <2>2 DEF l
      <4> QED
        BY <1>1, <4>1, SubSeqOfRest
    <3>2. 2 + 1 = 3 /\ 2 + (n + 1) = (n + 2) + 1 /\ 2 + (l - 2) = l
      BY <1>1, <1>3
    <3> QED
      BY <1>5, <2>4, <3>1, <3>2
  <2>6. out' = SubSeq(q, 3, n + 2)
    <3>1. SubSeq(SubSeq(q, 2 + 1, l), 1, n) = SubSeq(q, 2 + 1, 2 + n)
      <4>1. /\ 2 \in 0 .. Len(q) /\ 1 \in Nat \ {0} /\ n \in 0 .. (Len(q) - 2)
            /\ 1 <= n + 1 /\ l = Len(q)
        BY <1>1, <1>3, <1>4, <2>2 DEF l
      <4> QED
        BY <1>1, <4>1, SubSeqOfRest
    <3>2. 2 + 1 = 3 /\ 2 + n = n + 2
      BY <1>3
    <3> QED
      BY <1>5, <2>1, <2>4, <3>1, <3>2
  <2>7. BuffersInOrder' /\ Contained' = [Contained EXCEPT ![b] = SubSeq(q, (n + 2) + 1, l)]
    <3>1. BuffersInOrder' /\ Contained' = [Contained EXCEPT ![b] = Contents(a)]
      BY <2>1, <2>4, BecomesKeeps
    <3> QED
      BY <2>5, <3>1
  <2>8. Queue!Drop(b, n + 2)
    BY <2>7 DEF Queue!Drop, l
  <2>9. n + 2 \in 2 .. Len(Contained[b])
    BY <1>1, <1>3, <2>2 DEF l
  <2> QED
    BY <2>6, <2>7, <2>8, <2>9 DEF Queue!TakeString
<1> QED
  BY <1>8, <1>9

LEMMA ResetIsClear ==
    ASSUME BuffersInOrder, NEW b \in Buffers, Reset(b)
    PROVE  BuffersInOrder' /\ Queue!Clear(b)
<1> DEFINE r == reset(buf[b])
<1>1. InOrder(r, Cell) /\ Contents(r) = <<>> /\ r.use_times = 0
  BY OneBuffer, ResetEmpties
<1>2. Becomes(b, r) /\ out' = <<>>
  BY DEF Reset, Nothing
<1> HIDE DEF r
<1>3. BuffersInOrder' /\ Contained' = [Contained EXCEPT ![b] = <<>>]
  BY <1>1, <1>2, BecomesKeeps
<1> QED
  BY <1>2, <1>3 DEF Queue!Clear

LEMMA CopyBufferIsPutAll ==
    ASSUME BuffersInOrder, NEW b \in Buffers, NEW c \in Buffers, CopyBuffer(b, c)
    PROVE  BuffersInOrder' /\ Queue!PutAll(b, c)
<1>1. Contained[c] = Contents(buf[c]) /\ Contained[c] \in Seq(Cell)
  BY OneBuffer
<1>2. Becomes(b, copy(buf[b], Contained[c])) /\ out' = Nothing
  BY <1>1 DEF CopyBuffer
<1>3. BuffersInOrder' /\ Queue!Written(b, Contained[c])
  BY <1>1, <1>2, CopyIsWritten
<1> QED
  BY <1>3 DEF Queue!PutAll

LEMMA SwapIsExchange ==
    ASSUME BuffersInOrder, NEW b \in Buffers, NEW c \in Buffers, Swap(b, c)
    PROVE  BuffersInOrder' /\ Queue!Exchange(b, c)
<1>1. buf \in [Buffers -> BufferOf(Cell)] /\ buf' = [buf EXCEPT ![b] = buf[c], ![c] = buf[b]]
  BY DEF Swap, BuffersInOrder
<1>2. \A d \in Buffers : buf'[d] = (IF d = c THEN buf[b] ELSE IF d = b THEN buf[c] ELSE buf[d])
  BY <1>1
<1>3. BuffersInOrder'
  <2>1. buf' \in [Buffers -> BufferOf(Cell)]
    BY <1>1
  <2>2. \A d \in Buffers : InOrder(buf'[d], Cell) /\ buf'[d].use_times = 0
    BY <1>2 DEF BuffersInOrder
  <2> QED
    BY <2>1, <2>2 DEF BuffersInOrder
<1>4. Contained' = [d \in Buffers |-> Contents(buf'[d])]
  BY DEF Contained
<1>5. Contained' = [Contained EXCEPT ![b] = Contained[c], ![c] = Contained[b]]
  BY <1>2, <1>4 DEF Contained
<1>6. out' = <<>>
  BY DEF Swap, Nothing
<1> QED
  BY <1>3, <1>5, <1>6 DEF Queue!Exchange

LEMMA FreshBuffer ==
    ASSUME NEW S, Unset \in S
    PROVE  InOrder(Fresh, S) /\ Fresh.use_times = 0 /\ Contents(Fresh) = <<>>
<1>1. InitOffset \in Nat /\ InitSize \in Nat /\ InitOffset + InitSize \in Nat
  BY ByteBufferAssumption
<1>2. Unused(InitOffset + InitSize) \in Seq(S)
      /\ Len(Unused(InitOffset + InitSize)) = InitOffset + InitSize
  BY <1>1, UnusedBytes
<1>3. /\ Fresh \in BufferOf(S) /\ Fresh.init_offset = InitOffset /\ Fresh.use_times = 0
      /\ Fresh.read_index = InitOffset /\ Fresh.write_index = InitOffset
      /\ Fresh.bytes = Unused(InitOffset + InitSize)
  BY <1>1, <1>2 DEF Fresh, BufferOf
<1>4. InOrder(Fresh, S)
  BY <1>1, <1>2, <1>3 DEF InOrder
<1>5. readable_bytes(Fresh) = 0
  BY <1>1, <1>3 DEF readable_bytes
<1> QED
  BY <1>3, <1>4, <1>5, ContentsBytes, EmptySeq

LEMMA BuffersStartAsQueues == Init => BuffersInOrder /\ Queue!Init
<1> SUFFICES ASSUME Init PROVE BuffersInOrder /\ Queue!Init
  OBVIOUS
<1>1. InOrder(Fresh, Cell) /\ Fresh.use_times = 0 /\ Contents(Fresh) = <<>>
      /\ Fresh \in BufferOf(Cell)
  BY UnsetIsCell, FreshBuffer DEF InOrder
<1>2. buf = [b \in Buffers |-> Fresh] /\ out = <<>>
  BY DEF Init, Nothing
<1>3. BuffersInOrder
  BY <1>1, <1>2 DEF BuffersInOrder
<1>4. Contained = [b \in Buffers |-> <<>>]
  BY <1>1, <1>2 DEF Contained
<1> QED
  BY <1>2, <1>3, <1>4 DEF Queue!Init

(***************************************************************************)
(* Byte_Buffer implements a queue of bytes for buffers of any initial      *)
(* size and offset, any numbers and strings and any order of writes,       *)
(* reads, copies, swaps and resets: the growth of the array, the move of   *)
(* the content to its front and the exchange of the array are invisible.   *)
(***************************************************************************)
THEOREM BuffersAreQueues == Spec => IsByteQueue
<1>1. BuffersInOrder /\ [Next]_vars => BuffersInOrder' /\ [Queue!Next]_(Queue!vars)
  <2> SUFFICES ASSUME BuffersInOrder, [Next]_vars
               PROVE  BuffersInOrder' /\ [Queue!Next]_(Queue!vars)
    OBVIOUS
  <2>1. CASE UseBuffers
    <3>1. PICK b \in Buffers :
              \/ WriteNumber(b) \/ WriteString(b) \/ ReadNumber(b) \/ ReadString(b)
              \/ Peek(b) \/ CopyOut(b) \/ Reset(b)
              \/ \E c \in Buffers \ {b} : CopyBuffer(b, c) \/ Swap(b, c)
      BY <2>1 DEF UseBuffers
    <3>2. CASE WriteNumber(b) \/ WriteString(b)
      BY <3>2, WriteNumberIsPut, WriteStringIsPut DEF Queue!Next
    <3>3. CASE ReadNumber(b) \/ CopyOut(b)
      BY <3>3, ReadNumberIsTake, CopyOutIsTake DEF Queue!Next
    <3>4. CASE ReadString(b)
      BY <3>4, ReadStringIsTaken DEF Queue!Next
    <3>5. CASE Peek(b) \/ Reset(b)
      BY <3>5, PeekIsLook, ResetIsClear DEF Queue!Next
    <3>6. ASSUME NEW c \in Buffers, CopyBuffer(b, c) \/ Swap(b, c)
          PROVE  BuffersInOrder' /\ Queue!Next
      BY <3>6, CopyBufferIsPutAll, SwapIsExchange DEF Queue!Next
    <3> QED
      BY <3>1, <3>2, <3>3, <3>4, <3>5, <3>6
  <2>2. CASE UNCHANGED buffer_vars
    <3>1. buf' = buf /\ out' = out
      BY <2>2 DEF buffer_vars
    <3>2. BuffersInOrder' /\ Contained' = Contained
      BY <3>1 DEF BuffersInOrder, Contained
    <3> QED
      BY <3>1, <3>2 DEF Queue!vars
  <2> QED
    BY <2>1, <2>2 DEF Next, CarryMessages, vars
<1> QED
  BY <1>1, BuffersStartAsQueues, PTL DEF Spec, IsByteQueue, Queue!Spec

-----------------------------------------------------------------------------
(***************************************************************************)
(* Messages.  Contents are compared byte by byte: what a write adds, what  *)
(* is left after a read, and what is written over.                         *)
(***************************************************************************)
LEMMA CopyBytes ==
    ASSUME NEW S, Unset \in S, NEW b, InOrder(b, S), NEW data \in Seq(S),
           NEW d, d = copy(b, data)
    PROVE  /\ InOrder(d, S)
           /\ readable_bytes(d) = readable_bytes(b) + Len(data)
           /\ \A i \in 1 .. readable_bytes(b) : Contents(d)[i] = Contents(b)[i]
           /\ \A j \in 1 .. Len(data) : Contents(d)[readable_bytes(b) + j] = data[j]
<1> DEFINE c == Contents(b)  n == readable_bytes(b)  m == Len(data)
<1>1. InOrder(d, S) /\ Contents(d) = c \o data
  BY CopyAppends
<1>2. c \in Seq(S) /\ Len(c) = n /\ n \in Nat /\ m \in Nat
  BY ContentsBytes, LenProperties
<1>3. Len(Contents(d)) = readable_bytes(d)
  BY <1>1, ContentsBytes
<1> HIDE DEF c, n
<1>4. /\ Len(c \o data) = n + m
      /\ \A i \in 1 .. (n + m) : (c \o data)[i] = (IF i <= n THEN c[i] ELSE data[i - n])
  BY <1>2, ConcatProperties
<1>5. \A i \in 1 .. n : i \in 1 .. (n + m) /\ i <= n
  BY <1>2
<1>6. \A j \in 1 .. m : n + j \in 1 .. (n + m) /\ ~ (n + j <= n) /\ (n + j) - n = j
  BY <1>2
<1> HIDE DEF m
<1>7. readable_bytes(d) = n + m
  BY <1>1, <1>3, <1>4
<1>8. \A i \in 1 .. n : Contents(d)[i] = c[i]
  BY <1>1, <1>4, <1>5
<1>9. \A j \in 1 .. m : Contents(d)[n + j] = data[j]
  BY <1>1, <1>4, <1>6
<1> QED
  BY <1>1, <1>7, <1>8, <1>9 DEF c, n, m

LEMMA FieldOf ==
    ASSUME NEW S, NEW v, NEW w \in Nat, \A i \in 1 .. w : <<v, i>> \in S
    PROVE  /\ Field(v, w) \in Seq(S) /\ Len(Field(v, w)) = w
           /\ \A i \in 1 .. w : Field(v, w)[i] = <<v, i>>
<1> DEFINE f == [i \in 1 .. w |-> <<v, i>>]
<1>1. f \in [1 .. w -> S]
  OBVIOUS
<1>2. \A i \in 1 .. w : f[i] = <<v, i>>
  OBVIOUS
<1> HIDE DEF f
<1>3. f \in Seq(S) /\ Len(f) = w
  BY <1>1, FunctionIsSequence
<1> QED
  BY <1>2, <1>3 DEF f, Field

LEMMA WriteNumberBytes ==
    ASSUME NEW S, Unset \in S, NEW b, InOrder(b, S),
           NEW v, NEW w \in Nat, \A i \in 1 .. w : <<v, i>> \in S,
           NEW d, d = write_number(b, v, w)
    PROVE  /\ InOrder(d, S)
           /\ readable_bytes(d) = readable_bytes(b) + w
           /\ \A i \in 1 .. readable_bytes(b) : Contents(d)[i] = Contents(b)[i]
           /\ \A j \in 1 .. w : Contents(d)[readable_bytes(b) + j] = <<v, j>>
<1> DEFINE f == Field(v, w)
<1>1. f \in Seq(S) /\ Len(f) = w /\ \A i \in 1 .. w : f[i] = <<v, i>>
  BY FieldOf
<1>2. d = copy(b, f)
  BY DEF write_number
<1> HIDE DEF f
<1>3. /\ InOrder(d, S)
      /\ readable_bytes(d) = readable_bytes(b) + Len(f)
      /\ \A i \in 1 .. readable_bytes(b) : Contents(d)[i] = Contents(b)[i]
      /\ \A j \in 1 .. Len(f) : Contents(d)[readable_bytes(b) + j] = f[j]
  <2>1. InOrder(d, S)
    BY <1>1, <1>2, CopyBytes
  <2>2. readable_bytes(d) = readable_bytes(b) + Len(f)
    BY <1>1, <1>2, CopyBytes
  <2>3. \A i \in 1 .. readable_bytes(b) : Contents(d)[i] = Contents(b)[i]
    BY <1>1, <1>2, CopyBytes
  <2>4. \A j \in 1 .. Len(f) : Contents(d)[readable_bytes(b) + j] = f[j]
    BY <1>1, <1>2, CopyBytes
  <2> QED
    BY <2>1, <2>2, <2>3, <2>4
<1> QED
  BY <1>1, <1>3

LEMMA AdvancedBytes ==
    ASSUME NEW S, NEW b, InOrder(b, S), NEW s \in Nat, s <= readable_bytes(b),
           NEW a, a = Advance(b, s)
    PROVE  /\ InOrder(a, S)
           /\ readable_bytes(a) = readable_bytes(b) - s
           /\ \A i \in 1 .. (readable_bytes(b) - s) : Contents(a)[i] = Contents(b)[s + i]
<1> DEFINE n == readable_bytes(b)
<1>1. InOrder(a, S) /\ readable_bytes(a) = n - s
  BY AdvanceInOrder, AdvanceReadable
<1>2. n \in Nat /\ \A i \in 1 .. n : Contents(b)[i] = b.bytes[b.read_index + i]
  BY ContentsBytes
<1>3. \A i \in 1 .. (n - s) : Contents(a)[i] = a.bytes[a.read_index + i]
  BY <1>1, ContentsBytes
<1>4. a.bytes = b.bytes /\ a.read_index = b.read_index + s /\ b.read_index \in Nat
  BY DEF Advance, InOrder, BufferOf
<1> HIDE DEF n
<1>5. ASSUME NEW i \in 1 .. (n - s) PROVE Contents(a)[i] = Contents(b)[s + i]
  <2>1. s + i \in 1 .. n /\ (b.read_index + s) + i = b.read_index + (s + i)
    BY <1>2, <1>4
  <2> QED
    BY <1>2, <1>3, <1>4, <2>1
<1> QED
  BY <1>1, <1>5 DEF n

LEMMA ForemostPart ==
    ASSUME NEW S, NEW b, InOrder(b, S), NEW s \in Nat, s <= readable_bytes(b),
           NEW f, f = Foremost(b, s)
    PROVE  /\ f \in Seq(S) /\ Len(f) = s
           /\ \A i \in 1 .. s : f[i] = Contents(b)[i]
<1> DEFINE c == Contents(b)  n == readable_bytes(b)
<1>1. f = SubSeq(c, 1, s)
  BY ForemostBytes
<1>2. c \in Seq(S) /\ Len(c) = n /\ n \in Nat
  BY ContentsBytes
<1> HIDE DEF c
<1>3. \A i \in 1 .. s : i \in 1 .. Len(c) /\ c[i] \in S
  <2>1. \A i \in 1 .. s : i \in 1 .. Len(c)
    BY <1>2
  <2> QED
    BY <1>2, <2>1, ElementOfSeq
<1>4. /\ SubSeq(c, 1, s) \in Seq(S) /\ Len(SubSeq(c, 1, s)) = s
      /\ \A i \in 1 .. s : SubSeq(c, 1, s)[i] = c[i]
  BY <1>3, SubSeqProperties
<1> QED
  BY <1>1, <1>4 DEF c

(***************************************************************************)
(* The field after n bytes holds what its first byte says.                 *)
(***************************************************************************)
LEMMA FieldAtByte ==
    ASSUME NEW S, NEW b, InOrder(b, S), NEW n \in Nat, NEW w \in Nat \ {0},
           n + w <= readable_bytes(b)
    PROVE  /\ FieldAt(b, n, w) = Contents(b)[n + 1][1]
           /\ Foremost(Advance(b, n), w)[1] = Contents(b)[n + 1]
<1> DEFINE a == Advance(b, n)  f == Foremost(a, w)
<1>1. readable_bytes(b) \in Nat
  BY ContentsBytes
<1>2. n <= readable_bytes(b) /\ w <= readable_bytes(b) - n /\ w \in Nat /\ 1 \in 1 .. w
      /\ 1 \in 1 .. (readable_bytes(b) - n)
  BY <1>1
<1>3. /\ InOrder(a, S) /\ readable_bytes(a) = readable_bytes(b) - n
      /\ \A i \in 1 .. (readable_bytes(b) - n) : Contents(a)[i] = Contents(b)[n + i]
  BY <1>2, AdvancedBytes
<1> HIDE DEF a
<1>4. \A i \in 1 .. w : f[i] = Contents(a)[i]
  BY <1>2, <1>3, ForemostPart
<1>5. verify_read(a, w)
  BY <1>2, <1>3, ReadsFront
<1> HIDE DEF f
<1>6. f[1] = Contents(b)[n + 1]
  BY <1>2, <1>3, <1>4
<1>7. FieldAt(b, n, w) = f[1][1]
  BY <1>5 DEF FieldAt, read_number, a, f
<1> QED
  BY <1>6, <1>7 DEF a, f

(***************************************************************************)
(* Bytes written over those at the front need no space.                    *)
(***************************************************************************)
LEMMA OverwrittenBytes ==
    ASSUME NEW S, NEW b, InOrder(b, S), NEW data \in Seq(S),
           Len(data) <= readable_bytes(b),
           NEW d, d = copy(set_write_idx(b, b.read_index), data)
    PROVE  /\ d \in BufferOf(S) /\ d.init_offset = b.init_offset
           /\ d.read_index = b.read_index
           /\ Len(d.bytes) = Len(b.bytes)
           /\ \A i \in 1 .. Len(b.bytes) :
                 d.bytes[i] = (IF i - b.read_index \in 1 .. Len(data)
                               THEN data[i - b.read_index] ELSE b.bytes[i])
<1> DEFINE r == b.read_index  n == Len(data)  l == Len(b.bytes)
           x == set_write_idx(b, r)
           f == [i \in 1 .. l |-> IF i - r \in 1 .. n THEN data[i - r] ELSE b.bytes[i]]
<1>1. /\ b \in BufferOf(S) /\ b.bytes \in Seq(S) /\ l \in Nat
      /\ DOMAIN b.bytes = 1 .. l /\ b.bytes \in [1 .. l -> S]
      /\ r \in Nat /\ b.write_index \in Nat /\ n \in Nat /\ data \in [1 .. n -> S]
      /\ r <= b.write_index /\ b.write_index <= l /\ n <= b.write_index - r
  BY LenProperties DEF InOrder, BufferOf, readable_bytes
<1>2. /\ x \in BufferOf(S) /\ x.bytes = b.bytes /\ x.read_index = r /\ x.write_index = r
      /\ x.init_offset = b.init_offset /\ x.use_times = b.use_times
  BY <1>1 DEF set_write_idx, BufferOf
<1> HIDE DEF x
<1>3. ~ Lacks(x, 0, n)
  BY <1>1, <1>2 DEF Lacks
<1>4. ensure_writable_bytes(x, n) = x
  BY <1>3 DEF ensure_writable_bytes
<1>5. d = [x EXCEPT !.write_index = r + n, !.bytes = f]
  BY <1>1, <1>2, <1>4 DEF copy, x
<1>6. f \in [1 .. l -> S]
  BY <1>1
<1>7. \A i \in 1 .. l : f[i] = (IF i - r \in 1 .. n THEN data[i - r] ELSE b.bytes[i])
  OBVIOUS
<1> HIDE DEF f, n, l, r
<1>8. f \in Seq(S) /\ Len(f) = l
  BY <1>1, <1>6, FunctionIsSequence
<1>9. r + n \in Nat
  BY <1>1
<1>10. d \in BufferOf(S) /\ d.bytes = f /\ d.read_index = r /\ d.init_offset = b.init_offset
  BY <1>2, <1>5, <1>8, <1>9 DEF BufferOf
<1> QED
  BY <1>7, <1>8, <1>10 DEF r, n, l

(***************************************************************************)
(* What may be in a field of a message, and in a byte of one.              *)
(***************************************************************************)
PkgTypes == {"RPC_PKG", "TYPE_PKG"}

FieldValue == Nat \cup Ids \cup PkgTypes
              \cup {"TCP", "TCP_C2S", "TCP_S2C", "NODE_MSG", "NODE_C2S"}
              \cup [pkg_type : PkgTypes, len : Nat]
              \cup [protocol : {"TCP"}, pkg_type : PkgTypes]

MessageByte == {Unset} \cup {<<v, i>> : v \in FieldValue, i \in Nat}
                       \cup UNION {{s[i] : i \in DOMAIN s} : s \in Bodies}

HeadType == [eid : FieldValue, cid : FieldValue, protocol : FieldValue,
          pkg_type : FieldValue, client_msg : FieldValue, msg_id : FieldValue,
          msg_type : FieldValue, sid : FieldValue]

(***************************************************************************)
(* Two kinds of messages: a client's has one byte between the length and   *)
(* the body, the id; a server's has six, with type and session.            *)
(***************************************************************************)
FromClient(head) == head.client_msg = 1 /\ head.msg_type = "TCP_C2S" /\ head.sid = 0
FromServer(head) == head.client_msg = 0 /\ head.msg_type \in {"NODE_MSG", "NODE_C2S"}

IdsSize(head) == IF head.client_msg = 1 THEN 1 ELSE 6

\* Contents c has id, type, session and body of the message after n bytes.
HasRest(c, n, head, body) ==
    /\ c[n + 1][1] = head.msg_id
    /\ head.client_msg = 0 => c[n + 2][1] = head.msg_type /\ c[n + 3][1] = head.sid
    /\ \A i \in 1 .. Len(body) : c[n + IdsSize(head) + i] = body[i]

Length(head, body) == IdsSize(head) + Len(body)
Header(head, body) == [pkg_type |-> PkgType(body), len |-> Length(head, body)]

Packed(b, head, body) ==
    LET n == LenSize(PkgType(body))
    IN  /\ InOrder(b, MessageByte)
        /\ readable_bytes(b) = n + Length(head, body)
        /\ Contents(b)[1][1] = Header(head, body)
        /\ HasRest(Contents(b), n, head, body)

\* On the way eid and cid come first; more may follow.
Addressed(b, head, body) ==
    LET n == LenSize(PkgType(body))
    IN  /\ InOrder(b, MessageByte)
        /\ readable_bytes(b) >= 8 + n + Length(head, body)
        /\ Contents(b)[1][1] = head.eid
        /\ Contents(b)[5][1] = head.cid
        /\ Contents(b)[9][1] = Header(head, body)
        /\ HasRest(Contents(b), 8 + n, head, body)

\* The marks over the first two bytes of the length.
Unpacked(b, head, body) ==
    LET n == LenSize(PkgType(body))
    IN  /\ InOrder(b, MessageByte)
        /\ readable_bytes(b) = 8 + n + Length(head, body)
        /\ Contents(b)[1][1] = head.eid
        /\ Contents(b)[5][1] = head.cid
        /\ Contents(b)[9][1] = [protocol |-> "TCP", pkg_type |-> PkgType(body)]
        /\ Contents(b)[10][1] = head.client_msg
        /\ HasRest(Contents(b), 8 + n, head, body)

MessageKept ==
    LET head == message.head
        body == message.body
    IN  /\ message \in [head : HeadType, body : Seq(MessageByte)]
        /\ stage \in {"none", "written", "sent", "unpacked", "read"}
        /\ stage # "none" => /\ FromClient(head) \/ FromServer(head)
                             /\ head.protocol = "TCP"
        /\ stage \in {"sent", "unpacked", "read"} => head.pkg_type = PkgType(body)
        /\ stage = "written" => Packed(carrier, head, body)
        /\ stage = "sent" => Addressed(carrier, head, body)
        /\ stage = "unpacked" => Unpacked(carrier, head, body)
        /\ stage = "read" => /\ msg_head = head
                             /\ InOrder(carrier, MessageByte)
                             /\ Contents(carrier) = body

LEMMA KeptMeansArrives == MessageKept => MessageArrives
  BY DEF MessageKept, MessageArrives

LEMMA ByteTypes ==
    /\ Unset \in MessageByte
    /\ \A v \in FieldValue, i \in Nat : <<v, i>> \in MessageByte
    /\ \A body \in Bodies : body \in Seq(MessageByte)
<1>1. ASSUME NEW s \in Bodies PROVE s \in Seq(MessageByte)
  <2>1. s \in Seq({s[i] : i \in DOMAIN s})
    BY MessageAssumption DEF IsSequence
  <2>2. {s[i] : i \in DOMAIN s} \subseteq MessageByte
    BY DEF MessageByte
  <2> QED
    BY <2>1, <2>2, SeqMonotonic
<1>2. Unset \in MessageByte /\ \A v \in FieldValue, i \in Nat : <<v, i>> \in MessageByte
  BY DEF MessageByte
<1> QED
  BY <1>1, <1>2

LEMMA NoHeadIsHead == NoHead \in HeadType /\ NoHead.pkg_type = 0
  BY DEF NoHead, HeadType, FieldValue

LEMMA SmallMod ==
    ASSUME NEW a \in Nat, NEW b \in Nat, a < b
    PROVE  a % b = a
  OBVIOUS

(***************************************************************************)
(* The lengths: a small package's fits the head's field, and every package *)
(* has some.                                                               *)
(***************************************************************************)
LEMMA Lengths ==
    ASSUME NEW head, NEW body \in Seq(MessageByte), FromClient(head) \/ FromServer(head)
    PROVE  /\ IdsSize(head) \in {1, 6}
           /\ Len(body) \in Nat /\ Length(head, body) \in Nat /\ Length(head, body) > 0
           /\ LenSize(PkgType(body)) \in {2, 4}
           /\ PkgType(body) \in PkgTypes
           /\ PkgHeader(PkgType(body), Length(head, body)) = Header(head, body)
           /\ Header(head, body) \in FieldValue
<1> DEFINE l == Length(head, body)
<1>1. IdsSize(head) \in {1, 6} /\ Len(body) \in Nat
  BY LenProperties DEF IdsSize
<1>2. l \in Nat /\ l > 0 /\ l <= Len(body) + 6
  BY <1>1 DEF Length
<1>3. PkgType(body) \in PkgTypes /\ LenSize(PkgType(body)) \in {2, 4}
  BY DEF PkgType, PkgTypes, LenSize
<1> HIDE DEF l
<1>4. PkgType(body) = "RPC_PKG" => l % RpcLimit = l
  <2> SUFFICES ASSUME PkgType(body) = "RPC_PKG" PROVE l % RpcLimit = l
    OBVIOUS
  <2>1. Len(body) < RpcLimit - 6 /\ RpcLimit \in Nat
    BY MessageAssumption DEF PkgType
  <2>2. l < RpcLimit
    BY <1>1, <1>2, <2>1
  <2> QED
    BY <1>2, <2>1, <2>2, SmallMod
<1>5. PkgHeader(PkgType(body), l) = [pkg_type |-> PkgType(body), len |-> l]
  BY <1>4 DEF PkgHeader
<1>6. [pkg_type |-> PkgType(body), len |-> l] \in FieldValue
  BY <1>2, <1>3 DEF FieldValue
<1> QED
  BY <1>1, <1>2, <1>3, <1>5, <1>6 DEF l, Header

(***************************************************************************)
(* write_len, over the zeroes that write_head left.                        *)
(***************************************************************************)
LEMMA WriteLenBytes ==
    ASSUME NEW b, InOrder(b, MessageByte), NEW h, NEW pkg_type \in PkgTypes, h.pkg_type = pkg_type,
           NEW len \in Nat, readable_bytes(b) = LenSize(pkg_type) + len,
           PkgHeader(pkg_type, len) \in FieldValue,
           NEW d, d = write_len(b, h)
    PROVE  /\ InOrder(d, MessageByte) /\ readable_bytes(d) = readable_bytes(b)
           /\ Contents(d)[1][1] = PkgHeader(pkg_type, len)
           /\ \A i \in 1 .. readable_bytes(b) :
                 i > LenSize(pkg_type) => Contents(d)[i] = Contents(b)[i]
<1> DEFINE n == LenSize(pkg_type)  v == PkgHeader(pkg_type, len)  f == Field(v, n)
           y == copy(set_write_idx(b, b.read_index), f)
           m == readable_bytes(b)
<1>1. n \in Nat /\ n >= 1 /\ m \in Nat /\ n <= m /\ m - n = len /\ 1 \in 1 .. n
  <2>1. n \in {2, 4}
    BY DEF LenSize
  <2> QED
    BY <2>1
<1>2. f \in Seq(MessageByte) /\ Len(f) = n /\ \A i \in 1 .. n : f[i] = <<v, i>>
  <2>1. \A i \in 1 .. n : <<v, i>> \in MessageByte
    BY <1>1, ByteTypes
  <2> HIDE DEF n, v
  <2> QED
    BY <1>1, <2>1, FieldOf
<1>3. d = set_write_idx(y, b.write_index)
  <2>1. readable_bytes(b) - LenSize(h.pkg_type) = len /\ LenSize(h.pkg_type) = n
    BY <1>1
  <2> QED
    BY <2>1 DEF write_len, write_number
<1> HIDE DEF f, v, n
<1>4. /\ y \in BufferOf(MessageByte) /\ y.init_offset = b.init_offset
      /\ y.read_index = b.read_index
      /\ Len(y.bytes) = Len(b.bytes)
      /\ \A i \in 1 .. Len(b.bytes) :
            y.bytes[i] = (IF i - b.read_index \in 1 .. n
                          THEN f[i - b.read_index] ELSE b.bytes[i])
  BY <1>1, <1>2, OverwrittenBytes
<1> HIDE DEF y
<1>5. /\ b.init_offset = InitOffset /\ b.read_index \in Nat /\ b.write_index \in Nat
      /\ InitOffset <= b.read_index /\ b.read_index <= b.write_index
      /\ b.write_index <= Len(b.bytes) /\ m = b.write_index - b.read_index
      /\ Len(b.bytes) \in Nat
  BY LenProperties DEF InOrder, BufferOf, readable_bytes
<1>6. /\ d \in BufferOf(MessageByte) /\ d.init_offset = InitOffset
      /\ d.read_index = b.read_index /\ d.write_index = b.write_index
      /\ d.bytes = y.bytes
  BY <1>3, <1>4, <1>5 DEF set_write_idx, BufferOf
<1>7. InOrder(d, MessageByte)
  BY <1>4, <1>5, <1>6 DEF InOrder
<1>8. readable_bytes(d) = m
  BY <1>5, <1>6 DEF readable_bytes
<1>9. /\ \A i \in 1 .. m : Contents(d)[i] = d.bytes[d.read_index + i]
      /\ \A i \in 1 .. m : Contents(b)[i] = b.bytes[b.read_index + i]
  BY <1>7, <1>8, ContentsBytes
<1> HIDE DEF m
<1>10. \A i \in 1 .. m : /\ b.read_index + i \in 1 .. Len(b.bytes)
                         /\ (b.read_index + i) - b.read_index = i
  BY <1>5
<1>11. \A i \in 1 .. m : Contents(d)[i] = (IF i \in 1 .. n THEN f[i] ELSE Contents(b)[i])
  BY <1>4, <1>6, <1>9, <1>10
<1>12. Contents(d)[1] = <<v, 1>>
  <2>1. 1 \in 1 .. m
    BY <1>1
  <2> QED
    BY <1>1, <1>2, <1>11, <2>1
<1>13. \A i \in 1 .. m : i > n => Contents(d)[i] = Contents(b)[i]
  BY <1>1, <1>11
<1> QED
  BY <1>7, <1>8, <1>12, <1>13 DEF m, n, v

(***************************************************************************)
(* write_head: room for the length, the id, and in messages between        *)
(* servers the type and the session.                                       *)
(***************************************************************************)
LEMMA FieldBytesOfMessage ==
    ASSUME NEW v \in FieldValue, NEW w \in Nat
    PROVE  \A i \in 1 .. w : <<v, i>> \in MessageByte
<1>1. \A i \in 1 .. w : i \in Nat
  OBVIOUS
<1> QED
  BY <1>1, ByteTypes

\* The byte a field of a message begins with.
LEMMA WriteFieldBytes ==
    ASSUME NEW b, InOrder(b, MessageByte), NEW v \in FieldValue, NEW w \in Nat \ {0},
           NEW d, d = write_number(b, v, w)
    PROVE  /\ InOrder(d, MessageByte)
           /\ readable_bytes(d) = readable_bytes(b) + w
           /\ \A i \in 1 .. readable_bytes(b) : Contents(d)[i] = Contents(b)[i]
           /\ Contents(d)[readable_bytes(b) + 1][1] = v
<1>1. \A i \in 1 .. w : <<v, i>> \in MessageByte
  BY FieldBytesOfMessage
<1>2. Unset \in MessageByte /\ w \in Nat
  BY ByteTypes
<1>3. InOrder(d, MessageByte) /\ readable_bytes(d) = readable_bytes(b) + w
  BY <1>1, <1>2, WriteNumberBytes
<1>4. \A i \in 1 .. readable_bytes(b) : Contents(d)[i] = Contents(b)[i]
  BY <1>1, <1>2, WriteNumberBytes
<1>5. \A j \in 1 .. w : Contents(d)[readable_bytes(b) + j] = <<v, j>>
  BY <1>1, <1>2, WriteNumberBytes
<1>6. Contents(d)[readable_bytes(b) + 1] = <<v, 1>>
  <2>1. 1 \in 1 .. w
    OBVIOUS
  <2> QED
    BY <1>5, <2>1
<1> QED
  BY <1>3, <1>4, <1>6

LEMMA FreshReadable == InOrder(Fresh, MessageByte) /\ readable_bytes(Fresh) = 0
<1>1. InOrder(Fresh, MessageByte) /\ Contents(Fresh) = << >>
  BY FreshBuffer, ByteTypes
<1>2. Len(Contents(Fresh)) = readable_bytes(Fresh)
  BY <1>1, ContentsBytes
<1>3. Len(<< >>) = 0
  OBVIOUS
<1> QED
  BY <1>1, <1>2, <1>3

LEMMA WriteHeadBytes ==
    ASSUME NEW h \in HeadType, h.pkg_type \in PkgTypes,
           NEW n, n = LenSize(h.pkg_type),
           NEW d, d = write_head(Fresh, h)
    PROVE  /\ InOrder(d, MessageByte)
           /\ readable_bytes(d) = n + (IF h.msg_type = "TCP_S2C" THEN 1 ELSE 6)
           /\ Contents(d)[n + 1][1] = h.msg_id
           /\ h.msg_type # "TCP_S2C" => /\ Contents(d)[n + 2][1] = h.msg_type
                                        /\ Contents(d)[n + 3][1] = h.sid
<1> DEFINE b1 == write_number(Fresh, 0, n)  b2 == write_number(b1, h.msg_id, 1)
           b3 == write_number(b2, h.msg_type, 1)  b4 == write_number(b3, h.sid, 4)
<1>1. n \in Nat \ {0} /\ n + 1 \in Nat /\ n + 2 \in Nat /\ n + 6 \in Nat
  <2>1. n \in {2, 4}
    BY DEF LenSize
  <2> QED
    BY <2>1
<1>2. 0 \in FieldValue /\ h.msg_id \in FieldValue /\ h.msg_type \in FieldValue
      /\ h.sid \in FieldValue
  BY DEF FieldValue, HeadType
<1>3. d = IF h.msg_type = "TCP_S2C" THEN b2 ELSE b4
  BY DEF write_head
<1>e1. b1 = write_number(Fresh, 0, n)
  OBVIOUS
<1>e2. b2 = write_number(b1, h.msg_id, 1)
  OBVIOUS
<1>e3. b3 = write_number(b2, h.msg_type, 1)
  OBVIOUS
<1>e4. b4 = write_number(b3, h.sid, 4)
  OBVIOUS
<1>o. 1 \in Nat \ {0} /\ 4 \in Nat \ {0}
  OBVIOUS
<1> HIDE DEF b1, b2, b3, b4
<1>4. InOrder(b1, MessageByte) /\ readable_bytes(b1) = n
  <2>a. InOrder(Fresh, MessageByte) /\ 0 \in FieldValue /\ n \in Nat \ {0}
    BY <1>1, <1>2, FreshReadable
  <2>1. InOrder(b1, MessageByte) /\ readable_bytes(b1) = readable_bytes(Fresh) + n
    BY <1>e1, <2>a, WriteFieldBytes
  <2> QED
    BY <1>1, <2>1, FreshReadable
<1>5. /\ InOrder(b2, MessageByte) /\ readable_bytes(b2) = n + 1
      /\ Contents(b2)[n + 1][1] = h.msg_id
  <2>1. InOrder(b2, MessageByte) /\ readable_bytes(b2) = readable_bytes(b1) + 1
    BY <1>2, <1>4, <1>e2, <1>o, WriteFieldBytes
  <2>2. Contents(b2)[readable_bytes(b1) + 1][1] = h.msg_id
    BY <1>2, <1>4, <1>e2, <1>o, WriteFieldBytes
  <2> QED
    BY <1>4, <2>1, <2>2
<1>6. /\ InOrder(b3, MessageByte) /\ readable_bytes(b3) = n + 2
      /\ Contents(b3)[n + 1][1] = h.msg_id
      /\ Contents(b3)[n + 2][1] = h.msg_type
  <2>1. InOrder(b3, MessageByte) /\ readable_bytes(b3) = readable_bytes(b2) + 1
    BY <1>2, <1>5, <1>e3, <1>o, WriteFieldBytes
  <2>2. \A i \in 1 .. readable_bytes(b2) : Contents(b3)[i] = Contents(b2)[i]
    BY <1>2, <1>5, <1>e3, <1>o, WriteFieldBytes
  <2>3. Contents(b3)[readable_bytes(b2) + 1][1] = h.msg_type
    BY <1>2, <1>5, <1>e3, <1>o, WriteFieldBytes
  <2>4. n + 1 \in 1 .. (n + 1) /\ (n + 1) + 1 = n + 2
    BY <1>1
  <2> QED
    BY <1>5, <2>1, <2>2, <2>3, <2>4
<1>7. /\ InOrder(b4, MessageByte) /\ readable_bytes(b4) = n + 6
      /\ Contents(b4)[n + 1][1] = h.msg_id
      /\ Contents(b4)[n + 2][1] = h.msg_type
      /\ Contents(b4)[n + 3][1] = h.sid
  <2>a. InOrder(b3, MessageByte) /\ h.sid \in FieldValue
    BY <1>2, <1>6
  <2>1. InOrder(b4, MessageByte) /\ readable_bytes(b4) = readable_bytes(b3) + 4
    BY <1>e4, <1>o, <2>a, WriteFieldBytes
  <2>2. \A i \in 1 .. readable_bytes(b3) : Contents(b4)[i] = Contents(b3)[i]
    BY <1>e4, <1>o, <2>a, WriteFieldBytes
  <2>3. Contents(b4)[readable_bytes(b3) + 1][1] = h.sid
    BY <1>e4, <1>o, <2>a, WriteFieldBytes
  <2>4. n + 1 \in 1 .. (n + 2) /\ n + 2 \in 1 .. (n + 2)
        /\ (n + 2) + 1 = n + 3 /\ (n + 2) + 4 = n + 6
    BY <1>1
  <2> QED
    BY <1>6, <2>1, <2>2, <2>3, <2>4
<1> QED
  BY <1>3, <1>5, <1>7

(***************************************************************************)
(* What send_msg makes is the message m it was made for.                   *)
(***************************************************************************)
LEMMA SendPacks ==
    ASSUME NEW h \in HeadType, NEW body \in Seq(MessageByte), h.pkg_type = PkgType(body),
           NEW m, FromClient(m) \/ FromServer(m),
           h.msg_id = m.msg_id, m.client_msg = 1 <=> h.msg_type = "TCP_S2C",
           m.client_msg = 0 => h.msg_type = m.msg_type /\ h.sid = m.sid,
           NEW d, d = write_len(copy(write_head(Fresh, h), body), h)
    PROVE  Packed(d, m, body)
<1> DEFINE n == LenSize(h.pkg_type)  k == IdsSize(m)
           b == write_head(Fresh, h)  c == copy(b, body)  l == Length(m, body)
<1>1. /\ k \in {1, 6} /\ Len(body) \in Nat /\ l \in Nat /\ l > 0 /\ n \in {2, 4}
      /\ PkgType(body) \in PkgTypes /\ PkgHeader(PkgType(body), l) = Header(m, body)
      /\ Header(m, body) \in FieldValue
  BY Lengths
<1>2. /\ InOrder(b, MessageByte) /\ readable_bytes(b) = n + k
      /\ Contents(b)[n + 1][1] = h.msg_id
      /\ h.msg_type # "TCP_S2C" => /\ Contents(b)[n + 2][1] = h.msg_type
                                   /\ Contents(b)[n + 3][1] = h.sid
  <2>1. k = (IF h.msg_type = "TCP_S2C" THEN 1 ELSE 6)
    BY DEF IdsSize
  <2>2. h.pkg_type \in PkgTypes
    BY <1>1
  <2> HIDE DEF b, n, k
  <2>3. InOrder(b, MessageByte) /\ readable_bytes(b) = n + k
    BY <2>1, <2>2, WriteHeadBytes DEF b, n
  <2>4. Contents(b)[n + 1][1] = h.msg_id
    BY <2>2, WriteHeadBytes DEF b, n
  <2>5. h.msg_type # "TCP_S2C" => /\ Contents(b)[n + 2][1] = h.msg_type
                                  /\ Contents(b)[n + 3][1] = h.sid
    BY <2>2, WriteHeadBytes DEF b, n
  <2> QED
    BY <2>3, <2>4, <2>5
<1>l. l = k + Len(body)
  BY DEF Length
<1>d. d = write_len(c, h)
  OBVIOUS
<1>p. PkgType(body) = h.pkg_type /\ n = LenSize(PkgType(body)) /\ k = IdsSize(m)
  OBVIOUS
<1> HIDE DEF b, k, l, n
<1>3. InOrder(c, MessageByte) /\ readable_bytes(c) = (n + k) + Len(body)
  BY <1>2, ByteTypes, CopyBytes
<1>4. \A i \in 1 .. (n + k) : Contents(c)[i] = Contents(b)[i]
  BY <1>2, ByteTypes, CopyBytes
<1>5. \A j \in 1 .. Len(body) : Contents(c)[(n + k) + j] = body[j]
  BY <1>2, ByteTypes, CopyBytes
<1> HIDE DEF c
<1>6. readable_bytes(c) = n + l /\ n + l \in Nat
  BY <1>1, <1>3, <1>l
<1>w. /\ InOrder(c, MessageByte) /\ h.pkg_type \in PkgTypes /\ l \in Nat
      /\ readable_bytes(c) = LenSize(h.pkg_type) + l
      /\ PkgHeader(h.pkg_type, l) = Header(m, body)
      /\ PkgHeader(h.pkg_type, l) \in FieldValue
  BY <1>1, <1>3, <1>6, <1>p
<1>7. InOrder(d, MessageByte) /\ readable_bytes(d) = n + l
  <2>1. InOrder(d, MessageByte) /\ readable_bytes(d) = readable_bytes(c)
    BY <1>d, <1>w, WriteLenBytes
  <2> QED
    BY <1>6, <2>1
<1>8. Contents(d)[1][1] = Header(m, body)
  <2>1. Contents(d)[1][1] = PkgHeader(h.pkg_type, l)
    BY <1>d, <1>w, WriteLenBytes
  <2> QED
    BY <1>w, <2>1
<1>9. \A i \in 1 .. (n + l) : i > n => Contents(d)[i] = Contents(c)[i]
  <2>1. \A i \in 1 .. readable_bytes(c) :
           i > LenSize(h.pkg_type) => Contents(d)[i] = Contents(c)[i]
    BY <1>d, <1>w, WriteLenBytes
  <2> QED
    BY <1>6, <1>p, <2>1
<1>10. \A i \in 1 .. (n + k) : i > n => Contents(d)[i] = Contents(b)[i]
  <2>1. \A i \in 1 .. (n + k) : i \in 1 .. (n + l)
    BY <1>1, <1>l
  <2> QED
    BY <1>4, <1>9, <2>1
<1>11. Contents(d)[n + 1][1] = m.msg_id
  <2>1. n + 1 \in 1 .. (n + k) /\ n + 1 > n
    BY <1>1
  <2> QED
    BY <1>2, <1>10, <2>1
<1>12. m.client_msg = 0 => Contents(d)[n + 2][1] = m.msg_type /\ Contents(d)[n + 3][1] = m.sid
  <2> SUFFICES ASSUME m.client_msg = 0
               PROVE  Contents(d)[n + 2][1] = m.msg_type /\ Contents(d)[n + 3][1] = m.sid
    OBVIOUS
  <2>1. k = 6 /\ h.msg_type # "TCP_S2C" /\ h.msg_type = m.msg_type /\ h.sid = m.sid
    BY <1>p DEF IdsSize
  <2>2. n + 2 \in 1 .. (n + k) /\ n + 2 > n /\ n + 3 \in 1 .. (n + k) /\ n + 3 > n
    BY <1>1, <2>1
  <2> QED
    BY <1>2, <1>10, <2>1, <2>2
<1>13. \A i \in 1 .. Len(body) : Contents(d)[(n + k) + i] = body[i]
  <2>1. \A i \in 1 .. Len(body) : (n + k) + i \in 1 .. (n + l) /\ (n + k) + i > n
    BY <1>1, <1>l
  <2> QED
    BY <1>5, <1>9, <2>1
<1>14. HasRest(Contents(d), n, m, body)
  BY <1>11, <1>12, <1>13, <1>p DEF HasRest
<1> QED
  BY <1>7, <1>8, <1>14, <1>p DEF Packed, l

LEMMA TcpHeadFields ==
    ASSUME NEW t \in FieldValue, NEW id \in FieldValue, NEW sid \in FieldValue,
           NEW h, h = TcpHead(t, id, sid)
    PROVE  /\ h \in HeadType /\ h.protocol = "TCP" /\ h.msg_id = id
           /\ h.msg_type = t /\ h.sid = sid /\ h.client_msg = 0
<1>1. NoHead.client_msg = 0
  BY DEF NoHead
<1>2. "TCP" \in FieldValue
  BY DEF FieldValue
<1> QED
  BY <1>1, <1>2, NoHeadIsHead DEF TcpHead, HeadType

LEMMA ServerWritesKeeps == ASSUME ServerWrites PROVE MessageKept'
<1>1. PICK id \in Ids, sid \in Ids, body \in Bodies :
        /\ stage' = "written"
        /\ message' = [head |-> TcpHead("NODE_MSG", id, sid), body |-> body]
        /\ carrier' = send_msg(TcpHead("NODE_MSG", id, sid), body)
  BY DEF ServerWrites
<1> DEFINE m == TcpHead("NODE_MSG", id, sid)
           h == [m EXCEPT !.pkg_type = PkgType(body)]
<1>2. body \in Seq(MessageByte)
  BY ByteTypes
<1>3. /\ m \in HeadType /\ h \in HeadType
      /\ h.pkg_type = PkgType(body) /\ h.msg_id = m.msg_id
      /\ h.msg_type = m.msg_type /\ h.sid = m.sid
      /\ m.msg_type = "NODE_MSG" /\ m.client_msg = 0 /\ m.protocol = "TCP"
  <2>1. /\ 0 \in FieldValue /\ 1 \in FieldValue /\ "TCP" \in FieldValue
        /\ "NODE_MSG" \in FieldValue /\ "TCP_C2S" \in FieldValue /\ "TCP_S2C" \in FieldValue
        /\ "NODE_C2S" \in FieldValue
        /\ \A i \in Ids : i \in FieldValue
    BY DEF FieldValue
  <2>2. PkgType(body) \in FieldValue
    BY DEF FieldValue, PkgType, PkgTypes
  <2>3. /\ m \in HeadType /\ m.protocol = "TCP" /\ m.msg_type = "NODE_MSG" /\ m.client_msg = 0
    BY <2>1, TcpHeadFields
  <2> HIDE DEF m
  <2>4. /\ h \in HeadType /\ h.pkg_type = PkgType(body) /\ h.msg_id = m.msg_id
        /\ h.msg_type = m.msg_type /\ h.sid = m.sid
    BY <2>2, <2>3 DEF HeadType
  <2> QED
    BY <2>3, <2>4
<1>4. carrier' = write_len(copy(write_head(Fresh, h), body), h)
  BY <1>1 DEF send_msg
<1>5. FromServer(m)
  BY <1>3 DEF FromServer
<1>6. message' = [head |-> m, body |-> body]
  BY <1>1
<1> HIDE DEF m, h
<1>7. Packed(carrier', m, body)
  <2>1. /\ m.client_msg = 1 <=> h.msg_type = "TCP_S2C"
        /\ m.client_msg = 0 => h.msg_type = m.msg_type /\ h.sid = m.sid
    BY <1>3
  <2> QED
    BY <1>2, <1>3, <1>4, <1>5, <2>1, SendPacks
<1>8. message'.head = m /\ message'.body = body
      /\ message' \in [head : HeadType, body : Seq(MessageByte)]
  BY <1>2, <1>3, <1>6
<1> QED
  BY <1>1, <1>3, <1>5, <1>7, <1>8 DEF MessageKept, Packed

LEMMA ClientWritesKeeps == ASSUME ClientWrites PROVE MessageKept'
<1>1. PICK id \in Ids, body \in Bodies :
        /\ stage' = "written"
        /\ message' = [head |-> [TcpHead("TCP_C2S", id, 0) EXCEPT !.client_msg = 1],
                       body |-> body]
        /\ carrier' = client_send(id, body)
  BY DEF ClientWrites
<1> DEFINE m == [TcpHead("TCP_C2S", id, 0) EXCEPT !.client_msg = 1]
           h == [TcpHead("TCP_S2C", id, 0) EXCEPT !.pkg_type = PkgType(body)]
<1>2. body \in Seq(MessageByte)
  BY ByteTypes
<1>3. /\ m \in HeadType /\ h \in HeadType
      /\ h.pkg_type = PkgType(body) /\ h.msg_id = m.msg_id /\ h.msg_type = "TCP_S2C"
      /\ m.msg_type = "TCP_C2S" /\ m.client_msg = 1 /\ m.sid = 0 /\ m.protocol = "TCP"
  <2>1. /\ 0 \in FieldValue /\ 1 \in FieldValue /\ "TCP" \in FieldValue
        /\ "NODE_MSG" \in FieldValue /\ "TCP_C2S" \in FieldValue /\ "TCP_S2C" \in FieldValue
        /\ "NODE_C2S" \in FieldValue
        /\ \A i \in Ids : i \in FieldValue
    BY DEF FieldValue
  <2>2. PkgType(body) \in FieldValue
    BY DEF FieldValue, PkgType, PkgTypes
  <2> DEFINE c == TcpHead("TCP_C2S", id, 0)  s == TcpHead("TCP_S2C", id, 0)
  <2>3. /\ c \in HeadType /\ c.protocol = "TCP" /\ c.msg_type = "TCP_C2S" /\ c.sid = 0
        /\ c.msg_id = id
    BY <2>1, TcpHeadFields
  <2>4. s \in HeadType /\ s.msg_type = "TCP_S2C" /\ s.msg_id = id
    BY <2>1, TcpHeadFields
  <2> HIDE DEF c, s
  <2>5. /\ m \in HeadType /\ m.client_msg = 1 /\ m.protocol = "TCP" /\ m.msg_id = id
        /\ m.msg_type = "TCP_C2S" /\ m.sid = 0
    BY <2>1, <2>3 DEF HeadType, c
  <2>6. h \in HeadType /\ h.pkg_type = PkgType(body) /\ h.msg_id = id /\ h.msg_type = "TCP_S2C"
    BY <2>2, <2>4 DEF HeadType, s
  <2> QED
    BY <2>5, <2>6
<1>4. carrier' = write_len(copy(write_head(Fresh, h), body), h)
  BY <1>1 DEF client_send
<1>5. FromClient(m)
  BY <1>3 DEF FromClient
<1>6. message' = [head |-> m, body |-> body]
  BY <1>1
<1> HIDE DEF m, h
<1>7. Packed(carrier', m, body)
  <2>1. /\ m.client_msg = 1 <=> h.msg_type = "TCP_S2C"
        /\ m.client_msg = 0 => h.msg_type = m.msg_type /\ h.sid = m.sid
    BY <1>3
  <2> QED
    BY <1>2, <1>3, <1>4, <1>5, <2>1, SendPacks
<1>8. message'.head = m /\ message'.body = body
      /\ message' \in [head : HeadType, body : Seq(MessageByte)]
  BY <1>2, <1>3, <1>6
<1> QED
  BY <1>1, <1>3, <1>5, <1>7, <1>8 DEF MessageKept, Packed

LEMMA TransmitKeeps == ASSUME MessageKept, Transmit PROVE MessageKept'
<1> DEFINE c == Contents(carrier)
<1>1. PICK sid \in Ids :
        /\ stage' = "written"
        /\ message' = [message EXCEPT !.head =
                         [[msg_head EXCEPT !.msg_type = "NODE_C2S", !.sid = sid]
                          EXCEPT !.client_msg = 0]]
        /\ carrier' = send_msg([msg_head EXCEPT !.msg_type = "NODE_C2S", !.sid = sid], c)
  BY DEF Transmit
<1>2. /\ msg_head = message.head /\ c = message.body
      /\ message.head \in HeadType /\ message.body \in Seq(MessageByte)
      /\ message \in [head : HeadType, body : Seq(MessageByte)]
      /\ msg_head.protocol = "TCP"
  BY DEF MessageKept, Transmit
<1> DEFINE body == message.body
           g == [msg_head EXCEPT !.msg_type = "NODE_C2S", !.sid = sid]
           m == [g EXCEPT !.client_msg = 0]
           h == [g EXCEPT !.pkg_type = PkgType(body)]
<1>3. /\ m \in HeadType /\ h \in HeadType
      /\ h.pkg_type = PkgType(body) /\ h.msg_id = m.msg_id
      /\ h.msg_type = m.msg_type /\ h.sid = m.sid
      /\ m.msg_type = "NODE_C2S" /\ m.client_msg = 0 /\ m.protocol = "TCP"
  <2>1. /\ 0 \in FieldValue /\ 1 \in FieldValue /\ "TCP" \in FieldValue
        /\ "NODE_MSG" \in FieldValue /\ "TCP_C2S" \in FieldValue /\ "TCP_S2C" \in FieldValue
        /\ "NODE_C2S" \in FieldValue
        /\ \A i \in Ids : i \in FieldValue
    BY DEF FieldValue
  <2>2. PkgType(body) \in FieldValue
    BY DEF FieldValue, PkgType, PkgTypes
  <2>3. g \in HeadType /\ g.protocol = "TCP" /\ g.msg_type = "NODE_C2S"
    BY <1>2, <2>1 DEF HeadType
  <2> HIDE DEF g
  <2>4. /\ m \in HeadType /\ m.client_msg = 0 /\ m.msg_type = g.msg_type /\ m.sid = g.sid
        /\ m.protocol = g.protocol /\ m.msg_id = g.msg_id
    BY <2>1, <2>3 DEF HeadType
  <2>5. /\ h \in HeadType /\ h.pkg_type = PkgType(body) /\ h.msg_type = g.msg_type
        /\ h.sid = g.sid /\ h.msg_id = g.msg_id
    BY <2>2, <2>3 DEF HeadType
  <2> QED
    BY <2>3, <2>4, <2>5
<1>4. carrier' = write_len(copy(write_head(Fresh, h), body), h)
  BY <1>1, <1>2 DEF send_msg
<1>5. FromServer(m)
  BY <1>3 DEF FromServer
<1>6. message' = [message EXCEPT !.head = m]
  BY <1>1
<1> HIDE DEF m, h, g, body, c
<1>7. Packed(carrier', m, body)
  <2>0. body \in Seq(MessageByte)
    BY <1>2 DEF body
  <2>1. /\ m.client_msg = 1 <=> h.msg_type = "TCP_S2C"
        /\ m.client_msg = 0 => h.msg_type = m.msg_type /\ h.sid = m.sid
    BY <1>3
  <2> QED
    BY <1>3, <1>4, <1>5, <2>0, <2>1, SendPacks
<1>8. message'.head = m /\ message'.body = body
      /\ message' \in [head : HeadType, body : Seq(MessageByte)]
  BY <1>2, <1>3, <1>6 DEF body
<1> QED
  BY <1>1, <1>3, <1>5, <1>7, <1>8 DEF MessageKept, Packed

LEMMA RecycleKeeps == ASSUME Recycle PROVE MessageKept'
<1>1. /\ stage' = "none" /\ message' = [head |-> NoHead, body |-> << >>]
  BY DEF Recycle
<1>2. << >> \in Seq(MessageByte)
  OBVIOUS
<1> QED
  BY <1>1, <1>2, NoHeadIsHead DEF MessageKept

LEMMA ResetReadable == InOrder(reset(Fresh), MessageByte) /\ readable_bytes(reset(Fresh)) = 0
<1>1. InOrder(Fresh, MessageByte) /\ Fresh.use_times = 0
  BY FreshBuffer, ByteTypes
<1>2. InOrder(reset(Fresh), MessageByte) /\ Contents(reset(Fresh)) = << >>
  BY <1>1, ByteTypes, ResetEmpties
<1>3. Len(Contents(reset(Fresh))) = readable_bytes(reset(Fresh))
  BY <1>2, ContentsBytes
<1>4. Len(<< >>) = 0
  OBVIOUS
<1> QED
  BY <1>2, <1>3, <1>4

\* A message whose first bytes are the same is the same message.
LEMMA SameRest ==
    ASSUME NEW c, NEW m, NEW body \in Seq(MessageByte), NEW n \in Nat, HasRest(c, n, m, body),
           FromClient(m) \/ FromServer(m),
           NEW d, NEW k \in Nat,
           \A i \in 1 .. (n + Length(m, body)) : i > n => d[k + i] = c[i]
    PROVE  HasRest(d, k + n, m, body)
<1> DEFINE s == IdsSize(m)  l == Len(body)
<1>1. s \in {1, 6} /\ l \in Nat
  BY Lengths
<1>2. Length(m, body) = s + l /\ s = (IF m.client_msg = 1 THEN 1 ELSE 6)
  BY DEF Length, IdsSize
<1>3. /\ c[n + 1][1] = m.msg_id
      /\ m.client_msg = 0 => c[n + 2][1] = m.msg_type /\ c[n + 3][1] = m.sid
      /\ \A i \in 1 .. l : c[n + s + i] = body[i]
  BY DEF HasRest
<1> HIDE DEF s, l
<1>4. \A i \in 1 .. (s + l) : d[(k + n) + i] = c[n + i]
  <2> TAKE i \in 1 .. (s + l)
  <2>1. n + i \in 1 .. (n + Length(m, body)) /\ n + i > n /\ k + (n + i) = (k + n) + i
    BY <1>1, <1>2
  <2> QED
    BY <2>1
<1>5. d[(k + n) + 1][1] = m.msg_id
  <2>1. 1 \in 1 .. (s + l)
    BY <1>1
  <2> QED
    BY <1>3, <1>4, <2>1
<1>6. m.client_msg = 0 => d[(k + n) + 2][1] = m.msg_type /\ d[(k + n) + 3][1] = m.sid
  <2> SUFFICES ASSUME m.client_msg = 0
               PROVE  d[(k + n) + 2][1] = m.msg_type /\ d[(k + n) + 3][1] = m.sid
    OBVIOUS
  <2>1. 2 \in 1 .. (s + l) /\ 3 \in 1 .. (s + l)
    BY <1>1, <1>2
  <2> QED
    BY <1>3, <1>4, <2>1
<1>7. \A i \in 1 .. l : d[(k + n) + s + i] = body[i]
  <2> TAKE i \in 1 .. l
  <2>1. s + i \in 1 .. (s + l) /\ (k + n) + (s + i) = (k + n) + s + i /\ n + (s + i) = n + s + i
    BY <1>1
  <2> QED
    BY <1>3, <1>4, <2>1
<1> QED
  BY <1>5, <1>6, <1>7 DEF HasRest, s, l

LEMMA CrossAddresses ==
    ASSUME NEW b, NEW m, NEW body \in Seq(MessageByte), Packed(b, m, body),
           FromClient(m) \/ FromServer(m),
           NEW eid \in {1, 2}, NEW cid \in {1, 2}, NEW next \in {<< >>, Field(0, 2)},
           NEW d, d = copy(write_number(write_number(reset(Fresh), eid, 4), cid, 4),
                           Contents(b) \o next),
           NEW g, g.eid = eid, g.cid = cid,
           g.client_msg = m.client_msg, g.msg_id = m.msg_id,
           g.msg_type = m.msg_type, g.sid = m.sid
    PROVE  Addressed(d, g, body)
<1> DEFINE r == reset(Fresh)  b1 == write_number(r, eid, 4)  b2 == write_number(b1, cid, 4)
           c == Contents(b)  n == LenSize(PkgType(body))  l == Length(m, body)
           q == c \o next  k == n + l
<1>1. n \in {2, 4} /\ l \in Nat /\ l > 0 /\ k \in Nat /\ k > 0
  <2>1. n \in {2, 4} /\ l \in Nat /\ l > 0
    BY Lengths
  <2> HIDE DEF n, l
  <2> QED
    BY <2>1
<1>2. eid \in FieldValue /\ cid \in FieldValue /\ 4 \in Nat \ {0}
  BY DEF FieldValue
<1>3. InOrder(r, MessageByte) /\ readable_bytes(r) = 0
  BY ResetReadable
<1>d. d = copy(b2, q)
  OBVIOUS
<1>e1. b1 = write_number(r, eid, 4)
  OBVIOUS
<1>e2. b2 = write_number(b1, cid, 4)
  OBVIOUS
<1>p. /\ InOrder(b, MessageByte) /\ readable_bytes(b) = k
      /\ c[1][1] = Header(m, body) /\ HasRest(c, n, m, body)
  BY DEF Packed
<1>q. q = c \o next
  OBVIOUS
<1>c. c \in Seq(MessageByte) /\ Len(c) = k
  BY <1>p, ContentsBytes
<1>k. k = n + l
  OBVIOUS
<1> HIDE DEF r, b1, b2, c, q, n, l, k
<1>4. InOrder(b1, MessageByte) /\ readable_bytes(b1) = 4 /\ Contents(b1)[1][1] = eid
  <2>a. InOrder(r, MessageByte) /\ eid \in FieldValue /\ 4 \in Nat \ {0}
    BY <1>2, <1>3
  <2>1. InOrder(b1, MessageByte) /\ readable_bytes(b1) = readable_bytes(r) + 4
    BY <1>e1, <2>a, WriteFieldBytes
  <2>2. Contents(b1)[readable_bytes(r) + 1][1] = eid
    BY <1>e1, <2>a, WriteFieldBytes
  <2> QED
    BY <1>3, <2>1, <2>2
<1>5. /\ InOrder(b2, MessageByte) /\ readable_bytes(b2) = 8
      /\ Contents(b2)[1][1] = eid /\ Contents(b2)[5][1] = cid
  <2>a. InOrder(b1, MessageByte) /\ cid \in FieldValue /\ 4 \in Nat \ {0}
    BY <1>2, <1>4
  <2>1. InOrder(b2, MessageByte) /\ readable_bytes(b2) = readable_bytes(b1) + 4
    BY <1>e2, <2>a, WriteFieldBytes
  <2>2. \A i \in 1 .. readable_bytes(b1) : Contents(b2)[i] = Contents(b1)[i]
    BY <1>e2, <2>a, WriteFieldBytes
  <2>3. Contents(b2)[readable_bytes(b1) + 1][1] = cid
    BY <1>e2, <2>a, WriteFieldBytes
  <2> QED
    BY <1>4, <2>1, <2>2, <2>3
<1>6. next \in Seq(MessageByte) /\ Len(next) \in Nat
  <2>1. Field(0, 2) \in Seq(MessageByte)
    <3>1. 0 \in FieldValue /\ 2 \in Nat
      BY DEF FieldValue
    <3>2. \A i \in 1 .. 2 : <<0, i>> \in MessageByte
      BY <3>1, FieldBytesOfMessage
    <3> QED
      BY <3>1, <3>2, FieldOf
  <2>2. << >> \in Seq(MessageByte)
    OBVIOUS
  <2>3. next \in Seq(MessageByte)
    BY <2>1, <2>2
  <2> QED
    BY <2>3, LenProperties
<1>7. /\ q \in Seq(MessageByte) /\ Len(q) = k + Len(next)
      /\ \A i \in 1 .. k : q[i] = c[i]
  <2>1. /\ q \in Seq(MessageByte) /\ Len(q) = Len(c) + Len(next)
        /\ \A i \in 1 .. (Len(c) + Len(next)) : q[i] = IF i <= Len(c) THEN c[i] ELSE next[i - Len(c)]
    BY <1>6, <1>c, <1>q, ConcatProperties
  <2>2. \A i \in 1 .. k : i \in 1 .. (k + Len(next)) /\ i <= k
    BY <1>1, <1>6
  <2> QED
    BY <1>c, <2>1, <2>2
<1>8. InOrder(d, MessageByte) /\ readable_bytes(d) = 8 + (k + Len(next))
  <2>a. InOrder(b2, MessageByte) /\ q \in Seq(MessageByte) /\ Unset \in MessageByte
    BY <1>5, <1>7, ByteTypes
  <2>1. InOrder(d, MessageByte) /\ readable_bytes(d) = readable_bytes(b2) + Len(q)
    BY <1>d, <2>a, CopyBytes
  <2> QED
    BY <1>5, <1>7, <2>1
<1>9. \A i \in 1 .. 8 : Contents(d)[i] = Contents(b2)[i]
  <2>a. InOrder(b2, MessageByte) /\ q \in Seq(MessageByte) /\ Unset \in MessageByte
    BY <1>5, <1>7, ByteTypes
  <2>1. \A i \in 1 .. readable_bytes(b2) : Contents(d)[i] = Contents(b2)[i]
    BY <1>d, <2>a, CopyBytes
  <2> QED
    BY <1>5, <2>1
<1>10. \A i \in 1 .. k : Contents(d)[8 + i] = c[i]
  <2>a. InOrder(b2, MessageByte) /\ q \in Seq(MessageByte) /\ Unset \in MessageByte
    BY <1>5, <1>7, ByteTypes
  <2>1. \A j \in 1 .. Len(q) : Contents(d)[readable_bytes(b2) + j] = q[j]
    BY <1>d, <2>a, CopyBytes
  <2>2. \A i \in 1 .. k : i \in 1 .. Len(q)
    BY <1>1, <1>6, <1>7
  <2> QED
    BY <1>5, <1>7, <2>1, <2>2
<1>11. HasRest(Contents(d), 8 + n, m, body)
  <2>1. n \in Nat /\ 8 \in Nat
    BY <1>1
  <2>2. \A i \in 1 .. (n + Length(m, body)) : i > n => Contents(d)[8 + i] = c[i]
    BY <1>10, <1>k DEF l
  <2> QED
    BY <1>p, <2>1, <2>2, SameRest
<1>12. Contents(d)[9][1] = Header(m, body)
  <2>1. 1 \in 1 .. k /\ 8 + 1 = 9
    BY <1>1
  <2> QED
    BY <1>10, <1>p, <2>1
<1>13. readable_bytes(d) >= 8 + n + l
  BY <1>1, <1>6, <1>8, <1>k
<1>14. /\ Length(g, body) = l /\ Header(g, body) = Header(m, body)
       /\ HasRest(Contents(d), 8 + n, g, body)
  BY <1>11 DEF Length, Header, HasRest, IdsSize, l
<1>15. Contents(d)[1][1] = g.eid /\ Contents(d)[5][1] = g.cid
  BY <1>5, <1>9
<1> QED
  BY <1>8, <1>12, <1>13, <1>14, <1>15 DEF Addressed, n

LEMMA CrossKeeps == ASSUME MessageKept, Cross PROVE MessageKept'
<1>1. PICK eid \in {1, 2}, cid \in {1, 2}, next \in {<< >>, Field(0, 2)} :
        /\ stage = "written" /\ stage' = "sent"
        /\ carrier' = copy(write_number(write_number(reset(Fresh), eid, 4), cid, 4),
                           Contents(carrier) \o next)
        /\ message' = [message EXCEPT !.head.eid = eid, !.head.cid = cid,
                                      !.head.pkg_type = PkgType(message.body)]
  BY DEF Cross
<1> DEFINE m == message.head  body == message.body  d == carrier'
           g == [m EXCEPT !.eid = eid, !.cid = cid, !.pkg_type = PkgType(body)]
<1>2. /\ message \in [head : HeadType, body : Seq(MessageByte)]
      /\ m \in HeadType /\ body \in Seq(MessageByte)
      /\ FromClient(m) \/ FromServer(m)
      /\ m.protocol = "TCP"
      /\ Packed(carrier, m, body)
  BY <1>1 DEF MessageKept
<1>3. eid \in FieldValue /\ cid \in FieldValue /\ PkgType(body) \in FieldValue
  BY DEF FieldValue, PkgType, PkgTypes
<1>4. /\ g \in HeadType /\ g.eid = eid /\ g.cid = cid /\ g.pkg_type = PkgType(body)
      /\ g.protocol = m.protocol /\ g.client_msg = m.client_msg /\ g.msg_id = m.msg_id
      /\ g.msg_type = m.msg_type /\ g.sid = m.sid
  BY <1>2, <1>3 DEF HeadType
<1>5. message' = [message EXCEPT !.head = g]
  BY <1>1
<1> HIDE DEF g
<1>6. /\ message' \in [head : HeadType, body : Seq(MessageByte)]
      /\ message'.head = g /\ message'.body = body
  BY <1>2, <1>4, <1>5
<1> HIDE DEF m, body, d
<1>7. Addressed(d, g, body)
  <2>1. d = copy(write_number(write_number(reset(Fresh), eid, 4), cid, 4),
                 Contents(carrier) \o next)
    BY <1>1 DEF d
  <2>2. /\ body \in Seq(MessageByte) /\ Packed(carrier, m, body)
        /\ FromClient(m) \/ FromServer(m)
    BY <1>2
  <2> QED
    BY <1>4, <2>1, <2>2, CrossAddresses
<1>8. FromClient(g) \/ FromServer(g)
  BY <1>2, <1>4 DEF FromClient, FromServer
<1> QED
  BY <1>1, <1>2, <1>4, <1>6, <1>7, <1>8 DEF MessageKept, d

(***************************************************************************)
(* handle_pack puts the marks over the first two bytes of the head and     *)
(* leaves what is before and behind the head, in place or in a copy.       *)
(***************************************************************************)
HasMarks(d, b, mk, n, l) ==
    /\ InOrder(d, MessageByte) /\ readable_bytes(d) = 8 + n + l
    /\ \A i \in 1 .. 8 : Contents(d)[i] = Contents(b)[i]
    /\ Contents(d)[9] = mk[1] /\ Contents(d)[10] = mk[2]
    /\ \A i \in 1 .. l : Contents(d)[8 + n + i] = Contents(b)[8 + n + i]

LEMMA MarkedUnpacks ==
    ASSUME NEW b, NEW m, NEW body \in Seq(MessageByte), Addressed(b, m, body),
           FromClient(m) \/ FromServer(m),
           NEW n, n = LenSize(PkgType(body)), NEW l, l = Length(m, body),
           NEW mk, mk[1][1] = [protocol |-> "TCP", pkg_type |-> PkgType(body)],
           mk[2][1] = m.client_msg,
           NEW d, HasMarks(d, b, mk, n, l)
    PROVE  Unpacked(d, m, body)
<1> DEFINE c == Contents(b)  e == Contents(d)
<1>1. /\ c[1][1] = m.eid /\ c[5][1] = m.cid /\ HasRest(c, 8 + n, m, body)
  BY DEF Addressed
<1>2. e[1][1] = m.eid /\ e[5][1] = m.cid
  <2>1. 1 \in 1 .. 8 /\ 5 \in 1 .. 8
    OBVIOUS
  <2> QED
    BY <1>1, <2>1 DEF HasMarks
<1>3. n \in {2, 4} /\ l \in Nat
  BY Lengths
<1>4. HasRest(e, 8 + n, m, body)
  <2>1. 8 + n \in Nat /\ 0 \in Nat /\ 0 + (8 + n) = 8 + n
    BY <1>3
  <2>2. ASSUME NEW i \in 1 .. ((8 + n) + Length(m, body)), i > 8 + n
        PROVE  e[0 + i] = c[i]
    <3> DEFINE j == i - (8 + n)
    <3>1. Length(m, body) = l
      OBVIOUS
    <3>2. i \in 1 .. ((8 + n) + l) /\ i > 8 + n /\ n \in Nat /\ l \in Nat
      BY <1>3, <2>2, <3>1
    <3>3. i \in Nat /\ j \in Nat /\ j >= 1 /\ j <= l
      BY <3>2
    <3>4. i = 8 + n + j /\ 0 + i = i
      BY <3>2
    <3> QED
      BY <3>3, <3>4 DEF HasMarks
  <2> HIDE DEF c, e
  <2>3. HasRest(e, 0 + (8 + n), m, body)
    BY <1>1, <2>1, <2>2, SameRest
  <2> QED
    BY <2>1, <2>3
<1> QED
  BY <1>2, <1>4 DEF Unpacked, HasMarks

HasWrittenOver(y, b, data) ==
    /\ y \in BufferOf(MessageByte) /\ y.init_offset = b.init_offset
    /\ y.read_index = b.read_index
    /\ Len(y.bytes) = Len(b.bytes)
    /\ \A i \in 1 .. Len(b.bytes) :
          y.bytes[i] = (IF i - b.read_index \in 1 .. Len(data)
                        THEN data[i - b.read_index] ELSE b.bytes[i])

LEMMA MarkedBytes ==
    ASSUME NEW b, InOrder(b, MessageByte),
           NEW data, data \in Seq(MessageByte), Len(data) <= readable_bytes(b),
           NEW y, y = copy(set_write_idx(b, b.read_index), data)
    PROVE  HasWrittenOver(y, b, data)
<1>1. y \in BufferOf(MessageByte)
  BY OverwrittenBytes
<1>2. y.init_offset = b.init_offset
  BY OverwrittenBytes
<1>3. y.read_index = b.read_index
  BY OverwrittenBytes
<1>4. Len(y.bytes) = Len(b.bytes)
  BY OverwrittenBytes
<1>5. \A i \in 1 .. Len(b.bytes) :
         y.bytes[i] = (IF i - b.read_index \in 1 .. Len(data)
                       THEN data[i - b.read_index] ELSE b.bytes[i])
  BY OverwrittenBytes
<1> QED
  BY <1>1, <1>2, <1>3, <1>4, <1>5 DEF HasWrittenOver

LEMMA ForemostOfMessage ==
    ASSUME NEW b, InOrder(b, MessageByte), NEW s \in Nat, s <= readable_bytes(b)
    PROVE  /\ Foremost(b, s) \in Seq(MessageByte)
           /\ Len(Foremost(b, s)) = s
           /\ \A i \in 1 .. s : Foremost(b, s)[i] = Contents(b)[i]
  BY ForemostPart

LEMMA MarksInPlace ==
    ASSUME NEW b, InOrder(b, MessageByte), readable_bytes(b) >= 10,
           NEW mk \in Seq(MessageByte), Len(mk) = 2,
           NEW ids, ids = Advance(b, 8),
           NEW y, y = copy(set_write_idx(ids, ids.read_index), mk),
           NEW d, d = set_read_idx(set_write_idx(y, b.write_index), b.read_index)
    PROVE  /\ InOrder(d, MessageByte) /\ readable_bytes(d) = readable_bytes(b)
           /\ \A i \in 1 .. readable_bytes(b) :
                 Contents(d)[i] = (IF i \in {9, 10} THEN mk[i - 8] ELSE Contents(b)[i])
<1> DEFINE r == b.read_index  k == readable_bytes(b)
<1>1. /\ b \in BufferOf(MessageByte) /\ b.init_offset = InitOffset /\ r \in Nat
      /\ b.write_index \in Nat /\ b.bytes \in Seq(MessageByte) /\ Len(b.bytes) \in Nat
      /\ InitOffset \in Nat /\ InitOffset <= r /\ r <= b.write_index
      /\ b.write_index <= Len(b.bytes) /\ k = b.write_index - r /\ k \in Nat /\ k >= 10
  BY LenProperties, ByteBufferAssumption DEF InOrder, BufferOf, readable_bytes
<1>2. /\ ids.init_offset = InitOffset /\ ids.read_index = r + 8 /\ ids.bytes = b.bytes
  BY <1>1 DEF Advance, BufferOf
<1>3. InOrder(ids, MessageByte) /\ readable_bytes(ids) = k - 8
  BY <1>1, AdvanceInOrder, AdvanceReadable
<1>4. d = set_read_idx(set_write_idx(y, b.write_index), r)
  OBVIOUS
<1> HIDE DEF r, k
<1>5. /\ y \in BufferOf(MessageByte) /\ y.init_offset = ids.init_offset
      /\ y.read_index = ids.read_index
      /\ Len(y.bytes) = Len(ids.bytes)
      /\ \A i \in 1 .. Len(ids.bytes) :
            y.bytes[i] = (IF i - ids.read_index \in 1 .. 2
                          THEN mk[i - ids.read_index] ELSE ids.bytes[i])
  <2>1. InOrder(ids, MessageByte)
    BY <1>3
  <2>2. Len(mk) <= readable_bytes(ids)
    BY <1>1, <1>3
  <2>3. HasWrittenOver(y, ids, mk)
    BY <2>1, <2>2, MarkedBytes
  <2> QED
    BY <2>3 DEF HasWrittenOver
<1>7. /\ d \in BufferOf(MessageByte) /\ d.init_offset = InitOffset
      /\ d.read_index = r /\ d.write_index = b.write_index
      /\ d.bytes = y.bytes
  BY <1>1, <1>2, <1>4, <1>5 DEF set_write_idx, set_read_idx, BufferOf
<1>8. InOrder(d, MessageByte)
  BY <1>1, <1>2, <1>5, <1>7 DEF InOrder
<1>9. readable_bytes(d) = k
  BY <1>1, <1>7 DEF readable_bytes
<1>10. \A i \in 1 .. k : Contents(d)[i] = d.bytes[r + i]
  BY <1>7, <1>8, <1>9, ContentsBytes
<1>11. \A i \in 1 .. k : Contents(b)[i] = b.bytes[r + i]
  BY ContentsBytes DEF r, k
<1>12. ASSUME NEW i \in 1 .. k
       PROVE  Contents(d)[i] = (IF i \in {9, 10} THEN mk[i - 8] ELSE Contents(b)[i])
  <2>1. /\ r + i \in 1 .. Len(b.bytes) /\ (r + i) - (r + 8) = i - 8
        /\ i - 8 \in 1 .. 2 <=> i \in {9, 10}
    BY <1>1
  <2>2. y.bytes[r + i] = (IF i - 8 \in 1 .. 2 THEN mk[i - 8] ELSE b.bytes[r + i])
    <3> DEFINE j == r + i
    <3>1. j \in 1 .. Len(ids.bytes) /\ j - ids.read_index = i - 8
      BY <1>2, <2>1
    <3> HIDE DEF j
    <3>2. y.bytes[j] = (IF i - 8 \in 1 .. 2 THEN mk[i - 8] ELSE b.bytes[j])
      BY <1>2, <1>5, <3>1
    <3> QED
      BY <3>2 DEF j
  <2> QED
    BY <1>7, <1>10, <1>11, <2>1, <2>2
<1> QED
  BY <1>8, <1>9, <1>12 DEF k

LEMMA MarksInCopy ==
    ASSUME NEW b, InOrder(b, MessageByte),
           NEW n \in {2, 4}, NEW l \in Nat, readable_bytes(b) >= 8 + n + l,
           NEW mk \in Seq(MessageByte), Len(mk) = 2,
           NEW ids, ids = Advance(b, 8),
           NEW d, d = copy(copy(copy(reset(Fresh), Foremost(b, 8)),
                                mk \o Field(0, n - 2)),
                           Foremost(Advance(ids, n), l))
    PROVE  HasMarks(d, b, mk, n, l)
<1> DEFINE r == reset(Fresh)  f == Foremost(b, 8)  x == copy(r, f)
           o == Field(0, n - 2)  q == mk \o o  y == copy(x, q)
           a == Advance(ids, n)  g == Foremost(a, l)  k == readable_bytes(b)
           c == Contents(b)
<1>1. k \in Nat /\ 8 <= k /\ n <= k - 8 /\ l <= (k - 8) - n /\ 8 \in Nat /\ n \in Nat
      /\ n - 2 \in Nat
  BY ContentsBytes
<1>2. InOrder(r, MessageByte) /\ readable_bytes(r) = 0
  BY ResetReadable
<1>d. d = copy(y, g)
  OBVIOUS
<1>x. x = copy(r, f)
  OBVIOUS
<1>y. y = copy(x, q)
  OBVIOUS
<1>q. q = mk \o o
  OBVIOUS
<1> HIDE DEF r, x, y, q, k, c
<1>3. f \in Seq(MessageByte) /\ Len(f) = 8 /\ \A i \in 1 .. 8 : f[i] = c[i]
  <2>a. 8 \in Nat /\ 8 <= readable_bytes(b)
    BY <1>1 DEF k
  <2>b. f = Foremost(b, 8)
    OBVIOUS
  <2> HIDE DEF f
  <2>1. f \in Seq(MessageByte) /\ Len(f) = 8
    BY <2>a, <2>b, ForemostOfMessage
  <2>2. \A i \in 1 .. 8 : f[i] = Contents(b)[i]
    BY <2>a, <2>b, ForemostOfMessage
  <2> QED
    BY <2>1, <2>2 DEF c
<1> HIDE DEF f
<1>4. InOrder(x, MessageByte) /\ readable_bytes(x) = 8
  <2>a. InOrder(r, MessageByte) /\ f \in Seq(MessageByte) /\ Unset \in MessageByte
    BY <1>2, <1>3, ByteTypes
  <2>1. InOrder(x, MessageByte) /\ readable_bytes(x) = readable_bytes(r) + Len(f)
    BY <1>x, <2>a, CopyBytes
  <2> QED
    BY <1>2, <1>3, <2>1
<1>5. \A i \in 1 .. 8 : Contents(x)[i] = c[i]
  <2>a. InOrder(r, MessageByte) /\ f \in Seq(MessageByte) /\ Unset \in MessageByte
    BY <1>2, <1>3, ByteTypes
  <2>1. \A j \in 1 .. Len(f) : Contents(x)[readable_bytes(r) + j] = f[j]
    BY <1>x, <2>a, CopyBytes
  <2>2. \A j \in 1 .. 8 : 0 + j = j
    OBVIOUS
  <2> QED
    BY <1>2, <1>3, <2>1, <2>2
<1>6. o \in Seq(MessageByte) /\ Len(o) = n - 2
  <2>1. 0 \in FieldValue
    BY DEF FieldValue
  <2>2. \A i \in 1 .. (n - 2) : <<0, i>> \in MessageByte
    BY <1>1, <2>1, FieldBytesOfMessage
  <2> QED
    BY <1>1, <2>2, FieldOf
<1> HIDE DEF o
<1>7. q \in Seq(MessageByte) /\ Len(q) = n /\ q[1] = mk[1] /\ q[2] = mk[2]
  <2>1. /\ q \in Seq(MessageByte) /\ Len(q) = Len(mk) + Len(o)
        /\ \A i \in 1 .. (Len(mk) + Len(o)) : q[i] = IF i <= Len(mk) THEN mk[i] ELSE o[i - Len(mk)]
    BY <1>6, <1>q, ConcatProperties
  <2>2. Len(mk) + Len(o) = n /\ 1 \in 1 .. n /\ 2 \in 1 .. n /\ 1 <= Len(mk) /\ 2 <= Len(mk)
    BY <1>1, <1>6
  <2> QED
    BY <2>1, <2>2
<1>8. InOrder(y, MessageByte) /\ readable_bytes(y) = 8 + n
  <2>a. InOrder(x, MessageByte) /\ q \in Seq(MessageByte) /\ Unset \in MessageByte
    BY <1>4, <1>7, ByteTypes
  <2>1. InOrder(y, MessageByte) /\ readable_bytes(y) = readable_bytes(x) + Len(q)
    BY <1>y, <2>a, CopyBytes
  <2> QED
    BY <1>4, <1>7, <2>1
<1>9. /\ \A i \in 1 .. 8 : Contents(y)[i] = c[i]
      /\ Contents(y)[9] = mk[1] /\ Contents(y)[10] = mk[2]
  <2>a. InOrder(x, MessageByte) /\ q \in Seq(MessageByte) /\ Unset \in MessageByte
    BY <1>4, <1>7, ByteTypes
  <2>1. \A i \in 1 .. readable_bytes(x) : Contents(y)[i] = Contents(x)[i]
    BY <1>y, <2>a, CopyBytes
  <2>2. \A j \in 1 .. Len(q) : Contents(y)[readable_bytes(x) + j] = q[j]
    BY <1>y, <2>a, CopyBytes
  <2>3. 1 \in 1 .. n /\ 2 \in 1 .. n /\ 8 + 1 = 9 /\ 8 + 2 = 10
    OBVIOUS
  <2>4. Contents(y)[9] = q[1] /\ Contents(y)[10] = q[2]
    BY <1>4, <1>7, <2>2, <2>3
  <2> QED
    BY <1>4, <1>5, <1>7, <2>1, <2>4
<1>10. InOrder(ids, MessageByte) /\ readable_bytes(ids) = k - 8
       /\ \A i \in 1 .. (k - 8) : Contents(ids)[i] = c[8 + i]
  BY <1>1, AdvancedBytes DEF k, c
<1>11. InOrder(a, MessageByte) /\ readable_bytes(a) = (k - 8) - n
       /\ \A i \in 1 .. ((k - 8) - n) : Contents(a)[i] = Contents(ids)[n + i]
  <2>a. InOrder(ids, MessageByte) /\ n \in Nat /\ n <= readable_bytes(ids)
    BY <1>1, <1>10
  <2>b. a = Advance(ids, n)
    OBVIOUS
  <2> HIDE DEF a
  <2>1. InOrder(a, MessageByte) /\ readable_bytes(a) = readable_bytes(ids) - n
    BY <2>a, <2>b, AdvancedBytes
  <2>2. \A i \in 1 .. (readable_bytes(ids) - n) : Contents(a)[i] = Contents(ids)[n + i]
    BY <2>a, <2>b, AdvancedBytes
  <2> QED
    BY <1>10, <2>1, <2>2
<1> HIDE DEF a
<1>12. g \in Seq(MessageByte) /\ Len(g) = l /\ \A i \in 1 .. l : g[i] = c[8 + n + i]
  <2>1. g \in Seq(MessageByte) /\ Len(g) = l /\ \A i \in 1 .. l : g[i] = Contents(a)[i]
    BY <1>1, <1>11, ForemostPart
  <2>2. \A i \in 1 .. l : i \in 1 .. ((k - 8) - n) /\ n + i \in 1 .. (k - 8)
                          /\ 8 + (n + i) = 8 + n + i
    BY <1>1
  <2> HIDE DEF g
  <2>3. ASSUME NEW i \in 1 .. l PROVE g[i] = c[8 + n + i]
    <3>1. g[i] = Contents(a)[i] /\ Contents(a)[i] = Contents(ids)[n + i]
      BY <1>11, <2>1, <2>2
    <3>2. Contents(ids)[n + i] = c[8 + (n + i)]
      BY <1>10, <2>2
    <3> QED
      BY <2>2, <3>1, <3>2
  <2> QED
    BY <2>1, <2>3
<1> HIDE DEF g
<1>13. InOrder(d, MessageByte) /\ readable_bytes(d) = 8 + n + l
  <2>a. InOrder(y, MessageByte) /\ g \in Seq(MessageByte) /\ Unset \in MessageByte
    BY <1>8, <1>12, ByteTypes
  <2>1. InOrder(d, MessageByte) /\ readable_bytes(d) = readable_bytes(y) + Len(g)
    BY <1>d, <2>a, CopyBytes
  <2> QED
    BY <1>8, <1>12, <2>1
<1>14. \A i \in 1 .. (8 + n) : Contents(d)[i] = Contents(y)[i]
  <2>a. InOrder(y, MessageByte) /\ g \in Seq(MessageByte) /\ Unset \in MessageByte
    BY <1>8, <1>12, ByteTypes
  <2>1. \A i \in 1 .. readable_bytes(y) : Contents(d)[i] = Contents(y)[i]
    BY <1>d, <2>a, CopyBytes
  <2> QED
    BY <1>8, <2>1
<1>15. \A i \in 1 .. l : Contents(d)[8 + n + i] = c[8 + n + i]
  <2>a. InOrder(y, MessageByte) /\ g \in Seq(MessageByte) /\ Unset \in MessageByte
    BY <1>8, <1>12, ByteTypes
  <2>1. \A j \in 1 .. Len(g) : Contents(d)[readable_bytes(y) + j] = g[j]
    BY <1>d, <2>a, CopyBytes
  <2> QED
    BY <1>8, <1>12, <2>1
<1>16. /\ \A i \in 1 .. 8 : i \in 1 .. (8 + n)
       /\ 9 \in 1 .. (8 + n) /\ 10 \in 1 .. (8 + n)
  BY <1>1
<1> QED
  BY <1>9, <1>13, <1>14, <1>15, <1>16 DEF c, HasMarks

LEMMA MarksAreBytes ==
    ASSUME NEW header, header.pkg_type \in PkgTypes, message.head.client_msg \in FieldValue,
           NEW mk, mk = Marks(header)
    PROVE  /\ mk \in Seq(MessageByte) /\ Len(mk) = 2
           /\ mk[1][1] = [protocol |-> "TCP", pkg_type |-> header.pkg_type]
           /\ mk[2][1] = message.head.client_msg
<1> DEFINE p == [protocol |-> "TCP", pkg_type |-> header.pkg_type]
           q == message.head.client_msg
           f == Field(p, 1)  g == Field(q, 1)
<1>1. p \in FieldValue /\ q \in FieldValue /\ 1 \in Nat
  BY DEF FieldValue
<1>2. mk = f \o g
  BY DEF Marks
<1>3. p = [protocol |-> "TCP", pkg_type |-> header.pkg_type]
  OBVIOUS
<1>4. q = message.head.client_msg
  OBVIOUS
<1> HIDE DEF p, q
<1>5. f \in Seq(MessageByte) /\ Len(f) = 1 /\ \A i \in 1 .. 1 : f[i] = <<p, i>>
  <2>1. \A i \in 1 .. 1 : <<p, i>> \in MessageByte
    BY <1>1, FieldBytesOfMessage
  <2> QED
    BY <1>1, <2>1, FieldOf
<1>6. g \in Seq(MessageByte) /\ Len(g) = 1 /\ \A i \in 1 .. 1 : g[i] = <<q, i>>
  <2>1. \A i \in 1 .. 1 : <<q, i>> \in MessageByte
    BY <1>1, FieldBytesOfMessage
  <2> QED
    BY <1>1, <2>1, FieldOf
<1> HIDE DEF f, g
<1>7. /\ f \o g \in Seq(MessageByte) /\ Len(f \o g) = Len(f) + Len(g)
      /\ \A i \in 1 .. (Len(f) + Len(g)) :
            (f \o g)[i] = IF i <= Len(f) THEN f[i] ELSE g[i - Len(f)]
  BY <1>5, <1>6, ConcatProperties
<1>8. mk[1] = <<p, 1>> /\ mk[2] = <<q, 1>> /\ mk \in Seq(MessageByte) /\ Len(mk) = 2
  BY <1>2, <1>5, <1>6, <1>7
<1> QED
  BY <1>3, <1>4, <1>8

\* In place, when nothing follows.
LEMMA UnpackedInPlace ==
    ASSUME NEW b, NEW m, NEW body \in Seq(MessageByte), Addressed(b, m, body),
           FromClient(m) \/ FromServer(m),
           NEW mk \in Seq(MessageByte), Len(mk) = 2,
           mk[1][1] = [protocol |-> "TCP", pkg_type |-> PkgType(body)],
           mk[2][1] = m.client_msg,
           readable_bytes(b) = 8 + LenSize(PkgType(body)) + Length(m, body),
           NEW ids, ids = Advance(b, 8),
           NEW y, y = copy(set_write_idx(ids, ids.read_index), mk),
           NEW d, d = set_read_idx(set_write_idx(y, b.write_index), b.read_index)
    PROVE  Unpacked(d, m, body)
<1> DEFINE n == LenSize(PkgType(body))  l == Length(m, body)
<1>1. n \in {2, 4} /\ l \in Nat /\ readable_bytes(b) = 8 + n + l
  BY Lengths
<1>2. InOrder(b, MessageByte)
  BY DEF Addressed
<1>n. n = LenSize(PkgType(body)) /\ l = Length(m, body)
  OBVIOUS
<1> HIDE DEF n, l
<1>3. readable_bytes(b) >= 10
  BY <1>1
<1>4. InOrder(d, MessageByte) /\ readable_bytes(d) = readable_bytes(b)
  BY <1>2, <1>3, MarksInPlace
<1>5. \A i \in 1 .. readable_bytes(b) :
         Contents(d)[i] = (IF i \in {9, 10} THEN mk[i - 8] ELSE Contents(b)[i])
  BY <1>2, <1>3, MarksInPlace
<1>6. \A i \in 1 .. 8 : Contents(d)[i] = Contents(b)[i]
  <2>1. \A i \in 1 .. 8 : i \in 1 .. readable_bytes(b) /\ i \notin {9, 10}
    BY <1>1
  <2> QED
    BY <1>5, <2>1
<1>7. Contents(d)[9] = mk[1] /\ Contents(d)[10] = mk[2]
  <2>1. 9 \in 1 .. readable_bytes(b) /\ 10 \in 1 .. readable_bytes(b) /\ 9 - 8 = 1 /\ 10 - 8 = 2
    BY <1>1
  <2> QED
    BY <1>5, <2>1
<1>8. \A i \in 1 .. l : Contents(d)[8 + n + i] = Contents(b)[8 + n + i]
  <2>1. \A i \in 1 .. l : 8 + n + i \in 1 .. readable_bytes(b) /\ 8 + n + i \notin {9, 10}
    BY <1>1
  <2> QED
    BY <1>5, <2>1
<1>9. HasMarks(d, b, mk, n, l)
  BY <1>1, <1>4, <1>6, <1>7, <1>8 DEF HasMarks
<1> QED
  BY <1>9, <1>n, MarkedUnpacks

\* In a copy, when another message follows.
LEMMA UnpackedInCopy ==
    ASSUME NEW b, NEW m, NEW body \in Seq(MessageByte), Addressed(b, m, body),
           FromClient(m) \/ FromServer(m),
           NEW mk \in Seq(MessageByte), Len(mk) = 2,
           mk[1][1] = [protocol |-> "TCP", pkg_type |-> PkgType(body)],
           mk[2][1] = m.client_msg,
           NEW n, n = LenSize(PkgType(body)), NEW l, l = Length(m, body),
           NEW ids, ids = Advance(b, 8),
           NEW d, d = copy(copy(copy(reset(Fresh), Foremost(b, 8)),
                                mk \o Field(0, n - 2)),
                           Foremost(Advance(ids, n), l))
    PROVE  Unpacked(d, m, body)
<1>1. n \in {2, 4} /\ l \in Nat
  BY Lengths
<1>2. InOrder(b, MessageByte) /\ readable_bytes(b) >= 8 + n + l
  BY DEF Addressed
<1>3. HasMarks(d, b, mk, n, l)
  BY <1>1, <1>2, MarksInCopy
<1> QED
  BY <1>3, MarkedUnpacks

LEMMA HandlePackKeeps == ASSUME MessageKept, HandlePack PROVE MessageKept'
<1> DEFINE m == message.head  body == message.body  b == carrier  d == carrier'
           ids == Advance(b, 8)  header == Foremost(ids, 1)[1][1]
           n == LenSize(PkgType(body))  l == Length(m, body)  mk == Marks(header)
           y == copy(set_write_idx(ids, ids.read_index), mk)
<1>1. /\ message \in [head : HeadType, body : Seq(MessageByte)]
      /\ m \in HeadType /\ body \in Seq(MessageByte)
      /\ FromClient(m) \/ FromServer(m)
      /\ m.protocol = "TCP" /\ m.pkg_type = PkgType(body)
      /\ Addressed(b, m, body) /\ UNCHANGED message
  BY DEF MessageKept, HandlePack
<1>2. n \in {2, 4} /\ l \in Nat /\ l > 0 /\ PkgType(body) \in PkgTypes
  BY <1>1, Lengths
<1>3. /\ InOrder(b, MessageByte) /\ readable_bytes(b) >= 8 + n + l
      /\ Contents(b)[9][1] = Header(m, body)
  BY <1>1 DEF Addressed
<1>4. header = Header(m, body)
  <2>1. 8 \in Nat /\ 1 \in Nat \ {0} /\ 8 + 1 <= readable_bytes(b) /\ 8 + 1 = 9
    <3> HIDE DEF n, l
    <3>1. readable_bytes(b) \in Nat
      BY <1>3, ContentsBytes
    <3> QED
      BY <1>2, <1>3, <3>1
  <2>2. Foremost(Advance(b, 8), 1)[1] = Contents(b)[8 + 1]
    BY <1>3, <2>1, FieldAtByte
  <2> QED
    BY <1>3, <2>1, <2>2
<1>5. header.pkg_type = PkgType(body) /\ header.len = l
  BY <1>4 DEF Header
<1>6. readable_bytes(ids) = readable_bytes(b) - 8 /\ readable_bytes(b) \in Nat
  <2>1. readable_bytes(b) \in Nat
    BY <1>3, ContentsBytes
  <2> HIDE DEF n, l
  <2>2. 8 \in Nat /\ 8 <= readable_bytes(b)
    BY <1>2, <1>3, <2>1
  <2> QED
    BY <1>3, <2>1, <2>2, AdvanceReadable
<1>7. /\ mk \in Seq(MessageByte) /\ Len(mk) = 2
      /\ mk[1][1] = [protocol |-> "TCP", pkg_type |-> PkgType(body)]
      /\ mk[2][1] = m.client_msg
  <2>1. header.pkg_type \in PkgTypes /\ message.head.client_msg \in FieldValue
    BY <1>1, <1>2, <1>5 DEF HeadType
  <2>2. mk = Marks(header) /\ m.client_msg = message.head.client_msg
    OBVIOUS
  <2> HIDE DEF mk, m, header
  <2>3. mk \in Seq(MessageByte) /\ Len(mk) = 2
    BY <2>1, <2>2, MarksAreBytes
  <2>4. mk[1][1] = [protocol |-> "TCP", pkg_type |-> header.pkg_type]
    BY <2>1, <2>2, MarksAreBytes
  <2>5. mk[2][1] = message.head.client_msg
    BY <2>1, <2>2, MarksAreBytes
  <2> QED
    BY <1>5, <2>2, <2>3, <2>4, <2>5
<1>8. /\ stage = "sent"
      /\ \/ /\ readable_bytes(ids) - LenSize(header.pkg_type) = header.len
            /\ d = set_read_idx(set_write_idx(y, b.write_index), b.read_index)
            /\ stage' = "unpacked"
         \/ /\ d = copy(copy(copy(reset(Fresh), Foremost(b, 8)),
                             mk \o Field(0, LenSize(header.pkg_type) - 2)),
                        Foremost(Advance(ids, LenSize(header.pkg_type)), header.len))
            /\ stage' = "unpacked"
         \/ readable_bytes(ids) - LenSize(header.pkg_type) < header.len \/ header.len = 0
  BY DEF HandlePack, Field
<1>9. LenSize(header.pkg_type) = n
  BY <1>5
<1>i. ids = Advance(b, 8)
  OBVIOUS
<1>y. y = copy(set_write_idx(ids, ids.read_index), mk)
  OBVIOUS
<1>n. n = LenSize(PkgType(body)) /\ l = Length(m, body)
  OBVIOUS
<1> HIDE DEF header, n, l, mk, y, ids, d, b, m, body
<1>10. Unpacked(d, m, body) /\ stage' = "unpacked"
  <2>1. CASE /\ readable_bytes(ids) - n = l /\ stage' = "unpacked"
             /\ d = set_read_idx(set_write_idx(y, b.write_index), b.read_index)
    <3>1. readable_bytes(b) = 8 + LenSize(PkgType(body)) + Length(m, body)
      BY <1>2, <1>6, <1>n, <2>1
    <3>2. /\ body \in Seq(MessageByte) /\ Addressed(b, m, body)
          /\ FromClient(m) \/ FromServer(m)
      BY <1>1
    <3>3. d = set_read_idx(set_write_idx(y, b.write_index), b.read_index)
      BY <2>1
    <3>4. Unpacked(d, m, body)
      BY <1>7, <1>i, <1>y, <3>1, <3>2, <3>3, UnpackedInPlace
    <3> QED
      BY <2>1, <3>4
  <2>2. CASE /\ d = copy(copy(copy(reset(Fresh), Foremost(b, 8)),
                              mk \o Field(0, n - 2)),
                         Foremost(Advance(ids, n), l))
             /\ stage' = "unpacked"
    <3>1. /\ body \in Seq(MessageByte) /\ Addressed(b, m, body)
          /\ FromClient(m) \/ FromServer(m)
      BY <1>1
    <3>2. Unpacked(d, m, body)
      BY <1>7, <1>i, <1>n, <2>2, <3>1, UnpackedInCopy
    <3> QED
      BY <2>2, <3>2
  <2>3. ~ (readable_bytes(ids) - n < l \/ l = 0)
    BY <1>2, <1>3, <1>6
  <2> QED
    BY <1>5, <1>8, <1>9, <2>1, <2>2, <2>3
<1>11. message' = message
  BY <1>1
<1> QED
  BY <1>1, <1>10, <1>11 DEF MessageKept, d, m, body

LEMMA HeadsEqual ==
    ASSUME NEW h \in HeadType, NEW g \in HeadType,
           h.eid = g.eid, h.cid = g.cid, h.protocol = g.protocol, h.pkg_type = g.pkg_type,
           h.client_msg = g.client_msg, h.msg_id = g.msg_id, h.msg_type = g.msg_type,
           h.sid = g.sid
    PROVE  h = g
  BY DEF HeadType

\* What is behind the head once it is read.
LEMMA BodyIsLeft ==
    ASSUME NEW r, InOrder(r, MessageByte), NEW body \in Seq(MessageByte),
           NEW k \in Nat, readable_bytes(r) = k + Len(body),
           \A i \in 1 .. Len(body) : Contents(r)[k + i] = body[i],
           NEW a, a = Advance(r, k)
    PROVE  InOrder(a, MessageByte) /\ Contents(a) = body
<1> DEFINE n == Len(body)  c == Contents(a)
<1>1. n \in Nat
  BY LenProperties
<1>2. k <= readable_bytes(r) /\ readable_bytes(r) - k = n
  BY <1>1
<1>3. InOrder(a, MessageByte) /\ readable_bytes(a) = n
  <2>1. InOrder(a, MessageByte) /\ readable_bytes(a) = readable_bytes(r) - k
    BY <1>2, AdvancedBytes
  <2> QED
    BY <1>2, <2>1
<1>4. \A i \in 1 .. n : c[i] = body[i]
  <2>1. \A i \in 1 .. (readable_bytes(r) - k) : c[i] = Contents(r)[k + i]
    BY <1>2, AdvancedBytes
  <2> QED
    BY <1>2, <2>1
<1>5. c \in Seq(MessageByte) /\ Len(c) = n
  BY <1>3, ContentsBytes
<1> HIDE DEF c
<1>6. c = body
  BY <1>4, <1>5, SeqEqual
<1> QED
  BY <1>3, <1>6 DEF c

LEMMA ReadHeadKeeps == ASSUME MessageKept, ReadHead PROVE MessageKept'
<1> DEFINE m == message.head  body == message.body  b == carrier  c == Contents(b)
           marks == FieldAt(b, 8, 1)
           n == LenSize(PkgType(body))  l == Length(m, body)
           rest == Advance(b, 8 + n)  z == Contents(rest)
           head == [NoHead EXCEPT
                       !.eid = FieldAt(b, 0, 4), !.cid = FieldAt(b, 4, 4),
                       !.protocol = marks.protocol, !.pkg_type = marks.pkg_type,
                       !.client_msg = FieldAt(b, 9, 1), !.msg_id = FieldAt(rest, 0, 1)]
<1>1. /\ message \in [head : HeadType, body : Seq(MessageByte)]
      /\ m \in HeadType /\ body \in Seq(MessageByte)
      /\ FromClient(m) \/ FromServer(m)
      /\ m.protocol = "TCP" /\ m.pkg_type = PkgType(body)
      /\ Unpacked(b, m, body) /\ message' = message /\ stage' = "read"
  BY DEF MessageKept, ReadHead
<1>2. /\ n \in {2, 4} /\ l \in Nat /\ l > 0 /\ PkgType(body) \in PkgTypes
      /\ Len(body) \in Nat
  BY <1>1, Lengths
<1>3. /\ InOrder(b, MessageByte) /\ readable_bytes(b) = 8 + n + l
      /\ c[1][1] = m.eid /\ c[5][1] = m.cid
      /\ c[9][1] = [protocol |-> "TCP", pkg_type |-> PkgType(body)]
      /\ c[10][1] = m.client_msg
      /\ HasRest(c, 8 + n, m, body)
  BY <1>1 DEF Unpacked
<1>m. marks = [protocol |-> "TCP", pkg_type |-> PkgType(body)]
  <2> HIDE DEF n, l
  <2>1. 8 \in Nat /\ 1 \in Nat \ {0} /\ 8 + 1 <= readable_bytes(b) /\ 8 + 1 = 9
    BY <1>2, <1>3
  <2>2. FieldAt(b, 8, 1) = c[8 + 1][1]
    BY <1>3, <2>1, FieldAtByte
  <2> QED
    BY <1>3, <2>1, <2>2
<1>4. /\ FieldAt(b, 0, 4) = m.eid /\ FieldAt(b, 4, 4) = m.cid
      /\ FieldAt(b, 9, 1) = m.client_msg
  <2> HIDE DEF n, l
  <2>1. /\ 0 \in Nat /\ 4 \in Nat \ {0} /\ 4 \in Nat /\ 9 \in Nat /\ 1 \in Nat \ {0}
        /\ 0 + 4 <= readable_bytes(b) /\ 4 + 4 <= readable_bytes(b)
        /\ 9 + 1 <= readable_bytes(b) /\ 0 + 1 = 1 /\ 4 + 1 = 5 /\ 9 + 1 = 10
    BY <1>2, <1>3
  <2>2. FieldAt(b, 0, 4) = c[0 + 1][1]
    BY <1>3, <2>1, FieldAtByte
  <2>3. FieldAt(b, 4, 4) = c[4 + 1][1]
    BY <1>3, <2>1, FieldAtByte
  <2>4. FieldAt(b, 9, 1) = c[9 + 1][1]
    BY <1>3, <2>1, FieldAtByte
  <2> QED
    BY <1>3, <2>1, <2>2, <2>3, <2>4
<1>5. /\ IF head.client_msg = 1
         THEN /\ msg_head' = [head EXCEPT !.msg_type = "TCP_C2S"]
              /\ carrier' = Advance(rest, 1)
         ELSE /\ msg_head' = [head EXCEPT !.msg_type = FieldAt(rest, 1, 1), !.sid = FieldAt(rest, 2, 4)]
              /\ carrier' = Advance(rest, 6)
  <2>1. marks.pkg_type = PkgType(body)
    BY <1>m
  <2>2. 10 + LenSize(marks.pkg_type) - 2 = 8 + n
    BY <1>2, <2>1
  <2> QED
    BY <2>2 DEF ReadHead
<1> HIDE DEF marks
<1>r. rest = Advance(b, 8 + n)
  OBVIOUS
<1>l. l = IdsSize(m) + Len(body)
  BY DEF Length
<1> HIDE DEF rest, n, l
<1>6. InOrder(rest, MessageByte) /\ readable_bytes(rest) = l
      /\ \A i \in 1 .. l : z[i] = c[(8 + n) + i]
  <2>1. 8 + n \in Nat /\ 8 + n <= readable_bytes(b) /\ readable_bytes(b) - (8 + n) = l
    BY <1>2, <1>3
  <2>2. InOrder(rest, MessageByte) /\ readable_bytes(rest) = readable_bytes(b) - (8 + n)
    BY <1>3, <1>r, <2>1, AdvancedBytes
  <2>3. \A i \in 1 .. (readable_bytes(b) - (8 + n)) : z[i] = c[(8 + n) + i]
    BY <1>3, <1>r, <2>1, AdvancedBytes
  <2> QED
    BY <2>1, <2>2, <2>3
<1>7. FieldAt(rest, 0, 1) = m.msg_id
  <2>1. 0 \in Nat /\ 1 \in Nat \ {0} /\ 0 + 1 <= readable_bytes(rest) /\ 0 + 1 = 1 /\ 1 \in 1 .. l
    BY <1>2, <1>6
  <2>2. FieldAt(rest, 0, 1) = z[0 + 1][1]
    BY <1>6, <2>1, FieldAtByte
  <2> QED
    BY <1>3, <1>6, <2>1, <2>2 DEF HasRest
<1>h. /\ head.eid = m.eid /\ head.cid = m.cid /\ head.protocol = m.protocol
      /\ head.pkg_type = m.pkg_type /\ head.client_msg = m.client_msg
      /\ head.msg_id = m.msg_id /\ head.sid = 0 /\ head \in HeadType
  <2>0. NoHead \in HeadType /\ NoHead.sid = 0
    BY NoHeadIsHead DEF NoHead
  <2>1. marks.protocol = m.protocol /\ marks.pkg_type = m.pkg_type
    BY <1>1, <1>m
  <2>2. head = [NoHead EXCEPT !.eid = m.eid, !.cid = m.cid, !.protocol = m.protocol,
                   !.pkg_type = m.pkg_type, !.client_msg = m.client_msg, !.msg_id = m.msg_id]
    BY <1>4, <1>7, <2>1
  <2> HIDE DEF head, m
  <2> QED
    BY <1>1, <2>0, <2>2 DEF HeadType
<1> HIDE DEF head, z, c
<1>8. CASE m.client_msg = 1
  <2>1. m.msg_type = "TCP_C2S" /\ m.sid = 0 /\ IdsSize(m) = 1
    BY <1>1, <1>8 DEF FromClient, FromServer, IdsSize
  <2>2. msg_head' = [head EXCEPT !.msg_type = "TCP_C2S"] /\ carrier' = Advance(rest, 1)
    BY <1>5, <1>8, <1>h
  <2>3. "TCP_C2S" \in FieldValue
    BY DEF FieldValue
  <2>4. msg_head' \in HeadType /\ msg_head' = m
    <3> HIDE DEF m
    <3>1. /\ msg_head'.eid = head.eid /\ msg_head'.cid = head.cid
          /\ msg_head'.protocol = head.protocol /\ msg_head'.pkg_type = head.pkg_type
          /\ msg_head'.client_msg = head.client_msg /\ msg_head'.msg_id = head.msg_id
          /\ msg_head'.msg_type = "TCP_C2S" /\ msg_head'.sid = head.sid
          /\ msg_head' \in HeadType
      BY <1>h, <2>2, <2>3 DEF HeadType
    <3> QED
      BY <1>1, <1>h, <2>1, <3>1, HeadsEqual
  <2>5. InOrder(carrier', MessageByte) /\ Contents(carrier') = body
    <3>1. /\ 1 \in Nat /\ readable_bytes(rest) = 1 + Len(body) /\ body \in Seq(MessageByte)
      BY <1>1, <1>6, <1>l, <2>1
    <3>2. \A i \in 1 .. Len(body) : z[1 + i] = body[i]
      <4> TAKE i \in 1 .. Len(body)
      <4>1. 1 + i \in 1 .. l /\ (8 + n) + (1 + i) = (8 + n) + 1 + i
        BY <1>2, <1>l, <2>1
      <4>2. c[(8 + n) + 1 + i] = body[i]
        BY <1>3, <2>1 DEF HasRest
      <4> QED
        BY <1>6, <4>1, <4>2
    <3> QED
      BY <1>6, <2>2, <3>1, <3>2, BodyIsLeft DEF z
  <2> QED
    BY <1>1, <2>4, <2>5 DEF MessageKept, m, body
<1>9. CASE m.client_msg # 1
  <2>1. m.client_msg = 0 /\ IdsSize(m) = 6
    BY <1>1, <1>9 DEF FromClient, FromServer, IdsSize
  <2>f. FieldAt(rest, 1, 1) = m.msg_type /\ FieldAt(rest, 2, 4) = m.sid
    <3>1. /\ 1 \in Nat /\ 1 \in Nat \ {0} /\ 1 + 1 <= readable_bytes(rest)
          /\ 2 \in Nat /\ 4 \in Nat \ {0} /\ 2 + 4 <= readable_bytes(rest)
          /\ 1 + 1 = 2 /\ 2 + 1 = 3 /\ 2 \in 1 .. l /\ 3 \in 1 .. l
      BY <1>2, <1>6, <1>l, <2>1
    <3>2. FieldAt(rest, 1, 1) = z[1 + 1][1]
      BY <1>6, <3>1, FieldAtByte DEF z
    <3>3. FieldAt(rest, 2, 4) = z[2 + 1][1]
      BY <1>6, <3>1, FieldAtByte DEF z
    <3>4. c[(8 + n) + 2][1] = m.msg_type /\ c[(8 + n) + 3][1] = m.sid
      BY <1>3, <2>1 DEF HasRest
    <3> QED
      BY <1>6, <3>1, <3>2, <3>3, <3>4
  <2>2. msg_head' = [head EXCEPT !.msg_type = m.msg_type, !.sid = m.sid]
        /\ carrier' = Advance(rest, 6)
    BY <1>5, <1>9, <1>h, <2>f
  <2>4. msg_head' \in HeadType /\ msg_head' = m
    <3>0. m.msg_type \in FieldValue /\ m.sid \in FieldValue
      BY <1>1 DEF HeadType
    <3> HIDE DEF m
    <3>1. /\ msg_head'.eid = head.eid /\ msg_head'.cid = head.cid
          /\ msg_head'.protocol = head.protocol /\ msg_head'.pkg_type = head.pkg_type
          /\ msg_head'.client_msg = head.client_msg /\ msg_head'.msg_id = head.msg_id
          /\ msg_head'.msg_type = m.msg_type /\ msg_head'.sid = m.sid
          /\ msg_head' \in HeadType
      BY <1>h, <2>2, <3>0 DEF HeadType
    <3> QED
      BY <1>1, <1>h, <3>1, HeadsEqual
  <2>5. InOrder(carrier', MessageByte) /\ Contents(carrier') = body
    <3>1. /\ 6 \in Nat /\ readable_bytes(rest) = 6 + Len(body) /\ body \in Seq(MessageByte)
      BY <1>1, <1>6, <1>l, <2>1
    <3>2. \A i \in 1 .. Len(body) : z[6 + i] = body[i]
      <4> TAKE i \in 1 .. Len(body)
      <4>1. 6 + i \in 1 .. l /\ (8 + n) + (6 + i) = (8 + n) + 6 + i
        BY <1>2, <1>l, <2>1
      <4>2. c[(8 + n) + 6 + i] = body[i]
        BY <1>3, <2>1 DEF HasRest
      <4> QED
        BY <1>6, <4>1, <4>2
    <3> QED
      BY <1>6, <2>2, <3>1, <3>2, BodyIsLeft DEF z
  <2> QED
    BY <1>1, <2>4, <2>5 DEF MessageKept, m, body
<1> QED
  BY <1>8, <1>9

LEMMA MessageKeptStep == MessageKept /\ [Next]_vars => MessageKept'
<1> SUFFICES ASSUME MessageKept, [Next]_vars PROVE MessageKept'
  OBVIOUS
<1>1. CASE UseBuffers
  BY <1>1 DEF UseBuffers, message_vars, MessageKept
<1>2. CASE CarryMessages
  BY <1>2, ServerWritesKeeps, ClientWritesKeeps, CrossKeeps, HandlePackKeeps,
     ReadHeadKeeps, TransmitKeeps, RecycleKeeps DEF CarryMessages
<1>3. CASE UNCHANGED vars
  BY <1>3 DEF vars, message_vars, MessageKept
<1> QED
  BY <1>1, <1>2, <1>3 DEF Next

(***************************************************************************)
(* Whatever is written is read at the other end: head and body, whatever   *)
(* the sizes, ids and bodies.                                              *)
(***************************************************************************)
THEOREM MessagesAlwaysArrive == Spec => []MessageArrives
<1>1. Init => MessageKept
  <2>1. << >> \in Seq(MessageByte)
    OBVIOUS
  <2> QED
    BY <2>1, NoHeadIsHead DEF Init, MessageKept
<1> QED
  BY <1>1, MessageKeptStep, KeptMeansArrives, PTL DEF Spec
=============================================================================
